\* Both kinds of network: one that hands lines over whole, up to the size of
\* the buffer, and one that cuts them anywhere.  Replies to three fetches, and
\* three reloads, may overtake one another.
SPECIFICATION MCSpec
CONSTANTS
  Jobs = {"location", "courses", "models", "form"}
  Lines <- MCLines
  BUFF_SIZE = 3
  Courses = {c1, c2}
  Orders = {"name", "credits"}
  First = "name"
  MaxFetches = 3
  MaxSelects = 3
  Models = {m1, m2}
  MaxReloads = 3
  Users = {u1, u2}
  Names = {"plain", "admin"}
  Refused = {"admin"}
  MaxRuns = 3
CHECK_DEADLOCK FALSE
INVARIANTS
  AnswersWhatWasSaid
  AwardIsDeserved
  SelectedOnce
  BoxIsOfReloads
  ReadWhileItLives
PROPERTIES
  TalkersAreAnswered
  ConversationEnds
