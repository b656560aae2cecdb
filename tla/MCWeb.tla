-------------------------------- MODULE MCWeb --------------------------------
(***************************************************************************)
(* Four services with a client each, one per job: a connection of the      *)
(* location service, the course page, the classification page and the form *)
(* that enciphers.  They share nothing; in the other jobs the connection   *)
(* is over.                                                                *)
(***************************************************************************)
EXTENDS LocationService

CONSTANTS Jobs, Courses, Orders, First, MaxFetches, MaxSelects, Models, MaxReloads,
  Users, Names, Refused, MaxRuns

VARIABLES job,
  sortOrder, sent, inFlight, answered, selected,    \* CoursePage
  file, dumping, reloads, box, click,               \* ModelPage
  run, key, pages, view                             \* CipherForm

K == INSTANCE CoursePage
M == INSTANCE ModelPage
C == INSTANCE CipherForm

courseVars == <<sortOrder, sent, inFlight, answered, selected>>
modelVars == <<file, dumping, reloads, box, click>>
formVars == <<run, key, pages, view>>

(* A connection that the client has left at the first prompt.              *)
Over ==
  /\ pc = "done" /\ prompts = 1 /\ said = <<>> /\ stream = <<>> /\ left = TRUE
  /\ data = <<>> /\ heard = <<>> /\ reply = "none" /\ cuts = FALSE

MCInit ==
  /\ job \in Jobs
  /\ IF job = "location" THEN Init ELSE Over
  /\ K!Init
  /\ M!Init /\ (job # "models" => file = [m \in Models |-> "absent"])
  /\ C!Init

MCNext ==
  /\ UNCHANGED job
  /\ \/ job = "location" /\ Next /\ UNCHANGED <<courseVars, modelVars, formVars>>
     \/ job = "courses" /\ K!Next /\ UNCHANGED <<vars, modelVars, formVars>>
     \/ job = "models" /\ M!Next /\ UNCHANGED <<vars, courseVars, formVars>>
     \/ job = "form" /\ C!Next /\ UNCHANGED <<vars, courseVars, modelVars>>

MCSpec ==
  /\ MCInit /\ [][MCNext]_<<job, vars, courseVars, modelVars, formVars>>
  /\ WF_vars(Serve) /\ WF_vars(\E line \in Lines : Say(line))

-----------------------------------------------------------------------------
(* Lines shorter than the buffer, as long, twice as long and in between.   *)
MCLines == {
  <<"1", "\n">>, <<"1">>, <<"2", "\n">>, <<"\n">>, <<" ", "1", "\n">>, <<"1", "2", "\n">>,
  <<"-33.888", "other", ",", " ", "151.19", "81", "other", "\n">>,  \* std.py:23
  <<"-33.888", ",", "151.19", "74", "\n">>, <<"-33.888", ",", "151.19", "75", "\n">>,
  <<"-33.888", ",", "151.19", "85", "other", "\n">>,
  <<"-33.888", ",", "151.19", "86", "\n">>, <<"-33.888", ",", "151.19", "80", ",", "other", "\n">>,
  <<"-33.888", "other", ",", "151.19", "\n">>,
  <<",", "151.19", "80", "-33.888", "\n">> }

-----------------------------------------------------------------------------
(* No course is selected twice (CoursePage).                               *)
SelectedOnce == K!SelectedOnce
(* The box of models is not older than its last reload and offers a model  *)
(* twice only where reloads overlapped (ModelPage).                        *)
BoxIsOfReloads == M!BoxIsOfReloads
(* A cipher is read as what was typed by the process that made it, and by  *)
(* no other (CipherForm).                                                  *)
ReadWhileItLives == C!ReadWhileItLives

=============================================================================
