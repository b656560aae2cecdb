--------------------------- MODULE LocationService ---------------------------
(***************************************************************************)
(* The location service (Misc/lunar/chall.py): one connection of it, since *)
(* every connection is served by a process of its own (chall.py:115).      *)
(* The client waits for each prompt before it says its next line, as       *)
(* std.py:21-24 does, and may leave at any time.                           *)
(*                                                                         *)
(* What is said is a sequence of tokens; a token stands for a run of bytes *)
(* that recv does not cut.                                                 *)
(***************************************************************************)
EXTENDS Integers, SequencesExt

CONSTANTS
  Lines,       \* what a client may say to a prompt
  BUFF_SIZE    \* chall.py:37, in tokens

ASSUME BuffSizeIsPositive == BUFF_SIZE \in Nat \ {0}

Blank == {" ", "\n"}
Near == {"75", "76", "77", "78", "79", "80", "81", "82", "83", "84", "85"}
Tokens == Blank \union Near \union
          {"1", "2", ",", "-33.888", "151.19", "74", "86", "other"}

ASSUME LinesAreTokens == Lines \subseteq Seq(Tokens) \ {<<>>}

VARIABLES
  pc,        \* where handle() is
  prompts,   \* how many prompts were sent
  said,      \* the lines the client said
  stream,    \* what of them is still to be received
  left,      \* the client has closed its end
  data,      \* _recvall's data
  heard,     \* what the calls of _recvall returned
  reply,     \* the last thing the client is told
  cuts       \* may this network hand over a line in parts?

vars == <<pc, prompts, said, stream, left, data, heard, reply, cuts>>

Replies == {"none", "award", "bad wingman", "stay away"}

TypeOK ==
  /\ pc \in {"greet", "option", "location", "done"}
  /\ prompts \in 0 .. 2
  /\ said \in Seq(Lines) /\ Len(said) <= prompts
  /\ stream \in Seq(Tokens) /\ data \in Seq(Tokens)
  /\ left \in BOOLEAN
  /\ heard \in Seq(Seq(Tokens)) /\ Len(heard) <= 2
  /\ reply \in Replies /\ cuts \in BOOLEAN

Init ==
  /\ pc = "greet" /\ prompts = 0
  /\ said = <<>> /\ stream = <<>> /\ left = FALSE
  /\ data = <<>> /\ heard = <<>>
  /\ reply = "none" /\ cuts \in BOOLEAN

-----------------------------------------------------------------------------
(* bytes.strip (chall.py:44)                                               *)
Inked(s) == {i \in DOMAIN s : s[i] \notin Blank}
Strip(s) == IF Inked(s) = {} THEN <<>> ELSE SubSeq(s, Min(Inked(s)), Max(Inked(s)))

(* chall.py:72-86: exactly one comma, the latitude's beginning before it,  *)
(* the longitude's right behind it and two digits of the right range next. *)
Commas(s) == {i \in DOMAIN s : s[i] = ","}
Check(s) ==
  \E c \in DOMAIN s :
    /\ Commas(s) = {c} /\ c > 1 /\ s[1] = "-33.888"
    /\ Len(s) >= c + 2 /\ s[c + 1] = "151.19" /\ s[c + 2] \in Near

(* chall.py:93-97: the banner, the menu and the first prompt.              *)
Greet ==
  /\ pc = "greet"
  /\ prompts' = 1 /\ pc' = "option"
  /\ UNCHANGED <<said, stream, left, data, heard, reply, cuts>>

(* chall.py:36-44: parts are received until one is shorter than the buffer; *)
(* a client that left makes an empty one.  The caller gets all of them.    *)
Part(n) == SubSeq(stream, 1, n)
PartSizes ==
  LET most == IF Len(stream) < BUFF_SIZE THEN Len(stream) ELSE BUFF_SIZE
  IN  IF stream = <<>> THEN IF left THEN {0} ELSE {}
      ELSE IF cuts THEN 1 .. most ELSE {most}

\* Faulty variant: only an empty part ends a line.
CompleteWhenEmpty(n) == n = 0
\* Faulty variant: an empty part does not end a line.
CompleteUnlessEmpty(n) == n \in 1 .. BUFF_SIZE - 1
Complete(n) == n < BUFF_SIZE

\* Faulty variant: parts are put in front of those received before.
ReceivePrepending(n) ==
  /\ stream' = SubSeq(stream, n + 1, Len(stream))
  /\ data' = IF Complete(n) THEN <<>> ELSE Part(n) \o data
  /\ heard' = IF Complete(n) THEN Append(heard, Strip(Part(n) \o data)) ELSE heard

Receive(n) ==
  /\ stream' = SubSeq(stream, n + 1, Len(stream))
  /\ data' = IF Complete(n) THEN <<>> ELSE data \o Part(n)
  /\ heard' = IF Complete(n) THEN Append(heard, Strip(data \o Part(n))) ELSE heard

(* chall.py:97-112                                                         *)
HearOption(n) ==
  /\ pc = "option"
  /\ Receive(n)
  /\ IF ~ Complete(n) THEN UNCHANGED <<pc, prompts, reply>>
     ELSE \/ /\ Last(heard') = <<"1">>
             /\ pc' = "location" /\ prompts' = 2 /\ UNCHANGED reply
          \/ /\ Last(heard') = <<"2">>
             /\ pc' = "done" /\ reply' = "stay away" /\ UNCHANGED prompts
          \/ /\ Last(heard') \notin {<<"1">>, <<"2">>}
             /\ pc' = "done" /\ UNCHANGED <<prompts, reply>>
  /\ UNCHANGED <<said, left, cuts>>

(* chall.py:99-109                                                         *)
HearLocation(n) ==
  /\ pc = "location"
  /\ Receive(n)
  /\ IF ~ Complete(n) THEN UNCHANGED <<pc, reply>>
     ELSE /\ pc' = "done"
          /\ reply' = IF Check(Last(heard')) THEN "award" ELSE "bad wingman"
  /\ UNCHANGED <<prompts, said, left, cuts>>

(* A client that is gone for good makes recv raise instead (chall.py:108).  *)
Reset ==
  /\ left /\ pc \in {"option", "location"}
  /\ pc' = "done"
  /\ UNCHANGED <<prompts, said, stream, left, data, heard, reply, cuts>>

Serve == Greet \/ \E n \in PartSizes : HearOption(n) \/ HearLocation(n)

(* std.py:21-25                                                            *)
Say(line) ==
  /\ ~ left /\ pc # "done" /\ Len(said) < prompts
  /\ said' = Append(said, line)
  /\ stream' = stream \o line
  /\ UNCHANGED <<pc, prompts, left, data, heard, reply, cuts>>

Leave ==
  /\ ~ left /\ pc # "done"
  /\ left' = TRUE
  /\ UNCHANGED <<pc, prompts, said, stream, data, heard, reply, cuts>>

Next == Serve \/ Reset \/ (\E line \in Lines : Say(line)) \/ Leave

Spec == Init /\ [][Next]_vars
FairSpec == Spec /\ WF_vars(Serve) /\ WF_vars(\E line \in Lines : Say(line))

-----------------------------------------------------------------------------
(* Where no line is cut, the answer is the one to the lines that were said *)
(* to the two prompts, however long they are (chall.py:39-44, 97-112).     *)
Answer(lines) ==
  IF lines = <<>> THEN "none"
  ELSE IF Strip(lines[1]) = <<"2">> THEN "stay away"
  ELSE IF Strip(lines[1]) # <<"1">> THEN "none"
  ELSE IF Len(lines) = 2 /\ Check(Strip(lines[2])) THEN "award" ELSE "bad wingman"
AnswersWhatWasSaid ==
  pc = "done" /\ ~ cuts => reply = Answer(said) \/ (left /\ reply = "none")

(* Wherever lines are cut, an award is for a location all of which the     *)
(* client said, in this order and without a gap.                           *)
Everything == FlattenSeq(said)
AwardIsDeserved ==
  reply = "award" =>
    \E i, j \in 1 .. Len(Everything) : Check(SubSeq(Everything, i, j))

(* Where no line is cut, a client that stays is answered once it has said  *)
(* its lines, except that a line that fills the buffer exactly waits for   *)
(* more (chall.py:42).                                                     *)
FillsBuffer(line) == Len(line) % BUFF_SIZE = 0
TalkersAreAnswered ==
  <>(pc = "done" \/ left \/ cuts \/ \E i \in DOMAIN said : FillsBuffer(said[i]))

(* Each conversation ends once the client has left (chall.py:40-43).       *)
ConversationEnds == left ~> pc = "done"

=============================================================================
