------------------------------ MODULE ModelPage ------------------------------
(***************************************************************************)
(* The classification page of the text-clustering service (static/         *)
(* script.js 29-36, 112-166) and the two routes it calls, /getModels and   *)
(* /classify (app.py, ai.py).  The box of models is emptied and filled     *)
(* anew whenever the page is opened at classification; the list comes      *)
(* later, and nothing keeps a second reload from starting before that.     *)
(*                                                                         *)
(* A model's file is absent, in part (while it is dumped, or for good if   *)
(* that was cut off) or whole; TrainService has the dump in detail.        *)
(***************************************************************************)
EXTENDS Integers, FiniteSets, Sequences

CONSTANTS
  Models,       \* names of models
  MaxReloads    \* bound: how often the list is asked for

VARIABLES
  file,         \* file[m]: the file of model m in MODEL_DIR
  dumping,      \* models a training is writing
  reloads,      \* the reloads, in the order they were started
  box,          \* what is in modelSelect: models, each with its reload
  click         \* the last click on the classify button

vars == <<file, dumping, reloads, box, click>>

Files == {"absent", "part", "whole"}

(* A reload's state and list; known are the models there were, and during  *)
(* the reloads under way, when it was started.                             *)
Reload == [state : {"asked", "listed", "shown", "failed"}, list : SUBSET Models,
           known : SUBSET Models, during : SUBSET (1 .. MaxReloads)]
Asked == DOMAIN reloads
UnderWay == {n \in Asked : reloads[n].state \in {"asked", "listed"}}

(* chosen is the value of the box, at most one model.                      *)
Click == [state : {"none", "sent", "result", "failed"}, chosen : SUBSET Models]

TypeOK ==
  /\ file \in [Models -> Files]
  /\ dumping \subseteq {m \in Models : file[m] = "part"}
  /\ reloads \in Seq(Reload) /\ Len(reloads) <= MaxReloads
  /\ box \subseteq [model : Models, reload : Asked]
  /\ click \in Click

Present == {m \in Models : file[m] # "absent"}
NewReload ==
  [state |-> "asked", list |-> {}, known |-> Present, during |-> UnderWay]

(* script.js:140: the page asks for the list once as it loads.             *)
Init ==
  /\ file \in [Models -> {"absent", "whole"}]
  /\ dumping = {}
  /\ reloads = <<[state |-> "asked", list |-> {}, known |-> Present, during |-> {}]>>
  /\ box = {}
  /\ click = [state |-> "none", chosen |-> {}]

-----------------------------------------------------------------------------
\* The service.

(* ai.py:62-65: the dump empties the file and fills it, or is cut off.     *)
StartDump(m) ==
  /\ m \notin dumping
  /\ file' = [file EXCEPT ![m] = "part"]
  /\ dumping' = dumping \union {m}
  /\ UNCHANGED <<reloads, box, click>>

EndDump(m) ==
  /\ m \in dumping
  /\ file' = [file EXCEPT ![m] = "whole"]
  /\ dumping' = dumping \ {m}
  /\ UNCHANGED <<reloads, box, click>>

Crash ==
  /\ dumping # {}
  /\ dumping' = {}
  /\ UNCHANGED <<file, reloads, box, click>>

(* app.py:62-64: the files of the moment, whole or not.                    *)
GetModels(n) ==
  /\ reloads[n].state = "asked"
  /\ reloads' = [reloads EXCEPT ![n].state = "listed", ![n].list = Present]
  /\ UNCHANGED <<file, dumping, box, click>>

-----------------------------------------------------------------------------
\* The page.

(* script.js:29-36, 121-122: the box is emptied, then the list asked for.  *)
LoadModels ==
  /\ Len(reloads) < MaxReloads
  /\ reloads' = Append(reloads, NewReload)
  /\ box' = {}
  /\ UNCHANGED <<file, dumping, click>>

Options(n) == [model : reloads[n].list, reload : {n}]

\* Faulty variant: the box is emptied when the list is there.
ShowModelsAnew(n) ==
  /\ reloads[n].state = "listed"
  /\ reloads' = [reloads EXCEPT ![n].state = "shown"]
  /\ box' = Options(n)
  /\ UNCHANGED <<file, dumping, click>>

(* script.js:123-130: what came is added to what is there by now.          *)
ShowModels(n) ==
  /\ reloads[n].state = "listed"
  /\ reloads' = [reloads EXCEPT ![n].state = "shown"]
  /\ box' = box \union Options(n)
  /\ UNCHANGED <<file, dumping, click>>

(* script.js:131-136: a reload that fails adds nothing.                    *)
LoadFails(n) ==
  /\ reloads[n].state \in {"asked", "listed"}
  /\ reloads' = [reloads EXCEPT ![n].state = "failed"]
  /\ UNCHANGED <<file, dumping, box, click>>

LastReload == reloads[Len(reloads)]

(* script.js:143-155: the value of the box is that of one of its options,  *)
(* or the empty name if it has none.                                       *)
ClassifyClick ==
  /\ click.state # "sent"
  /\ \E chosen \in IF box = {} THEN {{}} ELSE {{x.model} : x \in box} :
       click' = [state |-> "sent", chosen |-> chosen]
  /\ UNCHANGED <<file, dumping, reloads, box>>

(* ai.py:68-72: the empty name is a directory, and a part does not unpickle. *)
CanClassify(chosen) == \E m \in chosen : file[m] = "whole"

(* app.py:54-60, script.js:157-162                                         *)
Classify ==
  /\ click.state = "sent"
  /\ click' = [click EXCEPT
                 !.state = IF CanClassify(click.chosen) THEN "result" ELSE "failed"]
  /\ UNCHANGED <<file, dumping, reloads, box>>

Next ==
  \/ \E m \in Models : StartDump(m) \/ EndDump(m)
  \/ Crash
  \/ LoadModels
  \/ \E n \in Asked : GetModels(n) \/ ShowModels(n) \/ LoadFails(n)
  \/ ClassifyClick \/ Classify

Spec == Init /\ [][Next]_vars

-----------------------------------------------------------------------------
(* Reloads may overtake one another (script.js:121-130), but once nothing  *)
(* is under way and the last did not fail, the box offers every model      *)
(* there was when that one was started; and a model is in the box twice    *)
(* only if two reloads overlapped: the second was started before the list  *)
(* of the first was shown.                                                 *)
NothingMissing ==
  UnderWay = {} /\ LastReload.state = "shown" =>
    LastReload.known \subseteq {x.model : x \in box}
CopiesAreOverlaps ==
  \A x, y \in box :
    x.model = y.model /\ x.reload < y.reload => x.reload \in reloads[y.reload].during
BoxIsOfReloads == NothingMissing /\ CopiesAreOverlaps

=============================================================================
