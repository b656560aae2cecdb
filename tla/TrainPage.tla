----------------------------- MODULE TrainPage -----------------------------
(***************************************************************************)
(* The training page of the text-clustering service (static/script.js      *)
(* 38-110, templates/index.html 36-47) in front of TrainService: the user  *)
(* adds upload points, fills them in, clears them and clicks train, as     *)
(* often as it likes; nothing stops a click while a training is running.   *)
(*                                                                         *)
(* An upload point is the file chosen in it ({} for none) and the type     *)
(* name typed next to it.                                                  *)
(***************************************************************************)
EXTENDS TrainService, Sequences

CONSTANTS
  ModelType,   \* the type name that reads like the model's name
  Points,      \* the upload points a user may fill in
  MaxRows      \* bound: upload points on the page

ASSUME ModelNameIsType == ModelType \in Types
ASSUME RowsFit == MaxRows \in Nat /\ MaxRows < MaxCount

VARIABLES
  rows,          \* the upload points, in the order of the page
  sampleCount,   \* script.js:39
  named,         \* does the model name the user typed pass app.py:21?
  shown          \* shown[r]: the upload points as they were when r was sent

page == <<rows, sampleCount, named>>
pvars == <<vars, page, shown>>

Row == [file : Archive, type : Types \union {BadType}]

ASSUME PointsAreRows == Points \subseteq Row

PTypeOK ==
  /\ TypeOK
  /\ rows \in Seq(Row) /\ Len(rows) <= MaxRows
  /\ sampleCount \in 0 .. MaxRows + 1
  /\ named \in BOOLEAN
  /\ shown \in [Requests -> Seq(Row)]

PInit ==
  /\ Init
  /\ rows = <<>> /\ sampleCount = 1 /\ named \in BOOLEAN
  /\ shown = [r \in Requests |-> <<>>]

\* Faulty variant: a new point is not counted.
AddSampleUncounted(row) ==
  /\ Len(rows) < MaxRows
  /\ rows' = Append(rows, row)
  /\ UNCHANGED <<vars, sampleCount, named, shown>>

(* script.js:41-64; the point is filled in before anything else is done.   *)
AddSample(row) ==
  /\ Len(rows) < MaxRows
  /\ rows' = Append(rows, row)
  /\ sampleCount' = sampleCount + 1
  /\ UNCHANGED <<vars, named, shown>>

(* script.js:68-71                                                         *)
ClearSamples ==
  /\ rows' = <<>>
  /\ sampleCount' = 0
  /\ UNCHANGED <<vars, named, shown>>

(* script.js:77-92: files and type names are looked up by their position   *)
(* among all file inputs and all text inputs of the page, and the first    *)
(* text input of the page is the model name's.                             *)
TextInput(i) == IF i = 0 THEN ModelType ELSE rows[i].type
FileInput(i) == rows[i + 1].file

\* Faulty variant: also what has no file is posted.
PostedAll ==
  [named |-> named, count |-> sampleCount,
   file |-> [i \in Index |-> IF i < Len(rows) THEN FileInput(i) ELSE {}],
   type |-> [i \in Index |-> IF i < Len(rows) THEN TextInput(i) ELSE NoType]]

Posted ==
  [named |-> named, count |-> sampleCount,
   file |-> [i \in Index |-> IF i < Len(rows) THEN FileInput(i) ELSE {}],
   type |-> [i \in Index |-> IF i < Len(rows) /\ FileInput(i) # {}
                             THEN TextInput(i) ELSE NoType]]

(* script.js:94-99                                                         *)
Click(r) ==
  /\ Arrive(r, Posted)
  /\ shown' = [shown EXCEPT ![r] = rows]
  /\ UNCHANGED page

PNext ==
  \/ \E row \in Points : AddSample(row)
  \/ ClearSamples
  \/ \E r \in Requests : Click(r)
  \/ (\E r \in Requests : Step(r)) /\ UNCHANGED <<page, shown>>
  \/ Crash /\ UNCHANGED <<page, shown>>

PSpec == PInit /\ [][PNext]_pvars

-----------------------------------------------------------------------------
(* What the page posts is what the service is checked for: file and type   *)
(* of a sample travel together, and none has a number the count leaves out *)
(* (script.js:81-96 against app.py:28-40).                                 *)
Paired(f) == \A i \in Index : /\ f.file[i] = {} <=> f.type[i] = NoType
                              /\ i >= f.count => f.file[i] = {}
PostsArePaired == \A r \in Requests : Paired(form[r])

(* The counter starts one ahead of the page (script.js:39), so only a page *)
(* that was cleared before its points were added can train (app.py:34-36). *)
OnlyClearedPagesTrain ==
  \A r \in Requests : answer[r] = "trained" => form[r].count = Len(shown[r])

(* script.js:56, 69, 89: a point's text input names the type of its file.  *)
TypesAreTheirs ==
  \A r \in Requests : \A i \in 0 .. Len(shown[r]) - 1 :
     shown[r][i + 1].file # {} => form[r].type[i] = shown[r][i + 1].type

=============================================================================
