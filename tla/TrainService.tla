---------------------------- MODULE TrainService ----------------------------
(***************************************************************************)
(* POST /train of the text-clustering service (Web/text-clustering/build,  *)
(* app.py and ai.py) for ONE model name: every request works on the same   *)
(* upload directory and the same model file, and Flask runs requests in    *)
(* threads, so their steps interleave.                                     *)
(*                                                                         *)
(* The directory holds sample_i.zip files and one subdirectory per type.   *)
(* A text goes by the name of its file; an archive is the non-empty set of *)
(* texts in it, with one text for a name, and a subdirectory the set of    *)
(* texts extracted into it that none of the same name has overwritten (it  *)
(* exists when it has one).  The model file is two chunks, each carrying   *)
(* the request whose model was dumped.                                     *)
(***************************************************************************)
EXTENDS Integers, FiniteSets

CONSTANTS
  Requests,    \* the training requests of a run
  Texts,       \* the texts there are, each a file's name and its contents
  Name,        \* Name[x]: the name of x's file
  Types,       \* names of types without ".." in them
  Partial,     \* the content of a file no archive can be read from
  MaxCount,    \* bound: sampleCount is at most this
  Forms,       \* the forms that may be posted
  Overlap      \* may a request arrive while another is served?

ASSUME MaxCountIsNat == MaxCount \in Nat
ASSUME OverlapIsBool == Overlap \in BOOLEAN

None == "none"            \* no answer, no chunk
BadType == "bad type"     \* a type name with ".." in it
NoType == "no type"       \* a form field that is missing

ASSUME NamesDiffer ==
  /\ BadType \notin Types /\ NoType \notin Types
  /\ None \notin Requests /\ \A S \in SUBSET Texts : S # Partial

Index == 0 .. MaxCount - 1

(* The members of an archive have different names.                         *)
Archive == {a \in SUBSET Texts : \A x, y \in a : Name[x] = Name[y] => x = y}

(* What /train reads of a request (app.py:18-19, 29, 35); {} is no file.   *)
Form == [named : BOOLEAN, count : 0 .. MaxCount,
         file : [Index -> Archive],
         type : [Index -> Types \union {BadType, NoType}]]

NoForm == [named |-> FALSE, count |-> 0, file |-> [i \in Index |-> {}],
           type |-> [i \in Index |-> NoType]]

ASSUME FormsAreForms == Forms \subseteq Form

VARIABLES
  zip,      \* zip[i]: sample_i.zip - {} no such file, Partial, or an archive
  dir,      \* dir[t]: the texts under the subdirectory of type t
  pkl,      \* the model file: two chunks
  form,     \* form[r]: the request's form, once it arrived
  pc,       \* pc[r]: where the request is
  at,       \* at[r]: the loop variable i of app.py:28 and 34
  held,     \* held[r]: the archive the request has open (app.py:43)
  linked,   \* linked[r]: the file r has open still is sample_i.zip
  corpus,   \* corpus[r][t]: the texts r learned under label t (ai.py:29-42)
  answer    \* answer[r]: what the request was answered

files == <<zip, dir, pkl>>
vars == <<zip, dir, pkl, form, pc, at, held, linked, corpus, answer>>

Steps == {"idle", "save", "write", "next", "open", "extract", "remove",
          "dump", "flush", "done"}
Answers == {None, "trained", "bad name", "bad type", "error", "lost"}

TypeOK ==
  /\ zip \in [Index -> {Partial} \union SUBSET Texts]
  /\ dir \in [Types -> SUBSET Texts]
  /\ pkl \in [{1, 2} -> Requests \union {None}]
  /\ form \in [Requests -> Form]
  /\ pc \in [Requests -> Steps]
  /\ at \in [Requests -> 0 .. MaxCount]
  /\ held \in [Requests -> {Partial} \union SUBSET Texts]
  /\ linked \in [Requests -> BOOLEAN]
  /\ corpus \in [Requests -> [Types -> SUBSET Texts]]
  /\ answer \in [Requests -> Answers]

Init ==
  /\ zip = [i \in Index |-> {}]
  /\ dir = [t \in Types |-> {}]
  /\ pkl = [c \in {1, 2} |-> None]
  /\ form = [r \in Requests |-> NoForm]
  /\ pc = [r \in Requests |-> "idle"]
  /\ at = [r \in Requests |-> 0]
  /\ held = [r \in Requests |-> {}]
  /\ linked = [r \in Requests |-> FALSE]
  /\ corpus = [r \in Requests |-> [t \in Types |-> {}]]
  /\ answer = [r \in Requests |-> None]

Running(r) == pc[r] \notin {"idle", "done"}

File(r) == form[r].file[at[r]]
\* Faulty variant: every sample gets the first one's type.
TypeOfFirst(r) == form[r].type[0]
TypeOf(r) == form[r].type[at[r]]

Goto(r, step) == pc' = [pc EXCEPT ![r] = step]
End(r, a) == Goto(r, "done") /\ answer' = [answer EXCEPT ![r] = a]

-----------------------------------------------------------------------------
(* app.py:17-25: a bad model name is answered at once; else the directory  *)
(* is made if it is not there.                                             *)
Arrive(r, f) ==
  /\ pc[r] = "idle"
  /\ Overlap \/ \A q \in Requests : ~ Running(q)
  /\ form' = [form EXCEPT ![r] = f]
  /\ IF f.named THEN Goto(r, "save") /\ UNCHANGED answer ELSE End(r, "bad name")
  /\ UNCHANGED <<files, at, held, linked, corpus>>

(* Whoever has sample_i.zip open by this name.                             *)
Holds(q, i) == linked[q] /\ at[q] = i

(* What is left in the archives other requests are reading when r changes  *)
(* the bytes of the file it has open.                                      *)
Disturbed(r) ==
  [q \in Requests |-> IF /\ q # r /\ pc[q] = "extract"
                         /\ at[q] = at[r] /\ linked[q] = linked[r]
                      THEN Partial ELSE held[q]]

(* app.py:28-31: the file is opened for writing, which empties it under    *)
(* every request that has it open.                                         *)
Save(r) ==
  /\ pc[r] = "save" /\ at[r] < form[r].count
  /\ IF File(r) # {}
     THEN /\ zip' = [zip EXCEPT ![at[r]] = Partial]
          /\ held' = [q \in Requests |->
                       IF Holds(q, at[r]) /\ pc[q] = "extract" THEN Partial ELSE held[q]]
          /\ linked' = [linked EXCEPT ![r] = TRUE]
          /\ Goto(r, "write") /\ UNCHANGED at
     ELSE at' = [at EXCEPT ![r] = @ + 1] /\ UNCHANGED <<pc, zip, held, linked>>
  /\ UNCHANGED <<dir, pkl, form, corpus, answer>>

(* The upload is written and the file closed.  Two requests writing at     *)
(* once overwrite each other byte by byte: the second to finish may leave  *)
(* a file that is neither's.  A file removed meanwhile takes the bytes     *)
(* with it, and whether a reader still has that very file is left open.    *)
Write(r) ==
  /\ pc[r] = "write"
  /\ \/ /\ linked[r]
        /\ \/ zip' = [zip EXCEPT ![at[r]] = File(r)]
           \/ zip[at[r]] # Partial /\ zip' = [zip EXCEPT ![at[r]] = Partial]
        /\ held' = Disturbed(r)
     \/ ~ linked[r] /\ UNCHANGED zip /\ held' \in {held, Disturbed(r)}
  /\ linked' = [linked EXCEPT ![r] = FALSE]
  /\ at' = [at EXCEPT ![r] = @ + 1]
  /\ Goto(r, "save")
  /\ UNCHANGED <<dir, pkl, form, corpus, answer>>

(* The second loop starts once the first has run out (app.py:34).          *)
Saved(r) ==
  /\ pc[r] = "save" /\ at[r] = form[r].count
  /\ at' = [at EXCEPT ![r] = 0]
  /\ Goto(r, "next")
  /\ UNCHANGED <<files, form, held, linked, corpus, answer>>

(* app.py:35-42: the type is looked at first; a missing one raises, a bad  *)
(* one ends the request, and only then is the file looked for.             *)
Look(r) ==
  /\ pc[r] = "next" /\ at[r] < form[r].count
  /\ \/ TypeOf(r) = NoType /\ End(r, "error") /\ UNCHANGED at
     \/ TypeOf(r) = BadType /\ End(r, "bad type") /\ UNCHANGED at
     \/ /\ TypeOf(r) \in Types /\ zip[at[r]] = {}
        /\ at' = [at EXCEPT ![r] = @ + 1] /\ UNCHANGED <<pc, answer>>
     \/ /\ TypeOf(r) \in Types /\ zip[at[r]] # {}
        /\ Goto(r, "open") /\ UNCHANGED <<at, answer>>
  /\ UNCHANGED <<files, form, held, linked, corpus>>

(* app.py:43: by now the file may have gone or be written anew.            *)
Open(r) ==
  /\ pc[r] = "open"
  /\ IF zip[at[r]] # {} /\ zip[at[r]] # Partial
     THEN /\ held' = [held EXCEPT ![r] = zip[at[r]]]
          /\ linked' = [linked EXCEPT ![r] = TRUE]
          /\ Goto(r, "extract") /\ UNCHANGED answer
     ELSE End(r, "error") /\ UNCHANGED <<held, linked>>
  /\ UNCHANGED <<files, form, at, corpus>>

\* Faulty variant: a name that is taken is not written again.
StoredOnce(d, x) == IF \E y \in d : Name[y] = Name[x] THEN d ELSE d \union {x}

(* app.py:45: an extracted text overwrites one of its name, be it of this  *)
(* archive's request, of another sample of it, or of an earlier training.  *)
Stored(d, x) == {y \in d : Name[y] # Name[x]} \union {x}

(* app.py:44-45, one entry of the archive: an archive emptied by another   *)
(* upload cannot be read on, what came out of it before stays.             *)
Extract(r) ==
  /\ pc[r] = "extract"
  /\ \/ /\ held[r] = Partial
        /\ End(r, "error")
        /\ linked' = [linked EXCEPT ![r] = FALSE]
        /\ UNCHANGED <<dir, held>>
     \/ /\ held[r] # Partial
        /\ \E x \in held[r] :
             /\ dir' = [dir EXCEPT ![TypeOf(r)] = Stored(@, x)]
             /\ held' = [held EXCEPT ![r] = @ \ {x}]
             /\ IF held[r] = {x}
                THEN Goto(r, "remove") /\ linked' = [linked EXCEPT ![r] = FALSE]
                ELSE UNCHANGED <<pc, linked>>
        /\ UNCHANGED answer
  /\ UNCHANGED <<zip, pkl, form, at, corpus>>

\* Faulty variant: the archive is not removed.
RemoveForgets(r) ==
  /\ pc[r] = "remove"
  /\ at' = [at EXCEPT ![r] = @ + 1]
  /\ Goto(r, "next")
  /\ UNCHANGED <<files, form, held, linked, corpus, answer>>

(* app.py:46: whatever file has the name now is removed.                   *)
Remove(r) ==
  /\ pc[r] = "remove"
  /\ IF zip[at[r]] # {}
     THEN /\ zip' = [zip EXCEPT ![at[r]] = {}]
          /\ linked' = [q \in Requests |-> linked[q] /\ ~ Holds(q, at[r])]
          /\ at' = [at EXCEPT ![r] = @ + 1]
          /\ Goto(r, "next") /\ UNCHANGED answer
     ELSE End(r, "error") /\ UNCHANGED <<zip, linked, at>>
  /\ UNCHANGED <<dir, pkl, form, held, corpus>>

(* Everything in the upload directory is a label (ai.py:29-34), a zip file *)
(* that was left behind too, and it cannot be listed as a directory.       *)
Listable == \A i \in Index : zip[i] = {}
Labels(d) == {t \in Types : d[t] # {}}

(* KMeans needs a text, and as many different ones as there are labels; a  *)
(* cluster without members has no most common label (ai.py:46-60).         *)
Fits(d) == Labels(d) # {} /\ Cardinality(UNION {d[t] : t \in Types}) >= Cardinality(Labels(d))

(* ai.py:25-60: the directory is listed and read, the model computed.      *)
Learn(r) ==
  /\ pc[r] = "next" /\ at[r] = form[r].count
  /\ IF Listable /\ Fits(dir)
     THEN corpus' = [corpus EXCEPT ![r] = dir] /\ Goto(r, "dump") /\ UNCHANGED answer
     ELSE End(r, "error") /\ UNCHANGED corpus
  /\ UNCHANGED <<files, form, at, held, linked>>

(* ai.py:64-65: opening the model file for writing empties it, the pickle  *)
(* goes out in pieces.                                                     *)
Dump(r) ==
  /\ pc[r] = "dump"
  /\ pkl' = [pkl EXCEPT ![1] = r, ![2] = None]
  /\ Goto(r, "flush")
  /\ UNCHANGED <<zip, dir, form, at, held, linked, corpus, answer>>

\* Faulty variant: the rest of the pickle is not written.
FlushForgets(r) ==
  /\ pc[r] = "flush"
  /\ End(r, "trained")
  /\ UNCHANGED <<files, form, at, held, linked, corpus>>

(* ai.py:65-66, app.py:49                                                  *)
Flush(r) ==
  /\ pc[r] = "flush"
  /\ pkl' = [pkl EXCEPT ![2] = r]
  /\ End(r, "trained")
  /\ UNCHANGED <<zip, dir, form, at, held, linked, corpus>>

(* The process dies and init.sh's container is started again: what the     *)
(* disk holds stays, the requests being served are lost.                   *)
Crash ==
  /\ \E r \in Requests : Running(r)
  /\ pc' = [r \in Requests |-> IF Running(r) THEN "done" ELSE pc[r]]
  /\ answer' = [r \in Requests |-> IF Running(r) THEN "lost" ELSE answer[r]]
  /\ linked' = [r \in Requests |-> FALSE]
  /\ held' = [r \in Requests |-> {}]
  /\ UNCHANGED <<files, form, at, corpus>>

Step(r) == \/ Save(r) \/ Write(r) \/ Saved(r) \/ Look(r) \/ Open(r) \/ Extract(r)
           \/ Remove(r) \/ Learn(r) \/ Dump(r) \/ Flush(r)

Next ==
  \/ \E r \in Requests : Step(r)
  \/ \E r \in Requests, f \in Forms : Arrive(r, f)
  \/ Crash

Spec == Init /\ [][Next]_vars

-----------------------------------------------------------------------------
SentAs(x, i) == \E r \in Requests : x \in form[r].file[i]
GivenAs(t, i) == \E r \in Requests : form[r].type[i] = t

(* A text lies under a type only where some request sent the text and some *)
(* request gave the type FOR THE SAME SAMPLE NUMBER (app.py:31, 40): what  *)
(* goes wrong between overlapping requests never crosses sample numbers.   *)
LabelledByNumber ==
  \A t \in Types : \A x \in dir[t] : \E i \in Index : SentAs(x, i) /\ GivenAs(t, i)

(* The inductive invariant behind it: loops stay within the form, archives *)
(* on disk and in hand hold texts sent under the sample number they go by. *)
LoopsInv ==
  \A r \in Requests :
    /\ pc[r] = "idle" => form[r] = NoForm
    /\ pc[r] # "done" => answer[r] = None
    /\ at[r] <= form[r].count
    /\ pc[r] \in {"write", "open", "extract", "remove"} => at[r] < form[r].count
    /\ pc[r] = "write" => File(r) # {}
    /\ pc[r] \in {"open", "extract", "remove"} => TypeOf(r) \in Types

Sourced ==
  /\ LoopsInv
  /\ \A i \in Index : zip[i] # Partial => \A x \in zip[i] : SentAs(x, i)
  /\ \A r \in Requests : pc[r] = "extract" /\ held[r] # Partial =>
                            \A x \in held[r] : SentAs(x, at[r])
  /\ LabelledByNumber

(* ... and by one and the same request, if requests do not overlap.        *)
LabelledByRequest ==
  \A t \in Types : \A x \in dir[t] :
     \E r \in Requests, i \in Index : x \in form[r].file[i] /\ form[r].type[i] = t

(* A zip file in the upload directory - where it blocks every training     *)
(* (ai.py:30-34) - is owed by a request that sent a file of its number and *)
(* has still to pass it, or that did not end in a model (app.py:36-37, 43, *)
(* 46): trainings that succeed leave nothing behind, whatever overlaps.    *)
Failed(r) == answer[r] \in {"bad type", "error", "lost"}
ToPass(r, i) ==
  \/ pc[r] \in {"save", "write"}
  \/ pc[r] \in {"next", "open", "extract", "remove"} /\ at[r] <= i
Owes(r, i) ==
  form[r].file[i] # {} /\ i < form[r].count /\ (Failed(r) \/ ToPass(r, i))
LeftByFailure == \A i \in Index : zip[i] # {} => \E r \in Requests : Owes(r, i)

(* A request answered "trained" has learned every text it sent under the   *)
(* type it gave it, but for those that a text of the same name replaced    *)
(* which it sent itself, later and for the same type: neither what earlier *)
(* failures left under these names nor their archives stand in the way of  *)
(* a text (app.py:27-49).                                                  *)
Replaced(f, i, x) ==
  \E j \in Index : /\ i < j /\ j < f.count /\ f.type[j] = f.type[i]
                   /\ \E y \in f.file[j] : Name[y] = Name[x]
TrainedMeansLearned ==
  \A r \in Requests : answer[r] = "trained" =>
     \A i \in 0 .. form[r].count - 1 : \A x \in form[r].file[i] :
        x \in corpus[r][form[r].type[i]] \/ Replaced(form[r], i, x)

(* In a model file that nobody is writing, the beginning is of a request   *)
(* that trained or was lost, the end, if it has one, of a request that     *)
(* trained; it lacks its end only where the request of its beginning was   *)
(* lost.  Overlapping trainings may leave the pieces of two, but a failure *)
(* never spoils a model, and a loss costs no more than the file it had     *)
(* emptied (ai.py:64-66).                                                  *)
TornModelHasCause ==
  (\A r \in Requests : pc[r] # "flush") /\ pkl[1] # None =>
     /\ answer[pkl[1]] \in {"trained", "lost"}
     /\ IF pkl[2] = None THEN answer[pkl[1]] = "lost" ELSE answer[pkl[2]] = "trained"

(* Why a request alone on its upload directory may be answered with an     *)
(* error: a type is missing, a zip file of an earlier failure lies at a    *)
(* number it does not write, or there are too few texts.                   *)
MissingType(f) == \E i \in 0 .. f.count - 1 : f.type[i] = NoType
InTheWay(f) == \E i \in Index : zip[i] # {} /\ (i >= f.count \/ f.file[i] = {})
ErrorsHaveCause ==
  [][\A r \in Requests : answer'[r] = "error" /\ answer[r] # "error" =>
       MissingType(form[r]) \/ InTheWay(form[r]) \/ ~ Fits(dir)]_vars

=============================================================================
