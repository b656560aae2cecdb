-------------------------- MODULE TrainPage_proofs --------------------------
(***************************************************************************)
(* Theorems about overlapping trainings (TrainService), for any number of  *)
(* requests, samples, texts and types; and about the training page in      *)
(* front of them, for any number of upload points as well.                 *)
(***************************************************************************)
EXTENDS TrainPage, TLAPS

USE DEF Goto, End, files

-----------------------------------------------------------------------------
(* The form of a request that has not arrived is a form.                    *)
LEMMA NoFormIsForm == NoForm \in Form
<1>1. {} \in Archive
  BY DEF Archive
<1> QED
  BY <1>1, MaxCountIsNat DEF NoForm, Form

(* The types hold initially.                                                *)
LEMMA TypeInit == Init => TypeOK /\ LoopsInv
<1> SUFFICES ASSUME Init PROVE TypeOK /\ LoopsInv
  OBVIOUS
<1>1. TypeOK
  <2>1. form \in [Requests -> Form]
    BY NoFormIsForm DEF Init
  <2>2. at \in [Requests -> 0 .. MaxCount]
    BY MaxCountIsNat DEF Init
  <2> QED
    BY <2>1, <2>2 DEF Init, TypeOK, Steps, Answers, None
<1>2. NoForm.count = 0
  BY DEF NoForm
<1>3. LoopsInv
  <2> SUFFICES ASSUME NEW r \in Requests
               PROVE  /\ form[r] = NoForm /\ at[r] <= form[r].count
                      /\ pc[r] = "idle" /\ answer[r] = None
    BY DEF LoopsInv
  <2> QED
    BY <1>2 DEF Init
<1> QED BY <1>1, <1>3

(* What is typed at the number a request is at.                            *)
LEMMA FormTyped ==
  ASSUME TypeOK, NEW r \in Requests
  PROVE  /\ form[r].count \in 0 .. MaxCount /\ form[r].count \in Nat
         /\ \A i \in Index : /\ form[r].file[i] \in SUBSET Texts
                             /\ form[r].file[i] \in Archive
                             /\ form[r].type[i] \in Types \union {BadType, NoType}
         /\ at[r] \in 0 .. MaxCount
         /\ at[r] < form[r].count => at[r] \in Index
<1>1. form[r] \in Form /\ at[r] \in 0 .. MaxCount
  BY DEF TypeOK
<1>2. /\ form[r].count \in 0 .. MaxCount
      /\ form[r].file \in [Index -> Archive]
      /\ form[r].type \in [Index -> Types \union {BadType, NoType}]
  BY <1>1 DEF Form
<1>3. at[r] < form[r].count => at[r] \in Index
  BY <1>1, <1>2, MaxCountIsNat DEF Index
<1>4. \A a \in Archive : a \in SUBSET Texts
  BY DEF Archive
<1> QED
  BY <1>1, <1>2, <1>3, <1>4, MaxCountIsNat

(* A form is read within its bounds, and its parts keep their types.       *)
LEMMA TypesKept ==
  ASSUME TypeOK, LoopsInv, NEW r \in Requests, Step(r)
  PROVE  TypeOK'
<1>0. /\ at[r] \in 0 .. MaxCount /\ form[r].count \in 0 .. MaxCount
      /\ at[r] < form[r].count => /\ at[r] \in Index /\ at[r] + 1 \in 0 .. MaxCount
                                 /\ File(r) \in SUBSET Texts
      /\ at[r] \in Nat
  BY FormTyped, MaxCountIsNat DEF File
<1>1. ASSUME Save(r) PROVE TypeOK'
  <2>1. CASE File(r) # {}
    <3>1. zip' \in [Index -> {Partial} \union SUBSET Texts]
      BY <1>0, <1>1, <2>1 DEF Save, TypeOK
    <3>2. held' \in [Requests -> {Partial} \union SUBSET Texts]
      BY <1>1, <2>1 DEF Save, TypeOK
    <3>3. pc' \in [Requests -> Steps]
      BY <1>1, <2>1 DEF Save, TypeOK, Steps
    <3> QED
      BY <1>1, <2>1, <3>1, <3>2, <3>3 DEF Save, TypeOK
  <2>2. CASE File(r) = {}
    BY <1>0, <1>1, <2>2 DEF Save, TypeOK
  <2> QED BY <2>1, <2>2
<1>2. ASSUME Write(r) PROVE TypeOK'
  BY <1>0, <1>2 DEF Write, Disturbed, TypeOK, LoopsInv, Steps, Answers
<1>3. ASSUME Saved(r) PROVE TypeOK'
  <2>1. 0 \in 0 .. MaxCount
    BY MaxCountIsNat
  <2> QED
    BY <1>3, <2>1 DEF Saved, TypeOK, Steps
<1>4. ASSUME Look(r) PROVE TypeOK'
  BY <1>0, <1>4 DEF Look, TypeOK, LoopsInv, Steps, Answers
<1>5. ASSUME Open(r) PROVE TypeOK'
  <2>1. at[r] \in Index
    BY <1>0, <1>5 DEF Open, LoopsInv
  <2>2. held' \in [Requests -> {Partial} \union SUBSET Texts] /\ linked' \in [Requests -> BOOLEAN]
    <3>1. zip[at[r]] \in {Partial} \union SUBSET Texts
      BY <2>1 DEF TypeOK
    <3>2. held \in [Requests -> {Partial} \union SUBSET Texts] /\ linked \in [Requests -> BOOLEAN]
      BY DEF TypeOK
    <3>3. \/ held' = [held EXCEPT ![r] = zip[at[r]]] /\ linked' = [linked EXCEPT ![r] = TRUE]
          \/ held' = held /\ linked' = linked
      BY <1>5 DEF Open
    <3> QED
      BY <3>1, <3>2, <3>3
  <2>3. pc' \in [Requests -> Steps] /\ answer' \in [Requests -> Answers]
    BY <1>5 DEF Open, TypeOK, Steps, Answers
  <2> QED
    BY <2>2, <2>3, <1>5 DEF Open, TypeOK
<1>6. ASSUME Extract(r) PROVE TypeOK'
  <2>1. pc' \in [Requests -> Steps] /\ linked' \in [Requests -> BOOLEAN]
        /\ answer' \in [Requests -> Answers]
    BY <1>6 DEF Extract, TypeOK, Steps, Answers
  <2>2. TypeOf(r) \in Types
    BY <1>6 DEF Extract, LoopsInv
  <2>3. dir' \in [Types -> SUBSET Texts] /\ held' \in [Requests -> {Partial} \union SUBSET Texts]
    <3>1. CASE held[r] = Partial /\ UNCHANGED <<dir, held>>
      BY <3>1 DEF TypeOK
    <3>2. ASSUME NEW x \in held[r], held[r] # Partial,
                 dir' = [dir EXCEPT ![TypeOf(r)] = Stored(@, x)],
                 held' = [held EXCEPT ![r] = @ \ {x}]
          PROVE  dir' \in [Types -> SUBSET Texts] /\ held' \in [Requests -> {Partial} \union SUBSET Texts]
      <4>1. held[r] \in SUBSET Texts /\ x \in Texts
        BY <3>2 DEF TypeOK
      <4> QED
        BY <2>2, <3>2, <4>1 DEF TypeOK, Stored
    <3> QED
      BY <1>6, <3>1, <3>2 DEF Extract
  <2> QED
    BY <1>6, <2>1, <2>3 DEF Extract, TypeOK
<1>7. ASSUME Remove(r) PROVE TypeOK'
  <2>1. at[r] \in Index /\ at[r] + 1 \in 0 .. MaxCount
    BY <1>0, <1>7 DEF Remove, LoopsInv
  <2>2. zip' \in [Index -> {Partial} \union SUBSET Texts] /\ at' \in [Requests -> 0 .. MaxCount]
    BY <1>7, <2>1 DEF Remove, TypeOK
  <2>3. linked' \in [Requests -> BOOLEAN]
    <3>1. \A q \in Requests : (linked[q] /\ ~ Holds(q, at[r])) \in BOOLEAN
      BY Zenon
    <3>2. linked \in [Requests -> BOOLEAN]
      BY DEF TypeOK
    <3>3. \/ linked' = [q \in Requests |-> linked[q] /\ ~ Holds(q, at[r])]
          \/ linked' = linked
      BY <1>7, Zenon DEF Remove
    <3> QED
      BY <3>1, <3>2, <3>3, Zenon
  <2>4. pc' \in [Requests -> Steps] /\ answer' \in [Requests -> Answers]
    BY <1>7 DEF Remove, TypeOK, Steps, Answers
  <2> QED
    BY <1>7, <2>2, <2>3, <2>4 DEF Remove, TypeOK
<1>8. ASSUME Learn(r) PROVE TypeOK'
  BY <1>0, <1>8 DEF Learn, TypeOK, LoopsInv, Steps, Answers
<1>9. ASSUME Dump(r) PROVE TypeOK'
  BY <1>0, <1>9 DEF Dump, TypeOK, LoopsInv, Steps, Answers
<1>10. ASSUME Flush(r) PROVE TypeOK'
  BY <1>0, <1>10 DEF Flush, TypeOK, LoopsInv, Steps, Answers
<1> QED
  BY <1>1, <1>2, <1>3, <1>4, <1>5, <1>6, <1>7, <1>8, <1>9, <1>10 DEF Step

(* The loops of r stay within its form.                                    *)
LEMMA LoopsKept ==
  ASSUME TypeOK, LoopsInv, NEW r \in Requests, Step(r)
  PROVE  LoopsInv'
<1>0. at[r] \in Nat /\ form[r].count \in Nat /\ at[r] <= form[r].count
  BY FormTyped, MaxCountIsNat DEF LoopsInv
<1>3. form' = form
  BY DEF Step, Save, Write, Saved, Look, Open, Extract, Remove, Learn, Dump, Flush
<1>4. pc'[r] # "idle"
  BY DEF Step, Save, Write, Saved, Look, Open, Extract, Remove, Learn, Dump, Flush, TypeOK
<1>1. \A q \in Requests \ {r} : pc'[q] = pc[q] /\ at'[q] = at[q] /\ answer'[q] = answer[q]
  BY DEF Step, Save, Write, Saved, Look, Open, Extract, Remove, Learn, Dump, Flush, TypeOK
<1>5. pc'[r] # "done" => answer'[r] = None
  BY DEF Step, Save, Write, Saved, Look, Open, Extract, Remove, Learn, Dump, Flush, TypeOK, LoopsInv
<1>2. /\ at'[r] <= form[r].count
      /\ pc'[r] \in {"write", "open", "extract", "remove"} => at'[r] < form[r].count
      /\ pc'[r] = "write" => form[r].file[at'[r]] # {}
      /\ pc'[r] \in {"open", "extract", "remove"} => form[r].type[at'[r]] \in Types
  <2>1. CASE Save(r)
    BY <1>0, <2>1 DEF Save, LoopsInv, TypeOK, File, TypeOf
  <2>2. CASE Write(r)
    BY <1>0, <2>2 DEF Write, LoopsInv, TypeOK, File, TypeOf
  <2>3. CASE Saved(r)
    BY <1>0, <2>3 DEF Saved, LoopsInv, TypeOK, File, TypeOf
  <2>4. CASE Look(r)
    <3>1. at[r] < form[r].count /\ pc[r] = "next"
      BY <2>4 DEF Look
    <3>2. \/ pc'[r] = "done" /\ at' = at
          \/ pc'[r] = "next" /\ at'[r] = at[r] + 1
          \/ pc'[r] = "open" /\ at' = at /\ TypeOf(r) \in Types
      BY <2>4, <3>1 DEF Look, TypeOK
    <3> QED
      BY <1>0, <3>1, <3>2 DEF TypeOf
  <2>5. CASE Open(r)
    BY <1>0, <2>5 DEF Open, LoopsInv, TypeOK, File, TypeOf
  <2>6. CASE Extract(r)
    BY <1>0, <2>6 DEF Extract, LoopsInv, TypeOK, File, TypeOf
  <2>7. CASE Remove(r)
    BY <1>0, <2>7 DEF Remove, LoopsInv, TypeOK, File, TypeOf
  <2>8. CASE Learn(r)
    BY <1>0, <2>8 DEF Learn, LoopsInv, TypeOK, File, TypeOf
  <2>9. CASE Dump(r)
    BY <1>0, <2>9 DEF Dump, LoopsInv, TypeOK, File, TypeOf
  <2>10. CASE Flush(r)
    BY <1>0, <2>10 DEF Flush, LoopsInv, TypeOK, File, TypeOf
  <2> QED
    BY <2>1, <2>2, <2>3, <2>4, <2>5, <2>6, <2>7, <2>8, <2>9, <2>10 DEF Step
<1> QED
  BY <1>0, <1>1, <1>2, <1>3, <1>4, <1>5 DEF LoopsInv, File, TypeOf

(* An arriving request keeps the types.                                     *)
LEMMA ArriveTyped ==
  ASSUME TypeOK, LoopsInv, NEW r \in Requests, NEW f \in Form, Arrive(r, f)
  PROVE  TypeOK' /\ LoopsInv' /\ form[r] = NoForm /\ f \in Form
<1>1. f \in Form /\ f.count \in 0 .. MaxCount
  BY DEF Form
<1>2. form[r] = NoForm /\ at[r] = 0
  <2>1. form[r] = NoForm /\ at[r] <= NoForm.count /\ at[r] \in 0 .. MaxCount
    BY DEF Arrive, LoopsInv, TypeOK
  <2> QED
    BY <2>1, MaxCountIsNat DEF NoForm
<1>3. TypeOK'
  BY <1>1 DEF Arrive, TypeOK, Steps, Answers
<1>4. /\ pc'[r] \in {"save", "done"} /\ form'[r] = f /\ at'[r] = 0
      /\ pc'[r] # "done" => answer'[r] = None
  BY <1>2 DEF Arrive, TypeOK, LoopsInv
<1>5. \A q \in Requests \ {r} : /\ pc'[q] = pc[q] /\ at'[q] = at[q] /\ form'[q] = form[q]
                                /\ answer'[q] = answer[q]
  BY DEF Arrive, TypeOK
<1>6. LoopsInv'
  BY <1>1, <1>4, <1>5, MaxCountIsNat DEF LoopsInv, File, TypeOf
<1> QED
  BY <1>1, <1>2, <1>3, <1>6

(* A crash keeps the types.                                                 *)
LEMMA CrashTyped ==
  ASSUME TypeOK, LoopsInv, Crash
  PROVE  TypeOK' /\ LoopsInv'
<1>1. TypeOK'
  BY DEF Crash, TypeOK, Steps, Answers
<1>2. \A q \in Requests : /\ at'[q] = at[q] /\ form'[q] = form[q]
                          /\ pc'[q] \in {pc[q], "done"}
                          /\ pc[q] = "idle" => pc'[q] = "idle"
                          /\ pc'[q] = "idle" => pc[q] = "idle"
                          /\ pc'[q] # "done" => pc[q] = pc'[q] /\ answer'[q] = answer[q]
  BY DEF Crash, Running, TypeOK
<1> QED
  BY <1>1, <1>2 DEF LoopsInv, File, TypeOf

(* Every step keeps the types.                                              *)
LEMMA TypeStep ==
  ASSUME TypeOK, LoopsInv, [Next]_vars
  PROVE  TypeOK' /\ LoopsInv'
<1>1. CASE UNCHANGED vars
  BY <1>1 DEF vars, TypeOK, LoopsInv, File, TypeOf
<1> QED
  BY <1>1, TypesKept, LoopsKept, ArriveTyped, FormsAreForms, CrashTyped DEF Next

(* Every variable of the service keeps its type, and both loops of train() *)
(* stay within the form (app.py:28, 34).                                   *)
THEOREM TrainTypeCorrect == Spec => [](TypeOK /\ LoopsInv)
<1>1. TypeOK /\ LoopsInv /\ [Next]_vars => (TypeOK /\ LoopsInv)'
  BY TypeStep
<1> QED
  BY <1>1, TypeInit, PTL DEF Spec

-----------------------------------------------------------------------------
(* What a step of request r does to the files: archives come from its form *)
(* at its number, texts from the archive it has in hand.                   *)
LEMMA StepFiles ==
  ASSUME TypeOK, LoopsInv, NEW r \in Requests, Step(r)
  PROVE  /\ form' = form
         /\ \A i \in Index : \/ zip'[i] = zip[i] \/ zip'[i] = Partial \/ zip'[i] = {}
                             \/ i = at[r] /\ zip'[i] = File(r)
<1>1. form' = form
  BY DEF Step, Save, Write, Saved, Look, Open, Extract, Remove, Learn, Dump, Flush
<1>2. CASE Write(r)
  BY <1>1, <1>2 DEF Write, TypeOK
<1>3. CASE Save(r)
  BY <1>1, <1>3 DEF Save, TypeOK
<1>4. CASE Remove(r)
  BY <1>1, <1>4 DEF Remove, TypeOK
<1>5. CASE Saved(r) \/ Look(r) \/ Open(r) \/ Extract(r) \/ Learn(r) \/ Dump(r) \/ Flush(r)
  BY <1>1, <1>5 DEF Saved, Look, Open, Extract, Learn, Dump, Flush
<1> QED
  BY <1>2, <1>3, <1>4, <1>5 DEF Step

(* What a step does to the requests and the archives they hold.             *)
(* number.                                                                  *)
LEMMA StepHands ==
  ASSUME TypeOK, LoopsInv, NEW r \in Requests, Step(r)
  PROVE  /\ \A q \in Requests \ {r} : /\ pc'[q] = pc[q] /\ at'[q] = at[q]
                                      /\ held'[q] \in {held[q], Partial}
         /\ pc'[r] = "extract" =>
              /\ at'[r] = at[r]
              /\ \/ pc[r] = "open" /\ held'[r] = zip[at[r]] /\ at[r] \in Index
                 \/ pc[r] = "extract" /\ held[r] # Partial /\ held'[r] \subseteq held[r]
<1>1. CASE Write(r)
  BY <1>1 DEF Write, Disturbed, TypeOK
<1>2. CASE Save(r)
  BY <1>2 DEF Save, TypeOK
<1>3. CASE Open(r)
  <2>1. at[r] \in Index
    BY <1>3, FormTyped DEF Open, LoopsInv
  <2> QED
    BY <1>3, <2>1 DEF Open, TypeOK
<1>4. CASE Extract(r)
  BY <1>4 DEF Extract, TypeOK
<1>5. CASE Saved(r) \/ Look(r) \/ Remove(r) \/ Learn(r) \/ Dump(r) \/ Flush(r)
  BY <1>5 DEF Saved, Look, Remove, Learn, Dump, Flush, TypeOK
<1> QED
  BY <1>1, <1>2, <1>3, <1>4, <1>5 DEF Step

(* A step extracts one text at most, from the archive in hand.              *)
LEMMA StepDirs ==
  ASSUME TypeOK, LoopsInv, NEW r \in Requests, Step(r)
  PROVE  \/ dir' = dir
         \/ /\ pc[r] = "extract" /\ held[r] # Partial /\ at[r] \in Index /\ TypeOf(r) \in Types
            /\ \E x \in held[r] : dir' = [dir EXCEPT ![TypeOf(r)] = Stored(@, x)]
<1>1. CASE Extract(r)
  <2>1. at[r] \in Index /\ TypeOf(r) \in Types
    BY <1>1, FormTyped DEF Extract, LoopsInv
  <2> QED
    BY <1>1, <2>1 DEF Extract
<1>2. CASE ~ Extract(r)
  BY <1>2 DEF Step, Save, Write, Saved, Look, Open, Remove, Learn, Dump, Flush
<1> QED
  BY <1>1, <1>2

(* Every step of a request keeps texts where they were sent for.            *)
LEMMA SourcedStep ==
  ASSUME TypeOK, Sourced, NEW r \in Requests, Step(r)
  PROVE  Sourced'
<1> USE DEF Sourced
<1>1. LoopsInv' /\ form' = form /\ LoopsInv
  BY LoopsKept, StepFiles
<1>2. \A x, i : (SentAs(x, i)' <=> SentAs(x, i)) /\ (GivenAs(x, i)' <=> GivenAs(x, i))
  BY <1>1 DEF SentAs, GivenAs
<1>3. ASSUME NEW i \in Index, zip'[i] # Partial, NEW x \in zip'[i] PROVE SentAs(x, i)
  <2>1. CASE i = at[r] /\ zip'[i] = File(r)
    BY <1>3, <2>1 DEF SentAs, File
  <2> QED
    BY <1>1, <1>3, <2>1, StepFiles
<1>4. ASSUME NEW q \in Requests, pc'[q] = "extract", held'[q] # Partial, NEW x \in held'[q]
      PROVE  SentAs(x, at'[q])
  <2>1. CASE q # r
    BY <1>1, <1>4, <2>1, StepHands
  <2>2. CASE q = r
    <3>1. /\ at'[r] = at[r]
          /\ \/ pc[r] = "open" /\ held'[r] = zip[at[r]] /\ at[r] \in Index
             \/ pc[r] = "extract" /\ held[r] # Partial /\ held'[r] \subseteq held[r]
      BY <1>1, <1>4, <2>2, StepHands
    <3> QED
      BY <1>4, <2>2, <3>1
  <2> QED BY <2>1, <2>2
<1>5. ASSUME NEW t \in Types, NEW x \in dir'[t]
      PROVE  \E i \in Index : SentAs(x, i) /\ GivenAs(t, i)
  <2>1. CASE x \in dir[t]
    BY <2>1 DEF LabelledByNumber
  <2>2. CASE x \notin dir[t]
    <3>1. /\ pc[r] = "extract" /\ held[r] # Partial /\ at[r] \in Index
          /\ x \in held[r] /\ t = TypeOf(r)
      BY <1>1, <1>5, <2>2, StepDirs DEF TypeOK, Stored
    <3>2. SentAs(x, at[r]) /\ GivenAs(t, at[r])
      BY <3>1 DEF GivenAs, TypeOf
    <3> QED BY <3>1, <3>2
  <2> QED BY <2>1, <2>2
<1>6. LabelledByNumber'
  BY <1>2, <1>5 DEF LabelledByNumber
<1>7. \A i \in Index : zip'[i] # Partial => \A x \in zip'[i] : SentAs(x, i)'
  BY <1>2, <1>3
<1>8. \A q \in Requests : pc'[q] = "extract" /\ held'[q] # Partial =>
                         \A x \in held'[q] : SentAs(x, at'[q])
  BY <1>4
<1>9. \A q \in Requests : \A x : SentAs(x, at'[q]) => \E p \in Requests : x \in form'[p].file[at'[q]]
  BY <1>1 DEF SentAs
<1> QED
  BY <1>1, <1>6, <1>7, <1>8, <1>9 DEF SentAs

(* A request that arrives takes nothing away from what was sent.           *)
LEMMA ArriveKeepsSent ==
  ASSUME TypeOK, LoopsInv, NEW r \in Requests, NEW f \in Forms, Arrive(r, f)
  PROVE  /\ \A i \in Index : \A x : SentAs(x, i) => SentAs(x, i)'
         /\ \A i \in Index : \A t \in Types : GivenAs(t, i) => GivenAs(t, i)'
<1>1. /\ form[r] = NoForm
      /\ \A q \in Requests \ {r} : form'[q] = form[q]
  BY ArriveTyped, FormsAreForms DEF Arrive, TypeOK
<1>2. \A i \in Index : form[r].file[i] = {} /\ form[r].type[i] \notin Types
  BY <1>1, NamesDiffer DEF NoForm
<1> QED
  BY <1>1, <1>2 DEF SentAs, GivenAs

(* An arriving request keeps texts where they were sent for.                *)
LEMMA SourcedArrive ==
  ASSUME TypeOK, Sourced, NEW r \in Requests, NEW f \in Forms, Arrive(r, f)
  PROVE  Sourced'
<1>1. LoopsInv /\ LoopsInv' /\ UNCHANGED <<zip, dir, held, at>>
  BY ArriveTyped, FormsAreForms DEF Sourced, Arrive
<1>2. \A q \in Requests : pc'[q] = "extract" => pc[q] = "extract" /\ at[q] \in Index
  <2>1. \A q \in Requests : pc'[q] = "extract" => pc[q] = "extract"
    BY DEF Arrive, TypeOK
  <2> QED
    BY <1>1, <2>1, FormTyped DEF LoopsInv
<1>3. LabelledByNumber'
  BY <1>1, ArriveKeepsSent DEF Sourced, LabelledByNumber
<1>4. \A q \in Requests : pc'[q] = "extract" /\ held[q] # Partial =>
                         \A x \in held[q] : SentAs(x, at[q]) /\ at[q] \in Index
  BY <1>2 DEF Sourced
<1>5. \A q \in Requests : pc'[q] = "extract" /\ held'[q] # Partial =>
                         \A x \in held'[q] : SentAs(x, at[q])'
  <2>1. \A i \in Index : \A x : SentAs(x, i) => \E p \in Requests : x \in form'[p].file[i]
    BY <1>1, ArriveKeepsSent DEF SentAs
  <2> QED
    BY <1>1, <1>4, <2>1 DEF SentAs
<1> QED
  BY <1>1, <1>3, <1>5, ArriveKeepsSent DEF Sourced

(* The invariant holds throughout.                                          *)
LEMMA SourcedAlways ==
  ASSUME TypeOK, Sourced, [Next]_vars
  PROVE  Sourced'
<1>1. CASE Crash
  <2>1. /\ LoopsInv' /\ UNCHANGED <<files, form, at>>
        /\ \A q \in Requests : pc'[q] # "extract"
    BY <1>1, CrashTyped DEF Sourced, Crash, Running, TypeOK, Steps
  <2> QED
    BY <2>1 DEF Sourced, LabelledByNumber, SentAs, GivenAs
<1>2. CASE UNCHANGED vars
  BY <1>2, TypeStep DEF vars, Sourced, LabelledByNumber, SentAs, GivenAs
<1> QED
  BY <1>1, <1>2, SourcedStep, SourcedArrive DEF Next

(* app.py:31, 40: whatever trainings overlap, a text is filed under a type *)
(* only where text and type were sent for the same sample number.          *)
THEOREM Labelled == Spec => [](Sourced /\ LabelledByNumber)
<1>1. Init => Sourced
  BY TypeInit DEF Init, Sourced, LabelledByNumber
<1>2. TypeOK /\ Sourced /\ [Next]_vars => Sourced'
  BY SourcedAlways
<1>3. Sourced => LabelledByNumber
  BY DEF Sourced
<1> QED
  BY <1>1, <1>2, <1>3, TrainTypeCorrect, PTL DEF Spec

-----------------------------------------------------------------------------
(* What a step of r leaves of what q owes: all of it, but for the number r *)
(* has passed - and then no file of that number is there.                  *)
LEMMA OwesKept ==
  ASSUME TypeOK, LoopsInv, NEW r \in Requests, Step(r),
         NEW i \in Index, NEW q \in Requests, Owes(q, i)
  PROVE  Owes(q, i)' \/ zip'[i] = {}
<1>0. /\ form' = form /\ at[r] \in Nat /\ at[r] <= form[r].count /\ i \in Nat
      /\ i < form[q].count /\ form[r].count \in Nat /\ form[q].file[i] # {}
  BY StepFiles, FormTyped, MaxCountIsNat DEF LoopsInv, Owes, Index
<1>1. CASE q # r
  <2>1. pc'[q] = pc[q] /\ at'[q] = at[q]
    BY <1>1, StepHands
  <2>2. answer'[q] = answer[q]
    BY <1>1 DEF Step, Save, Write, Saved, Look, Open, Extract, Remove, Learn, Dump, Flush, TypeOK
  <2> QED
    BY <1>0, <2>1, <2>2 DEF Owes, Failed, ToPass
<1>2. CASE q = r
  <2>0. ToPass(r, i)
    <3>1. pc[r] # "done"
      BY DEF Step, Save, Write, Saved, Look, Open, Extract, Remove, Learn, Dump, Flush
    <3> QED
      BY <1>2, <3>1 DEF Owes, Failed, LoopsInv, None
  <2> SUFFICES Failed(r)' \/ ToPass(r, i)' \/ zip'[i] = {}
    BY <1>0, <1>2 DEF Owes
  <2>1. CASE Save(r)
    BY <2>1 DEF Save, TypeOK, ToPass
  <2>2. CASE Write(r)
    BY <2>2 DEF Write, TypeOK, ToPass
  <2>3. CASE Saved(r)
    BY <1>0, <2>3 DEF Saved, TypeOK, ToPass
  <2>4. CASE Look(r)
    <3>1. \/ answer'[r] \in {"error", "bad type"}
          \/ at'[r] = at[r] + 1 /\ zip[at[r]] = {} /\ zip' = zip /\ pc'[r] = "next"
          \/ pc'[r] = "open" /\ at'[r] = at[r]
      BY <2>4 DEF Look, TypeOK
    <3>2. pc[r] = "next"
      BY <2>4 DEF Look
    <3>3. CASE at[r] = i
      BY <2>0, <3>1, <3>2, <3>3 DEF ToPass, Failed
    <3>4. CASE at[r] < i
      <4>1. at[r] + 1 <= i /\ at[r] <= i
        BY <1>0, <3>4
      <4> QED
        BY <3>1, <3>2, <4>1 DEF ToPass, Failed
    <3> QED
      BY <1>0, <2>0, <3>2, <3>3, <3>4 DEF ToPass
  <2>5. CASE Open(r)
    BY <2>0, <2>5 DEF Open, TypeOK, ToPass, Failed
  <2>6. CASE Extract(r)
    <3>1. answer'[r] = "error" \/ (pc'[r] \in {"extract", "remove"} /\ at' = at /\ answer' = answer)
      BY <2>6 DEF Extract, TypeOK
    <3> QED
      BY <2>0, <2>6, <3>1 DEF Extract, ToPass, Failed
  <2>7. CASE Remove(r)
    <3>1. \/ answer'[r] = "error"
          \/ /\ at'[r] = at[r] + 1 /\ pc'[r] = "next" /\ answer' = answer
             /\ at[r] = i => zip'[i] = {}
      BY <2>7 DEF Remove, TypeOK
    <3>2. pc[r] = "remove"
      BY <2>7 DEF Remove
    <3>3. CASE at[r] = i
      BY <3>1, <3>3 DEF Failed
    <3>4. CASE at[r] < i
      <4>1. at[r] + 1 <= i
        BY <1>0, <3>4
      <4> QED
        BY <3>1, <4>1 DEF ToPass, Failed
    <3> QED
      BY <1>0, <2>0, <3>2, <3>3, <3>4 DEF ToPass
  <2>8. CASE Learn(r)
    <3>1. answer'[r] = "error" \/ (answer' = answer /\ zip' = zip /\ Listable)
      BY <2>8 DEF Learn, TypeOK
    <3> QED
      BY <3>1 DEF Failed, Listable
  <2>9. CASE Dump(r)
    BY <2>0, <2>9 DEF Dump, ToPass, Failed
  <2>10. CASE Flush(r)
    BY <2>0, <2>10 DEF Flush, ToPass
  <2> QED
    BY <2>1, <2>2, <2>3, <2>4, <2>5, <2>6, <2>7, <2>8, <2>9, <2>10 DEF Step
<1> QED
  BY <1>1, <1>2

(* Whoever owes an archive owes it until the archive is gone.               *)
LEMMA OwingStep ==
  ASSUME TypeOK, LoopsInv, LeftByFailure, [Next]_vars
  PROVE  LeftByFailure'
<1>1. ASSUME NEW r \in Requests, Step(r) PROVE LeftByFailure'
  <2> SUFFICES ASSUME NEW i \in Index, zip'[i] # {}
               PROVE  \E q \in Requests : Owes(q, i)'
    BY DEF LeftByFailure
  <2>1. CASE zip[i] # {}
    <3>1. PICK q \in Requests : Owes(q, i)
      BY <2>1 DEF LeftByFailure
    <3> QED
      BY <1>1, <3>1, OwesKept
  <2>2. CASE zip[i] = {}
    <3>1. CASE Save(r)
      <4>1. /\ i = at[r] /\ File(r) # {} /\ at[r] < form[r].count /\ form' = form
            /\ pc'[r] = "write"
        BY <2>2, <3>1 DEF Save, TypeOK
      <4> QED
        BY <4>1 DEF Owes, ToPass, File
    <3>2. CASE Write(r)
      <4>1. /\ i = at[r] /\ form' = form /\ pc'[r] = "save" /\ pc[r] = "write"
        BY <2>2, <3>2 DEF Write, TypeOK
      <4>2. File(r) # {} /\ at[r] < form[r].count
        BY <4>1 DEF LoopsInv
      <4> QED
        BY <4>1, <4>2 DEF Owes, ToPass, File
    <3>3. CASE Remove(r)
      BY <2>2, <3>3 DEF Remove, TypeOK
    <3>4. CASE Saved(r) \/ Look(r) \/ Open(r) \/ Extract(r) \/ Learn(r) \/ Dump(r) \/ Flush(r)
      BY <2>2, <3>4 DEF Saved, Look, Open, Extract, Learn, Dump, Flush
    <3> QED
      BY <1>1, <3>1, <3>2, <3>3, <3>4 DEF Step
  <2> QED BY <2>1, <2>2
<1>2. ASSUME NEW r \in Requests, NEW f \in Forms, Arrive(r, f) PROVE LeftByFailure'
  <2>1. zip' = zip /\ at' = at /\ form[r] = NoForm
    BY <1>2, ArriveTyped, FormsAreForms DEF Arrive
  <2>2. \A q \in Requests \ {r} : form'[q] = form[q] /\ pc'[q] = pc[q] /\ answer'[q] = answer[q]
    BY <1>2 DEF Arrive, TypeOK
  <2>3. \A i \in Index : form[r].file[i] = {}
    BY <2>1 DEF NoForm
  <2> QED
    BY <2>1, <2>2, <2>3 DEF LeftByFailure, Owes, Failed, ToPass
<1>3. CASE Crash
  <2>1. zip' = zip /\ form' = form
    BY <1>3 DEF Crash
  <2>2. ASSUME NEW q \in Requests, NEW i \in Index, Owes(q, i) PROVE Owes(q, i)'
    <3>1. CASE Running(q)
      BY <1>3, <2>1, <2>2, <3>1 DEF Crash, TypeOK, Owes, Failed
    <3>2. CASE ~ Running(q)
      <4>1. answer'[q] = answer[q] /\ Failed(q)
        BY <1>3, <2>2, <3>2 DEF Crash, TypeOK, Owes, ToPass, Running
      <4> QED
        BY <2>1, <2>2, <4>1 DEF Owes, Failed
    <3> QED BY <3>1, <3>2
  <2> QED
    BY <2>1, <2>2 DEF LeftByFailure
<1>4. CASE UNCHANGED vars
  BY <1>4 DEF vars, LeftByFailure, Owes, Failed, ToPass
<1> QED
  BY <1>1, <1>2, <1>3, <1>4 DEF Next

(* app.py:46 against ai.py:30-34: a zip file in the directory is owed by a *)
(* request on its way to it or one that ended without a model.             *)
THEOREM LeftoversOwed == Spec => []LeftByFailure
<1>1. Init => LeftByFailure
  BY DEF Init, LeftByFailure
<1>2. TypeOK /\ LoopsInv /\ LeftByFailure /\ [Next]_vars => LeftByFailure'
  BY OwingStep
<1> QED
  BY <1>1, <1>2, TrainTypeCorrect, PTL DEF Spec

-----------------------------------------------------------------------------
(* Requests that do not overlap: what the one that runs finds on the disk, *)
(* whatever trainings before it have left there.                           *)

OneAtATime == \A q, r \in Requests : Running(q) /\ Running(r) => q = r

Sends(r, i) == i < form[r].count /\ form[r].file[i] # {}

(* The archives behind it are its own.                                     *)
SavingInv(r) ==
  pc[r] \in {"save", "write"} =>
    /\ \A i \in Index : i < at[r] /\ Sends(r, i) => zip[i] = form[r].file[i]
    /\ pc[r] = "write" => linked[r] /\ zip[at[r]] = Partial

(* Those it has passed are removed, the others its own.                    *)
Filed(r, i) == zip[i] = {} /\ form[r].type[i] \in Types
FilingInv(r) ==
  pc[r] \in {"next", "open", "extract", "remove"} =>
    \A i \in Index : Sends(r, i) =>
      IF i < at[r] THEN Filed(r, i) ELSE zip[i] = form[r].file[i]

(* The archive it is at is there, and its own in hand.                     *)
HandsInv(r) ==
  /\ pc[r] \in {"open", "extract", "remove"} => zip[at[r]] # {}
  /\ pc[r] = "extract" /\ File(r) # {} => held[r] \subseteq File(r) /\ held[r] # Partial

AloneInv ==
  /\ OneAtATime
  /\ \A r \in Requests : SavingInv(r) /\ FilingInv(r) /\ HandsInv(r)

(* Nobody else is served while a request is.                               *)
LEMMA OthersRest ==
  ASSUME TypeOK, LoopsInv, AloneInv, NEW r \in Requests, Step(r)
  PROVE  /\ Running(r)
         /\ \A q \in Requests \ {r} :
              /\ pc[q] \in {"idle", "done"} /\ pc'[q] = pc[q] /\ form'[q] = form[q]
              /\ answer'[q] = answer[q] /\ corpus'[q] = corpus[q]
<1>1. Running(r)
  BY DEF Step, Save, Write, Saved, Look, Open, Extract, Remove, Learn, Dump, Flush, Running
<1>2. \A q \in Requests \ {r} : ~ Running(q)
  BY <1>1 DEF AloneInv, OneAtATime
<1>3. \A q \in Requests \ {r} :
        answer'[q] = answer[q] /\ corpus'[q] = corpus[q] /\ pc'[q] = pc[q]
  BY DEF Step, Save, Write, Saved, Look, Open, Extract, Remove, Learn, Dump, Flush, TypeOK
<1>4. form' = form
  BY StepFiles
<1> QED
  BY <1>1, <1>2, <1>3, <1>4 DEF Running

(* What the request at work finds, after each of its steps.                *)
LEMMA WorkStep ==
  ASSUME TypeOK, LoopsInv, AloneInv, NEW r \in Requests, Step(r)
  PROVE  SavingInv(r)' /\ FilingInv(r)' /\ HandsInv(r)'
<1>0. /\ SavingInv(r) /\ FilingInv(r) /\ HandsInv(r)
      /\ form' = form /\ answer[r] = None /\ None # "trained"
      /\ at[r] \in Nat /\ form[r].count \in Nat /\ Index \subseteq Nat
      /\ at[r] < form[r].count => at[r] \in Index
      /\ \A i \in Index : form[r].file[i] # Partial /\ form[r].file[i] \in SUBSET Texts
      /\ zip \in [Index -> {Partial} \union SUBSET Texts]
      /\ dir \in [Types -> SUBSET Texts]
      /\ {} # Partial
  <2>1. pc[r] # "done"
    BY OthersRest DEF Running
  <2>2. \A S \in SUBSET Texts : S # Partial
    BY NamesDiffer
  <2> QED
    BY <2>1, <2>2, StepFiles, FormTyped, MaxCountIsNat DEF AloneInv, LoopsInv, TypeOK, Index, None
<1> DEFINE n == at[r]
<1>a. \A i \in Index : i < n + 1 <=> i < n \/ i = n
  <2>1. \A i, m \in Nat : i < m + 1 <=> i < m \/ i = m
    OBVIOUS
  <2>2. n \in Nat /\ Index \subseteq Nat
    BY <1>0
  <2> HIDE DEF n
  <2> QED
    BY <2>1, <2>2
<1>1. CASE Save(r)
  <2>1. CASE File(r) # {}
    <3>1. /\ zip' = [zip EXCEPT ![at[r]] = Partial] /\ pc'[r] = "write" /\ linked'[r]
          /\ at' = at /\ answer' = answer /\ pc[r] = "save" /\ at[r] \in Index
      BY <1>0, <1>1, <2>1 DEF Save, TypeOK
    <3> QED
      BY <1>0, <3>1 DEF SavingInv, FilingInv, HandsInv, Sends
  <2>2. CASE File(r) = {}
    <3>1. /\ zip' = zip /\ pc'[r] = "save" /\ at'[r] = at[r] + 1
          /\ answer' = answer /\ pc[r] = "save"
      BY <1>1, <2>2 DEF Save, TypeOK
    <3>2. ASSUME NEW i \in Index, i < at[r] + 1, form[r].file[i] # {} PROVE i < at[r]
      BY <1>a, <2>2, <3>2 DEF File
    <3> QED
      BY <1>0, <3>1, <3>2 DEF SavingInv, FilingInv, HandsInv, Sends
  <2> QED BY <2>1, <2>2
<1>2. CASE Write(r)
  <2>1. /\ zip' = [zip EXCEPT ![at[r]] = File(r)] /\ pc'[r] = "save" /\ at'[r] = at[r] + 1
        /\ answer' = answer /\ at[r] \in Index
    BY <1>0, <1>2 DEF Write, SavingInv, TypeOK, LoopsInv
  <2>2. \A i \in Index : i < at[r] + 1 => i < at[r] \/ i = at[r]
    BY <1>a
  <2>3. pc[r] = "write"
    BY <1>2 DEF Write
  <2> QED
    BY <1>0, <2>1, <2>2, <2>3 DEF SavingInv, FilingInv, HandsInv, Sends, File
<1>3. CASE Saved(r)
  <2>1. /\ zip' = zip /\ pc'[r] = "next" /\ at'[r] = 0 /\ answer' = answer
        /\ pc[r] = "save" /\ at[r] = form[r].count
    BY <1>3 DEF Saved, TypeOK
  <2>2. SavingInv(r)' /\ HandsInv(r)'
    BY <1>0, <2>1 DEF SavingInv, HandsInv
  <2>3. \A i \in Index : Sends(r, i) => i < at[r] /\ ~ (i < 0) /\ zip[i] = form[r].file[i]
    BY <1>0, <2>1 DEF SavingInv, Sends
  <2>4. FilingInv(r)'
    BY <1>0, <2>1, <2>3 DEF FilingInv, Sends
  <2> QED
    BY <2>2, <2>4
<1>4. CASE Look(r)
  <2>1. UNCHANGED <<zip, dir, held, corpus>> /\ pc[r] = "next" /\ at[r] \in Index
    BY <1>0, <1>4 DEF Look
  <2>2. \/ pc'[r] = "done" /\ answer'[r] \in {"error", "bad type"}
        \/ /\ pc'[r] = "next" /\ at'[r] = at[r] + 1 /\ answer' = answer
           /\ zip[at[r]] = {}
        \/ pc'[r] = "open" /\ at' = at /\ answer' = answer /\ zip[at[r]] # {}
    <3>1. pc \in [Requests -> Steps] /\ at \in [Requests -> 0 .. MaxCount]
          /\ answer \in [Requests -> Answers]
      BY DEF TypeOK
    <3>2. CASE pc' = [pc EXCEPT ![r] = "done"]
      BY <1>4, <2>1, <3>1, <3>2 DEF Look, Steps
    <3>3. CASE at' = [at EXCEPT ![r] = @ + 1] /\ pc' = pc /\ answer' = answer /\ zip[at[r]] = {}
      BY <2>1, <3>1, <3>3
    <3>4. CASE pc' = [pc EXCEPT ![r] = "open"] /\ at' = at /\ answer' = answer /\ zip[at[r]] # {}
      BY <3>1, <3>4
    <3> QED
      BY <1>4, <3>2, <3>3, <3>4 DEF Look
  <2>3. CASE pc'[r] = "next" /\ at'[r] = at[r] + 1 /\ answer' = answer /\ zip[at[r]] = {}
    <3>1. at[r] < form[r].count
      BY <1>4 DEF Look
    <3>2. form[r].file[at[r]] = {}
      BY <1>0, <2>1, <2>3, <3>1 DEF FilingInv, Sends
    <3>3. \A i \in Index : form[r].file[i] # {} => (i < at[r] + 1 <=> i < at[r])
      BY <1>a, <3>2
    <3> QED
      BY <1>0, <2>1, <2>3, <3>3 DEF SavingInv, FilingInv, HandsInv, Sends, Filed
  <2> QED
    BY <1>0, <2>1, <2>2, <2>3
       DEF SavingInv, FilingInv, HandsInv, Sends, Filed
<1>5. CASE Open(r)
  <2>1. /\ UNCHANGED <<zip, dir, at, corpus>> /\ pc[r] = "open" /\ at[r] \in Index
        /\ at[r] < form[r].count
        /\ \/ /\ pc'[r] = "extract" /\ held'[r] = zip[at[r]] /\ zip[at[r]] # Partial
              /\ answer' = answer
           \/ pc'[r] = "done" /\ answer'[r] = "error"
    BY <1>0, <1>5 DEF Open, LoopsInv, TypeOK
  <2>2. File(r) # {} => zip[at[r]] = File(r)
    BY <1>0, <2>1 DEF FilingInv, Sends, File
  <2> QED
    BY <1>0, <2>1, <2>2
       DEF SavingInv, FilingInv, HandsInv, Sends, Filed, File, TypeOf
<1>6. CASE Extract(r)
  <2>1. UNCHANGED <<zip, at, corpus>> /\ pc[r] = "extract" /\ at[r] \in Index /\ TypeOf(r) \in Types
    BY <1>0, <1>6 DEF Extract, LoopsInv
  <2>2. CASE pc'[r] = "done"
    BY <1>0, <1>6, <2>1, <2>2 DEF Extract, SavingInv, FilingInv, HandsInv, TypeOK
  <2>3. ASSUME NEW x \in held[r], held[r] # Partial, answer' = answer,
               dir' = [dir EXCEPT ![TypeOf(r)] = Stored(@, x)],
               held'[r] = held[r] \ {x},
               pc'[r] = "extract" \/ (pc'[r] = "remove" /\ held[r] = {x})
        PROVE  SavingInv(r)' /\ FilingInv(r)' /\ HandsInv(r)'
    <3>1. FilingInv(r)'
      BY <1>0, <2>1, <2>3 DEF FilingInv, Sends, Filed
    <3>2. held'[r] # Partial
      <4>1. held[r] \in SUBSET Texts
        BY <2>3 DEF TypeOK
      <4> QED
        BY <2>3, <4>1, NamesDiffer
    <3>3. HandsInv(r)'
      <4>1. File(r)' = File(r)
        BY <1>0, <2>1 DEF File
      <4>2. zip'[at'[r]] # {}
        BY <1>0, <2>1 DEF HandsInv
      <4> QED
        BY <1>0, <2>1, <2>3, <3>2, <4>1, <4>2 DEF HandsInv
    <3> QED
      BY <1>0, <2>1, <2>3, <3>1, <3>3 DEF SavingInv
  <2>4. CASE held[r] = Partial
    BY <1>6, <2>2, <2>4 DEF Extract, TypeOK
  <2>5. CASE held[r] # Partial
    <3>1. PICK x \in held[r] :
            /\ dir' = [dir EXCEPT ![TypeOf(r)] = Stored(@, x)]
            /\ held' = [held EXCEPT ![r] = @ \ {x}]
            /\ \/ held[r] = {x} /\ pc' = [pc EXCEPT ![r] = "remove"]
               \/ pc' = pc
      BY <1>6, <2>5 DEF Extract
    <3>2. answer' = answer
      BY <1>6, <2>5 DEF Extract
    <3>3. held'[r] = held[r] \ {x}
      BY <3>1 DEF TypeOK
    <3>4. pc'[r] = "extract" \/ (pc'[r] = "remove" /\ held[r] = {x})
      <4>1. pc \in [Requests -> Steps]
        BY DEF TypeOK
      <4>2. CASE held[r] = {x} /\ pc' = [pc EXCEPT ![r] = "remove"]
        BY <4>1, <4>2
      <4>3. CASE pc' = pc
        BY <2>1, <4>3
      <4> QED BY <3>1, <4>2, <4>3
    <3> QED
      BY <2>3, <2>5, <3>1, <3>2, <3>3, <3>4
  <2> QED
    BY <2>4, <2>5
<1>7. CASE Remove(r)
  <2>1. /\ UNCHANGED <<dir, corpus>> /\ pc[r] = "remove" /\ at[r] \in Index
        /\ TypeOf(r) \in Types /\ zip[at[r]] # {}
    BY <1>0, <1>7 DEF Remove, LoopsInv, HandsInv
  <2>2. /\ zip' = [zip EXCEPT ![at[r]] = {}] /\ pc'[r] = "next" /\ at'[r] = at[r] + 1
        /\ answer' = answer
    BY <1>7, <2>1 DEF Remove, TypeOK
  <2>4. ASSUME NEW i \in Index, Sends(r, i), i < at[r] + 1 PROVE Filed(r, i)'
    <3>1. CASE i = at[r]
      BY <1>0, <2>1, <2>2, <2>4, <3>1 DEF Filed, File, TypeOf, Sends
    <3>2. CASE i < at[r]
      BY <1>0, <2>1, <2>2, <2>4, <3>2 DEF Filed, FilingInv
    <3> QED BY <1>0, <2>4, <3>1, <3>2
  <2>5. ASSUME NEW i \in Index, Sends(r, i), ~ (i < at[r] + 1) PROVE zip'[i] = form[r].file[i]
    <3>1. i # at[r] /\ ~ (i < at[r])
      BY <1>0, <2>5
    <3> QED
      BY <1>0, <2>1, <2>2, <2>5, <3>1 DEF FilingInv
  <2>6. FilingInv(r)'
    BY <1>0, <2>2, <2>4, <2>5 DEF FilingInv, Sends
  <2> QED
    BY <1>0, <2>2, <2>6 DEF SavingInv, HandsInv
<1>8. CASE Learn(r)
  <2>1. /\ UNCHANGED <<zip, dir, at>> /\ pc[r] = "next" /\ at[r] = form[r].count
        /\ \/ pc'[r] = "dump" /\ corpus'[r] = dir /\ answer' = answer
           \/ pc'[r] = "done" /\ answer'[r] = "error"
    BY <1>8 DEF Learn, TypeOK
  <2> QED
    BY <1>0, <2>1 DEF SavingInv, FilingInv, HandsInv, Sends, Filed
<1>9. CASE Dump(r)
  BY <1>0, <1>9 DEF Dump, TypeOK, SavingInv, FilingInv, HandsInv, Sends
<1>10. CASE Flush(r)
  BY <1>0, <1>10 DEF Flush, TypeOK, SavingInv, FilingInv, HandsInv, Sends
<1> QED
  BY <1>1, <1>2, <1>3, <1>4, <1>5, <1>6, <1>7, <1>8, <1>9, <1>10 DEF Step

(* Requests that arrive one at a time stay alone, and every one of them    *)
(* finds what it has put on the disk.                                      *)
LEMMA AloneAlways ==
  ASSUME ~ Overlap, TypeOK, LoopsInv, AloneInv, [Next]_vars
  PROVE  AloneInv'
<1>1. ASSUME NEW r \in Requests, Step(r) PROVE AloneInv'
  <2>1. OneAtATime'
    BY <1>1, OthersRest DEF OneAtATime, Running
  <2>2. ASSUME NEW q \in Requests \ {r}
        PROVE  SavingInv(q)' /\ FilingInv(q)' /\ HandsInv(q)'
    BY <1>1, OthersRest DEF SavingInv, FilingInv, HandsInv, Sends
  <2> QED
    BY <1>1, <2>1, <2>2, WorkStep DEF AloneInv
<1>2. ASSUME NEW r \in Requests, NEW f \in Forms, Arrive(r, f) PROVE AloneInv'
  <2>1. /\ at[r] \in 0 .. MaxCount /\ at[r] <= 0 /\ at' = at
    <3>1. form[r] = NoForm /\ at[r] <= form[r].count /\ at[r] \in 0 .. MaxCount
      BY <1>2, ArriveTyped, FormsAreForms DEF LoopsInv, TypeOK
    <3>2. NoForm.count = 0
      BY DEF NoForm
    <3>3. at' = at
      BY <1>2 DEF Arrive
    <3> QED
      BY <3>1, <3>2, <3>3
  <2>2. \A q \in Requests : ~ Running(q)
    BY <1>2 DEF Arrive
  <2>3. /\ pc[r] = "idle" /\ pc'[r] \in {"save", "done"}
        /\ answer[r] = None /\ answer'[r] \in {None, "bad name"}
        /\ \A q \in Requests \ {r} : /\ pc'[q] = pc[q] /\ form'[q] = form[q]
                                     /\ answer'[q] = answer[q]
        /\ corpus' = corpus /\ pkl' = pkl
    BY <1>2 DEF Arrive, TypeOK, LoopsInv
  <2>4. OneAtATime'
    BY <2>2, <2>3 DEF OneAtATime, Running
  <2>6. SavingInv(r)' /\ FilingInv(r)' /\ HandsInv(r)'
    <3>1. \A i \in Index : ~ (i < at'[r])
      BY <2>1, MaxCountIsNat DEF Index
    <3> QED
      BY <2>3, <3>1 DEF SavingInv, FilingInv, HandsInv
  <2>7. ASSUME NEW q \in Requests \ {r}
        PROVE  SavingInv(q)' /\ FilingInv(q)' /\ HandsInv(q)'
    <3>1. ~ Running(q)
      BY <2>2
    <3> QED
      BY <2>3, <3>1 DEF SavingInv, FilingInv, HandsInv, Sends, Running
  <2> QED
    BY <2>4, <2>6, <2>7 DEF AloneInv
<1>3. CASE Crash
  <2>1. /\ \A q \in Requests : /\ pc'[q] \in {"idle", "done"} /\ form'[q] = form[q]
                               /\ corpus'[q] = corpus[q]
                               /\ answer'[q] = "trained" => answer[q] = "trained"
        /\ \E q \in Requests : answer'[q] = "lost"
    BY <1>3 DEF Crash, TypeOK, Running
  <2>2. OneAtATime'
    BY <2>1 DEF OneAtATime, Running
  <2> QED
    BY <2>1, <2>2
       DEF AloneInv, SavingInv, FilingInv, HandsInv, Sends
<1>4. CASE UNCHANGED vars
  BY <1>4 DEF vars, AloneInv, OneAtATime, Running, SavingInv, FilingInv,
     HandsInv, Sends, Filed, File, TypeOf
<1> QED
  BY <1>1, <1>2, <1>3, <1>4 DEF Next

(* The invariant of requests that come one after the other.                *)
LEMMA Alone == ASSUME ~ Overlap PROVE Spec => [](TypeOK /\ LoopsInv /\ AloneInv)
<1>1. Init => AloneInv
  <2> SUFFICES ASSUME Init PROVE AloneInv
    OBVIOUS
  <2>1. \A r \in Requests : pc[r] = "idle" /\ answer[r] = None
    BY DEF Init
  <2> QED
    BY <2>1 DEF AloneInv, OneAtATime, Running, SavingInv, FilingInv, HandsInv
<1>2. TypeOK /\ LoopsInv /\ AloneInv /\ [Next]_vars => (TypeOK /\ LoopsInv /\ AloneInv)'
  BY TypeStep, AloneAlways
<1> QED
  BY <1>1, <1>2, TypeInit, PTL DEF Spec

(* app.py:36, 43-46 and ai.py:30-60: an error of a request that trains     *)
(* alone has one of the causes there are.                                  *)
THEOREM CausesKnown == ASSUME ~ Overlap PROVE Spec => ErrorsHaveCause
<1>1. ASSUME TypeOK, LoopsInv, AloneInv, Next, NEW r \in Requests,
             answer'[r] = "error", answer[r] # "error"
      PROVE  MissingType(form[r]) \/ InTheWay(form[r]) \/ ~ Fits(dir)
  <2>0. /\ FilingInv(r) /\ HandsInv(r) /\ form[r].count \in Nat /\ at[r] \in Nat
        /\ at[r] < form[r].count => at[r] \in Index /\ at[r] \in 0 .. form[r].count - 1
        /\ at[r] < form[r].count => File(r) # Partial
    <3>1. form[r].count \in Nat /\ at[r] \in Nat /\ (at[r] < form[r].count => at[r] \in Index)
      BY <1>1, FormTyped, MaxCountIsNat
    <3>2. at[r] \in Index => File(r) \in SUBSET Texts
      BY <1>1, FormTyped DEF File
    <3>3. \A S \in SUBSET Texts : S # Partial
      BY NamesDiffer
    <3>4. \A n, m \in Nat : n < m => n \in 0 .. m - 1
      OBVIOUS
    <3> QED
      BY <1>1, <3>1, <3>2, <3>3, <3>4 DEF AloneInv
  <2>1. Step(r)
    <3>1. ASSUME NEW q \in Requests, Step(q) PROVE q = r
      BY <1>1, <3>1, OthersRest
    <3>2. ASSUME NEW q \in Requests, NEW f \in Forms, Arrive(q, f) PROVE FALSE
      BY <1>1, <3>2 DEF Arrive, TypeOK
    <3>3. ~ Crash
      BY <1>1 DEF Crash, TypeOK
    <3> QED
      BY <1>1, <3>1, <3>2, <3>3 DEF Next
  <2>2. CASE Look(r)
    BY <1>1, <2>0, <2>2 DEF Look, TypeOK, TypeOf, MissingType
  <2>3. CASE Open(r) \/ Extract(r)
    <3>1. /\ at[r] \in Index /\ at[r] < form[r].count /\ zip[at[r]] # {}
          /\ pc[r] \in {"open", "extract"}
      BY <1>1, <2>0, <2>3 DEF Open, Extract, LoopsInv, HandsInv
    <3>2. File(r) = {}
      BY <1>1, <2>0, <2>3, <3>1 DEF Open, Extract, HandsInv, FilingInv, Sends, File, TypeOK
    <3> QED
      BY <3>1, <3>2 DEF InTheWay, File
  <2>4. CASE Remove(r)
    BY <1>1, <2>0, <2>4 DEF Remove, HandsInv, TypeOK
  <2>5. CASE Learn(r)
    <3>1. pc[r] = "next" /\ at[r] = form[r].count /\ (~ Listable \/ ~ Fits(dir))
      BY <1>1, <2>5 DEF Learn, TypeOK
    <3>2. ASSUME NEW i \in Index, zip[i] # {} PROVE InTheWay(form[r])
      <4>1. i \in Nat
        BY MaxCountIsNat DEF Index
      <4>2. i < form[r].count => form[r].file[i] = {}
        BY <2>0, <3>1, <3>2 DEF FilingInv, Sends, Filed
      <4> QED
        BY <2>0, <3>2, <4>1, <4>2 DEF InTheWay
    <3> QED
      BY <3>1, <3>2 DEF Listable
  <2>6. CASE Save(r) \/ Write(r) \/ Saved(r) \/ Dump(r) \/ Flush(r)
    BY <1>1, <2>6 DEF Save, Write, Saved, Dump, Flush, TypeOK
  <2> QED
    BY <2>1, <2>2, <2>3, <2>4, <2>5, <2>6 DEF Step
<1>2. TypeOK /\ LoopsInv /\ AloneInv /\ [Next]_vars =>
        [\A r \in Requests : answer'[r] = "error" /\ answer[r] # "error" =>
           MissingType(form[r]) \/ InTheWay(form[r]) \/ ~ Fits(dir)]_vars
  BY <1>1
<1> QED
  BY <1>2, Alone, PTL DEF Spec, ErrorsHaveCause

(* What a form asks for, a request was sent.                               *)
FormsPosted == \A r \in Requests : form[r] \in Forms \union {NoForm}

(* Every type that is posted comes with a file.                            *)
TypesHaveFiles == \A f \in Forms, i \in Index : f.type[i] \in Types => f.file[i] # {}

(* A form stays as it was posted.                                          *)
LEMMA FormsStay == ASSUME TypeOK, LoopsInv, FormsPosted, [Next]_vars PROVE FormsPosted'
<1>1. ASSUME NEW r \in Requests, Step(r) PROVE FormsPosted'
  BY <1>1, StepFiles DEF FormsPosted
<1>2. ASSUME NEW r \in Requests, NEW f \in Forms, Arrive(r, f) PROVE FormsPosted'
  BY <1>2 DEF Arrive, FormsPosted, TypeOK
<1>3. CASE Crash \/ UNCHANGED vars
  BY <1>3 DEF Crash, vars, FormsPosted
<1> QED
  BY <1>1, <1>2, <1>3 DEF Next

(* Where every type that is sent comes with a file, what is extracted was  *)
(* sent with its type.                                                     *)
LEMMA LabelledStep ==
  ASSUME TypesHaveFiles, TypeOK, LoopsInv, AloneInv, FormsPosted, LabelledByRequest, [Next]_vars
  PROVE  LabelledByRequest'
<1>1. ASSUME NEW r \in Requests, Step(r) PROVE LabelledByRequest'
  <2>1. form' = form
    BY <1>1, StepFiles
  <2> SUFFICES ASSUME NEW t \in Types, NEW x \in dir'[t], x \notin dir[t]
               PROVE  \E i \in Index : x \in form[r].file[i] /\ form[r].type[i] = t
    BY <2>1 DEF LabelledByRequest
  <2>2. /\ pc[r] = "extract" /\ at[r] \in Index /\ TypeOf(r) \in Types
        /\ \E y \in held[r] : dir' = [dir EXCEPT ![TypeOf(r)] = Stored(@, y)]
    BY <1>1, StepDirs
  <2>3. x \in held[r] /\ t = TypeOf(r)
    BY <2>2 DEF TypeOK, Stored
  <2>4. File(r) # {}
    BY <2>2, NamesDiffer DEF TypesHaveFiles, FormsPosted, NoForm, TypeOf, File
  <2>5. x \in File(r)
    BY <2>2, <2>3, <2>4 DEF AloneInv, HandsInv
  <2> QED
    BY <2>2, <2>3, <2>5 DEF File, TypeOf
<1>2. ASSUME NEW r \in Requests, NEW f \in Forms, Arrive(r, f) PROVE LabelledByRequest'
  <2>1. /\ dir' = dir /\ \A i \in Index : form[r].file[i] = {}
        /\ \A q \in Requests \ {r} : form'[q] = form[q]
    <3>1. form[r] = NoForm
      BY <1>2, ArriveTyped, FormsAreForms
    <3>2. dir' = dir /\ form' = [form EXCEPT ![r] = f]
      BY <1>2 DEF Arrive
    <3> QED
      BY <3>1, <3>2 DEF NoForm, TypeOK
  <2> QED
    BY <2>1 DEF LabelledByRequest
<1>3. CASE Crash \/ UNCHANGED vars
  BY <1>3 DEF Crash, vars, LabelledByRequest
<1> QED
  BY <1>1, <1>2, <1>3 DEF Next

(* app.py:31-45: without overlap, and with forms in which types come with  *)
(* files, as the page posts them (script.js:81-91), one and the same       *)
(* request sent a text and gave it the type it lies under, although        *)
(* archives of earlier failures are met.                                   *)
THEOREM LabelledAlone ==
  ASSUME ~ Overlap, TypesHaveFiles
  PROVE  Spec => []LabelledByRequest
<1>1. Init => FormsPosted /\ LabelledByRequest
  BY DEF Init, FormsPosted, LabelledByRequest
<1>2. /\ TypeOK /\ LoopsInv /\ AloneInv /\ FormsPosted /\ LabelledByRequest /\ [Next]_vars
      => (FormsPosted /\ LabelledByRequest)'
  BY FormsStay, LabelledStep
<1> QED
  BY <1>1, <1>2, Alone, PTL DEF Spec

-----------------------------------------------------------------------------
(* What the request at work learns.  A text it has extracted lies under    *)
(* its type until the request itself extracts another of that name there.  *)

Stays(r, i, d) ==
  \A x \in form[r].file[i] : x \in d[form[r].type[i]] \/ Replaced(form[r], i, x)

PassedInv(r) ==
  pc[r] \in {"next", "open", "extract", "remove"} =>
    \A i \in Index : Sends(r, i) /\ i < at[r] => Stays(r, i, dir)
TakenInv(r) ==
  /\ pc[r] = "extract" => File(r) \ held[r] \subseteq dir[TypeOf(r)]
  /\ pc[r] = "remove" => File(r) \subseteq dir[TypeOf(r)]
LearnedInv(r) ==
  pc[r] \in {"dump", "flush"} \/ answer[r] = "trained" =>
    \A i \in Index : Sends(r, i) => Stays(r, i, corpus[r])

LearningInv == \A r \in Requests : PassedInv(r) /\ TakenInv(r) /\ LearnedInv(r)

(* An extracted text takes the place of those of its name that were sent   *)
(* before it, and of none of its own archive.                              *)
LEMMA ExtractLearns ==
  ASSUME TypesHaveFiles, TypeOK, LoopsInv, AloneInv, FormsPosted, LearningInv,
         NEW r \in Requests, Extract(r), held[r] # Partial
  PROVE  PassedInv(r)' /\ TakenInv(r)'
<1>1. /\ pc[r] = "extract" /\ at' = at /\ form' = form /\ at[r] \in Index
      /\ at[r] < form[r].count /\ TypeOf(r) \in Types /\ Index \subseteq Nat
      /\ File(r) \in Archive /\ File(r) \subseteq Texts
  BY FormTyped, MaxCountIsNat DEF Extract, LoopsInv, File, Index
<1>2. File(r) # {}
  <2>1. CASE form[r] \in Forms
    BY <1>1, <2>1 DEF TypesHaveFiles, TypeOf, File
  <2>2. CASE form[r] = NoForm
    BY <1>1, <2>2, NamesDiffer DEF NoForm, TypeOf
  <2> QED
    BY <2>1, <2>2 DEF FormsPosted
<1>3. held[r] \subseteq File(r)
  BY <1>1, <1>2 DEF AloneInv, HandsInv
<1>4. PICK y \in held[r] :
        /\ dir' = [dir EXCEPT ![TypeOf(r)] = Stored(@, y)]
        /\ held' = [held EXCEPT ![r] = @ \ {y}]
        /\ \/ held[r] = {y} /\ pc' = [pc EXCEPT ![r] = "remove"]
           \/ pc' = pc
  BY DEF Extract
<1>5. /\ held'[r] = held[r] \ {y}
      /\ dir'[TypeOf(r)] = Stored(dir[TypeOf(r)], y)
      /\ \A t \in Types \ {TypeOf(r)} : dir'[t] = dir[t]
      /\ pc'[r] = "extract" \/ (pc'[r] = "remove" /\ held[r] = {y})
  <2>1. held'[r] = held[r] \ {y}
    BY <1>4 DEF TypeOK
  <2>2. dir \in [Types -> SUBSET Texts] /\ pc \in [Requests -> Steps]
    BY DEF TypeOK
  <2>3. /\ dir'[TypeOf(r)] = Stored(dir[TypeOf(r)], y)
        /\ \A t \in Types \ {TypeOf(r)} : dir'[t] = dir[t]
    BY <1>1, <1>4, <2>2
  <2>4. pc'[r] = "extract" \/ (pc'[r] = "remove" /\ held[r] = {y})
    <3>1. CASE held[r] = {y} /\ pc' = [pc EXCEPT ![r] = "remove"]
      BY <2>2, <3>1
    <3>2. CASE pc' = pc
      <4>1. pc[r] = "extract"
        BY <1>1
      <4> QED BY <3>2, <4>1
    <3> QED BY <1>4, <3>1, <3>2
  <2> QED
    BY <2>1, <2>3, <2>4
<1>6. PassedInv(r)'
  <2> SUFFICES ASSUME NEW i \in Index, Sends(r, i), i < at[r],
                      NEW x \in form[r].file[i], ~ Replaced(form[r], i, x)
               PROVE  x \in dir'[form[r].type[i]]
    BY <1>1 DEF PassedInv, Stays, Sends
  <2>1. x \in dir[form[r].type[i]]
    BY <1>1 DEF LearningInv, PassedInv, Stays
  <2>2. form[r].type[i] \in Types
    BY <1>1 DEF AloneInv, FilingInv, Filed
  <2>3. form[r].type[i] = TypeOf(r) => Name[x] # Name[y]
    BY <1>1, <1>3 DEF Replaced, TypeOf, File
  <2> QED
    BY <1>5, <2>1, <2>2, <2>3 DEF Stored
<1>7. File(r) \ held'[r] \subseteq dir'[TypeOf(r)]
  <2> SUFFICES ASSUME NEW x \in File(r), x \notin held'[r], x # y
               PROVE  x \in dir'[TypeOf(r)]
    BY <1>5 DEF Stored
  <2>1. x \in dir[TypeOf(r)]
    BY <1>1, <1>5 DEF LearningInv, TakenInv
  <2>2. Name[x] # Name[y]
    BY <1>1, <1>3 DEF Archive
  <2> QED
    BY <1>5, <2>1, <2>2 DEF Stored
<1>8. TakenInv(r)'
  <2>1. File(r)' = File(r) /\ TypeOf(r)' = TypeOf(r)
    BY <1>1 DEF File, TypeOf
  <2>2. pc'[r] = "remove" => held'[r] = {}
    BY <1>5
  <2> QED
    BY <1>7, <2>1, <2>2 DEF TakenInv
<1> QED
  BY <1>6, <1>8

(* What the request at work has learned, after each of its steps.          *)
LEMMA LearningStep ==
  ASSUME TypesHaveFiles, TypeOK, LoopsInv, AloneInv, FormsPosted, LearningInv,
         NEW r \in Requests, Step(r)
  PROVE  PassedInv(r)' /\ TakenInv(r)' /\ LearnedInv(r)'
<1>0. /\ PassedInv(r) /\ TakenInv(r) /\ LearnedInv(r) /\ form' = form
      /\ answer[r] = None /\ None # "trained"
      /\ at[r] \in Nat /\ form[r].count \in Nat /\ Index \subseteq Nat
      /\ at[r] < form[r].count => at[r] \in Index
  <2>1. pc[r] # "done"
    BY OthersRest DEF Running
  <2> QED
    BY <2>1, StepFiles, FormTyped, MaxCountIsNat DEF LearningInv, LoopsInv, Index, None
<1> DEFINE n == at[r]
<1>a. \A i \in Index : i < n + 1 <=> i < n \/ i = n
  <2>1. \A i, m \in Nat : i < m + 1 <=> i < m \/ i = m
    OBVIOUS
  <2>2. n \in Nat /\ Index \subseteq Nat
    BY <1>0
  <2> HIDE DEF n
  <2> QED
    BY <2>1, <2>2
<1>1. CASE Save(r) \/ Write(r)
  <2>1. pc'[r] \in {"save", "write"} /\ answer' = answer
    BY <1>1 DEF Save, Write, TypeOK
  <2> QED
    BY <1>0, <2>1 DEF PassedInv, TakenInv, LearnedInv
<1>2. CASE Saved(r)
  <2>1. pc'[r] = "next" /\ at'[r] = 0 /\ answer' = answer
    BY <1>2 DEF Saved, TypeOK
  <2>2. \A i \in Index : ~ (i < 0)
    BY <1>0
  <2> QED
    BY <1>0, <2>1, <2>2 DEF PassedInv, TakenInv, LearnedInv
<1>3. CASE Look(r)
  <2>1. dir' = dir /\ pc[r] = "next" /\ at[r] \in Index /\ at[r] < form[r].count
    BY <1>0, <1>3 DEF Look
  <2>2. \/ pc'[r] = "done" /\ answer'[r] \in {"error", "bad type"}
        \/ pc'[r] = "next" /\ at'[r] = at[r] + 1 /\ answer' = answer /\ zip[at[r]] = {}
        \/ pc'[r] = "open" /\ at' = at /\ answer' = answer
    <3>1. pc \in [Requests -> Steps] /\ at \in [Requests -> 0 .. MaxCount]
          /\ answer \in [Requests -> Answers]
      BY DEF TypeOK
    <3>2. CASE pc' = [pc EXCEPT ![r] = "done"]
      BY <1>3, <2>1, <3>1, <3>2 DEF Look, Steps
    <3>3. CASE at' = [at EXCEPT ![r] = @ + 1] /\ pc' = pc /\ answer' = answer /\ zip[at[r]] = {}
      BY <2>1, <3>1, <3>3
    <3>4. CASE pc' = [pc EXCEPT ![r] = "open"] /\ at' = at /\ answer' = answer
      BY <3>1, <3>4
    <3> QED
      BY <1>3, <3>2, <3>3, <3>4 DEF Look
  <2>3. CASE pc'[r] = "next" /\ at'[r] = at[r] + 1 /\ answer' = answer /\ zip[at[r]] = {}
    <3>1. form[r].file[at[r]] = {}
      BY <2>1, <2>3, <1>0 DEF AloneInv, FilingInv, Sends
    <3>2. \A i \in Index : form[r].file[i] # {} /\ i < at[r] + 1 => i < at[r]
      BY <1>a, <3>1
    <3> QED
      BY <1>0, <2>1, <2>3, <3>2 DEF PassedInv, TakenInv, LearnedInv, Sends, Stays
  <2>4. CASE pc'[r] = "open" /\ at' = at /\ answer' = answer
    BY <1>0, <2>1, <2>4 DEF PassedInv, TakenInv, LearnedInv, Sends, Stays
  <2> QED
    BY <2>2, <2>3, <2>4 DEF PassedInv, TakenInv, LearnedInv
<1>4. CASE Open(r)
  <2>1. /\ UNCHANGED <<dir, at>> /\ pc[r] = "open" /\ at[r] \in Index
        /\ at[r] < form[r].count
        /\ \/ pc'[r] = "extract" /\ held'[r] = zip[at[r]] /\ answer' = answer
           \/ pc'[r] = "done" /\ answer'[r] = "error"
    BY <1>0, <1>4 DEF Open, LoopsInv, TypeOK
  <2>2. File(r) # {} => zip[at[r]] = File(r)
    BY <1>0, <2>1 DEF AloneInv, FilingInv, Sends, File
  <2> QED
    BY <1>0, <2>1, <2>2 DEF PassedInv, TakenInv, LearnedInv, Sends, Stays, File, TypeOf
<1>5. CASE Extract(r)
  <2>1. CASE held[r] = Partial
    <3>1. pc'[r] = "done" /\ answer'[r] = "error"
      BY <1>5, <2>1 DEF Extract, TypeOK
    <3> QED
      BY <3>1 DEF PassedInv, TakenInv, LearnedInv
  <2>2. CASE held[r] # Partial
    <3>1. pc'[r] \in {"extract", "remove"} /\ answer' = answer
      BY <1>5, <2>2 DEF Extract, TypeOK
    <3> QED
      BY <1>0, <1>5, <2>2, <3>1, ExtractLearns DEF LearnedInv
  <2> QED BY <2>1, <2>2
<1>6. CASE Remove(r)
  <2>1. /\ dir' = dir /\ pc[r] = "remove" /\ at[r] \in Index
        /\ \/ pc'[r] = "next" /\ at'[r] = at[r] + 1 /\ answer' = answer
           \/ pc'[r] = "done" /\ answer'[r] = "error"
    BY <1>0, <1>6 DEF Remove, LoopsInv, TypeOK
  <2>2. Stays(r, at[r], dir)
    BY <1>0, <2>1 DEF TakenInv, Stays, File, TypeOf
  <2>3. \A i \in Index : i < at[r] + 1 => i < at[r] \/ i = at[r]
    BY <1>a
  <2> QED
    BY <1>0, <2>1, <2>2, <2>3 DEF PassedInv, TakenInv, LearnedInv, Sends, Stays
<1>7. CASE Learn(r)
  <2>1. /\ dir' = dir /\ pc[r] = "next" /\ at[r] = form[r].count
        /\ \/ pc'[r] = "dump" /\ corpus'[r] = dir /\ answer' = answer
           \/ pc'[r] = "done" /\ answer'[r] = "error"
    BY <1>7 DEF Learn, TypeOK
  <2> QED
    BY <1>0, <2>1 DEF PassedInv, TakenInv, LearnedInv, Sends, Stays
<1>8. CASE Dump(r) \/ Flush(r)
  <2>1. /\ pc[r] \in {"dump", "flush"} /\ pc'[r] \in {"flush", "done"}
        /\ corpus' = corpus
    BY <1>8 DEF Dump, Flush, TypeOK
  <2> QED
    BY <1>0, <2>1 DEF PassedInv, TakenInv, LearnedInv, Sends, Stays
<1> QED
  BY <1>1, <1>2, <1>3, <1>4, <1>5, <1>6, <1>7, <1>8 DEF Step

(* Nobody else touches what the request at work learns.                    *)
LEMMA LearningAlways ==
  ASSUME ~ Overlap, TypesHaveFiles, TypeOK, LoopsInv, AloneInv, FormsPosted,
         LearningInv, [Next]_vars
  PROVE  LearningInv'
<1>1. ASSUME NEW r \in Requests, Step(r) PROVE LearningInv'
  <2>1. ASSUME NEW q \in Requests \ {r}
        PROVE  PassedInv(q)' /\ TakenInv(q)' /\ LearnedInv(q)'
    <3>1. LearnedInv(q)
      BY DEF LearningInv
    <3> QED
      BY <1>1, <3>1, OthersRest DEF PassedInv, TakenInv, LearnedInv, Sends, Stays
  <2> QED
    BY <1>1, <2>1, LearningStep DEF LearningInv
<1>2. ASSUME NEW r \in Requests, NEW f \in Forms, Arrive(r, f) PROVE LearningInv'
  <2>1. /\ \A q \in Requests : ~ Running(q)
        /\ pc'[r] \in {"save", "done"} /\ answer'[r] \in {None, "bad name"}
        /\ \A q \in Requests \ {r} : /\ pc'[q] = pc[q] /\ form'[q] = form[q]
                                     /\ answer'[q] = answer[q]
        /\ corpus' = corpus
    BY <1>2 DEF Arrive, TypeOK, LoopsInv
  <2>2. PassedInv(r)' /\ TakenInv(r)' /\ LearnedInv(r)'
    BY <2>1 DEF PassedInv, TakenInv, LearnedInv, None
  <2>3. ASSUME NEW q \in Requests \ {r}
        PROVE  PassedInv(q)' /\ TakenInv(q)' /\ LearnedInv(q)'
    <3>1. LearnedInv(q) /\ ~ Running(q)
      BY <2>1 DEF LearningInv
    <3> QED
      BY <2>1, <3>1 DEF PassedInv, TakenInv, LearnedInv, Sends, Stays, Running
  <2> QED
    BY <2>2, <2>3 DEF LearningInv
<1>3. CASE Crash
  <2>1. \A q \in Requests : /\ pc'[q] \in {"idle", "done"} /\ form'[q] = form[q]
                            /\ corpus'[q] = corpus[q]
                            /\ answer'[q] = "trained" => answer[q] = "trained"
    BY <1>3 DEF Crash, TypeOK, Running
  <2>2. \A q \in Requests : LearnedInv(q)
    BY DEF LearningInv
  <2> QED
    BY <2>1, <2>2 DEF LearningInv, PassedInv, TakenInv, LearnedInv, Sends, Stays
<1>4. CASE UNCHANGED vars
  BY <1>4 DEF vars, LearningInv, PassedInv, TakenInv, LearnedInv, Sends, Stays, File, TypeOf
<1> QED
  BY <1>1, <1>2, <1>3, <1>4 DEF Next

(* app.py:27-49: a request that trains alone, with a file for every type   *)
(* as the page posts them (script.js:81-91), and is told so, has learned   *)
(* all it sent but what later texts of its own replaced by their names     *)
(* (app.py:45), whatever earlier trainings left on the disk.               *)
THEOREM LearnsAll ==
  ASSUME ~ Overlap, TypesHaveFiles
  PROVE  Spec => []TrainedMeansLearned
<1>1. Init => FormsPosted /\ LearningInv
  <2> SUFFICES ASSUME Init PROVE FormsPosted /\ LearningInv
    OBVIOUS
  <2>1. \A r \in Requests : pc[r] = "idle" /\ answer[r] = None /\ form[r] = NoForm
    BY DEF Init
  <2> QED
    BY <2>1 DEF FormsPosted, LearningInv, PassedInv, TakenInv, LearnedInv, None
<1>2. /\ TypeOK /\ LoopsInv /\ AloneInv /\ FormsPosted /\ LearningInv /\ [Next]_vars
      => (FormsPosted /\ LearningInv)'
  BY FormsStay, LearningAlways
<1>3. TypeOK /\ LearningInv => TrainedMeansLearned
  <2> SUFFICES ASSUME TypeOK, LearningInv, NEW r \in Requests, answer[r] = "trained",
                      NEW i \in 0 .. form[r].count - 1, form[r].file[i] # {}
               PROVE  Stays(r, i, corpus[r])
    BY DEF TrainedMeansLearned, Stays
  <2>1. i \in Index /\ i < form[r].count
    BY FormTyped, MaxCountIsNat DEF Index
  <2> QED
    BY <2>1 DEF LearningInv, LearnedInv, Sends
<1> QED
  BY <1>1, <1>2, <1>3, Alone, PTL DEF Spec

-----------------------------------------------------------------------------
(* Whose pieces a model file is made of, however trainings overlap.        *)
TornInv ==
  /\ pkl[1] # None => /\ pc[pkl[1]] = "flush" \/ answer[pkl[1]] \in {"trained", "lost"}
                      /\ pkl[2] = None => pc[pkl[1]] = "flush" \/ answer[pkl[1]] = "lost"
  /\ pkl[2] # None => answer[pkl[2]] = "trained"

(* Only a training that dumps its model touches the file, and an answer    *)
(* once given stays.                                                       *)
LEMMA TornStep ==
  ASSUME TypeOK, LoopsInv, TornInv, [Next]_vars
  PROVE  TornInv'
<1>0. /\ None \notin Requests
      /\ pkl[1] \in Requests \union {None} /\ pkl[2] \in Requests \union {None}
  BY NamesDiffer DEF TypeOK
<1>1. ASSUME NEW r \in Requests, Step(r) PROVE TornInv'
  <2>1. /\ answer[r] = None
        /\ \A q \in Requests \ {r} : pc'[q] = pc[q] /\ answer'[q] = answer[q]
    BY <1>1 DEF Step, Save, Write, Saved, Look, Open, Extract, Remove, Learn, Dump, Flush,
       TypeOK, LoopsInv
  <2>2. CASE Dump(r)
    <3>1. pkl'[1] = r /\ pkl'[2] = None /\ pc'[r] = "flush"
      BY <2>2 DEF Dump, TypeOK
    <3> QED
      BY <1>0, <3>1 DEF TornInv
  <2>3. CASE Flush(r)
    <3>1. pkl'[1] = pkl[1] /\ pkl'[2] = r /\ answer'[r] = "trained"
      BY <2>3 DEF Flush, TypeOK
    <3> QED
      BY <1>0, <2>1, <3>1 DEF TornInv
  <2>4. CASE ~ Dump(r) /\ ~ Flush(r)
    <3>1. pkl' = pkl /\ pc[r] # "flush"
      BY <1>1, <2>4 DEF Step, Save, Write, Saved, Look, Open, Extract, Remove, Learn
    <3>2. pkl[1] # r /\ pkl[2] # r
      BY <1>0, <2>1, <3>1 DEF TornInv, None
    <3> QED
      BY <1>0, <2>1, <3>1, <3>2 DEF TornInv
  <2> QED
    BY <2>2, <2>3, <2>4
<1>2. ASSUME NEW r \in Requests, NEW f \in Forms, Arrive(r, f) PROVE TornInv'
  <2>1. /\ pkl' = pkl /\ pc[r] = "idle" /\ answer[r] = None
        /\ \A q \in Requests \ {r} : pc'[q] = pc[q] /\ answer'[q] = answer[q]
    BY <1>2 DEF Arrive, TypeOK, LoopsInv
  <2>2. pkl[1] # r /\ pkl[2] # r
    BY <1>0, <2>1 DEF TornInv, None
  <2> QED
    BY <1>0, <2>1, <2>2 DEF TornInv
<1>3. CASE Crash
  <2>1. /\ pkl' = pkl
        /\ \A q \in Requests : \/ pc[q] = "flush" /\ answer'[q] = "lost"
                               \/ ~ Running(q) /\ answer'[q] = answer[q]
                               \/ Running(q) /\ pc[q] # "flush" /\ answer[q] = None
        /\ \A q \in Requests : pc[q] = "flush" => answer[q] = None
    BY <1>3 DEF Crash, TypeOK, Running, LoopsInv
  <2>2. \A q \in Requests : answer[q] \in {"trained", "lost"} => answer'[q] = answer[q]
    BY <2>1 DEF None
  <2>3. \A q \in Requests : pc[q] = "flush" => answer'[q] = "lost"
    BY <2>1 DEF Running
  <2>4. pkl' = pkl /\ \A q \in Requests : answer[q] = "lost" => answer'[q] = "lost"
    BY <2>1, <2>2
  <2>5. (pkl[1] # None)' => /\ (answer[pkl[1]] \in {"trained", "lost"})'
                            /\ (pkl[2] = None => answer[pkl[1]] = "lost")'
    BY <1>0, <2>2, <2>3, <2>4 DEF TornInv
  <2>6. (pkl[2] # None => answer[pkl[2]] = "trained")'
    BY <1>0, <2>2, <2>4 DEF TornInv
  <2> QED
    BY <2>5, <2>6 DEF TornInv
<1>4. CASE UNCHANGED vars
  BY <1>4 DEF vars, TornInv
<1> QED
  BY <1>1, <1>2, <1>3, <1>4 DEF Next

(* ai.py:64-65: however trainings overlap and whenever the process dies,   *)
(* a model file nobody is writing is of requests that trained, but for its *)
(* beginning where a loss explains it.                                     *)
THEOREM TornExplained == Spec => []TornModelHasCause
<1>1. Init => TornInv
  BY DEF Init, TornInv
<1>2. TypeOK /\ LoopsInv /\ TornInv /\ [Next]_vars => TornInv'
  BY TornStep
<1>3. TypeOK /\ TornInv => TornModelHasCause
  BY DEF TypeOK, TornInv, TornModelHasCause
<1> QED
  BY <1>1, <1>2, <1>3, TrainTypeCorrect, PTL DEF Spec

-----------------------------------------------------------------------------
\* The page.

(* The counter is the number of points on the page, or one ahead of it as  *)
(* long as the page was not cleared.                                       *)
Counted == sampleCount \in {Len(rows), Len(rows) + 1}

(* ... so a form counts its points, or one more, and that one has no type. *)
CountedAsShown ==
  \A r \in Requests :
    /\ form[r].count \in {Len(shown[r]), Len(shown[r]) + 1}
    /\ \A i \in Index : i >= Len(shown[r]) => form[r].type[i] = NoType

(* Every number the second loop has passed has a type.                     *)
PassedNumbersAreTyped ==
  \A r \in Requests : \A i \in Index :
    /\ pc[r] \in {"next", "open", "extract", "remove"} /\ i < at[r]
         => form[r].type[i] \in Types
    /\ (pc[r] \in {"dump", "flush"} \/ answer[r] = "trained") /\ i < form[r].count
         => form[r].type[i] \in Types

PageInv ==
  /\ PTypeOK /\ LoopsInv
  /\ Counted /\ CountedAsShown /\ PassedNumbersAreTyped /\ PostsArePaired

-----------------------------------------------------------------------------
(* What is looked up by position on a page is there.                       *)
LEMMA PointsTyped ==
  ASSUME PTypeOK
  PROVE  /\ Len(rows) \in Nat /\ Len(rows) <= MaxRows
         /\ \A i \in Index : i < Len(rows) => /\ FileInput(i) \in Archive
                                              /\ TextInput(i) \in Types \union {BadType}
<1>1. Len(rows) \in Nat /\ rows \in Seq(Row) /\ Len(rows) <= MaxRows
  BY DEF PTypeOK
<1>2. ASSUME NEW i \in Index, i < Len(rows)
      PROVE  FileInput(i) \in Archive /\ TextInput(i) \in Types \union {BadType}
  <2>1. i \in Nat
    BY MaxCountIsNat DEF Index
  <2>2. rows[i + 1] \in Row
    BY <1>1, <1>2, <2>1
  <2>3. i # 0 => rows[i] \in Row
    BY <1>1, <1>2, <2>1
  <2> QED
    BY <2>2, <2>3, ModelNameIsType DEF Row, FileInput, TextInput
<1> QED
  BY <1>1, <1>2

(* What a click posts is a form, paired, and without a type behind the     *)
(* points.                                                                 *)
LEMMA PostedIsForm ==
  ASSUME PTypeOK, Counted
  PROVE  /\ Posted \in Form /\ Paired(Posted)
         /\ Posted.count = sampleCount
         /\ \A i \in Index : i >= Len(rows) => Posted.type[i] = NoType
<1>1. sampleCount \in 0 .. MaxCount /\ sampleCount >= Len(rows) /\ named \in BOOLEAN
  BY PointsTyped, RowsFit, MaxCountIsNat DEF PTypeOK, Counted
<1>2. Posted \in Form
  <2>1. {} \in Archive
    BY DEF Archive
  <2> QED
    BY <1>1, <2>1, PointsTyped DEF Posted, Form
<1>3. \A i \in Index : i \in Nat
  BY MaxCountIsNat DEF Index
<1>4. \A i \in Index : i >= Len(rows) => Posted.type[i] = NoType /\ Posted.file[i] = {}
  BY <1>3, PointsTyped DEF Posted
<1>5. \A i \in Index : Posted.file[i] = {} <=> Posted.type[i] = NoType
  <2>1. \A i \in Index : i < Len(rows) => TextInput(i) # NoType
    BY PointsTyped, NamesDiffer DEF BadType, NoType
  <2> QED
    BY <2>1 DEF Posted
<1>6. Posted.count = sampleCount
  BY DEF Posted
<1>7. Paired(Posted)
  <2> SUFFICES ASSUME NEW i \in Index, i >= Posted.count PROVE Posted.file[i] = {}
    BY <1>5 DEF Paired
  <2>1. i >= Len(rows)
    BY <1>1, <1>3, <1>6, PointsTyped
  <2> QED
    BY <2>1, <1>4
<1> QED
  BY <1>2, <1>4, <1>6, <1>7

-----------------------------------------------------------------------------
LEMMA PageInit == PInit => PageInv
<1> SUFFICES ASSUME PInit PROVE PageInv
  OBVIOUS
<1>1. TypeOK /\ LoopsInv
  BY TypeInit DEF PInit
<1>2. <<>> \in Seq(Row) /\ Len(<<>>) = 0
  OBVIOUS
<1>3. PTypeOK /\ Counted
  BY <1>1, <1>2, RowsFit DEF PInit, PTypeOK, Counted
<1>4. \A r \in Requests : /\ form[r] = NoForm /\ shown[r] = <<>>
                          /\ pc[r] = "idle" /\ answer[r] = None
  BY DEF PInit, Init
<1>5. CountedAsShown
  BY <1>2, <1>4 DEF CountedAsShown, NoForm
<1>6. PassedNumbersAreTyped
  BY <1>4 DEF PassedNumbersAreTyped, None
<1>7. PostsArePaired
  BY <1>4 DEF PostsArePaired, Paired, NoForm
<1> QED
  BY <1>1, <1>3, <1>5, <1>6, <1>7 DEF PageInv

(* A request that passes a number has seen a type there.                   *)
LEMMA PassingStep ==
  ASSUME TypeOK, LoopsInv, PassedNumbersAreTyped, NEW r \in Requests, Step(r)
  PROVE  PassedNumbersAreTyped'
<1>1. form' = form
  BY StepFiles
<1>2. \A q \in Requests \ {r} : pc'[q] = pc[q] /\ at'[q] = at[q] /\ answer'[q] = answer[q]
  BY DEF Step, Save, Write, Saved, Look, Open, Extract, Remove, Learn, Dump, Flush,
         TypeOK
<1>3. /\ at[r] \in Nat /\ form[r].count \in Nat
      /\ \A i \in Index : i \in Nat
  BY FormTyped, MaxCountIsNat DEF Index
<1>4. LoopsInv'
  BY LoopsKept
<1>5. /\ pc[r] \in {"next", "open", "extract", "remove"}
           => \A i \in Index : i < at[r] => form[r].type[i] \in Types
      /\ pc[r] \in {"dump", "flush"} \/ answer[r] = "trained"
           => \A i \in Index : i < form[r].count => form[r].type[i] \in Types
      /\ pc[r] # "done" => answer[r] = None
      /\ pc[r] \in Steps
  BY DEF PassedNumbersAreTyped, LoopsInv, TypeOK
<1>6. /\ pc'[r] \in {"next", "open", "extract", "remove"}
           => \A i \in Index : i < at'[r] => form[r].type[i] \in Types
      /\ pc'[r] \in {"dump", "flush"} \/ answer'[r] = "trained"
           => \A i \in Index : i < form[r].count => form[r].type[i] \in Types
  <2>1. CASE Save(r)
    BY <2>1, <1>5 DEF Save, TypeOK, None
  <2>2. CASE Write(r)
    BY <2>2, <1>5 DEF Write, TypeOK, None
  <2>3. CASE Saved(r)
    <3>1. pc'[r] = "next" /\ at'[r] = 0 /\ answer'[r] = None
      BY <2>3, <1>5 DEF Saved, TypeOK
    <3> QED
      BY <3>1, <1>3 DEF None
  <2>4. CASE Look(r)
    <3>1. CASE TypeOf(r) \in Types /\ at'[r] = at[r] + 1 /\ pc' = pc /\ answer' = answer
      <4>1. \A i \in Index : i < at[r] + 1 => i < at[r] \/ i = at[r]
        BY <1>3
      <4> QED
        BY <2>4, <3>1, <4>1, <1>5 DEF Look, TypeOf, None
    <3>2. CASE pc'[r] = "open" /\ at' = at /\ answer' = answer
      BY <2>4, <3>2, <1>5 DEF Look, None
    <3>3. CASE pc'[r] = "done" /\ answer'[r] \in {"error", "bad type"}
      BY <3>3
    <3> QED
      BY <2>4, <3>1, <3>2, <3>3 DEF Look, TypeOK
  <2>5. CASE Open(r)
    BY <2>5, <1>5 DEF Open, TypeOK, None
  <2>6. CASE Extract(r)
    BY <2>6, <1>5 DEF Extract, TypeOK, None
  <2>7. CASE Remove(r)
    <3>1. CASE at'[r] = at[r] + 1 /\ pc'[r] = "next" /\ answer' = answer
      <4>1. at[r] \in Index /\ form[r].type[at[r]] \in Types
        BY <2>7, FormTyped DEF Remove, LoopsInv, TypeOf
      <4>2. \A i \in Index : i < at[r] + 1 => i < at[r] \/ i = at[r]
        BY <1>3
      <4> QED
        BY <2>7, <3>1, <4>1, <4>2, <1>5 DEF Remove, None
    <3>2. CASE pc'[r] = "done" /\ answer'[r] = "error"
      BY <3>2
    <3> QED
      BY <2>7, <3>1, <3>2 DEF Remove, TypeOK
  <2>8. CASE Learn(r)
    BY <2>8, <1>5 DEF Learn, TypeOK, None
  <2>9. CASE Dump(r)
    BY <2>9, <1>5 DEF Dump, TypeOK, None
  <2>10. CASE Flush(r)
    BY <2>10, <1>5 DEF Flush, TypeOK, None
  <2> QED
    BY <2>1, <2>2, <2>3, <2>4, <2>5, <2>6, <2>7, <2>8, <2>9, <2>10 DEF Step
<1> QED
  BY <1>1, <1>2, <1>6 DEF PassedNumbersAreTyped

(* Whatever the service does, forms and pages stay as they are.            *)
LEMMA ServiceStep ==
  ASSUME PageInv, UNCHANGED <<page, shown>>, form' = form, TypeOK', LoopsInv',
         PassedNumbersAreTyped'
  PROVE  PageInv'
BY DEF PageInv, PTypeOK, page, Counted, CountedAsShown, PostsArePaired, Paired

(* A click sends the page as it is; nothing else of a request changes.     *)
LEMMA ClickStep ==
  ASSUME PageInv, NEW r \in Requests, Click(r)
  PROVE  PageInv'
<1> USE DEF PageInv
<1>1. /\ Posted \in Form /\ Paired(Posted) /\ Posted.count = sampleCount
      /\ \A i \in Index : i >= Len(rows) => Posted.type[i] = NoType
  BY PostedIsForm
<1>2. /\ Arrive(r, Posted) /\ UNCHANGED <<rows, sampleCount, named>>
      /\ shown' = [shown EXCEPT ![r] = rows]
  BY DEF Click, page
<1>3. TypeOK' /\ LoopsInv' /\ form[r] = NoForm
  BY <1>1, <1>2, ArriveTyped DEF PTypeOK
<1>4. PTypeOK' /\ Counted'
  BY <1>2, <1>3 DEF PTypeOK, Counted
<1>5. /\ form'[r] = Posted /\ shown'[r] = rows
      /\ \A q \in Requests \ {r} : /\ form'[q] = form[q] /\ shown'[q] = shown[q]
                                   /\ pc'[q] = pc[q] /\ at'[q] = at[q]
                                   /\ answer'[q] = answer[q]
  BY <1>2 DEF Arrive, PTypeOK, TypeOK
<1>6. CountedAsShown'
  BY <1>1, <1>5, SMTT(30) DEF Counted, CountedAsShown
<1>7. pc'[r] \in {"save", "done"} /\ answer'[r] # "trained"
  BY <1>2 DEF Arrive, PTypeOK, TypeOK, LoopsInv, None
<1>8. PassedNumbersAreTyped'
  BY <1>5, <1>7 DEF PassedNumbersAreTyped
<1>9. PostsArePaired'
  BY <1>1, <1>5 DEF PostsArePaired
<1> QED
  BY <1>3, <1>4, <1>6, <1>8, <1>9

LEMMA PageStep ==
  ASSUME PageInv, [PNext]_pvars
  PROVE  PageInv'
<1> USE DEF PageInv
<1>0. PTypeOK /\ TypeOK /\ LoopsInv
  BY DEF PTypeOK
<1>1. ASSUME NEW row \in Points, AddSample(row) PROVE PageInv'
  <2>1. /\ rows' = Append(rows, row) /\ row \in Row /\ rows \in Seq(Row)
        /\ Len(rows) < MaxRows /\ Len(rows) \in Nat
    BY <1>1, PointsAreRows DEF AddSample, PTypeOK
  <2>2. rows' \in Seq(Row) /\ Len(rows') = Len(rows) + 1
    BY <2>1
  <2>3. sampleCount' = sampleCount + 1 /\ UNCHANGED <<vars, named, shown>>
    BY <1>1 DEF AddSample
  <2>4. TypeOK' /\ LoopsInv' /\ PassedNumbersAreTyped'
    BY <2>3, <1>0, TypeStep DEF vars, PassedNumbersAreTyped
  <2>5. PTypeOK' /\ Counted'
    BY <2>1, <2>2, <2>3, <2>4, RowsFit DEF PTypeOK, Counted
  <2>6. form' = form
    BY <2>3 DEF vars
  <2> QED
    BY <2>3, <2>4, <2>5, <2>6 DEF CountedAsShown, PostsArePaired, Paired
<1>2. ASSUME ClearSamples PROVE PageInv'
  <2>1. /\ rows' = <<>> /\ sampleCount' = 0 /\ UNCHANGED <<vars, named, shown>>
    BY <1>2 DEF ClearSamples
  <2>2. TypeOK' /\ LoopsInv' /\ PassedNumbersAreTyped'
    BY <2>1, <1>0, TypeStep DEF vars, PassedNumbersAreTyped
  <2>3. <<>> \in Seq(Row) /\ Len(<<>>) = 0
    OBVIOUS
  <2>4. PTypeOK' /\ Counted'
    BY <2>1, <2>2, <2>3, RowsFit DEF PTypeOK, Counted
  <2>5. form' = form
    BY <2>1 DEF vars
  <2> QED
    BY <2>1, <2>2, <2>4, <2>5 DEF CountedAsShown, PostsArePaired, Paired
<1>3. ASSUME NEW r \in Requests, Step(r), UNCHANGED <<page, shown>> PROVE PageInv'
  BY <1>3, <1>0, StepFiles, TypesKept, LoopsKept, PassingStep, ServiceStep
<1>4. ASSUME Crash, UNCHANGED <<page, shown>> PROVE PageInv'
  <2>1. TypeOK' /\ LoopsInv' /\ form' = form
    BY <1>4, <1>0, CrashTyped DEF Crash
  <2>2. \A q \in Requests : /\ at'[q] = at[q] /\ pc'[q] \in {pc[q], "done"}
                            /\ answer'[q] \in {answer[q], "lost"}
    BY <1>4 DEF Crash, TypeOK
  <2>3. PassedNumbersAreTyped'
    BY <2>1, <2>2 DEF PassedNumbersAreTyped
  <2> QED
    BY <1>4, <2>1, <2>3, ServiceStep
<1>5. ASSUME UNCHANGED pvars PROVE PageInv'
  <2>1. TypeOK' /\ LoopsInv' /\ UNCHANGED <<page, shown>>
    BY <1>5, <1>0, TypeStep DEF pvars
  <2>2. form' = form /\ PassedNumbersAreTyped'
    BY <1>5 DEF pvars, vars, PassedNumbersAreTyped
  <2> QED
    BY <2>1, <2>2, ServiceStep
<1> QED
  BY <1>1, <1>2, <1>3, <1>4, <1>5, ClickStep DEF PNext

-----------------------------------------------------------------------------
LEMMA PageAlways == PSpec => []PageInv
<1>1. PageInv /\ [PNext]_pvars => PageInv'
  BY PageStep
<1> QED
  BY <1>1, PageInit, PTL DEF PSpec

(* Whatever the user does to the page and whenever it clicks, a file and   *)
(* its type are posted together, under a number the count includes         *)
(* (script.js:81-96).                                                      *)
THEOREM PagePostsPairs == PSpec => []PostsArePaired
<1>1. PageInv => PostsArePaired
  BY DEF PageInv
<1> QED
  BY <1>1, PageAlways, PTL

(* A training succeeds only for a page whose counter was reset by clearing *)
(* it: else the number behind its last point has no type (script.js:39,    *)
(* app.py:34-36).                                                          *)
THEOREM TrainedPagesWereCleared == PSpec => []OnlyClearedPagesTrain
<1>1. ASSUME PageInv, NEW r \in Requests, answer[r] = "trained",
             form[r].count = Len(shown[r]) + 1
      PROVE  FALSE
  <2>1. /\ form[r].count \in 0 .. MaxCount
        /\ Len(shown[r]) \in Nat
    BY <1>1, FormTyped DEF PageInv, PTypeOK
  <2>2. Len(shown[r]) \in Index
    BY <1>1, <2>1, MaxCountIsNat DEF Index
  <2>3. form[r].type[Len(shown[r])] \in Types
    BY <1>1, <2>1, <2>2 DEF PageInv, PassedNumbersAreTyped
  <2>4. form[r].type[Len(shown[r])] = NoType
    BY <1>1, <2>1, <2>2 DEF PageInv, CountedAsShown
  <2> QED
    BY <2>3, <2>4, NamesDiffer
<1>2. PageInv => OnlyClearedPagesTrain
  BY <1>1 DEF OnlyClearedPagesTrain, PageInv, CountedAsShown
<1> QED
  BY <1>2, PageAlways, PTL

=============================================================================
