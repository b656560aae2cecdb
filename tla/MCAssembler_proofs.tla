------------------------- MODULE MCAssembler_proofs -------------------------
(***************************************************************************)
(* Proofs about two parts of keystone where they stand beside the layout:  *)
(* the conditionals (AsmConditionals), for any depth of conditionals and   *)
(* macros, where the one state the parser keeps of the innermost           *)
(* conditional says whether any of the open ones skips; and the map of     *)
(* strings (StringMap), for any keys, hashes and power of two of buckets,  *)
(* whose probes end and which is the set of keys it promises to be.        *)
(***************************************************************************)
EXTENDS MCAssembler, Recursion, SequenceTheorems, FiniteSetTheorems, TLAPS

(* The state of conditionals that holds inside the first i - 1 of the open *)
(* ones.                                                                   *)
CondAt(i) == IF i = Len(stack) + 1 THEN cond ELSE stack[i]

Clean(i)   == \A j \in 1 .. i : ~ frames[j].stray /\ ~ C!Guess(frames[j])
Skipped(i) == \E j \in 1 .. i : ~ frames[j].active

(* A branch is assembled only if it is taken, unless nobody knows.         *)
Taken(f) == f.active => f.met \/ f.unread

Shapes ==
  /\ cond \in C!Cond
  /\ stack \in Seq(C!Cond)
  /\ macros \in Seq(Nat)
  /\ frames \in Seq(C!Frame)
  /\ Len(frames) = Len(stack)
  /\ \A i \in 1 .. Len(stack) : Taken(frames[i])

(* Outside of every conditional.                                           *)
Outermost == CondAt(1).theCond = "none" /\ ~ CondAt(1).ignore

(* What the state inside the i-th conditional knows of it: its branch;     *)
(* whether the text is skipped; and whether a branch was taken, if that    *)
(* still matters.                                                          *)
Knows(i) ==
  /\ CondAt(i + 1).theCond = frames[i].branch
  /\ Clean(i) => CondAt(i + 1).ignore = Skipped(i)
  /\ Clean(i) /\ ~ CondAt(i).ignore /\ frames[i].branch # "else" /\ ~ frames[i].unread
       => CondAt(i + 1).condMet = frames[i].met

Agrees == Shapes /\ Outermost /\ \A i \in 1 .. Len(stack) : Knows(i)
Closed == mode = "ended" /\ ~ error => frames = <<>>

-----------------------------------------------------------------------------
\* What the steps do to the stacks.

(* The beginning of a sequence.                                            *)
LEMMA Beginning ==
  ASSUME NEW S, NEW s \in Seq(S), NEW d \in 0 .. Len(s)
  PROVE  /\ SubSeq(s, 1, d) \in Seq(S) /\ Len(SubSeq(s, 1, d)) = d
         /\ \A i \in 1 .. d : SubSeq(s, 1, d)[i] = s[i]
<1>1. d \in Int /\ 1 \in Int /\ Len(s) \in Nat
  OBVIOUS
<1>2. \A i \in 1 .. d : s[i] \in S
  BY <1>1
<1>3. /\ SubSeq(s, 1, d) \in Seq(S)
      /\ Len(SubSeq(s, 1, d)) = IF 1 <= d THEN d - 1 + 1 ELSE 0
      /\ \A i \in 1 .. d - 1 + 1 : SubSeq(s, 1, d)[i] = s[1 + i - 1]
  BY <1>1, <1>2, SubSeqProperties
<1> QED
  BY <1>1, <1>3

(* The last element of a sequence, and what is left without it.            *)
LEMMA FrontAndLast ==
  ASSUME NEW S, NEW s \in Seq(S), s # <<>>
  PROVE  /\ Len(s) \in Nat /\ Len(s) > 0
         /\ C!Last(s) = s[Len(s)] /\ C!Last(s) \in S
         /\ C!Front(s) = SubSeq(s, 1, Len(s) - 1)
         /\ C!Front(s) \in Seq(S) /\ Len(C!Front(s)) = Len(s) - 1
         /\ \A i \in 1 .. Len(s) - 1 : C!Front(s)[i] = s[i]
<1>1. Len(s) \in Nat /\ Len(s) > 0
  OBVIOUS
<1>2. C!Last(s) = s[Len(s)] /\ C!Last(s) \in S
  BY <1>1 DEF C!Last
<1>3. C!Front(s) = SubSeq(s, 1, Len(s) - 1) /\ Len(s) - 1 \in 0 .. Len(s)
  BY <1>1 DEF C!Front
<1> QED
  BY <1>1, <1>2, <1>3, Beginning

(* The state within every open conditional is one.                         *)
LEMMA CondAtTyped ==
  ASSUME Shapes, NEW i \in 1 .. Len(stack) + 1
  PROVE  CondAt(i) \in C!Cond
BY DEF Shapes, CondAt

(* A step that keeps d of the open conditionals and the state within them  *)
(* keeps what is known of these.                                           *)
LEMMA Kept ==
  ASSUME Agrees, Shapes', NEW d \in 0 .. Len(stack), d <= Len(stack'),
         \A i \in 1 .. d + 1 : CondAt(i)' = CondAt(i),
         \A i \in 1 .. d : frames'[i] = frames[i]
  PROVE  Outermost' /\ \A i \in 1 .. d : Knows(i)'
<1>1. Len(stack) \in Nat /\ Len(stack') \in Nat
  BY DEF Agrees, Shapes
<1>2. Outermost'
  BY <1>1 DEF Agrees, Outermost
<1>3. ASSUME NEW i \in 1 .. d
      PROVE  Knows(i)'
  <2>1. i \in 1 .. d + 1 /\ i + 1 \in 1 .. d + 1 /\ i \in 1 .. Len(stack)
    BY <1>1
  <2>2. CondAt(i)' = CondAt(i) /\ CondAt(i + 1)' = CondAt(i + 1) /\ frames'[i] = frames[i]
    BY <2>1
  <2>3. \A j \in 1 .. i : frames'[j] = frames[j]
    BY <1>1
  <2>4. Clean(i)' = Clean(i) /\ Skipped(i)' = Skipped(i)
    BY <2>3 DEF Clean, Skipped
  <2>5. Knows(i)
    BY <2>1 DEF Agrees
  <2> QED
    BY <2>2, <2>4, <2>5 DEF Knows
<1> QED
  BY <1>2, <1>3

(* A step that leaves the conditionals alone.                              *)
LEMMA Untouched ==
  ASSUME Agrees, UNCHANGED <<cond, stack, frames>>, macros' \in Seq(Nat)
  PROVE  Agrees'
BY DEF Agrees, Shapes, Outermost, Knows, CondAt, Clean, Skipped

(* Within clean conditionals text is skipped as one of them says.          *)
LEMMA Inside ==
  ASSUME Agrees, NEW i \in 0 .. Len(stack), Clean(i)
  PROVE  CondAt(i + 1).ignore = Skipped(i)
<1>1. Len(stack) \in Nat
  BY DEF Agrees, Shapes
<1>2. CASE i = 0
  <2>1. CondAt(i + 1) \in C!Cond /\ ~ CondAt(i + 1).ignore
    BY <1>1, <1>2, CondAtTyped DEF Agrees, Outermost
  <2>2. CondAt(i + 1).ignore = FALSE
    BY <2>1 DEF C!Cond
  <2>3. Skipped(i) = FALSE
    BY <1>2 DEF Skipped
  <2> QED
    BY <2>2, <2>3
<1>3. CASE i # 0
  BY <1>1, <1>3 DEF Agrees, Knows
<1> QED
  BY <1>2, <1>3

(* Where no .ifeqs strayed and nobody has to guess, text is skipped as some *)
(* open conditional says.                                                  *)
LEMMA Innermost ==
  ASSUME Agrees, \A i \in DOMAIN frames : ~ frames[i].stray /\ ~ C!Guess(frames[i])
  PROVE  cond.ignore = ~ C!Live
<1>1. Len(stack) \in Nat /\ DOMAIN frames = 1 .. Len(stack)
  BY DEF Agrees, Shapes
<1>2. Clean(Len(stack))
  BY <1>1 DEF Clean
<1>3. cond.ignore = Skipped(Len(stack))
  BY <1>1, <1>2, Inside DEF CondAt
<1>4. Skipped(Len(stack)) = ~ C!Live
  BY <1>1 DEF Skipped, C!Live
<1> QED
  BY <1>3, <1>4

(* A conditional is opened: within it text is skipped if it is outside, or *)
(* if it does not hold.                                                    *)
LEMMA Opens ==
  ASSUME Agrees, stack' = Append(stack, cond), cond' \in C!Cond, UNCHANGED macros,
         NEW f \in C!Frame, frames' = Append(frames, f), f.branch = "if", cond'.theCond = "if",
         Taken(f), cond.ignore /\ ~ f.stray => cond'.ignore,
         ~ cond.ignore => cond'.ignore = ~ f.active /\ (~ f.unread => cond'.condMet = f.met)
  PROVE  Agrees'
<1> PICK n \in Nat : n = Len(stack)
  BY DEF Agrees, Shapes
<1>1. n = Len(stack) /\ Len(frames) = n /\ cond \in C!Cond /\ stack \in Seq(C!Cond) /\ frames \in Seq(C!Frame)
  BY DEF Agrees, Shapes
<1>2. /\ stack' \in Seq(C!Cond) /\ Len(stack') = n + 1 /\ stack'[n + 1] = cond
      /\ \A i \in 1 .. n : stack'[i] = stack[i]
  BY <1>1, AppendProperties
<1>3. /\ frames' \in Seq(C!Frame) /\ Len(frames') = n + 1 /\ frames'[n + 1] = f
      /\ \A i \in 1 .. n : frames'[i] = frames[i]
  BY <1>1, AppendProperties
<1>4. Shapes'
  BY <1>2, <1>3 DEF Agrees, Shapes
<1>5. \A i \in 1 .. n + 1 : CondAt(i)' = CondAt(i)
  BY <1>1, <1>2 DEF CondAt
<1>6. Outermost' /\ \A i \in 1 .. n : Knows(i)'
  <2>1. n \in 0 .. Len(stack) /\ n <= Len(stack')
    BY <1>1, <1>2
  <2> QED
    BY <1>3, <1>4, <1>5, <2>1, Kept
<1>7. Knows(n + 1)'
  <2>1. CondAt(n + 1 + 1)' = cond' /\ CondAt(n + 1)' = cond
    BY <1>1, <1>2 DEF CondAt
  <2>2. ASSUME Clean(n + 1)'
        PROVE  ~ f.stray /\ cond.ignore = Skipped(n)
    <3>1. \A j \in 1 .. n + 1 : ~ frames'[j].stray /\ ~ C!Guess(frames'[j])
      BY <2>2 DEF Clean, C!Guess
    <3>2. Clean(n) /\ ~ f.stray
      BY <1>1, <1>3, <3>1 DEF Clean
    <3> QED
      BY <1>1, <3>2, Inside DEF CondAt
  <2>3. Skipped(n + 1)' = (Skipped(n) \/ ~ f.active)
    <3>1. Skipped(n + 1)' => Skipped(n) \/ ~ f.active
      BY <1>1, <1>3 DEF Skipped
    <3>2. Skipped(n) => Skipped(n + 1)'
      BY <1>1, <1>3 DEF Skipped
    <3>3. ~ f.active => Skipped(n + 1)'
      BY <1>1, <1>3 DEF Skipped
    <3> QED
      BY <3>1, <3>2, <3>3 DEF Skipped
  <2>4. ASSUME Clean(n + 1)'
        PROVE  cond'.ignore = Skipped(n + 1)'
    BY <2>2, <2>3, <2>4 DEF C!Cond
  <2> QED
    BY <1>3, <2>1, <2>2, <2>4 DEF Knows
<1> QED
  BY <1>1, <1>2, <1>4, <1>6, <1>7 DEF Agrees

(* A conditional goes on with another branch: within it text is skipped if *)
(* it is around the conditional, if a branch was taken before, or if this  *)
(* one does not hold.                                                      *)
LEMMA Branches ==
  ASSUME Agrees, C!MayBranch, UNCHANGED <<stack, macros>>, cond' \in C!Cond,
         NEW f \in C!Frame, f = C!Last(frames), NEW g \in C!Frame, frames' = Append(C!Front(frames), g),
         g.stray = f.stray, g.unread = f.unread, g.branch # "if", cond'.theCond = g.branch,
         Taken(g), C!OuterIgnores => cond'.ignore,
         ~ C!OuterIgnores /\ cond.condMet = f.met /\ (f.met \/ cond.ignore)
           => cond'.ignore = ~ g.active /\ (g.branch # "else" => cond'.condMet = g.met)
  PROVE  Agrees' /\ frames # <<>>
<1> PICK n \in Nat : n = Len(stack)
  BY DEF Agrees, Shapes
<1>1. n = Len(stack) /\ Len(frames) = n /\ cond \in C!Cond /\ stack \in Seq(C!Cond) /\ frames \in Seq(C!Frame)
  BY DEF Agrees, Shapes
<1>2. n > 0 /\ frames # <<>> /\ stack # <<>>
  BY <1>1 DEF Agrees, Outermost, CondAt, C!MayBranch
<1>3. /\ C!Front(frames) \in Seq(C!Frame) /\ Len(C!Front(frames)) = n - 1
      /\ \A i \in 1 .. n - 1 : C!Front(frames)[i] = frames[i]
      /\ f = frames[n]
  BY <1>1, <1>2, FrontAndLast
<1>4. /\ frames' \in Seq(C!Frame) /\ Len(frames') = n /\ frames'[n] = g
      /\ \A i \in 1 .. n - 1 : frames'[i] = frames[i]
  BY <1>1, <1>2, <1>3, AppendProperties
<1>5. Shapes'
  <2>1. \A i \in 1 .. n : Taken(frames'[i])
    <3>1. \A i \in 1 .. n - 1 : Taken(frames[i])
      BY <1>1 DEF Agrees, Shapes
    <3>2. \A i \in 1 .. n : i \in 1 .. n - 1 \/ i = n
      OBVIOUS
    <3> QED
      BY <1>4, <3>1, <3>2
  <2> QED
    BY <1>1, <1>4, <2>1 DEF Agrees, Shapes, Taken
<1>6. \A i \in 1 .. n : CondAt(i)' = CondAt(i)
  BY <1>1 DEF CondAt
<1>7. Outermost' /\ \A i \in 1 .. n - 1 : Knows(i)'
  <2>1. n - 1 \in 0 .. Len(stack) /\ n - 1 <= Len(stack') /\ n - 1 + 1 = n
    BY <1>1, <1>2
  <2> QED
    BY <1>4, <1>5, <1>6, <2>1, Kept
<1>8. Knows(n)'
  <2>1. CondAt(n + 1)' = cond' /\ CondAt(n)' = CondAt(n) /\ CondAt(n + 1) = cond
    BY <1>1, <1>2, <1>6 DEF CondAt
  <2>2. C!OuterIgnores = CondAt(n).ignore
    <3>1. C!Last(stack) = stack[n] /\ C!Last(stack) \in C!Cond
      BY <1>1, <1>2, FrontAndLast
    <3>2. CondAt(n) = stack[n]
      BY <1>1, <1>2 DEF CondAt
    <3> QED
      BY <1>2, <3>1, <3>2 DEF C!OuterIgnores, C!Cond
  <2>3. ASSUME Clean(n)'
        PROVE  Clean(n) /\ ~ f.unread /\ CondAt(n).ignore = Skipped(n - 1)
    <3>1. \A j \in 1 .. n : ~ frames'[j].stray /\ ~ C!Guess(frames'[j])
      BY <2>3 DEF Clean, C!Guess
    <3>4. ~ f.unread
      BY <1>2, <1>4, <3>1 DEF C!Guess
    <3>2. Clean(n)
      BY <1>1, <1>2, <1>3, <1>4, <3>1, <3>4 DEF Clean, C!Guess
    <3>3. Clean(n - 1) /\ n - 1 \in 0 .. Len(stack) /\ n - 1 + 1 = n
      BY <1>1, <1>2, <3>2 DEF Clean
    <3> QED
      BY <3>2, <3>3, <3>4, Inside
  <2>4. Skipped(n)' = (Skipped(n - 1) \/ ~ g.active)
    <3>1. Skipped(n)' => Skipped(n - 1) \/ ~ g.active
      BY <1>2, <1>4 DEF Skipped
    <3>2. Skipped(n - 1) => Skipped(n)'
      BY <1>2, <1>4 DEF Skipped
    <3>3. ~ g.active => Skipped(n)'
      BY <1>2, <1>4 DEF Skipped
    <3> QED
      BY <3>1, <3>2, <3>3 DEF Skipped
  <2>5. ASSUME Clean(n)', ~ CondAt(n).ignore
        PROVE  cond.condMet = f.met /\ (f.met \/ cond.ignore)
    <3>1. Knows(n)
      BY <1>1, <1>2 DEF Agrees
    <3>2. f.branch # "else"
      BY <1>3, <2>1, <3>1 DEF Knows, C!MayBranch
    <3>3. cond.condMet = f.met
      BY <1>3, <2>1, <2>3, <2>5, <3>1, <3>2 DEF Knows
    <3>4. ~ f.met => cond.ignore
      <4>1. Taken(f)
        BY <1>1, <1>2, <1>3 DEF Agrees, Shapes
      <4>2. ~ f.met => ~ f.active
        BY <2>3, <2>5, <4>1 DEF Taken
      <4>3. ~ f.active => Skipped(n)
        BY <1>2, <1>3 DEF Skipped
      <4>4. cond.ignore = Skipped(n)
        BY <2>1, <2>3, <2>5, <3>1 DEF Knows
      <4> QED
        BY <4>2, <4>3, <4>4
    <3> QED
      BY <3>3, <3>4
  <2>6. ASSUME Clean(n)'
        PROVE  /\ cond'.ignore = Skipped(n)'
               /\ ~ CondAt(n).ignore /\ g.branch # "else" => cond'.condMet = g.met
    <3>1. CASE CondAt(n).ignore
      <4>1. cond'.ignore /\ cond'.ignore \in BOOLEAN
        BY <2>2, <3>1 DEF C!Cond
      <4>2. Skipped(n)' = TRUE
        BY <2>3, <2>4, <2>6, <3>1
      <4> QED
        BY <3>1, <4>1, <4>2
    <3>2. CASE ~ CondAt(n).ignore
      <4>1. cond'.ignore = ~ g.active /\ (g.branch # "else" => cond'.condMet = g.met)
        BY <2>2, <2>5, <2>6, <3>2
      <4>2. Skipped(n)' = ~ g.active
        BY <2>3, <2>4, <2>6, <3>2
      <4> QED
        BY <4>1, <4>2
    <3> QED
      BY <3>1, <3>2
  <2> QED
    BY <1>4, <2>1, <2>6 DEF Knows
<1>9. \A i \in 1 .. Len(stack') : Knows(i)'
  <2>1. \A i \in 1 .. Len(stack') : i \in 1 .. n - 1 \/ i = n
    BY <1>1, <1>2
  <2> QED
    BY <1>7, <1>8, <2>1
<1> QED
  BY <1>2, <1>5, <1>7, <1>9 DEF Agrees

(* All but the first d conditionals are closed.                            *)
LEMMA Closes ==
  ASSUME Agrees, NEW d \in 0 .. Len(stack), stack' = SubSeq(stack, 1, d),
         frames' = SubSeq(frames, 1, d), cond' = CondAt(d + 1), macros' \in Seq(Nat)
  PROVE  Agrees'
<1>1. /\ Len(stack) \in Nat /\ Len(frames) = Len(stack) /\ d \in Nat
      /\ stack \in Seq(C!Cond) /\ frames \in Seq(C!Frame)
  BY DEF Agrees, Shapes
<1>2. stack' \in Seq(C!Cond) /\ Len(stack') = d /\ \A i \in 1 .. d : stack'[i] = stack[i]
  BY <1>1, Beginning
<1>3. frames' \in Seq(C!Frame) /\ Len(frames') = d /\ \A i \in 1 .. d : frames'[i] = frames[i]
  BY <1>1, Beginning
<1>4. cond' \in C!Cond
  BY <1>1, CondAtTyped DEF Agrees
<1>5. Shapes'
  <2>1. \A i \in 1 .. d : Taken(frames'[i])
    BY <1>1, <1>3 DEF Agrees, Shapes
  <2>2. macros' \in Seq(Nat)
    OBVIOUS
  <2> QED
    BY <1>2, <1>3, <1>4, <2>1, <2>2 DEF Shapes, Taken
<1>6. \A i \in 1 .. d + 1 : CondAt(i)' = CondAt(i)
  BY <1>1, <1>2 DEF CondAt
<1>7. Outermost' /\ \A i \in 1 .. d : Knows(i)'
  BY <1>1, <1>2, <1>3, <1>5, <1>6, Kept
<1> QED
  BY <1>2, <1>5, <1>7 DEF Agrees

-----------------------------------------------------------------------------
\* The directives.

(* What is remembered of a conditional that begins, ...                    *)
LEMMA OpenedFrame ==
  ASSUME NEW holds \in BOOLEAN, NEW stray \in BOOLEAN, NEW unread \in BOOLEAN
  PROVE  \E f \in C!Frame : /\ C!Opened(holds, stray, unread) = Append(frames, f)
                          /\ f.branch = "if" /\ (~ unread => f.active = holds)
                          /\ (unread => f.active) /\ f.met = holds /\ f.stray = stray /\ f.unread = unread /\ Taken(f)
<1> DEFINE f == [branch |-> "if", active |-> holds \/ unread, met |-> holds,
                 stray |-> stray, unread |-> unread]
<1>1. f \in C!Frame
  BY DEF C!Frame
<1> QED
  BY <1>1 DEF C!Opened, Taken

(* ... and when it goes on with another branch.                            *)
LEMMA BranchedFrame ==
  ASSUME NEW f \in C!Frame, f = C!Last(frames), NEW b \in {"elseif", "else"}, NEW holds \in BOOLEAN
  PROVE  \E g \in C!Frame : /\ C!Branched(b, holds) = Append(C!Front(frames), g)
                          /\ g.branch = b /\ g.active = (holds /\ ~ f.met)
                          /\ g.met = (f.met \/ holds) /\ g.stray = f.stray
                          /\ g.unread = f.unread /\ Taken(g)
<1> DEFINE g == [f EXCEPT !.branch = b, !.active = holds /\ ~ f.met, !.met = f.met \/ holds]
<1>1. g \in C!Frame
  BY DEF C!Frame
<1>2. /\ g.branch = b /\ g.active = (holds /\ ~ f.met)
      /\ g.met = (f.met \/ holds) /\ g.stray = f.stray /\ g.unread = f.unread
  BY DEF C!Frame
<1>3. C!Branched(b, holds) = Append(C!Front(frames), g)
  BY DEF C!Branched
<1>4. Taken(g)
  BY <1>2 DEF Taken
<1> QED
  BY <1>1, <1>2, <1>3, <1>4

(* Refused, a directive leaves the conditionals alone.                     *)
LEMMA RefuseAgrees ==
  ASSUME Agrees, C!Refuse
  PROVE  Agrees' /\ Closed'
<1>1. Agrees'
  BY Untouched DEF C!Refuse, Agrees, Shapes
<1>2. Closed'
  BY DEF C!Refuse, C!Reading, C!Fails, Closed
<1> QED
  BY <1>1, <1>2

LEMMA IfAgrees ==
  ASSUME Agrees, NEW holds \in BOOLEAN, C!If(holds) \/ C!IfUnread \/ C!Ifeqs(holds)
  PROVE  Agrees' /\ Closed'
<1>1. cond \in C!Cond /\ cond.ignore \in BOOLEAN
  BY DEF Agrees, Shapes, C!Cond
<1>2. stack' = Append(stack, cond) /\ UNCHANGED <<macros, mode>> /\ mode = "reading"
  BY DEF C!If, C!IfUnread, C!Ifeqs, C!Push, C!Reading, C!Read, C!Fails
<1>3. Closed'
  BY <1>2 DEF Closed
<1>4. CASE C!If(holds)
  <2>1. PICK f \in C!Frame : /\ frames' = Append(frames, f) /\ f.branch = "if"
                           /\ f.active = holds /\ f.met = holds /\ f.stray = FALSE
                           /\ Taken(f)
    <3>1. frames' = C!Opened(holds, FALSE, FALSE)
      BY <1>4 DEF C!If
    <3> QED
      BY <3>1, OpenedFrame
  <2>2. CASE cond.ignore
    <3>1. cond' = [cond EXCEPT !.theCond = "if"]
      BY <1>4, <2>2 DEF C!If
    <3>2. cond' \in C!Cond /\ cond'.theCond = "if" /\ cond'.ignore
      BY <1>1, <2>2, <3>1 DEF C!Cond
    <3> QED
      BY <1>2, <1>3, <2>1, <2>2, <3>2, Opens
  <2>3. CASE ~ cond.ignore
    <3>1. cond' = [theCond |-> "if", condMet |-> holds, ignore |-> ~ holds]
      BY <1>4, <2>3 DEF C!If
    <3>2. cond' \in C!Cond /\ cond'.theCond = "if"
      BY <3>1 DEF C!Cond
    <3>3. cond'.ignore = ~ f.active /\ cond'.condMet = f.met
      BY <2>1, <3>1
    <3> QED
      BY <1>2, <1>3, <2>1, <2>3, <3>2, <3>3, Opens
  <2> QED
    BY <2>2, <2>3
<1>5. CASE C!Ifeqs(holds)
  <2>1. PICK f \in C!Frame : /\ frames' = Append(frames, f) /\ f.branch = "if"
                           /\ f.active = holds /\ f.met = holds /\ f.stray = cond.ignore
                           /\ Taken(f)
    <3> PICK stray \in BOOLEAN : stray = cond.ignore
      BY <1>1
    <3>1. frames' = C!Opened(holds, stray, FALSE)
      BY <1>5 DEF C!Ifeqs
    <3> QED
      BY <3>1, OpenedFrame
  <2>2. cond' = [theCond |-> "if", condMet |-> holds, ignore |-> ~ holds]
    BY <1>5 DEF C!Ifeqs
  <2>3. cond' \in C!Cond /\ cond'.theCond = "if"
    BY <2>2 DEF C!Cond
  <2>4. cond'.ignore = ~ f.active /\ cond'.condMet = f.met
    BY <2>1, <2>2
  <2> QED
    BY <1>2, <1>3, <2>1, <2>3, <2>4, Opens
<1>6. CASE C!IfUnread
  <2>1. PICK f \in C!Frame : /\ frames' = Append(frames, f) /\ f.branch = "if"
                           /\ f.active /\ f.stray = FALSE /\ f.unread /\ Taken(f)
    <3>1. frames' = C!Opened(FALSE, FALSE, TRUE)
      BY <1>6 DEF C!IfUnread
    <3> QED
      BY <3>1, OpenedFrame
  <2>2. cond' = [cond EXCEPT !.theCond = "if"] /\ ~ cond.ignore
    BY <1>6 DEF C!IfUnread
  <2>3. cond' \in C!Cond /\ cond'.theCond = "if" /\ cond'.ignore = ~ f.active
    BY <1>1, <2>1, <2>2 DEF C!Cond, C!Frame
  <2> QED
    BY <1>2, <1>3, <2>1, <2>2, <2>3, Opens
<1> QED
  BY <1>4, <1>5, <1>6

LEMMA ElseAgrees ==
  ASSUME Agrees, Closed, NEW holds \in BOOLEAN,
         C!ElseIf(holds) \/ C!ElseIfUnread \/ C!Else
  PROVE  Agrees' /\ Closed'
<1>1. CASE ~ C!MayBranch
  BY <1>1, RefuseAgrees DEF C!ElseIf, C!ElseIfUnread, C!Else
<1>2. CASE C!MayBranch
  <2>1. cond \in C!Cond /\ frames \in Seq(C!Frame)
    BY DEF Agrees, Shapes
  <2>2. Len(frames) > 0 /\ frames # <<>>
    BY <1>2 DEF Agrees, Shapes, Outermost, CondAt, C!MayBranch
  <2>3. PICK f \in C!Frame : f = C!Last(frames)
    BY <2>1, <2>2, FrontAndLast
  <2>4. UNCHANGED <<stack, macros>> /\ Closed'
    <3>1. UNCHANGED <<stack, macros>>
      BY <1>2 DEF C!ElseIf, C!ElseIfUnread, C!Else
    <3>2. mode' # "ended"
      BY <1>2 DEF C!ElseIf, C!ElseIfUnread, C!Else, C!Reading, C!Read, C!Fails, C!Stops
    <3> QED
      BY <3>1, <3>2 DEF Closed
  <2>5. CASE C!ElseIf(holds)
    <3>1. PICK g \in C!Frame : /\ frames' = Append(C!Front(frames), g)
                             /\ g.branch = "elseif" /\ g.active = (holds /\ ~ f.met)
                             /\ g.met = (f.met \/ holds) /\ g.stray = f.stray
                             /\ g.unread = f.unread /\ Taken(g)
      <4>1. frames' = C!Branched("elseif", holds)
        BY <1>2, <2>5 DEF C!ElseIf
      <4> QED
        BY <2>3, <4>1, BranchedFrame
    <3>2. cond' = IF C!OuterIgnores \/ cond.condMet
                  THEN [cond EXCEPT !.theCond = "elseif", !.ignore = TRUE]
                  ELSE [theCond |-> "elseif", condMet |-> holds, ignore |-> ~ holds]
      BY <1>2, <2>5 DEF C!ElseIf
    <3>3. cond' \in C!Cond /\ cond'.theCond = g.branch /\ (C!OuterIgnores => cond'.ignore)
      <4>1. CASE C!OuterIgnores \/ cond.condMet
        BY <2>1, <3>1, <3>2, <4>1 DEF C!Cond
      <4>2. CASE ~ (C!OuterIgnores \/ cond.condMet)
        BY <3>1, <3>2, <4>2 DEF C!Cond
      <4> QED
        BY <4>1, <4>2
    <3>4. ASSUME ~ C!OuterIgnores, cond.condMet = f.met
          PROVE  cond'.ignore = ~ g.active /\ cond'.condMet = g.met
      <4>1. CASE f.met
        BY <2>1, <3>1, <3>2, <3>4, <4>1 DEF C!Cond, C!Frame
      <4>2. CASE ~ f.met
        BY <2>1, <3>1, <3>2, <3>4, <4>2 DEF C!Cond, C!Frame
      <4> QED
        BY <4>1, <4>2
    <3> QED
      BY <1>2, <2>3, <2>4, <3>1, <3>3, <3>4, Branches
  <2>6. CASE C!Else
    <3>1. PICK g \in C!Frame : /\ frames' = Append(C!Front(frames), g)
                             /\ g.branch = "else" /\ g.active = ~ f.met /\ g.stray = f.stray
                             /\ g.unread = f.unread /\ Taken(g)
      <4>1. PICK always \in BOOLEAN : always = TRUE
        OBVIOUS
      <4>2. frames' = C!Branched("else", always)
        BY <1>2, <2>6, <4>1 DEF C!Else
      <4>3. PICK g \in C!Frame : /\ C!Branched("else", always) = Append(C!Front(frames), g)
                               /\ g.branch = "else" /\ g.active = (always /\ ~ f.met)
                               /\ g.stray = f.stray /\ g.unread = f.unread /\ Taken(g)
        BY <2>3, BranchedFrame
      <4> QED
        BY <4>1, <4>2, <4>3
    <3>2. C!OuterIgnores \in BOOLEAN
      BY <2>1, FrontAndLast DEF C!OuterIgnores, Agrees, Shapes, C!Cond
    <3>3. cond' = [cond EXCEPT !.theCond = "else", !.ignore = C!OuterIgnores \/ cond.condMet]
      BY <1>2, <2>6 DEF C!Else, C!ElseIgnores
    <3>4. cond' \in C!Cond /\ cond'.theCond = g.branch /\ (C!OuterIgnores => cond'.ignore)
      BY <2>1, <3>1, <3>2, <3>3 DEF C!Cond
    <3>5. ASSUME ~ C!OuterIgnores, cond.condMet = f.met
          PROVE  cond'.ignore = ~ g.active
      BY <2>1, <3>1, <3>3, <3>5 DEF C!Cond, C!Frame
    <3> QED
      BY <1>2, <2>3, <2>4, <3>1, <3>4, <3>5, Branches
  <2>7. CASE C!ElseIfUnread
    <3>1. PICK g \in C!Frame : /\ frames' = Append(C!Front(frames), g)
                             /\ g.branch = "elseif" /\ ~ g.active /\ g.met = f.met
                             /\ g.stray = f.stray /\ g.unread = f.unread /\ Taken(g)
      <4>1. PICK never \in BOOLEAN : never = FALSE
        OBVIOUS
      <4>2. frames' = C!Branched("elseif", never)
        BY <2>7, <4>1 DEF C!ElseIfUnread
      <4>3. PICK g \in C!Frame : /\ C!Branched("elseif", never) = Append(C!Front(frames), g)
                               /\ g.branch = "elseif" /\ g.active = (never /\ ~ f.met)
                               /\ g.met = (f.met \/ never) /\ g.stray = f.stray
                               /\ g.unread = f.unread /\ Taken(g)
        BY <2>3, BranchedFrame
      <4>4. g.met = f.met
        BY <4>1, <4>3 DEF C!Frame
      <4> QED
        BY <4>1, <4>2, <4>3, <4>4
    <3>2. ~ C!OuterIgnores /\ ~ cond.condMet /\ cond' = [cond EXCEPT !.theCond = "elseif"]
      BY <2>7 DEF C!ElseIfUnread
    <3>3. cond' \in C!Cond /\ cond'.theCond = g.branch /\ cond'.ignore = cond.ignore
          /\ cond'.condMet = cond.condMet
      BY <2>1, <3>1, <3>2 DEF C!Cond
    <3>4. ASSUME cond.condMet = f.met, f.met \/ cond.ignore
          PROVE  cond'.ignore = ~ g.active /\ cond'.condMet = g.met
      BY <2>1, <3>1, <3>2, <3>3, <3>4 DEF C!Cond, C!Frame
    <3> QED
      BY <1>2, <2>3, <2>4, <3>1, <3>2, <3>3, <3>4, Branches
  <2> QED
    BY <2>5, <2>6, <2>7
<1> QED
  BY <1>1, <1>2

LEMMA EndIfAgrees ==
  ASSUME Agrees, Closed, C!EndIf
  PROVE  Agrees' /\ Closed'
<1>1. CASE cond.theCond = "none" \/ stack = <<>>
  BY <1>1, RefuseAgrees DEF C!EndIf
<1>2. CASE cond.theCond # "none" /\ stack # <<>>
  <2>1. /\ cond' = C!Last(stack) /\ stack' = C!Front(stack) /\ frames' = C!Front(frames)
        /\ UNCHANGED <<macros, mode>> /\ mode = "reading"
    BY <1>2 DEF C!EndIf, C!Reading, C!Read
  <2>2. /\ stack \in Seq(C!Cond) /\ frames \in Seq(C!Frame) /\ Len(frames) = Len(stack)
        /\ macros \in Seq(Nat)
    BY DEF Agrees, Shapes
  <2>3. PICK d \in 0 .. Len(stack) : d = Len(stack) - 1
    <3>1. Len(stack) \in Nat /\ Len(stack) > 0
      BY <1>2, <2>2, FrontAndLast
    <3>2. Len(stack) - 1 \in 0 .. Len(stack)
      BY <3>1
    <3> QED
      BY <3>2
  <2>4. C!Last(stack) = stack[Len(stack)] /\ C!Front(stack) = SubSeq(stack, 1, d)
    BY <1>2, <2>2, <2>3, FrontAndLast
  <2>5. C!Front(frames) = SubSeq(frames, 1, d)
    BY <2>2, <2>3 DEF C!Front
  <2>6. cond' = CondAt(d + 1)
    BY <2>1, <2>2, <2>3, <2>4 DEF CondAt
  <2>7. Agrees'
    BY <2>1, <2>2, <2>4, <2>5, <2>6, Closes
  <2> QED
    BY <2>1, <2>7 DEF Closed
<1> QED
  BY <1>1, <1>2

LEMMA ExitMacroAgrees ==
  ASSUME Agrees, Closed, C!ExitMacro
  PROVE  Agrees' /\ Closed'
<1>1. CASE macros = <<>>
  BY <1>1, RefuseAgrees DEF C!ExitMacro
<1>2. CASE macros # <<>>
  <2>1. /\ stack \in Seq(C!Cond) /\ Len(stack) \in Nat /\ macros \in Seq(Nat)
        /\ C!Last(macros) \in Nat /\ C!Front(macros) \in Seq(Nat)
    <3>1. stack \in Seq(C!Cond) /\ macros \in Seq(Nat)
      BY DEF Agrees, Shapes
    <3>2. C!Last(macros) \in Nat /\ C!Front(macros) \in Seq(Nat)
      BY <1>2, <3>1, FrontAndLast
    <3> QED
      BY <3>1, <3>2
  <2>2. CASE Len(stack) < C!Last(macros)
    BY <1>2, <2>1, <2>2, Untouched DEF C!ExitMacro, Closed
  <2>3. CASE ~ Len(stack) < C!Last(macros)
    <3>1. PICK d \in 0 .. Len(stack) : d = C!Last(macros)
      BY <2>1, <2>3
    <3>2. /\ cond' = IF Len(stack) = d THEN cond ELSE stack[d + 1]
          /\ stack' = SubSeq(stack, 1, d) /\ frames' = SubSeq(frames, 1, d)
          /\ macros' = C!Front(macros) /\ mode' = mode /\ mode = "reading"
      BY <1>2, <2>3, <3>1 DEF C!ExitMacro, C!Assembles, C!Reading, C!Read
    <3>3. cond' = CondAt(d + 1)
      BY <2>1, <3>1, <3>2 DEF CondAt
    <3>4. Agrees'
      BY <2>1, <3>2, <3>3, Closes
    <3> QED
      BY <3>2, <3>4 DEF Closed
  <2> QED
    BY <2>2, <2>3
<1> QED
  BY <1>1, <1>2

(* A statement, a label, a macro that begins or ends, the end of the file. *)
LEMMA OthersAgree ==
  ASSUME Agrees, Closed,
         \/ C!IfeqsWithoutComma \/ C!Statement \/ C!Malformed
         \/ C!Label \/ C!Call \/ C!EndMacro \/ C!End
  PROVE  Agrees' /\ Closed'
<1>1. /\ macros \in Seq(Nat) /\ stack \in Seq(C!Cond) /\ Len(stack) \in Nat
      /\ frames \in Seq(C!Frame) /\ Len(frames) = Len(stack)
  BY DEF Agrees, Shapes
<1>2. UNCHANGED <<cond, stack, frames>>
  BY DEF C!IfeqsWithoutComma, C!Statement, C!Malformed, C!Label, C!Call, C!EndMacro,
         C!End, C!Refuse
<1>3. macros' \in Seq(Nat)
  <2>1. macros # <<>> => C!Front(macros) \in Seq(Nat)
    BY <1>1, FrontAndLast
  <2>2. Append(macros, Len(stack)) \in Seq(Nat)
    BY <1>1, AppendProperties
  <2> QED
    BY <1>1, <2>1, <2>2
       DEF C!IfeqsWithoutComma, C!Statement, C!Malformed, C!Label, C!Call, C!EndMacro,
           C!End, C!Refuse
<1>4. Agrees'
  BY <1>2, <1>3, Untouched
<1>5. Closed'
  <2>1. CASE ~ (mode' = "ended" /\ ~ error')
    BY <2>1 DEF Closed
  <2>2. CASE mode' = "ended" /\ ~ error'
    <3>1. cond.theCond = "none"
      BY <2>2
         DEF C!IfeqsWithoutComma, C!Statement, C!Malformed, C!Label, C!Call, C!EndMacro, C!End,
             C!Refuse, C!Assembles, C!Reading, C!Read, C!Fails, C!Stops
    <3>2. Len(stack) = 0
      <4>1. SUFFICES ASSUME Len(stack) > 0 PROVE FALSE
        BY <1>1
      <4>2. Knows(Len(stack)) /\ CondAt(Len(stack) + 1) = cond
        BY <1>1, <4>1 DEF Agrees, CondAt
      <4>3. frames[Len(stack)] \in C!Frame
        BY <1>1, <4>1
      <4> QED
        BY <3>1, <4>2, <4>3 DEF Knows, C!Frame
    <3> QED
      BY <1>1, <1>2, <3>2 DEF Closed
  <2> QED
    BY <2>1, <2>2
<1> QED
  BY <1>4, <1>5

(* In every run of the assembler's parts text is skipped exactly where an  *)
(* open conditional says so, however deep conditionals and macros are      *)
(* nested and whatever fails and is forgotten on the way, and what ends    *)
(* without an error leaves none open (AsmCond.h:21-24, AsmParser.cpp:712-  *)
(* 730); for .ifeqs in a skipped block and the other branches of an .if    *)
(* that could not be read nothing is said.                                 *)
THEOREM ConditionalsSkip == MCSpec => []SkipsExactly
<1>1. MCInit => Agrees /\ Closed
  BY DEF MCInit, C!Init, Agrees, Shapes, Outermost, CondAt, Closed, C!Cond
<1>2. Agrees /\ Closed /\ [MCNext]_<<job, vars, condVars, mapVars>> => Agrees' /\ Closed'
  <2> SUFFICES ASSUME Agrees, Closed, [MCNext]_<<job, vars, condVars, mapVars>>
               PROVE  Agrees' /\ Closed'
    OBVIOUS
  <2>1. CASE UNCHANGED condVars
    BY <2>1, Untouched DEF condVars, Agrees, Shapes, Closed
  <2>2. CASE C!Next
    BY <2>2, IfAgrees, ElseAgrees, EndIfAgrees, ExitMacroAgrees, OthersAgree, RefuseAgrees
       DEF C!Next, C!Ifdef
  <2> QED
    BY <2>1, <2>2 DEF MCNext, condVars
<1>3. Agrees /\ Closed => SkipsExactly
  BY Innermost DEF SkipsExactly, C!SkipsExactly, Closed
<1> QED
  BY <1>1, <1>2, <1>3, PTL DEF MCSpec

-----------------------------------------------------------------------------
\* Numbers.

LEMMA Cancelling ==
  ASSUME NEW m \in Nat \ {0}, NEW x \in Int, NEW y \in Int, m * x = m * y
  PROVE  x = y
OBVIOUS

LEMMA Rearranged ==
  ASSUME NEW x \in Int, NEW y \in Int, NEW z \in Int
  PROVE  /\ x * y \in Int /\ x * y = y * x
         /\ x * (y * z) = (x * y) * z /\ x * (y * z) = y * (x * z)
         /\ x * (y + z) = x * y + x * z /\ x * (y - z) = x * y - x * z
OBVIOUS

LEMMA Products == ASSUME NEW a \in Nat, NEW b \in Nat PROVE a * b \in Nat
OBVIOUS

(* A number that divides what it divides an odd multiple of.               *)
Cancels(m) ==
  \A a, b \in Nat, q \in Int : a % 2 = 1 /\ a * b = m * q => \E r \in Int : b = m * r

LEMMA OneCancels == Cancels(1)
BY DEF Cancels

LEMMA DoubleCancels ==
  ASSUME NEW m \in Nat \ {0}, Cancels(m)
  PROVE  Cancels(2 * m)
<1> SUFFICES ASSUME NEW a \in Nat, NEW b \in Nat, NEW q \in Int, a % 2 = 1, a * b = (2 * m) * q
             PROVE  \E r \in Int : b = (2 * m) * r
  BY DEF Cancels
<1>1. a * b = m * (2 * q) /\ 2 * q \in Int
  BY Rearranged
<1>2. PICK r \in Int : b = m * r
  BY <1>1 DEF Cancels
<1>3. a * r = 2 * q
  <2>1. m * (a * r) = m * (2 * q) /\ a * r \in Int
    BY <1>1, <1>2, Rearranged
  <2> QED
    BY <1>1, <2>1, Cancelling
<1>4. PICK c \in Int : a = 2 * c + 1
  <2>1. a = 2 * (a \div 2) + 1 /\ a \div 2 \in Int
    OBVIOUS
  <2> QED
    BY <2>1
<1>5. r = 2 * (q - c * r) /\ q - c * r \in Int
  <2>1. a * r = 2 * (c * r) + r /\ c * r \in Int
    BY <1>4, Rearranged
  <2> QED
    BY <1>3, <2>1
<1>6. b = (2 * m) * (q - c * r)
  <2> DEFINE s == q - c * r
  <2>1. s \in Int /\ r = 2 * s
    BY <1>5
  <2> HIDE DEF s
  <2>2. m * (2 * s) = (2 * m) * s
    BY <2>1, Rearranged
  <2>3. b = (2 * m) * s
    BY <1>2, <2>1, <2>2
  <2> QED
    BY <2>3 DEF s
<1> QED
  BY <1>5, <1>6

LEMMA PowersCancel ==
  ASSUME NEW n \in Nat, IsPowerOfTwo(n)
  PROVE  n # 0 /\ Cancels(n)
<1>1. PICK chain \in SUBSET (1 .. n) :
        n \in chain /\ \A m \in chain : m = 1 \/ \E h \in chain : m = 2 * h
  BY DEF IsPowerOfTwo
<1> DEFINE T == {k \in Nat : \A m \in chain : m <= k => Cancels(m)}
<1>2. 0 \in T
  OBVIOUS
<1>3. ASSUME NEW k \in Nat, k \in T PROVE k + 1 \in T
  <2> SUFFICES ASSUME NEW m \in chain, m <= k + 1 PROVE Cancels(m)
    OBVIOUS
  <2>1. CASE m = 1
    BY <2>1, OneCancels
  <2>2. CASE \E h \in chain : m = 2 * h
    <3>1. PICK h \in chain : m = 2 * h
      BY <2>2
    <3>2. h \in Nat \ {0} /\ h <= k
      BY <3>1
    <3>3. Cancels(h)
      BY <1>3, <3>2
    <3> QED
      BY <3>1, <3>2, <3>3, DoubleCancels
  <2> QED
    BY <1>1, <2>1, <2>2
<1>4. n \in T
  <2> HIDE DEF T
  <2> QED BY <1>2, <1>3, NatSetInduction
<1> QED
  BY <1>1, <1>4

(* Numbers with the same remainder differ by a multiple.                   *)
LEMMA SameRemainder ==
  ASSUME NEW n \in Nat \ {0}, NEW a \in Nat, NEW b \in Nat, a % n = b % n
  PROVE  \E q \in Int : a - b = n * q
<1> DEFINE x == a \div n
           y == b \div n
           r == a % n
<1>1. a = n * x + r /\ b = n * y + r
  <2>1. a = n * x + (a % n) /\ b = n * y + (b % n)
    OBVIOUS
  <2> QED
    BY <2>1
<1>2. x \in Int /\ y \in Int /\ r \in Int
  OBVIOUS
<1> HIDE DEF x, y, r
<1>3. a - b = n * (x - y)
  <2>1. n * (x - y) = n * x - n * y /\ n * x \in Int /\ n * y \in Int
    BY <1>2, Rearranged
  <2> QED
    BY <1>1, <1>2, <2>1
<1> QED
  BY <1>2, <1>3

LEMMA Remainder ==
  ASSUME NEW n \in Nat \ {0}, NEW a \in Nat
  PROVE  a % n \in 0 .. n - 1
OBVIOUS

LEMMA Triangle ==
  ASSUME NEW i \in Nat
  PROVE  /\ (i * (i + 1)) \div 2 \in Nat
         /\ 2 * ((i * (i + 1)) \div 2) = i * (i + 1)
<1>1. i * (i + 1) \in Nat
  BY Products
<1>2. PICK t \in Int : i * (i + 1) = 2 * t
  <2>1. CASE i % 2 = 0
    <3>1. PICK h \in Int : i = 2 * h
      <4>1. i = 2 * (i \div 2) /\ i \div 2 \in Int
        BY <2>1
      <4> QED
        BY <4>1
    <3>2. i * (i + 1) = 2 * (h * (i + 1)) /\ h * (i + 1) \in Int
      BY <3>1, Rearranged
    <3> QED
      BY <3>2
  <2>2. CASE i % 2 = 1
    <3>1. PICK h \in Int : i + 1 = 2 * h
      <4>1. i + 1 = 2 * ((i + 1) \div 2) /\ (i + 1) \div 2 \in Int
        BY <2>2
      <4> QED
        BY <4>1
    <3>2. i * (i + 1) = 2 * (i * h) /\ i * h \in Int
      BY <3>1, Rearranged
    <3> QED
      BY <3>2
  <2> QED
    BY <2>1, <2>2
<1>3. \A x \in Nat, y \in Int : x = 2 * y => x \div 2 = y /\ y \in Nat
  OBVIOUS
<1>4. (i * (i + 1)) \div 2 = t /\ t \in Nat
  BY <1>1, <1>2, <1>3
<1> QED
  BY <1>2, <1>4

-----------------------------------------------------------------------------
\* Probes.

Size(n) == n \in Nat \ {0} /\ Cancels(n)

LEMMA ProbeInTable ==
  ASSUME NEW k \in Keys, NEW n \in Nat \ {0}, NEW i \in Nat
  PROVE  M!Probe(k, n, i) \in 0 .. n - 1
<1>1. Hash[k] \in Nat /\ (i * (i + 1)) \div 2 \in Nat
  BY MapConstants, Triangle
<1> DEFINE a == Hash[k] + (i * (i + 1)) \div 2
<1>2. a \in Nat
  BY <1>1
<1> HIDE DEF a
<1>3. a % n \in 0 .. n - 1
  BY <1>2, Remainder
<1> QED
  BY <1>3 DEF M!Probe, a

(* The first n steps of a probe are to n buckets.                          *)
LEMMA ProbesDiffer ==
  ASSUME NEW k \in Keys, NEW n, Size(n), NEW i \in 0 .. n - 1, NEW j \in 0 .. n - 1,
         M!Probe(k, n, i) = M!Probe(k, n, j)
  PROVE  i = j
<1>1. n \in Nat \ {0} /\ Cancels(2 * n)
  BY DoubleCancels DEF Size
<1>2. ASSUME NEW x \in 0 .. n - 1, NEW y \in 0 .. n - 1, y < x,
             M!Probe(k, n, x) = M!Probe(k, n, y)
      PROVE  FALSE
  <2> DEFINE s == (x * (x + 1)) \div 2
             t == (y * (y + 1)) \div 2
  <2>0. x \in Nat /\ y \in Nat
    BY <1>1
  <2>1. /\ s \in Nat /\ 2 * s = x * (x + 1)
        /\ t \in Nat /\ 2 * t = y * (y + 1)
    BY <2>0, Triangle
  <2>2. PICK q \in Int : (Hash[k] + s) - (Hash[k] + t) = n * q
    <3> DEFINE a == Hash[k] + s
               b == Hash[k] + t
    <3>1. Hash[k] \in Nat
      BY MapConstants
    <3>2. a \in Nat /\ b \in Nat
      BY <2>1, <3>1
    <3>3. a % n = b % n
      BY <1>2 DEF M!Probe
    <3> HIDE DEF a, b
    <3>4. PICK q \in Int : a - b = n * q
      BY <1>1, <3>2, <3>3, SameRemainder
    <3> QED
      BY <3>4 DEF a, b
  <2> HIDE DEF s, t
  <2>3. s - t = n * q
    <3>1. Hash[k] \in Nat /\ n * q \in Int
      BY MapConstants, <1>1
    <3> QED
      BY <2>1, <2>2, <3>1
  <2>4. (x - y) * (x + y + 1) = (2 * n) * q
    <3>1. x * (x + 1) - y * (y + 1) = (2 * n) * q
      <4>1. 2 * (s - t) = (2 * n) * q
        BY <2>1, <2>3, <1>1, Rearranged
      <4> QED
        BY <2>1, <4>1
    <3>2. (x - y) * (x + y + 1) = x * (x + 1) - y * (y + 1)
      BY <2>0
    <3> QED
      BY <3>1, <3>2
  <2>5. /\ x - y \in 1 .. n - 1 /\ x + y + 1 \in 1 .. 2 * n - 1
        /\ x - y \in Nat /\ x + y + 1 \in Nat
    BY <1>1, <1>2
  <2>6. (x - y) % 2 = 1 \/ (x + y + 1) % 2 = 1
    BY <2>0, <2>5
  <2>7. \A z \in 1 .. 2 * n - 1, r \in Int : z # (2 * n) * r
    <3> SUFFICES ASSUME NEW z \in 1 .. 2 * n - 1, NEW r \in Int, z = (2 * n) * r PROVE FALSE
      OBVIOUS
    <3>1. CASE r <= 0
      BY <1>1, <3>1
    <3>2. CASE r >= 1
      <4>1. (2 * n) * r = (2 * n) * (r - 1) + 2 * n /\ (2 * n) * (r - 1) \in Nat
        BY <1>1, <3>2, Rearranged, Products
      <4> QED
        BY <1>1, <4>1
    <3> QED
      BY <3>1, <3>2
  <2>8. CASE (x - y) % 2 = 1
    <3>1. \E r \in Int : x + y + 1 = (2 * n) * r
      BY <1>1, <2>4, <2>5, <2>8 DEF Cancels
    <3> QED
      BY <2>5, <2>7, <3>1
  <2>9. CASE (x + y + 1) % 2 = 1
    <3>1. (x + y + 1) * (x - y) = (2 * n) * q
      BY <2>4, <2>0, Rearranged
    <3>2. \E r \in Int : x - y = (2 * n) * r
      BY <1>1, <3>1, <2>5, <2>9 DEF Cancels
    <3>3. x - y \in 1 .. 2 * n - 1
      BY <1>1, <2>5
    <3> QED
      BY <2>7, <3>2, <3>3
  <2> QED
    BY <2>6, <2>8, <2>9
<1>3. i < j \/ j < i \/ i = j
  BY <1>1
<1> QED
  BY <1>2, <1>3

LEMMA ProbesMeetAll ==
  ASSUME NEW k \in Keys, NEW n, Size(n), NEW b \in 0 .. n - 1
  PROVE  \E i \in 0 .. n - 1 : M!Probe(k, n, i) = b
<1>0. n \in Nat \ {0}
  BY DEF Size
<1> SUFFICES ASSUME \A i \in 0 .. n - 1 : M!Probe(k, n, i) # b PROVE FALSE
  OBVIOUS
<1> DEFINE S == 0 .. n - 1
           T == S \ {b}
           f == [i \in S |-> M!Probe(k, n, i)]
<1>1. f \in [S -> T]
  <2>1. \A i \in S : M!Probe(k, n, i) \in S
    <3> SUFFICES ASSUME NEW i \in S PROVE M!Probe(k, n, i) \in S
      OBVIOUS
    <3>1. i \in Nat
      BY <1>0
    <3> QED
      BY <1>0, <3>1, ProbeInTable
  <2> QED
    BY <2>1
<1>2. IsFiniteSet(S) /\ Cardinality(S) = n
  <2>1. 0 \in Int /\ n - 1 \in Int /\ ~ (0 > n - 1) /\ n - 1 - 0 + 1 = n
    BY <1>0
  <2> QED
    BY <2>1, FS_Interval
<1>3. IsFiniteSet(T) /\ Cardinality(T) = Cardinality(S) - 1
  BY <1>2, FS_RemoveElement
<1>4. Cardinality(T) < Cardinality(S)
  BY <1>0, <1>2, <1>3
<1> HIDE DEF S, T, f
<1>5. PICK x, y \in S : x # y /\ f[x] = f[y]
  BY <1>1, <1>2, <1>3, <1>4, FS_PigeonHole
<1>6. M!Probe(k, n, x) = M!Probe(k, n, y) /\ x \in 0 .. n - 1 /\ y \in 0 .. n - 1
  BY <1>5 DEF f, S
<1> QED
  BY <1>5, <1>6, ProbesDiffer

-----------------------------------------------------------------------------
\* Tables.

Cells == Keys \union {M!Free, M!Tombstone}
Contents(t) == {t[b] : b \in DOMAIN t} \ {M!Free, M!Tombstone}
Graves(t) == {b \in DOMAIN t : t[b] = M!Tombstone}
HasFree(t) == \E b \in DOMAIN t : t[b] = M!Free

(* A probe for k meets no unused bucket before its i-th step.              *)
Passes(t, n, k, i) == \A j \in 0 .. i - 1 : t[M!Probe(k, n, j)] # M!Free
Leads(t, n, k, i, b) == M!Probe(k, n, i) = b /\ Passes(t, n, k, i)

(* A table of n buckets holds each key once, and where a probe leads to it. *)
Unrepeated(t, n) == \A b, c \in 0 .. n - 1 : t[b] = t[c] /\ t[b] \in Keys => b = c
Led(t, n) == \A b \in 0 .. n - 1 : t[b] \in Keys => \E i \in M!Steps(n) : Leads(t, n, t[b], i, b)
Table(t, n) == t \in [0 .. n - 1 -> Cells] /\ Unrepeated(t, n) /\ Led(t, n)

LEMMA FirstStep ==
  ASSUME NEW S, S \subseteq Nat, S # {}
  PROVE  M!Least(S) \in S /\ \A j \in S : M!Least(S) <= j
<1> DEFINE R == {p \in Nat \X Nat : p[1] < p[2]}
<1>1. IsWellFoundedOn(R, Nat)
  BY NatLessThanWellFounded DEF OpToRel
<1>2. PICK a \in S : \A y \in S : ~ (<<y, a>> \in R)
  <2> HIDE DEF R
  <2> QED BY <1>1, WFMin
<1>3. \A y \in S : a <= y
  <2> SUFFICES ASSUME NEW y \in S, ~ (a <= y) PROVE FALSE
    OBVIOUS
  <2>1. y \in Nat /\ a \in Nat /\ y < a
    OBVIOUS
  <2> QED
    BY <2>1, <1>2
<1> QED
  BY <1>3 DEF M!Least

LEMMA KeysAreKeys == M!Free \notin Keys /\ M!Tombstone \notin Keys /\ M!Free # M!Tombstone
BY MapConstants DEF M!Free, M!Tombstone

LEMMA SomeEnd ==
  ASSUME NEW n, Size(n), NEW t, Table(t, n), HasFree(t), NEW k \in Keys
  PROVE  M!Ends(t, n, k) # {}
<1>1. PICK b \in 0 .. n - 1 : t[b] = M!Free
  BY DEF HasFree, Table
<1>2. PICK i \in 0 .. n - 1 : M!Probe(k, n, i) = b
  BY ProbesMeetAll
<1>3. i \in 0 .. 2 * n - 1
  BY DEF Size
<1>4. i \in M!Ends(t, n, k)
  BY <1>1, <1>2, <1>3 DEF M!Ends, M!Stops, M!Steps
<1> QED
  BY <1>4

(* Where a probe for a key ends: at the key, if the table holds it, and    *)
(* otherwise at an unused bucket, the first it meets.                      *)
LEMMA ProbeEnds ==
  ASSUME NEW n, Size(n), NEW t, Table(t, n), HasFree(t), NEW k \in Keys
  PROVE  LET last == M!Least(M!Ends(t, n, k))
             b == M!Probe(k, n, last)
         IN /\ last \in M!Steps(n) /\ b \in 0 .. n - 1
            /\ Passes(t, n, k, last)
            /\ k \in Contents(t) => t[b] = k
            /\ k \notin Contents(t) => t[b] = M!Free
<1> DEFINE last == M!Least(M!Ends(t, n, k))
           b == M!Probe(k, n, last)
<1>0. n \in Nat \ {0} /\ DOMAIN t = 0 .. n - 1
  BY DEF Size, Table
<1>1. M!Ends(t, n, k) \subseteq Nat /\ M!Ends(t, n, k) \subseteq M!Steps(n)
  BY <1>0 DEF M!Ends, M!Stops, M!Steps
<1>2. last \in M!Ends(t, n, k) /\ \A j \in M!Ends(t, n, k) : last <= j
  BY <1>1, SomeEnd, FirstStep
<1> HIDE DEF last
<1>3. last \in M!Steps(n) /\ last \in Nat /\ b \in 0 .. n - 1
  BY <1>0, <1>1, <1>2, ProbeInTable
<1>4. t[b] \in {k, M!Free}
  BY <1>2 DEF M!Ends, M!Stops
<1>5. \A j \in 0 .. last - 1 : t[M!Probe(k, n, j)] \notin {k, M!Free}
  <2> SUFFICES ASSUME NEW j \in 0 .. last - 1, t[M!Probe(k, n, j)] \in {k, M!Free} PROVE FALSE
    OBVIOUS
  <2>1. j \in M!Steps(n) /\ ~ (last <= j)
    BY <1>0, <1>3 DEF M!Steps
  <2>2. j \in M!Ends(t, n, k)
    BY <2>1 DEF M!Ends, M!Stops
  <2> QED
    BY <1>2, <2>1, <2>2
<1>6. ASSUME k \in Contents(t) PROVE t[b] = k
  <2>1. PICK c \in 0 .. n - 1 : t[c] = k
    BY <1>0, <1>6 DEF Contents
  <2>2. PICK i \in M!Steps(n) : Leads(t, n, k, i, c)
    BY <2>1 DEF Table, Led
  <2>3. i \in M!Ends(t, n, k) /\ i \in Nat
    BY <1>0, <2>1, <2>2 DEF Leads, M!Ends, M!Stops, M!Steps
  <2>4. last <= i
    BY <1>2, <2>3
  <2>5. CASE last = i
    BY <2>1, <2>2, <2>5 DEF Leads
  <2>6. CASE last < i
    <3>1. last \in 0 .. i - 1
      BY <1>3, <2>3, <2>6
    <3>2. t[b] # M!Free
      BY <2>2, <3>1 DEF Leads, Passes
    <3> QED
      BY <1>4, <3>2
  <2> QED
    BY <1>3, <2>3, <2>4, <2>5, <2>6
<1>7. ASSUME k \notin Contents(t) PROVE t[b] = M!Free
  <2>1. t[b] # k
    BY <1>0, <1>3, <1>7, KeysAreKeys DEF Contents
  <2> QED
    BY <1>4, <2>1
<1>8. Passes(t, n, k, last)
  BY <1>5 DEF Passes
<1> QED
  BY <1>3, <1>6, <1>7, <1>8 DEF last

(* The bucket a key is put into: its own, or one that holds none and to    *)
(* which a probe leads.                                                    *)
LEMMA BucketFor ==
  ASSUME NEW n, Size(n), NEW t, Table(t, n), HasFree(t), NEW k \in Keys
  PROVE  LET b == M!LookupBucketFor(t, n, k)
         IN /\ b \in 0 .. n - 1
            /\ k \in Contents(t) => t[b] = k
            /\ k \notin Contents(t) =>
                 /\ t[b] \in {M!Free, M!Tombstone}
                 /\ \E i \in M!Steps(n) : Leads(t, n, k, i, b)
<1> DEFINE last == M!Least(M!Ends(t, n, k))
           passed == {i \in M!Stops(t, n, k, {M!Tombstone}) : i < last}
           b == M!LookupBucketFor(t, n, k)
<1>0. n \in Nat \ {0}
  BY DEF Size
<1>1. /\ last \in M!Steps(n) /\ M!Probe(k, n, last) \in 0 .. n - 1
      /\ Passes(t, n, k, last)
      /\ k \in Contents(t) => t[M!Probe(k, n, last)] = k
      /\ k \notin Contents(t) => t[M!Probe(k, n, last)] = M!Free
  BY ProbeEnds
<1> HIDE DEF last
<1>2. b = M!Probe(k, n, IF t[M!Probe(k, n, last)] = k \/ passed = {} THEN last ELSE M!Least(passed))
  BY DEF M!LookupBucketFor, last
<1> HIDE DEF b
<1>3. CASE t[M!Probe(k, n, last)] = k \/ passed = {}
  BY <1>1, <1>2, <1>3 DEF Leads, b
<1>4. CASE ~ (t[M!Probe(k, n, last)] = k \/ passed = {})
  <2> DEFINE i == M!Least(passed)
  <2>1. passed \subseteq Nat /\ passed \subseteq M!Steps(n)
    BY <1>0 DEF M!Stops, M!Steps
  <2>2. i \in passed
    <3> HIDE DEF passed
    <3> QED BY <1>4, <2>1, FirstStep
  <2> HIDE DEF i
  <2>3. /\ i \in M!Steps(n) /\ i \in Nat /\ i < last /\ last \in Nat
        /\ t[M!Probe(k, n, i)] = M!Tombstone
    BY <1>0, <1>1, <2>1, <2>2 DEF M!Stops, M!Steps
  <2>4. b = M!Probe(k, n, i)
    BY <1>2, <1>4 DEF i
  <2>5. Passes(t, n, k, i)
    BY <1>1, <2>3 DEF Passes
  <2>6. b \in 0 .. n - 1
    BY <1>0, <2>3, <2>4, ProbeInTable
  <2> QED
    BY <1>1, <1>4, <2>3, <2>4, <2>5, <2>6 DEF Leads, b
<1> QED
  BY <1>3, <1>4

(* Putting a key where a probe for it leads.                               *)
Put(t, b, k) == [t EXCEPT ![b] = k]

LEMMA PutKeepsTable ==
  ASSUME NEW n, Size(n), NEW t, Table(t, n), NEW k \in Keys, k \notin Contents(t),
         NEW b \in 0 .. n - 1, t[b] \in {M!Free, M!Tombstone},
         NEW i \in M!Steps(n), Leads(t, n, k, i, b)
  PROVE  /\ Table(Put(t, b, k), n)
         /\ Contents(Put(t, b, k)) = Contents(t) \union {k}
         /\ Graves(Put(t, b, k)) = Graves(t) \ {b}
<1> DEFINE u == Put(t, b, k)
<1>0. n \in Nat \ {0} /\ t \in [0 .. n - 1 -> Cells]
  BY DEF Size, Table
<1>1. /\ u \in [0 .. n - 1 -> Cells] /\ u[b] = k
      /\ \A c \in 0 .. n - 1 : c # b => u[c] = t[c]
  BY <1>0 DEF Put, Cells
<1> HIDE DEF u
<1>2. \A c \in 0 .. n - 1 : t[c] # k
  BY <1>0, KeysAreKeys DEF Contents
<1>3. Unrepeated(u, n)
  BY <1>1, <1>2 DEF Table, Unrepeated
<1>4. ASSUME NEW q \in Keys, NEW j \in M!Steps(n), NEW c, Leads(t, n, q, j, c)
      PROVE  Leads(u, n, q, j, c)
  <2> SUFFICES ASSUME NEW m \in 0 .. j - 1 PROVE u[M!Probe(q, n, m)] # M!Free
    BY <1>4 DEF Leads, Passes
  <2>1. m \in Nat
    BY <1>0 DEF M!Steps
  <2>2. M!Probe(q, n, m) \in 0 .. n - 1
    BY <1>0, <2>1, ProbeInTable
  <2>3. t[M!Probe(q, n, m)] # M!Free
    BY <1>4 DEF Leads, Passes
  <2> QED
    BY <1>1, <2>2, <2>3, KeysAreKeys
<1>5. Led(u, n)
  <2> SUFFICES ASSUME NEW c \in 0 .. n - 1, u[c] \in Keys
               PROVE  \E j \in M!Steps(n) : Leads(u, n, u[c], j, c)
    BY DEF Led
  <2>1. CASE c = b
    BY <1>1, <1>4, <2>1
  <2>2. CASE c # b
    <3>1. u[c] = t[c]
      BY <1>1, <2>2
    <3>2. PICK j \in M!Steps(n) : Leads(t, n, t[c], j, c)
      BY <3>1 DEF Table, Led
    <3> QED
      BY <1>4, <3>1, <3>2
  <2> QED
    BY <2>1, <2>2
<1>6. Contents(u) = Contents(t) \union {k}
  <2>1. DOMAIN u = 0 .. n - 1 /\ DOMAIN t = 0 .. n - 1
    BY <1>0, <1>1
  <2>2. ASSUME NEW x \in Contents(u) PROVE x \in Contents(t) \union {k}
    BY <1>1, <2>1, <2>2 DEF Contents
  <2>3. ASSUME NEW x \in Contents(t) PROVE x \in Contents(u)
    <3>1. PICK c \in 0 .. n - 1 : x = t[c] /\ x \notin {M!Free, M!Tombstone}
      BY <2>1, <2>3 DEF Contents
    <3>2. u[c] = x
      BY <1>1, <3>1
    <3> QED
      BY <2>1, <3>1, <3>2 DEF Contents
  <2>4. k \in Contents(u)
    BY <1>1, <2>1, KeysAreKeys DEF Contents
  <2> QED
    BY <2>2, <2>3, <2>4
<1>7. Graves(u) = Graves(t) \ {b}
  <2>1. DOMAIN u = 0 .. n - 1 /\ DOMAIN t = 0 .. n - 1
    BY <1>0, <1>1
  <2>2. \A c : c \in Graves(u) <=> c \in Graves(t) /\ c # b
    BY <1>1, <2>1, KeysAreKeys DEF Graves
  <2> QED
    BY <2>2
<1> QED
  BY <1>1, <1>3, <1>5, <1>6, <1>7 DEF Table, u

(* A tombstone in the place of a key.                                      *)
LEMMA BuryKeepsTable ==
  ASSUME NEW n, Size(n), NEW t, Table(t, n), NEW b \in 0 .. n - 1, t[b] \in Keys
  PROVE  /\ Table(Put(t, b, M!Tombstone), n)
         /\ Contents(Put(t, b, M!Tombstone)) = Contents(t) \ {t[b]}
         /\ Graves(Put(t, b, M!Tombstone)) = Graves(t) \union {b}
<1> DEFINE u == Put(t, b, M!Tombstone)
<1>0. n \in Nat \ {0} /\ t \in [0 .. n - 1 -> Cells]
  BY DEF Size, Table
<1>1. /\ u \in [0 .. n - 1 -> Cells] /\ u[b] = M!Tombstone
      /\ \A c \in 0 .. n - 1 : c # b => u[c] = t[c]
  BY <1>0 DEF Put, Cells
<1> HIDE DEF u
<1>2. DOMAIN u = 0 .. n - 1 /\ DOMAIN t = 0 .. n - 1
  BY <1>0, <1>1
<1>3. Unrepeated(u, n)
  BY <1>1, KeysAreKeys DEF Table, Unrepeated
<1>4. ASSUME NEW q \in Keys, NEW j \in M!Steps(n), NEW c, Leads(t, n, q, j, c)
      PROVE  Leads(u, n, q, j, c)
  <2> SUFFICES ASSUME NEW m \in 0 .. j - 1 PROVE u[M!Probe(q, n, m)] # M!Free
    BY <1>4 DEF Leads, Passes
  <2>1. m \in Nat
    BY <1>0 DEF M!Steps
  <2>2. M!Probe(q, n, m) \in 0 .. n - 1
    BY <1>0, <2>1, ProbeInTable
  <2>3. t[M!Probe(q, n, m)] # M!Free
    BY <1>4 DEF Leads, Passes
  <2> QED
    BY <1>1, <2>2, <2>3, KeysAreKeys
<1>5. Led(u, n)
  <2> SUFFICES ASSUME NEW c \in 0 .. n - 1, u[c] \in Keys
               PROVE  \E j \in M!Steps(n) : Leads(u, n, u[c], j, c)
    BY DEF Led
  <2>1. c # b /\ u[c] = t[c]
    BY <1>1, KeysAreKeys
  <2>2. PICK j \in M!Steps(n) : Leads(t, n, t[c], j, c)
    BY <2>1 DEF Table, Led
  <2> QED
    BY <1>4, <2>1, <2>2
<1>6. Contents(u) = Contents(t) \ {t[b]}
  <2>1. ASSUME NEW x \in Contents(u) PROVE x \in Contents(t) /\ x # t[b]
    <3>1. PICK c \in 0 .. n - 1 : x = u[c] /\ x \notin {M!Free, M!Tombstone}
      BY <1>2, <2>1 DEF Contents
    <3>2. c # b /\ x = t[c]
      BY <1>1, <3>1
    <3>3. x # t[b]
      BY <3>2 DEF Table, Unrepeated
    <3> QED
      BY <1>2, <3>1, <3>2, <3>3 DEF Contents
  <2>2. ASSUME NEW x \in Contents(t), x # t[b] PROVE x \in Contents(u)
    <3>1. PICK c \in 0 .. n - 1 : x = t[c] /\ x \notin {M!Free, M!Tombstone}
      BY <1>2, <2>2 DEF Contents
    <3>2. u[c] = x
      BY <1>1, <2>2, <3>1
    <3> QED
      BY <1>2, <3>1, <3>2 DEF Contents
  <2> QED
    BY <2>1, <2>2
<1>7. Graves(u) = Graves(t) \union {b}
  <2>1. \A c : c \in Graves(u) <=> c \in Graves(t) \/ c = b
    BY <1>1, <1>2 DEF Graves
  <2> QED
    BY <2>1
<1> QED
  BY <1>1, <1>3, <1>5, <1>6, <1>7 DEF Table, u

(* What a table holds and its tombstones, counted: less than its buckets   *)
(* only where one was never used.                                          *)
LEMMA Counts ==
  ASSUME NEW n \in Nat, NEW t, t \in [0 .. n - 1 -> Cells], Unrepeated(t, n)
  PROVE  /\ IsFiniteSet(Contents(t)) /\ Cardinality(Contents(t)) \in Nat
         /\ IsFiniteSet(Graves(t)) /\ Cardinality(Graves(t)) \in Nat
         /\ Cardinality(Contents(t)) <= n
         /\ Cardinality(Contents(t)) + Cardinality(Graves(t)) < n => HasFree(t)
<1> DEFINE D == 0 .. n - 1
           B == {b \in D : t[b] \in Keys}
           f == [b \in B |-> t[b]]
<1>1. IsFiniteSet(D) /\ Cardinality(D) = n
  <2>1. 0 \in Int /\ n - 1 \in Int /\ (IF 0 > n - 1 THEN 0 ELSE n - 1 - 0 + 1) = n
    OBVIOUS
  <2> QED
    BY <2>1, FS_Interval
<1>2. DOMAIN t = D
  OBVIOUS
<1> HIDE DEF D
<1>3. IsFiniteSet(B) /\ Cardinality(B) <= n
  <2>1. B \in SUBSET D
    OBVIOUS
  <2> HIDE DEF B
  <2> QED
    BY <1>1, <2>1, FS_Subset
<1>4. IsFiniteSet(Graves(t)) /\ Cardinality(Graves(t)) \in Nat
  <2>1. Graves(t) \in SUBSET D
    BY <1>2 DEF Graves
  <2> QED
    BY <1>1, <2>1, FS_Subset, FS_CardinalityType
<1>5. f \in Surjection(B, Contents(t)) /\ f \in Injection(B, Contents(t))
  <2>1. \A x : x \in Contents(t) <=> \E b \in B : x = t[b]
    <3>1. \A b \in D : t[b] \in Keys \/ t[b] \in {M!Free, M!Tombstone}
      BY <1>2 DEF Cells, D
    <3> QED
      BY <1>2, <3>1, KeysAreKeys DEF Contents
  <2>2. f \in [B -> Contents(t)] /\ \A x \in Contents(t) : \E b \in B : f[b] = x
    BY <2>1
  <2>3. \A b, c \in B : f[b] = f[c] => b = c
    BY DEF Unrepeated, D
  <2> QED
    BY <2>2, <2>3 DEF Surjection, Injection, IsInjective
<1> HIDE DEF f
<1>6. IsFiniteSet(Contents(t)) /\ Cardinality(Contents(t)) = Cardinality(B)
  <2> HIDE DEF B
  <2> QED
    BY <1>3, <1>5, FS_Surjection
<1>7. Cardinality(Contents(t)) \in Nat
  BY <1>6, FS_CardinalityType
<1>8. ASSUME ~ HasFree(t) PROVE Cardinality(Contents(t)) + Cardinality(Graves(t)) = n
  <2>1. B \union Graves(t) = D
    <3>1. \A b \in D : t[b] \in Keys \/ t[b] = M!Tombstone
      BY <1>2, <1>8 DEF HasFree, Cells, D
    <3> QED
      BY <1>2, <3>1 DEF Graves
  <2>2. B \intersect Graves(t) = {}
    BY KeysAreKeys DEF Graves
  <2>3. Cardinality(B \union Graves(t)) =
          Cardinality(B) + Cardinality(Graves(t)) - Cardinality(B \intersect Graves(t))
    <3> HIDE DEF B
    <3> QED BY <1>3, <1>4, FS_Union
  <2>4. Cardinality({}) = 0
    BY FS_EmptySet
  <2>5. n = Cardinality(B) + Cardinality(Graves(t)) - 0
    BY <1>1, <2>1, <2>2, <2>3, <2>4
  <2> HIDE DEF B
  <2> QED
    BY <1>4, <1>6, <1>7, <2>5
<1> HIDE DEF B
<1> QED
  BY <1>3, <1>4, <1>6, <1>7, <1>8

LEMMA UnusedTable ==
  ASSUME NEW n \in Nat
  PROVE  /\ Table(M!Unused(n), n) /\ M!Unused(n) \in [0 .. n - 1 -> Cells]
         /\ Contents(M!Unused(n)) = {} /\ Graves(M!Unused(n)) = {}
         /\ n # 0 => HasFree(M!Unused(n))
<1>1. M!Unused(n) = [b \in 0 .. n - 1 |-> M!Free]
  BY DEF M!Unused, M!Buckets
<1>2. M!Unused(n) \in [0 .. n - 1 -> Cells]
  BY <1>1 DEF Cells
<1>3. DOMAIN M!Unused(n) = 0 .. n - 1 /\ \A b \in 0 .. n - 1 : M!Unused(n)[b] = M!Free
  BY <1>1
<1>4. Unrepeated(M!Unused(n), n) /\ Led(M!Unused(n), n)
  BY <1>3, KeysAreKeys DEF Unrepeated, Led
<1>5. Contents(M!Unused(n)) = {} /\ Graves(M!Unused(n)) = {}
  BY <1>3, KeysAreKeys DEF Contents, Graves
<1>6. n # 0 => HasFree(M!Unused(n))
  BY <1>3 DEF HasFree
<1> QED
  BY <1>2, <1>4, <1>5, <1>6 DEF Table

LEMMA BucketsOf ==
  ASSUME NEW n \in Nat, NEW t, DOMAIN t = 0 .. n - 1
  PROVE  M!Cardinality(DOMAIN t) = n
<1>0. M!Cardinality(DOMAIN t) = Cardinality(DOMAIN t)
  BY DEF M!Cardinality, Cardinality
<1>1. 0 \in Int /\ n - 1 \in Int /\ (IF 0 > n - 1 THEN 0 ELSE n - 1 - 0 + 1) = n
  OBVIOUS
<1> QED
  BY <1>0, <1>1, FS_Interval

-----------------------------------------------------------------------------
\* Rehashing.

(* Moving the items one by one loses none, repeats none, and leaves each   *)
(* where a probe leads to it; the item of bucket b is where it was put.    *)
LEMMA MovedIsTable ==
  ASSUME NEW n \in Nat, NEW t, Table(t, n), NEW size, Size(size),
         Cardinality(Contents(t)) < size
  PROVE  LET new == M!Moved(t, size)
         IN /\ Table(new[n], size)
            /\ Contents(new[n]) = Contents(t)
            /\ Graves(new[n]) = {}
            /\ \A b \in 0 .. n - 1 : t[b] \in Keys =>
                 LET c == M!Reached(new[b], size, t[b])
                 IN  c \in 0 .. size - 1 /\ new[n][c] = t[b]
<1> DEFINE Into(u, b) == IF t[b] \in {M!Free, M!Tombstone} THEN u
                         ELSE Put(u, M!Reached(u, size, t[b]), t[b])
           m == M!Cardinality(DOMAIN t)
           new == CHOOSE g : g = [b \in 0 .. m |-> IF b = 0 THEN M!Unused(size)
                      ELSE IF t[b - 1] \in {M!Free, M!Tombstone} THEN g[b - 1]
                      ELSE [g[b - 1] EXCEPT ![M!Reached(g[b - 1], size, t[b - 1])] = t[b - 1]]]
           S == [0 .. size - 1 -> Cells]
           step == [b \in 1 .. n |-> [u \in S |-> Into(u, b - 1)]]
<1>1. DOMAIN t = 0 .. n - 1 /\ \A b \in 0 .. n - 1 : t[b] \in Cells
  BY DEF Table
<1>2. size \in Nat \ {0}
  BY DEF Size
<1>2a. m = n
  BY <1>1, BucketsOf
<1>3. new = [b \in 0 .. n |-> IF b = 0 THEN M!Unused(size) ELSE Into(new[b - 1], b - 1)]
  <2>1. M!Unused(size) \in S
    BY <1>2, UnusedTable
  <2>2. ASSUME NEW u \in S, NEW b \in 1 .. n PROVE Into(u, b - 1) \in S
    <3>1. b - 1 \in 0 .. n - 1
      OBVIOUS
    <3>2. t[b - 1] \in Cells
      BY <1>1, <3>1
    <3>3. \A c : Put(u, c, t[b - 1]) \in S
      BY <3>2 DEF Put
    <3> QED
      BY <3>3
  <2>3. step \in Steps(S, n)
    <3> HIDE DEF Into, S
    <3> QED
      BY <2>2 DEF Steps
  <2>4. PICK g \in Recursive(S, M!Unused(size), n, step) : TRUE
    <3> HIDE DEF step, S
    <3> QED
      BY <2>1, <2>3, RecursionExists
  <2>5. /\ g \in [0 .. n -> S] /\ g[0] = M!Unused(size)
        /\ \A b \in 1 .. n : g[b] = step[b][g[b - 1]]
    BY <2>4 DEF Recursive
  <2>6. \A b \in 1 .. n : g[b] = Into(g[b - 1], b - 1)
    <3>1. \A b \in 1 .. n : b - 1 \in 0 .. n
      OBVIOUS
    <3>2. \A b \in 1 .. n : g[b - 1] \in S
      <4> HIDE DEF S
      <4> QED BY <2>5, <3>1
    <3> HIDE DEF Into, S
    <3> QED
      BY <2>5, <3>2
  <2>7. g = [b \in 0 .. n |-> IF b = 0 THEN M!Unused(size) ELSE Into(g[b - 1], b - 1)]
    <3>1. \A b \in 0 .. n : b = 0 \/ b \in 1 .. n
      OBVIOUS
    <3>2. \A b \in 0 .. n : g[b] = IF b = 0 THEN M!Unused(size) ELSE Into(g[b - 1], b - 1)
      <4> HIDE DEF Into
      <4> QED BY <2>5, <2>6, <3>1
    <3> HIDE DEF Into, S
    <3> QED
      BY <2>5, <3>2
  <2>8. g = [b \in 0 .. n |-> IF b = 0 THEN M!Unused(size)
              ELSE IF t[b - 1] \in {M!Free, M!Tombstone} THEN g[b - 1]
              ELSE [g[b - 1] EXCEPT ![M!Reached(g[b - 1], size, t[b - 1])] = t[b - 1]]]
    BY <2>7 DEF Put
  <2>9. new = [b \in 0 .. m |-> IF b = 0 THEN M!Unused(size)
              ELSE IF t[b - 1] \in {M!Free, M!Tombstone} THEN new[b - 1]
              ELSE [new[b - 1] EXCEPT ![M!Reached(new[b - 1], size, t[b - 1])] = t[b - 1]]]
    <3> HIDE DEF m
    <3> QED
      BY <1>2a, <2>8
  <2> HIDE DEF new, m
  <2> QED
    BY <1>2a, <2>9 DEF Put
<1>4. M!Moved(t, size) = new
  BY DEF M!Moved
<1> HIDE DEF new, m
<1> DEFINE Before(b) == {t[c] : c \in 0 .. b - 1} \ {M!Free, M!Tombstone}
           Goal(d) == M!Reached(new[d], size, t[d])
           Follows(b) == \A d \in 0 .. b - 1 : t[d] \in Keys =>
                           Goal(d) \in 0 .. size - 1 /\ new[b][Goal(d)] = t[d]
           Good(b) == /\ Table(new[b], size) /\ Graves(new[b]) = {}
                      /\ Contents(new[b]) = Before(b) /\ Follows(b)
           T == {b \in Nat : b <= n => Good(b)}
<1>5. Good(0)
  <2>1. new[0] = M!Unused(size)
    BY <1>3
  <2>2. Before(0) = {} /\ Follows(0)
    OBVIOUS
  <2> HIDE DEF Follows
  <2> QED
    BY <1>2, <2>1, <2>2, UnusedTable
<1>6. ASSUME NEW b \in Nat, b + 1 <= n, Good(b) PROVE Good(b + 1)
  <2> DEFINE u == new[b]
             k == t[b]
  <2>1. new[b + 1] = Into(u, b)
    <3>1. b + 1 \in 0 .. n /\ b + 1 # 0 /\ (b + 1) - 1 = b
      BY <1>6
    <3> HIDE DEF Into
    <3> QED
      BY <1>3, <3>1
  <2>2. Before(b + 1) = (Before(b) \union {k}) \ {M!Free, M!Tombstone}
    <3>1. 0 .. (b + 1) - 1 = (0 .. b - 1) \union {b}
      OBVIOUS
    <3> QED
      BY <3>1
  <2>3. Table(u, size) /\ Graves(u) = {} /\ Contents(u) = Before(b) /\ Follows(b)
    BY <1>6
  <2>3a. \A d \in 0 .. (b + 1) - 1 : d \in 0 .. b - 1 \/ d = b
    OBVIOUS
  <2>4. b \in 0 .. n - 1 /\ k \in Cells
    BY <1>1, <1>6
  <2>5. CASE k \in {M!Free, M!Tombstone}
    <3>1. new[b + 1] = u
      BY <2>1, <2>5
    <3>2. Before(b + 1) = Before(b)
      BY <2>2, <2>5
    <3>3. Follows(b + 1)
      <4> HIDE DEF Goal
      <4> QED BY <2>3, <2>3a, <2>5, <3>1, KeysAreKeys
    <3> HIDE DEF Before, Follows
    <3> QED
      BY <2>3, <3>1, <3>2, <3>3
  <2>6. CASE k \notin {M!Free, M!Tombstone}
    <3>1. k \in Keys /\ new[b + 1] = Put(u, M!Reached(u, size, k), k)
      BY <2>1, <2>4, <2>6 DEF Cells
    <3>2. k \notin Contents(u)
      <4>1. \A c \in 0 .. b - 1 : t[c] # k
        <5> SUFFICES ASSUME NEW c \in 0 .. b - 1, t[c] = k PROVE FALSE
          OBVIOUS
        <5>1. c \in 0 .. n - 1 /\ c # b
          BY <1>6
        <5> QED
          BY <2>4, <3>1, <5>1 DEF Table, Unrepeated
      <4> QED
        BY <2>3, <4>1
    <3>3. HasFree(u)
      <4>1. Contents(u) \in SUBSET Contents(t)
        <5>1. \A c \in 0 .. b - 1 : c \in 0 .. n - 1
          BY <1>6
        <5> QED
          BY <1>1, <2>3, <5>1 DEF Contents
      <4>2. IsFiniteSet(Contents(t)) /\ Cardinality(Contents(t)) \in Nat
        BY Counts DEF Table
      <4>3. Cardinality(Contents(u)) <= Cardinality(Contents(t))
        BY <4>1, <4>2, FS_Subset
      <4>4. Cardinality(Graves(u)) = 0
        BY <2>3, FS_EmptySet
      <4>5. /\ Cardinality(Contents(u)) \in Nat
            /\ Cardinality(Contents(u)) + Cardinality(Graves(u)) < size => HasFree(u)
        <5> HIDE DEF u
        <5> QED BY <1>2, <2>3, Counts DEF Table
      <4> QED
        BY <1>2, <4>2, <4>3, <4>4, <4>5
    <3> DEFINE last == M!Least(M!Ends(u, size, k))
               c == M!Probe(k, size, last)
    <3>4. /\ last \in M!Steps(size) /\ c \in 0 .. size - 1
          /\ Passes(u, size, k, last) /\ u[c] = M!Free
      <4> HIDE DEF u, k
      <4> QED BY <2>3, <3>1, <3>2, <3>3, ProbeEnds
    <3>5. M!Reached(u, size, k) = c
      BY DEF M!Reached
    <3>6. Leads(u, size, k, last, c)
      BY <3>4 DEF Leads
    <3>7. /\ Table(Put(u, c, k), size)
          /\ Contents(Put(u, c, k)) = Contents(u) \union {k}
          /\ Graves(Put(u, c, k)) = Graves(u) \ {c}
      <4> HIDE DEF u, k, last, c
      <4> QED BY <2>3, <3>1, <3>2, <3>4, <3>6, PutKeepsTable
    <3>8. Before(b + 1) = Before(b) \union {k}
      BY <2>2, <2>6
    <3>9. Goal(b) = c /\ new[b + 1] = Put(u, c, k)
      BY <3>1, <3>5
    <3>10. Follows(b + 1)
      <4> SUFFICES ASSUME NEW d \in 0 .. (b + 1) - 1, t[d] \in Keys
                   PROVE  Goal(d) \in 0 .. size - 1 /\ new[b + 1][Goal(d)] = t[d]
        OBVIOUS
      <4>1. DOMAIN u = 0 .. size - 1
        BY <2>3 DEF Table
      <4>2. CASE d = b
        <5> HIDE DEF Goal, c
        <5> QED BY <3>4, <3>9, <4>1, <4>2 DEF Put
      <4>3. CASE d \in 0 .. b - 1
        <5>1. Goal(d) \in 0 .. size - 1 /\ u[Goal(d)] = t[d]
          BY <2>3, <4>3
        <5>2. Goal(d) # c
          BY <3>4, <5>1, KeysAreKeys
        <5> HIDE DEF Goal, c
        <5> QED BY <3>9, <4>1, <5>1, <5>2 DEF Put
      <4> QED
        BY <2>3a, <4>2, <4>3
    <3> HIDE DEF Before, Follows
    <3> QED
      BY <2>3, <3>1, <3>5, <3>7, <3>8, <3>10
  <2> QED
    BY <2>5, <2>6
<1>7. n \in T
  <2>1. 0 \in T
    BY <1>5
  <2>2. \A b \in Nat : b \in T => b + 1 \in T
    <3> HIDE DEF Good
    <3> QED
      BY <1>6
  <2> HIDE DEF T
  <2> QED
    BY <2>1, <2>2, NatSetInduction
<1>8. Good(n)
  BY <1>7
<1>9. Before(n) = Contents(t)
  BY <1>1 DEF Contents
<1> QED
  BY <1>4, <1>8, <1>9 DEF Good, Follows, Goal

(* r is a table that holds what t does, with an unused bucket, its count   *)
(* of tombstones, and the bucket of the key that was in bucket b of t.     *)
Holds(r, t, held, b) ==
  /\ Contents(r.table) = Contents(t)
  /\ r.tombs = Cardinality(Graves(r.table))
  /\ \E m \in Nat : Size(m) /\ Table(r.table, m) /\ held + r.tombs < m
  /\ r.table[r.bucket] = t[b] /\ r.bucket \in Nat

(* Rehashing a table that was just put a key into.                         *)
LEMMA Rehashed ==
  ASSUME NEW n, Size(n), NEW t, Table(t, n), NEW b \in 0 .. n - 1, t[b] \in Keys,
         NEW held, held = Cardinality(Contents(t)), NEW dead, dead = Cardinality(Graves(t))
  PROVE  Holds(M!RehashTable(t, held, dead, b), t, held, b)
<1> DEFINE size == M!NewSize(n, held, dead)
           r == M!RehashTable(t, held, dead, b)
           new == M!Moved(t, size)
<1>1. n \in Nat \ {0} /\ DOMAIN t = 0 .. n - 1
  BY DEF Size, Table
<1>2. held \in Nat /\ dead \in Nat /\ held <= n
  BY <1>1, Counts DEF Table
<1>3. r = IF size = 0 THEN [table |-> t, tombs |-> dead, bucket |-> b]
          ELSE [table |-> new[n], tombs |-> 0, bucket |-> M!Reached(new[b], size, t[b])]
  <2>1. M!Cardinality(DOMAIN t) = n
    BY <1>1, BucketsOf
  <2>2. r = LET m == M!Cardinality(DOMAIN t)
                s == M!NewSize(m, held, dead)
                u == M!Moved(t, s)
            IN IF s = 0 THEN [table |-> t, tombs |-> dead, bucket |-> b]
               ELSE [table |-> u[m], tombs |-> 0, bucket |-> M!Reached(u[b], s, t[b])]
    BY DEF M!RehashTable
  <2> QED
    BY <2>1, <2>2
<1> HIDE DEF r
<1>4. size = IF held * 4 > n * 3 THEN 2 * n
             ELSE IF n - (held + dead) <= n \div 8 THEN n ELSE 0
  BY DEF M!NewSize
<1> HIDE DEF size
<1>5. ASSUME size = 0 PROVE Holds(r, t, held, b)
  <2>1. n \div 8 \in Nat
    BY <1>1
  <2>2. ~ (n - (held + dead) <= n \div 8)
    BY <1>1, <1>2, <1>4, <1>5
  <2>3. held + dead < n
    BY <1>1, <1>2, <2>1, <2>2
  <2>4. r.table = t /\ r.tombs = dead /\ r.bucket = b
    BY <1>3, <1>5
  <2> QED
    BY <1>1, <2>3, <2>4 DEF Holds
<1>6. ASSUME size # 0 PROVE Holds(r, t, held, b)
  <2>1. Size(size) /\ held < size /\ size \in Nat
    <3>1. CASE held * 4 > n * 3
      <4>1. Size(2 * n)
        BY <1>1, DoubleCancels DEF Size
      <4> QED
        BY <1>1, <1>2, <1>4, <3>1, <4>1
    <3>2. CASE ~ (held * 4 > n * 3)
      BY <1>1, <1>2, <1>4, <1>6, <3>2
    <3> QED
      BY <3>1, <3>2
  <2> DEFINE last == new[n]
             c == M!Reached(new[b], size, t[b])
  <2>2. Table(last, size) /\ Contents(last) = Contents(t) /\ Graves(last) = {}
    BY <1>1, <2>1, MovedIsTable
  <2>3. c \in 0 .. size - 1 /\ last[c] = t[b]
    BY <1>1, <2>1, MovedIsTable
  <2>4. r.table = last /\ r.tombs = 0 /\ r.bucket = c
    BY <1>3, <1>6
  <2> HIDE DEF last, c
  <2>5. Cardinality(Graves(last)) = 0
    BY <2>2, FS_EmptySet
  <2>6. held + 0 < size /\ c \in Nat
    BY <1>2, <2>1, <2>3
  <2> QED
    BY <2>1, <2>2, <2>3, <2>4, <2>5, <2>6 DEF Holds
<1> QED
  BY <1>5, <1>6 DEF r

-----------------------------------------------------------------------------
\* The map.

(* The table is one, its counts are right, and if it has buckets at all,   *)
(* one was never used.                                                     *)
MapInv ==
  /\ items = Cardinality(Contents(table)) /\ tombs = Cardinality(Graves(table))
  /\ \E n \in Nat : /\ table \in [0 .. n - 1 -> Cells]
                    /\ n # 0 => Size(n) /\ Table(table, n) /\ items + tombs < n

LEMMA MapInit == M!Init => MapInv /\ Promise!Init
<1> SUFFICES ASSUME M!Init PROVE MapInv /\ Promise!Init
  OBVIOUS
<1>1. PICK n \in InitSizes : table = M!Unused(n)
  BY DEF M!Init
<1>2. n \in Nat /\ (n # 0 => Size(n))
  BY MapConstants, PowersCancel DEF Size
<1>3. /\ table \in [0 .. n - 1 -> Cells] /\ Table(table, n)
      /\ Contents(table) = {} /\ Graves(table) = {}
  BY <1>1, <1>2, UnusedTable
<1>4. items = 0 /\ tombs = 0 /\ Cardinality({}) = 0
  BY FS_EmptySet DEF M!Init
<1>5. M!Held = {}
  BY <1>3 DEF M!Held, Contents
<1> QED
  BY <1>2, <1>3, <1>4, <1>5 DEF MapInv, M!Init, Promise!Init

(* What a map with buckets says of a key.                                  *)
LEMMA KeyFound ==
  ASSUME MapInv, NEW k \in Keys
  PROVE  /\ M!Returns(k)
         /\ k \in M!Held => /\ M!FindKey(k) \in DOMAIN table /\ M!FindKey(k) # -1
                            /\ table[M!FindKey(k)] = k
         /\ k \notin M!Held => M!FindKey(k) = -1
<1>1. PICK n \in Nat : /\ table \in [0 .. n - 1 -> Cells]
                       /\ n # 0 => Size(n) /\ Table(table, n) /\ items + tombs < n
  BY DEF MapInv
<1>2. M!NumBuckets = n /\ M!Held = Contents(table)
  BY <1>1, BucketsOf DEF M!NumBuckets, M!Held, Contents
<1>3. CASE n = 0
  <2>1. Contents(table) = {}
    BY <1>1, <1>3 DEF Contents
  <2> QED
    BY <1>2, <1>3, <2>1 DEF M!Returns, M!FindKey
<1>4. CASE n # 0
  <2>1. HasFree(table)
    BY <1>1, <1>4, Counts DEF MapInv, Table
  <2> DEFINE b == M!Probe(k, n, M!Least(M!Ends(table, n, k)))
  <2>2. /\ b \in 0 .. n - 1
        /\ k \in Contents(table) => table[b] = k
        /\ k \notin Contents(table) => table[b] = M!Free
    BY <1>1, <1>4, <2>1, ProbeEnds
  <2>3. M!FindKey(k) = IF table[b] = k THEN b ELSE -1
    BY <1>2, <1>4 DEF M!FindKey, M!Reached
  <2>4. M!Returns(k)
    BY <1>1, <1>2, <1>4, <2>1, SomeEnd DEF M!Returns
  <2> HIDE DEF b
  <2> QED
    BY <1>1, <1>2, <2>2, <2>3, <2>4, KeysAreKeys
<1> QED
  BY <1>3, <1>4

LEMMA FindKeeps ==
  ASSUME MapInv, NEW k \in Keys, M!Find(k)
  PROVE  MapInv' /\ Promise!Find(k)
<1>1. /\ UNCHANGED <<table, items, tombs>>
      /\ answer' = [call |-> "find", key |-> k, found |-> M!FindKey(k) # -1,
                    entry |-> IF M!FindKey(k) = -1 THEN None ELSE table[M!FindKey(k)]]
  BY DEF M!Find, M!Answers, M!EntryAt
<1>2. MapInv' /\ M!Held' = M!Held
  BY <1>1 DEF MapInv, M!Held
<1>3. answer' = [call |-> "find", key |-> k, found |-> k \in M!Held,
                 entry |-> IF k \in M!Held THEN k ELSE None]
  <2>1. CASE k \in M!Held
    BY <1>1, <2>1, KeyFound
  <2>2. CASE k \notin M!Held
    BY <1>1, <2>2, KeyFound
  <2> QED
    BY <2>1, <2>2
<1> QED
  BY <1>2, <1>3 DEF Promise!Find, Promise!Says

LEMMA InsertKeeps ==
  ASSUME MapInv, NEW k \in Keys, M!Insert(k)
  PROVE  MapInv' /\ Promise!Insert(k)
<1> DEFINE t == M!Allocated
           b == M!LookupBucketFor(t, M!Cardinality(DOMAIN t), k)
<1>1. IF t[b] \in {M!Free, M!Tombstone} THEN M!InsertAt(k, t, b)
      ELSE M!Answers("insert", k, TRUE, t[b]) /\ UNCHANGED <<table, items, tombs>>
  BY DEF M!Insert
<1>2. PICK n \in Nat : /\ table \in [0 .. n - 1 -> Cells]
                       /\ n # 0 => Size(n) /\ Table(table, n) /\ items + tombs < n
  BY DEF MapInv
<1>3. PICK m \in Nat : /\ Size(m) /\ Table(t, m)
                       /\ Contents(t) = Contents(table) /\ Graves(t) = Graves(table)
                       /\ items + tombs < m /\ (n # 0 => t = table)
  <2>1. M!NumBuckets = n
    BY <1>2, BucketsOf DEF M!NumBuckets
  <2>2. CASE n = 0
    <3>1. t = M!Unused(16)
      BY <2>1, <2>2 DEF M!Allocated
    <3>2. Size(16)
      <4>1. Cancels(2 * 1)
        BY OneCancels, DoubleCancels
      <4>2. Cancels(2 * 2)
        BY <4>1, DoubleCancels
      <4>3. Cancels(2 * 4)
        BY <4>2, DoubleCancels
      <4>4. Cancels(2 * 8)
        BY <4>3, DoubleCancels
      <4> QED
        BY <4>4 DEF Size
    <3>3. Contents(table) = {} /\ Graves(table) = {}
      BY <1>2, <2>2 DEF Contents, Graves
    <3>4. items = 0 /\ tombs = 0
      BY <3>3, FS_EmptySet DEF MapInv
    <3>5. Table(t, 16) /\ Contents(t) = {} /\ Graves(t) = {}
      BY <3>1, UnusedTable
    <3> HIDE DEF t
    <3> QED
      BY <2>2, <3>2, <3>3, <3>4, <3>5
  <2>3. CASE n # 0
    <3>1. t = table
      BY <2>1, <2>3 DEF M!Allocated
    <3> QED
      BY <1>2, <2>3, <3>1
  <2> QED
    BY <2>2, <2>3
<1>4. M!Held = Contents(table)
  BY DEF M!Held, Contents
<1>5. /\ items = Cardinality(Contents(t)) /\ tombs = Cardinality(Graves(t))
      /\ items \in Nat /\ tombs \in Nat /\ IsFiniteSet(Contents(t)) /\ IsFiniteSet(Graves(t))
      /\ HasFree(t)
  <2> HIDE DEF t
  <2> QED BY <1>3, Counts DEF MapInv, Table
<1>6. M!Cardinality(DOMAIN t) = m
  <2> HIDE DEF t
  <2> QED BY <1>3, BucketsOf DEF Table
<1>7. /\ b \in 0 .. m - 1
      /\ k \in Contents(t) => t[b] = k
      /\ k \notin Contents(t) =>
           /\ t[b] \in {M!Free, M!Tombstone}
           /\ \E i \in M!Steps(m) : Leads(t, m, k, i, b)
  <2> HIDE DEF t
  <2> QED BY <1>3, <1>5, <1>6, BucketFor
<1> HIDE DEF t, b
<1>8. CASE k \in Contents(t)
  <2>1. M!Answers("insert", k, TRUE, k) /\ UNCHANGED <<table, items, tombs>>
    BY <1>1, <1>7, <1>8, KeysAreKeys
  <2>2. MapInv' /\ M!Held' = M!Held
    BY <2>1 DEF MapInv, M!Held
  <2>3. k \in M!Held
    BY <1>3, <1>4, <1>8
  <2> QED
    BY <2>1, <2>2, <2>3 DEF M!Answers, Promise!Insert, Promise!Says
<1>9. CASE k \notin Contents(t)
  <2> DEFINE u == Put(t, b, k)
             dead == IF t[b] = M!Tombstone THEN tombs - 1 ELSE tombs
             r == M!RehashTable(u, items + 1, dead, b)
  <2>1. /\ items' = items + 1 /\ table' = r.table /\ tombs' = r.tombs
        /\ answer' = [call |-> "insert", key |-> k, found |-> FALSE,
                      entry |-> IF r.bucket = -1 THEN None ELSE r.table[r.bucket]]
    BY <1>1, <1>7, <1>9 DEF M!InsertAt, M!Answers, M!EntryAt, Put
  <2>2. PICK i \in M!Steps(m) : Leads(t, m, k, i, b)
    BY <1>7, <1>9
  <2>3. /\ Table(u, m) /\ Contents(u) = Contents(t) \union {k} /\ Graves(u) = Graves(t) \ {b}
    BY <1>3, <1>7, <1>9, <2>2, PutKeepsTable
  <2>4. items + 1 = Cardinality(Contents(u))
    <3> HIDE DEF u
    <3> QED BY <1>5, <1>9, <2>3, FS_AddElement
  <2>5. dead = Cardinality(Graves(u))
    <3>1. DOMAIN t = 0 .. m - 1
      BY <1>3 DEF Table
    <3>2. CASE t[b] = M!Tombstone
      <4>1. b \in Graves(t)
        BY <1>7, <3>1, <3>2 DEF Graves
      <4>2. Cardinality(Graves(t) \ {b}) = Cardinality(Graves(t)) - 1
        BY <1>5, <4>1, FS_RemoveElement
      <4> HIDE DEF u
      <4> QED
        BY <1>5, <2>3, <3>2, <4>2
    <3>3. CASE t[b] # M!Tombstone
      <4>1. Graves(t) \ {b} = Graves(t)
        BY <3>3 DEF Graves
      <4> HIDE DEF u
      <4> QED
        BY <1>5, <2>3, <3>3, <4>1
    <3> QED
      BY <3>2, <3>3
  <2>6. u[b] = k
    BY <1>3, <1>7 DEF Table, Put
  <2>7. /\ Contents(r.table) = Contents(u)
        /\ r.tombs = Cardinality(Graves(r.table))
        /\ \E s \in Nat : Size(s) /\ Table(r.table, s) /\ (items + 1) + r.tombs < s
        /\ r.table[r.bucket] = k /\ r.bucket \in Nat
    <3> HIDE DEF u, dead
    <3>1. b \in 0 .. m - 1 /\ u[b] \in Keys
      BY <1>7, <2>6
    <3>2. Holds(M!RehashTable(u, items + 1, dead, b), u, items + 1, b)
      BY <1>3, <2>3, <2>4, <2>5, <3>1, Rehashed
    <3> QED BY <2>6, <3>2 DEF Holds
  <2> HIDE DEF u, dead
  <2>8. MapInv'
    <3>1. PICK s \in Nat : Size(s) /\ Table(r.table, s) /\ (items + 1) + r.tombs < s
      BY <2>7
    <3> HIDE DEF r
    <3>2. items' = Cardinality(Contents(table')) /\ tombs' = Cardinality(Graves(table'))
      BY <2>1, <2>3, <2>4, <2>7
    <3>3. table' \in [0 .. s - 1 -> Cells] /\ Size(s) /\ Table(table', s) /\ items' + tombs' < s
      BY <2>1, <3>1 DEF Table
    <3> QED
      BY <3>2, <3>3 DEF MapInv
  <2>9. M!Held' = M!Held \union {k}
    <3>1. M!Held' = Contents(table')
      BY DEF M!Held, Contents
    <3> HIDE DEF r
    <3> QED
      BY <1>3, <1>4, <2>1, <2>3, <2>7, <3>1
  <2>10. r.bucket # -1
    <3> HIDE DEF r
    <3> QED BY <2>7
  <2>11. k \notin M!Held
    BY <1>3, <1>4, <1>9
  <2> HIDE DEF r
  <2>12. answer' = [call |-> "insert", key |-> k, found |-> k \in M!Held, entry |-> k]
    <3>1. answer' = [call |-> "insert", key |-> k, found |-> FALSE, entry |-> k]
      BY <2>1, <2>7, <2>10
    <3>2. (k \in M!Held) = FALSE
      BY <2>11
    <3> QED
      BY <3>1, <3>2
  <2> QED
    BY <2>8, <2>9, <2>12 DEF Promise!Insert, Promise!Says
<1> QED
  BY <1>8, <1>9

LEMMA EraseKeeps ==
  ASSUME MapInv, NEW k \in Keys, M!Erase(k)
  PROVE  MapInv' /\ Promise!Erase(k)
<1> DEFINE b == M!FindKey(k)
<1>1. /\ IF b = -1 THEN UNCHANGED <<table, items, tombs>> ELSE M!RemoveKey(b)
      /\ answer' = [call |-> "erase", key |-> k, found |-> b # -1, entry |-> None]
  BY DEF M!Erase, M!Answers
<1>2. /\ k \in M!Held => b \in DOMAIN table /\ b # -1 /\ table[b] = k
      /\ k \notin M!Held => b = -1
  BY KeyFound
<1> HIDE DEF b
<1>3. CASE k \notin M!Held
  <2>1. UNCHANGED <<table, items, tombs>> /\ b = -1
    BY <1>1, <1>2, <1>3
  <2>2. MapInv' /\ M!Held' = M!Held \ {k}
    BY <1>3, <2>1 DEF MapInv, M!Held
  <2> QED
    BY <1>1, <1>3, <2>1, <2>2 DEF Promise!Erase, Promise!Says
<1>4. CASE k \in M!Held
  <2>1. b \in DOMAIN table /\ b # -1 /\ table[b] = k
    BY <1>2, <1>4
  <2>2. table' = Put(table, b, M!Tombstone) /\ items' = items - 1 /\ tombs' = tombs + 1
    BY <1>1, <2>1 DEF M!RemoveKey, Put
  <2>3. PICK n \in Nat : /\ table \in [0 .. n - 1 -> Cells]
                         /\ n # 0 => Size(n) /\ Table(table, n) /\ items + tombs < n
    BY DEF MapInv
  <2>4. b \in 0 .. n - 1 /\ n # 0
    BY <2>1, <2>3
  <2>5. /\ Table(table', n)
        /\ Contents(table') = Contents(table) \ {k}
        /\ Graves(table') = Graves(table) \union {b}
    BY <2>1, <2>2, <2>3, <2>4, BuryKeepsTable
  <2>6. /\ IsFiniteSet(Contents(table)) /\ items \in Nat
        /\ IsFiniteSet(Graves(table)) /\ tombs \in Nat
        /\ items = Cardinality(Contents(table)) /\ tombs = Cardinality(Graves(table))
    BY <2>3, <2>4, Counts DEF MapInv, Table
  <2>7. items' = Cardinality(Contents(table'))
    <3>1. k \in Contents(table)
      BY <2>1, KeysAreKeys DEF Contents
    <3> QED
      BY <2>2, <2>5, <2>6, <3>1, FS_RemoveElement
  <2>8. tombs' = Cardinality(Graves(table'))
    <3>1. b \notin Graves(table)
      BY <2>1, KeysAreKeys DEF Graves
    <3> QED
      BY <2>2, <2>5, <2>6, <3>1, FS_AddElement
  <2>9. items' + tombs' < n
    BY <2>2, <2>3, <2>4, <2>6
  <2>10. MapInv'
    <3>1. table' \in [0 .. n - 1 -> Cells]
      BY <2>5 DEF Table
    <3> QED
      BY <2>3, <2>4, <2>5, <2>7, <2>8, <2>9, <3>1 DEF MapInv
  <2>11. M!Held' = M!Held \ {k}
    <3>1. M!Held' = Contents(table') /\ M!Held = Contents(table)
      BY DEF M!Held, Contents
    <3> QED
      BY <2>5, <3>1
  <2> QED
    BY <1>1, <1>4, <2>1, <2>10, <2>11 DEF Promise!Erase, Promise!Says
<1> QED
  BY <1>3, <1>4

LEMMA ClearKeeps ==
  ASSUME MapInv, M!Clear
  PROVE  MapInv' /\ Promise!Clear
<1>1. PICK n \in Nat : /\ table \in [0 .. n - 1 -> Cells]
                       /\ n # 0 => Size(n) /\ Table(table, n) /\ items + tombs < n
  BY DEF MapInv
<1>2. answer' = [call |-> "clear", key |-> None, found |-> None \in M!Held, entry |-> None]
  <2>1. None \notin M!Held
    <3>1. M!Held \subseteq Keys
      BY <1>1 DEF M!Held, Cells
    <3> QED
      BY <3>1, MapConstants
  <2>2. answer' = [call |-> "clear", key |-> None, found |-> FALSE, entry |-> None]
    BY DEF M!Clear, M!Answers
  <2>3. (None \in M!Held) = FALSE
    BY <2>1
  <2> HIDE DEF M!Held
  <2> QED
    BY <2>2, <2>3
<1>3. CASE items = 0
  <2>1. UNCHANGED <<table, items, tombs>>
    BY <1>3 DEF M!Clear
  <2>2. MapInv' /\ M!Held' = M!Held
    BY <2>1 DEF MapInv, M!Held
  <2>3. Contents(table) = {}
    <3>1. CASE n = 0
      BY <1>1, <3>1 DEF Contents
    <3>2. CASE n # 0
      <4>1. IsFiniteSet(Contents(table)) /\ Cardinality(Contents(table)) = 0
        BY <1>1, <1>3, <3>2, Counts DEF MapInv, Table
      <4> QED
        BY <4>1, FS_EmptySet
    <3> QED
      BY <3>1, <3>2
  <2>4. M!Held' = {}
    BY <2>2, <2>3 DEF M!Held, Contents
  <2> QED
    BY <1>2, <2>2, <2>4 DEF Promise!Clear, Promise!Says
<1>4. CASE items # 0
  <2>1. M!NumBuckets = n
    BY <1>1, BucketsOf DEF M!NumBuckets
  <2>2. table' = M!Unused(n) /\ items' = 0 /\ tombs' = 0
    BY <1>4, <2>1 DEF M!Clear
  <2>3. /\ Table(table', n) /\ table' \in [0 .. n - 1 -> Cells]
        /\ Contents(table') = {} /\ Graves(table') = {}
    BY <2>2, UnusedTable
  <2>4. Cardinality({}) = 0
    BY FS_EmptySet
  <2>5. n # 0 => items' + tombs' < n
    BY <2>2
  <2>6. MapInv'
    BY <1>1, <2>2, <2>3, <2>4, <2>5 DEF MapInv
  <2>7. M!Held' = {}
    <3>1. M!Held' = Contents(table')
      BY DEF M!Held, Contents
    <3> QED
      BY <2>3, <3>1
  <2> QED
    BY <1>2, <2>6, <2>7 DEF Promise!Clear, Promise!Says
<1> QED
  BY <1>3, <1>4

LEMMA MapStep == MapInv /\ [M!Next]_M!vars => MapInv' /\ [Promise!Next]_<<M!Held, answer>>
<1> SUFFICES ASSUME MapInv, [M!Next]_M!vars PROVE MapInv' /\ [Promise!Next]_<<M!Held, answer>>
  OBVIOUS
<1>1. CASE M!Clear
  BY <1>1, ClearKeeps DEF Promise!Next
<1>2. ASSUME NEW k \in Keys, M!Find(k) PROVE MapInv' /\ Promise!Next
  BY <1>2, FindKeeps DEF Promise!Next
<1>3. ASSUME NEW k \in Keys, M!Insert(k) PROVE MapInv' /\ Promise!Next
  BY <1>3, InsertKeeps DEF Promise!Next
<1>4. ASSUME NEW k \in Keys, M!Erase(k) PROVE MapInv' /\ Promise!Next
  BY <1>4, EraseKeeps DEF Promise!Next
<1>5. CASE UNCHANGED M!vars
  BY <1>5 DEF M!vars, MapInv, M!Held
<1> QED
  BY <1>1, <1>2, <1>3, <1>4, <1>5 DEF M!Next

LEMMA MapBegins == MCInit => MapInv /\ Promise!Init
BY MapInit DEF MCInit

LEMMA MapGoesOn ==
  MapInv /\ [MCNext]_<<job, vars, condVars, mapVars>>
    => MapInv' /\ [Promise!Next]_<<M!Held, answer>>
<1> SUFFICES ASSUME MapInv, [MCNext]_<<job, vars, condVars, mapVars>>
             PROVE  MapInv' /\ [Promise!Next]_<<M!Held, answer>>
  OBVIOUS
<1>1. [M!Next]_M!vars
  BY DEF MCNext, mapVars, M!vars
<1> QED
  BY <1>1, MapStep

(* Whatever is done with a map, however its keys hash and however many     *)
(* buckets it was made with, a probe for any key meets a bucket that ends  *)
(* it (StringMap.cpp:70, 127).                                             *)
THEOREM EveryProbeEnds == MCSpec => []ProbesEnd
<1>1. MapInv => ProbesEnd
  BY KeyFound DEF ProbesEnd, M!ProbesEnd
<1> QED
  BY <1>1, MapBegins, MapGoesOn, PTL DEF MCSpec

(* Every call of a map answers what the set of keys would: a key is found  *)
(* exactly when it was inserted and not erased since, through every order  *)
(* of insertions, erasures and rehashes (StringMap.cpp:56-153, 177-245).   *)
THEOREM MapIsAKeySet == MCSpec => IsAKeySet
BY MapBegins, MapGoesOn, PTL DEF MCSpec, IsAKeySet, Promise!Spec
=============================================================================
