--------------------------- MODULE MCGuess_proofs ---------------------------
(***************************************************************************)
(* Proofs about the guessing game and about bisecting it, for every range, *)
(* number of chances and set of words: the claim of                        *)
(* Misc/checkin/README.md:11 with its off-by-one repaired.                 *)
(***************************************************************************)
EXTENDS MCGuess, SequenceTheorems, TLAPS

USE DEF Words, Replies

(* A verdict is one of the four replies.                                   *)
LEMMA VerdictTyped ==
  ASSUME TypeOK, NEW w \in Words
  PROVE  Verdict(w) \in Replies
BY GuessesAreInt DEF Verdict, TypeOK

(* Numbers below Max are integers.                                          *)
LEMMA WordsOfRange == 0 .. Max - 1 \subseteq Int
BY SizesAreNat

(* Every variable of the game keeps its type, whatever the player types.   *)
LEMMA TypeStep ==
  ASSUME TypeOK, [Next]_vars
  PROVE  TypeOK'
<1> USE SizesAreNat, GuessesAreInt
<1>1. ASSUME Try PROVE TypeOK'
  <2> DEFINE w == typed[taken + 1]
  <2>1. w \in Words
    BY <1>1 DEF TypeOK, Try
  <2>2. Verdict(w) \in Replies
    BY <2>1, VerdictTyped
  <2>3. replies' \in Seq(Replies)
    BY <1>1, <2>2, AppendProperties DEF Try, Keeping, Answer, TypeOK
  <2>4. chances' \in 0 .. Chances /\ result' \in {"playing", "won", "lost"}
    BY <1>1 DEF Try, Keeping, Answer, TypeOK
  <2>5. taken' \in 0 .. Len(typed')
    BY <1>1, LenProperties DEF Try, Keeping, TypeOK
  <2> QED
    BY <1>1, <2>3, <2>4, <2>5 DEF Try, Keeping, TypeOK
<1>2. ASSUME UseUp PROVE TypeOK'
  BY <1>2 DEF UseUp, TypeOK
<1>3. ASSUME NEW word \in Words, Type(word) PROVE TypeOK'
  <2>1. typed' \in Seq(Words) /\ Len(typed') = Len(typed) + 1
    BY <1>3, AppendProperties DEF Type, TypeOK
  <2>2. taken' \in 0 .. Len(typed')
    BY <1>3, <2>1, LenProperties DEF Type, TypeOK, gameVars
  <2> QED
    BY <1>3, <2>1, <2>2 DEF Type, TypeOK, gameVars
<1>4. CASE UNCHANGED vars
  BY <1>4 DEF vars, TypeOK
<1> QED
  BY <1>1, <1>2, <1>3, <1>4 DEF Next, Game

(* The types hold initially.                                                *)
LEMMA TypeInit == Init => TypeOK
BY SizesAreNat DEF Init, TypeOK

(* checkin.c:18-20: the number stays in the range, the chances between zero *)
(* and what was given.                                                     *)
THEOREM GameTypeCorrect == Spec => []TypeOK
<1>1. Init => TypeOK
  BY TypeInit
<1>2. TypeOK /\ [Next]_vars => TypeOK'
  BY TypeStep
<1> QED
  BY <1>1, <1>2, PTL DEF Spec

-----------------------------------------------------------------------------
(* What a step of the game does to the replies: it adds the verdict on the *)
(* next word, and only a word that is no number stays on the input.        *)
LEMMA TryAppends ==
  ASSUME TypeOK, Try
  PROVE  /\ Len(replies') = Len(replies) + 1
         /\ \A i \in 1 .. Len(replies) : replies'[i] = replies[i]
         /\ replies'[Len(replies) + 1] = Verdict(typed[taken + 1])
         /\ typed[taken + 1] \in Words
<1>1. typed[taken + 1] \in Words
  BY DEF TypeOK, Try
<1>2. Verdict(typed[taken + 1]) \in Replies
  BY <1>1, VerdictTyped
<1> QED
  BY <1>1, <1>2, AppendProperties DEF Try, Keeping, Answer, TypeOK

(* Typing a word appends it.                                                *)
LEMMA TypeAppends ==
  ASSUME TypeOK, NEW word \in Words, Type(word)
  PROVE  /\ Len(typed') = Len(typed) + 1
         /\ \A i \in 1 .. Len(typed) : typed'[i] = typed[i]
         /\ typed'[Len(typed) + 1] = word
BY AppendProperties DEF Type, TypeOK

(* Replies stay in the order of the words, through every step.             *)
LEMMA OrderStep ==
  ASSUME TypeOK, RepliesInOrder, [Next]_vars
  PROVE  RepliesInOrder'
<1> PICK n \in Nat : n = Len(replies)
  BY LenProperties DEF TypeOK
<1> PICK t \in Nat : t = Len(typed)
  BY LenProperties DEF TypeOK
<1>1. ASSUME Try PROVE RepliesInOrder'
  <2> DEFINE w == typed[taken + 1]
  <2>1. value' = value /\ typed' = typed /\ taken < t
    BY <1>1 DEF Try
  <2>2. CASE w = Junk
    <3>1. taken' = taken
      BY <1>1, <2>2 DEF Try, Keeping
    <3>2. Stuck'
      BY <2>1, <2>2, <3>1 DEF Stuck
    <3>3. ASSUME NEW i \in 1 .. n + 1 PROVE replies'[i] = Verdict(Subject(i))'
      <4>1. CASE i = n + 1
        BY <1>1, <2>1, <3>1, <4>1, TryAppends DEF RepliesInOrder, Subject, Verdict, TypeOK
      <4>2. CASE i \in 1 .. n
        BY <1>1, <2>1, <3>1, <4>2, TryAppends DEF RepliesInOrder, Subject, Verdict, TypeOK
      <4> QED BY <4>1, <4>2
    <3> QED
      BY <1>1, <2>1, <3>1, <3>2, <3>3, TryAppends DEF RepliesInOrder, TypeOK
  <2>3. CASE w # Junk
    <3>1. taken' = taken + 1 /\ taken = n
      BY <1>1, <2>3 DEF Try, Keeping, RepliesInOrder, Stuck, TypeOK
    <3>3. ASSUME NEW i \in 1 .. n + 1 PROVE replies'[i] = Verdict(Subject(i))'
      <4>1. CASE i = n + 1
        BY <1>1, <2>1, <3>1, <4>1, TryAppends DEF RepliesInOrder, Subject, Verdict, TypeOK
      <4>2. CASE i \in 1 .. n
        BY <1>1, <2>1, <3>1, <4>2, TryAppends DEF RepliesInOrder, Subject, Verdict, TypeOK
      <4> QED BY <4>1, <4>2
    <3> QED
      BY <1>1, <2>1, <3>1, <3>3, TryAppends DEF RepliesInOrder, TypeOK
  <2> QED BY <2>2, <2>3
<1>2. ASSUME UseUp PROVE RepliesInOrder'
  BY <1>2 DEF UseUp, RepliesInOrder, Subject, Stuck, Verdict
<1>3. ASSUME NEW word \in Words, Type(word) PROVE RepliesInOrder'
  <2>1. value' = value /\ taken' = taken /\ replies' = replies
    BY <1>3 DEF Type, gameVars
  <2>2. Stuck => Stuck'
    BY <1>3, <2>1, TypeAppends DEF Stuck, TypeOK
  <2>3. ASSUME NEW i \in 1 .. n PROVE Subject(i)' = Subject(i)
    <3>1. i <= taken \/ taken < t
      BY DEF RepliesInOrder, Stuck, TypeOK
    <3> QED
      BY <1>3, <2>1, <3>1, TypeAppends DEF Subject, TypeOK
  <2> QED
    BY <2>1, <2>2, <2>3 DEF RepliesInOrder, Verdict
<1>4. CASE UNCHANGED vars
  BY <1>4 DEF vars, RepliesInOrder, Subject, Stuck, Verdict
<1> QED
  BY <1>1, <1>2, <1>3, <1>4 DEF Next, Game

(* checkin.c:25: no reply is about another word than the one whose turn it *)
(* is, however far ahead the player types.                                 *)
THEOREM Ordered == Spec => []RepliesInOrder
<1>1. Init => RepliesInOrder
  BY DEF Init, RepliesInOrder
<1>2. TypeOK /\ RepliesInOrder /\ [Next]_vars => RepliesInOrder'
  BY OrderStep
<1> QED
  BY <1>1, <1>2, GameTypeCorrect, PTL DEF Spec

-----------------------------------------------------------------------------
(* Every step keeps the result deserved.                                    *)
LEMMA DeservedStep ==
  ASSUME TypeOK, ResultIsDeserved, [Next]_vars
  PROVE  ResultIsDeserved'
<1> USE SizesAreNat, GuessesAreInt
<1> PICK n \in Nat : n = Len(replies)
  BY LenProperties DEF TypeOK
<1>1. ASSUME Try PROVE ResultIsDeserved'
  <2> DEFINE w == typed[taken + 1]
  <2>1. value' = value /\ typed' = typed /\ value # Junk
    BY <1>1 DEF Try, Keeping, TypeOK
  <2>2. \A i \in 1 .. taken : typed[i] # value
    BY <1>1 DEF Try, Keeping, ResultIsDeserved, TypeOK
  <2>0. Len(replies') = n + 1 /\ result = "playing" /\ taken \in Nat
          /\ chances + n = Chances /\ chances \in Nat
    BY <1>1, TryAppends DEF Try, Keeping, ResultIsDeserved, TypeOK
  <2>3. CASE w = Junk
    <3>1. taken' = taken /\ chances' = chances - 1 /\ result' = "playing"
      BY <1>1, <2>1, <2>3 DEF Try, Keeping, Answer
    <3> QED
      BY <2>0, <2>1, <2>2, <3>1 DEF ResultIsDeserved
  <2>4. CASE w # Junk /\ w = value
    <3>1. taken' = taken + 1 /\ chances' = chances /\ result' = "won"
      BY <1>1, <2>1, <2>4 DEF Try, Keeping, Answer
    <3> QED
      BY <2>0, <2>1, <2>2, <2>4, <3>1 DEF ResultIsDeserved
  <2>5. CASE w # Junk /\ w # value
    <3>1. taken' = taken + 1 /\ chances' = chances - 1 /\ result' = "playing"
      BY <1>1, <2>1, <2>5 DEF Try, Keeping, Answer
    <3> QED
      BY <2>0, <2>1, <2>2, <2>5, <3>1 DEF ResultIsDeserved
  <2> QED BY <2>3, <2>4, <2>5
<1>2. ASSUME UseUp PROVE ResultIsDeserved'
  BY <1>2 DEF UseUp, ResultIsDeserved, TypeOK
<1>3. ASSUME NEW word \in Words, Type(word) PROVE ResultIsDeserved'
  <2>1. gameVars' = gameVars /\ \A i \in 1 .. taken : typed'[i] = typed[i]
    BY <1>3, TypeAppends DEF Type, TypeOK
  <2> QED
    BY <2>1 DEF gameVars, ResultIsDeserved, TypeOK
<1>4. CASE UNCHANGED vars
  BY <1>4 DEF vars, ResultIsDeserved
<1> QED
  BY <1>1, <1>2, <1>3, <1>4 DEF Next, Game

(* checkin.c:27-31, 39-43: the game is won by the number and by nothing     *)
(* else, and lost only when every chance has been spent on something else. *)
THEOREM Deserved == Spec => []ResultIsDeserved
<1>1. Init => ResultIsDeserved
  BY SizesAreNat DEF Init, ResultIsDeserved
<1>2. TypeOK /\ ResultIsDeserved /\ [Next]_vars => ResultIsDeserved'
  BY DeservedStep
<1> QED
  BY <1>1, <1>2, GameTypeCorrect, PTL DEF Spec

-----------------------------------------------------------------------------
\* Bisecting.

(* What halving does to a range that n + 1 guesses can search.             *)
LEMMA HalfBelow ==
  ASSUME NEW n \in 0 .. Chances, n > 0, lo \in Int, hi \in Int, lo <= hi,
         Searchable(lo, hi, n), hi <= Max - 1, 0 <= lo
  PROVE  /\ Middle \in lo .. hi
         /\ Middle > lo => Searchable(lo, Middle - 1, n - 1)
         /\ Middle < hi => Searchable(Middle + 1, hi, n - 1)
<1> USE SizesAreNat, RoundUpIsBool
<1>1. Reach[n] = 2 * Reach[n - 1] + 1 /\ Reach[n] \in Nat /\ Reach[n - 1] \in Nat
  BY ReachDoubles
<1>2. CASE RoundUp
  <2>1. Middle = (lo + hi + 1) \div 2
    BY <1>2 DEF Middle
  <2>2. 2 * Middle <= lo + hi + 1 /\ lo + hi <= 2 * Middle /\ Middle \in Int
    BY <2>1
  <2> QED
    BY <1>1, <1>2, <2>2 DEF Searchable, Touches
<1>3. CASE ~ RoundUp
  <2>1. Middle = (lo + hi) \div 2
    BY <1>3 DEF Middle
  <2>2. 2 * Middle <= lo + hi /\ lo + hi <= 2 * Middle + 1 /\ Middle \in Int
    BY <2>1
  <2> QED
    BY <1>1, <1>3, <2>2 DEF Searchable, Touches
<1> QED
  BY <1>2, <1>3

-----------------------------------------------------------------------------
(* The player's moves are moves of the game's player, so what holds of the *)
(* game holds here.                                                        *)
LEMMA GuessAsks ==
  ASSUME BTypeOK, Narrows
  PROVE  Middle \in 0 .. Max - 1 /\ Middle \in Words
<1>1. lo \in 0 .. Max - 1 /\ hi \in 0 .. Max - 1 /\ lo <= hi
  BY SizesAreNat DEF BTypeOK, TypeOK, Narrows, InRange
<1>2. lo + hi \in Int /\ lo + hi + 1 \in Int
  BY <1>1
<1>3. CASE RoundUp
  BY <1>1, <1>2, <1>3, SizesAreNat, RangeCanBeTyped DEF Middle, Words
<1>4. CASE ~ RoundUp
  BY <1>1, <1>2, <1>4, SizesAreNat, RangeCanBeTyped DEF Middle, Words
<1> QED BY <1>3, <1>4

(* A step of the bisection is a step of the game, and keeps its types.      *)
LEMMA BisectionTypes ==
  ASSUME BTypeOK, [BNext]_bvars, Narrows
  PROVE  TypeOK' /\ [Next]_vars
<1>1. Guess => Type(Middle) /\ Middle \in Words
  BY GuessAsks DEF Guess
<1>2. [Next]_vars
  BY <1>1 DEF BNext, Next, Learn, bvars, player
<1> QED
  BY <1>2, TypeStep DEF BTypeOK

(* The whole range is searchable with all chances but for one number.       *)
LEMMA NarrowsInit ==
  ASSUME BInit, Max <= Reach[Chances] + 1
  PROVE  Narrows
<1> USE SizesAreNat
<1>1. Reach[Chances] \in Nat
  BY ReachDoubles
<1>2. Searchable(lo, hi, chances)
  BY <1>1 DEF BInit, Init, Searchable, Touches
<1>3. replies = <<>> /\ typed = <<>> /\ Len(replies) = 0 /\ Len(typed) = 0
  BY DEF BInit, Init
<1> QED
  BY <1>2, <1>3 DEF BInit, Init, Narrows, InRange

(* Where the player waits, the game has answered all or all but the guess  *)
(* on its way.                                                             *)
LEMMA TryNarrows ==
  ASSUME BTypeOK, Narrows, Try, UNCHANGED player
  PROVE  Narrows'
<1> USE SizesAreNat, GuessesAreInt
<1> PICK n \in Nat : n = read
  BY DEF BTypeOK
<1> DEFINE w == typed[read + 1]
<1>1. /\ Len(replies) = n /\ Len(typed) = n + 1 /\ taken = n
      /\ w = Middle /\ InRange /\ Searchable(lo, hi, chances) /\ chances \in 1 .. Chances
  BY LenProperties DEF Narrows, Try, BTypeOK, TypeOK
<1>2. /\ lo \in 0 .. Max - 1 /\ hi \in 0 .. Max - 1 /\ lo <= value /\ value <= hi /\ value \in Int
  BY <1>1 DEF InRange, BTypeOK, TypeOK
<1>3. /\ w \in lo .. hi /\ w # Junk
      /\ w > lo => Searchable(lo, w - 1, chances - 1)
      /\ w < hi => Searchable(w + 1, hi, chances - 1)
  BY <1>1, <1>2, HalfBelow
<1>4. /\ Len(replies') = n + 1 /\ replies'[n + 1] = Verdict(w)
      /\ value' = value /\ typed' = typed /\ taken' = n + 1
      /\ lo' = lo /\ hi' = hi /\ read' = n
  BY <1>1, <1>3, TryAppends DEF Try, Keeping, player, BTypeOK
<1>5. CASE w = value
  <2>1. result' = "won" /\ chances' = chances
    BY <1>1, <1>5 DEF Try, Answer
  <2> QED
    BY <1>1, <1>2, <1>4, <1>5, <2>1 DEF Narrows, InRange, Verdict, Middle
<1>6. CASE w # value
  <2>1. result' = "playing" /\ chances' = chances - 1
    BY <1>1, <1>6 DEF Try, Answer
  <2>2. Searchable(NewLo', NewHi', chances')
    <3>1. CASE w < value
      BY <1>2, <1>3, <1>4, <1>6, <2>1, <3>1 DEF NewLo, NewHi, Verdict
    <3>2. CASE w > value
      BY <1>2, <1>3, <1>4, <1>6, <2>1, <3>2 DEF NewLo, NewHi, Verdict
    <3> QED BY <1>2, <1>3, <1>6, <3>1, <3>2
  <2>3. Searchable(NewLo, NewHi, chances)'
    BY <2>2 DEF Searchable, Touches
  <2> QED
    BY <1>1, <1>2, <1>4, <1>6, <2>1, <2>3 DEF Narrows, InRange, Verdict, Middle
<1> QED
  BY <1>5, <1>6

(* A guess leaves the range searchable.                                     *)
LEMMA GuessNarrows ==
  ASSUME BTypeOK, Narrows, Guess
  PROVE  Narrows'
<1> PICK n \in Nat : n = read
  BY DEF BTypeOK
<1>0. Middle \in Words
  BY GuessAsks
<1>1. /\ Len(typed') = n + 1 /\ typed'[n + 1] = Middle /\ Len(replies) = n
      /\ gameVars' = gameVars /\ player' = player /\ result = "playing"
  BY <1>0, TypeAppends DEF Guess, Type, BTypeOK
<1> QED
  BY <1>1 DEF Narrows, InRange, gameVars, player, Middle, Searchable, Touches

(* A reply the player has yet to read is about the guess it sent, and      *)
(* leaves the number in the range it makes of it.                          *)
LEMMA RepliesAreTrue ==
  ASSUME BTypeOK, Narrows, read < Len(replies)
  PROVE  /\ NewLo <= value /\ value <= NewHi
         /\ NewLo \in 0 .. Max /\ NewHi \in -1 .. Max - 1
         /\ Len(replies) = read + 1 /\ Len(typed) = read + 1
         /\ result # "won" => Searchable(NewLo, NewHi, chances)
<1> USE SizesAreNat, GuessesAreInt
<1> PICK n \in Nat : n = read
  BY DEF BTypeOK
<1> DEFINE w == typed[n + 1]
<1>1. Len(replies) = n + 1 /\ Len(typed) = n + 1
  BY DEF Narrows, BTypeOK
<1>2. /\ replies[n + 1] = Verdict(w) /\ w = Middle /\ InRange
      /\ result # "won" => w # value /\ Searchable(NewLo, NewHi, chances)
      /\ result = "won" => w = value
  BY <1>1 DEF Narrows
<1>3. lo \in 0 .. Max /\ hi \in -1 .. Max - 1 /\ value \in Int /\ w \in 0 .. Max - 1 /\ w # Junk
  BY <1>2, GuessAsks DEF BTypeOK, TypeOK
<1>4. NewLo <= value /\ value <= NewHi
  BY <1>1, <1>2, <1>3 DEF NewLo, NewHi, Verdict, InRange
<1>5. NewLo \in 0 .. Max /\ NewHi \in -1 .. Max - 1
  BY <1>1, <1>2, <1>3 DEF NewLo, NewHi, Verdict, InRange
<1> QED
  BY <1>1, <1>2, <1>4, <1>5

(* A reply leaves a range that the chances left can search.                 *)
LEMMA LearnNarrows ==
  ASSUME BTypeOK, Narrows, Learn
  PROVE  Narrows'
<1> PICK n \in Nat : n = read
  BY DEF BTypeOK
<1>1. /\ NewLo <= value /\ value <= NewHi
      /\ Len(replies) = n + 1 /\ Len(typed) = n + 1
      /\ result # "won" => Searchable(NewLo, NewHi, chances)
  BY RepliesAreTrue DEF Learn
<1>2. read' = n + 1 /\ vars' = vars /\ lo' = NewLo /\ hi' = NewHi
  BY DEF Learn
<1>3. taken = n + 1 /\ (result = "lost" => chances = 0)
  BY <1>1 DEF Narrows
<1> QED
  BY <1>1, <1>2, <1>3 DEF Narrows, InRange, vars, Searchable, Touches

(* The inductive step.                                                     *)
LEMMA NarrowsStep ==
  ASSUME BTypeOK, Narrows, [BNext]_bvars
  PROVE  Narrows'
<1>1. ASSUME UseUp, UNCHANGED player PROVE Narrows'
  BY <1>1 DEF UseUp, player, Narrows, InRange, Middle, NewLo, NewHi, Verdict,
              Searchable, Touches, BTypeOK
<1>2. CASE UNCHANGED bvars
  BY <1>2 DEF bvars, vars, player, Narrows, InRange, Middle, NewLo, NewHi, Verdict,
              Searchable, Touches
<1> QED
  BY <1>1, <1>2, TryNarrows, GuessNarrows, LearnNarrows DEF BNext, Game

(* Every step keeps the range and what was learned of their types.          *)
LEMMA BTypeStep ==
  ASSUME BTypeOK, Narrows, [BNext]_bvars
  PROVE  BTypeOK'
<1>1. TypeOK' /\ [Next]_vars
  BY BisectionTypes
<1>2. ASSUME Try, UNCHANGED player PROVE BTypeOK'
  BY <1>1, <1>2, TryAppends, LenProperties DEF BTypeOK, player, TypeOK
<1>3. ASSUME UseUp, UNCHANGED player PROVE BTypeOK'
  BY <1>1, <1>3 DEF BTypeOK, player, UseUp
<1>4. ASSUME Guess PROVE BTypeOK'
  BY <1>1, <1>4 DEF BTypeOK, player, Guess, Type, gameVars
<1>5. ASSUME Learn PROVE BTypeOK'
  <2>1. /\ NewLo \in 0 .. Max /\ NewHi \in -1 .. Max - 1
        /\ Len(replies) = read + 1
    BY <1>5, RepliesAreTrue DEF Learn
  <2> QED
    BY <1>1, <1>5, <2>1 DEF BTypeOK, Learn, vars
<1>6. CASE UNCHANGED bvars
  BY <1>1, <1>6 DEF BTypeOK, bvars, vars, player
<1> QED
  BY <1>2, <1>3, <1>4, <1>5, <1>6 DEF BNext, Game

(* With no chance left only the one number remains.                         *)
LEMMA LostIsUnlucky == BTypeOK /\ Narrows => LosesOnlyToUnlucky
<1> SUFFICES ASSUME BTypeOK, Narrows, result = "lost" PROVE value = Unlucky
  BY DEF LosesOnlyToUnlucky
<1>1. chances = 0 /\ Reach[0] = 0 /\ value \in Int
  BY ReachDoubles DEF Narrows, BTypeOK, TypeOK
<1>2. CASE read = Len(replies)
  <2>1. Searchable(lo, hi, 0) /\ lo <= value /\ value <= hi /\ lo \in Int /\ hi \in Int
    BY <1>1, <1>2 DEF Narrows, InRange, BTypeOK
  <2> QED
    BY <1>1, <2>1 DEF Searchable, Touches, Unlucky
<1>3. CASE read < Len(replies)
  <2>1. Searchable(NewLo, NewHi, 0) /\ NewLo <= value /\ value <= NewHi
        /\ NewLo \in Int /\ NewHi \in Int
    BY <1>1, <1>3, RepliesAreTrue DEF BTypeOK
  <2>2. NewHi - NewLo + 1 > 0 /\ NewHi - NewLo >= 0
    BY <1>1, <2>1
  <2>3. Touches(NewLo, NewHi) /\ NewHi = NewLo /\ value = NewLo
    BY <1>1, <2>1, <2>2 DEF Searchable
  <2> QED
    BY <2>3 DEF Touches, Unlucky
<1> QED
  BY <1>2, <1>3, LenProperties DEF BTypeOK, TypeOK

(* A bisection starts with a range it can search but for one number.       *)
LEMMA BisectionStarts ==
  ASSUME BInit, Max <= Reach[Chances] + 1
  PROVE  BTypeOK /\ Narrows
<1>1. TypeOK /\ Len(replies) = 0
  BY TypeInit DEF BInit, Init
<1>2. lo \in 0 .. Max /\ hi \in -1 .. Max - 1 /\ read = 0
  BY SizesAreNat DEF BInit
<1> QED
  BY <1>1, <1>2, NarrowsInit DEF BTypeOK

(* With one number more than the chances distinguish - 1024 numbers and    *)
(* ten chances - the range the player keeps can always be searched, but    *)
(* for one number.                                                         *)
THEOREM Bisecting ==
  ASSUME Max <= Reach[Chances] + 1
  PROVE  BSpec => [](BTypeOK /\ Narrows)
<1>1. BInit => BTypeOK /\ Narrows
  BY BisectionStarts
<1>2. (BTypeOK /\ Narrows) /\ [BNext]_bvars => (BTypeOK /\ Narrows)'
  BY NarrowsStep, BTypeStep
<1> QED
  BY <1>1, <1>2, PTL DEF BSpec

(* checkin.c:18-20 against README.md:11: with one number more than the     *)
(* chances distinguish, a bisection fails for a single number.             *)
THEOREM LosesToOne ==
  ASSUME Max <= Reach[Chances] + 1
  PROVE  BSpec => []LosesOnlyToUnlucky
BY Bisecting, LostIsUnlucky, PTL

(* The same in the run that has both players: one who bisects loses to     *)
(* that number only.                                                       *)
THEOREM LosesToOneInGame ==
  ASSUME Max <= Reach[Chances] + 1
  PROVE  MCSpec => []BisectionLosesToOne
<1> DEFINE Inv == bisects => BTypeOK /\ Narrows
<1>1. MCInit => Inv
  BY BisectionStarts DEF MCInit
<1>2. Inv /\ [MCNext]_<<bisects, bvars>> => Inv'
  BY NarrowsStep, BTypeStep DEF MCNext
<1>3. Inv => BisectionLosesToOne
  BY LostIsUnlucky DEF BisectionLosesToOne
<1> QED
  BY <1>1, <1>2, <1>3, PTL DEF MCSpec

=============================================================================
