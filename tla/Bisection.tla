----------------------------- MODULE Bisection -----------------------------
(***************************************************************************)
(* The player the write-up of the guessing game recommends                 *)
(* (Misc/checkin/README.md:11): bisect the range, one guess per reply.     *)
(* Ten guesses distinguish 1023 numbers and the game draws one of 1024, so *)
(* what is true is stated here: bisection loses to one number at most, and *)
(* which one it is depends on how the middle is rounded.                   *)
(***************************************************************************)
EXTENDS GuessGame

CONSTANTS
  RoundUp,   \* how the player rounds the middle of a range
  Reach      \* Reach[n]: how many numbers n guesses distinguish

ASSUME RoundUpIsBool == RoundUp \in BOOLEAN
ASSUME RangeCanBeTyped == 0 .. Max - 1 \subseteq Guesses
ASSUME ReachDoubles ==
  /\ Reach \in [0 .. Chances -> Nat]
  /\ Reach[0] = 0
  /\ \A n \in 1 .. Chances : Reach[n] = 2 * Reach[n - 1] + 1

VARIABLES lo, hi,    \* the player's range
          read       \* how many replies the player has read

player == <<lo, hi, read>>
bvars == <<vars, player>>

BTypeOK == TypeOK /\ lo \in 0 .. Max /\ hi \in -1 .. Max - 1 /\ read \in 0 .. Len(replies)

BInit == Init /\ lo = 0 /\ hi = Max - 1 /\ read = 0

Middle == IF RoundUp THEN (lo + hi + 1) \div 2 ELSE (lo + hi) \div 2

(* The player types only when every guess so far has been answered.        *)
Guess ==
  /\ read = Len(replies) /\ Len(typed) = read
  /\ result = "playing"
  /\ Type(Middle)
  /\ UNCHANGED player

(* The reply to the last guess narrows the range.                          *)
NewLo == IF replies[read + 1] = "SMALL" THEN typed[read + 1] + 1
         ELSE IF replies[read + 1] = "Bingo" THEN typed[read + 1] ELSE lo
NewHi == IF replies[read + 1] = "LARGE" THEN typed[read + 1] - 1
         ELSE IF replies[read + 1] = "Bingo" THEN typed[read + 1] ELSE hi

Learn ==
  /\ read < Len(replies)
  /\ lo' = NewLo /\ hi' = NewHi
  /\ read' = read + 1
  /\ UNCHANGED vars

BNext == (Game /\ UNCHANGED player) \/ Guess \/ Learn

BSpec == BInit /\ [][BNext]_bvars /\ WF_bvars(BNext)

-----------------------------------------------------------------------------
(* What the replies told the player is true: the number stays in the range. *)
InRange == lo <= value /\ value <= hi

(* The one number a bisection may miss.                                    *)
Unlucky == IF RoundUp THEN 0 ELSE Max - 1
Touches(l, h) == IF RoundUp THEN l = 0 ELSE h = Max - 1

(* A range l .. h can be searched in n guesses, but for one number.        *)
Searchable(l, h, n) ==
  \/ h - l + 1 <= Reach[n]
  \/ h - l <= Reach[n] /\ Touches(l, h)

(* The inductive invariant: between guesses the range can be searched in   *)
(* the chances that remain; a guess on its way is the middle of it; after  *)
(* the answer the range it leaves is the one the remaining chances suffice *)
(* for.                                                                    *)
Narrows ==
  /\ InRange
  /\ Len(replies) \in {read, read + 1} /\ Len(typed) \in {read, read + 1}
  /\ Len(replies) <= Len(typed)
  /\ taken = Len(replies)
  /\ read = Len(replies) /\ result # "won" => Searchable(lo, hi, chances)
  /\ Len(typed) = read + 1 => typed[read + 1] = Middle
  /\ read < Len(replies) =>
       /\ replies[read + 1] = Verdict(typed[read + 1])
       /\ result # "won" => typed[read + 1] # value
       /\ result = "won" => typed[read + 1] = value
       /\ result # "won" => Searchable(NewLo, NewHi, chances)
  /\ result = "lost" => chances = 0

(* checkin.c:20, 40-42 against README.md:11: with ten chances a bisection  *)
(* of 1024 numbers uses them up for one number only.                       *)
LosesOnlyToUnlucky == result = "lost" => value = Unlucky

=============================================================================
