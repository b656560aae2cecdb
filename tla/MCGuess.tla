------------------------------- MODULE MCGuess -------------------------------
(***************************************************************************)
(* The guessing game with the proportions of the program, 2^n numbers and  *)
(* n chances, and either player: one who bisects the range, or one who     *)
(* types any words, ahead of the replies if it likes, numbers below and    *)
(* above the range included.                                               *)
(***************************************************************************)
EXTENDS Bisection

CONSTANT MaxTyped      \* bound: how many words the free player types

VARIABLE bisects       \* which player it is

MCGuesses == -1 .. Max
MCReach == [n \in 0 .. Chances |-> 2 ^ n - 1]

MCInit == bisects \in BOOLEAN /\ BInit

TypeFreely ==
  /\ Len(typed) < MaxTyped
  /\ \E word \in Words : Type(word)
  /\ UNCHANGED player

MCNext ==
  /\ UNCHANGED bisects
  /\ \/ bisects /\ BNext
     \/ ~ bisects /\ ((Game /\ UNCHANGED player) \/ TypeFreely)

MCSpec ==
  /\ MCInit /\ [][MCNext]_<<bisects, bvars>>
  /\ WF_vars(Game) /\ WF_bvars(bisects /\ BNext)

-----------------------------------------------------------------------------
(* A bisecting player loses to one number only (Bisection).                *)
BisectionLosesToOne == bisects => LosesOnlyToUnlucky

=============================================================================
