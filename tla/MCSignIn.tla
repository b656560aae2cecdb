------------------------------ MODULE MCSignIn ------------------------------
(***************************************************************************)
(* Small instances of SignIn for TLC.                                      *)
(***************************************************************************)
EXTENDS SignIn, TLC

\* Three values per half are the fewest for which a cipher differs from its
\* inverse.
MCBlock  == 0..2
MCEnc    == [b \in MCBlock |-> (b + 1) % 3]
MCDec    == [b \in MCBlock |-> (b + 2) % 3]
MCFlip   == [b \in MCBlock |-> IF b = 2 THEN 2 ELSE 1 - b]
MCAnswer == [front |-> 1, back |-> 2]       \* typing [1, 1] is right
MCRight  == [front |-> 1, back |-> 1]
MCZero   == [front |-> 1, back |-> 0]       \* half of it right already
MCFlag   == [front |-> 2, back |-> 2]
MCNoFlag == [front |-> 2, back |-> 1]
MCTypable == {MCRight, [front |-> 2, back |-> 1]}

ASSUME Judged(Flipped(MCRight)) = "right"

\* An early return is followed while a single client has started: those that
\* come later find what a client without one leaves, or an earlier death.
MCNext ==
  /\ Next
  /\ shorts' > 0 => \E c \in Clients : \A d \in Clients \ {c} : cst'[d] = "start"
MCSpec == Init /\ [][MCNext]_vars
=============================================================================
