------------------------------- MODULE KeySet -------------------------------
(***************************************************************************)
(* What a StringMap promises its users (llvm/ADT/StringMap.h): it holds    *)
(* keys, and says of each call whether it found the key.                   *)
(***************************************************************************)
CONSTANTS Keys, None

VARIABLES
  held,    \* the keys in the map
  answer   \* the last call: its kind, its key, whether the key was found, and
           \* the key of the entry it returned

Init == held = {} /\ answer = [call |-> "none", key |-> None, found |-> FALSE, entry |-> None]

Says(call, k, entry) ==
  answer' = [call |-> call, key |-> k, found |-> k \in held, entry |-> entry]

Find(k)   == held' = held /\ Says("find", k, IF k \in held THEN k ELSE None)
Insert(k) == held' = held \union {k} /\ Says("insert", k, k)
Erase(k)  == held' = held \ {k} /\ Says("erase", k, None)
Clear     == held' = {} /\ Says("clear", None, None)

Next == Clear \/ \E k \in Keys : Find(k) \/ Insert(k) \/ Erase(k)

Spec == Init /\ [][Next]_<<held, answer>>
=============================================================================
