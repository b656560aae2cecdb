---------------------------- MODULE MCTrainPage ----------------------------
(* The training page and its service, small.  The page posts its own forms. *)
EXTENDS TrainPage, TLC

Alike == Permutations(Requests) \union Permutations(Texts)
NoForms == {}
MCName == [x \in Texts |-> "a"]

(* Bound: type names without "..", whose handling MCTrainService checks.   *)
MCPoints == [file : Archive, type : Types]

(* Bound: the page is edited only while no training is running.            *)
MCPNext ==
  /\ PNext
  /\ rows' # rows \/ sampleCount' # sampleCount => \A r \in Requests : ~ Running(r)

MCPSpec == PInit /\ [][MCPNext]_pvars

=============================================================================
