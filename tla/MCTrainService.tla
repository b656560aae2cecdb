--------------------------- MODULE MCTrainService ---------------------------
(* The training service on small forms.                                    *)
EXTENDS TrainService, TLC

CONSTANTS x1, x2, x3

(* Two texts whose files have one name, and a third.                       *)
MCTexts == {x1, x2, x3}
MCName == (x1 :> "a") @@ (x2 :> "a") @@ (x3 :> "b")

(* A form as the page fills it in (script.js:81-91): file and type travel  *)
(* together, and no sample has a number the count leaves out.              *)
Paired(f) == \A i \in Index : /\ f.file[i] = {} <=> f.type[i] = NoType
                              /\ i >= f.count => f.file[i] = {}

MCForms == {f \in Form : f.named /\ Paired(f)} \union {NoForm}

(* Forms every training of which could succeed on its own.                 *)
GoodForms == {f \in Form : /\ f.named /\ Paired(f) /\ f.count > 0
                           /\ \A i \in 0 .. f.count - 1 : f.type[i] \in Types
                           /\ \A i \in 1 .. f.count - 1 : f.type[i] # f.type[0]}

Alike == Permutations(Requests) \union Permutations({x1, x2}) \union Permutations(Types)

=============================================================================
