----------------------------- MODULE MCAssembler -----------------------------
(***************************************************************************)
(* Three parts of keystone, one per job: a section is laid out, or         *)
(* conditionals are read or a map of strings is used beside an empty one.  *)
(***************************************************************************)
EXTENDS AsmLayout

CONSTANTS Jobs, MaxMacros, MaxDepth,
  Keys, Hash, InitSizes, None                     \* StringMap

VARIABLES job,
  cond, stack, macros, defined, error, mode, frames,    \* AsmConditionals
  table, items, tombs, answer                     \* StringMap

C == INSTANCE AsmConditionals WITH state <- mode
M == INSTANCE StringMap
Promise == INSTANCE KeySet WITH held <- M!Held

condVars == <<cond, stack, macros, defined, error, mode, frames>>
mapVars == <<table, items, tombs, answer>>

MCInit ==
  /\ job \in Jobs
  /\ Init /\ (job # "layout" => prog = <<>>)
  /\ C!Init /\ (job # "conditionals" => ~ defined)
  /\ M!Init /\ (job # "map" => table = M!Unused(0))

MCNext ==
  \/ Next /\ UNCHANGED <<job, condVars, mapVars>>
  \/ /\ pc = "done" /\ job = "conditionals"
     /\ C!Next /\ UNCHANGED <<job, vars, mapVars>>
  \/ /\ pc = "done" /\ job = "map"
     /\ M!Next /\ UNCHANGED <<job, vars, condVars>>

MCSpec == MCInit /\ [][MCNext]_<<job, vars, condVars, mapVars>> /\ WF_vars(Next)

(* A number that halving takes to one.                                     *)
IsPowerOfTwo(n) ==
  \E chain \in SUBSET (1 .. n) :
    n \in chain /\ \A m \in chain : m = 1 \/ \E h \in chain : m = 2 * h

(* A map is made without buckets or with a power of two of them, as the    *)
(* constructors of StringMap assert (StringMap.cpp:37-38); a cell that is  *)
(* no key is told from every key.                                          *)
ASSUME MapConstants ==
  /\ Keys \intersect {M!Free, M!Tombstone, None} = {}
  /\ Hash \in [Keys -> Nat]
  /\ InitSizes \subseteq Nat /\ \A n \in InitSizes : n = 0 \/ IsPowerOfTwo(n)

-----------------------------------------------------------------------------
(* Programs: all of up to four statements, with two jumps of different     *)
(* long forms and everything that moves what is behind it; of five, those  *)
(* in which labels and jumps lie at the limit of a short jump.             *)
To(l) == [kind |-> "label", name |-> l]
At(kind, n) == [kind |-> kind, at |-> n]
Near == { [op |-> "insn", size |-> 2], [op |-> "insn", size |-> 124],
          [op |-> "jump", to |-> To("a"), most |-> 5], [op |-> "jump", to |-> To("b"), most |-> 6],
          [op |-> "label", name |-> "a"], [op |-> "label", name |-> "b"],
          [op |-> "align", size |-> 16, most |-> 16], [op |-> "align", size |-> 8, most |-> 3] }
All == Near \union
        { [op |-> "jump", to |-> At("number", 200), most |-> 5], [op |-> "call", to |-> To("a")],
          [op |-> "fill", size |-> 126, most |-> 0], [op |-> "org", size |-> 140, most |-> 0] }

Once(p) == \A i, j \in DOMAIN p : p[i] = p[j] /\ p[i].op = "label" => i = j
MCPrograms ==
  {p \in [1 .. 5 -> Near] : Once(p)} \union UNION {{p \in [1 .. n -> All] : Once(p)} : n \in 0 .. 4}

\* A call of a symbol that the caller's resolver answers.
MCResolved == {<<[op |-> "insn", size |-> n], [op |-> "call", to |-> At("resolver", 200)]>> : n \in 1 .. 3}
                \union {<<>>}

\* Two pairs of keys that start at the same bucket, and one between.
MCKeys == {"k1", "k2", "k3", "k4", "k5"}
MCHash == [k \in MCKeys |->
  CASE k = "k1" -> 0 [] k = "k2" -> 8 [] k \in {"k3", "k4"} -> 3 [] OTHER -> 1]

-----------------------------------------------------------------------------
(* Text is skipped exactly where an open conditional says so.              *)
SkipsExactly == C!SkipsExactly
(* ... in every case.                                                      *)
SkipsAlways == C!SkipsAlways
(* Every probe of StringMap ends.                                          *)
ProbesEnd == M!ProbesEnd
(* StringMap is the set of keys it promises to be: whatever the order of   *)
(* insertions, erasures and rehashes, a key is found exactly when it was   *)
(* inserted and not erased since, wherever the probes of other keys and    *)
(* their tombstones have put it, and a call returns the key's own entry,   *)
(* also in a table that was just rebuilt (StringMap.cpp:56-153, 177-245,   *)
(* StringMap.h:331-347).                                                   *)
IsAKeySet == Promise!Spec
=============================================================================
