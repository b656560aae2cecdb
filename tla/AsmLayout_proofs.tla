-------------------------- MODULE AsmLayout_proofs --------------------------
(***************************************************************************)
(* Proofs about AsmLayout, for every program and every base address: the   *)
(* offsets the layout remembers are the sums of what comes before, no      *)
(* short jump is left that does not reach, what is assembled jumps and     *)
(* calls where the program says, and there is less to do with every step.  *)
(***************************************************************************)
EXTENDS AsmLayout, Recursion, SequenceTheorems, FiniteSetTheorems, TLAPS

-----------------------------------------------------------------------------
\* Statements, fragments and what is computed from them.

(* A statement has the fields its kind calls for.                          *)
LEMMA StatementFields ==
  ASSUME NEW s \in Statement
  PROVE  /\ s.op = "insn" => s.size \in Nat
         /\ s.op = "call" => s.to \in Target
         /\ s.op = "jump" => s.to \in Target /\ s.most \in {5, 6}
         /\ s.op = "label" => s.name \in Labels
         /\ s.op \in {"fill", "org", "align"} => s.size \in Nat \ {0} /\ s.most \in Nat
BY DEF Statement

(* A target has the field its kind calls for.                              *)
LEMMA TargetFields ==
  ASSUME NEW t \in Target
  PROVE  /\ t.kind \in {"label", "number", "resolver"}
         /\ t.kind = "label" => t.name \in Labels
         /\ t.kind # "label" => t.at \in Int
BY DEF Target, ToLabel, ToNumber

(* The fields of a fragment.                                               *)
LEMMA FragmentFields ==
  ASSUME NEW f \in Fragment
  PROVE  /\ f.kind \in {"data", "short", "long", "fill", "align", "org"}
         /\ f.size \in Nat /\ f.most \in Nat /\ f.fix \in Seq(Fixup)
         /\ f.kind = "align" => f.size > 0
         /\ f.kind = "short" => f.most \in {5, 6} /\ Len(f.fix) = 1
BY DEF Fragment

(* The room a fragment takes is an integer, be it negative for an .org.    *)
LEMMA RoomIsInt ==
  ASSUME NEW f \in Fragment, NEW off \in Int
  PROVE  Room(f, off) \in Int
<1>1. f.size \in Nat /\ f.most \in Nat
  BY FragmentFields
<1>2. CASE f.kind = "align"
  <2>1. f.size > 0
    BY <1>2, FragmentFields
  <2>2. off % f.size \in Int
    BY <1>1, <2>1
  <2>3. Pad(f, off) \in Int
    BY <1>1, <2>1, <2>2 DEF Pad
  <2> QED
    BY <1>2, <2>3 DEF Room
<1>3. CASE f.kind # "align"
  BY <1>1, <1>3 DEF Room
<1> QED
  BY <1>2, <1>3

(* The fragments the streamer makes are fragments.                         *)
LEMMA NewFragments ==
  /\ \A n \in Nat : \A x \in Seq(Fixup) : Data(n, x) \in Fragment
  /\ \A s \in Statement : s.op = "jump" => Short(s) \in Fragment
  /\ \A s \in Statement : s.op \in {"fill", "org", "align"} =>
       [kind |-> s.op, size |-> s.size, most |-> s.most, fix |-> <<>>] \in Fragment
<1>1. ASSUME NEW n \in Nat, NEW x \in Seq(Fixup)
      PROVE  Data(n, x) \in Fragment
  BY DEF Data, Fragment
<1>2. ASSUME NEW s \in Statement, s.op = "jump"
      PROVE  Short(s) \in Fragment
  <2>1. s.to \in Target /\ s.most \in {5, 6}
    BY <1>2, StatementFields
  <2>2. [at |-> 1, width |-> 1, to |-> s.to] \in Fixup
    BY <2>1 DEF Fixup
  <2> QED
    BY <2>1, <2>2 DEF Short, Fragment
<1>3. ASSUME NEW s \in Statement, s.op \in {"fill", "org", "align"}
      PROVE  [kind |-> s.op, size |-> s.size, most |-> s.most, fix |-> <<>>] \in Fragment
  <2>1. s.size \in Nat \ {0} /\ s.most \in Nat
    BY <1>3, StatementFields
  <2> QED
    BY <1>3, <2>1 DEF Fragment
<1> QED
  BY <1>1, <1>2, <1>3

(* A jump that grew is a fragment, of another kind.                        *)
LEMMA LongFragment ==
  ASSUME NEW f \in Fragment, f.kind = "short"
  PROVE  Long(f) \in Fragment /\ Long(f).kind = "long"
<1>1. f.most \in {5, 6} /\ Len(f.fix) = 1 /\ f.fix \in Seq(Fixup)
  BY FragmentFields
<1>2. f.fix[1] \in Fixup
  BY <1>1
<1> DEFINE x == [at |-> f.most - 4, width |-> 4, to |-> f.fix[1].to]
<1>3. f.fix[1].to \in Target
  BY <1>2 DEF Fixup
<1>4. x \in Fixup
  BY <1>1, <1>3 DEF Fixup
<1>5. Long(f) = [f EXCEPT !.kind = "long", !.size = f.most, !.fix = <<x>>]
  BY DEF Long
<1> HIDE DEF x
<1>6. <<x>> \in Seq(Fixup)
  BY <1>4
<1> QED
  BY <1>1, <1>5, <1>6 DEF Fragment

-----------------------------------------------------------------------------
\* The type invariant.

(* A label is in a fragment there is, and only fragments there are have an *)
(* offset; what is laid out is at a place to be counted from.              *)
Linked ==
  /\ \A l \in Labels : sym[l].frag \in 0 .. Len(frags)
  /\ Len(laid) <= Len(frags)
  /\ cur >= 1 /\ fix >= 1

Typed == TypeOK /\ Linked

(* The fields of what the symbol table has for a label.                    *)
LEMMA SymFields ==
  ASSUME Typed, NEW l \in Labels
  PROVE  /\ sym[l].frag \in 0 .. Len(frags) /\ sym[l].off \in Nat
         /\ sym[l] # Nowhere => sym[l].frag > 0
BY DEF Typed, Linked, TypeOK, Nowhere

(* The fields of a fixup.                                                  *)
LEMMA FixupFields ==
  ASSUME NEW f \in Fixup
  PROVE  f.at \in Nat /\ f.width \in {1, 4} /\ f.to \in Target
BY DEF Fixup

(* The fragment a fixup needs the offset of is a fragment there is, its    *)
(* own or a later one.                                                     *)
LEMMA NeededIsThere ==
  ASSUME Typed, NEW i \in 1 .. Len(frags), NEW f \in Fixup
  PROVE  /\ Needed(i, f) \in i .. Len(frags)
         /\ f.to.kind = "label" => sym[f.to.name].frag <= Needed(i, f)
<1>1. f.to \in Target
  BY FixupFields
<1>2. CASE f.to.kind = "label"
  <2>1. sym[f.to.name].frag \in 0 .. Len(frags)
    BY <1>1, <1>2, TargetFields, SymFields
  <2> QED
    BY <1>2, <2>1 DEF Needed
<1>3. CASE f.to.kind # "label"
  BY <1>3 DEF Needed
<1> QED
  BY <1>2, <1>3

(* A fragment's fixups are fixups; a short one has one.                    *)
LEMMA FragmentFixups ==
  ASSUME Typed, NEW i \in 1 .. Len(frags)
  PROVE  /\ frags[i] \in Fragment
         /\ frags[i].fix \in Seq(Fixup)
         /\ \A j \in 1 .. Len(frags[i].fix) : frags[i].fix[j] \in Fixup
         /\ frags[i].kind = "short" => frags[i].fix[1] \in Fixup
<1>1. frags[i] \in Fragment
  BY DEF Typed, TypeOK
<1>2. frags[i].fix \in Seq(Fixup) /\ (frags[i].kind = "short" => Len(frags[i].fix) = 1)
  BY <1>1, FragmentFields
<1> QED
  BY <1>1, <1>2

(* What is wanted next is a fragment there is.                             *)
LEMMA WantedIsThere ==
  ASSUME Typed
  PROVE  Wanted \in 0 .. Len(frags)
<1>0. Len(frags) \in Nat /\ cur \in Nat /\ cur >= 1 /\ fix \in Nat /\ fix >= 1
  BY DEF Typed, TypeOK, Linked
<1>1. CASE pc = "relax" /\ cur <= Len(frags)
  <2>1. CASE frags[cur].kind = "short" /\ ~ IsMissing(frags[cur].fix[1])
    <3>1. frags[cur].fix[1] \in Fixup
      BY <1>0, <1>1, <2>1, FragmentFixups
    <3>2. Needed(cur, frags[cur].fix[1]) \in cur .. Len(frags)
      BY <1>0, <1>1, <3>1, NeededIsThere
    <3> QED
      BY <1>0, <1>1, <2>1, <3>2 DEF Wanted
  <2> QED
    BY <1>0, <1>1, <2>1 DEF Wanted
<1>2. CASE pc = "finish"
  BY <1>0, <1>2 DEF Wanted
<1>3. CASE pc = "fix" /\ cur <= Len(frags)
  <2>1. CASE fix <= Len(frags[cur].fix) /\ ~ IsMissing(frags[cur].fix[fix])
    <3>1. frags[cur].fix[fix] \in Fixup
      BY <1>0, <1>3, <2>1, FragmentFixups
    <3>2. Needed(cur, frags[cur].fix[fix]) \in cur .. Len(frags)
      BY <1>0, <1>3, <3>1, NeededIsThere
    <3> QED
      BY <1>0, <1>3, <2>1, <3>2 DEF Wanted
  <2> QED
    BY <1>0, <1>3, <2>1 DEF Wanted
<1> QED
  BY <1>0, <1>1, <1>2, <1>3 DEF Wanted

(* An offset is remembered only of a fragment there is.                    *)
LEMMA NextOffsetIsInt ==
  ASSUME Typed
  PROVE  NextOffset \in Int
<1>1. laid \in Seq(Int) /\ Len(laid) <= Len(frags) /\ Len(frags) \in Nat
  BY DEF Typed, TypeOK, Linked
<1>2. CASE laid = <<>>
  BY <1>2, BaseIsNat DEF NextOffset
<1>3. CASE laid # <<>>
  <2>1. Len(laid) \in 1 .. Len(frags) /\ laid[Len(laid)] \in Int
    BY <1>1, <1>3
  <2>2. Room(frags[Len(laid)], laid[Len(laid)]) \in Int
    BY <2>1, FragmentFixups, RoomIsInt
  <2> QED
    BY <1>3, <2>1, <2>2 DEF NextOffset
<1> QED
  BY <1>2, <1>3

(* A fixup evaluated without an error has an integer for a value.          *)
LEMMA ValueIsInt ==
  ASSUME Typed, NEW i \in 1 .. Len(frags), NEW f \in Fixup, FixupError(i, f) = "none"
  PROVE  Value(i, f) \in Int
<1>1. laid \in Seq(Int)
  BY DEF Typed, TypeOK
<1>2. f.at \in Nat /\ f.width \in {1, 4} /\ f.to \in Target
  BY FixupFields
<1>3. i \in Nat /\ i >= 1 /\ i <= Len(laid) /\ Len(laid) \in Nat /\ ~ IsMissing(f)
  BY <1>1 DEF FixupError, Valid
<1>4. laid[i] \in Int
  BY <1>1, <1>3
<1>5. CASE f.to.kind = "label"
  <2>1. sym[f.to.name] # Nowhere /\ f.to.name \in Labels
    BY <1>2, <1>3, <1>5, TargetFields DEF IsMissing
  <2>2. /\ sym[f.to.name].frag \in 0 .. Len(frags) /\ sym[f.to.name].off \in Nat
        /\ sym[f.to.name].frag > 0
    BY <2>1, SymFields
  <2>3. Valid(sym[f.to.name].frag) => laid[sym[f.to.name].frag] \in Int
    BY <1>1, <1>3, <2>2 DEF Valid
  <2>4. LabelOffset(f.to.name) \in Int
    BY <2>2, <2>3 DEF LabelOffset
  <2>5. Value(i, f) = (LabelOffset(f.to.name) - f.width) - (laid[i] + f.at)
    BY <1>5, Zenon DEF Value
  <2> QED
    BY <1>2, <1>4, <2>4, <2>5
<1>6. CASE f.to.kind = "number"
  <2>1. Value(i, f) = (f.to.at - f.width) - (laid[i] + f.at)
    BY <1>6, Zenon DEF Value
  <2>2. f.to.at \in Int
    BY <1>2, <1>6, TargetFields
  <2> QED
    BY <1>2, <1>4, <2>1, <2>2
<1>7. CASE f.to.kind = "resolver"
  <2>1. Value(i, f) = f.to.at - (laid[i] + f.at)
    BY <1>7, Zenon DEF Value
  <2>2. f.to.at \in Int
    BY <1>2, <1>7, TargetFields
  <2> QED
    BY <1>2, <1>4, <2>1, <2>2
<1> QED
  BY <1>2, <1>5, <1>6, <1>7, TargetFields

(* The statement at hand is a statement.                                   *)
LEMMA AtHand ==
  ASSUME Typed, NEW ops, Emitting(ops)
  PROVE  prog[cur] \in Statement /\ prog[cur].op \in ops
<1>1. prog \in Seq(Statement) /\ cur \in 1 .. Len(prog)
  BY DEF Typed, TypeOK, Linked, Emitting
<1> QED
  BY <1>1 DEF Emitting

(* A fragment more keeps the types.                                        *)
LEMMA InsertTyped ==
  ASSUME Typed, NEW f \in Fragment, Insert(f)
  PROVE  /\ frags' \in Seq(Fragment) /\ Len(frags') = Len(frags) + 1
         /\ sym' \in [Labels -> {Nowhere} \union [frag : Nat \ {0}, off : Nat]]
         /\ pending' \subseteq Labels
         /\ \A l \in Labels : sym'[l].frag \in 0 .. Len(frags')
<1>1. frags \in Seq(Fragment) /\ frags' = Append(frags, f) /\ pending' = {}
  BY DEF Typed, TypeOK, Insert
<1>2. frags' \in Seq(Fragment) /\ Len(frags') = Len(frags) + 1 /\ Len(frags) \in Nat
  BY <1>1
<1> DEFINE n == Len(frags) + 1
<1>3. /\ sym' = [l \in Labels |-> IF l \in pending THEN [frag |-> n, off |-> 0] ELSE sym[l]]
      /\ n \in Nat \ {0} /\ n = Len(frags')
  BY <1>2 DEF Insert, Flushed
<1> HIDE DEF n
<1>4. ASSUME NEW l \in Labels
      PROVE  /\ sym'[l] \in {Nowhere} \union [frag : Nat \ {0}, off : Nat]
             /\ sym'[l].frag \in 0 .. Len(frags')
  <2>1. CASE l \in pending
    BY <1>3, <2>1
  <2>2. CASE l \notin pending
    BY <1>2, <1>3, <2>2 DEF Typed, TypeOK, Linked
  <2> QED
    BY <2>1, <2>2
<1> QED
  BY <1>1, <1>2, <1>3, <1>4

(* A statement more keeps the types.                                       *)
LEMMA EmitTyped ==
  ASSUME Typed, EmitInstToData \/ EmitInstToFragment \/ EmitSpace \/ EmitLabel
  PROVE  Typed'
<1>0. /\ cur \in Nat /\ cur >= 1 /\ Len(frags) \in Nat
      /\ frags \in Seq(Fragment) /\ prog \in Seq(Statement)
  BY DEF Typed, TypeOK, Linked
<1>1. Emitted /\ cur' \in Nat /\ cur' >= 1
  <2>1. Emitted
    BY Zenon DEF EmitInstToData, EmitInstToFragment, EmitSpace, EmitLabel
  <2> QED
    BY <1>0, <2>1 DEF Emitted
<1>2. SUFFICES /\ frags' \in Seq(Fragment) /\ Len(frags') >= Len(frags)
               /\ sym' \in [Labels -> {Nowhere} \union [frag : Nat \ {0}, off : Nat]]
               /\ pending' \subseteq Labels
               /\ \A l \in Labels : sym'[l].frag \in 0 .. Len(frags')
  BY <1>0, <1>1 DEF Typed, TypeOK, Linked, Emitted
<1>3. CASE EmitInstToData
  <2> DEFINE s == prog[cur]
             had == IF InData THEN frags[LastFrag].size ELSE 0
             n == IF s.op = "call" THEN 5 ELSE s.size
             fixes == IF s.op = "call" THEN <<CallFix(s, had)>> ELSE <<>>
  <2>1. s \in Statement /\ s.op \in {"insn", "call"}
    BY <1>3, AtHand DEF EmitInstToData
  <2>2. n \in Nat
    BY <2>1, StatementFields
  <2>3. InData => LastFrag \in 1 .. Len(frags) /\ frags[LastFrag] \in Fragment
    BY <1>0 DEF InData, LastFrag
  <2>4. had \in Nat
    BY <2>3, FragmentFields
  <2>5. fixes \in Seq(Fixup)
    <3>1. s.op = "call" => CallFix(s, had) \in Fixup
      BY <2>1, <2>4, StatementFields DEF CallFix, Fixup
    <3> HIDE DEF s, had
    <3> QED
      BY <3>1
  <2>6. CASE InData
    <3>1. /\ frags' = [frags EXCEPT ![LastFrag].size = @ + n, ![LastFrag].fix = @ \o fixes]
          /\ UNCHANGED <<sym, pending>>
      BY <1>3, <2>6 DEF EmitInstToData
    <3>2. frags[LastFrag] \in Fragment /\ frags[LastFrag].kind = "data"
      BY <2>3, <2>6 DEF InData, LastFrag
    <3> HIDE DEF n, fixes
    <3> DEFINE g == [frags[LastFrag] EXCEPT !.size = @ + n, !.fix = @ \o fixes]
    <3>3. g \in Fragment
      <4>1. frags[LastFrag].size + n \in Nat /\ frags[LastFrag].fix \o fixes \in Seq(Fixup)
        BY <2>2, <2>5, <3>2, FragmentFields
      <4> QED
        BY <3>2, <4>1 DEF Fragment
    <3>4. frags' = [frags EXCEPT ![LastFrag] = g]
      BY <1>0, <2>3, <2>6, <3>1
    <3> HIDE DEF g
    <3>5. frags' \in Seq(Fragment) /\ Len(frags') = Len(frags)
      BY <1>0, <2>3, <2>6, <3>3, <3>4
    <3> QED
      BY <3>1, <3>5 DEF Typed, TypeOK, Linked
  <2>7. CASE ~ InData
    <3>1. Insert(Data(n, fixes))
      BY <1>3, <2>7 DEF EmitInstToData
    <3> HIDE DEF n, fixes
    <3>2. Data(n, fixes) \in Fragment
      BY <2>2, <2>5, NewFragments
    <3> QED
      BY <1>0, <3>1, <3>2, InsertTyped
  <2> QED
    BY <2>6, <2>7
<1>4. CASE EmitInstToFragment
  <2>1. Insert(Short(prog[cur])) /\ Short(prog[cur]) \in Fragment
    BY <1>4, AtHand, NewFragments DEF EmitInstToFragment
  <2> QED
    BY <1>0, <2>1, InsertTyped
<1>5. CASE EmitSpace
  <2> DEFINE f == [kind |-> prog[cur].op, size |-> prog[cur].size, most |-> prog[cur].most,
                   fix |-> <<>>]
  <2>1. prog[cur] \in Statement /\ prog[cur].op \in {"fill", "org", "align"}
    BY <1>5, AtHand DEF EmitSpace
  <2>2. Insert(f) /\ f \in Fragment
    BY <1>5, <2>1, NewFragments DEF EmitSpace
  <2> HIDE DEF f
  <2> QED
    BY <1>0, <2>2, InsertTyped
<1>6. CASE EmitLabel
  <2>1. prog[cur] \in Statement /\ prog[cur].op = "label" /\ UNCHANGED frags
    BY <1>6, AtHand DEF EmitLabel
  <2>2. prog[cur].name \in Labels
    BY <2>1, StatementFields
  <2>3. CASE InData
    <3>1. LastFrag \in 1 .. Len(frags) /\ frags[LastFrag] \in Fragment
      BY <1>0, <2>3 DEF InData, LastFrag
    <3> DEFINE x == [frag |-> LastFrag, off |-> frags[LastFrag].size]
    <3>2. x \in [frag : Nat \ {0}, off : Nat] /\ x.frag \in 0 .. Len(frags)
      BY <1>0, <3>1, FragmentFields
    <3>3. sym' = [sym EXCEPT ![prog[cur].name] = x] /\ UNCHANGED pending
      BY <1>6, <2>3 DEF EmitLabel
    <3> HIDE DEF x
    <3> QED
      BY <1>0, <2>1, <2>2, <3>2, <3>3 DEF Typed, TypeOK, Linked
  <2>4. CASE ~ InData
    <3>1. pending' = pending \union {prog[cur].name} /\ UNCHANGED sym
      BY <1>6, <2>4 DEF EmitLabel
    <3> QED
      BY <1>0, <2>1, <2>2, <3>1 DEF Typed, TypeOK, Linked
  <2> QED
    BY <2>3, <2>4
<1> QED
  BY <1>3, <1>4, <1>5, <1>6

(* The layout and the relaxation keep the types.                           *)
LEMMA LayoutTyped ==
  ASSUME Typed, Finish \/ LayoutFragment \/ RelaxFragment \/ LayoutOnce \/ FinishLayout
  PROVE  Typed'
<1>0. /\ frags \in Seq(Fragment) /\ laid \in Seq(Int) /\ cur \in Nat /\ cur >= 1
      /\ Len(frags) \in Nat /\ Len(laid) \in 0 .. Len(frags) /\ first \in Nat
  BY DEF Typed, TypeOK, Linked
<1>1. CASE Finish
  <2>1. /\ cur' = 1 /\ pc' = "relax"
        /\ UNCHANGED <<prog, laid, fix, first, again, code, err>>
    BY <1>1 DEF Finish
  <2>2. CASE Insert(Data(0, <<>>))
    <3>1. Data(0, <<>>) \in Fragment
      <4>1. <<>> \in Seq(Fixup)
        OBVIOUS
      <4> QED
        BY <4>1, NewFragments
    <3>2. /\ frags' \in Seq(Fragment) /\ Len(frags') = Len(frags) + 1
          /\ sym' \in [Labels -> {Nowhere} \union [frag : Nat \ {0}, off : Nat]]
          /\ pending' \subseteq Labels
          /\ \A l \in Labels : sym'[l].frag \in 0 .. Len(frags')
      BY <2>2, <3>1, InsertTyped
    <3> QED
      BY <1>0, <2>1, <3>2 DEF Typed, TypeOK, Linked
  <2>3. CASE UNCHANGED <<frags, sym, pending>>
    BY <2>1, <2>3 DEF Typed, TypeOK, Linked
  <2> QED
    BY <1>1, <2>2, <2>3 DEF Finish
<1>2. CASE LayoutFragment
  <2>1. NextOffset \in Int /\ Len(laid) < Len(frags)
    BY <1>0, <1>2, NextOffsetIsInt, WantedIsThere DEF LayoutFragment, Laying
  <2>2. laid' = Append(laid, NextOffset)
    BY <1>2 DEF LayoutFragment
  <2>3. laid' \in Seq(Int) /\ Len(laid') <= Len(frags)
    BY <1>0, <2>1, <2>2
  <2> QED
    BY <1>2, <2>3 DEF LayoutFragment, Typed, TypeOK, Linked, stream
<1>3. CASE RelaxFragment
  <2>1. /\ frags' \in Seq(Fragment) /\ Len(frags') = Len(frags) /\ first' \in Nat
    <3>1. CASE NeedsRelaxation(cur)
      <4>1. frags[cur] \in Fragment /\ frags[cur].kind = "short" /\ cur \in 1 .. Len(frags)
        BY <1>0, <1>3, <3>1, FragmentFixups DEF RelaxFragment, NeedsRelaxation
      <4>2. Long(frags[cur]) \in Fragment
        BY <4>1, LongFragment
      <4>3. frags' = [frags EXCEPT ![cur] = Long(frags[cur])]
            /\ first' = IF first = 0 THEN cur ELSE first
        BY <1>3, <3>1 DEF RelaxFragment
      <4> QED
        BY <1>0, <4>1, <4>2, <4>3
    <3>2. CASE ~ NeedsRelaxation(cur)
      BY <1>0, <1>3, <3>2 DEF RelaxFragment
    <3> QED
      BY <3>1, <3>2
  <2>2. cur' = cur + 1 /\ UNCHANGED <<stream, laid, pc, fix, again, code, err>>
    BY <1>3 DEF RelaxFragment
  <2> QED
    BY <1>0, <2>1, <2>2 DEF Typed, TypeOK, Linked, stream
<1>4. CASE LayoutOnce
  <2>1. /\ laid' \in Seq(Int) /\ Len(laid') <= Len(laid)
        /\ first' \in Nat /\ again' \in BOOLEAN /\ pc' \in {"relax", "finish"} /\ cur' = 1
    <3>1. CASE first # 0 /\ laid' = InvalidateFrom(first)
               /\ first' = 0 /\ again' = TRUE /\ cur' = 1 /\ UNCHANGED pc
      <4>1. laid' \in Seq(Int) /\ Len(laid') <= Len(laid)
        <5>1. CASE Valid(first)
          <6>1. first - 1 \in 0 .. Len(laid) /\ laid' = SubSeq(laid, 1, first - 1)
            BY <1>0, <3>1, <5>1 DEF InvalidateFrom, Valid
          <6> QED
            BY <1>0, <6>1
        <5>2. CASE ~ Valid(first)
          BY <1>0, <3>1, <5>2 DEF InvalidateFrom
        <5> QED
          BY <5>1, <5>2
      <4> QED
        BY <1>4, <3>1, <4>1 DEF LayoutOnce, Passed
    <3>2. CASE again' = FALSE /\ cur' = 1 /\ UNCHANGED <<laid, first, pc>>
      <4>1. pc = "relax"
        BY <1>4 DEF LayoutOnce, Passed
      <4>2. again' \in BOOLEAN
        BY <3>2, Zenon
      <4>3. UNCHANGED <<laid, first, pc>> /\ cur' = 1
        BY <3>2, Zenon
      <4> QED
        BY <1>0, <4>1, <4>2, <4>3
    <3>3. CASE pc' = "finish" /\ cur' = 1 /\ UNCHANGED <<laid, first, again>>
      BY <1>0, <3>3 DEF Typed, TypeOK
    <3> QED
      BY <1>4, <3>1, <3>2, <3>3 DEF LayoutOnce
  <2>2. UNCHANGED <<stream, frags, fix, code, err>>
    BY <1>4 DEF LayoutOnce
  <2> QED
    BY <1>0, <2>1, <2>2 DEF Typed, TypeOK, Linked, stream
<1>5. CASE FinishLayout
  BY <1>5 DEF FinishLayout, Typed, TypeOK, Linked, stream
<1> QED
  BY <1>1, <1>2, <1>3, <1>4, <1>5

(* The fixups and the object keep the types.                               *)
LEMMA FixupsTyped ==
  ASSUME Typed, ApplyFixup \/ NextFixups \/ Fixed \/ WriteObject
  PROVE  Typed'
<1>0. /\ cur \in Nat /\ cur >= 1 /\ fix \in Nat /\ fix >= 1
      /\ code \in Seq([frag : Nat, fix : Nat, value : Int])
  BY DEF Typed, TypeOK, Linked
<1>1. CASE ApplyFixup
  <2> DEFINE f == frags[cur].fix[fix]
  <2>1. UNCHANGED <<stream, frags, laid, cur, first, again>>
        /\ cur \in 1 .. Len(frags) /\ fix \in 1 .. Len(frags[cur].fix)
    BY <1>0, <1>1 DEF ApplyFixup, Typed, TypeOK
  <2>2. f \in Fixup
    BY <2>1, FragmentFixups
  <2>3. FixupError(cur, f) \in {"none", "missing", "fragment"}
    BY DEF FixupError
  <2>4. /\ code' \in Seq([frag : Nat, fix : Nat, value : Int]) /\ fix' \in Nat /\ fix' >= 1
        /\ pc' \in {"fix", "done"} /\ err' \in Errors
    <3>1. CASE FixupError(cur, f) # "none"
      BY <1>0, <1>1, <2>3, <3>1 DEF ApplyFixup, Fail, Errors
    <3>2. CASE FixupError(cur, f) = "none" /\ ~ Fits(f, Value(cur, f))
      BY <1>0, <1>1, <3>2 DEF ApplyFixup, Fail, Errors
    <3>3. CASE FixupError(cur, f) = "none" /\ Fits(f, Value(cur, f))
      <4>1. Value(cur, f) \in Int
        BY <2>1, <2>2, <3>3, ValueIsInt
      <4>2. /\ code' = Append(code, [frag |-> cur, fix |-> fix, value |-> Value(cur, f)])
            /\ fix' = fix + 1 /\ UNCHANGED <<pc, err>> /\ pc = "fix"
        BY <1>1, <3>3 DEF ApplyFixup
      <4>3. [frag |-> cur, fix |-> fix, value |-> Value(cur, f)]
              \in [frag : Nat, fix : Nat, value : Int]
        BY <1>0, <4>1
      <4>4. code' \in Seq([frag : Nat, fix : Nat, value : Int])
        BY <1>0, <4>2, <4>3
      <4>5. err' \in Errors
        BY <4>2 DEF Typed, TypeOK
      <4> QED
        BY <1>0, <4>2, <4>4, <4>5
    <3> QED
      BY <3>1, <3>2, <3>3
  <2> HIDE DEF f
  <2> QED
    BY <2>1, <2>4 DEF Typed, TypeOK, Linked, stream
<1>2. CASE NextFixups
  BY <1>2 DEF NextFixups, Typed, TypeOK, Linked, stream
<1>3. CASE Fixed
  BY <1>3 DEF Fixed, Typed, TypeOK, Linked, stream
<1>4. CASE WriteObject
  <2>1. pc' = "done" /\ err' \in Errors
    BY <1>4 DEF WriteObject, Fail, Errors, Typed, TypeOK
  <2>2. UNCHANGED <<stream, frags, laid, cur, fix, first, again, code>>
    BY <1>4 DEF WriteObject
  <2> QED
    BY <2>1, <2>2 DEF Typed, TypeOK, Linked, stream
<1> QED
  BY <1>1, <1>2, <1>3, <1>4

(* Init and a stuttering step.                                             *)
LEMMA InitTyped == Init => Typed
<1> SUFFICES ASSUME Init PROVE Typed
  OBVIOUS
<1>1. prog \in Seq(Statement)
  BY ProgramsAreStatements DEF Init
<1>2. frags = <<>> /\ laid = <<>> /\ code = <<>> /\ Len(frags) = 0 /\ Len(laid) = 0
  BY DEF Init
<1>3. /\ sym \in [Labels -> {Nowhere} \union [frag : Nat \ {0}, off : Nat]]
      /\ \A l \in Labels : sym[l].frag = 0
  BY DEF Init, Nowhere
<1>4. /\ pending = {} /\ pc = "emit" /\ cur = 1 /\ fix = 1
      /\ first = 0 /\ again = FALSE /\ err = "none"
  BY DEF Init
<1>5. again \in BOOLEAN
  BY <1>4, Zenon
<1>6. frags \in Seq(Fragment) /\ laid \in Seq(Int)
      /\ code \in Seq([frag : Nat, fix : Nat, value : Int])
  BY <1>2
<1>7. pc = "emit" /\ cur = 1 /\ fix = 1 /\ first = 0 /\ err = "none" /\ pending = {}
  BY <1>4, Zenon
<1>8. TypeOK
  BY <1>1, <1>3, <1>5, <1>6, <1>7 DEF TypeOK, Errors
<1> QED
  BY <1>2, <1>3, <1>7, <1>8 DEF Typed, Linked

LEMMA StutterTyped == Typed /\ UNCHANGED vars => Typed'
BY DEF vars, Typed, TypeOK, Linked

(* The section is well formed throughout: labels and offsets are of        *)
(* fragments there are, and what is counted are numbers.                   *)
THEOREM AsmTyped == Spec => []Typed
<1>1. Typed /\ [Next]_vars => Typed'
  BY EmitTyped, LayoutTyped, FixupsTyped, StutterTyped DEF Next
<1> QED
  BY InitTyped, <1>1, PTL DEF Spec

THEOREM AsmTypes == Spec => []TypeOK
<1>1. Typed => TypeOK
  BY DEF Typed
<1> QED
  BY AsmTyped, <1>1, PTL

-----------------------------------------------------------------------------
\* Offsets.

(* Nothing is laid out while statements come in, and what a pass grew lies *)
(* behind it.                                                              *)
Ahead ==
  /\ pc = "emit" => laid = <<>> /\ first = 0
  /\ first # 0 => pc = "relax" /\ first < cur

Summed == Typed /\ Ahead /\ OffsetsAreSums

(* Steps that leave the offsets, what they are sums of and the first jump  *)
(* that grew alone.                                                        *)
LEMMA SumsStay ==
  ASSUME OffsetsAreSums, UNCHANGED <<frags, laid, first>>
  PROVE  OffsetsAreSums'
BY DEF OffsetsAreSums, IsSum, Room, Pad

(* Without offsets there is nothing to sum.                                *)
LEMMA NoSums == laid = <<>> => OffsetsAreSums
BY DEF OffsetsAreSums

(* While statements come in there are no offsets.                          *)
LEMMA EmitSummed ==
  ASSUME Summed, EmitInstToData \/ EmitInstToFragment \/ EmitSpace \/ EmitLabel \/ Finish
  PROVE  Ahead' /\ OffsetsAreSums'
<1>1. /\ pc = "emit" /\ UNCHANGED <<laid, first>> /\ pc' \in {"emit", "relax"}
  BY DEF EmitInstToData, EmitInstToFragment, EmitSpace, EmitLabel, Finish, Emitting, Emitted
<1>2. laid' = <<>> /\ first' = 0
  BY <1>1 DEF Summed, Ahead
<1> QED
  BY <1>2, NoSums DEF Ahead, OffsetsAreSums

(* A fragment that is laid out starts where the one before ends.           *)
LEMMA LayoutFragmentSummed ==
  ASSUME Summed, LayoutFragment
  PROVE  Ahead' /\ OffsetsAreSums'
<1>1. /\ laid \in Seq(Int) /\ laid' = Append(laid, NextOffset)
      /\ UNCHANGED <<frags, pc, cur, first>> /\ Wanted > Len(laid)
  BY DEF Summed, Typed, TypeOK, LayoutFragment, Laying
<1>2. pc # "emit"
  BY <1>1 DEF Wanted, Summed, Ahead
<1>3. ASSUME NEW i \in 1 .. Len(laid'), first' = 0 \/ i <= first'
      PROVE  IsSum(i)'
  <2>1. Len(laid') = Len(laid) + 1 /\ \A j \in 1 .. Len(laid) : laid'[j] = laid[j]
    BY <1>1
  <2>2. CASE i = Len(laid) + 1
    <3>1. laid'[i] = NextOffset
      BY <1>1, <2>2
    <3>2. CASE laid = <<>>
      BY <2>2, <3>1, <3>2 DEF IsSum, NextOffset
    <3>3. CASE laid # <<>>
      <4>1. Len(laid) \in 1 .. Len(laid) /\ i # 1 /\ i - 1 = Len(laid)
        BY <1>1, <2>2, <3>3
      <4>2. laid'[i] = laid'[i - 1] + Room(frags[i - 1], laid'[i - 1])
        BY <2>1, <3>1, <3>3, <4>1 DEF NextOffset
      <4>3. frags' = frags
        BY <1>1
      <4> QED
        BY <4>1, <4>2, <4>3 DEF IsSum, Room, Pad
    <3> QED
      BY <3>2, <3>3
  <2>3. CASE i # Len(laid) + 1
    <3>1. i \in 1 .. Len(laid) /\ (i # 1 => i - 1 \in 1 .. Len(laid))
      BY <1>1, <2>1, <2>3
    <3>2. IsSum(i)
      BY <1>1, <1>3, <3>1 DEF Summed, OffsetsAreSums
    <3>3. laid'[i] = laid[i] /\ (i # 1 => laid'[i - 1] = laid[i - 1]) /\ frags' = frags
      BY <1>1, <2>1, <3>1
    <3> QED
      BY <3>2, <3>3 DEF IsSum, Room, Pad
  <2> QED
    BY <2>2, <2>3
<1> QED
  BY <1>1, <1>2, <1>3 DEF OffsetsAreSums, Summed, Ahead

(* A jump that grows leaves the offsets up to its own as they were.        *)
LEMMA RelaxFragmentSummed ==
  ASSUME Summed, RelaxFragment
  PROVE  Ahead' /\ OffsetsAreSums'
<1>1. /\ pc = "relax" /\ UNCHANGED <<laid, pc>> /\ cur' = cur + 1
      /\ frags \in Seq(Fragment) /\ cur \in 1 .. Len(frags) /\ first \in Nat
      /\ Len(laid) \in 0 .. Len(frags)
  BY DEF Summed, Typed, TypeOK, Linked, RelaxFragment
<1>2. CASE NeedsRelaxation(cur)
  <2>1. /\ frags' = [frags EXCEPT ![cur] = Long(frags[cur])]
        /\ first' = IF first = 0 THEN cur ELSE first
    BY <1>2 DEF RelaxFragment
  <2>2. first' # 0 /\ first' <= cur /\ (first = 0 \/ first = first')
    BY <1>1, <2>1 DEF Summed, Ahead
  <2>3. ASSUME NEW i \in 1 .. Len(laid'), i <= first'
        PROVE  IsSum(i)'
    <3>1. IsSum(i)
      BY <1>1, <2>2, <2>3 DEF Summed, OffsetsAreSums
    <3>2. i # 1 => frags'[i - 1] = frags[i - 1]
      BY <1>1, <2>1, <2>2, <2>3
    <3> QED
      BY <1>1, <3>1, <3>2 DEF IsSum, Room, Pad
  <2>4. first' \in Nat /\ pc' = "relax"
    BY <1>1, <2>1
  <2>5. Ahead'
    BY <1>1, <2>2, <2>4 DEF Ahead
  <2>6. OffsetsAreSums'
    BY <2>2, <2>3 DEF OffsetsAreSums
  <2> QED
    BY <2>5, <2>6
<1>3. CASE ~ NeedsRelaxation(cur)
  <2>1. UNCHANGED <<frags, first>>
    BY <1>3 DEF RelaxFragment
  <2> QED
    BY <1>1, <2>1, SumsStay DEF Summed, Ahead
<1> QED
  BY <1>2, <1>3

(* The end of a pass forgets the offsets that are not sums any more.       *)
LEMMA LayoutOnceSummed ==
  ASSUME Summed, LayoutOnce
  PROVE  Ahead' /\ OffsetsAreSums'
<1>1. /\ pc = "relax" /\ frags' = frags /\ laid \in Seq(Int) /\ first \in Nat
      /\ first' = 0 /\ pc' \in {"relax", "finish"}
  BY DEF Summed, Typed, TypeOK, LayoutOnce, Passed
<1>2. Ahead'
  BY <1>1 DEF Ahead
<1>3. CASE laid' = InvalidateFrom(first) /\ first # 0
  <2>1. /\ Len(laid') <= Len(laid) /\ Len(laid') <= first
        /\ \A j \in 1 .. Len(laid') : laid'[j] = laid[j]
    <3>1. CASE Valid(first)
      <4>1. laid' = SubSeq(laid, 1, first - 1) /\ first - 1 \in 0 .. Len(laid)
        BY <1>1, <1>3, <3>1 DEF InvalidateFrom, Valid
      <4> QED
        BY <1>1, <4>1
    <3>2. CASE ~ Valid(first)
      BY <1>1, <1>3, <3>2 DEF InvalidateFrom, Valid
    <3> QED
      BY <3>1, <3>2
  <2>2. ASSUME NEW i \in 1 .. Len(laid')
        PROVE  IsSum(i)'
    <3>1. i \in 1 .. Len(laid) /\ i <= first /\ (i # 1 => i - 1 \in 1 .. Len(laid'))
      BY <1>1, <2>1, <2>2
    <3>2. IsSum(i)
      BY <3>1 DEF Summed, OffsetsAreSums
    <3>3. laid'[i] = laid[i] /\ (i # 1 => laid'[i - 1] = laid[i - 1])
      BY <2>1, <3>1
    <3> QED
      BY <1>1, <3>2, <3>3 DEF IsSum, Room, Pad
  <2> QED
    BY <1>2, <2>2 DEF OffsetsAreSums
<1>4. CASE laid' = laid /\ first = 0
  BY <1>1, <1>2, <1>4, SumsStay DEF Summed
<1> QED
  BY <1>3, <1>4 DEF LayoutOnce

(* Behind the layout the offsets stay, or grow by LayoutFragment.          *)
LEMMA RestSummed ==
  ASSUME Summed,
         FinishLayout \/ ApplyFixup \/ NextFixups \/ Fixed \/ WriteObject \/ UNCHANGED vars
  PROVE  Ahead' /\ OffsetsAreSums'
<1>1. UNCHANGED <<frags, laid, first>>
  BY Zenon DEF FinishLayout, ApplyFixup, NextFixups, Fixed, WriteObject, vars
<1>2. \/ pc # "emit" /\ pc # "relax" /\ pc' # "emit"
      \/ UNCHANGED <<pc, cur>>
  BY DEF FinishLayout, ApplyFixup, NextFixups, Fixed, WriteObject, vars, Fail
<1> QED
  BY <1>1, <1>2, SumsStay DEF Summed, Ahead

(* Offsets that are sums, and the types they need, are never lost.         *)
LEMMA SummedAlways == Spec => []Summed
<1>1. Init => Summed
  BY InitTyped, NoSums DEF Init, Summed, Ahead
<1>2. Summed /\ [Next]_vars => Summed'
  <2> SUFFICES ASSUME Summed, [Next]_vars PROVE Summed'
    OBVIOUS
  <2>1. Typed'
    BY EmitTyped, LayoutTyped, FixupsTyped, StutterTyped DEF Next, Summed
  <2>2. Ahead' /\ OffsetsAreSums'
    BY EmitSummed, LayoutFragmentSummed, RelaxFragmentSummed, LayoutOnceSummed, RestSummed
       DEF Next
  <2> QED
    BY <2>1, <2>2 DEF Summed
<1> QED
  BY <1>1, <1>2, PTL DEF Spec

(* The remembered offsets are the sums of the sizes before them, whatever  *)
(* the program, the base and the jumps that grow.                          *)
THEOREM AsmOffsets == Spec => []OffsetsAreSums
<1>1. Summed => OffsetsAreSums
  BY DEF Summed
<1> QED
  BY <1>1, SummedAlways, PTL

-----------------------------------------------------------------------------
\* Short jumps.

(* A jump that need not grow: its target is missing, or within reach, or   *)
(* behind what cannot be laid out at all.                                  *)
Settled(i) ==
  frags[i].kind = "short" =>
    LET f == frags[i].fix[1]
    IN \/ IsMissing(f)
       \/ Valid(Needed(i, f)) /\ Value(i, f) \in Int8
       \/ ~ Valid(Needed(i, f)) /\ Blocked

(* A fixup the fixup pass has evaluated, unless what it needs cannot be    *)
(* laid out.                                                               *)
Known(i, f) == ~ IsMissing(f) /\ (Valid(Needed(i, f)) \/ Blocked)
Evaluated(i) == frags[i].kind = "short" => Known(i, frags[i].fix[1])

(* What a pass that grew nothing, and the fixup pass, have behind them.    *)
Reached ==
  /\ pc = "relax" /\ first = 0 => \A i \in 1 .. Len(frags) : i < cur => Settled(i)
  /\ pc \in {"finish", "fix", "write", "done"} => \A i \in 1 .. Len(frags) : Settled(i)
  /\ pc = "fix" =>
       \A i \in 1 .. Len(frags) : i < cur \/ (i = cur /\ fix > 1) => Evaluated(i)
  /\ pc = "write" \/ (pc = "done" /\ err = "none") =>
       \A i \in 1 .. Len(frags) : Evaluated(i)
  /\ pc = "done" /\ err = "none" => ~ Blocked

Short8 == Typed /\ Reached

(* Settled and evaluated are about fragments, labels and offsets only.     *)
LEMMA SettledStays ==
  ASSUME UNCHANGED <<frags, sym, laid>>, NEW i
  PROVE  /\ Settled(i) => Settled(i)'
         /\ Evaluated(i) => Evaluated(i)'
BY DEF Settled, Evaluated, Known, IsMissing, Valid, Needed, Value, LabelOffset, Blocked, Room, Pad

(* A fragment more laid out leaves the values that were known.             *)
LEMMA ValueStays ==
  ASSUME Typed, LayoutFragment, NEW i \in 1 .. Len(frags), NEW f \in Fixup
  PROVE  /\ IsMissing(f)' = IsMissing(f) /\ Needed(i, f)' = Needed(i, f)
         /\ Valid(Needed(i, f)) => Valid(Needed(i, f))'
         /\ Valid(Needed(i, f)) /\ ~ IsMissing(f) => Value(i, f)' = Value(i, f)
<1>1. /\ laid \in Seq(Int) /\ laid' = Append(laid, NextOffset)
      /\ UNCHANGED <<frags, sym>>
  BY DEF Typed, TypeOK, LayoutFragment, stream
<1>2. /\ Len(laid') = Len(laid) + 1 /\ Len(laid) \in Nat
      /\ \A j \in 1 .. Len(laid) : laid'[j] = laid[j]
  BY <1>1
<1>3. IsMissing(f)' = IsMissing(f) /\ Needed(i, f)' = Needed(i, f)
  BY <1>1 DEF IsMissing, Needed
<1>4. Needed(i, f) \in i .. Len(frags)
  BY NeededIsThere
<1>5. Valid(Needed(i, f)) => Valid(Needed(i, f))'
  BY <1>2, <1>3, <1>4 DEF Valid
<1>6. ASSUME Valid(Needed(i, f)), ~ IsMissing(f)
      PROVE  Value(i, f)' = Value(i, f)
  <2>1. laid'[i] = laid[i]
    BY <1>2, <1>4, <1>6 DEF Valid
  <2>2. CASE f.to.kind = "label"
    <3>1. f.to.name \in Labels /\ sym[f.to.name] # Nowhere
      BY <1>6, <2>2, FixupFields, TargetFields DEF IsMissing
    <3>2. sym[f.to.name].frag \in 0 .. Len(frags) /\ sym[f.to.name].frag > 0
      BY <3>1, SymFields
    <3>3. sym[f.to.name].frag <= Needed(i, f)
      BY <2>2, NeededIsThere
    <3>4. sym[f.to.name].frag \in 1 .. Len(laid)
      BY <1>2, <1>4, <1>6, <3>2, <3>3 DEF Valid
    <3>5. laid'[sym'[f.to.name].frag] = laid[sym[f.to.name].frag] /\ sym' = sym
      BY <1>1, <1>2, <3>4
    <3>6. Valid(sym[f.to.name].frag) /\ Valid(sym[f.to.name].frag)'
      BY <1>1, <1>2, <3>4 DEF Valid
    <3>7. LabelOffset(f.to.name)' = LabelOffset(f.to.name)
      BY <3>5, <3>6 DEF LabelOffset
    <3> QED
      BY <2>1, <2>2, <3>7 DEF Value
  <2>3. CASE f.to.kind # "label"
    <3>1. f.to.kind = "number" \/ f.to.kind = "resolver"
      BY <2>3, FixupFields, TargetFields
    <3> QED
      BY <2>1, <2>3, <3>1 DEF Value
  <2> QED
    BY <2>2, <2>3
<1> QED
  BY <1>3, <1>5, <1>6

(* While statements come in nothing is said yet.                           *)
LEMMA EmitReached ==
  ASSUME Short8, EmitInstToData \/ EmitInstToFragment \/ EmitSpace \/ EmitLabel \/ Finish
  PROVE  Reached'
<1>1. CASE Finish
  <2>1. pc' = "relax" /\ cur' = 1
    BY <1>1 DEF Finish
  <2> QED
    BY <2>1 DEF Reached
<1>2. CASE EmitInstToData \/ EmitInstToFragment \/ EmitSpace \/ EmitLabel
  <2>1. pc = "emit" /\ pc' = pc
    BY <1>2, Zenon
       DEF EmitInstToData, EmitInstToFragment, EmitSpace, EmitLabel, Emitting, Emitted
  <2> QED
    BY <2>1 DEF Reached
<1> QED
  BY <1>1, <1>2

LEMMA LayoutFragmentReached ==
  ASSUME Short8, LayoutFragment
  PROVE  Reached'
<1>1. ~ Blocked /\ UNCHANGED <<frags, pc, cur, fix, first, err>>
  BY DEF LayoutFragment, Laying
<1>2. ASSUME NEW i \in 1 .. Len(frags)
      PROVE  /\ Settled(i) => Settled(i)'
             /\ Evaluated(i) => Evaluated(i)'
  <2>1. CASE frags[i].kind = "short"
    <3> DEFINE f == frags[i].fix[1]
    <3>1. f \in Fixup /\ frags'[i].fix[1] = f
      BY <1>1, <2>1, FragmentFixups DEF Short8
    <3>2. /\ IsMissing(f)' = IsMissing(f) /\ Needed(i, f)' = Needed(i, f)
          /\ Valid(Needed(i, f)) => Valid(Needed(i, f))'
          /\ Valid(Needed(i, f)) /\ ~ IsMissing(f) => Value(i, f)' = Value(i, f)
      BY <3>1, ValueStays DEF Short8
    <3>3. Settled(i) => Settled(i)'
      BY <1>1, <2>1, <3>1, <3>2 DEF Settled
    <3>4. Evaluated(i) => Evaluated(i)'
      BY <1>1, <2>1, <3>1, <3>2 DEF Evaluated, Known
    <3> QED
      BY <3>3, <3>4
  <2>2. CASE frags[i].kind # "short"
    BY <1>1, <2>2 DEF Settled, Evaluated
  <2> QED
    BY <2>1, <2>2
<1>3. pc # "done"
  <2>1. Wanted # 0
    BY DEF LayoutFragment, Laying, Short8, Typed, TypeOK
  <2> QED
    BY <2>1 DEF Wanted
<1> QED
  BY <1>1, <1>2, <1>3 DEF Short8, Reached

(* A jump looked at that does not grow is settled.                         *)
LEMMA RelaxFragmentReached ==
  ASSUME Short8, RelaxFragment
  PROVE  Reached'
<1>1. /\ pc = "relax" /\ pc' = "relax" /\ ~ Laying /\ cur' = cur + 1
      /\ UNCHANGED <<sym, laid>> /\ cur \in 1 .. Len(frags) /\ first \in Nat
  BY DEF Short8, Typed, TypeOK, Linked, RelaxFragment, stream
<1>2. CASE NeedsRelaxation(cur)
  <2>1. first' # 0
    BY <1>1, <1>2 DEF RelaxFragment
  <2> QED
    BY <1>1, <2>1 DEF Reached
<1>3. CASE ~ NeedsRelaxation(cur)
  <2>1. UNCHANGED <<frags, first>>
    BY <1>3 DEF RelaxFragment
  <2>2. Settled(cur)
    <3>1. CASE frags[cur].kind = "short"
      <4> DEFINE f == frags[cur].fix[1]
      <4>1. f \in Fixup
        BY <1>1, <3>1, FragmentFixups DEF Short8
      <4>2. CASE IsMissing(f)
        BY <4>2 DEF Settled
      <4>3. CASE ~ IsMissing(f) /\ Valid(Needed(cur, f))
        <5>1. FixupError(cur, f) = "none"
          <6>1. cur <= Needed(cur, f)
            BY <1>1, <4>1, NeededIsThere DEF Short8
          <6>2. Valid(cur)
            BY <1>1, <4>1, <4>3, <6>1, NeededIsThere DEF Valid, Short8, Typed, TypeOK
          <6> QED
            BY <4>3, <6>2 DEF FixupError
        <5>2. Value(cur, f) \in Int8
          BY <1>3, <3>1, <5>1 DEF NeedsRelaxation
        <5> QED
          BY <4>3, <5>2 DEF Settled
      <4>4. CASE ~ IsMissing(f) /\ ~ Valid(Needed(cur, f))
        <5>1. Wanted = Needed(cur, f)
          BY <1>1, <3>1, <4>4 DEF Wanted
        <5>2. Needed(cur, f) \in cur .. Len(frags) /\ Len(laid) \in Nat
          BY <1>1, <4>1, NeededIsThere DEF Short8, Typed, TypeOK
        <5>3. Blocked
          BY <1>1, <4>4, <5>1, <5>2 DEF Laying, Valid
        <5> QED
          BY <4>4, <5>3 DEF Settled
      <4> QED
        BY <4>2, <4>3, <4>4
    <3> QED
      BY <3>1 DEF Settled
  <2>3. ASSUME first' = 0, NEW i \in 1 .. Len(frags), i < cur'
        PROVE  Settled(i)'
    <3>1. Settled(i)
      BY <1>1, <2>1, <2>2, <2>3 DEF Short8, Reached
    <3> QED
      BY <1>1, <2>1, <3>1, SettledStays
  <2> QED
    BY <1>1, <2>1, <2>3 DEF Reached
<1> QED
  BY <1>2, <1>3

(* After a pass nothing grew in every jump is settled.                     *)
LEMMA LayoutOnceReached ==
  ASSUME Short8, LayoutOnce
  PROVE  Reached'
<1>1. /\ pc = "relax" /\ UNCHANGED <<frags, sym>> /\ cur' = 1 /\ cur > Len(frags)
      /\ Len(frags) \in Nat /\ cur \in Nat
  BY DEF LayoutOnce, Passed, stream, Short8, Typed, TypeOK
<1>2. CASE pc' = "relax"
  BY <1>1, <1>2 DEF Reached
<1>3. CASE pc' = "finish" /\ first = 0 /\ UNCHANGED laid
  <2>1. \A i \in 1 .. Len(frags) : Settled(i)
    BY <1>1, <1>3 DEF Short8, Reached
  <2>2. \A i \in 1 .. Len(frags) : Settled(i)'
    BY <1>1, <1>3, <2>1, SettledStays
  <2> QED
    BY <1>1, <1>3, <2>2 DEF Reached
<1> QED
  BY <1>1, <1>2, <1>3 DEF LayoutOnce

(* What a fixup needs is laid out when it is applied, if it can be.        *)
LEMMA AppliedIsKnown ==
  ASSUME Typed, ApplyFixup, FixupError(cur, frags[cur].fix[fix]) = "none"
  PROVE  Known(cur, frags[cur].fix[fix])
<1> DEFINE f == frags[cur].fix[fix]
<1>1. /\ pc = "fix" /\ cur \in 1 .. Len(frags) /\ fix \in 1 .. Len(frags[cur].fix) /\ ~ Laying
      /\ Len(laid) \in Nat /\ Len(frags) \in Nat /\ fix <= Len(frags[cur].fix)
  BY FragmentFixups DEF ApplyFixup, Typed, TypeOK, Linked
<1>2. f \in Fixup
  BY <1>1, FragmentFixups
<1>3. ~ IsMissing(f)
  BY DEF FixupError
<1>4. Wanted = Needed(cur, f)
  BY <1>1, <1>3 DEF Wanted
<1>5. Needed(cur, f) \in cur .. Len(frags)
  BY <1>1, <1>2, NeededIsThere
<1>6. Blocked \/ Valid(Needed(cur, f))
  BY <1>1, <1>4, <1>5 DEF Laying, Valid
<1> QED
  BY <1>3, <1>6 DEF Known

(* The passes behind the layout.                                           *)
LEMMA FixupsReached ==
  ASSUME Short8, FinishLayout \/ ApplyFixup \/ NextFixups \/ Fixed \/ WriteObject
  PROVE  Reached'
<1>0. /\ cur \in Nat /\ cur >= 1 /\ fix \in Nat /\ fix >= 1 /\ Len(frags) \in Nat
      /\ UNCHANGED <<frags, sym, laid>> /\ pc \in {"finish", "fix", "write"}
  BY DEF Short8, Typed, TypeOK, Linked, FinishLayout, ApplyFixup, NextFixups, Fixed,
         WriteObject, stream
<1>1. \A i \in 1 .. Len(frags) : Settled(i)'
  BY <1>0, SettledStays DEF Short8, Reached
<1>2. \A i \in 1 .. Len(frags) : Evaluated(i) => Evaluated(i)'
  BY <1>0, SettledStays
<1>3. CASE FinishLayout
  <2>1. pc' = "fix" /\ cur' = 1 /\ fix' = 1
    BY <1>3 DEF FinishLayout
  <2> QED
    BY <1>0, <1>1, <2>1 DEF Reached
<1>4. CASE ApplyFixup
  <2> DEFINE f == frags[cur].fix[fix]
  <2>1. pc = "fix" /\ cur \in 1 .. Len(frags) /\ fix <= Len(frags[cur].fix) /\ cur' = cur
    BY <1>0, <1>4 DEF ApplyFixup
  <2>2. CASE FixupError(cur, f) # "none" \/ ~ Fits(f, Value(cur, f))
    <3>1. pc' = "done" /\ err' # "none"
      BY <1>4, <2>2 DEF ApplyFixup, Fail
    <3> QED
      BY <1>0, <1>1, <3>1 DEF Reached
  <2>3. CASE FixupError(cur, f) = "none" /\ Fits(f, Value(cur, f))
    <3>1. pc' = "fix" /\ fix' = fix + 1
      BY <1>4, <2>1, <2>3 DEF ApplyFixup
    <3>2. Evaluated(cur)
      <4>1. CASE frags[cur].kind = "short"
        <5>1. Len(frags[cur].fix) = 1
          BY <2>1, <4>1, FragmentFixups, FragmentFields DEF Short8
        <5>2. fix = 1
          BY <1>0, <2>1, <5>1
        <5> QED
          BY <1>4, <2>3, <5>2, AppliedIsKnown DEF Evaluated, Short8
      <4> QED
        BY <4>1 DEF Evaluated
    <3>3. \A i \in 1 .. Len(frags) : i < cur \/ i = cur => Evaluated(i)
      BY <2>1, <3>2 DEF Short8, Reached
    <3> QED
      BY <1>0, <1>1, <1>2, <2>1, <3>1, <3>3 DEF Reached
  <2> QED
    BY <2>2, <2>3
<1>5. CASE NextFixups
  <2>1. /\ pc = "fix" /\ pc' = "fix" /\ cur \in 1 .. Len(frags) /\ fix > Len(frags[cur].fix)
        /\ cur' = cur + 1 /\ fix' = 1
    BY <1>0, <1>5 DEF NextFixups
  <2>2. Evaluated(cur)
    <3>1. CASE frags[cur].kind = "short"
      <4>1. Len(frags[cur].fix) = 1
        BY <2>1, <3>1, FragmentFixups, FragmentFields DEF Short8
      <4> QED
        BY <2>1, <4>1 DEF Short8, Reached
    <3> QED
      BY <3>1 DEF Evaluated
  <2>3. \A i \in 1 .. Len(frags) : i < cur \/ i = cur => Evaluated(i)
    BY <2>1, <2>2 DEF Short8, Reached
  <2> QED
    BY <1>0, <1>1, <1>2, <2>1, <2>3 DEF Reached
<1>6. CASE Fixed
  <2>1. pc = "fix" /\ cur > Len(frags) /\ pc' = "write"
    BY <1>6 DEF Fixed
  <2>2. \A i \in 1 .. Len(frags) : Evaluated(i)
    BY <1>0, <2>1 DEF Short8, Reached
  <2> QED
    BY <1>0, <1>1, <1>2, <2>1, <2>2 DEF Reached
<1>7. CASE WriteObject
  <2>1. pc = "write" /\ pc' = "done"
    BY <1>7 DEF WriteObject, Fail
  <2>2. \A i \in 1 .. Len(frags) : Evaluated(i)
    BY <2>1 DEF Short8, Reached
  <2>3. err' = "none" => ~ Blocked'
    <3>1. Blocked' = Blocked
      BY <1>0 DEF Blocked, Room, Pad
    <3>2. Blocked => err' = "fragment"
      BY <1>7 DEF WriteObject, Fail
    <3> QED
      BY <3>1, <3>2
  <2> QED
    BY <1>0, <1>1, <1>2, <2>1, <2>2, <2>3 DEF Reached
<1> QED
  BY <1>3, <1>4, <1>5, <1>6, <1>7

LEMMA StutterReached ==
  ASSUME Short8, UNCHANGED vars
  PROVE  Reached'
<1>1. UNCHANGED <<frags, sym, laid>> /\ UNCHANGED <<pc, cur, fix, first, err>>
  BY DEF vars
<1>2. \A i \in 1 .. Len(frags) :
        (Settled(i) => Settled(i)') /\ (Evaluated(i) => Evaluated(i)')
  BY <1>1, SettledStays
<1>3. Blocked' = Blocked
  BY <1>1 DEF Blocked, Room, Pad
<1> QED
  BY <1>1, <1>2, <1>3 DEF Short8, Reached

(* A program assembled without an error has no short jump that does not    *)
(* reach its target.                                                       *)
THEOREM AsmShortJumps == Spec => []ShortJumpsReach
<1>1. Init => Short8
  BY InitTyped DEF Init, Short8, Reached
<1>2. Short8 /\ [Next]_vars => Short8'
  <2> SUFFICES ASSUME Short8, [Next]_vars PROVE Short8'
    OBVIOUS
  <2>1. Typed'
    BY EmitTyped, LayoutTyped, FixupsTyped, StutterTyped DEF Next, Short8
  <2>2. Reached'
    BY EmitReached, LayoutFragmentReached, RelaxFragmentReached, LayoutOnceReached,
       FixupsReached, StutterReached DEF Next
  <2> QED
    BY <2>1, <2>2 DEF Short8
<1>3. Short8 => ShortJumpsReach
  BY DEF Short8, Reached, ShortJumpsReach, Settled, Evaluated, Known
<1> QED
  BY <1>1, <1>2, <1>3, PTL DEF Spec

-----------------------------------------------------------------------------
\* Counting.

(* How many of a set are up to a number grows by one at each of the set.   *)
LEMMA UptoSteps ==
  ASSUME NEW L \in Nat, NEW S \in SUBSET (1 .. L)
  PROVE  /\ \A m \in 0 .. L : Upto(S, m) \in Nat
         /\ Upto(S, 0) = 0 /\ Upto(S, L) = Cardinality(S)
         /\ \A m \in 1 .. L : Upto(S, m) = Upto(S, m - 1) + IF m \in S THEN 1 ELSE 0
<1> DEFINE U(m) == {x \in S : x <= m}
<1>0. \A x \in S : x \in Int /\ 1 <= x /\ x <= L
  OBVIOUS
<1>1. \A m \in 0 .. L : Upto(S, m) = Cardinality(U(m))
  BY DEF Upto
<1>2. \A m \in 0 .. L : IsFiniteSet(U(m)) /\ Cardinality(U(m)) \in Nat
  <2>1. IsFiniteSet(1 .. L)
    BY FS_Interval
  <2>2. \A m \in 0 .. L : U(m) \subseteq 1 .. L
    OBVIOUS
  <2> HIDE DEF U
  <2> QED
    BY <2>1, <2>2, FS_Subset, FS_CardinalityType
<1>3. U(0) = {} /\ U(L) = S
  <2>1. \A z \in S : ~ (z <= 0) /\ z <= L
    BY <1>0
  <2> QED
    BY <2>1, Zenon
<1>4. ASSUME NEW m \in 1 .. L
      PROVE  Cardinality(U(m)) = Cardinality(U(m - 1)) + IF m \in S THEN 1 ELSE 0
  <2>1. IsFiniteSet(U(m - 1)) /\ Cardinality(U(m - 1)) \in Nat
    <3>1. m - 1 \in 0 .. L
      OBVIOUS
    <3> HIDE DEF U
    <3> QED
      BY <1>2, <3>1
  <2>2. CASE m \in S
    <3>1. U(m) = U(m - 1) \union {m} /\ m \notin U(m - 1)
      <4>1. \A z \in S : z <= m <=> z <= m - 1 \/ z = m
        BY <1>0
      <4>2. ~ (m <= m - 1) /\ m <= m
        OBVIOUS
      <4>3. U(m) = U(m - 1) \union {m}
        BY <2>2, <4>1, Zenon
      <4> QED
        BY <4>2, <4>3, Zenon
    <3> HIDE DEF U
    <3>2. Cardinality(U(m - 1) \union {m}) = Cardinality(U(m - 1)) + 1
      BY <2>1, <3>1, FS_AddElement
    <3> QED
      BY <2>2, <3>1, <3>2
  <2>3. CASE m \notin S
    <3>1. U(m) = U(m - 1)
      <4>1. \A z \in S : z <= m <=> z <= m - 1
        BY <1>0, <2>3
      <4> QED
        BY <4>1, Zenon
    <3> HIDE DEF U
    <3> QED
      BY <2>1, <2>3, <3>1
  <2> QED
    BY <2>2, <2>3
<1>5. Cardinality({}) = 0
  BY FS_EmptySet
<1> HIDE DEF U
<1>6. \A m \in 1 .. L : m \in 0 .. L /\ m - 1 \in 0 .. L
  OBVIOUS
<1> QED
  BY <1>1, <1>2, <1>3, <1>4, <1>5, <1>6

(* A number of the set is known by how many there are up to it.            *)
LEMMA UptoTells ==
  ASSUME NEW L \in Nat, NEW S \in SUBSET (1 .. L), NEW x \in S, NEW y \in S,
         Upto(S, x) = Upto(S, y)
  PROVE  x = y
<1>0. \A z \in S : z \in Int /\ 1 <= z /\ z <= L
  OBVIOUS
<1>1. ASSUME NEW u \in S, NEW v \in S, u < v PROVE Upto(S, u) < Upto(S, v)
  <2>1. u \in 1 .. L /\ v \in 1 .. L /\ v - 1 \in 0 .. L /\ u \in 0 .. L
    BY <1>1
  <2>2. Upto(S, v) = Upto(S, v - 1) + 1 /\ Upto(S, v - 1) \in Nat /\ Upto(S, u) \in Nat
    BY <2>1, UptoSteps
  <2>3. Upto(S, u) <= Upto(S, v - 1)
    <3>1. {z \in S : z <= u} \subseteq {z \in S : z <= v - 1}
      <4>1. \A z \in S : z <= u => z <= v - 1
        BY <1>0, <1>1, <2>1
      <4> QED
        BY <4>1, Zenon
    <3>2. IsFiniteSet({z \in S : z <= v - 1})
      <4>1. IsFiniteSet(1 .. L)
        BY FS_Interval
      <4>2. {z \in S : z <= v - 1} \subseteq 1 .. L
        BY Zenon
      <4> QED
        BY <4>1, <4>2, FS_Subset
    <3> QED
      BY <3>1, <3>2, FS_Subset DEF Upto
  <2> QED
    BY <2>2, <2>3
<1>2. x \in 1 .. L /\ y \in 1 .. L /\ Upto(S, x) \in Nat /\ Upto(S, y) \in Nat
  <2>1. x \in 0 .. L /\ y \in 0 .. L /\ x \in 1 .. L /\ y \in 1 .. L
    OBVIOUS
  <2> QED
    BY <2>1, UptoSteps
<1> QED
  BY <1>1, <1>2

-----------------------------------------------------------------------------
\* Where the streamer puts a program.

(* A place: so far into a fragment, so many of its fixups before.          *)
Places == [frag : Nat \ {0}, off : Nat, nth : Nat]
Place(i, o, x) == [frag |-> i, off |-> o, nth |-> x]

(* Fragment k begins at place p, or p is the end of the data before it.    *)
Begins(F, p, k) ==
  \/ p = Place(k, 0, 0)
  \/ /\ k = p.frag + 1 /\ F[p.frag].kind = "data"
     /\ p.off = F[p.frag].size /\ p.nth = Len(F[p.frag].fix)

(* Fragment f is what was made for statement s.                            *)
Made(f, s) ==
  IF s.op = "jump"
  THEN /\ f.kind \in {"short", "long"} /\ Len(f.fix) = 1
       /\ f.fix[1].to = s.to /\ f.fix[1].at + f.fix[1].width = f.size
  ELSE f.kind = s.op /\ f.size = s.size /\ f.most = s.most /\ Len(f.fix) = 0

(* Statement s takes what is between places p and q.                       *)
InData2(F, p) == p.frag \in 1 .. Len(F) /\ F[p.frag].kind = "data"
Takes(F, s, p, q) ==
  /\ s.op = "insn" => InData2(F, p) /\ q = Place(p.frag, p.off + s.size, p.nth)
  /\ s.op = "call" => /\ InData2(F, p) /\ q = Place(p.frag, p.off + 5, p.nth + 1)
                      /\ p.nth + 1 <= Len(F[p.frag].fix)
                      /\ F[p.frag].fix[p.nth + 1] = CallFix(s, p.off)
  /\ s.op = "label" => q = p
  /\ s.op \in {"jump", "fill", "org", "align"} =>
       \E k \in 1 .. Len(F) : /\ q = Place(k + 1, 0, 0)
                              /\ Begins(F, p, k) /\ Made(F[k], s)

(* Place p is the end of the fragments.                                    *)
EndsInData(F) == F # <<>> /\ F[Len(F)].kind = "data"
EndsAt(F, p) ==
  p = IF EndsInData(F)
      THEN Place(Len(F), F[Len(F)].size, Len(F[Len(F)].fix))
      ELSE Place(Len(F) + 1, 0, 0)

(* Fragments H go on where F ended, and jumps may have grown.              *)
GrownAt(F, H, k) ==
  \/ H[k] = F[k]
  \/ F[k].kind = "short" /\ H[k] = Long(F[k])
  \/ /\ k = Len(F) /\ F[k].kind = "data" /\ H[k].kind = "data"
     /\ Len(F[k].fix) <= Len(H[k].fix)
     /\ \A x \in 1 .. Len(F[k].fix) : H[k].fix[x] = F[k].fix[x]
Grown(F, H) ==
  Len(F) <= Len(H) /\ \A k \in 1 .. Len(F) : GrownAt(F, H, k)

(* What was made for a statement stays so.                                 *)
LEMMA MadeStays ==
  ASSUME NEW f \in Fragment, f.kind = "short", NEW s \in Statement, Made(f, s)
  PROVE  Made(Long(f), s) /\ Long(f).kind = "long"
<1>1. s.op = "jump"
  BY StatementFields DEF Made, Statement
<1>2. f.fix \in Seq(Fixup) /\ Len(f.fix) = 1 /\ f.most \in {5, 6}
  BY FragmentFields
<1>3. /\ Long(f).kind = "long" /\ Long(f).size = f.most
      /\ Long(f).fix = <<[at |-> f.most - 4, width |-> 4, to |-> f.fix[1].to]>>
  BY DEF Long, Fragment
<1>4. Len(Long(f).fix) = 1 /\ Long(f).fix[1] = [at |-> f.most - 4, width |-> 4, to |-> f.fix[1].to]
  BY <1>3
<1>5. f.fix[1].to = s.to
  BY <1>1 DEF Made
<1> QED
  BY <1>1, <1>2, <1>3, <1>4, <1>5 DEF Made

(* ... and so does the place where a statement is.                         *)
LEMMA TakesStays ==
  ASSUME NEW F \in Seq(Fragment), NEW H \in Seq(Fragment), Grown(F, H),
         NEW s \in Statement, NEW p \in Places, NEW q \in Places, Takes(F, s, p, q)
  PROVE  Takes(H, s, p, q)
<1>1. Len(F) \in Nat /\ Len(H) \in Nat /\ Len(F) <= Len(H)
      /\ \A k \in 1 .. Len(F) : GrownAt(F, H, k)
  BY DEF Grown
<1>2. s.op \in {"insn", "call", "jump", "label", "fill", "org", "align"}
  BY DEF Statement
<1>3. InData2(F, p) => InData2(H, p)
  BY <1>1 DEF InData2, GrownAt
<1>4. CASE s.op = "insn"
  BY <1>3, <1>4 DEF Takes
<1>5. CASE s.op = "call"
  <2>1. InData2(F, p) /\ p.nth + 1 \in 1 .. Len(F[p.frag].fix)
    <3>1. InData2(F, p) /\ p.nth + 1 <= Len(F[p.frag].fix) /\ p.nth \in Nat
      BY <1>5 DEF Takes, Places
    <3>2. F[p.frag] \in Fragment
      BY <3>1 DEF InData2
    <3>3. Len(F[p.frag].fix) \in Nat
      BY <3>2, FragmentFields
    <3> QED
      BY <3>1, <3>3
  <2>2. GrownAt(F, H, p.frag) /\ F[p.frag].kind = "data" /\ p.frag \in 1 .. Len(F)
    BY <1>1, <2>1 DEF InData2
  <2>3. H[p.frag] \in Fragment
    BY <1>1, <2>2
  <2>4. p.nth + 1 <= Len(H[p.frag].fix) /\ H[p.frag].fix[p.nth + 1] = F[p.frag].fix[p.nth + 1]
    <3>1. Len(H[p.frag].fix) \in Nat
      BY <2>3, FragmentFields
    <3> QED
      BY <2>1, <2>2, <3>1, SMTT(30) DEF GrownAt
  <2> QED
    BY <1>3, <1>5, <2>4 DEF Takes
<1>6. CASE s.op = "label"
  BY <1>6 DEF Takes
<1>7. CASE s.op \in {"jump", "fill", "org", "align"}
  <2>1. PICK k \in 1 .. Len(F) : q = Place(k + 1, 0, 0) /\ Begins(F, p, k) /\ Made(F[k], s)
    BY <1>7 DEF Takes
  <2>2. k \in 1 .. Len(H) /\ GrownAt(F, H, k) /\ F[k] \in Fragment
    BY <1>1
  <2>3. F[k].kind # "data"
    BY <1>7, <2>1 DEF Made
  <2>4. Made(H[k], s)
    BY <2>1, <2>2, <2>3, MadeStays DEF GrownAt
  <2>5. Begins(H, p, k)
    <3>1. CASE p = Place(k, 0, 0)
      BY <3>1 DEF Begins
    <3>2. CASE k = p.frag + 1 /\ F[p.frag].kind = "data"
      <4>1. p.frag \in 1 .. Len(F) /\ p.frag # Len(F)
        BY <1>1, <3>2 DEF Places
      <4>2. H[p.frag] = F[p.frag]
        BY <1>1, <3>2, <4>1 DEF GrownAt
      <4> QED
        BY <2>1, <4>2 DEF Begins
    <3> QED
      BY <2>1, <3>1, <3>2 DEF Begins
  <2> QED
    BY <1>7, <2>1, <2>2, <2>4, <2>5 DEF Takes
<1> QED
  BY <1>2, <1>4, <1>5, <1>6, <1>7

(* A fragment more; where it begins is where the others end.               *)
LEMMA OneMore ==
  ASSUME NEW F \in Seq(Fragment), NEW f \in Fragment, NEW p \in Places, EndsAt(F, p)
  PROVE  /\ Append(F, f) \in Seq(Fragment) /\ Len(Append(F, f)) = Len(F) + 1
         /\ Append(F, f)[Len(F) + 1] = f
         /\ Grown(F, Append(F, f)) /\ Begins(Append(F, f), p, Len(F) + 1)
<1> DEFINE H == Append(F, f)
<1>1. /\ H \in Seq(Fragment) /\ Len(H) = Len(F) + 1 /\ Len(F) \in Nat
      /\ H[Len(F) + 1] = f /\ \A k \in 1 .. Len(F) : H[k] = F[k]
  BY AppendProperties
<1> HIDE DEF H
<1>2. Grown(F, H)
  BY <1>1 DEF Grown, GrownAt
<1>3. Begins(H, p, Len(F) + 1)
  <2>1. CASE EndsInData(F)
    <3>1. Len(F) \in 1 .. Len(F) /\ F[Len(F)].kind = "data"
      BY <1>1, <2>1 DEF EndsInData
    <3>2. p.frag = Len(F) /\ p.off = F[Len(F)].size /\ p.nth = Len(F[Len(F)].fix)
      BY <2>1 DEF EndsAt, Place
    <3> QED
      BY <1>1, <3>1, <3>2 DEF Begins
  <2>2. CASE ~ EndsInData(F)
    BY <2>2 DEF EndsAt, Begins
  <2> QED
    BY <2>1, <2>2
<1> QED
  BY <1>1, <1>2, <1>3 DEF H

(* There is one place at the end.                                          *)
LEMMA EndIsPlace ==
  ASSUME NEW F \in Seq(Fragment), NEW p, EndsAt(F, p)
  PROVE  p \in Places
<1>1. Len(F) \in Nat
  OBVIOUS
<1>2. CASE EndsInData(F)
  <2>1. F[Len(F)] \in Fragment /\ Len(F) \in Nat \ {0}
    BY <1>1, <1>2 DEF EndsInData
  <2>2. F[Len(F)].size \in Nat /\ Len(F[Len(F)].fix) \in Nat
    BY <2>1, FragmentFields
  <2> QED
    BY <1>2, <2>1, <2>2 DEF EndsAt, Place, Places
<1>3. CASE ~ EndsInData(F)
  BY <1>1, <1>3 DEF EndsAt, Place, Places
<1> QED
  BY <1>2, <1>3

(* A statement more takes what is between the end and the new end.         *)
LEMMA Taken ==
  ASSUME Typed, EmitInstToData \/ EmitInstToFragment \/ EmitSpace \/ EmitLabel,
         NEW p \in Places, EndsAt(frags, p)
  PROVE  /\ Grown(frags, frags')
         /\ \E q \in Places : Takes(frags', prog[cur], p, q) /\ EndsAt(frags', q)
<1> DEFINE s == prog[cur]
<1>0. frags \in Seq(Fragment) /\ Len(frags) \in Nat
  BY DEF Typed, TypeOK
<1>1. CASE EmitInstToData
  <2> DEFINE had == IF InData THEN frags[LastFrag].size ELSE 0
             n == IF s.op = "call" THEN 5 ELSE s.size
             fixes == IF s.op = "call" THEN <<CallFix(s, had)>> ELSE <<>>
  <2>1. s \in Statement /\ s.op \in {"insn", "call"}
    BY <1>1, AtHand DEF EmitInstToData
  <2>2. n \in Nat
    BY <2>1, StatementFields
  <2>3. InData => /\ LastFrag \in 1 .. Len(frags) /\ frags[LastFrag] \in Fragment
                  /\ frags[LastFrag].size \in Nat
    BY <1>0, FragmentFields DEF InData, LastFrag
  <2>4. had \in Nat
    BY <2>3
  <2>5. fixes \in Seq(Fixup)
    <3>1. s.op = "call" => CallFix(s, had) \in Fixup
      BY <2>1, <2>4, StatementFields DEF CallFix, Fixup
    <3> HIDE DEF s, had
    <3> QED
      BY <3>1
  <2>6. s.op = "call" => Len(fixes) = 1 /\ fixes[1] = CallFix(s, had)
    <3> HIDE DEF s, had
    <3> QED
      OBVIOUS
  <2>7. s.op = "insn" => fixes = <<>> /\ Len(fixes) = 0 /\ n = s.size
    OBVIOUS
  <2>8. s.op = "call" => n = 5
    OBVIOUS
  <2>9. InData = EndsInData(frags)
    BY DEF InData, EndsInData
  <2>10. CASE InData
    <3> DEFINE L == Len(frags)
               x == frags[L].fix
               g == [frags[L] EXCEPT !.size = @ + n, !.fix = @ \o fixes]
    <3>1. frags' = [frags EXCEPT ![LastFrag].size = @ + n, ![LastFrag].fix = @ \o fixes]
      BY <1>1, <2>10 DEF EmitInstToData
    <3>2. L \in 1 .. Len(frags) /\ frags[L] \in Fragment /\ frags[L].kind = "data"
      BY <2>3, <2>10 DEF InData, LastFrag
    <3> HIDE DEF n, fixes
    <3>3. frags' = [frags EXCEPT ![L] = g]
      BY <1>0, <3>1, <3>2 DEF LastFrag
    <3>4. g.kind = "data" /\ g.size = frags[L].size + n /\ g.fix = x \o fixes
      BY <3>2 DEF Fragment
    <3>5. x \in Seq(Fixup) /\ frags[L].size \in Nat
      BY <3>2, FragmentFields
    <3>6. /\ Len(x \o fixes) = Len(x) + Len(fixes) /\ Len(x) \in Nat /\ Len(fixes) \in Nat
          /\ \A y \in 1 .. Len(x) : (x \o fixes)[y] = x[y]
          /\ \A y \in 1 .. Len(fixes) : (x \o fixes)[Len(x) + y] = fixes[y]
      <4> HIDE DEF x
      <4> QED
        BY <2>5, <3>5
    <3> HIDE DEF g, x
    <3>7. Len(frags') = L /\ frags'[L] = g /\ \A k \in 1 .. L : k # L => frags'[k] = frags[k]
      BY <1>0, <3>2, <3>3
    <3>8. Grown(frags, frags')
      <4>1. GrownAt(frags, frags', L)
        BY <3>2, <3>4, <3>6, <3>7 DEF GrownAt, x
      <4> QED
        BY <1>0, <3>7, <4>1 DEF Grown, GrownAt
    <3> DEFINE q == Place(L, g.size, Len(g.fix))
    <3>9. EndsAt(frags', q) /\ frags' # <<>>
      <4>1. EndsInData(frags') /\ frags' # <<>>
        BY <3>2, <3>4, <3>7 DEF EndsInData
      <4> QED
        BY <3>7, <4>1 DEF EndsAt
    <3>10. q \in Places
      BY <1>0, <2>2, <3>2, <3>4, <3>5, <3>6 DEF Places, Place
    <3>11. p = Place(L, had, Len(x)) /\ had = frags[L].size
      BY <2>9, <2>10 DEF EndsAt, x, LastFrag
    <3>12. p.frag = L /\ p.off = had /\ p.nth = Len(x)
      BY <3>11 DEF Place
    <3>13. InData2(frags', p)
      BY <3>2, <3>4, <3>7, <3>12 DEF InData2
    <3>14. Takes(frags', s, p, q)
      <4>1. CASE s.op = "insn"
        <5>1. q = Place(p.frag, p.off + s.size, p.nth)
          BY <2>7, <3>4, <3>6, <3>11, <3>12, <4>1
        <5> QED
          BY <3>13, <4>1, <5>1 DEF Takes
      <4>2. CASE s.op = "call"
        <5>1. q = Place(p.frag, p.off + 5, p.nth + 1)
          BY <2>6, <2>8, <3>4, <3>6, <3>11, <3>12, <4>2
        <5>2. p.nth + 1 <= Len(frags'[p.frag].fix)
          <6>1. frags'[p.frag].fix = x \o fixes
            BY <3>4, <3>7, <3>12
          <6>2. Len(x \o fixes) = Len(x) + 1 /\ p.nth = Len(x)
            BY <2>6, <3>6, <3>12, <4>2
          <6> QED
            BY <3>6, <6>1, <6>2
        <5>3. frags'[p.frag].fix[p.nth + 1] = CallFix(s, p.off)
          BY <2>6, <3>4, <3>6, <3>7, <3>12, <4>2
        <5> QED
          BY <3>13, <4>2, <5>1, <5>2, <5>3 DEF Takes
      <4> QED
        BY <2>1, <4>1, <4>2
    <3> QED
      BY <3>8, <3>9, <3>10, <3>14
  <2>11. CASE ~ InData
    <3> DEFINE f == Data(n, fixes)
               k == Len(frags) + 1
               q == Place(k, n, Len(fixes))
    <3>1. frags' = Append(frags, f)
      BY <1>1, <2>11 DEF EmitInstToData, Insert
    <3>2. f \in Fragment /\ f.kind = "data" /\ f.size = n /\ f.fix = fixes
      <4> HIDE DEF n, fixes
      <4> QED
        BY <2>2, <2>5, NewFragments DEF Data
    <3>3. Len(fixes) \in Nat
      BY <2>5
    <3>4. p = Place(k, 0, 0) /\ p.frag = k /\ p.off = 0 /\ p.nth = 0 /\ had = 0
      BY <2>9, <2>11 DEF EndsAt, Place
    <3> HIDE DEF n, fixes, f, s, had
    <3>5. /\ frags' \in Seq(Fragment) /\ Len(frags') = k /\ frags'[k] = f
          /\ Grown(frags, frags')
      BY <1>0, <3>1, <3>2, OneMore
    <3>6. EndsAt(frags', q)
      <4>1. EndsInData(frags')
        BY <1>0, <3>2, <3>5 DEF EndsInData
      <4> QED
        BY <3>2, <3>5, <4>1 DEF EndsAt
    <3>7. q \in Places
      BY <3>5, <3>6, EndIsPlace
    <3>8. InData2(frags', p)
      BY <1>0, <3>2, <3>4, <3>5 DEF InData2
    <3>9. Takes(frags', s, p, q)
      <4>1. CASE s.op = "insn"
        <5>1. q = Place(p.frag, p.off + s.size, p.nth)
          <6>1. s.size = 0 + s.size
            BY <2>2, <2>7, <4>1
          <6> QED
            BY <2>7, <3>4, <4>1, <6>1
        <5> QED
          BY <3>8, <4>1, <5>1 DEF Takes
      <4>2. CASE s.op = "call"
        <5>1. q = Place(p.frag, p.off + 5, p.nth + 1)
          <6>1. n = 0 + 5 /\ Len(fixes) = 0 + 1
            BY <2>6, <2>8, <4>2
          <6> QED
            BY <3>4, <6>1
        <5>2. p.nth + 1 <= Len(frags'[p.frag].fix)
          <6>1. frags'[p.frag].fix = fixes
            BY <3>2, <3>4, <3>5
          <6>2. Len(frags'[p.frag].fix) = 1
            BY <2>6, <4>2, <6>1
          <6>3. p.nth = 0
            BY <3>4
          <6> QED
            BY <6>2, <6>3
        <5>3. frags'[p.frag].fix[p.nth + 1] = CallFix(s, p.off)
          BY <2>6, <3>2, <3>4, <3>5, <4>2
        <5> QED
          BY <3>8, <4>2, <5>1, <5>2, <5>3 DEF Takes
      <4> QED
        BY <2>1, <4>1, <4>2
    <3> HIDE DEF q
    <3> QED
      BY <3>5, <3>6, <3>7, <3>9 DEF s
  <2> QED
    BY <2>10, <2>11
<1>2. ASSUME NEW f \in Fragment, Insert(f), Made(f, s), f.kind # "data",
             s.op \in {"jump", "fill", "org", "align"}
      PROVE  /\ Grown(frags, frags')
             /\ \E q \in Places : Takes(frags', s, p, q) /\ EndsAt(frags', q)
  <2> DEFINE k == Len(frags) + 1
             q == Place(k + 1, 0, 0)
  <2>1. frags' = Append(frags, f)
    BY <1>2 DEF Insert
  <2> HIDE DEF s
  <2>2. /\ frags' \in Seq(Fragment) /\ Len(frags') = k /\ frags'[k] = f
        /\ Grown(frags, frags') /\ Begins(frags', p, k)
    BY <1>0, <2>1, OneMore
  <2>3. EndsAt(frags', q)
    <3>1. ~ EndsInData(frags')
      BY <1>2, <2>2 DEF EndsInData
    <3> QED
      BY <2>2, <3>1 DEF EndsAt
  <2>4. q \in Places
    BY <2>2, <2>3, EndIsPlace
  <2>5. k \in 1 .. Len(frags')
    BY <1>0, <2>2
  <2>6. Takes(frags', s, p, q)
    BY <1>2, <2>2, <2>5 DEF Takes
  <2> QED
    BY <2>2, <2>3, <2>4, <2>6
<1>3. CASE EmitInstToFragment
  <2>1. Insert(Short(s)) /\ s \in Statement /\ s.op = "jump" /\ Short(s) \in Fragment
    BY <1>3, AtHand, NewFragments DEF EmitInstToFragment
  <2>2. Made(Short(s), s) /\ Short(s).kind = "short"
    <3> HIDE DEF s
    <3>1. /\ Short(s).kind = "short" /\ Short(s).size = 2
          /\ Short(s).fix = <<[at |-> 1, width |-> 1, to |-> s.to]>>
      BY DEF Short
    <3>2. Len(Short(s).fix) = 1 /\ Short(s).fix[1] = [at |-> 1, width |-> 1, to |-> s.to]
      BY <3>1
    <3> QED
      BY <2>1, <3>1, <3>2 DEF Made
  <2> QED
    BY <1>2, <2>1, <2>2
<1>4. CASE EmitSpace
  <2> DEFINE f == [kind |-> s.op, size |-> s.size, most |-> s.most, fix |-> <<>>]
  <2>1. s \in Statement /\ s.op \in {"fill", "org", "align"}
    BY <1>4, AtHand DEF EmitSpace
  <2>2. Insert(f) /\ f \in Fragment
    BY <1>4, <2>1, NewFragments DEF EmitSpace
  <2>3. Made(f, s) /\ f.kind # "data"
    BY <2>1 DEF Made
  <2> HIDE DEF f
  <2> QED
    BY <1>2, <2>1, <2>2, <2>3
<1>5. CASE EmitLabel
  <2>1. s.op = "label" /\ UNCHANGED frags
    BY <1>5, AtHand DEF EmitLabel
  <2>2. Grown(frags, frags')
    BY <1>0, <2>1 DEF Grown, GrownAt
  <2>3. Takes(frags', s, p, p) /\ EndsAt(frags', p)
    BY <2>1 DEF Takes
  <2> QED
    BY <2>2, <2>3
<1> QED
  BY <1>1, <1>3, <1>4, <1>5

(* So many statements were taken in.                                       *)
Took == IF pc = "emit" THEN cur - 1 ELSE Len(prog)

(* Label l is at a place, o bytes into fragment i.                         *)
Bears(g, l, i, o) ==
  \E j \in 1 .. Took : Defined(l, j) /\ g[j].frag = i /\ g[j].off = o

(* From the start to the end, g has the place between each two statements; *)
(* a label that waits is where the next fragment will begin.               *)
Streamed(g) ==
  /\ g \in [0 .. Took -> Places] /\ g[0] = Place(1, 0, 0)
  /\ \A j \in 1 .. Took : Takes(frags, prog[j], g[j - 1], g[j])
  /\ EndsAt(frags, g[Took])
  /\ \A l \in Labels :
       /\ l \in pending => Bears(g, l, Len(frags) + 1, 0)
       /\ l \notin pending /\ sym[l] # Nowhere => Bears(g, l, sym[l].frag, sym[l].off)
Streaming ==
  /\ Took \in 0 .. Len(prog)
  /\ pending # {} => pc = "emit" /\ ~ InData
  /\ \E g \in [0 .. Took -> Places] : Streamed(g)

LEMMA InitStreaming == Init => Streaming
<1> SUFFICES ASSUME Init PROVE Streaming
  OBVIOUS
<1> DEFINE g == [j \in 0 .. 0 |-> Place(1, 0, 0)]
<1>1. Took = 0 /\ Len(prog) \in Nat
  <2>1. prog \in Seq(Statement)
    BY ProgramsAreStatements DEF Init
  <2> QED
    BY <2>1 DEF Init, Took
<1>2. frags = <<>> /\ Len(frags) = 0 /\ pending = {} /\ \A l \in Labels : sym[l] = Nowhere
  BY DEF Init
<1>3. Place(1, 0, 0) \in Places
  BY DEF Place, Places
<1>4. g \in [0 .. 0 -> Places] /\ g[0] = Place(1, 0, 0)
  BY <1>3
<1> HIDE DEF g
<1>5. EndsAt(frags, g[0])
  BY <1>2, <1>4 DEF EndsAt, EndsInData
<1>6. Streamed(g)
  BY <1>1, <1>2, <1>4, <1>5 DEF Streamed
<1> QED
  BY <1>1, <1>2, <1>4, <1>6 DEF Streaming

(* A statement more.                                                       *)
LEMMA EmitStreaming ==
  ASSUME Typed, Typed', Streaming,
         EmitInstToData \/ EmitInstToFragment \/ EmitSpace \/ EmitLabel
  PROVE  Streaming'
<1> DEFINE T == Took
           s == prog[cur]
<1>0. /\ pc = "emit" /\ pc' = "emit" /\ cur' = cur + 1 /\ cur \in 1 .. Len(prog)
      /\ UNCHANGED prog /\ cur \in Nat /\ Len(prog) \in Nat /\ prog \in Seq(Statement)
  <2>1. pc = "emit" /\ cur <= Len(prog) /\ Emitted
    BY DEF EmitInstToData, EmitInstToFragment, EmitSpace, EmitLabel, Emitting
  <2> QED
    BY <2>1 DEF Emitted, Typed, TypeOK, Linked
<1>1. T = cur - 1 /\ T \in Nat /\ Took' = cur /\ T + 1 = cur
  BY <1>0 DEF Took
<1>2. frags \in Seq(Fragment) /\ frags' \in Seq(Fragment) /\ Len(frags) \in Nat
  BY DEF Typed, TypeOK
<1>3. PICK g \in [0 .. T -> Places] : Streamed(g)
  BY DEF Streaming
<1>4. /\ g[0] = Place(1, 0, 0) /\ EndsAt(frags, g[T]) /\ g[T] \in Places
      /\ \A j \in 1 .. T : Takes(frags, prog[j], g[j - 1], g[j])
      /\ \A l \in Labels :
           /\ l \in pending => Bears(g, l, Len(frags) + 1, 0)
           /\ l \notin pending /\ sym[l] # Nowhere => Bears(g, l, sym[l].frag, sym[l].off)
  BY <1>1, <1>3 DEF Streamed
<1>5. Grown(frags, frags')
  BY <1>4, Taken
<1>6. PICK q \in Places : Takes(frags', s, g[T], q) /\ EndsAt(frags', q)
  BY <1>4, Taken
<1> PICK C \in Nat : C = cur
  BY <1>0
<1> DEFINE h == [j \in 0 .. C |-> IF j = C THEN q ELSE g[j]]
<1>7. h \in [0 .. C -> Places] /\ h[0] = g[0] /\ h[C] = q /\ \A j \in 0 .. C - 1 : h[j] = g[j]
  BY <1>0, <1>1, <1>3
<1> HIDE DEF h
<1>8. \A j \in 1 .. C : Takes(frags', prog'[j], h[j - 1], h[j])
  <2> SUFFICES ASSUME NEW j \in 1 .. C PROVE Takes(frags', prog[j], h[j - 1], h[j])
    BY <1>0
  <2>1. CASE j = C
    BY <1>0, <1>1, <1>6, <1>7, <2>1
  <2>2. CASE j # C
    <3>1. j \in 1 .. T /\ j - 1 \in 0 .. T /\ j \in 0 .. T /\ T = C - 1
      BY <1>0, <1>1, <2>2
    <3>2. prog[j] \in Statement /\ g[j] \in Places /\ g[j - 1] \in Places
      BY <1>0, <1>1, <1>3, <3>1
    <3>3. Takes(frags, prog[j], g[j - 1], g[j])
      BY <1>4, <3>1
    <3>4. Takes(frags', prog[j], g[j - 1], g[j])
      <4> HIDE DEF T
      <4> QED BY <1>2, <1>5, <3>2, <3>3, TakesStays
    <3> QED
      BY <1>7, <3>1, <3>4
  <2> QED
    BY <2>1, <2>2
<1> DEFINE B(l, i, o) == \E j \in 1 .. C : prog[j].op = "label" /\ prog[j].name = l
                                           /\ h[j].frag = i /\ h[j].off = o
<1>9. ASSUME NEW l, NEW i, NEW o, Bears(g, l, i, o) PROVE B(l, i, o)
  <2>1. PICK j \in 1 .. T : Defined(l, j) /\ g[j].frag = i /\ g[j].off = o
    BY <1>9 DEF Bears
  <2>2. j \in 1 .. C /\ h[j] = g[j]
    BY <1>0, <1>1, <1>7
  <2> QED
    BY <2>1, <2>2 DEF Defined
<1>10. ASSUME NEW l \in Labels
       PROVE  /\ l \in pending' => B(l, Len(frags') + 1, 0)
              /\ l \notin pending' /\ sym'[l] # Nowhere => B(l, sym'[l].frag, sym'[l].off)
  <2>1. /\ l \in pending => B(l, Len(frags) + 1, 0)
        /\ l \notin pending /\ sym[l] # Nowhere => B(l, sym[l].frag, sym[l].off)
    <3> HIDE DEF B
    <3> QED BY <1>4, <1>9
  <2>2. ASSUME NEW f, Insert(f)
        PROVE  /\ l \in pending' => B(l, Len(frags') + 1, 0)
               /\ l \notin pending' /\ sym'[l] # Nowhere => B(l, sym'[l].frag, sym'[l].off)
    <3>1. pending' = {} /\ sym'[l] = IF l \in pending THEN [frag |-> Len(frags) + 1, off |-> 0]
                                     ELSE sym[l]
      BY <2>2 DEF Insert, Flushed
    <3> HIDE DEF B
    <3>2. CASE l \in pending
      <4>1. sym'[l].frag = Len(frags) + 1 /\ sym'[l].off = 0
        BY <3>1, <3>2
      <4> QED BY <2>1, <3>1, <3>2, <4>1
    <3>3. CASE l \notin pending
      BY <2>1, <3>1, <3>3
    <3> QED
      BY <3>2, <3>3
  <2>3. CASE UNCHANGED <<sym, pending>> /\ Len(frags') = Len(frags)
    <3> HIDE DEF B
    <3> QED BY <2>1, <2>3
  <2>4. CASE EmitInstToData
    <3>1. CASE InData
      <4>1. UNCHANGED <<sym, pending>>
        BY <2>4, <3>1 DEF EmitInstToData
      <4>2. Len(frags') = Len(frags)
        <5>1. LastFrag \in 1 .. Len(frags)
          BY <1>2, <3>1 DEF InData, LastFrag
        <5>2. \E x, y : frags' = [frags EXCEPT ![LastFrag].size = x, ![LastFrag].fix = y]
          BY <2>4, <3>1 DEF EmitInstToData
        <5> QED
          BY <1>2, <5>1, <5>2
      <4> QED
        BY <2>3, <4>1, <4>2
    <3>2. CASE ~ InData
      <4>1. \E f : Insert(f)
        BY <2>4, <3>2 DEF EmitInstToData
      <4> HIDE DEF B
      <4> QED
        BY <2>2, <4>1
    <3> QED
      BY <3>1, <3>2
  <2>5. CASE EmitInstToFragment
    <3>1. \E f : Insert(f)
      BY <2>5 DEF EmitInstToFragment
    <3> HIDE DEF B
    <3> QED
      BY <2>2, <3>1
  <2>6. CASE EmitSpace
    <3>1. \E f : Insert(f)
      BY <2>6 DEF EmitSpace
    <3> HIDE DEF B
    <3> QED
      BY <2>2, <3>1
  <2>7. CASE EmitLabel
    <3>1. s.op = "label" /\ UNCHANGED frags /\ s \in Statement
      BY <2>7, AtHand DEF EmitLabel
    <3>2. h[C] = g[T] /\ C \in 1 .. C
      BY <1>0, <1>6, <1>7, <3>1 DEF Takes
    <3>3. CASE l # s.name
      <4>1. (l \in pending' <=> l \in pending) /\ sym'[l] = sym[l]
        BY <2>7, <3>3 DEF EmitLabel, Typed, TypeOK
      <4> HIDE DEF B
      <4> QED
        BY <2>1, <3>1, <4>1
    <3>4. CASE l = s.name
      <4>1. \A i, o : g[T].frag = i /\ g[T].off = o => B(l, i, o)
        BY <3>1, <3>2, <3>4
      <4>2. CASE InData
        <5>1. g[T].frag = Len(frags) /\ g[T].off = frags[Len(frags)].size
          BY <1>4, <4>2 DEF EndsAt, EndsInData, InData, Place
        <5>2. sym'[l] = [frag |-> LastFrag, off |-> frags[LastFrag].size] /\ pending' = pending
          BY <2>7, <3>4, <4>2 DEF EmitLabel, Typed, TypeOK
        <5>3. pending = {}
          BY <4>2 DEF Streaming
        <5>4. sym'[l].frag = g[T].frag /\ sym'[l].off = g[T].off
          BY <5>1, <5>2 DEF LastFrag
        <5> HIDE DEF B
        <5> QED
          BY <4>1, <5>2, <5>3, <5>4
      <4>3. CASE ~ InData
        <5>1. g[T].frag = Len(frags) + 1 /\ g[T].off = 0
          BY <1>4, <4>3 DEF EndsAt, EndsInData, InData, Place
        <5>2. l \in pending'
          BY <2>7, <3>4, <4>3 DEF EmitLabel
        <5> HIDE DEF B
        <5> QED
          BY <3>1, <4>1, <5>1, <5>2
      <4> QED
        BY <4>2, <4>3
    <3> QED
      BY <3>3, <3>4
  <2> HIDE DEF B
  <2> QED
    BY <2>4, <2>5, <2>6, <2>7
<1>11. Streamed(h)'
  <2>1. \A l, i, o : B(l, i, o) => Bears(h, l, i, o)'
    BY <1>0, <1>1 DEF Bears, Defined
  <2> HIDE DEF B
  <2>2. \A l \in Labels : 
           /\ l \in pending' => Bears(h, l, Len(frags) + 1, 0)'
           /\ l \notin pending' /\ sym'[l] # Nowhere => Bears(h, l, sym[l].frag, sym[l].off)'
    BY <1>10, <2>1 DEF Bears, Defined
  <2>3. EndsAt(frags', h[Took'])
    BY <1>1, <1>6, <1>7
  <2> QED
    BY <1>1, <1>4, <1>7, <1>8, <2>2, <2>3 DEF Streamed
<1>12. Took' \in 0 .. Len(prog')
  BY <1>0, <1>1
<1>13. pending' # {} => pc' = "emit" /\ ~ InData'
  <2>1. CASE \E f : Insert(f)
    BY <2>1 DEF Insert
  <2>2. CASE EmitInstToData /\ InData
    <3>1. pending' = {}
      BY <2>2 DEF EmitInstToData, Streaming
    <3> QED
      BY <3>1
  <2>3. CASE EmitLabel
    <3>1. InData => pending' = {}
      BY <2>3 DEF EmitLabel, Streaming
    <3>2. frags' = frags
      BY <2>3 DEF EmitLabel
    <3> QED
      BY <1>0, <3>1, <3>2 DEF InData
  <2> QED
    BY <2>1, <2>2, <2>3 DEF EmitInstToData, EmitInstToFragment, EmitSpace
<1> QED
  BY <1>1, <1>7, <1>11, <1>12, <1>13 DEF Streaming

(* When all statements are in, the places stay what they are, whatever     *)
(* comes behind the fragments and whichever jumps grow.                    *)
LEMMA StreamStays ==
  ASSUME Typed, Typed', Streaming, Grown(frags, frags'), UNCHANGED prog,
         Took = Len(prog), Took' = Len(prog), pending' = {},
         \A p \in Places : EndsAt(frags, p) => EndsAt(frags', p),
         \A l \in Labels :
           sym'[l] = IF l \in pending THEN [frag |-> Len(frags) + 1, off |-> 0] ELSE sym[l]
  PROVE  Streaming'
<1>0. /\ frags \in Seq(Fragment) /\ frags' \in Seq(Fragment) /\ prog \in Seq(Statement)
      /\ Len(prog) \in Nat
  BY DEF Typed, TypeOK
<1>1. PICK L \in Nat : L = Len(prog)
  BY <1>0
<1>2. PICK g \in [0 .. L -> Places] : Streamed(g)
  BY <1>1 DEF Streaming
<1>3. \A j \in 1 .. L : Takes(frags', prog'[j], g[j - 1], g[j])
  <2> SUFFICES ASSUME NEW j \in 1 .. L PROVE Takes(frags', prog[j], g[j - 1], g[j])
    OBVIOUS
  <2>0. j - 1 \in 0 .. L /\ j \in 0 .. L
    OBVIOUS
  <2>1. prog[j] \in Statement /\ g[j] \in Places /\ g[j - 1] \in Places
    <3>1. g[j] \in Places /\ g[j - 1] \in Places
      BY <2>0
    <3>2. prog[j] \in Statement
      BY <1>0, <1>1
    <3> QED
      BY <3>1, <3>2
  <2>2. Takes(frags, prog[j], g[j - 1], g[j])
    BY <1>1, <1>2 DEF Streamed
  <2> QED
    BY <1>0, <2>1, <2>2, TakesStays
<1>4. EndsAt(frags', g[L])
  BY <1>1, <1>2 DEF Streamed
<1>5. \A l, i, o : Bears(g, l, i, o) => Bears(g, l, i, o)'
  BY DEF Bears, Defined
<1>6. ASSUME NEW l \in Labels, sym'[l] # Nowhere
      PROVE  Bears(g, l, sym[l].frag, sym[l].off)'
  <2>1. CASE l \in pending
    <3>1. Bears(g, l, Len(frags) + 1, 0)
      BY <1>2, <2>1 DEF Streamed
    <3>2. sym'[l].frag = Len(frags) + 1 /\ sym'[l].off = 0
      BY <2>1
    <3> QED
      BY <3>1, <3>2 DEF Bears, Defined
  <2>2. CASE l \notin pending
    <3>1. sym'[l] = sym[l]
      BY <2>2
    <3>2. Bears(g, l, sym[l].frag, sym[l].off)
      BY <1>2, <1>6, <2>2, <3>1 DEF Streamed
    <3> QED
      BY <3>1, <3>2 DEF Bears, Defined
  <2> QED
    BY <2>1, <2>2
<1>7. Streamed(g)'
  <2>1. \A l \in Labels : 
           /\ l \in pending' => Bears(g, l, Len(frags) + 1, 0)'
           /\ l \notin pending' /\ sym'[l] # Nowhere => Bears(g, l, sym[l].frag, sym[l].off)'
    BY <1>6
  <2>2. g[0] = Place(1, 0, 0)
    BY <1>2 DEF Streamed
  <2> QED
    BY <1>1, <1>3, <1>4, <2>1, <2>2 DEF Streamed
<1> QED
  BY <1>0, <1>1, <1>7 DEF Streaming

LEMMA FinishStreaming == ASSUME Typed, Typed', Streaming, Finish PROVE Streaming'
<1>0. /\ frags \in Seq(Fragment) /\ frags' \in Seq(Fragment) /\ Len(frags) \in Nat
      /\ prog \in Seq(Statement) /\ Len(prog) \in Nat /\ cur \in Nat
  BY DEF Typed, TypeOK
<1>1. pc = "emit" /\ cur > Len(prog) /\ pc' = "relax" /\ UNCHANGED prog
  BY DEF Finish
<1>2. Took = Len(prog) /\ Took' = Len(prog)
  BY <1>0, <1>1 DEF Took, Streaming
<1>3. CASE Insert(Data(0, <<>>)) /\ ~ InData
  <2> DEFINE f == Data(0, <<>>)
             k == Len(frags) + 1
  <2>1. f \in Fragment /\ f.kind = "data" /\ f.size = 0 /\ f.fix = <<>> /\ Len(f.fix) = 0
    <3>1. <<>> \in Seq(Fixup) /\ Len(<<>>) = 0
      OBVIOUS
    <3> QED
      BY <3>1, NewFragments DEF Data
  <2>2. frags' = Append(frags, f) /\ pending' = {}
        /\ \A l \in Labels :
             sym'[l] = IF l \in pending THEN [frag |-> k, off |-> 0] ELSE sym[l]
    BY <1>3 DEF Insert, Flushed
  <2>3. ~ EndsInData(frags)
    BY <1>3 DEF EndsInData, InData
  <2>4. Place(k, 0, 0) \in Places /\ EndsAt(frags, Place(k, 0, 0))
    BY <1>0, <2>3 DEF Place, Places, EndsAt
  <2> HIDE DEF f
  <2>5. Grown(frags, frags') /\ Len(frags') = k /\ frags'[k] = f
    BY <1>0, <2>1, <2>2, <2>4, OneMore
  <2>6. EndsInData(frags') /\ frags'[Len(frags')].size = 0 /\ Len(frags'[Len(frags')].fix) = 0
    BY <1>0, <2>1, <2>5 DEF EndsInData
  <2>7. \A p \in Places : EndsAt(frags, p) => EndsAt(frags', p)
    BY <2>3, <2>5, <2>6 DEF EndsAt
  <2> QED
    BY <1>1, <1>2, <2>2, <2>5, <2>7, StreamStays
<1>4. CASE UNCHANGED <<frags, sym, pending>> /\ pending = {}
  <2>1. Grown(frags, frags')
    BY <1>0, <1>4 DEF Grown, GrownAt
  <2>2. \A p \in Places : EndsAt(frags, p) => EndsAt(frags', p)
    BY <1>4
  <2> QED
    BY <1>1, <1>2, <1>4, <2>1, <2>2, StreamStays
<1>5. pending # {} => ~ InData
  BY DEF Streaming
<1>6. frags = <<>> => ~ InData
  BY DEF InData
<1> QED
  BY <1>3, <1>4, <1>5, <1>6 DEF Finish

LEMMA RestStreaming ==
  ASSUME Typed, Typed', Streaming,
         \/ LayoutFragment \/ RelaxFragment \/ LayoutOnce \/ FinishLayout
         \/ ApplyFixup \/ NextFixups \/ Fixed \/ WriteObject
  PROVE  Streaming'
<1>0. /\ frags \in Seq(Fragment) /\ frags' \in Seq(Fragment) /\ Len(frags) \in Nat
      /\ prog \in Seq(Statement) /\ Len(prog) \in Nat
      /\ sym' = sym
  BY DEF Typed, TypeOK, LayoutFragment, RelaxFragment, LayoutOnce, FinishLayout, ApplyFixup,
         NextFixups, Fixed, WriteObject, stream
<1>1. UNCHANGED <<prog, sym, pending>> /\ pc # "emit" /\ pc' # "emit"
  BY DEF LayoutFragment, Laying, Wanted, RelaxFragment, LayoutOnce, Passed, FinishLayout,
         ApplyFixup, NextFixups, Fixed, WriteObject, Fail, stream
<1>2. Took = Len(prog) /\ Took' = Len(prog) /\ pending = {}
  BY <1>1 DEF Took, Streaming
<1>3. /\ Grown(frags, frags')
      /\ \A p \in Places : EndsAt(frags, p) => EndsAt(frags', p)
  <2>1. CASE UNCHANGED frags
    BY <1>0, <2>1 DEF Grown, GrownAt
  <2>2. CASE RelaxFragment /\ NeedsRelaxation(cur)
    <3>1. /\ cur \in 1 .. Len(frags) /\ frags[cur].kind = "short"
          /\ frags' = [frags EXCEPT ![cur] = Long(@)]
      BY <2>2 DEF Typed, TypeOK, Linked, RelaxFragment, NeedsRelaxation
    <3>2. /\ Len(frags') = Len(frags) /\ frags'[cur] = Long(frags[cur])
          /\ \A k \in 1 .. Len(frags) : k # cur => frags'[k] = frags[k]
      BY <1>0, <3>1
    <3>3. Grown(frags, frags')
      <4>1. ASSUME NEW k \in 1 .. Len(frags) PROVE GrownAt(frags, frags', k)
        <5>1. CASE k = cur
          BY <3>1, <3>2, <5>1 DEF GrownAt
        <5>2. CASE k # cur
          BY <3>2, <5>2 DEF GrownAt
        <5> QED
          BY <5>1, <5>2
      <4> QED
        BY <1>0, <3>2, <4>1 DEF Grown
    <3>4. Long(frags[cur]).kind = "long"
      BY <3>1, FragmentFixups, LongFragment
    <3>5. /\ EndsInData(frags') <=> EndsInData(frags)
          /\ EndsInData(frags) => frags'[Len(frags)] = frags[Len(frags)]
      <4>1. frags # <<>> /\ frags' # <<>> /\ Len(frags) \in 1 .. Len(frags)
        BY <1>0, <3>1, <3>2
      <4>2. CASE Len(frags) = cur
        <5>1. frags[Len(frags)].kind = "short" /\ frags'[Len(frags')].kind = "long"
          BY <3>1, <3>2, <3>4, <4>2
        <5> QED
          BY <5>1 DEF EndsInData
      <4>3. CASE Len(frags) # cur
        <5>1. frags'[Len(frags')] = frags[Len(frags)]
          BY <3>2, <4>1, <4>3
        <5> QED
          BY <3>2, <4>1, <5>1 DEF EndsInData
      <4> QED
        BY <4>2, <4>3
    <3> QED
      BY <3>2, <3>3, <3>5 DEF EndsAt
  <2> QED
    BY <2>1, <2>2 DEF LayoutFragment, RelaxFragment, LayoutOnce, FinishLayout, ApplyFixup,
         NextFixups, Fixed, WriteObject
<1> QED
  BY <1>1, <1>2, <1>3, StreamStays

LEMMA StutterStreaming == ASSUME Streaming, UNCHANGED vars PROVE Streaming'
<1>1. UNCHANGED <<prog, frags, sym, pending, pc, cur>>
  BY DEF vars
<1>2. PICK g \in [0 .. Took -> Places] : Streamed(g)
  BY DEF Streaming
<1>3. Took' = Took
  BY <1>1 DEF Took
<1>4. Streamed(g)'
  <2>1. \A l, i, o : Bears(g, l, i, o)' <=> Bears(g, l, i, o)
    BY <1>1, <1>3 DEF Bears, Defined
  <2>2. /\ g \in [0 .. Took' -> Places] /\ g[0] = Place(1, 0, 0)
        /\ \A j \in 1 .. Took' : Takes(frags', prog'[j], g[j - 1], g[j])
        /\ EndsAt(frags', g[Took'])
    BY <1>1, <1>2, <1>3 DEF Streamed
  <2>3. \A l \in Labels : 
           /\ l \in pending' => Bears(g, l, Len(frags) + 1, 0)'
           /\ l \notin pending' /\ sym'[l] # Nowhere => Bears(g, l, sym[l].frag, sym[l].off)'
    BY <1>1, <1>2, <1>3 DEF Streamed, Bears, Defined
  <2> QED
    BY <2>2, <2>3 DEF Streamed
<1> QED
  BY <1>1, <1>3, <1>4 DEF Streaming, InData

-----------------------------------------------------------------------------
\* What the fixups come to.

(* c counts the fixups of the fragments up to each.                        *)
Counts(F, c) ==
  /\ c \in [0 .. Len(F) -> Nat] /\ c[0] = 0
  /\ \A i \in 1 .. Len(F) : c[i] = c[i - 1] + Len(F[i].fix)

LEMMA CountsThere == ASSUME NEW F \in Seq(Fragment) PROVE \E c : Counts(F, c)
<1> DEFINE step == [i \in 1 .. Len(F) |-> [m \in Nat |-> m + Len(F[i].fix)]]
           L == Len(F)
<1>1. L \in Nat /\ \A i \in 1 .. L : Len(F[i].fix) \in Nat
  <2>1. L \in Nat /\ \A i \in 1 .. L : F[i] \in Fragment
    OBVIOUS
  <2>2. \A i \in 1 .. L : F[i].fix \in Seq(Fixup)
    BY <2>1, FragmentFields
  <2> QED
    BY <2>1, <2>2
<1>2. step \in Steps(Nat, L)
  BY <1>1 DEF Steps
<1>3. PICK c \in Recursive(Nat, 0, L, step) : TRUE
  <2> HIDE DEF step, L
  <2> QED BY <1>1, <1>2, RecursionExists
<1>4. c \in [0 .. L -> Nat] /\ c[0] = 0 /\ \A i \in 1 .. L : c[i] = step[i][c[i - 1]]
  BY <1>3 DEF Recursive
<1>5. ASSUME NEW i \in 1 .. L PROVE c[i] = c[i - 1] + Len(F[i].fix)
  <2>1. i - 1 \in 0 .. L
    BY <1>1
  <2>2. c[i - 1] \in Nat /\ c[i] = step[i][c[i - 1]]
    BY <1>4, <2>1
  <2> QED
    BY <2>2
<1> QED
  BY <1>4, <1>5 DEF Counts

LEMMA CountsGrow ==
  ASSUME NEW F \in Seq(Fragment), NEW c, Counts(F, c),
         NEW a \in 0 .. Len(F), NEW b \in 0 .. Len(F), a <= b
  PROVE  c[a] <= c[b]
<1>0. Len(F) \in Nat /\ \A i \in 0 .. Len(F) : c[i] \in Nat
  <2>1. Len(F) \in Nat
    OBVIOUS
  <2>2. c \in [0 .. Len(F) -> Nat]
    BY DEF Counts
  <2> QED
    BY <2>1, <2>2
<1> DEFINE T == {m \in Nat : a + m <= Len(F) => c[a] <= c[a + m]}
<1>1. 0 \in T
  BY <1>0
<1>2. ASSUME NEW m \in Nat, m \in T PROVE m + 1 \in T
  <2> SUFFICES ASSUME a + (m + 1) <= Len(F) PROVE c[a] <= c[a + (m + 1)]
    OBVIOUS
  <2>1. a + (m + 1) \in 1 .. Len(F) /\ (a + (m + 1)) - 1 = a + m /\ a + m \in 0 .. Len(F)
        /\ a + m <= Len(F) /\ a + (m + 1) \in 0 .. Len(F)
    BY <1>0
  <2>2. c[a] <= c[a + m]
    BY <1>2, <2>1
  <2>3. F[a + (m + 1)] \in Fragment
    BY <2>1
  <2>4. Len(F[a + (m + 1)].fix) \in Nat
    BY <2>3, FragmentFields
  <2>5. c[a + (m + 1)] = c[a + m] + Len(F[a + (m + 1)].fix)
    BY <2>1 DEF Counts
  <2> QED
    BY <1>0, <2>1, <2>2, <2>4, <2>5
<1>3. Nat \subseteq T
  <2>1. \A m \in Nat : m \in T => m + 1 \in T
    BY <1>2
  <2> HIDE DEF T
  <2> QED BY <1>1, <2>1, NatSetInduction
<1>4. b - a \in Nat /\ a + (b - a) = b /\ b <= Len(F)
  BY <1>0
<1>5. b - a \in T
  BY <1>3, <1>4
<1>6. \A m \in T : a + m <= Len(F) => c[a] <= c[a + m]
  OBVIOUS
<1> HIDE DEF T
<1> QED
  BY <1>4, <1>5, <1>6

(* Fixup x of fragment i was evaluated and its value written.              *)
Written(c, i, x) ==
  /\ Known(i, frags[i].fix[x])
  /\ code[c[i - 1] + x].value = Value(i, frags[i].fix[x])

(* ... and so were all before fixup y of fragment k, one after another.    *)
Before(i, x, k, y) == i < k \/ (i = k /\ x < y)
WrittenTo(k, y) ==
  \A c : Counts(frags, c) =>
    /\ Len(code) = c[k - 1] + y - 1
    /\ \A i \in 1 .. Len(frags) : \A x \in 1 .. Len(frags[i].fix) :
         Before(i, x, k, y) => Written(c, i, x)
AtFixup ==
  /\ cur \in 1 .. Len(frags) + 1
  /\ IF cur <= Len(frags) THEN fix \in 1 .. Len(frags[cur].fix) + 1 ELSE fix = 1
Coded ==
  /\ pc \in {"emit", "relax", "finish"} => code = <<>>
  /\ pc = "fix" => AtFixup /\ WrittenTo(cur, fix)
  /\ pc = "write" \/ (pc = "done" /\ err = "none") => WrittenTo(Len(frags) + 1, 1)
  /\ pc = "done" /\ err = "none" => ~ Blocked

(* While nothing is written yet.                                           *)
LEMMA EarlyCoded ==
  ASSUME Coded, \/ EmitInstToData \/ EmitInstToFragment \/ EmitSpace \/ EmitLabel \/ Finish
                \/ RelaxFragment \/ LayoutOnce
  PROVE  Coded'
<1>1. CASE EmitInstToData \/ EmitInstToFragment \/ EmitSpace \/ EmitLabel
  <2>1. pc = "emit" /\ Emitted
    BY <1>1 DEF EmitInstToData, EmitInstToFragment, EmitSpace, EmitLabel, Emitting
  <2> QED
    BY <2>1 DEF Emitted, Coded
<1>2. CASE Finish \/ RelaxFragment \/ LayoutOnce
  <2>1. /\ pc \in {"emit", "relax"} /\ pc' \in {"emit", "relax", "finish"} /\ code' = code
    BY <1>2 DEF Finish, RelaxFragment, LayoutOnce, Passed
  <2> QED
    BY <2>1 DEF Coded
<1> QED
  BY <1>1, <1>2

(* What is written stays written.                                          *)
LEMMA FixupStays ==
  ASSUME UNCHANGED <<frags, sym, laid>>, NEW i, NEW f
  PROVE  /\ Known(i, f)' = Known(i, f) /\ Value(i, f)' = Value(i, f)
         /\ Blocked' = Blocked
BY DEF Known, Blocked, Room, Pad, IsMissing, Valid, Needed, Value, LabelOffset

LEMMA WrittenStays ==
  ASSUME UNCHANGED <<frags, sym, laid, code>>, NEW k, NEW y
  PROVE  WrittenTo(k, y)' <=> WrittenTo(k, y)
<1>1. \A c, i, x : Written(c, i, x)' <=> Written(c, i, x)
  <2> SUFFICES ASSUME NEW c, NEW i, NEW x PROVE Written(c, i, x)' <=> Written(c, i, x)
    OBVIOUS
  <2> PICK f : f = frags[i].fix[x]
    OBVIOUS
  <2>1. Known(i, f)' = Known(i, f) /\ Value(i, f)' = Value(i, f)
    BY FixupStays
  <2> QED
    BY <2>1 DEF Written, Known, Blocked, Room, Pad, IsMissing, Valid, Needed, Value, LabelOffset
<1>2. frags' = frags /\ code' = code
  OBVIOUS
<1> QED
  BY <1>1, <1>2 DEF WrittenTo, Counts, Before

LEMMA LayoutFragmentCoded == ASSUME Typed, Coded, LayoutFragment PROVE Coded'
<1>0. UNCHANGED <<frags, pc, cur, fix, code, err>> /\ frags \in Seq(Fragment)
  BY DEF LayoutFragment, Typed, TypeOK
<1>1. ASSUME NEW k, NEW y, WrittenTo(k, y) PROVE WrittenTo(k, y)'
  <2> SUFFICES ASSUME NEW c, Counts(frags, c), NEW i \in 1 .. Len(frags),
                      NEW x \in 1 .. Len(frags[i].fix), Written(c, i, x)
               PROVE  Written(c, i, x)'
    BY <1>0, <1>1 DEF WrittenTo, Before
  <2>1. frags[i].fix[x] \in Fixup
    BY FragmentFixups
  <2> PICK f \in Fixup : f = frags[i].fix[x]
    BY <2>1
  <2>2. ~ Blocked
    BY DEF LayoutFragment, Laying
  <2>3. ~ IsMissing(f) /\ Valid(Needed(i, f))
    BY <2>2 DEF Written, Known
  <2>4. Known(i, f)' /\ Value(i, f)' = Value(i, f)
    <3>1. /\ IsMissing(f)' = IsMissing(f) /\ Needed(i, f)' = Needed(i, f)
          /\ Valid(Needed(i, f))' /\ Value(i, f)' = Value(i, f)
      BY <2>3, ValueStays
    <3> QED
      BY <2>3, <3>1 DEF Known
  <2>5. code[c[i - 1] + x].value = Value(i, f)
    BY DEF Written
  <2> QED
    BY <1>0, <2>4, <2>5 DEF Written, Known, Blocked, Room, Pad, IsMissing, Valid, Needed, Value, LabelOffset
<1>2. pc # "done"
  <2>1. Wanted # 0
    BY DEF LayoutFragment, Laying, Typed, TypeOK
  <2> QED
    BY <2>1 DEF Wanted
<1> QED
  BY <1>0, <1>1, <1>2 DEF Coded, AtFixup

LEMMA FixupsCoded ==
  ASSUME Typed, Coded, FinishLayout \/ ApplyFixup \/ NextFixups \/ Fixed \/ WriteObject
  PROVE  Coded'
<1>0. /\ UNCHANGED <<frags, sym, laid>> /\ frags \in Seq(Fragment) /\ Len(frags) \in Nat
      /\ cur \in Nat /\ fix \in Nat /\ pc \in {"finish", "fix", "write"}
  BY DEF FinishLayout, ApplyFixup, NextFixups, Fixed, WriteObject, stream, Typed, TypeOK
<1>1. CASE FinishLayout
  <2>1. code = <<>> /\ Len(code) = 0 /\ pc' = "fix" /\ cur' = 1 /\ fix' = 1 /\ code' = code
    BY <1>1 DEF FinishLayout, Coded
  <2>2. AtFixup'
    <3>1. Len(frags) >= 1 => Len(frags[1].fix) \in Nat
      BY <1>0, FragmentFixups
    <3> QED
      BY <1>0, <2>1, <3>1 DEF AtFixup
  <2>3. WrittenTo(1, 1)'
    BY <1>0, <2>1 DEF WrittenTo, Before, Counts
  <2> QED
    BY <2>1, <2>2, <2>3 DEF Coded, WrittenTo
<1>2. CASE ApplyFixup
  <2> PICK k \in Nat : k = cur
    BY <1>0
  <2> PICK y \in Nat : y = fix
    BY <1>0
  <2>1. /\ pc = "fix" /\ k \in 1 .. Len(frags) /\ y \in 1 .. Len(frags[k].fix) /\ cur' = k
        /\ AtFixup /\ WrittenTo(k, y)
    BY <1>0, <1>2 DEF ApplyFixup, Coded, AtFixup
  <2>2. frags[k].fix[y] \in Fixup
    BY <2>1, FragmentFixups
  <2> PICK f \in Fixup : f = frags[k].fix[y]
    BY <2>2
  <2>3. CASE FixupError(k, f) # "none" \/ ~ Fits(f, Value(k, f))
    <3>1. pc' = "done" /\ err' # "none"
      BY <1>2, <2>3 DEF ApplyFixup, Fail
    <3> QED
      BY <3>1 DEF Coded
  <2>4. CASE FixupError(k, f) = "none" /\ Fits(f, Value(k, f))
    <3> PICK v : v = Value(k, f)
      OBVIOUS
    <3> DEFINE r == [frag |-> k, fix |-> y, value |-> v]
    <3>1. pc' = "fix" /\ fix' = y + 1 /\ code' = Append(code, r)
      BY <1>2, <2>1, <2>4 DEF ApplyFixup
    <3>2. v \in Int
      BY <2>1, <2>4, ValueIsInt
    <3>3. AtFixup'
      <4>1. Len(frags[k].fix) \in Nat
        BY <2>1, FragmentFixups
      <4> QED
        BY <1>0, <2>1, <3>1, <4>1 DEF AtFixup
    <3>4. Known(k, f)' /\ Value(k, f)' = v
      <4>1. Known(k, f)
        BY <1>2, <2>4, AppliedIsKnown
      <4> QED
        BY <1>0, <4>1, FixupStays
    <3>5. ASSUME NEW c, Counts(frags, c)
          PROVE  /\ Len(code') = c[k - 1] + (y + 1) - 1
                 /\ \A i \in 1 .. Len(frags) : \A x \in 1 .. Len(frags[i].fix) :
                      Before(i, x, k, y + 1) => Written(c, i, x)'
      <4>1. /\ \A m \in 0 .. Len(frags) : c[m] \in Nat
            /\ \A m \in 1 .. Len(frags) : c[m] = c[m - 1] + Len(frags[m].fix)
            /\ \A m \in 1 .. Len(frags) : Len(frags[m].fix) \in Nat /\ m - 1 \in 0 .. Len(frags)
        <5>1. \A m \in 1 .. Len(frags) : Len(frags[m].fix) \in Nat
          BY FragmentFixups
        <5>2. c \in [0 .. Len(frags) -> Nat]
          BY <3>5 DEF Counts
        <5>3. \A m \in 1 .. Len(frags) : c[m] = c[m - 1] + Len(frags[m].fix)
          BY <3>5 DEF Counts
        <5>4. \A m \in 1 .. Len(frags) : m - 1 \in 0 .. Len(frags)
          BY <1>0
        <5> QED
          BY <5>1, <5>2, <5>3, <5>4
      <4>0. PICK n \in Nat : n = c[k - 1] + y - 1 /\ c[k - 1] <= n /\ c[k - 1] \in Nat
        <5>1. c[k - 1] \in Nat
          BY <1>0, <2>1, <4>1
        <5>2. y \in Nat /\ y >= 1
          BY <2>1
        <5> DEFINE n == c[k - 1] + y - 1
        <5>3. n \in Nat /\ c[k - 1] <= n
          BY <5>1, <5>2
        <5> QED
          BY <5>1, <5>3
      <4>2. Len(code) = n
        BY <1>0, <2>1, <3>5, <4>0 DEF WrittenTo
      <4>3. code \in Seq([frag : Nat, fix : Nat, value : Int])
        BY DEF Typed, TypeOK
      <4>4. r \in [frag : Nat, fix : Nat, value : Int] /\ r.value = v
        BY <3>2
      <4> HIDE DEF r
      <4>5. /\ Len(code') = n + 1 /\ code'[n + 1] = r
            /\ \A m \in 1 .. n : code'[m] = code[m]
        BY <3>1, <4>0, <4>2, <4>3, <4>4, AppendProperties
      <4>6. ASSUME NEW i \in 1 .. Len(frags), NEW x \in 1 .. Len(frags[i].fix),
                   Before(i, x, k, y + 1)
            PROVE  Written(c, i, x)'
        <5>1. CASE i = k /\ x = y
          <6>1. c[i - 1] + x = n + 1
            BY <1>0, <2>1, <4>0, <4>1, <5>1
          <6>2. code'[c[i - 1] + x].value = v
            BY <4>4, <4>5, <6>1
          <6>3. frags'[i].fix[x] = f
            BY <1>0, <5>1
          <6> QED
            BY <3>4, <5>1, <6>2, <6>3
               DEF Written, Known, Blocked, Room, Pad, IsMissing, Valid, Needed, Value,
                   LabelOffset
        <5>2. CASE Before(i, x, k, y)
          <6>1. Written(c, i, x)
            BY <2>1, <3>5, <5>2 DEF WrittenTo
          <6>2. c[i - 1] + x \in 1 .. n
            <7>1. CASE i < k
              <8>1. i \in 0 .. Len(frags) /\ k - 1 \in 0 .. Len(frags) /\ i <= k - 1
                BY <1>0, <2>1, <7>1
              <8>2. c[i] <= c[k - 1]
                BY <1>0, <3>5, <8>1, CountsGrow
              <8>3. /\ c[i] = c[i - 1] + Len(frags[i].fix) /\ Len(frags[i].fix) \in Nat
                    /\ c[i - 1] \in Nat /\ c[i] \in Nat /\ c[k - 1] \in Nat
                BY <4>1, <8>1
              <8>4. x \in Nat /\ x >= 1 /\ x <= Len(frags[i].fix)
                BY <8>3
              <8>5. c[i - 1] + x <= c[i] /\ c[i - 1] + x >= 1 /\ c[i - 1] + x \in Nat
                BY <8>3, <8>4
              <8> QED
                BY <4>0, <8>2, <8>3, <8>5, SMTT(30)
            <7>2. CASE i = k /\ x < y
              <8>1. c[i - 1] \in Nat /\ x \in Nat /\ x >= 1
                BY <4>0, <4>1, <7>2
              <8> QED
                BY <4>0, <7>2, <8>1
            <7> QED
              BY <5>2, <7>1, <7>2 DEF Before
          <6>3. code'[c[i - 1] + x] = code[c[i - 1] + x]
            BY <4>5, <6>2
          <6>4. frags' = frags /\ sym' = sym /\ laid' = laid
            BY <1>0
          <6> QED
            BY <6>1, <6>3, <6>4
               DEF Written, Known, Blocked, Room, Pad, IsMissing, Valid, Needed, Value,
                   LabelOffset
        <5>3. Before(i, x, k, y) \/ (i = k /\ x = y)
          <6>1. Len(frags[i].fix) \in Nat
            BY <4>1
          <6> QED
            BY <1>0, <4>6, <6>1 DEF Before
        <5> QED
          BY <5>1, <5>2, <5>3
      <4>7. n + 1 = c[k - 1] + (y + 1) - 1
        BY <4>0
      <4> QED
        BY <4>5, <4>6, <4>7
    <3>6. WrittenTo(k, y + 1)'
      <4>1. frags' = frags
        BY <1>0
      <4> QED
        BY <3>5, <4>1 DEF WrittenTo
    <3>7. WrittenTo(cur, fix)'
      <4>1. cur' = k /\ fix' = y + 1
        BY <2>1, <3>1
      <4> QED
        BY <3>6, <4>1 DEF WrittenTo, Before
    <3>8. pc' = "fix"
      BY <3>1
    <3> QED
      BY <3>3, <3>7, <3>8 DEF Coded
  <2> QED
    BY <2>3, <2>4
<1>3. CASE NextFixups
  <2> PICK k \in Nat : k = cur
    BY <1>0
  <2> PICK y \in Nat : y = fix
    BY <1>0
  <2>1. /\ pc = "fix" /\ pc' = "fix" /\ cur' = k + 1 /\ fix' = 1 /\ code' = code
        /\ k \in 1 .. Len(frags) /\ y > Len(frags[k].fix) /\ AtFixup /\ WrittenTo(k, y)
    BY <1>0, <1>3 DEF NextFixups, Coded, AtFixup
  <2>2. \A m \in 1 .. Len(frags) : Len(frags[m].fix) \in Nat
    BY FragmentFixups
  <2>3. y = Len(frags[k].fix) + 1
    BY <1>0, <2>1, <2>2 DEF AtFixup
  <2>4. AtFixup'
    <3>1. k + 1 <= Len(frags) => Len(frags[k + 1].fix) \in Nat
      BY <1>0, <2>2
    <3> QED
      BY <1>0, <2>1, <3>1 DEF AtFixup
  <2>5. WrittenTo(k + 1, 1)
    <3> SUFFICES ASSUME NEW c, Counts(frags, c)
                 PROVE  /\ Len(code) = c[(k + 1) - 1] + 1 - 1
                        /\ \A i \in 1 .. Len(frags) : \A x \in 1 .. Len(frags[i].fix) :
                             Before(i, x, k + 1, 1) => Written(c, i, x)
      BY DEF WrittenTo
    <3>1. /\ Len(code) = c[k - 1] + y - 1
          /\ c[k] = c[k - 1] + Len(frags[k].fix)
      BY <1>0, <2>1 DEF WrittenTo, Counts
    <3>2. c[k - 1] \in Nat
      <4>1. c \in [0 .. Len(frags) -> Nat] /\ k - 1 \in 0 .. Len(frags)
        BY <1>0, <2>1 DEF Counts
      <4> QED
        BY <4>1
    <3>3. Len(code) = c[(k + 1) - 1] + 1 - 1
      <4>1. (k + 1) - 1 = k /\ c[k] + 1 - 1 = c[k - 1] + y - 1
        BY <2>1, <2>2, <2>3, <3>1, <3>2
      <4> QED
        BY <3>1, <4>1
    <3>4. ASSUME NEW i \in 1 .. Len(frags), NEW x \in 1 .. Len(frags[i].fix),
                 Before(i, x, k + 1, 1)
          PROVE  Written(c, i, x)
      <4>1. Before(i, x, k, y)
        <5>1. i < k \/ i = k
          BY <1>0, <2>2, <3>4 DEF Before
        <5>2. i = k => x < y
          BY <2>2, <2>3
        <5> QED
          BY <5>1, <5>2 DEF Before
      <4> QED
        BY <2>1, <4>1 DEF WrittenTo
    <3> QED
      BY <3>3, <3>4
  <2>6. WrittenTo(k + 1, 1)'
    <3> PICK m \in Nat : m = k + 1
      BY <1>0
    <3> QED
      BY <1>0, <2>1, <2>5, WrittenStays
  <2>7. WrittenTo(cur, fix)'
    <3>1. cur' = k + 1 /\ fix' = 1
      BY <2>1
    <3> QED
      BY <2>6, <3>1 DEF WrittenTo, Before
  <2> QED
    BY <2>1, <2>4, <2>7 DEF Coded
<1>4. CASE Fixed
  <2>1. pc' = "write" /\ code' = code /\ cur = Len(frags) + 1 /\ fix = 1 /\ WrittenTo(cur, fix)
    BY <1>0, <1>4 DEF Fixed, Coded, AtFixup
  <2>2. WrittenTo(Len(frags) + 1, 1)'
    <3> PICK k \in Nat : k = Len(frags) + 1
      BY <1>0
    <3>1. WrittenTo(k, 1)'
      BY <1>0, <2>1, WrittenStays
    <3> QED
      BY <1>0, <3>1 DEF WrittenTo
  <2> QED
    BY <2>1, <2>2 DEF Coded
<1>5. CASE WriteObject
  <2>1. pc' = "done" /\ code' = code /\ WrittenTo(Len(frags) + 1, 1)
    BY <1>5 DEF WriteObject, Fail, Coded
  <2>2. WrittenTo(Len(frags) + 1, 1)'
    <3> PICK k \in Nat : k = Len(frags) + 1
      BY <1>0
    <3>1. WrittenTo(k, 1)'
      BY <1>0, <2>1, WrittenStays
    <3> QED
      BY <1>0, <3>1 DEF WrittenTo
  <2>3. err' = "none" => ~ Blocked'
    <3>1. Blocked' = Blocked
      BY <1>0, FixupStays
    <3>2. Blocked => err' = "fragment"
      BY <1>5 DEF WriteObject, Fail
    <3> QED
      BY <3>1, <3>2
  <2> QED
    BY <2>1, <2>2, <2>3 DEF Coded
<1> QED
  BY <1>1, <1>2, <1>3, <1>4, <1>5

LEMMA StutterCoded == ASSUME Coded, UNCHANGED vars PROVE Coded'
<1>1. /\ pc' = pc /\ cur' = cur /\ fix' = fix /\ err' = err /\ code' = code /\ frags' = frags
      /\ sym' = sym /\ laid' = laid
  BY DEF vars
<1>2. AtFixup => AtFixup'
  BY <1>1 DEF AtFixup
<1>3. WrittenTo(cur, fix) => WrittenTo(cur, fix)'
  <2> SUFFICES ASSUME NEW k, NEW y, k = cur, y = fix, WrittenTo(k, y) PROVE WrittenTo(cur, fix)'
    OBVIOUS
  <2>1. WrittenTo(k, y)'
    BY <1>1, WrittenStays
  <2> QED
    BY <1>1, <2>1 DEF WrittenTo, Before
<1>4. WrittenTo(Len(frags) + 1, 1) => WrittenTo(Len(frags) + 1, 1)'
  <2> SUFFICES ASSUME NEW k, k = Len(frags) + 1, WrittenTo(k, 1) PROVE WrittenTo(Len(frags) + 1, 1)'
    OBVIOUS
  <2>1. WrittenTo(k, 1)'
    BY <1>1, WrittenStays
  <2> QED
    BY <1>1, <2>1 DEF WrittenTo, Before
<1>5. Blocked' = Blocked
  BY <1>1, FixupStays
<1> QED
  BY <1>1, <1>2, <1>3, <1>4, <1>5 DEF Coded

-----------------------------------------------------------------------------
\* Where the displacements lead.

(* The places of the whole program.                                        *)
Through(g) ==
  /\ g \in [0 .. Len(prog) -> Places] /\ g[0] = Place(1, 0, 0)
  /\ \A j \in 1 .. Len(prog) : Takes(frags, prog[j], g[j - 1], g[j])
  /\ EndsAt(frags, g[Len(prog)])

LEMMA StatementThere ==
  ASSUME Typed, NEW g, Through(g), NEW j \in 1 .. Len(prog)
  PROVE  /\ prog[j] \in Statement /\ g[j - 1] \in Places /\ g[j] \in Places
         /\ Takes(frags, prog[j], g[j - 1], g[j])
         /\ prog[j].op \in {"insn", "call", "jump", "label", "fill", "org", "align"}
         /\ j - 1 \in 0 .. Len(prog) /\ j \in 0 .. Len(prog)
<1>1. prog \in Seq(Statement) /\ Len(prog) \in Nat
  BY DEF Typed, TypeOK
<1>2. j - 1 \in 0 .. Len(prog) /\ j \in 0 .. Len(prog)
  BY <1>1
<1>3. g[j - 1] \in Places /\ g[j] \in Places /\ Takes(frags, prog[j], g[j - 1], g[j])
  BY <1>2 DEF Through
<1>4. prog[j] \in Statement
  BY <1>1
<1> QED
  BY <1>2, <1>3, <1>4 DEF Statement

(* The fields of a place.                                                  *)
LEMMA PlaceFields ==
  /\ \A p \in Places : p.frag \in Nat \ {0} /\ p.off \in Nat /\ p.nth \in Nat
  /\ \A i, o, x : Place(i, o, x).frag = i /\ Place(i, o, x).off = o /\ Place(i, o, x).nth = x
BY DEF Places, Place

(* What is counted up to a fragment, and its offset, are the same at the   *)
(* place where it begins.                                                  *)
LEMMA BeginsThere ==
  ASSUME Typed, NEW c, Counts(frags, c), NEW p \in Places, NEW k \in 1 .. Len(frags),
         Begins(frags, p, k)
  PROVE  /\ p.frag \in 1 .. k
         /\ Upto(JumpFrags, k - 1) = Upto(JumpFrags, p.frag - 1)
         /\ c[k - 1] = c[p.frag - 1] + p.nth
         /\ first = 0 /\ OffsetsAreSums /\ k <= Len(laid) => laid[k] = laid[p.frag] + p.off
<1>0. Len(frags) \in Nat /\ Len(laid) \in Nat /\ laid \in Seq(Int)
  BY DEF Typed, TypeOK
<1>1. /\ c \in [0 .. Len(frags) -> Nat]
      /\ \A i \in 1 .. Len(frags) : c[i] = c[i - 1] + Len(frags[i].fix)
  BY DEF Counts
<1>2. p.frag \in Nat \ {0} /\ p.off \in Nat /\ p.nth \in Nat
  BY PlaceFields
<1>3. CASE p = Place(k, 0, 0)
  <2>1. p.frag = k /\ p.off = 0 /\ p.nth = 0
    BY <1>3, PlaceFields
  <2>2. c[k - 1] = c[k - 1] + 0
    <3>1. k - 1 \in 0 .. Len(frags)
      BY <1>0
    <3> QED
      BY <1>1, <3>1
  <2>3. k <= Len(laid) => laid[k] = laid[k] + 0
    <3>1. k <= Len(laid) => k \in 1 .. Len(laid)
      BY <1>0
    <3> QED
      BY <1>0, <3>1
  <2> QED
    BY <2>1, <2>2, <2>3
<1>4. CASE k = p.frag + 1 /\ frags[p.frag].kind = "data"
           /\ p.off = frags[p.frag].size /\ p.nth = Len(frags[p.frag].fix)
  <2>1. p.frag \in 1 .. k /\ p.frag \in 1 .. Len(frags) /\ k - 1 = p.frag
    BY <1>0, <1>2, <1>4
  <2>2. Upto(JumpFrags, k - 1) = Upto(JumpFrags, p.frag - 1)
    <3>1. JumpFrags \in SUBSET (1 .. Len(frags))
      BY DEF JumpFrags
    <3>2. p.frag \notin JumpFrags
      BY <1>4 DEF JumpFrags
    <3>3. /\ \A m \in 0 .. Len(frags) : Upto(JumpFrags, m) \in Nat
          /\ \A m \in 1 .. Len(frags) :
               Upto(JumpFrags, m) = Upto(JumpFrags, m - 1) + IF m \in JumpFrags THEN 1 ELSE 0
      BY <1>0, <3>1, UptoSteps
    <3>4. p.frag - 1 \in 0 .. Len(frags)
      BY <1>0, <2>1
    <3> QED
      BY <2>1, <3>2, <3>3, <3>4
  <2>3. c[k - 1] = c[p.frag - 1] + p.nth
    BY <1>1, <1>4, <2>1
  <2>4. ASSUME first = 0, OffsetsAreSums, k <= Len(laid) PROVE laid[k] = laid[p.frag] + p.off
    <3>1. k \in 1 .. Len(laid) /\ k # 1
      BY <1>0, <2>1, <2>4
    <3>2. IsSum(k)
      BY <2>4, <3>1 DEF OffsetsAreSums
    <3>3. Room(frags[p.frag], laid[p.frag]) = frags[p.frag].size
      BY <1>4 DEF Room
    <3> QED
      BY <1>4, <2>1, <3>1, <3>2, <3>3 DEF IsSum
  <2> QED
    BY <2>1, <2>2, <2>3, <2>4
<1> QED
  BY <1>3, <1>4 DEF Begins

(* The fragment of its own that a jump or directive has.                   *)
Own(g, j, k) ==
  /\ k \in 1 .. Len(frags)
  /\ g[j] = Place(k + 1, 0, 0) /\ Begins(frags, g[j - 1], k) /\ Made(frags[k], prog[j])

LEMMA OwnThere ==
  ASSUME Typed, NEW g, Through(g), NEW j \in 1 .. Len(prog),
         prog[j].op \in {"jump", "fill", "org", "align"}
  PROVE  \E k : Own(g, j, k)
BY StatementThere DEF Takes, Own

(* The statements of a kind up to one are what the fragments hold of it    *)
(* up to the place behind it.                                              *)
Ranked(g, c, j) ==
  /\ g[j].frag \in 1 .. Len(frags) + 1
  /\ Upto(Jumps, j) = Upto(JumpFrags, g[j].frag - 1)
  /\ Upto(Transfers, j) = c[g[j].frag - 1] + g[j].nth

LEMMA RankStep ==
  ASSUME Typed, NEW g, Through(g), NEW c, Counts(frags, c), NEW j \in 1 .. Len(prog),
         Ranked(g, c, j - 1)
  PROVE  Ranked(g, c, j)
<1> DEFINE s == prog[j]
<1>0. Len(frags) \in Nat /\ Len(prog) \in Nat
  BY DEF Typed, TypeOK
<1> PICK p \in Places : p = g[j - 1]
  BY StatementThere
<1> PICK q \in Places : q = g[j]
  BY StatementThere
<1>1. /\ s \in Statement /\ Takes(frags, s, p, q)
      /\ s.op \in {"insn", "call", "jump", "label", "fill", "org", "align"}
  BY StatementThere
<1>2. /\ p.frag \in Nat \ {0} /\ p.nth \in Nat /\ q.nth \in Nat
      /\ p.frag \in 1 .. Len(frags) + 1
      /\ Upto(Jumps, j - 1) = Upto(JumpFrags, p.frag - 1)
      /\ Upto(Transfers, j - 1) = c[p.frag - 1] + p.nth
  BY PlaceFields DEF Ranked
<1>3. /\ c \in [0 .. Len(frags) -> Nat]
      /\ \A i \in 1 .. Len(frags) : c[i] = c[i - 1] + Len(frags[i].fix)
  BY DEF Counts
<1>4. c[p.frag - 1] \in Nat
  <2>1. p.frag - 1 \in 0 .. Len(frags)
    BY <1>0, <1>2
  <2> QED
    BY <1>3, <2>1
<1>5. Upto(Jumps, j) = Upto(Jumps, j - 1) + IF s.op = "jump" THEN 1 ELSE 0
  <2>1. Jumps \in SUBSET (1 .. Len(prog)) /\ (j \in Jumps <=> s.op = "jump")
    BY DEF Jumps
  <2>2. Upto(Jumps, j) = Upto(Jumps, j - 1) + IF j \in Jumps THEN 1 ELSE 0
    BY <1>0, <2>1, UptoSteps
  <2> QED
    BY <2>1, <2>2
<1>6. Upto(Transfers, j) = Upto(Transfers, j - 1) + IF s.op \in {"jump", "call"} THEN 1 ELSE 0
  <2>1. Transfers \in SUBSET (1 .. Len(prog)) /\ (j \in Transfers <=> s.op \in {"jump", "call"})
    BY DEF Transfers
  <2>2. Upto(Transfers, j) = Upto(Transfers, j - 1) + IF j \in Transfers THEN 1 ELSE 0
    BY <1>0, <2>1, UptoSteps
  <2> QED
    BY <2>1, <2>2
<1>7. JumpFrags \in SUBSET (1 .. Len(frags))
      /\ \A m \in 0 .. Len(frags) : Upto(JumpFrags, m) \in Nat
  <2>1. JumpFrags \in SUBSET (1 .. Len(frags))
    BY DEF JumpFrags
  <2> QED
    BY <1>0, <2>1, UptoSteps
<1>8. Upto(JumpFrags, p.frag - 1) \in Nat
  <2>1. p.frag - 1 \in 0 .. Len(frags)
    BY <1>0, <1>2
  <2> QED
    BY <1>7, <2>1
<1> HIDE DEF s
<1>9. CASE s.op \in {"insn", "label", "call"}
  <2>1. q.frag = p.frag /\ q.nth = p.nth + IF s.op = "call" THEN 1 ELSE 0
    <3>1. CASE s.op = "insn"
      <4>1. q = Place(p.frag, p.off + s.size, p.nth)
        BY <1>1, <3>1 DEF Takes
      <4> QED
        BY <1>2, <3>1, <4>1, PlaceFields
    <3>2. CASE s.op = "call"
      <4>1. q = Place(p.frag, p.off + 5, p.nth + 1)
        BY <1>1, <3>2 DEF Takes
      <4> QED
        BY <1>2, <3>2, <4>1, PlaceFields
    <3>3. CASE s.op = "label"
      <4>1. q = p
        BY <1>1, <3>3 DEF Takes
      <4> QED
        BY <1>2, <3>3, <4>1
    <3> QED
      BY <1>9, <3>1, <3>2, <3>3
  <2>2. Upto(Jumps, j) = Upto(JumpFrags, q.frag - 1)
    BY <1>2, <1>5, <1>8, <1>9, <2>1
  <2>3. Upto(Transfers, j) = c[q.frag - 1] + q.nth
    BY <1>2, <1>4, <1>6, <1>9, <2>1
  <2> QED
    BY <1>2, <2>1, <2>2, <2>3 DEF Ranked
<1>10. CASE s.op \in {"jump", "fill", "org", "align"}
  <2>1. PICK k \in 1 .. Len(frags) : /\ q = Place(k + 1, 0, 0) /\ Begins(frags, p, k)
                                     /\ Made(frags[k], s)
    BY <1>1, <1>10 DEF Takes
  <2>2. /\ Upto(JumpFrags, k - 1) = Upto(JumpFrags, p.frag - 1)
        /\ c[k - 1] = c[p.frag - 1] + p.nth
    BY <2>1, BeginsThere
  <2>3. q.frag = k + 1 /\ q.frag - 1 = k /\ q.nth = 0 /\ q.frag \in 1 .. Len(frags) + 1
    BY <1>0, <2>1, PlaceFields
  <2>4. k \in JumpFrags <=> s.op = "jump"
    BY <1>10, <2>1 DEF JumpFrags, Made
  <2>5. Upto(JumpFrags, k) = Upto(JumpFrags, k - 1) + IF k \in JumpFrags THEN 1 ELSE 0
    BY <1>0, <1>7, UptoSteps, SMTT(30)
  <2>6. Len(frags[k].fix) = IF s.op = "jump" THEN 1 ELSE 0
    BY <2>1 DEF Made
  <2>7. c[k] = c[k - 1] + IF s.op = "jump" THEN 1 ELSE 0
    BY <1>3, <2>6
  <2>8. Upto(Jumps, j) = Upto(JumpFrags, q.frag - 1)
    BY <1>2, <1>5, <2>2, <2>3, <2>4, <2>5
  <2>9. Upto(Transfers, j) = c[q.frag - 1] + q.nth
    <3>1. c[k] \in Nat
      BY <1>0, <1>3
    <3> QED
      BY <1>2, <1>6, <1>10, <2>2, <2>3, <2>7, <3>1
  <2> QED
    BY <2>3, <2>8, <2>9 DEF Ranked
<1> QED
  BY <1>1, <1>9, <1>10

LEMMA Ranks ==
  ASSUME Typed, NEW g, Through(g), NEW c, Counts(frags, c)
  PROVE  \A j \in 0 .. Len(prog) : Ranked(g, c, j)
<1> DEFINE T == {m \in Nat : m <= Len(prog) => Ranked(g, c, m)}
<1>0. Len(frags) \in Nat /\ Len(prog) \in Nat
  BY DEF Typed, TypeOK
<1>1. 0 \in T
  <2>1. g[0].frag = 1 /\ g[0].nth = 0
    BY PlaceFields DEF Through
  <2>2. Jumps \in SUBSET (1 .. Len(prog)) /\ Transfers \in SUBSET (1 .. Len(prog))
        /\ JumpFrags \in SUBSET (1 .. Len(frags))
    BY DEF Jumps, Transfers, JumpFrags
  <2>3. Upto(Jumps, 0) = 0 /\ Upto(Transfers, 0) = 0 /\ Upto(JumpFrags, 0) = 0
    BY <1>0, <2>2, UptoSteps
  <2>4. c[0] = 0 /\ 1 - 1 = 0
    BY DEF Counts
  <2> QED
    BY <1>0, <2>1, <2>3, <2>4 DEF Ranked
<1>2. ASSUME NEW m \in Nat, m \in T PROVE m + 1 \in T
  <2> SUFFICES ASSUME m + 1 <= Len(prog) PROVE Ranked(g, c, m + 1)
    OBVIOUS
  <2>1. m + 1 \in 1 .. Len(prog) /\ (m + 1) - 1 = m /\ m <= Len(prog)
    BY <1>0
  <2>2. Ranked(g, c, (m + 1) - 1)
    BY <1>2, <2>1
  <2> QED
    BY <2>1, <2>2, RankStep
<1>3. Nat \subseteq T
  <2>1. \A m \in Nat : m \in T => m + 1 \in T
    BY <1>2
  <2> HIDE DEF T
  <2> QED BY <1>1, <2>1, NatSetInduction
<1>4. \A m \in T : m <= Len(prog) => Ranked(g, c, m)
  OBVIOUS
<1> HIDE DEF T
<1> QED
  BY <1>0, <1>3, <1>4

(* The jump fragment with a jump's rank is the one made for it.            *)
LEMMA JumpFragIsOwn ==
  ASSUME Typed, NEW g, Through(g), NEW j \in Jumps, NEW k, Own(g, j, k)
  PROVE  JumpFrag(j) = k
<1>0. Len(frags) \in Nat
  BY DEF Typed, TypeOK
<1>1. PICK c : Counts(frags, c)
  BY CountsThere DEF Typed, TypeOK
<1>2. j \in 1 .. Len(prog) /\ prog[j].op = "jump"
  BY DEF Jumps
<1>3. Ranked(g, c, j)
  BY <1>1, <1>2, Ranks, StatementThere
<1>4. k \in 1 .. Len(frags) /\ g[j].frag = k + 1
  BY PlaceFields DEF Own
<1>5. k \in JumpFrags /\ JumpFrags \in SUBSET (1 .. Len(frags))
  BY <1>2 DEF Own, Made, JumpFrags
<1>6. Upto(JumpFrags, k) = Upto(Jumps, j)
  <2>1. (k + 1) - 1 = k
    BY <1>4
  <2> QED
    BY <1>3, <1>4, <2>1 DEF Ranked
<1>7. \A i \in JumpFrags : Upto(JumpFrags, i) = Upto(JumpFrags, k) => i = k
  BY <1>0, <1>5, UptoTells
<1> QED
  BY <1>5, <1>6, <1>7 DEF JumpFrag

(* The bytes of a statement with a fragment of its own are its room.       *)
LEMMA OwnBytes ==
  ASSUME Typed, NEW g, Through(g), NEW j \in 1 .. Len(prog), NEW k, Own(g, j, k),
         prog[j].op \in {"jump", "fill", "org", "align"}, NEW at \in Int
  PROVE  Bytes(j, at) = Room(frags[k], at)
<1>1. Made(frags[k], prog[j])
  BY DEF Own
<1>2. CASE prog[j].op = "jump"
  <2>1. JumpFrag(j) = k
    BY <1>2, JumpFragIsOwn DEF Jumps
  <2>2. Bytes(j, at) = frags[k].size
    BY <1>2, <2>1 DEF Bytes
  <2>3. Room(frags[k], at) = frags[k].size
    BY <1>1, <1>2 DEF Made, Room
  <2> QED
    BY <2>2, <2>3
<1>3. CASE prog[j].op # "jump"
  <2>1. Bytes(j, at) = Room([kind |-> prog[j].op, size |-> prog[j].size, most |-> prog[j].most], at)
    BY <1>3 DEF Bytes
  <2>2. /\ frags[k].kind = prog[j].op /\ frags[k].size = prog[j].size
        /\ frags[k].most = prog[j].most
    BY <1>1, <1>3 DEF Made
  <2> QED
    BY <2>1, <2>2 DEF Room, Pad
<1> QED
  BY <1>2, <1>3

LEMMA BytesIsInt ==
  ASSUME Typed, NEW g, Through(g), NEW j \in 1 .. Len(prog), NEW at \in Int
  PROVE  Bytes(j, at) \in Int
<1>1. prog[j] \in Statement
      /\ prog[j].op \in {"insn", "call", "jump", "label", "fill", "org", "align"}
  BY StatementThere
<1>2. CASE prog[j].op \in {"insn", "call", "label"}
  <2>1. prog[j].op = "insn" => prog[j].size \in Nat
    BY <1>1, StatementFields
  <2> QED
    BY <1>2, <2>1 DEF Bytes
<1>3. CASE prog[j].op \in {"jump", "fill", "org", "align"}
  <2>1. PICK k : Own(g, j, k)
    BY <1>3, OwnThere
  <2>2. frags[k] \in Fragment
    BY <2>1, FragmentFixups DEF Own
  <2> QED
    BY <1>3, <2>1, <2>2, OwnBytes, RoomIsInt
<1> QED
  BY <1>1, <1>2, <1>3

(* A statement ends its bytes behind the one before.                       *)
LEMMA Ends ==
  ASSUME Typed, NEW g, Through(g)
  PROVE  /\ \A j \in 0 .. Len(prog) : End[j] \in Int
         /\ End[0] = Base
         /\ \A j \in 1 .. Len(prog) : End[j] = End[j - 1] + Bytes(j, End[j - 1])
<1>0. PICK L \in Nat : L = Len(prog)
  BY DEF Typed, TypeOK
<1> DEFINE Add(x, j) == x + Bytes(j, x)
           step == [j \in 1 .. L |-> [x \in Int |-> Add(x, j)]]
           f == CHOOSE e : e = [j \in 0 .. Len(prog) |->
                  IF j = 0 THEN Base ELSE e[j - 1] + Bytes(j, e[j - 1])]
<1>1. \A j \in 1 .. L : \A x \in Int : Add(x, j) \in Int
  BY <1>0, BytesIsInt
<1>2. step \in Steps(Int, L)
  <2> HIDE DEF Add
  <2> QED BY <1>1 DEF Steps
<1>3. Base \in Int
  BY BaseIsNat
<1>4. PICK h \in Recursive(Int, Base, L, step) : TRUE
  <2> HIDE DEF step
  <2> QED BY <1>2, <1>3, RecursionExists
<1>5. /\ h \in [0 .. L -> Int] /\ h[0] = Base
      /\ \A j \in 1 .. L : h[j] = step[j][h[j - 1]]
  BY <1>4 DEF Recursive
<1>6. \A j \in 1 .. L : j - 1 \in 0 .. L /\ h[j] = Add(h[j - 1], j)
  <2>1. \A j \in 1 .. L : j - 1 \in 0 .. L
    OBVIOUS
  <2>2. \A j \in 1 .. L : \A x \in Int : step[j][x] = Add(x, j)
    <3> HIDE DEF Add
    <3> QED OBVIOUS
  <2> HIDE DEF Add, step
  <2> QED BY <1>5, <2>1, <2>2
<1>7. h = [j \in 0 .. L |-> IF j = 0 THEN Base ELSE Add(h[j - 1], j)]
  <2> HIDE DEF Add
  <2> QED BY <1>5, <1>6
<1>8. f = [j \in 0 .. L |-> IF j = 0 THEN Base ELSE Add(f[j - 1], j)]
  BY <1>0, <1>7
<1>9. End = f
  BY DEF End
<1> HIDE DEF step, f, Add
<1>10. f[0] = Base /\ \A j \in 1 .. L : f[j] = Add(f[j - 1], j)
  BY <1>8
<1>11. f \in [0 .. L -> Int]
  <2>1. f = [j \in 0 .. L |-> f[j]]
    BY <1>8
  <2>2. \A j \in 1 .. L : f[j - 1] \in Int => f[j] = step[j][f[j - 1]]
    BY <1>10 DEF step
  <2>3. GoesOn(f, Int, Base, L, step)
    BY <1>10, <2>1, <2>2 DEF GoesOn
  <2> QED
    BY <1>2, <1>3, <2>3, RecursionStays
<1> QED
  BY <1>0, <1>9, <1>10, <1>11 DEF Add

(* The address where a statement ends is that of the place behind it.      *)
Reckoned(g, j) ==
  g[j].frag <= Len(laid) => End[j] = laid[g[j].frag] + g[j].off

(* A statement's own fragment ends where the statement does.               *)
LEMMA OwnEnds ==
  ASSUME Typed, first = 0, OffsetsAreSums, NEW g, Through(g),
         NEW j \in 1 .. Len(prog), prog[j].op \in {"jump", "fill", "org", "align"},
         NEW k, Own(g, j, k), k <= Len(laid), Reckoned(g, j - 1)
  PROVE  End[j] = laid[k] + Room(frags[k], laid[k])
<1>0. /\ Len(frags) \in Nat /\ Len(laid) \in Nat /\ laid \in Seq(Int)
      /\ k \in 1 .. Len(frags) /\ Begins(frags, g[j - 1], k)
  BY DEF Typed, TypeOK, Own
<1> PICK p \in Places : p = g[j - 1]
  BY StatementThere
<1>1. PICK c : Counts(frags, c)
  BY CountsThere DEF Typed, TypeOK
<1>2. p.frag \in 1 .. k /\ laid[k] = laid[p.frag] + p.off
  BY <1>0, <1>1, BeginsThere
<1>3. End[j - 1] = laid[k]
  BY <1>0, <1>2 DEF Reckoned
<1>4. laid[k] \in Int
  BY <1>0
<1>5. Bytes(j, laid[k]) = Room(frags[k], laid[k])
  BY <1>4, OwnBytes
<1> QED
  BY <1>3, <1>5, Ends

LEMMA ReckonStep ==
  ASSUME Typed, first = 0, OffsetsAreSums, NEW g, Through(g),
         NEW j \in 1 .. Len(prog), Reckoned(g, j - 1)
  PROVE  Reckoned(g, j)
<1> DEFINE s == prog[j]
<1>0. Len(frags) \in Nat /\ Len(laid) \in Nat /\ laid \in Seq(Int) /\ Len(laid) <= Len(frags)
  BY DEF Typed, TypeOK, Linked
<1> PICK p \in Places : p = g[j - 1]
  BY StatementThere
<1> PICK q \in Places : q = g[j]
  BY StatementThere
<1>1. /\ s \in Statement /\ Takes(frags, s, p, q)
      /\ s.op \in {"insn", "call", "jump", "label", "fill", "org", "align"}
  BY StatementThere
<1>2. p.frag \in Nat \ {0} /\ p.off \in Nat /\ q.frag \in Nat \ {0} /\ q.off \in Nat
  BY PlaceFields
<1>3. End[j] = End[j - 1] + Bytes(j, End[j - 1])
  BY Ends
<1> SUFFICES ASSUME q.frag <= Len(laid) PROVE End[j] = laid[q.frag] + q.off
  BY DEF Reckoned
<1>4. q.frag \in 1 .. Len(laid)
  BY <1>0, <1>2
<1>5. CASE s.op \in {"insn", "label", "call"}
  <2> DEFINE n == CASE s.op = "insn" -> s.size [] s.op = "call" -> 5 [] s.op = "label" -> 0
  <2>1. Bytes(j, End[j - 1]) = n /\ n \in Nat
    <3>1. s.op = "insn" => s.size \in Nat
      BY <1>1, StatementFields
    <3> QED
      BY <1>5, <3>1 DEF Bytes
  <2>2. q.frag = p.frag /\ q.off = p.off + n
    <3>1. CASE s.op = "insn"
      <4>1. q = Place(p.frag, p.off + s.size, p.nth)
        BY <1>1, <3>1 DEF Takes
      <4> QED
        BY <3>1, <4>1, PlaceFields
    <3>2. CASE s.op = "call"
      <4>1. q = Place(p.frag, p.off + 5, p.nth + 1)
        BY <1>1, <3>2 DEF Takes
      <4> QED
        BY <3>2, <4>1, PlaceFields
    <3>3. CASE s.op = "label"
      <4>1. q = p
        BY <1>1, <3>3 DEF Takes
      <4> QED
        BY <1>2, <3>3, <4>1
    <3> QED
      BY <1>5, <3>1, <3>2, <3>3
  <2> HIDE DEF n
  <2>3. End[j - 1] = laid[p.frag] + p.off
    BY <2>2 DEF Reckoned
  <2>4. laid[p.frag] \in Int
    BY <1>0, <1>4, <2>2
  <2> QED
    BY <1>2, <1>3, <2>1, <2>2, <2>3, <2>4
<1>6. CASE s.op \in {"jump", "fill", "org", "align"}
  <2>1. PICK k : Own(g, j, k)
    BY <1>6, OwnThere
  <2>2. k \in 1 .. Len(frags) /\ q.frag = k + 1 /\ q.off = 0
    BY <2>1, PlaceFields DEF Own
  <2>3. k <= Len(laid) /\ k + 1 \in 1 .. Len(laid) /\ k + 1 # 1 /\ (k + 1) - 1 = k
    BY <1>0, <1>4, <2>2
  <2>4. End[j] = laid[k] + Room(frags[k], laid[k])
    BY <1>6, <2>1, <2>3, OwnEnds
  <2>5. IsSum(k + 1)
    BY <2>3 DEF OffsetsAreSums
  <2>6. laid[k + 1] = End[j] /\ laid[k + 1] \in Int
    BY <1>0, <2>3, <2>4, <2>5 DEF IsSum
  <2> QED
    BY <2>2, <2>6
<1> QED
  BY <1>1, <1>5, <1>6

LEMMA Reckoning ==
  ASSUME Typed, first = 0, OffsetsAreSums, NEW g, Through(g)
  PROVE  \A j \in 0 .. Len(prog) : Reckoned(g, j)
<1> DEFINE T == {m \in Nat : m <= Len(prog) => Reckoned(g, m)}
<1>0. Len(laid) \in Nat /\ Len(prog) \in Nat
  BY DEF Typed, TypeOK
<1>1. 0 \in T
  <2> SUFFICES Reckoned(g, 0)
    OBVIOUS
  <2>1. g[0].frag = 1 /\ g[0].off = 0
    BY PlaceFields DEF Through
  <2>2. 1 <= Len(laid) => laid[1] = Base
    <3>1. 1 <= Len(laid) => 1 \in 1 .. Len(laid)
      BY <1>0
    <3> QED
      BY <3>1 DEF OffsetsAreSums, IsSum
  <2> QED
    BY <2>1, <2>2, Ends, BaseIsNat DEF Reckoned
<1>2. ASSUME NEW m \in Nat, m \in T PROVE m + 1 \in T
  <2> SUFFICES ASSUME m + 1 <= Len(prog) PROVE Reckoned(g, m + 1)
    OBVIOUS
  <2>1. m + 1 \in 1 .. Len(prog) /\ (m + 1) - 1 = m /\ m <= Len(prog)
    BY <1>0
  <2>2. Reckoned(g, (m + 1) - 1)
    BY <1>2, <2>1
  <2> QED
    BY <2>1, <2>2, ReckonStep
<1>3. Nat \subseteq T
  <2>1. \A m \in Nat : m \in T => m + 1 \in T
    BY <1>2
  <2> HIDE DEF T
  <2> QED BY <1>1, <2>1, NatSetInduction
<1>4. \A m \in T : m <= Len(prog) => Reckoned(g, m)
  OBVIOUS
<1> HIDE DEF T
<1> QED
  BY <1>0, <1>3, <1>4

(* The target of a fixup is the address the label has in the layout, or    *)
(* the number; the displacement written leads there from where its         *)
(* statement ends.                                                         *)
LEMMA LabelGoes ==
  ASSUME Typed, first = 0, OffsetsAreSums, NEW g, Through(g), NEW l \in Labels,
         Took = Len(prog), Bears(g, l, sym[l].frag, sym[l].off), sym[l].frag <= Len(laid)
  PROVE  \E j \in 1 .. Len(prog) : Defined(l, j) /\ laid[sym[l].frag] + sym[l].off = End[j]
<1>1. PICK j \in 1 .. Len(prog) : Defined(l, j) /\ g[j].frag = sym[l].frag /\ g[j].off = sym[l].off
  BY DEF Bears
<1>2. Reckoned(g, j)
  BY Reckoning, StatementThere
<1> QED
  BY <1>1, <1>2 DEF Reckoned

(* Where a fixup that was evaluated leads, when it names a label.          *)
LEMMA LabelValue ==
  ASSUME Typed, NEW i \in 1 .. Len(frags), NEW f \in Fixup, f.to.kind = "label",
         ~ IsMissing(f), Valid(Needed(i, f))
  PROVE  \E l \in Labels, k \in 1 .. Len(laid), o \in Nat :
           /\ l = f.to.name /\ sym[l] # Nowhere /\ k = sym[l].frag /\ o = sym[l].off
           /\ Value(i, f) = (laid[k] + o - f.width) - (laid[i] + f.at)
<1>2. PICK l \in Labels : l = f.to.name
  BY FixupFields, TargetFields
<1>3. sym[l] # Nowhere
  BY <1>2 DEF IsMissing
<1>4. sym[l].frag \in 0 .. Len(frags) /\ sym[l].frag > 0 /\ sym[l].off \in Nat
  BY <1>3, SymFields
<1>5. sym[l].frag <= Needed(i, f) /\ Needed(i, f) \in i .. Len(frags)
  BY <1>2, NeededIsThere
<1>6. sym[l].frag \in 1 .. Len(laid)
  <2>1. Len(laid) \in Nat /\ Len(frags) \in Nat
    BY DEF Typed, TypeOK
  <2>2. Needed(i, f) <= Len(laid)
    BY DEF Valid
  <2> QED
    BY <1>4, <1>5, <2>1, <2>2
<1>7. Value(i, f) = (laid[sym[l].frag] + sym[l].off - f.width) - (laid[i] + f.at)
  <2>1. Value(i, f) = (LabelOffset(f.to.name) - f.width) - (laid[i] + f.at)
    BY Zenon DEF Value
  <2>2. Valid(sym[l].frag)
    BY <1>6 DEF Valid, Typed, TypeOK
  <2>3. LabelOffset(l) = laid[sym[l].frag] + sym[l].off
    BY <2>2 DEF LabelOffset
  <2>4. LabelOffset(f.to.name) = laid[sym[l].frag] + sym[l].off
    BY <1>2, <2>3
  <2>5. laid[sym[l].frag] \in Int /\ f.width \in Int
    BY <1>6, FixupFields DEF Typed, TypeOK
  <2>6. (laid[sym[l].frag] + sym[l].off) - f.width = laid[sym[l].frag] + sym[l].off - f.width
    BY <1>4, <2>5
  <2> QED
    BY <2>1, <2>4, <2>6, Zenon
<1> QED
  BY <1>2, <1>3, <1>4, <1>6, <1>7

LEMMA Cancels ==
  ASSUME NEW a \in Int, NEW b \in Int, NEW w \in Int, NEW p \in Int, NEW o \in Int
  PROVE  a + b + w + ((p + o - w) - (a + b)) = p + o
OBVIOUS

(* A fixup x of fragment i that ends where statement j does.               *)
LEMMA FixupLands ==
  ASSUME Typed, first = 0, OffsetsAreSums, NEW g, Through(g), NEW j \in Transfers,
         Took = Len(prog), pending = {},
         \A l \in Labels : sym[l] # Nowhere => Bears(g, l, sym[l].frag, sym[l].off),
         NEW i \in 1 .. Len(frags), NEW f \in Fixup, f.to = prog[j].to,
         ~ IsMissing(f), Valid(Needed(i, f)), f.to.kind # "resolver",
         End[j] = laid[i] + f.at + f.width,
         code[Upto(Transfers, j)].value = Value(i, f)
  PROVE  Goes(prog[j].to, LandsAt(j))
<1>0. laid \in Seq(Int) /\ Len(laid) \in Nat /\ Len(frags) \in Nat
  BY SMTT(30) DEF Typed, TypeOK
<1>2. Needed(i, f) \in i .. Len(frags)
      /\ (f.to.kind = "label" => sym[f.to.name].frag <= Needed(i, f))
  BY NeededIsThere
<1>3. i \in 1 .. Len(laid) /\ laid[i] \in Int
  BY <1>0, <1>2 DEF Valid
<1>4. f.at \in Nat /\ f.width \in Int /\ f.to \in Target
  BY FixupFields
<1>5. LandsAt(j) = End[j] + Value(i, f)
  BY DEF LandsAt
<1>6. CASE f.to.kind = "label"
  <2>1. PICK l \in Labels, k \in 1 .. Len(laid), o \in Nat :
          /\ l = f.to.name /\ sym[l] # Nowhere /\ k = sym[l].frag /\ o = sym[l].off
          /\ Value(i, f) = (laid[k] + o - f.width) - (laid[i] + f.at)
    BY <1>6, LabelValue
  <2>2. laid[k] \in Int
    BY <1>0
  <2>3. Bears(g, l, sym[l].frag, sym[l].off)
    BY <2>1
  <2>4. LandsAt(j) = laid[i] + f.at + f.width + ((laid[k] + o - f.width) - (laid[i] + f.at))
    BY <1>5, <2>1
  <2>5. LandsAt(j) = laid[sym[l].frag] + sym[l].off
    <3>1. f.at \in Int /\ f.width \in Int /\ laid[i] \in Int /\ o \in Int
      BY <1>3, <1>4
    <3>2. laid[i] + f.at + f.width + ((laid[k] + o - f.width) - (laid[i] + f.at)) = laid[k] + o
      BY <2>2, <3>1, Cancels, SMTT(30)
    <3> QED
      BY <2>1, <2>4, <3>2, Zenon
  <2>6. \E m \in 1 .. Len(prog) : Defined(l, m) /\ laid[sym[l].frag] + sym[l].off = End[m]
    <3>1. sym[l].frag <= Len(laid)
      BY <1>0, <2>1
    <3> QED
      BY <2>3, <3>1, LabelGoes
  <2> QED
    BY <1>6, <2>1, <2>5, <2>6 DEF Goes
<1>7. CASE f.to.kind = "number"
  <2>1. f.to.at \in Int
    BY <1>4, <1>7, TargetFields
  <2>2. Value(i, f) = f.to.at - f.width - (laid[i] + f.at)
    BY <1>7 DEF Value
  <2>3. LandsAt(j) = f.to.at
    BY <1>3, <1>4, <1>5, <2>1, <2>2
  <2> QED
    BY <1>7, <2>3 DEF Goes
<1> QED
  BY <1>4, <1>6, <1>7, TargetFields

(* The state a program is assembled in.                                    *)
LEMMA AllLand ==
  ASSUME Summed, Streaming, Coded, pc = "done", err = "none"
  PROVE  /\ Len(code) = Cardinality(Transfers)
         /\ \A j \in Transfers : prog[j].to.kind # "resolver" => Goes(prog[j].to, LandsAt(j))
<1>0. /\ Typed /\ OffsetsAreSums /\ first = 0 /\ pending = {} /\ Took = Len(prog)
      /\ Len(frags) \in Nat /\ Len(prog) \in Nat /\ frags \in Seq(Fragment)
      /\ laid \in Seq(Int) /\ Len(laid) \in Nat
  BY DEF Summed, Ahead, Streaming, Took, Typed, TypeOK
<1>1. PICK g \in [0 .. Took -> Places] : Streamed(g)
  BY DEF Streaming
<1>2. /\ Through(g)
      /\ \A l \in Labels : sym[l] # Nowhere => Bears(g, l, sym[l].frag, sym[l].off)
  BY <1>0, <1>1 DEF Streamed, Through
<1>3. PICK c : Counts(frags, c)
  BY <1>0, CountsThere
<1>4. /\ Len(code) = c[(Len(frags) + 1) - 1] + 1 - 1
      /\ \A i \in 1 .. Len(frags) : \A x \in 1 .. Len(frags[i].fix) :
           Before(i, x, Len(frags) + 1, 1) => Written(c, i, x)
  BY <1>3 DEF Coded, WrittenTo
<1>5. \A i \in 1 .. Len(frags) : \A x \in 1 .. Len(frags[i].fix) : Written(c, i, x)
  <2>1. \A i \in 1 .. Len(frags) : \A x : Before(i, x, Len(frags) + 1, 1)
    BY <1>0 DEF Before
  <2> QED
    BY <1>4, <2>1
<1>6. /\ c \in [0 .. Len(frags) -> Nat]
      /\ \A i \in 1 .. Len(frags) : c[i] = c[i - 1] + Len(frags[i].fix)
  BY <1>3 DEF Counts
<1>7. \A j \in 0 .. Len(prog) : Ranked(g, c, j)
  BY <1>0, <1>2, <1>3, Ranks
<1>8. \A j \in 0 .. Len(prog) : Reckoned(g, j)
  BY <1>0, <1>2, Reckoning
<1>9. Len(code) = Cardinality(Transfers)
  <2>1. Transfers \in SUBSET (1 .. Len(prog))
    BY DEF Transfers
  <2>2. Upto(Transfers, Len(prog)) = Cardinality(Transfers)
    BY <1>0, <2>1, UptoSteps
  <2>3. Len(prog) \in 0 .. Len(prog) /\ Len(frags) \in 0 .. Len(frags)
    BY <1>0
  <2> PICK q \in Places : q = g[Len(prog)]
    BY <1>0, <1>1, <2>3
  <2>4. Upto(Transfers, Len(prog)) = c[q.frag - 1] + q.nth /\ EndsAt(frags, q)
    BY <1>2, <1>7, <2>3 DEF Ranked, Through
  <2>5. c[Len(frags)] \in Nat
    BY <1>6, <2>3
  <2>6. c[q.frag - 1] + q.nth = c[Len(frags)]
    <3>1. CASE EndsInData(frags)
      <4>1. q.frag = Len(frags) /\ q.nth = Len(frags[Len(frags)].fix)
        BY <2>4, <3>1, PlaceFields DEF EndsAt
      <4>2. Len(frags) \in 1 .. Len(frags)
        BY <1>0, <3>1 DEF EndsInData
      <4> QED
        BY <1>6, <4>1, <4>2
    <3>2. CASE ~ EndsInData(frags)
      <4>1. q.frag = Len(frags) + 1 /\ q.nth = 0
        BY <2>4, <3>2, PlaceFields DEF EndsAt
      <4> QED
        BY <1>0, <2>5, <4>1
    <3> QED
      BY <3>1, <3>2
  <2>7. Len(code) = c[Len(frags)]
    <3>1. (Len(frags) + 1) - 1 = Len(frags)
      BY <1>0
    <3> QED
      BY <1>4, <2>5, <3>1
  <2> QED
    BY <2>2, <2>4, <2>6, <2>7
<1>10. ASSUME NEW j \in Transfers, prog[j].to.kind # "resolver"
       PROVE  Goes(prog[j].to, LandsAt(j))
  <2>1. j \in 1 .. Len(prog) /\ prog[j].op \in {"jump", "call"}
    BY DEF Transfers
  <2>2. /\ j \in 0 .. Len(prog) /\ j - 1 \in 0 .. Len(prog)
        /\ Takes(frags, prog[j], g[j - 1], g[j])
    BY <1>0, <1>2, <2>1, StatementThere
  <2> PICK p \in Places : p = g[j - 1]
    BY <1>0, <1>2, <2>1, StatementThere
  <2> PICK q \in Places : q = g[j]
    BY <1>0, <1>2, <2>1, StatementThere
  <2>3. p.frag \in Nat \ {0} /\ p.off \in Nat /\ p.nth \in Nat
    BY PlaceFields
  <2>4. Upto(Transfers, j) = c[q.frag - 1] + q.nth
    BY <1>7, <2>2 DEF Ranked
  <2>5. ASSUME NEW i \in 1 .. Len(frags), NEW x \in 1 .. Len(frags[i].fix),
               Upto(Transfers, j) = c[i - 1] + x, frags[i].fix[x].to = prog[j].to,
               Valid(i) => End[j] = laid[i] + frags[i].fix[x].at + frags[i].fix[x].width
        PROVE  Goes(prog[j].to, LandsAt(j))
    <3>1. frags[i].fix[x] \in Fixup
      BY <1>0, FragmentFixups
    <3> PICK f \in Fixup : f = frags[i].fix[x]
      BY <3>1
    <3>2. /\ ~ IsMissing(f) /\ Valid(Needed(i, f))
          /\ code[Upto(Transfers, j)].value = Value(i, f)
      BY <1>5, <2>5 DEF Written, Known, Coded
    <3>3. Valid(i)
      <4>1. Valid(Needed(i, f))
        BY <3>2
      <4>2. Needed(i, f) \in i .. Len(frags)
        BY <1>0, NeededIsThere
      <4> QED
        BY <1>0, <4>1, <4>2 DEF Valid
    <3> QED
      BY <1>0, <1>2, <1>10, <2>5, <3>2, <3>3, FixupLands
  <2>6. CASE prog[j].op = "jump"
    <3>1. PICK k : Own(g, j, k)
      BY <1>0, <1>2, <2>1, <2>6, OwnThere
    <3>2. /\ k \in 1 .. Len(frags) /\ q.frag = k + 1 /\ q.nth = 0 /\ Made(frags[k], prog[j])
      BY <3>1, PlaceFields DEF Own
    <3>3. /\ Len(frags[k].fix) = 1 /\ 1 \in 1 .. Len(frags[k].fix)
          /\ frags[k].fix[1].to = prog[j].to
          /\ frags[k].fix[1].at + frags[k].fix[1].width = frags[k].size
          /\ frags[k].kind \in {"short", "long"}
      BY <2>6, <3>2 DEF Made
    <3>4. Upto(Transfers, j) = c[k - 1] + 1
      <4>1. (k + 1) - 1 = k /\ k - 1 \in 0 .. Len(frags)
        BY <1>0, <3>2
      <4>2. c[k] = c[k - 1] + 1 /\ c[k - 1] \in Nat
        BY <1>6, <3>2, <3>3, <4>1
      <4> QED
        BY <2>4, <3>2, <4>1, <4>2
    <3>5. ASSUME Valid(k) PROVE End[j] = laid[k] + frags[k].fix[1].at + frags[k].fix[1].width
      <4>1. k <= Len(laid)
        BY <3>5 DEF Valid
      <4>2. End[j] = laid[k] + Room(frags[k], laid[k])
        BY <1>0, <1>2, <1>8, <2>1, <2>2, <2>6, <3>1, <4>1, OwnEnds
      <4>3. Room(frags[k], laid[k]) = frags[k].size
        BY <3>3 DEF Room
      <4>4. laid[k] \in Int
        BY <1>0, <3>2, <4>1
      <4>5. frags[k].fix[1].at \in Int /\ frags[k].fix[1].width \in Int
        BY <1>0, <3>2, <3>3, FragmentFixups, FixupFields
      <4> QED
        BY <3>3, <4>2, <4>3, <4>4, <4>5
    <3> QED
      BY <2>5, <3>2, <3>3, <3>4, <3>5
  <2>7. CASE prog[j].op = "call"
    <3>1. /\ InData2(frags, p) /\ q = Place(p.frag, p.off + 5, p.nth + 1)
          /\ p.nth + 1 <= Len(frags[p.frag].fix)
          /\ frags[p.frag].fix[p.nth + 1] = CallFix(prog[j], p.off)
      BY <2>2, <2>7 DEF Takes
    <3>2. p.frag \in 1 .. Len(frags) /\ q.frag = p.frag /\ q.nth = p.nth + 1 /\ q.off = p.off + 5
      BY <3>1, PlaceFields DEF InData2
    <3>3. p.nth + 1 \in 1 .. Len(frags[p.frag].fix)
      <4>1. Len(frags[p.frag].fix) \in Nat
        BY <1>0, <3>2, FragmentFixups, SMTT(30)
      <4> QED
        BY <2>3, <3>1, <4>1
    <3>4. /\ frags[p.frag].fix[p.nth + 1].to = prog[j].to
          /\ frags[p.frag].fix[p.nth + 1].at = p.off + 1
          /\ frags[p.frag].fix[p.nth + 1].width = 4
      BY <3>1 DEF CallFix
    <3>5. ASSUME Valid(p.frag) PROVE End[j] = laid[p.frag] + (p.off + 1) + 4
      <4>1. p.frag \in 1 .. Len(laid)
        BY <1>0, <2>3, <3>5 DEF Valid
      <4>2. End[j] = laid[p.frag] + (p.off + 5)
        BY <1>0, <1>8, <2>2, <3>2, <4>1 DEF Reckoned
      <4>3. laid[p.frag] \in Int
        BY <1>0, <4>1
      <4> QED
        BY <2>3, <4>2, <4>3
    <3> QED
      BY <2>4, <2>5, <3>2, <3>3, <3>4, <3>5
  <2> QED
    BY <2>1, <2>6, <2>7
<1> QED
  BY <1>9, <1>10

(* A program assembled without an error jumps and calls where it says,     *)
(* whatever the program, its labels and the base, and whichever jumps      *)
(* grew.                                                                   *)
THEOREM AsmJumpsLand == Spec => []JumpsLand
<1> DEFINE Inv == Summed /\ Streaming /\ Coded
<1>1. Init => Inv
  <2> SUFFICES ASSUME Init PROVE Inv
    OBVIOUS
  <2>1. Typed
    BY InitTyped
  <2>2. Ahead /\ OffsetsAreSums
    BY NoSums DEF Init, Ahead
  <2>3. Coded
    BY DEF Init, Coded
  <2> QED
    BY <2>1, <2>2, <2>3, InitStreaming DEF Summed
<1>2. Inv /\ [Next]_vars => Inv'
  <2> SUFFICES ASSUME Summed, Streaming, Coded, [Next]_vars PROVE Inv'
    OBVIOUS
  <2>0. Typed
    BY DEF Summed
  <2>1. CASE EmitInstToData \/ EmitInstToFragment \/ EmitSpace \/ EmitLabel
    <3>1. Typed'
      BY <2>0, <2>1, EmitTyped
    <3> QED
      BY <2>0, <2>1, <3>1, EmitSummed, EmitStreaming, EarlyCoded DEF Summed
  <2>2. CASE Finish
    <3>1. Typed'
      BY <2>0, <2>2, LayoutTyped
    <3> QED
      BY <2>0, <2>2, <3>1, EmitSummed, FinishStreaming, EarlyCoded DEF Summed
  <2>3. CASE LayoutFragment
    <3>1. Typed'
      BY <2>0, <2>3, LayoutTyped
    <3> QED
      BY <2>0, <2>3, <3>1, LayoutFragmentSummed, RestStreaming, LayoutFragmentCoded DEF Summed
  <2>4. CASE RelaxFragment
    <3>1. Typed'
      BY <2>0, <2>4, LayoutTyped
    <3> QED
      BY <2>0, <2>4, <3>1, RelaxFragmentSummed, RestStreaming, EarlyCoded DEF Summed
  <2>5. CASE LayoutOnce
    <3>1. Typed'
      BY <2>0, <2>5, LayoutTyped
    <3> QED
      BY <2>0, <2>5, <3>1, LayoutOnceSummed, RestStreaming, EarlyCoded DEF Summed
  <2>6. CASE FinishLayout \/ ApplyFixup \/ NextFixups \/ Fixed \/ WriteObject
    <3>1. Typed'
      BY <2>0, <2>6, LayoutTyped, FixupsTyped
    <3> QED
      BY <2>0, <2>6, <3>1, RestSummed, RestStreaming, FixupsCoded DEF Summed
  <2>7. CASE UNCHANGED vars
    <3>1. Typed'
      BY <2>0, <2>7, StutterTyped
    <3> QED
      BY <2>7, <3>1, RestSummed, StutterStreaming, StutterCoded DEF Summed
  <2> QED
    BY <2>1, <2>2, <2>3, <2>4, <2>5, <2>6, <2>7 DEF Next
<1>3. Inv => JumpsLand
  BY AllLand DEF JumpsLand
<1> QED
  <2> HIDE DEF Inv
  <2> QED BY <1>1, <1>2, <1>3, PTL DEF Spec

-----------------------------------------------------------------------------
\* The way to the end.

(* What is still to do: phases, jumps that may grow, whether jumps grew in *)
(* this pass and in this round, statements or fragments to go, fixups of   *)
(* the fragment at hand to go, fragments to lay out.                       *)
Phases ==
  CASE pc = "emit" -> 5 [] pc = "relax" -> 4 [] pc = "finish" -> 3
    [] pc = "fix" -> 2 [] pc = "write" -> 1 [] OTHER -> 0
Shorts == {i \in 1 .. Len(frags) : frags[i].kind = "short"}
MayGrow == IF pc = "emit" THEN 0 ELSE Cardinality(Shorts)
Grew == IF first = 0 THEN 0 ELSE 1
Anew == IF again THEN 1 ELSE 0
ToGo == (IF pc = "emit" THEN Len(prog) ELSE Len(frags)) + 1 - cur
ToFix == IF pc = "fix" /\ cur <= Len(frags) THEN Len(frags[cur].fix) + 1 - fix ELSE 0
ToLay == Len(frags) - Len(laid)
ToDo == <<Phases, MayGrow, Grew, Anew, ToGo, ToFix, ToLay>>

(* One list of numbers is less than another when it is at the first place  *)
(* they differ in.                                                         *)
Less(m, n) == \E i \in 1 .. 7 : m[i] < n[i] /\ \A j \in 1 .. i - 1 : m[j] = n[j]

(* What is at hand is there, or the one before was the last.               *)
Within ==
  /\ cur <= (IF pc = "emit" THEN Len(prog) ELSE Len(frags)) + 1
  /\ pc = "fix" /\ cur <= Len(frags) => fix <= Len(frags[cur].fix) + 1

LEMMA WithinStep == ASSUME Typed, Within, Next PROVE Within'
<1>0. /\ Len(frags) \in Nat /\ Len(prog) \in Nat /\ cur \in Nat /\ fix \in Nat
      /\ frags \in Seq(Fragment) /\ \A i \in 1 .. Len(frags) : Len(frags[i].fix) \in Nat
  BY FragmentFixups DEF Typed, TypeOK
<1>1. CASE EmitInstToData \/ EmitInstToFragment \/ EmitSpace \/ EmitLabel
  <2>1. pc = "emit" /\ pc' = "emit" /\ cur <= Len(prog) /\ cur' = cur + 1 /\ prog' = prog
    BY <1>1 DEF EmitInstToData, EmitInstToFragment, EmitSpace, EmitLabel, Emitting, Emitted
  <2> QED
    BY <1>0, <2>1 DEF Within
<1>2. CASE Finish
  <2>1. pc' = "relax" /\ cur' = 1
    BY <1>2 DEF Finish
  <2>2. Len(frags') \in Nat
    BY <1>2, LayoutTyped DEF Typed, TypeOK
  <2> QED
    BY <2>1, <2>2 DEF Within
<1>3. CASE LayoutFragment
  BY <1>3 DEF LayoutFragment, Within, stream
<1>4. CASE RelaxFragment
  <2>1. pc = "relax" /\ pc' = "relax" /\ cur <= Len(frags) /\ cur' = cur + 1
    BY <1>4 DEF RelaxFragment
  <2>2. Len(frags') = Len(frags)
    BY <1>0, <1>4 DEF RelaxFragment
  <2> QED
    BY <1>0, <2>1, <2>2 DEF Within
<1>5. CASE LayoutOnce
  <2>1. pc' \in {"relax", "finish"} /\ cur' = 1 /\ frags' = frags
    BY <1>5 DEF LayoutOnce, Passed
  <2> QED
    BY <1>0, <2>1 DEF Within
<1>6. CASE FinishLayout
  <2>1. pc' = "fix" /\ cur' = 1 /\ fix' = 1 /\ frags' = frags
    BY <1>6 DEF FinishLayout
  <2>2. 1 <= Len(frags) => Len(frags[1].fix) \in Nat
    BY <1>0
  <2> QED
    BY <1>0, <2>1, <2>2 DEF Within
<1>7. CASE ApplyFixup
  <2>1. /\ pc = "fix" /\ cur <= Len(frags) /\ fix <= Len(frags[cur].fix) /\ cur' = cur
        /\ frags' = frags /\ (pc' = "done" \/ (pc' = "fix" /\ fix' = fix + 1))
    BY <1>7 DEF ApplyFixup, Fail
  <2>2. Len(frags[cur].fix) \in Nat
    BY <1>0, <2>1 DEF Typed, Linked
  <2> QED
    BY <1>0, <2>1, <2>2 DEF Within
<1>8. CASE NextFixups
  <2>1. pc = "fix" /\ pc' = "fix" /\ cur <= Len(frags) /\ cur' = cur + 1 /\ fix' = 1 /\ frags' = frags
    BY <1>8 DEF NextFixups
  <2>2. cur + 1 <= Len(frags) => Len(frags[cur + 1].fix) \in Nat
    BY <1>0
  <2> QED
    BY <1>0, <2>1, <2>2 DEF Within
<1>9. CASE Fixed \/ WriteObject
  <2>1. pc # "emit" /\ pc' \in {"write", "done"} /\ cur' = cur /\ frags' = frags
    BY <1>9 DEF Fixed, WriteObject, Fail
  <2> QED
    BY <2>1 DEF Within
<1> QED
  BY <1>1, <1>2, <1>3, <1>4, <1>5, <1>6, <1>7, <1>8, <1>9 DEF Next

LEMMA ShortsCounted ==
  ASSUME Typed
  PROVE  IsFiniteSet(Shorts) /\ Cardinality(Shorts) \in Nat
<1>1. Len(frags) \in Nat
  BY DEF Typed, TypeOK
<1>2. IsFiniteSet(1 .. Len(frags)) /\ Shorts \subseteq 1 .. Len(frags)
  BY <1>1, FS_Interval DEF Shorts
<1> QED
  BY <1>2, FS_Subset, FS_CardinalityType

(* All of it are numbers.                                                  *)
LEMMA Measured == ASSUME Typed, Within PROVE ToDo \in [1 .. 7 -> Nat]
<1>0. /\ Len(frags) \in Nat /\ Len(prog) \in Nat /\ cur \in Nat /\ fix \in Nat /\ cur >= 1
      /\ Len(laid) \in Nat /\ Len(laid) <= Len(frags)
  BY DEF Typed, TypeOK, Linked
<1>1. Phases \in Nat /\ Grew \in Nat /\ Anew \in Nat
  BY DEF Phases, Grew, Anew
<1>2. MayGrow \in Nat
  BY ShortsCounted DEF MayGrow
<1>3. ToGo \in Nat
  BY <1>0 DEF ToGo, Within
<1>4. ToFix \in Nat
  <2>1. CASE pc = "fix" /\ cur <= Len(frags)
    <3>1. Len(frags[cur].fix) \in Nat
      BY <1>0, <2>1, FragmentFixups
    <3> QED
      BY <1>0, <2>1, <3>1 DEF ToFix, Within
  <2>2. CASE ~ (pc = "fix" /\ cur <= Len(frags))
    BY <2>2 DEF ToFix
  <2> QED
    BY <2>1, <2>2
<1>5. ToLay \in Nat
  BY <1>0 DEF ToLay
<1> QED
  BY <1>1, <1>2, <1>3, <1>4, <1>5 DEF ToDo

(* It is less when one part is and those before it are what they were.     *)
LEMMA LessByOne ==
  ASSUME NEW a, NEW b, NEW c, NEW d, NEW e, NEW f, NEW g,
         NEW u, NEW v, NEW w, NEW x, NEW y, NEW z, NEW t
  PROVE  /\ u < a => Less(<<u, v, w, x, y, z, t>>, <<a, b, c, d, e, f, g>>)
         /\ u = a /\ v < b => Less(<<u, v, w, x, y, z, t>>, <<a, b, c, d, e, f, g>>)
         /\ u = a /\ v = b /\ w < c => Less(<<u, v, w, x, y, z, t>>, <<a, b, c, d, e, f, g>>)
         /\ u = a /\ v = b /\ w = c /\ x < d
              => Less(<<u, v, w, x, y, z, t>>, <<a, b, c, d, e, f, g>>)
         /\ u = a /\ v = b /\ w = c /\ x = d /\ y < e
              => Less(<<u, v, w, x, y, z, t>>, <<a, b, c, d, e, f, g>>)
         /\ u = a /\ v = b /\ w = c /\ x = d /\ y = e /\ z < f
              => Less(<<u, v, w, x, y, z, t>>, <<a, b, c, d, e, f, g>>)
         /\ u = a /\ v = b /\ w = c /\ x = d /\ y = e /\ z = f /\ t < g
              => Less(<<u, v, w, x, y, z, t>>, <<a, b, c, d, e, f, g>>)
<1> DEFINE m == <<u, v, w, x, y, z, t>>
           n == <<a, b, c, d, e, f, g>>
<1>1. /\ m[1] = u /\ m[2] = v /\ m[3] = w /\ m[4] = x /\ m[5] = y /\ m[6] = z /\ m[7] = t
      /\ n[1] = a /\ n[2] = b /\ n[3] = c /\ n[4] = d /\ n[5] = e /\ n[6] = f /\ n[7] = g
  OBVIOUS
<1> HIDE DEF m, n
<1>2. ASSUME NEW i \in 1 .. 7, m[i] < n[i], \A j \in 1 .. 7 : j < i => m[j] = n[j]
      PROVE  Less(m, n)
  <2>1. \A j \in 1 .. i - 1 : j \in 1 .. 7 /\ j < i
    OBVIOUS
  <2> QED
    BY <1>2, <2>1 DEF Less
<1>4. u < a => Less(m, n)
  BY <1>1, <1>2, 1 \in 1 .. 7, \A j \in 1 .. 7 : ~ (j < 1)
<1>5. u = a /\ v < b => Less(m, n)
  BY <1>1, <1>2, 2 \in 1 .. 7, \A j \in 1 .. 7 : j < 2 => j = 1
<1>6. u = a /\ v = b /\ w < c => Less(m, n)
  BY <1>1, <1>2, 3 \in 1 .. 7, \A j \in 1 .. 7 : j < 3 => j \in {1, 2}
<1>7. u = a /\ v = b /\ w = c /\ x < d => Less(m, n)
  BY <1>1, <1>2, 4 \in 1 .. 7, \A j \in 1 .. 7 : j < 4 => j \in {1, 2, 3}
<1>8. u = a /\ v = b /\ w = c /\ x = d /\ y < e => Less(m, n)
  BY <1>1, <1>2, 5 \in 1 .. 7, \A j \in 1 .. 7 : j < 5 => j \in {1, 2, 3, 4}
<1>9. u = a /\ v = b /\ w = c /\ x = d /\ y = e /\ z < f => Less(m, n)
  BY <1>1, <1>2, 6 \in 1 .. 7, \A j \in 1 .. 7 : j < 6 => j \in {1, 2, 3, 4, 5}
<1>10. u = a /\ v = b /\ w = c /\ x = d /\ y = e /\ z = f /\ t < g => Less(m, n)
  BY <1>1, <1>2, 7 \in 1 .. 7, \A j \in 1 .. 7 : j < 7 => j \in {1, 2, 3, 4, 5, 6}
<1> QED
  BY <1>4, <1>5, <1>6, <1>7, <1>8, <1>9, <1>10 DEF m, n

(* Each step leaves less to do.                                            *)
LEMMA LessToDo == ASSUME Typed, Ahead, Within, Next PROVE Less(ToDo', ToDo)
<1>0. /\ Len(frags) \in Nat /\ Len(prog) \in Nat /\ cur \in Nat /\ fix \in Nat /\ cur >= 1
      /\ laid \in Seq(Int) /\ Len(laid) \in Nat /\ Len(laid) <= Len(frags)
      /\ frags \in Seq(Fragment) /\ first \in Nat /\ again \in BOOLEAN
  BY DEF Typed, TypeOK, Linked
<1>1. CASE EmitInstToData \/ EmitInstToFragment \/ EmitSpace \/ EmitLabel
  <2>1. /\ pc = "emit" /\ pc' = "emit" /\ cur <= Len(prog) /\ cur' = cur + 1 /\ prog' = prog
        /\ first' = first /\ again' = again
    BY <1>1 DEF EmitInstToData, EmitInstToFragment, EmitSpace, EmitLabel, Emitting, Emitted
  <2>2. Phases' = Phases /\ MayGrow' = MayGrow /\ Grew' = Grew /\ Anew' = Anew
    BY <2>1 DEF Phases, MayGrow, Grew, Anew
  <2>3. ToGo' < ToGo
    BY <1>0, <2>1 DEF ToGo
  <2> QED
    BY <2>2, <2>3, LessByOne DEF ToDo
<1>2. CASE Finish \/ FinishLayout \/ Fixed \/ WriteObject
  <2>1. \/ pc = "emit" /\ pc' = "relax"
        \/ pc = "finish" /\ pc' = "fix"
        \/ pc = "fix" /\ pc' = "write"
        \/ pc = "write" /\ pc' = "done"
    BY <1>2 DEF Finish, FinishLayout, Fixed, WriteObject, Fail
  <2>2. Phases' < Phases
    BY <2>1 DEF Phases
  <2> QED
    BY <2>2, LessByOne DEF ToDo
<1>3. CASE LayoutFragment
  <2>1. /\ UNCHANGED <<frags, prog, pc, cur, fix, first, again>>
        /\ Len(laid') = Len(laid) + 1
    BY <1>0, <1>3 DEF LayoutFragment, stream
  <2>2. /\ Phases' = Phases /\ Grew' = Grew /\ Anew' = Anew /\ ToGo' = ToGo
        /\ ToFix' = ToFix
    BY <2>1 DEF Phases, Grew, Anew, ToGo, ToFix
  <2>3. MayGrow' = MayGrow
    BY <2>1 DEF MayGrow, Shorts
  <2>4. ToLay' < ToLay
    BY <1>0, <2>1 DEF ToLay
  <2> QED
    BY <2>2, <2>3, <2>4, LessByOne DEF ToDo
<1>4. CASE RelaxFragment
  <2>1. /\ pc = "relax" /\ pc' = "relax" /\ cur \in 1 .. Len(frags) /\ cur' = cur + 1
        /\ UNCHANGED again
    BY <1>0, <1>4 DEF RelaxFragment
  <2>2. Phases' = Phases /\ Anew' = Anew
    BY <2>1 DEF Phases, Anew
  <2>3. CASE NeedsRelaxation(cur)
    <3>1. frags' = [frags EXCEPT ![cur] = Long(frags[cur])] /\ frags[cur].kind = "short"
      BY <1>4, <2>3 DEF RelaxFragment, NeedsRelaxation
    <3>2. Long(frags[cur]).kind = "long"
      BY <1>0, <2>1, <3>1, FragmentFixups, LongFragment
    <3>3. /\ Len(frags') = Len(frags) /\ frags'[cur].kind = "long"
          /\ \A i \in 1 .. Len(frags) : i # cur => frags'[i] = frags[i]
      BY <1>0, <2>1, <3>1, <3>2
    <3>4. Shorts' = Shorts \ {cur} /\ cur \in Shorts
      BY <2>1, <3>1, <3>3 DEF Shorts
    <3>5. Cardinality(Shorts') = Cardinality(Shorts) - 1 /\ Cardinality(Shorts) \in Nat
      BY <3>4, ShortsCounted, FS_RemoveElement
    <3>6. MayGrow' < MayGrow
      BY <2>1, <3>5 DEF MayGrow
    <3> QED
      BY <2>2, <3>6, LessByOne DEF ToDo
  <2>4. CASE ~ NeedsRelaxation(cur)
    <3>1. UNCHANGED <<frags, first>>
      BY <1>4, <2>4 DEF RelaxFragment
    <3>2. MayGrow' = MayGrow
      BY <2>1, <3>1 DEF MayGrow, Shorts
    <3>3. Grew' = Grew
      BY <3>1 DEF Grew
    <3>4. ToGo' < ToGo
      BY <1>0, <2>1, <3>1 DEF ToGo
    <3> QED
      BY <2>2, <3>2, <3>3, <3>4, LessByOne DEF ToDo
  <2> QED
    BY <2>3, <2>4
<1>5. CASE LayoutOnce
  <2>1. pc = "relax" /\ frags' = frags
    BY <1>5 DEF LayoutOnce, Passed
  <2>2. CASE pc' = "finish"
    <3>1. Phases' < Phases
      BY <2>1, <2>2 DEF Phases
    <3> QED
      BY <3>1, LessByOne DEF ToDo
  <2>3. CASE pc' = "relax"
    <3>1. Phases' = Phases
      BY <2>1, <2>3 DEF Phases
    <3>2. MayGrow' = MayGrow
      BY <2>1, <2>3 DEF MayGrow, Shorts
    <3>3. \/ first # 0 /\ first' = 0
          \/ first' = first /\ again /\ ~ again'
      BY <1>5, <2>3 DEF LayoutOnce, Passed
    <3>4. Grew' < Grew \/ (Grew' = Grew /\ Anew' < Anew)
      BY <3>3 DEF Grew, Anew
    <3> QED
      BY <3>1, <3>2, <3>4, LessByOne DEF ToDo
  <2> QED
    BY <1>5, <2>1, <2>2, <2>3 DEF LayoutOnce
<1>6. CASE ApplyFixup \/ NextFixups
  <2>1. /\ pc = "fix" /\ cur \in 1 .. Len(frags)
        /\ UNCHANGED <<frags, laid, first, again>>
    BY <1>0, <1>6 DEF ApplyFixup, NextFixups
  <2>2. Len(frags[cur].fix) \in Nat
    BY <2>1, FragmentFixups
  <2>3. CASE pc' = "done"
    <3>1. Phases' < Phases
      BY <2>1, <2>3 DEF Phases
    <3> QED
      BY <3>1, LessByOne DEF ToDo
  <2>4. CASE pc' = "fix"
    <3>1. Phases' = Phases /\ Grew' = Grew /\ Anew' = Anew
      BY <2>1, <2>4 DEF Phases, Grew, Anew
    <3>2. MayGrow' = MayGrow
      BY <2>1, <2>4 DEF MayGrow, Shorts
    <3>3. CASE NextFixups
      <4>1. cur' = cur + 1
        BY <3>3 DEF NextFixups
      <4>2. ToGo' < ToGo
        BY <1>0, <2>1, <2>4, <4>1 DEF ToGo
      <4> QED
        BY <3>1, <3>2, <4>2, LessByOne DEF ToDo
    <3>4. CASE ApplyFixup
      <4>1. cur' = cur /\ fix' = fix + 1
        BY <2>1, <2>4, <3>4 DEF ApplyFixup, Fail
      <4>2. ToGo' = ToGo
        BY <2>1, <2>4, <4>1 DEF ToGo
      <4>3. ToFix = Len(frags[cur].fix) + 1 - fix
        BY <2>1, <1>0 DEF ToFix
      <4>4. ToFix' = Len(frags[cur].fix) + 1 - fix'
        BY <2>1, <1>0, <2>4, <4>1 DEF ToFix
      <4>5. \A n, k \in Nat : n + 1 - (k + 1) < n + 1 - k
        OBVIOUS
      <4>6. ToFix' < ToFix
        BY <1>0, <2>2, <4>1, <4>3, <4>4, <4>5, Zenon
      <4> QED
        BY <3>1, <3>2, <4>2, <4>6, LessByOne DEF ToDo
    <3> QED
      BY <1>6, <3>3, <3>4
  <2> QED
    BY <1>6, <2>1, <2>3, <2>4 DEF ApplyFixup, NextFixups, Fail
<1> QED
  BY <1>1, <1>2, <1>3, <1>4, <1>5, <1>6 DEF Next

(* Whatever the program, the layout comes nearer to its end with every     *)
(* step: the lists of numbers that say what is to do descend, and no such  *)
(* list descends for ever.  Passes that lay the section out again          *)
(* (MCAssembler.cpp:719-720, 923) are paid for by jumps that grew.         *)
THEOREM AsmNearsItsEnd == Spec => [](ToDo \in [1 .. 7 -> Nat]) /\ [][Less(ToDo', ToDo)]_vars
<1>1. Init => Within
  <2> SUFFICES ASSUME Init PROVE Within
    OBVIOUS
  <2>1. Len(prog) \in Nat /\ pc = "emit" /\ cur = 1
    BY ProgramsAreStatements DEF Init
  <2> QED
    BY <2>1 DEF Within
<1>2. Summed => Typed /\ Ahead
  BY DEF Summed
<1>3. Typed /\ Within /\ [Next]_vars => Within'
  <2>1. Within /\ UNCHANGED vars => Within'
    BY DEF Within, vars
  <2> QED
    BY <2>1, WithinStep
<1>4. Typed /\ Within => ToDo \in [1 .. 7 -> Nat]
  BY Measured
<1>5. Typed /\ Ahead /\ Within /\ [Next]_vars => [Less(ToDo', ToDo)]_vars
  BY LessToDo
<1> QED
  BY <1>1, <1>2, <1>3, <1>4, <1>5, SummedAlways, PTL DEF Spec

=============================================================================
