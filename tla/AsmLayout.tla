------------------------------ MODULE AsmLayout ------------------------------
(***************************************************************************)
(* How the assembler the sign-in server links (keystone, under             *)
(* Reverse/client/docker/keystone) turns the statements of one section     *)
(* into bytes: the streamer cuts them into fragments (MCObjectStreamer),   *)
(* the layout finds the address of each on demand and remembers it         *)
(* (MCFragment, MCAssembler), jumps that do not reach are made longer      *)
(* until none is left (X86AsmBackend), then the displacements go in.       *)
(*                                                                         *)
(* Bytes are counted, not spelled; an address is an integer, not 64 bits.  *)
(* One section, no bundles and no jump into another section.               *)
(***************************************************************************)
EXTENDS Integers, Sequences, FiniteSets

CONSTANTS
  Labels,     \* the labels there may be
  Base,       \* the address given to ks_asm
  Programs    \* the programs, sequences of statements

ASSUME BaseIsNat == Base \in Nat

(* Where a jump or call goes: to a label, which the program may lack, to a *)
(* number, or to a symbol the caller's resolver answers with a number.     *)
ToLabel == [kind : {"label"}, name : Labels]
ToNumber == [kind : {"number", "resolver"}, at : Int]
Target == ToLabel \union ToNumber

(* A statement: an instruction or data of some bytes, a call, a jump with  *)
(* the size of its long form, a label, or a directive that leaves room -   *)
(* .fill size, .org to an address, .p2align to a multiple of size when     *)
(* that takes no more than most bytes.                                     *)
Statement ==
  [op : {"insn"}, size : Nat] \union [op : {"call"}, to : Target]
    \union [op : {"jump"}, to : Target, most : {5, 6}]
    \union [op : {"label"}, name : Labels]
    \union [op : {"fill", "org", "align"}, size : Nat \ {0}, most : Nat]

ASSUME ProgramsAreStatements == Programs \subseteq Seq(Statement)

VARIABLES
  prog,     \* the program
  frags,    \* the section's fragments
  sym,      \* sym[l]: fragment and offset in it of label l, fragment 0 for none
  pending,  \* labels that wait for the next fragment (PendingLabels)
  laid,     \* Offset of the fragments up to LastValidFragment
  pc,       \* "emit", "relax", "finish", "fix", "write" or "done"
  cur,      \* the statement, later the fragment, at hand
  fix,      \* the fixup at hand of that fragment
  first,    \* FirstRelaxedFragment of the pass, 0 for none
  again,    \* WasRelaxed of layoutOnce
  code,     \* the displacements written: [frag, fix, value]
  err       \* KsError

stream == <<prog, sym, pending>>
vars == <<prog, frags, sym, pending, laid, pc, cur, fix, first, again, code, err>>

(* A fixup is width bytes, at bytes into its fragment; a jump that stayed  *)
(* short has one byte for it, everything else four.                        *)
Fixup == [at : Nat, width : {1, 4}, to : Target]

(* size is the bytes of a fragment, or what .align and .org are given;     *)
(* most the bytes a short jump grows to or an align may take.              *)
Fragment ==
  {f \in [kind : {"data", "short", "long", "fill", "align", "org"},
          size : Nat, most : Nat, fix : Seq(Fixup)] :
     /\ f.kind = "align" => f.size > 0
     /\ f.kind = "short" => f.most \in {5, 6} /\ Len(f.fix) = 1}

Nowhere == [frag |-> 0, off |-> 0]
Errors == {"none", "missing", "invalid", "fragment"}

TypeOK ==
  /\ prog \in Seq(Statement)
  /\ frags \in Seq(Fragment)
  /\ sym \in [Labels -> {Nowhere} \union [frag : Nat \ {0}, off : Nat]]
  /\ pending \subseteq Labels
  /\ laid \in Seq(Int)
  /\ pc \in {"emit", "relax", "finish", "fix", "write", "done"}
  /\ cur \in Nat /\ fix \in Nat /\ first \in Nat
  /\ again \in BOOLEAN
  /\ code \in Seq([frag : Nat, fix : Nat, value : Int])
  /\ err \in Errors

Init ==
  /\ prog \in Programs
  /\ frags = <<>> /\ laid = <<>> /\ code = <<>>
  /\ sym = [l \in Labels |-> Nowhere]
  /\ pending = {}
  /\ pc = "emit" /\ cur = 1 /\ fix = 1
  /\ first = 0 /\ again = FALSE
  /\ err = "none"

-----------------------------------------------------------------------------
\* The streamer: one action for each kind of statement.

Data(n, fixes) == [kind |-> "data", size |-> n, most |-> 0, fix |-> fixes]

(* A jump starts in its short form (opcode and one byte).                  *)
Short(s) == [kind |-> "short", size |-> 2, most |-> s.most,
             fix |-> <<[at |-> 1, width |-> 1, to |-> s.to]>>]

(* flushPendingLabels: the labels that wait are at the start of fragment i.*)
Flushed(i) ==
  [l \in Labels |-> IF l \in pending THEN [frag |-> i, off |-> 0] ELSE sym[l]]

Insert(f) ==
  /\ frags' = Append(frags, f)
  /\ sym' = Flushed(Len(frags) + 1)
  /\ pending' = {}

InData == frags # <<>> /\ frags[Len(frags)].kind = "data"
LastFrag == Len(frags)
Emitting(ops) == pc = "emit" /\ cur <= Len(prog) /\ prog[cur].op \in ops
Emitted ==
  /\ cur' = cur + 1
  /\ UNCHANGED <<prog, laid, pc, fix, first, again, code, err>>

(* The fixup of a call when its fragment has n bytes before it.            *)
CallFix(s, n) == [at |-> n + 1, width |-> 4, to |-> s.to]

\* Faulty variant: fixups keep their offset in the instruction.
EmitInstToDataUnshifted ==
  /\ Emitting({"insn", "call"})
  /\ LET s == prog[cur]
         n == IF s.op = "call" THEN 5 ELSE s.size
         fixes == IF s.op = "call" THEN <<CallFix(s, 0)>> ELSE <<>>
     IN IF InData
        THEN /\ frags' = [frags EXCEPT ![LastFrag].size = @ + n, ![LastFrag].fix = @ \o fixes]
             /\ UNCHANGED <<sym, pending>>
        ELSE Insert(Data(n, fixes))
  /\ Emitted

(* An instruction that never grows, or data, goes to the end of the data   *)
(* fragment, its fixups moved by what is there already.                    *)
EmitInstToData ==
  /\ Emitting({"insn", "call"})
  /\ LET s == prog[cur]
         had == IF InData THEN frags[LastFrag].size ELSE 0
         n == IF s.op = "call" THEN 5 ELSE s.size
         fixes == IF s.op = "call" THEN <<CallFix(s, had)>> ELSE <<>>
     IN IF InData
        THEN /\ frags' = [frags EXCEPT ![LastFrag].size = @ + n, ![LastFrag].fix = @ \o fixes]
             /\ UNCHANGED <<sym, pending>>
        ELSE Insert(Data(n, fixes))
  /\ Emitted

(* A jump has a fragment of its own, because its size can change.          *)
EmitInstToFragment ==
  /\ Emitting({"jump"})
  /\ Insert(Short(prog[cur]))
  /\ Emitted

(* .fill, .org and .p2align                                                *)
EmitSpace ==
  /\ Emitting({"fill", "org", "align"})
  /\ LET s == prog[cur]
     IN Insert([kind |-> s.op, size |-> s.size, most |-> s.most, fix |-> <<>>])
  /\ Emitted

(* A label is in the data fragment there is, or waits for the next one.    *)
EmitLabel ==
  /\ Emitting({"label"})
  /\ LET l == prog[cur].name
     IN IF InData
        THEN /\ sym' = [sym EXCEPT ![l] = [frag |-> LastFrag, off |-> frags[LastFrag].size]]
             /\ UNCHANGED pending
        ELSE pending' = pending \union {l} /\ UNCHANGED sym
  /\ UNCHANGED frags
  /\ Emitted

(* Finish: labels that still wait, and a section with nothing in it, get   *)
(* an empty fragment, and the layout starts.                               *)
Finish ==
  /\ pc = "emit" /\ cur > Len(prog)
  /\ IF pending # {} \/ frags = <<>>
     THEN Insert(Data(0, <<>>))
     ELSE UNCHANGED <<frags, sym, pending>>
  /\ pc' = "relax" /\ cur' = 1
  /\ UNCHANGED <<prog, laid, fix, first, again, code, err>>

-----------------------------------------------------------------------------
\* The layout.

Pad(f, off) == (f.size - (off % f.size)) % f.size
Room(f, off) ==
  CASE f.kind = "align" -> IF Pad(f, off) > f.most THEN 0 ELSE Pad(f, off)
    [] f.kind = "org" -> f.size - off
    [] OTHER -> f.size

MaxOrg == 1073741824    \* 0x40000000

(* No fragment can be laid out behind an .org that goes back, or too far.  *)
Blocked ==
  /\ laid # <<>>
  /\ frags[Len(laid)].kind = "org"
  /\ Room(frags[Len(laid)], laid[Len(laid)]) \notin 0 .. MaxOrg - 1

Valid(i) == i <= Len(laid)

(* What getFragmentOffset is asked for to know where fixup f of fragment i *)
(* leads: the fragment of the label, then the fragment itself.             *)
IsMissing(f) == f.to.kind = "label" /\ sym[f.to.name] = Nowhere
Needed(i, f) ==
  IF f.to.kind = "label" /\ sym[f.to.name].frag > i THEN sym[f.to.name].frag ELSE i

(* The fragment whose offset is wanted at this point, 0 for none.          *)
Wanted ==
  CASE pc = "relax" /\ cur <= Len(frags) ->
         IF frags[cur].kind = "short" /\ ~ IsMissing(frags[cur].fix[1])
         THEN Needed(cur, frags[cur].fix[1]) ELSE 0
    [] pc = "finish" -> Len(frags)
    [] pc = "fix" /\ cur <= Len(frags) ->
         IF fix <= Len(frags[cur].fix) /\ ~ IsMissing(frags[cur].fix[fix])
         THEN Needed(cur, frags[cur].fix[fix]) ELSE 0
    [] OTHER -> 0

Laying == Wanted > Len(laid) /\ ~ Blocked

NextOffset ==
  IF laid = <<>> THEN Base
  ELSE laid[Len(laid)] + Room(frags[Len(laid)], laid[Len(laid)])

(* One round of ensureValid's loop: the fragment after the last valid one  *)
(* starts where that one ends.                                             *)
LayoutFragment ==
  /\ Laying
  /\ laid' = Append(laid, NextOffset)
  /\ UNCHANGED <<stream, frags, pc, cur, fix, first, again, code, err>>

(* Where a label is; in a fragment that cannot be laid out it is taken for *)
(* its offset there, since getSymbolOffset does not say so.                *)
LabelOffset(l) == (IF Valid(sym[l].frag) THEN laid[sym[l].frag] ELSE 0) + sym[l].off

(* evaluateFixup: from the field to the target; a number or label is taken *)
(* from the end of the field, what a resolver answers is not.              *)
Value(i, f) ==
  (CASE f.to.kind = "label" -> LabelOffset(f.to.name) - f.width
     [] f.to.kind = "number" -> f.to.at - f.width
     [] f.to.kind = "resolver" -> f.to.at) - (laid[i] + f.at)

FixupError(i, f) ==
  CASE IsMissing(f) -> "missing"
    [] ~ Valid(i) -> "fragment"
    [] OTHER -> "none"

Int8 == -128 .. 127

\* Faulty variant: a jump is looked at whatever its form.
NeedsRelaxationAlways(i) ==
  /\ frags[i].kind \in {"short", "long"}
  /\ LET f == frags[i].fix[1] IN FixupError(i, f) = "none" /\ Value(i, f) \notin Int8

(* A jump that cannot be evaluated is left for later to complain about.    *)
NeedsRelaxation(i) ==
  /\ frags[i].kind = "short"
  /\ LET f == frags[i].fix[1] IN FixupError(i, f) = "none" /\ Value(i, f) \notin Int8

(* relaxInstruction: the long form has the same target; a conditional jump *)
(* has two bytes of opcode then.                                           *)
Long(f) == [f EXCEPT !.kind = "long", !.size = f.most,
                     !.fix = <<[at |-> f.most - 4, width |-> 4, to |-> f.fix[1].to]>>]

\* Faulty variant: the last fragment relaxed is remembered, not the first.
RelaxFragmentLast ==
  /\ pc = "relax" /\ cur <= Len(frags) /\ ~ Laying
  /\ IF NeedsRelaxation(cur)
     THEN /\ frags' = [frags EXCEPT ![cur] = Long(@)]
          /\ first' = cur
     ELSE UNCHANGED <<frags, first>>
  /\ cur' = cur + 1
  /\ UNCHANGED <<stream, laid, pc, fix, again, code, err>>

(* One round of layoutSectionOnce.  What is laid out behind a jump that    *)
(* grew stays as it is until the end of the pass.                          *)
RelaxFragment ==
  /\ pc = "relax" /\ cur <= Len(frags) /\ ~ Laying
  /\ IF NeedsRelaxation(cur)
     THEN /\ frags' = [frags EXCEPT ![cur] = Long(@)]
          /\ first' = IF first = 0 THEN cur ELSE first
     ELSE UNCHANGED <<frags, first>>
  /\ cur' = cur + 1
  /\ UNCHANGED <<stream, laid, pc, fix, again, code, err>>

Passed == pc = "relax" /\ cur > Len(frags)

(* invalidateFragmentsFrom: valid is what comes before it.                 *)
InvalidateFrom(i) == IF Valid(i) THEN SubSeq(laid, 1, i - 1) ELSE laid

\* Faulty variant: one pass is all.
LayoutOnceEnds ==
  /\ Passed
  /\ laid' = IF first # 0 THEN InvalidateFrom(first) ELSE laid
  /\ pc' = "finish" /\ first' = 0
  /\ UNCHANGED <<stream, frags, cur, fix, again, code, err>>

(* The end of a pass: if a jump grew, the offsets from the first one on    *)
(* are forgotten and the section is gone through again; when none grew,    *)
(* layout() asks for a whole round without any before it goes on.          *)
LayoutOnce ==
  /\ Passed
  /\ \/ /\ first # 0
        /\ laid' = InvalidateFrom(first)
        /\ first' = 0 /\ again' = TRUE /\ cur' = 1
        /\ UNCHANGED pc
     \/ /\ first = 0 /\ again
        /\ again' = FALSE /\ cur' = 1
        /\ UNCHANGED <<laid, first, pc>>
     \/ /\ first = 0 /\ ~ again
        /\ pc' = "finish" /\ cur' = 1
        /\ UNCHANGED <<laid, first, again>>
  /\ UNCHANGED <<stream, frags, fix, code, err>>

(* finishLayout asks for the last fragment's offset and drops the answer.  *)
FinishLayout ==
  /\ pc = "finish" /\ ~ Laying
  /\ pc' = "fix" /\ cur' = 1 /\ fix' = 1
  /\ UNCHANGED <<stream, frags, laid, first, again, code, err>>

-----------------------------------------------------------------------------
\* The fixups and the object.

(* applyFixup lets one bit more pass than the field has; four bytes hold   *)
(* every value of this model.                                              *)
Fits(f, v) == f.width = 4 \/ v \in -256 .. 255

Fail(e) == err' = e /\ pc' = "done"

ApplyFixup ==
  /\ pc = "fix" /\ cur <= Len(frags) /\ fix <= Len(frags[cur].fix) /\ ~ Laying
  /\ LET f == frags[cur].fix[fix]
         e == FixupError(cur, f)
     IN IF e # "none"
        THEN Fail(e) /\ UNCHANGED <<fix, code>>
        ELSE IF ~ Fits(f, Value(cur, f))
        THEN Fail("invalid") /\ UNCHANGED <<fix, code>>
        ELSE /\ code' = Append(code, [frag |-> cur, fix |-> fix, value |-> Value(cur, f)])
             /\ fix' = fix + 1
             /\ UNCHANGED <<pc, err>>
  /\ UNCHANGED <<stream, frags, laid, cur, first, again>>

NextFixups ==
  /\ pc = "fix" /\ cur <= Len(frags) /\ fix > Len(frags[cur].fix)
  /\ cur' = cur + 1 /\ fix' = 1
  /\ UNCHANGED <<stream, frags, laid, pc, first, again, code, err>>

Fixed ==
  /\ pc = "fix" /\ cur > Len(frags)
  /\ pc' = "write"
  /\ UNCHANGED <<stream, frags, laid, cur, fix, first, again, code, err>>

(* writeObject: the size of every fragment is computed once more, and one  *)
(* that has none makes the whole an error.                                 *)
WriteObject ==
  /\ pc = "write"
  /\ IF Blocked THEN Fail("fragment") ELSE pc' = "done" /\ UNCHANGED err
  /\ UNCHANGED <<stream, frags, laid, cur, fix, first, again, code>>

Next ==
  \/ EmitInstToData \/ EmitInstToFragment \/ EmitSpace \/ EmitLabel \/ Finish
  \/ LayoutFragment \/ RelaxFragment \/ LayoutOnce \/ FinishLayout
  \/ ApplyFixup \/ NextFixups \/ Fixed \/ WriteObject

Spec == Init /\ [][Next]_vars /\ WF_vars(Next)

-----------------------------------------------------------------------------
(* An offset that is remembered as valid is the end of the fragment before *)
(* it, unless jumps grew in this very pass, and up to the first of them    *)
(* even then (MCFragment.cpp:43-61, MCAssembler.cpp:875-916).              *)
IsSum(i) ==
  laid[i] = IF i = 1 THEN Base ELSE laid[i - 1] + Room(frags[i - 1], laid[i - 1])
OffsetsAreSums ==
  \A i \in 1 .. Len(laid) : first = 0 \/ i <= first => IsSum(i)

(* No jump is left short that does not reach: the pass nothing grew in has *)
(* looked at every jump with the offsets that count (MCAssembler.cpp:719,  *)
(* X86AsmBackend.cpp:285).  applyFixup would let twice the distance pass.  *)
ShortJumpsReach ==
  pc = "done" /\ err = "none" =>
    \A i \in 1 .. Len(frags) :
      frags[i].kind = "short" => Value(i, frags[i].fix[1]) \in Int8

(* What the program says, statement by statement: its k-th jump is as long *)
(* as the k-th jump fragment, and a statement ends that many bytes behind  *)
(* the one before.                                                         *)
Upto(S, n) == Cardinality({x \in S : x <= n})
Jumps == {j \in 1 .. Len(prog) : prog[j].op = "jump"}
JumpFrags == {i \in 1 .. Len(frags) : frags[i].kind \in {"short", "long"}}
JumpFrag(j) == CHOOSE i \in JumpFrags : Upto(JumpFrags, i) = Upto(Jumps, j)
Bytes(j, at) ==
  LET s == prog[j] IN
  CASE s.op = "insn" -> s.size
    [] s.op = "call" -> 5
    [] s.op = "jump" -> frags[JumpFrag(j)].size
    [] s.op = "label" -> 0
    [] OTHER -> Room([kind |-> s.op, size |-> s.size, most |-> s.most], at)
End ==
  LET e[j \in 0 .. Len(prog)] == IF j = 0 THEN Base ELSE e[j - 1] + Bytes(j, e[j - 1])
  IN e

Defined(l, j) == prog[j].op = "label" /\ prog[j].name = l
Goes(s, to) ==
  IF s.kind = "label" THEN \E j \in 1 .. Len(prog) : Defined(s.name, j) /\ to = End[j]
  ELSE to = s.at

(* A program assembled without an error jumps and calls where it says: the *)
(* displacement written for a statement leads from its end to the          *)
(* statement that bears the label, or to the number, however often jumps   *)
(* before, between or behind them grew (MCAssembler.cpp:147-263).          *)
Transfers == {j \in 1 .. Len(prog) : prog[j].op \in {"jump", "call"}}
LandsAt(j) == End[j] + code[Upto(Transfers, j)].value
JumpsLand ==
  pc = "done" /\ err = "none" =>
    /\ Len(code) = Cardinality(Transfers)
    /\ \A j \in Transfers : prog[j].to.kind # "resolver" => Goes(prog[j].to, LandsAt(j))

(* ... to what the resolver answers as well, as                            *)
(* suite/regress/x64_sym_resolver.py:30-34 expects of a call.              *)
ResolvedJumpsLand ==
  pc = "done" /\ err = "none" =>
    \A j \in Transfers : prog[j].to.kind = "resolver" => Goes(prog[j].to, LandsAt(j))

(* Relaxing comes to an end: jumps only grow, however aligned and placed   *)
(* directives move what is behind them (MCAssembler.cpp:719-720, 923).     *)
LayoutEnds == <>(pc = "done")

=============================================================================
