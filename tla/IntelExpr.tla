------------------------------ MODULE IntelExpr ------------------------------
(***************************************************************************)
(* How keystone reads a memory operand of Intel syntax, what stands        *)
(* between the brackets (lib/Target/X86/AsmParser/X86AsmParser.cpp,        *)
(* IntelExprStateMachine and InfixCalculator): one pass over the tokens    *)
(* picks out base, index and scale and leaves the rest to a calculator     *)
(* with a stack of operators and a postfix list.                           *)
(*                                                                         *)
(* int64_t is Width bits here and unsigned, in which the scale is kept,    *)
(* ScaleWidth.  Symbols, the nasm words rel and abs,       *)
(* what stands in front of the brackets and a second pair of them are left *)
(* out, and so are shifts that C++ does not define.                        *)
(***************************************************************************)
EXTENDS Integers, FiniteSets, SequencesExt

CONSTANTS
  Regs,       \* registers, numbered from 1
  Numbers,    \* numbers an operand may hold
  Marks,      \* the operators and parentheses it may hold
  Kind,       \* Kind[r]: "r64", "r32", "r16", "bx" (BX, BP), "si" (SI, DI), or "other"
  Width,      \* bits of a number
  ScaleWidth, \* bits of a scale
  MaxTokens   \* bound: how long an operand is

VARIABLES
  read,       \* the tokens read so far, without the closing bracket
  state,      \* State: the token read last
  prev,       \* PrevState
  base,       \* BaseReg, IndexReg, TmpReg and Scale
  index,
  tmp,
  scale,
  ops,        \* InfixOperatorStack
  post        \* PostfixStack, of ICTokens

vars == <<read, state, prev, base, index, tmp, scale, ops, post>>

NoReg == 0
Dyadic == {"|", "^", "&", "<<", ">>", "+", "-", "*", "/"}
Prec == [o \in Dyadic \union {"(", ")"} |->
  CASE o = "|" -> 0 [] o = "^" -> 1 [] o = "&" -> 2 [] o \in {"<<", ">>"} -> 3
    [] o \in {"+", "-"} -> 4 [] o \in {"*", "/"} -> 5 [] o = ")" -> 6 [] OTHER -> 7]

(* ICToken, also for what is read: an operator, a number or a register.    *)
Token(kind, n) == [kind |-> kind, val |-> n]
Mark(o) == Token(o, 0)

Init ==
  /\ read = <<>>
  /\ state = "+" /\ prev = "error"
  /\ base = NoReg /\ index = NoReg /\ tmp = NoReg /\ scale = 1
  /\ ops = <<>> /\ post = <<>>

-----------------------------------------------------------------------------
\* The calculator.

(* Operators leave the stack from its top; parentheses are only dropped.   *)
Operators(s) ==
  LET of[n \in 0 .. Len(s)] ==
        IF n = 0 THEN <<>>
        ELSE IF s[n] \in Dyadic THEN <<Mark(s[n])>> \o of[n - 1] ELSE of[n - 1]
  IN of[Len(s)]

(* pushOperator's loop: operators that bind at least as tightly go to the  *)
(* postfix list, what is in closed parentheses whole, down to the first    *)
(* outside of those that binds less or opens a parenthesis.                *)
InClosed(s, p) ==
  Cardinality({q \in DOMAIN s : q > p /\ s[q] = ")"})
    # Cardinality({q \in DOMAIN s : q > p /\ s[q] = "("})
Stops(s, p, o) == ~ InClosed(s, p) /\ (s[p] = "(" \/ Prec[s[p]] < Prec[o])
Unstacked(s, o) ==
  LET left == Max({0} \union {p \in DOMAIN s : Stops(s, p, o)})
  IN [ops |-> Append(SubSeq(s, 1, left), o), out |-> Operators(SubSeq(s, left + 1, Len(s)))]

\* Faulty variant: an operator that binds as tightly waits as well.
PushOperatorWaiting(s, o) ==
  IF s # <<>> /\ Prec[o] < Prec[Last(s)] /\ Last(s) # "("
  THEN Unstacked(s, o)
  ELSE [ops |-> Append(s, o), out |-> <<>>]

(* pushOperator: on top of one that binds less, or of a parenthesis.       *)
PushOperator(s, o) ==
  IF s # <<>> /\ Prec[o] <= Prec[Last(s)] /\ Last(s) # "("
  THEN Unstacked(s, o)
  ELSE [ops |-> Append(s, o), out |-> <<>>]

Wrap(n) == ((n + 2 ^ (Width - 1)) % 2 ^ Width) - 2 ^ (Width - 1)
Unsigned(n) == n % 2 ^ Width
Abs(n) == IF n < 0 THEN -n ELSE n
Sign(n) == IF n < 0 THEN -1 ELSE 1
Bits(n) == {i \in 0 .. Width - 1 : (Unsigned(n) \div 2 ^ i) % 2 = 1}
Number(bits) == MapThenSumSet(LAMBDA i : 2 ^ i, bits)
Apply(o, a, b) ==
  Wrap(CASE o = "+" -> a + b [] o = "-" -> a - b [] o = "*" -> a * b
         [] o = "/" -> Sign(a) * Sign(b) * (Abs(a) \div Abs(b))
         [] o = "|" -> Number(Bits(a) \union Bits(b))
         [] o = "^" -> Number((Bits(a) \union Bits(b)) \ (Bits(a) \intersect Bits(b)))
         [] o = "&" -> Number(Bits(a) \intersect Bits(b))
         [] o = "<<" -> a * 2 ^ b
         [] o = ">>" -> a \div 2 ^ b)

(* execute: the value of the postfix list, or Bad.  Only sums and          *)
(* differences may have registers for operands, and those are worth 0.     *)
Bad == <<>>
Allowed(o, a, b) ==
  /\ o \notin {"+", "-"} => a.kind = "imm" /\ b.kind = "imm"
  /\ o = "/" => b.val # 0
  /\ o \in {"<<", ">>"} => b.val \in 0 .. Width - 1

Step(a, t) ==
  LET n == Len(a.stack)
  IN IF t.kind \notin Dyadic THEN [a EXCEPT !.stack = Append(@, t)]
     ELSE IF ~ a.ok \/ n < 2 \/ ~ Allowed(t.kind, a.stack[n - 1], a.stack[n])
     THEN [a EXCEPT !.ok = FALSE]
     ELSE [a EXCEPT !.stack = Append(SubSeq(@, 1, n - 2),
             Token("imm", Apply(t.kind, @[n - 1].val, @[n].val)))]
Run(list) ==
  LET after[n \in 0 .. Len(list)] ==
        IF n = 0 THEN [ok |-> TRUE, stack |-> <<>>] ELSE Step(after[n - 1], list[n])
      end == after[Len(list)]
  IN IF end.ok /\ Len(end.stack) = 1 THEN <<end.stack[1].val>> ELSE Bad

Execute ==
  LET list == post \o Operators(ops) IN IF list = <<>> THEN <<0>> ELSE Run(list)

-----------------------------------------------------------------------------
\* The state machine: one handler per token.

Reads(t) ==
  /\ state \notin {"]", "error"} /\ Len(read) < MaxTokens
  /\ read' = Append(read, t)
  /\ prev' = state

Fails == state' = "error" /\ UNCHANGED <<base, index, tmp, scale, ops, post>>
Operator(o) == LET c == PushOperator(ops, o) IN ops' = c.ops /\ post' = post \o c.out

(* A register that stands alone is the base, or else the index.            *)
PlaceRegister(after) ==
  IF state # "reg" \/ prev = "*" THEN state' = after /\ UNCHANGED <<base, index, scale>>
  ELSE IF base = NoReg THEN state' = after /\ base' = tmp /\ UNCHANGED <<index, scale>>
  ELSE IF index = NoReg THEN state' = after /\ index' = tmp /\ scale' = 1 /\ UNCHANGED base
  ELSE state' = "error" /\ UNCHANGED <<base, index, scale>>

(* onOr, onXor, onAnd, onLShift, onRShift, onStar and onDivide             *)
OnOperator(o) ==
  /\ Reads(Mark(o))
  /\ IF state \in {"int", ")"} \/ (state = "reg" /\ o # "/")
     THEN state' = o /\ Operator(o) /\ UNCHANGED <<base, index, tmp, scale>>
     ELSE Fails

OnPlus ==
  /\ Reads(Mark("+"))
  /\ IF state \in {"int", ")", "reg"}
     THEN PlaceRegister("+") /\ Operator("+") /\ UNCHANGED tmp
     ELSE Fails

Signable == {"+", "*", "/", "("}   \* what a sign may follow
(* onMinus pushes no operator for a sign.                                  *)
OnMinus ==
  /\ Reads(Mark("-"))
  /\ IF state \notin Signable \union {"~", "int", ")", "reg"} THEN Fails
     ELSE /\ PlaceRegister("-")
          /\ IF state \in Signable THEN UNCHANGED <<ops, post>> ELSE Operator("-")
          /\ UNCHANGED tmp

OnNot ==
  /\ Reads(Mark("~"))
  /\ IF state \in {"+", "~"} THEN state' = "~" /\ UNCHANGED <<base, index, tmp, scale, ops, post>>
     ELSE Fails

(* Scale is unsigned: what is assigned to it loses its upper bits.         *)
Narrow(n) == n % 2 ^ ScaleWidth

(* scale * register: taken off the calculator, which gets a 0 for it.      *)
ScaledRegister(r) ==
  /\ index' = r /\ scale' = Narrow(Last(post).val)
  /\ post' = Append(Front(post), Token("imm", 0))
  /\ ops' = Front(ops)

OnRegister(r) ==
  /\ Reads(Token("reg", r))
  /\ CASE state \in {"+", "("} ->
            /\ state' = "reg" /\ tmp' = r
            /\ post' = Append(post, Token("reg", 0))
            /\ UNCHANGED <<base, index, scale, ops>>
       [] state = "*" /\ prev = "int" /\ index = NoReg /\ Last(post).kind \notin Dyadic ->
            state' = "reg" /\ ScaledRegister(r) /\ UNCHANGED <<base, tmp>>
       [] OTHER -> Fails

Scales == {1, 2, 4, 8}
Openers == {"+", "-", "|", "^", "&", "<<", ">>", "*", "/", "(", "~"}
(* onInteger: a scale behind register *, or a number with its sign.        *)
OnInteger(n) ==
  /\ Reads(Token("imm", n))
  /\ CASE state \notin Openers -> Fails
       [] state = "*" /\ prev = "reg" ->
            IF index # NoReg \/ Narrow(n) \notin Scales THEN Fails
            ELSE /\ state' = "int" /\ index' = tmp /\ scale' = Narrow(n)
                 /\ ops' = Front(ops)
                 /\ UNCHANGED <<base, tmp, post>>
       [] OTHER ->
            /\ state' = "int"
            /\ post' = Append(post, Token("imm",
                 CASE prev \in Openers /\ state = "-" -> -n
                   [] prev \in Openers /\ state = "~" -> -n - 1
                   [] OTHER -> n))
            /\ UNCHANGED <<base, index, tmp, scale, ops>>

(* onLParen: not behind a sign.                                            *)
OnLParen ==
  /\ Reads(Mark("("))
  /\ IF state \in Openers /\ ~ (prev \in Openers /\ state \in {"-", "~"})
     THEN state' = "(" /\ Operator("(") /\ UNCHANGED <<base, index, tmp, scale>>
     ELSE Fails

OnRParen ==
  /\ Reads(Mark(")"))
  /\ IF state \in {"int", "reg", ")"}
     THEN state' = ")" /\ Operator(")") /\ UNCHANGED <<base, index, tmp, scale>>
     ELSE Fails

OnRBrac ==
  /\ state \in {"int", "reg", ")"}
  /\ prev' = state
  /\ PlaceRegister("]")
  /\ UNCHANGED <<read, tmp, ops, post>>

Next ==
  \/ \E o \in Marks \ {"+", "-", "~", "(", ")"} : OnOperator(o)
  \/ "+" \in Marks /\ OnPlus
  \/ "-" \in Marks /\ OnMinus
  \/ "~" \in Marks /\ OnNot
  \/ \E r \in Regs : OnRegister(r)
  \/ \E n \in Numbers : OnInteger(n)
  \/ "(" \in Marks /\ OnLParen
  \/ ")" \in Marks /\ OnRParen
  \/ OnRBrac

Spec == Init /\ [][Next]_vars

(* CheckBaseRegAndIndexReg: base and index of different widths, or a pair  *)
(* that 16-bit addressing does not have.                                   *)
Sixteen == {"r16", "bx", "si"}
Mismatched(b, i) ==
  /\ b # NoReg /\ i # NoReg
  /\ \/ Kind[b] = "r64" /\ Kind[i] \in Sixteen \union {"r32"}
     \/ Kind[b] = "r32" /\ Kind[i] \in Sixteen \union {"r64"}
     \/ Kind[b] \in Sixteen /\ Kind[i] \in {"r32", "r64"}
     \/ Kind[b] = "bx" /\ Kind[i] # "si"
     \/ Kind[b] = "si" /\ Kind[i] # "bx"

(* ParseIntelBracExpression: what it takes, and the address it makes, as   *)
(* the factor of each register and a displacement.                         *)
Accepted ==
  /\ state = "]" /\ Execute # Bad
  /\ scale \in Scales /\ ~ Mismatched(base, index)
Unit(r, n) == [q \in Regs |-> IF q = r THEN n ELSE 0]
Sum(f, g, sign) == [q \in Regs |-> f[q] + sign * g[q]]
Address == [regs |-> Sum(Unit(base, 1), Unit(index, scale), 1), imm |-> Execute[1]]

-----------------------------------------------------------------------------
\* What an operand says, by the rules of arithmetic.

IsOperandEnd(t) == t.kind \in {"imm", "reg", ")"}
Depth(t, i) == Cardinality({j \in 1 .. i : t[j].kind = "("})
                 - Cardinality({j \in 1 .. i - 1 : t[j].kind = ")"})
IsDyadic(t, i) ==
  i > 1 /\ t[i].kind \in Dyadic /\ IsOperandEnd(t[i - 1]) /\ Depth(t, i) = 0
Levels == <<{"|"}, {"^"}, {"&"}, {"<<", ">>"}, {"+", "-"}, {"*", "/"}>>
Cuts(t, n) == {i \in DOMAIN t : IsDyadic(t, i) /\ t[i].kind \in Levels[n]}

Nonsense == [regs |-> <<>>, imm |-> 0]
IsConst(m) == m # Nonsense /\ m.regs = Unit(NoReg, 0)
Scaled(f, n) == [q \in Regs |-> f[q] * n]
Combined(o, a, b) ==
  LET imm == Apply(o, a.imm, b.imm)
  IN CASE o = "+" -> [regs |-> Sum(a.regs, b.regs, 1), imm |-> imm]
       [] o = "-" -> [regs |-> Sum(a.regs, b.regs, -1), imm |-> imm]
       [] o = "*" /\ IsConst(a) -> [regs |-> Scaled(b.regs, a.imm), imm |-> imm]
       [] o = "*" /\ IsConst(b) -> [regs |-> Scaled(a.regs, b.imm), imm |-> imm]
       [] IsConst(a) /\ IsConst(b) /\ Allowed(o, Token("imm", a.imm), Token("imm", b.imm)) ->
            [regs |-> a.regs, imm |-> imm]
       [] OTHER -> Nonsense

Parts(t) == {SubSeq(t, i, j) : i \in 1 .. Len(t) + 1, j \in 0 .. Len(t)}
Meaning(t) ==
  LET of[s \in Parts(t)] ==
    LET n == Len(s)
        levels == {l \in DOMAIN Levels : Cuts(s, l) # {}}
    IN IF levels # {} THEN
         LET cut == Max(Cuts(s, Min(levels)))
             a == of[SubSeq(s, 1, cut - 1)]
             b == of[SubSeq(s, cut + 1, n)]
         IN IF Nonsense \in {a, b} THEN Nonsense ELSE Combined(s[cut].kind, a, b)
       ELSE CASE n = 1 /\ s[1].kind = "imm" -> [regs |-> Unit(NoReg, 0), imm |-> s[1].val]
              [] n = 1 /\ s[1].kind = "reg" -> [regs |-> Unit(s[1].val, 1), imm |-> 0]
              [] n = 2 /\ s[1].kind = "-" /\ s[2].kind = "imm" ->
                   [regs |-> Unit(NoReg, 0), imm |-> -s[2].val]
              [] n = 2 /\ s[1].kind = "~" /\ s[2].kind = "imm" ->
                   [regs |-> Unit(NoReg, 0), imm |-> -s[2].val - 1]
              [] n > 2 /\ s[1].kind = "(" /\ s[n].kind = ")" -> of[Tail(Front(s))]
              [] OTHER -> Nonsense
  IN of[t]

(* Each register is added, alone or times a number that fits the scale,    *)
(* and in no parentheses.                                                  *)
At(t, i) == IF i \in DOMAIN t THEN t[i] ELSE Mark("+")
RegsOf(t) == {i \in DOMAIN t : t[i].kind = "reg"}
Addend(t, first, last) ==
  /\ Depth(t, first) = 0
  /\ At(t, first - 1).kind = "+" /\ At(t, last + 1).kind \in {"+", "-"}
Alone(t, i) == Addend(t, i, i)
Product(t, i, n) ==   \* n is the place of the number
  /\ At(t, n).kind = "imm" /\ At(t, (i + n) \div 2).kind = "*"
  /\ IF n < i THEN Addend(t, n, i) ELSE Addend(t, i, n)
Times(t, i, n) == Product(t, i, n) /\ t[n].val \in 0 .. 2 ^ ScaleWidth - 1
IsPlain(t) ==
  /\ Meaning(t) # Nonsense
  /\ \A i \in RegsOf(t) : Alone(t, i) \/ Times(t, i, i - 2) \/ Times(t, i, i + 2)

(* Base + Scale*Index + displacement, in any order, of registers that go   *)
(* together, and no sign but at the front or behind a +.                   *)
IsForm(t) ==
  /\ IsPlain(t)
  /\ Cardinality(RegsOf(t)) <= 2
  /\ \A i, j \in RegsOf(t) : i # j => /\ Alone(t, i) \/ Alone(t, j)
                                     /\ ~ Mismatched(t[i].val, t[j].val)
  /\ \A i \in RegsOf(t), n \in DOMAIN t : Times(t, i, n) /\ n \in {i - 2, i + 2} => t[n].val \in Scales
  /\ \A i \in DOMAIN t :
       t[i].kind \in {"-", "~"} => IsOperandEnd(At(t, i - 1)) \/ At(t, i - 1).kind = "+"

-----------------------------------------------------------------------------
(* An operand that is taken addresses what it says, however operators,     *)
(* signs, parentheses, bases and scaled registers follow one another, and  *)
(* one of the form Base + Scale*Index + displacement is taken              *)
(* (X86AsmParser.cpp:121-171, 440-720, 1549, 1617).                        *)
Denotes ==
  /\ Accepted /\ IsPlain(read) => Address = Meaning(read)
  /\ state \in {"]", "error"} /\ IsForm(read) => Accepted

=============================================================================
