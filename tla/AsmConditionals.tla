--------------------------- MODULE AsmConditionals ---------------------------
(***************************************************************************)
(* Conditional assembly in keystone (lib/MC/MCParser/AsmParser.cpp and     *)
(* include/llvm/MC/MCParser/AsmCond.h): .if and its relatives keep one     *)
(* state of conditionals and a stack of the outer ones; macros are read in *)
(* place and remember how deep the stack was when they were entered.       *)
(*                                                                         *)
(* An .if, .ifb or .ifc is kept as whether it holds.  There is one symbol. *)
(* A directive that fails leaves its tokens from the failure on, which are *)
(* read as another statement.  frames is a history variable: what is open, *)
(* conditional by conditional.                                             *)
(***************************************************************************)
EXTENDS Integers, SequencesExt

CONSTANTS
  MaxMacros,   \* how deep macros may be nested; 20 in the code
  MaxDepth     \* bound: how deep conditionals are nested

VARIABLES
  cond,        \* TheCondState
  stack,       \* TheCondStack
  macros,      \* ActiveMacros, of each its CondStackDepth
  defined,     \* whether the symbol is defined
  error,       \* KsError, whether there is one
  state,       \* "reading"; how Run returned; or "undefined" behaviour
  frames       \* per open conditional: its branches so far

vars == <<cond, stack, macros, defined, error, state, frames>>

Cond == [theCond : {"none", "if", "elseif", "else"}, condMet : BOOLEAN, ignore : BOOLEAN]

(* A conditional's last branch, whether that one is to be assembled,       *)
(* whether one has been, whether it is an .ifeqs in a skipped block, and   *)
(* whether the condition of its .if could not be read: what is in such a   *)
(* block is read as what is around it, what is in its other branches is    *)
(* anyone's guess.                                                         *)
Frame == [branch : {"if", "elseif", "else"}, active : BOOLEAN, met : BOOLEAN,
          stray : BOOLEAN, unread : BOOLEAN]
Live == \A i \in DOMAIN frames : frames[i].active
Guess(f) == f.unread /\ f.branch # "if"

TypeOK ==
  /\ cond \in Cond
  /\ stack \in Seq(Cond) /\ Len(stack) <= MaxDepth
  /\ macros \in Seq(0 .. MaxDepth) /\ Len(macros) <= MaxMacros
  /\ {defined, error} \subseteq BOOLEAN
  /\ state \in {"reading", "ended", "stopped", "undefined"}
  /\ frames \in Seq(Frame)

Init ==
  /\ cond = [theCond |-> "none", condMet |-> FALSE, ignore |-> FALSE]
  /\ stack = <<>> /\ macros = <<>>
  /\ defined \in BOOLEAN /\ error = FALSE
  /\ state = "reading"
  /\ frames = <<>>

Reading == state = "reading"

(* parseStatement: KsError is forgotten first.  Run goes on behind a       *)
(* statement that sets it, and stops at one that fails without, with the   *)
(* statement's own error, which may be none.                               *)
Read == error' = FALSE /\ UNCHANGED state
Fails == error' = TRUE /\ UNCHANGED state
Stops(said) == error' = said /\ state' = "stopped"

(* A directive in the wrong place, or with tokens it does not expect.      *)
Refuse == Reading /\ Fails /\ UNCHANGED <<cond, stack, macros, defined, frames>>

-----------------------------------------------------------------------------
\* Directives that are read even where the text is skipped.

Opened(holds, stray, unread) ==
  Append(frames, [branch |-> "if", active |-> holds \/ unread, met |-> holds,
                  stray |-> stray, unread |-> unread])

Push ==
  /\ Reading /\ Len(stack) < MaxDepth
  /\ stack' = Append(stack, cond)
  /\ UNCHANGED <<macros, defined>>

(* parseDirectiveIf, parseDirectiveIfb, parseDirectiveIfc: the condition   *)
(* is not looked at in a skipped block, which leaves condMet as it is.     *)
If(holds) ==
  /\ Push /\ Read
  /\ cond' = IF cond.ignore THEN [cond EXCEPT !.theCond = "if"]
             ELSE [theCond |-> "if", condMet |-> holds, ignore |-> ~ holds]
  /\ frames' = Opened(holds, FALSE, FALSE)

(* One whose condition cannot be read is open all the same.                *)
IfUnread ==
  /\ Push /\ Fails /\ ~ cond.ignore
  /\ cond' = [cond EXCEPT !.theCond = "if"]
  /\ frames' = Opened(FALSE, FALSE, TRUE)

(* parseDirectiveIfdef                                                     *)
Ifdef(expected) == If(defined = expected)

(* parseDirectiveIfeqs compares its strings wherever it stands; without a  *)
(* comma between them it fails and does not say so.                        *)
Ifeqs(holds) ==
  /\ Push /\ Read
  /\ cond' = [theCond |-> "if", condMet |-> holds, ignore |-> ~ holds]
  /\ frames' = Opened(holds, cond.ignore, FALSE)
IfeqsWithoutComma == Reading /\ Stops(FALSE) /\ UNCHANGED <<cond, stack, macros, defined, frames>>

MayBranch == cond.theCond \in {"if", "elseif"}
OuterIgnores == stack # <<>> /\ Last(stack).ignore
Branched(branch, holds) ==
  LET f == Last(frames)
  IN Append(Front(frames), [f EXCEPT !.branch = branch, !.active = holds /\ ~ f.met,
                                     !.met = f.met \/ holds])

(* parseDirectiveElseIf                                                    *)
ElseIf(holds) ==
  /\ Reading
  /\ IF ~ MayBranch THEN Refuse
     ELSE /\ cond' = IF OuterIgnores \/ cond.condMet
                     THEN [cond EXCEPT !.theCond = "elseif", !.ignore = TRUE]
                     ELSE [theCond |-> "elseif", condMet |-> holds, ignore |-> ~ holds]
          /\ frames' = Branched("elseif", holds)
          /\ Read /\ UNCHANGED <<stack, macros, defined>>

(* One whose condition cannot be read, or has more behind it, which fails  *)
(* without an error.                                                       *)
ElseIfUnread ==
  /\ Reading /\ MayBranch /\ ~ OuterIgnores /\ ~ cond.condMet
  /\ cond' = [cond EXCEPT !.theCond = "elseif"]
  /\ frames' = Branched("elseif", FALSE)
  /\ Fails \/ Stops(FALSE)
  /\ UNCHANGED <<stack, macros, defined>>

\* Faulty variant: the block around it is not looked at.
ElseIgnoresInner == cond.condMet

(* parseDirectiveElse                                                      *)
ElseIgnores == OuterIgnores \/ cond.condMet
Else ==
  /\ Reading
  /\ IF ~ MayBranch THEN Refuse
     ELSE /\ cond' = [cond EXCEPT !.theCond = "else", !.ignore = ElseIgnores]
          /\ frames' = Branched("else", TRUE)
          /\ Read /\ UNCHANGED <<stack, macros, defined>>

(* parseDirectiveEndIf                                                     *)
EndIf ==
  /\ Reading
  /\ IF cond.theCond = "none" \/ stack = <<>> THEN Refuse
     ELSE /\ cond' = Last(stack) /\ stack' = Front(stack)
          /\ frames' = Front(frames)
          /\ Read /\ UNCHANGED <<macros, defined>>

-----------------------------------------------------------------------------
\* Statements that are skipped where cond.ignore says so.

Assembles == Reading /\ ~ cond.ignore

(* A blank one, one that is skipped, or one without bearing on these.      *)
Statement == Reading /\ Read /\ UNCHANGED <<cond, stack, macros, defined, frames>>

(* One that does not begin as a statement does.                            *)
Malformed == Assembles /\ Stops(TRUE) /\ UNCHANGED <<cond, stack, macros, defined, frames>>

(* A label; a second definition is an error.                               *)
Label ==
  /\ Assembles
  /\ IF defined THEN Stops(TRUE) /\ UNCHANGED defined ELSE Read /\ defined' = TRUE
  /\ UNCHANGED <<cond, stack, macros, frames>>

(* handleMacroEntry                                                        *)
Call ==
  /\ Assembles
  /\ IF Len(macros) = MaxMacros THEN Refuse
     ELSE macros' = Append(macros, Len(stack)) /\ Read /\ UNCHANGED <<cond, stack, defined, frames>>

(* parseDirectiveEndMacro: conditionals that are open stay open.           *)
EndMacro ==
  /\ Assembles
  /\ IF macros = <<>> THEN Refuse
     ELSE macros' = Front(macros) /\ Read /\ UNCHANGED <<cond, stack, defined, frames>>

(* parseDirectiveExitMacro: back to the stack as deep as it was; a macro   *)
(* that closed more than it opened pops an empty vector.                   *)
ExitMacro ==
  /\ Assembles
  /\ IF macros = <<>> THEN Refuse
     ELSE LET depth == Last(macros) IN
          IF Len(stack) < depth
          THEN state' = "undefined" /\ UNCHANGED <<cond, stack, macros, defined, error, frames>>
          ELSE /\ cond' = IF Len(stack) = depth THEN cond ELSE stack[depth + 1]
               /\ stack' = SubSeq(stack, 1, depth)
               /\ frames' = SubSeq(frames, 1, depth)
               /\ macros' = Front(macros)
               /\ Read /\ UNCHANGED defined

-----------------------------------------------------------------------------
(* AsmParser::Run at the end of the file, which an .end jumps to: nothing  *)
(* may be open.                                                            *)
End ==
  /\ Reading
  /\ state' = "ended"
  /\ error' = (error \/ cond.theCond # "none" \/ cond.ignore)
  /\ UNCHANGED <<cond, stack, macros, defined, frames>>

Next ==
  \/ \E holds \in BOOLEAN : If(holds) \/ Ifdef(holds) \/ Ifeqs(holds) \/ ElseIf(holds)
  \/ IfUnread \/ IfeqsWithoutComma \/ ElseIfUnread
  \/ Else \/ EndIf
  \/ Statement \/ Refuse \/ Malformed
  \/ Label \/ Call \/ EndMacro \/ ExitMacro
  \/ End

Spec == Init /\ [][Next]_vars

-----------------------------------------------------------------------------
(* Text is skipped exactly where some open conditional says so, and a file *)
(* is read to its end without an error only with all of them closed,       *)
(* whatever macros opened, closed or left and whatever failed on the way;  *)
(* unless an .ifeqs stands in a skipped block, or an .if that could not be *)
(* read goes on with another branch (AsmCond.h:21-24, AsmParser.cpp:712,   *)
(* 1531-1532, 4420, 4916, 730).                                            *)
SkipsExactly ==
  /\ Reading /\ (\A i \in DOMAIN frames : ~ frames[i].stray /\ ~ Guess(frames[i]))
       => cond.ignore = ~ Live
  /\ state = "ended" /\ ~ error => frames = <<>>

(* AsmCond.h:21-24 also of an .ifeqs: "When true we are ignoring the block *)
(* of code in the middle of a conditional."                                *)
SkipsAlways ==
  Reading /\ (\A i \in DOMAIN frames : ~ Guess(frames[i])) => cond.ignore = ~ Live

=============================================================================
