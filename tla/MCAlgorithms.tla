---------------------------- MODULE MCAlgorithms ----------------------------
(***************************************************************************)
(* Three sequential algorithms, one per job; in the other jobs Tea works   *)
(* on one block.  The cipher of the sign-in service is run at full width,  *)
(* on the four blocks of the documented input, the four of the table and   *)
(* two at the borders, under the code's key and one other; Blowfish with   *)
(* words of two bits and four rounds, on every text of up to three words.  *)
(* Of keystone there are the operands.                                     *)
(***************************************************************************)
EXTENDS Tea, FiniteSets

CONSTANTS Jobs,
  BRounds, Words, BitXor(_, _), PInit, SInit,                   \* Blowfish
  Submitted, Texts, MaxLayers,
  Regs, Numbers, Marks, Kind, Width, ScaleWidth, MaxTokens      \* IntelExpr

VARIABLES job,
  isKeyed, pEncrypt, pDecrypt, bfS, bkey, bstart, text, layers, \* Blowfish
  read, state, prev, base, index, tmp, scale, ops, post         \* IntelExpr

B == INSTANCE Blowfish WITH Rounds <- BRounds, key <- bkey, start <- bstart
E == INSTANCE IntelExpr

(* Rounds come in pairs (task_blowfish.cpp:168); ^ is a word and does what *)
(* it does; keys, texts and tables are of words.                           *)
ASSUME BlowfishConstants ==
  /\ \E half \in 0 .. BRounds : BRounds = 2 * half
  /\ BRounds \in Nat /\ IsFiniteSet(Words) /\ 0 \in Words
  /\ \A a, b \in Words : /\ BitXor(a, b) \in Words /\ BitXor(a, b) = BitXor(b, a)
                          /\ BitXor(BitXor(a, b), b) = a
  /\ \A a, b, c \in Words : BitXor(BitXor(a, b), c) = BitXor(a, BitXor(b, c))
  /\ PInit \in [1 .. BRounds + 2 -> Words] /\ SInit \in [Words -> Words]
  /\ Submitted \subseteq Seq(Words) /\ Texts \subseteq Seq(Words)

(* Registers are numbered from 1, an operand holds numbers and the marks   *)
(* there are; powers of two and sums of them are numbers.                  *)
ASSUME OperandConstants ==
  /\ Regs \subseteq Nat \ {0} /\ Numbers \subseteq Int /\ MaxTokens \in Nat
  /\ Marks \subseteq E!Dyadic \union {"(", ")", "~"}
  /\ ScaleWidth \in Nat /\ 2 ^ ScaleWidth \in Nat /\ 8 < 2 ^ ScaleWidth
  /\ Width \in Nat \ {0} /\ \A b \in 0 .. Width : 2 ^ b \in Nat \ {0}
  /\ 2 ^ (Width - 1) < 2 ^ Width
  /\ \A bits \in SUBSET (0 .. Width - 1) : E!Number(bits) \in Nat

blowfishVars == <<isKeyed, pEncrypt, pDecrypt, bfS, bkey, bstart, text, layers>>
operandVars == <<read, state, prev, base, index, tmp, scale, ops, post>>

Ones == <<255, 255, 255, 255>>
MCStarts == {Masked(Input[k]) : k \in 1 .. 4} \union {Answer[k] : k \in 1 .. 4}
              \union {<<Zero, Zero>>, <<Ones, Ones>>}
MCKeys == {LabKey, [i \in 0 .. 3 |-> Ones]}
MCSums[m \in 0 .. Rounds] == IF m = 0 THEN Zero ELSE Plus(MCSums[m - 1], Delta)

MCWords == 0 .. 3
MCBitXor(a, b) ==
  << <<0, 1, 2, 3>>, <<1, 0, 3, 2>>, <<2, 3, 0, 1>>, <<3, 2, 1, 0>> >>[a + 1][b + 1]
MCPInit == <<2, 3, 1, 0, 2, 1>>
MCSInit == [w \in MCWords |-> <<3, 1, 2, 0>>[w + 1]]
MCSubmitted == {<<>>, <<1>>, <<2, 3>>}
MCTexts == UNION {[1 .. l -> MCWords] : l \in 1 .. 3}

MCKind == <<"r64", "r64", "r32">>

Idle ==
  /\ block = <<Zero, Zero>> /\ key = LabKey /\ first = "encrypt"
  /\ copy = [s \in {"first", "second"} |-> "C"]

MCInit ==
  /\ job \in Jobs
  /\ Init /\ (job # "tea" => Idle)
  /\ B!Init /\ (job # "blowfish" => text = <<0>>)
  /\ E!Init

MCNext ==
  /\ UNCHANGED job
  /\ \/ job = "tea" /\ Next /\ UNCHANGED <<blowfishVars, operandVars>>
     \/ job = "blowfish" /\ B!Next /\ UNCHANGED <<vars, operandVars>>
     \/ job = "operand" /\ E!Next /\ UNCHANGED <<vars, blowfishVars>>

MCSpec == MCInit /\ [][MCNext]_<<job, vars, blowfishVars, operandVars>>

-----------------------------------------------------------------------------
(* A text that is deciphered as it was enciphered is back (Blowfish).      *)
TextComesBack == B!TextComesBack
(* An operand addresses what it says (IntelExpr).                          *)
Denotes == E!Denotes

=============================================================================
