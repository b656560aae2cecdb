-------------------------------- MODULE Tea --------------------------------
(***************************************************************************)
(* The cipher of the sign-in service: myencrypt and mydecrypt of the       *)
(* server (server.c:11-38, the same in code.c and std.c) and the copies    *)
(* the server has assembled for the client (server.c:224-307).             *)
(*                                                                         *)
(* One of the two functions is run on a block and then the other on its    *)
(* result, a step for each round; each of them as C or as assembly.  The C *)
(* code counts its rounds, the assembly stops by the value of the sum.     *)
(*                                                                         *)
(* A uint32_t is four bytes, the lowest first.                             *)
(***************************************************************************)
EXTENDS Integers, Sequences

CONSTANTS
  Starts,   \* the blocks the first function is called with
  Keys,     \* the keys
  Sums      \* Sums[n]: n times delta, as a uint32_t

Byte == 0 .. 255
Word == Byte \X Byte \X Byte \X Byte
Block == Word \X Word
Key == [0 .. 3 -> Word]

Zero == <<0, 0, 0, 0>>
Delta == <<185, 121, 55, 158>>          \* 0x9E3779B9
Final == <<32, 55, 239, 198>>           \* 0xC6EF3720
Rounds == 32

(* Addition and subtraction of uint32_t, with their carries.               *)
Plus(a, b) ==
  LET s1 == a[1] + b[1]
      s2 == a[2] + b[2] + (s1 \div 256)
      s3 == a[3] + b[3] + (s2 \div 256)
      s4 == a[4] + b[4] + (s3 \div 256)
  IN  <<s1 % 256, s2 % 256, s3 % 256, s4 % 256>>

Minus(a, b) ==
  LET d1 == a[1] - b[1]
      d2 == a[2] - b[2] + (d1 \div 256)
      d3 == a[3] - b[3] + (d2 \div 256)
      d4 == a[4] - b[4] + (d3 \div 256)
  IN  <<d1 % 256, d2 % 256, d3 % 256, d4 % 256>>

XorBit(a, b, p) == (((a \div p) + (b \div p)) % 2) * p
XorByte(a, b) ==
  XorBit(a, b, 1) + XorBit(a, b, 2) + XorBit(a, b, 4) + XorBit(a, b, 8)
    + XorBit(a, b, 16) + XorBit(a, b, 32) + XorBit(a, b, 64) + XorBit(a, b, 128)
Xor(a, b) == <<XorByte(a[1], b[1]), XorByte(a[2], b[2]), XorByte(a[3], b[3]), XorByte(a[4], b[4])>>

(* Shifts by the power p of two, p <= 256.                                 *)
ShiftLeft(a, p) ==
  <<(a[1] * p) % 256,
    ((a[2] * p) % 256) + ((a[1] * p) \div 256),
    ((a[3] * p) % 256) + ((a[2] * p) \div 256),
    ((a[4] * p) % 256) + ((a[3] * p) \div 256)>>
ShiftRight(a, p) ==
  <<(a[1] \div p) + ((a[2] % p) * (256 \div p)),
    (a[2] \div p) + ((a[3] % p) * (256 \div p)),
    (a[3] \div p) + ((a[4] % p) * (256 \div p)),
    a[4] \div p>>

ASSUME StartsAndKeys == Starts \subseteq Block /\ Keys \subseteq Key
ASSUME SumsAssumption ==
  /\ Sums \in [0 .. Rounds -> Word]
  /\ Sums[0] = Zero /\ Sums[Rounds] = Final
  /\ \A n \in 0 .. Rounds - 1 : Sums[n + 1] = Plus(Sums[n], Delta)
  /\ \A n \in 1 .. Rounds - 1 : Sums[n] # Zero /\ Sums[n] # Final
  /\ Zero # Final
ASSUME DeltaTimes32 == ShiftLeft(Delta, 32) = Final       \* server.c:28

-----------------------------------------------------------------------------
(* One round (server.c:16-18 and 31-33).                                   *)
LowIndex(sum) == sum[1] % 4                     \* sum & 3
HighIndex(sum) == (sum[2] \div 8) % 4           \* (sum >> 11) & 3

\* Faulty variant: a shift by six.
MixShiftingSix(w) == Plus(Xor(ShiftLeft(w, 16), ShiftRight(w, 64)), w)
Mix(w) == Plus(Xor(ShiftLeft(w, 16), ShiftRight(w, 32)), w)
Change(w, sum, keyWord) == Xor(Mix(w), Plus(sum, keyWord))

EncryptRound(b, sum, key) ==
  LET next == Plus(sum, Delta)
      v0 == Plus(b[1], Change(b[2], sum, key[LowIndex(sum)]))
  IN  <<v0, Plus(b[2], Change(v0, next, key[HighIndex(next)]))>>

\* Faulty variant: the sum changes at the wrong place.
DecryptRoundLate(b, sum, key) ==
  LET next == Minus(sum, Delta)
      v1 == Minus(b[2], Change(b[1], next, key[HighIndex(next)]))
  IN  <<Minus(b[1], Change(v1, next, key[LowIndex(next)])), v1>>

DecryptRound(b, sum, key) ==
  LET next == Minus(sum, Delta)
      v1 == Minus(b[2], Change(b[1], sum, key[HighIndex(sum)]))
  IN  <<Minus(b[1], Change(v1, next, key[LowIndex(next)])), v1>>

Functions == {"encrypt", "decrypt"}
Other(f) == IF f = "encrypt" THEN "decrypt" ELSE "encrypt"
RoundOf(f, b, sum, key) ==
  IF f = "encrypt" THEN EncryptRound(b, sum, key) ELSE DecryptRound(b, sum, key)
SumAfter(f, sum) == IF f = "encrypt" THEN Plus(sum, Delta) ELSE Minus(sum, Delta)
(* server.c:13, 28, 229, 272                                               *)
FirstSum(f) == IF f = "encrypt" THEN Zero ELSE Final

(* server.c:15, 30 and 258-259, 301-302                                    *)
Copies == {"C", "assembly"}
\* Faulty variant: the assembled loop ends a round early.
StopsBefore(c, f, n, sum) ==
  IF c = "C" THEN n = Rounds ELSE sum = (IF f = "encrypt" THEN Sums[Rounds - 1] ELSE Sums[1])
Stops(c, f, n, sum) ==
  IF c = "C" THEN n = Rounds ELSE sum = (IF f = "encrypt" THEN Final ELSE Zero)

VARIABLES
  start, key, first,   \* the block, the key, the function that is run first
  copy,                \* copy[s]: how the function of stage s is implemented
  stage,               \* which of the two functions is running
  block, sum,          \* <<v0, v1>>, sum
  n,                   \* rounds run by the function so far
  trail                \* the blocks the first function went through

args == <<start, key, first, copy>>
vars == <<args, stage, block, sum, n, trail>>

TypeOK ==
  /\ start \in Starts /\ key \in Keys /\ first \in Functions
  /\ copy \in [{"first", "second"} -> Copies]
  /\ stage \in {"first", "second", "done"}
  /\ block \in Block /\ sum \in Word
  /\ n \in 0 .. Rounds
  /\ trail \in Seq(Block)

Init ==
  /\ start \in Starts /\ key \in Keys /\ first \in Functions
  /\ copy \in [{"first", "second"} -> Copies]
  /\ stage = "first"
  /\ block = start /\ sum = FirstSum(first)
  /\ n = 0
  /\ trail = <<start>>

(* A round of the first function; after the last the second one is called. *)
First ==
  /\ stage = "first"
  /\ block' = RoundOf(first, block, sum, key)
  /\ trail' = Append(trail, block')
  /\ LET after == SumAfter(first, sum)
     IN  IF Stops(copy["first"], first, n + 1, after)
         THEN stage' = "second" /\ n' = 0 /\ sum' = FirstSum(Other(first))
         ELSE stage' = stage /\ n' = n + 1 /\ sum' = after
  /\ UNCHANGED args

Second ==
  /\ stage = "second"
  /\ block' = RoundOf(Other(first), block, sum, key)
  /\ sum' = SumAfter(Other(first), sum)
  /\ n' = n + 1
  /\ stage' = IF Stops(copy["second"], Other(first), n', sum') THEN "done" ELSE stage
  /\ UNCHANGED <<args, trail>>

Next == First \/ Second
Spec == Init /\ [][Next]_vars

-----------------------------------------------------------------------------
(* Each function undoes the other, in whichever order and in whichever of  *)
(* its copies: what SignIn assumes of Enc and Dec.                         *)
Restored == stage = "done" => block = start

(* The assembly, which tests the sum, runs as many rounds as the C code,   *)
(* which counts them (server.c:15, 258, 301).                              *)
CopiesAgree == /\ stage # "first" => Len(trail) = Rounds + 1
               /\ stage = "done" => n = Rounds

(* The input of README.md:12 and what it is compared with.                 *)
Mask == <<31, 31, 31, 31>>
Masked(b) == <<Xor(b[1], Mask), Xor(b[2], Mask)>>
Answer == << <<<<212, 229, 189, 112>>, <<9, 32, 210, 163>>>>,
             <<<<51, 187, 178, 125>>, <<71, 27, 238, 116>>>>,
             <<<<28, 228, 139, 102>>, <<21, 245, 110, 242>>>>,
             <<<<36, 191, 57, 173>>, <<98, 136, 185, 113>>>> >>
LabKey == [i \in 0 .. 3 |-> <<<<76, 97, 98, 95>>, <<83, 105, 103, 110>>,
                             <<95, 49, 78, 95>>, <<75, 101, 121, 64>>>>[i + 1]]
Input == << <<<<78, 79, 67, 84>>, <<70, 123, 67, 52>>>>,
            <<<<108, 67, 117, 49>>, <<97, 55, 101, 95>>>>,
            <<<<48, 110, 108, 105>>, <<78, 51, 95, 49>>>>,
            <<<<115, 95, 70, 52>>, <<107, 69, 33, 125>>>> >>
FunctionOf(k) == IF k <= 2 THEN "encrypt" ELSE "decrypt"

(* The input the write-up names (README.md:12) is the right one: xored     *)
(* with 0x1F and run through the cipher, the first two blocks encrypted    *)
(* and the last two decrypted, it gives the table (server.c:373-389).      *)
InputIsRight ==
  \A k \in 1 .. 4 :
    stage # "first" /\ key = LabKey /\ first = FunctionOf(k) /\ start = Masked(Input[k])
      => trail[Len(trail)] = Answer[k]

=============================================================================
