------------------------- MODULE MCAlgorithms_proofs -------------------------
(***************************************************************************)
(* Proofs about the three algorithms.  Tea: whatever the key and the       *)
(* block, whichever of the two functions is run first and however each is  *)
(* implemented, they undo one another, and all copies run 32 rounds.       *)
(* Blowfish: a text that is deciphered as it was enciphered is back.       *)
(* Operands of keystone: one that is taken addresses what it says, and     *)
(* one of the form Base + Scale*Index + displacement is taken.             *)
(***************************************************************************)
EXTENDS MCAlgorithms, Recursion, SequenceTheorems, FiniteSetTheorems, TLAPS

IWord == Int \X Int \X Int \X Int

-----------------------------------------------------------------------------
(* Subtracting a byte undoes adding it, the carry and the borrow included. *)
LEMMA Borrow ==
  ASSUME NEW x \in Byte, NEW q \in Int
  PROVE  /\ (x - 256 * q) % 256 = x
         /\ (x - 256 * q) \div 256 = -q
BY SMTT(20) DEF Byte

(* An integer is made up of its remainder and quotient by 256.              *)
LEMMA Division ==
  ASSUME NEW x \in Int
  PROVE  /\ x % 256 \in Byte /\ x \div 256 \in Int
         /\ x = 256 * (x \div 256) + (x % 256)
BY SMTT(20) DEF Byte

(* Words are equal if their bytes are.                                      *)
LEMMA WordEq ==
  ASSUME NEW a \in Word, NEW b \in Word, a[1] = b[1], a[2] = b[2], a[3] = b[3], a[4] = b[4]
  PROVE  a = b
BY DEF Word

(* The bytes of a word, which are integers too.                             *)
LEMMA WordBytes ==
  ASSUME NEW a \in Word
  PROVE  /\ a[1] \in Byte /\ a[2] \in Byte /\ a[3] \in Byte /\ a[4] \in Byte
         /\ a \in IWord
BY DEF Word, IWord, Byte

(* The components of four integers.                                         *)
LEMMA WordInts ==
  ASSUME NEW a \in IWord
  PROVE  a[1] \in Int /\ a[2] \in Int /\ a[3] \in Int /\ a[4] \in Int
BY DEF IWord

(* A sum is a word, whatever overflows.                                     *)
LEMMA PlusWord ==
  ASSUME NEW a \in IWord, NEW b \in IWord
  PROVE  Plus(a, b) \in Word
<1> DEFINE s1 == a[1] + b[1]
           s2 == a[2] + b[2] + (s1 \div 256)
           s3 == a[3] + b[3] + (s2 \div 256)
           s4 == a[4] + b[4] + (s3 \div 256)
<1>1. a[1] + b[1] \in Int /\ a[2] + b[2] \in Int /\ a[3] + b[3] \in Int /\ a[4] + b[4] \in Int
  BY WordInts
<1>2. s1 \in Int /\ s1 % 256 \in Byte /\ s1 \div 256 \in Int
  BY <1>1, Division
<1>3. s2 \in Int /\ s2 % 256 \in Byte /\ s2 \div 256 \in Int
  <2>1. s2 \in Int BY <1>1, <1>2
  <2> QED BY <2>1, Division
<1>4. s3 \in Int /\ s3 % 256 \in Byte /\ s3 \div 256 \in Int
  <2>1. s3 \in Int BY <1>1, <1>3
  <2> QED BY <2>1, Division
<1>5. s4 \in Int /\ s4 % 256 \in Byte
  <2>1. s4 \in Int BY <1>1, <1>4
  <2> QED BY <2>1, Division
<1>6. Plus(a, b) = <<s1 % 256, s2 % 256, s3 % 256, s4 % 256>>
  BY DEF Plus
<1> HIDE DEF s1, s2, s3, s4
<1> QED BY <1>2, <1>3, <1>4, <1>5, <1>6 DEF Word

(* A difference is a word, whatever is borrowed.                            *)
LEMMA MinusWord ==
  ASSUME NEW a \in IWord, NEW b \in IWord
  PROVE  Minus(a, b) \in Word
<1> DEFINE d1 == a[1] - b[1]
           d2 == a[2] - b[2] + (d1 \div 256)
           d3 == a[3] - b[3] + (d2 \div 256)
           d4 == a[4] - b[4] + (d3 \div 256)
<1>1. a[1] - b[1] \in Int /\ a[2] - b[2] \in Int /\ a[3] - b[3] \in Int /\ a[4] - b[4] \in Int
  BY WordInts
<1>2. d1 \in Int /\ d1 % 256 \in Byte /\ d1 \div 256 \in Int
  BY <1>1, Division
<1>3. d2 \in Int /\ d2 % 256 \in Byte /\ d2 \div 256 \in Int
  <2>1. d2 \in Int BY <1>1, <1>2
  <2> QED BY <2>1, Division
<1>4. d3 \in Int /\ d3 % 256 \in Byte /\ d3 \div 256 \in Int
  <2>1. d3 \in Int BY <1>1, <1>3
  <2> QED BY <2>1, Division
<1>5. d4 \in Int /\ d4 % 256 \in Byte
  <2>1. d4 \in Int BY <1>1, <1>4
  <2> QED BY <2>1, Division
<1>6. Minus(a, b) = <<d1 % 256, d2 % 256, d3 % 256, d4 % 256>>
  BY DEF Minus
<1> HIDE DEF d1, d2, d3, d4
<1> QED BY <1>2, <1>3, <1>4, <1>5, <1>6 DEF Word

(* Subtraction and addition of words undo one another.                     *)
LEMMA MinusPlus ==
  ASSUME NEW a \in Word, NEW b \in IWord
  PROVE  Minus(Plus(a, b), b) = a
<1> DEFINE s1 == a[1] + b[1]
           s2 == a[2] + b[2] + (s1 \div 256)
           s3 == a[3] + b[3] + (s2 \div 256)
           s4 == a[4] + b[4] + (s3 \div 256)
           p == Plus(a, b)
           d1 == p[1] - b[1]
           d2 == p[2] - b[2] + (d1 \div 256)
           d3 == p[3] - b[3] + (d2 \div 256)
           d4 == p[4] - b[4] + (d3 \div 256)
<1>0. /\ a[1] \in Byte /\ a[2] \in Byte /\ a[3] \in Byte /\ a[4] \in Byte
      /\ a[1] \in Int /\ a[2] \in Int /\ a[3] \in Int /\ a[4] \in Int
      /\ b[1] \in Int /\ b[2] \in Int /\ b[3] \in Int /\ b[4] \in Int
  BY WordBytes, WordInts DEF Byte
<1>1. p[1] = s1 % 256 /\ p[2] = s2 % 256 /\ p[3] = s3 % 256 /\ p[4] = s4 % 256
  BY DEF Plus
<1>2. d1 % 256 = a[1] /\ d1 \div 256 = -(s1 \div 256) /\ s1 \div 256 \in Int
  <2>1. s1 \in Int BY <1>0
  <2>2. s1 \div 256 \in Int /\ s1 % 256 = s1 - 256 * (s1 \div 256)
    <3> HIDE DEF s1
    <3> QED BY <2>1, Division DEF Byte
  <2>3. d1 = a[1] - 256 * (s1 \div 256)
    BY <1>0, <1>1, <2>2
  <2> HIDE DEF s1, d1
  <2> QED BY <2>2, <2>3, <1>0, Borrow
<1>3. d2 % 256 = a[2] /\ d2 \div 256 = -(s2 \div 256) /\ s2 \div 256 \in Int
  <2> HIDE DEF s1, d1, p
  <2>1. s2 \in Int BY <1>0, <1>2
  <2>2. s2 \div 256 \in Int /\ s2 % 256 = s2 - 256 * (s2 \div 256)
    <3> HIDE DEF s2
    <3> QED BY <2>1, Division DEF Byte
  <2>3. d2 = a[2] - 256 * (s2 \div 256)
    BY <1>0, <1>1, <1>2, <2>2
  <2> HIDE DEF s2, d2
  <2> QED BY <2>2, <2>3, <1>0, Borrow
<1>4. d3 % 256 = a[3] /\ d3 \div 256 = -(s3 \div 256) /\ s3 \div 256 \in Int
  <2> HIDE DEF s1, d1, s2, d2, p
  <2>1. s3 \in Int BY <1>0, <1>3
  <2>2. s3 \div 256 \in Int /\ s3 % 256 = s3 - 256 * (s3 \div 256)
    <3> HIDE DEF s3
    <3> QED BY <2>1, Division DEF Byte
  <2>3. d3 = a[3] - 256 * (s3 \div 256)
    BY <1>0, <1>1, <1>3, <2>2
  <2> HIDE DEF s3, d3
  <2> QED BY <2>2, <2>3, <1>0, Borrow
<1>5. d4 % 256 = a[4]
  <2> HIDE DEF s1, d1, s2, d2, s3, d3, p
  <2>1. s4 \in Int BY <1>0, <1>4
  <2>2. s4 \div 256 \in Int /\ s4 % 256 = s4 - 256 * (s4 \div 256)
    <3> HIDE DEF s4
    <3> QED BY <2>1, Division DEF Byte
  <2>3. d4 = a[4] - 256 * (s4 \div 256)
    BY <1>0, <1>1, <1>4, <2>2
  <2> HIDE DEF s4, d4
  <2> QED BY <2>2, <2>3, <1>0, Borrow
<1>6. Minus(p, b) = <<d1 % 256, d2 % 256, d3 % 256, d4 % 256>>
  <2> HIDE DEF p
  <2> QED BY DEF Minus
<1> HIDE DEF p, s1, s2, s3, s4, d1, d2, d3, d4
<1>7. Minus(p, b) = <<a[1], a[2], a[3], a[4]>>
  BY <1>2, <1>3, <1>4, <1>5, <1>6
<1> QED BY <1>7 DEF Word, p

(* ... and addition undoes subtraction.                                     *)
LEMMA PlusMinus ==
  ASSUME NEW a \in Word, NEW b \in IWord
  PROVE  Plus(Minus(a, b), b) = a
<1> DEFINE s1 == a[1] - b[1]
           s2 == a[2] - b[2] + (s1 \div 256)
           s3 == a[3] - b[3] + (s2 \div 256)
           s4 == a[4] - b[4] + (s3 \div 256)
           p == Minus(a, b)
           d1 == p[1] + b[1]
           d2 == p[2] + b[2] + (d1 \div 256)
           d3 == p[3] + b[3] + (d2 \div 256)
           d4 == p[4] + b[4] + (d3 \div 256)
<1>0. /\ a[1] \in Byte /\ a[2] \in Byte /\ a[3] \in Byte /\ a[4] \in Byte
      /\ a[1] \in Int /\ a[2] \in Int /\ a[3] \in Int /\ a[4] \in Int
      /\ b[1] \in Int /\ b[2] \in Int /\ b[3] \in Int /\ b[4] \in Int
  BY WordBytes, WordInts DEF Byte
<1>1. p[1] = s1 % 256 /\ p[2] = s2 % 256 /\ p[3] = s3 % 256 /\ p[4] = s4 % 256
  BY DEF Minus
<1>2. d1 % 256 = a[1] /\ d1 \div 256 = -(s1 \div 256) /\ s1 \div 256 \in Int
  <2>1. s1 \in Int BY <1>0
  <2>2. s1 \div 256 \in Int /\ s1 % 256 = s1 - 256 * (s1 \div 256)
    <3> HIDE DEF s1
    <3> QED BY <2>1, Division DEF Byte
  <2>3. d1 = a[1] - 256 * (s1 \div 256)
    BY <1>0, <1>1, <2>2
  <2> HIDE DEF s1, d1
  <2> QED BY <2>2, <2>3, <1>0, Borrow
<1>3. d2 % 256 = a[2] /\ d2 \div 256 = -(s2 \div 256) /\ s2 \div 256 \in Int
  <2> HIDE DEF s1, d1, p
  <2>1. s2 \in Int BY <1>0, <1>2
  <2>2. s2 \div 256 \in Int /\ s2 % 256 = s2 - 256 * (s2 \div 256)
    <3> HIDE DEF s2
    <3> QED BY <2>1, Division DEF Byte
  <2>3. d2 = a[2] - 256 * (s2 \div 256)
    BY <1>0, <1>1, <1>2, <2>2
  <2> HIDE DEF s2, d2
  <2> QED BY <2>2, <2>3, <1>0, Borrow
<1>4. d3 % 256 = a[3] /\ d3 \div 256 = -(s3 \div 256) /\ s3 \div 256 \in Int
  <2> HIDE DEF s1, d1, s2, d2, p
  <2>1. s3 \in Int BY <1>0, <1>3
  <2>2. s3 \div 256 \in Int /\ s3 % 256 = s3 - 256 * (s3 \div 256)
    <3> HIDE DEF s3
    <3> QED BY <2>1, Division DEF Byte
  <2>3. d3 = a[3] - 256 * (s3 \div 256)
    BY <1>0, <1>1, <1>3, <2>2
  <2> HIDE DEF s3, d3
  <2> QED BY <2>2, <2>3, <1>0, Borrow
<1>5. d4 % 256 = a[4]
  <2> HIDE DEF s1, d1, s2, d2, s3, d3, p
  <2>1. s4 \in Int BY <1>0, <1>4
  <2>2. s4 \div 256 \in Int /\ s4 % 256 = s4 - 256 * (s4 \div 256)
    <3> HIDE DEF s4
    <3> QED BY <2>1, Division DEF Byte
  <2>3. d4 = a[4] - 256 * (s4 \div 256)
    BY <1>0, <1>1, <1>4, <2>2
  <2> HIDE DEF s4, d4
  <2> QED BY <2>2, <2>3, <1>0, Borrow
<1>6. Plus(p, b) = <<d1 % 256, d2 % 256, d3 % 256, d4 % 256>>
  <2> HIDE DEF p
  <2> QED BY DEF Plus
<1> HIDE DEF p, s1, s2, s3, s4, d1, d2, d3, d4
<1>7. Plus(p, b) = <<a[1], a[2], a[3], a[4]>>
  BY <1>2, <1>3, <1>4, <1>5, <1>6
<1> QED BY <1>7 DEF Word, p

-----------------------------------------------------------------------------
(* What changes a word in a round is built from integers, whatever the     *)
(* word.                                                                   *)
LEMMA XorInts ==
  ASSUME NEW a \in IWord, NEW b \in IWord
  PROVE  Xor(a, b) \in IWord
<1>1. \A x \in Int, y \in Int : XorByte(x, y) \in Int
  <2> SUFFICES ASSUME NEW x \in Int, NEW y \in Int PROVE XorByte(x, y) \in Int
    OBVIOUS
  <2>1. /\ XorBit(x, y, 1) \in Int /\ XorBit(x, y, 2) \in Int
        /\ XorBit(x, y, 4) \in Int /\ XorBit(x, y, 8) \in Int
        /\ XorBit(x, y, 16) \in Int /\ XorBit(x, y, 32) \in Int
        /\ XorBit(x, y, 64) \in Int /\ XorBit(x, y, 128) \in Int
    BY DEF XorBit
  <2> QED BY <2>1 DEF XorByte
<1>2. /\ XorByte(a[1], b[1]) \in Int /\ XorByte(a[2], b[2]) \in Int
      /\ XorByte(a[3], b[3]) \in Int /\ XorByte(a[4], b[4]) \in Int
  BY <1>1, WordInts
<1> QED BY <1>2 DEF Xor, IWord

(* What a round adds to a word (server.c:16, 18).                           *)
LEMMA ChangeInts ==
  ASSUME NEW w \in Word, NEW sum0 \in Word, NEW k \in Word
  PROVE  Change(w, sum0, k) \in IWord
<1>1. w \in IWord /\ sum0 \in IWord /\ k \in IWord
  BY WordBytes
<1>2. ShiftLeft(w, 16) \in IWord
  <2> w[1] \in Int /\ w[2] \in Int /\ w[3] \in Int /\ w[4] \in Int
    BY <1>1, WordInts
  <2> QED BY DEF ShiftLeft, IWord
<1>3. ShiftRight(w, 32) \in IWord
  <2> w[1] \in Int /\ w[2] \in Int /\ w[3] \in Int /\ w[4] \in Int
    BY <1>1, WordInts
  <2> QED BY DEF ShiftRight, IWord
<1>4. Mix(w) \in Word
  BY <1>1, <1>2, <1>3, XorInts, PlusWord DEF Mix
<1>5. Plus(sum0, k) \in Word
  BY <1>1, PlusWord
<1> QED BY <1>4, <1>5, WordBytes, XorInts DEF Change

(* delta is a uint32_t.                                                     *)
LEMMA DeltaWord == Delta \in Word /\ Delta \in IWord
BY DEF Delta, Word, IWord, Byte

(* The key has a word for each index that is used (server.c:16, 18).        *)
LEMMA Indices ==
  ASSUME NEW w \in Word
  PROVE  LowIndex(w) \in 0 .. 3 /\ HighIndex(w) \in 0 .. 3
<1>1. w[1] \in Byte /\ w[2] \in Byte
  BY WordBytes
<1> QED BY <1>1, SMTT(20) DEF LowIndex, HighIndex, Byte

(* A round keeps the type, and the round of the other function undoes it   *)
(* when it is given the sum that this one left.                            *)
LEMMA EncryptUndone ==
  ASSUME NEW b \in Block, NEW s \in Word, NEW k \in Key
  PROVE  /\ EncryptRound(b, s, k) \in Block
         /\ DecryptRound(EncryptRound(b, s, k), Plus(s, Delta), k) = b
<1> DEFINE next == Plus(s, Delta)
           c0 == Change(b[2], s, k[LowIndex(s)])
           v0 == Plus(b[1], c0)
           c1 == Change(v0, next, k[HighIndex(next)])
           v1 == Plus(b[2], c1)
<1>1. b[1] \in Word /\ b[2] \in Word /\ b = <<b[1], b[2]>>
  BY DEF Block
<1>2. next \in Word /\ s \in IWord
  BY DeltaWord, WordBytes, PlusWord
<1>3. k[LowIndex(s)] \in Word /\ k[HighIndex(next)] \in Word
  BY <1>2, Indices DEF Key
<1>4. c0 \in IWord
  BY <1>1, <1>3, ChangeInts
<1>5. v0 \in Word /\ b[1] \in IWord /\ b[2] \in IWord
  BY <1>1, <1>4, WordBytes, PlusWord
<1>6. c1 \in IWord
  <2> HIDE DEF v0, next
  <2> QED BY <1>2, <1>3, <1>5, ChangeInts
<1>7. v1 \in Word
  BY <1>5, <1>6, PlusWord
<1>8. EncryptRound(b, s, k) = <<v0, v1>>
  BY DEF EncryptRound
<1>9. Minus(next, Delta) = s
  BY DeltaWord, MinusPlus
<1>10. Minus(v1, c1) = b[2] /\ Minus(v0, c0) = b[1]
  <2>1. Minus(Plus(b[2], c1), c1) = b[2]
    <3> HIDE DEF c1
    <3> QED BY <1>1, <1>6, MinusPlus
  <2>2. Minus(Plus(b[1], c0), c0) = b[1]
    <3> HIDE DEF c0
    <3> QED BY <1>1, <1>4, MinusPlus
  <2> QED BY <2>1, <2>2
<1>11. DecryptRound(<<v0, v1>>, next, k) = <<Minus(v0, c0), Minus(v1, c1)>>
  <2> HIDE DEF v0, v1, next
  <2>1. Minus(v1, Change(v0, next, k[HighIndex(next)])) = b[2]
    BY <1>10
  <2>2. DecryptRound(<<v0, v1>>, next, k)
          = <<Minus(v0, Change(b[2], s, k[LowIndex(s)])), b[2]>>
    BY <2>1, <1>9 DEF DecryptRound
  <2> QED BY <2>2, <1>10
<1> HIDE DEF v0, v1, c0, c1
<1> QED BY <1>1, <1>5, <1>7, <1>8, <1>10, <1>11 DEF Block

(* The same the other way round.                                            *)
LEMMA DecryptUndone ==
  ASSUME NEW b \in Block, NEW s \in Word, NEW k \in Key
  PROVE  /\ DecryptRound(b, s, k) \in Block
         /\ EncryptRound(DecryptRound(b, s, k), Minus(s, Delta), k) = b
<1> DEFINE next == Minus(s, Delta)
           c1 == Change(b[1], s, k[HighIndex(s)])
           v1 == Minus(b[2], c1)
           c0 == Change(v1, next, k[LowIndex(next)])
           v0 == Minus(b[1], c0)
<1>1. b[1] \in Word /\ b[2] \in Word /\ b = <<b[1], b[2]>>
  BY DEF Block
<1>2. next \in Word /\ s \in IWord
  BY DeltaWord, WordBytes, MinusWord
<1>3. k[HighIndex(s)] \in Word /\ k[LowIndex(next)] \in Word
  BY <1>2, Indices DEF Key
<1>4. c1 \in IWord
  BY <1>1, <1>3, ChangeInts
<1>5. v1 \in Word /\ b[1] \in IWord /\ b[2] \in IWord
  BY <1>1, <1>4, WordBytes, MinusWord
<1>6. c0 \in IWord
  <2> HIDE DEF v1, next
  <2> QED BY <1>2, <1>3, <1>5, ChangeInts
<1>7. v0 \in Word
  BY <1>5, <1>6, MinusWord
<1>8. DecryptRound(b, s, k) = <<v0, v1>>
  BY DEF DecryptRound
<1>9. Plus(next, Delta) = s
  BY DeltaWord, PlusMinus
<1>10. Plus(v1, c1) = b[2] /\ Plus(v0, c0) = b[1]
  <2>1. Plus(Minus(b[2], c1), c1) = b[2]
    <3> HIDE DEF c1
    <3> QED BY <1>1, <1>4, PlusMinus
  <2>2. Plus(Minus(b[1], c0), c0) = b[1]
    <3> HIDE DEF c0
    <3> QED BY <1>1, <1>6, PlusMinus
  <2> QED BY <2>1, <2>2
<1>11. EncryptRound(<<v0, v1>>, next, k) = <<Plus(v0, c0), Plus(v1, c1)>>
  <2> HIDE DEF v0, v1, next
  <2>1. Plus(v0, Change(v1, next, k[LowIndex(next)])) = b[1]
    BY <1>10
  <2>2. EncryptRound(<<v0, v1>>, next, k)
          = <<b[1], Plus(v1, Change(b[1], s, k[HighIndex(s)]))>>
    BY <2>1, <1>9 DEF EncryptRound
  <2> QED BY <2>2, <1>10
<1> HIDE DEF v0, v1, c0, c1
<1> QED BY <1>1, <1>5, <1>7, <1>8, <1>10, <1>11 DEF Block

-----------------------------------------------------------------------------
(* The sum of function f after m rounds.                                   *)
SumAt(f, m) == IF f = "encrypt" THEN Sums[m] ELSE Sums[Rounds - m]

(* The sum of each function takes the values of Sums, upwards or            *)
(* downwards.                                                               *)
LEMMA SumSteps ==
  ASSUME NEW f \in Functions
  PROVE  /\ SumAt(f, 0) = FirstSum(f)
         /\ \A m \in 0 .. Rounds : SumAt(f, m) \in Word
         /\ \A m \in 0 .. Rounds - 1 : SumAfter(f, SumAt(f, m)) = SumAt(f, m + 1)
<1>1. SumAt(f, 0) = FirstSum(f)
  BY SumsAssumption DEF SumAt, FirstSum, Rounds
<1>2. \A m \in 0 .. Rounds : SumAt(f, m) \in Word
  BY SumsAssumption DEF SumAt, Rounds
<1>3. ASSUME NEW m \in 0 .. Rounds - 1
      PROVE  SumAfter(f, SumAt(f, m)) = SumAt(f, m + 1)
  <2>1. CASE f = "encrypt"
    BY <2>1, SumsAssumption DEF SumAt, SumAfter, Rounds
  <2>2. CASE f # "encrypt"
    <3> DEFINE l == Rounds - (m + 1)
    <3>1. l \in 0 .. Rounds - 1 /\ l + 1 = Rounds - m
      BY DEF Rounds
    <3>2. Sums[l + 1] = Plus(Sums[l], Delta) /\ Sums[l] \in Word
      <4> HIDE DEF l
      <4> QED BY <3>1, SumsAssumption DEF Rounds
    <3>3. Minus(Sums[l + 1], Delta) = Sums[l]
      <4> HIDE DEF l
      <4> QED BY <3>2, DeltaWord, MinusPlus
    <3> QED BY <2>2, <3>1, <3>3 DEF SumAt, SumAfter
  <2> QED BY <2>1, <2>2
<1> QED BY <1>1, <1>2, <1>3

(* Both kinds of loop stop after the last round and not before.            *)
LEMMA StopsAtLast ==
  ASSUME NEW c \in Copies, NEW f \in Functions, NEW m \in 1 .. Rounds
  PROVE  Stops(c, f, m, SumAt(f, m)) <=> m = Rounds
<1>1. CASE c = "C"
  BY <1>1 DEF Stops
<1>2. CASE c # "C" /\ f = "encrypt"
  BY <1>2, SumsAssumption DEF Stops, SumAt, Rounds
<1>3. CASE c # "C" /\ f # "encrypt"
  <2>1. CASE m = Rounds
    BY <1>3, <2>1, SumsAssumption DEF Stops, SumAt, Rounds
  <2>2. CASE m # Rounds
    <3> DEFINE l == Rounds - m
    <3>1. l \in 1 .. Rounds - 1
      BY <2>2 DEF Rounds
    <3>2. Sums[l] # Zero
      <4> HIDE DEF l
      <4> QED BY <3>1, SumsAssumption
    <3> QED BY <1>3, <2>2, <3>2 DEF Stops, SumAt
  <2> QED BY <2>1, <2>2
<1> QED BY <1>1, <1>2, <1>3

(* A round of f after m rounds is undone by the other function's round of   *)
(* the same sum.                                                            *)
LEMMA RoundUndone ==
  ASSUME NEW f \in Functions, NEW m \in 0 .. Rounds - 1, NEW b \in Block, NEW k \in Key
  PROVE  /\ RoundOf(f, b, SumAt(f, m), k) \in Block
         /\ RoundOf(Other(f), RoundOf(f, b, SumAt(f, m), k), SumAt(Other(f), Rounds - 1 - m), k) = b
<1>1. SumAt(f, m) \in Word /\ SumAfter(f, SumAt(f, m)) = SumAt(f, m + 1)
  BY SumSteps DEF Rounds
<1>2. SumAt(Other(f), Rounds - 1 - m) = SumAt(f, m + 1)
  BY DEF SumAt, Other, Functions, Rounds
<1>3. CASE f = "encrypt"
  BY <1>1, <1>2, <1>3, EncryptUndone DEF RoundOf, Other, SumAfter
<1>4. CASE f = "decrypt"
  BY <1>1, <1>2, <1>4, DecryptUndone DEF RoundOf, Other, SumAfter
<1> QED BY <1>3, <1>4 DEF Functions

-----------------------------------------------------------------------------
(* The second function walks back along the trail of the first.            *)
Trail ==
  /\ Len(trail) \in 1 .. Rounds + 1
  /\ trail[1] = start
  /\ \A j \in 1 .. Len(trail) - 1 :
        trail[j + 1] = RoundOf(first, trail[j], SumAt(first, j - 1), key)

Place ==
  /\ stage = "first" => /\ n < Rounds /\ Len(trail) = n + 1
                        /\ sum = SumAt(first, n) /\ block = trail[n + 1]
  /\ stage # "first" => /\ Len(trail) = Rounds + 1
                        /\ sum = SumAt(Other(first), n) /\ block = trail[Rounds + 1 - n]
  /\ stage = "second" => n < Rounds
  /\ stage = "done" => n = Rounds

Inv == TypeOK /\ Trail /\ Place

(* The invariant holds initially.                                           *)
LEMMA InitInv == Init => Inv
<1> SUFFICES ASSUME Init PROVE Inv
  OBVIOUS
<1>1. start \in Block /\ FirstSum(first) \in Word /\ FirstSum(first) = SumAt(first, 0)
  BY StartsAndKeys, SumSteps DEF Init, Rounds
<1>2. trail \in Seq(Block) /\ Len(trail) = 1 /\ trail[1] = start
  BY <1>1 DEF Init
<1>3. TypeOK
  BY <1>1, <1>2 DEF TypeOK, Init, Rounds
<1>4. Trail
  BY <1>2 DEF Trail, Rounds
<1>5. Place
  BY <1>1, <1>2 DEF Place, Init, Rounds
<1> QED BY <1>3, <1>4, <1>5 DEF Inv

(* A round of the first function lengthens the trail.                       *)
LEMMA FirstInv == Inv /\ First => Inv'
<1> SUFFICES ASSUME Inv, First PROVE Inv'
  OBVIOUS
<1> DEFINE next == RoundOf(first, block, sum, key)
<1>1. /\ stage = "first" /\ n \in 0 .. Rounds - 1 /\ sum = SumAt(first, n)
      /\ Len(trail) = n + 1 /\ block = trail[n + 1] /\ trail \in Seq(Block)
      /\ first \in Functions /\ key \in Key /\ block \in Block
      /\ copy["first"] \in Copies
  BY StartsAndKeys DEF Inv, TypeOK, Place, First, Rounds
<1>2. /\ block' = next /\ trail' = Append(trail, next)
      /\ start' = start /\ key' = key /\ first' = first /\ copy' = copy
  BY DEF First, args
<1>3. next \in Block /\ SumAfter(first, sum) = SumAt(first, n + 1) /\ SumAt(first, n + 1) \in Word
  <2>1. next \in Block
    BY <1>1, RoundUndone
  <2>2. n + 1 \in 0 .. Rounds
    BY <1>1 DEF Rounds
  <2> QED BY <1>1, <2>1, <2>2, SumSteps
<1>4. Stops(copy["first"], first, n + 1, SumAfter(first, sum)) <=> n + 1 = Rounds
  <2>1. n + 1 \in 1 .. Rounds
    BY <1>1 DEF Rounds
  <2> QED BY <1>1, <1>3, <2>1, StopsAtLast
<1> HIDE DEF next
<1>5. /\ trail' \in Seq(Block) /\ Len(trail') = n + 2
      /\ trail'[n + 2] = next
      /\ \A j \in 1 .. n + 1 : trail'[j] = trail[j]
  <2>1. trail' \in Seq(Block) /\ Len(trail') = Len(trail) + 1
    BY <1>1, <1>2, <1>3, AppendProperties
  <2>2. trail'[Len(trail) + 1] = next
    BY <1>1, <1>2, <1>3, AppendProperties
  <2>3. \A j \in 1 .. Len(trail) : trail'[j] = trail[j]
    BY <1>1, <1>2, <1>3, AppendProperties
  <2> QED BY <1>1, <2>1, <2>2, <2>3
<1>6. Trail'
  <2>1. Len(trail') \in 1 .. Rounds + 1 /\ trail'[1] = start'
    BY <1>1, <1>2, <1>5 DEF Inv, Trail, Rounds
  <2>2. ASSUME NEW j \in 1 .. n + 1
        PROVE  trail'[j + 1] = RoundOf(first, trail'[j], SumAt(first, j - 1), key)
    <3>1. CASE j = n + 1
      BY <3>1, <1>1, <1>5 DEF next
    <3>2. CASE j # n + 1
      <4>1. j \in 1 .. Len(trail) - 1 /\ j + 1 \in 1 .. n + 1
        BY <3>2, <1>1
      <4>2. trail[j + 1] = RoundOf(first, trail[j], SumAt(first, j - 1), key)
        BY <4>1 DEF Inv, Trail
      <4> QED BY <4>1, <4>2, <1>5
    <3> QED BY <3>1, <3>2
  <2>3. Len(trail') - 1 = n + 1
    BY <1>1, <1>5
  <2> QED BY <2>1, <2>2, <2>3, <1>2 DEF Trail
<1>7. CASE n + 1 = Rounds
  <2>1. stage' = "second" /\ n' = 0 /\ sum' = FirstSum(Other(first))
    BY <1>7, <1>4 DEF First
  <2>2. Other(first) \in Functions
    BY DEF Other, Functions
  <2>3. FirstSum(Other(first)) = SumAt(Other(first), 0) /\ SumAt(Other(first), 0) \in Word
    BY <2>2, SumSteps DEF Rounds
  <2>4. TypeOK'
    <3>1. /\ start' \in Starts /\ key' \in Keys /\ first' \in Functions
          /\ copy' \in [{"first", "second"} -> Copies]
      BY <1>2 DEF Inv, TypeOK
    <3>2. n' \in 0 .. Rounds /\ stage' = "second" /\ sum' \in Word
      BY <2>1, <2>3 DEF Rounds
    <3> QED BY <3>1, <3>2, <1>2, <1>3, <1>5 DEF TypeOK
  <2>5. Place'
    <3>1. Len(trail') = Rounds + 1 /\ block' = trail'[Rounds + 1 - n']
      BY <1>1, <1>2, <1>5, <1>7, <2>1 DEF Rounds
    <3> QED BY <2>1, <2>3, <3>1, <1>2 DEF Place, Rounds
  <2> QED BY <2>4, <2>5, <1>6 DEF Inv
<1>8. CASE n + 1 # Rounds
  <2>1. stage' = "first" /\ n' = n + 1 /\ sum' = SumAfter(first, sum)
    BY <1>1, <1>8, <1>4 DEF First
  <2>2. TypeOK'
    <3>1. /\ start' \in Starts /\ key' \in Keys /\ first' \in Functions
          /\ copy' \in [{"first", "second"} -> Copies]
      BY <1>2 DEF Inv, TypeOK
    <3>2. n' \in 0 .. Rounds /\ stage' = "first" /\ sum' \in Word
      BY <1>1, <1>3, <2>1 DEF Rounds
    <3> QED BY <3>1, <3>2, <1>2, <1>3, <1>5 DEF TypeOK
  <2>3. Place'
    <3>1. n' < Rounds
      BY <1>1, <1>8, <2>1 DEF Rounds
    <3>2. n' + 1 = n + 2
      BY <1>1, <2>1
    <3>3. Len(trail') = n' + 1 /\ block' = trail'[n' + 1]
      BY <1>2, <1>5, <3>2
    <3> QED BY <2>1, <1>2, <1>3, <3>1, <3>3 DEF Place
  <2> QED BY <2>2, <2>3, <1>6 DEF Inv
<1> QED BY <1>7, <1>8

(* A round of the second function goes back one step of the trail.          *)
LEMMA SecondInv == Inv /\ Second => Inv'
<1> SUFFICES ASSUME Inv, Second PROVE Inv'
  OBVIOUS
<1> DEFINE m == Rounds - 1 - n
           f == Other(first)
           next == RoundOf(f, block, sum, key)
<1>1. /\ stage = "second" /\ n \in 0 .. Rounds - 1 /\ sum = SumAt(f, n)
      /\ Len(trail) = Rounds + 1 /\ block = trail[Rounds + 1 - n] /\ trail \in Seq(Block)
      /\ first \in Functions /\ f \in Functions /\ key \in Key /\ block \in Block
      /\ copy["second"] \in Copies
  <2>1. f \in Functions
    BY DEF Other, Functions
  <2> QED BY <2>1, StartsAndKeys DEF Inv, TypeOK, Place, Second, Rounds
<1>2. /\ block' = next /\ trail' = trail /\ n' = n + 1 /\ sum' = SumAfter(f, sum)
      /\ start' = start /\ key' = key /\ first' = first /\ copy' = copy
  BY DEF Second, args
<1>3. m \in 0 .. Rounds - 1 /\ Rounds - 1 - m = n /\ m + 2 = Rounds + 1 - n /\ m + 1 = Rounds + 1 - (n + 1)
  BY <1>1 DEF Rounds
<1>4. next = trail[m + 1] /\ next \in Block
  <2> HIDE DEF m
  <2>1. m + 1 \in 1 .. Len(trail) - 1 /\ m + 1 \in 1 .. Len(trail) /\ (m + 1) + 1 = m + 2 /\ (m + 1) - 1 = m
    BY <1>1, <1>3 DEF Rounds
  <2>2. trail[m + 1] \in Block
    BY <1>1, <2>1, ElementOfSeq
  <2>3. trail[(m + 1) + 1] = RoundOf(first, trail[m + 1], SumAt(first, (m + 1) - 1), key)
    BY <2>1 DEF Inv, Trail
  <2>4. block = RoundOf(first, trail[m + 1], SumAt(first, m), key)
    BY <2>1, <2>3, <1>1, <1>3
  <2>5. RoundOf(f, block, SumAt(f, n), key) = trail[m + 1]
    <3>1. m \in 0 .. Rounds - 1 /\ Rounds - 1 - m = n
      BY <1>3
    <3>2. RoundOf(f, RoundOf(first, trail[m + 1], SumAt(first, m), key),
                  SumAt(f, Rounds - 1 - m), key) = trail[m + 1]
      <4> HIDE DEF m
      <4> QED BY <3>1, <2>2, <1>1, RoundUndone
    <3> HIDE DEF f
    <3> QED BY <3>1, <3>2, <2>4
  <2> QED BY <2>2, <2>5, <1>1
<1>5. sum' = SumAt(f, n + 1) /\ SumAt(f, n + 1) \in Word
  <2>1. n + 1 \in 0 .. Rounds
    BY <1>1 DEF Rounds
  <2> QED BY <1>1, <1>2, <2>1, SumSteps
<1>6. Stops(copy["second"], f, n + 1, sum') <=> n + 1 = Rounds
  <2>1. n + 1 \in 1 .. Rounds
    BY <1>1 DEF Rounds
  <2> QED BY <1>1, <1>5, <2>1, StopsAtLast
<1>7. stage' = IF n + 1 = Rounds THEN "done" ELSE "second"
  BY <1>1, <1>2, <1>6 DEF Second
<1>8. TypeOK'
  <2>1. /\ start' \in Starts /\ key' \in Keys /\ first' \in Functions
        /\ copy' \in [{"first", "second"} -> Copies] /\ trail' \in Seq(Block)
    BY <1>2 DEF Inv, TypeOK
  <2>2. n' \in 0 .. Rounds
    BY <1>1, <1>2 DEF Rounds
  <2>3. stage' \in {"first", "second", "done"}
    BY <1>7
  <2> QED BY <2>1, <2>2, <2>3, <1>2, <1>4, <1>5 DEF TypeOK
<1>9. Trail'
  BY <1>2 DEF Inv, Trail
<1>10. Place'
  <2>1. block' = trail'[Rounds + 1 - n']
    BY <1>2, <1>3, <1>4
  <2>2. (stage' = "second" => n' < Rounds) /\ (stage' = "done" => n' = Rounds)
    BY <1>1, <1>2, <1>7 DEF Rounds
  <2> QED BY <2>1, <2>2, <1>1, <1>2, <1>5, <1>7 DEF Place
<1> QED BY <1>8, <1>9, <1>10 DEF Inv

(* The invariant holds throughout.                                          *)
LEMMA Invariant == Spec => []Inv
<1>1. Inv /\ [Next]_vars => Inv'
  <2>1. Inv /\ UNCHANGED vars => Inv'
    BY DEF Inv, TypeOK, Trail, Place, vars, args
  <2> QED BY <2>1, FirstInv, SecondInv DEF Next
<1> QED BY <1>1, InitInv, PTL DEF Spec

(* Words stay words, whatever overflows, and no loop runs too long.        *)
THEOREM TeaTypeCorrect == Spec => []TypeOK
<1>1. Inv => TypeOK
  BY DEF Inv
<1> QED BY <1>1, Invariant, PTL

(* Encryption and decryption are inverse to each other, for every block    *)
(* and every key, in C and in assembly.                                    *)
THEOREM RoundTrip == Spec => []Restored
<1>1. Inv => Restored
  <2> SUFFICES ASSUME Inv, stage = "done" PROVE block = start
    BY DEF Restored
  <2>1. n = Rounds /\ block = trail[Rounds + 1 - n]
    BY DEF Inv, Place
  <2>2. Rounds + 1 - n = 1
    BY <2>1 DEF Rounds
  <2> QED BY <2>1, <2>2 DEF Inv, Trail
<1> QED BY <1>1, Invariant, PTL

(* A loop that tests the sum runs as often as one that counts.             *)
THEOREM SameRounds == Spec => []CopiesAgree
<1>1. Inv => CopiesAgree
  BY DEF Inv, Place, CopiesAgree
<1> QED BY <1>1, Invariant, PTL

-----------------------------------------------------------------------------
\* Blowfish: a block.

Pair == Words \X Words
Tables == [1 .. BRounds + 2 -> Words]
Boxes == [Words -> Words]

(* Xor cancels, in any order.                                              *)
LEMMA Cancelled ==
  ASSUME NEW a \in Words, NEW b \in Words, NEW c \in Words
  PROVE  /\ BitXor(a, b) \in Words
         /\ BitXor(BitXor(a, b), b) = a
         /\ BitXor(BitXor(BitXor(a, b), c), b) = BitXor(a, c)
<1>1. BitXor(BitXor(a, b), c) = BitXor(a, BitXor(b, c)) /\ BitXor(b, c) = BitXor(c, b)
  BY BlowfishConstants
<1>2. BitXor(a, BitXor(c, b)) = BitXor(BitXor(a, c), b) /\ BitXor(a, c) \in Words
  BY BlowfishConstants
<1>3. BitXor(BitXor(BitXor(a, c), b), b) = BitXor(a, c)
  BY <1>2, BlowfishConstants
<1>4. BitXor(BitXor(a, b), c) = BitXor(BitXor(a, c), b)
  BY <1>1, <1>2
<1> QED
  BY <1>3, <1>4, BlowfishConstants

LEMMA RoundsInPair ==
  ASSUME NEW b \in Pair, NEW w1 \in Words, NEW w2 \in Words, NEW s \in Boxes
  PROVE  B!TwoRounds(b, w1, w2, s) \in Pair
<1> DEFINE left == BitXor(b[1], w1)
           right == BitXor(BitXor(b[2], s[left]), w2)
<1>1. b[1] \in Words /\ b[2] \in Words
  BY DEF Pair
<1>2. left \in Words
  BY <1>1, Cancelled
<1>3. s[left] \in Words
  BY <1>2 DEF Boxes
<1>4. BitXor(b[2], s[left]) \in Words
  BY <1>1, <1>3, Cancelled
<1>5. right \in Words
  BY <1>4, Cancelled
<1>6. s[right] \in Words
  BY <1>5 DEF Boxes
<1>7. BitXor(left, s[right]) \in Words
  BY <1>2, <1>6, Cancelled
<1>8. B!TwoRounds(b, w1, w2, s) = <<BitXor(left, s[right]), right>>
  BY DEF B!TwoRounds
<1> HIDE DEF left, right
<1> QED
  BY <1>5, <1>7, <1>8 DEF Pair

(* Two rounds undo two rounds: what comes in is crossed and masked with    *)
(* the next two words, and so is what comes out.                           *)
LEMMA TwoRoundsUndone ==
  ASSUME NEW b \in Pair, NEW s \in Boxes, NEW w1 \in Words, NEW w2 \in Words,
         NEW a1 \in Words, NEW a2 \in Words,
         NEW e, e = B!TwoRounds(b, w1, w2, s),
         NEW d, d = <<BitXor(e[2], a2), BitXor(e[1], a1)>>
  PROVE  B!TwoRounds(d, a2, a1, s) = <<BitXor(b[2], w2), BitXor(b[1], w1)>>
<1> DEFINE left == BitXor(b[1], w1)
           mid == BitXor(b[2], s[left])
           right == BitXor(mid, w2)
           high == BitXor(left, s[right])
<1>1. b[1] \in Words /\ b[2] \in Words
  BY DEF Pair
<1>2. left \in Words
  BY <1>1, Cancelled
<1>3. s[left] \in Words
  BY <1>2 DEF Boxes
<1>4. mid \in Words
  BY <1>1, <1>3, Cancelled
<1>5. right \in Words
  BY <1>4, Cancelled
<1>6. s[right] \in Words
  BY <1>5 DEF Boxes
<1>7. high \in Words
  BY <1>2, <1>6, Cancelled
<1>8. e = <<high, right>>
  BY DEF B!TwoRounds
<1>9. d = <<BitXor(right, a2), BitXor(high, a1)>>
  <2> HIDE DEF high, right
  <2> QED BY <1>8
<1>10. BitXor(BitXor(right, a2), a2) = right
  <2> HIDE DEF right
  <2> QED BY <1>5, Cancelled
<1>11. BitXor(BitXor(BitXor(high, a1), s[right]), a1) = left
  <2>1. BitXor(BitXor(BitXor(high, a1), s[right]), a1) = BitXor(high, s[right])
    <3> HIDE DEF high, right
    <3> QED BY <1>6, <1>7, Cancelled
  <2>2. BitXor(high, s[right]) = left
    <3> HIDE DEF left, right
    <3> QED BY <1>2, <1>6, Cancelled
  <2> QED
    BY <2>1, <2>2
<1>12. BitXor(right, s[left]) = BitXor(b[2], w2)
  <2>1. right = BitXor(BitXor(b[2], s[left]), w2)
    OBVIOUS
  <2>2. \A a, x, c \in Words : BitXor(BitXor(BitXor(a, x), c), x) = BitXor(a, c)
    BY Cancelled
  <2> HIDE DEF left, right
  <2> QED BY <1>1, <1>3, <2>1, <2>2
<1>13. B!TwoRounds(d, a2, a1, s) = <<BitXor(right, s[left]), left>>
  <2> HIDE DEF left, right, high
  <2>1. d[1] = BitXor(right, a2) /\ d[2] = BitXor(high, a1)
    BY <1>9
  <2> QED BY <1>10, <1>11, <2>1 DEF B!TwoRounds
<1> QED
  BY <1>12, <1>13

(* The states a block goes through.                                        *)
Half == BRounds \div 2
Run(b, p, s) ==
  {r \in [0 .. Half -> Pair] :
     r[0] = b /\ \A i \in 1 .. Half : r[i] = B!TwoRounds(r[i - 1], p[2 * i - 1], p[2 * i], s)}

LEMMA HalfIsNat == Half \in Nat /\ BRounds = 2 * Half
<1>1. BRounds \in Nat
  BY BlowfishConstants
<1>2. PICK half \in 0 .. BRounds : BRounds = 2 * half
  BY BlowfishConstants
<1> QED
  BY <1>1, <1>2 DEF Half

LEMMA WordsOf ==
  ASSUME NEW p \in Tables, NEW i \in 1 .. Half
  PROVE  p[2 * i - 1] \in Words /\ p[2 * i] \in Words
<1>1. 2 * i - 1 \in 1 .. BRounds + 2 /\ 2 * i \in 1 .. BRounds + 2
  BY HalfIsNat
<1> QED
  BY <1>1 DEF Tables

LEMMA RoundsRun ==
  ASSUME NEW b \in Pair, NEW p \in Tables, NEW s \in Boxes
  PROVE  \E r \in Run(b, p, s) : B!Rounded(b, p, s) = r[Half]
<1> DEFINE Next1(x, i) == B!TwoRounds(x, p[2 * i - 1], p[2 * i], s)
           step == [i \in 1 .. Half |-> [x \in Pair |-> Next1(x, i)]]
           f == CHOOSE g : g = [i \in 0 .. Half |->
                  IF i = 0 THEN b ELSE B!TwoRounds(g[i - 1], p[2 * i - 1], p[2 * i], s)]
<1>1. Half \in Nat
  BY HalfIsNat
<1>2. \A i \in 1 .. Half : \A x \in Pair : Next1(x, i) \in Pair
  BY WordsOf, RoundsInPair
<1>3. step \in Steps(Pair, Half)
  <2> HIDE DEF Next1
  <2> QED BY <1>2 DEF Steps
<1>4. PICK g \in Recursive(Pair, b, Half, step) : TRUE
  <2> HIDE DEF step
  <2> QED BY <1>1, <1>3, RecursionExists
<1>5. /\ g \in [0 .. Half -> Pair] /\ g[0] = b
      /\ \A i \in 1 .. Half : g[i] = step[i][g[i - 1]]
  BY <1>4 DEF Recursive
<1>6. \A i \in 1 .. Half : i - 1 \in 0 .. Half /\ g[i] = Next1(g[i - 1], i)
  <2> HIDE DEF Next1
  <2> QED BY <1>1, <1>5
<1>7. g = [i \in 0 .. Half |-> IF i = 0 THEN b ELSE Next1(g[i - 1], i)]
  <2> HIDE DEF Next1
  <2> QED BY <1>1, <1>5, <1>6
<1>8. f = [i \in 0 .. Half |-> IF i = 0 THEN b ELSE Next1(f[i - 1], i)]
  BY <1>7
<1>9. B!Rounded(b, p, s) = f[Half]
  BY DEF B!Rounded, Half
<1> HIDE DEF step, f, Next1
<1>10. f[0] = b /\ \A i \in 1 .. Half : f[i] = Next1(f[i - 1], i)
  BY <1>1, <1>8
<1>11. f \in [0 .. Half -> Pair]
  <2>1. f = [i \in 0 .. Half |-> f[i]]
    BY <1>8
  <2>2. \A i \in 1 .. Half : f[i - 1] \in Pair => f[i] = step[i][f[i - 1]]
    BY <1>10 DEF step
  <2>3. GoesOn(f, Pair, b, Half, step)
    BY <1>10, <2>1, <2>2 DEF GoesOn
  <2> QED
    BY <1>1, <1>3, <2>3, RecursionStays
<1>12. f \in Run(b, p, s)
  BY <1>10, <1>11 DEF Run, Next1
<1> QED
  BY <1>9, <1>12

LEMMA BlockInPair ==
  ASSUME NEW b \in Pair, NEW p \in Tables, NEW s \in Boxes
  PROVE  B!ProcessBlock(b, p, s) \in Pair
<1>1. PICK r \in Run(b, p, s) : B!Rounded(b, p, s) = r[Half]
  BY RoundsRun
<1>2. BRounds \in 0 .. BRounds /\ BRounds + 1 \in 1 .. BRounds + 2 /\ BRounds + 2 \in 1 .. BRounds + 2
  BY BlowfishConstants
<1>3. r[Half][1] \in Words /\ r[Half][2] \in Words
  BY HalfIsNat DEF Run, Pair
<1>4. p[BRounds + 1] \in Words /\ p[BRounds + 2] \in Words
  BY <1>2 DEF Tables
<1>5. BitXor(r[Half][2], p[BRounds + 2]) \in Words /\ BitXor(r[Half][1], p[BRounds + 1]) \in Words
  BY <1>3, <1>4, Cancelled
<1> QED
  BY <1>1, <1>5 DEF B!ProcessBlock, Pair

(* The rounds backwards undo the rounds: after an even number of them the  *)
(* block is what the encryption had, as many rounds before its end,        *)
(* crossed and masked with the words next to come.                         *)
LEMMA BlockUndone ==
  ASSUME NEW b \in Pair, NEW p \in Tables, NEW s \in Boxes
  PROVE  B!ProcessBlock(B!ProcessBlock(b, p, s), B!Backwards(p), s) = b
<1> DEFINE q == B!Backwards(p)
<1>1. Half \in Nat /\ BRounds = 2 * Half /\ BRounds \in Nat
  BY HalfIsNat, BlowfishConstants
<1>2. \A i \in 1 .. BRounds + 2 : p[i] \in Words /\ q[i] = p[BRounds + 3 - i]
  BY <1>1 DEF Tables, B!Backwards
<1>3. q \in Tables
  <2>1. \A i \in 1 .. BRounds + 2 : BRounds + 3 - i \in 1 .. BRounds + 2
    BY <1>1
  <2> QED BY <1>2, <2>1 DEF Tables, B!Backwards
<1> HIDE DEF q
<1>4. PICK r \in Run(b, p, s) : B!Rounded(b, p, s) = r[Half]
  BY RoundsRun
<1> DEFINE c == B!ProcessBlock(b, p, s)
<1>5. c = <<BitXor(r[Half][2], p[BRounds + 2]), BitXor(r[Half][1], p[BRounds + 1])>>
  BY <1>4 DEF B!ProcessBlock
<1>6. /\ r \in [0 .. Half -> Pair] /\ r[0] = b
      /\ \A i \in 1 .. Half : r[i] = B!TwoRounds(r[i - 1], p[2 * i - 1], p[2 * i], s)
  BY DEF Run
<1>7. c \in Pair
  BY BlockInPair
<1> HIDE DEF c
<1>8. PICK u \in Run(c, q, s) : B!Rounded(c, q, s) = u[Half]
  BY <1>3, <1>7, RoundsRun
<1>9. /\ u \in [0 .. Half -> Pair] /\ u[0] = c
      /\ \A i \in 1 .. Half : u[i] = B!TwoRounds(u[i - 1], q[2 * i - 1], q[2 * i], s)
  BY <1>8 DEF Run
<1> DEFINE Crossed(i) == <<BitXor(r[i][2], p[2 * i + 2]), BitXor(r[i][1], p[2 * i + 1])>>
           T == {m \in Nat : m <= Half => u[m] = Crossed(Half - m)}
<1>10. 0 \in T
  BY <1>1, <1>5, <1>9
<1>11. ASSUME NEW m \in Nat, m \in T, m + 1 <= Half
       PROVE  u[m + 1] = Crossed(Half - (m + 1))
  <2> DEFINE i == Half - (m + 1)
             x == r[i]
             y == r[i + 1]
             w1 == p[2 * i + 1]   w2 == p[2 * i + 2]
             a1 == p[2 * i + 3]   a2 == p[2 * i + 4]
             d == u[m]
  <2>1. /\ i \in 0 .. Half /\ i + 1 \in 1 .. Half /\ (i + 1) - 1 = i /\ Half - m = i + 1
        /\ 2 * (i + 1) - 1 = 2 * i + 1 /\ 2 * (i + 1) = 2 * i + 2
        /\ 2 * (i + 1) + 2 = 2 * i + 4 /\ 2 * (i + 1) + 1 = 2 * i + 3
        /\ m + 1 \in 1 .. Half /\ (m + 1) - 1 = m
        /\ 2 * (m + 1) - 1 \in 1 .. BRounds + 2 /\ 2 * (m + 1) \in 1 .. BRounds + 2
        /\ BRounds + 3 - (2 * (m + 1) - 1) = 2 * i + 4 /\ BRounds + 3 - 2 * (m + 1) = 2 * i + 3
        /\ 2 * i + 1 \in 1 .. BRounds + 2 /\ 2 * i + 2 \in 1 .. BRounds + 2
        /\ 2 * i + 3 \in 1 .. BRounds + 2 /\ 2 * i + 4 \in 1 .. BRounds + 2
    BY <1>1, <1>11
  <2>2. m <= Half /\ u[m] = Crossed(Half - m)
    BY <1>1, <1>11
  <2> HIDE DEF i
  <2>3. y = B!TwoRounds(x, w1, w2, s)
    BY <1>6, <2>1
  <2>4. u[m + 1] = B!TwoRounds(d, a2, a1, s)
    <3>1. q[2 * (m + 1) - 1] = a2 /\ q[2 * (m + 1)] = a1
      BY <1>2, <2>1
    <3> QED
      BY <1>9, <2>1, <3>1
  <2>5. d = <<BitXor(y[2], a2), BitXor(y[1], a1)>>
    BY <2>1, <2>2
  <2>6. x \in Pair /\ w1 \in Words /\ w2 \in Words /\ a1 \in Words /\ a2 \in Words
    BY <1>2, <1>6, <2>1
  <2> HIDE DEF x, y, w1, w2, a1, a2, d
  <2>7. B!TwoRounds(d, a2, a1, s) = <<BitXor(x[2], w2), BitXor(x[1], w1)>>
    BY <2>3, <2>5, <2>6, TwoRoundsUndone
  <2> QED
    BY <2>4, <2>7 DEF i, x, w1, w2
<1>12. Nat \subseteq T
  <2> HIDE DEF Crossed
  <2>1. \A m \in Nat : m \in T => m + 1 \in T
    BY <1>11
  <2> HIDE DEF T
  <2> QED BY <1>10, <2>1, NatSetInduction
<1>13. u[Half] = <<BitXor(b[2], p[2]), BitXor(b[1], p[1])>>
  <2>1. u[Half] = Crossed(Half - Half)
    <3> HIDE DEF Crossed
    <3> QED BY <1>1, <1>12
  <2>2. Half - Half = 0 /\ 2 * 0 + 2 = 2 /\ 2 * 0 + 1 = 1
    BY <1>1
  <2> QED
    BY <1>6, <2>1, <2>2
<1>14. q[BRounds + 2] = p[1] /\ q[BRounds + 1] = p[2] /\ p[1] \in Words /\ p[2] \in Words
  BY <1>1, <1>2
<1>15. b = <<b[1], b[2]>> /\ b[1] \in Words /\ b[2] \in Words
  BY DEF Pair
<1>16. BitXor(BitXor(b[1], p[1]), p[1]) = b[1] /\ BitXor(BitXor(b[2], p[2]), p[2]) = b[2]
  BY <1>14, <1>15, Cancelled
<1>17. B!ProcessBlock(c, q, s) = <<BitXor(u[Half][2], q[BRounds + 2]), BitXor(u[Half][1], q[BRounds + 1])>>
  BY <1>8 DEF B!ProcessBlock
<1> QED
  BY <1>13, <1>14, <1>15, <1>16, <1>17 DEF c, q

LEMMA BackwardsTwice ==
  ASSUME NEW p \in Tables
  PROVE  B!Backwards(p) \in Tables /\ B!Backwards(B!Backwards(p)) = p
<1>1. BRounds \in Nat
  BY BlowfishConstants
<1>2. \A i \in 1 .. BRounds + 2 : BRounds + 3 - i \in 1 .. BRounds + 2 /\ BRounds + 3 - (BRounds + 3 - i) = i
  BY <1>1
<1>3. B!Backwards(p) = [i \in 1 .. BRounds + 2 |-> p[BRounds + 3 - i]]
  BY DEF B!Backwards
<1>4. B!Backwards(p) \in Tables
  BY <1>2, <1>3 DEF Tables
<1>5. \A i \in 1 .. BRounds + 2 : B!Backwards(p)[BRounds + 3 - i] = p[i]
  BY <1>2, <1>3
<1>6. p = [i \in 1 .. BRounds + 2 |-> p[i]]
  BY DEF Tables
<1>7. B!Backwards(B!Backwards(p)) = [i \in 1 .. BRounds + 2 |-> B!Backwards(p)[BRounds + 3 - i]]
  BY DEF B!Backwards
<1> QED
  BY <1>4, <1>5, <1>6, <1>7

-----------------------------------------------------------------------------
\* Blowfish: the tables of a key.

LEMMA KeyedTable ==
  ASSUME NEW k \in Submitted, k # <<>>
  PROVE  B!WithKey(k) \in Tables
<1>1. k \in Seq(Words) /\ Len(k) \in Nat \ {0} /\ BRounds \in Nat
  BY BlowfishConstants
<1>2. ASSUME NEW i \in 1 .. BRounds + 2 PROVE BitXor(PInit[i], k[((i - 1) % Len(k)) + 1]) \in Words
  <2>1. i - 1 \in Nat
    BY <1>1
  <2>2. \A x \in Nat : \A l \in Nat \ {0} : (x % l) + 1 \in 1 .. l
    OBVIOUS
  <2>3. ((i - 1) % Len(k)) + 1 \in 1 .. Len(k)
    BY <1>1, <2>1, <2>2
  <2>4. k[((i - 1) % Len(k)) + 1] \in Words
    BY <1>1, <2>3
  <2>5. PInit[i] \in Words
    BY BlowfishConstants
  <2> QED
    BY <2>4, <2>5, Cancelled
<1> QED
  BY <1>2 DEF B!WithKey, Tables

LEMMA FilledTables ==
  ASSUME NEW b \in Pair, NEW i \in Nat
  PROVE  /\ \A p \in Tables : B!FillP(b, p, i) \in Tables
         /\ \A s \in Boxes : B!FillS(b, s, i) \in Boxes
<1>1. b[1] \in Words /\ b[2] \in Words
  BY DEF Pair
<1> QED
  BY <1>1 DEF B!FillP, B!FillS, Tables, Boxes

(* The schedule makes tables of words.                                     *)
LEMMA ScheduleTyped ==
  ASSUME NEW k \in Submitted, k # <<>>
  PROVE  B!Schedule(k).p \in Tables /\ B!Schedule(k).s \in Boxes
<1> DEFINE L == (BRounds + 2) \div 2
           N == B!Cardinality(Words) \div 2
           S == [block : Pair, table : Tables]
           S2 == [block : Pair, table : Boxes]
           IntoP(x, i) == LET b == B!SubKeyEncrypt(x.block, x.table, SInit)
                          IN  [block |-> b, table |-> B!FillP(b, x.table, i)]
           inP == CHOOSE g : g = [i \in 0 .. L |->
                    IF i = 0 THEN [block |-> <<0, 0>>, table |-> B!WithKey(k)]
                    ELSE LET was == g[i - 1]
                             b == B!SubKeyEncrypt(was.block, was.table, SInit)
                         IN  [block |-> b, table |-> B!FillP(b, was.table, i)]]
           p == inP[L]
           IntoS(x, i) == LET b == B!SubKeyEncrypt(x.block, p.table, x.table)
                          IN  [block |-> b, table |-> B!FillS(b, x.table, i)]
           inS == CHOOSE g : g = [i \in 0 .. N |->
                    IF i = 0 THEN [block |-> p.block, table |-> SInit]
                    ELSE LET was == g[i - 1]
                             b == B!SubKeyEncrypt(was.block, p.table, was.table)
                         IN  [block |-> b, table |-> B!FillS(b, was.table, i)]]
<1>1. L \in Nat /\ N \in Nat
  <2>1. B!Cardinality(Words) = Cardinality(Words)
    BY DEF B!Cardinality, Cardinality
  <2>2. Cardinality(Words) \in Nat
    BY BlowfishConstants, FS_CardinalityType
  <2> QED
    BY <2>1, <2>2, BlowfishConstants
<1>2. <<0, 0>> \in Pair /\ SInit \in Boxes
  BY BlowfishConstants DEF Pair, Boxes
<1>3. B!Schedule(k) = [p |-> p.table, s |-> inS[N].table]
  BY DEF B!Schedule
<1>4. inP \in [0 .. L -> S]
  <2> DEFINE step == [i \in 1 .. L |-> [x \in S |-> IntoP(x, i)]]
             x0 == [block |-> <<0, 0>>, table |-> B!WithKey(k)]
  <2>1. x0 \in S
    BY <1>2, KeyedTable
  <2>2. ASSUME NEW i \in 1 .. L, NEW x \in S PROVE IntoP(x, i) \in S
    <3> DEFINE b == B!SubKeyEncrypt(x.block, x.table, SInit)
    <3>1. b \in Pair
      BY <1>2, BlockInPair DEF B!SubKeyEncrypt
    <3> HIDE DEF b
    <3>2. B!FillP(b, x.table, i) \in Tables
      BY <1>1, <3>1, FilledTables
    <3>3. IntoP(x, i) = [block |-> b, table |-> B!FillP(b, x.table, i)]
      BY DEF b
    <3> QED
      BY <3>1, <3>2, <3>3
  <2> HIDE DEF x0
  <2>3. step \in Steps(S, L)
    <3> HIDE DEF IntoP, S, L
    <3> QED BY <2>2 DEF Steps
  <2>4. PICK g \in Recursive(S, x0, L, step) : TRUE
    <3> HIDE DEF step, S, L
    <3> QED BY <1>1, <2>1, <2>3, RecursionExists
  <2>5. /\ g \in [0 .. L -> S] /\ g[0] = x0
        /\ \A i \in 1 .. L : g[i] = step[i][g[i - 1]]
    BY <2>4 DEF Recursive
  <2>6. \A i \in 1 .. L : g[i] = IntoP(g[i - 1], i)
    <3> HIDE DEF IntoP, S, L
    <3> QED BY <1>1, <2>5
  <2>7. g = [i \in 0 .. L |-> IF i = 0 THEN x0 ELSE IntoP(g[i - 1], i)]
    <3> HIDE DEF IntoP, S, L, step
    <3> QED BY <1>1, <2>5, <2>6
  <2>8. inP = [i \in 0 .. L |-> IF i = 0 THEN x0 ELSE IntoP(inP[i - 1], i)]
    <3> HIDE DEF L
    <3> QED BY <2>7 DEF x0
  <2> HIDE DEF inP, IntoP, L, S
  <2>9. inP[0] = x0 /\ inP = [i \in 0 .. L |-> inP[i]]
        /\ \A i \in 1 .. L : inP[i] = IntoP(inP[i - 1], i)
    BY <1>1, <2>8
  <2>10. \A i \in 1 .. L : inP[i - 1] \in S => inP[i] = step[i][inP[i - 1]]
    BY <2>9
  <2> HIDE DEF step
  <2>11. GoesOn(inP, S, x0, L, step)
    BY <2>9, <2>10 DEF GoesOn
  <2> QED
    BY <1>1, <2>1, <2>3, <2>11, RecursionStays
<1> HIDE DEF inP
<1>5. p \in S
  BY <1>1, <1>4
<1> HIDE DEF p
<1>6. inS \in [0 .. N -> S2]
  <2> DEFINE step == [i \in 1 .. N |-> [x \in S2 |-> IntoS(x, i)]]
             x0 == [block |-> p.block, table |-> SInit]
  <2>1. x0 \in S2
    BY <1>2, <1>5
  <2>2. ASSUME NEW i \in 1 .. N, NEW x \in S2 PROVE IntoS(x, i) \in S2
    <3> DEFINE b == B!SubKeyEncrypt(x.block, p.table, x.table)
    <3>1. b \in Pair
      BY <1>5, BlockInPair DEF B!SubKeyEncrypt
    <3> HIDE DEF b
    <3>2. B!FillS(b, x.table, i) \in Boxes
      BY <1>1, <3>1, FilledTables
    <3>3. IntoS(x, i) = [block |-> b, table |-> B!FillS(b, x.table, i)]
      BY DEF b
    <3> QED
      BY <3>1, <3>2, <3>3
  <2> HIDE DEF x0
  <2>3. step \in Steps(S2, N)
    <3> HIDE DEF IntoS, S2, N
    <3> QED BY <2>2 DEF Steps
  <2>4. PICK g \in Recursive(S2, x0, N, step) : TRUE
    <3> HIDE DEF step, S2, N
    <3> QED BY <1>1, <2>1, <2>3, RecursionExists
  <2>5. /\ g \in [0 .. N -> S2] /\ g[0] = x0
        /\ \A i \in 1 .. N : g[i] = step[i][g[i - 1]]
    BY <2>4 DEF Recursive
  <2>6. \A i \in 1 .. N : g[i] = IntoS(g[i - 1], i)
    <3> HIDE DEF IntoS, S2, N
    <3> QED BY <1>1, <2>5
  <2>7. g = [i \in 0 .. N |-> IF i = 0 THEN x0 ELSE IntoS(g[i - 1], i)]
    <3> HIDE DEF IntoS, S2, N, step
    <3> QED BY <1>1, <2>5, <2>6
  <2>8. inS = [i \in 0 .. N |-> IF i = 0 THEN x0 ELSE IntoS(inS[i - 1], i)]
    <3> HIDE DEF N
    <3> QED BY <2>7 DEF x0
  <2> HIDE DEF inS, IntoS, N, S2
  <2>9. inS[0] = x0 /\ inS = [i \in 0 .. N |-> inS[i]]
        /\ \A i \in 1 .. N : inS[i] = IntoS(inS[i - 1], i)
    BY <1>1, <2>8
  <2>10. \A i \in 1 .. N : inS[i - 1] \in S2 => inS[i] = step[i][inS[i - 1]]
    BY <2>9
  <2> HIDE DEF step
  <2>11. GoesOn(inS, S2, x0, N, step)
    BY <2>9, <2>10 DEF GoesOn
  <2> QED
    BY <1>1, <2>1, <2>3, <2>11, RecursionStays
<1> HIDE DEF inS
<1>7. inS[N] \in S2
  BY <1>1, <1>6
<1> HIDE DEF N
<1> QED
  BY <1>3, <1>5, <1>7

-----------------------------------------------------------------------------
\* Blowfish: a text.

(* A place of a text is one of the two of its block.                       *)
LEMMA Places ==
  ASSUME NEW l \in Nat, NEW i \in 1 .. l, i <= 2 * (l \div 2), NEW m, m = (i + 1) \div 2
  PROVE  /\ m \in Nat /\ 2 * m - 1 \in 1 .. l /\ 2 * m \in 1 .. l
         /\ 2 * m - 1 <= 2 * (l \div 2) /\ 2 * m <= 2 * (l \div 2)
         /\ ((2 * m - 1) + 1) \div 2 = m /\ (2 * m + 1) \div 2 = m
         /\ 2 - ((2 * m - 1) % 2) = 1 /\ 2 - ((2 * m) % 2) = 2
         /\ (2 - (i % 2) = 1 /\ i = 2 * m - 1) \/ (2 - (i % 2) = 2 /\ i = 2 * m)
OBVIOUS

(* The whole blocks of a text processed.                                   *)
Out(t, p, s) ==
  [i \in DOMAIN t |->
    IF i > 2 * (Len(t) \div 2) THEN t[i]
    ELSE B!ProcessBlock(<<t[2 * ((i + 1) \div 2) - 1], t[2 * ((i + 1) \div 2)]>>, p, s)[2 - (i % 2)]]

LEMMA OutIsText ==
  ASSUME NEW t \in Seq(Words), NEW p \in Tables, NEW s \in Boxes
  PROVE  Out(t, p, s) \in Seq(Words) /\ Len(Out(t, p, s)) = Len(t)
<1> DEFINE l == Len(t)
<1>1. l \in Nat /\ DOMAIN t = 1 .. l /\ \A i \in 1 .. l : t[i] \in Words
  OBVIOUS
<1>2. ASSUME NEW i \in 1 .. l PROVE Out(t, p, s)[i] \in Words
  <2>1. CASE i > 2 * (l \div 2)
    BY <1>1, <2>1 DEF Out
  <2>2. CASE ~ (i > 2 * (l \div 2))
    <3> DEFINE m == (i + 1) \div 2
               b == <<t[2 * m - 1], t[2 * m]>>
    <3>1. 2 * m - 1 \in 1 .. l /\ 2 * m \in 1 .. l /\ 2 - (i % 2) \in {1, 2}
      <4>1. i <= 2 * (l \div 2)
        BY <1>1, <2>2
      <4> QED
        BY <1>1, <4>1, Places
    <3>2. b \in Pair
      BY <1>1, <3>1 DEF Pair
    <3>3. Out(t, p, s)[i] = B!ProcessBlock(b, p, s)[2 - (i % 2)]
      BY <1>1, <2>2 DEF Out
    <3> HIDE DEF b
    <3>4. B!ProcessBlock(b, p, s)[1] \in Words /\ B!ProcessBlock(b, p, s)[2] \in Words
      BY <3>2, BlockInPair DEF Pair
    <3> QED
      BY <3>1, <3>3, <3>4
  <2> QED
    BY <2>1, <2>2
<1>3. Out(t, p, s) = [i \in 1 .. l |-> Out(t, p, s)[i]]
  BY <1>1 DEF Out
<1> HIDE DEF l
<1>4. Out(t, p, s) \in [1 .. l -> Words]
  BY <1>2, <1>3
<1> QED
  BY <1>1, <1>4 DEF l

LEMMA OutUndone ==
  ASSUME NEW t \in Seq(Words), NEW p \in Tables, NEW q \in Tables, NEW s \in Boxes,
         \A b \in Pair : B!ProcessBlock(B!ProcessBlock(b, p, s), q, s) = b
  PROVE  Out(Out(t, p, s), q, s) = t
<1> DEFINE l == Len(t)
           o == Out(t, p, s)
<1>1. l \in Nat /\ DOMAIN t = 1 .. l /\ \A i \in 1 .. l : t[i] \in Words
  OBVIOUS
<1>2. DOMAIN o = 1 .. l /\ Len(o) = l
  BY <1>1, OutIsText DEF Out
<1>3. ASSUME NEW i \in 1 .. l PROVE Out(o, q, s)[i] = t[i]
  <2>1. CASE i > 2 * (l \div 2)
    <3>1. o[i] = t[i]
      BY <1>1, <2>1 DEF Out
    <3> HIDE DEF o
    <3> QED
      BY <1>2, <2>1, <3>1 DEF Out
  <2>2. CASE ~ (i > 2 * (l \div 2))
    <3> DEFINE m == (i + 1) \div 2
               b == <<t[2 * m - 1], t[2 * m]>>
               c == B!ProcessBlock(b, p, s)
    <3>1. /\ m \in Nat /\ 2 * m - 1 \in 1 .. l /\ 2 * m \in 1 .. l
          /\ ~ (2 * m - 1 > 2 * (l \div 2)) /\ ~ (2 * m > 2 * (l \div 2))
          /\ ((2 * m - 1) + 1) \div 2 = m /\ (2 * m + 1) \div 2 = m
          /\ 2 - ((2 * m - 1) % 2) = 1 /\ 2 - ((2 * m) % 2) = 2
          /\ (2 - (i % 2) = 1 /\ i = 2 * m - 1) \/ (2 - (i % 2) = 2 /\ i = 2 * m)
      <4>1. i <= 2 * (l \div 2)
        BY <1>1, <2>2
      <4>2. /\ m \in Nat /\ 2 * m - 1 \in 1 .. l /\ 2 * m \in 1 .. l
            /\ 2 * m - 1 <= 2 * (l \div 2) /\ 2 * m <= 2 * (l \div 2)
            /\ ((2 * m - 1) + 1) \div 2 = m /\ (2 * m + 1) \div 2 = m
            /\ 2 - ((2 * m - 1) % 2) = 1 /\ 2 - ((2 * m) % 2) = 2
            /\ (2 - (i % 2) = 1 /\ i = 2 * m - 1) \/ (2 - (i % 2) = 2 /\ i = 2 * m)
        BY <1>1, <4>1, Places
      <4> QED
        BY <1>1, <4>2
    <3>2. b \in Pair
      BY <1>1, <3>1 DEF Pair
    <3>3. o[2 * m - 1] = c[1] /\ o[2 * m] = c[2]
      <4> HIDE DEF m, l
      <4>1. o[2 * m - 1] = B!ProcessBlock(<<t[2 * m - 1], t[2 * m]>>, p, s)[1]
        BY <1>1, <3>1 DEF Out, l
      <4>2. o[2 * m] = B!ProcessBlock(<<t[2 * m - 1], t[2 * m]>>, p, s)[2]
        BY <1>1, <3>1 DEF Out, l
      <4> QED
        BY <4>1, <4>2
    <3>4. c \in Pair /\ B!ProcessBlock(c, q, s) = b
      <4> HIDE DEF b
      <4> QED BY <3>2, BlockInPair
    <3>5. Out(o, q, s)[i] = B!ProcessBlock(<<o[2 * m - 1], o[2 * m]>>, q, s)[2 - (i % 2)]
      <4> HIDE DEF o
      <4> QED BY <1>2, <2>2 DEF Out
    <3> HIDE DEF c, o
    <3>6. <<o[2 * m - 1], o[2 * m]>> = c
      BY <3>3, <3>4 DEF Pair
    <3>7. Out(o, q, s)[i] = b[2 - (i % 2)]
      BY <3>4, <3>5, <3>6
    <3> HIDE DEF m
    <3>8. b[1] = t[2 * m - 1] /\ b[2] = t[2 * m]
      OBVIOUS
    <3> HIDE DEF b
    <3> QED
      BY <3>1, <3>7, <3>8
  <2> QED
    BY <2>1, <2>2
<1>4. Out(o, q, s) = [i \in 1 .. l |-> Out(o, q, s)[i]]
  <2> HIDE DEF o
  <2> QED BY <1>2 DEF Out
<1>5. t = [i \in 1 .. l |-> t[i]]
  BY <1>1
<1> HIDE DEF o, l
<1> QED
  BY <1>3, <1>4, <1>5 DEF o

(* What a call does to a text under a key.                                 *)
Calls == {"encrypt", "decrypt"}
Opposite(c) == IF c = "encrypt" THEN "decrypt" ELSE "encrypt"
TableOf(k, c) == IF c = "encrypt" THEN B!Schedule(k).p ELSE B!Backwards(B!Schedule(k).p)
Cipher(t, k, c) == IF k = <<>> THEN t ELSE Out(t, TableOf(k, c), B!Schedule(k).s)

LEMMA CipherUndone ==
  ASSUME NEW t \in Seq(Words), NEW k \in Submitted, NEW c \in Calls
  PROVE  Cipher(t, k, c) \in Seq(Words) /\ Cipher(Cipher(t, k, c), k, Opposite(c)) = t
<1>1. CASE k = <<>>
  BY <1>1 DEF Cipher
<1>2. CASE k # <<>>
  <2> DEFINE p == TableOf(k, c)
             q == TableOf(k, Opposite(c))
             s == B!Schedule(k).s
  <2>1. B!Schedule(k).p \in Tables /\ s \in Boxes
    BY <1>2, ScheduleTyped
  <2>2. /\ p \in Tables /\ q \in Tables
        /\ q = B!Backwards(p)
    BY <2>1, BackwardsTwice DEF TableOf, Opposite, Calls
  <2> HIDE DEF p, q, s
  <2>3. \A b \in Pair : B!ProcessBlock(B!ProcessBlock(b, p, s), q, s) = b
    BY <2>1, <2>2, BlockUndone
  <2>4. Out(t, p, s) \in Seq(Words) /\ Out(Out(t, p, s), q, s) = t
    BY <2>1, <2>2, <2>3, OutIsText, OutUndone
  <2> QED
    BY <1>2, <2>4 DEF Cipher, p, q, s
<1> QED
  BY <1>1, <1>2

-----------------------------------------------------------------------------
\* Blowfish: the engine.

(* The engine has the tables of the key that was submitted.                *)
Keyed ==
  /\ bkey \in Submitted \union {<<>>}
  /\ isKeyed = (bkey # <<>>)
  /\ isKeyed => /\ pEncrypt = B!Schedule(bkey).p
                /\ pDecrypt = B!Backwards(B!Schedule(bkey).p)
                /\ bfS = B!Schedule(bkey).s

(* The text is what it was at first, put through the calls of its layers.  *)
Leads(f) ==
  /\ Len(f) = Len(layers) + 1 /\ f[1] = bstart /\ f[Len(f)] = text
  /\ \A i \in 1 .. Len(layers) : f[i + 1] = Cipher(f[i], layers[i].key, layers[i].call)
Layered ==
  /\ layers \in Seq([call : Calls, key : Submitted \union {<<>>}])
  /\ \E f \in Seq(Seq(Words)) : Leads(f)

BlowfishInv == Keyed /\ Layered

LEMMA BlowfishInit == B!Init => BlowfishInv
<1> SUFFICES ASSUME B!Init PROVE BlowfishInv
  OBVIOUS
<1>1. isKeyed = FALSE /\ bkey = <<>> /\ bstart \in Texts /\ text = bstart /\ layers = <<>>
  BY DEF B!Init
<1>2. bstart \in Seq(Words)
  BY <1>1, BlowfishConstants
<1> DEFINE f == <<bstart>>
<1>3. f \in Seq(Seq(Words)) /\ Len(f) = 1 /\ f[1] = bstart
  BY <1>2
<1>4. Leads(f)
  <2>1. Len(layers) = 0
    BY <1>1
  <2> HIDE DEF f
  <2> QED
    BY <1>1, <1>3, <2>1 DEF Leads
<1>5. Layered
  <2>1. layers \in Seq([call : Calls, key : Submitted \union {<<>>}])
    BY <1>1
  <2> HIDE DEF f
  <2> QED
    BY <1>3, <1>4, <2>1 DEF Layered
<1> QED
  BY <1>1, <1>5 DEF BlowfishInv, Keyed

LEMMA LayersStay == ASSUME Layered, UNCHANGED <<bstart, text, layers>> PROVE Layered'
<1>1. PICK f \in Seq(Seq(Words)) : Leads(f)
  BY DEF Layered
<1>2. Leads(f)'
  <2>1. Len(f) = Len(layers') + 1 /\ f[1] = bstart' /\ f[Len(f)] = text'
    BY <1>1 DEF Leads
  <2>2. \A i \in 1 .. Len(layers') : f[i + 1] = Cipher(f[i], layers'[i].key, layers'[i].call)
    BY <1>1 DEF Leads
  <2> QED
    BY <2>1, <2>2 DEF Leads, Cipher, TableOf, Out
<1>3. layers' \in Seq([call : Calls, key : Submitted \union {<<>>}])
  BY DEF Layered
<1> QED
  BY <1>2, <1>3 DEF Layered

LEMMA SubmitKeeps == ASSUME BlowfishInv, NEW k \in Submitted, B!SubmitKey(k) PROVE BlowfishInv'
<1>1. UNCHANGED <<bstart, text, layers>> /\ bkey' = k
  BY DEF B!SubmitKey
<1>2. Layered'
  BY <1>1, LayersStay DEF BlowfishInv
<1>3. Keyed'
  <2>1. CASE k = <<>>
    BY <1>1, <2>1 DEF Keyed, B!SubmitKey
  <2>2. CASE k # <<>>
    <3>1. /\ isKeyed' = TRUE /\ pEncrypt' = B!Schedule(k).p
          /\ pDecrypt' = B!Backwards(B!Schedule(k).p) /\ bfS' = B!Schedule(k).s
      BY <2>2 DEF B!SubmitKey
    <3> QED
      BY <1>1, <2>2, <3>1 DEF Keyed
  <2> QED
    BY <2>1, <2>2
<1> QED
  BY <1>2, <1>3 DEF BlowfishInv

LEMMA CallKeeps ==
  ASSUME BlowfishInv, NEW c \in Calls, text' = Cipher(text, bkey, c),
         B!Layered(c, Opposite(c)),
         UNCHANGED <<isKeyed, pEncrypt, pDecrypt, bfS, bkey, bstart>>
  PROVE  BlowfishInv'
<1> DEFINE layer == [call |-> c, key |-> bkey]
           undone == [call |-> Opposite(c), key |-> bkey]
           Layers == [call : Calls, key : Submitted \union {<<>>}]
<1>1. Keyed'
  BY DEF BlowfishInv, Keyed
<1>2. PICK f \in Seq(Seq(Words)) : Leads(f)
  BY DEF BlowfishInv, Layered
<1>3. layers \in Seq(Layers) /\ bkey \in Submitted \union {<<>>}
  BY DEF BlowfishInv, Layered, Keyed
<1>4. Len(layers) \in Nat /\ Len(f) = Len(layers) + 1 /\ f[1] = bstart /\ f[Len(f)] = text
      /\ \A i \in 1 .. Len(layers) : f[i + 1] = Cipher(f[i], layers[i].key, layers[i].call)
  BY <1>2, <1>3 DEF Leads
<1>5. Opposite(c) \in Calls /\ Opposite(Opposite(c)) = c
  BY DEF Opposite, Calls
<1>6. text \in Seq(Words)
  BY <1>4
<1>7. CASE layers # <<>> /\ layers[Len(layers)] = undone /\ layers' = SubSeq(layers, 1, Len(layers) - 1)
  <2> DEFINE l == Len(layers)
             g == SubSeq(f, 1, l)
  <2>1. l \in Nat \ {0}
    BY <1>3, <1>7
  <2>2. /\ g \in Seq(Seq(Words)) /\ Len(g) = l /\ \A i \in 1 .. l : g[i] = f[i]
    BY <1>4, <2>1
  <2>3. /\ layers' \in Seq(Layers) /\ Len(layers') = l - 1
        /\ \A i \in 1 .. l - 1 : layers'[i] = layers[i]
    <3>1. l - 1 \in 0 .. Len(layers) /\ l - 1 <= l /\ \A i \in 1 .. l - 1 : i \in 1 .. l
      BY <2>1
    <3> DEFINE rest == [i \in 1 .. l - 1 |-> layers[i]]
    <3>2. rest \in Seq(Layers) /\ Len(rest) = l - 1 /\ \A i \in 1 .. l - 1 : rest[i] = layers[i]
      <4>1. \A i \in 1 .. l - 1 : layers[i] \in Layers
        <5> HIDE DEF Layers
        <5> QED BY <1>3, <3>1
      <4>2. l - 1 \in Nat
        BY <2>1
      <4> HIDE DEF Layers, l
      <4> QED BY <4>1, <4>2
    <3>3. layers' = rest
      <4> HIDE DEF Layers
      <4> QED BY <1>3, <1>7, <2>1, <3>1, <3>2
    <3> HIDE DEF Layers, rest
    <3> QED BY <3>2, <3>3
  <2>4. text' = f[l]
    <3>1. text = Cipher(f[l], bkey, Opposite(c))
      BY <1>4, <1>7, <2>1
    <3>2. f[l] \in Seq(Words)
      BY <1>4, <2>1
    <3>3. CASE bkey \in Submitted
      BY <1>5, <3>1, <3>2, <3>3, CipherUndone
    <3>4. CASE bkey = <<>>
      BY <3>1, <3>4 DEF Cipher
    <3> QED
      BY <1>3, <3>3, <3>4
  <2>5. \A i \in 1 .. Len(layers') : g[i + 1] = Cipher(g[i], layers'[i].key, layers'[i].call)
    <3> SUFFICES ASSUME NEW i \in 1 .. l - 1
                 PROVE  g[i + 1] = Cipher(g[i], layers'[i].key, layers'[i].call)
      BY <2>3
    <3>1. i \in 1 .. l /\ i + 1 \in 1 .. l
      BY <2>1
    <3>2. f[i + 1] = Cipher(f[i], layers[i].key, layers[i].call)
      BY <1>4, <3>1
    <3> QED
      BY <2>2, <2>3, <3>1, <3>2
  <2>6. Len(g) = Len(layers') + 1 /\ g[1] = bstart' /\ g[Len(g)] = text'
    BY <1>4, <2>1, <2>2, <2>3, <2>4
  <2> PICK h \in Seq(Seq(Words)) : h = g
    BY <2>2
  <2>7. Leads(h)'
    <3> HIDE DEF g, l
    <3> QED BY <2>5, <2>6 DEF Leads, Cipher, TableOf, Out
  <2>8. Layered'
    BY <2>3, <2>7 DEF Layered
  <2> QED
    BY <1>1, <2>8 DEF BlowfishInv
<1>8. CASE layers' = Append(layers, layer)
  <2> DEFINE l == Len(layers)
             new == Cipher(text, bkey, c)
             g == Append(f, new)
  <2>1. new \in Seq(Words)
    <3>1. CASE bkey \in Submitted
      BY <1>6, <3>1, CipherUndone
    <3>2. CASE bkey = <<>>
      BY <1>6, <3>2 DEF Cipher
    <3> QED
      BY <1>3, <3>1, <3>2
  <2> HIDE DEF new
  <2>2. /\ g \in Seq(Seq(Words)) /\ Len(g) = l + 2 /\ g[l + 2] = new
        /\ \A i \in 1 .. l + 1 : g[i] = f[i]
    BY <1>4, <2>1
  <2>3. layer \in Layers
    BY <1>3
  <2>4. /\ layers' \in Seq(Layers) /\ Len(layers') = l + 1 /\ layers'[l + 1] = layer
        /\ \A i \in 1 .. l : layers'[i] = layers[i]
    <3> HIDE DEF Layers, layer
    <3> QED BY <1>3, <1>8, <2>3
  <2>5. \A i \in 1 .. Len(layers') : g[i + 1] = Cipher(g[i], layers'[i].key, layers'[i].call)
    <3> SUFFICES ASSUME NEW i \in 1 .. l + 1
                 PROVE  g[i + 1] = Cipher(g[i], layers'[i].key, layers'[i].call)
      BY <2>4
    <3>1. CASE i = l + 1
      <4>1. i + 1 = l + 2 /\ i \in 1 .. l + 1 /\ Len(f) = l + 1
        BY <1>4, <3>1
      <4>2. g[i] = text /\ layers'[i].key = bkey /\ layers'[i].call = c
        BY <1>4, <2>2, <2>4, <3>1, <4>1
      <4> HIDE DEF g
      <4> QED
        BY <2>2, <4>1, <4>2 DEF new
    <3>2. CASE i # l + 1
      <4>1. i \in 1 .. l /\ i \in 1 .. l + 1 /\ i + 1 \in 1 .. l + 1
        BY <1>4, <3>2
      <4>2. f[i + 1] = Cipher(f[i], layers[i].key, layers[i].call)
        BY <1>4, <4>1
      <4> QED
        BY <2>2, <2>4, <4>1, <4>2
    <3> QED
      BY <3>1, <3>2
  <2>6. Len(g) = Len(layers') + 1 /\ g[1] = bstart' /\ g[Len(g)] = text'
    <3>1. 1 \in 1 .. l + 1 /\ l + 2 = (l + 1) + 1
      BY <1>4
    <3> HIDE DEF g
    <3> QED BY <1>4, <2>2, <2>4, <3>1 DEF new
  <2> PICK h \in Seq(Seq(Words)) : h = g
    BY <2>2
  <2>7. Leads(h)'
    <3> HIDE DEF g, l
    <3> QED BY <2>5, <2>6 DEF Leads, Cipher, TableOf, Out
  <2>8. Layered'
    BY <2>4, <2>7 DEF Layered
  <2> QED
    BY <1>1, <2>8 DEF BlowfishInv
<1> QED
  BY <1>7, <1>8 DEF B!Layered, B!Last, B!Front

LEMMA BlowfishStep == BlowfishInv /\ [B!Next]_B!vars => BlowfishInv'
<1> SUFFICES ASSUME BlowfishInv, [B!Next]_B!vars PROVE BlowfishInv'
  OBVIOUS
<1>1. ASSUME NEW k \in Submitted, B!SubmitKey(k) PROVE BlowfishInv'
  BY <1>1, SubmitKeeps
<1>2. CASE B!Encrypt
  <2>1. B!Processed(pEncrypt) = Cipher(text, bkey, "encrypt")
    BY DEF B!Processed, BlowfishInv, Keyed, Cipher, TableOf, Out
  <2>2. "encrypt" \in Calls /\ Opposite("encrypt") = "decrypt"
    BY DEF Calls, Opposite
  <2> QED
    BY <1>2, <2>1, <2>2, CallKeeps DEF B!Encrypt
<1>3. CASE B!Decrypt
  <2>1. B!Processed(pDecrypt) = Cipher(text, bkey, "decrypt")
    BY DEF B!Processed, BlowfishInv, Keyed, Cipher, TableOf, Out
  <2>2. "decrypt" \in Calls /\ Opposite("decrypt") = "encrypt"
    BY DEF Calls, Opposite
  <2> QED
    BY <1>3, <2>1, <2>2, CallKeeps DEF B!Decrypt
<1>4. CASE UNCHANGED B!vars
  <2>1. Layered'
    BY <1>4, LayersStay DEF B!vars, BlowfishInv
  <2> QED
    BY <1>4, <2>1 DEF B!vars, BlowfishInv, Keyed
<1> QED
  BY <1>1, <1>2, <1>3, <1>4 DEF B!Next

(* Under whichever keys a text was enciphered, whichever were submitted    *)
(* meanwhile and however long it is: once every call is undone with its    *)
(* own key it is what it was, for words, tables, rounds and keys of any    *)
(* size (task_blowfish.cpp:30-150).                                        *)
THEOREM TextsComeBack == MCSpec => []TextComesBack
<1>1. MCInit => BlowfishInv
  BY BlowfishInit DEF MCInit
<1>2. BlowfishInv /\ [MCNext]_<<job, vars, blowfishVars, operandVars>> => BlowfishInv'
  BY BlowfishStep DEF MCNext, blowfishVars, B!vars
<1>3. BlowfishInv => TextComesBack
  <2> SUFFICES ASSUME BlowfishInv, layers = <<>> PROVE text = bstart
    BY DEF TextComesBack, B!TextComesBack
  <2>1. PICK f \in Seq(Seq(Words)) : Leads(f)
    BY DEF BlowfishInv, Layered
  <2> QED
    BY <2>1 DEF Leads
<1> QED
  BY <1>1, <1>2, <1>3, PTL DEF MCSpec

-----------------------------------------------------------------------------
(***************************************************************************)
(* Operands.  What is traced, for the operand t that was read, is the      *)
(* sequence g of configurations the machine went through, g[k] behind      *)
(* token k; h[k] is the depth of parentheses there, f says what each part  *)
(* of t means, and R[k] is how often the tokens up to k count each         *)
(* register.  Three things are shown of a plain operand that is taken:     *)
(* base, index and what still waits to be one of them add up to R          *)
(* (MachineSums), what a part means counts the registers that stand in it  *)
(* (MeaningSums), and the calculator works out every part that can be      *)
(* worked out on its own, leaving the rest of its stacks alone             *)
(* (PartsEvaluate).  One of the form Base + Scale*Index + displacement is  *)
(* taken because base and index are as many as the registers read          *)
(* (AllCounted).                                                           *)
(***************************************************************************)

-----------------------------------------------------------------------------
\* Operands: tokens and numbers.

Kinds == E!Dyadic \union {"(", ")", "~", "imm", "reg"}
Tok == {t \in [kind : Kinds, val : Int] : t.kind = "reg" => t.val \in Regs}

(* What a calculator with integers works out is an integer.                *)
LEMMA WrapIsInt == ASSUME NEW len \in Int PROVE E!Wrap(len) \in Int
<1>1. 2 ^ Width \in Nat \ {0} /\ 2 ^ (Width - 1) \in Nat
  BY OperandConstants
<1> QED
  BY <1>1 DEF E!Wrap

LEMMA WrapZero == E!Wrap(0) = 0
<1>1. 2 ^ Width \in Nat \ {0} /\ 2 ^ (Width - 1) \in Nat /\ 2 ^ (Width - 1) < 2 ^ Width
  BY OperandConstants
<1> QED
  BY <1>1 DEF E!Wrap

(* The operations that are allowed.                                        *)
Defines(o, b) == (o = "/" => b # 0) /\ (o \in {"<<", ">>"} => b \in 0 .. Width - 1)

LEMMA ApplyIsInt ==
  ASSUME NEW o \in E!Dyadic, NEW a \in Int, NEW b \in Int, Defines(o, b)
  PROVE  E!Apply(o, a, b) \in Int
<1>1. \A bits \in SUBSET (0 .. Width - 1) : E!Number(bits) \in Int
  BY OperandConstants
<1>2. E!Bits(a) \in SUBSET (0 .. Width - 1) /\ E!Bits(b) \in SUBSET (0 .. Width - 1)
  BY DEF E!Bits
<1>3. CASE o = "+"
  BY <1>3, WrapIsInt DEF E!Apply
<1>4. CASE o = "-"
  BY <1>4, WrapIsInt DEF E!Apply
<1>5. CASE o = "*"
  <2>1. a * b \in Int
    OBVIOUS
  <2> QED BY <1>5, <2>1, WrapIsInt DEF E!Apply
<1>6. CASE o = "/"
  <2>1. b # 0
    BY <1>6 DEF Defines
  <2>2. E!Abs(a) \in Int /\ E!Abs(b) \in Nat \ {0} /\ E!Sign(a) \in Int /\ E!Sign(b) \in Int
    BY <2>1 DEF E!Abs, E!Sign
  <2>3. E!Abs(a) \div E!Abs(b) \in Int /\ E!Sign(a) * E!Sign(b) \in Int
    BY <2>2
  <2>4. E!Sign(a) * E!Sign(b) * (E!Abs(a) \div E!Abs(b)) \in Int
    BY <2>3
  <2> QED BY <1>6, <2>4, WrapIsInt DEF E!Apply
<1>7. CASE o = "|"
  <2>1. E!Bits(a) \union E!Bits(b) \in SUBSET (0 .. Width - 1)
    BY <1>2
  <2>2. E!Number(E!Bits(a) \union E!Bits(b)) \in Int
    BY <1>1, <2>1
  <2> QED BY <1>7, <2>2, WrapIsInt DEF E!Apply
<1>8. CASE o = "^"
  <2>1. (E!Bits(a) \union E!Bits(b)) \ (E!Bits(a) \intersect E!Bits(b)) \in SUBSET (0 .. Width - 1)
    BY <1>2
  <2>2. E!Number((E!Bits(a) \union E!Bits(b)) \ (E!Bits(a) \intersect E!Bits(b))) \in Int
    BY <1>1, <2>1
  <2> QED BY <1>8, <2>2, WrapIsInt DEF E!Apply
<1>9. CASE o = "&"
  <2>1. E!Bits(a) \intersect E!Bits(b) \in SUBSET (0 .. Width - 1)
    BY <1>2
  <2>2. E!Number(E!Bits(a) \intersect E!Bits(b)) \in Int
    BY <1>1, <2>1
  <2> QED BY <1>9, <2>2, WrapIsInt DEF E!Apply
<1>10. CASE o \in {"<<", ">>"}
  <2>1. b \in 0 .. Width /\ Width \in Nat
    BY <1>10, OperandConstants DEF Defines
  <2>2. 2 ^ b \in Nat \ {0}
    BY <2>1, OperandConstants
  <2>3. a * 2 ^ b \in Int /\ a \div 2 ^ b \in Int
    BY <2>2
  <2>4. CASE o = "<<"
    BY <2>3, <2>4, WrapIsInt DEF E!Apply
  <2>5. CASE o = ">>"
    BY <2>3, <2>5, WrapIsInt DEF E!Apply
  <2> QED BY <1>10, <2>4, <2>5
<1> QED
  BY <1>3, <1>4, <1>5, <1>6, <1>7, <1>8, <1>9, <1>10 DEF E!Dyadic

-----------------------------------------------------------------------------
\* What an operand says.

(* What a part says if shorter parts say what f has for them.              *)
Says(f, s) ==
  LET len == Len(s)
      levels == {l \in DOMAIN E!Levels : E!Cuts(s, l) # {}}
  IN IF levels # {} THEN
       LET cut == E!Max(E!Cuts(s, E!Min(levels)))
           a == f[SubSeq(s, 1, cut - 1)]
           b == f[SubSeq(s, cut + 1, len)]
       IN IF E!Nonsense \in {a, b} THEN E!Nonsense ELSE E!Combined(s[cut].kind, a, b)
     ELSE CASE len = 1 /\ s[1].kind = "imm" -> [regs |-> E!Unit(E!NoReg, 0), imm |-> s[1].val]
            [] len = 1 /\ s[1].kind = "reg" -> [regs |-> E!Unit(s[1].val, 1), imm |-> 0]
            [] len = 2 /\ s[1].kind = "-" /\ s[2].kind = "imm" ->
                 [regs |-> E!Unit(E!NoReg, 0), imm |-> -s[2].val]
            [] len = 2 /\ s[1].kind = "~" /\ s[2].kind = "imm" ->
                 [regs |-> E!Unit(E!NoReg, 0), imm |-> -s[2].val - 1]
            [] len > 2 /\ s[1].kind = "(" /\ s[len].kind = ")" -> f[Tail(E!Front(s))]
            [] OTHER -> E!Nonsense
Reading(t, f) == f = [s \in E!Parts(t) |-> Says(f, s)]

LEMMA MeaningIs ==
  ASSUME NEW t
  PROVE  E!Meaning(t) = (CHOOSE f : Reading(t, f))[t]
BY DEF E!Meaning, Reading, Says

(* A part of a part is a part.                                             *)
LEMMA PartOfPart ==
  ASSUME NEW t \in Seq(Tok), NEW s \in E!Parts(t),
         NEW a \in 1 .. Len(s) + 1, NEW b \in 0 .. Len(s)
  PROVE  /\ s \in Seq(Tok) /\ Len(s) \in Nat
         /\ SubSeq(s, a, b) \in E!Parts(t)
         /\ Len(SubSeq(s, a, b)) = IF a <= b THEN b - a + 1 ELSE 0
<1>1. PICK i \in 1 .. Len(t) + 1, j \in 0 .. Len(t) : s = SubSeq(t, i, j)
  BY DEF E!Parts
<1>2. i \in Int /\ j \in Int /\ Len(t) \in Nat /\ \A k \in i .. j : t[k] \in Tok
  OBVIOUS
<1>3. s \in Seq(Tok) /\ Len(s) = IF i <= j THEN j - i + 1 ELSE 0
  BY <1>1, <1>2, SubSeqProperties
<1>4. a \in Int /\ b \in Int /\ \A k \in a .. b : s[k] \in Tok
  BY <1>3
<1>5. Len(SubSeq(s, a, b)) = IF a <= b THEN b - a + 1 ELSE 0
  BY <1>4, SubSeqProperties
<1>6. SubSeq(s, a, b) \in E!Parts(t)
  <2>1. CASE b < a
    <3>0. a \in Int /\ b \in Int /\ b < a
      BY <1>4, <2>1
    <3>1. SubSeq(s, a, b) = <<>>
      BY ONLY <3>0, SubSeqEmpty
    <3>2. SubSeq(t, 1, 0) = <<>> /\ 1 \in 1 .. Len(t) + 1 /\ 0 \in 0 .. Len(t)
      BY <1>2
    <3> QED BY <3>1, <3>2, SMTT(30) DEF E!Parts
  <2>2. CASE a <= b
    <3>1. /\ i \in 1 .. Len(t) /\ j \in 1 .. Len(t)
          /\ a \in 1 .. j - i + 1 /\ b \in 1 .. j - i + 1
      BY <1>2, <1>3, <2>2
    <3>2. SubSeq(s, a, b) = SubSeq(t, i + a - 1, i + b - 1)
      BY <1>1, <3>1, SubSeqOfSubSeq
    <3>3. i + a - 1 \in 1 .. Len(t) + 1 /\ i + b - 1 \in 0 .. Len(t)
      BY <1>2, <3>1
    <3>4. \E c \in 1 .. Len(t) + 1, d \in 0 .. Len(t) : SubSeq(s, a, b) = SubSeq(t, c, d)
      BY <3>2, <3>3
    <3> QED BY <3>4 DEF E!Parts
  <2> QED BY <1>4, <2>1, <2>2
<1> QED
  BY <1>3, <1>5, <1>6

(* Where a part is cut: at the last of its operators that bind least.      *)
LeastLevel(s) == E!Min({l \in DOMAIN E!Levels : E!Cuts(s, l) # {}})
CutOf(s) == E!Max(E!Cuts(s, LeastLevel(s)))

LEMMA CutIsThere ==
  ASSUME NEW s \in Seq(Tok), NEW l \in DOMAIN E!Levels, E!Cuts(s, l) # {}
  PROVE  /\ LeastLevel(s) \in DOMAIN E!Levels
         /\ CutOf(s) \in E!Cuts(s, LeastLevel(s)) /\ CutOf(s) \in 1 .. Len(s)
         /\ \A m \in DOMAIN E!Levels : E!Cuts(s, m) # {} => LeastLevel(s) <= m
         /\ \A k \in E!Cuts(s, LeastLevel(s)) : k <= CutOf(s)
<1> DEFINE S == {m \in DOMAIN E!Levels : E!Cuts(s, m) # {}}
<1>1. DOMAIN E!Levels = 1 .. 6
  BY DEF E!Levels
<1>2. S \subseteq 0 .. 6 /\ S # {}
  BY <1>1
<1>3. PICK a \in S : \A y \in S : a <= y
  BY <1>2, Extremes
<1>4. LeastLevel(s) \in S /\ \A y \in S : LeastLevel(s) <= y
  BY <1>3 DEF LeastLevel, E!Min
<1> DEFINE C == E!Cuts(s, LeastLevel(s))
<1>5. Len(s) \in Nat /\ C \subseteq 1 .. Len(s) /\ C # {}
  BY <1>4 DEF E!Cuts
<1>6. C \subseteq 0 .. Len(s)
  BY <1>5
<1>7. PICK b \in C : \A y \in C : y <= b
  BY <1>5, <1>6, Extremes
<1>8. \A y \in C : b >= y
  BY <1>5, <1>7
<1>9. CutOf(s) \in C /\ \A y \in C : CutOf(s) >= y
  BY <1>8 DEF CutOf, E!Max
<1> HIDE DEF C
<1>10. \A k \in C : k <= CutOf(s)
  BY <1>5, <1>9
<1> QED
  BY <1>4, <1>5, <1>9, <1>10 DEF C

(* What a part says depends on shorter parts only.                         *)
LEMMA SaysOfShorter ==
  ASSUME NEW t \in Seq(Tok), NEW s \in E!Parts(t), NEW f, NEW g,
         \A r \in E!Parts(t) : Len(r) < Len(s) => f[r] = g[r]
  PROVE  Says(f, s) = Says(g, s)
<1> DEFINE len == Len(s)
           levels == {l \in DOMAIN E!Levels : E!Cuts(s, l) # {}}
<1>0. s \in Seq(Tok) /\ len \in Nat
  BY PartOfPart, 1 \in 1 .. Len(s) + 1, 0 \in 0 .. Len(s)
<1>1. CASE levels # {}
  <2>1. CutOf(s) \in 1 .. len
    BY <1>0, <1>1, CutIsThere
  <2>2. f[SubSeq(s, 1, CutOf(s) - 1)] = g[SubSeq(s, 1, CutOf(s) - 1)]
    <3>1. 1 \in 1 .. len + 1 /\ CutOf(s) - 1 \in 0 .. len
      BY <1>0, <2>1
    <3>2. /\ SubSeq(s, 1, CutOf(s) - 1) \in E!Parts(t)
          /\ Len(SubSeq(s, 1, CutOf(s) - 1))
               = IF 1 <= CutOf(s) - 1 THEN (CutOf(s) - 1) - 1 + 1 ELSE 0
      BY <3>1, PartOfPart
    <3>3. Len(SubSeq(s, 1, CutOf(s) - 1)) < len
      BY <1>0, <2>1, <3>2
    <3> QED BY <3>2, <3>3
  <2>3. f[SubSeq(s, CutOf(s) + 1, len)] = g[SubSeq(s, CutOf(s) + 1, len)]
    <3>1. CutOf(s) + 1 \in 1 .. len + 1 /\ len \in 0 .. len
      BY <1>0, <2>1
    <3>2. /\ SubSeq(s, CutOf(s) + 1, len) \in E!Parts(t)
          /\ Len(SubSeq(s, CutOf(s) + 1, len))
               = IF CutOf(s) + 1 <= len THEN len - (CutOf(s) + 1) + 1 ELSE 0
      BY <3>1, PartOfPart
    <3>3. Len(SubSeq(s, CutOf(s) + 1, len)) < len
      BY <1>0, <2>1, <3>2
    <3> QED BY <3>2, <3>3
  <2> QED
    BY <1>1, <2>2, <2>3 DEF Says, CutOf, LeastLevel
<1>2. CASE levels = {}
  <2>1. CASE len > 2
    <3>1. s # <<>> /\ E!Front(s) = SubSeq(s, 1, len - 1)
      BY <2>1 DEF E!Front
    <3>2. 1 \in 1 .. len /\ len - 1 \in 1 .. len /\ 1 \in 1 .. len + 1 /\ len - 1 \in 0 .. len
      BY <1>0, <2>1
    <3>3. Tail(SubSeq(s, 1, len - 1)) = SubSeq(s, 2, len - 1)
      <4>1. len - 1 \in 1 .. Len(s)
        BY <3>2
      <4> QED BY <1>0, <3>2, <4>1, HeadTailOfSubSeq
    <3>4. 2 \in 1 .. len + 1
      BY <1>0, <2>1
    <3>5. /\ SubSeq(s, 2, len - 1) \in E!Parts(t)
          /\ Len(SubSeq(s, 2, len - 1)) = IF 2 <= len - 1 THEN (len - 1) - 2 + 1 ELSE 0
      BY <3>2, <3>4, PartOfPart
    <3>6. Len(SubSeq(s, 2, len - 1)) < len
      BY <1>0, <2>1, <3>5
    <3>7. f[Tail(E!Front(s))] = g[Tail(E!Front(s))]
      BY <3>1, <3>3, <3>5, <3>6
    <3> QED
      BY <1>2, <3>7, Zenon DEF Says
  <2>2. CASE ~ (len > 2)
    BY <1>2, <2>2, Zenon DEF Says
  <2> QED BY <2>1, <2>2
<1> QED
  BY <1>1, <1>2

(* There is a function of the parts that says what they say.               *)
LEMMA ReadingExists == ASSUME NEW t \in Seq(Tok) PROVE \E f : Reading(t, f)
<1> DEFINE P == E!Parts(t)
           Ok(m) == \E f : /\ f = [s \in P |-> f[s]]
                           /\ \A s \in P : Len(s) < m => f[s] = Says(f, s)
           T == {m \in Nat : Ok(m)}
<1>0. \A s \in P : Len(s) \in Nat /\ Len(s) <= Len(t)
  <2> SUFFICES ASSUME NEW s \in P PROVE Len(s) \in Nat /\ Len(s) <= Len(t)
    OBVIOUS
  <2>1. PICK i \in 1 .. Len(t) + 1, j \in 0 .. Len(t) : s = SubSeq(t, i, j)
    BY DEF E!Parts
  <2>2. i \in Int /\ j \in Int /\ Len(t) \in Nat /\ \A k \in i .. j : t[k] \in Tok
    OBVIOUS
  <2>3. Len(s) = IF i <= j THEN j - i + 1 ELSE 0
    BY <2>1, <2>2, SubSeqProperties
  <2> QED BY <2>1, <2>2, <2>3
<1>1. 0 \in T
  <2> DEFINE f == [s \in P |-> 0]
  <2>1. f = [s \in P |-> f[s]] /\ \A s \in P : ~ (Len(s) < 0)
    BY <1>0
  <2> QED BY <2>1
<1>2. ASSUME NEW m \in Nat, m \in T PROVE m + 1 \in T
  <2>1. PICK f : /\ f = [s \in P |-> f[s]]
                 /\ \A s \in P : Len(s) < m => f[s] = Says(f, s)
    BY <1>2
  <2> DEFINE g == [s \in P |-> IF Len(s) < m THEN f[s] ELSE Says(f, s)]
  <2>2. g = [s \in P |-> g[s]]
    OBVIOUS
  <2>3. ASSUME NEW s \in P, Len(s) < m + 1 PROVE g[s] = Says(g, s)
    <3>1. g[s] = Says(f, s)
      BY <2>1
    <3>2. \A r \in E!Parts(t) : Len(r) < Len(s) => f[r] = g[r]
      <4> SUFFICES ASSUME NEW r \in P, Len(r) < Len(s) PROVE f[r] = g[r]
        OBVIOUS
      <4>1. Len(r) < m
        BY <1>0, <2>3
      <4> QED BY <4>1
    <3> HIDE DEF g
    <3>3. Says(f, s) = Says(g, s)
      BY <3>2, SaysOfShorter
    <3> QED BY <3>1, <3>3
  <2> HIDE DEF g
  <2> QED BY <2>2, <2>3
<1>3. Nat \subseteq T
  <2> HIDE DEF T
  <2> QED BY <1>1, <1>2, NatSetInduction
<1>4. Len(t) + 1 \in T
  <2>1. Len(t) + 1 \in Nat
    OBVIOUS
  <2> HIDE DEF T
  <2> QED BY <1>3, <2>1
<1>5. PICK f : /\ f = [s \in P |-> f[s]]
               /\ \A s \in P : Len(s) < Len(t) + 1 => f[s] = Says(f, s)
  BY <1>4
<1>6. \A s \in P : f[s] = Says(f, s)
  BY <1>0, <1>5
<1>7. f = [s \in P |-> Says(f, s)]
  BY <1>5, <1>6
<1> QED
  BY <1>7 DEF Reading

(* So there is one for what an operand means.                              *)
LEMMA MeaningRead ==
  ASSUME NEW t \in Seq(Tok)
  PROVE  \E f : Reading(t, f) /\ E!Meaning(t) = f[t]
<1>1. Reading(t, CHOOSE f : Reading(t, f))
  BY ReadingExists
<1> QED
  BY <1>1, MeaningIs

-----------------------------------------------------------------------------
\* Parentheses and cuts, by places in the operand.

(* How many numbers up to m are in a set.                                  *)
CountTo(S, m) == Cardinality({q \in 1 .. m : q \in S})

LEMMA Counting ==
  ASSUME NEW S, NEW m \in Nat
  PROVE  /\ CountTo(S, m) \in Nat /\ CountTo(S, 0) = 0
         /\ CountTo(S, m + 1) = CountTo(S, m) + (IF m + 1 \in S THEN 1 ELSE 0)
<1> DEFINE C(k) == {q \in 1 .. k : q \in S}
<1>1. \A k \in Nat : IsFiniteSet(C(k))
  <2> SUFFICES ASSUME NEW k \in Nat PROVE IsFiniteSet(C(k))
    OBVIOUS
  <2>1. IsFiniteSet(1 .. k)
    BY FS_Interval
  <2>2. C(k) \in SUBSET (1 .. k)
    OBVIOUS
  <2> QED BY <2>1, <2>2, FS_Subset
<1>2. Cardinality(C(m)) \in Nat
  BY <1>1, FS_CardinalityType
<1>3. C(0) = {}
  OBVIOUS
<1>4. CASE m + 1 \in S
  <2>1. C(m + 1) = C(m) \union {m + 1} /\ m + 1 \notin C(m)
    BY <1>4
  <2>2. Cardinality(C(m) \union {m + 1}) = Cardinality(C(m)) + 1
    BY <1>1, <2>1, FS_AddElement
  <2> QED BY <1>2, <1>3, <1>4, <2>1, <2>2, FS_EmptySet DEF CountTo
<1>5. CASE m + 1 \notin S
  <2>1. C(m + 1) = C(m)
    BY <1>5
  <2> QED BY <1>2, <1>3, <1>5, <2>1, FS_EmptySet DEF CountTo
<1> QED BY <1>4, <1>5

(* The cardinality the operands' module counts with is the usual one.      *)
LEMMA SameCardinality == ASSUME NEW S PROVE E!Cardinality(S) = Cardinality(S)
BY DEF E!Cardinality, Cardinality

(* How deep in parentheses it is behind each token.                        *)
Rises(x) == IF x.kind = "(" THEN 1 ELSE IF x.kind = ")" THEN -1 ELSE 0
Heights(t) ==
  {h \in [0 .. Len(t) -> Int] :
     h[0] = 0 /\ \A k \in 1 .. Len(t) : h[k] = h[k - 1] + Rises(t[k])}

LEMMA HeightsExist == ASSUME NEW t \in Seq(Tok) PROVE Heights(t) # {}
<1> DEFINE step == [k \in 1 .. Len(t) |-> [x \in Int |-> x + Rises(t[k])]]
<1>1. step \in Steps(Int, Len(t))
  BY DEF Steps, Rises
<1>2. Len(t) \in Nat /\ 0 \in Int
  OBVIOUS
<1>3. PICK h : h \in Recursive(Int, 0, Len(t), step)
  <2> HIDE DEF step
  <2> QED BY <1>1, <1>2, RecursionExists
<1>4. h \in [0 .. Len(t) -> Int] /\ h[0] = 0
  BY <1>3 DEF Recursive
<1>5. ASSUME NEW k \in 1 .. Len(t) PROVE h[k] = h[k - 1] + Rises(t[k])
  <2>1. h[k] = step[k][h[k - 1]]
    BY <1>3 DEF Recursive
  <2>2. h[k - 1] \in Int
    BY <1>4
  <2> QED BY <2>1, <2>2
<1> QED
  BY <1>4, <1>5 DEF Heights

LEMMA DepthIs ==
  ASSUME NEW t \in Seq(Tok), NEW h \in Heights(t),
         NEW i \in 1 .. Len(t), NEW j \in i .. Len(t), NEW c \in 1 .. j - i + 1
  PROVE  E!Depth(SubSeq(t, i, j), c)
           = h[i + c - 1] - h[i - 1] + (IF t[i + c - 1].kind = ")" THEN 1 ELSE 0)
<1> DEFINE s == SubSeq(t, i, j)
           Opening == {q \in 1 .. Len(s) : s[q].kind = "("}
           Closing == {q \in 1 .. Len(s) : s[q].kind = ")"}
           T == {m \in Nat : m <= j - i + 1 =>
                   CountTo(Opening, m) - CountTo(Closing, m) = h[i + m - 1] - h[i - 1]}
<1>0. /\ i \in Int /\ j \in Int /\ c \in Int /\ Len(t) \in Nat
      /\ Len(s) = j - i + 1 /\ \A q \in 1 .. j - i + 1 : s[q] = t[i + q - 1]
  OBVIOUS
<1>1. /\ \A k \in 0 .. Len(t) : h[k] \in Int
      /\ \A k \in 1 .. Len(t) : h[k] = h[k - 1] + Rises(t[k])
  BY DEF Heights
<1> HIDE DEF s
<1>2. 0 \in T
  <2>1. CountTo(Opening, 0) = 0 /\ CountTo(Closing, 0) = 0
    BY Counting
  <2>2. i + 0 - 1 = i - 1 /\ h[i - 1] \in Int
    BY <1>0, <1>1
  <2> QED BY <2>1, <2>2
<1>3. ASSUME NEW m \in Nat, m \in T PROVE m + 1 \in T
  <2>0. SUFFICES ASSUME m + 1 <= j - i + 1
                 PROVE  CountTo(Opening, m + 1) - CountTo(Closing, m + 1) = h[i + (m + 1) - 1] - h[i - 1]
    <3> HIDE DEF Opening, Closing
    <3> QED OBVIOUS
  <2> DEFINE a == CountTo(Opening, m)
             b == CountTo(Closing, m)
             x == s[m + 1]
  <2>1. a \in Nat /\ b \in Nat
    BY Counting
  <2>2. /\ CountTo(Opening, m + 1) = a + (IF m + 1 \in Opening THEN 1 ELSE 0)
        /\ CountTo(Closing, m + 1) = b + (IF m + 1 \in Closing THEN 1 ELSE 0)
    BY Counting
  <2>3. a - b = h[i + m - 1] - h[i - 1]
    <3>1. m <= j - i + 1
      BY <1>0, <2>0
    <3> HIDE DEF Opening, Closing
    <3> QED BY <1>3, <3>1
  <2>4. i + m \in 1 .. Len(t) /\ (i + m) - 1 = i + m - 1 /\ i + (m + 1) - 1 = i + m /\ i - 1 \in 0 .. Len(t)
    BY <1>0, <2>0
  <2>5. x = t[i + m]
    BY <1>0, <2>0, <2>4
  <2>6. h[i + m] = h[i + m - 1] + Rises(x) /\ h[i + m - 1] \in Int /\ h[i - 1] \in Int /\ h[i + m] \in Int
    BY <1>1, <2>4, <2>5
  <2>7. (m + 1 \in Opening <=> x.kind = "(") /\ (m + 1 \in Closing <=> x.kind = ")")
    BY <1>0, <2>0
  <2> HIDE DEF a, b, x, Opening, Closing
  <2>8. CountTo(Opening, m + 1) - CountTo(Closing, m + 1) = h[i + m] - h[i - 1]
    <3>1. CASE x.kind = "("
      BY <2>1, <2>2, <2>3, <2>6, <2>7, <3>1, SMTT(30) DEF Rises
    <3>2. CASE x.kind = ")"
      <4>1. Rises(x) = -1
        BY <3>2 DEF Rises
      <4>2. m + 1 \notin Opening /\ m + 1 \in Closing
        BY <2>7, <3>2
      <4>3. CountTo(Opening, m + 1) = a /\ CountTo(Closing, m + 1) = b + 1
        BY <2>1, <2>2, <4>2
      <4>4. h[i + m] = h[i + m - 1] - 1
        BY <2>6, <4>1
      <4> QED BY <2>1, <2>3, <2>6, <4>3, <4>4, SMTT(30)
    <3>3. CASE x.kind \notin {"(", ")"}
      BY <2>1, <2>2, <2>3, <2>6, <2>7, <3>3 DEF Rises
    <3> QED BY <3>1, <3>2, <3>3
  <2> QED BY <2>4, <2>8
<1>4. Nat \subseteq T
  <2>1. \A m \in Nat : m \in T => m + 1 \in T
    BY <1>3
  <2> HIDE DEF T
  <2> QED BY <1>2, <2>1, NatSetInduction
<1>5. c \in T /\ c \in Nat /\ c - 1 \in Nat
  <2>1. c \in Nat /\ c - 1 \in Nat
    BY <1>0
  <2> HIDE DEF T
  <2> QED BY <1>4, <2>1
<1>6. CountTo(Opening, c) - CountTo(Closing, c) = h[i + c - 1] - h[i - 1]
  <2>1. c <= j - i + 1
    BY <1>0
  <2> HIDE DEF Opening, Closing
  <2> QED BY <1>5, <2>1
<1>7. CountTo(Closing, c) = CountTo(Closing, c - 1) + (IF c \in Closing THEN 1 ELSE 0)
  <2>1. (c - 1) + 1 = c
    BY <1>0
  <2>2. CountTo(Closing, (c - 1) + 1) = CountTo(Closing, c - 1) + (IF (c - 1) + 1 \in Closing THEN 1 ELSE 0)
    <3> HIDE DEF Closing
    <3> QED BY <1>5, Counting
  <2> HIDE DEF Closing
  <2> QED BY <2>1, <2>2
<1>8. E!Depth(s, c) = CountTo(Opening, c) - CountTo(Closing, c - 1)
  <2>0. 1 .. c \subseteq 1 .. Len(s) /\ 1 .. c - 1 \subseteq 1 .. Len(s)
    BY <1>0
  <2>1. /\ {q \in 1 .. c : s[q].kind = "("} = {q \in 1 .. c : q \in Opening}
        /\ {q \in 1 .. c - 1 : s[q].kind = ")"} = {q \in 1 .. c - 1 : q \in Closing}
    BY <2>0
  <2>2. E!Depth(s, c) = Cardinality({q \in 1 .. c : s[q].kind = "("})
                          - Cardinality({q \in 1 .. c - 1 : s[q].kind = ")"})
    BY SameCardinality DEF E!Depth
  <2>3. /\ CountTo(Opening, c) = Cardinality({q \in 1 .. c : s[q].kind = "("})
        /\ CountTo(Closing, c - 1) = Cardinality({q \in 1 .. c - 1 : s[q].kind = ")"})
    <3> HIDE DEF Opening, Closing
    <3> QED BY <2>1, Zenon DEF CountTo
  <2> QED BY <2>2, <2>3, Zenon
<1>9. CountTo(Opening, c) \in Nat /\ CountTo(Closing, c - 1) \in Nat /\ CountTo(Closing, c) \in Nat
  BY <1>5, Counting
<1>10. c \in Closing <=> t[i + c - 1].kind = ")"
  BY <1>0
<1>11. h[i + c - 1] \in Int /\ h[i - 1] \in Int
  <2>1. i + c - 1 \in 0 .. Len(t) /\ i - 1 \in 0 .. Len(t)
    BY <1>0
  <2> QED BY <1>1, <2>1
<1>12. E!Depth(s, c) = h[i + c - 1] - h[i - 1] + (IF t[i + c - 1].kind = ")" THEN 1 ELSE 0)
  <2> HIDE DEF Opening, Closing
  <2> QED BY <1>6, <1>7, <1>8, <1>9, <1>10, <1>11, SMTT(30)
<1> QED
  BY <1>12 DEF s

(* Operators are in the level their precedence names.                      *)
LEMMA Precedences ==
  /\ \A o \in E!Dyadic : E!Prec[o] \in 0 .. 5 /\ o \notin {"(", ")", "~", "imm", "reg"}
  /\ E!Prec[")"] = 6 /\ E!Prec["("] = 7
  /\ \A o \in E!Dyadic, l \in 1 .. 6 : o \in E!Levels[l] <=> E!Prec[o] = l - 1
  /\ DOMAIN E!Levels = 1 .. 6
<1>1. \A o \in E!Dyadic \union {"(", ")"} : E!Prec[o] =
        CASE o = "|" -> 0 [] o = "^" -> 1 [] o = "&" -> 2 [] o \in {"<<", ">>"} -> 3
          [] o \in {"+", "-"} -> 4 [] o \in {"*", "/"} -> 5 [] o = ")" -> 6 [] OTHER -> 7
  BY DEF E!Prec
<1>2. /\ E!Prec["|"] = 0 /\ E!Prec["^"] = 1 /\ E!Prec["&"] = 2 /\ E!Prec["<<"] = 3
      /\ E!Prec[">>"] = 3 /\ E!Prec["+"] = 4 /\ E!Prec["-"] = 4 /\ E!Prec["*"] = 5
      /\ E!Prec["/"] = 5 /\ E!Prec[")"] = 6 /\ E!Prec["("] = 7
  BY <1>1 DEF E!Dyadic
<1>3. E!Levels = <<{"|"}, {"^"}, {"&"}, {"<<", ">>"}, {"+", "-"}, {"*", "/"}>>
  BY DEF E!Levels
<1>4. /\ E!Levels[1] = {"|"} /\ E!Levels[2] = {"^"} /\ E!Levels[3] = {"&"}
      /\ E!Levels[4] = {"<<", ">>"} /\ E!Levels[5] = {"+", "-"} /\ E!Levels[6] = {"*", "/"}
      /\ DOMAIN E!Levels = 1 .. 6
  BY <1>3
<1>5. ASSUME NEW o \in E!Dyadic, NEW l \in 1 .. 6 PROVE o \in E!Levels[l] <=> E!Prec[o] = l - 1
  <2>1. l \in {1, 2, 3, 4, 5, 6}
    OBVIOUS
  <2> QED BY <1>2, <1>4, <2>1 DEF E!Dyadic
<1>6. \A o \in E!Dyadic : E!Prec[o] \in 0 .. 5 /\ o \notin {"(", ")", "~", "imm", "reg"}
  BY <1>2 DEF E!Dyadic
<1> QED BY <1>2, <1>4, <1>5, <1>6

(* The operators a part may be cut at, and the one it is cut at.           *)
IsCut(t, h, i, j, c) ==
  /\ c \in i + 1 .. j /\ t[c].kind \in E!Dyadic
  /\ E!IsOperandEnd(t[c - 1]) /\ h[c] = h[i - 1]
IsLeastCut(t, h, i, j, c) ==
  /\ IsCut(t, h, i, j, c)
  /\ \A d \in i + 1 .. j : IsCut(t, h, i, j, d) =>
       /\ E!Prec[t[c].kind] <= E!Prec[t[d].kind]
       /\ E!Prec[t[c].kind] = E!Prec[t[d].kind] => d <= c

LEMMA CutsAre ==
  ASSUME NEW t \in Seq(Tok), NEW h \in Heights(t),
         NEW i \in 1 .. Len(t), NEW j \in i .. Len(t), NEW l \in 1 .. 6, NEW c \in i .. j
  PROVE  c - i + 1 \in E!Cuts(SubSeq(t, i, j), l)
           <=> IsCut(t, h, i, j, c) /\ E!Prec[t[c].kind] = l - 1
<1> DEFINE s == SubSeq(t, i, j)
           d == c - i + 1
<1>0. /\ i \in Int /\ j \in Int /\ c \in Int /\ Len(t) \in Nat /\ d \in Int
      /\ Len(s) = j - i + 1 /\ DOMAIN s = 1 .. j - i + 1
      /\ \A q \in 1 .. j - i + 1 : s[q] = t[i + q - 1]
  OBVIOUS
<1>1. d \in DOMAIN s /\ s[d] = t[c]
  <2>1. d \in 1 .. j - i + 1 /\ i + d - 1 = c
    BY <1>0
  <2> HIDE DEF s, d
  <2> QED BY <1>0, <2>1
<1>2. h[c] \in Int /\ h[i - 1] \in Int
  <2>1. h \in [0 .. Len(t) -> Int] /\ c \in 0 .. Len(t) /\ i - 1 \in 0 .. Len(t)
    BY <1>0 DEF Heights
  <2> QED BY <2>1
<1>3. d > 1 => s[d - 1] = t[c - 1]
  <2>1. d > 1 => d - 1 \in 1 .. j - i + 1 /\ i + (d - 1) - 1 = c - 1
    BY <1>0
  <2> HIDE DEF s, d
  <2> QED BY <1>0, <2>1
<1>4. t[c].kind \in E!Dyadic => (E!Depth(s, d) = 0 <=> h[c] = h[i - 1])
  <2>1. d \in 1 .. j - i + 1 /\ i + d - 1 = c
    BY <1>0
  <2>2. E!Depth(s, d) = h[c] - h[i - 1] + (IF t[c].kind = ")" THEN 1 ELSE 0)
    <3> HIDE DEF d
    <3> QED BY <2>1, DepthIs
  <2>3. t[c].kind \in E!Dyadic => t[c].kind # ")"
    BY Precedences
  <2> HIDE DEF s, d
  <2> QED BY <1>2, <2>2, <2>3
<1>5. E!IsDyadic(s, d) <=> IsCut(t, h, i, j, c)
  <2>1. E!IsDyadic(s, d) <=> /\ d > 1 /\ s[d].kind \in E!Dyadic
                             /\ E!IsOperandEnd(s[d - 1]) /\ E!Depth(s, d) = 0
    BY DEF E!IsDyadic
  <2>2. d > 1 <=> c \in i + 1 .. j
    BY <1>0
  <2> HIDE DEF s, d
  <2> QED BY <1>1, <1>3, <1>4, <2>1, <2>2 DEF IsCut
<1>6. d \in E!Cuts(s, l) <=> IsCut(t, h, i, j, c) /\ t[c].kind \in E!Levels[l]
  <2> HIDE DEF s, d
  <2> QED BY <1>1, <1>5 DEF E!Cuts
<1>7. IsCut(t, h, i, j, c) => (t[c].kind \in E!Levels[l] <=> E!Prec[t[c].kind] = l - 1)
  BY Precedences DEF IsCut
<1> QED BY <1>6, <1>7

LEMMA PartIn ==
  ASSUME NEW t \in Seq(Tok), NEW i \in 1 .. Len(t), NEW j \in i .. Len(t),
         NEW a \in 1 .. (j - i + 1) + 1, NEW b \in 0 .. j - i + 1
  PROVE  SubSeq(SubSeq(t, i, j), a, b) = SubSeq(t, i + a - 1, i + b - 1)
<1>1. i \in Int /\ j \in Int /\ a \in Int /\ b \in Int
  OBVIOUS
<1>2. CASE b < a
  BY <1>1, <1>2, SubSeqEmpty
<1>3. CASE a <= b
  <2>1. a \in 1 .. j - i + 1 /\ b \in 1 .. j - i + 1 /\ i \in 1 .. Len(t) /\ j \in 1 .. Len(t)
    BY <1>1, <1>3
  <2> QED BY <2>1, SubSeqOfSubSeq
<1> QED BY <1>1, <1>2, <1>3

(* The rules by which a part has a meaning, by places in the operand.      *)
Number(x) == [regs |-> E!Unit(E!NoReg, 0), imm |-> x]
Leaf(t, f, i, j) ==
  LET m == f[SubSeq(t, i, j)]
  IN \/ i = j /\ t[i].kind = "imm" /\ m = Number(t[i].val)
     \/ i = j /\ t[i].kind = "reg" /\ m = [regs |-> E!Unit(t[i].val, 1), imm |-> 0]
     \/ j = i + 1 /\ t[i].kind = "-" /\ t[j].kind = "imm" /\ m = Number(-t[j].val)
     \/ j = i + 1 /\ t[i].kind = "~" /\ t[j].kind = "imm" /\ m = Number(-t[j].val - 1)
     \/ /\ j > i + 1 /\ t[i].kind = "(" /\ t[j].kind = ")"
        /\ m = f[SubSeq(t, i + 1, j - 1)]
CutAt(t, h, f, i, j, c) ==
  /\ IsLeastCut(t, h, i, j, c)
  /\ f[SubSeq(t, i, c - 1)] # E!Nonsense /\ f[SubSeq(t, c + 1, j)] # E!Nonsense
  /\ f[SubSeq(t, i, j)] =
       E!Combined(t[c].kind, f[SubSeq(t, i, c - 1)], f[SubSeq(t, c + 1, j)])

LEMMA Rules ==
  ASSUME NEW t \in Seq(Tok), NEW h \in Heights(t), NEW f, Reading(t, f),
         NEW i \in 1 .. Len(t) + 1, NEW j \in 0 .. Len(t),
         f[SubSeq(t, i, j)] # E!Nonsense
  PROVE  /\ i <= j
         /\ \/ \E c \in i + 1 .. j : CutAt(t, h, f, i, j, c)
            \/ (\A c \in i + 1 .. j : ~ IsCut(t, h, i, j, c)) /\ Leaf(t, f, i, j)
<1> DEFINE s == SubSeq(t, i, j)
           levels == {l \in DOMAIN E!Levels : E!Cuts(s, l) # {}}
<1>0. /\ i \in Int /\ j \in Int /\ Len(t) \in Nat /\ s \in E!Parts(t)
      /\ s \in Seq(Tok) /\ Len(s) \in Nat
  <2>1. s \in E!Parts(t)
    BY DEF E!Parts
  <2>2. s \in Seq(Tok) /\ Len(s) \in Nat
    <3> HIDE DEF s
    <3> QED BY <2>1, PartOfPart, 1 \in 1 .. Len(s) + 1, 0 \in 0 .. Len(s)
  <2> QED BY <2>1, <2>2
<1>1. f[s] = Says(f, s)
  <2> HIDE DEF s
  <2> QED BY <1>0 DEF Reading
<1>2. i <= j
  <2> SUFFICES ASSUME j < i PROVE FALSE
    BY <1>0
  <2>1. s = <<>>
    BY <1>0, SubSeqEmpty
  <2>2. Len(s) = 0 /\ DOMAIN s = {}
    BY <2>1
  <2>3. levels = {}
    <3> HIDE DEF s
    <3> QED BY <2>2 DEF E!Cuts
  <2>4. Says(f, s) = E!Nonsense
    <3> HIDE DEF s
    <3> QED BY <2>2, <2>3 DEF Says
  <2> QED BY <1>1, <2>4
<1>3. i \in 1 .. Len(t) /\ j \in i .. Len(t)
  BY <1>0, <1>2
<1>4. /\ Len(s) = j - i + 1 /\ DOMAIN s = 1 .. j - i + 1
      /\ \A q \in 1 .. j - i + 1 : s[q] = t[i + q - 1]
  BY <1>3
<1>5. \A l \in 1 .. 6, c \in i .. j :
        c - i + 1 \in E!Cuts(s, l) <=> IsCut(t, h, i, j, c) /\ E!Prec[t[c].kind] = l - 1
  <2> SUFFICES ASSUME NEW l \in 1 .. 6, NEW c \in i .. j
               PROVE  c - i + 1 \in E!Cuts(SubSeq(t, i, j), l)
                        <=> IsCut(t, h, i, j, c) /\ E!Prec[t[c].kind] = l - 1
    OBVIOUS
  <2> QED BY <1>3, CutsAre, SMTT(30)
<1>6. \A l \in 1 .. 6 : \A d \in E!Cuts(s, l) : d \in 1 .. j - i + 1
  <2> HIDE DEF s
  <2> QED BY <1>4 DEF E!Cuts
<1>7. \A c \in i + 1 .. j : IsCut(t, h, i, j, c) =>
        /\ E!Prec[t[c].kind] \in 0 .. 5
        /\ c - i + 1 \in E!Cuts(s, E!Prec[t[c].kind] + 1)
        /\ E!Prec[t[c].kind] + 1 \in 1 .. 6
  <2> SUFFICES ASSUME NEW c \in i + 1 .. j, IsCut(t, h, i, j, c)
               PROVE  /\ E!Prec[t[c].kind] \in 0 .. 5
                      /\ c - i + 1 \in E!Cuts(s, E!Prec[t[c].kind] + 1)
                      /\ E!Prec[t[c].kind] + 1 \in 1 .. 6
    OBVIOUS
  <2>1. E!Prec[t[c].kind] \in 0 .. 5
    BY Precedences DEF IsCut
  <2>2. E!Prec[t[c].kind] + 1 \in 1 .. 6 /\ E!Prec[t[c].kind] = (E!Prec[t[c].kind] + 1) - 1
    BY <2>1
  <2>3. c \in i .. j
    BY <1>0
  <2> HIDE DEF s
  <2> QED BY <1>5, <2>1, <2>2, <2>3
<1>8. CASE levels # {}
  <2>1. PICK l \in 1 .. 6 : E!Cuts(s, l) # {}
    BY <1>8, Precedences
  <2> DEFINE m == LeastLevel(s)
             d == CutOf(s)
             c == i + d - 1
  <2>2. /\ m \in 1 .. 6 /\ d \in E!Cuts(s, m)
        /\ \A k \in 1 .. 6 : E!Cuts(s, k) # {} => m <= k
        /\ \A k \in E!Cuts(s, m) : k <= d
    <3> HIDE DEF s
    <3> QED BY <1>0, <2>1, CutIsThere, Precedences
  <2>3. d \in 1 .. j - i + 1
    <3> HIDE DEF s, m, d
    <3> QED BY <1>6, <2>2
  <2>4. c \in i .. j /\ c - i + 1 = d
    <3> HIDE DEF d
    <3> QED BY <1>0, <2>3
  <2>5. IsCut(t, h, i, j, c) /\ E!Prec[t[c].kind] = m - 1
    <3> HIDE DEF s, m, d, c
    <3> QED BY <1>5, <2>2, <2>4
  <2>6. c \in i + 1 .. j
    BY <2>5 DEF IsCut
  <2>7. IsLeastCut(t, h, i, j, c)
    <3> SUFFICES ASSUME NEW k \in i + 1 .. j, IsCut(t, h, i, j, k)
                 PROVE  /\ E!Prec[t[c].kind] <= E!Prec[t[k].kind]
                        /\ E!Prec[t[c].kind] = E!Prec[t[k].kind] => k <= c
      BY <2>5 DEF IsLeastCut
    <3> DEFINE p == E!Prec[t[k].kind]
    <3>1. p \in 0 .. 5 /\ k - i + 1 \in E!Cuts(s, p + 1) /\ p + 1 \in 1 .. 6
      BY <1>7
    <3>2. m <= p + 1
      <4> HIDE DEF s, m, p
      <4> QED BY <2>2, <3>1
    <3>3. m = p + 1 => k - i + 1 <= d
      <4> HIDE DEF s, m, p, d
      <4> QED BY <2>2, <3>1
    <3>4. m \in Int /\ p \in Int /\ d \in Int /\ k \in Int
      <4> HIDE DEF m, p, d
      <4> QED BY <1>0, <2>2, <2>3, <3>1
    <3> HIDE DEF m, d, p, s
    <3>5. E!Prec[t[c].kind] = m - 1
      BY <2>5
    <3>6. E!Prec[t[k].kind] = p
      BY DEF p
    <3> HIDE DEF c
    <3>7. k <= c \/ ~ (k - i + 1 <= d)
      BY <1>0, <2>4, <3>4
    <3> QED BY <3>2, <3>3, <3>4, <3>5, <3>6, <3>7
  <2>8. SubSeq(s, 1, d - 1) = SubSeq(t, i, c - 1) /\ SubSeq(s, d + 1, Len(s)) = SubSeq(t, c + 1, j)
    <3> HIDE DEF d
    <3>1. /\ 1 \in 1 .. (j - i + 1) + 1 /\ d - 1 \in 0 .. j - i + 1
          /\ d + 1 \in 1 .. (j - i + 1) + 1 /\ j - i + 1 \in 0 .. j - i + 1
      BY <1>0, <1>3, <2>3
    <3>2. /\ SubSeq(SubSeq(t, i, j), 1, d - 1) = SubSeq(t, i + 1 - 1, i + (d - 1) - 1)
          /\ SubSeq(SubSeq(t, i, j), d + 1, j - i + 1) = SubSeq(t, i + (d + 1) - 1, i + (j - i + 1) - 1)
      BY <1>3, <3>1, PartIn
    <3>3. /\ i + 1 - 1 = i /\ i + (d - 1) - 1 = c - 1
          /\ i + (d + 1) - 1 = c + 1 /\ i + (j - i + 1) - 1 = j
      BY <1>0, <2>3
    <3> QED BY <1>4, <3>2, <3>3
  <2>9. s[d] = t[c]
    <3> HIDE DEF s, d
    <3> QED BY <1>4, <2>3
  <2> DEFINE a == f[SubSeq(t, i, c - 1)]
             b == f[SubSeq(t, c + 1, j)]
  <2>10. Says(f, s) = IF E!Nonsense \in {a, b} THEN E!Nonsense ELSE E!Combined(t[c].kind, a, b)
    <3>1. /\ f[SubSeq(s, 1, CutOf(s) - 1)] = a /\ f[SubSeq(s, CutOf(s) + 1, Len(s))] = b
          /\ s[CutOf(s)].kind = t[c].kind
      <4> HIDE DEF c, s
      <4> QED BY <2>8, <2>9
    <3> HIDE DEF c, a, b, s
    <3> QED BY <1>8, <3>1 DEF Says, CutOf, LeastLevel
  <2>11. E!Nonsense \notin {a, b} /\ f[s] = E!Combined(t[c].kind, a, b)
    <3> HIDE DEF a, b
    <3> QED BY <1>1, <2>10
  <2> QED
    BY <1>2, <2>6, <2>7, <2>11, Zenon DEF CutAt
<1>9. CASE levels = {}
  <2>1. \A c \in i + 1 .. j : ~ IsCut(t, h, i, j, c)
    <3> SUFFICES ASSUME NEW c \in i + 1 .. j, IsCut(t, h, i, j, c) PROVE FALSE
      OBVIOUS
    <3>1. E!Prec[t[c].kind] + 1 \in DOMAIN E!Levels /\ E!Cuts(s, E!Prec[t[c].kind] + 1) # {}
      BY <1>7, Precedences
    <3> QED BY <1>9, <3>1
  <2> DEFINE len == Len(s)
  <2>2. Says(f, s) =
          CASE len = 1 /\ s[1].kind = "imm" -> [regs |-> E!Unit(E!NoReg, 0), imm |-> s[1].val]
            [] len = 1 /\ s[1].kind = "reg" -> [regs |-> E!Unit(s[1].val, 1), imm |-> 0]
            [] len = 2 /\ s[1].kind = "-" /\ s[2].kind = "imm" ->
                 [regs |-> E!Unit(E!NoReg, 0), imm |-> -s[2].val]
            [] len = 2 /\ s[1].kind = "~" /\ s[2].kind = "imm" ->
                 [regs |-> E!Unit(E!NoReg, 0), imm |-> -s[2].val - 1]
            [] len > 2 /\ s[1].kind = "(" /\ s[len].kind = ")" -> f[Tail(E!Front(s))]
            [] OTHER -> E!Nonsense
    <3> HIDE DEF s
    <3> QED BY <1>9, Zenon DEF Says
  <2>3. \/ len = 1 /\ s[1].kind = "imm" /\ f[s] = Number(s[1].val)
        \/ len = 1 /\ s[1].kind = "reg" /\ f[s] = [regs |-> E!Unit(s[1].val, 1), imm |-> 0]
        \/ len = 2 /\ s[1].kind = "-" /\ s[2].kind = "imm" /\ f[s] = Number(-s[2].val)
        \/ len = 2 /\ s[1].kind = "~" /\ s[2].kind = "imm" /\ f[s] = Number(-s[2].val - 1)
        \/ len > 2 /\ s[1].kind = "(" /\ s[len].kind = ")" /\ f[s] = f[Tail(E!Front(s))]
    <3>0. f[s] # E!Nonsense /\ f[s] = Says(f, s)
      BY <1>1
    <3> HIDE DEF s
    <3> QED BY <3>0, <2>2, Zenon DEF Number
  <2>4. len = j - i + 1 /\ s[1] = t[i] /\ s[len] = t[j] /\ (len = 2 => s[2] = t[j])
    <3>1. 1 \in 1 .. j - i + 1 /\ j - i + 1 \in 1 .. j - i + 1 /\ i + 1 - 1 = i /\ i + (j - i + 1) - 1 = j
      BY <1>0, <1>3
    <3> HIDE DEF s
    <3> QED BY <1>4, <3>1
  <2>5. len > 2 => Tail(E!Front(s)) = SubSeq(t, i + 1, j - 1)
    <3> SUFFICES ASSUME len > 2 PROVE Tail(E!Front(s)) = SubSeq(t, i + 1, j - 1)
      OBVIOUS
    <3>1. 1 \in 1 .. len /\ len - 1 \in 1 .. len /\ 2 \in 1 .. (j - i + 1) + 1 /\ len - 1 \in 0 .. j - i + 1
      BY <1>0, <1>4
    <3>2. E!Front(s) = SubSeq(s, 1, len - 1)
      <4>1. s # <<>>
        BY <1>4, <1>0, <2>4
      <4> QED BY <4>1 DEF E!Front
    <3>3. Tail(SubSeq(s, 1, len - 1)) = SubSeq(s, 2, len - 1)
      <4> HIDE DEF s
      <4> QED BY <1>0, <3>1, HeadTailOfSubSeq
    <3>4. SubSeq(s, 2, len - 1) = SubSeq(t, i + 2 - 1, i + (len - 1) - 1)
      <4>1. SubSeq(SubSeq(t, i, j), 2, len - 1) = SubSeq(t, i + 2 - 1, i + (len - 1) - 1)
        <5> HIDE DEF s
        <5> QED BY <1>3, <3>1, PartIn
      <4> QED BY <4>1
    <3>5. i + 2 - 1 = i + 1 /\ i + (len - 1) - 1 = j - 1
      <4> HIDE DEF s
      <4> QED BY <1>0, <2>4
    <3> QED BY <3>2, <3>3, <3>4, <3>5
  <2>6. (len = 1 <=> i = j) /\ (len = 2 <=> j = i + 1) /\ (len > 2 <=> j > i + 1)
    <3> HIDE DEF s
    <3> QED BY <1>0, <2>4
  <2>7. Leaf(t, f, i, j)
    <3>1. CASE len = 1
      BY <2>3, <2>4, <2>6, <3>1 DEF Leaf
    <3>2. CASE len = 2
      BY <2>3, <2>4, <2>6, <3>2 DEF Leaf
    <3>3. CASE len > 2
      BY <2>3, <2>4, <2>5, <2>6, <3>3 DEF Leaf
    <3> QED BY <2>3, <3>1, <3>2, <3>3
  <2> QED BY <1>2, <2>1, <2>7
<1> QED BY <1>8, <1>9

-----------------------------------------------------------------------------
\* What stands where in an operand that means something.

Opens(x) == x.kind \in {"imm", "reg", "(", "-", "~"}
(* What token k of a part that begins at i lets follow.                    *)
IsSign(t, i, k) ==
  \/ t[k].kind = "~"
  \/ t[k].kind = "-" /\ (k = i \/ ~ E!IsOperandEnd(t[k - 1]))
Follows(t, i, k) ==
  /\ E!IsOperandEnd(t[k]) => t[k + 1].kind \in E!Dyadic \union {")"}
  /\ ~ E!IsOperandEnd(t[k]) => Opens(t[k + 1])
  /\ IsSign(t, i, k) => t[k + 1].kind = "imm"
WellFormed(t, h, i, j) ==
  /\ i <= j /\ Opens(t[i]) /\ E!IsOperandEnd(t[j]) /\ h[j] = h[i - 1]
  /\ \A k \in i .. j : h[k] >= h[i - 1]
  /\ \A k \in i .. j - 1 : Follows(t, i, k)

LEMMA HeightStep ==
  ASSUME NEW t \in Seq(Tok), NEW h \in Heights(t), NEW k \in 1 .. Len(t)
  PROVE  /\ h[k] \in Int /\ h[k - 1] \in Int
         /\ t[k].kind = "(" => h[k] = h[k - 1] + 1
         /\ t[k].kind = ")" => h[k] = h[k - 1] - 1
         /\ t[k].kind \notin {"(", ")"} => h[k] = h[k - 1]
<1>1. h \in [0 .. Len(t) -> Int] /\ h[k] = h[k - 1] + Rises(t[k])
  BY DEF Heights
<1>2. h[k] \in Int /\ h[k - 1] \in Int
  BY <1>1
<1>3. CASE t[k].kind = "("
  <2>1. Rises(t[k]) = 1
    BY <1>3 DEF Rises
  <2> QED BY <1>1, <1>2, <1>3, <2>1
<1>4. CASE t[k].kind = ")"
  <2>1. Rises(t[k]) = -1
    BY <1>4 DEF Rises
  <2> QED BY <1>1, <1>2, <1>4, <2>1
<1>5. CASE t[k].kind \notin {"(", ")"}
  <2>1. Rises(t[k]) = 0
    BY <1>5 DEF Rises
  <2> QED BY <1>1, <1>2, <1>5, <2>1
<1> QED BY <1>3, <1>4, <1>5

LEMMA FollowsFrom ==
  ASSUME NEW t, NEW i \in Int, NEW d \in Int, NEW k \in Int, i <= d, d <= k, Follows(t, d, k)
  PROVE  Follows(t, i, k)
<1>1. IsSign(t, i, k) => IsSign(t, d, k)
  BY DEF IsSign
<1> QED BY <1>1 DEF Follows

LEMMA PartsWellFormed ==
  ASSUME NEW t \in Seq(Tok), NEW h \in Heights(t), NEW f, Reading(t, f)
  PROVE  \A i \in 1 .. Len(t) + 1, j \in 0 .. Len(t) :
           f[SubSeq(t, i, j)] # E!Nonsense => WellFormed(t, h, i, j)
<1> DEFINE P == (1 .. Len(t) + 1) \X (0 .. Len(t))
           G == {p \in P : f[SubSeq(t, p[1], p[2])] # E!Nonsense => WellFormed(t, h, p[1], p[2])}
<1>0. Len(t) \in Nat
  OBVIOUS
<1>1. ASSUME NEW p \in P, \A q \in P : q[2] - q[1] < p[2] - p[1] => q \in G,
             f[SubSeq(t, p[1], p[2])] # E!Nonsense
      PROVE  WellFormed(t, h, p[1], p[2])
  <2> DEFINE i == p[1]
             j == p[2]
  <2>1. i \in 1 .. Len(t) + 1 /\ j \in 0 .. Len(t)
    OBVIOUS
  <2>2. /\ i <= j
        /\ \/ \E c \in i + 1 .. j : CutAt(t, h, f, i, j, c)
           \/ Leaf(t, f, i, j)
    BY <1>1, <2>1, Rules
  <2>3. \A a \in 1 .. Len(t) + 1, b \in 0 .. Len(t) :
          b - a < j - i /\ f[SubSeq(t, a, b)] # E!Nonsense => WellFormed(t, h, a, b)
    <3> SUFFICES ASSUME NEW a \in 1 .. Len(t) + 1, NEW b \in 0 .. Len(t),
                        b - a < j - i, f[SubSeq(t, a, b)] # E!Nonsense
                 PROVE  WellFormed(t, h, a, b)
      OBVIOUS
    <3>1. <<a, b>> \in P /\ <<a, b>>[1] = a /\ <<a, b>>[2] = b
      OBVIOUS
    <3>2. <<a, b>> \in G
      <4> HIDE DEF P, G
      <4> QED BY <1>1, <3>1
    <3> QED BY <3>2
  <2> SUFFICES WellFormed(t, h, i, j)
    OBVIOUS
  <2> HIDE DEF i, j, P, G
  <2>4. i \in Int /\ j \in Int /\ i \in 1 .. Len(t) /\ j \in 1 .. Len(t)
    BY <1>0, <2>1, <2>2
  <2>5. ASSUME NEW c \in i + 1 .. j, CutAt(t, h, f, i, j, c) PROVE WellFormed(t, h, i, j)
    <3>1. c \in Int /\ c \in 1 .. Len(t) /\ i < c /\ c <= j
      BY <2>1, <2>4
    <3>2. IsCut(t, h, i, j, c)
      BY <2>5 DEF CutAt, IsLeastCut
    <3>3. WellFormed(t, h, i, c - 1)
      <4>1. c - 1 \in 0 .. Len(t) /\ (c - 1) - i < j - i
        BY <2>4, <3>1
      <4>2. f[SubSeq(t, i, c - 1)] # E!Nonsense
        BY <2>5 DEF CutAt
      <4> QED BY <2>1, <2>3, <4>1, <4>2
    <3>4. WellFormed(t, h, c + 1, j)
      <4>1. c + 1 \in 1 .. Len(t) + 1 /\ j - (c + 1) < j - i
        BY <2>4, <3>1
      <4>2. f[SubSeq(t, c + 1, j)] # E!Nonsense
        BY <2>5 DEF CutAt
      <4> QED BY <2>1, <2>3, <4>1, <4>2
    <3>5. t[c].kind \in E!Dyadic /\ t[c].kind \notin {"(", ")", "~", "imm", "reg"}
      BY <3>2, Precedences DEF IsCut
    <3>6. h[c] = h[i - 1] /\ h[c - 1] = h[i - 1] /\ h[j] = h[i - 1] /\ h[i - 1] \in Int
      <4>1. h[j] = h[(c + 1) - 1] /\ (c + 1) - 1 = c
        BY <3>1, <3>4 DEF WellFormed
      <4> QED BY <2>4, <3>2, <3>3, <4>1, HeightStep DEF IsCut, WellFormed
    <3>7. ASSUME NEW k \in i .. j PROVE h[k] >= h[i - 1]
      <4>1. CASE k \in i .. c - 1
        BY <3>3, <4>1 DEF WellFormed
      <4>2. CASE k = c
        BY <3>6, <4>2
      <4>3. CASE k \in c + 1 .. j
        <5>1. h[k] >= h[(c + 1) - 1] /\ (c + 1) - 1 = c
          BY <3>1, <3>4, <4>3 DEF WellFormed
        <5> QED BY <3>6, <5>1
      <4> QED BY <2>4, <3>1, <4>1, <4>2, <4>3
    <3>8. ASSUME NEW k \in i .. j - 1 PROVE Follows(t, i, k)
      <4>1. CASE k \in i .. (c - 1) - 1
        BY <3>3, <4>1 DEF WellFormed
      <4>2. CASE k = c - 1
        <5>1. E!IsOperandEnd(t[k]) /\ t[k + 1] = t[c]
          BY <3>1, <3>2, <4>2 DEF IsCut
        <5>2. ~ IsSign(t, i, k)
          BY <5>1 DEF IsSign, E!IsOperandEnd
        <5> QED BY <3>5, <5>1, <5>2 DEF Follows
      <4>3. CASE k = c
        <5>1. ~ E!IsOperandEnd(t[k]) /\ E!IsOperandEnd(t[k - 1]) /\ k # i
          BY <2>4, <3>1, <3>2, <3>5, <4>3 DEF IsCut, E!IsOperandEnd
        <5>2. ~ IsSign(t, i, k)
          BY <3>5, <4>3, <5>1 DEF IsSign
        <5>3. Opens(t[k + 1])
          BY <3>4, <4>3 DEF WellFormed
        <5> QED BY <5>1, <5>2, <5>3 DEF Follows
      <4>4. CASE k \in c + 1 .. j - 1
        <5>1. Follows(t, c + 1, k)
          BY <3>4, <4>4 DEF WellFormed
        <5>2. i <= c + 1 /\ c + 1 <= k /\ k \in Int /\ c + 1 \in Int
          BY <2>4, <3>1, <4>4
        <5> QED BY <2>4, <5>1, <5>2, FollowsFrom
      <4> QED BY <2>4, <3>1, <4>1, <4>2, <4>3, <4>4
    <3>9. Opens(t[i]) /\ E!IsOperandEnd(t[j])
      BY <3>3, <3>4 DEF WellFormed
    <3> QED BY <2>2, <3>6, <3>7, <3>8, <3>9 DEF WellFormed
  <2>6. CASE i = j /\ t[i].kind \in {"imm", "reg"}
    <3>1. h[i] = h[i - 1] /\ h[i] \in Int
      BY <2>4, <2>6, HeightStep
    <3>2. Opens(t[i]) /\ E!IsOperandEnd(t[j])
      BY <2>6 DEF Opens, E!IsOperandEnd
    <3>3. i .. j = {i} /\ i .. j - 1 = {}
      BY <2>4, <2>6
    <3>4. h[j] = h[i - 1] /\ \A k \in i .. j : h[k] >= h[i - 1]
      BY <2>6, <3>1, <3>3
    <3>5. \A k \in i .. j - 1 : Follows(t, i, k)
      BY <3>3
    <3> QED BY <2>2, <3>2, <3>4, <3>5 DEF WellFormed
  <2>7. CASE j = i + 1 /\ t[i].kind \in {"-", "~"} /\ t[j].kind = "imm"
    <3>1. h[i] = h[i - 1] /\ h[i] \in Int
      BY <2>4, <2>7, HeightStep
    <3>2. h[j] = h[i]
      <4>1. h[j] = h[j - 1] /\ j - 1 = i
        BY <2>4, <2>7, HeightStep
      <4> QED BY <4>1
    <3>3. Opens(t[i]) /\ E!IsOperandEnd(t[j]) /\ ~ E!IsOperandEnd(t[i]) /\ Opens(t[j])
      BY <2>7 DEF Opens, E!IsOperandEnd
    <3>4. i .. j = {i, j} /\ i .. j - 1 = {i}
      BY <2>4, <2>7
    <3>5. Follows(t, i, i)
      BY <2>7, <3>3 DEF Follows
    <3>6. h[j] = h[i - 1] /\ \A k \in i .. j : h[k] >= h[i - 1]
      BY <3>1, <3>2, <3>4
    <3>7. \A k \in i .. j - 1 : Follows(t, i, k)
      BY <3>4, <3>5
    <3> QED BY <2>2, <3>3, <3>6, <3>7 DEF WellFormed
  <2>8. CASE /\ j > i + 1 /\ t[i].kind = "(" /\ t[j].kind = ")"
             /\ f[SubSeq(t, i, j)] = f[SubSeq(t, i + 1, j - 1)]
    <3>1. WellFormed(t, h, i + 1, j - 1)
      <4>1. i + 1 \in 1 .. Len(t) + 1 /\ j - 1 \in 0 .. Len(t) /\ (j - 1) - (i + 1) < j - i
        BY <2>4
      <4>2. f[SubSeq(t, i, j)] # E!Nonsense
        BY <1>1 DEF i, j
      <4> QED BY <2>3, <2>8, <4>1, <4>2
    <3>2. h[i] = h[i - 1] + 1 /\ h[i] \in Int /\ h[i - 1] \in Int
      BY <2>4, <2>8, HeightStep
    <3>3. h[j] = h[j - 1] - 1 /\ h[j] \in Int /\ h[j - 1] \in Int
      BY <2>4, <2>8, HeightStep
    <3>4. h[j - 1] = h[i]
      <4>1. h[j - 1] = h[(i + 1) - 1] /\ (i + 1) - 1 = i
        BY <2>4, <3>1 DEF WellFormed
      <4> QED BY <4>1
    <3>5. ASSUME NEW k \in i .. j PROVE h[k] >= h[i - 1]
      <4>1. CASE k = i
        BY <3>2, <4>1
      <4>2. CASE k = j
        BY <3>2, <3>3, <3>4, <4>2
      <4>3. CASE k \in i + 1 .. j - 1
        <5>1. h[k] >= h[(i + 1) - 1] /\ (i + 1) - 1 = i
          BY <2>4, <3>1, <4>3 DEF WellFormed
        <5>2. h[k] \in Int
          <6>1. k \in 1 .. Len(t)
            BY <2>4, <4>3
          <6> QED BY <6>1, HeightStep
        <5> QED BY <3>2, <5>1, <5>2
      <4> QED BY <2>4, <4>1, <4>2, <4>3
    <3>6. Opens(t[i]) /\ ~ E!IsOperandEnd(t[i]) /\ E!IsOperandEnd(t[j])
      BY <2>8 DEF Opens, E!IsOperandEnd
    <3>7. ASSUME NEW k \in i .. j - 1 PROVE Follows(t, i, k)
      <4>1. CASE k = i
        <5>1. Opens(t[k + 1])
          BY <3>1, <4>1 DEF WellFormed
        <5>2. ~ IsSign(t, i, k)
          BY <2>8, <4>1 DEF IsSign
        <5> QED BY <3>6, <4>1, <5>1, <5>2 DEF Follows
      <4>2. CASE k = j - 1
        <5>1. E!IsOperandEnd(t[k]) /\ t[k + 1] = t[j]
          BY <2>4, <3>1, <4>2 DEF WellFormed
        <5>2. ~ IsSign(t, i, k)
          BY <5>1 DEF IsSign, E!IsOperandEnd
        <5> QED BY <2>8, <5>1, <5>2 DEF Follows
      <4>3. CASE k \in i + 1 .. (j - 1) - 1
        <5>1. Follows(t, i + 1, k)
          BY <3>1, <4>3 DEF WellFormed
        <5>2. i <= i + 1 /\ i + 1 <= k /\ k \in Int /\ i + 1 \in Int
          BY <2>4, <4>3
        <5> QED BY <2>4, <5>1, <5>2, FollowsFrom
      <4> QED BY <2>4, <4>1, <4>2, <4>3
    <3>8. h[j] = h[i - 1]
      BY <3>2, <3>3, <3>4
    <3>9. /\ \A k \in i .. j : h[k] >= h[i - 1]
          /\ \A k \in i .. j - 1 : Follows(t, i, k)
      BY <3>5, <3>7
    <3> QED BY <2>2, <3>6, <3>8, <3>9 DEF WellFormed
  <2>9. CASE Leaf(t, f, i, j)
    BY <2>6, <2>7, <2>8, <2>9 DEF Leaf
  <2> QED BY <2>2, <2>5, <2>9
<1>2. \A p \in P : (\A q \in P : q[2] - q[1] < p[2] - p[1] => q \in G) => p \in G
  BY <1>1
<1>3. P \subseteq G
  <2> HIDE DEF G
  <2> QED BY <1>0, <1>2, PairInduction
<1> QED
  <2> SUFFICES ASSUME NEW i \in 1 .. Len(t) + 1, NEW j \in 0 .. Len(t),
                      f[SubSeq(t, i, j)] # E!Nonsense
               PROVE  WellFormed(t, h, i, j)
    OBVIOUS
  <2>1. <<i, j>> \in P /\ <<i, j>>[1] = i /\ <<i, j>>[2] = j
    OBVIOUS
  <2>2. <<i, j>> \in G
    <3> HIDE DEF P, G
    <3> QED BY <1>3, <2>1
  <2> QED BY <2>2

-----------------------------------------------------------------------------
\* The calculator.

Opers == E!Dyadic \union {"(", ")"}
ICTok == [kind : E!Dyadic \union {"imm", "reg"}, val : Int]
OutOf(o) == IF o \in E!Dyadic THEN <<E!Mark(o)>> ELSE <<>>
OutSteps(s) == [k \in 1 .. Len(s) |-> [l \in Seq(ICTok) |-> OutOf(s[k]) \o l]]

LEMMA OutIn == ASSUME NEW o PROVE OutOf(o) \in Seq(ICTok)
<1>1. o \in E!Dyadic => E!Mark(o) \in ICTok
  BY DEF E!Mark, E!Token, ICTok
<1> QED BY <1>1 DEF OutOf

LEMMA OperatorsAre ==
  ASSUME NEW s \in Seq(Opers)
  PROVE  \E g \in Recursive(Seq(ICTok), <<>>, Len(s), OutSteps(s)) : E!Operators(s) = g[Len(s)]
<1> DEFINE step == OutSteps(s)
           Reads(g) == g = [m \in 0 .. Len(s) |->
             IF m = 0 THEN <<>>
             ELSE IF s[m] \in E!Dyadic THEN <<E!Mark(s[m])>> \o g[m - 1] ELSE g[m - 1]]
           c == CHOOSE g : Reads(g)
<1>0. Len(s) \in Nat /\ <<>> \in Seq(ICTok)
  OBVIOUS
<1>1. step \in Steps(Seq(ICTok), Len(s))
  <2>1. ASSUME NEW k \in 1 .. Len(s), NEW l \in Seq(ICTok) PROVE OutOf(s[k]) \o l \in Seq(ICTok)
    BY OutIn, ConcatProperties
  <2> QED BY <2>1 DEF Steps, OutSteps
<1>2. E!Operators(s) = c[Len(s)]
  BY DEF E!Operators
<1>3. PICK g : g \in Recursive(Seq(ICTok), <<>>, Len(s), step)
  <2> HIDE DEF step
  <2> QED BY <1>0, <1>1, RecursionExists
<1>4. g \in [0 .. Len(s) -> Seq(ICTok)] /\ g[0] = <<>> /\ \A k \in 1 .. Len(s) : g[k] = step[k][g[k - 1]]
  BY <1>3 DEF Recursive
<1>5. ASSUME NEW k \in 1 .. Len(s), NEW l \in Seq(ICTok)
      PROVE  step[k][l] = IF s[k] \in E!Dyadic THEN <<E!Mark(s[k])>> \o l ELSE l
  <2>1. step[k][l] = OutOf(s[k]) \o l
    BY DEF OutSteps
  <2> QED BY <2>1 DEF OutOf
<1>6. Reads(g)
  <2>1. ASSUME NEW m \in 0 .. Len(s)
        PROVE  g[m] = IF m = 0 THEN <<>>
             ELSE IF s[m] \in E!Dyadic THEN <<E!Mark(s[m])>> \o g[m - 1] ELSE g[m - 1]
    <3>1. CASE m = 0
      BY <1>4, <3>1
    <3>2. CASE m # 0
      <4>1. m \in 1 .. Len(s) /\ m - 1 \in 0 .. Len(s)
        BY <3>2
      <4>2. g[m - 1] \in Seq(ICTok) /\ g[m] = step[m][g[m - 1]]
        BY <1>4, <4>1
      <4> HIDE DEF step
      <4> QED BY <1>5, <3>2, <4>1, <4>2
    <3> QED BY <3>1, <3>2
  <2> QED BY <1>4, <2>1
<1>7. Reads(c)
  <2> HIDE DEF Reads
  <2> QED BY <1>6
<1>10. /\ c = [m \in 0 .. Len(s) |-> c[m]] /\ c[0] = <<>>
       /\ \A m \in 1 .. Len(s) :
            c[m] = IF s[m] \in E!Dyadic THEN <<E!Mark(s[m])>> \o c[m - 1] ELSE c[m - 1]
  <2> HIDE DEF c
  <2>1. \A m \in 1 .. Len(s) : m \in 0 .. Len(s) /\ m # 0
    BY <1>0
  <2>2. 0 \in 0 .. Len(s)
    BY <1>0
  <2> QED BY <1>7, <2>1, <2>2
<1>8. c \in [0 .. Len(s) -> Seq(ICTok)]
  <2> HIDE DEF c
  <2>1. c = [m \in 0 .. Len(s) |-> c[m]] /\ c[0] = <<>>
    BY <1>10
  <2>2. ASSUME NEW m \in 1 .. Len(s), c[m - 1] \in Seq(ICTok) PROVE c[m] = step[m][c[m - 1]]
    <3>1. c[m] = IF s[m] \in E!Dyadic THEN <<E!Mark(s[m])>> \o c[m - 1] ELSE c[m - 1]
      BY <1>10
    <3> HIDE DEF step, Reads
    <3> QED BY <1>5, <2>2, <3>1
  <2>3. GoesOn(c, Seq(ICTok), <<>>, Len(s), step)
    <3> HIDE DEF step, Reads
    <3> QED BY <2>1, <2>2 DEF GoesOn
  <2> HIDE DEF step, Reads
  <2> QED BY <1>0, <1>1, <2>3, RecursionStays
<1>9. c \in Recursive(Seq(ICTok), <<>>, Len(s), step)
  <2> HIDE DEF c
  <2>1. c[0] = <<>>
    BY <1>10
  <2>2. ASSUME NEW m \in 1 .. Len(s) PROVE c[m] = step[m][c[m - 1]]
    <3>1. c[m] = IF s[m] \in E!Dyadic THEN <<E!Mark(s[m])>> \o c[m - 1] ELSE c[m - 1]
      BY <1>10
    <3>2. c[m - 1] \in Seq(ICTok)
      BY <1>8
    <3> HIDE DEF step, Reads
    <3> QED BY <1>5, <3>1, <3>2
  <2> HIDE DEF step, Reads
  <2> QED BY <1>8, <2>1, <2>2 DEF Recursive
<1> HIDE DEF c
<1> QED BY <1>2, <1>9

(* From the top, and from the bottom.                                      *)
LEMMA OperatorsTop ==
  ASSUME NEW s \in Seq(Opers)
  PROVE  /\ E!Operators(s) \in Seq(ICTok)
         /\ s = <<>> => E!Operators(s) = <<>>
         /\ s # <<>> => E!Operators(s) = OutOf(s[Len(s)]) \o E!Operators(SubSeq(s, 1, Len(s) - 1))
<1> DEFINE L == Len(s)
<1>1. PICK g \in Recursive(Seq(ICTok), <<>>, L, OutSteps(s)) : E!Operators(s) = g[L]
  BY OperatorsAre
<1>2. g \in [0 .. L -> Seq(ICTok)] /\ g[0] = <<>> /\ L \in Nat
      /\ \A k \in 1 .. L : g[k] = OutSteps(s)[k][g[k - 1]]
  BY <1>1 DEF Recursive
<1>3. E!Operators(s) \in Seq(ICTok)
  BY <1>1, <1>2
<1>4. s = <<>> => E!Operators(s) = <<>>
  BY <1>1, <1>2
<1>5. ASSUME s # <<>> PROVE E!Operators(s) = OutOf(s[L]) \o E!Operators(SubSeq(s, 1, L - 1))
  <2> DEFINE r == SubSeq(s, 1, L - 1)
  <2>1. L \in 1 .. L /\ L - 1 \in 0 .. L /\ L - 1 \in Nat
    BY <1>2, <1>5, EmptySeq
  <2>2. r \in Seq(Opers) /\ Len(r) = L - 1 /\ \A k \in 1 .. L - 1 : r[k] = s[k]
    <3>1. 1 \in Int /\ L - 1 \in Int /\ \A k \in 1 .. L - 1 : s[k] \in Opers /\ 1 + k - 1 = k
      BY <2>1
    <3>2. /\ r \in Seq(Opers) /\ Len(r) = IF 1 <= L - 1 THEN (L - 1) - 1 + 1 ELSE 0
          /\ \A k \in 1 .. (L - 1) - 1 + 1 : r[k] = s[1 + k - 1]
      BY <3>1, SubSeqProperties
    <3>3. (L - 1) - 1 + 1 = L - 1
      BY <2>1
    <3> HIDE DEF r, L
    <3>4. Len(r) = L - 1
      BY <2>1, <3>2, <3>3
    <3>5. \A k \in 1 .. L - 1 : r[k] = s[k]
      <4> SUFFICES ASSUME NEW k \in 1 .. L - 1 PROVE r[k] = s[k]
        OBVIOUS
      <4>1. k \in 1 .. (L - 1) - 1 + 1
        BY <3>3
      <4> QED BY <3>1, <3>2, <4>1
    <3> QED BY <3>2, <3>4, <3>5
  <2>3. PICK e \in Recursive(Seq(ICTok), <<>>, L - 1, OutSteps(r)) : E!Operators(r) = e[L - 1]
    <3> HIDE DEF r
    <3> QED BY <2>2, OperatorsAre
  <2>4. \A k \in 1 .. L - 1 : OutSteps(r)[k] = OutSteps(s)[k]
    <3> HIDE DEF r
    <3>1. \A k \in 1 .. L - 1 : k \in 1 .. L
      BY <1>2
    <3> QED BY <2>2, <3>1 DEF OutSteps
  <2>5. g[L - 1] = e[L - 1]
    <3> HIDE DEF r
    <3>0. /\ L \in Nat /\ L - 1 \in 0 .. L
          /\ \A k \in 1 .. L - 1 : OutSteps(r)[k] = OutSteps(s)[k]
          /\ g \in Recursive(Seq(ICTok), <<>>, L, OutSteps(s))
          /\ e \in Recursive(Seq(ICTok), <<>>, L - 1, OutSteps(r))
      BY <1>1, <1>2, <2>1, <2>3, <2>4
    <3> HIDE DEF L
    <3>1. \A k \in 0 .. L - 1 : g[k] = e[k]
      BY <3>0, RecursionAgrees
    <3>2. L - 1 \in 0 .. L - 1
      BY <2>1
    <3> QED BY <3>1, <3>2
  <2>6. g[L] = OutSteps(s)[L][g[L - 1]] /\ g[L - 1] \in Seq(ICTok)
    BY <1>2, <2>1
  <2>7. OutSteps(s)[L][g[L - 1]] = OutOf(s[L]) \o g[L - 1]
    BY <2>1, <2>6 DEF OutSteps
  <2> QED BY <1>1, <2>3, <2>5, <2>6, <2>7
<1> QED BY <1>3, <1>4, <1>5

LEMMA OperatorsBottom ==
  ASSUME NEW s \in Seq(Opers), s # <<>>
  PROVE  E!Operators(s) = E!Operators(SubSeq(s, 2, Len(s))) \o OutOf(s[1])
<1> DEFINE T == {m \in Nat : \A z \in Seq(Opers) :
                   Len(z) = m + 1 => E!Operators(z) = E!Operators(SubSeq(z, 2, Len(z))) \o OutOf(z[1])}
<1>1. 0 \in T
  <2> SUFFICES ASSUME NEW z \in Seq(Opers), Len(z) = 0 + 1
               PROVE  E!Operators(z) = E!Operators(SubSeq(z, 2, Len(z))) \o OutOf(z[1])
    OBVIOUS
  <2>1. SubSeq(z, 2, Len(z)) = <<>> /\ SubSeq(z, 1, Len(z) - 1) = <<>> /\ z # <<>> /\ z[Len(z)] = z[1]
    <3>1. SubSeq(z, 2, 1) = <<>> /\ SubSeq(z, 1, 0) = <<>>
      BY SubSeqEmpty
    <3>2. Len(z) = 1 /\ Len(z) - 1 = 0
      OBVIOUS
    <3>3. z # <<>>
      <4>1. Len(z) # Len(<<>>)
        BY <3>2
      <4> QED BY <4>1, Zenon
    <3>4. z[Len(z)] = z[1]
      BY <3>2, Zenon
    <3> QED BY <3>1, <3>2, <3>3, <3>4
  <2>2. E!Operators(<<>>) = <<>>
    BY OperatorsTop, <<>> \in Seq(Opers)
  <2>3. E!Operators(z) = OutOf(z[1]) \o <<>>
    BY <2>1, <2>2, OperatorsTop
  <2>4. OutOf(z[1]) \o <<>> = <<>> \o OutOf(z[1])
    BY OutIn, ConcatEmptySeq
  <2> QED BY <2>1, <2>2, <2>3, <2>4
<1>2. ASSUME NEW m \in Nat, m \in T PROVE m + 1 \in T
  <2> SUFFICES ASSUME NEW z \in Seq(Opers), Len(z) = (m + 1) + 1
               PROVE  E!Operators(z) = E!Operators(SubSeq(z, 2, Len(z))) \o OutOf(z[1])
    OBVIOUS
  <2> DEFINE L == Len(z)
             r == SubSeq(z, 1, L - 1)
             w == SubSeq(z, 2, L)
  <2>1. L \in Nat /\ L >= 2 /\ z # <<>>
    OBVIOUS
  <2>2. r \in Seq(Opers) /\ Len(r) = m + 1 /\ r[1] = z[1]
    BY <2>1
  <2>3. w \in Seq(Opers) /\ Len(w) = m + 1 /\ w[m + 1] = z[L] /\ w # <<>>
    BY <2>1
  <2>4. SubSeq(r, 2, Len(r)) = SubSeq(z, 2, L - 1) /\ SubSeq(w, 1, Len(w) - 1) = SubSeq(z, 2, L - 1)
    <3>0. CASE m = 0
      <4>1. SubSeq(r, 2, Len(r)) = <<>> /\ SubSeq(w, 1, Len(w) - 1) = <<>> /\ SubSeq(z, 2, L - 1) = <<>>
        BY <2>2, <2>3, <3>0, SubSeqEmpty
      <4> QED BY <4>1
    <3>1. CASE m # 0
      <4>1. /\ 1 \in 1 .. L /\ L - 1 \in 1 .. L /\ 2 \in 1 .. (L - 1) - 1 + 1
            /\ m + 1 \in 1 .. (L - 1) - 1 + 1 /\ 2 \in 1 .. L /\ L \in 1 .. L
            /\ 1 \in 1 .. L - 2 + 1 /\ m \in 1 .. L - 2 + 1 /\ (m + 1) - 1 = m
        BY <2>1, <3>1
      <4>2. SubSeq(r, 2, m + 1) = SubSeq(z, 1 + 2 - 1, 1 + (m + 1) - 1)
        BY <4>1, SubSeqOfSubSeq
      <4>3. SubSeq(w, 1, m) = SubSeq(z, 2 + 1 - 1, 2 + m - 1)
        BY <4>1, SubSeqOfSubSeq
      <4>4. 1 + 2 - 1 = 2 /\ 1 + (m + 1) - 1 = L - 1 /\ 2 + 1 - 1 = 2 /\ 2 + m - 1 = L - 1
        BY <2>1
      <4> HIDE DEF r, w, L
      <4> QED BY <2>2, <2>3, <4>1, <4>2, <4>3, <4>4
    <3> QED BY <3>0, <3>1
  <2> DEFINE u == SubSeq(z, 2, L - 1)
  <2>5. u \in Seq(Opers)
    BY <2>1
  <2> HIDE DEF u, r, w
  <2>6. E!Operators(z) = OutOf(z[L]) \o E!Operators(r)
    BY <2>1, OperatorsTop DEF r
  <2>7. E!Operators(r) = E!Operators(u) \o OutOf(z[1])
    BY <1>2, <2>2, <2>4 DEF u
  <2>8. E!Operators(w) = OutOf(z[L]) \o E!Operators(u)
    BY <2>3, <2>4, OperatorsTop DEF u
  <2>9. /\ E!Operators(u) \in Seq(ICTok) /\ OutOf(z[L]) \in Seq(ICTok) /\ OutOf(z[1]) \in Seq(ICTok)
    BY <2>5, OutIn, OperatorsTop
  <2>10. OutOf(z[L]) \o (E!Operators(u) \o OutOf(z[1])) = (OutOf(z[L]) \o E!Operators(u)) \o OutOf(z[1])
    BY <2>9, ConcatAssociative
  <2> QED BY <2>6, <2>7, <2>8, <2>10 DEF w
<1>3. Nat \subseteq T
  <2> HIDE DEF T
  <2> QED BY <1>1, <1>2, NatSetInduction
<1>4. Len(s) - 1 \in Nat /\ Len(s) = (Len(s) - 1) + 1
  BY EmptySeq
<1>5. Len(s) - 1 \in T
  <2> HIDE DEF T
  <2> QED BY <1>3, <1>4
<1> QED BY <1>4, <1>5

(* What of the stack of operators leaves it: operators above place y that  *)
(* bind at least as tightly, and parentheses that are closed.              *)
Shape(s, y, d) ==
  /\ y \in 0 .. Len(s) /\ d \in y + 1 .. Len(s) + 1
  /\ \A p \in y + 1 .. d - 1 : s[p] \in E!Dyadic
  /\ d <= Len(s) =>
       /\ d < Len(s) /\ s[d] = "(" /\ s[Len(s)] = ")"
       /\ \A p \in d + 1 .. Len(s) - 1 : s[p] \in E!Dyadic
Fits(s, y, o) == y = 0 \/ s[y] = "(" \/ E!Prec[s[y]] < E!Prec[o]

LEMMA ClosedAre ==
  ASSUME NEW s \in Seq(Opers), NEW y, NEW d, Shape(s, y, d), NEW p \in 1 .. Len(s), p >= y
  PROVE  E!InClosed(s, p) <=> (d <= p /\ p < Len(s))
<1> DEFINE C == {q \in 1 .. Len(s) : q > p /\ s[q] = ")"}
           O == {q \in 1 .. Len(s) : q > p /\ s[q] = "("}
           L == Len(s)
<1>0. /\ L \in Nat /\ y \in Int /\ d \in Int /\ p \in Int
      /\ 0 <= y /\ y < d /\ d <= L + 1 /\ p <= L
  BY DEF Shape
<1>1. E!InClosed(s, p) <=> Cardinality(C) # Cardinality(O)
  <2>1. E!InClosed(s, p) <=> E!Cardinality(C) # E!Cardinality(O)
    <3>1. E!InClosed(s, p) <=> E!Cardinality({q \in DOMAIN s : q > p /\ s[q] = ")"})
                                # E!Cardinality({q \in DOMAIN s : q > p /\ s[q] = "("})
      BY DEF E!InClosed
    <3>2. DOMAIN s = 1 .. Len(s)
      OBVIOUS
    <3> QED BY <3>1, <3>2, Zenon
  <2> HIDE DEF C, O
  <2> QED BY <2>1, SameCardinality
<1>2. Cardinality({}) = 0 /\ \A x : Cardinality({x}) = 1
  BY FS_EmptySet, FS_Singleton
<1>3. \A q \in 1 .. L : q > y =>
        /\ s[q] = ")" <=> (q = L /\ d <= L)
        /\ s[q] = "(" <=> q = d
  <2> SUFFICES ASSUME NEW q \in 1 .. L, q > y
               PROVE  /\ s[q] = ")" <=> (q = L /\ d <= L)
                      /\ s[q] = "(" <=> q = d
    OBVIOUS
  <2>1. CASE q < d
    <3>1. s[q] \in E!Dyadic
      <4>1. q \in y + 1 .. d - 1
        BY <1>0, <2>1
      <4> QED BY <4>1 DEF Shape
    <3>2. s[q] # ")" /\ s[q] # "("
      BY <3>1, Precedences
    <3>3. q = L => ~ (d <= L)
      BY <1>0, <2>1
    <3> QED BY <1>0, <2>1, <3>2, <3>3
  <2>2. CASE q = d
    <3>1. d < L /\ s[q] = "("
      BY <1>0, <2>2 DEF Shape
    <3> QED BY <1>0, <2>2, <3>1
  <2>3. CASE q > d /\ q < L
    <3>1. s[q] \in E!Dyadic
      <4>1. q \in d + 1 .. L - 1 /\ d <= L
        BY <1>0, <2>3
      <4> QED BY <4>1 DEF Shape
    <3>2. s[q] # ")" /\ s[q] # "("
      BY <3>1, Precedences
    <3> QED BY <1>0, <2>3, <3>2
  <2>4. CASE q > d /\ q = L
    <3>1. s[q] = ")" /\ d <= L
      BY <1>0, <2>4 DEF Shape
    <3> QED BY <1>0, <2>4, <3>1
  <2> QED BY <1>0, <2>1, <2>2, <2>3, <2>4
<1>4. CASE p < d
  <2>1. CASE d <= L
    <3>0. d < L
      BY <2>1 DEF Shape
    <3>1. C = {L} /\ O = {d}
      BY <1>0, <1>3, <1>4, <2>1, <3>0
    <3> HIDE DEF C, O
    <3>2. Cardinality(C) = 1 /\ Cardinality(O) = 1
      BY <1>2, <3>1
    <3> QED BY <1>0, <1>1, <1>4, <3>2
  <2>2. CASE ~ (d <= L)
    <3>1. C = {} /\ O = {}
      BY <1>0, <1>3, <1>4, <2>2
    <3> HIDE DEF C, O
    <3> QED BY <1>0, <1>1, <1>4, <3>1
  <2> QED BY <2>1, <2>2
<1>5. CASE d <= p /\ p < L
  <2>1. C = {L} /\ O = {}
    BY <1>0, <1>3, <1>5
  <2> HIDE DEF C, O
  <2>2. Cardinality(C) = 1 /\ Cardinality(O) = 0
    BY <1>2, <2>1
  <2> QED BY <1>0, <1>1, <1>5, <2>2
<1>6. CASE d <= p /\ p = L
  <2>1. C = {} /\ O = {}
    BY <1>0, <1>6
  <2> HIDE DEF C, O
  <2> QED BY <1>0, <1>1, <1>6, <2>1
<1> QED BY <1>0, <1>4, <1>5, <1>6

LEMMA Pushed ==
  ASSUME NEW s \in Seq(Opers), NEW y, NEW d, Shape(s, y, d), NEW o \in E!Dyadic \union {")"},
         Fits(s, y, o), \A p \in y + 1 .. d - 1 : E!Prec[o] <= E!Prec[s[p]]
  PROVE  E!PushOperator(s, o) = [ops |-> Append(SubSeq(s, 1, y), o),
                                 out |-> E!Operators(SubSeq(s, y + 1, Len(s)))]
<1> DEFINE L == Len(s)
<1>0. /\ L \in Nat /\ y \in Int /\ d \in Int
      /\ 0 <= y /\ y < d /\ d <= L + 1 /\ y <= L
  BY DEF Shape
<1>1. E!Prec[o] \in 0 .. 6 /\ E!Prec[")"] = 6
  BY Precedences
<1>2. ASSUME NEW p \in 1 .. L PROVE s[p] \in Opers /\ E!Prec[s[p]] \in Int
  BY Precedences DEF Opers
<1>3. CASE L = y
  <2>1. SubSeq(s, 1, y) = s
    BY <1>3, SubSeqFull
  <2>2. SubSeq(s, y + 1, L) = <<>>
    BY <1>0, <1>3, SubSeqEmpty
  <2>3. E!Operators(<<>>) = <<>>
    BY OperatorsTop, <<>> \in Seq(Opers)
  <2>4. ~ (s # <<>> /\ E!Prec[o] <= E!Prec[E!Last(s)] /\ E!Last(s) # "(")
    <3> SUFFICES ASSUME s # <<>>, E!Last(s) # "(" PROVE ~ (E!Prec[o] <= E!Prec[E!Last(s)])
      OBVIOUS
    <3>1. E!Last(s) = s[L]
      BY DEF E!Last
    <3>2. L \in 1 .. L
      BY <1>0, EmptySeq
    <3>3. E!Prec[s[L]] < E!Prec[o]
      BY <1>3, <3>1, <3>2 DEF Fits
    <3> QED BY <1>1, <1>2, <3>1, <3>2, <3>3
  <2>5. E!PushOperator(s, o) = [ops |-> Append(s, o), out |-> <<>>]
    BY <2>4, Zenon DEF E!PushOperator
  <2> QED BY <2>1, <2>2, <2>3, <2>5
<1>4. CASE y < L
  <2>1. L \in 1 .. L /\ s # <<>>
    BY <1>0, <1>4, EmptySeq
  <2>2. E!Last(s) = s[L]
    BY DEF E!Last
  <2>3. E!Prec[o] <= E!Prec[s[L]] /\ s[L] # "("
    <3>1. CASE d <= L
      <4>1. s[L] = ")"
        BY <3>1 DEF Shape
      <4> QED BY <1>1, <4>1
    <3>2. CASE ~ (d <= L)
      <4>1. L \in y + 1 .. d - 1
        BY <1>0, <1>4, <3>2
      <4>2. s[L] \in E!Dyadic /\ E!Prec[o] <= E!Prec[s[L]]
        BY <4>1 DEF Shape
      <4> QED BY <4>2, Precedences
    <3> QED BY <3>1, <3>2
  <2> DEFINE S == {0} \union {p \in DOMAIN s : E!Stops(s, p, o)}
  <2>4. y \in S
    <3> SUFFICES ASSUME y # 0 PROVE E!Stops(s, y, o)
      BY <1>0
    <3>1. y \in 1 .. L /\ y >= y /\ ~ (d <= y)
      BY <1>0
    <3>2. ~ E!InClosed(s, y)
      BY <3>1, ClosedAre
    <3>3. s[y] = "(" \/ E!Prec[s[y]] < E!Prec[o]
      BY DEF Fits
    <3> QED BY <3>2, <3>3 DEF E!Stops
  <2>5. ASSUME NEW p \in S PROVE p \in Int /\ p <= y
    <3> SUFFICES ASSUME p \in 1 .. L, E!Stops(s, p, o), y < p PROVE FALSE
      BY <1>0
    <3>1. ~ E!InClosed(s, p) /\ (s[p] = "(" \/ E!Prec[s[p]] < E!Prec[o])
      BY DEF E!Stops
    <3>2. p < d \/ p = L
      BY <1>0, <3>1, ClosedAre
    <3>3. CASE p < d
      <4>1. p \in y + 1 .. d - 1
        BY <1>0, <3>3
      <4>2. s[p] \in E!Dyadic /\ E!Prec[o] <= E!Prec[s[p]]
        BY <4>1 DEF Shape
      <4> QED BY <1>1, <1>2, <3>1, <4>2, Precedences
    <3>4. CASE p = L
      BY <1>1, <1>2, <2>3, <3>1, <3>4
    <3> QED BY <3>2, <3>3, <3>4
  <2>6. E!Max(S) = y
    <3> HIDE DEF S
    <3>1. y \in S /\ \A z \in S : y >= z
      BY <1>0, <2>4, <2>5
    <3>2. E!Max(S) = CHOOSE x \in S : \A z \in S : x >= z
      BY DEF E!Max
    <3>3. E!Max(S) \in S /\ \A z \in S : E!Max(S) >= z
      BY <3>1, <3>2
    <3>4. E!Max(S) >= y /\ y >= E!Max(S) /\ E!Max(S) \in Int
      BY <2>5, <3>1, <3>3
    <3> QED BY <1>0, <3>4
  <2>7. E!Unstacked(s, o) = [ops |-> Append(SubSeq(s, 1, E!Max(S)), o),
                             out |-> E!Operators(SubSeq(s, E!Max(S) + 1, L))]
    BY DEF E!Unstacked
  <2>8. E!PushOperator(s, o) = E!Unstacked(s, o)
    BY <2>1, <2>2, <2>3 DEF E!PushOperator
  <2> HIDE DEF S
  <2> QED BY <2>6, <2>7, <2>8
<1> QED BY <1>0, <1>3, <1>4

LEMMA PushedOpen ==
  ASSUME NEW s \in Seq(Opers)
  PROVE  E!PushOperator(s, "(") = [ops |-> Append(s, "("), out |-> <<>>]
<1>1. ~ (s # <<>> /\ E!Prec["("] <= E!Prec[E!Last(s)] /\ E!Last(s) # "(")
  <2> SUFFICES ASSUME s # <<>>, E!Last(s) # "(" PROVE ~ (E!Prec["("] <= E!Prec[E!Last(s)])
    OBVIOUS
  <2>1. E!Last(s) = s[Len(s)] /\ Len(s) \in 1 .. Len(s)
    BY EmptySeq DEF E!Last
  <2>2. E!Last(s) \in Opers
    BY <2>1
  <2> QED BY <2>2, Precedences DEF Opers
<1> QED BY <1>1, Zenon DEF E!PushOperator

(* What is on the stack of the calculator behind a postfix list.           *)
Stacks == [ok : BOOLEAN, stack : Seq(ICTok)]
NoValues == [ok |-> TRUE, stack |-> <<>>]
AfterSteps(list) == [k \in 1 .. Len(list) |-> [a \in Stacks |-> E!Step(a, list[k])]]
Executes(list, g) == g = [m \in 0 .. Len(list) |-> IF m = 0 THEN NoValues ELSE E!Step(g[m - 1], list[m])]
After(list) == (CHOOSE g : Executes(list, g))[Len(list)]

LEMMA StepIn == ASSUME NEW a \in Stacks, NEW x \in ICTok PROVE E!Step(a, x) \in Stacks
<1> DEFINE len == Len(a.stack)
<1>1. a.ok \in BOOLEAN /\ a.stack \in Seq(ICTok) /\ len \in Nat /\ a = [ok |-> a.ok, stack |-> a.stack]
  BY DEF Stacks
<1>2. CASE x.kind \notin E!Dyadic
  <2>1. E!Step(a, x) = [a EXCEPT !.stack = Append(@, x)]
    BY <1>2 DEF E!Step
  <2>2. Append(a.stack, x) \in Seq(ICTok)
    BY <1>1
  <2> QED BY <1>1, <2>1, <2>2 DEF Stacks
<1>3. CASE x.kind \in E!Dyadic
  <2>1. CASE ~ a.ok \/ len < 2 \/ ~ E!Allowed(x.kind, a.stack[len - 1], a.stack[len])
    <3>1. E!Step(a, x) = [a EXCEPT !.ok = FALSE]
      BY <1>3, <2>1, Zenon DEF E!Step
    <3> QED BY <1>1, <3>1 DEF Stacks
  <2>2. CASE ~ (~ a.ok \/ len < 2 \/ ~ E!Allowed(x.kind, a.stack[len - 1], a.stack[len]))
    <3> DEFINE u == a.stack[len - 1]
               v == a.stack[len]
               z == E!Token("imm", E!Apply(x.kind, u.val, v.val))
    <3>1. E!Step(a, x) = [a EXCEPT !.stack = Append(SubSeq(a.stack, 1, len - 2), z)]
      BY <1>3, <2>2, Zenon DEF E!Step
    <3>2. u \in ICTok /\ v \in ICTok
      BY <1>1, <2>2
    <3>3. u.val \in Int /\ v.val \in Int /\ Defines(x.kind, v.val)
      BY <2>2, <3>2 DEF ICTok, E!Allowed, Defines
    <3>4. E!Apply(x.kind, u.val, v.val) \in Int
      BY <1>3, <3>3, ApplyIsInt
    <3>5. z \in ICTok
      BY <3>4 DEF E!Token, ICTok
    <3>6. SubSeq(a.stack, 1, len - 2) \in Seq(ICTok)
      <4>1. 1 \in Int /\ len - 2 \in Int /\ \A i \in 1 .. len - 2 : a.stack[i] \in ICTok
        BY <1>1
      <4> QED BY <4>1, SubSeqProperties
    <3>7. Append(SubSeq(a.stack, 1, len - 2), z) \in Seq(ICTok)
      <4> HIDE DEF z
      <4> QED BY <3>5, <3>6
    <3> HIDE DEF z
    <3> QED BY <1>1, <3>1, <3>7 DEF Stacks
  <2> QED BY <2>1, <2>2
<1> QED BY <1>2, <1>3

LEMMA RunIs ==
  ASSUME NEW list
  PROVE  E!Run(list) = IF After(list).ok /\ Len(After(list).stack) = 1
                       THEN <<After(list).stack[1].val>> ELSE E!Bad
BY DEF E!Run, After, Executes, NoValues

LEMMA AfterAre ==
  ASSUME NEW list \in Seq(ICTok)
  PROVE  \E g \in Recursive(Stacks, NoValues, Len(list), AfterSteps(list)) : After(list) = g[Len(list)]
<1> DEFINE step == AfterSteps(list)
           L == Len(list)
           c == CHOOSE g : Executes(list, g)
<1>0. L \in Nat /\ NoValues \in Stacks
  BY DEF Stacks, NoValues
<1>1. step \in Steps(Stacks, L)
  <2>1. ASSUME NEW k \in 1 .. L, NEW a \in Stacks PROVE E!Step(a, list[k]) \in Stacks
    BY StepIn
  <2> QED BY <2>1 DEF Steps, AfterSteps
<1>2. ASSUME NEW k \in 1 .. L, NEW a \in Stacks PROVE step[k][a] = E!Step(a, list[k])
  BY DEF AfterSteps
<1>3. PICK g : g \in Recursive(Stacks, NoValues, L, step)
  <2> HIDE DEF step
  <2> QED BY <1>0, <1>1, RecursionExists
<1>4. g \in [0 .. L -> Stacks] /\ g[0] = NoValues /\ \A k \in 1 .. L : g[k] = step[k][g[k - 1]]
  BY <1>3 DEF Recursive
<1>5. Executes(list, g)
  <2>1. ASSUME NEW m \in 0 .. L
        PROVE  g[m] = IF m = 0 THEN NoValues ELSE E!Step(g[m - 1], list[m])
    <3>1. CASE m = 0
      BY <1>4, <3>1
    <3>2. CASE m # 0
      <4>1. m \in 1 .. L /\ m - 1 \in 0 .. L
        BY <3>2
      <4>2. g[m - 1] \in Stacks /\ g[m] = step[m][g[m - 1]]
        BY <1>4, <4>1
      <4> HIDE DEF step
      <4> QED BY <1>2, <3>2, <4>1, <4>2
    <3> QED BY <3>1, <3>2
  <2> QED BY <1>4, <2>1 DEF Executes
<1>6. Executes(list, c)
  BY <1>5
<1>7. /\ c = [m \in 0 .. L |-> c[m]] /\ c[0] = NoValues
      /\ \A m \in 1 .. L : c[m] = E!Step(c[m - 1], list[m])
  <2> HIDE DEF c
  <2>1. \A m \in 1 .. L : m \in 0 .. L /\ m # 0
    BY <1>0
  <2>2. 0 \in 0 .. L
    BY <1>0
  <2> QED BY <1>6, <2>1, <2>2 DEF Executes
<1> HIDE DEF c, step
<1>8. GoesOn(c, Stacks, NoValues, L, step)
  BY <1>2, <1>7 DEF GoesOn
<1>9. c \in [0 .. L -> Stacks]
  BY <1>0, <1>1, <1>8, RecursionStays
<1>10. c \in Recursive(Stacks, NoValues, L, step)
  <2>1. ASSUME NEW m \in 1 .. L PROVE c[m] = step[m][c[m - 1]]
    <3>1. c[m - 1] \in Stacks
      BY <1>9
    <3> QED BY <1>2, <1>7, <3>1
  <2> QED BY <1>7, <1>9, <2>1 DEF Recursive
<1> QED BY <1>10 DEF After, c, step

LEMMA AfterNothing == After(<<>>) = NoValues
<1>1. <<>> \in Seq(ICTok) /\ Len(<<>>) = 0
  OBVIOUS
<1>2. PICK g \in Recursive(Stacks, NoValues, 0, AfterSteps(<<>>)) : After(<<>>) = g[0]
  BY <1>1, AfterAre
<1> QED BY <1>2 DEF Recursive

LEMMA AfterOneMore ==
  ASSUME NEW list \in Seq(ICTok), NEW x \in ICTok
  PROVE  After(list) \in Stacks /\ After(Append(list, x)) = E!Step(After(list), x)
<1> DEFINE L == Len(list)
           more == Append(list, x)
<1>1. /\ L \in Nat /\ more \in Seq(ICTok) /\ Len(more) = L + 1 /\ more[L + 1] = x
      /\ \A k \in 1 .. L : more[k] = list[k]
  BY AppendProperties
<1> HIDE DEF more
<1>2. PICK g \in Recursive(Stacks, NoValues, L, AfterSteps(list)) : After(list) = g[L]
  BY AfterAre
<1>3. PICK e \in Recursive(Stacks, NoValues, L + 1, AfterSteps(more)) : After(more) = e[L + 1]
  BY <1>1, AfterAre
<1>4. \A k \in 1 .. L : AfterSteps(list)[k] = AfterSteps(more)[k]
  <2>1. \A k \in 1 .. L : k \in 1 .. L + 1
    BY <1>1
  <2> QED BY <1>1, <2>1 DEF AfterSteps
<1>5. e[L] = g[L]
  <2>1. L + 1 \in Nat /\ L \in 0 .. L + 1 /\ L \in 0 .. L
    BY <1>1
  <2>2. \A k \in 0 .. L : e[k] = g[k]
    <3> HIDE DEF L
    <3>1. /\ e \in Recursive(Stacks, NoValues, L + 1, AfterSteps(more))
          /\ g \in Recursive(Stacks, NoValues, L, AfterSteps(list))
      BY <1>2, <1>3
    <3>2. L \in 0 .. L + 1 /\ L + 1 \in Nat
      BY <2>1
    <3> DEFINE M == L + 1
               step == AfterSteps(more)
               other == AfterSteps(list)
    <3>3. /\ M \in Nat /\ L \in 0 .. M /\ \A k \in 1 .. L : other[k] = step[k]
          /\ e \in Recursive(Stacks, NoValues, M, step) /\ g \in Recursive(Stacks, NoValues, L, other)
      BY <1>4, <3>1, <3>2
    <3> HIDE DEF M, step, other
    <3> QED BY <3>3, RecursionAgrees
  <2> QED BY <2>1, <2>2
<1>6. g[L] \in Stacks
  BY <1>1, <1>2 DEF Recursive
<1>7. e[L + 1] = AfterSteps(more)[L + 1][e[L]]
  <2>1. L + 1 \in 1 .. L + 1 /\ (L + 1) - 1 = L
    BY <1>1
  <2> QED BY <1>3, <2>1 DEF Recursive
<1>8. AfterSteps(more)[L + 1][e[L]] = E!Step(e[L], x)
  <2>1. L + 1 \in 1 .. Len(more)
    BY <1>1
  <2> QED BY <1>1, <1>5, <1>6, <2>1 DEF AfterSteps
<1> QED BY <1>2, <1>3, <1>5, <1>6, <1>7, <1>8 DEF more

-----------------------------------------------------------------------------
\* How an operand is read: from one configuration to the next.

(* The state behind token k, and what is kept besides.                     *)
St(t, k) ==
  IF k < 0 THEN "error" ELSE IF k = 0 THEN "+"
  ELSE IF t[k].kind = "imm" THEN "int" ELSE t[k].kind
Config(b, i, r, m, o, p) == [base |-> b, index |-> i, tmp |-> r, scale |-> m, ops |-> o, post |-> p]
StartConfig == Config(E!NoReg, E!NoReg, E!NoReg, 1, <<>>, <<>>)
Now == Config(base, index, tmp, scale, ops, post)

(* Whether a register that stands alone was read last, and its place.      *)
Stands(s, p) == s = "reg" /\ p # "*"
CanPlace(c, s, p) == Stands(s, p) => c.base = E!NoReg \/ c.index = E!NoReg
Placed(c, s, p) ==
  IF ~ Stands(s, p) THEN c
  ELSE IF c.base = E!NoReg THEN Config(c.tmp, c.index, c.tmp, c.scale, c.ops, c.post)
  ELSE Config(c.base, c.tmp, c.tmp, 1, c.ops, c.post)

(* Whether token k is taken, and what it leads to.                         *)
Ends == {"int", "reg", ")"}
Takes(t, k, c) ==
  LET x == t[k]
      s == St(t, k - 1)
      p == St(t, k - 2)
  IN /\ x.kind \in E!Dyadic \ {"+", "-"} => s \in {"int", ")"} \/ (s = "reg" /\ x.kind # "/")
     /\ x.kind = "+" => s \in Ends /\ CanPlace(c, s, p)
     /\ x.kind = "-" => s \in E!Signable \union {"~"} \union Ends /\ CanPlace(c, s, p)
     /\ x.kind = "~" => s \in {"+", "~"}
     /\ x.kind = "(" => s \in E!Openers /\ ~ (p \in E!Openers /\ s \in {"-", "~"})
     /\ x.kind = ")" => s \in Ends
     /\ x.kind = "reg" =>
          s \in {"+", "("} \/ (/\ s = "*" /\ p = "int" /\ c.index = E!NoReg
                               /\ E!Last(c.post).kind \notin E!Dyadic)
     /\ x.kind = "imm" =>
          s \in E!Openers /\ (s = "*" /\ p = "reg" => c.index = E!NoReg /\ E!Narrow(x.val) \in E!Scales)
Pushing(c, o) ==
  LET z == E!PushOperator(c.ops, o)
  IN Config(c.base, c.index, c.tmp, c.scale, z.ops, c.post \o z.out)
Signed(x, s, p) ==
  CASE p \in E!Openers /\ s = "-" -> -x
    [] p \in E!Openers /\ s = "~" -> -x - 1
    [] OTHER -> x
Moved(t, k, c) ==
  LET x == t[k]
      s == St(t, k - 1)
      p == St(t, k - 2)
  IN CASE x.kind \in (E!Dyadic \ {"+", "-"}) \union {"(", ")"} -> Pushing(c, x.kind)
       [] x.kind = "+" -> Pushing(Placed(c, s, p), "+")
       [] x.kind = "-" -> IF s \in E!Signable THEN c ELSE Pushing(Placed(c, s, p), "-")
       [] x.kind = "~" -> c
       [] x.kind = "reg" ->
            IF s \in {"+", "("}
            THEN Config(c.base, c.index, x.val, c.scale, c.ops, Append(c.post, E!Token("reg", 0)))
            ELSE Config(c.base, x.val, c.tmp, E!Narrow(E!Last(c.post).val), E!Front(c.ops),
                        Append(E!Front(c.post), E!Token("imm", 0)))
       [] OTHER ->
            IF s = "*" /\ p = "reg"
            THEN Config(c.base, c.tmp, c.tmp, E!Narrow(x.val), E!Front(c.ops), c.post)
            ELSE Config(c.base, c.index, c.tmp, c.scale, c.ops,
                        Append(c.post, E!Token("imm", Signed(x.val, s, p))))

(* One step of the machine.                                                *)
IsTaken(x) ==
  LET k == Len(read) + 1
  IN \/ Takes(read', k, Now) /\ Now' = Moved(read', k, Now) /\ state' = St(read', k)
     \/ ~ Takes(read', k, Now) /\ state' = "error"

LEMMA OneToken ==
  ASSUME read \in Seq(Tok), state = St(read, Len(read)), prev = St(read, Len(read) - 1),
         NEW x \in Tok, E!Reads(x),
         \/ \E o \in Marks \ {"+", "-", "~", "(", ")"} : x = E!Mark(o) /\ E!OnOperator(o)
         \/ x = E!Mark("+") /\ E!OnPlus
         \/ x = E!Mark("-") /\ E!OnMinus
         \/ x = E!Mark("~") /\ E!OnNot
         \/ \E r \in Regs : x = E!Token("reg", r) /\ E!OnRegister(r)
         \/ \E m \in Numbers : x = E!Token("imm", m) /\ E!OnInteger(m)
         \/ x = E!Mark("(") /\ E!OnLParen
         \/ x = E!Mark(")") /\ E!OnRParen
  PROVE  read' = Append(read, x) /\ prev' = state /\ IsTaken(x)
<1> DEFINE k == Len(read) + 1
           u == read'
<1>0. read' = Append(read, x) /\ prev' = state
  BY DEF E!Reads
<1>1. Len(read) \in Nat /\ u[k] = x /\ k \in Nat /\ \A i \in 1 .. Len(read) : u[i] = read[i]
  BY <1>0
<1>2. St(u, k - 1) = state /\ St(u, k - 2) = prev
  <2>1. CASE Len(read) = 0
    BY <1>1, <2>1 DEF St
  <2>2. CASE Len(read) # 0
    <3>1. u[Len(read)] = read[Len(read)]
      BY <1>1, <2>2
    <3>2. CASE Len(read) = 1
      BY <1>1, <2>2, <3>1, <3>2 DEF St
    <3>3. CASE Len(read) # 1
      <4>1. u[Len(read) - 1] = read[Len(read) - 1]
        BY <1>1, <2>2, <3>3
      <4> QED BY <1>1, <2>2, <3>1, <3>3, <4>1 DEF St
    <3> QED BY <3>2, <3>3
  <2> QED BY <2>1, <2>2
<1>3. St(u, k) = IF x.kind = "imm" THEN "int" ELSE x.kind
  BY <1>1 DEF St
<1> HIDE DEF u, k
<1> SUFFICES \/ Takes(u, k, Now) /\ Now' = Moved(u, k, Now) /\ state' = St(u, k)
             \/ ~ Takes(u, k, Now) /\ state' = "error"
  BY <1>0 DEF IsTaken, u, k
<1>4. CASE \E o \in Marks \ {"+", "-", "~", "(", ")"} : x = E!Mark(o) /\ E!OnOperator(o)
  <2>1. PICK o \in Marks \ {"+", "-", "~", "(", ")"} : x = E!Mark(o) /\ E!OnOperator(o)
    BY <1>4
  <2>2. o \in E!Dyadic \ {"+", "-"} /\ x.kind = o
    BY <2>1, OperandConstants DEF E!Mark, E!Token
  <2>3. o \notin {"(", ")", "~", "imm", "reg", "+", "-"}
    BY <2>2, Precedences
  <2>4. Takes(u, k, Now) <=> state \in {"int", ")"} \/ (state = "reg" /\ o # "/")
    BY <1>1, <1>2, <2>2, <2>3 DEF Takes
  <2>5. Moved(u, k, Now) = Pushing(Now, o)
    BY <1>1, <2>2, <2>3 DEF Moved
  <2>6. CASE state \in {"int", ")"} \/ (state = "reg" /\ o # "/")
    <3>1. state' = o /\ E!Operator(o) /\ UNCHANGED <<base, index, tmp, scale>>
      BY <2>1, <2>6 DEF E!OnOperator
    <3>2. Now' = Pushing(Now, o)
      BY <3>1 DEF Pushing, Now, Config, E!Operator
    <3> QED BY <1>3, <2>2, <2>3, <2>4, <2>5, <2>6, <3>1, <3>2
  <2>7. CASE ~ (state \in {"int", ")"} \/ (state = "reg" /\ o # "/"))
    BY <2>1, <2>4, <2>7 DEF E!OnOperator, E!Fails
  <2> QED BY <2>6, <2>7
<1>5. CASE x = E!Mark("+") /\ E!OnPlus
  <2>2. x.kind = "+"
    BY <1>5 DEF E!Mark, E!Token
  <2>4. Takes(u, k, Now) <=> state \in Ends /\ CanPlace(Now, state, prev)
    BY <1>1, <1>2, <2>2 DEF Takes
  <2>5. Moved(u, k, Now) = Pushing(Placed(Now, state, prev), "+")
    BY <1>1, <1>2, <2>2 DEF Moved
  <2>6. CASE state \in Ends
    <3>1. E!PlaceRegister("+") /\ E!Operator("+") /\ UNCHANGED tmp
      BY <1>5, <2>6 DEF E!OnPlus, Ends
    <3>2. CASE CanPlace(Now, state, prev)
      <4>1. Now' = Pushing(Placed(Now, state, prev), "+") /\ state' = "+"
        BY <3>1, <3>2 DEF Pushing, Placed, CanPlace, Stands, Now, Config, E!Operator, E!PlaceRegister
      <4> QED BY <1>3, <2>2, <2>4, <2>5, <2>6, <3>2, <4>1
    <3>3. CASE ~ CanPlace(Now, state, prev)
      <4>1. state' = "error"
        BY <3>1, <3>3 DEF CanPlace, Stands, Now, Config, E!PlaceRegister
      <4> QED BY <2>4, <3>3, <4>1
    <3> QED BY <3>2, <3>3
  <2>7. CASE state \notin Ends
    BY <1>5, <2>4, <2>7 DEF E!OnPlus, E!Fails, Ends
  <2> QED BY <2>6, <2>7
<1>6. CASE x = E!Mark("-") /\ E!OnMinus
  <2>2. x.kind = "-"
    BY <1>6 DEF E!Mark, E!Token
  <2>4. Takes(u, k, Now) <=>
          state \in E!Signable \union {"~"} \union Ends /\ CanPlace(Now, state, prev)
    BY <1>1, <1>2, <2>2 DEF Takes
  <2>5. Moved(u, k, Now) = IF state \in E!Signable THEN Now ELSE Pushing(Placed(Now, state, prev), "-")
    BY <1>1, <1>2, <2>2 DEF Moved
  <2>6. CASE state \in E!Signable \union {"~"} \union Ends
    <3>1. /\ E!PlaceRegister("-") /\ UNCHANGED tmp
          /\ IF state \in E!Signable THEN UNCHANGED <<ops, post>> ELSE E!Operator("-")
      BY <1>6, <2>6 DEF E!OnMinus, Ends
    <3>2. CASE CanPlace(Now, state, prev)
      <4>1. CASE state \in E!Signable
        <5>1. state # "reg"
          BY <4>1 DEF E!Signable
        <5>2. Now' = Now /\ state' = "-"
          BY <3>1, <4>1, <5>1 DEF Now, Config, E!PlaceRegister
        <5> QED BY <1>3, <2>2, <2>4, <2>5, <2>6, <3>2, <4>1, <5>2
      <4>2. CASE state \notin E!Signable
        <5>1. Now' = Pushing(Placed(Now, state, prev), "-") /\ state' = "-"
          BY <3>1, <3>2, <4>2 DEF Pushing, Placed, CanPlace, Stands, Now, Config, E!Operator, E!PlaceRegister
        <5> QED BY <1>3, <2>2, <2>4, <2>5, <2>6, <3>2, <4>2, <5>1
      <4> QED BY <4>1, <4>2
    <3>3. CASE ~ CanPlace(Now, state, prev)
      <4>1. state' = "error"
        BY <3>1, <3>3 DEF CanPlace, Stands, Now, Config, E!PlaceRegister
      <4> QED BY <2>4, <3>3, <4>1
    <3> QED BY <3>2, <3>3
  <2>7. CASE state \notin E!Signable \union {"~"} \union Ends
    BY <1>6, <2>4, <2>7 DEF E!OnMinus, E!Fails, Ends
  <2> QED BY <2>6, <2>7
<1>7. CASE x = E!Mark("~") /\ E!OnNot
  <2>2. x.kind = "~" /\ "~" \notin E!Dyadic
    BY <1>7 DEF E!Mark, E!Token, E!Dyadic
  <2>4. Takes(u, k, Now) <=> state \in {"+", "~"}
    BY <1>1, <1>2, <2>2 DEF Takes
  <2>5. Moved(u, k, Now) = Now
    BY <1>1, <1>2, <2>2 DEF Moved
  <2> QED BY <1>3, <1>7, <2>2, <2>4, <2>5 DEF E!OnNot, E!Fails, Now
<1>8. CASE \E r \in Regs : x = E!Token("reg", r) /\ E!OnRegister(r)
  <2>1. PICK r \in Regs : x = E!Token("reg", r) /\ E!OnRegister(r)
    BY <1>8
  <2>2. x.kind = "reg" /\ x.val = r /\ "reg" \notin E!Dyadic
    BY <2>1 DEF E!Mark, E!Token, E!Dyadic
  <2> DEFINE Scaling == /\ state = "*" /\ prev = "int" /\ index = E!NoReg
                        /\ E!Last(post).kind \notin E!Dyadic
  <2>4. Takes(u, k, Now) <=> state \in {"+", "("} \/ Scaling
    BY <1>1, <1>2, <2>2 DEF Takes, Now, Config
  <2>5. Moved(u, k, Now) =
          IF state \in {"+", "("}
          THEN Config(base, index, r, scale, ops, Append(post, E!Token("reg", 0)))
          ELSE Config(base, r, tmp, E!Narrow(E!Last(post).val), E!Front(ops), Append(E!Front(post), E!Token("imm", 0)))
    BY <1>1, <1>2, <2>2 DEF Moved, Now, Config
  <2>6. CASE state \in {"+", "("}
    <3>1. /\ state' = "reg" /\ tmp' = r /\ post' = Append(post, E!Token("reg", 0))
          /\ UNCHANGED <<base, index, scale, ops>>
      BY <2>1, <2>6 DEF E!OnRegister
    <3>2. Now' = Config(base, index, r, scale, ops, Append(post, E!Token("reg", 0)))
      BY <3>1 DEF Now, Config
    <3> QED BY <1>3, <2>2, <2>4, <2>5, <2>6, <3>1, <3>2
  <2>7. CASE state \notin {"+", "("} /\ Scaling
    <3>1. state' = "reg" /\ E!ScaledRegister(r) /\ UNCHANGED <<base, tmp>>
      BY <2>1, <2>7 DEF E!OnRegister
    <3>2. Now' = Config(base, r, tmp, E!Narrow(E!Last(post).val), E!Front(ops), Append(E!Front(post), E!Token("imm", 0)))
      BY <3>1 DEF Now, Config, E!ScaledRegister
    <3> QED BY <1>3, <2>2, <2>4, <2>5, <2>7, <3>1, <3>2
  <2>8. CASE state \notin {"+", "("} /\ ~ Scaling
    <3>1. state' = "error"
      BY <2>1, <2>8 DEF E!OnRegister, E!Fails
    <3> QED BY <2>4, <2>8, <3>1
  <2> QED BY <2>6, <2>7, <2>8
<1>9. CASE \E m \in Numbers : x = E!Token("imm", m) /\ E!OnInteger(m)
  <2>1. PICK m \in Numbers : x = E!Token("imm", m) /\ E!OnInteger(m)
    BY <1>9
  <2>2. x.kind = "imm" /\ x.val = m /\ "imm" \notin E!Dyadic
    BY <2>1 DEF E!Mark, E!Token, E!Dyadic
  <2>4. Takes(u, k, Now) <=>
          /\ state \in E!Openers
          /\ state = "*" /\ prev = "reg" => index = E!NoReg /\ E!Narrow(m) \in E!Scales
    BY <1>1, <1>2, <2>2 DEF Takes, Now, Config
  <2>5. Moved(u, k, Now) =
          IF state = "*" /\ prev = "reg"
          THEN Config(base, tmp, tmp, E!Narrow(m), E!Front(ops), post)
          ELSE Config(base, index, tmp, scale, ops, Append(post, E!Token("imm", Signed(m, state, prev))))
    BY <1>1, <1>2, <2>2 DEF Moved, Now, Config
  <2>6. CASE state \in E!Openers /\ state = "*" /\ prev = "reg"
    <3>1. IF index # E!NoReg \/ E!Narrow(m) \notin E!Scales THEN E!Fails
            ELSE /\ state' = "int" /\ index' = tmp /\ scale' = E!Narrow(m)
                 /\ ops' = E!Front(ops)
                 /\ UNCHANGED <<base, tmp, post>>
      BY <2>1, <2>6 DEF E!OnInteger
    <3>2. CASE index # E!NoReg \/ E!Narrow(m) \notin E!Scales
      BY <2>4, <2>6, <3>1, <3>2 DEF E!Fails
    <3>3. CASE ~ (index # E!NoReg \/ E!Narrow(m) \notin E!Scales)
      <4>1. Now' = Config(base, tmp, tmp, E!Narrow(m), E!Front(ops), post) /\ state' = "int"
        BY <3>1, <3>3 DEF Now, Config
      <4> QED BY <1>3, <2>2, <2>4, <2>5, <2>6, <3>3, <4>1
    <3> QED BY <3>2, <3>3
  <2>7. CASE state \in E!Openers /\ ~ (state = "*" /\ prev = "reg")
    <3>1. /\ state' = "int"
          /\ post' = Append(post, E!Token("imm", Signed(m, state, prev)))
          /\ UNCHANGED <<base, index, tmp, scale, ops>>
      BY <2>1, <2>7 DEF E!OnInteger, Signed
    <3>2. Now' = Config(base, index, tmp, scale, ops, Append(post, E!Token("imm", Signed(m, state, prev))))
      BY <3>1 DEF Now, Config
    <3> QED BY <1>3, <2>2, <2>4, <2>5, <2>7, <3>1, <3>2
  <2>8. CASE state \notin E!Openers
    BY <2>1, <2>4, <2>8 DEF E!OnInteger, E!Fails, E!Openers
  <2> QED BY <2>6, <2>7, <2>8
<1>10. CASE x = E!Mark("(") /\ E!OnLParen
  <2>2. x.kind = "(" /\ "(" \notin E!Dyadic
    BY <1>10 DEF E!Mark, E!Token, E!Dyadic
  <2>4. Takes(u, k, Now) <=> state \in E!Openers /\ ~ (prev \in E!Openers /\ state \in {"-", "~"})
    BY <1>1, <1>2, <2>2 DEF Takes
  <2>5. Moved(u, k, Now) = Pushing(Now, "(")
    BY <1>1, <1>2, <2>2 DEF Moved
  <2> QED BY <1>3, <1>10, <2>2, <2>4, <2>5 DEF E!OnLParen, E!Fails, E!Operator, Pushing, Now, Config
<1>11. CASE x = E!Mark(")") /\ E!OnRParen
  <2>2. x.kind = ")" /\ ")" \notin E!Dyadic
    BY <1>11 DEF E!Mark, E!Token, E!Dyadic
  <2>4. Takes(u, k, Now) <=> state \in Ends
    BY <1>1, <1>2, <2>2 DEF Takes
  <2>5. Moved(u, k, Now) = Pushing(Now, ")")
    BY <1>1, <1>2, <2>2 DEF Moved
  <2> QED BY <1>3, <1>11, <2>2, <2>4, <2>5 DEF E!OnRParen, E!Fails, E!Operator, Pushing, Now, Config, Ends
<1> QED BY <1>4, <1>5, <1>6, <1>7, <1>8, <1>9, <1>10, <1>11

(* The configurations g went through when L tokens of t were taken.        *)
Trace(t, g, L) ==
  /\ g[0] = StartConfig
  /\ \A k \in 1 .. L : Takes(t, k, g[k - 1]) /\ g[k] = Moved(t, k, g[k - 1])
Finished(t, g) ==
  /\ Trace(t, g, Len(t)) /\ St(t, Len(t)) \in Ends
  /\ CanPlace(g[Len(t)], St(t, Len(t)), St(t, Len(t) - 1))
  /\ Now = Placed(g[Len(t)], St(t, Len(t)), St(t, Len(t) - 1))
Stuck(t, g) ==
  \/ Trace(t, g, Len(t)) /\ ~ CanPlace(g[Len(t)], St(t, Len(t)), St(t, Len(t) - 1))
  \/ Len(t) # 0 /\ Trace(t, g, Len(t) - 1) /\ ~ Takes(t, Len(t), g[Len(t) - 1])
Going(t, g) ==
  /\ state = St(t, Len(t)) /\ prev = St(t, Len(t) - 1)
  /\ Trace(t, g, Len(t)) /\ Now = g[Len(t)]
Traced ==
  /\ read \in Seq(Tok)
  /\ state \notin {"]", "error"} => \E g : Going(read, g)
  /\ state = "]" => \E g : Finished(read, g)
  /\ state = "error" => \E g : Stuck(read, g)

LEMMA Longer ==
  ASSUME NEW t \in Seq(Tok), NEW x \in Tok, NEW u, u = Append(t, x)
  PROVE  /\ u \in Seq(Tok) /\ Len(u) = Len(t) + 1 /\ u[Len(t) + 1] = x
         /\ \A k \in -1 .. Len(t) : St(u, k) = St(t, k)
         /\ \A k \in 1 .. Len(t) : u[k] = t[k]
<1>1. /\ u \in Seq(Tok) /\ Len(u) = Len(t) + 1 /\ u[Len(t) + 1] = x /\ Len(t) \in Nat
      /\ \A k \in 1 .. Len(t) : u[k] = t[k]
  BY AppendProperties
<1>2. \A k \in -1 .. Len(t) : St(u, k) = St(t, k)
  <2> SUFFICES ASSUME NEW k \in -1 .. Len(t) PROVE St(u, k) = St(t, k)
    OBVIOUS
  <2>1. k \in 1 .. Len(t) \/ k = 0 \/ k < 0
    BY <1>1
  <2> QED BY <1>1, <2>1 DEF St
<1> QED BY <1>1, <1>2

LEMMA LongerTrace ==
  ASSUME NEW t \in Seq(Tok), NEW x \in Tok, NEW u, u = Append(t, x), NEW g, Trace(t, g, Len(t)),
         NEW c
  PROVE  \E e : /\ e[Len(t)] = g[Len(t)] /\ e[Len(t) + 1] = c
                /\ Trace(u, e, Len(t))
<1>0. /\ \A k \in -1 .. Len(t) : St(u, k) = St(t, k)
      /\ \A k \in 1 .. Len(t) : u[k] = t[k]
  <2>1. t \in Seq(Tok) /\ x \in Tok /\ u = Append(t, x)
    OBVIOUS
  <2>2. \A k \in -1 .. Len(t) : St(u, k) = St(t, k)
    BY <2>1, Longer
  <2>3. \A k \in 1 .. Len(t) : u[k] = t[k]
    BY <2>1, Longer
  <2> QED BY <2>2, <2>3
<1> DEFINE L == Len(t)
           e == [k \in 0 .. L + 1 |-> IF k = L + 1 THEN c ELSE g[k]]
<1>1. L \in Nat /\ \A k \in 0 .. L : e[k] = g[k]
  OBVIOUS
<1>2. e[L + 1] = c /\ e[L] = g[L] /\ e[0] = g[0]
  BY <1>1
<1> HIDE DEF e
<1>3. ASSUME NEW k \in 1 .. L PROVE Takes(u, k, e[k - 1]) /\ e[k] = Moved(u, k, e[k - 1])
  <2>1. e[k] = g[k] /\ e[k - 1] = g[k - 1]
    BY <1>1
  <2>2. Takes(t, k, g[k - 1]) /\ g[k] = Moved(t, k, g[k - 1])
    BY DEF Trace
  <2>3. k - 1 \in -1 .. Len(t) /\ k - 2 \in -1 .. Len(t)
    BY <1>1
  <2>4. u[k] = t[k] /\ St(u, k - 1) = St(t, k - 1) /\ St(u, k - 2) = St(t, k - 2)
    BY <1>0, <2>3
  <2> HIDE DEF L
  <2>5. Takes(u, k, g[k - 1]) <=> Takes(t, k, g[k - 1])
    BY <2>4, Zenon DEF Takes
  <2>6. Moved(u, k, g[k - 1]) = Moved(t, k, g[k - 1])
    BY <2>4, Zenon DEF Moved
  <2> QED BY <2>1, <2>2, <2>5, <2>6
<1>4. Trace(u, e, L)
  BY <1>2, <1>3 DEF Trace
<1> QED BY <1>2, <1>4

LEMMA TracedInit == ASSUME E!Init PROVE Traced
<1>1. read = <<>> /\ state = "+" /\ prev = "error" /\ Now = StartConfig
  BY DEF E!Init, Now, StartConfig
<1>2. read \in Seq(Tok) /\ Len(read) = 0
  BY <1>1
<1>3. Going(read, [k \in {0} |-> StartConfig])
  BY <1>1, <1>2 DEF Going, Trace, St
<1> QED BY <1>1, <1>2, <1>3 DEF Traced

LEMMA TracedToken ==
  ASSUME Traced, state \notin {"]", "error"}, NEW x \in Tok,
         read' = Append(read, x), prev' = state, IsTaken(x)
  PROVE  Traced'
<1> DEFINE L == Len(read)
           u == read'
<1>0. L \in Nat /\ read \in Seq(Tok)
  BY DEF Traced
<1>1. PICK g : Going(read, g)
  BY DEF Traced
<1>2. PICK e : e[L] = g[L] /\ e[L + 1] = Now' /\ Trace(u, e, L)
  <2>1. Trace(read, g, L)
    BY <1>1 DEF Going
  <2> QED BY <1>0, <2>1, LongerTrace
<1>3. /\ u \in Seq(Tok) /\ Len(u) = L + 1 /\ u[L + 1] = x
      /\ \A k \in -1 .. L : St(u, k) = St(read, k)
  BY <1>0, Longer
<1>4. e[L] = Now
  BY <1>1, <1>2 DEF Going
<1>5. CASE Takes(u, L + 1, Now) /\ Now' = Moved(u, L + 1, Now) /\ state' = St(u, L + 1)
  <2>1. Trace(u, e, L + 1)
    <3>1. ASSUME NEW k \in 1 .. L + 1 PROVE Takes(u, k, e[k - 1]) /\ e[k] = Moved(u, k, e[k - 1])
      <4>1. CASE k \in 1 .. L
        BY <1>2, <4>1 DEF Trace
      <4>2. CASE k = L + 1
        <5>1. k - 1 = L
          BY <1>0, <4>2
        <5> QED BY <1>2, <1>4, <1>5, <4>2, <5>1
      <4> QED BY <1>0, <4>1, <4>2
    <3> QED BY <1>2, <3>1 DEF Trace
  <2>2. prev' = St(u, L)
    <3>1. L \in -1 .. L
      BY <1>0
    <3> QED BY <1>1, <1>3, <3>1 DEF Going
  <2>3. L + 1 - 1 = L /\ ~ (L + 1 < 0) /\ L + 1 # 0
    BY <1>0
  <2>4. /\ state' = St(read', Len(read')) /\ prev' = St(read', Len(read') - 1)
        /\ Trace(read', e, Len(read')) /\ Now' = e[Len(read')]
    BY <1>2, <1>3, <1>5, <2>1, <2>2, <2>3
  <2>5. state' \notin {"]", "error"}
    <3>1. state' = IF x.kind = "imm" THEN "int" ELSE x.kind
      BY <1>3, <1>5, <2>3 DEF St
    <3> QED BY <3>1 DEF Tok, Kinds, E!Dyadic
  <2> QED BY <1>3, <2>4, <2>5 DEF Traced, Going
<1>6. CASE ~ Takes(u, L + 1, Now) /\ state' = "error"
  <2>1. Len(u) # 0 /\ Len(u) - 1 = L
    BY <1>0, <1>3
  <2>2. Stuck(u, e)
    BY <1>2, <1>3, <1>4, <1>6, <2>1 DEF Stuck
  <2> QED BY <1>3, <1>6, <2>2 DEF Traced
<1> QED BY <1>5, <1>6 DEF IsTaken

LEMMA TracedNext == ASSUME Traced, E!Next PROVE Traced'
<1>0. read \in Seq(Tok)
  BY DEF Traced
<1>1. ASSUME NEW x \in Tok, E!Reads(x),
         \/ \E o \in Marks \ {"+", "-", "~", "(", ")"} : x = E!Mark(o) /\ E!OnOperator(o)
         \/ x = E!Mark("+") /\ E!OnPlus
         \/ x = E!Mark("-") /\ E!OnMinus
         \/ x = E!Mark("~") /\ E!OnNot
         \/ \E r \in Regs : x = E!Token("reg", r) /\ E!OnRegister(r)
         \/ \E m \in Numbers : x = E!Token("imm", m) /\ E!OnInteger(m)
         \/ x = E!Mark("(") /\ E!OnLParen
         \/ x = E!Mark(")") /\ E!OnRParen
      PROVE  Traced'
  <2>1. state \notin {"]", "error"}
    BY <1>1 DEF E!Reads
  <2>2. PICK g : Going(read, g)
    BY <2>1 DEF Traced
  <2>3. state = St(read, Len(read)) /\ prev = St(read, Len(read) - 1)
    BY <2>2 DEF Going
  <2>4. read' = Append(read, x) /\ prev' = state /\ IsTaken(x)
    BY <1>0, <1>1, <2>3, OneToken
  <2> QED BY <2>1, <2>4, TracedToken
<1>2. \A o \in Marks : E!Mark(o) \in Tok
  BY OperandConstants, Precedences DEF E!Mark, E!Token, Tok, Kinds
<1>3. \A r \in Regs : E!Token("reg", r) \in Tok
  BY OperandConstants DEF E!Token, Tok, Kinds
<1>4. \A m \in Numbers : E!Token("imm", m) \in Tok
  BY OperandConstants DEF E!Token, Tok, Kinds
<1>5. CASE \E o \in Marks \ {"+", "-", "~", "(", ")"} : E!OnOperator(o)
  <2>1. PICK o \in Marks \ {"+", "-", "~", "(", ")"} : E!OnOperator(o)
    BY <1>5
  <2>2. E!Reads(E!Mark(o))
    BY <2>1 DEF E!OnOperator
  <2> QED BY <1>1, <1>2, <2>1, <2>2
<1>6. CASE "+" \in Marks /\ E!OnPlus
  <2>1. E!Reads(E!Mark("+"))
    BY <1>6 DEF E!OnPlus
  <2> QED BY <1>1, <1>2, <1>6, <2>1
<1>7. CASE "-" \in Marks /\ E!OnMinus
  <2>1. E!Reads(E!Mark("-"))
    BY <1>7 DEF E!OnMinus
  <2> QED BY <1>1, <1>2, <1>7, <2>1
<1>8. CASE "~" \in Marks /\ E!OnNot
  <2>1. E!Reads(E!Mark("~"))
    BY <1>8 DEF E!OnNot
  <2> QED BY <1>1, <1>2, <1>8, <2>1
<1>9. CASE \E r \in Regs : E!OnRegister(r)
  <2>1. PICK r \in Regs : E!OnRegister(r)
    BY <1>9
  <2>2. E!Reads(E!Token("reg", r))
    BY <2>1 DEF E!OnRegister
  <2> QED BY <1>1, <1>3, <2>1, <2>2
<1>10. CASE \E m \in Numbers : E!OnInteger(m)
  <2>1. PICK m \in Numbers : E!OnInteger(m)
    BY <1>10
  <2>2. E!Reads(E!Token("imm", m))
    BY <2>1 DEF E!OnInteger
  <2> QED BY <1>1, <1>4, <2>1, <2>2
<1>11. CASE "(" \in Marks /\ E!OnLParen
  <2>1. E!Reads(E!Mark("("))
    BY <1>11 DEF E!OnLParen
  <2> QED BY <1>1, <1>2, <1>11, <2>1
<1>12. CASE ")" \in Marks /\ E!OnRParen
  <2>1. E!Reads(E!Mark(")"))
    BY <1>12 DEF E!OnRParen
  <2> QED BY <1>1, <1>2, <1>12, <2>1
<1>13. CASE E!OnRBrac
  <2>1. /\ state \in {"int", "reg", ")"} /\ prev' = state /\ E!PlaceRegister("]")
        /\ UNCHANGED <<read, tmp, ops, post>>
    BY <1>13 DEF E!OnRBrac
  <2>2. PICK g : Going(read, g)
    BY <2>1 DEF Traced
  <2>3. /\ state = St(read, Len(read)) /\ prev = St(read, Len(read) - 1)
        /\ Trace(read, g, Len(read)) /\ Now = g[Len(read)]
    BY <2>2 DEF Going
  <2>4. CASE CanPlace(Now, state, prev)
    <3>1. Now' = Placed(Now, state, prev) /\ state' = "]"
      BY <2>1, <2>4 DEF E!PlaceRegister, CanPlace, Placed, Stands, Now, Config
    <3>2. Finished(read, g)'
      BY <2>1, <2>3, <2>4, <3>1 DEF Finished, Ends
    <3> QED BY <1>0, <2>1, <3>1, <3>2 DEF Traced
  <2>5. CASE ~ CanPlace(Now, state, prev)
    <3>1. state' = "error"
      BY <2>1, <2>5 DEF E!PlaceRegister, CanPlace, Stands, Now, Config
    <3>2. Stuck(read, g)
      BY <2>3, <2>5 DEF Stuck
    <3>3. Stuck(read', g)
      BY <2>1, <3>2
    <3> QED BY <1>0, <2>1, <3>1, <3>3 DEF Traced
  <2> QED BY <2>4, <2>5
<1> QED
  BY <1>5, <1>6, <1>7, <1>8, <1>9, <1>10, <1>11, <1>12, <1>13 DEF E!Next

LEMMA TracedStays == ASSUME Traced, UNCHANGED operandVars PROVE Traced'
<1>1. read' = read /\ state' = state /\ prev' = prev /\ Now' = Now
  BY DEF operandVars, Now
<1> QED BY <1>1 DEF Traced, Going, Finished, Stuck

(* What each token does.                                                   *)
LEMMA MovedIs ==
  ASSUME NEW t \in Seq(Tok), NEW k \in 1 .. Len(t), NEW c
  PROVE  /\ t[k].kind \in Kinds /\ t[k].val \in Int
         /\ t[k].kind \in (E!Dyadic \ {"+", "-"}) \union {"(", ")"} =>
              Moved(t, k, c) = Pushing(c, t[k].kind)
         /\ t[k].kind = "+" =>
              Moved(t, k, c) = Pushing(Placed(c, St(t, k - 1), St(t, k - 2)), "+")
         /\ t[k].kind = "-" =>
              Moved(t, k, c) = IF St(t, k - 1) \in E!Signable THEN c
                               ELSE Pushing(Placed(c, St(t, k - 1), St(t, k - 2)), "-")
         /\ t[k].kind = "~" => Moved(t, k, c) = c
         /\ t[k].kind = "reg" /\ St(t, k - 1) \in {"+", "("} =>
              Moved(t, k, c) = Config(c.base, c.index, t[k].val, c.scale, c.ops,
                                      Append(c.post, E!Token("reg", 0)))
         /\ t[k].kind = "reg" /\ St(t, k - 1) \notin {"+", "("} =>
              Moved(t, k, c) = Config(c.base, t[k].val, c.tmp, E!Narrow(E!Last(c.post).val), E!Front(c.ops),
                                      Append(E!Front(c.post), E!Token("imm", 0)))
         /\ t[k].kind = "imm" /\ St(t, k - 1) = "*" /\ St(t, k - 2) = "reg" =>
              Moved(t, k, c) = Config(c.base, c.tmp, c.tmp, E!Narrow(t[k].val), E!Front(c.ops), c.post)
         /\ t[k].kind = "imm" /\ ~ (St(t, k - 1) = "*" /\ St(t, k - 2) = "reg") =>
              Moved(t, k, c) = Config(c.base, c.index, c.tmp, c.scale, c.ops,
                Append(c.post, E!Token("imm", Signed(t[k].val, St(t, k - 1), St(t, k - 2)))))
<1> DEFINE x == t[k]
<1>1. x \in Tok
  OBVIOUS
<1>2. x.kind \in Kinds /\ x.val \in Int
  BY <1>1 DEF Tok
<1>3. /\ "+" \in E!Dyadic /\ "-" \in E!Dyadic
      /\ \A o \in E!Dyadic : o \notin {"(", ")", "~", "imm", "reg"}
  BY Precedences DEF E!Dyadic
<1> HIDE DEF x
<1>4. Moved(t, k, c) =
        CASE x.kind \in (E!Dyadic \ {"+", "-"}) \union {"(", ")"} -> Pushing(c, x.kind)
          [] x.kind = "+" -> Pushing(Placed(c, St(t, k - 1), St(t, k - 2)), "+")
          [] x.kind = "-" -> IF St(t, k - 1) \in E!Signable THEN c
                             ELSE Pushing(Placed(c, St(t, k - 1), St(t, k - 2)), "-")
          [] x.kind = "~" -> c
          [] x.kind = "reg" ->
               IF St(t, k - 1) \in {"+", "("}
               THEN Config(c.base, c.index, x.val, c.scale, c.ops, Append(c.post, E!Token("reg", 0)))
               ELSE Config(c.base, x.val, c.tmp, E!Narrow(E!Last(c.post).val), E!Front(c.ops),
                           Append(E!Front(c.post), E!Token("imm", 0)))
          [] OTHER ->
               IF St(t, k - 1) = "*" /\ St(t, k - 2) = "reg"
               THEN Config(c.base, c.tmp, c.tmp, E!Narrow(x.val), E!Front(c.ops), c.post)
               ELSE Config(c.base, c.index, c.tmp, c.scale, c.ops,
                      Append(c.post, E!Token("imm", Signed(x.val, St(t, k - 1), St(t, k - 2)))))
  BY DEF Moved, x
<1> SUFFICES
         /\ x.kind \in (E!Dyadic \ {"+", "-"}) \union {"(", ")"} =>
              Moved(t, k, c) = Pushing(c, x.kind)
         /\ x.kind = "+" =>
              Moved(t, k, c) = Pushing(Placed(c, St(t, k - 1), St(t, k - 2)), "+")
         /\ x.kind = "-" =>
              Moved(t, k, c) = IF St(t, k - 1) \in E!Signable THEN c
                               ELSE Pushing(Placed(c, St(t, k - 1), St(t, k - 2)), "-")
         /\ x.kind = "~" => Moved(t, k, c) = c
         /\ x.kind = "reg" /\ St(t, k - 1) \in {"+", "("} =>
              Moved(t, k, c) = Config(c.base, c.index, x.val, c.scale, c.ops,
                                      Append(c.post, E!Token("reg", 0)))
         /\ x.kind = "reg" /\ St(t, k - 1) \notin {"+", "("} =>
              Moved(t, k, c) = Config(c.base, x.val, c.tmp, E!Narrow(E!Last(c.post).val), E!Front(c.ops),
                                      Append(E!Front(c.post), E!Token("imm", 0)))
         /\ x.kind = "imm" /\ St(t, k - 1) = "*" /\ St(t, k - 2) = "reg" =>
              Moved(t, k, c) = Config(c.base, c.tmp, c.tmp, E!Narrow(x.val), E!Front(c.ops), c.post)
         /\ x.kind = "imm" /\ ~ (St(t, k - 1) = "*" /\ St(t, k - 2) = "reg") =>
              Moved(t, k, c) = Config(c.base, c.index, c.tmp, c.scale, c.ops,
                Append(c.post, E!Token("imm", Signed(x.val, St(t, k - 1), St(t, k - 2)))))
  BY <1>2 DEF x
<1>5. CASE x.kind \in (E!Dyadic \ {"+", "-"}) \union {"(", ")"}
  BY <1>3, <1>4, <1>5
<1>6. CASE x.kind = "+"
  BY <1>3, <1>4, <1>6
<1>7. CASE x.kind = "-"
  BY <1>3, <1>4, <1>7
<1>8. CASE x.kind = "~"
  BY <1>3, <1>4, <1>8
<1>9. CASE x.kind = "reg"
  BY <1>3, <1>4, <1>9
<1>10. CASE x.kind = "imm"
  BY <1>3, <1>4, <1>10
<1> QED BY <1>2, <1>5, <1>6, <1>7, <1>8, <1>9, <1>10 DEF Kinds

LEMMA PushTop ==
  ASSUME NEW s \in Seq(Opers), NEW o \in Opers, NEW z, z = E!PushOperator(s, o)
  PROVE  /\ z.ops \in Seq(Opers) /\ z.out \in Seq(ICTok)
         /\ Len(z.ops) > 0 /\ z.ops[Len(z.ops)] = o
<1>1. CASE z = [ops |-> Append(s, o), out |-> <<>>]
  BY <1>1
<1>2. CASE z = E!Unstacked(s, o)
  <2> DEFINE S == {0} \union {p \in DOMAIN s : E!Stops(s, p, o)}
  <2>1. Len(s) \in Nat /\ S \subseteq 0 .. Len(s) /\ S # {}
    OBVIOUS
  <2>2. z = [ops |-> Append(SubSeq(s, 1, E!Max(S)), o),
             out |-> E!Operators(SubSeq(s, E!Max(S) + 1, Len(s)))]
    BY <1>2 DEF E!Unstacked
  <2> HIDE DEF S
  <2>3. PICK b \in S : \A y \in S : y <= b
    BY <2>1, Extremes
  <2>4. E!Max(S) \in S
    <3>1. E!Max(S) = CHOOSE x \in S : \A y \in S : x >= y
      BY DEF E!Max
    <3>2. \A y \in S : b >= y
      BY <2>1, <2>3
    <3> QED BY <3>1, <3>2
  <2> DEFINE M == E!Max(S)
  <2>5. M \in 0 .. Len(s)
    BY <2>1, <2>4
  <2> HIDE DEF M
  <2>6. SubSeq(s, 1, M) \in Seq(Opers)
    BY <2>1, <2>5, SubSeqProperties
  <2>7. SubSeq(s, M + 1, Len(s)) \in Seq(Opers)
    BY <2>1, <2>5, SubSeqProperties
  <2>8. E!Operators(SubSeq(s, M + 1, Len(s))) \in Seq(ICTok)
    BY <2>7, OperatorsTop
  <2>9. z = [ops |-> Append(SubSeq(s, 1, M), o), out |-> E!Operators(SubSeq(s, M + 1, Len(s)))]
    BY <2>2 DEF M
  <2> QED BY <2>6, <2>8, <2>9
<1> QED BY <1>1, <1>2 DEF E!PushOperator

LEMMA PushingTypes ==
  ASSUME NEW c, NEW o \in Opers, c.ops \in Seq(Opers), c.post \in Seq(ICTok)
  PROVE  /\ Pushing(c, o).ops \in Seq(Opers) /\ Pushing(c, o).post \in Seq(ICTok)
         /\ Len(Pushing(c, o).ops) > 0 /\ Pushing(c, o).ops[Len(Pushing(c, o).ops)] = o
<1> DEFINE z == E!PushOperator(c.ops, o)
<1>1. /\ z.ops \in Seq(Opers) /\ z.out \in Seq(ICTok)
      /\ Len(z.ops) > 0 /\ z.ops[Len(z.ops)] = o
  BY PushTop
<1>2. Pushing(c, o).ops = z.ops /\ Pushing(c, o).post = c.post \o z.out
  BY DEF Pushing, Config
<1> HIDE DEF z
<1>3. c.post \o z.out \in Seq(ICTok)
  BY <1>1, ConcatProperties
<1> QED BY <1>1, <1>2, <1>3

LEMMA PlacedKeeps ==
  ASSUME NEW c, NEW s, NEW p
  PROVE  Placed(c, s, p).ops = c.ops /\ Placed(c, s, p).post = c.post
BY DEF Placed, Config

LEMMA FrontIn ==
  ASSUME NEW S, NEW s \in Seq(S) PROVE E!Front(s) \in Seq(S)
<1>1. CASE Len(s) = 0
  <2>1. E!Front(s) = SubSeq(s, 1, Len(s) - 1)
    BY DEF E!Front
  <2>2. SubSeq(s, 1, Len(s) - 1) = <<>>
    BY <1>1, SubSeqEmpty
  <2> QED BY <2>1, <2>2
<1>2. CASE Len(s) # 0
  <2>1. E!Front(s) = SubSeq(s, 1, Len(s) - 1)
    BY DEF E!Front
  <2>2. SubSeq(s, 1, Len(s) - 1) \in Seq(S)
    BY <1>2, SubSeqProperties
  <2> QED BY <2>1, <2>2
<1> QED BY <1>1, <1>2

LEMMA MovedTypes ==
  ASSUME NEW t \in Seq(Tok), NEW k \in 1 .. Len(t), NEW c, c.ops \in Seq(Opers), c.post \in Seq(ICTok)
  PROVE  Moved(t, k, c).ops \in Seq(Opers) /\ Moved(t, k, c).post \in Seq(ICTok)
<1> DEFINE s == St(t, k - 1)
           p == St(t, k - 2)
           e == Moved(t, k, c)
           d == Placed(c, s, p)
<1>1. d.ops \in Seq(Opers) /\ d.post \in Seq(ICTok)
  BY PlacedKeeps
<1>2. t[k].kind \in Kinds /\ t[k].val \in Int
  BY MovedIs
<1>3. \A v \in Int : E!Token("imm", v) \in ICTok /\ E!Token("reg", v) \in ICTok
  BY DEF E!Token, ICTok
<1>4. E!Front(c.ops) \in Seq(Opers) /\ E!Front(c.post) \in Seq(ICTok)
  BY FrontIn
<1>5. CASE t[k].kind \in (E!Dyadic \ {"+", "-"}) \union {"(", ")"}
  <2>1. e = Pushing(c, t[k].kind)
    BY <1>5, MovedIs
  <2>2. t[k].kind \in Opers
    BY <1>5 DEF Opers
  <2> QED BY <2>1, <2>2, PushingTypes
<1>6. CASE t[k].kind \in {"+", "-"}
  <2>1. e = c \/ e = Pushing(d, t[k].kind)
    BY <1>6, MovedIs
  <2>2. t[k].kind \in Opers
    BY <1>6 DEF Opers, E!Dyadic
  <2> HIDE DEF d, e
  <2>3. CASE e = Pushing(d, t[k].kind)
    BY <1>1, <2>2, <2>3, PushingTypes DEF e
  <2> QED BY <2>1, <2>3 DEF e
<1>7. CASE t[k].kind = "~"
  <2>1. e = c
    BY <1>7, MovedIs
  <2> QED BY <2>1
<1>8. CASE t[k].kind = "reg"
  <2>1. CASE s \in {"+", "("}
    <3>1. e = Config(c.base, c.index, t[k].val, c.scale, c.ops, Append(c.post, E!Token("reg", 0)))
      BY <1>8, <2>1, MovedIs
    <3>2. e.ops = c.ops /\ e.post = Append(c.post, E!Token("reg", 0))
      BY <3>1 DEF Config
    <3> QED BY <1>3, <3>2
  <2>2. CASE s \notin {"+", "("}
    <3>1. e = Config(c.base, t[k].val, c.tmp, E!Narrow(E!Last(c.post).val), E!Front(c.ops),
                     Append(E!Front(c.post), E!Token("imm", 0)))
      BY <1>8, <2>2, MovedIs
    <3>2. e.ops = E!Front(c.ops) /\ e.post = Append(E!Front(c.post), E!Token("imm", 0))
      BY <3>1 DEF Config
    <3> QED BY <1>3, <1>4, <3>2
  <2> QED BY <2>1, <2>2
<1>9. CASE t[k].kind = "imm"
  <2>1. CASE s = "*" /\ p = "reg"
    <3>1. e = Config(c.base, c.tmp, c.tmp, E!Narrow(t[k].val), E!Front(c.ops), c.post)
      BY <1>9, <2>1, MovedIs
    <3>2. e.ops = E!Front(c.ops) /\ e.post = c.post
      BY <3>1 DEF Config
    <3> QED BY <1>4, <3>2
  <2>2. CASE ~ (s = "*" /\ p = "reg")
    <3>0. Signed(t[k].val, s, p) \in Int
      BY <1>2 DEF Signed
    <3>1. e = Config(c.base, c.index, c.tmp, c.scale, c.ops,
                     Append(c.post, E!Token("imm", Signed(t[k].val, s, p))))
      BY <1>9, <2>2, MovedIs
    <3>2. e.ops = c.ops /\ e.post = Append(c.post, E!Token("imm", Signed(t[k].val, s, p)))
      BY <3>1 DEF Config
    <3> QED BY <1>3, <3>0, <3>2
  <2> QED BY <2>1, <2>2
<1> QED BY <1>2, <1>5, <1>6, <1>7, <1>8, <1>9 DEF Kinds

LEMMA TraceTypes ==
  ASSUME NEW t \in Seq(Tok), NEW L \in 0 .. Len(t), NEW g, Trace(t, g, L)
  PROVE  \A k \in 0 .. L : g[k].ops \in Seq(Opers) /\ g[k].post \in Seq(ICTok)
<1> DEFINE T == {m \in Nat : m <= L => g[m].ops \in Seq(Opers) /\ g[m].post \in Seq(ICTok)}
<1>1. 0 \in T
  <2>1. g[0].ops = <<>> /\ g[0].post = <<>>
    BY DEF Trace, StartConfig, Config
  <2>2. <<>> \in Seq(Opers) /\ <<>> \in Seq(ICTok)
    OBVIOUS
  <2> QED BY <2>1, <2>2
<1>2. ASSUME NEW m \in Nat, m \in T PROVE m + 1 \in T
  <2> SUFFICES ASSUME m + 1 <= L PROVE g[m + 1].ops \in Seq(Opers) /\ g[m + 1].post \in Seq(ICTok)
    OBVIOUS
  <2>1. m + 1 \in 1 .. L /\ m + 1 \in 1 .. Len(t) /\ (m + 1) - 1 = m
    OBVIOUS
  <2>2. g[m].ops \in Seq(Opers) /\ g[m].post \in Seq(ICTok)
    BY <1>2
  <2>3. g[m + 1] = Moved(t, m + 1, g[m])
    BY <2>1 DEF Trace
  <2> QED BY <2>1, <2>2, <2>3, MovedTypes
<1> HIDE DEF T
<1>3. Nat \subseteq T
  BY <1>1, <1>2, NatSetInduction
<1> QED BY <1>3 DEF T

-----------------------------------------------------------------------------
\* Plain operands: every register is added, alone or times a number.

(* Register r is added with what stands from a to b.                       *)
IsAddend(t, h, r, a, b) ==
  /\ t[r].kind = "reg" /\ a \in 1 .. r /\ b \in r .. Len(t)
  /\ \A k \in a .. b : h[k] = 0
  /\ a > 1 => t[a - 1].kind = "+"
  /\ b < Len(t) => t[b + 1].kind \in {"+", "-"}
  /\ \/ a = r /\ b = r /\ E!Alone(t, r)
     \/ /\ a = r - 2 /\ b = r /\ t[r - 2].kind = "imm" /\ t[r - 1].kind = "*"
        /\ E!Times(t, r, r - 2)
     \/ /\ a = r /\ b = r + 2 /\ t[r + 2].kind = "imm" /\ t[r + 1].kind = "*"
        /\ E!Times(t, r, r + 2)
Plain(t, h, f) ==
  /\ Reading(t, f) /\ f[t] # E!Nonsense
  /\ \A r \in 1 .. Len(t) : t[r].kind = "reg" =>
       \E a \in 1 .. Len(t), b \in 1 .. Len(t) : IsAddend(t, h, r, a, b)

LEMMA AddendIs ==
  ASSUME NEW t \in Seq(Tok), NEW h \in Heights(t), NEW a \in 1 .. Len(t), NEW b \in a .. Len(t),
         t[a].kind # ")", E!Addend(t, a, b)
  PROVE  /\ h[a] = 0
         /\ a > 1 => t[a - 1].kind = "+"
         /\ b < Len(t) => t[b + 1].kind \in {"+", "-"}
<1>0. Len(t) \in Nat /\ DOMAIN t = 1 .. Len(t) /\ Len(t) \in 1 .. Len(t) /\ 1 \in 1 .. Len(t)
  OBVIOUS
<1>1. SubSeq(t, 1, Len(t)) = t
  BY <1>0, SubSeqFull
<1>2. E!Depth(t, a) = 0
  BY DEF E!Addend
<1>3. E!Depth(t, a) = h[a] - h[0]
  <2>1. /\ 1 \in 1 .. Len(t) /\ Len(t) \in 1 .. Len(t) /\ a \in 1 .. Len(t) - 1 + 1
        /\ 1 + a - 1 = a /\ 1 - 1 = 0
    BY <1>0
  <2>2. E!Depth(SubSeq(t, 1, Len(t)), a)
          = h[1 + a - 1] - h[1 - 1] + (IF t[1 + a - 1].kind = ")" THEN 1 ELSE 0)
    BY <2>1, DepthIs
  <2>3. h[a] \in Int /\ h[0] \in Int
    BY <1>0 DEF Heights
  <2>4. t[1 + a - 1] = t[a] /\ h[1 + a - 1] = h[a] /\ h[1 - 1] = h[0]
    BY <2>1
  <2>5. E!Depth(SubSeq(t, 1, Len(t)), a) = h[a] - h[0] + 0
    BY <2>2, <2>4
  <2>6. E!Depth(t, a) = h[a] - h[0] + 0
    BY <1>1, <2>5, Zenon
  <2> QED BY <2>3, <2>6
<1>4. h[a] = 0
  <2>1. h[a] \in Int /\ h[0] = 0
    BY <1>0 DEF Heights
  <2> QED BY <1>2, <1>3, <2>1
<1>5. a > 1 => t[a - 1].kind = "+"
  <2> SUFFICES ASSUME a > 1 PROVE t[a - 1].kind = "+"
    OBVIOUS
  <2>1. a - 1 \in DOMAIN t
    BY <1>0
  <2>2. E!At(t, a - 1).kind = "+"
    BY DEF E!Addend
  <2> QED BY <2>1, <2>2 DEF E!At
<1>6. b < Len(t) => t[b + 1].kind \in {"+", "-"}
  <2> SUFFICES ASSUME b < Len(t) PROVE t[b + 1].kind \in {"+", "-"}
    OBVIOUS
  <2>1. b + 1 \in DOMAIN t
    BY <1>0
  <2>2. E!At(t, b + 1).kind \in {"+", "-"}
    BY DEF E!Addend
  <2> QED BY <2>1, <2>2 DEF E!At
<1> QED BY <1>4, <1>5, <1>6

LEMMA InDomain ==
  ASSUME NEW t \in Seq(Tok), NEW k \in Int, E!At(t, k).kind # "+"
  PROVE  k \in 1 .. Len(t) /\ E!At(t, k) = t[k]
<1>1. k \in DOMAIN t
  BY DEF E!At, E!Mark, E!Token
<1> QED BY <1>1 DEF E!At

LEMMA AddendOf ==
  ASSUME NEW t \in Seq(Tok), NEW h \in Heights(t), NEW r \in 1 .. Len(t), t[r].kind = "reg",
         E!Alone(t, r) \/ E!Times(t, r, r - 2) \/ E!Times(t, r, r + 2)
  PROVE  \E a \in 1 .. Len(t), b \in 1 .. Len(t) : IsAddend(t, h, r, a, b)
<1>0. r \in Int /\ Len(t) \in Nat
  OBVIOUS
<1>1. CASE E!Alone(t, r)
  <2>1. E!Addend(t, r, r)
    BY <1>1 DEF E!Alone
  <2>2. /\ h[r] = 0
        /\ r > 1 => t[r - 1].kind = "+"
        /\ r < Len(t) => t[r + 1].kind \in {"+", "-"}
    BY <1>0, <2>1, AddendIs
  <2>3. \A k \in r .. r : h[k] = 0
    BY <2>2
  <2>4. IsAddend(t, h, r, r, r)
    BY <1>1, <2>2, <2>3 DEF IsAddend
  <2> QED BY <2>4
<1>2. CASE E!Times(t, r, r - 2)
  <2>1. /\ E!At(t, r - 2).kind = "imm" /\ E!At(t, (r + (r - 2)) \div 2).kind = "*"
        /\ E!Addend(t, r - 2, r)
    BY <1>2 DEF E!Times, E!Product
  <2>2. (r + (r - 2)) \div 2 = r - 1
    OBVIOUS
  <2>3. r - 2 \in 1 .. Len(t) /\ t[r - 2].kind = "imm"
    <3>1. r - 2 \in Int
      OBVIOUS
    <3> QED BY <2>1, <3>1, InDomain
  <2>4. r - 1 \in 1 .. Len(t) /\ t[r - 1].kind = "*"
    <3>1. r - 1 \in Int /\ E!At(t, r - 1).kind = "*"
      BY <2>1, <2>2
    <3> QED BY <3>1, InDomain
  <2>5. /\ h[r - 2] = 0
        /\ r - 2 > 1 => t[(r - 2) - 1].kind = "+"
        /\ r < Len(t) => t[r + 1].kind \in {"+", "-"}
    <3> DEFINE a == r - 2
    <3>1. a \in 1 .. Len(t) /\ r \in a .. Len(t) /\ t[a].kind # ")" /\ E!Addend(t, a, r)
      BY <2>1, <2>3
    <3> HIDE DEF a
    <3>2. /\ h[a] = 0
          /\ a > 1 => t[a - 1].kind = "+"
          /\ r < Len(t) => t[r + 1].kind \in {"+", "-"}
      BY <3>1, AddendIs
    <3> QED BY <3>2 DEF a
  <2>6. h[r - 1] = 0 /\ h[r] = 0
    <3>1. h[r - 1] = h[(r - 1) - 1]
      BY <2>4, HeightStep
    <3>2. h[r] = h[r - 1]
      BY HeightStep
    <3> QED BY <2>5, <3>1, <3>2
  <2>7. \A k \in r - 2 .. r : h[k] = 0
    <3>1. \A k \in r - 2 .. r : k = r - 2 \/ k = r - 1 \/ k = r
      OBVIOUS
    <3> QED BY <2>5, <2>6, <3>1
  <2>8. IsAddend(t, h, r, r - 2, r)
    BY <1>2, <2>3, <2>4, <2>5, <2>7 DEF IsAddend
  <2> QED BY <2>3, <2>8
<1>3. CASE E!Times(t, r, r + 2)
  <2>1. /\ E!At(t, r + 2).kind = "imm" /\ E!At(t, (r + (r + 2)) \div 2).kind = "*"
        /\ E!Addend(t, r, r + 2)
    BY <1>3 DEF E!Times, E!Product
  <2>2. (r + (r + 2)) \div 2 = r + 1
    OBVIOUS
  <2>3. r + 2 \in 1 .. Len(t) /\ t[r + 2].kind = "imm"
    <3>1. r + 2 \in Int
      OBVIOUS
    <3> QED BY <2>1, <3>1, InDomain
  <2>4. r + 1 \in 1 .. Len(t) /\ t[r + 1].kind = "*"
    <3>1. r + 1 \in Int /\ E!At(t, r + 1).kind = "*"
      BY <2>1, <2>2
    <3> QED BY <3>1, InDomain
  <2>5. /\ h[r] = 0
        /\ r > 1 => t[r - 1].kind = "+"
        /\ r + 2 < Len(t) => t[(r + 2) + 1].kind \in {"+", "-"}
    <3> DEFINE b == r + 2
    <3>1. r \in 1 .. Len(t) /\ b \in r .. Len(t) /\ t[r].kind # ")" /\ E!Addend(t, r, b)
      BY <2>1, <2>3
    <3> HIDE DEF b
    <3>2. /\ h[r] = 0
          /\ r > 1 => t[r - 1].kind = "+"
          /\ b < Len(t) => t[b + 1].kind \in {"+", "-"}
      BY <3>1, AddendIs
    <3> QED BY <3>2 DEF b
  <2>6. h[r + 1] = 0 /\ h[r + 2] = 0
    <3>1. h[r + 1] = h[(r + 1) - 1] /\ (r + 1) - 1 = r
      BY <2>4, HeightStep
    <3>2. h[r + 2] = h[(r + 2) - 1] /\ (r + 2) - 1 = r + 1
      BY <2>3, HeightStep
    <3> QED BY <2>5, <3>1, <3>2
  <2>7. \A k \in r .. r + 2 : h[k] = 0
    <3>1. \A k \in r .. r + 2 : k = r \/ k = r + 1 \/ k = r + 2
      OBVIOUS
    <3> QED BY <2>5, <2>6, <3>1
  <2>8. IsAddend(t, h, r, r, r + 2)
    BY <1>3, <2>3, <2>4, <2>5, <2>7 DEF IsAddend
  <2> QED BY <2>3, <2>8
<1> QED BY <1>1, <1>2, <1>3

LEMMA PlainRead ==
  ASSUME NEW t \in Seq(Tok), NEW h \in Heights(t), E!IsPlain(t)
  PROVE  \E f : Plain(t, h, f) /\ E!Meaning(t) = f[t]
<1>1. PICK f : Reading(t, f) /\ E!Meaning(t) = f[t]
  BY MeaningRead
<1>2. f[t] # E!Nonsense
  BY <1>1 DEF E!IsPlain
<1>3. ASSUME NEW r \in 1 .. Len(t), t[r].kind = "reg"
      PROVE  \E a \in 1 .. Len(t), b \in 1 .. Len(t) : IsAddend(t, h, r, a, b)
  <2>1. r \in E!RegsOf(t)
    BY <1>3 DEF E!RegsOf
  <2>2. E!Alone(t, r) \/ E!Times(t, r, r - 2) \/ E!Times(t, r, r + 2)
    BY <2>1 DEF E!IsPlain
  <2> QED BY <1>3, <2>2, AddendOf
<1> QED BY <1>1, <1>2, <1>3 DEF Plain

LEMMA PlainFacts ==
  ASSUME NEW t \in Seq(Tok), NEW h \in Heights(t), NEW f, Plain(t, h, f)
  PROVE  /\ Len(t) \in Nat \ {0} /\ f[SubSeq(t, 1, Len(t))] # E!Nonsense
         /\ SubSeq(t, 1, Len(t)) = t
         /\ WellFormed(t, h, 1, Len(t))
         /\ \A k \in 0 .. Len(t) : h[k] \in Int /\ h[k] >= 0
         /\ h[0] = 0 /\ h[Len(t)] = 0
<1>0. Len(t) \in Nat /\ 1 \in 1 .. Len(t) + 1 /\ Len(t) \in 0 .. Len(t)
  OBVIOUS
<1>1. SubSeq(t, 1, Len(t)) = t
  BY <1>0, SubSeqFull
<1>2. f[SubSeq(t, 1, Len(t))] # E!Nonsense
  BY <1>1 DEF Plain
<1>3. WellFormed(t, h, 1, Len(t))
  BY <1>0, <1>2, PartsWellFormed DEF Plain
<1>4. 1 <= Len(t) /\ h[Len(t)] = h[1 - 1] /\ \A k \in 1 .. Len(t) : h[k] >= h[1 - 1]
  BY <1>3 DEF WellFormed
<1>5. h[0] = 0 /\ \A k \in 0 .. Len(t) : h[k] \in Int
  BY DEF Heights
<1>6. 1 - 1 = 0 /\ \A k \in 0 .. Len(t) : k = 0 \/ k \in 1 .. Len(t)
  OBVIOUS
<1>7. \A k \in 0 .. Len(t) : h[k] >= 0
  BY <1>4, <1>5, <1>6
<1> QED BY <1>0, <1>1, <1>2, <1>3, <1>4, <1>5, <1>6, <1>7

-----------------------------------------------------------------------------
\* How often each register is added.

Factor(t, r) ==
  IF E!At(t, r - 1).kind = "*" THEN E!At(t, r - 2).val
  ELSE IF E!At(t, r + 1).kind = "*" THEN E!At(t, r + 2).val ELSE 1
Shares(t, k) ==
  [q \in Regs |-> IF t[k].kind = "reg" /\ t[k].val = q THEN Factor(t, k) ELSE 0]
RegSums(t) ==
  {R \in [0 .. Len(t) -> [Regs -> Int]] :
     /\ R[0] = [q \in Regs |-> 0]
     /\ \A k \in 1 .. Len(t) : R[k] = [q \in Regs |-> R[k - 1][q] + Shares(t, k)[q]]}

LEMMA FactorIsInt == ASSUME NEW t \in Seq(Tok), NEW r \in Int PROVE Factor(t, r) \in Int
<1>1. \A k \in Int : E!At(t, k).val \in Int
  <2> SUFFICES ASSUME NEW k \in Int PROVE E!At(t, k).val \in Int
    OBVIOUS
  <2>1. CASE k \in DOMAIN t
    <3>1. E!At(t, k) = t[k] /\ t[k] \in Tok
      BY <2>1 DEF E!At
    <3> QED BY <3>1 DEF Tok
  <2>2. CASE k \notin DOMAIN t
    BY <2>2 DEF E!At, E!Mark, E!Token
  <2> QED BY <2>1, <2>2
<1>2. r - 2 \in Int /\ r + 2 \in Int
  OBVIOUS
<1> QED BY <1>1, <1>2 DEF Factor

LEMMA SumsExist == ASSUME NEW t \in Seq(Tok) PROVE RegSums(t) # {}
<1> DEFINE S == [Regs -> Int]
           step == [k \in 1 .. Len(t) |-> [x \in S |-> [q \in Regs |-> x[q] + Shares(t, k)[q]]]]
<1>1. \A k \in 1 .. Len(t) : Shares(t, k) \in S
  BY FactorIsInt DEF Shares
<1>2. step \in Steps(S, Len(t))
  <2>1. \A k \in 1 .. Len(t) : \A x \in S : [q \in Regs |-> x[q] + Shares(t, k)[q]] \in S
    BY <1>1
  <2> HIDE DEF S
  <2> QED BY <2>1 DEF Steps
<1> DEFINE zero == [q \in Regs |-> 0]
<1>3. Len(t) \in Nat /\ zero \in S
  OBVIOUS
<1>4. PICK h : h \in Recursive(S, zero, Len(t), step)
  <2> HIDE DEF step, S, zero
  <2> QED BY <1>2, <1>3, RecursionExists
<1>5. h \in [0 .. Len(t) -> S] /\ h[0] = zero
  BY <1>4 DEF Recursive
<1>6. ASSUME NEW k \in 1 .. Len(t)
      PROVE  h[k] = [q \in Regs |-> h[k - 1][q] + Shares(t, k)[q]]
  <2>1. h[k] = step[k][h[k - 1]]
    BY <1>4 DEF Recursive
  <2>2. h[k - 1] \in S
    <3> HIDE DEF S, zero
    <3>1. k - 1 \in 0 .. Len(t)
      OBVIOUS
    <3> QED BY <1>5, <3>1
  <2> HIDE DEF S
  <2> QED BY <2>1, <2>2
<1>7. h \in RegSums(t)
  <2> HIDE DEF step
  <2> QED BY <1>5, <1>6 DEF RegSums
<1> QED BY <1>7

(* No addend of a register is cut by the borders of the part.              *)
Free(t, h, i, j) ==
  \A r \in 1 .. Len(t), a \in 1 .. Len(t), b \in 1 .. Len(t) :
    IsAddend(t, h, r, a, b) => b < i \/ j < a \/ (i <= a /\ b <= j)

LEMMA EdgesAreCuts ==
  ASSUME NEW t \in Seq(Tok), NEW h \in Heights(t), NEW i \in 1 .. Len(t), NEW j \in 1 .. Len(t),
         WellFormed(t, h, i, j), h[i - 1] >= 0,
         NEW r \in 1 .. Len(t), NEW a \in 1 .. Len(t), NEW b \in 1 .. Len(t),
         IsAddend(t, h, r, a, b), i <= a, b <= j
  PROVE  /\ h[i - 1] = 0
         /\ i < a => IsCut(t, h, i, j, a - 1) /\ t[a - 1].kind = "+"
         /\ b < j => IsCut(t, h, i, j, b + 1) /\ t[b + 1].kind \in {"+", "-"}
<1>0. /\ i \in Int /\ j \in Int /\ a \in Int /\ b \in Int /\ r \in Int /\ Len(t) \in Nat
      /\ a <= r /\ r <= b
  BY DEF IsAddend
<1>1. /\ "+" \in E!Dyadic /\ "-" \in E!Dyadic
      /\ \A o \in E!Dyadic : o \notin {"(", ")", "~", "imm", "reg"}
  BY Precedences DEF E!Dyadic
<1>2. /\ t[a].kind \in {"imm", "reg"} /\ t[b].kind \in {"imm", "reg"}
      /\ h[a] = 0 /\ h[b] = 0
  BY <1>0 DEF IsAddend
<1>3. h[i - 1] = 0
  <2>1. h[a] >= h[i - 1]
    BY <1>0 DEF WellFormed
  <2>2. h[i - 1] \in Int
    BY HeightStep
  <2> QED BY <1>2, <2>1, <2>2
<1>4. ASSUME i < a PROVE IsCut(t, h, i, j, a - 1) /\ t[a - 1].kind = "+"
  <2>1. t[a - 1].kind = "+"
    BY <1>0, <1>4 DEF IsAddend
  <2>2. a - 1 # i
    <3>1. Opens(t[i])
      BY DEF WellFormed
    <3> QED BY <2>1, <3>1 DEF Opens
  <2>3. a - 1 \in i + 1 .. j /\ a - 2 \in i .. j - 1 /\ (a - 2) + 1 = a - 1 /\ (a - 1) - 1 = a - 2
    BY <1>0, <1>4, <2>2
  <2>4. Follows(t, i, a - 2)
    BY <2>3 DEF WellFormed
  <2>5. E!IsOperandEnd(t[a - 2])
    BY <2>1, <2>3, <2>4 DEF Follows, Opens
  <2>6. h[a - 1] = 0
    BY <1>2, HeightStep
  <2> QED BY <1>1, <1>3, <2>1, <2>3, <2>5, <2>6 DEF IsCut
<1>5. ASSUME b < j PROVE IsCut(t, h, i, j, b + 1) /\ t[b + 1].kind \in {"+", "-"}
  <2>1. t[b + 1].kind \in {"+", "-"}
    BY <1>0, <1>5 DEF IsAddend
  <2>3. b + 1 \in i + 1 .. j /\ (b + 1) - 1 = b /\ b + 1 \in 1 .. Len(t)
    BY <1>0, <1>5
  <2>5. E!IsOperandEnd(t[b])
    BY <1>2 DEF E!IsOperandEnd
  <2>6. h[b + 1] = h[(b + 1) - 1]
    BY <2>1, <2>3, HeightStep
  <2> QED BY <1>1, <1>2, <1>3, <2>1, <2>3, <2>5, <2>6 DEF IsCut
<1> QED BY <1>3, <1>4, <1>5

(* Cut at a product, a part has no addend but itself.                      *)
LEMMA ProductSpans ==
  ASSUME NEW t \in Seq(Tok), NEW h \in Heights(t), NEW i \in 1 .. Len(t), NEW j \in 1 .. Len(t),
         WellFormed(t, h, i, j), h[i - 1] >= 0,
         NEW c, IsLeastCut(t, h, i, j, c), t[c].kind \in {"*", "/"},
         NEW r \in 1 .. Len(t), NEW a \in 1 .. Len(t), NEW b \in 1 .. Len(t),
         IsAddend(t, h, r, a, b), i <= a, b <= j
  PROVE  a = i /\ b = j
<1>1. E!Prec[t[c].kind] = 5 /\ E!Prec["+"] = 4 /\ E!Prec["-"] = 4
  <2>1. /\ "+" \in E!Dyadic /\ "-" \in E!Dyadic /\ "*" \in E!Dyadic /\ "/" \in E!Dyadic
        /\ "+" \in E!Levels[5] /\ "-" \in E!Levels[5] /\ "*" \in E!Levels[6] /\ "/" \in E!Levels[6]
    BY DEF E!Dyadic, E!Levels
  <2> QED BY <2>1, Precedences
<1>2. \A d \in i + 1 .. j : IsCut(t, h, i, j, d) => 5 <= E!Prec[t[d].kind]
  BY <1>1 DEF IsLeastCut
<1>3. ~ (i < a)
  <2> SUFFICES ASSUME i < a PROVE FALSE
    OBVIOUS
  <2>1. IsCut(t, h, i, j, a - 1) /\ t[a - 1].kind = "+"
    BY EdgesAreCuts
  <2>2. a - 1 \in i + 1 .. j
    BY <2>1 DEF IsCut
  <2> QED BY <1>1, <1>2, <2>1, <2>2
<1>4. ~ (b < j)
  <2> SUFFICES ASSUME b < j PROVE FALSE
    OBVIOUS
  <2>1. IsCut(t, h, i, j, b + 1) /\ t[b + 1].kind \in {"+", "-"}
    BY EdgesAreCuts
  <2>2. b + 1 \in i + 1 .. j
    BY <2>1 DEF IsCut
  <2> QED BY <1>1, <1>2, <2>1, <2>2
<1> QED BY <1>3, <1>4

(* A part is cut inside of an addend only if it is one; what it is cut     *)
(* into has addends whole.                                                 *)
LEMMA PartsFree ==
  ASSUME NEW t \in Seq(Tok), NEW h \in Heights(t), NEW i \in 1 .. Len(t), NEW j \in 1 .. Len(t),
         WellFormed(t, h, i, j), h[i - 1] >= 0, Free(t, h, i, j),
         NEW c \in i + 1 .. j, IsLeastCut(t, h, i, j, c)
  PROVE  \/ /\ c = i + 1 /\ j = i + 2 /\ t[c].kind = "*"
            /\ \E r \in 1 .. Len(t) : IsAddend(t, h, r, i, j)
         \/ Free(t, h, i, c - 1) /\ Free(t, h, c + 1, j)
<1>0. i \in Int /\ j \in Int /\ c \in Int /\ Len(t) \in Nat
  OBVIOUS
<1>1. t[c].kind \in E!Dyadic /\ t[c].kind \notin {"(", ")", "~", "imm", "reg"}
  BY Precedences DEF IsLeastCut, IsCut
<1>2. ASSUME NEW r \in 1 .. Len(t), NEW a \in 1 .. Len(t), NEW b \in 1 .. Len(t),
             IsAddend(t, h, r, a, b), a <= c, c <= b
      PROVE  /\ c = i + 1 /\ j = i + 2 /\ t[c].kind = "*"
             /\ \E q \in 1 .. Len(t) : IsAddend(t, h, q, i, j)
  <2>1. i <= a /\ b <= j
    BY <1>0, <1>2 DEF Free
  <2>2. t[c].kind = "*" /\ c = a + 1 /\ b = a + 2
    <3>1. CASE a = r /\ b = r
      <4>1. c = r
        BY <1>0, <1>2, <3>1
      <4> QED BY <1>1, <1>2, <4>1 DEF IsAddend
    <3>2. CASE a = r - 2 /\ b = r /\ t[r - 2].kind = "imm" /\ t[r - 1].kind = "*"
      <4>1. c = r - 2 \/ c = r - 1 \/ c = r
        BY <1>0, <1>2, <3>2
      <4> QED BY <1>1, <1>2, <3>2, <4>1 DEF IsAddend
    <3>3. CASE a = r /\ b = r + 2 /\ t[r + 2].kind = "imm" /\ t[r + 1].kind = "*"
      <4>1. c = r + 2 \/ c = r + 1 \/ c = r
        BY <1>0, <1>2, <3>3
      <4> QED BY <1>1, <1>2, <3>3, <4>1 DEF IsAddend
    <3> QED BY <1>2, <3>1, <3>2, <3>3 DEF IsAddend
  <2>3. a = i /\ b = j
    BY <1>2, <2>1, <2>2, ProductSpans
  <2> QED BY <1>2, <2>2, <2>3
<1>3. CASE \E r \in 1 .. Len(t), a \in 1 .. Len(t), b \in 1 .. Len(t) :
             IsAddend(t, h, r, a, b) /\ a <= c /\ c <= b
  BY <1>2, <1>3
<1>4. CASE \A r \in 1 .. Len(t), a \in 1 .. Len(t), b \in 1 .. Len(t) :
             IsAddend(t, h, r, a, b) => ~ (a <= c /\ c <= b)
  <2>1. ASSUME NEW r \in 1 .. Len(t), NEW a \in 1 .. Len(t), NEW b \in 1 .. Len(t),
               IsAddend(t, h, r, a, b)
        PROVE  /\ b < i \/ c - 1 < a \/ (i <= a /\ b <= c - 1)
               /\ b < c + 1 \/ j < a \/ (c + 1 <= a /\ b <= j)
    <3>1. b < i \/ j < a \/ (i <= a /\ b <= j)
      BY <2>1 DEF Free
    <3>2. c < a \/ b < c
      BY <1>0, <1>4, <2>1
    <3> QED BY <1>0, <3>1, <3>2
  <2> QED BY <2>1 DEF Free
<1> QED BY <1>3, <1>4

LEMMA SumsKeep ==
  ASSUME NEW t \in Seq(Tok), NEW R \in RegSums(t), NEW i \in 1 .. Len(t) + 1, NEW j \in i - 1 .. Len(t),
         \A k \in i .. j : t[k].kind # "reg"
  PROVE  R[j] = R[i - 1]
<1> DEFINE T == {m \in Nat : m <= j - (i - 1) => R[(i - 1) + m] = R[i - 1]}
<1>0. Len(t) \in Nat /\ i \in Int /\ j \in Int /\ \A k \in 0 .. Len(t) : R[k] \in [Regs -> Int]
  <2>1. R \in [0 .. Len(t) -> [Regs -> Int]]
    BY DEF RegSums
  <2>2. \A k \in 0 .. Len(t) : R[k] \in [Regs -> Int]
    BY <2>1
  <2>3. Len(t) \in Nat
    OBVIOUS
  <2> QED BY <2>2, <2>3
<1>1. 0 \in T
  BY <1>0
<1>2. ASSUME NEW m \in Nat, m \in T PROVE m + 1 \in T
  <2> SUFFICES ASSUME m + 1 <= j - (i - 1) PROVE R[(i - 1) + (m + 1)] = R[i - 1]
    OBVIOUS
  <2> DEFINE k == (i - 1) + (m + 1)
  <2>1. k \in 1 .. Len(t) /\ k \in i .. j /\ k - 1 = (i - 1) + m /\ k - 1 \in 0 .. Len(t)
    BY <1>0
  <2>2. R[(i - 1) + m] = R[i - 1]
    BY <1>0, <1>2
  <2> HIDE DEF k
  <2>3. R[k] = [q \in Regs |-> R[k - 1][q] + Shares(t, k)[q]]
    BY <2>1 DEF RegSums
  <2>4. \A q \in Regs : Shares(t, k)[q] = 0
    BY <2>1 DEF Shares
  <2>5. R[k - 1] \in [Regs -> Int]
    BY <1>0, <2>1
  <2>6. R[k] = R[k - 1]
    BY <2>3, <2>4, <2>5
  <2> QED BY <2>1, <2>2, <2>6 DEF k
<1> HIDE DEF T
<1>3. Nat \subseteq T
  BY <1>1, <1>2, NatSetInduction
<1>4. j - (i - 1) \in Nat /\ (i - 1) + (j - (i - 1)) = j
  BY <1>0
<1>5. j - (i - 1) \in T
  BY <1>3, <1>4
<1> QED BY <1>4, <1>5 DEF T

LEMMA FactorIs ==
  ASSUME NEW t \in Seq(Tok), NEW h, NEW r \in 1 .. Len(t), NEW a \in 1 .. Len(t), NEW b \in 1 .. Len(t),
         IsAddend(t, h, r, a, b)
  PROVE  /\ a = r - 2 => Factor(t, r) = t[a].val
         /\ b = r + 2 => Factor(t, r) = t[b].val
         /\ a = r /\ b = r => Factor(t, r) = 1
<1>0. r \in Int /\ a \in Int /\ b \in Int /\ Len(t) \in Nat /\ DOMAIN t = 1 .. Len(t)
  OBVIOUS
<1>1. ASSUME a = r - 2 PROVE Factor(t, r) = t[a].val
  <2>1. t[r - 1].kind = "*"
    BY <1>0, <1>1 DEF IsAddend
  <2>2. E!At(t, r - 1) = t[r - 1] /\ E!At(t, r - 2) = t[r - 2]
    <3>1. r - 1 \in DOMAIN t /\ r - 2 \in DOMAIN t
      BY <1>0, <1>1
    <3> QED BY <3>1 DEF E!At
  <2> QED BY <1>1, <2>1, <2>2 DEF Factor
<1>2. ASSUME a = r PROVE E!At(t, r - 1).kind # "*"
  <2>1. CASE r = 1
    BY <1>0, <2>1 DEF E!At, E!Mark, E!Token
  <2>2. CASE r > 1
    <3>1. t[r - 1].kind = "+" /\ r - 1 \in DOMAIN t
      BY <1>0, <1>2, <2>2 DEF IsAddend
    <3> QED BY <3>1 DEF E!At
  <2> QED BY <1>0, <2>1, <2>2
<1>3. ASSUME b = r + 2 PROVE Factor(t, r) = t[b].val
  <2>1. t[r + 1].kind = "*" /\ a = r
    BY <1>0, <1>3 DEF IsAddend
  <2>2. E!At(t, r + 1) = t[r + 1] /\ E!At(t, r + 2) = t[r + 2]
    <3>1. r + 1 \in DOMAIN t /\ r + 2 \in DOMAIN t
      BY <1>0, <1>3
    <3> QED BY <3>1 DEF E!At
  <2> QED BY <1>2, <1>3, <2>1, <2>2 DEF Factor
<1>4. ASSUME a = r, b = r PROVE Factor(t, r) = 1
  <2>1. E!At(t, r + 1).kind # "*"
    <3>1. CASE r = Len(t)
      <4>1. r + 1 \notin DOMAIN t
        BY <1>0, <3>1
      <4> QED BY <4>1 DEF E!At, E!Mark, E!Token
    <3>2. CASE r < Len(t)
      <4>1. t[r + 1].kind \in {"+", "-"} /\ r + 1 \in DOMAIN t
        BY <1>0, <1>4, <3>2 DEF IsAddend
      <4> QED BY <4>1 DEF E!At
    <3>3. r \in 1 .. Len(t) /\ Len(t) \in Nat
      BY <1>0
    <3>4. r = Len(t) \/ r < Len(t)
      BY <3>3
    <3> QED BY <3>1, <3>2, <3>4
  <2> QED BY <1>2, <1>4, <2>1 DEF Factor
<1> QED BY <1>1, <1>3, <1>4

None == [q \in Regs |-> 0]
Value(m) == m = [regs |-> m.regs, imm |-> m.imm] /\ m.regs \in [Regs -> Int] /\ m.imm \in Int

LEMMA NumberIs ==
  ASSUME NEW x \in Int
  PROVE  Value(Number(x)) /\ Number(x).regs = None /\ Number(x).imm = x
<1>1. E!Unit(E!NoReg, 0) = None
  BY DEF E!Unit, E!NoReg, None
<1> QED BY <1>1 DEF Number, Value, None

(* What m is if it combines a and b.                                       *)
Combines(o, a, b, m) ==
  /\ Value(m) /\ m.imm = E!Apply(o, a.imm, b.imm) /\ Defines(o, b.imm)
  /\ o = "+" => m.regs = [q \in Regs |-> a.regs[q] + b.regs[q]]
  /\ o = "-" => m.regs = [q \in Regs |-> a.regs[q] - b.regs[q]]
  /\ o = "*" => \/ a.regs = None /\ m.regs = [q \in Regs |-> b.regs[q] * a.imm]
                \/ b.regs = None /\ m.regs = [q \in Regs |-> a.regs[q] * b.imm]
  /\ o \notin {"+", "-", "*"} => a.regs = None /\ b.regs = None /\ m.regs = None

LEMMA CombinedIs ==
  ASSUME NEW o \in E!Dyadic, NEW a, NEW b, Value(a), Value(b), E!Combined(o, a, b) # E!Nonsense
  PROVE  Combines(o, a, b, E!Combined(o, a, b))
<1> DEFINE m == E!Combined(o, a, b)
<1> DEFINE imm == E!Apply(o, a.imm, b.imm)
<1>0. E!Unit(E!NoReg, 0) = None
  BY DEF E!Unit, E!NoReg, None
<1>1. a.regs \in [Regs -> Int] /\ b.regs \in [Regs -> Int] /\ a.imm \in Int /\ b.imm \in Int
  BY DEF Value
<1>2. \A x : E!IsConst(x) => x.regs = None
  BY <1>0 DEF E!IsConst
<1>3. m = CASE o = "+" -> [regs |-> E!Sum(a.regs, b.regs, 1), imm |-> imm]
            [] o = "-" -> [regs |-> E!Sum(a.regs, b.regs, -1), imm |-> imm]
            [] o = "*" /\ E!IsConst(a) -> [regs |-> E!Scaled(b.regs, a.imm), imm |-> imm]
            [] o = "*" /\ E!IsConst(b) -> [regs |-> E!Scaled(a.regs, b.imm), imm |-> imm]
            [] E!IsConst(a) /\ E!IsConst(b)
               /\ E!Allowed(o, E!Token("imm", a.imm), E!Token("imm", b.imm)) ->
                 [regs |-> a.regs, imm |-> imm]
            [] OTHER -> E!Nonsense
  BY DEF E!Combined
<1>4. E!Allowed(o, E!Token("imm", a.imm), E!Token("imm", b.imm)) => Defines(o, b.imm)
  BY DEF E!Allowed, E!Token, Defines
<1>5. Defines(o, b.imm) => imm \in Int
  BY <1>1, ApplyIsInt
<1> HIDE DEF imm, m
<1>6. \/ o = "+" /\ m = [regs |-> E!Sum(a.regs, b.regs, 1), imm |-> imm]
      \/ o = "-" /\ m = [regs |-> E!Sum(a.regs, b.regs, -1), imm |-> imm]
      \/ o = "*" /\ E!IsConst(a) /\ m = [regs |-> E!Scaled(b.regs, a.imm), imm |-> imm]
      \/ o = "*" /\ E!IsConst(b) /\ m = [regs |-> E!Scaled(a.regs, b.imm), imm |-> imm]
      \/ /\ E!IsConst(a) /\ E!IsConst(b)
         /\ E!Allowed(o, E!Token("imm", a.imm), E!Token("imm", b.imm))
         /\ m = [regs |-> a.regs, imm |-> imm]
  BY <1>3 DEF m
<1>7. o \in {"+", "-", "*"} => Defines(o, b.imm)
  BY DEF Defines
<1>8. m.imm = imm /\ m = [regs |-> m.regs, imm |-> m.imm]
  BY <1>6
<1> DEFINE Good == /\ m.regs \in [Regs -> Int]
                   /\ o = "+" => m.regs = [q \in Regs |-> a.regs[q] + b.regs[q]]
                   /\ o = "-" => m.regs = [q \in Regs |-> a.regs[q] - b.regs[q]]
                   /\ o = "*" => \/ a.regs = None /\ m.regs = [q \in Regs |-> b.regs[q] * a.imm]
                                 \/ b.regs = None /\ m.regs = [q \in Regs |-> a.regs[q] * b.imm]
                   /\ o \notin {"+", "-", "*"} => a.regs = None /\ b.regs = None /\ m.regs = None
                   /\ Defines(o, b.imm)
<1>9. ASSUME o = "+" /\ m = [regs |-> E!Sum(a.regs, b.regs, 1), imm |-> imm] PROVE Good
  <2>1. m.regs = [q \in Regs |-> a.regs[q] + b.regs[q]]
    BY <1>1, <1>9 DEF E!Sum
  <2>2. m.regs \in [Regs -> Int]
    BY <1>1, <2>1
  <2>3. Good
    BY <1>7, <1>9, <2>1, <2>2
  <2> QED BY <2>3
<1>10. ASSUME o = "-" /\ m = [regs |-> E!Sum(a.regs, b.regs, -1), imm |-> imm] PROVE Good
  <2>1. m.regs = [q \in Regs |-> a.regs[q] - b.regs[q]]
    BY <1>1, <1>10 DEF E!Sum
  <2>2. m.regs \in [Regs -> Int]
    BY <1>1, <2>1
  <2>3. Good
    BY <1>7, <1>10, <2>1, <2>2
  <2> QED BY <2>3
<1>11. ASSUME o = "*" /\ E!IsConst(a) /\ m = [regs |-> E!Scaled(b.regs, a.imm), imm |-> imm] PROVE Good
  <2>1. m.regs = [q \in Regs |-> b.regs[q] * a.imm]
    BY <1>11 DEF E!Scaled
  <2>2. m.regs \in [Regs -> Int]
    BY <1>1, <2>1
  <2>3. Good
    BY <1>2, <1>7, <1>11, <2>1, <2>2
  <2> QED BY <2>3
<1>12. ASSUME o = "*" /\ E!IsConst(b) /\ m = [regs |-> E!Scaled(a.regs, b.imm), imm |-> imm] PROVE Good
  <2>1. m.regs = [q \in Regs |-> a.regs[q] * b.imm]
    BY <1>12 DEF E!Scaled
  <2>2. m.regs \in [Regs -> Int]
    BY <1>1, <2>1
  <2>3. Good
    BY <1>2, <1>7, <1>12, <2>1, <2>2
  <2> QED BY <2>3
<1>13. ASSUME /\ E!IsConst(a) /\ E!IsConst(b)
            /\ E!Allowed(o, E!Token("imm", a.imm), E!Token("imm", b.imm))
            /\ m = [regs |-> a.regs, imm |-> imm] PROVE Good
  <2>1. a.regs = None /\ b.regs = None /\ m.regs = None
    BY <1>2, <1>13
  <2>2. None \in [Regs -> Int]
    BY DEF None
  <2>3. None = [q \in Regs |-> None[q] + None[q]]
    BY DEF None
  <2>4. None = [q \in Regs |-> None[q] - None[q]]
    BY DEF None
  <2>5. None = [q \in Regs |-> None[q] * a.imm]
    BY <1>1 DEF None
  <2>6. Good
    BY <1>4, <1>13, <2>1, <2>2, <2>3, <2>4, <2>5
  <2> QED BY <2>6
<1>14. Good
  BY <1>6, <1>9, <1>10, <1>11, <1>12, <1>13
<1>15. Value(m)
  BY <1>5, <1>8, <1>14 DEF Value
<1> QED BY <1>8, <1>14, <1>15 DEF imm, m, Combines

LEMMA LeafAt ==
  ASSUME NEW t \in Seq(Tok), NEW h \in Heights(t), NEW f, Reading(t, f), NEW i \in 1 .. Len(t),
         f[SubSeq(t, i, i)] # E!Nonsense
  PROVE  \/ t[i].kind = "imm" /\ f[SubSeq(t, i, i)] = Number(t[i].val)
         \/ t[i].kind = "reg" /\ f[SubSeq(t, i, i)] = [regs |-> E!Unit(t[i].val, 1), imm |-> 0]
<1>1. i \in 1 .. Len(t) + 1 /\ i \in 0 .. Len(t) /\ i + 1 .. i = {} /\ i # i + 1 /\ ~ (i > i + 1)
  OBVIOUS
<1>2. Leaf(t, f, i, i)
  BY <1>1, Rules
<1> QED BY <1>1, <1>2 DEF Leaf

(* A product of a register and a number.                                   *)
LEMMA TimesMeans ==
  ASSUME NEW t \in Seq(Tok), NEW h \in Heights(t), NEW f, Reading(t, f), NEW R \in RegSums(t),
         NEW i \in 1 .. Len(t), NEW j \in 1 .. Len(t), j = i + 2, NEW r \in 1 .. Len(t),
         IsAddend(t, h, r, i, j), t[i + 1].kind = "*",
         CutAt(t, h, f, i, j, i + 1), f[SubSeq(t, i, j)] # E!Nonsense
  PROVE  /\ f[SubSeq(t, i, j)] = [regs |-> [q \in Regs |-> R[j][q] - R[i - 1][q]], imm |-> 0]
<1> DEFINE v == IF r = i THEN t[j].val ELSE t[i].val
           a == f[SubSeq(t, i, i)]
           b == f[SubSeq(t, j, j)]
<1>0. /\ i \in Int /\ r \in Int /\ Len(t) \in Nat /\ i - 1 \in 0 .. Len(t) /\ i + 1 \in 1 .. Len(t)
      /\ (i + 1) - 1 = i /\ (i + 1) + 1 = j
  BY DEF IsAddend
<1>1. /\ a # E!Nonsense /\ b # E!Nonsense
      /\ f[SubSeq(t, i, j)] = E!Combined("*", a, b)
  BY <1>0 DEF CutAt
<1>2. \/ /\ r = i /\ t[i].kind = "reg" /\ t[j].kind = "imm"
         /\ Factor(t, r) = t[j].val
      \/ /\ r = j /\ t[j].kind = "reg" /\ t[i].kind = "imm"
         /\ Factor(t, r) = t[i].val
  <2>1. i = r - 2 => Factor(t, r) = t[i].val
    BY FactorIs
  <2>2. j = r + 2 => Factor(t, r) = t[j].val
    BY FactorIs
  <2> QED BY <1>0, <2>1, <2>2 DEF IsAddend
<1>3. t[i] \in Tok /\ t[j] \in Tok /\ t[r] \in Tok
  OBVIOUS
<1>4. t[i].val \in Int /\ t[j].val \in Int /\ t[r].val \in Regs
  BY <1>2, <1>3 DEF Tok
<1>5. /\ R[i] = [q \in Regs |-> R[i - 1][q] + Shares(t, i)[q]]
      /\ R[i + 1] = [q \in Regs |-> R[i][q] + Shares(t, i + 1)[q]]
      /\ R[j] = [q \in Regs |-> R[i + 1][q] + Shares(t, j)[q]]
  <2>1. \A k \in 1 .. Len(t) : R[k] = [q \in Regs |-> R[k - 1][q] + Shares(t, k)[q]]
    BY DEF RegSums
  <2>2. j - 1 = i + 1
    BY <1>0
  <2> QED BY <1>0, <2>1, <2>2
<1>6. R[i - 1] \in [Regs -> Int]
  <2>1. R \in [0 .. Len(t) -> [Regs -> Int]]
    BY DEF RegSums
  <2> QED BY <1>0, <2>1
<1> DEFINE unit == [q \in Regs |-> IF q = t[r].val THEN v ELSE 0]
<1>7. \A q \in Regs : R[j][q] - R[i - 1][q] = unit[q]
  <2> SUFFICES ASSUME NEW q \in Regs PROVE R[j][q] - R[i - 1][q] = unit[q]
    OBVIOUS
  <2>0. i # j /\ i # i + 1 /\ j # i + 1
    BY <1>0
  <2>1. Shares(t, i + 1)[q] = 0
    BY DEF Shares
  <2>2. Shares(t, i)[q] = IF r = i /\ t[r].val = q THEN v ELSE 0
    BY <1>2, <2>0 DEF Shares
  <2>3. Shares(t, j)[q] = IF r = j /\ t[r].val = q THEN v ELSE 0
    BY <1>2, <2>0 DEF Shares
  <2>4. R[i - 1][q] \in Int
    BY <1>6
  <2>5. R[j][q] = R[i - 1][q] + Shares(t, i)[q] + Shares(t, i + 1)[q] + Shares(t, j)[q]
    BY <1>5
  <2>6. v \in Int
    BY <1>4
  <2> HIDE DEF v
  <2> QED BY <1>2, <2>0, <2>1, <2>2, <2>3, <2>4, <2>5, <2>6
<1>8. f[SubSeq(t, i, j)] = [regs |-> unit, imm |-> 0]
  <2>1. /\ t[i].kind = "imm" => a = Number(t[i].val)
        /\ t[i].kind = "reg" => a = [regs |-> E!Unit(t[i].val, 1), imm |-> 0]
    BY <1>1, LeafAt
  <2>2. /\ t[j].kind = "imm" => b = Number(t[j].val)
        /\ t[j].kind = "reg" => b = [regs |-> E!Unit(t[j].val, 1), imm |-> 0]
    BY <1>1, LeafAt
  <2>3. E!Unit(t[r].val, 1) # None /\ E!Unit(t[r].val, 1) \in [Regs -> Int]
    BY <1>4 DEF E!Unit, None
  <2>4. /\ Value(Number(t[i].val)) /\ Number(t[i].val).imm = t[i].val /\ Number(t[i].val).regs = None
        /\ Value(Number(t[j].val)) /\ Number(t[j].val).imm = t[j].val /\ Number(t[j].val).regs = None
    BY <1>4, NumberIs
  <2>5. Value([regs |-> E!Unit(t[r].val, 1), imm |-> 0])
    BY <2>3 DEF Value
  <2> DEFINE m == f[SubSeq(t, i, j)]
  <2>6. "*" \in E!Dyadic
    BY DEF E!Dyadic
  <2> HIDE DEF a, b, m, v, unit
  <2>7. CASE r = i /\ t[i].kind = "reg" /\ t[j].kind = "imm"
    <3>1. Value(a) /\ Value(b) /\ a.regs = E!Unit(t[r].val, 1) /\ a.imm = 0 /\ b.imm = t[j].val
      BY <2>1, <2>2, <2>4, <2>5, <2>7
    <3>2. /\ Value(m) /\ m.imm = E!Apply("*", a.imm, b.imm)
          /\ \/ a.regs = None /\ m.regs = [q \in Regs |-> b.regs[q] * a.imm]
             \/ b.regs = None /\ m.regs = [q \in Regs |-> a.regs[q] * b.imm]
      <4>1. m = E!Combined("*", a, b) /\ m # E!Nonsense
        BY <1>1 DEF m
      <4>2. Combines("*", a, b, m)
        BY <2>6, <3>1, <4>1, CombinedIs
      <4> QED BY <4>2 DEF Combines
    <3>3. m.regs = [q \in Regs |-> E!Unit(t[r].val, 1)[q] * t[j].val]
      BY <2>3, <3>1, <3>2
    <3>4. E!Apply("*", 0, t[j].val) = 0
      BY <1>4, WrapZero DEF E!Apply
    <3>5. m.regs = unit
      BY <1>4, <2>7, <3>3 DEF E!Unit, unit, v
    <3>6. m = [regs |-> m.regs, imm |-> m.imm]
      BY <3>2 DEF Value
    <3> QED BY <3>1, <3>2, <3>4, <3>5, <3>6 DEF m
  <2>8. CASE r = j /\ t[j].kind = "reg" /\ t[i].kind = "imm"
    <3>0. r # i
      BY <1>0, <2>8
    <3>1. Value(a) /\ Value(b) /\ b.regs = E!Unit(t[r].val, 1) /\ b.imm = 0 /\ a.imm = t[i].val
      BY <2>1, <2>2, <2>4, <2>5, <2>8
    <3>2. /\ Value(m) /\ m.imm = E!Apply("*", a.imm, b.imm)
          /\ \/ a.regs = None /\ m.regs = [q \in Regs |-> b.regs[q] * a.imm]
             \/ b.regs = None /\ m.regs = [q \in Regs |-> a.regs[q] * b.imm]
      <4>1. m = E!Combined("*", a, b) /\ m # E!Nonsense
        BY <1>1 DEF m
      <4>2. Combines("*", a, b, m)
        BY <2>6, <3>1, <4>1, CombinedIs
      <4> QED BY <4>2 DEF Combines
    <3>3. m.regs = [q \in Regs |-> E!Unit(t[r].val, 1)[q] * t[i].val]
      BY <2>3, <3>1, <3>2
    <3>4. E!Apply("*", t[i].val, 0) = 0
      BY <1>4, WrapZero DEF E!Apply
    <3>5. m.regs = unit
      BY <1>4, <3>0, <3>3 DEF E!Unit, unit, v
    <3>6. m = [regs |-> m.regs, imm |-> m.imm]
      BY <3>2 DEF Value
    <3> QED BY <3>1, <3>2, <3>4, <3>5, <3>6 DEF m
  <2> QED BY <1>2, <2>7, <2>8 DEF m
<1>9. [q \in Regs |-> R[j][q] - R[i - 1][q]] = unit
  BY <1>7
<1> HIDE DEF unit
<1> QED BY <1>8, <1>9

(* Parentheses hold no registers.                                          *)
LEMMA InnerPart ==
  ASSUME NEW t \in Seq(Tok), NEW h \in Heights(t), NEW f, Plain(t, h, f),
         NEW i \in 1 .. Len(t), NEW j \in 1 .. Len(t), j > i + 1, t[i].kind = "(",
         WellFormed(t, h, i + 1, j - 1)
  PROVE  /\ Free(t, h, i + 1, j - 1)
         /\ \A k \in i + 1 .. j - 1 : t[k].kind # "reg"
<1>0. /\ i \in Int /\ j \in Int /\ Len(t) \in Nat /\ i + 1 \in 1 .. Len(t) /\ j - 1 \in 1 .. Len(t)
      /\ (i + 1) - 1 = i /\ i - 1 \in 0 .. Len(t)
  OBVIOUS
<1>1. h[i] >= 1 /\ h[i] \in Int
  <2>1. h[i - 1] >= 0 /\ h[i - 1] \in Int
    BY <1>0, PlainFacts
  <2>2. h[i] = h[i - 1] + 1
    BY HeightStep
  <2> QED BY <2>1, <2>2
<1>2. \A k \in i + 1 .. j - 1 : h[k] # 0
  <2> SUFFICES ASSUME NEW k \in i + 1 .. j - 1 PROVE h[k] # 0
    OBVIOUS
  <2>1. h[k] >= h[i]
    BY <1>0 DEF WellFormed
  <2>2. h[k] \in Int
    <3>1. k \in 1 .. Len(t)
      BY <1>0
    <3> QED BY <3>1, HeightStep
  <2> QED BY <1>1, <2>1, <2>2
<1>3. ASSUME NEW r \in 1 .. Len(t), NEW a \in 1 .. Len(t), NEW b \in 1 .. Len(t),
             IsAddend(t, h, r, a, b)
      PROVE  b < i + 1 \/ j - 1 < a
  <2> SUFFICES ASSUME i + 1 <= b, a <= j - 1 PROVE FALSE
    BY <1>0
  <2>1. a <= b
    BY <1>3 DEF IsAddend
  <2> DEFINE k == IF a <= i + 1 THEN i + 1 ELSE a
  <2>2. k \in i + 1 .. j - 1 /\ k \in a .. b
    BY <1>0, <2>1
  <2>3. h[k] = 0
    BY <1>3, <2>2 DEF IsAddend
  <2> QED BY <1>2, <2>2, <2>3
<1>4. Free(t, h, i + 1, j - 1)
  BY <1>3 DEF Free
<1>5. ASSUME NEW k \in i + 1 .. j - 1, t[k].kind = "reg" PROVE FALSE
  <2>1. k \in 1 .. Len(t)
    BY <1>0
  <2>2. PICK a \in 1 .. Len(t), b \in 1 .. Len(t) : IsAddend(t, h, k, a, b)
    BY <1>5, <2>1 DEF Plain
  <2>3. k \in a .. b
    BY <2>2 DEF IsAddend
  <2>4. h[k] = 0
    BY <2>2, <2>3 DEF IsAddend
  <2> QED BY <1>2, <2>4
<1> QED BY <1>4, <1>5

(* What stands right of a difference holds no registers, and a product has *)
(* none if it is cut between addends.                                      *)
LEMMA NoRegisters ==
  ASSUME NEW t \in Seq(Tok), NEW h \in Heights(t), NEW f, Plain(t, h, f),
         NEW i \in 1 .. Len(t), NEW j \in 1 .. Len(t), WellFormed(t, h, i, j), Free(t, h, i, j),
         NEW c \in i + 1 .. j, IsLeastCut(t, h, i, j, c), Free(t, h, i, c - 1), Free(t, h, c + 1, j)
  PROVE  /\ t[c].kind = "-" => \A k \in c + 1 .. j : t[k].kind # "reg"
         /\ t[c].kind \in {"*", "/"} => \A k \in i .. j : t[k].kind # "reg"
<1>0. /\ i \in Int /\ j \in Int /\ c \in Int /\ Len(t) \in Nat /\ c \in 1 .. Len(t)
      /\ i - 1 \in 0 .. Len(t)
  OBVIOUS
<1>1. h[i - 1] >= 0
  BY <1>0, PlainFacts
<1>2. ASSUME t[c].kind = "-", NEW r \in c + 1 .. j, t[r].kind = "reg" PROVE FALSE
  <2>1. r \in 1 .. Len(t)
    BY <1>0
  <2>2. PICK a \in 1 .. Len(t), b \in 1 .. Len(t) : IsAddend(t, h, r, a, b)
    BY <1>2, <2>1 DEF Plain
  <2>3. a <= r /\ r <= b
    BY <2>2 DEF IsAddend
  <2>4. c + 1 <= a /\ b <= j
    BY <1>0, <2>2, <2>3 DEF Free
  <2>5. i < a /\ i <= a
    BY <1>0, <2>4
  <2>6. IsCut(t, h, i, j, a - 1) /\ t[a - 1].kind = "+"
    BY <1>1, <2>1, <2>2, <2>4, <2>5, EdgesAreCuts
  <2>7. E!Prec["+"] = 4 /\ E!Prec["-"] = 4
    <3>1. /\ "+" \in E!Dyadic /\ "-" \in E!Dyadic
          /\ "+" \in E!Levels[5] /\ "-" \in E!Levels[5]
      BY DEF E!Dyadic, E!Levels
    <3> QED BY <3>1, Precedences
  <2>8. a - 1 <= c
    <3>1. a - 1 \in i + 1 .. j
      BY <2>6 DEF IsCut
    <3> QED BY <1>2, <2>6, <2>7, <3>1 DEF IsLeastCut
  <2>9. a - 1 = c
    BY <1>0, <2>4, <2>8
  <2> QED BY <1>2, <2>6, <2>9
<1>3. ASSUME t[c].kind \in {"*", "/"}, NEW r \in i .. j, t[r].kind = "reg" PROVE FALSE
  <2>1. r \in 1 .. Len(t)
    BY <1>0
  <2>2. PICK a \in 1 .. Len(t), b \in 1 .. Len(t) : IsAddend(t, h, r, a, b)
    BY <1>3, <2>1 DEF Plain
  <2>3. a <= r /\ r <= b
    BY <2>2 DEF IsAddend
  <2>4. i <= a /\ b <= j
    BY <1>0, <2>2, <2>3 DEF Free
  <2>5. a = i /\ b = j
    BY <1>1, <1>3, <2>1, <2>2, <2>4, ProductSpans
  <2>6. b < i \/ c - 1 < a \/ (i <= a /\ b <= c - 1)
    BY <2>1, <2>2 DEF Free
  <2> QED BY <1>0, <2>5, <2>6
<1> QED BY <1>2, <1>3

(* A part means the registers that stand in it, as often as they count.    *)
SaysSum(t, f, R, i, j) ==
  /\ Value(f[SubSeq(t, i, j)])
  /\ \A q \in Regs : f[SubSeq(t, i, j)].regs[q] = R[j][q] - R[i - 1][q]

LEMMA SumIs ==
  ASSUME NEW t, NEW f, NEW R, NEW i, NEW j, NEW m, m = f[SubSeq(t, i, j)], Value(m),
         \A q \in Regs : m.regs[q] = R[j][q] - R[i - 1][q]
  PROVE  SaysSum(t, f, R, i, j)
BY DEF SaysSum

LEMMA LeafSum ==
  ASSUME NEW t \in Seq(Tok), NEW h \in Heights(t), NEW f, Plain(t, h, f), NEW R \in RegSums(t),
         NEW i \in 1 .. Len(t), NEW j \in 1 .. Len(t), Free(t, h, i, j), Leaf(t, f, i, j),
         f[SubSeq(t, i, j)] # E!Nonsense,
         t[i].kind = "(" => SaysSum(t, f, R, i + 1, j - 1) /\ WellFormed(t, h, i + 1, j - 1)
  PROVE  SaysSum(t, f, R, i, j)
<1> DEFINE m == f[SubSeq(t, i, j)]
<1>0. /\ i \in Int /\ j \in Int /\ Len(t) \in Nat /\ i - 1 \in 0 .. Len(t)
      /\ i \in 1 .. Len(t) + 1 /\ t[i] \in Tok /\ t[j] \in Tok
  OBVIOUS
<1>1. R \in [0 .. Len(t) -> [Regs -> Int]]
  BY DEF RegSums
<1>2. t[i].val \in Int /\ t[j].val \in Int
  BY <1>0 DEF Tok
<1>3. ASSUME NEW x \in Int, m = Number(x), j \in i - 1 .. Len(t), \A k \in i .. j : t[k].kind # "reg"
      PROVE  SaysSum(t, f, R, i, j)
  <2>1. R[j] = R[i - 1]
    BY <1>0, <1>3, SumsKeep
  <2>2. Value(m) /\ m.regs = None
    BY <1>3, NumberIs
  <2>3. R[i - 1] \in [Regs -> Int]
    BY <1>0, <1>1
  <2>4. \A q \in Regs : m.regs[q] = R[j][q] - R[i - 1][q]
    <3> HIDE DEF m
    <3> QED BY <2>1, <2>2, <2>3 DEF None
  <2> QED BY <2>2, <2>4 DEF SaysSum
<1>4. CASE i = j /\ t[i].kind = "imm" /\ m = Number(t[i].val)
  <2>1. j \in i - 1 .. Len(t) /\ \A k \in i .. j : t[k].kind # "reg"
    BY <1>0, <1>4
  <2> QED BY <1>2, <1>3, <1>4, <2>1
<1>5. CASE i = j /\ t[i].kind = "reg" /\ m = [regs |-> E!Unit(t[i].val, 1), imm |-> 0]
  <2>1. PICK a \in 1 .. Len(t), b \in 1 .. Len(t) : IsAddend(t, h, i, a, b)
    BY <1>5 DEF Plain
  <2>2. a = i /\ b = i
    <3>1. a <= i /\ i <= b
      BY <2>1 DEF IsAddend
    <3>2. b < i \/ j < a \/ (i <= a /\ b <= j)
      BY <2>1 DEF Free
    <3> QED BY <1>0, <1>5, <3>1, <3>2
  <2>3. Factor(t, i) = 1
    BY <2>1, <2>2, FactorIs
  <2>4. R[i] = [q \in Regs |-> R[i - 1][q] + Shares(t, i)[q]]
    BY DEF RegSums
  <2>5. R[i - 1] \in [Regs -> Int]
    BY <1>0, <1>1
  <2>6. \A q \in Regs : Shares(t, i)[q] = IF t[i].val = q THEN 1 ELSE 0
    BY <1>5, <2>3 DEF Shares
  <2>7. m.regs = E!Unit(t[i].val, 1) /\ Value(m)
    <3>1. E!Unit(t[i].val, 1) \in [Regs -> Int]
      BY DEF E!Unit
    <3> QED BY <1>5, <3>1 DEF Value
  <2>8. \A q \in Regs : m.regs[q] = IF t[i].val = q THEN 1 ELSE 0
    <3> HIDE DEF m
    <3> QED BY <2>7 DEF E!Unit
  <2>9. \A q \in Regs : m.regs[q] = R[j][q] - R[i - 1][q]
    <3> HIDE DEF m
    <3> QED BY <1>5, <2>4, <2>5, <2>6, <2>8
  <2> QED BY <2>7, <2>9 DEF SaysSum
<1>6. CASE j = i + 1 /\ t[i].kind \in {"-", "~"} /\ t[j].kind = "imm"
           /\ (m = Number(-t[j].val) \/ m = Number(-t[j].val - 1))
  <2>1. j \in i - 1 .. Len(t) /\ \A k \in i .. j : t[k].kind # "reg"
    <3>1. \A k \in i .. j : k = i \/ k = j
      BY <1>0, <1>6
    <3> QED BY <1>0, <1>6, <3>1
  <2>2. -t[j].val \in Int /\ -t[j].val - 1 \in Int
    BY <1>2
  <2> QED BY <1>3, <1>6, <2>1, <2>2
<1>7. CASE j > i + 1 /\ t[i].kind = "(" /\ t[j].kind = ")" /\ m = f[SubSeq(t, i + 1, j - 1)]
  <2>1. /\ i + 1 \in 1 .. Len(t) + 1 /\ j - 1 \in (i + 1) - 1 .. Len(t) /\ (i + 1) - 1 = i
        /\ j \in i - 1 .. Len(t) /\ j - 1 \in 0 .. Len(t)
    BY <1>0, <1>7
  <2>2. \A k \in i + 1 .. j - 1 : t[k].kind # "reg"
    BY <1>7, InnerPart
  <2>3. \A k \in i .. j : t[k].kind # "reg"
    <3>1. \A k \in i .. j : k = i \/ k = j \/ k \in i + 1 .. j - 1
      BY <1>0
    <3> QED BY <1>7, <2>2, <3>1
  <2>4. R[j] = R[i - 1]
    BY <1>0, <2>1, <2>3, SumsKeep
  <2>5. R[j - 1] = R[i]
    <3> DEFINE x == i + 1
               y == j - 1
    <3>1. x \in 1 .. Len(t) + 1 /\ y \in x - 1 .. Len(t) /\ \A k \in x .. y : t[k].kind # "reg"
      BY <2>1, <2>2
    <3> HIDE DEF x, y
    <3>2. R[y] = R[x - 1]
      BY <3>1, SumsKeep
    <3> QED BY <2>1, <3>2 DEF x, y
  <2>6. Value(m) /\ \A q \in Regs : m.regs[q] = R[j - 1][q] - R[i][q]
    BY <1>7, <2>1 DEF SaysSum
  <2>7. R[i] \in [Regs -> Int] /\ R[i - 1] \in [Regs -> Int]
    BY <1>0, <1>1, <2>1
  <2>8. \A q \in Regs : m.regs[q] = R[j][q] - R[i - 1][q]
    <3> HIDE DEF m
    <3> QED BY <2>4, <2>5, <2>6, <2>7
  <2> QED BY <2>6, <2>8 DEF SaysSum
<1> QED BY <1>4, <1>5, <1>6, <1>7 DEF Leaf

LEMMA CutSum ==
  ASSUME NEW t \in Seq(Tok), NEW h \in Heights(t), NEW f, Plain(t, h, f), NEW R \in RegSums(t),
         NEW i \in 1 .. Len(t), NEW j \in 1 .. Len(t), WellFormed(t, h, i, j), Free(t, h, i, j),
         NEW c \in i + 1 .. j, CutAt(t, h, f, i, j, c), f[SubSeq(t, i, j)] # E!Nonsense,
         Free(t, h, i, c - 1) => SaysSum(t, f, R, i, c - 1),
         Free(t, h, c + 1, j) => SaysSum(t, f, R, c + 1, j),
         c < j
  PROVE  SaysSum(t, f, R, i, j)
<1> DEFINE m == f[SubSeq(t, i, j)]
           u == f[SubSeq(t, i, c - 1)]
           v == f[SubSeq(t, c + 1, j)]
           o == t[c].kind
<1>0. /\ i \in Int /\ j \in Int /\ c \in Int /\ Len(t) \in Nat /\ i - 1 \in 0 .. Len(t)
      /\ c \in 1 .. Len(t) /\ c - 1 \in 0 .. Len(t) /\ c + 1 \in 1 .. Len(t) + 1
      /\ (c + 1) - 1 = c /\ j \in (c + 1) - 1 .. Len(t) /\ j \in i - 1 .. Len(t)
      /\ i \in 1 .. Len(t) + 1 /\ j \in 0 .. Len(t) /\ c \in 0 .. Len(t)
  OBVIOUS
<1>1. h[i - 1] >= 0
  BY <1>0, PlainFacts
<1>2. IsLeastCut(t, h, i, j, c) /\ m = E!Combined(o, u, v)
  BY DEF CutAt
<1>3. o \in E!Dyadic /\ o \notin {"(", ")", "~", "imm", "reg"}
  BY <1>2, Precedences DEF IsLeastCut, IsCut
<1>4. Reading(t, f)
  BY DEF Plain
<1>5. R \in [0 .. Len(t) -> [Regs -> Int]]
  BY DEF RegSums
<1>6. CASE /\ c = i + 1 /\ j = i + 2 /\ o = "*"
           /\ \E r \in 1 .. Len(t) : IsAddend(t, h, r, i, j)
  <2>1. m = [regs |-> [q \in Regs |-> R[j][q] - R[i - 1][q]], imm |-> 0]
    <3>1. PICK r \in 1 .. Len(t) : IsAddend(t, h, r, i, j)
      BY <1>6
    <3>2. t[i + 1].kind = "*" /\ CutAt(t, h, f, i, j, i + 1)
      BY <1>6
    <3> QED BY <1>4, <1>6, <3>1, <3>2, TimesMeans
  <2>2. R[j] \in [Regs -> Int] /\ R[i - 1] \in [Regs -> Int]
    BY <1>0, <1>5
  <2> HIDE DEF m
  <2>3. Value(m) /\ \A q \in Regs : m.regs[q] = R[j][q] - R[i - 1][q]
    BY <2>1, <2>2 DEF Value
  <2> QED BY <2>3 DEF SaysSum, m
<1>7. CASE Free(t, h, i, c - 1) /\ Free(t, h, c + 1, j)
  <2>1. /\ Value(u) /\ \A q \in Regs : u.regs[q] = R[c - 1][q] - R[i - 1][q]
        /\ Value(v) /\ \A q \in Regs : v.regs[q] = R[j][q] - R[c][q]
    <3>1. SaysSum(t, f, R, i, c - 1) /\ SaysSum(t, f, R, c + 1, j)
      BY <1>7
    <3> QED BY <1>0, <3>1 DEF SaysSum
  <2>2. R[c] = R[c - 1]
    <3>1. /\ c \in 1 .. Len(t) + 1 /\ c \in c - 1 .. Len(t)
          /\ \A k \in c .. c : t[k].kind # "reg"
      BY <1>0, <1>3
    <3> QED BY <3>1, SumsKeep
  <2> HIDE DEF m, u, v, o
  <2>3. Combines(o, u, v, m)
    <3>1. E!Combined(o, u, v) # E!Nonsense
      BY <1>2 DEF m
    <3>2. Combines(o, u, v, E!Combined(o, u, v))
      BY <1>3, <2>1, <3>1, CombinedIs
    <3> QED BY <1>2, <3>2
  <2>4. /\ o = "-" => R[j] = R[c]
        /\ o \in {"*", "/"} => R[j] = R[i - 1] /\ R[j] = R[c] /\ R[c - 1] = R[i - 1]
    <3>1. CASE o = "-"
      <4>1. \A k \in c + 1 .. j : t[k].kind # "reg"
        BY <1>2, <1>7, <3>1, NoRegisters DEF o
      <4>2. R[j] = R[(c + 1) - 1]
        <5> DEFINE x == c + 1
        <5>1. x \in 1 .. Len(t) + 1 /\ j \in x - 1 .. Len(t) /\ \A k \in x .. j : t[k].kind # "reg"
          BY <1>0, <4>1
        <5> HIDE DEF x
        <5>2. R[j] = R[x - 1]
          BY <5>1, SumsKeep
        <5> QED BY <5>2 DEF x
      <4> QED BY <1>0, <3>1, <4>2
    <3>2. CASE o \in {"*", "/"}
      <4>1. \A k \in i .. j : t[k].kind # "reg"
        BY <1>2, <1>7, <3>2, NoRegisters DEF o
      <4>2. R[j] = R[i - 1]
        BY <1>0, <4>1, SumsKeep
      <4>3. R[c] = R[i - 1]
        <5>1. c \in i - 1 .. Len(t) /\ \A k \in i .. c : t[k].kind # "reg"
          BY <1>0, <4>1
        <5> QED BY <1>0, <5>1, SumsKeep
      <4> QED BY <2>2, <3>2, <4>2, <4>3
    <3> QED BY <3>1, <3>2
  <2>5. R[c] \in [Regs -> Int] /\ R[i - 1] \in [Regs -> Int] /\ R[j] \in [Regs -> Int]
    BY <1>0, <1>5
  <2>6. Value(m) /\ m.regs \in [Regs -> Int] /\ u.regs \in [Regs -> Int] /\ v.regs \in [Regs -> Int]
        /\ u.imm \in Int /\ v.imm \in Int
    BY <2>1, <2>3 DEF Combines, Value
  <2>7. ASSUME NEW q \in Regs PROVE m.regs[q] = R[j][q] - R[i - 1][q]
    <3>1. /\ R[c][q] \in Int /\ R[i - 1][q] \in Int /\ R[j][q] \in Int
          /\ u.regs[q] = R[c][q] - R[i - 1][q] /\ v.regs[q] = R[j][q] - R[c][q]
      BY <2>1, <2>2, <2>5
    <3>2. CASE o = "+"
      <4>1. m.regs[q] = u.regs[q] + v.regs[q]
        BY <2>3, <3>2 DEF Combines
      <4> QED BY <3>1, <4>1
    <3>3. CASE o = "-"
      <4>1. m.regs[q] = u.regs[q] - v.regs[q]
        BY <2>3, <3>3 DEF Combines
      <4> QED BY <2>4, <3>1, <3>3, <4>1
    <3>4. CASE o = "*"
      <4>1. m.regs[q] = u.regs[q] * v.imm \/ m.regs[q] = v.regs[q] * u.imm
        BY <2>3, <3>4 DEF Combines
      <4>2. u.regs[q] = 0 /\ v.regs[q] = 0 /\ R[j][q] - R[i - 1][q] = 0
        BY <2>2, <2>4, <3>1, <3>4
      <4> QED BY <2>6, <4>1, <4>2
    <3>5. CASE o \notin {"+", "-", "*"}
      <4>1. u.regs[q] = 0 /\ v.regs[q] = 0 /\ m.regs[q] = 0
        <5>1. u.regs = None /\ v.regs = None /\ m.regs = None
          BY <2>3, <3>5 DEF Combines
        <5> QED BY <5>1 DEF None
      <4> QED BY <3>1, <4>1
    <3> QED BY <3>2, <3>3, <3>4, <3>5
  <2> QED BY <2>6, <2>7 DEF SaysSum, m
<1>8. \/ /\ c = i + 1 /\ j = i + 2 /\ t[c].kind = "*"
         /\ \E r \in 1 .. Len(t) : IsAddend(t, h, r, i, j)
      \/ Free(t, h, i, c - 1) /\ Free(t, h, c + 1, j)
  BY <1>1, <1>2, PartsFree
<1> QED BY <1>6, <1>7, <1>8

LEMMA MeaningSums ==
  ASSUME NEW t \in Seq(Tok), NEW h \in Heights(t), NEW f, Plain(t, h, f), NEW R \in RegSums(t)
  PROVE  \A i \in 1 .. Len(t) + 1, j \in 0 .. Len(t) :
           f[SubSeq(t, i, j)] # E!Nonsense /\ Free(t, h, i, j) => SaysSum(t, f, R, i, j)
<1> DEFINE P == (1 .. Len(t) + 1) \X (0 .. Len(t))
           G == {p \in P : f[SubSeq(t, p[1], p[2])] # E!Nonsense /\ Free(t, h, p[1], p[2])
                             => SaysSum(t, f, R, p[1], p[2])}
<1>0. Len(t) \in Nat /\ Reading(t, f)
  BY DEF Plain
<1>1. ASSUME NEW p \in P, \A q \in P : q[2] - q[1] < p[2] - p[1] => q \in G,
             f[SubSeq(t, p[1], p[2])] # E!Nonsense, Free(t, h, p[1], p[2])
      PROVE  SaysSum(t, f, R, p[1], p[2])
  <2> DEFINE i == p[1]
             j == p[2]
  <2>1. i \in 1 .. Len(t) + 1 /\ j \in 0 .. Len(t)
    OBVIOUS
  <2>2. /\ i <= j
        /\ \/ \E c \in i + 1 .. j : CutAt(t, h, f, i, j, c)
           \/ Leaf(t, f, i, j)
    BY <1>0, <1>1, <2>1, Rules
  <2>3. \A a \in 1 .. Len(t) + 1, b \in 0 .. Len(t) :
          b - a < j - i /\ f[SubSeq(t, a, b)] # E!Nonsense /\ Free(t, h, a, b) => SaysSum(t, f, R, a, b)
    <3> SUFFICES ASSUME NEW a \in 1 .. Len(t) + 1, NEW b \in 0 .. Len(t),
                        b - a < j - i, f[SubSeq(t, a, b)] # E!Nonsense, Free(t, h, a, b)
                 PROVE  SaysSum(t, f, R, a, b)
      OBVIOUS
    <3>1. <<a, b>> \in P /\ <<a, b>>[1] = a /\ <<a, b>>[2] = b
      OBVIOUS
    <3>2. <<a, b>> \in G
      <4> HIDE DEF P, G
      <4> QED BY <1>1, <3>1
    <3> QED BY <3>2
  <2>4. f[SubSeq(t, i, j)] # E!Nonsense /\ Free(t, h, i, j)
    BY <1>1
  <2> SUFFICES SaysSum(t, f, R, i, j)
    OBVIOUS
  <2> HIDE DEF i, j, P, G
  <2>5. i \in Int /\ j \in Int /\ i \in 1 .. Len(t) /\ j \in 1 .. Len(t)
    BY <1>0, <2>1, <2>2
  <2>6. WellFormed(t, h, i, j)
    BY <1>0, <2>1, <2>4, PartsWellFormed
  <2>7. ASSUME NEW c \in i + 1 .. j, CutAt(t, h, f, i, j, c) PROVE SaysSum(t, f, R, i, j)
    <3>1. /\ c - 1 \in 0 .. Len(t) /\ (c - 1) - i < j - i /\ c \in Int
          /\ c + 1 \in 1 .. Len(t) + 1 /\ j - (c + 1) < j - i
      BY <1>0, <2>5
    <3>2. f[SubSeq(t, i, c - 1)] # E!Nonsense /\ f[SubSeq(t, c + 1, j)] # E!Nonsense
      BY <2>7 DEF CutAt
    <3>3. Free(t, h, i, c - 1) => SaysSum(t, f, R, i, c - 1)
      BY <2>1, <2>3, <3>1, <3>2
    <3>4. Free(t, h, c + 1, j) => SaysSum(t, f, R, c + 1, j)
      BY <2>1, <2>3, <3>1, <3>2
    <3>5. c < j
      <4>1. WellFormed(t, h, c + 1, j)
        BY <1>0, <2>1, <3>1, <3>2, PartsWellFormed
      <4>2. c + 1 <= j
        BY <4>1 DEF WellFormed
      <4> QED BY <2>5, <3>1, <4>2
    <3> QED BY <2>4, <2>5, <2>6, <2>7, <3>3, <3>4, <3>5, CutSum
  <2>8. CASE Leaf(t, f, i, j)
    <3>1. ASSUME t[i].kind = "(" PROVE SaysSum(t, f, R, i + 1, j - 1) /\ WellFormed(t, h, i + 1, j - 1)
      <4>1. j > i + 1 /\ f[SubSeq(t, i, j)] = f[SubSeq(t, i + 1, j - 1)]
        BY <2>8, <3>1 DEF Leaf
      <4>2. /\ j - 1 \in 0 .. Len(t) /\ i + 1 \in 1 .. Len(t) + 1 /\ (j - 1) - (i + 1) < j - i
        BY <1>0, <2>5, <4>1
      <4>3. f[SubSeq(t, i + 1, j - 1)] # E!Nonsense
        BY <2>4, <4>1
      <4>4. WellFormed(t, h, i + 1, j - 1)
        BY <1>0, <4>2, <4>3, PartsWellFormed
      <4>5. Free(t, h, i + 1, j - 1)
        BY <2>5, <3>1, <4>1, <4>4, InnerPart
      <4>6. SaysSum(t, f, R, i + 1, j - 1)
        BY <2>3, <4>2, <4>3, <4>5
      <4> QED BY <4>4, <4>6
    <3> QED BY <2>4, <2>5, <2>8, <3>1, LeafSum
  <2> QED BY <2>2, <2>7, <2>8
<1>2. \A p \in P : (\A q \in P : q[2] - q[1] < p[2] - p[1] => q \in G) => p \in G
  BY <1>1
<1> HIDE DEF G
<1>3. P \subseteq G
  BY <1>0, <1>2, PairInduction
<1>4. ASSUME NEW i \in 1 .. Len(t) + 1, NEW j \in 0 .. Len(t),
             f[SubSeq(t, i, j)] # E!Nonsense, Free(t, h, i, j)
      PROVE  SaysSum(t, f, R, i, j)
  <2>1. <<i, j>> \in P /\ <<i, j>>[1] = i /\ <<i, j>>[2] = j
    OBVIOUS
  <2>2. <<i, j>> \in G
    BY <1>3, <2>1
  <2> QED BY <1>4, <2>1, <2>2 DEF G
<1> QED BY <1>4

-----------------------------------------------------------------------------
\* What the machine makes of a register.

(* A register stands alone, behind its factor, or before it.               *)
Single(t, r) ==
  /\ St(t, r - 1) = "+" /\ Factor(t, r) = 1
  /\ r < Len(t) => t[r + 1].kind \in {"+", "-"}
Behind(t, r) ==
  /\ r > 2 /\ t[r - 2].kind = "imm" /\ t[r - 1].kind = "*" /\ St(t, r - 3) = "+"
  /\ Factor(t, r) = t[r - 2].val /\ E!Narrow(t[r - 2].val) = t[r - 2].val
  /\ r < Len(t) => t[r + 1].kind \in {"+", "-"}
Before(t, r) ==
  /\ r + 2 <= Len(t) /\ t[r + 2].kind = "imm" /\ t[r + 1].kind = "*" /\ St(t, r - 1) = "+"
  /\ Factor(t, r) = t[r + 2].val /\ E!Narrow(t[r + 2].val) = t[r + 2].val

LEMMA NarrowKeeps ==
  ASSUME NEW t, NEW r, NEW j, E!Times(t, r, j)
  PROVE  E!Narrow(t[j].val) = t[j].val
<1> DEFINE m == 2 ^ ScaleWidth
           x == t[j].val
<1>1. m \in Nat /\ 8 < m
  BY OperandConstants
<1>2. x \in 0 .. m - 1
  BY DEF E!Times
<1> HIDE DEF m, x
<1>3. x % m = x
  BY <1>1, <1>2
<1> QED BY <1>3 DEF E!Narrow, m, x

LEMMA RoleOf ==
  ASSUME NEW t \in Seq(Tok), NEW h, NEW r \in 1 .. Len(t), NEW a \in 1 .. Len(t), NEW b \in 1 .. Len(t),
         IsAddend(t, h, r, a, b)
  PROVE  /\ a = r /\ b = r => Single(t, r)
         /\ a = r - 2 => b = r /\ Behind(t, r)
         /\ b = r + 2 => a = r /\ Before(t, r)
         /\ \/ a = r /\ b = r
            \/ a = r - 2
            \/ b = r + 2
<1>1. /\ a = r - 2 => Factor(t, r) = t[a].val
      /\ b = r + 2 => Factor(t, r) = t[b].val
      /\ a = r /\ b = r => Factor(t, r) = 1
  BY FactorIs
<1>2. St(t, a - 1) = "+"
  <2>1. CASE a = 1
    BY <2>1 DEF St
  <2>2. CASE a > 1
    <3>1. t[a - 1].kind = "+" /\ a - 1 > 0
      BY <2>2 DEF IsAddend
    <3> QED BY <3>1 DEF St
  <2> QED BY <2>1, <2>2
<1>3. /\ b < Len(t) => t[b + 1].kind \in {"+", "-"}
      /\ \/ a = r /\ b = r
         \/ a = r - 2 /\ b = r /\ t[r - 2].kind = "imm" /\ t[r - 1].kind = "*"
         \/ a = r /\ b = r + 2 /\ t[r + 2].kind = "imm" /\ t[r + 1].kind = "*"
  BY DEF IsAddend
<1>7. /\ a = r - 2 => E!Narrow(t[r - 2].val) = t[r - 2].val
      /\ b = r + 2 => E!Narrow(t[r + 2].val) = t[r + 2].val
  BY NarrowKeeps DEF IsAddend
<1>4. CASE a = r /\ b = r
  BY <1>1, <1>2, <1>3, <1>4 DEF Single
<1>5. CASE a = r - 2
  <2>1. (r - 2) - 1 = r - 3 /\ r > 2 /\ r - 2 # r
    BY <1>5
  <2> QED BY <1>1, <1>2, <1>3, <1>5, <1>7, <2>1 DEF Behind
<1>6. CASE b = r + 2
  <2>1. r + 2 <= Len(t) /\ r + 2 # r
    BY <1>6
  <2> QED BY <1>1, <1>2, <1>3, <1>6, <1>7, <2>1 DEF Before
<1> QED BY <1>3, <1>4, <1>5, <1>6

LEMMA Roles ==
  ASSUME NEW t \in Seq(Tok), NEW h, NEW f, Plain(t, h, f), NEW r \in 1 .. Len(t), t[r].kind = "reg"
  PROVE  Single(t, r) \/ Behind(t, r) \/ Before(t, r)
<1>1. PICK a \in 1 .. Len(t), b \in 1 .. Len(t) : IsAddend(t, h, r, a, b)
  BY DEF Plain
<1> QED BY <1>1, RoleOf

LEMMA Ended ==
  ASSUME NEW S, NEW s \in Seq(S), NEW x \in S
  PROVE  E!Front(Append(s, x)) = s /\ E!Last(Append(s, x)) = x
<1> DEFINE u == Append(s, x)
<1>1. u \in Seq(S) /\ Len(u) = Len(s) + 1 /\ u[Len(u)] = x
  OBVIOUS
<1>2. SubSeq(u, 1, Len(s)) = s
  OBVIOUS
<1>3. E!Front(u) = SubSeq(u, 1, Len(u) - 1) /\ E!Last(u) = u[Len(u)]
  BY DEF E!Front, E!Last
<1> HIDE DEF u
<1>4. Len(u) - 1 = Len(s)
  BY <1>1
<1>5. E!Front(u) = s /\ E!Last(u) = x
  BY <1>1, <1>2, <1>3, <1>4
<1> QED BY <1>5 DEF u

(* Behind a + a product is not pushed upon anything.                       *)
LEMMA StarPushed ==
  ASSUME NEW t \in Seq(Tok), NEW L \in 0 .. Len(t), NEW g, Trace(t, g, L),
         NEW k \in 0 .. L, St(t, k) = "+", NEW c, c.ops = g[k].ops
  PROVE  Pushing(c, "*").ops = Append(g[k].ops, "*") /\ Pushing(c, "*").post = c.post \o <<>>
<1> DEFINE s == g[k].ops
<1>1. s = <<>> \/ (Len(s) > 0 /\ s[Len(s)] = "+")
  <2>1. CASE k = 0
    BY <2>1 DEF Trace, StartConfig, Config
  <2>2. CASE k # 0
    <3>1. k \in 1 .. L /\ k \in 1 .. Len(t) /\ t[k].kind = "+" /\ k - 1 \in 0 .. L
      BY <2>2 DEF St
    <3>2. g[k - 1].ops \in Seq(Opers) /\ g[k - 1].post \in Seq(ICTok)
      BY <3>1, TraceTypes
    <3>3. g[k] = Moved(t, k, g[k - 1])
      BY <3>1 DEF Trace
    <3> DEFINE d == Placed(g[k - 1], St(t, k - 1), St(t, k - 2))
    <3>4. Moved(t, k, g[k - 1]) = Pushing(d, "+")
      BY <3>1, MovedIs
    <3>5. d.ops \in Seq(Opers) /\ d.post \in Seq(ICTok)
      BY <3>2, PlacedKeeps
    <3>6. "+" \in Opers
      BY DEF Opers, E!Dyadic
    <3> HIDE DEF d
    <3>7. Len(Pushing(d, "+").ops) > 0 /\ Pushing(d, "+").ops[Len(Pushing(d, "+").ops)] = "+"
      BY <3>5, <3>6, PushingTypes
    <3> QED BY <3>3, <3>4, <3>7
  <2> QED BY <2>1, <2>2
<1>2. ~ (s # <<>> /\ E!Prec["*"] <= E!Prec[E!Last(s)] /\ E!Last(s) # "(")
  <2>1. E!Prec["*"] = 5 /\ E!Prec["+"] = 4
    BY DEF E!Prec, E!Dyadic
  <2>2. s # <<>> => E!Last(s) = "+"
    BY <1>1 DEF E!Last
  <2> QED BY <2>1, <2>2
<1> HIDE DEF s
<1> DEFINE z == E!PushOperator(s, "*")
<1>3. z = [ops |-> Append(s, "*"), out |-> <<>>]
  BY <1>2 DEF E!PushOperator
<1>4. c.ops = s
  BY DEF s
<1>5. Pushing(c, "*").ops = z.ops /\ Pushing(c, "*").post = c.post \o z.out
  BY <1>4 DEF Pushing, Config
<1> HIDE DEF z
<1>6. Pushing(c, "*").ops = Append(s, "*") /\ Pushing(c, "*").post = c.post \o <<>>
  BY <1>3, <1>5
<1> QED BY <1>6 DEF s

(* A number and its * behind a +: a factor before its register.            *)
LEMMA FactorStep ==
  ASSUME NEW t \in Seq(Tok), NEW L \in 0 .. Len(t), NEW g, Trace(t, g, L),
         NEW r \in 1 .. Len(t), r - 1 <= L, Behind(t, r)
  PROVE  /\ g[r - 1].post = Append(g[r - 3].post, E!Token("imm", t[r - 2].val))
         /\ g[r - 1].ops = Append(g[r - 3].ops, "*")
<1>0. /\ L \in Nat /\ Len(t) \in Nat /\ r \in Int
      /\ \A k \in 1 .. L : k \in 1 .. Len(t) /\ k - 1 \in 0 .. L /\ g[k] = Moved(t, k, g[k - 1])
  BY DEF Trace
<1>1. \A k \in 0 .. L : g[k].ops \in Seq(Opers) /\ g[k].post \in Seq(ICTok)
  BY TraceTypes
<1>2. "*" \in Opers /\ "*" \in E!Dyadic \ {"+", "-"}
  BY DEF Opers, E!Dyadic
<1>6. /\ r > 2 /\ t[r - 2].kind = "imm" /\ t[r - 1].kind = "*" /\ St(t, r - 3) = "+"
  BY DEF Behind
<1> DEFINE x == r - 2
           y == r - 1
           z == r - 3
<1>7. /\ x \in 1 .. L /\ y \in 1 .. L /\ z \in 0 .. L /\ x - 1 = z /\ y - 1 = x /\ r - 1 = y
      /\ x - 2 = r - 4 /\ y - 2 = z /\ x > 0 /\ y > 0
  BY <1>0, <1>6
<1>8. t[x].kind = "imm" /\ t[y].kind = "*" /\ St(t, z) = "+" /\ t[x].val \in Int
  <2>1. t[x] \in Tok
    BY <1>0, <1>7
  <2> QED BY <1>6, <2>1 DEF Tok
<1> HIDE DEF x, y, z
<1>9. g[x].ops = g[z].ops /\ g[x].post = Append(g[z].post, E!Token("imm", t[x].val))
  <2>1. g[x] = Config(g[z].base, g[z].index, g[z].tmp, g[z].scale, g[z].ops,
              Append(g[z].post, E!Token("imm", Signed(t[x].val, "+", St(t, x - 2)))))
    <3>1. g[x] = Moved(t, x, g[z])
      BY <1>0, <1>7
    <3>2. x \in 1 .. Len(t) /\ ~ (St(t, x - 1) = "*" /\ St(t, x - 2) = "reg")
      BY <1>0, <1>7, <1>8
    <3> QED BY <1>7, <1>8, <3>1, <3>2, MovedIs
  <2>2. Signed(t[x].val, "+", St(t, x - 2)) = t[x].val
    BY DEF Signed
  <2> QED BY <2>1, <2>2 DEF Config
<1>10. g[y].ops = Append(g[z].ops, "*") /\ g[y].post = g[x].post
  <2>1. g[y] = Pushing(g[x], "*")
    <3>1. g[y] = Moved(t, y, g[x]) /\ y \in 1 .. Len(t)
      BY <1>0, <1>7
    <3> QED BY <1>2, <1>8, <3>1, MovedIs
  <2> DEFINE d == g[x]
  <2>5. d.ops = g[z].ops /\ z \in 0 .. L /\ St(t, z) = "+"
    BY <1>7, <1>8, <1>9
  <2> HIDE DEF d
  <2>6. Pushing(d, "*").ops = Append(g[z].ops, "*") /\ Pushing(d, "*").post = d.post \o <<>>
    BY <2>5, StarPushed
  <2>2. g[y].ops = Append(g[z].ops, "*") /\ g[y].post = g[x].post \o <<>>
    BY <2>1, <2>6 DEF d
  <2>3. g[x].post \in Seq(ICTok)
    BY <1>1, <1>7
  <2>4. g[x].post \o <<>> = g[x].post
    BY <2>3
  <2> QED BY <2>2, <2>4
<1> QED BY <1>9, <1>10 DEF x, y, z

(* A factor and its register leave the operators as they were.             *)
LEMMA TimesStep ==
  ASSUME NEW t \in Seq(Tok), NEW L \in 0 .. Len(t), NEW g, Trace(t, g, L),
         NEW r \in 1 .. L, t[r].kind = "reg"
  PROVE  /\ Behind(t, r) =>
              /\ g[r - 1].post = Append(g[r - 3].post, E!Token("imm", t[r - 2].val))
              /\ g[r - 1].ops = Append(g[r - 3].ops, "*")
              /\ g[r].post = Append(g[r - 3].post, E!Token("imm", 0)) /\ g[r].ops = g[r - 3].ops
         /\ Before(t, r) /\ r + 2 <= L =>
              g[r + 2].post = Append(g[r - 1].post, E!Token("reg", 0)) /\ g[r + 2].ops = g[r - 1].ops
<1>0. /\ L \in Nat /\ Len(t) \in Nat /\ r \in Int
      /\ \A k \in 1 .. L : k \in 1 .. Len(t) /\ k - 1 \in 0 .. L /\ g[k] = Moved(t, k, g[k - 1])
  BY DEF Trace
<1>1. \A k \in 0 .. L : g[k].ops \in Seq(Opers) /\ g[k].post \in Seq(ICTok)
  BY TraceTypes
<1>2. "*" \in Opers /\ "*" \in E!Dyadic \ {"+", "-"}
  BY DEF Opers, E!Dyadic
<1>3. \A v \in Int : E!Token("imm", v) \in ICTok /\ E!Token("reg", v) \in ICTok
  BY DEF E!Token, ICTok
<1>4. ASSUME Behind(t, r)
      PROVE  /\ g[r - 1].post = Append(g[r - 3].post, E!Token("imm", t[r - 2].val))
             /\ g[r - 1].ops = Append(g[r - 3].ops, "*")
             /\ g[r].post = Append(g[r - 3].post, E!Token("imm", 0)) /\ g[r].ops = g[r - 3].ops
  <2>1. /\ r > 2 /\ t[r - 2].kind = "imm" /\ t[r - 1].kind = "*" /\ St(t, r - 3) = "+"
    BY <1>4 DEF Behind
  <2> DEFINE x == r - 2
             y == r - 1
             z == r - 3
  <2>2. /\ x \in 1 .. L /\ y \in 1 .. L /\ z \in 0 .. L /\ x - 1 = z /\ y - 1 = x /\ r - 1 = y
        /\ x - 2 = r - 4 /\ y - 2 = z /\ x > 0 /\ y > 0
    BY <1>0, <2>1
  <2>3. t[x].kind = "imm" /\ t[y].kind = "*" /\ St(t, z) = "+" /\ t[x].val \in Int
    <3>1. t[x] \in Tok
      BY <1>0, <2>2
    <3> QED BY <2>1, <3>1 DEF Tok
  <2> HIDE DEF x, y, z
  <2>4. E!Token("imm", t[x].val) \in ICTok /\ r \in 1 .. Len(t) /\ r - 1 <= L
    BY <1>0, <1>3, <2>3
  <2>5. g[y].ops = Append(g[z].ops, "*") /\ g[y].post = Append(g[z].post, E!Token("imm", t[x].val))
    BY <1>4, <2>4, FactorStep DEF x, y, z
  <2>6. g[r].ops = E!Front(g[y].ops) /\ g[r].post = Append(E!Front(g[y].post), E!Token("imm", 0))
    <3>1. g[r] = Moved(t, r, g[y]) /\ r \in 1 .. Len(t)
      BY <1>0, <2>2
    <3>2. St(t, r - 1) = "*"
      BY <2>2, <2>3 DEF St
    <3>3. g[r] = Config(g[y].base, t[r].val, g[y].tmp, E!Narrow(E!Last(g[y].post).val), E!Front(g[y].ops),
                        Append(E!Front(g[y].post), E!Token("imm", 0)))
      BY <3>1, <3>2, MovedIs
    <3> QED BY <3>3 DEF Config
  <2>7. g[z].ops \in Seq(Opers) /\ g[z].post \in Seq(ICTok) /\ E!Token("imm", t[x].val) \in ICTok
    BY <1>1, <1>3, <2>2, <2>3
  <2>8. E!Front(g[y].ops) = g[z].ops
    BY <1>2, <2>5, <2>7, Ended
  <2>9. E!Front(g[y].post) = g[z].post
    BY <2>5, <2>7, Ended
  <2> QED BY <2>5, <2>6, <2>8, <2>9 DEF x, y, z
<1>5. ASSUME Before(t, r), r + 2 <= L
      PROVE  g[r + 2].post = Append(g[r - 1].post, E!Token("reg", 0)) /\ g[r + 2].ops = g[r - 1].ops
  <2> DEFINE x == r + 2
             y == r + 1
             z == r - 1
  <2>2. /\ x \in 1 .. L /\ y \in 1 .. L /\ z \in 0 .. L /\ x - 1 = y /\ y - 1 = r /\ r - 1 = z
        /\ x - 2 = r /\ y > 0 /\ r > 0
    BY <1>0, <1>5
  <2>3. t[x].kind = "imm" /\ t[y].kind = "*" /\ St(t, z) = "+"
    BY <1>5 DEF Before
  <2> HIDE DEF x, y, z
  <2>4. g[r].ops = g[z].ops /\ g[r].post = Append(g[z].post, E!Token("reg", 0))
    <3>1. g[r] = Moved(t, r, g[z]) /\ r \in 1 .. Len(t) /\ St(t, r - 1) \in {"+", "("}
      BY <1>0, <2>2, <2>3
    <3>2. g[r] = Config(g[z].base, g[z].index, t[r].val, g[z].scale, g[z].ops,
                        Append(g[z].post, E!Token("reg", 0)))
      BY <3>1, MovedIs
    <3> QED BY <3>2 DEF Config
  <2>5. g[y].ops = Append(g[z].ops, "*") /\ g[y].post = g[r].post
    <3>1. g[y] = Pushing(g[r], "*")
      <4>1. g[y] = Moved(t, y, g[r]) /\ y \in 1 .. Len(t)
        BY <1>0, <2>2
      <4> QED BY <1>2, <2>3, <4>1, MovedIs
    <3> DEFINE d == g[r]
    <3>0. d.ops = g[z].ops
      BY <2>4
    <3>6. z \in 0 .. L /\ St(t, z) = "+"
      BY <2>2, <2>3
    <3> HIDE DEF d
    <3>5. Pushing(d, "*").ops = Append(g[z].ops, "*") /\ Pushing(d, "*").post = d.post \o <<>>
      BY <3>0, <3>6, StarPushed
    <3>2. g[y].ops = Append(g[z].ops, "*") /\ g[y].post = g[r].post \o <<>>
      BY <3>1, <3>5 DEF d
    <3>3. g[r].post \in Seq(ICTok)
      BY <1>1, <2>2
    <3>4. g[r].post \o <<>> = g[r].post
      BY <3>3
    <3> QED BY <3>2, <3>4
  <2>6. g[x].ops = E!Front(g[y].ops) /\ g[x].post = g[y].post
    <3>1. g[x] = Moved(t, x, g[y]) /\ x \in 1 .. Len(t)
      BY <1>0, <2>2
    <3>2. St(t, x - 1) = "*" /\ St(t, x - 2) = "reg"
      BY <2>2, <2>3 DEF St
    <3>3. g[x] = Config(g[y].base, g[y].tmp, g[y].tmp, E!Narrow(t[x].val), E!Front(g[y].ops), g[y].post)
      BY <2>3, <3>1, <3>2, MovedIs
    <3> QED BY <3>3 DEF Config
  <2>7. g[z].ops \in Seq(Opers)
    BY <1>1, <2>2
  <2>8. E!Front(g[y].ops) = g[z].ops
    BY <1>2, <2>5, <2>7, Ended
  <2> QED BY <2>4, <2>5, <2>6, <2>8 DEF x, z
<1> QED BY <1>4, <1>5

(* The register that is read and not yet base or index, by its place.      *)
Waits(t, k) ==
  IF Stands(St(t, k), St(t, k - 1)) THEN k
  ELSE IF St(t, k) = "*" /\ St(t, k - 1) = "reg" THEN k - 1 ELSE 0

LEMMA WaitsNext ==
  ASSUME NEW t \in Seq(Tok), NEW h, NEW f, Plain(t, h, f), NEW k \in 1 .. Len(t)
  PROVE  /\ Waits(t, k - 1) = 0 =>
              /\ ~ Stands(St(t, k - 1), St(t, k - 2))
              /\ ~ (St(t, k - 1) = "*" /\ St(t, k - 2) = "reg")
              /\ t[k].kind # "reg" => Waits(t, k) = 0
         /\ Waits(t, k - 1) # 0 =>
              \/ /\ Waits(t, k - 1) = k - 1 /\ Stands(St(t, k - 1), St(t, k - 2))
                 /\ k - 1 \in 1 .. Len(t) /\ t[k - 1].kind = "reg"
                 /\ t[k].kind \in {"+", "-"} /\ Factor(t, k - 1) = 1 /\ Waits(t, k) = 0
              \/ /\ Waits(t, k - 1) = k - 1 /\ t[k].kind = "*" /\ Waits(t, k) = k - 1
                 /\ k - 1 \in 1 .. Len(t) /\ t[k - 1].kind = "reg"
              \/ /\ Waits(t, k - 1) = k - 2 /\ t[k].kind = "imm" /\ Waits(t, k) = 0
                 /\ k - 2 \in 1 .. Len(t) /\ t[k - 2].kind = "reg"
                 /\ St(t, k - 1) = "*" /\ St(t, k - 2) = "reg" /\ Factor(t, k - 2) = t[k].val
                 /\ E!Narrow(t[k].val) = t[k].val
         /\ t[k].kind = "reg" /\ St(t, k - 1) # "*" => Waits(t, k) = k
         /\ t[k].kind = "reg" /\ St(t, k - 1) = "*" => Waits(t, k) = 0
<1> DEFINE y == k - 1
           z == k - 2
<1>0. /\ y \in 0 .. Len(t) /\ z \in -1 .. Len(t) /\ y - 1 = z /\ k - 1 = y /\ k - 2 = z
      /\ k \in Int /\ k # 0 /\ k > 0 /\ k # y
  OBVIOUS
<1> HIDE DEF y, z
<1>1. St(t, k) = IF t[k].kind = "imm" THEN "int" ELSE t[k].kind
  BY <1>0 DEF St
<1>2. /\ Waits(t, y) = IF Stands(St(t, y), St(t, z)) THEN y
                       ELSE IF St(t, y) = "*" /\ St(t, z) = "reg" THEN z ELSE 0
      /\ Waits(t, k) = IF Stands(St(t, k), St(t, y)) THEN k
                       ELSE IF St(t, k) = "*" /\ St(t, y) = "reg" THEN y ELSE 0
  BY <1>0 DEF Waits
<1>3. \A m \in -1 .. Len(t) :
        /\ St(t, m) = "reg" => m \in 1 .. Len(t) /\ t[m].kind = "reg"
        /\ St(t, m) = "*" => m \in 1 .. Len(t) /\ t[m].kind = "*"
        /\ m \in 1 .. Len(t) /\ t[m].kind = "*" => St(t, m) = "*"
        /\ m \in 1 .. Len(t) /\ t[m].kind = "reg" => St(t, m) = "reg"
  BY DEF St
<1>4. CASE Stands(St(t, y), St(t, z))
  <2>1. St(t, y) = "reg" /\ St(t, z) # "*" /\ y \in 1 .. Len(t) /\ t[y].kind = "reg"
        /\ Waits(t, y) = y /\ y # 0
    BY <1>0, <1>2, <1>3, <1>4 DEF Stands
  <2>2. y < Len(t) /\ y + 1 = k /\ z \in -1 .. Len(t)
    BY <1>0, <2>1
  <2>3. ~ Behind(t, y)
    <3>1. SUFFICES ASSUME Behind(t, y) PROVE FALSE
      OBVIOUS
    <3>2. t[z].kind = "*" /\ z \in 1 .. Len(t)
      BY <1>0, <2>1, <3>1 DEF Behind
    <3> QED BY <1>3, <2>1, <2>2, <3>2
  <2>4. \/ t[k].kind \in {"+", "-"} /\ Factor(t, y) = 1
        \/ t[k].kind = "*"
    <3>1. Single(t, y) \/ Before(t, y)
      BY <2>1, <2>3, Roles
    <3> QED BY <2>2, <3>1 DEF Single, Before
  <2>5. /\ t[k].kind \in {"+", "-"} => Waits(t, k) = 0
        /\ t[k].kind = "*" => Waits(t, k) = y
    BY <1>1, <1>2, <2>1 DEF Stands
  <2> QED BY <1>0, <1>4, <2>1, <2>4, <2>5
<1>5. CASE ~ Stands(St(t, y), St(t, z)) /\ St(t, y) = "*" /\ St(t, z) = "reg"
  <2>1. Waits(t, y) = z /\ y \in 1 .. Len(t) /\ z \in 1 .. Len(t) /\ t[z].kind = "reg"
        /\ t[y].kind = "*" /\ z # 0
    BY <1>0, <1>2, <1>3, <1>5
  <2>2. z < Len(t) /\ z + 1 = y /\ z + 2 = k
    BY <1>0, <2>1
  <2>3. ~ (Single(t, z) \/ Behind(t, z))
    BY <2>1, <2>2 DEF Single, Behind
  <2>4. Before(t, z)
    BY <2>1, <2>3, Roles
  <2>5. t[k].kind = "imm" /\ Factor(t, z) = t[k].val /\ E!Narrow(t[k].val) = t[k].val
    BY <2>2, <2>4 DEF Before
  <2>6. Waits(t, k) = 0
    BY <1>1, <1>2, <2>5 DEF Stands
  <2> QED BY <1>0, <1>5, <2>1, <2>5, <2>6
<1>6. CASE ~ Stands(St(t, y), St(t, z)) /\ ~ (St(t, y) = "*" /\ St(t, z) = "reg")
  <2>1. Waits(t, y) = 0
    BY <1>2, <1>6
  <2>2. ASSUME t[k].kind # "reg" PROVE Waits(t, k) = 0
    <3>1. ~ Stands(St(t, k), St(t, y))
      BY <1>1, <2>2 DEF Stands
    <3>2. ~ (St(t, k) = "*" /\ St(t, y) = "reg")
      <4> SUFFICES ASSUME St(t, k) = "*", St(t, y) = "reg" PROVE FALSE
        OBVIOUS
      <4>1. t[k].kind = "*" /\ y \in 1 .. Len(t) /\ t[y].kind = "reg" /\ y + 1 = k /\ y < Len(t)
        BY <1>0, <1>1, <1>3
      <4>2. ~ Single(t, y) /\ ~ Behind(t, y)
        BY <4>1 DEF Single, Behind
      <4>3. Before(t, y)
        BY <4>1, <4>2, Roles
      <4>4. St(t, z) = "+"
        BY <1>0, <4>3 DEF Before
      <4> QED BY <1>6, <4>4 DEF Stands
    <3> QED BY <1>2, <3>1, <3>2
  <2>3. /\ t[k].kind = "reg" /\ St(t, y) # "*" => Waits(t, k) = k
        /\ t[k].kind = "reg" /\ St(t, y) = "*" => Waits(t, k) = 0
    BY <1>1, <1>2 DEF Stands
  <2> QED BY <1>0, <1>6, <2>1, <2>2, <2>3
<1> QED BY <1>4, <1>5, <1>6

(* What base and index count for a register, and what it is still owed.    *)
Held(c, q) == (IF c.base = q THEN 1 ELSE 0) + (IF c.index = q THEN c.scale ELSE 0)
Owed(t, k, q) == IF Waits(t, k) # 0 /\ t[Waits(t, k)].val = q THEN Factor(t, Waits(t, k)) ELSE 0
Holds(t, R, k, c) ==
  /\ c.scale \in Int
  /\ Waits(t, k) # 0 => c.tmp = t[Waits(t, k)].val
  /\ \A q \in Regs : Held(c, q) + Owed(t, k, q) = R[k][q]

(* The registers but for tmp after each token.                             *)
SameRegisters(c, e) == e.base = c.base /\ e.index = c.index /\ e.scale = c.scale /\ e.tmp = c.tmp
PlacedIn(c, e) ==
  IF c.base = E!NoReg THEN e.base = c.tmp /\ e.index = c.index /\ e.scale = c.scale
  ELSE e.base = c.base /\ e.index = c.tmp /\ e.scale = 1

LEMMA PushedRegisters ==
  ASSUME NEW c, NEW o PROVE SameRegisters(c, Pushing(c, o))
BY DEF SameRegisters, Pushing, Config

LEMMA PlacedRegisters ==
  ASSUME NEW c, NEW s, NEW p, NEW o
  PROVE  /\ ~ Stands(s, p) => SameRegisters(c, Pushing(Placed(c, s, p), o))
         /\ Stands(s, p) => PlacedIn(c, Pushing(Placed(c, s, p), o))
<1>1. ASSUME ~ Stands(s, p) PROVE SameRegisters(c, Pushing(Placed(c, s, p), o))
  <2>1. Placed(c, s, p) = c
    BY <1>1 DEF Placed
  <2>2. SameRegisters(c, Pushing(c, o))
    BY PushedRegisters
  <2> QED BY <2>1, <2>2
<1>2. ASSUME Stands(s, p) PROVE PlacedIn(c, Pushing(Placed(c, s, p), o))
  BY <1>2 DEF Placed, PlacedIn, Pushing, Config
<1> QED BY <1>1, <1>2

LEMMA MovedRegisters ==
  ASSUME NEW t \in Seq(Tok), NEW k \in 1 .. Len(t), NEW c
  PROVE  /\ t[k].kind \notin {"+", "-", "reg"} /\ ~ (St(t, k - 1) = "*" /\ St(t, k - 2) = "reg")
              => SameRegisters(c, Moved(t, k, c))
         /\ t[k].kind \in {"+", "-"} /\ ~ Stands(St(t, k - 1), St(t, k - 2))
              => SameRegisters(c, Moved(t, k, c))
         /\ t[k].kind = "*" => SameRegisters(c, Moved(t, k, c))
         /\ t[k].kind \in {"+", "-"} /\ Stands(St(t, k - 1), St(t, k - 2))
              => PlacedIn(c, Moved(t, k, c))
         /\ t[k].kind = "reg" /\ St(t, k - 1) \in {"+", "("} =>
              LET e == Moved(t, k, c)
              IN e.base = c.base /\ e.index = c.index /\ e.scale = c.scale /\ e.tmp = t[k].val
         /\ t[k].kind = "reg" /\ St(t, k - 1) \notin {"+", "("} =>
              LET e == Moved(t, k, c)
              IN e.base = c.base /\ e.index = t[k].val /\ e.scale = E!Narrow(E!Last(c.post).val)
         /\ t[k].kind = "imm" /\ St(t, k - 1) = "*" /\ St(t, k - 2) = "reg" =>
              LET e == Moved(t, k, c)
              IN e.base = c.base /\ e.index = c.tmp /\ e.scale = E!Narrow(t[k].val)
<1> DEFINE s == St(t, k - 1)
           p == St(t, k - 2)
           e == Moved(t, k, c)
<1>1. /\ t[k].kind \in Kinds
      /\ t[k].kind \in (E!Dyadic \ {"+", "-"}) \union {"(", ")"} => e = Pushing(c, t[k].kind)
      /\ t[k].kind = "+" => e = Pushing(Placed(c, s, p), "+")
      /\ t[k].kind = "-" => e = IF s \in E!Signable THEN c ELSE Pushing(Placed(c, s, p), "-")
      /\ t[k].kind = "~" => e = c
  BY MovedIs
<1>2. /\ t[k].kind = "reg" /\ s \in {"+", "("} =>
              e = Config(c.base, c.index, t[k].val, c.scale, c.ops,
                                      Append(c.post, E!Token("reg", 0)))
      /\ t[k].kind = "reg" /\ s \notin {"+", "("} =>
              e = Config(c.base, t[k].val, c.tmp, E!Narrow(E!Last(c.post).val), E!Front(c.ops),
                                      Append(E!Front(c.post), E!Token("imm", 0)))
  BY MovedIs
<1>3. /\ t[k].kind = "imm" /\ s = "*" /\ p = "reg" =>
              e = Config(c.base, c.tmp, c.tmp, E!Narrow(t[k].val), E!Front(c.ops), c.post)
      /\ t[k].kind = "imm" /\ ~ (s = "*" /\ p = "reg") =>
              e = Config(c.base, c.index, c.tmp, c.scale, c.ops,
                Append(c.post, E!Token("imm", Signed(t[k].val, s, p))))
  BY MovedIs
<1>4. "*" \in E!Dyadic \ {"+", "-"} /\ "+" \in E!Dyadic /\ "-" \in E!Dyadic
  BY DEF E!Dyadic
<1> HIDE DEF s, p, e
<1>5. SameRegisters(c, c) /\ SameRegisters(c, Pushing(c, t[k].kind))
  BY PushedRegisters DEF SameRegisters
<1>6. ASSUME t[k].kind \notin {"+", "-", "reg"}, ~ (s = "*" /\ p = "reg")
      PROVE  SameRegisters(c, e)
  <2>1. CASE t[k].kind = "imm"
    <3>1. e = Config(c.base, c.index, c.tmp, c.scale, c.ops,
                Append(c.post, E!Token("imm", Signed(t[k].val, s, p))))
      BY <1>3, <1>6, <2>1
    <3> QED BY <3>1 DEF SameRegisters, Config
  <2>2. CASE t[k].kind # "imm"
    <3>1. e = c \/ e = Pushing(c, t[k].kind)
      BY <1>1, <1>6, <2>2 DEF Kinds
    <3> QED BY <1>5, <3>1
  <2> QED BY <2>1, <2>2
<1>7. ASSUME t[k].kind = "*" PROVE SameRegisters(c, e)
  BY <1>1, <1>4, <1>5, <1>7
<1>8. /\ t[k].kind \in {"+", "-"} /\ ~ Stands(s, p) => SameRegisters(c, e)
      /\ t[k].kind \in {"+", "-"} /\ Stands(s, p) => PlacedIn(c, e)
  <2>1. s \in E!Signable => ~ Stands(s, p)
    BY DEF Stands, E!Signable
  <2>2. /\ ~ Stands(s, p) => /\ SameRegisters(c, Pushing(Placed(c, s, p), "+"))
                             /\ SameRegisters(c, Pushing(Placed(c, s, p), "-"))
        /\ Stands(s, p) => /\ PlacedIn(c, Pushing(Placed(c, s, p), "+"))
                           /\ PlacedIn(c, Pushing(Placed(c, s, p), "-"))
    BY PlacedRegisters
  <2> QED BY <1>1, <1>5, <2>1, <2>2
<1>9. ASSUME t[k].kind = "reg", s \in {"+", "("}
      PROVE  e.base = c.base /\ e.index = c.index /\ e.scale = c.scale /\ e.tmp = t[k].val
  <2>1. e = Config(c.base, c.index, t[k].val, c.scale, c.ops, Append(c.post, E!Token("reg", 0)))
    BY <1>2, <1>9
  <2> QED BY <2>1 DEF Config
<1>10. ASSUME t[k].kind = "reg", s \notin {"+", "("}
       PROVE  e.base = c.base /\ e.index = t[k].val /\ e.scale = E!Narrow(E!Last(c.post).val)
  <2>1. e = Config(c.base, t[k].val, c.tmp, E!Narrow(E!Last(c.post).val), E!Front(c.ops),
                   Append(E!Front(c.post), E!Token("imm", 0)))
    BY <1>2, <1>10
  <2> QED BY <2>1 DEF Config
<1>11. ASSUME t[k].kind = "imm", s = "*", p = "reg"
       PROVE  e.base = c.base /\ e.index = c.tmp /\ e.scale = E!Narrow(t[k].val)
  <2>1. e = Config(c.base, c.tmp, c.tmp, E!Narrow(t[k].val), E!Front(c.ops), c.post)
    BY <1>3, <1>11
  <2> QED BY <2>1 DEF Config
<1> QED BY <1>6, <1>7, <1>8, <1>9, <1>10, <1>11 DEF s, p, e

LEMMA SumOneMore ==
  ASSUME NEW t \in Seq(Tok), NEW R \in RegSums(t), NEW k \in 1 .. Len(t), NEW q \in Regs
  PROVE  /\ R[k][q] \in Int /\ R[k - 1][q] \in Int /\ q # E!NoReg
         /\ R[k][q] = R[k - 1][q] + (IF t[k].kind = "reg" /\ t[k].val = q THEN Factor(t, k) ELSE 0)
<1>1. R \in [0 .. Len(t) -> [Regs -> Int]] /\ k - 1 \in 0 .. Len(t) /\ k \in 0 .. Len(t)
  BY DEF RegSums
<1>2. R[k] = [p \in Regs |-> R[k - 1][p] + Shares(t, k)[p]]
  BY DEF RegSums
<1>3. Shares(t, k)[q] = IF t[k].kind = "reg" /\ t[k].val = q THEN Factor(t, k) ELSE 0
  BY DEF Shares
<1>4. q # E!NoReg
  BY OperandConstants DEF E!NoReg
<1>5. R[k] \in [Regs -> Int] /\ R[k - 1] \in [Regs -> Int]
  BY <1>1
<1>6. R[k][q] \in Int /\ R[k - 1][q] \in Int
  BY <1>5
<1> QED BY <1>2, <1>3, <1>4, <1>6

(* Base, index and what waits add up to what was read.                     *)
LEMMA HoldsStep ==
  ASSUME NEW t \in Seq(Tok), NEW h, NEW f, Plain(t, h, f), NEW R \in RegSums(t),
         NEW L \in 0 .. Len(t), NEW g, Trace(t, g, L), NEW k \in 1 .. L, Holds(t, R, k - 1, g[k - 1])
  PROVE  Holds(t, R, k, g[k])
<1> DEFINE c == g[k - 1]
           e == Moved(t, k, c)
           s == St(t, k - 1)
           p == St(t, k - 2)
           w == Waits(t, k - 1)
           v == Waits(t, k)
<1>0. /\ k \in 1 .. Len(t) /\ k - 1 \in 0 .. L /\ k \in Int /\ L \in Nat /\ k # 0
      /\ g[k] = e /\ Takes(t, k, c) /\ t[k] \in Tok
  BY DEF Trace
<1>1. \A q \in Regs :
        /\ R[k][q] \in Int /\ R[k - 1][q] \in Int /\ q # E!NoReg
        /\ R[k][q] = R[k - 1][q] + (IF t[k].kind = "reg" /\ t[k].val = q THEN Factor(t, k) ELSE 0)
  BY <1>0, SumOneMore
<1>2. /\ c.scale \in Int
      /\ w # 0 => c.tmp = t[w].val
      /\ \A q \in Regs : Held(c, q) + Owed(t, k - 1, q) = R[k - 1][q]
  BY DEF Holds
<1>3. \A m \in Int : Factor(t, m) \in Int
  BY FactorIsInt
<1>4. t[k].kind \in Kinds /\ t[k].val \in Int
  BY <1>0 DEF Tok
<1>5. \A q \in Regs : Held(c, q) \in Int
  BY <1>2 DEF Held
<1> SUFFICES /\ e.scale \in Int
             /\ v # 0 => e.tmp = t[v].val
             /\ \A q \in Regs : Held(e, q) + Owed(t, k, q) = R[k][q]
  BY <1>0 DEF Holds
<1>6. CASE w = 0 /\ t[k].kind # "reg"
  <2>1. v = 0 /\ ~ Stands(s, p) /\ ~ (s = "*" /\ p = "reg")
    BY <1>0, <1>6, WaitsNext
  <2>2. SameRegisters(c, e)
    BY <1>0, <1>6, <2>1, MovedRegisters
  <2>3. \A q \in Regs : Held(e, q) = Held(c, q) /\ Owed(t, k, q) = 0 /\ Owed(t, k - 1, q) = 0
    BY <1>6, <2>1, <2>2 DEF SameRegisters, Held, Owed
  <2>4. e.scale \in Int
    BY <1>2, <2>2 DEF SameRegisters
  <2> HIDE DEF e, c, w, v
  <2>5. ASSUME NEW q \in Regs PROVE Held(e, q) + Owed(t, k, q) = R[k][q]
    BY <1>1, <1>2, <1>6, <2>3
  <2> QED BY <2>1, <2>4, <2>5
<1>7. CASE w = 0 /\ t[k].kind = "reg" /\ s # "*"
  <2>1. v = k /\ s \in {"+", "("}
    <3>1. v = k
      BY <1>0, <1>7, WaitsNext
    <3> QED BY <1>0, <1>7, <3>1 DEF Takes
  <2>2. e.base = c.base /\ e.index = c.index /\ e.scale = c.scale /\ e.tmp = t[k].val
    BY <1>0, <1>7, <2>1, MovedRegisters
  <2>3. \A q \in Regs : /\ Held(e, q) = Held(c, q) /\ Owed(t, k - 1, q) = 0
                        /\ Owed(t, k, q) = IF t[k].val = q THEN Factor(t, k) ELSE 0
    BY <1>0, <1>7, <2>1, <2>2 DEF Held, Owed
  <2> HIDE DEF e, c, w, v
  <2>5. ASSUME NEW q \in Regs PROVE Held(e, q) + Owed(t, k, q) = R[k][q]
    <3>1. Held(c, q) + 0 = R[k - 1][q] /\ Held(c, q) \in Int
      BY <1>2, <1>5, <2>3
    <3> QED BY <1>1, <1>7, <2>3, <3>1
  <2> QED BY <1>2, <2>1, <2>2, <2>5
<1>8. CASE w = 0 /\ t[k].kind = "reg" /\ s = "*"
  <2>1. v = 0
    BY <1>0, <1>8, WaitsNext
  <2>2. e.base = c.base /\ e.index = t[k].val /\ e.scale = E!Narrow(E!Last(c.post).val)
    BY <1>0, <1>8, MovedRegisters
  <2>3. c.index = E!NoReg
    BY <1>0, <1>8 DEF Takes
  <2>4. e.scale = Factor(t, k) /\ e.scale \in Int
    <3>1. Behind(t, k)
      <4>1. Single(t, k) \/ Behind(t, k) \/ Before(t, k)
        BY <1>0, <1>8, Roles
      <4> QED BY <1>8, <4>1 DEF Single, Before
    <3>2. c.post = Append(g[k - 3].post, E!Token("imm", t[k - 2].val))
      BY <1>8, <3>1, TimesStep
    <3>3. /\ k - 3 \in 0 .. L /\ k - 2 \in 1 .. Len(t) /\ Factor(t, k) = t[k - 2].val
          /\ E!Narrow(t[k - 2].val) = t[k - 2].val
      BY <1>0, <3>1 DEF Behind
    <3>4. g[k - 3].post \in Seq(ICTok) /\ E!Token("imm", t[k - 2].val) \in ICTok
      <4>1. t[k - 2] \in Tok
        BY <3>3
      <4> QED BY <3>3, <4>1, TraceTypes DEF ICTok, E!Token, Tok
    <3> HIDE DEF e, c
    <3>5. E!Last(c.post) = E!Token("imm", t[k - 2].val)
      BY <3>2, <3>4, Ended
    <3>6. E!Last(c.post).val = t[k - 2].val
      BY <3>5 DEF E!Token
    <3> QED BY <1>0, <1>3, <2>2, <3>3, <3>6
  <2> HIDE DEF e, c, w, v
  <2>5. ASSUME NEW q \in Regs PROVE Held(e, q) + Owed(t, k, q) = R[k][q]
    <3>1. Owed(t, k, q) = 0 /\ Owed(t, k - 1, q) = 0
      BY <1>8, <2>1 DEF Owed, w, v
    <3>2. Held(c, q) = IF c.base = q THEN 1 ELSE 0
      BY <1>1, <2>3 DEF Held
    <3>3. Held(e, q) = Held(c, q) + (IF t[k].val = q THEN Factor(t, k) ELSE 0)
      BY <2>2, <2>4, <3>2 DEF Held
    <3> QED BY <1>1, <1>2, <1>8, <2>4, <3>1, <3>2, <3>3
  <2> QED BY <2>1, <2>4, <2>5
<1>9. CASE /\ w = k - 1 /\ Stands(s, p) /\ k - 1 \in 1 .. Len(t) /\ t[k - 1].kind = "reg"
           /\ t[k].kind \in {"+", "-"} /\ Factor(t, k - 1) = 1 /\ v = 0
  <2>1. PlacedIn(c, e)
    BY <1>0, <1>9, MovedRegisters
  <2>2. CanPlace(c, s, p)
    <3>1. s \in Ends /\ s \notin E!Signable
      BY <1>9 DEF Stands, Ends, E!Signable
    <3> QED BY <1>0, <1>9, <3>1 DEF Takes
  <2>3. c.base = E!NoReg \/ c.index = E!NoReg
    BY <1>9, <2>2 DEF CanPlace
  <2>4. c.tmp = t[k - 1].val /\ w # 0
    BY <1>2, <1>9
  <2> HIDE DEF e, c, v
  <2>5. ASSUME NEW q \in Regs PROVE Held(e, q) + Owed(t, k, q) = R[k][q]
    <3>1. Owed(t, k, q) = 0 /\ Owed(t, k - 1, q) = IF c.tmp = q THEN 1 ELSE 0
      BY <1>9, <2>4 DEF Owed, v
    <3>2. Held(e, q) = Held(c, q) + (IF c.tmp = q THEN 1 ELSE 0)
      <4>1. q # E!NoReg
        BY <1>1
      <4>2. CASE c.base = E!NoReg
        BY <1>2, <2>1, <4>1, <4>2 DEF Held, PlacedIn
      <4>3. CASE c.base # E!NoReg
        <5>1. e.base = c.base /\ e.index = c.tmp /\ e.scale = 1 /\ c.index # q
          BY <2>1, <2>3, <4>1, <4>3 DEF PlacedIn
        <5> QED BY <5>1 DEF Held
      <4> QED BY <4>2, <4>3
    <3>3. R[k][q] = R[k - 1][q]
      BY <1>1, <1>9
    <3>4. Held(c, q) + Owed(t, k - 1, q) = R[k - 1][q] /\ Held(c, q) \in Int
      BY <1>2, <1>5
    <3> QED BY <3>1, <3>2, <3>3, <3>4
  <2>6. e.scale \in Int
    BY <1>2, <2>1 DEF PlacedIn
  <2> QED BY <1>9, <2>5, <2>6
<1>10. CASE /\ w = k - 1 /\ t[k].kind = "*" /\ v = k - 1
            /\ k - 1 \in 1 .. Len(t) /\ t[k - 1].kind = "reg"
  <2>1. SameRegisters(c, e)
    BY <1>0, <1>10, MovedRegisters
  <2>2. \A q \in Regs : Held(e, q) = Held(c, q) /\ Owed(t, k, q) = Owed(t, k - 1, q)
    BY <1>10, <2>1 DEF SameRegisters, Held, Owed
  <2>3. e.scale \in Int /\ e.tmp = c.tmp
    BY <1>2, <2>1 DEF SameRegisters
  <2> HIDE DEF e, c
  <2>5. ASSUME NEW q \in Regs PROVE Held(e, q) + Owed(t, k, q) = R[k][q]
    BY <1>1, <1>2, <1>10, <2>2
  <2> QED BY <1>2, <1>10, <2>3, <2>5
<1>11. CASE /\ w = k - 2 /\ t[k].kind = "imm" /\ v = 0
            /\ k - 2 \in 1 .. Len(t) /\ t[k - 2].kind = "reg"
            /\ s = "*" /\ p = "reg" /\ Factor(t, k - 2) = t[k].val
            /\ E!Narrow(t[k].val) = t[k].val
  <2>1. e.base = c.base /\ e.index = c.tmp /\ e.scale = t[k].val
    <3>1. e.base = c.base /\ e.index = c.tmp /\ e.scale = E!Narrow(t[k].val)
      BY <1>0, <1>11, MovedRegisters
    <3> QED BY <1>11, <3>1
  <2>2. c.index = E!NoReg
    BY <1>0, <1>11 DEF Takes
  <2>3. c.tmp = t[k - 2].val /\ w # 0
    BY <1>2, <1>11
  <2> HIDE DEF e, c, v
  <2>5. ASSUME NEW q \in Regs PROVE Held(e, q) + Owed(t, k, q) = R[k][q]
    <3>1. Owed(t, k, q) = 0 /\ Owed(t, k - 1, q) = IF c.tmp = q THEN t[k].val ELSE 0
      BY <1>11, <2>3 DEF Owed, v
    <3>2. Held(e, q) = Held(c, q) + (IF c.tmp = q THEN t[k].val ELSE 0)
      BY <1>1, <1>4, <2>1, <2>2 DEF Held
    <3>3. R[k][q] = R[k - 1][q]
      BY <1>1, <1>11
    <3>4. Held(c, q) + Owed(t, k - 1, q) = R[k - 1][q] /\ Held(c, q) \in Int
      BY <1>2, <1>5
    <3> QED BY <1>1, <1>4, <3>1, <3>2, <3>3, <3>4
  <2> QED BY <1>4, <1>11, <2>1, <2>5
<1>12. /\ w = 0 => t[k].kind # "reg" \/ s # "*" \/ s = "*"
       /\ w # 0 =>
            \/ /\ w = k - 1 /\ Stands(s, p) /\ k - 1 \in 1 .. Len(t) /\ t[k - 1].kind = "reg"
               /\ t[k].kind \in {"+", "-"} /\ Factor(t, k - 1) = 1 /\ v = 0
            \/ /\ w = k - 1 /\ t[k].kind = "*" /\ v = k - 1
               /\ k - 1 \in 1 .. Len(t) /\ t[k - 1].kind = "reg"
            \/ /\ w = k - 2 /\ t[k].kind = "imm" /\ v = 0
               /\ k - 2 \in 1 .. Len(t) /\ t[k - 2].kind = "reg"
               /\ s = "*" /\ p = "reg" /\ Factor(t, k - 2) = t[k].val
               /\ E!Narrow(t[k].val) = t[k].val
  BY <1>0, WaitsNext
<1> QED BY <1>6, <1>7, <1>8, <1>9, <1>10, <1>11, <1>12

LEMMA MachineSums ==
  ASSUME NEW t \in Seq(Tok), NEW h, NEW f, Plain(t, h, f), NEW R \in RegSums(t),
         NEW L \in 0 .. Len(t), NEW g, Trace(t, g, L)
  PROVE  \A k \in 0 .. L : Holds(t, R, k, g[k])
<1> DEFINE T == {m \in Nat : m <= L => Holds(t, R, m, g[m])}
<1>1. 0 \in T
  <2>1. g[0] = Config(E!NoReg, E!NoReg, E!NoReg, 1, <<>>, <<>>)
    BY DEF Trace, StartConfig
  <2>2. g[0].base = 0 /\ g[0].index = 0 /\ g[0].scale = 1
    BY <2>1 DEF Config, E!NoReg
  <2>3. Waits(t, 0) = 0
    BY DEF Waits, Stands, St
  <2>4. ASSUME NEW q \in Regs PROVE Held(g[0], q) + Owed(t, 0, q) = R[0][q]
    <3>1. R[0] = [p \in Regs |-> 0]
      BY DEF RegSums
    <3>2. R[0][q] = 0 /\ q # 0
      BY <3>1, OperandConstants
    <3> QED BY <2>2, <2>3, <3>2 DEF Held, Owed
  <2>5. Holds(t, R, 0, g[0])
    BY <2>2, <2>3, <2>4 DEF Holds
  <2> QED BY <2>5
<1>2. ASSUME NEW m \in Nat, m \in T PROVE m + 1 \in T
  <2> SUFFICES ASSUME m + 1 <= L PROVE Holds(t, R, m + 1, g[m + 1])
    OBVIOUS
  <2> DEFINE k == m + 1
  <2>1. k \in 1 .. L /\ k - 1 = m
    OBVIOUS
  <2>2. Holds(t, R, m, g[m])
    BY <1>2
  <2> HIDE DEF k, T
  <2>3. Holds(t, R, k, g[k])
    BY <2>1, <2>2, HoldsStep
  <2> QED BY <2>3 DEF k
<1> HIDE DEF T
<1>3. Nat \subseteq T
  BY <1>1, <1>2, NatSetInduction
<1> QED BY <1>3 DEF T

(* When the bracket closes base and index hold every register.             *)
LEMMA AllHeld ==
  ASSUME NEW t \in Seq(Tok), NEW h, NEW f, Plain(t, h, f), NEW R \in RegSums(t),
         NEW g, Finished(t, g)
  PROVE  scale \in Int /\ \A q \in Regs : Held(Now, q) = R[Len(t)][q]
<1> DEFINE L == Len(t)
           c == g[L]
           s == St(t, L)
           p == St(t, L - 1)
<1>1. Trace(t, g, L) /\ s \in Ends /\ CanPlace(c, s, p) /\ Now = Placed(c, s, p)
  BY DEF Finished
<1>2. L \in Nat /\ L \in 0 .. Len(t)
  OBVIOUS
<1> HIDE DEF L
<1>3. Holds(t, R, L, c)
  BY <1>1, <1>2, MachineSums
<1>4. Now.base = base /\ Now.index = index /\ Now.scale = scale
  BY DEF Now, Config
<1>5. s # "*"
  BY <1>1 DEF Ends
<1>6. CASE ~ Stands(s, p)
  <2>1. Now = c /\ Waits(t, L) = 0
    BY <1>1, <1>5, <1>6 DEF Placed, Waits
  <2>2. \A q \in Regs : Held(c, q) + Owed(t, L, q) = R[L][q] /\ Owed(t, L, q) = 0
    BY <1>3, <2>1 DEF Holds, Owed
  <2>3. c.scale \in Int
    BY <1>3 DEF Holds
  <2>4. \A q \in Regs : Held(c, q) \in Int
    BY <2>3 DEF Held
  <2> HIDE DEF c
  <2> QED BY <1>4, <2>1, <2>2, <2>3, <2>4 DEF L
<1>7. CASE Stands(s, p)
  <2>1. L \in 1 .. Len(t) /\ t[L].kind = "reg" /\ Waits(t, L) = L /\ L # 0
    BY <1>2, <1>7 DEF Stands, Waits, St
  <2>2. Factor(t, L) = 1
    <3>1. Single(t, L) \/ Behind(t, L)
      <4>1. ~ Before(t, L)
        BY <1>2 DEF Before, L
      <4> QED BY <2>1, <4>1, Roles
    <3>2. ~ Behind(t, L)
      BY <1>2, <1>7 DEF Behind, Stands, St
    <3> QED BY <3>1, <3>2 DEF Single
  <2>3. c.scale \in Int /\ c.tmp = t[L].val /\ (c.base = E!NoReg \/ c.index = E!NoReg)
    BY <1>1, <1>3, <1>7, <2>1 DEF Holds, CanPlace
  <2> DEFINE e == Now
  <2>4. /\ c.base = E!NoReg => e.base = c.tmp /\ e.index = c.index /\ e.scale = c.scale
        /\ c.base # E!NoReg => e.base = c.base /\ e.index = c.tmp /\ e.scale = 1
    BY <1>1, <1>7 DEF Placed, Config
  <2>5. scale = e.scale
    BY <1>4
  <2> HIDE DEF c, e
  <2>6. ASSUME NEW q \in Regs PROVE Held(e, q) = R[L][q]
    <3>1. Held(c, q) + Owed(t, L, q) = R[L][q]
      BY <1>3 DEF Holds, c
    <3>2. Owed(t, L, q) = IF c.tmp = q THEN 1 ELSE 0
      BY <2>1, <2>2, <2>3 DEF Owed
    <3>3. q # E!NoReg
      BY OperandConstants DEF E!NoReg
    <3>4. Held(e, q) = Held(c, q) + (IF c.tmp = q THEN 1 ELSE 0)
      <4>1. CASE c.base = E!NoReg
        BY <2>3, <2>4, <3>3, <4>1 DEF Held
      <4>2. CASE c.base # E!NoReg
        BY <2>3, <2>4, <3>3, <4>2 DEF Held
      <4> QED BY <4>1, <4>2
    <3> QED BY <3>1, <3>2, <3>4
  <2>7. e.scale \in Int
    BY <2>3, <2>4
  <2> QED BY <2>5, <2>6, <2>7 DEF L, e
<1> QED BY <1>6, <1>7

-----------------------------------------------------------------------------
\* What the calculator makes of a part.

LEMMA OperatorsConcat ==
  ASSUME NEW a \in Seq(Opers), NEW b \in Seq(Opers)
  PROVE  E!Operators(a \o b) = E!Operators(b) \o E!Operators(a)
<1> DEFINE T == {m \in Nat : \A s \in Seq(Opers) :
                   Len(s) = m => E!Operators(a \o s) = E!Operators(s) \o E!Operators(a)}
<1>0. E!Operators(a) \in Seq(ICTok)
  BY OperatorsTop
<1>1. 0 \in T
  <2> SUFFICES ASSUME NEW s \in Seq(Opers), Len(s) = 0
               PROVE  E!Operators(a \o s) = E!Operators(s) \o E!Operators(a)
    OBVIOUS
  <2>1. s = <<>>
    BY EmptySeq
  <2>2. a \o s = a /\ E!Operators(s) = <<>>
    BY <2>1, OperatorsTop, ConcatEmptySeq
  <2>3. <<>> \o E!Operators(a) = E!Operators(a)
    BY <1>0, ConcatEmptySeq
  <2> QED BY <2>2, <2>3
<1>2. ASSUME NEW m \in Nat, m \in T PROVE m + 1 \in T
  <2> SUFFICES ASSUME NEW s \in Seq(Opers), Len(s) = m + 1
               PROVE  E!Operators(a \o s) = E!Operators(s) \o E!Operators(a)
    OBVIOUS
  <2> DEFINE r == SubSeq(s, 1, m)
             x == s[m + 1]
             u == a \o s
             w == a \o r
  <2>1. r \in Seq(Opers) /\ Len(r) = m /\ s # <<>> /\ x \in Opers
    OBVIOUS
  <2>2. u \in Seq(Opers) /\ Len(u) = Len(a) + m + 1 /\ u # <<>> /\ u[Len(u)] = x
        /\ w \in Seq(Opers)
    OBVIOUS
  <2>3. SubSeq(u, 1, Len(u) - 1) = w
    <3>1. Len(u) - 1 = Len(a) + m
      BY <2>2
    <3> QED BY <3>1
  <2>4. E!Operators(w) = E!Operators(r) \o E!Operators(a)
    BY <1>2, <2>1
  <2> HIDE DEF u, w, T
  <2>5. E!Operators(u) = OutOf(x) \o E!Operators(w)
    BY <2>2, <2>3, OperatorsTop
  <2>6. E!Operators(s) = OutOf(x) \o E!Operators(r)
    <3>1. s[Len(s)] = x /\ SubSeq(s, 1, Len(s) - 1) = r
      OBVIOUS
    <3> QED BY <2>1, <3>1, OperatorsTop
  <2>7. OutOf(x) \in Seq(ICTok) /\ E!Operators(r) \in Seq(ICTok)
    BY <2>1, OutIn, OperatorsTop
  <2>8. OutOf(x) \o (E!Operators(r) \o E!Operators(a)) = (OutOf(x) \o E!Operators(r)) \o E!Operators(a)
    BY <1>0, <2>7, ConcatAssociative, SMTT(30)
  <2> QED BY <2>4, <2>5, <2>6, <2>8 DEF u
<1> HIDE DEF T
<1>3. Nat \subseteq T
  BY <1>1, <1>2, NatSetInduction
<1> QED BY <1>3 DEF T

(* The postfix list if all above place y left the stack.                   *)
Flush(c, y) == c.post \o E!Operators(SubSeq(c.ops, y + 1, Len(c.ops)))
(* Above y there are operators that bind at least as tightly as a cut, and *)
(* closed parentheses.                                                     *)
Above(t, h, i, j, s, y) ==
  \E d \in Int :
    /\ Shape(s, y, d)
    /\ \A p \in y + 1 .. d - 1 : \E b \in Int :
         IsCut(t, h, i, j, b) /\ E!Prec[t[b].kind] <= E!Prec[s[p]]
(* One value was added, and no register but an addend.                     *)
Valued(t, h, i, j, m, a, b) ==
  \E v \in ICTok : /\ b = [ok |-> TRUE, stack |-> Append(a.stack, v)]
                   /\ v.val = m.imm
                   /\ v.kind = "imm" \/ \E r \in 1 .. Len(t) : IsAddend(t, h, r, i, j)
Evaluates(t, h, f, i, j, c, e) ==
  /\ Len(c.ops) <= Len(e.ops) /\ SubSeq(e.ops, 1, Len(c.ops)) = c.ops
  /\ Above(t, h, i, j, e.ops, Len(c.ops))
  /\ After(c.post).ok =>
       Valued(t, h, i, j, f[SubSeq(t, i, j)], After(c.post), After(Flush(e, Len(c.ops))))

LEMMA NewStack ==
  ASSUME NEW a \in Stacks, NEW l \in Seq(ICTok)
  PROVE  [a EXCEPT !.stack = l] = [ok |-> a.ok, stack |-> l]
<1> DEFINE b == [a EXCEPT !.stack = l]
<1>1. b \in Stacks /\ b.ok = a.ok /\ b.stack = l
  BY DEF Stacks
<1> HIDE DEF b
<1>2. b = [ok |-> a.ok, stack |-> l]
  BY <1>1 DEF Stacks
<1> QED BY <1>2 DEF b

LEMMA PushedValue ==
  ASSUME NEW list \in Seq(ICTok), NEW x \in ICTok, x.kind \notin E!Dyadic, After(list).ok
  PROVE  After(Append(list, x)) = [ok |-> TRUE, stack |-> Append(After(list).stack, x)]
<1> DEFINE a == After(list)
           l == Append(a.stack, x)
<1>1. a \in Stacks /\ After(Append(list, x)) = E!Step(a, x) /\ a.ok
  BY AfterOneMore
<1> HIDE DEF a
<1>2. l \in Seq(ICTok)
  BY <1>1 DEF Stacks
<1>3. E!Step(a, x) = [a EXCEPT !.stack = l]
  BY DEF E!Step
<1> HIDE DEF l
<1>4. E!Step(a, x) = [ok |-> a.ok, stack |-> l]
  BY <1>1, <1>2, <1>3, NewStack
<1>5. a.ok = TRUE
  BY <1>1 DEF Stacks
<1> QED BY <1>1, <1>4, <1>5 DEF a, l

(* A part of one value.                                                    *)
LEMMA OneValue ==
  ASSUME NEW t, NEW h, NEW f, NEW i, NEW j, NEW c, NEW e, NEW x \in ICTok,
         c.ops \in Seq(Opers), c.post \in Seq(ICTok),
         e.ops = c.ops, e.post = Append(c.post, x), x.kind \in {"imm", "reg"},
         x.val = f[SubSeq(t, i, j)].imm,
         x.kind = "imm" \/ \E r \in 1 .. Len(t) : IsAddend(t, h, r, i, j)
  PROVE  Evaluates(t, h, f, i, j, c, e)
<1> DEFINE y == Len(c.ops)
<1>1. y \in Nat /\ y <= Len(e.ops) /\ SubSeq(e.ops, 1, y) = c.ops
  OBVIOUS
<1>2. SubSeq(e.ops, y + 1, Len(e.ops)) = <<>>
  BY SubSeqEmpty
<1>3. Flush(e, y) = Append(c.post, x)
  <2>1. E!Operators(<<>>) = <<>>
    <3>1. <<>> \in Seq(Opers)
      OBVIOUS
    <3> QED BY <3>1, OperatorsTop
  <2>2. e.post \o <<>> = e.post
    BY ConcatEmptySeq
  <2> QED BY <1>2, <2>1, <2>2 DEF Flush
<1>4. Above(t, h, i, j, e.ops, y)
  <2>1. Shape(e.ops, y, y + 1) /\ y + 1 \in Int /\ y + 1 .. (y + 1) - 1 = {}
    BY <1>1 DEF Shape
  <2> QED BY <2>1 DEF Above
<1>5. ASSUME After(c.post).ok
      PROVE  Valued(t, h, i, j, f[SubSeq(t, i, j)], After(c.post), After(Flush(e, y)))
  <2>1. x.kind \notin E!Dyadic
    BY Precedences
  <2>2. After(Append(c.post, x)) = [ok |-> TRUE, stack |-> Append(After(c.post).stack, x)]
    BY <1>5, <2>1, PushedValue
  <2> HIDE DEF y
  <2> QED BY <1>3, <2>2 DEF Valued
<1> QED BY <1>1, <1>4, <1>5 DEF Evaluates

(* What an operator or a parenthesis does to the calculator.               *)
LEMMA Operated ==
  ASSUME NEW t \in Seq(Tok), NEW L \in 0 .. Len(t), NEW g, Trace(t, g, L), NEW k \in 1 .. L,
         \/ t[k].kind \in {"(", ")"}
         \/ k > 1 /\ t[k].kind \in E!Dyadic /\ E!IsOperandEnd(t[k - 1])
  PROVE  /\ t[k].kind \in Opers
         /\ g[k].ops = E!PushOperator(g[k - 1].ops, t[k].kind).ops
         /\ g[k].post = g[k - 1].post \o E!PushOperator(g[k - 1].ops, t[k].kind).out
         /\ Len(g[k].ops) > 0 /\ g[k].ops[Len(g[k].ops)] = t[k].kind
<1> DEFINE o == t[k].kind
           c == g[k - 1]
           d == Placed(c, St(t, k - 1), St(t, k - 2))
<1>1. k \in 1 .. Len(t) /\ g[k] = Moved(t, k, c) /\ k - 1 \in 0 .. L /\ k \in Int
  BY DEF Trace
<1>2. o \in Opers /\ c.ops \in Seq(Opers) /\ c.post \in Seq(ICTok)
  BY <1>1, TraceTypes DEF Opers
<1>3. d.ops = c.ops /\ d.post = c.post
  BY PlacedKeeps
<1> HIDE DEF d
<1>4. g[k] = Pushing(c, o) \/ g[k] = Pushing(d, o)
  <2>1. CASE o \in (E!Dyadic \ {"+", "-"}) \union {"(", ")"}
    BY <1>1, <2>1, MovedIs
  <2>2. CASE o = "+"
    BY <1>1, <2>2, MovedIs DEF d
  <2>3. CASE o = "-"
    <3>1. k > 1 /\ E!IsOperandEnd(t[k - 1])
      BY <2>3 DEF E!IsOperandEnd
    <3>2. St(t, k - 1) \notin E!Signable
      BY <1>1, <3>1 DEF St, E!IsOperandEnd, E!Signable
    <3> QED BY <1>1, <2>3, <3>2, MovedIs DEF d
  <2> QED BY <2>1, <2>2, <2>3
<1>5. PICK b : b \in {c, d} /\ g[k] = Pushing(b, o)
  BY <1>4
<1>6. b.ops = c.ops /\ b.post = c.post
  BY <1>3, <1>5
<1> HIDE DEF c, o
<1>7. /\ Pushing(b, o).ops = E!PushOperator(b.ops, o).ops
      /\ Pushing(b, o).post = b.post \o E!PushOperator(b.ops, o).out
  BY DEF Pushing, Config
<1>8. Len(Pushing(b, o).ops) > 0 /\ Pushing(b, o).ops[Len(Pushing(b, o).ops)] = o
  BY <1>2, <1>6, PushingTypes
<1>9. /\ g[k].ops = E!PushOperator(c.ops, o).ops
      /\ g[k].post = c.post \o E!PushOperator(c.ops, o).out
      /\ Len(g[k].ops) > 0 /\ g[k].ops[Len(g[k].ops)] = o
  BY <1>5, <1>6, <1>7, <1>8
<1> QED BY <1>2, <1>9 DEF c, o

(* Where a part begins that can be worked out on its own.                  *)
Opening(t, h, i, j) ==
  \/ i = 1
  \/ i > 1 /\ t[i - 1].kind = "("
  \/ /\ i > 2 /\ t[i - 1].kind \in E!Dyadic /\ E!IsOperandEnd(t[i - 2])
     /\ \A d \in i + 1 .. j : IsCut(t, h, i, j, d) => E!Prec[t[i - 1].kind] < E!Prec[t[d].kind]

LEMMA OpeningFits ==
  ASSUME NEW t \in Seq(Tok), NEW h, NEW i \in 1 .. Len(t), NEW j \in i .. Len(t),
         NEW L \in j .. Len(t), NEW g, Trace(t, g, L), Opening(t, h, i, j)
  PROVE  \A d \in i + 1 .. j : IsCut(t, h, i, j, d) =>
           Fits(g[i - 1].ops, Len(g[i - 1].ops), t[d].kind)
<1>1. CASE i = 1
  <2>1. g[i - 1].ops = <<>>
    BY <1>1 DEF Trace, StartConfig, Config
  <2> QED BY <2>1 DEF Fits
<1>2. CASE i > 1 /\ t[i - 1].kind = "("
  <2> DEFINE k == i - 1
  <2>1. k \in 1 .. L /\ L \in 0 .. Len(t) /\ t[k].kind = "("
    BY <1>2
  <2> HIDE DEF k
  <2>2. g[k].ops[Len(g[k].ops)] = "("
    BY <2>1, Operated
  <2> QED BY <2>2 DEF Fits, k
<1>3. CASE /\ i > 2 /\ t[i - 1].kind \in E!Dyadic /\ E!IsOperandEnd(t[i - 2])
           /\ \A d \in i + 1 .. j : IsCut(t, h, i, j, d) => E!Prec[t[i - 1].kind] < E!Prec[t[d].kind]
  <2> DEFINE k == i - 1
  <2>1. k \in 1 .. L /\ L \in 0 .. Len(t) /\ k > 1 /\ t[k].kind \in E!Dyadic /\ k - 1 = i - 2
    BY <1>3
  <2>3. E!IsOperandEnd(t[k - 1])
    BY <1>3, <2>1
  <2>4. \A d \in i + 1 .. j : IsCut(t, h, i, j, d) => E!Prec[t[k].kind] < E!Prec[t[d].kind]
    BY <1>3
  <2> HIDE DEF k
  <2>2. g[k].ops[Len(g[k].ops)] = t[k].kind
    BY <2>1, <2>3, Operated
  <2>5. \A d \in i + 1 .. j : IsCut(t, h, i, j, d) => Fits(g[k].ops, Len(g[k].ops), t[d].kind)
    BY <2>2, <2>4 DEF Fits
  <2> QED BY <2>5 DEF k
<1> QED BY <1>1, <1>2, <1>3 DEF Opening

LEMMA OpeningState ==
  ASSUME NEW t \in Seq(Tok), NEW h, NEW i \in 1 .. Len(t), NEW j, Opening(t, h, i, j)
  PROVE  /\ St(t, i - 1) \in E!Dyadic \union {"("} /\ St(t, i - 1) \in E!Openers
         /\ St(t, i - 1) = "-" => St(t, i - 2) \notin E!Openers
<1>0. /\ E!Dyadic \union {"("} \subseteq E!Openers
      /\ "imm" \notin E!Dyadic \union {"("} /\ "+" \in E!Dyadic
  BY DEF E!Dyadic, E!Openers
<1>1. CASE i = 1
  <2>1. St(t, i - 1) = "+"
    BY <1>1 DEF St
  <2> QED BY <1>0, <2>1
<1>2. CASE i > 1 /\ t[i - 1].kind = "("
  <2>1. St(t, i - 1) = "("
    BY <1>2 DEF St
  <2> QED BY <1>0, <2>1
<1>3. CASE i > 2 /\ t[i - 1].kind \in E!Dyadic /\ E!IsOperandEnd(t[i - 2])
  <2>1. St(t, i - 1) = t[i - 1].kind
    BY <1>0, <1>3 DEF St
  <2>2. St(t, i - 2) \notin E!Openers
    BY <1>3 DEF St, E!IsOperandEnd, E!Openers
  <2> QED BY <1>0, <1>3, <2>1, <2>2
<1> QED BY <1>1, <1>2, <1>3 DEF Opening

LEMMA NoFactorBehind ==
  ASSUME NEW t \in Seq(Tok), NEW h, NEW f, Plain(t, h, f), NEW i \in 1 .. Len(t), Free(t, h, i, i)
  PROVE  ~ (St(t, i - 1) = "*" /\ St(t, i - 2) = "reg")
<1> SUFFICES ASSUME St(t, i - 1) = "*", St(t, i - 2) = "reg" PROVE FALSE
  OBVIOUS
<1> DEFINE r == i - 2
<1>1. r \in 1 .. Len(t) /\ t[r].kind = "reg" /\ t[r + 1].kind = "*" /\ r < Len(t)
      /\ r + 2 = i /\ r # i /\ r < i
  <2>1. i - 2 > 0 /\ t[i - 2].kind = "reg"
    BY DEF St
  <2>2. t[i - 1].kind = "*"
    BY <2>1 DEF St
  <2> QED BY <2>1, <2>2
<1> HIDE DEF r
<1>2. PICK a \in 1 .. Len(t), b \in 1 .. Len(t) : IsAddend(t, h, r, a, b)
  BY <1>1 DEF Plain
<1>3. ~ Single(t, r) /\ ~ Behind(t, r)
  BY <1>1 DEF Single, Behind
<1>4. a = r /\ b = i
  BY <1>1, <1>2, <1>3, RoleOf
<1> QED BY <1>1, <1>2, <1>4 DEF Free

LEMMA NumberRead ==
  ASSUME NEW t \in Seq(Tok), NEW L \in 0 .. Len(t), NEW g, Trace(t, g, L), NEW k \in 1 .. L,
         t[k].kind = "imm", ~ (St(t, k - 1) = "*" /\ St(t, k - 2) = "reg")
  PROVE  /\ g[k].ops = g[k - 1].ops
         /\ g[k].post = Append(g[k - 1].post, E!Token("imm", Signed(t[k].val, St(t, k - 1), St(t, k - 2))))
<1> DEFINE c == g[k - 1]
<1>1. k \in 1 .. Len(t) /\ g[k] = Moved(t, k, c)
  BY DEF Trace
<1>2. g[k] = Config(c.base, c.index, c.tmp, c.scale, c.ops,
                Append(c.post, E!Token("imm", Signed(t[k].val, St(t, k - 1), St(t, k - 2)))))
  BY <1>1, MovedIs
<1> HIDE DEF c
<1>3. /\ g[k].ops = c.ops
      /\ g[k].post = Append(c.post, E!Token("imm", Signed(t[k].val, St(t, k - 1), St(t, k - 2))))
  BY <1>2 DEF Config
<1> QED BY <1>3 DEF c

(* Numbers, numbers with a sign, and registers.                            *)
LEMMA LeafEvaluates ==
  ASSUME NEW t \in Seq(Tok), NEW h \in Heights(t), NEW f, Plain(t, h, f),
         NEW i \in 1 .. Len(t), NEW j \in i .. Len(t), NEW L \in j .. Len(t), NEW g, Trace(t, g, L),
         Opening(t, h, i, j), Free(t, h, i, j), Leaf(t, f, i, j), t[i].kind # "("
  PROVE  Evaluates(t, h, f, i, j, g[i - 1], g[j])
<1> DEFINE c == g[i - 1]
           m == f[SubSeq(t, i, j)]
           s == St(t, i - 1)
           p == St(t, i - 2)
<1>0. /\ L \in 0 .. Len(t) /\ i - 1 \in 0 .. L /\ i \in 1 .. L /\ j \in 1 .. L
      /\ i \in Int /\ j \in Int /\ t[i] \in Tok /\ t[j] \in Tok
  OBVIOUS
<1>1. c.ops \in Seq(Opers) /\ c.post \in Seq(ICTok)
  BY <1>0, TraceTypes
<1>2. /\ s \in E!Dyadic \union {"("} /\ s \in E!Openers
      /\ s = "-" => p \notin E!Openers
  BY OpeningState
<1>3. \A v \in Int : E!Token("imm", v) \in ICTok /\ E!Token("reg", v) \in ICTok
  BY DEF E!Token, ICTok
<1>4. \A v : E!Token("imm", v).val = v /\ E!Token("imm", v).kind = "imm"
  BY DEF E!Token
<1>5. "~" \notin E!Dyadic \union {"("}
  BY Precedences
<1>6. CASE i = j /\ t[i].kind = "imm" /\ m = Number(t[i].val)
  <2>1. t[i].val \in Int /\ m.imm = t[i].val
    BY <1>0, <1>6, NumberIs DEF Tok
  <2>2. ~ (s = "*" /\ p = "reg")
    BY <1>6, NoFactorBehind
  <2>3. Signed(t[i].val, s, p) = t[i].val
    BY <1>2, <1>5 DEF Signed
  <2>4. g[i].ops = c.ops /\ g[i].post = Append(c.post, E!Token("imm", t[i].val))
    BY <1>0, <1>6, <2>2, <2>3, NumberRead
  <2> DEFINE x == E!Token("imm", t[i].val)
  <2>5. x \in ICTok /\ x.val = m.imm /\ x.kind = "imm"
    BY <1>3, <1>4, <2>1
  <2>6. g[j].ops = c.ops /\ g[j].post = Append(c.post, x)
    BY <1>6, <2>4
  <2>7. x.val = f[SubSeq(t, i, j)].imm
    BY <2>5
  <2> HIDE DEF x, c, m
  <2> QED BY <1>1, <2>5, <2>6, <2>7, OneValue DEF c
<1>7. CASE /\ j = i + 1 /\ t[j].kind = "imm"
           /\ \/ t[i].kind = "-" /\ m = Number(-t[j].val)
              \/ t[i].kind = "~" /\ m = Number(-t[j].val - 1)
  <2>1. g[i] = c
    <3>1. g[i] = Moved(t, i, c) /\ Takes(t, i, c)
      BY <1>0 DEF Trace
    <3>2. CASE t[i].kind = "~"
      BY <3>1, <3>2, MovedIs
    <3>3. CASE t[i].kind = "-"
      <4>1. s \in E!Signable \union {"~"} \union Ends
        BY <3>1, <3>3 DEF Takes
      <4>2. s \in E!Signable
        <5>1. "int" \notin E!Dyadic \union {"("} /\ "reg" \notin E!Dyadic \union {"("}
              /\ ")" \notin E!Dyadic \union {"("}
          BY DEF E!Dyadic
        <5> QED BY <1>2, <1>5, <4>1, <5>1 DEF Ends
      <4> QED BY <3>1, <3>3, <4>2, MovedIs
    <3> QED BY <1>7, <3>2, <3>3
  <2>2. j - 1 = i /\ j - 2 = i - 1 /\ St(t, i) = t[i].kind
    BY <1>7 DEF St
  <2>3. t[j].val \in Int
    BY <1>0 DEF Tok
  <2>4. Signed(t[j].val, St(t, j - 1), St(t, j - 2)) = m.imm /\ m.imm \in Int
    <3>1. CASE t[i].kind = "-" /\ m = Number(-t[j].val)
      <4>1. m.imm = -t[j].val
        BY <2>3, <3>1, NumberIs
      <4> QED BY <1>2, <2>2, <2>3, <3>1, <4>1 DEF Signed
    <3>2. CASE t[i].kind = "~" /\ m = Number(-t[j].val - 1)
      <4>1. m.imm = -t[j].val - 1
        BY <2>3, <3>2, NumberIs
      <4> QED BY <1>2, <2>2, <2>3, <3>2, <4>1 DEF Signed
    <3> QED BY <1>7, <3>1, <3>2
  <2>5. ~ (St(t, j - 1) = "*" /\ St(t, j - 2) = "reg")
    BY <1>7, <2>2
  <2> DEFINE x == E!Token("imm", m.imm)
  <2>6. g[j].ops = c.ops /\ g[j].post = Append(c.post, x)
    <3>1. /\ g[j].ops = g[j - 1].ops
          /\ g[j].post = Append(g[j - 1].post, E!Token("imm", Signed(t[j].val, St(t, j - 1), St(t, j - 2))))
      BY <1>0, <1>7, <2>5, NumberRead
    <3> QED BY <2>1, <2>2, <2>4, <3>1
  <2>7. x \in ICTok /\ x.val = f[SubSeq(t, i, j)].imm /\ x.kind = "imm"
    BY <1>3, <1>4, <2>4
  <2> HIDE DEF x, c, m
  <2> QED BY <1>1, <2>6, <2>7, OneValue DEF c
<1>8. CASE i = j /\ t[i].kind = "reg" /\ m = [regs |-> E!Unit(t[i].val, 1), imm |-> 0]
  <2>1. PICK a \in 1 .. Len(t), b \in 1 .. Len(t) : IsAddend(t, h, i, a, b)
    BY <1>8 DEF Plain
  <2>2. a = i /\ b = i
    <3>1. i <= a /\ b <= i
      BY <1>8, <2>1 DEF Free, IsAddend
    <3>2. a <= i /\ b >= i
      BY <2>1 DEF IsAddend
    <3> QED BY <3>1, <3>2
  <2>3. s = "+"
    BY <2>1, <2>2, RoleOf DEF Single
  <2>4. g[i] = Moved(t, i, c) /\ i \in 1 .. Len(t)
    BY <1>0 DEF Trace
  <2>5. g[i] = Config(c.base, c.index, t[i].val, c.scale, c.ops, Append(c.post, E!Token("reg", 0)))
    BY <1>8, <2>3, <2>4, MovedIs
  <2> DEFINE x == E!Token("reg", 0)
  <2>6. g[j].ops = c.ops /\ g[j].post = Append(c.post, x)
    BY <1>8, <2>5 DEF Config
  <2>9. x \in ICTok /\ x.val = 0 /\ x.kind = "reg"
    <3>1. 0 \in Int
      OBVIOUS
    <3>2. x \in ICTok
      BY <1>3, <3>1
    <3> QED BY <3>2, Zenon DEF E!Token
  <2>10. f[SubSeq(t, i, j)].imm = 0
    BY <1>8
  <2>7. x \in ICTok /\ x.val = f[SubSeq(t, i, j)].imm /\ x.kind = "reg"
    BY <2>9, <2>10
  <2>8. IsAddend(t, h, i, i, j) /\ i \in 1 .. Len(t)
    BY <1>8, <2>1, <2>2
  <2> HIDE DEF x, c, m
  <2> QED BY <1>1, <2>6, <2>7, <2>8, OneValue DEF c
<1> QED BY <1>6, <1>7, <1>8 DEF Leaf

(* A register and its factor.                                              *)
LEMMA TimesEvaluates ==
  ASSUME NEW t \in Seq(Tok), NEW h \in Heights(t), NEW f, Plain(t, h, f),
         NEW i \in 1 .. Len(t), NEW j \in i .. Len(t), NEW L \in j .. Len(t), NEW g, Trace(t, g, L),
         j = i + 2, NEW r \in 1 .. Len(t), IsAddend(t, h, r, i, j), t[i + 1].kind = "*",
         CutAt(t, h, f, i, j, i + 1), f[SubSeq(t, i, j)] # E!Nonsense
  PROVE  Evaluates(t, h, f, i, j, g[i - 1], g[j])
<1> DEFINE c == g[i - 1]
<1>0. /\ L \in 0 .. Len(t) /\ i - 1 \in 0 .. L /\ i \in 1 .. L /\ j \in 1 .. L
      /\ i \in Int /\ j \in Int /\ r \in Int /\ j \in 1 .. Len(t)
  OBVIOUS
<1>1. c.ops \in Seq(Opers) /\ c.post \in Seq(ICTok)
  BY <1>0, TraceTypes
<1>2. f[SubSeq(t, i, j)].imm = 0
  <2>1. PICK R : R \in RegSums(t)
    BY SumsExist
  <2>2. Reading(t, f)
    BY DEF Plain
  <2>3. f[SubSeq(t, i, j)] = [regs |-> [q \in Regs |-> R[j][q] - R[i - 1][q]], imm |-> 0]
    BY <1>0, <2>1, <2>2, TimesMeans
  <2> QED BY <2>3
<1>3. /\ E!Token("imm", 0) \in ICTok /\ E!Token("reg", 0) \in ICTok
      /\ E!Token("imm", 0).val = 0 /\ E!Token("reg", 0).val = 0
      /\ E!Token("imm", 0).kind = "imm" /\ E!Token("reg", 0).kind = "reg"
  BY DEF E!Token, ICTok
<1>4. t[r].kind = "reg" /\ i <= r /\ r <= j
  BY DEF IsAddend
<1>5. r \in 1 .. L
  BY <1>0, <1>4
<1>6. \E x \in {E!Token("imm", 0), E!Token("reg", 0)} : g[j].ops = c.ops /\ g[j].post = Append(c.post, x)
  <2>1. CASE i = r - 2
    <3>1. Behind(t, r) /\ j = r /\ r - 3 = i - 1
      BY <1>0, <2>1, RoleOf
    <3> QED BY <1>0, <1>4, <1>5, <3>1, TimesStep
  <2>2. CASE j = r + 2
    <3>1. Before(t, r) /\ i = r /\ r - 1 = i - 1 /\ r + 2 <= L /\ r + 2 = j
      BY <1>0, <2>2, RoleOf
    <3>2. g[r + 2].post = Append(g[r - 1].post, E!Token("reg", 0)) /\ g[r + 2].ops = g[r - 1].ops
      BY <1>0, <1>4, <1>5, <3>1, TimesStep
    <3>3. g[j].post = Append(c.post, E!Token("reg", 0)) /\ g[j].ops = c.ops
      BY <3>1, <3>2
    <3> QED BY <3>3
  <2>3. ~ (i = r /\ j = r)
    BY <1>0
  <2> QED BY <1>0, <2>1, <2>2, <2>3, RoleOf
<1>7. PICK x \in {E!Token("imm", 0), E!Token("reg", 0)} : g[j].ops = c.ops /\ g[j].post = Append(c.post, x)
  BY <1>6
<1>8. x \in ICTok /\ x.kind \in {"imm", "reg"} /\ x.val = f[SubSeq(t, i, j)].imm
  BY <1>2, <1>3, <1>7
<1> HIDE DEF c
<1> QED BY <1>1, <1>7, <1>8, OneValue DEF c

LEMMA ThreeLists ==
  ASSUME NEW a \in Seq(ICTok), NEW b \in Seq(ICTok), NEW c \in Seq(ICTok)
  PROVE  (a \o b) \o c = a \o (b \o c)
BY ConcatAssociative

LEMMA OperatorsOne ==
  ASSUME NEW o \in Opers
  PROVE  <<o>> \in Seq(Opers) /\ E!Operators(<<o>>) = OutOf(o)
<1> DEFINE s == <<o>>
<1>1. s \in Seq(Opers) /\ s # <<>> /\ Len(s) = 1 /\ s[1] = o /\ SubSeq(s, 1, 0) = <<>>
  OBVIOUS
<1>2. <<>> \in Seq(Opers) /\ E!Operators(<<>>) = <<>>
  <2>1. <<>> \in Seq(Opers)
    OBVIOUS
  <2> QED BY <2>1, OperatorsTop
<1> HIDE DEF s
<1>3. E!Operators(s) = OutOf(s[Len(s)]) \o E!Operators(SubSeq(s, 1, Len(s) - 1))
  BY <1>1, OperatorsTop
<1>4. Len(s) - 1 = 0
  BY <1>1
<1>5. E!Operators(s) = OutOf(o) \o <<>>
  BY <1>1, <1>2, <1>3, <1>4
<1>6. OutOf(o) \o <<>> = OutOf(o)
  BY OutIn, ConcatEmptySeq
<1> QED BY <1>1, <1>5, <1>6 DEF s

LEMMA OperatorsParen ==
  ASSUME NEW s \in Seq(Opers)
  PROVE  E!Operators((<<"(">> \o s) \o <<")">>) = E!Operators(s)
<1>1. "(" \in Opers /\ ")" \in Opers /\ OutOf("(") = <<>> /\ OutOf(")") = <<>>
  <2>1. "(" \notin E!Dyadic /\ ")" \notin E!Dyadic
    BY Precedences
  <2> QED BY <2>1 DEF Opers, OutOf
<1>2. /\ <<"(">> \in Seq(Opers) /\ E!Operators(<<"(">>) = <<>>
      /\ <<")">> \in Seq(Opers) /\ E!Operators(<<")">>) = <<>>
  BY <1>1, OperatorsOne
<1>3. E!Operators(s) \in Seq(ICTok)
  BY OperatorsTop
<1>4. E!Operators(<<"(">> \o s) = E!Operators(s) \o <<>>
  BY <1>2, OperatorsConcat
<1>5. <<"(">> \o s \in Seq(Opers)
  BY <1>2, ConcatProperties
<1>6. E!Operators((<<"(">> \o s) \o <<")">>) = <<>> \o E!Operators(<<"(">> \o s)
  BY <1>2, <1>5, OperatorsConcat
<1>7. E!Operators(s) \o <<>> = E!Operators(s) /\ <<>> \o E!Operators(s) = E!Operators(s)
  BY <1>3, ConcatEmptySeq
<1> QED BY <1>4, <1>6, <1>7

(* What closes around operators.                                           *)
LEMMA Closed ==
  ASSUME NEW s \in Seq(Opers), NEW b \in Seq(Opers), NEW y \in Nat, Len(b) = y,
         y + 1 <= Len(s), SubSeq(s, 1, y + 1) = Append(b, "("), NEW d \in Int, Shape(s, y + 1, d)
  PROVE  \E u \in Seq(Opers), l \in Seq(ICTok) :
           /\ E!PushOperator(s, ")").ops = u /\ E!PushOperator(s, ")").out = l
           /\ y <= Len(u) /\ SubSeq(u, 1, y) = b /\ Shape(u, y, y + 1)
           /\ l \o E!Operators(SubSeq(u, y + 1, Len(u))) = E!Operators(SubSeq(s, y + 2, Len(s)))
<1> DEFINE n1 == Len(s)
           mid == SubSeq(s, y + 2, d - 1)
           end == SubSeq(s, d, n1)
           u == Append(SubSeq(s, 1, d - 1), ")")
           l == E!Operators(end)
<1>0. /\ n1 \in Nat /\ d \in y + 2 .. n1 + 1 /\ \A p \in y + 2 .. d - 1 : s[p] \in E!Dyadic
      /\ d <= n1 => /\ d < n1 /\ s[d] = "(" /\ s[n1] = ")"
                    /\ \A p \in d + 1 .. n1 - 1 : s[p] \in E!Dyadic
  <2>1. (y + 1) + 1 = y + 2
    OBVIOUS
  <2> QED BY <2>1 DEF Shape
<1>1. s[y + 1] = "(" /\ \A p \in 1 .. y : s[p] = b[p]
  <2>1. SubSeq(s, 1, y + 1)[y + 1] = "(" /\ \A p \in 1 .. y : SubSeq(s, 1, y + 1)[p] = b[p]
    <3>1. Append(b, "(")[y + 1] = "(" /\ \A p \in 1 .. y : Append(b, "(")[p] = b[p]
      OBVIOUS
    <3> QED BY <3>1
  <2>2. \A p \in 1 .. y + 1 : SubSeq(s, 1, y + 1)[p] = s[p]
    OBVIOUS
  <2> QED BY <2>1, <2>2
<1>2. Shape(s, d - 1, d)
  <2>1. /\ d - 1 \in 0 .. Len(s) /\ d \in (d - 1) + 1 .. Len(s) + 1 /\ (d - 1) + 1 .. d - 1 = {}
    BY <1>0
  <2> QED BY <1>0, <2>1 DEF Shape
<1>3. Fits(s, d - 1, ")")
  <2>1. CASE d = y + 2
    BY <1>1, <2>1 DEF Fits
  <2>2. CASE d # y + 2
    <3>1. d - 1 \in y + 2 .. d - 1
      BY <1>0, <2>2
    <3>2. s[d - 1] \in E!Dyadic
      BY <1>0, <3>1
    <3>3. E!Prec[s[d - 1]] \in 0 .. 5 /\ E!Prec[")"] = 6
      BY <3>2, Precedences
    <3> QED BY <3>3 DEF Fits
  <2> QED BY <2>1, <2>2
<1>4. E!PushOperator(s, ")") = [ops |-> Append(SubSeq(s, 1, d - 1), ")"),
                                out |-> E!Operators(SubSeq(s, (d - 1) + 1, Len(s)))]
  <2>1. \A p \in (d - 1) + 1 .. d - 1 : E!Prec[")"] <= E!Prec[s[p]]
    BY <1>0
  <2> DEFINE z == d - 1
  <2>2. Shape(s, z, d) /\ Fits(s, z, ")") /\ \A p \in z + 1 .. d - 1 : E!Prec[")"] <= E!Prec[s[p]]
    BY <1>2, <1>3, <2>1
  <2> HIDE DEF z
  <2>3. E!PushOperator(s, ")") = [ops |-> Append(SubSeq(s, 1, z), ")"),
                                  out |-> E!Operators(SubSeq(s, z + 1, Len(s)))]
    BY <2>2, Pushed
  <2> QED BY <2>3 DEF z
<1>5. (d - 1) + 1 = d /\ d - 1 \in 1 .. n1 /\ d - 1 \in Nat
  BY <1>0
<1>6. E!PushOperator(s, ")").ops = u /\ E!PushOperator(s, ")").out = l
  BY <1>4, <1>5
<1>7. end \in Seq(Opers) /\ mid \in Seq(Opers) /\ l \in Seq(ICTok) /\ ")" \in Opers /\ "(" \in Opers
  <2>1. end \in Seq(Opers) /\ mid \in Seq(Opers)
    BY <1>0, SubSeqProperties
  <2>2. ")" \in Opers /\ "(" \in Opers
    BY DEF Opers
  <2> QED BY <2>1, <2>2, OperatorsTop
<1>8. /\ u \in Seq(Opers) /\ Len(u) = d /\ u[d] = ")" /\ \A p \in 1 .. d - 1 : u[p] = s[p]
  BY <1>0, <1>5, <1>7
<1>9. /\ SubSeq(s, y + 2, Len(s)) = mid \o end
      /\ SubSeq(u, y + 1, Len(u)) = (<<"(">> \o mid) \o <<")">>
      /\ SubSeq(u, 1, y) = b
  <2>1. SubSeq(s, y + 2, Len(s)) = mid \o end
    <3> DEFINE v == SubSeq(s, y + 2, Len(s))
               w == mid \o end
    <3>1. v \in Seq(Opers) /\ Len(v) = n1 - y - 1 /\ \A p \in 1 .. n1 - y - 1 : v[p] = s[p + y + 1]
      BY <1>0
    <3>2. /\ Len(mid) = d - y - 2 /\ \A p \in 1 .. d - y - 2 : mid[p] = s[p + y + 1]
          /\ Len(end) = n1 - d + 1 /\ \A p \in 1 .. n1 - d + 1 : end[p] = s[p + d - 1]
      <4>1. Len(mid) = d - y - 2 /\ \A p \in 1 .. d - y - 2 : mid[p] = s[p + y + 1]
        BY <1>0
      <4>2. Len(end) = n1 - d + 1 /\ \A p \in 1 .. n1 - d + 1 : end[p] = s[p + d - 1]
        <5>1. \A p \in d .. n1 : s[p] \in Opers
          BY <1>0
        <5>2. /\ Len(end) = IF d <= n1 THEN n1 - d + 1 ELSE 0
              /\ \A p \in 1 .. n1 - d + 1 : end[p] = s[d + p - 1]
          BY <1>0, <5>1, SubSeqProperties
        <5>3. \A p \in 1 .. n1 - d + 1 : d + p - 1 = p + d - 1
          BY <1>0
        <5> HIDE DEF end
        <5>4. Len(end) = n1 - d + 1
          <6>1. d <= n1 + 1 /\ d \in Int /\ n1 \in Int
            BY <1>0
          <6>2. Len(end) = IF d <= n1 THEN n1 - d + 1 ELSE 0
            BY <5>2
          <6> HIDE DEF n1
          <6> QED BY <6>1, <6>2
        <5>5. ASSUME NEW p \in 1 .. n1 - d + 1 PROVE end[p] = s[p + d - 1]
          <6>1. end[p] = s[d + p - 1] /\ d + p - 1 = p + d - 1
            BY <5>2, <5>3
          <6> QED BY <6>1
        <5> QED BY <5>4, <5>5
      <4> QED BY <4>1, <4>2
    <3> HIDE DEF mid, end, v
    <3>3. w \in Seq(Opers) /\ Len(w) = n1 - y - 1
      BY <1>0, <1>7, <3>2, SMTT(30)
    <3>4. \A p \in 1 .. n1 - y - 1 : w[p] = s[p + y + 1]
      <4> SUFFICES ASSUME NEW p \in 1 .. n1 - y - 1 PROVE w[p] = s[p + y + 1]
        OBVIOUS
      <4>1. CASE p \in 1 .. d - y - 2
        BY <1>0, <1>7, <3>2, <4>1
      <4>2. CASE p \notin 1 .. d - y - 2
        <5> DEFINE q == p - (d - y - 2)
        <5>1. q \in 1 .. n1 - d + 1 /\ q + d - 1 = p + y + 1
          BY <1>0, <4>2
        <5>2. w[p] = end[q]
          BY <1>0, <1>7, <3>2, <4>2, SMTT(30)
        <5> QED BY <3>2, <5>1, <5>2
      <4> QED BY <4>1, <4>2
    <3> HIDE DEF w
    <3>5. v = w
      BY <3>1, <3>3, <3>4, SeqEqual
    <3> QED BY <3>5 DEF v, w
  <2>2. Len(mid) = d - y - 2 /\ \A p \in 1 .. d - y - 2 : mid[p] = s[p + y + 1]
    BY <1>0
  <2> HIDE DEF u, mid
  <2>3. SubSeq(u, y + 1, Len(u)) = (<<"(">> \o mid) \o <<")">>
    <3> DEFINE v == SubSeq(u, y + 1, Len(u))
               w == (<<"(">> \o mid) \o <<")">>
    <3>1. v \in Seq(Opers) /\ Len(v) = d - y /\ \A p \in 1 .. d - y : v[p] = u[p + y]
      BY <1>0, <1>8
    <3>2. w \in Seq(Opers) /\ Len(w) = d - y /\ w[1] = "(" /\ w[d - y] = ")"
          /\ \A p \in 1 .. d - y - 2 : w[p + 1] = mid[p]
      BY <1>0, <1>7, <2>2
    <3>3. \A p \in 1 .. d - y : v[p] = w[p]
      <4> SUFFICES ASSUME NEW p \in 1 .. d - y PROVE v[p] = w[p]
        OBVIOUS
      <4> HIDE DEF v, w
      <4>1. CASE p = 1
        BY <1>0, <1>1, <1>8, <3>1, <3>2, <4>1
      <4>2. CASE p = d - y
        BY <1>0, <1>8, <3>1, <3>2, <4>2
      <4>3. CASE p # 1 /\ p # d - y
        <5> DEFINE q == p - 1
        <5>1. q \in 1 .. d - y - 2 /\ p = q + 1 /\ q + y + 1 = p + y /\ p + y \in 1 .. d - 1
          BY <1>0, <4>3
        <5>2. v[p] = s[p + y]
          BY <1>8, <3>1, <5>1
        <5>3. w[q + 1] = mid[q] /\ mid[q] = s[q + y + 1]
          BY <2>2, <3>2, <5>1
        <5> QED BY <5>1, <5>2, <5>3
      <4> QED BY <4>1, <4>2, <4>3
    <3> HIDE DEF v, w
    <3>4. v = w
      BY <3>1, <3>2, <3>3, SeqEqual
    <3> QED BY <3>4 DEF v, w
  <2>4. SubSeq(u, 1, y) = b
    <3> DEFINE v == SubSeq(u, 1, y)
    <3>1. v \in Seq(Opers) /\ Len(v) = y /\ \A p \in 1 .. y : v[p] = u[p]
      BY <1>0, <1>8
    <3>2. \A p \in 1 .. y : v[p] = b[p]
      BY <1>0, <1>1, <1>8, <3>1
    <3> HIDE DEF v
    <3>3. v = b
      BY <3>1, <3>2, SeqEqual
    <3> QED BY <3>3 DEF v
  <2> QED BY <2>1, <2>3, <2>4
<1>10. Shape(u, y, y + 1)
  <2> HIDE DEF u
  <2>1. /\ y \in 0 .. Len(u) /\ y + 1 \in y + 1 .. Len(u) + 1 /\ y + 1 .. (y + 1) - 1 = {}
        /\ y + 1 < Len(u) /\ u[y + 1] = "(" /\ u[Len(u)] = ")"
    BY <1>0, <1>1, <1>8
  <2>2. \A p \in (y + 1) + 1 .. Len(u) - 1 : u[p] \in E!Dyadic
    <3> SUFFICES ASSUME NEW p \in (y + 1) + 1 .. Len(u) - 1 PROVE u[p] \in E!Dyadic
      OBVIOUS
    <3>1. p \in y + 2 .. d - 1 /\ p \in 1 .. d - 1
      BY <1>0, <1>8
    <3> QED BY <1>0, <1>8, <3>1
  <2> QED BY <2>1, <2>2 DEF Shape
<1>11. l \o E!Operators(SubSeq(u, y + 1, Len(u))) = E!Operators(SubSeq(s, y + 2, Len(s)))
  <2>1. E!Operators(mid \o end) = E!Operators(end) \o E!Operators(mid)
    BY <1>7, OperatorsConcat
  <2>2. E!Operators((<<"(">> \o mid) \o <<")">>) = E!Operators(mid)
    BY <1>7, OperatorsParen
  <2> QED BY <1>9, <2>1, <2>2
<1>12. y <= Len(u)
  BY <1>0, <1>8
<1> HIDE DEF u, l
<1> QED BY <1>6, <1>7, <1>8, <1>9, <1>10, <1>11, <1>12

(* A part in parentheses.                                                  *)
LEMMA ParenEvaluates ==
  ASSUME NEW t \in Seq(Tok), NEW h \in Heights(t), NEW f, Plain(t, h, f),
         NEW i \in 1 .. Len(t), NEW j \in i .. Len(t), NEW L \in j .. Len(t), NEW g, Trace(t, g, L),
         j > i + 1, t[i].kind = "(", t[j].kind = ")", WellFormed(t, h, i + 1, j - 1),
         f[SubSeq(t, i, j)] = f[SubSeq(t, i + 1, j - 1)],
         Evaluates(t, h, f, i + 1, j - 1, g[i], g[j - 1])
  PROVE  Evaluates(t, h, f, i, j, g[i - 1], g[j])
<1> DEFINE c == g[i - 1]
           b == g[i]
           a == g[j - 1]
           e == g[j]
           y == Len(c.ops)
           m == f[SubSeq(t, i, j)]
<1>0. /\ L \in 0 .. Len(t) /\ i - 1 \in 0 .. L /\ i \in 0 .. L /\ j - 1 \in 0 .. L /\ i \in 1 .. L
      /\ j \in 1 .. L /\ j \in 1 .. Len(t) /\ i \in Int /\ j \in Int
  OBVIOUS
<1>1. /\ c.ops \in Seq(Opers) /\ c.post \in Seq(ICTok) /\ b.ops \in Seq(Opers)
      /\ a.ops \in Seq(Opers) /\ a.post \in Seq(ICTok)
  BY <1>0, TraceTypes
<1>2. b.ops = Append(c.ops, "(") /\ b.post = c.post
  <2>1. b.ops = E!PushOperator(c.ops, "(").ops /\ b.post = c.post \o E!PushOperator(c.ops, "(").out
    <3> DEFINE o == t[i].kind
    <3>1. b.ops = E!PushOperator(c.ops, o).ops /\ b.post = c.post \o E!PushOperator(c.ops, o).out
      <4>1. o \in {"(", ")"}
        OBVIOUS
      <4> QED BY <1>0, <4>1, Operated
    <3>2. o = "("
      OBVIOUS
    <3> HIDE DEF o, b, c
    <3> QED BY <3>1, <3>2
  <2>2. E!PushOperator(c.ops, "(") = [ops |-> Append(c.ops, "("), out |-> <<>>]
    BY <1>1, PushedOpen
  <2> DEFINE z == E!PushOperator(c.ops, "(")
  <2>3. z.ops = Append(c.ops, "(") /\ z.out = <<>>
    BY <2>2
  <2>4. c.post \o <<>> = c.post
    BY <1>1, ConcatEmptySeq
  <2> QED BY <2>1, <2>3, <2>4
<1>3. e.ops = E!PushOperator(a.ops, ")").ops /\ e.post = a.post \o E!PushOperator(a.ops, ")").out
  <2> DEFINE o == t[j].kind
  <2>1. e.ops = E!PushOperator(a.ops, o).ops /\ e.post = a.post \o E!PushOperator(a.ops, o).out
    <3>1. o \in {"(", ")"}
      OBVIOUS
    <3> QED BY <1>0, <3>1, Operated
  <2>2. o = ")"
    OBVIOUS
  <2> HIDE DEF o, a, e
  <2> QED BY <2>1, <2>2
<1>4. y \in Nat /\ Len(b.ops) = y + 1
  BY <1>1, <1>2
<1> HIDE DEF a, b, c, e, y, m
<1>5. /\ y + 1 <= Len(a.ops) /\ SubSeq(a.ops, 1, y + 1) = Append(c.ops, "(")
      /\ Above(t, h, i + 1, j - 1, a.ops, y + 1)
      /\ After(c.post).ok =>
           Valued(t, h, i + 1, j - 1, m, After(c.post), After(Flush(a, y + 1)))
  <2>1. Evaluates(t, h, f, i + 1, j - 1, b, a)
    BY DEF a, b
  <2> QED BY <1>2, <1>4, <2>1 DEF Evaluates, m
<1>6. PICK d \in Int : Shape(a.ops, y + 1, d)
  BY <1>5 DEF Above
<1>7. PICK u \in Seq(Opers), l \in Seq(ICTok) :
        /\ E!PushOperator(a.ops, ")").ops = u /\ E!PushOperator(a.ops, ")").out = l
        /\ y <= Len(u) /\ SubSeq(u, 1, y) = c.ops /\ Shape(u, y, y + 1)
        /\ l \o E!Operators(SubSeq(u, y + 1, Len(u))) = E!Operators(SubSeq(a.ops, y + 2, Len(a.ops)))
  <2> DEFINE s == a.ops
             w == c.ops
  <2>1. /\ s \in Seq(Opers) /\ w \in Seq(Opers) /\ y \in Nat /\ Len(w) = y /\ y + 1 <= Len(s)
        /\ SubSeq(s, 1, y + 1) = Append(w, "(") /\ d \in Int /\ Shape(s, y + 1, d)
    BY <1>1, <1>4, <1>5, <1>6 DEF y
  <2> HIDE DEF s, w
  <2>2. \E u \in Seq(Opers), l \in Seq(ICTok) :
          /\ E!PushOperator(s, ")").ops = u /\ E!PushOperator(s, ")").out = l
          /\ y <= Len(u) /\ SubSeq(u, 1, y) = w /\ Shape(u, y, y + 1)
          /\ l \o E!Operators(SubSeq(u, y + 1, Len(u))) = E!Operators(SubSeq(s, y + 2, Len(s)))
    BY <2>1, Closed
  <2> QED BY <2>2 DEF s, w
<1>8. e.ops = u /\ e.post = a.post \o l
  BY <1>3, <1>7
<1>9. Flush(e, y) = Flush(a, y + 1)
  <2> DEFINE k == E!Operators(SubSeq(u, y + 1, Len(u)))
  <2>1. k \in Seq(ICTok)
    <3>1. SubSeq(u, y + 1, Len(u)) \in Seq(Opers)
      BY <1>4, SubSeqProperties
    <3> QED BY <3>1, OperatorsTop
  <2>2. Flush(e, y) = (a.post \o l) \o k
    BY <1>8 DEF Flush
  <2>3. (a.post \o l) \o k = a.post \o (l \o k)
    <3> HIDE DEF k
    <3> DEFINE x == a.post
    <3>1. l \in Seq(ICTok) /\ x \in Seq(ICTok) /\ k \in Seq(ICTok)
      BY <1>1, <2>1
    <3> HIDE DEF x
    <3>2. (x \o l) \o k = x \o (l \o k)
      BY <3>1, ThreeLists
    <3> QED BY <3>2 DEF x
  <2>4. l \o k = E!Operators(SubSeq(a.ops, (y + 1) + 1, Len(a.ops)))
    <3>1. (y + 1) + 1 = y + 2
      BY <1>4
    <3> QED BY <1>7, <3>1
  <2> QED BY <2>2, <2>3, <2>4 DEF Flush
<1>10. Above(t, h, i, j, e.ops, y)
  <2>1. Shape(e.ops, y, y + 1) /\ y + 1 \in Int /\ y + 1 .. (y + 1) - 1 = {}
    BY <1>4, <1>7, <1>8
  <2> QED BY <2>1 DEF Above
<1>11. ASSUME After(c.post).ok
       PROVE  Valued(t, h, i, j, m, After(c.post), After(Flush(e, y)))
  <2>1. Valued(t, h, i + 1, j - 1, m, After(c.post), After(Flush(e, y)))
    BY <1>5, <1>9, <1>11
  <2>2. \A r \in 1 .. Len(t) : ~ IsAddend(t, h, r, i + 1, j - 1)
    <3>1. \A k \in i + 1 .. j - 1 : t[k].kind # "reg"
      BY <1>0, InnerPart
    <3> QED BY <1>0, <3>1 DEF IsAddend
  <2> QED BY <2>1, <2>2 DEF Valued
<1> QED BY <1>7, <1>8, <1>10, <1>11 DEF Evaluates, c, e, y, m

LEMMA OpeningParts ==
  ASSUME NEW t \in Seq(Tok), NEW h, NEW i \in 1 .. Len(t), NEW j \in i .. Len(t),
         Opening(t, h, i, j), NEW c \in i + 1 .. j, IsLeastCut(t, h, i, j, c)
  PROVE  /\ Opening(t, h, i, c - 1) /\ Opening(t, h, c + 1, j)
         /\ \A d \in Int : IsCut(t, h, i, c - 1, d) \/ IsCut(t, h, c + 1, j, d) => IsCut(t, h, i, j, d)
<1>0. i \in Int /\ j \in Int /\ c \in Int /\ (c + 1) - 1 = c /\ (c + 1) - 2 = c - 1 /\ c + 1 > 2
  OBVIOUS
<1>1. /\ t[c].kind \in E!Dyadic /\ E!IsOperandEnd(t[c - 1]) /\ h[c] = h[i - 1] /\ IsCut(t, h, i, j, c)
      /\ \A d \in i + 1 .. j : IsCut(t, h, i, j, d) =>
           /\ E!Prec[t[c].kind] <= E!Prec[t[d].kind]
           /\ E!Prec[t[c].kind] = E!Prec[t[d].kind] => d <= c
  BY DEF IsLeastCut, IsCut
<1>2. ASSUME NEW d \in Int, IsCut(t, h, i, c - 1, d) PROVE IsCut(t, h, i, j, d)
  <2>1. d \in i + 1 .. j
    BY <1>0, <1>2 DEF IsCut
  <2> QED BY <1>2, <2>1 DEF IsCut
<1>3. ASSUME NEW d \in Int, IsCut(t, h, c + 1, j, d) PROVE IsCut(t, h, i, j, d) /\ d > c
  <2>1. d \in (c + 1) + 1 .. j /\ h[d] = h[c]
    BY <1>0, <1>3 DEF IsCut
  <2>2. d \in i + 1 .. j /\ d > c
    BY <1>0, <2>1
  <2> QED BY <1>1, <1>3, <2>1, <2>2 DEF IsCut
<1>4. Opening(t, h, i, c - 1)
  <2>1. CASE /\ i > 2 /\ t[i - 1].kind \in E!Dyadic /\ E!IsOperandEnd(t[i - 2])
             /\ \A d \in i + 1 .. j : IsCut(t, h, i, j, d) => E!Prec[t[i - 1].kind] < E!Prec[t[d].kind]
    <3>1. \A d \in i + 1 .. c - 1 : IsCut(t, h, i, c - 1, d) => E!Prec[t[i - 1].kind] < E!Prec[t[d].kind]
      <4>1. \A d \in i + 1 .. c - 1 : d \in i + 1 .. j /\ d \in Int
        BY <1>0
      <4> QED BY <1>2, <2>1, <4>1
    <3> QED BY <2>1, <3>1 DEF Opening
  <2> QED BY <2>1 DEF Opening
<1>5. Opening(t, h, c + 1, j)
  <2>1. ASSUME NEW d \in (c + 1) + 1 .. j, IsCut(t, h, c + 1, j, d)
        PROVE  E!Prec[t[c].kind] < E!Prec[t[d].kind]
    <3>1. d \in Int /\ d \in i + 1 .. j
      BY <1>0
    <3>2. IsCut(t, h, i, j, d) /\ d > c
      BY <1>3, <2>1, <3>1
    <3>3. E!Prec[t[c].kind] <= E!Prec[t[d].kind] /\ E!Prec[t[c].kind] # E!Prec[t[d].kind]
      BY <1>0, <1>1, <3>1, <3>2
    <3>4. E!Prec[t[c].kind] \in Int /\ E!Prec[t[d].kind] \in Int
      <4>1. t[d].kind \in E!Dyadic
        BY <2>1 DEF IsCut
      <4>2. E!Prec[t[c].kind] \in 0 .. 5 /\ E!Prec[t[d].kind] \in 0 .. 5
        BY <1>1, <4>1, Precedences
      <4> QED BY <4>2
    <3> QED BY <3>3, <3>4
  <2> QED BY <1>0, <1>1, <2>1 DEF Opening
<1> QED BY <1>2, <1>3, <1>4, <1>5

LEMMA BinaryValue ==
  ASSUME NEW list \in Seq(ICTok), NEW l \in Seq(ICTok), NEW v \in ICTok, NEW w \in ICTok,
         NEW o \in E!Dyadic, E!Allowed(o, v, w),
         After(list) = [ok |-> TRUE, stack |-> Append(Append(l, v), w)]
  PROVE  After(Append(list, E!Mark(o)))
           = [ok |-> TRUE, stack |-> Append(l, E!Token("imm", E!Apply(o, v.val, w.val)))]
<1> DEFINE a == After(list)
           st == Append(Append(l, v), w)
           z == E!Token("imm", E!Apply(o, v.val, w.val))
           x == E!Mark(o)
<1>1. a.ok = TRUE /\ a.stack = st
  OBVIOUS
<1>2. x \in ICTok /\ x.kind = o
  BY DEF E!Mark, E!Token, ICTok
<1>3. a \in Stacks /\ After(Append(list, x)) = E!Step(a, x)
  BY <1>2, AfterOneMore
<1>4. /\ Len(st) = Len(l) + 2 /\ Len(l) \in Nat /\ st[Len(l) + 1] = v /\ st[Len(l) + 2] = w
      /\ SubSeq(st, 1, Len(l)) = l
  OBVIOUS
<1>5. z \in ICTok
  <2>1. v.val \in Int /\ w.val \in Int /\ Defines(o, w.val)
    BY DEF ICTok, E!Allowed, Defines
  <2>2. E!Apply(o, v.val, w.val) \in Int
    BY <2>1, ApplyIsInt
  <2> QED BY <2>2 DEF E!Token, ICTok
<1> HIDE DEF a, st, z, x
<1> DEFINE len == Len(a.stack)
<1>6. len = Len(l) + 2 /\ ~ (len < 2) /\ len - 2 = Len(l) /\ len - 1 = Len(l) + 1
  BY <1>1, <1>4
<1>7. a.stack[len - 1] = v /\ a.stack[len] = w /\ SubSeq(a.stack, 1, len - 2) = l
  BY <1>1, <1>4, <1>6
<1> HIDE DEF len
<1>8. E!Step(a, x) = [a EXCEPT !.stack = Append(SubSeq(a.stack, 1, len - 2),
                        E!Token("imm", E!Apply(x.kind, a.stack[len - 1].val, a.stack[len].val)))]
  <2>1. x.kind \in E!Dyadic
    BY <1>2
  <2>2. ~ (~ a.ok \/ len < 2 \/ ~ E!Allowed(x.kind, a.stack[len - 1], a.stack[len]))
    BY <1>1, <1>2, <1>6, <1>7
  <2>3. len = Len(a.stack)
    BY DEF len
  <2> QED BY <2>1, <2>2, <2>3, Zenon DEF E!Step
<1>9. E!Step(a, x) = [a EXCEPT !.stack = Append(l, z)]
  BY <1>2, <1>7, <1>8 DEF z
<1> DEFINE m == Append(l, z)
<1>10. m \in Seq(ICTok) /\ E!Step(a, x) = [a EXCEPT !.stack = m]
  BY <1>5, <1>9
<1> HIDE DEF m
<1>11. E!Step(a, x) = [ok |-> a.ok, stack |-> m]
  BY <1>3, <1>10, NewStack
<1> QED BY <1>1, <1>3, <1>11 DEF m, z, x

LEMMA Prefix ==
  ASSUME NEW s \in Seq(Opers), NEW w \in Seq(Opers), NEW y \in Nat, Len(w) = y, y + 1 <= Len(s),
         NEW o, SubSeq(s, 1, y + 1) = Append(w, o)
  PROVE  s[y + 1] = o /\ SubSeq(s, 1, y) = w
<1>1. Append(w, o)[y + 1] = o /\ \A p \in 1 .. y : Append(w, o)[p] = w[p]
  OBVIOUS
<1>2. \A p \in 1 .. y + 1 : SubSeq(s, 1, y + 1)[p] = s[p]
  OBVIOUS
<1>3. s[y + 1] = o /\ \A p \in 1 .. y : s[p] = w[p]
  BY <1>1, <1>2
<1> DEFINE v == SubSeq(s, 1, y)
<1>4. v \in Seq(Opers) /\ Len(v) = y /\ \A p \in 1 .. y : v[p] = s[p]
  OBVIOUS
<1>5. \A p \in 1 .. y : v[p] = w[p]
  BY <1>3, <1>4
<1> HIDE DEF v
<1>6. v = w
  BY <1>4, <1>5, SeqEqual
<1> QED BY <1>3, <1>6 DEF v

(* The lowest operator that is flushed comes last.                         *)
LEMMA FlushLowest ==
  ASSUME NEW e, e.ops \in Seq(Opers), e.post \in Seq(ICTok), NEW y \in Nat, y + 1 <= Len(e.ops),
         NEW o \in E!Dyadic, e.ops[y + 1] = o
  PROVE  /\ Flush(e, y + 1) \in Seq(ICTok)
         /\ Flush(e, y) = Append(Flush(e, y + 1), E!Mark(o))
<1> DEFINE s == e.ops
           p == e.post
           S == SubSeq(s, y + 1, Len(s))
           T == SubSeq(s, (y + 1) + 1, Len(s))
           x == E!Mark(o)
<1>1. S \in Seq(Opers) /\ S # <<>> /\ S[1] = o /\ SubSeq(S, 2, Len(S)) = T /\ T \in Seq(Opers)
  <2>1. S \in Seq(Opers) /\ T \in Seq(Opers) /\ Len(S) = Len(s) - y /\ Len(T) = Len(s) - y - 1
    OBVIOUS
  <2>2. \A k \in 1 .. Len(s) - y : S[k] = s[k + y]
    OBVIOUS
  <2>3. \A k \in 1 .. Len(s) - y - 1 : T[k] = s[k + y + 1]
    OBVIOUS
  <2>4. S # <<>> /\ S[1] = o
    <3>1. 1 \in 1 .. Len(s) - y /\ 1 + y = y + 1 /\ Len(s) - y > 0
      OBVIOUS
    <3>2. S[1] = s[y + 1]
      BY <2>2, <3>1
    <3>3. Len(S) > 0
      BY <2>1, <3>1
    <3> HIDE DEF S
    <3> QED BY <3>2, <3>3
  <2> DEFINE V == SubSeq(S, 2, Len(S))
  <2> HIDE DEF S, T
  <2>5. V \in Seq(Opers) /\ Len(V) = Len(s) - y - 1
        /\ \A k \in 1 .. Len(s) - y - 1 : V[k] = S[k + 1]
    BY <2>1
  <2>6. \A k \in 1 .. Len(s) - y - 1 : V[k] = T[k]
    <3> SUFFICES ASSUME NEW k \in 1 .. Len(s) - y - 1 PROVE V[k] = T[k]
      OBVIOUS
    <3>1. k + 1 \in 1 .. Len(s) - y /\ (k + 1) + y = k + y + 1
      OBVIOUS
    <3>2. V[k] = s[(k + 1) + y] /\ T[k] = s[k + y + 1]
      BY <2>2, <2>3, <2>5, <3>1
    <3> QED BY <3>1, <3>2
  <2> HIDE DEF V
  <2>7. V = T
    BY <2>1, <2>5, <2>6, SeqEqual
  <2> QED BY <2>1, <2>4, <2>7 DEF V
<1> HIDE DEF S, T
<1>2. E!Operators(S) = E!Operators(T) \o OutOf(o)
  BY <1>1, OperatorsBottom
<1>3. OutOf(o) = <<x>> /\ x \in ICTok /\ E!Operators(T) \in Seq(ICTok)
  <2>1. x \in ICTok
    BY DEF E!Mark, E!Token, ICTok
  <2> QED BY <1>1, <2>1, OperatorsTop DEF OutOf
<1> DEFINE l == E!Operators(T)
<1>4. Flush(e, y + 1) = p \o l /\ Flush(e, y) = p \o (l \o <<x>>)
  BY <1>2, <1>3 DEF Flush, S, T
<1> HIDE DEF l, x, p, s
<1>5. p \in Seq(ICTok) /\ l \in Seq(ICTok)
  BY <1>3 DEF l, p
<1>6. p \o (l \o <<x>>) = Append(p \o l, x) /\ p \o l \in Seq(ICTok)
  BY <1>3, <1>5
<1> QED BY <1>4, <1>6 DEF x

LEMMA BindsOrder ==
  ASSUME NEW a \in E!Dyadic, NEW b \in E!Dyadic, NEW c \in E!Dyadic,
         E!Prec[a] <= E!Prec[b], E!Prec[b] <= E!Prec[c]
  PROVE  E!Prec[a] <= E!Prec[c]
<1>1. E!Prec[a] \in 0 .. 5 /\ E!Prec[b] \in 0 .. 5 /\ E!Prec[c] \in 0 .. 5
  BY Precedences
<1> QED BY <1>1

(* A part that is cut.                                                     *)
LEMMA CutEvaluates ==
  ASSUME NEW t \in Seq(Tok), NEW h \in Heights(t), NEW f, Plain(t, h, f),
         NEW i \in 1 .. Len(t), NEW j \in i .. Len(t), NEW L \in j .. Len(t), NEW g, Trace(t, g, L),
         Opening(t, h, i, j), f[SubSeq(t, i, j)] # E!Nonsense,
         NEW k \in i + 1 .. j, k < j, CutAt(t, h, f, i, j, k),
         Free(t, h, i, k - 1), Free(t, h, k + 1, j),
         Evaluates(t, h, f, i, k - 1, g[i - 1], g[k - 1]),
         Evaluates(t, h, f, k + 1, j, g[k], g[j])
  PROVE  Evaluates(t, h, f, i, j, g[i - 1], g[j])
<1> DEFINE c == g[i - 1]
           a == g[k - 1]
           b == g[k]
           e == g[j]
           w == c.ops
           y == Len(c.ops)
           o == t[k].kind
           m == f[SubSeq(t, i, j)]
           u == f[SubSeq(t, i, k - 1)]
           v == f[SubSeq(t, k + 1, j)]
<1>0. /\ L \in 0 .. Len(t) /\ i - 1 \in 0 .. L /\ k - 1 \in 0 .. L /\ k \in 0 .. L /\ k \in 1 .. L
      /\ j \in 0 .. L /\ i \in Int /\ j \in Int /\ k \in Int /\ k > 1 /\ k \in 1 .. Len(t)
      /\ k - 1 \in 0 .. Len(t) /\ k + 1 \in 1 .. Len(t) + 1 /\ i \in 1 .. Len(t) + 1 /\ j \in 0 .. Len(t)
      /\ k - 1 < Len(t) /\ (k + 1) - 1 = k /\ k + 1 > 1 /\ (k - 1) + 1 = k
  OBVIOUS
<1>1. /\ w \in Seq(Opers) /\ c.post \in Seq(ICTok) /\ a.ops \in Seq(Opers) /\ a.post \in Seq(ICTok)
      /\ b.ops \in Seq(Opers) /\ b.post \in Seq(ICTok) /\ e.ops \in Seq(Opers) /\ e.post \in Seq(ICTok)
  BY <1>0, TraceTypes
<1>2. IsLeastCut(t, h, i, j, k) /\ m = E!Combined(o, u, v) /\ u # E!Nonsense /\ v # E!Nonsense
  BY DEF CutAt
<1>3. /\ o \in E!Dyadic /\ E!IsOperandEnd(t[k - 1]) /\ IsCut(t, h, i, j, k)
      /\ \A d \in Int : IsCut(t, h, i, j, d) =>
           t[d].kind \in E!Dyadic /\ E!Prec[o] <= E!Prec[t[d].kind]
  BY <1>2 DEF IsLeastCut, IsCut
<1>4. \A d \in Int : IsCut(t, h, i, k - 1, d) \/ IsCut(t, h, k + 1, j, d) => IsCut(t, h, i, j, d)
  BY <1>2, OpeningParts
<1>5. Fits(w, y, o)
  BY <1>3, OpeningFits
<1>6. /\ b.ops = E!PushOperator(a.ops, o).ops /\ b.post = a.post \o E!PushOperator(a.ops, o).out
  BY <1>0, <1>3, Operated
<1>7. Combines(o, u, v, m)
  <2>1. PICK R : R \in RegSums(t)
    BY SumsExist
  <2>2. SaysSum(t, f, R, i, k - 1) /\ SaysSum(t, f, R, k + 1, j)
    BY <1>0, <1>2, <2>1, MeaningSums
  <2>3. Value(u) /\ Value(v)
    BY <2>2 DEF SaysSum
  <2>4. E!Combined(o, u, v) # E!Nonsense
    BY <1>2
  <2> HIDE DEF u, v, m, o
  <2> QED BY <1>2, <1>3, <2>3, <2>4, CombinedIs
<1>8. /\ \A r \in 1 .. Len(t) : IsAddend(t, h, r, i, k - 1) => o \in {"+", "-"}
      /\ \A r \in 1 .. Len(t) : IsAddend(t, h, r, k + 1, j) => o \in {"+", "-"}
  <2>1. ASSUME NEW r \in 1 .. Len(t), IsAddend(t, h, r, i, k - 1) PROVE o \in {"+", "-"}
    <3>1. t[(k - 1) + 1].kind \in {"+", "-"}
      BY <1>0, <2>1 DEF IsAddend
    <3> QED BY <1>0, <3>1
  <2>2. ASSUME NEW r \in 1 .. Len(t), IsAddend(t, h, r, k + 1, j) PROVE o \in {"+", "-"}
    <3>1. t[(k + 1) - 1].kind = "+"
      BY <1>0, <2>2 DEF IsAddend
    <3> QED BY <1>0, <3>1
  <2> QED BY <2>1, <2>2
<1>9. /\ y \in Nat /\ Len(w) = y
  BY <1>1, SMTT(30)
<1>10. /\ y <= Len(a.ops) /\ SubSeq(a.ops, 1, y) = w
       /\ Above(t, h, i, k - 1, a.ops, y)
       /\ After(c.post).ok => Valued(t, h, i, k - 1, u, After(c.post), After(Flush(a, y)))
  BY DEF Evaluates
<1> HIDE DEF a, c, e, w, y, o, m, u, v
<1>11. PICK d \in Int : /\ Shape(a.ops, y, d)
                        /\ \A p \in y + 1 .. d - 1 : \E n1 \in Int :
                             IsCut(t, h, i, k - 1, n1) /\ E!Prec[t[n1].kind] <= E!Prec[a.ops[p]]
  BY <1>10 DEF Above
<1>12. Fits(a.ops, y, o)
  <2>1. CASE y = 0
    BY <2>1 DEF Fits
  <2>2. CASE y # 0
    <3>1. y \in 1 .. y
      BY <1>9, <2>2
    <3>2. SubSeq(a.ops, 1, y)[y] = a.ops[y]
      BY <1>1, <1>9, <1>10, <3>1
    <3>3. a.ops[y] = w[y]
      BY <1>10, <3>2
    <3> QED BY <1>5, <3>3 DEF Fits
  <2> QED BY <2>1, <2>2
<1>13. \A p \in y + 1 .. d - 1 : E!Prec[o] <= E!Prec[a.ops[p]]
  <2> SUFFICES ASSUME NEW p \in y + 1 .. d - 1 PROVE E!Prec[o] <= E!Prec[a.ops[p]]
    OBVIOUS
  <2>1. PICK n1 \in Int : IsCut(t, h, i, k - 1, n1) /\ E!Prec[t[n1].kind] <= E!Prec[a.ops[p]]
    BY <1>11
  <2>2. t[n1].kind \in E!Dyadic /\ E!Prec[o] <= E!Prec[t[n1].kind]
    BY <1>3, <1>4, <2>1 DEF o
  <2>3. a.ops[p] \in E!Dyadic
    BY <1>11 DEF Shape
  <2> DEFINE x == a.ops[p]
             z == t[n1].kind
  <2>4. /\ o \in E!Dyadic /\ z \in E!Dyadic /\ x \in E!Dyadic
        /\ E!Prec[o] <= E!Prec[z] /\ E!Prec[z] <= E!Prec[x]
    BY <1>3, <2>1, <2>2, <2>3 DEF o
  <2> HIDE DEF x, z
  <2>5. E!Prec[o] <= E!Prec[x]
    BY <2>4, BindsOrder
  <2> QED BY <2>5 DEF x
<1>14. b.ops = Append(w, o) /\ b.post = Flush(a, y) /\ Len(b.ops) = y + 1
  <2> DEFINE s == a.ops
  <2>0. /\ s \in Seq(Opers) /\ Shape(s, y, d) /\ o \in E!Dyadic \union {")"} /\ Fits(s, y, o)
        /\ \A p \in y + 1 .. d - 1 : E!Prec[o] <= E!Prec[s[p]]
    BY <1>1, <1>3, <1>11, <1>12, <1>13
  <2> HIDE DEF s
  <2> DEFINE z == E!PushOperator(s, o)
  <2>1. z = [ops |-> Append(SubSeq(s, 1, y), o), out |-> E!Operators(SubSeq(s, y + 1, Len(s)))]
    BY <2>0, Pushed
  <2> HIDE DEF z
  <2>2. z.ops = Append(SubSeq(s, 1, y), o) /\ z.out = E!Operators(SubSeq(s, y + 1, Len(s)))
    BY <2>1
  <2>3. b.ops = z.ops /\ b.post = a.post \o z.out
    BY <1>6 DEF s, a, o, z
  <2>4. b.ops = Append(w, o)
    BY <1>10, <2>2, <2>3 DEF s
  <2>5. b.post = Flush(a, y)
    BY <2>2, <2>3 DEF Flush, s
  <2> QED BY <1>1, <1>9, <2>4, <2>5
<1>15. /\ y + 1 <= Len(e.ops) /\ SubSeq(e.ops, 1, y + 1) = Append(w, o)
       /\ Above(t, h, k + 1, j, e.ops, y + 1)
       /\ After(b.post).ok => Valued(t, h, k + 1, j, v, After(b.post), After(Flush(e, y + 1)))
  <2>1. Evaluates(t, h, f, k + 1, j, b, e)
    BY DEF e
  <2> HIDE DEF b
  <2> QED BY <1>14, <2>1 DEF Evaluates, v
<1> HIDE DEF b
<1>16. e.ops[y + 1] = o /\ SubSeq(e.ops, 1, y) = w
  <2> DEFINE s == e.ops
  <2>1. /\ s \in Seq(Opers) /\ w \in Seq(Opers) /\ y \in Nat /\ Len(w) = y /\ y + 1 <= Len(s)
        /\ SubSeq(s, 1, y + 1) = Append(w, o)
    BY <1>1, <1>9, <1>15 DEF e, w
  <2> HIDE DEF s
  <2>2. s[y + 1] = o /\ SubSeq(s, 1, y) = w
    BY <2>1, Prefix, SMTT(60)
  <2> QED BY <2>2 DEF s
<1>17. Above(t, h, i, j, e.ops, y)
  <2>1. PICK q \in Int : /\ Shape(e.ops, y + 1, q)
                         /\ \A p \in (y + 1) + 1 .. q - 1 : \E n1 \in Int :
                              IsCut(t, h, k + 1, j, n1) /\ E!Prec[t[n1].kind] <= E!Prec[e.ops[p]]
    BY <1>15 DEF Above
  <2>2. \A p \in y + 1 .. q - 1 : p = y + 1 \/ p \in (y + 1) + 1 .. q - 1
    BY <1>9
  <2>3. Shape(e.ops, y, q)
    <3>1. y \in 0 .. Len(e.ops) /\ q \in y + 1 .. Len(e.ops) + 1
      BY <1>9, <2>1 DEF Shape
    <3>2. \A p \in y + 1 .. q - 1 : e.ops[p] \in E!Dyadic
      BY <1>3, <1>16, <2>1, <2>2 DEF Shape, o
    <3> QED BY <2>1, <3>1, <3>2 DEF Shape
  <2>4. ASSUME NEW p \in y + 1 .. q - 1
        PROVE  \E n1 \in Int : IsCut(t, h, i, j, n1) /\ E!Prec[t[n1].kind] <= E!Prec[e.ops[p]]
    <3>1. CASE p = y + 1
      <4>1. E!Prec[o] \in Int
        <5>1. E!Prec[o] \in 0 .. 5
          BY <1>3, Precedences DEF o
        <5> QED BY <5>1
      <4>2. E!Prec[t[k].kind] <= E!Prec[e.ops[p]]
        BY <1>16, <3>1, <4>1 DEF o
      <4> QED BY <1>0, <1>3, <4>2
    <3>2. CASE p \in (y + 1) + 1 .. q - 1
      BY <1>4, <2>1, <3>2
    <3> QED BY <2>2, <3>1, <3>2
  <2> QED BY <2>3, <2>4 DEF Above
<1>18. Flush(e, y + 1) \in Seq(ICTok) /\ Flush(e, y) = Append(Flush(e, y + 1), E!Mark(o))
  <2>1. e.ops \in Seq(Opers) /\ e.post \in Seq(ICTok) /\ o \in E!Dyadic
    BY <1>1, <1>3 DEF e, o
  <2> QED BY <1>9, <1>15, <1>16, <2>1, FlushLowest
<1>19. ASSUME After(c.post).ok
       PROVE  Valued(t, h, i, j, m, After(c.post), After(Flush(e, y)))
  <2> DEFINE l == After(c.post).stack
             first1 == Flush(e, y + 1)
  <2>1. l \in Seq(ICTok)
    <3>1. c.post \in Seq(ICTok) /\ E!Mark(o) \in ICTok
      BY <1>1, <1>3 DEF c, o, E!Mark, E!Token, ICTok
    <3>2. After(c.post) \in Stacks
      BY <3>1, AfterOneMore
    <3> QED BY <3>2 DEF Stacks
  <2>2. PICK v1 \in ICTok :
          /\ After(Flush(a, y)) = [ok |-> TRUE, stack |-> Append(l, v1)]
          /\ v1.val = u.imm
          /\ v1.kind = "imm" \/ \E r \in 1 .. Len(t) : IsAddend(t, h, r, i, k - 1)
    BY <1>10, <1>19 DEF Valued
  <2>3. After(b.post) = [ok |-> TRUE, stack |-> Append(l, v1)]
    BY <1>14, <2>2
  <2>4. After(b.post).ok /\ After(b.post).stack = Append(l, v1)
    BY <2>3
  <2>5. PICK v2 \in ICTok :
          /\ After(first1) = [ok |-> TRUE, stack |-> Append(Append(l, v1), v2)]
          /\ v2.val = v.imm
          /\ v2.kind = "imm" \/ \E r \in 1 .. Len(t) : IsAddend(t, h, r, k + 1, j)
    BY <1>15, <2>4 DEF Valued
  <2>6. o \in E!Dyadic
    BY <1>3 DEF o
  <2>7. E!Allowed(o, v1, v2)
    <3>1. Defines(o, v.imm)
      BY <1>7 DEF Combines
    <3>2. o \notin {"+", "-"} => v1.kind = "imm" /\ v2.kind = "imm"
      BY <1>8, <2>2, <2>5 DEF o
    <3> QED BY <2>5, <3>1, <3>2 DEF Defines, E!Allowed
  <2> DEFINE x == E!Token("imm", E!Apply(o, v1.val, v2.val))
  <2> HIDE DEF l, first1
  <2>8. After(Append(first1, E!Mark(o))) = [ok |-> TRUE, stack |-> Append(l, x)]
    <3>1. first1 \in Seq(ICTok)
      BY <1>18 DEF first1
    <3> QED BY <2>1, <2>5, <2>6, <2>7, <3>1, BinaryValue
  <2>9. x.val = m.imm /\ x.kind = "imm" /\ x \in ICTok
    <3>1. m.imm = E!Apply(o, v1.val, v2.val) /\ m.imm \in Int
      BY <1>7, <2>2, <2>5 DEF Combines, Value
    <3> QED BY <3>1 DEF E!Token, ICTok
  <2> HIDE DEF x
  <2>10. After(Flush(e, y)) = [ok |-> TRUE, stack |-> Append(After(c.post).stack, x)]
    BY <1>18, <2>8 DEF first1, l
  <2> QED BY <2>9, <2>10 DEF Valued
<1>20. y <= Len(e.ops)
  <2>1. Len(e.ops) \in Nat
    BY <1>1 DEF e
  <2> QED BY <1>9, <1>15, <2>1
<1> QED BY <1>16, <1>17, <1>19, <1>20 DEF Evaluates, c, e, w, y, m

(* The calculator works out every part that is free and begins where one   *)
(* can begin.                                                              *)
LEMMA PartsEvaluate ==
  ASSUME NEW t \in Seq(Tok), NEW h \in Heights(t), NEW f, Plain(t, h, f),
         NEW L \in 0 .. Len(t), NEW g, Trace(t, g, L)
  PROVE  \A i \in 1 .. Len(t) + 1, j \in 0 .. L :
           f[SubSeq(t, i, j)] # E!Nonsense /\ Free(t, h, i, j) /\ Opening(t, h, i, j)
             => Evaluates(t, h, f, i, j, g[i - 1], g[j])
<1> DEFINE P == (1 .. Len(t) + 1) \X (0 .. Len(t))
           Here(i, j) == f[SubSeq(t, i, j)] # E!Nonsense /\ Free(t, h, i, j) /\ Opening(t, h, i, j) /\ j <= L
           G == {p \in P : Here(p[1], p[2]) => Evaluates(t, h, f, p[1], p[2], g[p[1] - 1], g[p[2]])}
<1>0. Len(t) \in Nat /\ Reading(t, f) /\ L \in Int /\ L <= Len(t)
  BY DEF Plain
<1>1. ASSUME NEW p \in P, \A q \in P : q[2] - q[1] < p[2] - p[1] => q \in G, Here(p[1], p[2])
      PROVE  Evaluates(t, h, f, p[1], p[2], g[p[1] - 1], g[p[2]])
  <2> DEFINE i == p[1]
             j == p[2]
  <2>1. i \in 1 .. Len(t) + 1 /\ j \in 0 .. Len(t)
    OBVIOUS
  <2>2. f[SubSeq(t, i, j)] # E!Nonsense /\ Free(t, h, i, j) /\ Opening(t, h, i, j) /\ j <= L
    BY <1>1
  <2>3. /\ i <= j
        /\ \/ \E c \in i + 1 .. j : CutAt(t, h, f, i, j, c)
           \/ Leaf(t, f, i, j)
    BY <1>0, <2>1, <2>2, Rules
  <2>4. \A a \in 1 .. Len(t) + 1, b \in 0 .. Len(t) :
          b - a < j - i /\ Here(a, b) => Evaluates(t, h, f, a, b, g[a - 1], g[b])
    <3> SUFFICES ASSUME NEW a \in 1 .. Len(t) + 1, NEW b \in 0 .. Len(t), b - a < j - i, Here(a, b)
                 PROVE  Evaluates(t, h, f, a, b, g[a - 1], g[b])
      OBVIOUS
    <3>1. <<a, b>> \in P /\ <<a, b>>[1] = a /\ <<a, b>>[2] = b
      OBVIOUS
    <3>2. <<a, b>> \in G
      <4> HIDE DEF P, G
      <4> QED BY <1>1, <3>1
    <3> QED BY <3>2
  <2> SUFFICES Evaluates(t, h, f, i, j, g[i - 1], g[j])
    OBVIOUS
  <2> HIDE DEF i, j, P, G
  <2>5. i \in Int /\ j \in Int /\ i \in 1 .. Len(t) /\ j \in 1 .. Len(t) /\ j \in i .. Len(t)
        /\ L \in j .. Len(t)
    BY <1>0, <2>1, <2>2, <2>3
  <2>6. WellFormed(t, h, i, j) /\ h[i - 1] >= 0
    <3>1. WellFormed(t, h, i, j)
      BY <1>0, <2>1, <2>2, PartsWellFormed
    <3>2. i - 1 \in 0 .. Len(t)
      BY <2>5
    <3> QED BY <3>1, <3>2, PlainFacts
  <2>7. ASSUME NEW c \in i + 1 .. j, CutAt(t, h, f, i, j, c)
        PROVE  Evaluates(t, h, f, i, j, g[i - 1], g[j])
    <3>1. /\ c - 1 \in 0 .. Len(t) /\ (c - 1) - i < j - i /\ c \in Int /\ c - 1 <= L
          /\ c + 1 \in 1 .. Len(t) + 1 /\ j - (c + 1) < j - i /\ (c + 1) - 1 = c
      BY <1>0, <2>2, <2>5
    <3>2. /\ f[SubSeq(t, i, c - 1)] # E!Nonsense /\ f[SubSeq(t, c + 1, j)] # E!Nonsense
          /\ IsLeastCut(t, h, i, j, c)
      BY <2>7 DEF CutAt
    <3>3. CASE /\ c = i + 1 /\ j = i + 2 /\ t[c].kind = "*"
               /\ \E r \in 1 .. Len(t) : IsAddend(t, h, r, i, j)
      <4>1. PICK r \in 1 .. Len(t) : IsAddend(t, h, r, i, j)
        BY <3>3
      <4>2. t[i + 1].kind = "*" /\ CutAt(t, h, f, i, j, i + 1)
        BY <2>7, <3>3
      <4> QED BY <2>2, <2>5, <3>3, <4>1, <4>2, TimesEvaluates
    <3>4. CASE Free(t, h, i, c - 1) /\ Free(t, h, c + 1, j)
      <4>1. Opening(t, h, i, c - 1) /\ Opening(t, h, c + 1, j)
        BY <2>2, <2>5, <3>2, OpeningParts
      <4>2. Evaluates(t, h, f, i, c - 1, g[i - 1], g[c - 1])
        BY <2>1, <2>4, <3>1, <3>2, <3>4, <4>1
      <4>3. Evaluates(t, h, f, c + 1, j, g[c], g[j])
        <5>1. Here(c + 1, j)
          BY <2>2, <3>2, <3>4, <4>1
        <5> HIDE DEF Here
        <5>2. Evaluates(t, h, f, c + 1, j, g[(c + 1) - 1], g[j])
          BY <2>1, <2>4, <3>1, <5>1
        <5> QED BY <3>1, <5>2
      <4>4. c < j
        <5>1. WellFormed(t, h, c + 1, j)
          BY <1>0, <2>1, <3>1, <3>2, PartsWellFormed
        <5>2. c + 1 <= j
          BY <5>1 DEF WellFormed
        <5> QED BY <2>5, <3>1, <5>2
      <4> QED BY <2>2, <2>5, <2>7, <3>4, <4>2, <4>3, <4>4, CutEvaluates
    <3> QED BY <2>2, <2>5, <2>6, <3>2, <3>3, <3>4, PartsFree
  <2>8. CASE Leaf(t, f, i, j) /\ t[i].kind # "("
    BY <2>2, <2>5, <2>8, LeafEvaluates
  <2>9. CASE Leaf(t, f, i, j) /\ t[i].kind = "("
    <3>1. j > i + 1 /\ f[SubSeq(t, i, j)] = f[SubSeq(t, i + 1, j - 1)] /\ t[j].kind = ")"
      BY <2>9 DEF Leaf
    <3>2. /\ j - 1 \in 0 .. Len(t) /\ i + 1 \in 1 .. Len(t) + 1 /\ (j - 1) - (i + 1) < j - i
          /\ j - 1 <= L /\ (i + 1) - 1 = i /\ i + 1 > 1
      BY <1>0, <2>2, <2>5, <3>1
    <3>3. f[SubSeq(t, i + 1, j - 1)] # E!Nonsense
      BY <2>2, <3>1
    <3>4. WellFormed(t, h, i + 1, j - 1)
      BY <1>0, <3>2, <3>3, PartsWellFormed
    <3>5. Free(t, h, i + 1, j - 1)
      BY <2>5, <2>9, <3>1, <3>4, InnerPart
    <3>6. Opening(t, h, i + 1, j - 1)
      BY <2>9, <3>2 DEF Opening
    <3>7. Here(i + 1, j - 1)
      BY <3>2, <3>3, <3>5, <3>6
    <3> HIDE DEF Here
    <3>8. Evaluates(t, h, f, i + 1, j - 1, g[(i + 1) - 1], g[j - 1])
      BY <2>4, <3>2, <3>7
    <3>9. Evaluates(t, h, f, i + 1, j - 1, g[i], g[j - 1])
      BY <3>2, <3>8
    <3> QED BY <2>5, <2>9, <3>1, <3>4, <3>9, ParenEvaluates
  <2> QED BY <2>3, <2>7, <2>8, <2>9
<1>2. \A p \in P : (\A q \in P : q[2] - q[1] < p[2] - p[1] => q \in G) => p \in G
  BY <1>1
<1> HIDE DEF G
<1>3. P \subseteq G
  BY <1>0, <1>2, PairInduction
<1>4. ASSUME NEW i \in 1 .. Len(t) + 1, NEW j \in 0 .. L,
             f[SubSeq(t, i, j)] # E!Nonsense, Free(t, h, i, j), Opening(t, h, i, j)
      PROVE  Evaluates(t, h, f, i, j, g[i - 1], g[j])
  <2>1. <<i, j>> \in P /\ <<i, j>>[1] = i /\ <<i, j>>[2] = j /\ j <= L
    BY <1>0
  <2>2. <<i, j>> \in G
    BY <1>3, <2>1
  <2> QED BY <1>4, <2>1, <2>2 DEF G
<1> QED BY <1>4

(* The operand whole.                                                      *)
LEMMA ExecutesTo ==
  ASSUME NEW t \in Seq(Tok), NEW h \in Heights(t), NEW f, Plain(t, h, f),
         NEW g, Trace(t, g, Len(t)), ops = g[Len(t)].ops, post = g[Len(t)].post
  PROVE  E!Execute = <<f[t].imm>>
<1> DEFINE N == Len(t)
           c == g[0]
           e == g[N]
           list == post \o E!Operators(ops)
<1>1. /\ N \in Nat \ {0} /\ f[SubSeq(t, 1, N)] # E!Nonsense /\ SubSeq(t, 1, N) = t
      /\ WellFormed(t, h, 1, N)
  BY PlainFacts
<1>2. Free(t, h, 1, N)
  BY DEF Free
<1>3. Opening(t, h, 1, N)
  BY DEF Opening
<1>4. Evaluates(t, h, f, 1, N, c, e)
  <2>1. 1 \in 1 .. Len(t) + 1 /\ N \in 0 .. N /\ N \in 0 .. Len(t) /\ 1 - 1 = 0
    BY <1>1
  <2>2. Evaluates(t, h, f, 1, N, g[1 - 1], g[N])
    BY <1>1, <1>2, <1>3, <2>1, PartsEvaluate
  <2> QED BY <2>1, <2>2
<1>5. c.ops = <<>> /\ c.post = <<>>
  BY DEF Trace, StartConfig, Config
<1>6. After(c.post) = NoValues /\ NoValues.ok /\ NoValues.stack = <<>>
  BY <1>5, AfterNothing DEF NoValues
<1>7. e.ops \in Seq(Opers) /\ e.post \in Seq(ICTok)
  <2>1. N \in 0 .. Len(t)
    BY <1>1
  <2> QED BY <2>1, TraceTypes
<1>8. Flush(e, 0) = list
  <2>1. SubSeq(e.ops, 0 + 1, Len(e.ops)) = e.ops
    BY <1>7
  <2> QED BY <2>1 DEF Flush
<1>9. PICK v \in ICTok : After(list) = [ok |-> TRUE, stack |-> Append(<<>>, v)] /\ v.val = f[t].imm
  <2>1. Len(c.ops) = 0
    BY <1>5
  <2>2. Valued(t, h, 1, N, f[SubSeq(t, 1, N)], After(c.post), After(Flush(e, 0)))
    <3> HIDE DEF c, e, N
    <3> QED BY <1>4, <1>6, <2>1 DEF Evaluates
  <2>3. Valued(t, h, 1, N, f[t], NoValues, After(list))
    BY <1>1, <1>6, <1>8, <2>2
  <2> HIDE DEF list
  <2> QED BY <1>6, <2>3 DEF Valued
<1>10. list # <<>>
  <2>1. SUFFICES ASSUME list = <<>> PROVE FALSE
    OBVIOUS
  <2>2. NoValues = [ok |-> TRUE, stack |-> Append(<<>>, v)]
    BY <1>9, <2>1, AfterNothing
  <2>3. NoValues.stack = Append(<<>>, v)
    BY <2>2
  <2>4. Append(<<>>, v) # <<>>
    OBVIOUS
  <2> QED BY <1>6, <2>3, <2>4
<1>11. E!Run(list) = <<f[t].imm>>
  <2> DEFINE a == After(list)
  <2>1. a.ok = TRUE /\ a.stack = Append(<<>>, v)
    BY <1>9
  <2>2. Append(<<>>, v) = <<v>> /\ Len(<<v>>) = 1 /\ <<v>>[1] = v
    OBVIOUS
  <2>3. E!Run(list) = IF a.ok /\ Len(a.stack) = 1 THEN <<a.stack[1].val>> ELSE E!Bad
    BY RunIs
  <2> HIDE DEF a, list
  <2> QED BY <1>9, <2>1, <2>2, <2>3
<1> QED BY <1>10, <1>11 DEF E!Execute

(* What is taken addresses what a plain operand says.                      *)
LEMMA AddressesMeaning ==
  ASSUME NEW t \in Seq(Tok), E!IsPlain(t), NEW g, Finished(t, g)
  PROVE  E!Execute # E!Bad /\ E!Address = E!Meaning(t)
<1>1. PICK h : h \in Heights(t)
  BY HeightsExist
<1>2. PICK f : Plain(t, h, f) /\ E!Meaning(t) = f[t]
  BY <1>1, PlainRead
<1>3. PICK R : R \in RegSums(t)
  BY SumsExist
<1> DEFINE N == Len(t)
           m == f[t]
<1>4. /\ N \in Nat \ {0} /\ f[SubSeq(t, 1, N)] # E!Nonsense /\ SubSeq(t, 1, N) = t
  BY <1>1, <1>2, PlainFacts
<1>5. Value(m) /\ \A q \in Regs : m.regs[q] = R[N][q]
  <2>1. Free(t, h, 1, N)
    BY DEF Free
  <2>2. 1 \in 1 .. Len(t) + 1 /\ N \in 0 .. Len(t) /\ 1 - 1 = 0
    BY <1>4
  <2>3. SaysSum(t, f, R, 1, N)
    BY <1>1, <1>2, <1>3, <1>4, <2>1, <2>2, MeaningSums
  <2>4. Value(m) /\ \A q \in Regs : m.regs[q] = R[N][q] - R[0][q]
    BY <1>4, <2>2, <2>3 DEF SaysSum
  <2>5. ASSUME NEW q \in Regs PROVE m.regs[q] = R[N][q]
    <3>1. R[0] = [p \in Regs |-> 0] /\ R \in [0 .. Len(t) -> [Regs -> Int]]
      BY <1>3 DEF RegSums
    <3>2. R[0][q] = 0 /\ R[N] \in [Regs -> Int]
      BY <2>2, <3>1
    <3>3. R[N][q] \in Int
      BY <3>2
    <3> QED BY <2>4, <3>2, <3>3
  <2> QED BY <2>4, <2>5
<1>6. scale \in Int /\ \A q \in Regs : Held(Now, q) = R[N][q]
  BY <1>2, <1>3, AllHeld
<1>7. E!Execute = <<m.imm>>
  <2> DEFINE c == g[N]
             s == St(t, N)
             p == St(t, N - 1)
  <2>1. Trace(t, g, N) /\ Now = Placed(c, s, p)
    BY DEF Finished
  <2>2. ops = c.ops /\ post = c.post
    <3>1. Now.ops = ops /\ Now.post = post
      BY DEF Now, Config
    <3> HIDE DEF c, s, p
    <3>2. Placed(c, s, p).ops = c.ops /\ Placed(c, s, p).post = c.post
      BY PlacedKeeps
    <3> QED BY <2>1, <3>1, <3>2
  <2> QED BY <1>1, <1>2, <2>1, <2>2, ExecutesTo
<1> HIDE DEF m
<1>8. E!Sum(E!Unit(base, 1), E!Unit(index, scale), 1) = m.regs
  <2> DEFINE S == E!Sum(E!Unit(base, 1), E!Unit(index, scale), 1)
  <2>1. S = [q \in Regs |-> (IF q = base THEN 1 ELSE 0) + 1 * (IF q = index THEN scale ELSE 0)]
    BY DEF E!Sum, E!Unit
  <2>2. m.regs \in [Regs -> Int]
    BY <1>5 DEF Value
  <2>3. ASSUME NEW q \in Regs PROVE S[q] = m.regs[q]
    <3>1. Held(Now, q) = (IF base = q THEN 1 ELSE 0) + (IF index = q THEN scale ELSE 0)
      BY DEF Held, Now, Config
    <3>2. S[q] = (IF q = base THEN 1 ELSE 0) + 1 * (IF q = index THEN scale ELSE 0)
      BY <2>1
    <3> HIDE DEF S
    <3> QED BY <1>5, <1>6, <3>1, <3>2
  <2>4. S = [q \in Regs |-> S[q]]
    BY <2>1
  <2>5. m.regs = [q \in Regs |-> m.regs[q]]
    BY <2>2
  <2> HIDE DEF S
  <2>6. [q \in Regs |-> S[q]] = [q \in Regs |-> m.regs[q]]
    BY <2>3
  <2> QED BY <2>4, <2>5, <2>6 DEF S
<1>9. E!Execute[1] = m.imm
  BY <1>7
<1>10. E!Address = [regs |-> m.regs, imm |-> m.imm]
  BY <1>8, <1>9 DEF E!Address
<1>11. m = [regs |-> m.regs, imm |-> m.imm]
  BY <1>5 DEF Value
<1>12. E!Execute # E!Bad
  BY <1>7 DEF E!Bad
<1> QED BY <1>2, <1>10, <1>11, <1>12 DEF m

-----------------------------------------------------------------------------
\* An operand of the form Base + Scale*Index + displacement is taken.

(* It has two registers at most, one of them with a factor.                *)
LEMMA FormCount ==
  ASSUME NEW t \in Seq(Tok), E!IsForm(t), NEW k \in 1 .. Len(t)
  PROVE  /\ CountTo(E!RegsOf(t), k) \in Nat /\ CountTo(E!RegsOf(t), k - 1) \in Nat
         /\ CountTo(E!RegsOf(t), k) <= 2
         /\ CountTo(E!RegsOf(t), k)
              = CountTo(E!RegsOf(t), k - 1) + (IF t[k].kind = "reg" THEN 1 ELSE 0)
<1> DEFINE S == E!RegsOf(t)
           y == k - 1
<1>1. /\ k \in Nat /\ y \in Nat /\ y + 1 = k /\ k \in 1 .. Len(t) /\ k \in DOMAIN t
  OBVIOUS
<1>2. k \in S <=> t[k].kind = "reg"
  BY <1>1 DEF E!RegsOf
<1>3. IsFiniteSet(S) /\ S \subseteq 1 .. Len(t)
  <2>1. IsFiniteSet(1 .. Len(t))
    BY FS_Interval
  <2>2. S \subseteq 1 .. Len(t)
    BY DEF E!RegsOf
  <2> QED BY <2>1, <2>2, FS_Subset
<1>4. Cardinality(S) <= 2 /\ Cardinality(S) \in Nat
  <2>1. E!Cardinality(S) <= 2
    BY DEF E!IsForm
  <2>2. E!Cardinality(S) = Cardinality(S)
    BY SameCardinality
  <2> QED BY <1>3, <2>1, <2>2, FS_CardinalityType
<1> HIDE DEF S, y
<1>5. CountTo(S, k) <= 2 /\ CountTo(S, k) \in Nat
  <2>1. {q \in 1 .. k : q \in S} \subseteq S
    OBVIOUS
  <2>2. Cardinality({q \in 1 .. k : q \in S}) <= Cardinality(S)
    BY <1>3, <2>1, FS_Subset
  <2>3. CountTo(S, k) \in Nat
    BY <1>1, Counting
  <2> QED BY <1>4, <2>2, <2>3 DEF CountTo
<1>6. /\ CountTo(S, y) \in Nat
      /\ CountTo(S, y + 1) = CountTo(S, y) + (IF y + 1 \in S THEN 1 ELSE 0)
  BY <1>1, Counting
<1>7. CountTo(S, k) = CountTo(S, y) + (IF t[k].kind = "reg" THEN 1 ELSE 0)
  BY <1>1, <1>2, <1>6
<1> QED BY <1>5, <1>6, <1>7 DEF S, y

LEMMA FormFactors ==
  ASSUME NEW t \in Seq(Tok), NEW h, NEW f, Plain(t, h, f), E!IsForm(t),
         NEW r \in 1 .. Len(t), t[r].kind = "reg"
  PROVE  /\ Behind(t, r) => ~ E!Alone(t, r) /\ t[r - 2].val \in E!Scales
         /\ Before(t, r) => ~ E!Alone(t, r) /\ t[r + 2].val \in E!Scales
<1>1. PICK a \in 1 .. Len(t), b \in 1 .. Len(t) : IsAddend(t, h, r, a, b)
  BY DEF Plain
<1>2. /\ a = r /\ b = r => Single(t, r)
      /\ a = r - 2 => b = r /\ Behind(t, r)
      /\ b = r + 2 => a = r /\ Before(t, r)
      /\ \/ a = r /\ b = r
         \/ a = r - 2
         \/ b = r + 2
  BY <1>1, RoleOf
<1>3. /\ a = r - 2 => E!Times(t, r, r - 2)
      /\ b = r + 2 => E!Times(t, r, r + 2)
  BY <1>1 DEF IsAddend
<1>4. \A i \in E!RegsOf(t), m \in DOMAIN t :
        E!Times(t, i, m) /\ m \in {i - 2, i + 2} => t[m].val \in E!Scales
  BY DEF E!IsForm
<1>5. r \in E!RegsOf(t) /\ DOMAIN t = 1 .. Len(t)
  BY DEF E!RegsOf
<1>6. ASSUME Behind(t, r) PROVE ~ E!Alone(t, r) /\ t[r - 2].val \in E!Scales
  <2>1. r > 2 /\ t[r - 1].kind = "*" /\ r - 1 \in 1 .. Len(t) /\ r - 2 \in 1 .. Len(t)
    BY <1>6 DEF Behind
  <2>2. St(t, r - 1) = "*"
    BY <2>1 DEF St
  <2>3. a = r - 2
    BY <1>2, <2>2 DEF Single, Before
  <2>4. E!At(t, r - 1).kind = "*"
    BY <1>5, <2>1 DEF E!At
  <2>5. ~ E!Alone(t, r)
    BY <2>4 DEF E!Alone, E!Addend
  <2> QED BY <1>3, <1>4, <1>5, <2>1, <2>3, <2>5
<1>7. ASSUME Before(t, r) PROVE ~ E!Alone(t, r) /\ t[r + 2].val \in E!Scales
  <2>1. t[r + 1].kind = "*" /\ r + 1 \in 1 .. Len(t) /\ r + 2 \in 1 .. Len(t) /\ r < Len(t)
    BY <1>7 DEF Before
  <2>2. ~ Single(t, r) /\ ~ Behind(t, r)
    BY <2>1 DEF Single, Behind
  <2>3. b = r + 2
    BY <1>2, <2>2
  <2>4. E!At(t, r + 1).kind = "*"
    BY <1>5, <2>1 DEF E!At
  <2>5. ~ E!Alone(t, r)
    BY <2>4 DEF E!Alone, E!Addend
  <2> QED BY <1>3, <1>4, <1>5, <2>1, <2>3, <2>5
<1> QED BY <1>6, <1>7

LEMMA FormOneFactor ==
  ASSUME NEW t \in Seq(Tok), E!IsForm(t), NEW i \in 1 .. Len(t), NEW j \in 1 .. Len(t),
         t[i].kind = "reg", t[j].kind = "reg", ~ E!Alone(t, i), ~ E!Alone(t, j)
  PROVE  i = j
<1>1. i \in E!RegsOf(t) /\ j \in E!RegsOf(t)
  BY DEF E!RegsOf
<1> QED BY <1>1 DEF E!IsForm

(* The number before a * is the last of the postfix list.                  *)
LEMMA LastFactor ==
  ASSUME NEW t \in Seq(Tok), NEW L \in 0 .. Len(t), NEW g, Trace(t, g, L),
         NEW r \in 1 .. Len(t), r - 1 <= L, Behind(t, r)
  PROVE  /\ E!Last(g[r - 1].post) = E!Token("imm", t[r - 2].val)
         /\ E!Last(g[r - 1].post).kind = "imm" /\ E!Last(g[r - 1].post).val = t[r - 2].val
<1> DEFINE c == g[r - 1]
<1>1. c.post = Append(g[r - 3].post, E!Token("imm", t[r - 2].val))
  BY FactorStep
<1>2. r - 3 \in 0 .. L /\ r - 2 \in 1 .. Len(t)
  BY DEF Behind
<1>3. g[r - 3].post \in Seq(ICTok) /\ E!Token("imm", t[r - 2].val) \in ICTok
  <2>1. t[r - 2] \in Tok
    BY <1>2
  <2> QED BY <1>2, <2>1, TraceTypes DEF ICTok, E!Token, Tok
<1> HIDE DEF c
<1>4. E!Last(c.post) = E!Token("imm", t[r - 2].val)
  BY <1>1, <1>3, Ended
<1> QED BY <1>4 DEF c, E!Token

(* Base, index and what waits are as many as the registers read; index     *)
(* without base was given a factor.                                        *)
Busy(x) == IF x # 0 THEN 1 ELSE 0
Scaling(t, k) ==
  \E r \in 1 .. k : t[r].kind = "reg" /\ ~ E!Alone(t, r) /\ r # Waits(t, k)
Counted(t, k, c) ==
  /\ Busy(c.base) + Busy(c.index) + Busy(Waits(t, k)) = CountTo(E!RegsOf(t), k)
  /\ c.index # E!NoReg /\ c.base = E!NoReg => Scaling(t, k)
  /\ c.scale \in E!Scales

LEMMA BusyIs == \A x : Busy(x) \in 0 .. 1 /\ (Busy(x) = 1 <=> x # 0) /\ (Busy(x) = 0 <=> x = 0)
BY DEF Busy

LEMMA ScalingKeeps ==
  ASSUME NEW t \in Seq(Tok), NEW k \in 1 .. Len(t), Scaling(t, k - 1), Waits(t, k) \in {0, k, Waits(t, k - 1)}
  PROVE  Scaling(t, k)
<1>1. PICK r \in 1 .. k - 1 : t[r].kind = "reg" /\ ~ E!Alone(t, r) /\ r # Waits(t, k - 1)
  BY DEF Scaling
<1>2. r \in 1 .. k /\ r # k /\ r # 0
  OBVIOUS
<1> QED BY <1>1, <1>2 DEF Scaling

(* The register that waits is one.                                         *)
LEMMA WaitingIs ==
  ASSUME NEW t \in Seq(Tok), NEW h, NEW f, Plain(t, h, f),
         NEW L \in 0 .. Len(t), NEW g, Trace(t, g, L), NEW k \in 0 .. L, Waits(t, k) # 0
  PROVE  g[k].tmp # 0
<1>1. PICK R : R \in RegSums(t)
  BY SumsExist
<1>2. Holds(t, R, k, g[k])
  BY <1>1, MachineSums
<1>3. g[k].tmp = t[Waits(t, k)].val
  BY <1>2 DEF Holds
<1>4. Waits(t, k) \in 1 .. Len(t) /\ t[Waits(t, k)].kind = "reg"
  <2>1. CASE Stands(St(t, k), St(t, k - 1))
    <3>1. Waits(t, k) = k /\ St(t, k) = "reg" /\ k \in 0 .. Len(t)
      BY <2>1 DEF Waits, Stands
    <3> QED BY <3>1 DEF St
  <2>2. CASE ~ Stands(St(t, k), St(t, k - 1))
    <3>1. Waits(t, k) = k - 1 /\ St(t, k - 1) = "reg" /\ k - 1 \in -1 .. Len(t)
      BY <2>2 DEF Waits
    <3> QED BY <3>1 DEF St
  <2> QED BY <2>1, <2>2
<1>5. t[Waits(t, k)] \in Tok
  BY <1>4
<1> QED BY <1>3, <1>4, <1>5, OperandConstants DEF Tok

LEMMA CountedStep ==
  ASSUME NEW t \in Seq(Tok), NEW h, NEW f, Plain(t, h, f), E!IsForm(t),
         NEW L \in 0 .. Len(t), NEW g, Trace(t, g, L), NEW k \in 1 .. L, Counted(t, k - 1, g[k - 1])
  PROVE  Counted(t, k, g[k])
<1> DEFINE c == g[k - 1]
           e == Moved(t, k, c)
           s == St(t, k - 1)
           p == St(t, k - 2)
           w == Waits(t, k - 1)
           v == Waits(t, k)
           x == CountTo(E!RegsOf(t), k - 1)
           y == CountTo(E!RegsOf(t), k)
<1>0. /\ k \in 1 .. Len(t) /\ k - 1 \in 0 .. L /\ k \in Int /\ L \in Nat /\ k # 0
      /\ g[k] = e /\ Takes(t, k, c) /\ t[k] \in Tok
  BY DEF Trace
<1>1. x \in Nat /\ y \in Nat /\ y = x + (IF t[k].kind = "reg" THEN 1 ELSE 0)
  BY <1>0, FormCount
<1>2. /\ Busy(c.base) + Busy(c.index) + Busy(w) = x
      /\ c.index # E!NoReg /\ c.base = E!NoReg => Scaling(t, k - 1)
      /\ c.scale \in E!Scales
  BY DEF Counted
<1>3. w # 0 => c.tmp # 0
  BY <1>0, WaitingIs
<1>4. \A z : Busy(z) \in 0 .. 1 /\ (Busy(z) = 1 <=> z # 0) /\ (Busy(z) = 0 <=> z = 0)
  BY BusyIs
<1>5. 1 \in E!Scales /\ E!NoReg = 0
  BY DEF E!Scales, E!NoReg
<1>14. v \in {0, k, w} /\ Scaling(t, k - 1) => Scaling(t, k)
  BY <1>0, ScalingKeeps
<1> SUFFICES /\ Busy(e.base) + Busy(e.index) + Busy(v) = y
             /\ e.index # E!NoReg /\ e.base = E!NoReg => Scaling(t, k)
             /\ e.scale \in E!Scales
  BY <1>0 DEF Counted
<1>6. CASE w = 0 /\ t[k].kind # "reg"
  <2>1. v = 0 /\ ~ Stands(s, p) /\ ~ (s = "*" /\ p = "reg")
    BY <1>0, <1>6, WaitsNext
  <2>2. SameRegisters(c, e)
    BY <1>0, <1>6, <2>1, MovedRegisters
  <2> HIDE DEF e, c, w, v, x, y
  <2> QED BY <1>1, <1>2, <1>6, <1>14, <2>1, <2>2 DEF SameRegisters
<1>7. CASE w = 0 /\ t[k].kind = "reg" /\ s # "*"
  <2>1. v = k /\ s \in {"+", "("}
    <3>1. v = k
      BY <1>0, <1>7, WaitsNext
    <3> QED BY <1>0, <1>7, <3>1 DEF Takes
  <2>2. e.base = c.base /\ e.index = c.index /\ e.scale = c.scale /\ e.tmp = t[k].val
    BY <1>0, <1>7, <2>1, MovedRegisters
  <2> HIDE DEF e, c, w, v, x, y
  <2>3. Busy(w) = 0 /\ Busy(v) = 1 /\ Busy(c.base) \in 0 .. 1 /\ Busy(c.index) \in 0 .. 1
    BY <1>0, <1>4, <1>7, <2>1
  <2> QED BY <1>1, <1>2, <1>7, <1>14, <2>1, <2>2, <2>3
<1>8. CASE w = 0 /\ t[k].kind = "reg" /\ s = "*"
  <2>1. v = 0
    BY <1>0, <1>8, WaitsNext
  <2>2. e.base = c.base /\ e.index = t[k].val /\ e.scale = E!Narrow(E!Last(c.post).val)
    BY <1>0, <1>8, MovedRegisters
  <2>3. c.index = E!NoReg
    BY <1>0, <1>8 DEF Takes
  <2>4. Behind(t, k)
    <3>1. Single(t, k) \/ Behind(t, k) \/ Before(t, k)
      BY <1>0, <1>8, Roles
    <3> QED BY <1>8, <3>1 DEF Single, Before
  <2>5. e.scale \in E!Scales /\ ~ E!Alone(t, k)
    <3>1. k - 1 <= L
      BY <1>0
    <3>2. E!Last(c.post).val = t[k - 2].val
      BY <1>0, <2>4, <3>1, LastFactor
    <3>3. E!Narrow(t[k - 2].val) = t[k - 2].val
      BY <2>4 DEF Behind
    <3> QED BY <1>0, <1>8, <2>2, <2>4, <3>2, <3>3, FormFactors
  <2>6. t[k].val # 0
    BY <1>0, <1>8, OperandConstants DEF Tok
  <2>7. Scaling(t, k)
    BY <1>0, <1>8, <2>1, <2>5 DEF Scaling
  <2> HIDE DEF e, c, w, v, x, y
  <2>8. Busy(w) = 0 /\ Busy(v) = 0 /\ Busy(c.index) = 0 /\ Busy(e.index) = 1 /\ Busy(c.base) \in 0 .. 1
    BY <1>4, <1>5, <1>8, <2>1, <2>2, <2>3, <2>6
  <2> QED BY <1>1, <1>2, <1>8, <2>2, <2>5, <2>7, <2>8
<1>9. CASE /\ w = k - 1 /\ Stands(s, p) /\ k - 1 \in 1 .. Len(t) /\ t[k - 1].kind = "reg"
           /\ t[k].kind \in {"+", "-"} /\ v = 0
  <2>1. PlacedIn(c, e)
    BY <1>0, <1>9, MovedRegisters
  <2>2. CanPlace(c, s, p)
    <3>1. s \in Ends /\ s \notin E!Signable
      BY <1>9 DEF Stands, Ends, E!Signable
    <3> QED BY <1>0, <1>9, <3>1 DEF Takes
  <2>3. c.base = E!NoReg \/ c.index = E!NoReg
    BY <1>9, <2>2 DEF CanPlace
  <2>4. w # 0 /\ c.tmp # 0 /\ t[k].kind # "reg"
    BY <1>3, <1>9
  <2> HIDE DEF e, c, w, v, x, y
  <2>5. Busy(w) = 1 /\ Busy(v) = 0 /\ Busy(c.tmp) = 1 /\ Busy(c.base) \in 0 .. 1 /\ Busy(c.index) \in 0 .. 1
    BY <1>4, <1>9, <2>4
  <2>6. CASE c.base = E!NoReg
    <3>1. e.base = c.tmp /\ e.index = c.index /\ e.scale = c.scale
      BY <2>1, <2>6 DEF PlacedIn
    <3>2. Busy(c.base) = 0 /\ Busy(e.base) = 1
      BY <1>4, <1>5, <2>5, <2>6, <3>1
    <3> QED BY <1>1, <1>2, <1>5, <2>4, <2>5, <3>1, <3>2
  <2>7. CASE c.base # E!NoReg
    <3>1. e.base = c.base /\ e.index = c.tmp /\ e.scale = 1
      BY <2>1, <2>7 DEF PlacedIn
    <3>2. Busy(c.index) = 0 /\ Busy(e.index) = 1
      BY <1>4, <1>5, <2>3, <2>5, <2>7, <3>1
    <3> QED BY <1>1, <1>2, <1>5, <2>4, <2>5, <2>7, <3>1, <3>2
  <2> QED BY <2>6, <2>7
<1>10. CASE w = k - 1 /\ t[k].kind = "*" /\ v = k - 1 /\ k - 1 \in 1 .. Len(t)
  <2>1. SameRegisters(c, e)
    BY <1>0, <1>10, MovedRegisters
  <2> HIDE DEF e, c, w, v, x, y
  <2> QED BY <1>1, <1>2, <1>10, <1>14, <2>1 DEF SameRegisters
<1>11. CASE /\ w = k - 2 /\ t[k].kind = "imm" /\ v = 0 /\ k - 2 \in 1 .. Len(t)
            /\ t[k - 2].kind = "reg" /\ s = "*" /\ p = "reg"
  <2>1. e.base = c.base /\ e.index = c.tmp /\ e.scale = E!Narrow(t[k].val)
    BY <1>0, <1>11, MovedRegisters
  <2>2. c.index = E!NoReg /\ E!Narrow(t[k].val) \in E!Scales
    BY <1>0, <1>11 DEF Takes
  <2>3. w # 0 /\ c.tmp # 0 /\ t[k].kind # "reg"
    BY <1>3, <1>11
  <2>4. ~ E!Alone(t, k - 2)
    <3>1. t[k - 1].kind = "*" /\ k - 1 \in 1 .. Len(t)
      BY <1>0, <1>11 DEF St
    <3>2. E!At(t, (k - 2) + 1).kind = "*"
      BY <1>0, <3>1 DEF E!At
    <3> QED BY <3>2 DEF E!Alone, E!Addend
  <2>5. Scaling(t, k)
    <3>1. k - 2 \in 1 .. k /\ k - 2 # v
      BY <1>0, <1>11
    <3> QED BY <1>11, <2>4, <3>1 DEF Scaling
  <2> HIDE DEF e, c, w, v, x, y
  <2>6. Busy(w) = 1 /\ Busy(v) = 0 /\ Busy(c.index) = 0 /\ Busy(e.index) = 1 /\ Busy(c.base) \in 0 .. 1
    BY <1>4, <1>5, <1>11, <2>1, <2>2, <2>3
  <2> QED BY <1>1, <1>2, <2>1, <2>2, <2>3, <2>5, <2>6
<1>12. w = 0 \/ \/ /\ w = k - 1 /\ Stands(s, p) /\ k - 1 \in 1 .. Len(t) /\ t[k - 1].kind = "reg"
                   /\ t[k].kind \in {"+", "-"} /\ v = 0
                \/ w = k - 1 /\ t[k].kind = "*" /\ v = k - 1 /\ k - 1 \in 1 .. Len(t)
                \/ /\ w = k - 2 /\ t[k].kind = "imm" /\ v = 0 /\ k - 2 \in 1 .. Len(t)
                   /\ t[k - 2].kind = "reg" /\ s = "*" /\ p = "reg"
  BY <1>0, WaitsNext
<1> HIDE DEF c, e, s, p, w, v, x, y
<1> QED BY <1>6, <1>7, <1>8, <1>9, <1>10, <1>11, <1>12

LEMMA AllCounted ==
  ASSUME NEW t \in Seq(Tok), NEW h, NEW f, Plain(t, h, f), E!IsForm(t),
         NEW L \in 0 .. Len(t), NEW g, Trace(t, g, L)
  PROVE  \A k \in 0 .. L : Counted(t, k, g[k])
<1> DEFINE T == {m \in Nat : m <= L => Counted(t, m, g[m])}
<1>1. 0 \in T
  <2>1. Waits(t, 0) = 0
    BY DEF Waits, Stands, St
  <2>2. g[0].base = 0 /\ g[0].index = 0 /\ g[0].scale = 1
    BY DEF Trace, StartConfig, Config, E!NoReg
  <2>3. CountTo(E!RegsOf(t), 0) = 0
    BY Counting
  <2>4. Counted(t, 0, g[0])
    BY <2>1, <2>2, <2>3 DEF Counted, Busy, E!Scales, E!NoReg
  <2> QED BY <2>4
<1>2. ASSUME NEW m \in Nat, m \in T PROVE m + 1 \in T
  <2> SUFFICES ASSUME m + 1 <= L PROVE Counted(t, m + 1, g[m + 1])
    OBVIOUS
  <2> DEFINE k == m + 1
  <2>1. k \in 1 .. L /\ k - 1 = m
    OBVIOUS
  <2>2. Counted(t, m, g[m])
    BY <1>2
  <2> HIDE DEF k, T
  <2>3. Counted(t, k, g[k])
    BY <2>1, <2>2, CountedStep
  <2> QED BY <2>3 DEF k
<1> HIDE DEF T
<1>3. Nat \subseteq T
  BY <1>1, <1>2, NatSetInduction
<1> QED BY <1>3 DEF T

(* What a form lets stand behind what was read is taken.                   *)
LEMMA KindOf ==
  ASSUME NEW t \in Seq(Tok), NEW k \in 1 .. Len(t)
  PROVE  /\ t[k].kind \in Kinds
         /\ E!IsOperandEnd(t[k]) <=> St(t, k) \in Ends
         /\ ~ E!IsOperandEnd(t[k]) => St(t, k) = t[k].kind /\ St(t, k) \in E!Openers
         /\ St(t, k) \in E!Openers => St(t, k) = t[k].kind /\ ~ E!IsOperandEnd(t[k])
         /\ St(t, k) = "int" <=> t[k].kind = "imm"
         /\ St(t, k) = "reg" <=> t[k].kind = "reg"
<1>1. t[k].kind \in Kinds
  BY DEF Tok
<1>2. k # 0 /\ ~ (k < 0)
  OBVIOUS
<1>3. St(t, k) = IF t[k].kind = "imm" THEN "int" ELSE t[k].kind
  BY <1>2 DEF St
<1> DEFINE o == t[k].kind
<1> HIDE DEF o
<1>4. /\ E!IsOperandEnd(t[k]) <=> o \in {"imm", "reg", ")"}
      /\ o \in Kinds
      /\ St(t, k) = IF o = "imm" THEN "int" ELSE o
  BY <1>1, <1>3 DEF o, E!IsOperandEnd
<1>5. o \in {"|", "^", "&", "<<", ">>", "+", "-", "*", "/", "(", ")", "~", "imm", "reg"}
  BY <1>4 DEF Kinds, E!Dyadic
<1> QED BY <1>4, <1>5 DEF Ends, E!Openers, o

LEMMA FollowsBefore ==
  ASSUME NEW t \in Seq(Tok), NEW h, NEW f, Plain(t, h, f), h \in Heights(t), NEW k \in 1 .. Len(t)
  PROVE  /\ k = 1 => Opens(t[k])
         /\ k > 1 => /\ k - 1 \in 1 .. Len(t)
                     /\ E!IsOperandEnd(t[k - 1]) => t[k].kind \in E!Dyadic \union {")"}
                     /\ ~ E!IsOperandEnd(t[k - 1]) => Opens(t[k])
                     /\ IsSign(t, 1, k - 1) => t[k].kind = "imm"
<1>1. WellFormed(t, h, 1, Len(t))
  BY PlainFacts
<1>2. Opens(t[1]) /\ \A m \in 1 .. Len(t) - 1 : Follows(t, 1, m)
  BY <1>1 DEF WellFormed
<1> DEFINE m == k - 1
<1>3. ASSUME k > 1 PROVE m \in 1 .. Len(t) - 1 /\ m + 1 = k /\ m \in 1 .. Len(t)
  BY <1>3
<1> HIDE DEF m
<1>4. ASSUME k > 1
      PROVE  /\ E!IsOperandEnd(t[m]) => t[k].kind \in E!Dyadic \union {")"}
             /\ ~ E!IsOperandEnd(t[m]) => Opens(t[k])
             /\ IsSign(t, 1, m) => t[k].kind = "imm"
  <2>1. Follows(t, 1, m) /\ m + 1 = k
    BY <1>2, <1>3, <1>4
  <2> QED BY <2>1 DEF Follows
<1> QED BY <1>2, <1>3, <1>4 DEF m

(* Room for one register more.                                             *)
LEMMA RoomFor ==
  ASSUME NEW t \in Seq(Tok), NEW h, NEW f, Plain(t, h, f), E!IsForm(t),
         NEW L \in 0 .. Len(t), NEW g, Trace(t, g, L), NEW k \in 0 .. L
  PROVE  /\ CanPlace(g[k], St(t, k), St(t, k - 1))
         /\ g[k].scale \in E!Scales
<1> DEFINE c == g[k]
<1>1. Counted(t, k, c)
  BY AllCounted
<1>2. ASSUME Stands(St(t, k), St(t, k - 1)) PROVE c.base = E!NoReg \/ c.index = E!NoReg
  <2>1. Waits(t, k) = k /\ k \in 1 .. Len(t)
    <3>1. St(t, k) = "reg"
      BY <1>2 DEF Stands
    <3> QED BY <1>2, <3>1 DEF Waits, St
  <2>2. CountTo(E!RegsOf(t), k) \in Nat /\ CountTo(E!RegsOf(t), k) <= 2
    BY <2>1, FormCount
  <2> HIDE DEF c
  <2>3. Busy(c.base) + Busy(c.index) + Busy(k) <= 2 /\ Busy(k) = 1
    BY <1>1, <2>1, <2>2, BusyIs DEF Counted
  <2>4. Busy(c.base) \in 0 .. 1 /\ Busy(c.index) \in 0 .. 1
    BY BusyIs
  <2>5. Busy(c.base) = 0 \/ Busy(c.index) = 0
    BY <2>3, <2>4
  <2> QED BY <2>5, BusyIs DEF E!NoReg
<1> QED BY <1>1, <1>2 DEF CanPlace, Counted

(* No index yet when a register with a factor comes.                       *)
LEMMA NoIndex ==
  ASSUME NEW t \in Seq(Tok), NEW h, NEW f, Plain(t, h, f), E!IsForm(t),
         NEW L \in 0 .. Len(t), NEW g, Trace(t, g, L), NEW k \in 0 .. L,
         NEW r \in 1 .. Len(t), t[r].kind = "reg", ~ E!Alone(t, r),
         \/ r = k + 1 /\ Waits(t, k) = 0
         \/ r = Waits(t, k) /\ k > 0
  PROVE  g[k].index = E!NoReg
<1> DEFINE c == g[k]
<1>1. Counted(t, k, c)
  BY AllCounted
<1> HIDE DEF c
<1>2. ~ (c.index # E!NoReg /\ c.base = E!NoReg)
  <2>1. SUFFICES ASSUME Scaling(t, k) PROVE FALSE
    BY <1>1 DEF Counted
  <2>2. PICK i \in 1 .. k : t[i].kind = "reg" /\ ~ E!Alone(t, i) /\ i # Waits(t, k)
    BY <2>1 DEF Scaling
  <2>3. i \in 1 .. Len(t) /\ i # k + 1
    OBVIOUS
  <2>4. i = r
    BY <2>2, <2>3, FormOneFactor
  <2> QED BY <2>2, <2>3, <2>4
<1>3. Busy(c.base) + Busy(c.index) <= 1
  <2>1. Busy(c.base) \in 0 .. 1 /\ Busy(c.index) \in 0 .. 1 /\ Busy(Waits(t, k)) \in 0 .. 1
    BY BusyIs
  <2>2. Busy(c.base) + Busy(c.index) + Busy(Waits(t, k)) = CountTo(E!RegsOf(t), k)
    BY <1>1 DEF Counted
  <2>3. CASE r = k + 1
    <3>1. /\ CountTo(E!RegsOf(t), r) \in Nat /\ CountTo(E!RegsOf(t), r - 1) \in Nat
          /\ CountTo(E!RegsOf(t), r) <= 2
          /\ CountTo(E!RegsOf(t), r)
               = CountTo(E!RegsOf(t), r - 1) + (IF t[r].kind = "reg" THEN 1 ELSE 0)
      BY FormCount
    <3>2. r - 1 = k
      BY <2>3
    <3>3. CountTo(E!RegsOf(t), k) <= 1 /\ CountTo(E!RegsOf(t), k) \in Nat
      BY <3>1, <3>2
    <3> QED BY <2>1, <2>2, <3>3
  <2>4. CASE r = Waits(t, k) /\ k > 0
    <3>1. k \in 1 .. Len(t)
      BY <2>4
    <3>2. CountTo(E!RegsOf(t), k) \in Nat /\ CountTo(E!RegsOf(t), k) <= 2
      BY <3>1, FormCount
    <3>3. Busy(Waits(t, k)) = 1
      BY <2>4, BusyIs
    <3> QED BY <2>1, <2>2, <3>2, <3>3
  <2> QED BY <2>3, <2>4
<1>4. c.index = E!NoReg
  <2>1. SUFFICES ASSUME c.index # E!NoReg PROVE FALSE
    OBVIOUS
  <2>2. c.index # 0 /\ c.base # 0
    BY <1>2, <2>1 DEF E!NoReg
  <2>3. Busy(c.index) = 1 /\ Busy(c.base) = 1
    BY <2>2, BusyIs
  <2> QED BY <1>3, <2>3
<1> QED BY <1>4 DEF c

(* Operators and parentheses.                                              *)
LEMMA MarkTaken ==
  ASSUME NEW t \in Seq(Tok), NEW h \in Heights(t), NEW f, Plain(t, h, f), E!IsForm(t),
         NEW k \in 1 .. Len(t), NEW g, Trace(t, g, k - 1), t[k].kind \notin {"reg", "imm"}
  PROVE  Takes(t, k, g[k - 1])
<1> DEFINE o == t[k].kind
           s == St(t, k - 1)
           p == St(t, k - 2)
           c == g[k - 1]
<1>0. k - 1 \in 0 .. Len(t) /\ k - 1 \in 0 .. k - 1 /\ DOMAIN t = 1 .. Len(t)
  OBVIOUS
<1>1. CanPlace(c, s, p)
  <2>1. (k - 1) - 1 = k - 2
    OBVIOUS
  <2> QED BY <1>0, <2>1, RoomFor
<1>2. o \in Kinds \ {"imm", "reg"}
  BY KindOf
<1>3. k = 1 => s = "+" /\ p = "error" /\ o \in {"(", "-", "~"}
  <2>1. k = 1 => Opens(t[k])
    BY FollowsBefore
  <2> QED BY <1>2, <2>1 DEF Opens, St
<1>4. ASSUME k > 1
      PROVE  /\ k - 1 \in 1 .. Len(t)
             /\ E!IsOperandEnd(t[k - 1]) => s \in Ends /\ o \in E!Dyadic \union {")"}
             /\ ~ E!IsOperandEnd(t[k - 1]) => s = t[k - 1].kind /\ s \in E!Openers /\ o \in {"(", "-", "~"}
             /\ ~ IsSign(t, 1, k - 1)
  <2>1. k - 1 \in 1 .. Len(t)
    BY <1>4
  <2>2. /\ E!IsOperandEnd(t[k - 1]) <=> s \in Ends
        /\ ~ E!IsOperandEnd(t[k - 1]) => s = t[k - 1].kind /\ s \in E!Openers
    BY <2>1, KindOf
  <2>3. /\ E!IsOperandEnd(t[k - 1]) => t[k].kind \in E!Dyadic \union {")"}
        /\ ~ E!IsOperandEnd(t[k - 1]) => Opens(t[k])
        /\ IsSign(t, 1, k - 1) => t[k].kind = "imm"
    BY <1>4, FollowsBefore
  <2> QED BY <1>2, <2>1, <2>2, <2>3 DEF Opens
<1>5. o \in {"-", "~"} => s \in Ends \union {"+"}
  <2>1. SUFFICES ASSUME o \in {"-", "~"} PROVE s \in Ends \union {"+"}
    OBVIOUS
  <2>2. E!IsOperandEnd(E!At(t, k - 1)) \/ E!At(t, k - 1).kind = "+"
    BY <1>0, <2>1 DEF E!IsForm
  <2>3. CASE k = 1
    BY <1>3, <2>3
  <2>4. CASE k > 1
    <3>1. E!At(t, k - 1) = t[k - 1]
      BY <1>0, <1>4, <2>4 DEF E!At
    <3> QED BY <1>4, <2>2, <2>4, <3>1
  <2> QED BY <2>3, <2>4
<1>6. o = "/" => s # "reg"
  <2>1. SUFFICES ASSUME o = "/", s = "reg" PROVE FALSE
    OBVIOUS
  <2> DEFINE m == k - 1
  <2>2. m \in 1 .. Len(t) /\ m + 1 = k /\ m < Len(t) /\ t[m].kind = "reg"
    <3>1. k > 1
      BY <1>3, <2>1
    <3> QED BY <1>4, <2>1, <3>1, KindOf
  <2>3. Single(t, m) \/ Behind(t, m) \/ Before(t, m)
    BY <2>2, Roles
  <2> HIDE DEF m
  <2> QED BY <2>1, <2>2, <2>3 DEF Single, Behind, Before
<1>7. o = "(" => s \in E!Openers /\ ~ (p \in E!Openers /\ s \in {"-", "~"})
  <2>1. SUFFICES ASSUME o = "(" PROVE s \in E!Openers /\ ~ (p \in E!Openers /\ s \in {"-", "~"})
    OBVIOUS
  <2>2. CASE k = 1
    BY <1>3, <2>2 DEF E!Openers
  <2>3. CASE k > 1
    <3>1. ~ E!IsOperandEnd(t[k - 1])
      BY <1>4, <2>1, <2>3, Precedences
    <3>2. s \in E!Openers /\ s = t[k - 1].kind /\ ~ IsSign(t, 1, k - 1)
      BY <1>4, <2>3, <3>1
    <3>3. s # "~" /\ (s = "-" => k - 1 # 1 /\ E!IsOperandEnd(t[(k - 1) - 1]))
      BY <3>2 DEF IsSign
    <3>4. ASSUME s = "-" PROVE p \notin E!Openers
      <4>1. k - 2 \in 1 .. Len(t) /\ (k - 1) - 1 = k - 2
        BY <2>3, <3>3, <3>4
      <4>2. E!IsOperandEnd(t[k - 2])
        BY <3>3, <3>4, <4>1
      <4> QED BY <4>1, <4>2, KindOf
    <3> QED BY <3>2, <3>3, <3>4
  <2> QED BY <2>2, <2>3
<1>8. o \in (E!Dyadic \ {"-"}) \union {")"} => s \in Ends
  <2>1. SUFFICES ASSUME o \in (E!Dyadic \ {"-"}) \union {")"} PROVE s \in Ends
    OBVIOUS
  <2>2. o \notin {"(", "-", "~"}
    BY <2>1, Precedences
  <2> QED BY <1>3, <1>4, <2>2
<1>9. o = "~" => s = "+"
  <2>1. SUFFICES ASSUME o = "~" PROVE s = "+"
    OBVIOUS
  <2>2. CASE k > 1
    <3>1. s \notin Ends
      BY <1>4, <2>1, <2>2, Precedences, KindOf
    <3> QED BY <1>5, <2>1, <3>1
  <2> QED BY <1>3, <2>2
<1> HIDE DEF o, s, p, c
<1>10. o \in (E!Dyadic \ {"+", "-"}) => s \in {"int", ")"} \/ (s = "reg" /\ o # "/")
  BY <1>6, <1>8 DEF Ends
<1>12. /\ o = "+" => s \in Ends /\ CanPlace(c, s, p)
       /\ o = "-" => s \in E!Signable \union {"~"} \union Ends /\ CanPlace(c, s, p)
       /\ o = "~" => s \in {"+", "~"}
       /\ o = ")" => s \in Ends
  <2>1. "+" \in E!Dyadic
    BY DEF E!Dyadic
  <2>2. "+" \in E!Signable
    BY DEF E!Signable
  <2> QED BY <1>1, <1>5, <1>8, <1>9, <2>1, <2>2
<1>11. o \notin {"reg", "imm"}
  BY <1>2
<1> QED BY <1>7, <1>10, <1>11, <1>12 DEF Takes, o, s, p, c

(* Registers.                                                              *)
LEMMA RegisterTaken ==
  ASSUME NEW t \in Seq(Tok), NEW h \in Heights(t), NEW f, Plain(t, h, f), E!IsForm(t),
         NEW k \in 1 .. Len(t), NEW g, Trace(t, g, k - 1), t[k].kind = "reg"
  PROVE  Takes(t, k, g[k - 1])
<1> DEFINE s == St(t, k - 1)
           p == St(t, k - 2)
           c == g[k - 1]
<1>1. Single(t, k) \/ Behind(t, k) \/ Before(t, k)
  BY Roles
<1>2. CASE ~ Behind(t, k)
  <2>1. s = "+"
    BY <1>1, <1>2 DEF Single, Before
  <2> QED BY <2>1 DEF Takes, E!Dyadic
<1>3. CASE Behind(t, k)
  <2>1. k > 2 /\ t[k - 2].kind = "imm" /\ t[k - 1].kind = "*" /\ k - 1 \in 0 .. Len(t)
        /\ k - 1 \in 1 .. Len(t) /\ k - 2 \in 1 .. Len(t) /\ (k - 1) - 1 = k - 2 /\ k - 1 <= k - 1
        /\ k - 1 \in 0 .. k - 1 /\ k = (k - 1) + 1
    BY <1>3 DEF Behind
  <2>2. s = "*" /\ p = "int"
    BY <2>1 DEF St
  <2>3. E!Last(c.post).kind = "imm"
    BY <1>3, <2>1, LastFactor
  <2>4. Waits(t, k - 1) = 0
    BY <2>1, <2>2 DEF Waits, Stands
  <2>5. ~ E!Alone(t, k)
    BY <1>3, FormFactors
  <2>6. c.index = E!NoReg
    BY <2>1, <2>4, <2>5, NoIndex
  <2> HIDE DEF c
  <2>7. E!Last(c.post).kind \notin E!Dyadic
    BY <2>3, Precedences
  <2> QED BY <2>2, <2>6, <2>7 DEF Takes, E!Dyadic, c
<1> QED BY <1>2, <1>3

(* Numbers.                                                                *)
LEMMA NumberTaken ==
  ASSUME NEW t \in Seq(Tok), NEW h \in Heights(t), NEW f, Plain(t, h, f), E!IsForm(t),
         NEW k \in 1 .. Len(t), NEW g, Trace(t, g, k - 1), t[k].kind = "imm"
  PROVE  Takes(t, k, g[k - 1])
<1> DEFINE s == St(t, k - 1)
           p == St(t, k - 2)
           c == g[k - 1]
<1>1. s \in E!Openers
  <2>1. CASE k = 1
    BY <2>1 DEF St, E!Openers
  <2>2. CASE k > 1
    <3>1. k - 1 \in 1 .. Len(t) /\ (E!IsOperandEnd(t[k - 1]) => t[k].kind \in E!Dyadic \union {")"})
      BY <2>2, FollowsBefore
    <3>2. ~ E!IsOperandEnd(t[k - 1])
      BY <3>1, Precedences
    <3> QED BY <3>1, <3>2, KindOf
  <2> QED BY <2>1, <2>2
<1>2. ASSUME s = "*", p = "reg" PROVE c.index = E!NoReg /\ E!Narrow(t[k].val) \in E!Scales
  <2> DEFINE r == k - 2
  <2>1. /\ r \in 1 .. Len(t) /\ r + 2 = k /\ k - 1 \in 0 .. Len(t) /\ k - 1 \in 0 .. k - 1
        /\ k - 1 > 0 /\ t[r].kind = "reg" /\ (k - 1) - 1 = r /\ t[r + 1].kind = "*" /\ r < Len(t)
    BY <1>2 DEF St
  <2>2. Waits(t, k - 1) = r
    BY <1>2, <2>1 DEF Waits, Stands
  <2>3. Single(t, r) \/ Behind(t, r) \/ Before(t, r)
    BY <2>1, Roles
  <2> HIDE DEF r, c
  <2>4. Before(t, r)
    BY <2>1, <2>3 DEF Single, Behind
  <2>5. ~ E!Alone(t, r) /\ t[k].val \in E!Scales
    BY <2>1, <2>4, FormFactors
  <2>7. E!Narrow(t[k].val) = t[k].val
    BY <2>1, <2>4 DEF Before
  <2>6. g[k - 1].index = E!NoReg
    BY <2>1, <2>2, <2>5, NoIndex
  <2> QED BY <2>5, <2>6, <2>7 DEF c
<1> QED BY <1>1, <1>2 DEF Takes, E!Dyadic

LEMMA FormTaken ==
  ASSUME NEW t \in Seq(Tok), E!IsForm(t), NEW g
  PROVE  ~ Stuck(t, g)
<1>1. PICK h : h \in Heights(t)
  BY HeightsExist
<1>2. PICK f : Plain(t, h, f)
  BY <1>1, PlainRead DEF E!IsForm
<1>3. ASSUME Trace(t, g, Len(t)) PROVE CanPlace(g[Len(t)], St(t, Len(t)), St(t, Len(t) - 1))
  BY <1>2, <1>3, RoomFor
<1>4. ASSUME Len(t) # 0, Trace(t, g, Len(t) - 1) PROVE Takes(t, Len(t), g[Len(t) - 1])
  <2> DEFINE k == Len(t)
  <2>1. k \in 1 .. Len(t) /\ Trace(t, g, k - 1)
    BY <1>4
  <2> HIDE DEF k
  <2>2. Takes(t, k, g[k - 1])
    BY <1>1, <1>2, <2>1, MarkTaken, RegisterTaken, NumberTaken
  <2> QED BY <2>2 DEF k
<1> QED BY <1>3, <1>4 DEF Stuck

(* The scale of one that is taken.                                         *)
LEMMA FormScale ==
  ASSUME NEW t \in Seq(Tok), E!IsForm(t), NEW g, Finished(t, g)
  PROVE  scale \in E!Scales
<1>1. PICK h : h \in Heights(t)
  BY HeightsExist
<1>2. PICK f : Plain(t, h, f)
  BY <1>1, PlainRead DEF E!IsForm
<1> DEFINE c == g[Len(t)]
           s == St(t, Len(t))
           p == St(t, Len(t) - 1)
<1>3. Trace(t, g, Len(t)) /\ Now = Placed(c, s, p)
  BY DEF Finished
<1>4. c.scale \in E!Scales
  BY <1>2, <1>3, RoomFor
<1>5. Now.scale = scale
  BY DEF Now, Config
<1> HIDE DEF c, s, p
<1>6. Placed(c, s, p).scale = c.scale \/ Placed(c, s, p).scale = 1
  BY DEF Placed, Config
<1> QED BY <1>3, <1>4, <1>5, <1>6 DEF E!Scales

(* Base and index are registers read at two places, none of them waiting.  *)
Origins(t, k) == {i \in 1 .. k : t[i].kind = "reg" /\ i # Waits(t, k)}
Sourced(t, places, b, x) ==
  \E i, j \in places \union {0} :
    /\ b # 0 => i # 0 /\ b = t[i].val
    /\ x # 0 => j # 0 /\ x = t[j].val
    /\ i = j => i = 0

LEMMA SourcedOneMore ==
  ASSUME NEW t, NEW O, NEW P, O \subseteq P, NEW b, NEW x, Sourced(t, O, b, x)
  PROVE  /\ Sourced(t, P, b, x)
         /\ \A d \in P : d \notin O /\ d # 0 =>
              /\ b = 0 => Sourced(t, P, t[d].val, x)
              /\ x = 0 => Sourced(t, P, b, t[d].val)
<1>1. PICK i \in O \union {0}, j \in O \union {0} :
        /\ b # 0 => i # 0 /\ b = t[i].val
        /\ x # 0 => j # 0 /\ x = t[j].val
        /\ i = j => i = 0
  BY DEF Sourced
<1>2. Sourced(t, P, b, x)
  BY <1>1 DEF Sourced
<1>3. ASSUME NEW d \in P, d \notin O, d # 0
      PROVE  /\ b = 0 => Sourced(t, P, t[d].val, x)
             /\ x = 0 => Sourced(t, P, b, t[d].val)
  <2>1. d # i /\ d # j /\ d \in P \union {0} /\ i \in P \union {0} /\ j \in P \union {0}
    BY <1>1, <1>3
  <2>2. b = 0 => Sourced(t, P, t[d].val, x)
    BY <1>1, <1>3, <2>1 DEF Sourced
  <2>3. x = 0 => Sourced(t, P, b, t[d].val)
    BY <1>1, <1>3, <2>1 DEF Sourced
  <2> QED BY <2>2, <2>3
<1> QED BY <1>2, <1>3

LEMMA SourcedStep ==
  ASSUME NEW t \in Seq(Tok), NEW h, NEW f, Plain(t, h, f),
         NEW L \in 0 .. Len(t), NEW g, Trace(t, g, L), NEW k \in 1 .. L,
         Sourced(t, Origins(t, k - 1), g[k - 1].base, g[k - 1].index)
  PROVE  Sourced(t, Origins(t, k), g[k].base, g[k].index)
<1> DEFINE c == g[k - 1]
           e == Moved(t, k, c)
           s == St(t, k - 1)
           p == St(t, k - 2)
           w == Waits(t, k - 1)
           v == Waits(t, k)
           O == Origins(t, k - 1)
           P == Origins(t, k)
<1>0. /\ k \in 1 .. Len(t) /\ k - 1 \in 0 .. L /\ k \in Int /\ L \in Nat /\ k # 0
      /\ g[k] = e /\ Takes(t, k, c)
  BY DEF Trace
<1>1. w # 0 => c.tmp = t[w].val
  <2>1. PICK R : R \in RegSums(t)
    BY SumsExist
  <2>2. Holds(t, R, k - 1, c)
    BY <1>0, <2>1, MachineSums
  <2> QED BY <2>2 DEF Holds
<1>2. /\ \A i \in O : i \in 1 .. k - 1 /\ i \in 1 .. k /\ t[i].kind = "reg" /\ i # w /\ i # k /\ i # 0
      /\ \A i \in 1 .. k : t[i].kind = "reg" /\ i # v => i \in P
  BY <1>0 DEF Origins
<1>3. v \in {0, k, w} => O \subseteq P
  <2> HIDE DEF O, P, v, w
  <2> QED BY <1>2
<1>4. /\ O \subseteq P => Sourced(t, P, c.base, c.index)
      /\ \A d \in P : O \subseteq P /\ d \notin O /\ d # 0 =>
              /\ c.base = 0 => Sourced(t, P, t[d].val, c.index)
              /\ c.index = 0 => Sourced(t, P, c.base, t[d].val)
  <2>1. Sourced(t, O, c.base, c.index)
    OBVIOUS
  <2> HIDE DEF O, P, c
  <2>2. CASE O \subseteq P
    <3>1. /\ Sourced(t, P, c.base, c.index)
          /\ \A d \in P : d \notin O /\ d # 0 =>
               /\ c.base = 0 => Sourced(t, P, t[d].val, c.index)
               /\ c.index = 0 => Sourced(t, P, c.base, t[d].val)
      BY <2>1, <2>2, SourcedOneMore
    <3> QED BY <3>1
  <2> QED BY <2>2
<1>5. E!NoReg = 0
  BY DEF E!NoReg
<1> SUFFICES Sourced(t, P, e.base, e.index)
  BY <1>0
<1>6. CASE w = 0 /\ t[k].kind # "reg"
  <2>1. v = 0 /\ ~ Stands(s, p) /\ ~ (s = "*" /\ p = "reg")
    BY <1>0, <1>6, WaitsNext
  <2>2. SameRegisters(c, e)
    BY <1>0, <1>6, <2>1, MovedRegisters
  <2> HIDE DEF e, c, w, v, O, P
  <2> QED BY <1>3, <1>4, <2>1, <2>2 DEF SameRegisters
<1>7. CASE w = 0 /\ t[k].kind = "reg" /\ s # "*"
  <2>1. v = k /\ s \in {"+", "("}
    <3>1. v = k
      BY <1>0, <1>7, WaitsNext
    <3> QED BY <1>0, <1>7, <3>1 DEF Takes
  <2>2. e.base = c.base /\ e.index = c.index
    BY <1>0, <1>7, <2>1, MovedRegisters
  <2> HIDE DEF e, c, w, v, O, P
  <2> QED BY <1>3, <1>4, <2>1, <2>2
<1>8. CASE w = 0 /\ t[k].kind = "reg" /\ s = "*"
  <2>1. v = 0
    BY <1>0, <1>8, WaitsNext
  <2>2. e.base = c.base /\ e.index = t[k].val
    BY <1>0, <1>8, MovedRegisters
  <2>3. c.index = 0
    BY <1>0, <1>5, <1>8 DEF Takes
  <2>4. k \in P /\ k \notin O
    BY <1>0, <1>2, <1>8, <2>1
  <2> HIDE DEF e, c, w, v, O, P
  <2> QED BY <1>0, <1>3, <1>4, <2>1, <2>2, <2>3, <2>4
<1>9. CASE /\ w = k - 1 /\ Stands(s, p) /\ k - 1 \in 1 .. Len(t) /\ t[k - 1].kind = "reg"
           /\ t[k].kind \in {"+", "-"} /\ v = 0
  <2>1. PlacedIn(c, e)
    BY <1>0, <1>9, MovedRegisters
  <2>2. CanPlace(c, s, p)
    <3>1. s \in Ends /\ s \notin E!Signable
      BY <1>9 DEF Stands, Ends, E!Signable
    <3> QED BY <1>0, <1>9, <3>1 DEF Takes
  <2>3. c.base = 0 \/ c.index = 0
    BY <1>5, <1>9, <2>2 DEF CanPlace
  <2>4. w \in P /\ w \notin O /\ w # 0 /\ c.tmp = t[w].val
    BY <1>0, <1>1, <1>2, <1>9
  <2> HIDE DEF e, c, w, v, O, P
  <2>5. CASE c.base = 0
    <3>1. e.base = t[w].val /\ e.index = c.index
      BY <1>5, <2>1, <2>4, <2>5 DEF PlacedIn
    <3> QED BY <1>3, <1>4, <1>9, <2>4, <2>5, <3>1
  <2>6. CASE c.base # 0
    <3>1. e.base = c.base /\ e.index = t[w].val
      BY <1>5, <2>1, <2>4, <2>6 DEF PlacedIn
    <3> QED BY <1>3, <1>4, <1>9, <2>3, <2>4, <2>6, <3>1
  <2> QED BY <2>5, <2>6
<1>10. CASE w = k - 1 /\ t[k].kind = "*" /\ v = k - 1
  <2>1. SameRegisters(c, e)
    BY <1>0, <1>10, MovedRegisters
  <2> HIDE DEF e, c, w, v, O, P
  <2> QED BY <1>3, <1>4, <1>10, <2>1 DEF SameRegisters
<1>11. CASE /\ w = k - 2 /\ t[k].kind = "imm" /\ v = 0 /\ k - 2 \in 1 .. Len(t)
            /\ t[k - 2].kind = "reg" /\ s = "*" /\ p = "reg"
  <2>1. e.base = c.base /\ e.index = c.tmp
    BY <1>0, <1>11, MovedRegisters
  <2>2. c.index = 0
    BY <1>0, <1>5, <1>11 DEF Takes
  <2>3. w \in P /\ w \notin O /\ w # 0 /\ c.tmp = t[w].val
    BY <1>0, <1>1, <1>2, <1>11
  <2> HIDE DEF e, c, w, v, O, P
  <2> QED BY <1>3, <1>4, <1>11, <2>1, <2>2, <2>3
<1>12. w = 0 \/ \/ /\ w = k - 1 /\ Stands(s, p) /\ k - 1 \in 1 .. Len(t) /\ t[k - 1].kind = "reg"
                   /\ t[k].kind \in {"+", "-"} /\ v = 0
                \/ w = k - 1 /\ t[k].kind = "*" /\ v = k - 1
                \/ /\ w = k - 2 /\ t[k].kind = "imm" /\ v = 0 /\ k - 2 \in 1 .. Len(t)
                   /\ t[k - 2].kind = "reg" /\ s = "*" /\ p = "reg"
  BY <1>0, WaitsNext
<1> HIDE DEF c, e, s, p, w, v, O, P
<1> QED BY <1>6, <1>7, <1>8, <1>9, <1>10, <1>11, <1>12

LEMMA AllSourced ==
  ASSUME NEW t \in Seq(Tok), NEW h, NEW f, Plain(t, h, f),
         NEW L \in 0 .. Len(t), NEW g, Trace(t, g, L)
  PROVE  Sourced(t, Origins(t, L), g[L].base, g[L].index)
<1> DEFINE S(m) == Sourced(t, Origins(t, m), g[m].base, g[m].index)
           T == {m \in Nat : m <= L => S(m)}
<1>1. 0 \in T
  <2>1. g[0].base = 0 /\ g[0].index = 0
    BY DEF Trace, StartConfig, Config, E!NoReg
  <2> QED BY <2>1 DEF Sourced
<1>2. ASSUME NEW m \in Nat, m \in T PROVE m + 1 \in T
  <2> SUFFICES ASSUME m + 1 <= L PROVE S(m + 1)
    OBVIOUS
  <2> DEFINE k == m + 1
  <2>1. k \in 1 .. L /\ k - 1 = m
    OBVIOUS
  <2>2. S(m)
    BY <1>2
  <2> HIDE DEF k, T
  <2>3. S(k)
    BY <2>1, <2>2, SourcedStep
  <2> QED BY <2>3 DEF k
<1> HIDE DEF T
<1>3. Nat \subseteq T
  BY <1>1, <1>2, NatSetInduction
<1>4. L \in T /\ L <= L
  BY <1>3
<1> QED BY <1>4 DEF T

(* Base and index of one that is taken go together.                        *)
LEMMA FormMatched ==
  ASSUME NEW t \in Seq(Tok), E!IsForm(t), NEW g, Finished(t, g)
  PROVE  ~ E!Mismatched(base, index)
<1>1. PICK h : h \in Heights(t)
  BY HeightsExist
<1>2. PICK f : Plain(t, h, f)
  BY <1>1, PlainRead DEF E!IsForm
<1> DEFINE L == Len(t)
           c == g[L]
           s == St(t, L)
           p == St(t, L - 1)
           O == Origins(t, L)
           P == {i \in 1 .. L : t[i].kind = "reg"}
<1>3. Trace(t, g, L) /\ Now = Placed(c, s, p) /\ CanPlace(c, s, p) /\ L \in 0 .. Len(t) /\ L \in Nat
  BY DEF Finished
<1>4. Sourced(t, O, c.base, c.index)
  BY <1>2, <1>3, AllSourced
<1>5. O \subseteq P /\ E!NoReg = 0 /\ Now.base = base /\ Now.index = index
  BY DEF Origins, Now, Config, E!NoReg
<1>6. /\ Sourced(t, P, c.base, c.index)
      /\ \A d \in P : d \notin O /\ d # 0 =>
           /\ c.base = 0 => Sourced(t, P, t[d].val, c.index)
           /\ c.index = 0 => Sourced(t, P, c.base, t[d].val)
  <2> HIDE DEF O, P, c
  <2> QED BY <1>4, <1>5, SourcedOneMore
<1>7. Sourced(t, P, base, index)
  <2>1. CASE ~ Stands(s, p)
    <3>1. Now = c
      BY <1>3, <2>1 DEF Placed
    <3> HIDE DEF c, P
    <3> QED BY <1>5, <1>6, <3>1
  <2>2. CASE Stands(s, p)
    <3>1. L \in P /\ L \notin O /\ L # 0 /\ Waits(t, L) = L
      BY <1>3, <2>2 DEF Stands, Waits, St, Origins
    <3>2. c.tmp = t[L].val
      <4>1. PICK R : R \in RegSums(t)
        BY SumsExist
      <4>2. Holds(t, R, L, c)
        BY <1>2, <1>3, <4>1, MachineSums
      <4> QED BY <3>1, <4>2 DEF Holds
    <3>3. /\ c.base = 0 => Now.base = c.tmp /\ Now.index = c.index
          /\ c.base # 0 => Now.base = c.base /\ Now.index = c.tmp /\ c.index = 0
      BY <1>3, <1>5, <2>2 DEF Placed, Config, CanPlace
    <3> HIDE DEF c, P, O, L
    <3> QED BY <1>5, <1>6, <3>1, <3>2, <3>3
  <2> QED BY <2>1, <2>2
<1>8. SUFFICES ASSUME base # 0, index # 0 PROVE ~ E!Mismatched(base, index)
  BY DEF E!Mismatched, E!NoReg
<1>9. PICK i \in P \union {0}, j \in P \union {0} :
        i # 0 /\ j # 0 /\ base = t[i].val /\ index = t[j].val /\ i # j
  BY <1>7, <1>8 DEF Sourced
<1>10. i \in E!RegsOf(t) /\ j \in E!RegsOf(t)
  BY <1>9 DEF E!RegsOf
<1> QED BY <1>9, <1>10 DEF E!IsForm

LEMMA TracedDenotes == ASSUME Traced PROVE Denotes
<1>1. read \in Seq(Tok)
  BY DEF Traced
<1>2. ASSUME E!Accepted, E!IsPlain(read) PROVE E!Address = E!Meaning(read)
  <2>1. PICK g : Finished(read, g)
    BY <1>2 DEF Traced, E!Accepted
  <2> QED BY <1>1, <1>2, <2>1, AddressesMeaning
<1>3. ASSUME state \in {"]", "error"}, E!IsForm(read) PROVE E!Accepted
  <2>1. CASE state = "error"
    <3>1. PICK g : Stuck(read, g)
      BY <2>1 DEF Traced
    <3> QED BY <1>1, <1>3, <3>1, FormTaken
  <2>2. CASE state = "]"
    <3>1. PICK g : Finished(read, g)
      BY <2>2 DEF Traced
    <3>2. E!Execute # E!Bad
      BY <1>1, <1>3, <3>1, AddressesMeaning DEF E!IsForm
    <3>3. scale \in E!Scales
      BY <1>1, <1>3, <3>1, FormScale
    <3>4. ~ E!Mismatched(base, index)
      BY <1>1, <1>3, <3>1, FormMatched
    <3> QED BY <2>2, <3>2, <3>3, <3>4 DEF E!Accepted
  <2> QED BY <1>3, <2>1, <2>2
<1> QED BY <1>2, <1>3 DEF Denotes, E!Denotes

(* Denotes, whatever registers, numbers and marks there are, however wide  *)
(* numbers are and however long an operand is: one that is taken and plain *)
(* addresses what it says, and one of the form Base + Scale*Index +        *)
(* displacement is taken (IntelExprStateMachine, InfixCalculator).         *)
THEOREM OperandsDenote == MCSpec => []Denotes
<1>1. MCInit => Traced
  BY TracedInit DEF MCInit
<1>2. Traced /\ [MCNext]_<<job, vars, blowfishVars, operandVars>> => Traced'
  <2> SUFFICES ASSUME Traced, [MCNext]_<<job, vars, blowfishVars, operandVars>> PROVE Traced'
    OBVIOUS
  <2>1. CASE E!Next
    BY <2>1, TracedNext
  <2>2. CASE UNCHANGED operandVars
    BY <2>2, TracedStays
  <2> QED BY <2>1, <2>2 DEF MCNext
<1>3. Traced => Denotes
  BY TracedDenotes
<1> QED BY <1>1, <1>2, <1>3, PTL DEF MCSpec

=============================================================================
