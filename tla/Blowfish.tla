------------------------------ MODULE Blowfish ------------------------------
(***************************************************************************)
(* The engine of PPC/PEShellcode (solution/task_blowfish.cpp): a key is    *)
(* submitted, texts are encrypted and decrypted, keys come and go.         *)
(*                                                                         *)
(* Words may be narrower than 32 bits and rounds fewer than sixteen; the   *)
(* four tables indexed by a word's bytes are one indexed by the word.  A   *)
(* text and a key are sequences of words.  One engine, one text.           *)
(***************************************************************************)
EXTENDS Integers, SequencesExt

CONSTANTS
  Rounds,      \* ROUNDS, an even number
  Words,       \* the values of a word, 0 .. 2^n - 1
  BitXor(_, _),\* ^
  PInit,       \* P_Init, of Rounds + 2 words
  SInit,       \* S_Init, a word for each word
  Submitted,   \* the keys, sequences of words; <<>> takes the key away
  Texts,       \* the texts there are at first
  MaxLayers    \* bound: how many times a text is enciphered

VARIABLES
  isKeyed, pEncrypt, pDecrypt, bfS,    \* IsKeyed, P_Encrypt, P_Decrypt, bf_S
  key,         \* the key that was submitted
  start, text, \* the text at first and now
  layers       \* what was done to it and is not undone

vars == <<isKeyed, pEncrypt, pDecrypt, bfS, key, start, text, layers>>

Tables == [1 .. Rounds + 2 -> Words]
Layer == [call : {"encrypt", "decrypt"}, key : Submitted]

TypeOK ==
  /\ isKeyed \in BOOLEAN
  /\ pEncrypt \in Tables /\ pDecrypt \in Tables /\ bfS \in [Words -> Words]
  /\ key \in Submitted
  /\ start \in Texts /\ text \in Seq(Words)
  /\ layers \in Seq(Layer) /\ Len(layers) <= MaxLayers

Init ==
  /\ isKeyed = FALSE /\ key = <<>>
  /\ pEncrypt = [i \in 1 .. Rounds + 2 |-> 0] /\ pDecrypt = pEncrypt
  /\ bfS = [w \in Words |-> 0]
  /\ start \in Texts /\ text = start
  /\ layers = <<>>

-----------------------------------------------------------------------------
(* A block is two words; two rounds, the left word first.                  *)
TwoRounds(b, word1, word2, s) ==
  LET left == BitXor(b[1], word1)
      right == BitXor(BitXor(b[2], s[left]), word2)
  IN  <<BitXor(left, s[right]), right>>

\* What the block is after the rounds, and after Process_Block.
Rounded(block, p, s) ==
  LET b[i \in 0 .. Rounds \div 2] ==
        IF i = 0 THEN block ELSE TwoRounds(b[i - 1], p[2 * i - 1], p[2 * i], s)
  IN  b[Rounds \div 2]
ProcessBlock(block, p, s) ==
  LET b == Rounded(block, p, s)
  IN  <<BitXor(b[2], p[Rounds + 2]), BitXor(b[1], p[Rounds + 1])>>

(* Sub_Key_Encrypt: its own copy of the rounds does the same.              *)
SubKeyEncrypt(block, p, s) == ProcessBlock(block, p, s)

(* The key, over and over, goes into P_Encrypt.                            *)
WithKey(k) == [i \in 1 .. Rounds + 2 |-> BitXor(PInit[i], k[((i - 1) % Len(k)) + 1])]

(* The schedule: a block of zeros is encrypted again and again, first over *)
(* P_Encrypt, which the next encryption uses, then over bf_S.              *)
FillP(b, p, i) == [p EXCEPT ![2 * i - 1] = b[1], ![2 * i] = b[2]]
FillS(b, s, i) == [s EXCEPT ![2 * i - 2] = b[1], ![2 * i - 1] = b[2]]
Schedule(k) ==
  LET inP[i \in 0 .. (Rounds + 2) \div 2] ==
        IF i = 0 THEN [block |-> <<0, 0>>, table |-> WithKey(k)]
        ELSE LET was == inP[i - 1]
                 b == SubKeyEncrypt(was.block, was.table, SInit)
             IN  [block |-> b, table |-> FillP(b, was.table, i)]
      p == inP[(Rounds + 2) \div 2]
      inS[i \in 0 .. Cardinality(Words) \div 2] ==
        IF i = 0 THEN [block |-> p.block, table |-> SInit]
        ELSE LET was == inS[i - 1]
                 b == SubKeyEncrypt(was.block, p.table, was.table)
             IN  [block |-> b, table |-> FillS(b, was.table, i)]
  IN  [p |-> p.table, s |-> inS[Cardinality(Words) \div 2].table]

\* Faulty variant: pair by pair.
BackwardsInPairs(p) ==
  [i \in 1 .. Rounds + 2 |-> p[Rounds + 2 - i + (IF i % 2 = 1 THEN 0 ELSE 2)]]

(* P_Decrypt is filled from its end.                                       *)
Backwards(p) == [i \in 1 .. Rounds + 2 |-> p[Rounds + 3 - i]]

(* Submit_Key                                                              *)
SubmitKey(k) ==
  /\ key' = k
  /\ IF k = <<>>
     THEN /\ isKeyed' = FALSE
          /\ pEncrypt' = PInit /\ pDecrypt' = PInit /\ bfS' = SInit
     ELSE LET tables == Schedule(k) IN
          /\ isKeyed' = TRUE
          /\ pEncrypt' = tables.p /\ pDecrypt' = Backwards(tables.p) /\ bfS' = tables.s
  /\ UNCHANGED <<start, text, layers>>

(* The whole blocks of the text; what is left over is copied, and so is    *)
(* everything where there is no key.                                       *)
Processed(p) ==
  LET whole == 2 * (Len(text) \div 2)
      Block(i) == ProcessBlock(<<text[2 * i - 1], text[2 * i]>>, p, bfS)
  IN  IF ~ isKeyed THEN text
      ELSE [i \in DOMAIN text |-> IF i > whole THEN text[i] ELSE Block((i + 1) \div 2)[2 - (i % 2)]]

(* A call that undoes the last one takes its layer off.                    *)
Layered(call, undone) ==
  IF layers # <<>> /\ Last(layers) = [call |-> undone, key |-> key]
  THEN layers' = Front(layers)
  ELSE /\ Len(layers) < MaxLayers
       /\ layers' = Append(layers, [call |-> call, key |-> key])

Encrypt ==
  /\ text' = Processed(pEncrypt)
  /\ Layered("encrypt", "decrypt")
  /\ UNCHANGED <<isKeyed, pEncrypt, pDecrypt, bfS, key, start>>

Decrypt ==
  /\ text' = Processed(pDecrypt)
  /\ Layered("decrypt", "encrypt")
  /\ UNCHANGED <<isKeyed, pEncrypt, pDecrypt, bfS, key, start>>

Next == (\E k \in Submitted : SubmitKey(k)) \/ Encrypt \/ Decrypt

Spec == Init /\ [][Next]_vars

-----------------------------------------------------------------------------
(* Under whichever keys a text was enciphered, whichever were submitted    *)
(* meanwhile, and however long it is: once every call is undone with its   *)
(* own key, it is what it was (task_blowfish.cpp:30-150).                  *)
TextComesBack == layers = <<>> => text = start

=============================================================================
