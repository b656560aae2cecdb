----------------------------- MODULE GuessGame -----------------------------
(***************************************************************************)
(* The guessing game of Misc/checkin/checkin.c: a number is drawn, the     *)
(* player has a fixed number of chances, every chance reads one number     *)
(* with scanf("%d") and answers SMALL, LARGE or Bingo.  A word that is no  *)
(* number is answered "Invalid input!" and is NOT taken off the input, so  *)
(* every later chance meets the same word; the end of the input behaves    *)
(* alike.  Junk stands for both.                                           *)
(*                                                                         *)
(* The terminal is a stream: the player may type ahead of the replies.     *)
(***************************************************************************)
EXTENDS Integers, Sequences

CONSTANTS
  Max,       \* the number is one of 0 .. Max-1        (checkin.c:18, 1024)
  Chances,   \* how many tries the player has          (checkin.c:20, 10)
  Guesses,   \* the integers the player may type
  Junk       \* a word scanf("%d") cannot read, or the end of the input

ASSUME SizesAreNat == Max \in Nat \ {0} /\ Chances \in Nat
ASSUME GuessesAreInt == Guesses \subseteq Int /\ Junk \notin Int

VARIABLES
  value,      \* the number drawn
  chances,    \* chance_remain
  result,     \* "playing", "won" (Bingo) or "lost" (used up)
  typed,      \* everything the player has typed so far
  taken,      \* how many words of typed scanf has taken off the input
  replies     \* what the game has answered

vars == <<value, chances, result, typed, taken, replies>>
gameVars == <<value, chances, result, taken, replies>>

Words == Guesses \union {Junk}
Replies == {"SMALL", "LARGE", "Bingo", "Invalid"}

TypeOK ==
  /\ value \in 0 .. Max - 1
  /\ chances \in 0 .. Chances
  /\ result \in {"playing", "won", "lost"}
  /\ typed \in Seq(Words)
  /\ taken \in 0 .. Len(typed)
  /\ replies \in Seq(Replies)

Init ==
  /\ value \in 0 .. Max - 1
  /\ chances = Chances
  /\ result = "playing"
  /\ typed = <<>>
  /\ taken = 0
  /\ replies = <<>>

\* Faulty variant: SMALL and LARGE the other way round.
VerdictSwapped(word) ==
  IF word = Junk THEN "Invalid"
  ELSE IF word = value THEN "Bingo"
  ELSE IF word > value THEN "SMALL" ELSE "LARGE"

(* What the game says of a word it reads (checkin.c:25-38).                *)
Verdict(word) ==
  IF word = Junk THEN "Invalid"
  ELSE IF word = value THEN "Bingo"
  ELSE IF word < value THEN "SMALL" ELSE "LARGE"

\* Faulty variant: the game goes on whatever was guessed.
AnswerOnCredit(word) ==
  /\ replies' = Append(replies, Verdict(word))
  /\ chances' = chances - 1
  /\ UNCHANGED result

(* What one pass of the loop does with the word (checkin.c:25-39): it is    *)
(* answered and, unless it ended the game, costs a chance.                 *)
Answer(word) ==
  /\ replies' = Append(replies, Verdict(word))
  /\ IF word = value
     THEN result' = "won" /\ UNCHANGED chances
     ELSE chances' = chances - 1 /\ UNCHANGED result

Keeping(word) == IF word = Junk THEN taken ELSE taken + 1

\* Faulty variant: a pass that meets a word it cannot read throws it away.
TrySkippingJunk ==
  /\ result = "playing"
  /\ chances > 0
  /\ taken < Len(typed)
  /\ IF typed[taken + 1] = Junk
     THEN UNCHANGED <<replies, chances, result>> ELSE Answer(typed[taken + 1])
  /\ taken' = taken + 1
  /\ UNCHANGED <<value, typed>>

\* Faulty variant: a pass waits until a word can be read.
TryWaitingOnJunk ==
  /\ result = "playing"
  /\ chances > 0
  /\ taken < Len(typed) /\ typed[taken + 1] # Junk
  /\ Answer(typed[taken + 1])
  /\ taken' = taken + 1
  /\ UNCHANGED <<value, typed>>

(* One pass of the loop (checkin.c:21-40).  It blocks on an empty input.   *)
Try ==
  /\ result = "playing"
  /\ chances > 0
  /\ taken < Len(typed)
  /\ Answer(typed[taken + 1])
  /\ taken' = Keeping(typed[taken + 1])
  /\ UNCHANGED <<value, typed>>

(* checkin.c:42-43                                                         *)
UseUp ==
  /\ result = "playing"
  /\ chances = 0
  /\ result' = "lost"
  /\ UNCHANGED <<value, chances, typed, taken, replies>>

(* The player types a word, whether or not the game is waiting for one.    *)
Type(word) ==
  /\ typed' = Append(typed, word)
  /\ UNCHANGED gameVars

Game == Try \/ UseUp

Next == Game \/ \E word \in Words : Type(word)

Spec == Init /\ [][Next]_vars /\ WF_vars(Game)

-----------------------------------------------------------------------------
(* Reading stops for good at the first word that is no number.             *)
Stuck == taken < Len(typed) /\ typed[taken + 1] = Junk

(* The word the i-th reply is about: words are taken in order, and one that *)
(* is no number is met again by every later chance.                        *)
Subject(i) == typed[IF i <= taken THEN i ELSE taken + 1]

(* However far the player types ahead, the replies are about the words in  *)
(* the order they were typed, none skipped or answered twice - except that *)
(* the first unreadable word takes every reply after it (checkin.c:25).    *)
RepliesInOrder ==
  /\ taken <= Len(replies)
  /\ taken < Len(replies) => Stuck
  /\ \A i \in 1 .. Len(replies) : replies[i] = Verdict(Subject(i))

(* The result is the one the words deserve: the game is won exactly when   *)
(* the last word taken is the number, and lost exactly when all chances    *)
(* went to words that are not (checkin.c:27-31, 39-43).                    *)
ResultIsDeserved ==
  /\ result = "won" <=> (taken > 0 /\ typed[taken] = value)
  /\ \A i \in 1 .. taken : typed[i] = value => i = taken
  /\ chances + Len(replies) = Chances + (IF result = "won" THEN 1 ELSE 0)
  /\ result = "lost" => chances = 0

(* A player who types a word for every chance, or one that cannot be read, *)
(* sees the game end: no word leaves it waiting (checkin.c:21, 38-39).     *)
EnoughTyped == Len(typed) >= Chances \/ \E i \in 1 .. Len(typed) : typed[i] = Junk
GameEnds == EnoughTyped ~> result # "playing"

=============================================================================
