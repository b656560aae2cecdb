---------------------------- MODULE SignIn_proofs ----------------------------
(***************************************************************************)
(* Proofs about SignIn for every number of clients, every cipher whose     *)
(* decryption inverts its encryption, and every bound on early returns.    *)
(***************************************************************************)
EXTENDS SignIn, SequenceTheorems, TLAPS

Inv == TypeOK /\ VerdictTravels

\* What the script tells a step to send: an operation and an element.
(* The script consists of requests.                                         *)
LEMMA ScriptTypes ==
    ASSUME NEW s \in Steps
    PROVE  Op(s) \in {"NEW", "EXEC", "EXIT"} /\ Index(s) \in Slots
BY DEF Steps, Op, Index, Slots, Loads, PromptStep, RunStep, ExitStep

\* The cipher inverse: comparing the transformed input with the answer and the
\* input with the untransformed answer are the same comparison.
(* The client's check of a head agrees with the server's judgement of it.   *)
LEMMA CheckedIsJudged == \A h \in Half : Checked(h) = Judged(h)
<1> SUFFICES ASSUME NEW h \in Half PROVE Transformed(h) = Answer <=> h = AnswerInput
    BY DEF Checked, Judged
<1>1. Answer \in Half /\ h.front \in Block /\ h.back \in Block
    BY DataAssumption DEF Half
<1>2. Answer.front \in Block /\ Answer.back \in Block
    BY <1>1 DEF Half
<1>3. Enc[h.front] = Answer.front <=> h.front = Dec[Answer.front]
    BY <1>1, <1>2, CipherAssumption
<1>4. Dec[h.back] = Answer.back <=> h.back = Enc[Answer.back]
    BY <1>1, <1>2, CipherAssumption
<1>5. Transformed(h) = Answer <=> Enc[h.front] = Answer.front /\ Dec[h.back] = Answer.back
    BY <1>1 DEF Transformed, Half
<1>6. h = AnswerInput <=> h.front = Dec[Answer.front] /\ h.back = Enc[Answer.back]
    BY DEF AnswerInput, Half
<1> QED BY <1>3, <1>4, <1>5, <1>6

(* Flipping and enciphering yield heads again.                              *)
LEMMA TransformTypes ==
    ASSUME NEW h \in Half
    PROVE  Flipped(h) \in Half /\ Transformed(h) \in Half /\ Judged(h) \in Verdicts
<1>1. h.front \in Block /\ h.back \in Block
    BY DEF Half
<1>2. Enc \in [Block -> Block] /\ Dec \in [Block -> Block] /\ Flip \in [Block -> Block]
    BY FunctionsAssumption
<1> QED BY <1>1, <1>2 DEF Flipped, Transformed, Judged, Verdicts, Half

(* An input typed over a head leaves a head; a whole one leaves itself.     *)
LEMMA OverlaidTypes ==
    ASSUME NEW in \in Input, NEW h \in Half
    PROVE  Overlaid(in, h) \in Half /\ (in.halves = 2 => Overlaid(in, h) = in.text)
BY DEF Overlaid, Input, Half

(* The invariant holds initially.                                           *)
LEMMA InitInv == Init => Inv
<1> SUFFICES ASSUME Init PROVE Inv
    OBVIOUS
<1>0. Zero \in Half /\ NoClient \notin Clients
    BY DataAssumption, ClientsAssumption
<1>1. TypeOK
  <2>1. [head |-> Zero, last |-> "wrong"] \in Data
    BY <1>0 DEF Data, Verdicts
  <2>2. Ret \in Code
    BY DEF Ret, Code, Addresses
  <2>6. [text |-> Zero, halves |-> 0] \in Input
    BY <1>0 DEF Input
  <2>3. 1 \in Steps /\ Null \in Pointers /\ "start" \in ClientStates
    BY DEF Steps, Pointers, ClientStates
  <2>4. queue \in Seq(Clients) /\ conn \in Clients \cup {NoClient}
    BY DEF Init
  <2>5. s2c \in [Clients -> Seq(Request)] /\ c2s \in [Clients -> Seq(Piece)]
    BY DEF Init
  <2> QED BY <1>0, <2>1, <2>2, <2>3, <2>4, <2>5, <2>6 DEF Init, TypeOK
<1>2. VerdictTravels
    BY <1>0 DEF Init, VerdictTravels, PlacesInv, SessionInv, RequestInv, ClientInv,
       InSession, Verdicts
<1> QED BY <1>1, <1>2 DEF Inv

(***************************************************************************)
(* Type correctness.                                                       *)
(***************************************************************************)
\* Dropping one or two elements of a sequence that has them.
(* A sequence without its first element.                                    *)
LEMMA DropOne ==
    ASSUME NEW S, NEW q \in Seq(S), q # <<>>
    PROVE  Tail(q) \in Seq(S)
BY HeadTailProperties

(* A sequence of two elements or more is neither empty nor a singleton.     *)
LEMMA TwoLong ==
    ASSUME NEW S, NEW q \in Seq(S), 2 <= Len(q)
    PROVE  q # <<>> /\ Len(q) # 1
<1>1. PICK n \in Nat : n = Len(q)
    BY LenProperties
<1>2. n # 1 /\ n # 0
    BY <1>1
<1>3. q = <<>> => n = 0
    BY <1>1
<1> QED BY <1>1, <1>2, <1>3

(* A sequence without its first two elements.                               *)
LEMMA DropTwo ==
    ASSUME NEW S, NEW q \in Seq(S), q # <<>>, Len(q) # 1
    PROVE  Tail(Tail(q)) \in Seq(S)
<1>1. Tail(q) \in Seq(S) /\ Len(Tail(q)) = Len(q) - 1
    BY HeadTailProperties
<1>2. Len(q) \in Nat \ {0}
    BY EmptySeq
<1>3. Tail(q) # <<>>
  <2> SUFFICES ASSUME Tail(q) = <<>> PROVE Len(q) = 1
    OBVIOUS
  <2>1. Len(<<>>) = 0
    OBVIOUS
  <2> QED BY <1>1, <1>2, <2>1
<1> QED BY <1>1, <1>3, DropOne

\* A read of global_data takes pieces off the front and yields some data.
(* A read of the global data keeps the stream it reads from typed.          *)
LEMMA ReadsGlobalTypes ==
    ASSUME TypeOK, conn \in Clients, NEW got \in Data, ReadsGlobal(got)
    PROVE  c2s' \in [Clients -> Seq(Piece)] /\ shorts' \in Nat
<1>1. shorts \in Nat /\ c2s \in [Clients -> Seq(Piece)]
    BY DEF TypeOK
<1>2. PICK q \in Seq(Piece) : q = c2s[conn]
    BY <1>1
<1>3. PICK r \in Seq(Piece) : c2s' = [c2s EXCEPT ![conn] = r]
  <2>1. CASE 2 <= Len(q) /\ c2s' = [c2s EXCEPT ![conn] = Tail(Tail(q))]
    <3> QED BY <2>1, TwoLong, DropTwo
  <2>2. CASE q # <<>> /\ c2s' = [c2s EXCEPT ![conn] = Tail(q)]
    BY <2>2, DropOne
  <2>3. CASE /\ q # <<>>
             /\ c2s' = [c2s EXCEPT ![conn] = IF Len(q) = 1 THEN <<>> ELSE Tail(Tail(q))]
    <3>1. <<>> \in Seq(Piece)
      OBVIOUS
    <3> QED BY <2>3, <3>1, DropTwo
  <2>4. CASE c2s' = [c2s EXCEPT ![conn] = <<>>]
    <3>1. <<>> \in Seq(Piece)
      OBVIOUS
    <3> QED BY <2>4, <3>1
  <2> QED BY <1>2, <2>1, <2>2, <2>3, <2>4 DEF ReadsGlobal
<1>4. shorts' \in Nat
    BY <1>1 DEF ReadsGlobal
<1> QED BY <1>1, <1>3, <1>4

(* A read of a pointer keeps the stream it reads from typed.                *)
LEMMA ReadsPtrTypes ==
    ASSUME TypeOK, conn \in Clients, NEW ptr, NEW got, ReadsPtr(ptr, got)
    PROVE  c2s' \in [Clients -> Seq(Piece)]
<1>1. c2s \in [Clients -> Seq(Piece)] /\ c2s[conn] \in Seq(Piece)
    BY DEF TypeOK
<1>2. c2s[conn] # <<>> => Tail(c2s[conn]) \in Seq(Piece)
    BY <1>1, DropOne
<1>3. <<>> \in Seq(Piece)
    OBVIOUS
<1> QED BY <1>1, <1>2, <1>3 DEF ReadsPtr

(* A reply keeps the streams typed.                                         *)
LEMMA RepliesTypes ==
    ASSUME TypeOK, NEW c \in Clients, NEW d \in Data, Replies(c, d)
    PROVE  cdata' \in [Clients -> Data] /\ c2s' \in [Clients -> Seq(Piece)]
<1>1. <<[half |-> 1, data |-> d], [half |-> 2, data |-> d]>> \in Seq(Piece)
    BY DEF Piece
<1> QED BY <1>1 DEF TypeOK, Replies

(* What a client takes is a request, and its stream stays typed.            *)
LEMMA TakesTypes ==
    ASSUME TypeOK, NEW c \in Clients, NEW op, Takes(c, op)
    PROVE  Head(s2c[c]) \in Request /\ s2c' \in [Clients -> Seq(Request)]
BY DEF TypeOK, Takes

(* Every server step keeps the types.                                       *)
LEMMA ServerTypeStep == Inv /\ ServerStep => TypeOK'
<1> SUFFICES ASSUME TypeOK, VerdictTravels, ServerStep PROVE TypeOK'
    BY DEF Inv
<1>0. conn \in Clients \/ srv \in {"accept", "dead"}
    BY DEF TypeOK, VerdictTravels, PlacesInv, InSession
<1>1. CASE Accept
  <2>1. left' \in [Clients -> Half]
    BY <1>1 DEF Accept, TypeOK, Data
  <2> QED BY <1>1, <2>1 DEF Accept, TypeOK, clientVars
<1>2. CASE ReadGlobPtr
  <2> PICK p \in Pointers : ReadsPtr(globPtr, p) /\ globPtr' = p
    BY <1>2 DEF ReadGlobPtr
  <2> QED BY <1>0, <1>2, ReadsPtrTypes DEF ReadGlobPtr, TypeOK, clientVars
<1>3. CASE ReadElementsPtr
  <2> PICK p \in Pointers : ReadsPtr(elemPtr, p) /\ elemPtr' = p
    BY <1>3 DEF ReadElementsPtr
  <2> QED BY <1>0, <1>3, ReadsPtrTypes DEF ReadElementsPtr, TypeOK, clientVars, Steps
<1>4. CASE Send
  <2>1. Assembled(Index(step)) \in Code
    <3> globPtr \in Pointers /\ elemPtr \in Pointers
      BY DEF TypeOK
    <3> QED BY DEF Assembled, Code, Addresses
  <2>2. [data |-> data, op |-> Op(step), idx |-> Index(step),
         code |-> Assembled(Index(step))] \in Request
    <3> data \in Data /\ step \in Steps
      BY DEF TypeOK
    <3> QED BY <2>1, ScriptTypes DEF Request
  <2>3. s2c' \in [Clients -> Seq(Request)]
    <3> s2c \in [Clients -> Seq(Request)]
      BY DEF TypeOK
    <3> QED BY <1>0, <1>4, <2>2, AppendProperties DEF Send
  <2> QED BY <1>4, <2>3 DEF Send, TypeOK, clientVars
<1>5. CASE ReadLoaded
  <2> PICK got \in Data : ReadsGlobal(got) /\ data' = got
    BY <1>5 DEF ReadLoaded
  <2>1. step' \in Steps
    BY <1>5 DEF ReadLoaded, TypeOK, Steps, PromptStep
  <2> QED BY <1>0, <1>5, <2>1, ReadsGlobalTypes DEF ReadLoaded, TypeOK, clientVars
<1>6. CASE ReadTyped
  <2> PICK got \in Data :
          /\ ReadsGlobal(got)
          /\ data' = [got EXCEPT !.head = Flipped(got.head)]
          /\ verdict' = [verdict EXCEPT ![conn] = Judged(Flipped(got.head))]
    BY <1>6 DEF ReadTyped
  <2>1. Flipped(got.head) \in Half /\ Judged(Flipped(got.head)) \in Verdicts
    BY TransformTypes DEF Data
  <2>2. data' \in Data /\ step' \in Steps
    BY <1>6, <2>1 DEF Data, ReadTyped, Steps, RunStep
  <2>3. verdict' \in [Clients -> Verdicts \cup {"none"}]
    BY <2>1 DEF TypeOK
  <2> QED BY <1>0, <1>6, <2>2, <2>3, ReadsGlobalTypes DEF ReadTyped, TypeOK, clientVars
<1>7. CASE ReadRun
  <2> PICK got \in Data, head \in Half :
          ReadsGlobal(got) /\ data' = [head |-> head, last |-> verdict[conn]]
    BY <1>7, DataAssumption DEF ReadRun, Data
  <2>1. verdict[conn] \in Verdicts
    BY <1>7 DEF ReadRun, VerdictTravels, SessionInv, PromptStep, RunStep
  <2>2. data' \in Data /\ step' \in Steps
    BY <1>7, <2>1 DEF ReadRun, Data, Steps, ExitStep
  <2> QED BY <1>0, <1>7, <2>2, ReadsGlobalTypes DEF ReadRun, TypeOK, clientVars
<1>8. CASE ReadExit
  <2> PICK got \in Data : ReadsGlobal(got) /\ data' = got
    BY <1>8 DEF ReadExit
  <2> QED BY <1>0, <1>8, ReadsGlobalTypes, SwitchAssumption DEF ReadExit, TypeOK, clientVars
<1>9. CASE Die
    BY <1>9 DEF Die, TypeOK, clientVars
<1> QED BY <1>1, <1>2, <1>3, <1>4, <1>5, <1>6, <1>7, <1>8, <1>9 DEF ServerStep

(* Every client step keeps the types.                                       *)
LEMMA ClientTypeStep ==
    ASSUME TypeOK, NEW c \in Clients, ClientStep(c) \/ Kill(c)
    PROVE  TypeOK'
<1>1. CASE Connect(c)
    BY <1>1 DEF Connect, TypeOK, ClientStates
<1>2. CASE ConnectFails(c)
    BY <1>2 DEF ConnectFails, TypeOK, ClientStates, serverVars
<1>3. CASE WritePtr(c)
  <2>1. [half |-> 0, ptr |-> c] \in Piece
    BY DEF Piece
  <2> QED BY <1>3, <2>1 DEF WritePtr, TypeOK, ClientStates, serverVars
<1>4. CASE ClientNew(c)
  <2>1. Head(s2c[c]) \in Request /\ s2c' \in [Clients -> Seq(Request)]
    BY <1>4, TakesTypes DEF ClientNew
  <2>2. /\ Head(s2c[c]).data \in Data /\ Head(s2c[c]).idx \in Slots
        /\ Head(s2c[c]).code \in Code
    BY <2>1 DEF Request
  <2>3. cdata' \in [Clients -> Data] /\ c2s' \in [Clients -> Seq(Piece)]
    BY <1>4, <2>2, RepliesTypes DEF ClientNew
  <2>4. elements' \in [Clients -> [Slots -> Code]]
    BY <1>4, <2>2 DEF ClientNew, TypeOK
  <2> QED BY <1>4, <2>1, <2>3, <2>4 DEF ClientNew, TypeOK, serverVars
<1>5. CASE ClientPrompt(c)
  <2>1. Head(s2c[c]) \in Request /\ s2c' \in [Clients -> Seq(Request)]
    BY <1>5, TakesTypes DEF ClientPrompt
  <2>2. Head(s2c[c]).data \in Data
    BY <2>1 DEF Request
  <2> PICK input \in Input, head \in Half :
          /\ Replies(c, [Head(s2c[c]).data EXCEPT !.head = head])
          /\ typed' = [typed EXCEPT ![c] = input]
    <3> DEFINE old == Head(s2c[c]).data
    <3> PICK text \in Typable, halves \in 0..2 :
          /\ Replies(c, [old EXCEPT
                          !.head = Overlaid([text |-> text, halves |-> halves], old.head)])
          /\ typed' = [typed EXCEPT ![c] = [text |-> text, halves |-> halves]]
      BY <1>5 DEF ClientPrompt
    <3>1. text \in Half /\ old.head \in Half
      BY <2>2, DataAssumption DEF Data
    <3>2. [text |-> text, halves |-> halves] \in Input
      BY <3>1 DEF Input
    <3> QED BY <3>1, <3>2, OverlaidTypes
  <2>3. [Head(s2c[c]).data EXCEPT !.head = head] \in Data
    BY <2>2 DEF Data
  <2>4. cdata' \in [Clients -> Data] /\ c2s' \in [Clients -> Seq(Piece)]
    BY <2>3, RepliesTypes
  <2>5. typed' \in [Clients -> Input]
    BY DEF TypeOK
  <2> QED BY <1>5, <2>1, <2>4, <2>5 DEF ClientPrompt, TypeOK, serverVars
<1>6. CASE ClientRun(c)
  <2>1. Head(s2c[c]) \in Request /\ s2c' \in [Clients -> Seq(Request)]
    BY <1>6, TakesTypes DEF ClientRun
  <2> DEFINE got == Head(s2c[c]).data
  <2>2. got \in Data
    BY <2>1 DEF Request
  <2>3. got.head \in Half
    BY <2>2 DEF Data
  <2>4. [got EXCEPT !.head = Transformed(got.head)] \in Data
    BY <2>2, <2>3, TransformTypes DEF Data
  <2>5. cdata' \in [Clients -> Data] /\ c2s' \in [Clients -> Seq(Piece)]
    BY <1>6, <2>4, RepliesTypes DEF ClientRun
  <2>6. banner' \in [Clients -> Verdicts \cup {"none"}]
    BY <1>6 DEF ClientRun, TypeOK, Checked, Verdicts
  <2> QED BY <1>6, <2>1, <2>5, <2>6 DEF ClientRun, TypeOK, serverVars
<1>7. CASE ClientExit(c)
  <2>1. Head(s2c[c]) \in Request /\ s2c' \in [Clients -> Seq(Request)]
    BY <1>7, TakesTypes DEF ClientExit
  <2>2. Head(s2c[c]).data \in Data
    BY <2>1 DEF Request
  <2>3. cdata' \in [Clients -> Data] /\ c2s' \in [Clients -> Seq(Piece)]
    BY <1>7, <2>2, RepliesTypes DEF ClientExit
  <2> QED BY <1>7, <2>1, <2>3 DEF ClientExit, TypeOK, ClientStates, serverVars
<1>8. CASE Report(c)
  <2>1. cdata[c].last \in Verdicts
    BY DEF TypeOK, Data
  <2> QED BY <1>8, <2>1 DEF Report, TypeOK, ClientStates, serverVars
<1>9. CASE RageQuit(c)
    BY <1>9, SwitchAssumption DEF RageQuit, TypeOK, ClientStates, serverVars
<1>10. CASE Kill(c)
    BY <1>10 DEF Kill, TypeOK, ClientStates, serverVars
<1> QED BY <1>1, <1>2, <1>3, <1>4, <1>5, <1>6, <1>7, <1>8, <1>9, <1>10 DEF ClientStep

(* Every step keeps the types.                                              *)
LEMMA TypeStep == Inv /\ [Next]_vars => TypeOK'
<1> SUFFICES ASSUME Inv, [Next]_vars PROVE TypeOK'
    OBVIOUS
<1>1. CASE ServerStep
    BY <1>1, ServerTypeStep
<1>2. CASE Restart
    BY <1>2, DataAssumption
       DEF Inv, Restart, TypeOK, clientVars, Pointers, Steps, Data, Verdicts
<1>3. CASE PortFreed
    BY <1>3 DEF Inv, PortFreed, TypeOK, clientVars
<1>4. ASSUME NEW c \in Clients, ClientStep(c) \/ Kill(c) PROVE TypeOK'
    BY <1>4, ClientTypeStep DEF Inv
<1>5. CASE UNCHANGED vars
    BY <1>5 DEF Inv, TypeOK, vars
<1> QED BY <1>1, <1>2, <1>3, <1>4, <1>5 DEF Next

(***************************************************************************)
(* Who is where.                                                           *)
(***************************************************************************)
\* Steps of a session other than its begin and end keep srv inside it, and
\* touch neither the queue, nor conn, nor the clients.
Inside == ReadGlobPtr \/ ReadElementsPtr \/ Send \/ ReadLoaded \/ ReadRun

(* What a step of the server inside a session leaves alone.                 *)
LEMMA InsideFrame ==
    ASSUME Inside
    PROVE  /\ InSession /\ InSession'
           /\ UNCHANGED <<queue, conn, verdict, cst, cdata, banner, report>>
BY DEF Inside, ReadGlobPtr, ReadElementsPtr, Send, ReadLoaded, ReadRun, InSession, clientVars

\* Steps of a client that is connected.
Working(c) == \/ WritePtr(c) \/ ClientNew(c) \/ ClientPrompt(c) \/ ClientRun(c)
              \/ ClientExit(c) \/ Report(c) \/ RageQuit(c) \/ Kill(c) \/ ConnectFails(c)

(* What a client at work leaves alone.                                      *)
LEMMA WorkingFrame ==
    ASSUME TypeOK, NEW c \in Clients, Working(c)
    PROVE  /\ UNCHANGED serverVars
           /\ \A d \in Clients : cst'[d] = "start" => cst[d] = "start"
BY DEF TypeOK, Working, WritePtr, ClientNew, ClientPrompt, ClientRun, ClientExit, Report,
       RageQuit, Kill, ConnectFails, Takes

(* Every step keeps the places of server and clients consistent.            *)
LEMMA PlacesStep == Inv /\ [Next]_vars => PlacesInv'
<1> SUFFICES ASSUME TypeOK, PlacesInv, SessionInv, [Next]_vars PROVE PlacesInv'
    BY DEF Inv, VerdictTravels
<1>0. /\ queue \in Seq(Clients) /\ cst \in [Clients -> ClientStates]
      /\ verdict \in [Clients -> Verdicts \cup {"none"}] /\ NoClient \notin Clients
    BY ClientsAssumption DEF TypeOK
<1>1. CASE Accept
  <2>1. /\ queue # <<>> /\ conn' = queue[1] /\ queue' = Tail(queue) /\ srv' = "glob"
        /\ UNCHANGED <<verdict, cst>>
    BY <1>1, <1>0 DEF Accept, clientVars
  <2>2. /\ Len(queue') = Len(queue) - 1 /\ Len(queue) \in Nat \ {0}
        /\ \A i \in 1..Len(queue') : queue'[i] = queue[i + 1]
    BY <1>0, <2>1, HeadTailProperties, EmptySeq
  <2>3. 1 \in 1..Len(queue) /\ \A i \in 1..Len(queue') : i + 1 \in 1..Len(queue) /\ i + 1 # 1
    BY <2>2
  <2>4. conn' \in Clients
    BY <1>0, <2>1, <2>3
  <2>5. InSession' /\ conn' # NoClient
    BY <1>0, <2>1, <2>4 DEF InSession
  <2>6. \A i \in 1..Len(queue') :
          /\ queue'[i] # conn' /\ cst'[queue'[i]] # "start" /\ verdict'[queue'[i]] = "none"
          /\ \A j \in 1..Len(queue') : queue'[i] = queue'[j] => i = j
    BY <2>1, <2>2, <2>3 DEF PlacesInv
  <2>7. \A c \in Clients : cst'[c] = "start" => verdict'[c] = "none" /\ c # conn'
    BY <2>1, <2>3 DEF PlacesInv
  <2> QED BY <2>5, <2>6, <2>7 DEF PlacesInv
<1>2. CASE Inside
    BY <1>2, InsideFrame DEF PlacesInv
<1>3. CASE ReadTyped
  <2>1. /\ InSession /\ InSession' /\ UNCHANGED <<queue, conn, cst>>
        /\ \A c \in Clients : c # conn => verdict'[c] = verdict[c]
    BY <1>3, <1>0 DEF ReadTyped, InSession, clientVars
  <2>2. \A i \in 1..Len(queue) : queue[i] \in Clients
    BY <1>0
  <2> QED BY <2>1, <2>2 DEF PlacesInv
<1>4. CASE ReadExit \/ Die \/ Restart
  <2>1. ~InSession' /\ conn' = NoClient /\ UNCHANGED <<cst, verdict>>
    BY <1>4 DEF ReadExit, Die, Restart, InSession, PlacesInv, clientVars
  <2>2. queue' = queue \/ queue' = <<>>
    BY <1>4 DEF ReadExit, Die, Restart
  <2>3. \A i \in 1..Len(queue) : queue[i] \in Clients
    BY <1>0
  <2> QED BY <1>0, <2>1, <2>2, <2>3 DEF PlacesInv
<1>5. ASSUME NEW c \in Clients, Connect(c) PROVE PlacesInv'
  <2>1. /\ cst[c] = "start" /\ queue' = Append(queue, c) /\ UNCHANGED <<srv, conn, verdict>>
        /\ cst' = [cst EXCEPT ![c] = "glob"]
    BY <1>5 DEF Connect
  <2>2. /\ Len(queue') = Len(queue) + 1 /\ Len(queue) \in Nat
        /\ \A i \in 1..Len(queue) : queue'[i] = queue[i]
        /\ queue'[Len(queue) + 1] = c
    BY <1>0, <2>1, AppendProperties, LenProperties
  <2>3. \A i \in 1..Len(queue) : queue[i] # c /\ queue[i] \in Clients
    BY <1>0, <2>1 DEF PlacesInv
  <2>4. verdict[c] = "none" /\ c # conn
    BY <2>1 DEF PlacesInv
  <2>5. \A i \in 1..Len(queue') : i \in 1..Len(queue) \/ i = Len(queue) + 1
    BY <2>2
  <2>6. \A i \in 1..Len(queue') :
          queue'[i] # conn' /\ cst'[queue'[i]] # "start" /\ verdict'[queue'[i]] = "none"
    BY <1>0, <2>1, <2>2, <2>3, <2>4, <2>5 DEF PlacesInv
  <2>7. \A i, j \in 1..Len(queue') : queue'[i] = queue'[j] => i = j
    BY <2>2, <2>3, <2>5 DEF PlacesInv
  <2>8. \A d \in Clients : cst'[d] = "start" => verdict'[d] = "none" /\ d # conn'
    BY <1>0, <2>1 DEF PlacesInv
  <2>9. InSession' <=> conn' # NoClient
    BY <2>1 DEF PlacesInv, InSession
  <2> QED BY <2>6, <2>7, <2>8, <2>9 DEF PlacesInv
<1>6. ASSUME NEW c \in Clients, Working(c) PROVE PlacesInv'
  <2>1. \A d \in Clients : cst'[d] = "start" => cst[d] = "start"
    BY <1>6, WorkingFrame
  <2>2. UNCHANGED <<srv, queue, conn, verdict>>
    BY <1>6, WorkingFrame DEF serverVars
  <2>3. \A i \in 1..Len(queue) : queue[i] \in Clients
    BY <1>0
  <2> QED BY <2>1, <2>2, <2>3 DEF PlacesInv, InSession
<1>7. CASE PortFreed \/ UNCHANGED vars
    BY <1>7 DEF PortFreed, PlacesInv, InSession, clientVars, vars
<1> QED BY <1>1, <1>2, <1>3, <1>4, <1>5, <1>6, <1>7
        DEF Next, ServerStep, ClientStep, Inside, Working

(***************************************************************************)
(* What the server knows in a session.                                     *)
(***************************************************************************)
LEMMA SessionStep == Inv /\ [Next]_vars => SessionInv'
<1> SUFFICES ASSUME TypeOK, PlacesInv, SessionInv, [Next]_vars PROVE SessionInv'
    BY DEF Inv, VerdictTravels
<1>0. /\ verdict \in [Clients -> Verdicts \cup {"none"}] /\ step \in 1..16
      /\ conn \in Clients \/ ~InSession
    BY DEF TypeOK, Steps, PlacesInv
<1>1. CASE Accept
  <2>1. queue # <<>> /\ queue \in Seq(Clients) /\ Head(queue) = queue[1] /\ 1 \in 1..Len(queue)
    BY <1>1, EmptySeq DEF Accept, TypeOK
  <2> QED BY <1>1, <2>1 DEF Accept, SessionInv, PlacesInv
<1>2. CASE ReadGlobPtr
    BY <1>2 DEF ReadGlobPtr, SessionInv
<1>3. CASE ReadElementsPtr
    BY <1>3 DEF ReadElementsPtr, SessionInv, PromptStep, RunStep, ExitStep
<1>4. CASE Send
    BY <1>4 DEF Send, SessionInv
<1>5. CASE ReadLoaded
    BY <1>0, <1>5 DEF ReadLoaded, SessionInv, PromptStep, RunStep, ExitStep
<1>6. CASE ReadTyped
  <2> PICK got \in Data :
          /\ ReadsGlobal(got)
          /\ data' = [got EXCEPT !.head = Flipped(got.head)]
          /\ verdict' = [verdict EXCEPT ![conn] = Judged(Flipped(got.head))]
    BY <1>6 DEF ReadTyped
  <2>1. data'.head = Flipped(got.head) /\ Judged(data'.head) \in Verdicts
    BY DEF Data, Judged, Verdicts
  <2>2. srv' = "send" /\ step' = RunStep /\ conn' = conn /\ conn \in Clients
    BY <1>0, <1>6 DEF ReadTyped, InSession
  <2>3. verdict'[conn'] = Judged(data'.head)
    BY <1>0, <2>1, <2>2
  <2> QED BY <2>1, <2>2, <2>3 DEF SessionInv, PromptStep, RunStep, ExitStep
<1>7. CASE ReadRun
  <2> PICK got \in Data :
        \E head \in IF verdict[conn] = "right" THEN {FlagText, NoFlagText} ELSE {got.head} :
          data' = [head |-> head, last |-> verdict[conn]]
    BY <1>7 DEF ReadRun
  <2>1. data'.last = verdict[conn] /\ Shows(verdict[conn], data'.head)
    BY DEF Shows
  <2> QED BY <1>7, <2>1 DEF ReadRun, SessionInv, PromptStep, RunStep, ExitStep, clientVars
<1>8. CASE ReadExit \/ Die \/ Restart
    BY <1>8 DEF ReadExit, Die, Restart, SessionInv
<1>9. ASSUME NEW c \in Clients, Connect(c) \/ Working(c) PROVE SessionInv'
  <2>1. UNCHANGED <<srv, conn, data, step, verdict>>
    BY <1>9, WorkingFrame DEF Connect, serverVars
  <2> QED BY <2>1 DEF SessionInv
<1>10. CASE PortFreed \/ UNCHANGED vars
    BY <1>10 DEF PortFreed, SessionInv, vars
<1> QED BY <1>1, <1>2, <1>3, <1>4, <1>5, <1>6, <1>7, <1>8, <1>9, <1>10
        DEF Next, ServerStep, ClientStep, Working

(***************************************************************************)
(* What the requests on their way carry.                                   *)
(***************************************************************************)
\* A verdict appears only at the prompt, for a client that had none.
VerdictStep == \/ UNCHANGED verdict
               \/ /\ ReadTyped /\ conn \in Clients /\ verdict[conn] = "none"
                  /\ \A c \in Clients : c # conn => verdict'[c] = verdict[c]
                  /\ verdict'[conn] \in Verdicts

(* Every step leaves a verdict that was given as it is.                     *)
LEMMA VerdictOnce == Inv /\ [Next]_vars => VerdictStep
<1> SUFFICES ASSUME Inv, [Next]_vars PROVE VerdictStep
    OBVIOUS
<1>0. /\ TypeOK /\ PlacesInv /\ SessionInv
      /\ verdict \in [Clients -> Verdicts \cup {"none"}]
    BY DEF Inv, VerdictTravels, TypeOK
<1>1. CASE ReadTyped
  <2>1. conn \in Clients /\ verdict[conn] = "none"
    BY <1>0, <1>1 DEF TypeOK, ReadTyped, PlacesInv, InSession, SessionInv, PromptStep
  <2>2. /\ \A c \in Clients : c # conn => verdict'[c] = verdict[c]
        /\ verdict'[conn] \in Verdicts
    BY <1>0, <1>1, <2>1 DEF ReadTyped, Judged, Verdicts
  <2> QED BY <1>1, <2>1, <2>2 DEF VerdictStep
<1>2. CASE Accept \/ Inside \/ ReadExit \/ Die \/ Restart \/ PortFreed \/ UNCHANGED vars
    BY <1>2, InsideFrame DEF Accept, ReadExit, Die, Restart, PortFreed, vars, VerdictStep
<1>3. ASSUME NEW c \in Clients, Connect(c) \/ Working(c) PROVE VerdictStep
    BY <1>0, <1>3, WorkingFrame DEF Connect, serverVars, VerdictStep
<1> QED BY <1>1, <1>2, <1>3 DEF Next, ServerStep, ClientStep, Inside, Working

\* A request that carries a verdict keeps carrying it.
(* A message keeps carrying the verdict through every step.                 *)
LEMMA CarriesStep ==
    ASSUME Inv, [Next]_vars, NEW c \in Clients, NEW m, Carries(c, m)
    PROVE  Carries(c, m)'
BY VerdictOnce DEF Carries, VerdictStep, Verdicts, Shows

(* Requests are right if those that are on their way after a step were.     *)
LEMMA CarriedOn ==
    ASSUME Inv, [Next]_vars,
           \A c \in Clients : \A i \in 1..Len(s2c'[c]) : Carries(c, s2c'[c][i])
    PROVE  RequestInv'
<1> SUFFICES ASSUME NEW c \in Clients, NEW i \in 1..Len(s2c'[c])
             PROVE  Carries(c, s2c[c][i])'
    BY DEF RequestInv
<1>1. PICK m : m = s2c'[c][i]
    OBVIOUS
<1>2. Carries(c, m)
    BY <1>1
<1>3. Carries(c, m)'
    BY <1>2, CarriesStep
<1> QED BY <1>1, <1>3 DEF Carries

\* Every step but Send only takes requests away.
(* Every step keeps requests in the order of the script.                    *)
LEMMA RequestStep == Inv /\ [Next]_vars => RequestInv'
<1> SUFFICES ASSUME Inv, [Next]_vars
             PROVE  \A c \in Clients : \A i \in 1..Len(s2c'[c]) : Carries(c, s2c'[c][i])
    BY CarriedOn
<1>0. /\ TypeOK /\ PlacesInv /\ SessionInv /\ RequestInv
      /\ s2c \in [Clients -> Seq(Request)]
    BY DEF Inv, VerdictTravels, TypeOK
<1> DEFINE Goal == \A c \in Clients : \A i \in 1..Len(s2c'[c]) : Carries(c, s2c'[c][i])
<1>1. CASE Send
  <2> DEFINE new == [data |-> data, op |-> Op(step), idx |-> Index(step),
                     code |-> Assembled(Index(step))]
  <2>1. CASE Gone(conn)
    BY <1>0, <1>1, <2>1 DEF Send, RequestInv
  <2>2. CASE ~Gone(conn)
    <3>1. s2c' = [s2c EXCEPT ![conn] = Append(@, new)] /\ conn \in Clients
      BY <1>0, <1>1, <2>2 DEF Send, TypeOK, PlacesInv, InSession
    <3>2. Carries(conn, new)
      BY <1>0, <1>1 DEF Send, Carries, SessionInv, TypeOK, Steps, Op, Index,
                        PromptStep, RunStep, ExitStep
    <3>3. /\ Len(Append(s2c[conn], new)) = Len(s2c[conn]) + 1 /\ Len(s2c[conn]) \in Nat
          /\ \A i \in 1..Len(s2c[conn]) : Append(s2c[conn], new)[i] = s2c[conn][i]
          /\ Append(s2c[conn], new)[Len(s2c[conn]) + 1] = new
      <4>1. s2c[conn] \in Seq(Request)
        BY <1>0, <3>1
      <4> QED BY <4>1
    <3>4. ASSUME NEW i \in 1..Len(s2c'[conn]) PROVE Carries(conn, s2c'[conn][i])
      <4>1. s2c'[conn] = Append(s2c[conn], new)
        BY <1>0, <3>1
      <4>2. i \in 1..Len(s2c[conn]) \/ i = Len(s2c[conn]) + 1
        BY <3>3, <4>1
      <4> QED BY <1>0, <3>1, <3>2, <3>3, <4>1, <4>2 DEF RequestInv
    <3>5. \A d \in Clients : d # conn => s2c'[d] = s2c[d]
      BY <1>0, <3>1
    <3> QED BY <1>0, <3>4, <3>5 DEF RequestInv
  <2> QED BY <2>1, <2>2
<1>2. ASSUME UNCHANGED s2c PROVE Goal
    BY <1>0, <1>2 DEF RequestInv
<1>3. ASSUME NEW c \in Clients, s2c[c] # <<>>, s2c' = [s2c EXCEPT ![c] = Tail(@)]
      PROVE  Goal
  <2>1. s2c[c] \in Seq(Request) /\ s2c'[c] = Tail(s2c[c])
    BY <1>0, <1>3
  <2>2. /\ Len(Tail(s2c[c])) = Len(s2c[c]) - 1 /\ Len(s2c[c]) \in Nat
        /\ \A i \in 1..Len(Tail(s2c[c])) : Tail(s2c[c])[i] = s2c[c][i + 1]
    BY <1>3, <2>1, HeadTailProperties, LenProperties
  <2>3. ASSUME NEW i \in 1..Len(s2c'[c]) PROVE Carries(c, s2c'[c][i])
    <3>1. i + 1 \in 1..Len(s2c[c]) /\ s2c'[c][i] = s2c[c][i + 1]
      BY <2>1, <2>2
    <3> QED BY <1>0, <3>1 DEF RequestInv
  <2>4. \A d \in Clients : d # c => s2c'[d] = s2c[d]
    BY <1>0, <1>3
  <2> QED BY <1>0, <2>3, <2>4 DEF RequestInv
<1>4. ASSUME NEW c \in Clients, s2c' = [s2c EXCEPT ![c] = <<>>] PROVE Goal
  <2>1. \A d \in Clients : s2c'[d] = <<>> \/ s2c'[d] = s2c[d]
    BY <1>0, <1>4
  <2>2. \A i \in 1..Len(<<>>) : FALSE
    OBVIOUS
  <2> QED BY <1>0, <2>1, <2>2 DEF RequestInv
<1>5. CASE \/ Accept \/ ReadGlobPtr \/ ReadElementsPtr \/ ReadLoaded \/ ReadTyped
           \/ ReadRun \/ ReadExit \/ Die \/ Restart \/ PortFreed \/ UNCHANGED vars
    BY <1>2, <1>5 DEF Accept, ReadGlobPtr, ReadElementsPtr, ReadLoaded, ReadTyped, ReadRun,
       ReadExit, Die, Restart, PortFreed, vars
<1>6. ASSUME NEW c \in Clients, ClientStep(c) \/ Kill(c) PROVE Goal
  <2>1. CASE Connect(c) \/ ConnectFails(c) \/ WritePtr(c) \/ Report(c)
    BY <1>2, <2>1 DEF Connect, ConnectFails, WritePtr, Report
  <2>2. CASE ClientNew(c) \/ ClientPrompt(c) \/ ClientRun(c) \/ ClientExit(c)
    BY <1>3, <2>2 DEF ClientNew, ClientPrompt, ClientRun, ClientExit, Takes
  <2>3. CASE RageQuit(c) \/ Kill(c)
    BY <1>4, <2>3 DEF RageQuit, Kill
  <2> QED BY <1>6, <2>1, <2>2, <2>3 DEF ClientStep
<1> QED BY <1>1, <1>5, <1>6 DEF Next, ServerStep

(***************************************************************************)
(* What clients hold, print and tell.                                      *)
(***************************************************************************)
LEMMA ClientInvStep == Inv /\ [Next]_vars => ClientInv'
<1> SUFFICES ASSUME Inv, [Next]_vars PROVE ClientInv'
    OBVIOUS
<1>0. /\ TypeOK /\ ClientInv /\ RequestInv /\ VerdictStep
      /\ cst \in [Clients -> ClientStates] /\ cdata \in [Clients -> Data]
      /\ banner \in [Clients -> Verdicts \cup {"none"}]
      /\ report \in [Clients -> Verdicts \cup {"none"}]
    BY VerdictOnce DEF Inv, VerdictTravels, TypeOK
<1>1. CASE UNCHANGED <<cst, cdata, banner, report>>
    BY <1>0, <1>1 DEF ClientInv, VerdictStep, Verdicts
<1>2. CASE ServerStep \/ Restart \/ PortFreed \/ UNCHANGED vars
  <2>1. UNCHANGED <<cst, cdata, banner, report>>
    BY <1>2 DEF ServerStep, Accept, ReadGlobPtr, ReadElementsPtr, Send, ReadLoaded, ReadTyped,
       ReadRun, ReadExit, Die, Restart, PortFreed, clientVars, vars
  <2> QED BY <1>1, <2>1
<1>3. ASSUME NEW c \in Clients, ClientStep(c) \/ Kill(c) PROVE ClientInv'
  <2>0. UNCHANGED verdict
    BY <1>0, <1>3, WorkingFrame DEF ClientStep, Working, Connect, serverVars
  <2>1. CASE Connect(c) \/ ConnectFails(c) \/ WritePtr(c) \/ RageQuit(c) \/ Kill(c)
    <3>1. /\ UNCHANGED <<cdata, banner, report>> /\ cst[c] # "done"
          /\ \E st \in {"glob", "elem", "recv", "quit"} : cst' = [cst EXCEPT ![c] = st]
      BY <1>0, <2>1 DEF Connect, ConnectFails, WritePtr, RageQuit, Kill, Gone
    <3> QED BY <1>0, <2>0, <3>1 DEF ClientInv
  <2>2. CASE ClientNew(c) \/ ClientPrompt(c)
    <3>1. /\ UNCHANGED <<cst, banner, report>> /\ cst[c] = "recv"
          /\ \A d \in Clients : d # c => cdata'[d] = cdata[d]
      BY <1>0, <2>2 DEF ClientNew, ClientPrompt, Takes, Replies
    <3> QED BY <1>0, <2>0, <3>1 DEF ClientInv
  <2>3. CASE ClientRun(c) \/ ClientExit(c)
    <3> DEFINE m == Head(s2c[c])
    <3>1. cst[c] = "recv" /\ s2c[c] # <<>> /\ s2c[c] \in Seq(Request)
      BY <1>0, <2>3 DEF ClientRun, ClientExit, Takes, TypeOK
    <3>2. m \in Request /\ m = s2c[c][1] /\ 1 \in 1..Len(s2c[c])
      BY <3>1
    <3>3. Carries(c, m)
      BY <1>0, <3>2 DEF RequestInv
    <3>4. m.data \in Data /\ m.data.head \in Half
      BY <3>2 DEF Request, Data
    <3>5. CASE ClientRun(c)
      <4>1. banner' = [banner EXCEPT ![c] = verdict[c]]
        BY <3>3, <3>4, <3>5, CheckedIsJudged DEF ClientRun, Takes, Carries
      <4>2. /\ UNCHANGED <<cst, report>>
            /\ \A d \in Clients : d # c => cdata'[d] = cdata[d]
        BY <1>0, <3>5 DEF ClientRun, Replies
      <4> QED BY <1>0, <2>0, <3>1, <4>1, <4>2 DEF ClientInv
    <3>6. CASE ClientExit(c)
      <4>1. /\ cdata' = [cdata EXCEPT ![c] = m.data] /\ cst' = [cst EXCEPT ![c] = "report"]
            /\ UNCHANGED <<banner, report>>
        BY <3>6 DEF ClientExit, Replies
      <4>2. /\ verdict[c] \in Verdicts /\ m.data.last = verdict[c]
            /\ Shows(verdict[c], m.data.head)
        BY <3>3, <3>6 DEF ClientExit, Takes, Carries
      <4> QED BY <1>0, <2>0, <3>1, <4>1, <4>2 DEF ClientInv
    <3> QED BY <2>3, <3>5, <3>6
  <2>4. CASE Report(c)
    BY <1>0, <2>0, <2>4 DEF Report, ClientInv
  <2> QED BY <1>3, <2>1, <2>2, <2>3, <2>4 DEF ClientStep
<1> QED BY <1>2, <1>3 DEF Next

(***************************************************************************)
(* The theorems.                                                           *)
(***************************************************************************)
\* Every variable keeps its type, and the links from a verdict to what its
\* client prints hold, in every behaviour of the service.
(* The inductive invariant holds throughout.                                *)
THEOREM Invariance == Spec => []Inv
<1>1. Init => Inv
    BY InitInv
<1>2. Inv /\ [Next]_vars => Inv'
    BY TypeStep, PlacesStep, SessionStep, RequestStep, ClientInvStep DEF Inv, VerdictTravels
<1> QED BY <1>1, <1>2, PTL DEF Spec

\* The type invariant of the service and its clients.
(* Every variable keeps its type.                                           *)
THEOREM TypeCorrect == Spec => []TypeOK
BY Invariance, PTL DEF Inv

\* The links from a verdict to what its client prints (SignIn!VerdictTravels).
(* On the way to its client the verdict is the one the server gave          *)
(* (server.c:396-411).                                                      *)
THEOREM LinksHold == Spec => []VerdictTravels
BY Invariance, PTL DEF Inv

\* Whatever an earlier session left in global_data, what a client tells its
\* user at the end of main() is the verdict run_validation reached about it.
(* What a client that finishes tells is the verdict of its session          *)
(* (client.c:103-106).                                                      *)
THEOREM Reported == Spec => []ReportIsVerdict
<1>1. Inv => ReportIsVerdict
    BY DEF Inv, VerdictTravels, ClientInv, ReportIsVerdict, Verdicts
<1> QED BY <1>1, Invariance, PTL

\* With a right verdict the client prints the flag, or that it cannot be read,
\* and not the input that global_data held a request before.
(* What is shown with a right verdict is what the server read for it        *)
(* (server.c:400-411, client.c:104).                                        *)
THEOREM FlagShown == Spec => []FlagIsShown
<1>1. Inv => FlagIsShown
    BY DEF Inv, VerdictTravels, ClientInv, FlagIsShown, Verdicts, Shows
<1> QED BY <1>1, Invariance, PTL

\* The check that runs in the client and the check that runs in the server
\* agree, because the cipher of one inverts the cipher of the other.
(* The banner the client's code prints agrees with the server's verdict     *)
(* (server.c:340-366).                                                      *)
THEOREM BannerAgrees == Spec => []BannerIsVerdict
<1>1. Inv => BannerIsVerdict
    BY DEF Inv, VerdictTravels, ClientInv, BannerIsVerdict
<1> QED BY <1>1, Invariance, PTL

\* run_validation decides about a client once.
(* A verdict is never revised (server.c:390-393).                           *)
THEOREM Final == Spec => VerdictIsFinal
<1>1. Inv /\ [Next]_vars =>
        [\A c \in Clients : verdict[c] # "none" => verdict'[c] = verdict[c]]_vars
    BY VerdictOnce DEF VerdictStep
<1> QED BY <1>1, Invariance, PTL DEF Spec, VerdictIsFinal

(***************************************************************************)
(* The service implements SignInSpec.                                      *)
(***************************************************************************)
Outcome == [c \in Clients |-> IF cst[c] = "quit" THEN "lost" ELSE report[c]]

\* A step in which no client quits or reports leaves every outcome alone.
(* The outcome depends on the reports and on who quit.                      *)
LEMMA OutcomeStays ==
    ASSUME \A c \in Clients : /\ (cst[c] = "quit") <=> (cst'[c] = "quit")
                              /\ report'[c] = report[c]
    PROVE  Outcome' = Outcome
BY DEF Outcome

(* Every step is a step of SignInSpec or leaves its variables alone.        *)
LEMMA StepRefines == Inv /\ [Next]_vars => [Promise!Next]_<<conn, verdict, Outcome>>
<1> SUFFICES ASSUME Inv, [Next]_vars PROVE [Promise!Next]_<<conn, verdict, Outcome>>
    OBVIOUS
<1>0. /\ TypeOK /\ PlacesInv /\ SessionInv /\ ClientInv /\ VerdictStep
      /\ cst \in [Clients -> ClientStates] /\ report \in [Clients -> Verdicts \cup {"none"}]
      /\ verdict \in [Clients -> Verdicts \cup {"none"}] /\ NoClient \notin Clients
    BY VerdictOnce, ClientsAssumption DEF Inv, VerdictTravels, TypeOK
<1>1. ASSUME NEW c \in Clients, Promise!Begin(c) \/ Promise!Judge(c) \/ Promise!Tell(c) \/ Promise!Lose(c)
      PROVE  Promise!Next
    BY <1>1 DEF Promise!Next
<1>2. CASE Accept
  <2>1. queue \in Seq(Clients) /\ queue # <<>> /\ conn' = Head(queue)
    BY <1>2 DEF Accept, TypeOK, Inv
  <2>2. conn' \in Clients /\ conn' = queue[1] /\ 1 \in 1..Len(queue)
    BY <2>1
  <2>3. verdict[conn'] = "none" /\ conn = NoClient
    BY <1>0, <1>2, <2>2 DEF PlacesInv, Accept, InSession
  <2>4. Outcome' = Outcome /\ UNCHANGED verdict
    BY <1>2 DEF Accept, clientVars, Outcome
  <2>5. PICK c \in Clients : c = conn'
    BY <2>2
  <2>6. Promise!Begin(c)
    BY <2>3, <2>4, <2>5 DEF Promise!Begin, Outcome
  <2> QED BY <1>1, <2>6
<1>3. CASE ReadTyped
  <2>1. conn \in Clients /\ verdict[conn] = "none" /\ Outcome' = Outcome /\ conn' = conn
    BY <1>0, <1>3 DEF ReadTyped, clientVars, Outcome, PlacesInv, InSession, TypeOK, SessionInv, PromptStep
  <2>2. PICK got \in Data : verdict' = [verdict EXCEPT ![conn] = Judged(Flipped(got.head))]
    BY <1>3 DEF ReadTyped
  <2>3. Judged(Flipped(got.head)) \in Promise!Verdicts
    BY DEF Judged, Promise!Verdicts
  <2>4. Promise!Judge(conn)
    BY <2>1, <2>2, <2>3 DEF Promise!Judge, Outcome
  <2> QED BY <1>1, <2>1, <2>4
<1>4. CASE ReadExit \/ Die
  <2>1. conn # NoClient /\ conn' = NoClient /\ Outcome' = Outcome /\ UNCHANGED verdict
    BY <1>0, <1>4 DEF ReadExit, Die, clientVars, Outcome, PlacesInv, InSession
  <2>2. Promise!End
    BY <2>1 DEF Promise!End, Outcome
  <2> QED BY <2>2 DEF Promise!Next
<1>5. CASE Inside \/ Restart \/ PortFreed \/ UNCHANGED vars
  <2>1. UNCHANGED <<conn, verdict, cst, report>>
    BY <1>5, InsideFrame DEF Restart, PortFreed, clientVars, vars
  <2> QED BY <2>1 DEF Outcome
<1>6. ASSUME NEW c \in Clients, ClientStep(c) \/ Kill(c)
      PROVE  [Promise!Next]_<<conn, verdict, Outcome>>
  <2>0. UNCHANGED <<conn, verdict>>
    BY <1>0, <1>6, WorkingFrame DEF ClientStep, Working, Connect, serverVars
  <2>1. CASE Connect(c) \/ WritePtr(c) \/ ClientNew(c) \/ ClientPrompt(c)
             \/ ClientRun(c) \/ ClientExit(c)
    <3>1. /\ UNCHANGED report /\ cst[c] # "quit"
          /\ \E st \in {"glob", "elem", "recv", "report"} : cst' = [cst EXCEPT ![c] = st]
      BY <1>0, <2>1 DEF Connect, WritePtr, ClientNew, ClientPrompt, ClientRun, ClientExit, Takes
    <3>2. Outcome' = Outcome
      BY <1>0, <3>1, OutcomeStays
    <3> QED BY <2>0, <3>2
  <2>2. CASE Report(c)
    <3>1. /\ cst[c] = "report" /\ cst' = [cst EXCEPT ![c] = "done"]
          /\ report' = [report EXCEPT ![c] = verdict[c]]
          /\ verdict[c] \in Verdicts /\ report[c] = "none"
      BY <1>0, <2>2 DEF Report, ClientInv
    <3>2. Outcome[c] = "none" /\ Outcome' = [Outcome EXCEPT ![c] = verdict[c]]
      BY <1>0, <3>1 DEF Outcome
    <3>3. Promise!Tell(c)
      BY <2>0, <3>1, <3>2 DEF Promise!Tell, Outcome, Verdicts
    <3> QED BY <1>1, <3>3
  <2>3. CASE ConnectFails(c) \/ RageQuit(c) \/ Kill(c)
    <3>1. /\ cst[c] \notin {"done", "quit"} /\ cst' = [cst EXCEPT ![c] = "quit"]
          /\ UNCHANGED report
      BY <2>3 DEF ConnectFails, RageQuit, Kill, Gone
    <3>2. Outcome[c] = "none" /\ Outcome' = [Outcome EXCEPT ![c] = "lost"]
      BY <1>0, <3>1 DEF Outcome, ClientInv
    <3>3. Promise!Lose(c)
      BY <2>0, <3>2 DEF Promise!Lose, Outcome
    <3> QED BY <1>1, <3>3
  <2> QED BY <1>6, <2>1, <2>2, <2>3 DEF ClientStep
<1> QED BY <1>2, <1>3, <1>4, <1>5, <1>6 DEF Next, ServerStep, Inside

\* server.c and client.c together implement what SignInSpec promises: one
\* session at a time, one verdict per client, and nothing told but the verdict.
(* The service keeps the promise of SignInSpec.                             *)
THEOREM Implements == Spec => PromiseKept
<1>1. Init => Promise!Init
  <2>1. Init => Outcome = [c \in Clients |-> "none"]
    BY DEF Init, Outcome
  <2> QED BY <2>1 DEF Init, Promise!Init, Outcome
<1>2. Inv /\ [Next]_vars => [Promise!Next]_Promise!vars
    BY StepRefines DEF Promise!vars, Outcome
<1> QED BY <1>1, <1>2, Invariance, PTL DEF Spec, PromiseKept, Promise!Spec
-----------------------------------------------------------------------------
(* What is on its way between the server and a client that has not quit.   *)

Alive(c) == cst[c] # "quit"

\* Queued, or accepted and not read from yet.
Queued(c) == \E i \in 1..Len(queue) : queue[i] = c
Waiting(c) == cst[c] = "start" \/ Queued(c) \/ (conn = c /\ srv = "glob")

\* How many of its two pointers a client has written.
Written(c) == IF cst[c] \in {"start", "glob"} THEN 0 ELSE IF cst[c] = "elem" THEN 1 ELSE 2

\* k pointers of c are on their way, and nothing else.
Pointed(c, k) ==
    /\ Len(c2s[c]) = k
    /\ \A i \in 1..k : c2s[c][i] = [half |-> 0, ptr |-> c]

\* The server reads the pointers of the client it serves.
OwnPtrs(c) ==
    /\ Waiting(c) =>
          /\ s2c[c] = <<>> /\ cst[c] \in {"start", "glob", "elem", "recv"}
          /\ Pointed(c, Written(c))
    /\ conn = c /\ srv = "elem" =>
          /\ s2c[c] = <<>> /\ cst[c] \in {"elem", "recv"} /\ globPtr = c
          /\ Pointed(c, Written(c) - 1)
    /\ conn = c /\ srv \in {"send", "read"} =>
          cst[c] \notin {"start", "glob", "elem"} /\ globPtr = c /\ elemPtr = c
PtrInv == \A c \in Clients : Alive(c) => OwnPtrs(c)

\* Code for c has the addresses of c and no others.
Own(c) == [glob : {Free, c}, elem : {Free, c}]
Scripted(c, m, s) == m.op = Op(s) /\ m.idx = Index(s) /\ m.code \in Own(c)

\* A client has obeyed the first a steps, and the requests on their way are
\* the next ones, up to where the server is.
Obeyed(c, a) ==
    /\ \A s \in 1..a : Op(s) = "NEW" => elements[c][Index(s)] \in Own(c)
    /\ \A i \in 1..Len(s2c[c]) : a + i \in Steps /\ Scripted(c, s2c[c][i], a + i)
    /\ conn = c /\ srv = "send" => a + Len(s2c[c]) = step - 1
    /\ conn = c /\ srv = "read" => a + Len(s2c[c]) = step
    /\ cst[c] \in {"report", "done"} => a = ExitStep
CodeInv == \A c \in Clients : Alive(c) => \E a \in 0..ExitStep : Obeyed(c, a)

\* Without early returns server and client take turns.
Asked(c) ==
    /\ Len(s2c[c]) = 1 /\ s2c[c][1].op = Op(step) /\ s2c[c][1].idx = Index(step)
    /\ c2s[c] = <<>> /\ cst[c] = "recv"
Answered(c) ==
    /\ s2c[c] = <<>> /\ Len(c2s[c]) = 2
    /\ c2s[c][1].half = 1 /\ c2s[c][2].half = 2
    /\ step = PromptStep => c2s[c][1].data.head = Overlaid(typed[c], left[c])
    /\ step # ExitStep => cst[c] = "recv"
InTurn(c) ==
    /\ conn = c /\ srv = "send" => s2c[c] = <<>> /\ c2s[c] = <<>> /\ cst[c] = "recv"
    /\ conn = c /\ srv = "read" => Asked(c) \/ Answered(c)
    /\ verdict[c] # "none" =>
          /\ verdict[c] = Judged(Flipped(Overlaid(typed[c], left[c])))
          /\ conn # c => s2c[c] = <<>>
TurnsInv == shorts = 0 => \A c \in Clients : Alive(c) => InTurn(c)

\* Until the prompt is answered the head stays what it was at the accept, with
\* the server, in the request and in the reply.
Kept(c) ==
    conn = c =>
        /\ srv \in {"glob", "elem"} => data.head = left[c]
        /\ srv = "send" /\ step <= PromptStep => data.head = left[c]
        /\ srv = "read" /\ step <= PromptStep /\ s2c[c] # <<>> => s2c[c][1].data.head = left[c]
        /\ srv = "read" /\ step < PromptStep /\ c2s[c] # <<>> => c2s[c][1].data.head = left[c]
KeptInv == shorts = 0 => \A c \in Clients : Alive(c) => Kept(c)

\* A step of a client concerns itself and the backlog ...
(* What a client's step leaves alone.                                       *)
LEMMA ClientFrame ==
    ASSUME TypeOK, NEW c \in Clients, ClientStep(c) \/ Kill(c)
    PROVE  /\ UNCHANGED <<srv, conn, globPtr, elemPtr, step, verdict, left, data>>
           /\ queue' = queue \/ (Connect(c) /\ queue' = Append(queue, c))
           /\ \A d \in Clients \ {c} :
                /\ cst'[d] = cst[d] /\ typed'[d] = typed[d] /\ elements'[d] = elements[d]
                /\ s2c'[d] = s2c[d] /\ c2s'[d] = c2s[d]
<1>1. CASE Connect(c)
    BY <1>1 DEF Connect, TypeOK
<1>2. CASE ConnectFails(c) \/ WritePtr(c) \/ Report(c) \/ RageQuit(c) \/ Kill(c)
    BY <1>2 DEF ConnectFails, WritePtr, Report, RageQuit, Kill, serverVars, TypeOK
<1>3. CASE ClientNew(c) \/ ClientPrompt(c) \/ ClientRun(c) \/ ClientExit(c)
    BY <1>3 DEF ClientNew, ClientPrompt, ClientRun, ClientExit, Takes, Replies, serverVars, TypeOK
<1> QED BY <1>1, <1>2, <1>3 DEF ClientStep

\* ... and a step of the server the client it serves.
ServerSide == ServerStep \/ Restart \/ PortFreed
(* What the server's step leaves alone.                                     *)
LEMMA ServerFrame ==
    ASSUME TypeOK, PlacesInv, ServerSide
    PROVE  /\ UNCHANGED <<cst, typed, elements>>
           /\ left' = left \/ (Accept /\ left' = [left EXCEPT ![conn'] = data.head])
           /\ \A d \in Clients \ {conn} : s2c'[d] = s2c[d] /\ c2s'[d] = c2s[d]
<1>1. CASE Send
    BY <1>1 DEF Send, clientVars, TypeOK
<1>2. CASE ReadGlobPtr \/ ReadElementsPtr
    BY <1>2 DEF ReadGlobPtr, ReadElementsPtr, ReadsPtr, clientVars, TypeOK
<1>3. CASE ReadLoaded \/ ReadTyped \/ ReadRun \/ ReadExit
    BY <1>3 DEF ReadLoaded, ReadTyped, ReadRun, ReadExit, ReadsGlobal, clientVars, TypeOK
<1>4. CASE Accept \/ Die \/ Restart \/ PortFreed
    BY <1>4 DEF Accept, Die, Restart, PortFreed, clientVars
<1> QED BY <1>1, <1>2, <1>3, <1>4 DEF ServerSide, ServerStep

\* Who waits was waiting before, and nobody the server talks to waits.
(* No step makes anyone wait who did not.                                   *)
LEMMA WaitingStays ==
    ASSUME TypeOK, PlacesInv, [Next]_vars, NEW c \in Clients, Waiting(c)'
    PROVE  Waiting(c) /\ (conn = c => srv = "glob" /\ conn' = c /\ srv' = "glob")
<1>0. queue \in Seq(Clients)
    BY DEF TypeOK
<1>1. CASE Accept
  <2>1. queue # <<>> /\ conn' = queue[1] /\ queue' = Tail(queue) /\ cst' = cst /\ srv = "accept"
    BY <1>0, <1>1 DEF Accept, clientVars
  <2>2. /\ 1 \in 1..Len(queue) /\ Len(queue') = Len(queue) - 1 /\ Len(queue) \in Nat
        /\ \A i \in 1..Len(queue') : queue'[i] = queue[i + 1]
    BY <1>0, <2>1, HeadTailProperties, EmptySeq
  <2>3. \A i \in 1..Len(queue') : i + 1 \in 1..Len(queue)
    BY <2>2
  <2>4. conn # c
    BY <2>1, ClientsAssumption DEF PlacesInv, InSession
  <2>5. Waiting(c)
    BY <2>1, <2>2, <2>3 DEF Waiting, Queued
  <2> QED BY <2>4, <2>5
<1>2. CASE ReadGlobPtr \/ ReadElementsPtr \/ Send \/ ReadLoaded \/ ReadTyped \/ ReadRun
  <2>1. UNCHANGED <<cst, queue, conn>> /\ srv' # "glob"
    BY <1>2 DEF ReadGlobPtr, ReadElementsPtr, Send, ReadLoaded, ReadTyped, ReadRun, clientVars
  <2> QED BY <2>1 DEF Waiting, Queued, PlacesInv
<1>3. CASE ReadExit \/ Die \/ Restart
  <2>1. cst' = cst /\ conn' = NoClient /\ srv' # "glob" /\ (queue' = queue \/ queue' = <<>>)
    <3>1. conn' = NoClient
      BY <1>3 DEF ReadExit, Die, Restart, PlacesInv, InSession
    <3> QED BY <1>3, <3>1 DEF ReadExit, Die, Restart, clientVars
  <2>2. ~ (\E i \in 1..Len(<<>>) : <<>>[i] = c)
    OBVIOUS
  <2>3. cst[c] = "start" \/ Queued(c)
    BY <2>1, <2>2 DEF Waiting, Queued
  <2> QED BY <2>3 DEF Waiting, Queued, PlacesInv
<1>4. CASE PortFreed \/ UNCHANGED vars
    BY <1>4 DEF PortFreed, vars, clientVars, Waiting, Queued, PlacesInv
<1>5. ASSUME NEW d \in Clients, ClientStep(d) \/ Kill(d)
      PROVE  Waiting(c) /\ (conn = c => srv = "glob" /\ conn' = c /\ srv' = "glob")
  <2>1. UNCHANGED <<srv, conn>>
    BY <1>5, ClientFrame
  <2>2. cst'[c] = "start" => cst[c] = "start"
    BY <1>5 DEF ClientStep, Connect, ConnectFails, WritePtr, ClientNew, ClientPrompt, ClientRun,
       ClientExit, Takes, Report, RageQuit, Kill, TypeOK
  <2>3. Queued(c)' => Queued(c) \/ cst[c] = "start"
    <3>1. CASE queue' = queue
      BY <3>1 DEF Queued
    <3>2. CASE Connect(d) /\ queue' = Append(queue, d)
      <4>1. /\ Len(queue') = Len(queue) + 1 /\ Len(queue) \in Nat
            /\ \A i \in 1..Len(queue) : queue'[i] = queue[i]
            /\ queue'[Len(queue) + 1] = d
        BY <1>0, <3>2, AppendProperties, LenProperties
      <4>2. \A i \in 1..Len(queue') : i \in 1..Len(queue) \/ i = Len(queue) + 1
        BY <4>1
      <4>3. cst[d] = "start"
        BY <3>2 DEF Connect
      <4> QED BY <4>1, <4>2, <4>3 DEF Queued
    <3> QED BY <1>5, <3>1, <3>2, ClientFrame
  <2> QED BY <2>1, <2>2, <2>3 DEF Waiting, Queued, PlacesInv
<1> QED BY <1>1, <1>2, <1>3, <1>4, <1>5 DEF Next, ServerStep

\* Taking a pointer off the connection, and putting one on.
(* One pointer less is on its way when the server has read one.             *)
LEMMA PtrRead ==
    ASSUME TypeOK, NEW c \in Clients, conn = c, NEW k \in Nat, Pointed(c, k), ~ Gone(c),
           NEW old, NEW got, ReadsPtr(old, got)
    PROVE  k # 0 /\ got = c /\ Pointed(c, k - 1)'
<1>1. c2s[c] # <<>> /\ got = c2s[c][1].ptr /\ c2s' = [c2s EXCEPT ![c] = Tail(@)]
    BY DEF ReadsPtr, TypeOK
<1>2. c2s[c] \in Seq(Piece) /\ c2s'[c] = Tail(c2s[c])
    BY <1>1 DEF TypeOK
<1>3. Len(c2s[c]) = k /\ k # 0
    BY <1>1, <1>2, EmptySeq DEF Pointed
<1>4. /\ Len(c2s'[c]) = k - 1
      /\ \A i \in 1..k - 1 : c2s'[c][i] = c2s[c][i + 1]
    BY <1>1, <1>2, <1>3, HeadTailProperties
<1>5. 1 \in 1..k /\ \A i \in 1..k - 1 : i + 1 \in 1..k
    BY <1>3
<1>6. got = c
    BY <1>1, <1>5 DEF Pointed
<1> QED BY <1>3, <1>4, <1>5, <1>6 DEF Pointed

(* One more is when the client has written one.                             *)
LEMMA PtrWritten ==
    ASSUME TypeOK, NEW c \in Clients, NEW k \in Nat, Pointed(c, k), WritePtr(c)
    PROVE  Pointed(c, k + 1)'
<1>1. c2s[c] \in Seq(Piece) /\ c2s'[c] = Append(c2s[c], [half |-> 0, ptr |-> c])
    BY DEF TypeOK, WritePtr
<1>2. Len(c2s[c]) = k /\ \A i \in 1..k : c2s[c][i] = [half |-> 0, ptr |-> c]
    BY DEF Pointed
<1>3. /\ Len(c2s'[c]) = k + 1 /\ c2s'[c][k + 1] = [half |-> 0, ptr |-> c]
      /\ \A i \in 1..k : c2s'[c][i] = c2s[c][i]
  <2>1. c2s[c] \in Seq(Piece \cup {[half |-> 0, ptr |-> c]})
    BY <1>1
  <2> QED BY <1>1, <1>2, <2>1, AppendProperties
<1>4. \A i \in 1..k + 1 : i \in 1..k \/ i = k + 1
    OBVIOUS
<1> QED BY <1>2, <1>3, <1>4 DEF Pointed

(* What the server does keeps the pointers those of the client it serves.   *)
LEMMA PtrServer ==
    ASSUME TypeOK, PlacesInv, ServerSide, NEW c \in Clients, Alive(c), OwnPtrs(c)
    PROVE  OwnPtrs(c)'
<1>0. /\ cst' = cst /\ (c # conn => s2c'[c] = s2c[c] /\ c2s'[c] = c2s[c])
      /\ Waiting(c)' => Waiting(c) /\ (conn = c => srv = "glob" /\ conn' = c /\ srv' = "glob")
    BY ServerFrame, WaitingStays DEF ServerSide, Next
<1>1. ASSUME Waiting(c)', conn # c PROVE s2c'[c] = <<>> /\ Pointed(c, Written(c))'
    BY <1>0, <1>1 DEF OwnPtrs, Pointed, Written
<1>2. CASE Accept \/ ReadExit \/ Die \/ Restart
  <2>1. srv' \in {"accept", "dead", "glob"} /\ ~ (srv = "glob" /\ conn = c)
    BY <1>2 DEF Accept, ReadExit, Die, Restart
  <2>2. Waiting(c)' => conn # c
    BY <1>0, <2>1
  <2> QED BY <1>0, <1>1, <2>1, <2>2 DEF OwnPtrs
<1>3. CASE PortFreed
  <2>1. UNCHANGED <<srv, conn, queue, globPtr, elemPtr, s2c, c2s>>
    BY <1>3 DEF PortFreed
  <2> QED BY <1>0, <2>1 DEF OwnPtrs, Pointed, Written, Waiting, Queued
<1>4. CASE ReadGlobPtr
  <2>1. srv = "glob" /\ srv' = "elem" /\ conn' = conn /\ s2c' = s2c
    BY <1>4 DEF ReadGlobPtr
  <2>2. CASE conn = c
    <3>1. Waiting(c)
      BY <2>1, <2>2 DEF Waiting
    <3>2. PICK p \in Pointers : ReadsPtr(globPtr, p) /\ globPtr' = p
      BY <1>4 DEF ReadGlobPtr
    <3>3. ~ Gone(c) /\ Written(c) \in Nat /\ Pointed(c, Written(c)) /\ s2c[c] = <<>>
      BY <3>1 DEF OwnPtrs, Written, Gone
    <3>4. Written(c) # 0 /\ p = c /\ Pointed(c, Written(c) - 1)'
      <4>1. PICK k \in Nat : k = Written(c)
        BY <3>3
      <4>2. k # 0 /\ p = c /\ Pointed(c, k - 1)'
        BY <2>2, <3>2, <3>3, <4>1, PtrRead
      <4> QED BY <1>0, <4>1, <4>2 DEF Pointed, Written
    <3>5. cst[c] \in {"elem", "recv"}
      BY <3>1, <3>4 DEF OwnPtrs, Written
    <3>6. ~ Waiting(c)'
      BY <1>0, <2>1, <2>2
    <3> QED BY <1>0, <2>1, <2>2, <3>2, <3>3, <3>4, <3>5, <3>6 DEF OwnPtrs
  <2> QED BY <1>0, <1>1, <2>1, <2>2 DEF OwnPtrs
<1>5. CASE ReadElementsPtr
  <2>1. srv = "elem" /\ srv' = "send" /\ conn' = conn /\ s2c' = s2c /\ globPtr' = globPtr
    BY <1>5 DEF ReadElementsPtr
  <2>2. CASE conn = c
    <3>1. /\ cst[c] \in {"elem", "recv"} /\ globPtr = c
          /\ Pointed(c, Written(c) - 1)
      BY <2>1, <2>2 DEF OwnPtrs
    <3>2. PICK p \in Pointers : ReadsPtr(elemPtr, p) /\ elemPtr' = p
      BY <1>5 DEF ReadElementsPtr
    <3>3. PICK k \in Nat : k = Written(c) - 1
      BY <3>1 DEF Written
    <3>4. k # 0 /\ p = c
      BY <2>2, <3>1, <3>2, <3>3, PtrRead DEF Gone
    <3>5. cst[c] = "recv"
      BY <3>1, <3>3, <3>4 DEF Written
    <3>6. ~ Waiting(c)'
      BY <1>0, <2>1, <2>2
    <3> QED BY <1>0, <2>1, <2>2, <3>1, <3>2, <3>4, <3>5, <3>6 DEF OwnPtrs
  <2> QED BY <1>0, <1>1, <2>1, <2>2 DEF OwnPtrs
<1>6. CASE Send \/ ReadLoaded \/ ReadTyped \/ ReadRun
  <2>1. /\ srv \in {"send", "read"} /\ srv' \in {"send", "read"}
        /\ UNCHANGED <<conn, globPtr, elemPtr>>
    BY <1>6 DEF Send, ReadLoaded, ReadTyped, ReadRun
  <2>2. Waiting(c)' => conn # c
    BY <1>0, <2>1
  <2> QED BY <1>0, <1>1, <2>1, <2>2 DEF OwnPtrs
<1> QED BY <1>2, <1>3, <1>4, <1>5, <1>6 DEF ServerSide, ServerStep

(* So does what a client does.                                              *)
LEMMA PtrClient ==
    ASSUME TypeOK, PlacesInv, NEW d \in Clients, ClientStep(d) \/ Kill(d),
           NEW c \in Clients, Alive(c), OwnPtrs(c), Alive(c)'
    PROVE  OwnPtrs(c)'
<1>0. /\ UNCHANGED <<srv, conn, globPtr, elemPtr>> /\ (Waiting(c)' => Waiting(c))
      /\ cst \in [Clients -> ClientStates]
    BY ClientFrame, WaitingStays DEF Next, TypeOK
<1>1. CASE c # d
  <2>1. cst'[c] = cst[c] /\ s2c'[c] = s2c[c] /\ c2s'[c] = c2s[c]
    BY <1>1, ClientFrame
  <2> QED BY <1>0, <2>1 DEF OwnPtrs, Pointed, Written
<1>2. CASE c = d
  <2>1. CASE Connect(c)
    <3>1. cst[c] = "start" /\ cst'[c] = "glob" /\ UNCHANGED <<s2c, c2s>>
      BY <1>0, <2>1 DEF Connect
    <3>2. Waiting(c) /\ conn # c
      BY <3>1 DEF Waiting, PlacesInv
    <3> QED BY <1>0, <3>1, <3>2 DEF OwnPtrs, Pointed, Written
  <2>2. CASE WritePtr(c)
    <3>1. /\ cst[c] \in {"glob", "elem"} /\ s2c' = s2c
          /\ cst'[c] = IF cst[c] = "glob" THEN "elem" ELSE "recv"
      BY <1>0, <2>2 DEF WritePtr
    <3>2. Written(c)' = Written(c) + 1 /\ Written(c) \in Nat
      BY <3>1 DEF Written
    <3>3. ASSUME NEW k \in Nat, Pointed(c, k) PROVE Pointed(c, k + 1)'
      BY <2>2, <3>3, PtrWritten
    <3>4. Waiting(c) => Pointed(c, Written(c))'
      BY <3>2, <3>3 DEF OwnPtrs, Pointed
    <3>5. ASSUME conn = c, srv = "elem"
          PROVE  cst[c] = "elem" /\ Pointed(c, Written(c) - 1)'
      <4>1. cst[c] = "elem" /\ Pointed(c, Written(c) - 1)
        BY <3>1, <3>5 DEF OwnPtrs
      <4>2. Written(c) - 1 = 0 /\ Written(c)' - 1 = 1
        BY <3>1, <4>1 DEF Written
      <4>3. Pointed(c, 0 + 1)'
        BY <3>3, <4>1, <4>2
      <4> QED BY <4>1, <4>2, <4>3 DEF Pointed
    <3> QED BY <1>0, <3>1, <3>4, <3>5 DEF OwnPtrs
  <2>3. CASE ClientNew(c) \/ ClientPrompt(c) \/ ClientRun(c) \/ ClientExit(c)
    <3>1. s2c[c] # <<>> /\ cst[c] = "recv" /\ cst'[c] \in {"recv", "report"}
      BY <1>0, <2>3 DEF ClientNew, ClientPrompt, ClientRun, ClientExit, Takes
    <3> QED BY <1>0, <3>1 DEF OwnPtrs
  <2>4. CASE Report(c)
    <3>1. cst[c] = "report" /\ cst'[c] = "done"
      BY <1>0, <2>4 DEF Report
    <3> QED BY <1>0, <3>1 DEF OwnPtrs
  <2>5. CASE ConnectFails(c) \/ RageQuit(c) \/ Kill(c)
    BY <1>0, <2>5 DEF ConnectFails, RageQuit, Kill, Alive
  <2> QED BY <1>2, <2>1, <2>2, <2>3, <2>4, <2>5 DEF ClientStep
<1> QED BY <1>1, <1>2

(* A client that has quit stays away.                                       *)
LEMMA QuitStays ==
    ASSUME TypeOK, [Next]_vars, NEW c \in Clients, Alive(c)'
    PROVE  Alive(c)
BY DEF TypeOK, Alive, Next, ServerStep, Accept, ReadGlobPtr, ReadElementsPtr, Send, ReadLoaded,
   ReadTyped, ReadRun, ReadExit, Die, Restart, PortFreed, ClientStep, Connect, ConnectFails,
   WritePtr, ClientNew, ClientPrompt, ClientRun, ClientExit, Takes, Report, RageQuit, Kill,
   clientVars, vars

(* The pointers the server holds are those of the client it serves.         *)
LEMMA PtrStep == Inv /\ PtrInv /\ [Next]_vars => PtrInv'
<1> SUFFICES ASSUME Inv, PtrInv, [Next]_vars, NEW c \in Clients, Alive(c)' PROVE OwnPtrs(c)'
    BY DEF PtrInv
<1>0. TypeOK /\ PlacesInv /\ Alive(c) /\ OwnPtrs(c)
    BY QuitStays DEF Inv, VerdictTravels, PtrInv
<1>1. CASE ServerSide
    BY <1>0, <1>1, PtrServer
<1>2. ASSUME NEW d \in Clients, ClientStep(d) \/ Kill(d) PROVE OwnPtrs(c)'
    BY <1>0, <1>2, PtrClient
<1>3. CASE UNCHANGED vars
    BY <1>0, <1>3 DEF vars, OwnPtrs, Pointed, Written, Waiting, Queued
<1> QED BY <1>1, <1>2, <1>3 DEF Next, ServerSide

-----------------------------------------------------------------------------
\* A client obeys the script in order.
(* A request that is sent is the next one of the script.                    *)
LEMMA SentNext ==
    ASSUME TypeOK, Send, NEW c \in Clients, conn = c, Alive(c), OwnPtrs(c),
           NEW a \in 0..ExitStep, Obeyed(c, a)
    PROVE  Obeyed(c, a)'
<1> DEFINE m == [data |-> data, op |-> Op(step), idx |-> Index(step),
                 code |-> Assembled(Index(step))]
<1>0. /\ srv = "send" /\ srv' = "read" /\ UNCHANGED <<step, conn, cst, elements>>
      /\ step \in 1..16 /\ a \in Nat /\ s2c[c] \in Seq(Request) /\ Len(s2c[c]) \in Nat
      /\ a + Len(s2c[c]) = step - 1
    BY LenProperties DEF Send, clientVars, TypeOK, Steps, Obeyed, ExitStep
<1>1. ~ Gone(c)
    BY <1>0 DEF Gone, Alive, Obeyed, ExitStep
<1>2. m.code \in Own(c)
  <2>1. globPtr = c /\ elemPtr = c
    BY <1>0 DEF OwnPtrs
  <2> QED BY <2>1 DEF Assembled, Own
<1>3. Scripted(c, m, step)
    BY <1>2 DEF Scripted
<1>4. s2c'[c] = Append(s2c[c], m)
    BY <1>1 DEF Send, TypeOK
<1>5. PICK n \in Nat : n = Len(s2c[c])
    BY <1>0
<1>6. /\ Len(s2c'[c]) = n + 1 /\ s2c'[c][n + 1] = m
      /\ \A i \in 1..n : s2c'[c][i] = s2c[c][i]
  <2>1. s2c[c] \in Seq(Request \cup {m})
    BY <1>0
  <2> HIDE DEF m
  <2> QED BY <1>4, <1>5, <2>1, AppendProperties
<1>7. a + (n + 1) = step
    BY <1>0, <1>5
<1>8. ASSUME NEW i \in 1..n + 1 PROVE a + i \in Steps /\ Scripted(c, s2c'[c][i], a + i)
  <2>1. CASE i = n + 1
    <3> HIDE DEF m
    <3> QED BY <1>0, <1>3, <1>6, <1>7, <2>1 DEF Steps
  <2>2. CASE i \in 1..n
    BY <1>5, <1>6, <2>2 DEF Obeyed
  <2> QED BY <2>1, <2>2
<1>9. \A i \in 1..Len(s2c'[c]) : a + i \in Steps /\ Scripted(c, s2c[c][i], a + i)'
    BY <1>6, <1>8 DEF Scripted, Own
<1>10. \A s \in 1..a : Op(s) = "NEW" => elements'[c][Index(s)] \in Own(c)
    BY <1>0 DEF Obeyed
<1> QED BY <1>0, <1>6, <1>7, <1>9, <1>10 DEF Obeyed, Own

(* The request a client takes is the next it has to obey.                   *)
LEMMA TakesNext ==
    ASSUME TypeOK, NEW c \in Clients, NEW op, Takes(c, op), NEW a \in 0..ExitStep, Obeyed(c, a)
    PROVE  /\ a + 1 \in Steps /\ Scripted(c, Head(s2c[c]), a + 1) /\ Head(s2c[c]).op = op
           /\ Len(s2c'[c]) = Len(s2c[c]) - 1 /\ Len(s2c[c]) \in Nat
           /\ \A i \in 1..Len(s2c'[c]) :
                a + 1 + i \in Steps /\ Scripted(c, s2c'[c][i], a + 1 + i)
<1>1. /\ s2c[c] \in Seq(Request) /\ s2c[c] # <<>> /\ s2c'[c] = Tail(s2c[c])
      /\ Head(s2c[c]).op = op
    BY DEF TypeOK, Takes
<1>2. PICK n \in Nat : n = Len(s2c[c]) /\ n # 0
    BY <1>1, EmptySeq, LenProperties
<1>3. /\ Len(s2c'[c]) = n - 1 /\ Head(s2c[c]) = s2c[c][1]
      /\ \A i \in 1..n - 1 : s2c'[c][i] = s2c[c][i + 1]
    BY <1>1, <1>2, HeadTailProperties
<1>4. 1 \in 1..n /\ \A i \in 1..n - 1 : i + 1 \in 1..n /\ a + (i + 1) = a + 1 + i
    BY <1>2 DEF ExitStep
<1>5. \A i \in 1..n : a + i \in Steps /\ Scripted(c, s2c[c][i], a + i)
    BY <1>2 DEF Obeyed
<1> QED BY <1>1, <1>2, <1>3, <1>4, <1>5

(* A client that took a request has obeyed one step more.                   *)
LEMMA ObeysNext ==
    ASSUME TypeOK, NEW c \in Clients,
           ClientNew(c) \/ ClientPrompt(c) \/ ClientRun(c) \/ ClientExit(c),
           NEW a \in 0..ExitStep, Obeyed(c, a)
    PROVE  a + 1 \in 0..ExitStep /\ Obeyed(c, a + 1)'
<1>1. PICK op : Takes(c, op) /\ (ClientExit(c) <=> op = "EXIT") /\ (ClientNew(c) <=> op = "NEW")
    BY DEF ClientNew, ClientPrompt, ClientRun, ClientExit, Takes
<1> DEFINE m == Head(s2c[c])
<1>2. /\ a + 1 \in Steps /\ Scripted(c, m, a + 1) /\ m.op = op
      /\ Len(s2c'[c]) = Len(s2c[c]) - 1 /\ Len(s2c[c]) \in Nat
      /\ \A i \in 1..Len(s2c'[c]) : a + 1 + i \in Steps /\ Scripted(c, s2c'[c][i], a + 1 + i)
    BY <1>1, TakesNext
<1>3. UNCHANGED <<srv, conn, step>>
    BY ClientFrame DEF ClientStep
<1>4. \A i \in 1..Len(s2c'[c]) : a + 1 + i \in Steps /\ Scripted(c, s2c[c][i], a + 1 + i)'
    BY <1>2 DEF Scripted, Own
<1>5. ASSUME NEW s \in 1..a + 1, Op(s) = "NEW" PROVE elements'[c][Index(s)] \in Own(c)
  <2>1. s \in 1..a \/ s = a + 1
    BY DEF ExitStep
  <2>2. s \in Steps /\ Index(s) \in Slots
    <3>1. s \in Steps
      BY <1>2 DEF Steps
    <3> QED BY <3>1, ScriptTypes
  <2>3. CASE ClientNew(c)
    <3>1. elements'[c] = [elements[c] EXCEPT ![m.idx] = m.code] /\ elements[c] \in [Slots -> Code]
      BY <2>3 DEF ClientNew, TypeOK
    <3>2. m.code \in Own(c) /\ m.idx = Index(a + 1)
      BY <1>2 DEF Scripted
    <3>3. s \in 1..a => elements[c][Index(s)] \in Own(c)
      BY <1>5 DEF Obeyed
    <3> QED BY <2>1, <2>2, <3>1, <3>2, <3>3
  <2>4. CASE ~ ClientNew(c)
    <3>1. elements' = elements
      BY <2>4 DEF ClientPrompt, ClientRun, ClientExit
    <3>2. s # a + 1
      BY <1>1, <1>2, <1>5, <2>4 DEF Scripted
    <3> QED BY <1>5, <2>1, <3>1, <3>2 DEF Obeyed
  <2> QED BY <2>3, <2>4
<1>6. cst'[c] \in {"report", "done"} => a + 1 = ExitStep
  <2>1. CASE ClientExit(c)
    BY <1>1, <1>2, <2>1 DEF Scripted, Op, ExitStep, PromptStep, Steps
  <2>2. CASE ~ ClientExit(c)
    BY <2>2 DEF ClientNew, ClientPrompt, ClientRun, Takes
  <2> QED BY <2>1, <2>2
<1>7. /\ conn' = c /\ srv' = "send" => a + 1 + Len(s2c'[c]) = step' - 1
      /\ conn' = c /\ srv' = "read" => a + 1 + Len(s2c'[c]) = step'
  <2>1. PICK n \in Nat : n = Len(s2c[c])
    BY <1>2
  <2>2. a \in Nat
    BY DEF ExitStep
  <2>4. a + 1 + (n - 1) = a + n
    <3>1. \A x, y \in Nat : x + 1 + (y - 1) = x + y
      OBVIOUS
    <3> QED BY <2>2, <3>1
  <2>3. /\ conn = c /\ srv = "send" => a + n = step - 1
        /\ conn = c /\ srv = "read" => a + n = step
    BY <2>1 DEF Obeyed
  <2> QED BY <1>2, <1>3, <2>1, <2>3, <2>4
<1>8. a + 1 \in 0..ExitStep
    BY <1>2 DEF Steps, ExitStep
<1> QED BY <1>4, <1>5, <1>6, <1>7, <1>8 DEF Obeyed, Own

(* Every step keeps clients obeying in the order of the script.             *)
LEMMA CodeStep == Inv /\ PtrInv /\ CodeInv /\ [Next]_vars => CodeInv'
<1> SUFFICES ASSUME Inv, PtrInv, CodeInv, [Next]_vars, NEW c \in Clients, Alive(c)'
             PROVE  \E a \in 0..ExitStep : Obeyed(c, a)'
    BY DEF CodeInv
<1>0. TypeOK /\ PlacesInv /\ SessionInv /\ Alive(c) /\ OwnPtrs(c)
    BY QuitStays DEF Inv, VerdictTravels, PtrInv
<1>1. PICK a \in 0..ExitStep : Obeyed(c, a)
    BY <1>0 DEF CodeInv
<1>2. ASSUME UNCHANGED <<cst, elements>>, s2c'[c] = s2c[c],
             ~ (conn' = c /\ srv' \in {"send", "read"})
      PROVE  Obeyed(c, a)'
    BY <1>1, <1>2 DEF Obeyed, Scripted, Own
<1>3. CASE ServerSide
  <2>1. UNCHANGED <<cst, elements>>
    BY <1>0, <1>3, ServerFrame
  <2>2. CASE Accept \/ ReadGlobPtr \/ ReadExit \/ Die \/ Restart
    <3>1. s2c' = s2c /\ srv' \notin {"send", "read"}
      BY <2>2 DEF Accept, ReadGlobPtr, ReadExit, Die, Restart
    <3> QED BY <1>2, <2>1, <3>1
  <2>3. CASE PortFreed
    <3>1. UNCHANGED <<srv, conn, step, s2c>>
      BY <2>3 DEF PortFreed
    <3> QED BY <1>1, <2>1, <3>1 DEF Obeyed, Scripted, Own
  <2>4. CASE ReadElementsPtr
    <3>1. s2c' = s2c /\ conn' = conn /\ srv = "elem" /\ srv' = "send" /\ step' = 1
      BY <2>4 DEF ReadElementsPtr
    <3>2. CASE conn = c
      <4>1. s2c'[c] = <<>> /\ cst[c] \in {"elem", "recv"}
        BY <1>0, <3>1, <3>2 DEF OwnPtrs
      <4>2. Obeyed(c, 0)'
        BY <2>1, <3>1, <4>1 DEF Obeyed
      <4> QED BY <4>2 DEF ExitStep
    <3>3. CASE conn # c
      BY <1>2, <2>1, <3>1, <3>3
    <3> QED BY <3>2, <3>3
  <2>5. CASE Send
    <3>1. CASE conn = c
      BY <1>0, <1>1, <2>5, <3>1, SentNext
    <3>2. CASE conn # c
      <4>1. s2c'[c] = s2c[c] /\ conn' = conn
        BY <1>0, <1>3, <2>5, <3>2, ServerFrame DEF Send
      <4> QED BY <1>2, <2>1, <3>2, <4>1
    <3> QED BY <3>1, <3>2
  <2>6. CASE ReadLoaded \/ ReadTyped \/ ReadRun
    <3>1. s2c' = s2c /\ conn' = conn /\ srv = "read" /\ srv' = "send" /\ step' = step + 1
      BY <2>6 DEF ReadLoaded, ReadTyped, ReadRun, PromptStep, RunStep, ExitStep
    <3>2. step \in Nat
      BY <1>0 DEF TypeOK, Steps
    <3> QED BY <1>1, <2>1, <3>1, <3>2 DEF Obeyed, Scripted, Own
  <2> QED BY <1>3, <2>2, <2>3, <2>4, <2>5, <2>6 DEF ServerSide, ServerStep
<1>4. ASSUME NEW d \in Clients, ClientStep(d) \/ Kill(d)
      PROVE  \E b \in 0..ExitStep : Obeyed(c, b)'
  <2>1. UNCHANGED <<srv, conn, step>>
    BY <1>0, <1>4, ClientFrame
  <2>2. CASE c # d
    <3>1. cst'[c] = cst[c] /\ elements'[c] = elements[c] /\ s2c'[c] = s2c[c]
      BY <1>0, <1>4, <2>2, ClientFrame
    <3> QED BY <1>1, <2>1, <3>1 DEF Obeyed, Scripted, Own
  <2>3. CASE c = d /\ (ClientNew(c) \/ ClientPrompt(c) \/ ClientRun(c) \/ ClientExit(c))
    <3>1. a + 1 \in 0..ExitStep /\ Obeyed(c, a + 1)'
      BY <1>0, <1>1, <2>3, ObeysNext
    <3> QED BY <3>1
  <2>4. CASE c = d /\ (Connect(c) \/ WritePtr(c) \/ Report(c))
    <3>1. /\ UNCHANGED <<elements, s2c>>
          /\ cst'[c] \in {"report", "done"} => cst[c] \in {"report", "done"}
      BY <1>0, <2>4 DEF Connect, WritePtr, Report, TypeOK
    <3> QED BY <1>1, <2>1, <3>1 DEF Obeyed, Scripted, Own
  <2>5. CASE c = d /\ (ConnectFails(c) \/ RageQuit(c) \/ Kill(c))
    BY <1>0, <2>5 DEF ConnectFails, RageQuit, Kill, Alive, TypeOK
  <2> QED BY <1>4, <2>2, <2>3, <2>4, <2>5 DEF ClientStep
<1>5. CASE UNCHANGED vars
    BY <1>1, <1>5 DEF vars, Obeyed, Scripted, Own
<1> QED BY <1>3, <1>4, <1>5 DEF Next, ServerSide

(* Nobody has been sent anything to begin with.                             *)
LEMMA WayInit == Init => PtrInv /\ CodeInv /\ TurnsInv
<1> SUFFICES ASSUME Init, NEW c \in Clients PROVE OwnPtrs(c) /\ Obeyed(c, 0) /\ InTurn(c)
    BY DEF PtrInv, CodeInv, TurnsInv, ExitStep
<1>1. /\ s2c[c] = <<>> /\ c2s[c] = <<>> /\ cst[c] = "start" /\ verdict[c] = "none"
      /\ srv = "accept"
    BY DEF Init
<1> QED BY <1>1 DEF OwnPtrs, Obeyed, InTurn, Pointed, Written

\* Element 10 needs the prompt, element 14 the cipher, the table and the rest:
\* every one of them is loaded before, with this client's addresses.
(* What a client executes was stored in this session, for its addresses     *)
(* (server.c:224-337, 372-395).                                             *)
THEOREM CodeLoaded == Spec => []CodeIsReady
<1>1. Inv /\ CodeInv => CodeIsReady
  <2> SUFFICES ASSUME TypeOK, CodeInv, NEW c \in Clients, cst[c] = "recv", s2c[c] # <<>>,
                      Head(s2c[c]).op = "EXEC", NEW i \in Needs(Head(s2c[c]).idx)
               PROVE  elements[c][i] \in Own(c)
    BY DEF Inv, CodeIsReady, Own
  <2>1. PICK a \in 0..ExitStep : Obeyed(c, a)
    BY DEF CodeInv, Alive
  <2>2. s2c[c] \in Seq(Request) /\ Head(s2c[c]) = s2c[c][1] /\ 1 \in 1..Len(s2c[c])
    BY EmptySeq, HeadTailProperties DEF TypeOK
  <2>3. a + 1 \in Steps /\ Op(a + 1) = "EXEC" /\ Head(s2c[c]).idx = Index(a + 1)
    BY <2>1, <2>2 DEF Obeyed, Scripted
  <2>4. a \in {13, 14}
    BY <2>3 DEF Op, Steps, PromptStep, ExitStep
  <2>5. i \in {Loads[s] : s \in 1..13}
    BY <2>3, <2>4, SMTT(30) DEF Needs, Index, Loads, PromptStep
  <2>6. PICK s \in 1..13 : i = Loads[s]
    BY <2>5
  <2>7. s \in 1..a /\ Op(s) = "NEW" /\ Index(s) = i
    BY <2>4, <2>6 DEF Op, Index, PromptStep
  <2> QED BY <2>1, <2>7 DEF Obeyed
<1>2. Inv /\ PtrInv /\ CodeInv /\ [Next]_vars => (PtrInv /\ CodeInv)'
    BY PtrStep, CodeStep
<1> QED BY <1>1, <1>2, WayInit, Invariance, PTL DEF Spec


\* Without early returns a read takes the whole of the reply that is there.
(* What the server reads is the reply to its request (server.c:51-53).      *)
LEMMA WholeReply ==
    ASSUME TypeOK, NEW c \in Clients, conn = c, srv = "read", InTurn(c),
           shorts' = shorts, NEW got, ReadsGlobal(got)
    PROVE  /\ Answered(c) /\ c2s'[c] = <<>>
           /\ step # ExitStep => got = c2s[c][1].data
<1>1. c2s[c] \in Seq(Piece) /\ c2s \in [Clients -> Seq(Piece)] /\ shorts \in Nat
    BY DEF TypeOK
<1>2. ~ Asked(c)
    BY DEF Asked, ReadsGlobal, Gone
<1>3. Answered(c)
    BY <1>2 DEF InTurn
<1>4. Len(c2s[c]) = 2 /\ c2s[c] # <<>> /\ c2s[c][1].half = 1
    BY <1>3 DEF Answered
<1>5. c2s' = [c2s EXCEPT ![c] = <<>>] \/ c2s' = [c2s EXCEPT ![c] = Tail(Tail(@))]
    BY <1>1, <1>4 DEF ReadsGlobal
<1>6. Tail(Tail(c2s[c])) = <<>>
  <2> DEFINE t == Tail(c2s[c])
  <2>1. t \in Seq(Piece) /\ Len(t) = 1
    BY <1>1, <1>4, HeadTailProperties
  <2>2. t # <<>>
    <3>1. Len(<<>>) = 0
      OBVIOUS
    <3> HIDE DEF t
    <3> QED BY <2>1, <3>1, SMTT(30)
  <2>3. Tail(t) \in Seq(Piece) /\ Len(Tail(t)) = 0
    <3> HIDE DEF t
    <3> QED BY <2>1, <2>2, HeadTailProperties
  <2> QED BY <2>3, EmptySeq
<1>7. step # ExitStep => got = c2s[c][1].data
    BY <1>1, <1>3, <1>4 DEF ReadsGlobal, Answered, Gone
<1> QED BY <1>1, <1>3, <1>5, <1>6, <1>7

(* A client that answers the server it is served by answers its request.    *)
LEMMA AnswersInTurn ==
    ASSUME TypeOK, PlacesInv, SessionInv, NEW c \in Clients, InTurn(c), Kept(c),
           conn = c, srv = "read",
           ClientNew(c) \/ ClientPrompt(c) \/ ClientRun(c) \/ ClientExit(c)
    PROVE  InTurn(c)'
<1>1. PICK op : Takes(c, op) /\ (ClientExit(c) <=> op = "EXIT")
                /\ (ClientPrompt(c) => op = "EXEC")
    BY DEF ClientNew, ClientPrompt, ClientRun, ClientExit, Takes
<1>2. s2c[c] \in Seq(Request) /\ s2c \in [Clients -> Seq(Request)] /\ s2c[c] # <<>>
      /\ Head(s2c[c]) = s2c[c][1]
    BY <1>1, HeadTailProperties DEF TypeOK, Takes
<1>3. Asked(c)
    BY <1>2 DEF InTurn, Answered
<1>4. s2c'[c] = <<>>
  <2>1. s2c'[c] = Tail(s2c[c])
    BY <1>1, <1>2 DEF Takes
  <2>2. Tail(s2c[c]) \in Seq(Request) /\ Len(Tail(s2c[c])) = 0
    BY <1>2, <1>3, HeadTailProperties DEF Asked
  <2> QED BY <2>1, <2>2, EmptySeq
<1>14. ClientPrompt(c) => step = PromptStep
  <2>1. ClientPrompt(c) => Op(step) = "EXEC" /\ Index(step) = 10
    BY <1>2, <1>3 DEF ClientPrompt, Asked, Takes
  <2> QED BY <2>1 DEF Op, Index, PromptStep, ExitStep
<1>15. UNCHANGED left
    BY ClientFrame DEF ClientStep
<1>5. PICK d : /\ Replies(c, d)
               /\ ClientPrompt(c) => d.head = Overlaid(typed'[c], left[c])
  <2>1. CASE ClientPrompt(c)
    <3> DEFINE old == Head(s2c[c]).data
    <3>1. PICK input : /\ Replies(c, [old EXCEPT !.head = Overlaid(input, old.head)])
                       /\ typed' = [typed EXCEPT ![c] = input]
      BY <2>1 DEF ClientPrompt
    <3>2. old.head = left[c]
      BY <1>2, <1>14, <2>1 DEF Kept, PromptStep
    <3>3. [old EXCEPT !.head = Overlaid(input, old.head)].head = Overlaid(input, old.head)
      <4>1. old \in Data
        BY <1>1, TakesTypes DEF Request
      <4> QED BY <4>1 DEF Data
    <3>4. typed'[c] = input
      BY <3>1 DEF TypeOK
    <3> QED BY <3>1, <3>2, <3>3, <3>4
  <2>2. CASE ~ ClientPrompt(c)
    BY <2>2 DEF ClientNew, ClientRun, ClientExit
  <2> QED BY <2>1, <2>2
<1>6. /\ Len(c2s'[c]) = 2 /\ c2s'[c][1] = [half |-> 1, data |-> d]
      /\ c2s'[c][2] = [half |-> 2, data |-> d]
  <2> DEFINE reply == <<[half |-> 1, data |-> d], [half |-> 2, data |-> d]>>
  <2>1. c2s' = [c2s EXCEPT ![c] = @ \o reply] /\ c2s \in [Clients -> Seq(Piece)]
    BY <1>5 DEF Replies, Closed, TypeOK
  <2>2. c2s[c] = <<>>
    BY <1>3 DEF Asked
  <2>3. c2s'[c] = <<>> \o reply
    BY <2>1, <2>2
  <2>4. <<>> \o reply = reply
    OBVIOUS
  <2> QED BY <2>3, <2>4
<1>7. UNCHANGED <<srv, conn, step, verdict>>
    BY ClientFrame DEF ClientStep
<1>8. step = PromptStep => ClientPrompt(c)
    BY <1>1, <1>2, <1>3 DEF Asked, Op, Index, Takes, PromptStep, ExitStep,
       ClientNew, ClientRun, ClientExit
<1>9. step # ExitStep => cst'[c] = "recv"
  <2>1. step # ExitStep => ~ ClientExit(c)
    <3>1. step \in Steps
      BY DEF TypeOK
    <3>2. Op(step) = op
      BY <1>1, <1>2, <1>3 DEF Asked, Takes
    <3> QED BY <1>1, <3>1, <3>2 DEF Op, Steps, PromptStep, ExitStep
  <2>2. ~ ClientExit(c) => cst' = cst
    BY DEF ClientNew, ClientPrompt, ClientRun
  <2> QED BY <1>3, <2>1, <2>2 DEF Asked
<1>10. Answered(c)'
    BY <1>4, <1>5, <1>6, <1>7, <1>8, <1>9, <1>15 DEF Answered
<1>11. ClientPrompt(c) => verdict[c] = "none"
  <2>1. step = PromptStep => verdict[c] = "none"
    BY DEF SessionInv, PromptStep
  <2> QED BY <1>14, <2>1
<1>12. ~ ClientPrompt(c) => typed' = typed
    BY DEF ClientNew, ClientRun, ClientExit
<1>13. verdict'[c] # "none" =>
           verdict'[c] = Judged(Flipped(Overlaid(typed'[c], left'[c])))
    BY <1>7, <1>11, <1>12, <1>15 DEF InTurn
<1> QED BY <1>7, <1>10, <1>13 DEF InTurn, Flipped, Judged, Overlaid

(* Early returns are counted for good.                                      *)
LEMMA ShortsGrow ==
    ASSUME TypeOK, [Next]_vars, shorts' = 0
    PROVE  shorts = 0
<1>1. shorts' = shorts \/ shorts' = shorts + 1
    BY DEF Next, ServerStep, Accept, ReadGlobPtr, ReadElementsPtr, Send, ReadLoaded, ReadTyped,
       ReadRun, ReadExit, ReadsGlobal, Die, Restart, PortFreed, ClientStep, Connect,
       ConnectFails, WritePtr, ClientNew, ClientPrompt, ClientRun, ClientExit, Report,
       RageQuit, Kill, vars
<1> QED BY <1>1 DEF TypeOK

(* Every step keeps server and clients taking turns.                        *)
LEMMA TurnsStep == Inv /\ PtrInv /\ TurnsInv /\ KeptInv /\ [Next]_vars => TurnsInv'
<1> SUFFICES ASSUME Inv, PtrInv, TurnsInv, KeptInv, [Next]_vars, shorts' = 0,
                    NEW c \in Clients, Alive(c)'
             PROVE  InTurn(c)'
    BY DEF TurnsInv
<1>0. /\ TypeOK /\ PlacesInv /\ SessionInv /\ Alive(c) /\ OwnPtrs(c)
      /\ shorts \in Nat /\ c # NoClient
    BY QuitStays, ClientsAssumption DEF Inv, VerdictTravels, PtrInv, TypeOK
<1>1. shorts = 0
    BY <1>0, ShortsGrow
<1>2. InTurn(c) /\ Kept(c)
    BY <1>0, <1>1 DEF TurnsInv, KeptInv
<1>3. CASE UNCHANGED vars
    BY <1>2, <1>3 DEF vars, InTurn, Asked, Answered
<1>4. CASE ServerSide
  <2>1. UNCHANGED <<cst, typed>> /\ (c # conn => s2c'[c] = s2c[c] /\ c2s'[c] = c2s[c])
    BY <1>0, <1>4, ServerFrame
  <2>2. CASE conn # c
    <3>3. left'[c] = left[c] \/ verdict[c] = "none"
      <4>1. CASE Accept
        <5>1. queue \in Seq(Clients) /\ conn' = queue[1] /\ 1 \in 1..Len(queue)
          BY <1>0, <4>1, EmptySeq, HeadTailProperties DEF Accept, TypeOK
        <5>2. conn' # c => left'[c] = left[c]
          BY <1>0, <1>4, ServerFrame DEF TypeOK
        <5> QED BY <1>0, <5>1, <5>2 DEF PlacesInv
      <4> QED BY <1>0, <1>4, <4>1, ServerFrame
    <3>1. verdict'[c] = verdict[c] /\ (conn' = c => srv' = "glob")
      BY <1>0, <1>4, <2>2 DEF ServerSide, ServerStep, Accept, ReadGlobPtr, ReadElementsPtr, Send,
         ReadLoaded, ReadTyped, ReadRun, ReadExit, Die, Restart, PortFreed, TypeOK
    <3> QED BY <1>2, <2>1, <2>2, <3>1, <3>3 DEF InTurn
  <2>10. conn = c => left' = left
    BY <1>0, <1>4, ServerFrame DEF Accept, PlacesInv, InSession
  <2>3. CASE conn = c /\ (Accept \/ Restart)
    BY <1>0, <2>3 DEF Accept, Restart, PlacesInv, InSession
  <2>4. CASE conn = c /\ PortFreed
    BY <1>2, <2>1, <2>4, <2>10 DEF PortFreed, InTurn, Asked, Answered
  <2>5. CASE conn = c /\ ReadGlobPtr
    BY <1>0, <2>5 DEF ReadGlobPtr, SessionInv, InTurn
  <2>6. CASE conn = c /\ ReadElementsPtr
    <3>1. srv = "elem" /\ srv' = "send" /\ UNCHANGED <<conn, verdict, s2c>> /\ verdict[c] = "none"
      BY <1>0, <2>6 DEF ReadElementsPtr, SessionInv
    <3>2. s2c[c] = <<>> /\ cst[c] \in {"elem", "recv"} /\ Pointed(c, Written(c) - 1)
      BY <1>0, <2>6, <3>1 DEF OwnPtrs
    <3>3. PICK p \in Pointers : ReadsPtr(elemPtr, p)
      BY <2>6 DEF ReadElementsPtr
    <3>4. PICK k \in Nat : k = Written(c) - 1
      BY <3>2 DEF Written
    <3>5. k # 0 /\ Pointed(c, k - 1)'
      BY <1>0, <2>6, <3>2, <3>3, <3>4, PtrRead DEF Gone
    <3>6. cst[c] = "recv" /\ k - 1 = 0
      BY <3>2, <3>4, <3>5 DEF Written
    <3>7. c2s'[c] = <<>>
      <4>1. TypeOK'
        BY TypeStep DEF Inv
      <4>2. c2s'[c] \in Seq(Piece) /\ Len(c2s'[c]) = 0
        BY <3>5, <3>6, <4>1 DEF TypeOK, Pointed
      <4> QED BY <4>2, EmptySeq
    <3> QED BY <2>1, <2>6, <3>1, <3>2, <3>6, <3>7 DEF InTurn
  <2>7. CASE conn = c /\ Send
    <3> DEFINE m == [data |-> data, op |-> Op(step), idx |-> Index(step),
                     code |-> Assembled(Index(step))]
    <3>1. /\ srv = "send" /\ srv' = "read" /\ UNCHANGED <<conn, step, verdict, c2s>>
      BY <2>7 DEF Send
    <3>2. s2c[c] = <<>> /\ c2s[c] = <<>> /\ cst[c] = "recv"
      BY <1>2, <2>7, <3>1 DEF InTurn
    <3>3. s2c'[c] = Append(<<>>, m)
      BY <1>0, <2>7, <3>2 DEF Send, Gone, TypeOK
    <3>4. Append(<<>>, m) = <<m>>
      OBVIOUS
    <3>5. Len(s2c'[c]) = 1 /\ s2c'[c][1] = m
      BY <3>3, <3>4
    <3>6. Asked(c)'
      BY <2>1, <3>1, <3>2, <3>5 DEF Asked
    <3> QED BY <1>2, <2>1, <2>7, <2>10, <3>1, <3>6 DEF InTurn
  <2>8. CASE conn = c /\ (ReadLoaded \/ ReadTyped \/ ReadRun \/ ReadExit)
    <3>1. PICK got \in Data :
            /\ ReadsGlobal(got)
            /\ ReadTyped => verdict' = [verdict EXCEPT ![c] = Judged(Flipped(got.head))]
      BY <2>8 DEF ReadLoaded, ReadTyped, ReadRun, ReadExit
    <3>2. /\ srv = "read" /\ srv' \in {"send", "accept"} /\ s2c' = s2c
          /\ srv' = "send" => ~ ReadExit /\ step # ExitStep /\ conn' = c
          /\ ReadTyped => step = PromptStep
          /\ ~ ReadTyped => verdict' = verdict
      BY <2>8 DEF ReadLoaded, ReadTyped, ReadRun, ReadExit, PromptStep, RunStep, ExitStep
    <3>3. /\ Answered(c) /\ c2s'[c] = <<>> /\ (step # ExitStep => got = c2s[c][1].data)
      BY <1>0, <1>1, <1>2, <2>8, <3>1, <3>2, WholeReply
    <3>4. srv' = "send" => cst[c] = "recv"
      BY <3>2, <3>3 DEF Answered
    <3>5. verdict'[c] # "none" =>
             verdict'[c] = Judged(Flipped(Overlaid(typed[c], left[c])))
      <4>1. CASE ReadTyped
        <5>1. verdict'[c] = Judged(Flipped(got.head))
          BY <1>0, <3>1, <4>1 DEF TypeOK
        <5>2. got.head = Overlaid(typed[c], left[c])
          BY <3>2, <3>3, <4>1 DEF Answered, PromptStep, ExitStep
        <5> QED BY <5>1, <5>2
      <4>2. CASE ~ ReadTyped
        BY <1>2, <3>2, <4>2 DEF InTurn
      <4> QED BY <4>1, <4>2
    <3> QED BY <2>1, <2>8, <2>10, <3>2, <3>3, <3>4, <3>5 DEF InTurn, Answered, Judged, Flipped, Overlaid
  <2>9. CASE conn = c /\ Die
    <3>1. srv = "send" /\ srv' = "dead" /\ UNCHANGED <<verdict, s2c>>
      BY <2>9 DEF Die
    <3> QED BY <1>2, <2>1, <2>9, <2>10, <3>1 DEF InTurn
  <2> QED BY <1>4, <2>2, <2>3, <2>4, <2>5, <2>6, <2>7, <2>8, <2>9 DEF ServerSide, ServerStep
<1>5. ASSUME NEW d \in Clients, ClientStep(d) \/ Kill(d) PROVE InTurn(c)'
  <2>1. UNCHANGED <<srv, conn, step, verdict, left>>
    BY <1>0, <1>5, ClientFrame
  <2>2. CASE c # d
    <3>1. cst'[c] = cst[c] /\ typed'[c] = typed[c] /\ s2c'[c] = s2c[c] /\ c2s'[c] = c2s[c]
      BY <1>0, <1>5, <2>2, ClientFrame
    <3> QED BY <1>2, <2>1, <3>1 DEF InTurn, Asked, Answered
  <2>3. CASE c = d /\ (ConnectFails(c) \/ RageQuit(c) \/ Kill(c))
    BY <1>0, <2>3 DEF ConnectFails, RageQuit, Kill, Alive, TypeOK
  <2>4. CASE c = d /\ Connect(c)
    <3>1. verdict[c] = "none" /\ conn # c
      BY <1>0, <2>4 DEF Connect, PlacesInv
    <3> QED BY <2>1, <3>1 DEF InTurn
  <2>5. CASE c = d /\ WritePtr(c)
    <3>1. cst[c] \in {"glob", "elem"} /\ UNCHANGED <<typed, s2c>>
      BY <2>5 DEF WritePtr
    <3>2. ~ (conn = c /\ srv \in {"send", "read"})
      BY <1>0, <3>1 DEF OwnPtrs
    <3> QED BY <1>2, <2>1, <3>1, <3>2 DEF InTurn
  <2>6. CASE c = d /\ Report(c)
    <3>1. cst[c] = "report" /\ UNCHANGED <<typed, s2c, c2s>>
      BY <2>6 DEF Report
    <3> QED BY <1>2, <2>1, <3>1 DEF InTurn, Asked, Answered
  <2>7. CASE c = d /\ (ClientNew(c) \/ ClientPrompt(c) \/ ClientRun(c) \/ ClientExit(c))
    <3>1. s2c[c] # <<>>
      BY <2>7 DEF ClientNew, ClientPrompt, ClientRun, ClientExit, Takes
    <3>2. CASE conn # c
      <4>1. verdict[c] = "none"
        BY <1>2, <3>1, <3>2 DEF InTurn
      <4> QED BY <2>1, <3>2, <4>1 DEF InTurn
    <3>3. CASE conn = c /\ srv = "read"
      BY <1>0, <1>2, <2>7, <3>3, AnswersInTurn
    <3>4. CASE conn = c /\ srv # "read"
      <4>1. srv \in {"glob", "elem"}
        BY <1>0, <1>2, <3>1, <3>4 DEF InTurn, PlacesInv, InSession
      <4>2. verdict[c] = "none"
        BY <1>0, <3>4, <4>1 DEF SessionInv
      <4> QED BY <2>1, <4>1, <4>2 DEF InTurn
    <3> QED BY <3>2, <3>3, <3>4
  <2> QED BY <1>5, <2>2, <2>3, <2>4, <2>5, <2>6, <2>7 DEF ClientStep
<1> QED BY <1>3, <1>4, <1>5 DEF Next, ServerSide

(* Every step keeps the head of the accept until the prompt is answered.    *)
LEMMA KeptStep == Inv /\ PtrInv /\ TurnsInv /\ KeptInv /\ [Next]_vars => KeptInv'
<1> SUFFICES ASSUME Inv, PtrInv, TurnsInv, KeptInv, [Next]_vars, shorts' = 0,
                    NEW c \in Clients, Alive(c)', conn' = c
             PROVE  Kept(c)'
    BY DEF KeptInv, Kept
<1>0. /\ TypeOK /\ PlacesInv /\ SessionInv /\ Alive(c) /\ OwnPtrs(c)
      /\ shorts = 0 /\ c # NoClient
    BY QuitStays, ShortsGrow, ClientsAssumption DEF Inv, VerdictTravels, PtrInv
<1>1. InTurn(c) /\ Kept(c)
    BY <1>0 DEF TurnsInv, KeptInv
<1>2. CASE UNCHANGED vars
    BY <1>1, <1>2 DEF vars, Kept
<1>3. CASE ServerSide
  <2>1. CASE Accept
    <3>1. srv' = "glob" /\ data' = data /\ left'[c] = data.head
      BY <1>0, <1>3, <2>1, ServerFrame DEF Accept, TypeOK, PlacesInv, InSession
    <3> QED BY <3>1 DEF Kept
  <2>2. ~ Accept => conn = c /\ left' = left /\ ~ ReadExit /\ ~ Restart /\ ~ Die
    BY <1>0, <1>3, ServerFrame DEF ServerSide, ServerStep, ReadGlobPtr, ReadElementsPtr, Send,
       ReadLoaded, ReadTyped, ReadRun, ReadExit, Die, Restart, PortFreed, PlacesInv, InSession
  <2>3. CASE PortFreed
    BY <1>1, <2>2, <2>3 DEF PortFreed, Kept, Accept
  <2>4. CASE ReadGlobPtr \/ ReadElementsPtr
    <3>1. ~ Accept /\ srv \in {"glob", "elem"} /\ srv' \in {"elem", "send"} /\ data' = data
      BY <2>4 DEF ReadGlobPtr, ReadElementsPtr, Accept
    <3> QED BY <1>1, <2>2, <3>1 DEF Kept
  <2>5. CASE Send
    <3> DEFINE m == [data |-> data, op |-> Op(step), idx |-> Index(step),
                     code |-> Assembled(Index(step))]
    <3>1. /\ ~ Accept /\ srv = "send" /\ srv' = "read" /\ UNCHANGED <<step, c2s>>
      BY <2>5 DEF Send, Accept
    <3>2. s2c[c] = <<>> /\ c2s[c] = <<>> /\ cst[c] = "recv"
      BY <1>1, <2>2, <3>1 DEF InTurn
    <3>3. s2c'[c] = Append(<<>>, m)
      BY <1>0, <2>2, <2>5, <3>1, <3>2 DEF Send, Gone, TypeOK
    <3>4. s2c'[c][1] = m
      BY <3>3
    <3> QED BY <1>1, <2>2, <3>1, <3>2, <3>4 DEF Kept
  <2>6. CASE ReadLoaded
    <3>1. PICK got \in Data : ReadsGlobal(got) /\ data' = got
      BY <2>6 DEF ReadLoaded
    <3>2. /\ ~ Accept /\ srv = "read" /\ srv' = "send" /\ step < PromptStep
      BY <2>6 DEF ReadLoaded, Accept
    <3>3. Answered(c) /\ (step # ExitStep => got = c2s[c][1].data)
      BY <1>0, <1>1, <2>2, <3>1, <3>2, WholeReply
    <3>4. c2s[c] # <<>> /\ step # ExitStep
      <4>1. Len(<<>>) = 0
        OBVIOUS
      <4> QED BY <1>0, <3>2, <3>3, <4>1 DEF Answered, PromptStep, ExitStep
    <3> QED BY <1>1, <2>2, <3>1, <3>2, <3>3, <3>4 DEF Kept
  <2>7. CASE ReadTyped \/ ReadRun
    <3>1. srv' = "send" /\ ~ (step' <= PromptStep)
      BY <2>7 DEF ReadTyped, ReadRun, PromptStep, RunStep, ExitStep
    <3> QED BY <3>1 DEF Kept
  <2> QED BY <1>3, <2>1, <2>2, <2>3, <2>4, <2>5, <2>6, <2>7 DEF ServerSide, ServerStep
<1>4. ASSUME NEW d \in Clients, ClientStep(d) \/ Kill(d) PROVE Kept(c)'
  <2>1. UNCHANGED <<srv, conn, step, left, data>>
    BY <1>0, <1>4, ClientFrame
  <2>2. CASE c # d
    <3>1. s2c'[c] = s2c[c] /\ c2s'[c] = c2s[c]
      BY <1>0, <1>4, <2>2, ClientFrame
    <3> QED BY <1>1, <2>1, <3>1 DEF Kept
  <2>3. CASE c = d /\ (ConnectFails(c) \/ RageQuit(c) \/ Kill(c))
    BY <1>0, <2>3 DEF ConnectFails, RageQuit, Kill, Alive, TypeOK
  <2>4. CASE c = d /\ (Connect(c) \/ Report(c))
    <3>1. UNCHANGED <<s2c, c2s>>
      BY <2>4 DEF Connect, Report
    <3> QED BY <1>1, <2>1, <3>1 DEF Kept
  <2>5. CASE c = d /\ WritePtr(c)
    <3>1. ~ (srv \in {"send", "read"})
      BY <1>0, <2>1, <2>5 DEF WritePtr, OwnPtrs
    <3> QED BY <1>1, <2>1, <3>1 DEF Kept
  <2>6. CASE /\ c = d /\ srv = "read"
             /\ ClientNew(c) \/ ClientPrompt(c) \/ ClientRun(c) \/ ClientExit(c)
    <3>1. PICK op : Takes(c, op) /\ (ClientNew(c) <=> op = "NEW")
      BY <2>6 DEF ClientNew, ClientPrompt, ClientRun, ClientExit, Takes
    <3>2. /\ s2c[c] \in Seq(Request) /\ s2c[c] # <<>> /\ Head(s2c[c]) = s2c[c][1]
          /\ s2c'[c] = Tail(s2c[c])
      BY <1>0, <3>1, HeadTailProperties DEF TypeOK, Takes
    <3>3. Asked(c)
      BY <1>1, <2>1, <2>6, <3>2 DEF InTurn, Answered
    <3>4. s2c'[c] = <<>>
      <4>1. Tail(s2c[c]) \in Seq(Request) /\ Len(Tail(s2c[c])) = 0
        BY <3>2, <3>3, HeadTailProperties DEF Asked
      <4> QED BY <3>2, <4>1, EmptySeq
    <3>5. step < PromptStep => c2s'[c][1].data.head = left[c]
      <4> SUFFICES ASSUME step < PromptStep PROVE c2s'[c][1].data.head = left[c]
        OBVIOUS
      <4> DEFINE m == Head(s2c[c]).data
                 reply == <<[half |-> 1, data |-> m], [half |-> 2, data |-> m]>>
      <4>1. ClientNew(c)
        BY <3>1, <3>2, <3>3 DEF Asked, Takes, Op
      <4>2. c2s' = [c2s EXCEPT ![c] = @ \o reply] /\ c2s \in [Clients -> Seq(Piece)]
        BY <1>0, <2>1, <4>1 DEF ClientNew, Replies, Closed, TypeOK
      <4>3. c2s'[c] = <<>> \o reply
        BY <3>3, <4>2 DEF Asked
      <4>4. <<>> \o reply = reply
        OBVIOUS
      <4>5. c2s'[c][1].data = m
        BY <4>3, <4>4
      <4>6. m.head = left[c]
        BY <1>0, <1>1, <2>1, <2>6, <3>2 DEF Kept, TypeOK, Steps, PromptStep
      <4> QED BY <4>5, <4>6
    <3> QED BY <2>1, <2>6, <3>4, <3>5 DEF Kept
  <2>7. CASE c = d /\ srv # "read"
             /\ (ClientNew(c) \/ ClientPrompt(c) \/ ClientRun(c) \/ ClientExit(c))
    BY <1>1, <2>1, <2>7 DEF Kept
  <2> QED BY <1>4, <2>2, <2>3, <2>4, <2>5, <2>6, <2>7 DEF ClientStep
<1> QED BY <1>2, <1>3, <1>4 DEF Next, ServerSide

\* As long as nobody's read() returns early, each reply is to the request
\* before it: no head but that of the accept comes to the prompt, and what the
\* server judges is what this user typed over it.
(* A full input is judged alone, a short one with what the session before   *)
(* left in global_data (server.c:51-53, 373-393).                           *)
THEOREM InputJudged == Spec => []VerdictIsAboutInput
<1>1. TypeOK /\ TurnsInv => VerdictIsAboutInput
  <2> SUFFICES ASSUME TypeOK, TurnsInv, shorts = 0, NEW c \in Clients,
                      verdict[c] # "none", cst[c] # "quit"
               PROVE  verdict[c] = Judged(Flipped(IF typed[c].halves = 2 THEN typed[c].text
                                                  ELSE Overlaid(typed[c], left[c])))
    BY DEF VerdictIsAboutInput
  <2>1. verdict[c] = Judged(Flipped(Overlaid(typed[c], left[c])))
    BY DEF TurnsInv, InTurn, Alive
  <2>2. typed[c].halves = 2 => Overlaid(typed[c], left[c]) = typed[c].text
    BY OverlaidTypes DEF TypeOK
  <2> QED BY <2>1, <2>2
<1>2. Inv /\ PtrInv /\ TurnsInv /\ KeptInv /\ [Next]_vars => (PtrInv /\ TurnsInv /\ KeptInv)'
    BY PtrStep, TurnsStep, KeptStep
<1>3. Init => KeptInv
    BY ClientsAssumption DEF Init, KeptInv, Kept
<1>4. Inv => TypeOK
    BY DEF Inv
<1> QED BY <1>1, <1>2, <1>3, <1>4, WayInit, Invariance, PTL DEF Spec
=============================================================================
