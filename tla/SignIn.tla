------------------------------- MODULE SignIn -------------------------------
(***************************************************************************)
(* The sign-in service of Reverse/client: one single-threaded server       *)
(* (server.c), restarted by docker/init.sh when it dies, and clients       *)
(* (client.c) that connect, receive code and data to store in numbered     *)
(* elements, execute some of it, and finally tell the user a verdict.      *)
(*                                                                         *)
(* The 256-byte global_data, sent with every request and every reply, is   *)
(* kept to what the program tells apart: bytes 0..15 ("front", the two     *)
(* blocks the server deciphers), 16..31 ("back", the two blocks it         *)
(* enciphers), and byte 255 ("last", nonzero for a right answer).          *)
(***************************************************************************)
EXTENDS Naturals, Sequences

CONSTANTS Clients,      \* the client processes; each runs main() once
          NoClient,     \* no connection
          Null,         \* the value of an uninitialised pointer
          Block,        \* the values a 16-byte half can have
          Enc, Dec,     \* myencrypt, mydecrypt under the fixed key
          Flip,         \* the XOR with 0x1F
          Answer,       \* the 32 constant bytes the server sends as element 7
          Zero,         \* 32 zero bytes
          FlagText,     \* the first 32 bytes of ./flag
          NoFlagText,   \* the first 32 bytes of the "Failed to open" message
          Typable,      \* the 32-byte inputs users type
          MayDie,       \* the clients that may be killed
          MaxShort,     \* bound: how often a read() returns a part of what was sent
          CloseLingers  \* whether a port the server closed first stays taken

Half == [front : Block, back : Block]

ASSUME ClientsAssumption == {NoClient, Null, "free", "ret"} \cap Clients = {}
ASSUME DataAssumption ==
    {Answer, Zero, FlagText, NoFlagText} \cup Typable \subseteq Half
ASSUME FunctionsAssumption == {Enc, Dec, Flip} \subseteq [Block -> Block]
ASSUME SwitchAssumption ==
    MaxShort \in Nat /\ CloseLingers \in BOOLEAN /\ MayDie \subseteq Clients
ASSUME CipherAssumption == \A b \in Block : Enc[Dec[b]] = b /\ Dec[Enc[b]] = b

Verdicts == {"right", "wrong"}
Data == [head : Half, last : Verdicts]
Input == [text : Half, halves : 0..2]       \* the first halves of a text

\* What an input makes of the head it is typed over.
Overlaid(in, head) == [front |-> IF in.halves >= 1 THEN in.text.front ELSE head.front,
                       back  |-> IF in.halves = 2 THEN in.text.back ELSE head.back]

(***************************************************************************)
(* The server's script: one request per step.  Thirteen loads, in the      *)
(* order of setup_builtin_functions and load_executable_functions, then    *)
(* the three requests of run_validation.                                   *)
(***************************************************************************)
Loads == <<400, 401, 402, 7, 8, 9, 10, 11, 12, 13, 14, 200, 300>>
Slots == {400, 401, 402, 7, 8, 9, 10, 11, 12, 13, 14, 200, 300}
PromptStep == 14
RunStep    == 15
ExitStep   == 16
Steps      == 1..16

Free == "free"      \* an address the code in an element does not contain
Pointers == Clients \cup {Null}
Addresses == Pointers \cup {Free, "ret"}
Code == [glob : Addresses, elem : Addresses]
Ret == [glob |-> "ret", elem |-> "ret"]     \* an element filled with 0xC3

Op(s) == IF s < PromptStep THEN "NEW" ELSE IF s < ExitStep THEN "EXEC" ELSE "EXIT"
Index(s) == IF s < PromptStep THEN Loads[s]
            ELSE IF s = PromptStep THEN 10 ELSE 14
UsesGlob(i) == i \in {10, 13}
UsesElem(i) == i \in {10, 13, 14}

Request == [data : Data, op : {"NEW", "EXEC", "EXIT"}, idx : Slots, code : Code]
Piece == [half : {0}, ptr : Clients] \cup [half : {1, 2}, data : Data]

VARIABLES
    \* the server process and its supervisor
    srv,        \* "accept" | "glob" | "elem" | "send" | "read" | "dead"
    port,       \* "service", or "other" when bind() failed
    taken,      \* an earlier connection still occupies the service port
    queue,      \* connections waiting in the backlog
    conn,       \* connectfd
    globPtr, elemPtr, data, step,
    verdict,    \* verdict[c]: the value of "correct" in the session of c
    left,       \* left[c]: the head that global_data had when c was accepted
    \* the client processes
    cst,        \* where main() of a client is
    cdata,      \* its global_data
    elements,   \* its elements
    typed,      \* what its user typed: the input, and how many halves of it
    banner,     \* what the executed element 14 printed
    report,     \* what main() printed
    \* the two directions of each connection
    s2c, c2s,
    shorts      \* how often a read() returned early

serverVars == <<srv, port, taken, queue, conn, globPtr, elemPtr, data, step, verdict, left>>
clientVars == <<cst, cdata, elements, typed, banner, report>>
vars == <<srv, port, taken, queue, conn, globPtr, elemPtr, data, step, verdict, left,
          cst, cdata, elements, typed, banner, report, s2c, c2s, shorts>>

ClientStates == {"start", "glob", "elem", "recv", "report", "done", "quit"}

TypeOK ==
    /\ srv \in {"accept", "glob", "elem", "send", "read", "dead"}
    /\ port \in {"service", "other"} /\ taken \in BOOLEAN
    /\ queue \in Seq(Clients) /\ conn \in Clients \cup {NoClient}
    /\ globPtr \in Pointers /\ elemPtr \in Pointers
    /\ data \in Data /\ step \in Steps
    /\ verdict \in [Clients -> Verdicts \cup {"none"}]
    /\ left \in [Clients -> Half]
    /\ cst \in [Clients -> ClientStates]
    /\ cdata \in [Clients -> Data]
    /\ elements \in [Clients -> [Slots -> Code]]
    /\ typed \in [Clients -> Input]
    /\ banner \in [Clients -> Verdicts \cup {"none"}]
    /\ report \in [Clients -> Verdicts \cup {"none"}]
    /\ s2c \in [Clients -> Seq(Request)]
    /\ c2s \in [Clients -> Seq(Piece)]
    /\ shorts \in Nat

Init ==
    /\ srv = "accept" /\ port = "service" /\ taken = FALSE
    /\ queue = <<>> /\ conn = NoClient
    /\ globPtr = Null /\ elemPtr = Null
    /\ data = [head |-> Zero, last |-> "wrong"] /\ step = 1
    /\ verdict = [c \in Clients |-> "none"]
    /\ left = [c \in Clients |-> Zero]
    /\ cst = [c \in Clients |-> "start"]
    /\ cdata = [c \in Clients |-> [head |-> Zero, last |-> "wrong"]]
    /\ elements = [c \in Clients |-> [i \in Slots |-> Ret]]
    /\ typed = [c \in Clients |-> [text |-> Zero, halves |-> 0]]
    /\ banner = [c \in Clients |-> "none"]
    /\ report = [c \in Clients |-> "none"]
    /\ s2c = [c \in Clients |-> <<>>]
    /\ c2s = [c \in Clients |-> <<>>]
    /\ shorts = 0

Gone(c) == cst[c] \in {"done", "quit"}      \* c's end of the socket is closed

(***************************************************************************)
(* The server.                                                             *)
(***************************************************************************)
Accept ==
    /\ srv = "accept" /\ queue # <<>>
    /\ conn' = Head(queue) /\ queue' = Tail(queue)
    /\ srv' = "glob"
    /\ left' = [left EXCEPT ![Head(queue)] = data.head]
    /\ UNCHANGED <<port, taken, globPtr, elemPtr, data, step, verdict,
                   clientVars, s2c, c2s, shorts>>

\* Faulty variant: the read is retried until it succeeds.
ReadsPtrRetrying(ptr, got) ==
    /\ c2s[conn] # <<>>
    /\ got = Head(c2s[conn]).ptr
    /\ c2s' = [c2s EXCEPT ![conn] = Tail(@)]

\* read(connectfd, &ptr, 8): the pointer the client wrote, or nothing at all
\* when the client is gone; the variable then keeps its old value.
ReadsPtr(ptr, got) ==
    \/ /\ c2s[conn] # <<>>
       /\ got = Head(c2s[conn]).ptr
       /\ c2s' = [c2s EXCEPT ![conn] = Tail(@)]
    \/ /\ Gone(conn)
       /\ got = ptr
       /\ c2s' = [c2s EXCEPT ![conn] = <<>>]

ReadGlobPtr ==
    /\ srv = "glob"
    /\ \E p \in Pointers : ReadsPtr(globPtr, p) /\ globPtr' = p
    /\ srv' = "elem"
    /\ UNCHANGED <<port, taken, queue, conn, elemPtr, data, step, verdict, left,
                   clientVars, s2c, shorts>>

\* Faulty variant: the second read goes into glob_ptr again.
ReadElementsPtrElsewhere ==
    /\ srv = "elem"
    /\ \E p \in Pointers : ReadsPtr(elemPtr, p) /\ globPtr' = p
    /\ srv' = "send" /\ step' = 1
    /\ UNCHANGED <<port, taken, queue, conn, elemPtr, data, verdict, left,
                   clientVars, s2c, shorts>>

\* Faulty variant: the first client's pointer serves all of them.
ReadElementsPtrOnce ==
    /\ srv = "elem"
    /\ \E p \in Pointers :
          ReadsPtr(elemPtr, p) /\ elemPtr' = IF elemPtr = Null THEN p ELSE elemPtr
    /\ srv' = "send" /\ step' = 1
    /\ UNCHANGED <<port, taken, queue, conn, globPtr, data, verdict, left,
                   clientVars, s2c, shorts>>

ReadElementsPtr ==
    /\ srv = "elem"
    /\ \E p \in Pointers : ReadsPtr(elemPtr, p) /\ elemPtr' = p
    /\ srv' = "send" /\ step' = 1
    /\ UNCHANGED <<port, taken, queue, conn, globPtr, data, verdict, left,
                   clientVars, s2c, shorts>>

\* The code of element i as _operation_new assembles it.
Assembled(i) == [glob |-> IF UsesGlob(i) THEN globPtr ELSE Free,
                 elem |-> IF UsesElem(i) THEN elemPtr ELSE Free]

\* operation_dispatcher and operation_write_data up to the read: global_data,
\* then the opcode and its operands.  What is written to a client that has
\* closed its end is lost.
Send ==
    /\ srv = "send"
    /\ s2c' = IF Gone(conn) THEN s2c
              ELSE [s2c EXCEPT ![conn] = Append(@,
                     [data |-> data, op |-> Op(step), idx |-> Index(step),
                      code |-> Assembled(Index(step))])]
    /\ srv' = "read"
    /\ UNCHANGED <<port, taken, queue, conn, globPtr, elemPtr, data, step, verdict, left,
                   clientVars, c2s, shorts>>

\* read(connectfd, &global_data, 256), whose result nobody looks at.  A
\* reply arrives as two pieces.  Once a read has returned early, after the
\* first piece, the bytes of the rest land at other offsets than they came
\* from: any value.  When the client is gone nothing need arrive.
ReadsGlobal(got) ==
    \/ /\ 2 <= Len(c2s[conn]) /\ c2s[conn][1].half = 1
       /\ got = c2s[conn][1].data
       /\ c2s' = [c2s EXCEPT ![conn] = Tail(Tail(@))]
       /\ UNCHANGED shorts
    \/ /\ c2s[conn] # <<>> /\ c2s[conn][1].half = 1
       /\ shorts < MaxShort /\ shorts' = shorts + 1
       /\ c2s' = [c2s EXCEPT ![conn] = Tail(@)]
    \/ /\ c2s[conn] # <<>> /\ c2s[conn][1].half = 2
       /\ c2s' = [c2s EXCEPT ![conn] = IF Len(@) = 1 THEN <<>> ELSE Tail(Tail(@))]
       /\ UNCHANGED shorts
    \/ /\ Gone(conn)
       /\ got = data
       /\ c2s' = [c2s EXCEPT ![conn] = <<>>]
       /\ UNCHANGED shorts

\* The reply to a load.
ReadLoaded ==
    /\ srv = "read" /\ step < PromptStep
    /\ \E got \in Data : ReadsGlobal(got) /\ data' = got
    /\ srv' = "send" /\ step' = step + 1
    /\ UNCHANGED <<port, taken, queue, conn, globPtr, elemPtr, verdict, left,
                   clientVars, s2c>>

Flipped(h) == [front |-> Flip[h.front], back |-> Flip[h.back]]
\* run_validation runs the cipher backwards over the answer ...
AnswerInput == [front |-> Dec[Answer.front], back |-> Enc[Answer.back]]
\* Faulty variant: the elements run the cipher in the direction of the server.
TransformedBackwards(h) == [front |-> Dec[h.front], back |-> Enc[h.back]]

\* ... and the elements 11..13 run it forwards over the input.
Transformed(h) == [front |-> Enc[h.front], back |-> Dec[h.back]]
Judged(h) == IF h = AnswerInput THEN "right" ELSE "wrong"
Checked(h) == IF Transformed(h) = Answer THEN "right" ELSE "wrong"

\* Faulty variant: what the reply replaces is compared.
ReadTypedStale ==
    /\ srv = "read" /\ step = PromptStep
    /\ \E got \in Data :
          /\ ReadsGlobal(got)
          /\ data' = [got EXCEPT !.head = Flipped(got.head)]
          /\ verdict' = [verdict EXCEPT ![conn] = Judged(Flipped(data.head))]
    /\ srv' = "send" /\ step' = RunStep
    /\ UNCHANGED <<left, port, taken, queue, conn, globPtr, elemPtr, clientVars, s2c>>

\* The reply to the prompt: flip the input, and compare.
ReadTyped ==
    /\ srv = "read" /\ step = PromptStep
    /\ \E got \in Data :
          /\ ReadsGlobal(got)
          /\ data' = [got EXCEPT !.head = Flipped(got.head)]
          /\ verdict' = [verdict EXCEPT ![conn] = Judged(Flipped(got.head))]
    /\ srv' = "send" /\ step' = RunStep
    /\ UNCHANGED <<left, port, taken, queue, conn, globPtr, elemPtr, clientVars, s2c>>

\* Faulty variants: byte 255 keeps what came back; or the flag is not copied.
ReadRunKeepsByte ==
    /\ srv = "read" /\ step = RunStep
    /\ \E got \in Data :
          /\ ReadsGlobal(got)
          /\ \E head \in IF verdict[conn] = "right" THEN {FlagText, NoFlagText}
                         ELSE {got.head} :
                data' = [head |-> head, last |-> got.last]
    /\ srv' = "send" /\ step' = ExitStep
    /\ UNCHANGED <<port, taken, queue, conn, globPtr, elemPtr, verdict, left, clientVars, s2c>>
ReadRunKeepsHead ==
    /\ srv = "read" /\ step = RunStep
    /\ \E got \in Data :
          ReadsGlobal(got) /\ data' = [head |-> got.head, last |-> verdict[conn]]
    /\ srv' = "send" /\ step' = ExitStep
    /\ UNCHANGED <<port, taken, queue, conn, globPtr, elemPtr, verdict, left, clientVars, s2c>>

\* The reply to element 14: the verdict goes into byte 255, and after a right
\* answer the flag (or the message that it cannot be read) into the head.
ReadRun ==
    /\ srv = "read" /\ step = RunStep
    /\ \E got \in Data :
          /\ ReadsGlobal(got)
          /\ \E head \in IF verdict[conn] = "right" THEN {FlagText, NoFlagText}
                         ELSE {got.head} :
                data' = [head |-> head, last |-> verdict[conn]]
    /\ srv' = "send" /\ step' = ExitStep
    /\ UNCHANGED <<port, taken, queue, conn, globPtr, elemPtr, verdict, left,
                   clientVars, s2c>>

\* The reply to OPT_EXIT, and close(connectfd).  global_data keeps its value
\* for the next session.  If this end closes first the port stays taken.
ReadExit ==
    /\ srv = "read" /\ step = ExitStep
    /\ \E got \in Data : ReadsGlobal(got) /\ data' = got
    /\ srv' = "accept" /\ conn' = NoClient
    /\ taken' = (taken \/ (CloseLingers /\ ~Gone(conn)))
    /\ UNCHANGED <<port, queue, globPtr, elemPtr, step, verdict, left, clientVars, s2c>>

(***************************************************************************)
(* The server dies: of SIGPIPE, on a write to a client that is gone; or by *)
(* exit(1), when the assembler rejects a text that contains a null         *)
(* pointer.  The kernel then resets what is queued.                        *)
(***************************************************************************)
Die ==
    /\ srv = "send"
    /\ \/ Gone(conn)
       \/ UsesGlob(Index(step)) /\ Op(step) = "NEW" /\ globPtr = Null
       \/ UsesElem(Index(step)) /\ Op(step) = "NEW" /\ elemPtr = Null
    /\ srv' = "dead" /\ conn' = NoClient /\ queue' = <<>>
    /\ UNCHANGED <<port, taken, globPtr, elemPtr, data, step, verdict, left,
                   clientVars, s2c, c2s, shorts>>

\* init.sh starts it again.  main() does not look at the result of bind():
\* when the port is still taken, listen() picks another one.
Restart ==
    /\ srv = "dead"
    /\ srv' = "accept"
    /\ port' = IF taken THEN "other" ELSE "service"
    /\ globPtr' = Null /\ elemPtr' = Null /\ step' = 1
    /\ data' = [head |-> Zero, last |-> "wrong"]
    /\ UNCHANGED <<taken, queue, conn, verdict, left, clientVars, s2c, c2s, shorts>>

\* The kernel gives the port back some time after the last close.
PortFreed ==
    /\ taken /\ taken' = FALSE
    /\ UNCHANGED <<srv, port, queue, conn, globPtr, elemPtr, data, step, verdict, left,
                   clientVars, s2c, c2s, shorts>>

(***************************************************************************)
(* A client.                                                               *)
(***************************************************************************)
Backlog == 1        \* listen(listenfd, 1): the kernel queues one more

Listening == srv # "dead" /\ port = "service"

Connect(c) ==
    /\ cst[c] = "start" /\ Listening /\ Len(queue) <= Backlog
    /\ queue' = Append(queue, c)
    /\ cst' = [cst EXCEPT ![c] = "glob"]
    /\ UNCHANGED <<srv, port, taken, conn, globPtr, elemPtr, data, step, verdict, left,
                   cdata, elements, typed, banner, report, s2c, c2s, shorts>>

\* connect() is refused, or gives up: the client quits.
ConnectFails(c) ==
    /\ cst[c] = "start" /\ ~(Listening /\ Len(queue) <= Backlog)
    /\ cst' = [cst EXCEPT ![c] = "quit"]
    /\ UNCHANGED <<serverVars, cdata, elements, typed, banner, report, s2c, c2s, shorts>>

\* The server's end of c's connection is closed, or was never accepted before
\* the server died.
Closed(c) == conn # c /\ \A i \in 1..Len(queue) : queue[i] # c

\* The two writes of main(), of the address of global_data and of elements.
WritePtr(c) ==
    /\ cst[c] \in {"glob", "elem"} /\ ~Closed(c)
    /\ c2s' = [c2s EXCEPT ![c] = Append(@, [half |-> 0, ptr |-> c])]
    /\ cst' = [cst EXCEPT ![c] = IF @ = "glob" THEN "elem" ELSE "recv"]
    /\ UNCHANGED <<serverVars, cdata, elements, typed, banner, report, s2c, shorts>>

\* One turn of the loop of main() takes a request off the connection ...
Takes(c, op) ==
    /\ cst[c] = "recv" /\ s2c[c] # <<>>
    /\ Head(s2c[c]).op = op
    /\ s2c' = [s2c EXCEPT ![c] = Tail(@)]

\* ... and sends global_data back.
Replies(c, d) ==
    /\ cdata' = [cdata EXCEPT ![c] = d]
    /\ c2s' = IF Closed(c) THEN c2s
              ELSE [c2s EXCEPT ![c] = @ \o <<[half |-> 1, data |-> d],
                                            [half |-> 2, data |-> d]>>]

\* Faulty variant: no reply to a load.
ClientNewSilent(c) ==
    /\ Takes(c, "NEW")
    /\ elements' = [elements EXCEPT ![c][Head(s2c[c]).idx] = Head(s2c[c]).code]
    /\ UNCHANGED <<serverVars, cst, cdata, typed, banner, report, c2s, shorts>>

\* client_operation_new: store in an element.
ClientNew(c) ==
    /\ Takes(c, "NEW")
    /\ Replies(c, Head(s2c[c]).data)
    /\ elements' = [elements EXCEPT ![c][Head(s2c[c]).idx] = Head(s2c[c]).code]
    /\ UNCHANGED <<serverVars, cst, typed, banner, report, shorts>>

\* client_operation_execute of element 10: the user types up to 32 bytes,
\* which replace the beginning of what the server sent.
ClientPrompt(c) ==
    /\ Takes(c, "EXEC") /\ Head(s2c[c]).idx = 10
    /\ LET old == Head(s2c[c]).data IN
       \E text \in Typable, halves \in 0..2 :
          LET input == [text |-> text, halves |-> halves]
          IN /\ Replies(c, [old EXCEPT !.head = Overlaid(input, old.head)])
             /\ typed' = [typed EXCEPT ![c] = input]
    /\ UNCHANGED <<serverVars, cst, elements, banner, report, shorts>>

\* client_operation_execute of element 14: element 13 transforms the head and
\* compares it with element 7; the outcome is printed.
ClientRun(c) ==
    /\ Takes(c, "EXEC") /\ Head(s2c[c]).idx = 14
    /\ LET got == Head(s2c[c]).data IN
          /\ Replies(c, [got EXCEPT !.head = Transformed(got.head)])
          /\ banner' = [banner EXCEPT ![c] = Checked(got.head)]
    /\ UNCHANGED <<serverVars, cst, elements, typed, report, shorts>>

\* OPT_EXIT: leave the loop, after a last reply.
ClientExit(c) ==
    /\ Takes(c, "EXIT")
    /\ Replies(c, Head(s2c[c]).data)
    /\ cst' = [cst EXCEPT ![c] = "report"]
    /\ UNCHANGED <<serverVars, elements, typed, banner, report, shorts>>

\* The end of main(): byte 255 decides what the user is told.
Report(c) ==
    /\ cst[c] = "report"
    /\ report' = [report EXCEPT ![c] = cdata[c].last]
    /\ cst' = [cst EXCEPT ![c] = "done"]
    /\ UNCHANGED <<serverVars, cdata, elements, typed, banner, s2c, c2s, shorts>>

\* Faulty variant: leave the loop and report instead of quitting.
RageQuitReports(c) ==
    /\ \/ /\ cst[c] = "recv" /\ s2c[c] # <<>>
          /\ shorts < MaxShort /\ shorts' = shorts + 1
       \/ /\ cst[c] \in {"glob", "elem", "recv"} /\ Closed(c)
          /\ UNCHANGED shorts
    /\ cst' = [cst EXCEPT ![c] = "report"]
    /\ s2c' = [s2c EXCEPT ![c] = <<>>]
    /\ UNCHANGED <<serverVars, cdata, elements, typed, banner, report, c2s>>

\* client_ragequit: a request that arrives in parts, the end of the
\* connection, or a write to it.
RageQuit(c) ==
    /\ \/ /\ cst[c] = "recv" /\ s2c[c] # <<>>
          /\ shorts < MaxShort /\ shorts' = shorts + 1
       \/ /\ cst[c] \in {"glob", "elem", "recv"} /\ Closed(c)
          /\ UNCHANGED shorts
    /\ cst' = [cst EXCEPT ![c] = "quit"]
    /\ s2c' = [s2c EXCEPT ![c] = <<>>]
    /\ UNCHANGED <<serverVars, cdata, elements, typed, banner, report, c2s>>

\* The user interrupts the client.
Kill(c) ==
    /\ c \in MayDie /\ ~Gone(c)
    /\ cst' = [cst EXCEPT ![c] = "quit"]
    /\ s2c' = [s2c EXCEPT ![c] = <<>>]
    /\ UNCHANGED <<serverVars, cdata, elements, typed, banner, report, c2s, shorts>>

(***************************************************************************)
(* The system.                                                             *)
(***************************************************************************)
ServerStep ==
    \/ Accept \/ ReadGlobPtr \/ ReadElementsPtr \/ Send
    \/ ReadLoaded \/ ReadTyped \/ ReadRun \/ ReadExit \/ Die

ClientStep(c) ==
    \/ Connect(c) \/ ConnectFails(c) \/ WritePtr(c)
    \/ ClientNew(c) \/ ClientPrompt(c) \/ ClientRun(c) \/ ClientExit(c)
    \/ Report(c) \/ RageQuit(c)

Next ==
    \/ ServerStep
    \/ Restart
    \/ PortFreed
    \/ \E c \in Clients : ClientStep(c) \/ Kill(c)

Spec == Init /\ [][Next]_vars

\* The server runs whenever it can, init.sh restarts it, and every client
\* runs, its user answering the prompt.  Nobody has to be killed.
Fairness ==
    /\ WF_vars(ServerStep) /\ WF_vars(Restart)
    /\ \A c \in Clients : WF_vars(ClientStep(c))

FairSpec == Spec /\ Fairness

(***************************************************************************)
(* Properties.                                                             *)
(***************************************************************************)

\* What a client tells its user is what the server decided in the session of
\* that client, although global_data, byte 255 included, is carried over from
\* the session before and travels with every request (server.c:51, 396).
ReportIsVerdict ==
    \A c \in Clients : cst[c] = "done" => report[c] = verdict[c] /\ verdict[c] # "none"

\* A client that prints a flag prints what the server read for it, not the
\* input that global_data held a request before.
FlagIsShown ==
    \A c \in Clients : report[c] = "right" => cdata[c].head \in {FlagText, NoFlagText}

\* The server enciphers the answer backwards, the client its input forwards:
\* what the client prints by itself agrees with the verdict of the server.
BannerIsVerdict ==
    \A c \in Clients : banner[c] # "none" => banner[c] = verdict[c]

\* A user who types all 32 bytes is judged by them alone, whatever earlier
\* sessions left in global_data and whoever died in between.  A shorter input
\* is judged together with what it does not reach, and that is what the server
\* held when it accepted this client: nothing of the session itself (the texts
\* stored, the prompts, the replies) gets there.  As long as no read() returns
\* early.
VerdictIsAboutInput ==
    shorts = 0 => \A c \in Clients :
        verdict[c] # "none" /\ cst[c] # "quit" =>
            verdict[c] = Judged(Flipped(IF typed[c].halves = 2 THEN typed[c].text
                                        ELSE Overlaid(typed[c], left[c])))

\* Elements that element i jumps to, compares with or prints from.
Needs(i) == IF i = 10 THEN {9, 10} ELSE {7, 8, 11, 12, 13, 14, 200, 300, 401}

\* When a client is told to execute an element, that element and all it uses
\* were stored in this session, and the addresses assembled into them are the
\* addresses of this client, not of the one before.
CodeIsReady ==
    \A c \in Clients :
        cst[c] = "recv" /\ s2c[c] # <<>> /\ Head(s2c[c]).op = "EXEC" =>
            \A i \in Needs(Head(s2c[c]).idx) :
                elements[c][i].glob \in {Free, c} /\ elements[c][i].elem \in {Free, c}

\* A verdict is never revised.
VerdictIsFinal ==
    [][\A c \in Clients : verdict[c] # "none" => verdict'[c] = verdict[c]]_vars

\* Every client ends, told a verdict or having quit, however many clients die
\* and however often the server does.
EveryClientEnds == \A c \in Clients : <>Gone(c)

\* The server dies only of a client that went away; and it is lost to its port
\* only when, besides, the session of another client had run to its end before
\* (the server may have closed that one first).  A client that stays costs the
\* others nothing (server.c:99, 427; init.sh:7-11).
LostOnlyToDeserters ==
    srv = "dead" \/ port = "other" =>
        \E c \in Clients :
            /\ cst[c] = "quit"
            /\ port = "other" => \E d \in Clients \ {c} : verdict[d] # "none"

\* Every client that gets through to the server is told a verdict, unless a
\* client is killed, which may take the server and its backlog with it.
EveryConnectedClientIsTold ==
    \A c \in Clients \ MayDie :
        cst[c] = "glob" ~> cst[c] = "done" \/ \E d \in MayDie : cst[d] = "quit"

(***************************************************************************)
(* What the service promises (SignInSpec): a session lasts from the accept *)
(* to the close or the death of the server.                                *)
(***************************************************************************)
Promise == INSTANCE SignInSpec WITH
    active <- conn,
    outcome <- [c \in Clients |-> IF cst[c] = "quit" THEN "lost" ELSE report[c]]

PromiseKept == Promise!Spec
(***************************************************************************)
(* The inductive invariant behind ReportIsVerdict, FlagIsShown,            *)
(* BannerIsVerdict and PromiseKept: who is where in a session, and what    *)
(* every request on its way carries.  It is proved in SignIn_proofs for    *)
(* every value of the constants, early returns of read() and deaths        *)
(* included.                                                               *)
(***************************************************************************)
InSession == srv \in {"glob", "elem", "send", "read"}

\* A client is in at most one place: not connected, queued, or served; and
\* until its session reaches the prompt there is no verdict about it.
PlacesInv ==
    /\ InSession <=> conn # NoClient
    /\ \A i \in 1..Len(queue) :
          /\ queue[i] # conn /\ cst[queue[i]] # "start" /\ verdict[queue[i]] = "none"
          /\ \A j \in 1..Len(queue) : queue[i] = queue[j] => i = j
    /\ \A c \in Clients :
          cst[c] = "start" => verdict[c] = "none" /\ c # conn

\* A head that may be shown with a verdict: after a right one, a flag.
Shows(v, head) == v = "right" => head \in {FlagText, NoFlagText}

\* The verdict of the running session exists from the prompt on, agrees with
\* the head sent with element 14, and is in byte 255 when OPT_EXIT is sent,
\* with the flag it deserves.
SessionInv ==
    /\ srv \in {"glob", "elem"} => verdict[conn] = "none"
    /\ srv \in {"send", "read"} =>
          IF step <= PromptStep THEN verdict[conn] = "none"
                                ELSE verdict[conn] \in Verdicts
    /\ srv = "send" /\ step = RunStep => verdict[conn] = Judged(data.head)
    /\ srv = "send" /\ step = ExitStep =>
          data.last = verdict[conn] /\ Shows(verdict[conn], data.head)

\* A request that lets a client decide something carries the verdict about it.
Carries(c, m) ==
    /\ m.op = "EXIT" =>
          /\ verdict[c] \in Verdicts /\ m.data.last = verdict[c]
          /\ Shows(verdict[c], m.data.head)
    /\ m.op = "EXEC" /\ m.idx = 14 =>
          verdict[c] \in Verdicts /\ verdict[c] = Judged(m.data.head)
RequestInv ==
    \A c \in Clients : \A i \in 1..Len(s2c[c]) : Carries(c, s2c[c][i])

\* What a client holds, prints and tells is the verdict about it.
ClientInv ==
    \A c \in Clients :
        /\ cst[c] = "report" => verdict[c] \in Verdicts /\ cdata[c].last = verdict[c]
        /\ cst[c] = "done" => verdict[c] \in Verdicts /\ report[c] = verdict[c]
        /\ cst[c] \in {"report", "done"} => Shows(verdict[c], cdata[c].head)
        /\ cst[c] # "done" => report[c] = "none"
        /\ banner[c] # "none" => banner[c] = verdict[c]

\* The conjunction: no step of the service or of a client breaks the link from
\* a verdict to what its client prints.
VerdictTravels == PlacesInv /\ SessionInv /\ RequestInv /\ ClientInv
=============================================================================
