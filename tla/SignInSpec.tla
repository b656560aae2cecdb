----------------------------- MODULE SignInSpec -----------------------------
(***************************************************************************)
(* What the sign-in service promises, seen from outside: sessions are      *)
(* served one at a time, the service judges the client of the running      *)
(* session at most once, and a client that tells its user an outcome tells *)
(* the verdict of its own session.  A client may be lost before it is told *)
(* anything.  SignIn (server.c + client.c) is shown to implement this.     *)
(***************************************************************************)
CONSTANTS Clients,      \* the client processes, each of which signs in once
          NoClient      \* not a client

VARIABLES active,       \* the client whose session runs, or NoClient
          verdict,      \* verdict[c]: what the service decided about c
          outcome       \* outcome[c]: what c told its user

vars == <<active, verdict, outcome>>

Verdicts == {"right", "wrong"}

Init ==
    /\ active = NoClient
    /\ verdict = [c \in Clients |-> "none"]
    /\ outcome = [c \in Clients |-> "none"]

\* A session starts when no other one runs, and only for a client that has
\* not been judged yet.
Begin(c) ==
    /\ active = NoClient
    /\ verdict[c] = "none"
    /\ active' = c
    /\ UNCHANGED <<verdict, outcome>>

\* The service decides about the client of the running session, once.
Judge(c) ==
    /\ active = c
    /\ verdict[c] = "none"
    /\ \E v \in Verdicts : verdict' = [verdict EXCEPT ![c] = v]
    /\ UNCHANGED <<active, outcome>>

\* The session ends, by completing it or because the service went down.
End ==
    /\ active # NoClient
    /\ active' = NoClient
    /\ UNCHANGED <<verdict, outcome>>

\* The client tells its user the verdict of its session.
Tell(c) ==
    /\ outcome[c] = "none"
    /\ verdict[c] # "none"
    /\ outcome' = [outcome EXCEPT ![c] = verdict[c]]
    /\ UNCHANGED <<active, verdict>>

\* The client goes away without telling its user anything.
Lose(c) ==
    /\ outcome[c] = "none"
    /\ outcome' = [outcome EXCEPT ![c] = "lost"]
    /\ UNCHANGED <<active, verdict>>

Next ==
    \/ \E c \in Clients : Begin(c) \/ Judge(c) \/ Tell(c) \/ Lose(c)
    \/ End

Spec == Init /\ [][Next]_vars
=============================================================================
