----------------------------- MODULE CipherForm -----------------------------
(***************************************************************************)
(* The form of Web/who-are-you/build/app.py and the users of its pages.  A *)
(* submitted form comes back enciphered on a page of its own, whose button *)
(* sends the cipher and its iv back to be read.  The service keeps nothing *)
(* but a key, which every process draws anew: pages outlive it.            *)
(*                                                                         *)
(* Pages are used as they were served, and forms lack no field.  Of a form *)
(* the name is kept; a cipher is its key and what it holds, and another    *)
(* key is taken to make no JSON of it.  Pages and answers also bear the    *)
(* process they are from, and pages what was typed.                        *)
(***************************************************************************)
EXTENDS Integers

CONSTANTS
  Users,        \* browsers
  Names,        \* names a user may enter
  Refused,      \* those with characters that safe does not allow, and admin
  MaxRuns       \* bound: how often the service is started

VARIABLES
  run,          \* the process that serves, numbered from 1
  key,          \* its encryption_key, numbered in the order they are drawn
  pages,        \* pages[u]: the cipher pages in u's history
  view          \* view[u]: what u's browser waits for or shows

vars == <<run, key, pages, view>>

Runs == 1 .. MaxRuns
Keys == 1 .. MaxRuns
Page == [key : Keys, holds : Names, typed : Names, run : Runs]
Pending == [at : {"sent"}, typed : Names] \union [at : {"asked"}, page : Page]
Answers == [at : {"blank", "refused", "down"}]
             \union [at : {"name"}, name : Names, page : Page, run : Runs]
             \union [at : {"failed"}, page : Page, run : Runs]
             \union [at : {"cipher"}, page : Page]

TypeOK ==
  /\ run \in Runs /\ key \in Keys
  /\ pages \in [Users -> SUBSET Page]
  /\ view \in [Users -> Pending \union Answers]

Init ==
  /\ run = 1 /\ key = 1
  /\ pages = [u \in Users |-> {}]
  /\ view = [u \in Users |-> [at |-> "blank"]]

Waits(u) == view[u].at \in {"sent", "asked"}
See(u, v) == view' = [view EXCEPT ![u] = v]

(* The user submits the form of index.html.                                *)
Submit(u, n) ==
  /\ ~ Waits(u)
  /\ See(u, [at |-> "sent", typed |-> n])
  /\ UNCHANGED <<run, key, pages>>

(* app.py:15-28                                                            *)
Safe(n) == n \notin Refused

(* app.py:50-62: the page of a form that was enciphered with this key.     *)
Sealed(n) == [key |-> key, holds |-> n, typed |-> n, run |-> run]

(* user_info                                                               *)
UserInfo(u) ==
  /\ view[u].at = "sent"
  /\ LET n == view[u].typed
     IN IF ~ Safe(n) THEN See(u, [at |-> "refused"]) /\ UNCHANGED pages
        ELSE /\ See(u, [at |-> "cipher", page |-> Sealed(n)])
             /\ pages' = [pages EXCEPT ![u] = @ \union {Sealed(n)}]
  /\ UNCHANGED <<run, key>>

(* The button of cipher.html, on any page the user goes back to.           *)
Ask(u, p) ==
  /\ ~ Waits(u) /\ p \in pages[u]
  /\ See(u, [at |-> "asked", page |-> p])
  /\ UNCHANGED <<run, key, pages>>

(* decrypt: with another key, unpad or json.loads raise.                   *)
Decrypt(u) ==
  /\ view[u].at = "asked"
  /\ LET p == view[u].page
     IN See(u, IF p.key = key THEN [at |-> "name", name |-> p.holds, page |-> p, run |-> run]
               ELSE [at |-> "failed", page |-> p, run |-> run])
  /\ UNCHANGED <<run, key, pages>>

\* Faulty variant: a key that is kept in the program.
TheSameKey == key

(* app.py:13: 16 random bytes, taken never to come twice.                  *)
NewKey == key + 1

(* The process ends, whoever it was working for, and another is started.   *)
Restart ==
  /\ run < MaxRuns
  /\ run' = run + 1 /\ key' = NewKey
  /\ view' = [u \in Users |-> IF Waits(u) THEN [at |-> "down"] ELSE view[u]]
  /\ UNCHANGED pages

Next ==
  \/ Restart
  \/ \E u \in Users :
       \/ \E n \in Names : Submit(u, n)
       \/ \E p \in Page : Ask(u, p)
       \/ UserInfo(u) \/ Decrypt(u)

Spec == Init /\ [][Next]_vars

-----------------------------------------------------------------------------
(* A page can be read by the process that served it, as the name that was  *)
(* typed for it, and by no other: what is shown of a name is from the      *)
(* process that the page is from, and reading fails only of a page that    *)
(* outlived its process.  No refused name is ever shown (app.py:13, 46,    *)
(* 56, 75-91).                                                             *)
ReadWhileItLives ==
  \A u \in Users :
    LET v == view[u]
    IN /\ v.at = "name" => v.page.run = v.run /\ v.name = v.page.typed /\ Safe(v.name)
       /\ v.at = "failed" => v.page.run < v.run

=============================================================================
