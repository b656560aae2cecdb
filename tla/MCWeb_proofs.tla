---------------------------- MODULE MCWeb_proofs ----------------------------
(***************************************************************************)
(* Proofs about the four services of MCWeb, for any number of models,      *)
(* reloads, users, restarts, courses and lines: the box of models          *)
(* (ModelPage), the form that enciphers (CipherForm), the selected courses *)
(* (CoursePage) and a connection of the location service (LocationService).*)
(***************************************************************************)
EXTENDS MCWeb, Recursion, SequenceTheorems, TLAPS

-----------------------------------------------------------------------------
\* The box of models.

(* A reload, without the bound on how many there are.                      *)
AnyReload == [state : {"asked", "listed", "shown", "failed"}, list : SUBSET Models,
              known : SUBSET Models, during : SUBSET Nat]

BoxTyped ==
  /\ file \in [Models -> M!Files]
  /\ reloads \in Seq(AnyReload) /\ reloads # <<>>
  /\ box \subseteq [model : Models, reload : M!Asked]

(* No model disappears, and a list holds what was there when it was asked  *)
(* for.                                                                    *)
Lasting ==
  \A n \in M!Asked :
    /\ reloads[n].known \subseteq M!Present
    /\ reloads[n].state \in {"listed", "shown"} => reloads[n].known \subseteq reloads[n].list

(* What the last reload brought is still in the box.                       *)
LastStays ==
  M!LastReload.state = "shown" =>
    \A m \in M!LastReload.list : [model |-> m, reload |-> Len(reloads)] \in box

(* A reload that is under way, or left something in the box, was under way *)
(* when each later one was started: the box was emptied then.              *)
Overlapped ==
  \A a, b \in M!Asked :
    a < b /\ (a \in M!UnderWay \/ \E x \in box : x.reload = a) => a \in reloads[b].during

BoxInv == BoxTyped /\ Lasting /\ LastStays /\ Overlapped

LEMMA BoxStart == M!Init => BoxInv
<1> SUFFICES ASSUME M!Init PROVE BoxInv
  OBVIOUS
<1>1. file \in [Models -> M!Files] /\ M!Present \subseteq Models
  BY DEF M!Init, M!Files, M!Present
<1>2. DEFINE r == [state |-> "asked", list |-> {}, known |-> M!Present, during |-> {}]
<1>3. r \in AnyReload
  BY <1>1 DEF AnyReload
<1>4. reloads = <<r>> /\ box = {} /\ M!Asked = {1} /\ reloads[1] = r
  BY DEF M!Init, M!Asked
<1>5. BoxTyped
  BY <1>1, <1>3, <1>4 DEF BoxTyped
<1>6. Lasting
  BY <1>4 DEF Lasting
<1>7. LastStays
  BY <1>4 DEF LastStays, M!LastReload
<1>8. Overlapped
  BY <1>4 DEF Overlapped
<1> QED
  BY <1>5, <1>6, <1>7, <1>8 DEF BoxInv

(* A step of the service leaves the page alone, and only adds models.      *)
LEMMA ServiceSteps ==
  ASSUME BoxInv, UNCHANGED <<reloads, box>>, file' \in [Models -> M!Files],
         M!Present \subseteq M!Present'
  PROVE  BoxInv'
<1>1. BoxTyped'
  BY DEF BoxInv, BoxTyped, M!Asked
<1>2. Lasting'
  BY DEF BoxInv, Lasting, M!Asked
<1>3. LastStays' /\ Overlapped'
  BY DEF BoxInv, LastStays, Overlapped, M!LastReload, M!UnderWay, M!Asked
<1> QED
  BY <1>1, <1>2, <1>3 DEF BoxInv

(* A step in the life of the n-th reload, which was under way: it gets its *)
(* list, is shown or fails.                                                *)
LEMMA ReloadSteps ==
  ASSUME BoxInv, NEW n \in M!Asked, n \in M!UnderWay, UNCHANGED file,
         NEW r \in AnyReload, reloads' = [reloads EXCEPT ![n] = r],
         r.known = reloads[n].known, r.during = reloads[n].during,
         r.state \in {"listed", "shown"} => r.known \subseteq r.list,
         IF r.state = "shown" THEN box' = box \union [model : r.list, reload : {n}]
                              ELSE box' = box
  PROVE  BoxInv'
<1>1. reloads \in Seq(AnyReload) /\ reloads # <<>>
  BY DEF BoxInv, BoxTyped
<1>2. reloads' \in Seq(AnyReload) /\ reloads' # <<>> /\ Len(reloads') = Len(reloads)
      /\ M!Asked' = M!Asked
  BY <1>1 DEF M!Asked
<1>3. \A i \in M!Asked : reloads'[i] = IF i = n THEN r ELSE reloads[i]
  BY <1>1 DEF M!Asked
<1>4. Len(reloads) \in M!Asked /\ M!Asked \subseteq Nat /\ M!Asked = 1 .. Len(reloads)
  BY <1>1 DEF M!Asked
<1>5. r.list \subseteq Models
  BY DEF AnyReload
<1>6. BoxTyped'
  BY <1>2, <1>5 DEF BoxInv, BoxTyped
<1>7. Lasting'
  BY <1>2, <1>3 DEF BoxInv, Lasting, M!Present
<1>8. LastStays'
  <2>1. M!LastReload' = IF Len(reloads) = n THEN r ELSE M!LastReload
    BY <1>2, <1>3, <1>4 DEF M!LastReload
  <2>2. CASE Len(reloads) = n
    BY <2>1, <2>2, <1>2 DEF LastStays
  <2>3. CASE Len(reloads) # n
    BY <2>1, <2>3, <1>2 DEF BoxInv, LastStays
  <2> QED
    BY <2>2, <2>3
<1>9. Overlapped'
  <2> SUFFICES ASSUME NEW a \in M!Asked, NEW b \in M!Asked, a < b,
                      a \in M!UnderWay' \/ \E x \in box' : x.reload = a
               PROVE  a \in reloads'[b].during
    BY <1>2 DEF Overlapped
  <2>1. reloads'[b].during = reloads[b].during
    BY <1>3
  <2>2. a \in M!UnderWay \/ \E x \in box : x.reload = a
    <3>1. CASE a \in M!UnderWay'
      BY <3>1, <1>2, <1>3 DEF M!UnderWay
    <3>2. CASE \E x \in box' : x.reload = a
      BY <3>2
    <3> QED
      BY <3>1, <3>2
  <2> QED
    BY <2>1, <2>2 DEF BoxInv, Overlapped
<1> QED
  BY <1>6, <1>7, <1>8, <1>9 DEF BoxInv

(* A new reload empties the box.                                           *)
LEMMA NewReloadStep == BoxInv /\ M!LoadModels => BoxInv'
<1> SUFFICES ASSUME BoxInv, M!LoadModels PROVE BoxInv'
  OBVIOUS
<1>1. reloads \in Seq(AnyReload) /\ Len(reloads) \in Nat /\ M!Asked = 1 .. Len(reloads)
  BY DEF BoxInv, BoxTyped, M!Asked
<1>2. DEFINE r == M!NewReload
<1>3. M!Present \subseteq Models /\ M!UnderWay \subseteq M!Asked
  BY DEF M!Present, M!UnderWay
<1>4. r \in AnyReload /\ r.state = "asked" /\ r.known = M!Present /\ r.during = M!UnderWay
  BY <1>1, <1>3 DEF M!NewReload, AnyReload
<1>5. reloads' = Append(reloads, r) /\ box' = {} /\ file' = file
  BY DEF M!LoadModels
<1> HIDE DEF r
<1>6. /\ reloads' \in Seq(AnyReload) /\ reloads' # <<>> /\ Len(reloads') = Len(reloads) + 1
      /\ M!Asked' = 1 .. Len(reloads) + 1
      /\ reloads'[Len(reloads) + 1] = r
      /\ \A i \in M!Asked : reloads'[i] = reloads[i]
  BY <1>1, <1>4, <1>5 DEF M!Asked
<1>7. BoxTyped'
  BY <1>5, <1>6 DEF BoxInv, BoxTyped
<1>8. Lasting'
  <2> SUFFICES ASSUME NEW n \in 1 .. Len(reloads) + 1
               PROVE  /\ reloads'[n].known \subseteq M!Present'
                      /\ reloads'[n].state \in {"listed", "shown"} =>
                           reloads'[n].known \subseteq reloads'[n].list
    BY <1>6 DEF Lasting
  <2>1. M!Present' = M!Present
    BY <1>5 DEF M!Present
  <2>2. CASE n = Len(reloads) + 1
    BY <2>1, <2>2, <1>4, <1>6
  <2>3. CASE n # Len(reloads) + 1
    BY <2>1, <2>3, <1>1, <1>6 DEF BoxInv, Lasting
  <2> QED
    BY <2>2, <2>3
<1>9. LastStays'
  BY <1>4, <1>6 DEF LastStays, M!LastReload
<1>10. Overlapped'
  <2> SUFFICES ASSUME NEW a \in 1 .. Len(reloads) + 1, NEW b \in 1 .. Len(reloads) + 1, a < b,
                      a \in M!UnderWay' \/ \E x \in box' : x.reload = a
               PROVE  a \in reloads'[b].during
    BY <1>6 DEF Overlapped
  <2>1. a \in M!Asked
    BY <1>1
  <2>2. a \in M!UnderWay
    BY <2>1, <1>5, <1>6 DEF M!UnderWay
  <2>3. CASE b = Len(reloads) + 1
    BY <2>2, <2>3, <1>4, <1>6
  <2>4. CASE b # Len(reloads) + 1
    <3>1. b \in M!Asked
      BY <2>4, <1>1
    <3> QED
      BY <3>1, <2>1, <2>2, <1>6 DEF BoxInv, Overlapped
  <2> QED
    BY <2>3, <2>4
<1> QED
  BY <1>7, <1>8, <1>9, <1>10 DEF BoxInv

LEMMA BoxStep == BoxInv /\ [M!Next]_modelVars => BoxInv'
<1> SUFFICES ASSUME BoxInv, [M!Next]_modelVars PROVE BoxInv'
  OBVIOUS
<1>1. file \in [Models -> M!Files] /\ reloads \in Seq(AnyReload)
  BY DEF BoxInv, BoxTyped
<1>2. ASSUME UNCHANGED <<file, reloads, box>> PROVE BoxInv'
  BY <1>2, <1>1, ServiceSteps DEF M!Present
<1>3. ASSUME NEW m \in Models, M!StartDump(m) \/ M!EndDump(m) PROVE BoxInv'
  <2>1. file' \in [Models -> M!Files] /\ M!Present \subseteq M!Present'
    BY <1>1, <1>3 DEF M!StartDump, M!EndDump, M!Files, M!Present
  <2> QED
    BY <2>1, <1>3, ServiceSteps DEF M!StartDump, M!EndDump
<1>4. ASSUME NEW n \in M!Asked, M!GetModels(n) PROVE BoxInv'
  <2> DEFINE r == [reloads[n] EXCEPT !.state = "listed", !.list = M!Present]
  <2>1. reloads[n] \in AnyReload /\ M!Present \subseteq Models
    BY <1>1, <1>4 DEF M!Asked, M!Present
  <2>2. r \in AnyReload /\ r.state = "listed" /\ r.list = M!Present
        /\ r.known = reloads[n].known /\ r.during = reloads[n].during
    BY <2>1 DEF AnyReload
  <2>3. reloads' = [reloads EXCEPT ![n] = r] /\ UNCHANGED <<file, box>>
    BY <1>1, <1>4 DEF M!GetModels, M!Asked
  <2>4. n \in M!UnderWay /\ reloads[n].known \subseteq M!Present
    BY <1>4 DEF M!GetModels, M!UnderWay, BoxInv, Lasting
  <2> HIDE DEF r
  <2> QED
    BY <2>2, <2>3, <2>4, ReloadSteps
<1>5. ASSUME NEW n \in M!Asked, M!ShowModels(n) PROVE BoxInv'
  <2> DEFINE r == [reloads[n] EXCEPT !.state = "shown"]
  <2>1. reloads[n] \in AnyReload
    BY <1>1, <1>5 DEF M!Asked
  <2>2. r \in AnyReload /\ r.state = "shown" /\ r.list = reloads[n].list
        /\ r.known = reloads[n].known /\ r.during = reloads[n].during
    BY <2>1 DEF AnyReload
  <2>3. reloads' = [reloads EXCEPT ![n] = r] /\ UNCHANGED file
        /\ box' = box \union [model : r.list, reload : {n}]
    BY <1>1, <1>5, <2>2 DEF M!ShowModels, M!Asked, M!Options
  <2>4. n \in M!UnderWay /\ r.known \subseteq r.list
    BY <1>5, <2>2 DEF M!ShowModels, M!UnderWay, BoxInv, Lasting
  <2> HIDE DEF r
  <2> QED
    BY <2>2, <2>3, <2>4, ReloadSteps
<1>6. ASSUME NEW n \in M!Asked, M!LoadFails(n) PROVE BoxInv'
  <2> DEFINE r == [reloads[n] EXCEPT !.state = "failed"]
  <2>1. reloads[n] \in AnyReload
    BY <1>1, <1>6 DEF M!Asked
  <2>2. r \in AnyReload /\ r.state = "failed"
        /\ r.known = reloads[n].known /\ r.during = reloads[n].during
    BY <2>1 DEF AnyReload
  <2>3. reloads' = [reloads EXCEPT ![n] = r] /\ UNCHANGED <<file, box>>
    BY <1>1, <1>6 DEF M!LoadFails, M!Asked
  <2>4. n \in M!UnderWay
    BY <1>6 DEF M!LoadFails, M!UnderWay
  <2> HIDE DEF r
  <2> QED
    BY <2>2, <2>3, <2>4, ReloadSteps
<1>7. CASE M!Crash \/ M!ClassifyClick \/ M!Classify \/ UNCHANGED modelVars
  BY <1>2, <1>7 DEF M!Crash, M!ClassifyClick, M!Classify, modelVars
<1> QED
  BY <1>3, <1>4, <1>5, <1>6, <1>7, NewReloadStep DEF M!Next

LEMMA BoxShows == BoxInv => BoxIsOfReloads
<1> SUFFICES ASSUME BoxInv PROVE BoxIsOfReloads
  OBVIOUS
<1>1. M!Asked = 1 .. Len(reloads) /\ Len(reloads) \in M!Asked /\ M!Asked \subseteq Nat
  BY DEF BoxInv, BoxTyped, M!Asked
<1>2. M!NothingMissing
  <2> SUFFICES ASSUME M!LastReload.state = "shown", NEW m \in M!LastReload.known
               PROVE  \E x \in box : x.model = m
    BY DEF M!NothingMissing
  <2>1. m \in M!LastReload.list
    BY <1>1 DEF M!LastReload, BoxInv, Lasting
  <2> QED
    BY <2>1 DEF BoxInv, LastStays
<1>3. M!CopiesAreOverlaps
  <2> SUFFICES ASSUME NEW x \in box, NEW y \in box, x.reload < y.reload
               PROVE  x.reload \in reloads[y.reload].during
    BY DEF M!CopiesAreOverlaps
  <2>1. x.reload \in M!Asked /\ y.reload \in M!Asked
    BY DEF BoxInv, BoxTyped
  <2> QED
    BY <2>1 DEF BoxInv, Overlapped
<1> QED
  BY <1>2, <1>3 DEF BoxIsOfReloads, M!BoxIsOfReloads

(* For any number of models and reloads: once nothing is under way and the *)
(* last reload did not fail, no model that was there is missing, and one   *)
(* is offered twice only if reloads overlapped (script.js:119-137).        *)
THEOREM BoxHolds == MCSpec => []BoxIsOfReloads
<1>1. MCInit => BoxInv
  BY BoxStart DEF MCInit
<1>2. BoxInv /\ [MCNext]_<<job, vars, courseVars, modelVars, formVars>> => BoxInv'
  BY BoxStep DEF MCNext
<1> QED
  BY <1>1, <1>2, BoxShows, PTL DEF MCSpec

-----------------------------------------------------------------------------
\* The form that enciphers.

(* A page, without the bound on how often the service is started.          *)
AnyPage == [key : Nat, holds : Names, typed : Names, run : Nat]

(* As many keys were drawn as processes were started.  Pages are of        *)
(* processes up to this one, each sealed with the key of its own, and hold *)
(* what was typed and allowed.                                             *)
PagesInv ==
  /\ run \in Nat /\ key = run
  /\ pages \in [Users -> SUBSET AnyPage]
  /\ \A u \in Users : \A p \in pages[u] :
       p.run <= run /\ p.key = p.run /\ p.holds = p.typed /\ C!Safe(p.holds)

(* What a browser asks about is one of its pages, and what it shows is the *)
(* answer for one.                                                         *)
Shows(u) ==
  /\ view[u].at = "sent" => view[u].typed \in Names
  /\ view[u].at = "asked" => view[u].page \in pages[u]
  /\ view[u].at = "name" =>
       /\ view[u].page.run = view[u].run
       /\ view[u].name = view[u].page.typed /\ C!Safe(view[u].name)
  /\ view[u].at = "failed" => view[u].page.run < view[u].run

FormInv ==
  /\ PagesInv
  /\ DOMAIN view = Users /\ view = [u \in Users |-> view[u]]
  /\ \A u \in Users : Shows(u)

LEMMA FormStart == C!Init => FormInv
<1> SUFFICES ASSUME C!Init PROVE FormInv
  OBVIOUS
<1>1. run = 1 /\ key = 1 /\ pages = [u \in Users |-> {}] /\ view = [u \in Users |-> [at |-> "blank"]]
  BY DEF C!Init
<1>2. PagesInv
  BY <1>1 DEF PagesInv
<1>3. \A u \in Users : Shows(u)
  BY <1>1 DEF Shows
<1> QED
  BY <1>1, <1>2, <1>3 DEF FormInv

(* A step that gives one browser another view.                             *)
LEMMA OneView ==
  ASSUME FormInv, PagesInv', NEW u \in Users, NEW v, C!See(u, v), run' = run, key' = key,
         \A q \in Users : pages[q] \subseteq pages'[q],
         Shows(u)'
  PROVE  FormInv'
<1>1. DOMAIN view' = Users /\ view' = [q \in Users |-> view'[q]]
      /\ \A q \in Users \ {u} : view'[q] = view[q]
  BY DEF FormInv, C!See
<1>2. \A q \in Users \ {u} : Shows(q)'
  BY <1>1 DEF FormInv, Shows
<1> QED
  BY <1>1, <1>2 DEF FormInv

LEMMA FormStep == FormInv /\ [C!Next]_formVars => FormInv'
<1> SUFFICES ASSUME FormInv, [C!Next]_formVars PROVE FormInv'
  OBVIOUS
<1>1. PagesInv /\ DOMAIN view = Users /\ view = [u \in Users |-> view[u]]
      /\ \A u \in Users : Shows(u)
  BY DEF FormInv
<1>2. ASSUME NEW u \in Users, NEW n \in Names, C!Submit(u, n) PROVE FormInv'
  <2>1. C!See(u, [at |-> "sent", typed |-> n]) /\ UNCHANGED <<run, key, pages>>
    BY <1>2 DEF C!Submit
  <2>2. view'[u] = [at |-> "sent", typed |-> n]
    BY <2>1, <1>1 DEF C!See
  <2>3. Shows(u)' /\ PagesInv'
    BY <2>1, <2>2, <1>1 DEF Shows, PagesInv
  <2> QED
    BY <2>1, <2>3, OneView
<1>3. ASSUME NEW u \in Users, NEW p \in C!Page, C!Ask(u, p) PROVE FormInv'
  <2>1. C!See(u, [at |-> "asked", page |-> p]) /\ UNCHANGED <<run, key, pages>> /\ p \in pages[u]
    BY <1>3 DEF C!Ask
  <2>2. view'[u] = [at |-> "asked", page |-> p]
    BY <2>1, <1>1 DEF C!See
  <2>3. Shows(u)' /\ PagesInv'
    BY <2>1, <2>2, <1>1 DEF Shows, PagesInv
  <2> QED
    BY <2>1, <2>3, OneView
<1>4. ASSUME NEW u \in Users, C!UserInfo(u) PROVE FormInv'
  <2> DEFINE n == view[u].typed
  <2>1. n \in Names /\ run' = run /\ key' = key
    BY <1>1, <1>4 DEF Shows, C!UserInfo
  <2>2. CASE ~ C!Safe(n)
    <3>1. C!See(u, [at |-> "refused"]) /\ UNCHANGED pages
      BY <1>4, <2>2 DEF C!UserInfo
    <3>2. view'[u] = [at |-> "refused"]
      BY <3>1, <1>1 DEF C!See
    <3>3. Shows(u)' /\ PagesInv'
      BY <2>1, <3>1, <3>2, <1>1 DEF Shows, PagesInv
    <3> QED
      BY <2>1, <3>1, <3>3, OneView
  <2>3. CASE C!Safe(n)
    <3> DEFINE p == C!Sealed(n)
    <3>1. C!See(u, [at |-> "cipher", page |-> p]) /\ pages' = [pages EXCEPT ![u] = @ \union {p}]
      BY <1>4, <2>3 DEF C!UserInfo
    <3>2. view'[u] = [at |-> "cipher", page |-> p]
      BY <3>1, <1>1 DEF C!See
    <3>3. p \in AnyPage /\ p.key = key /\ p.run = run /\ p.holds = n /\ p.typed = n
      BY <2>1, <1>1 DEF C!Sealed, AnyPage, PagesInv
    <3> HIDE DEF p
    <3>4. pages' \in [Users -> SUBSET AnyPage]
      BY <3>1, <3>3, <1>1 DEF PagesInv
    <3>5. \A q \in Users : pages'[q] = IF q = u THEN pages[q] \union {p} ELSE pages[q]
      BY <3>1, <1>1 DEF PagesInv
    <3>6. PagesInv'
      BY <2>1, <2>3, <3>3, <3>4, <3>5, <1>1 DEF PagesInv, C!Safe
    <3>7. Shows(u)'
      BY <3>2 DEF Shows
    <3> QED
      BY <2>1, <3>1, <3>5, <3>6, <3>7, OneView
  <2> QED
    BY <2>2, <2>3
<1>5. ASSUME NEW u \in Users, C!Decrypt(u) PROVE FormInv'
  <2> DEFINE p == view[u].page
  <2>1. p \in pages[u] /\ UNCHANGED <<run, key, pages>>
    BY <1>1, <1>5 DEF Shows, C!Decrypt
  <2>2. /\ p.run \in Nat /\ p.run <= run /\ p.key = p.run /\ run \in Nat /\ key = run
        /\ p.holds = p.typed /\ C!Safe(p.holds)
    BY <2>1, <1>1 DEF PagesInv, AnyPage
  <2>3. PagesInv'
    BY <2>1, <1>1 DEF PagesInv
  <2>4. CASE p.key = key
    <3>1. C!See(u, [at |-> "name", name |-> p.holds, page |-> p, run |-> run])
      BY <1>5, <2>4 DEF C!Decrypt
    <3>2. view'[u] = [at |-> "name", name |-> p.holds, page |-> p, run |-> run]
      BY <3>1, <1>1 DEF C!See
    <3>3. Shows(u)'
      <4>1. p.run = run /\ p.holds = p.typed /\ p.holds \notin Refused
        BY <2>2, <2>4 DEF C!Safe
      <4> HIDE DEF p
      <4> QED BY <3>2, <4>1 DEF Shows, C!Safe
    <3> QED
      BY <2>1, <2>3, <3>1, <3>3, OneView
  <2>5. CASE p.key # key
    <3>1. C!See(u, [at |-> "failed", page |-> p, run |-> run])
      BY <1>5, <2>5 DEF C!Decrypt
    <3>2. view'[u] = [at |-> "failed", page |-> p, run |-> run]
      BY <3>1, <1>1 DEF C!See
    <3>3. Shows(u)'
      BY <2>1, <2>2, <2>5, <3>2 DEF Shows
    <3> QED
      BY <2>1, <2>3, <3>1, <3>3, OneView
  <2> QED
    BY <2>4, <2>5
<1>6. ASSUME C!Restart PROVE FormInv'
  <2>1. run' = run + 1 /\ key' = key + 1 /\ UNCHANGED pages
        /\ view' = [u \in Users |-> IF C!Waits(u) THEN [at |-> "down"] ELSE view[u]]
    BY <1>6 DEF C!Restart, C!NewKey
  <2>2. PagesInv'
    BY <2>1, <1>1 DEF PagesInv, AnyPage
  <2>3. ASSUME NEW u \in Users PROVE Shows(u)'
    <3>1. view'[u] = [at |-> "down"] \/ view'[u] = view[u]
      BY <2>1
    <3> QED
      BY <3>1, <2>1, <1>1 DEF Shows, PagesInv
  <2> QED
    BY <2>1, <2>2, <2>3 DEF FormInv
<1>7. CASE UNCHANGED formVars
  BY <1>7 DEF formVars, FormInv, PagesInv, Shows
<1> QED
  BY <1>2, <1>3, <1>4, <1>5, <1>6, <1>7 DEF C!Next

(* For any number of users and restarts: a page is read as what was typed  *)
(* for it by the process that served it, and fails to be read by every     *)
(* later one (app.py:13, 66-91).                                           *)
THEOREM ReadHolds == MCSpec => []ReadWhileItLives
<1>1. MCInit => FormInv
  BY FormStart DEF MCInit
<1>2. FormInv /\ [MCNext]_<<job, vars, courseVars, modelVars, formVars>> => FormInv'
  BY FormStep DEF MCNext
<1>3. FormInv => ReadWhileItLives
  BY DEF FormInv, Shows, ReadWhileItLives, C!ReadWhileItLives
<1> QED
  BY <1>1, <1>2, <1>3, PTL DEF MCSpec

-----------------------------------------------------------------------------
\* The selected courses.

(* A course object, without the bound on the number of fetches.            *)
AnyCourse == [id : Courses, fetch : Nat]
Once(s) == \A i, j \in DOMAIN s : s[i].id = s[j].id => i = j

CoursesInv ==
  /\ sent \in Seq(Orders \union {First}) /\ inFlight \subseteq Nat
  /\ answered \in Seq(Nat)
  /\ selected \in Seq(AnyCourse) /\ Once(selected)

(* What removing a course keeps was selected, and no course twice.         *)
LEMMA KeptOnce ==
  ASSUME selected \in Seq(AnyCourse), Once(selected), NEW id
  PROVE  K!Kept(id) \in Seq(AnyCourse) /\ Once(K!Kept(id))
<1> DEFINE L == Len(selected)
           kept == CHOOSE g : g = [n \in 0 .. L |-> IF n = 0 THEN <<>>
                                     ELSE IF selected[n].id = id THEN g[n - 1]
                                          ELSE Append(g[n - 1], selected[n])]
           step == [n \in 1 .. L |-> [s \in Seq(AnyCourse) |->
                      IF selected[n].id = id THEN s ELSE Append(s, selected[n])]]
<1>1. L \in Nat /\ \A n \in 1 .. L : selected[n] \in AnyCourse
  OBVIOUS
<1>2. kept = [n \in 0 .. L |-> IF n = 0 THEN <<>>
                ELSE IF selected[n].id = id THEN kept[n - 1]
                     ELSE Append(kept[n - 1], selected[n])]
  <2> DEFINE S == Seq(AnyCourse)
  <2>1. step \in Steps(S, L) /\ <<>> \in S
    BY <1>1 DEF Steps
  <2>2. PICK g \in Recursive(S, <<>>, L, step) : TRUE
    <3> HIDE DEF step, L, S
    <3> QED
      BY <1>1, <2>1, RecursionExists
  <2>3. /\ g \in [0 .. L -> S] /\ g[0] = <<>>
        /\ \A n \in 1 .. L : g[n] = step[n][g[n - 1]]
    BY <2>2 DEF Recursive
  <2>4. \A n \in 1 .. L : g[n] = IF selected[n].id = id THEN g[n - 1]
                                ELSE Append(g[n - 1], selected[n])
    <3>1. \A n \in 1 .. L : n - 1 \in 0 .. L
      BY <1>1
    <3>2. \A n \in 1 .. L : g[n - 1] \in Seq(AnyCourse)
      BY <2>3, <3>1
    <3> QED
      BY <2>3, <3>2
  <2>5. g = [n \in 0 .. L |-> IF n = 0 THEN <<>>
               ELSE IF selected[n].id = id THEN g[n - 1] ELSE Append(g[n - 1], selected[n])]
    <3>1. \A n \in 0 .. L : n = 0 \/ n \in 1 .. L
      BY <1>1
    <3>2. \A n \in 0 .. L : g[n] = IF n = 0 THEN <<>> ELSE IF selected[n].id = id THEN g[n - 1]
                                                   ELSE Append(g[n - 1], selected[n])
      BY <2>3, <2>4, <3>1
    <3> HIDE DEF L
    <3> QED
      BY <2>3, <3>2
  <2> QED
    BY <2>5
<1>3. K!Kept(id) = kept[L]
  BY DEF K!Kept
<1> HIDE DEF kept
<1> DEFINE Good(n) == /\ kept[n] \in Seq(AnyCourse) /\ Once(kept[n])
                      /\ \A a \in DOMAIN kept[n] : \E i \in 1 .. n : kept[n][a] = selected[i]
           T == {n \in Nat : n <= L => Good(n)}
<1>4. Good(0)
  <2>1. kept[0] = <<>>
    BY <1>1, <1>2
  <2>2. <<>> \in Seq(AnyCourse) /\ DOMAIN <<>> = {}
    OBVIOUS
  <2> QED
    BY <2>1, <2>2 DEF Once
<1>5. ASSUME NEW n \in Nat, n + 1 <= L, Good(n) PROVE Good(n + 1)
  <2>1. kept[n + 1] = IF selected[n + 1].id = id THEN kept[n]
                      ELSE Append(kept[n], selected[n + 1])
    <3>1. n + 1 \in 0 .. L /\ n + 1 # 0 /\ (n + 1) - 1 = n
      BY <1>1, <1>5
    <3> QED
      BY <1>2, <3>1
  <2>2. CASE selected[n + 1].id = id
    BY <1>5, <2>1, <2>2
  <2>3. CASE selected[n + 1].id # id
    <3> DEFINE s == kept[n]
               c == selected[n + 1]
    <3>1. s \in Seq(AnyCourse) /\ c \in AnyCourse /\ kept[n + 1] = Append(s, c)
      BY <1>1, <1>5, <2>1, <2>3
    <3>2. \A a \in DOMAIN s : s[a].id # c.id
      <4> SUFFICES ASSUME NEW a \in DOMAIN s, s[a].id = c.id PROVE FALSE
        OBVIOUS
      <4>1. PICK i \in 1 .. n : s[a] = selected[i]
        BY <1>5
      <4>2. i \in DOMAIN selected /\ n + 1 \in DOMAIN selected /\ i # n + 1
        BY <1>5, <4>1
      <4> QED
        BY <4>1, <4>2 DEF Once
    <3>3. /\ Append(s, c) \in Seq(AnyCourse)
          /\ DOMAIN Append(s, c) = DOMAIN s \union {Len(s) + 1}
          /\ Len(s) + 1 \notin DOMAIN s
          /\ Append(s, c)[Len(s) + 1] = c
          /\ \A a \in DOMAIN s : Append(s, c)[a] = s[a]
      BY <3>1
    <3>4. Once(Append(s, c))
      BY <1>5, <3>2, <3>3 DEF Once
    <3>5. \A a \in DOMAIN Append(s, c) :
            \E i \in 1 .. n + 1 : Append(s, c)[a] = selected[i]
      BY <1>5, <3>3
    <3> QED
      BY <3>1, <3>3, <3>4, <3>5
  <2> QED
    BY <2>2, <2>3
<1>6. Nat \subseteq T
  <2>1. 0 \in T
    BY <1>4
  <2>2. \A n \in Nat : n \in T => n + 1 \in T
    <3> HIDE DEF Good
    <3> QED
      BY <1>1, <1>5
  <2> HIDE DEF T
  <2> QED
    BY <2>1, <2>2, NatSetInduction
<1> QED
  BY <1>1, <1>3, <1>6

LEMMA CoursesStart == K!Init => CoursesInv
<1> SUFFICES ASSUME K!Init PROVE CoursesInv
  OBVIOUS
<1>1. sent = <<First>> /\ inFlight = {1} /\ answered = <<>> /\ selected = <<>>
  BY DEF K!Init
<1>2. /\ <<First>> \in Seq(Orders \union {First})
      /\ <<>> \in Seq(Nat) /\ <<>> \in Seq(AnyCourse) /\ DOMAIN <<>> = {}
  OBVIOUS
<1> QED
  BY <1>1, <1>2 DEF CoursesInv, Once

(* A course is taken from the list that is shown, and only if none of its  *)
(* id is selected.                                                         *)
LEMMA SelectOnce ==
  ASSUME CoursesInv, NEW course, K!Select(course)
  PROVE  selected' \in Seq(AnyCourse) /\ Once(selected')
<1> USE DEF CoursesInv
<1>1. /\ selected' = Append(selected, course) /\ course \in K!Shown
      /\ \A i \in DOMAIN selected : selected[i].id # course.id
  BY DEF K!Select, K!IsSelected
<1>2. course \in AnyCourse
  <2>1. answered # <<>> /\ \E c \in Courses : course = [id |-> c, fetch |-> K!Last(answered)]
    BY <1>1 DEF K!Shown
  <2>2. K!Last(answered) \in Nat
    BY <2>1 DEF K!Last
  <2> QED
    BY <2>1, <2>2 DEF AnyCourse
<1>3. /\ selected' \in Seq(AnyCourse)
      /\ DOMAIN selected' = DOMAIN selected \union {Len(selected) + 1}
      /\ selected'[Len(selected) + 1] = course
      /\ \A i \in DOMAIN selected : selected'[i] = selected[i]
  BY <1>1, <1>2
<1> QED
  BY <1>1, <1>3 DEF Once

LEMMA CoursesStep == CoursesInv /\ [K!Next]_courseVars => CoursesInv'
<1> SUFFICES ASSUME CoursesInv, [K!Next]_courseVars PROVE CoursesInv'
  OBVIOUS
<1>1. ASSUME NEW order \in Orders, K!Choose(order) PROVE CoursesInv'
  <2>1. /\ sent' = Append(sent, order) /\ sent \in Seq(Orders \union {First})
        /\ inFlight' = inFlight \union {Len(sent')} /\ UNCHANGED <<answered, selected>>
    BY <1>1 DEF K!Choose, CoursesInv
  <2>2. sent' \in Seq(Orders \union {First}) /\ Len(sent') \in Nat
    BY <2>1
  <2> QED
    BY <2>1, <2>2 DEF CoursesInv
<1>2. ASSUME NEW n \in inFlight, K!Receive(n) PROVE CoursesInv'
  <2>1. /\ answered' = Append(answered, n) /\ inFlight' = inFlight \ {n}
        /\ UNCHANGED <<sent, selected>> /\ n \in Nat
    BY <1>2 DEF K!Receive, CoursesInv
  <2> QED
    BY <2>1 DEF CoursesInv
<1>3. ASSUME NEW n \in inFlight, K!Fail(n) PROVE CoursesInv'
  BY <1>3 DEF K!Fail, CoursesInv
<1>4. ASSUME NEW course, K!Select(course) PROVE CoursesInv'
  <2>1. UNCHANGED <<sent, inFlight, answered>>
    BY <1>4 DEF K!Select
  <2> QED
    BY <1>4, <2>1, SelectOnce DEF CoursesInv
<1>5. ASSUME NEW id \in Courses, K!RemoveSelectedCourse(id) PROVE CoursesInv'
  <2>1. UNCHANGED <<sent, inFlight, answered>> /\ selected' = K!Kept(id)
    BY <1>5 DEF K!RemoveSelectedCourse
  <2> QED
    BY <2>1, KeptOnce DEF CoursesInv
<1>6. CASE UNCHANGED courseVars
  BY <1>6 DEF courseVars, CoursesInv
<1> QED
  BY <1>1, <1>2, <1>3, <1>4, <1>5, <1>6 DEF K!Next

(* However often the list is fetched anew and in whatever order its        *)
(* replies come, no course is selected twice (app.js:24, 73-79).           *)
THEOREM CoursesSelectedOnce == MCSpec => []SelectedOnce
<1>1. MCInit => CoursesInv
  BY CoursesStart DEF MCInit
<1>2. CoursesInv /\ [MCNext]_<<job, vars, courseVars, modelVars, formVars>> => CoursesInv'
  BY CoursesStep DEF MCNext
<1>3. CoursesInv => SelectedOnce
  BY DEF CoursesInv, Once, SelectedOnce, K!SelectedOnce
<1> QED
  BY <1>1, <1>2, <1>3, PTL DEF MCSpec

-----------------------------------------------------------------------------
\* A connection of the location service.

(* The conversation: prompts are counted as they are sent, and an answer   *)
(* ends it.                                                                *)
Conversing ==
  /\ pc \in {"greet", "option", "location", "done"}
  /\ prompts \in 0 .. 2
  /\ pc = "greet" => prompts = 0
  /\ pc = "option" => prompts = 1
  /\ pc = "location" => prompts = 2
  /\ pc # "done" => reply = "none"
  /\ said \in Seq(Lines) /\ Len(said) <= prompts
  /\ stream \in Seq(Tokens) /\ data \in Seq(Tokens) /\ heard \in Seq(Seq(Tokens))
  /\ left \in BOOLEAN /\ cuts \in BOOLEAN

(* What is collected and what is still to be received follow each other in *)
(* what was said and end it, wherever it was cut.                          *)
EndsWhatWasSaid(k) ==
  /\ Len(Everything) = k + Len(data) + Len(stream)
  /\ \A i \in 1 .. Len(data) : data[i] = Everything[k + i]
  /\ \A i \in 1 .. Len(stream) : stream[i] = Everything[k + Len(data) + i]
Contiguous == pc # "done" => \E k \in Nat : EndsWhatWasSaid(k)

(* Where nothing is cut they are the line said to the last prompt.         *)
LineSaid(n) == IF Len(said) < n THEN <<>> ELSE said[n]
InTurn ==
  ~ cuts =>
    /\ pc = "greet" => data \o stream = <<>>
    /\ pc = "option" => data \o stream = LineSaid(1)
    /\ pc = "location" => /\ said # <<>> /\ Strip(said[1]) = <<"1">>
                          /\ data \o stream = LineSaid(2)

LocationInv ==
  Conversing /\ Contiguous /\ InTurn /\ AwardIsDeserved /\ AnswersWhatWasSaid

(* A set of positions has a first and a last one.                          *)
LEMMA MinMaxOfPositions ==
  ASSUME NEW n \in Nat, NEW S, S \subseteq 1 .. n, S # {}
  PROVE  Min(S) \in S /\ Max(S) \in S /\ Min(S) <= Max(S)
<1> DEFINE R == {p \in Nat \X Nat : p[1] < p[2]}
           D == {n - x : x \in S}
<1>1. IsWellFoundedOn(R, Nat)
  BY NatLessThanWellFounded DEF OpToRel
<1>2. S \subseteq Nat /\ D \subseteq Nat /\ D # {}
  OBVIOUS
<1>3. PICK a \in S : \A y \in S : ~ (<<y, a>> \in R)
  <2> HIDE DEF R
  <2> QED BY <1>1, <1>2, WFMin
<1>4. PICK d \in D : \A y \in D : ~ (<<y, d>> \in R)
  <2> HIDE DEF R, D
  <2> QED BY <1>1, <1>2, WFMin
<1>5. \A y \in S : a <= y
  <2> SUFFICES ASSUME NEW y \in S, ~ (a <= y) PROVE FALSE
    OBVIOUS
  <2>1. y \in Nat /\ a \in Nat /\ y < a
    BY <1>2
  <2> QED
    BY <2>1, <1>3
<1>6. PICK b \in S : d = n - b
  OBVIOUS
<1>7. \A y \in S : b >= y
  <2> SUFFICES ASSUME NEW y \in S, ~ (b >= y) PROVE FALSE
    OBVIOUS
  <2>0. y \in 1 .. n /\ b \in 1 .. n /\ b < y
    <3>1. y \in 1 .. n /\ b \in 1 .. n
      OBVIOUS
    <3> HIDE DEF R, D
    <3> QED BY <3>1
  <2>1. n - y \in D /\ n - y \in Nat /\ d \in Nat /\ n - y < d
    BY <2>0, <1>6
  <2> QED
    BY <2>1, <1>4
<1>8. Min(S) \in S /\ \A y \in S : Min(S) <= y
  BY <1>5 DEF Min
<1>9. Max(S) \in S /\ \A y \in S : Max(S) >= y
  BY <1>7 DEF Max
<1> QED
  BY <1>8, <1>9

(* What is left of a line without the blanks around it is a part of it.    *)
LEMMA StripIsPart ==
  ASSUME NEW d \in Seq(Tokens)
  PROVE  /\ Strip(d) \in Seq(Tokens)
         /\ Strip(d) # <<>> => \E a, b \in 1 .. Len(d) : a <= b /\ Strip(d) = SubSeq(d, a, b)
<1>1. CASE Inked(d) = {}
  <2>1. Strip(d) = <<>>
    BY <1>1 DEF Strip
  <2> QED
    BY <2>1
<1>2. CASE Inked(d) # {}
  <2>1. Len(d) \in Nat /\ Inked(d) \subseteq 1 .. Len(d)
    BY DEF Inked
  <2>2. PICK a, b \in 1 .. Len(d) : a = Min(Inked(d)) /\ b = Max(Inked(d)) /\ a <= b
    <3>1. /\ Min(Inked(d)) \in Inked(d) /\ Max(Inked(d)) \in Inked(d)
          /\ Min(Inked(d)) <= Max(Inked(d))
      <4>1. \A n \in Nat : \A S : S \subseteq 1 .. n /\ S # {} =>
              Min(S) \in S /\ Max(S) \in S /\ Min(S) <= Max(S)
        BY MinMaxOfPositions
      <4> QED BY <1>2, <2>1, <4>1
    <3> QED
      BY <2>1, <3>1
  <2>3. Strip(d) = SubSeq(d, a, b)
    BY <1>2, <2>2 DEF Strip
  <2>4. SubSeq(d, a, b) \in Seq(Tokens)
    <3>1. a \in Int /\ b \in Int /\ \A i \in a .. b : d[i] \in Tokens
      BY <2>1, <2>2
    <3> QED
      BY <3>1, SubSeqProperties
  <2> QED
    BY <2>2, <2>3, <2>4
<1> QED
  BY <1>1, <1>2

LEMMA StripNothing == Strip(<<>>) = <<>> /\ ~ Check(<<>>)
<1>1. DOMAIN <<>> = {}
  OBVIOUS
<1> QED
  BY <1>1 DEF Strip, Inked, Check

(* What was said in up to two lines.                                       *)
LEMMA SaidInLines ==
  ASSUME NEW s \in Seq(Seq(Tokens))
  PROVE  /\ Len(s) = 0 => FlattenSeq(s) = <<>>
         /\ Len(s) = 1 => FlattenSeq(s) = s[1]
         /\ Len(s) = 2 => FlattenSeq(s) = s[1] \o s[2]
<1> DEFINE flatten == CHOOSE f : f = [i \in 1 .. Len(s) |-> IF i = 1 THEN s[i] ELSE f[i - 1] \o s[i]]
<1>1. Len(s) = 0 => FlattenSeq(s) = <<>>
  <2>1. Len(s) = 0 => s = <<>>
    OBVIOUS
  <2> QED
    BY <2>1 DEF FlattenSeq
<1>2. ASSUME Len(s) # 0 PROVE FlattenSeq(s) = flatten[Len(s)]
  BY <1>2 DEF FlattenSeq
<1>3. ASSUME Len(s) = 1 PROVE flatten[1] = s[1]
  <2> DEFINE g == [i \in 1 .. 1 |-> s[1]]
  <2>1. g = [i \in 1 .. Len(s) |-> IF i = 1 THEN s[i] ELSE g[i - 1] \o s[i]]
    BY <1>3
  <2>2. flatten = [i \in 1 .. Len(s) |-> IF i = 1 THEN s[i] ELSE flatten[i - 1] \o s[i]]
    <3> HIDE DEF g
    <3> QED BY <2>1
  <2> HIDE DEF flatten
  <2> QED
    BY <2>2, <1>3
<1>4. ASSUME Len(s) = 2 PROVE flatten[2] = s[1] \o s[2]
  <2> DEFINE g == [i \in 1 .. 2 |-> IF i = 1 THEN s[1] ELSE s[1] \o s[2]]
  <2>1. g = [i \in 1 .. Len(s) |-> IF i = 1 THEN s[i] ELSE g[i - 1] \o s[i]]
    BY <1>4
  <2>2. flatten = [i \in 1 .. Len(s) |-> IF i = 1 THEN s[i] ELSE flatten[i - 1] \o s[i]]
    <3> HIDE DEF g
    <3> QED BY <2>1
  <2> HIDE DEF flatten
  <2>3. flatten[1] = s[1]
    BY <2>2, <1>4
  <2> QED
    BY <2>2, <2>3, <1>4
<1> HIDE DEF flatten
<1>5. Len(s) = 1 => FlattenSeq(s) = s[1]
  BY <1>2, <1>3
<1>6. Len(s) = 2 => FlattenSeq(s) = s[1] \o s[2]
  BY <1>2, <1>4
<1> QED
  BY <1>1, <1>5, <1>6

(* A part is from the beginning of what is to be received, and all of it   *)
(* where nothing is cut and the part ends a line.                          *)
LEMMA Parts ==
  ASSUME Conversing, NEW n \in PartSizes
  PROVE  /\ n \in Nat /\ n <= Len(stream)
         /\ Part(n) \in Seq(Tokens) /\ Len(Part(n)) = n
         /\ \A i \in 1 .. n : Part(n)[i] = stream[i]
         /\ SubSeq(stream, n + 1, Len(stream)) \in Seq(Tokens)
         /\ Len(SubSeq(stream, n + 1, Len(stream))) = Len(stream) - n
         /\ \A i \in 1 .. Len(stream) - n :
              SubSeq(stream, n + 1, Len(stream))[i] = stream[n + i]
         /\ ~ cuts /\ Complete(n) => n = Len(stream)
<1>1. /\ stream \in Seq(Tokens) /\ Len(stream) \in Nat
      /\ BUFF_SIZE \in Nat \ {0} /\ (stream = <<>> => Len(stream) = 0)
  BY BuffSizeIsPositive DEF Conversing
<1>2. /\ n \in Nat /\ n <= Len(stream)
      /\ ~ cuts /\ Complete(n) => n = Len(stream)
  BY <1>1 DEF PartSizes, Complete, Conversing
<1>3. /\ Part(n) \in Seq(Tokens) /\ Len(Part(n)) = n
      /\ \A i \in 1 .. n : Part(n)[i] = stream[i]
  <2>1. 1 \in Int /\ n \in Int /\ \A i \in 1 .. n : stream[i] \in Tokens
    BY <1>1, <1>2
  <2>2. /\ SubSeq(stream, 1, n) \in Seq(Tokens)
        /\ Len(SubSeq(stream, 1, n)) = IF 1 <= n THEN n - 1 + 1 ELSE 0
        /\ \A i \in 1 .. n - 1 + 1 : SubSeq(stream, 1, n)[i] = stream[1 + i - 1]
    BY <2>1, SubSeqProperties
  <2> QED
    BY <1>2, <2>2 DEF Part
<1>4. /\ SubSeq(stream, n + 1, Len(stream)) \in Seq(Tokens)
      /\ Len(SubSeq(stream, n + 1, Len(stream))) = Len(stream) - n
      /\ \A i \in 1 .. Len(stream) - n :
           SubSeq(stream, n + 1, Len(stream))[i] = stream[n + i]
  <2> DEFINE m == n + 1
             l == Len(stream)
  <2>1. m \in Int /\ l \in Int /\ \A i \in m .. l : stream[i] \in Tokens
    BY <1>1, <1>2
  <2>2. /\ SubSeq(stream, m, l) \in Seq(Tokens)
        /\ Len(SubSeq(stream, m, l)) = IF m <= l THEN l - m + 1 ELSE 0
        /\ \A i \in 1 .. l - m + 1 : SubSeq(stream, m, l)[i] = stream[m + i - 1]
    BY <2>1, SubSeqProperties
  <2>3. /\ l - m + 1 = l - n /\ (~ (m <= l) => l - n = 0)
        /\ \A i \in 1 .. l - n : m + i - 1 = n + i
    BY <1>1, <1>2
  <2> QED
    BY <2>2, <2>3
<1> QED
  BY <1>2, <1>3, <1>4

Gathered(n) == data \o Part(n)

(* What was collected so far and the next part follow each other in what   *)
(* was said, and the rest after them.                                      *)
LEMMA GatheredInOrder ==
  ASSUME Conversing, NEW n \in PartSizes, Receive(n), said' = said,
         NEW k \in Nat, EndsWhatWasSaid(k)
  PROVE  /\ data' \in Seq(Tokens) /\ stream' \in Seq(Tokens)
         /\ Gathered(n) \in Seq(Tokens)
         /\ k + Len(Gathered(n)) <= Len(Everything)
         /\ \A i \in 1 .. Len(Gathered(n)) : Gathered(n)[i] = Everything[k + i]
         /\ \E m \in Nat : EndsWhatWasSaid(m)'
<1> DEFINE d == Gathered(n)
           rest == SubSeq(stream, n + 1, Len(stream))
           E == Everything
<1>1. /\ data \in Seq(Tokens) /\ stream \in Seq(Tokens)
      /\ Len(data) \in Nat /\ Len(stream) \in Nat
  BY DEF Conversing
<1>2. /\ n \in Nat /\ n <= Len(stream)
      /\ Part(n) \in Seq(Tokens) /\ Len(Part(n)) = n
      /\ \A i \in 1 .. n : Part(n)[i] = stream[i]
      /\ rest \in Seq(Tokens) /\ Len(rest) = Len(stream) - n
      /\ \A i \in 1 .. Len(stream) - n : rest[i] = stream[n + i]
  BY Parts
<1>3. /\ d \in Seq(Tokens) /\ Len(d) = Len(data) + n
      /\ \A i \in 1 .. Len(d) : d[i] = IF i <= Len(data) THEN data[i] ELSE stream[i - Len(data)]
  BY <1>1, <1>2 DEF Gathered
<1>4. /\ Len(E) = k + Len(data) + Len(stream)
      /\ \A i \in 1 .. Len(data) : data[i] = E[k + i]
      /\ \A i \in 1 .. Len(stream) : stream[i] = E[k + Len(data) + i]
  BY DEF EndsWhatWasSaid
<1>5. \A i \in 1 .. Len(d) : d[i] = E[k + i]
  <2> SUFFICES ASSUME NEW i \in 1 .. Len(d) PROVE d[i] = E[k + i]
    OBVIOUS
  <2>1. CASE i <= Len(data)
    BY <1>1, <1>3, <1>4, <2>1
  <2>2. CASE ~ (i <= Len(data))
    <3>1. /\ i - Len(data) \in 1 .. Len(stream)
          /\ k + Len(data) + (i - Len(data)) = k + i
      BY <1>1, <1>2, <1>3, <2>2
    <3> QED
      BY <1>3, <1>4, <2>2, <3>1
  <2> QED
    BY <2>1, <2>2
<1>6. stream' = rest /\ data' = IF Complete(n) THEN <<>> ELSE d
  BY DEF Receive, Gathered
<1>7. Everything' = E
  BY DEF Everything
<1>8. \A j \in 1 .. Len(rest) : rest[j] = E[k + Len(d) + j]
  <2> SUFFICES ASSUME NEW j \in 1 .. Len(rest) PROVE rest[j] = E[k + Len(d) + j]
    OBVIOUS
  <2>1. /\ j \in 1 .. Len(stream) - n /\ n + j \in 1 .. Len(stream)
        /\ k + Len(data) + (n + j) = k + Len(d) + j
    BY <1>1, <1>2, <1>3
  <2> QED
    BY <1>2, <1>4, <2>1
<1>9. Len(E) = k + Len(d) + Len(rest) /\ Len(d) \in Nat /\ Len(rest) \in Nat
  <2>1. \A kk, a, b, m \in Nat : m <= b => kk + a + b = kk + (a + m) + (b - m)
    OBVIOUS
  <2>2. Len(E) = k + (Len(data) + n) + (Len(stream) - n)
    BY <1>1, <1>2, <1>4, <2>1
  <2> HIDE DEF d, rest, E
  <2> QED
    BY <1>2, <1>3, <2>2
<1>10. \E m \in Nat : EndsWhatWasSaid(m)'
  <2> HIDE DEF d, rest, E
  <2>1. CASE Complete(n)
    <3>1. k + Len(d) \in Nat /\ data' = <<>> /\ Len(<<>>) = 0 /\ stream' = rest
          /\ k + Len(d) + 0 = k + Len(d)
      BY <1>6, <1>9, <2>1
    <3>2. PICK m \in Nat : m = k + Len(d)
      BY <3>1
    <3>3. Len(data') = 0 /\ m + Len(data') = m /\ 1 .. Len(data') = {}
      BY <3>1
    <3>4. Len(Everything') = m + Len(data') + Len(stream')
      BY <1>7, <1>9, <3>1, <3>2, <3>3
    <3>5. \A i \in 1 .. Len(stream') : stream'[i] = Everything'[m + Len(data') + i]
      BY <1>7, <1>8, <3>1, <3>2, <3>3
    <3>6. EndsWhatWasSaid(m)'
      BY <3>3, <3>4, <3>5 DEF EndsWhatWasSaid
    <3> QED
      BY <3>6
  <2>2. CASE ~ Complete(n)
    <3>1. data' = d /\ stream' = rest
      BY <1>6, <2>2
    <3>2. EndsWhatWasSaid(k)'
      BY <1>5, <1>7, <1>8, <1>9, <3>1 DEF EndsWhatWasSaid
    <3> QED
      BY <3>2
  <2> QED
    BY <2>1, <2>2
<1>11. data' \in Seq(Tokens) /\ stream' \in Seq(Tokens)
  <2>1. <<>> \in Seq(Tokens)
    OBVIOUS
  <2> QED
    BY <1>2, <1>3, <1>6, <2>1
<1>12. k + Len(d) <= Len(E)
  <2> HIDE DEF d, rest, E
  <2> QED
    BY <1>9
<1> QED
  BY <1>3, <1>5, <1>10, <1>11, <1>12

(* Nothing is left of two sequences that give an empty one.                *)
LEMMA NothingGathered ==
  ASSUME data \in Seq(Tokens), stream \in Seq(Tokens)
  PROVE  /\ data \o stream = <<>> => data = <<>> /\ stream = <<>>
         /\ data = <<>> /\ stream = <<>> => data \o stream = <<>>
OBVIOUS

LEMMA SayKeeps ==
  ASSUME LocationInv, NEW line \in Lines, Say(line)
  PROVE  LocationInv'
<1> USE DEF LocationInv
<1>1. /\ pc # "done" /\ Len(said) < prompts /\ said' = Append(said, line)
      /\ stream' = stream \o line
      /\ UNCHANGED <<pc, prompts, left, data, heard, reply, cuts>>
  BY DEF Say
<1>2. /\ said \in Seq(Lines) /\ Len(said) \in {0, 1} /\ line \in Seq(Tokens)
      /\ Lines \subseteq Seq(Tokens) /\ line # <<>>
      /\ data \in Seq(Tokens) /\ stream \in Seq(Tokens)
  <2>1. /\ said \in Seq(Lines) /\ Len(said) < prompts /\ prompts \in 0 .. 2
        /\ data \in Seq(Tokens) /\ stream \in Seq(Tokens)
    BY <1>1 DEF Conversing
  <2>2. Len(said) \in {0, 1}
    <3>1. Len(said) \in Nat
      BY <2>1
    <3>2. \A a \in Nat, p \in 0 .. 2 : a < p => a \in {0, 1}
      OBVIOUS
    <3>3. Len(said) < prompts /\ prompts \in 0 .. 2
      BY <2>1
    <3> QED BY <3>1, <3>2, <3>3
  <2>3. Lines \subseteq Seq(Tokens) /\ line \in Seq(Tokens) /\ line # <<>>
    BY LinesAreTokens
  <2> QED
    BY <2>1, <2>2, <2>3
<1>3. /\ said' \in Seq(Lines) /\ Len(said') = Len(said) + 1
      /\ \A i \in 1 .. Len(said) : said'[i] = said[i]
      /\ said'[Len(said) + 1] = line /\ said' # <<>>
  <2>1. said' = Append(said, line) /\ said \in Seq(Lines) /\ Len(said) \in Nat
    BY <1>1, <1>2
  <2>2. /\ said' \in Seq(Lines) /\ Len(said') = Len(said) + 1
        /\ said'[Len(said) + 1] = line
    BY <2>1, AppendProperties
  <2>3. \A i \in 1 .. Len(said) : said'[i] = said[i]
    BY <2>1, AppendProperties
  <2>4. said' # <<>>
    BY <2>1, AppendProperties
  <2> QED
    BY <2>2, <2>3, <2>4
<1>4. Conversing'
  BY <1>1, <1>2, <1>3 DEF Conversing
<1>5. Everything' = Everything \o line /\ Everything \in Seq(Tokens)
  <2>1. said \in Seq(Seq(Tokens)) /\ said' \in Seq(Seq(Tokens))
    BY <1>2, <1>3
  <2>2. CASE Len(said) = 0
    <3>0. Len(said') = 1 /\ said'[1] = line
      BY <1>3, <2>2
    <3>1. FlattenSeq(said) = <<>> /\ FlattenSeq(said') = said'[1]
      BY <2>1, <2>2, <3>0, SaidInLines
    <3>2. <<>> \o line = line /\ <<>> \in Seq(Tokens)
      BY <1>2
    <3> QED
      BY <3>0, <3>1, <3>2 DEF Everything
  <2>3. CASE Len(said) = 1
    <3>0. Len(said') = 2 /\ said'[2] = line /\ said'[1] = said[1] /\ said[1] \in Seq(Tokens)
      BY <1>2, <1>3, <2>3
    <3>1. FlattenSeq(said) = said[1] /\ FlattenSeq(said') = said'[1] \o said'[2]
      BY <2>1, <2>3, <3>0, SaidInLines
    <3> QED
      BY <3>0, <3>1 DEF Everything
  <2> QED
    BY <1>2, <2>2, <2>3
<1>6. Contiguous'
  <2>1. PICK k \in Nat : EndsWhatWasSaid(k)
    BY <1>1 DEF Contiguous
  <2> DEFINE E == Everything
             a == Len(data)
             b == Len(stream)
             l == Len(line)
  <2>2. /\ Len(E) = k + a + b /\ a \in Nat /\ b \in Nat /\ l \in Nat
        /\ \A i \in 1 .. a : data[i] = E[k + i]
        /\ \A i \in 1 .. b : stream[i] = E[k + a + i]
    BY <1>2, <2>1 DEF EndsWhatWasSaid
  <2>3. /\ Len(E \o line) = Len(E) + l
        /\ \A i \in 1 .. Len(E) : (E \o line)[i] = E[i]
        /\ \A i \in 1 .. l : (E \o line)[Len(E) + i] = line[i]
    BY <1>2, <1>5
  <2>4. /\ Len(stream \o line) = b + l
        /\ \A i \in 1 .. b + l : (stream \o line)[i] = IF i <= b THEN stream[i] ELSE line[i - b]
    BY <1>2
  <2>5. \A i \in 1 .. a : data[i] = (E \o line)[k + i]
    BY <2>2, <2>3
  <2>6. \A i \in 1 .. b + l : (stream \o line)[i] = (E \o line)[k + a + i]
    <3> SUFFICES ASSUME NEW i \in 1 .. b + l
                 PROVE  (stream \o line)[i] = (E \o line)[k + a + i]
      OBVIOUS
    <3>1. CASE i <= b
      <4>1. i \in 1 .. b /\ k + a + i \in 1 .. Len(E)
        BY <2>2, <3>1
      <4> QED
        BY <2>2, <2>3, <2>4, <3>1, <4>1
    <3>2. CASE ~ (i <= b)
      <4>1. i - b \in 1 .. l /\ k + a + i = Len(E) + (i - b)
        BY <2>2, <3>2
      <4> QED
        BY <2>3, <2>4, <3>2, <4>1
    <3> QED
      BY <3>1, <3>2
  <2>7. Len(E \o line) = k + a + (b + l)
    BY <2>2, <2>3
  <2>8. EndsWhatWasSaid(k)'
    BY <1>1, <1>5, <2>4, <2>5, <2>6, <2>7 DEF EndsWhatWasSaid
  <2> QED
    BY <2>8 DEF Contiguous
<1>7. InTurn'
  <2> SUFFICES ASSUME ~ cuts PROVE InTurn'
    BY <1>1 DEF InTurn
  <2>1. <<>> \o (<<>> \o line) = line
    BY <1>2
  <2>2. pc # "greet"
    BY <1>1, <1>2 DEF Conversing
  <2>3. CASE pc = "option"
    <3>1. Len(said) = 0
      BY <1>1, <1>2, <2>3 DEF Conversing
    <3>2. data = <<>> /\ stream = <<>>
      BY <1>2, <2>3, <3>1, NothingGathered DEF InTurn, LineSaid
    <3>3. (data \o stream)' = line /\ LineSaid(1)' = line
      BY <1>1, <1>3, <2>1, <3>1, <3>2 DEF LineSaid
    <3> QED
      BY <1>1, <2>3, <3>3 DEF InTurn
  <2>4. CASE pc = "location"
    <3>1. said # <<>> /\ Strip(said[1]) = <<"1">> /\ data \o stream = LineSaid(2)
      BY <2>4 DEF InTurn
    <3>2. Len(said) = 1
      BY <1>2, <3>1
    <3>3. data = <<>> /\ stream = <<>>
      BY <1>2, <3>1, <3>2, NothingGathered DEF LineSaid
    <3>4. (data \o stream)' = line /\ LineSaid(2)' = line /\ said'[1] = said[1]
      BY <1>1, <1>3, <2>1, <3>2, <3>3 DEF LineSaid
    <3> QED
      BY <1>1, <1>3, <2>4, <3>1, <3>4 DEF InTurn
  <2> QED
    BY <1>1, <2>2, <2>3, <2>4 DEF Conversing
<1>8. AwardIsDeserved' /\ AnswersWhatWasSaid'
  BY <1>1 DEF Conversing, AwardIsDeserved, AnswersWhatWasSaid
<1> QED
  BY <1>4, <1>6, <1>7, <1>8

(* A line that is not complete yet: what was collected is one more part.   *)
LEMMA MoreToCome ==
  ASSUME LocationInv, NEW n \in PartSizes, Receive(n), ~ Complete(n), pc # "done",
         UNCHANGED <<pc, prompts, said, left, reply, cuts>>
  PROVE  LocationInv'
<1> USE DEF LocationInv
<1>1. PICK k \in Nat : EndsWhatWasSaid(k)
  BY DEF Contiguous
<1>2. /\ data' \in Seq(Tokens) /\ stream' \in Seq(Tokens)
      /\ \E m \in Nat : EndsWhatWasSaid(m)'
  BY <1>1, GatheredInOrder
<1>3. /\ heard' = heard /\ data' = data \o Part(n)
      /\ stream' = SubSeq(stream, n + 1, Len(stream))
  BY DEF Receive
<1>4. Conversing' /\ Contiguous'
  BY <1>2, <1>3 DEF Conversing, Contiguous
<1>5. data' \o stream' = data \o stream
  <2> DEFINE p == Part(n)
             r == SubSeq(stream, n + 1, Len(stream))
  <2>1. /\ n \in Nat /\ n <= Len(stream) /\ p \in Seq(Tokens) /\ Len(p) = n
        /\ \A i \in 1 .. n : p[i] = stream[i]
        /\ r \in Seq(Tokens) /\ Len(r) = Len(stream) - n
        /\ \A i \in 1 .. Len(stream) - n : r[i] = stream[n + i]
    BY Parts
  <2>2. data \in Seq(Tokens) /\ stream \in Seq(Tokens)
    BY DEF Conversing
  <2> HIDE DEF p, r
  <2>3. p \o r = stream
    <3>1. Len(p \o r) = Len(stream) /\ p \o r \in Seq(Tokens)
      <4>1. p \o r \in Seq(Tokens) /\ Len(p \o r) = Len(p) + Len(r)
        BY <2>1, ConcatProperties
      <4>2. \A a, b \in Nat : a + (b - a) = b
        OBVIOUS
      <4>3. Len(stream) \in Nat
        BY <2>2
      <4> QED
        BY <2>1, <4>1, <4>2, <4>3
    <3>2. \A i \in 1 .. Len(stream) : (p \o r)[i] = stream[i]
      <4> SUFFICES ASSUME NEW i \in 1 .. Len(stream) PROVE (p \o r)[i] = stream[i]
        OBVIOUS
      <4>1. CASE i <= n
        BY <2>1, <2>2, <4>1
      <4>2. CASE ~ (i <= n)
        <5>1. i - n \in 1 .. Len(stream) - n /\ n + (i - n) = i
          BY <2>1, <2>2, <4>2
        <5>2. (p \o r)[i] = r[i - n]
          BY <2>1, <2>2, <4>2, <5>1
        <5> QED
          BY <2>1, <5>1, <5>2
      <4> QED
        BY <4>1, <4>2
    <3> QED
      BY <2>2, <3>1, <3>2, SeqEqual
  <2>4. (data \o p) \o r = data \o (p \o r)
    <3>1. data \in Seq(Tokens) /\ p \in Seq(Tokens) /\ r \in Seq(Tokens)
      BY <2>1, <2>2
    <3> QED
      BY ONLY <3>1, ConcatAssociative, SMTT(30)
  <2> QED
    BY <1>3, <2>3, <2>4 DEF p, r
<1>6. InTurn'
  BY <1>5 DEF InTurn, LineSaid
<1>7. AwardIsDeserved' /\ AnswersWhatWasSaid'
  BY DEF Conversing, AwardIsDeserved, AnswersWhatWasSaid
<1> QED
  BY <1>4, <1>6, <1>7

(* A complete line: what the caller gets is what was collected, from the   *)
(* beginning of the line said to this prompt where nothing is cut.         *)
LEMMA LineComplete ==
  ASSUME LocationInv, NEW n \in PartSizes, Receive(n), Complete(n)
  PROVE  /\ heard' \in Seq(Seq(Tokens)) /\ Last(heard') = Strip(Gathered(n))
         /\ data' = <<>> /\ stream' \in Seq(Tokens)
         /\ Gathered(n) \in Seq(Tokens)
         /\ ~ cuts => stream' = <<>> /\ Gathered(n) = data \o stream
<1> USE DEF LocationInv
<1>1. /\ data \in Seq(Tokens) /\ stream \in Seq(Tokens) /\ heard \in Seq(Seq(Tokens))
  BY DEF Conversing
<1>2. /\ n \in Nat /\ Part(n) \in Seq(Tokens) /\ Len(Part(n)) = n
      /\ \A i \in 1 .. n : Part(n)[i] = stream[i]
      /\ SubSeq(stream, n + 1, Len(stream)) \in Seq(Tokens)
      /\ Len(SubSeq(stream, n + 1, Len(stream))) = Len(stream) - n
      /\ ~ cuts => n = Len(stream)
  BY Parts
<1>3. /\ data' = <<>> /\ stream' = SubSeq(stream, n + 1, Len(stream))
      /\ heard' = Append(heard, Strip(Gathered(n)))
  BY DEF Receive, Gathered
<1>4. Gathered(n) \in Seq(Tokens)
  BY <1>1, <1>2 DEF Gathered
<1>5. Strip(Gathered(n)) \in Seq(Tokens)
  BY <1>4, StripIsPart
<1>6. heard' \in Seq(Seq(Tokens)) /\ Last(heard') = Strip(Gathered(n))
  BY <1>1, <1>3, <1>5 DEF Last
<1>7. ASSUME ~ cuts PROVE stream' = <<>> /\ Gathered(n) = data \o stream
  <2>1. n = Len(stream) /\ Len(stream) \in Nat
    BY <1>1, <1>2, <1>7
  <2>2. Part(n) = stream
    BY <1>1, <1>2, <2>1, SeqEqual
  <2>3. Len(stream') = 0
    BY <1>2, <1>3, <2>1
  <2> QED
    BY <1>2, <1>3, <2>2, <2>3 DEF Gathered
<1> QED
  BY <1>2, <1>3, <1>4, <1>6, <1>7

LEMMA HearOptionKeeps ==
  ASSUME LocationInv, NEW n \in PartSizes, HearOption(n)
  PROVE  LocationInv'
<1>1. CASE ~ Complete(n)
  BY <1>1, MoreToCome DEF HearOption
<1>2. CASE Complete(n)
  <2> USE DEF LocationInv
  <2>0. /\ pc = "option" /\ Receive(n) /\ said' = said /\ left' = left /\ cuts' = cuts
        /\ prompts = 1 /\ reply = "none"
    BY DEF HearOption, Conversing
  <2> DEFINE d == Gathered(n)
  <2>1. /\ heard' \in Seq(Seq(Tokens)) /\ Last(heard') = Strip(d)
        /\ data' = <<>> /\ stream' \in Seq(Tokens)
        /\ ~ cuts => stream' = <<>> /\ d = LineSaid(1)
    BY <1>2, <2>0, LineComplete DEF InTurn
  <2> HIDE DEF d
  <2>2. \/ Strip(d) = <<"1">> /\ pc' = "location" /\ prompts' = 2 /\ reply' = "none"
        \/ Strip(d) = <<"2">> /\ pc' = "done" /\ prompts' = 1 /\ reply' = "stay away"
        \/ /\ Strip(d) \notin {<<"1">>, <<"2">>}
           /\ pc' = "done" /\ prompts' = 1 /\ reply' = "none"
    BY <1>2, <2>0, <2>1 DEF HearOption
  <2>3. said \in Seq(Lines) /\ Len(said) <= 1 /\ Len(said) \in Nat
    BY <2>0 DEF Conversing
  <2>4. Conversing'
    <3>1. pc' \in {"location", "done"} /\ prompts' \in {1, 2} /\ (pc' = "location" => prompts' = 2)
      BY <2>2
    <3>2. pc' # "done" => reply' = "none"
      BY <2>2
    <3>3. <<>> \in Seq(Tokens) /\ left \in BOOLEAN /\ cuts \in BOOLEAN
      BY DEF Conversing
    <3>4. Len(said') <= prompts'
      BY <2>0, <2>3, <3>1
    <3> QED
      BY <2>0, <2>1, <2>3, <3>1, <3>2, <3>3, <3>4 DEF Conversing
  <2>5. Contiguous'
    <3>1. PICK k \in Nat : EndsWhatWasSaid(k)
      BY <2>0 DEF Contiguous
    <3> QED
      BY <2>0, <3>1, GatheredInOrder DEF Contiguous
  <2>6. InTurn'
    <3>1. CASE pc' = "location" /\ ~ cuts
      <4>1. Strip(d) = <<"1">> /\ d = LineSaid(1) /\ stream' = <<>>
        BY <2>1, <2>2, <3>1
      <4>2. said # <<>> /\ Strip(said[1]) = <<"1">> /\ Len(said) = 1
        <5>1. <<"1">> # <<>>
          OBVIOUS
        <5>2. Len(said) = 1
          BY <2>3, <4>1, <5>1, StripNothing DEF LineSaid
        <5> QED
          BY <2>3, <4>1, <5>2 DEF LineSaid
      <4>3. data' \o stream' = <<>> /\ LineSaid(2)' = <<>>
        BY <2>0, <2>1, <4>1, <4>2 DEF LineSaid
      <4> QED
        BY <2>0, <3>1, <4>2, <4>3 DEF InTurn
    <3> QED
      BY <2>0, <2>2, <3>1 DEF InTurn
  <2>7. AwardIsDeserved'
    BY <2>2 DEF AwardIsDeserved
  <2>8. AnswersWhatWasSaid'
    <3> SUFFICES ASSUME pc' = "done", ~ cuts PROVE reply' = Answer(said)
      BY <2>0 DEF AnswersWhatWasSaid, Answer
    <3>1. d = LineSaid(1) /\ <<"2">> # <<>> /\ <<"2">> # <<"1">>
      BY <2>1
    <3>2. CASE said = <<>>
      <4>1. Strip(d) = <<>>
        BY <3>1, <3>2, StripNothing DEF LineSaid
      <4> QED
        BY <2>2, <3>1, <3>2, <4>1 DEF Answer
    <3>3. CASE said # <<>>
      <4>1. d = said[1]
        BY <2>3, <3>1, <3>3 DEF LineSaid
      <4> QED
        BY <2>2, <3>1, <3>3, <4>1 DEF Answer
    <3> QED
      BY <3>2, <3>3
  <2> QED
    BY <2>4, <2>5, <2>6, <2>7, <2>8
<1> QED
  BY <1>1, <1>2

LEMMA HearLocationKeeps ==
  ASSUME LocationInv, NEW n \in PartSizes, HearLocation(n)
  PROVE  LocationInv'
<1>1. CASE ~ Complete(n)
  BY <1>1, MoreToCome DEF HearLocation
<1>2. CASE Complete(n)
  <2> USE DEF LocationInv
  <2>0. /\ pc = "location" /\ Receive(n) /\ said' = said /\ left' = left /\ cuts' = cuts
        /\ prompts = 2 /\ prompts' = 2 /\ pc' = "done"
    BY <1>2 DEF HearLocation, Conversing
  <2> DEFINE d == Gathered(n)
             E == Everything
  <2>1. /\ heard' \in Seq(Seq(Tokens)) /\ Last(heard') = Strip(d)
        /\ data' = <<>> /\ stream' \in Seq(Tokens) /\ d \in Seq(Tokens)
        /\ ~ cuts => d = LineSaid(2) /\ said # <<>> /\ Strip(said[1]) = <<"1">>
    BY <1>2, <2>0, LineComplete DEF InTurn
  <2>2. reply' = IF Check(Strip(d)) THEN "award" ELSE "bad wingman"
    BY <1>2, <2>1 DEF HearLocation
  <2>3. PICK k \in Nat : EndsWhatWasSaid(k)
    BY <2>0 DEF Contiguous
  <2>4. /\ k + Len(d) <= Len(E)
        /\ \A i \in 1 .. Len(d) : d[i] = E[k + i]
    BY <2>0, <2>3, GatheredInOrder
  <2> HIDE DEF d
  <2>5. Conversing'
    <3>1. <<>> \in Seq(Tokens)
      OBVIOUS
    <3> QED
      BY <2>0, <2>1, <3>1 DEF Conversing
  <2>6. AwardIsDeserved'
    <3> SUFFICES ASSUME Check(Strip(d))
                 PROVE  \E i, j \in 1 .. Len(E) : Check(SubSeq(E, i, j))
      BY <2>0, <2>2 DEF AwardIsDeserved, Everything
    <3>1. Strip(d) # <<>>
      BY StripNothing
    <3>2. PICK a, b \in 1 .. Len(d) : a <= b /\ Strip(d) = SubSeq(d, a, b)
      BY <2>1, <3>1, StripIsPart
    <3>3. Len(d) \in Nat /\ Len(E) \in Nat
      BY <2>1, <2>3 DEF EndsWhatWasSaid, Conversing
    <3> HIDE DEF E
    <3>4. k + a \in 1 .. Len(E) /\ k + b \in 1 .. Len(E)
      BY <2>4, <3>2, <3>3
    <3>5. SubSeq(E, k + a, k + b) = SubSeq(d, a, b)
      <4>1. /\ SubSeq(d, a, b) = [i \in 1 .. b - a + 1 |-> d[a + i - 1]]
            /\ SubSeq(E, k + a, k + b) = [i \in 1 .. (k + b) - (k + a) + 1 |-> E[(k + a) + i - 1]]
        BY <3>2, <3>3, <3>4
      <4>2. (k + b) - (k + a) + 1 = b - a + 1
        BY <3>2, <3>3
      <4>3. \A i \in 1 .. b - a + 1 : d[a + i - 1] = E[(k + a) + i - 1]
        <5> SUFFICES ASSUME NEW i \in 1 .. b - a + 1 PROVE d[a + i - 1] = E[(k + a) + i - 1]
          OBVIOUS
        <5>1. a + i - 1 \in 1 .. Len(d) /\ (k + a) + i - 1 = k + (a + i - 1)
          BY <3>2, <3>3
        <5> QED
          BY <2>4, <5>1
      <4> QED
        BY <4>1, <4>2, <4>3
    <3> QED
      BY <3>2, <3>4, <3>5
  <2>7. AnswersWhatWasSaid'
    <3> SUFFICES ASSUME ~ cuts PROVE reply' = Answer(said)
      BY <2>0 DEF AnswersWhatWasSaid
    <3>1. d = LineSaid(2) /\ said # <<>> /\ Strip(said[1]) = <<"1">> /\ <<"1">> # <<"2">>
      BY <2>1
    <3>2. said \in Seq(Lines) /\ Len(said) \in {1, 2}
      <4>1. said \in Seq(Lines) /\ Len(said) <= 2
        BY <2>0 DEF Conversing
      <4>2. Len(said) \in Nat /\ Len(said) # 0
        BY <3>1, <4>1
      <4>3. \A m \in Nat : m <= 2 /\ m # 0 => m \in {1, 2}
        OBVIOUS
      <4> QED
        BY <4>1, <4>2, <4>3
    <3>3. CASE Len(said) = 1
      <4>1. Strip(d) = <<>>
        BY <3>1, <3>3, StripNothing DEF LineSaid
      <4>2. Answer(said) = "bad wingman"
        BY <3>1, <3>3 DEF Answer
      <4> QED
        BY <2>2, <4>1, <4>2, StripNothing
    <3>4. CASE Len(said) = 2
      <4>1. d = said[2]
        BY <3>1, <3>4 DEF LineSaid
      <4> QED
        BY <2>2, <3>1, <3>4, <4>1 DEF Answer
    <3> QED
      BY <3>2, <3>3, <3>4
  <2> QED
    BY <2>0, <2>5, <2>6, <2>7 DEF Contiguous, InTurn
<1> QED
  BY <1>1, <1>2

LEMMA LocationInit == Init \/ Over => LocationInv
<1>1. ASSUME Over PROVE LocationInv
  <2>0. <<>> \in Seq(Tokens) /\ <<>> \in Seq(Lines) /\ <<>> \in Seq(Seq(Tokens)) /\ Len(<<>>) = 0
    OBVIOUS
  <2>1. Conversing
    <3>1. /\ said = <<>> /\ stream = <<>> /\ data = <<>> /\ heard = <<>>
          /\ prompts = 1 /\ left \in BOOLEAN /\ cuts \in BOOLEAN /\ reply = "none"
      BY <1>1 DEF Over
    <3>2. said \in Seq(Lines) /\ Len(said) <= prompts /\ prompts \in 0 .. 2
      BY <2>0, <3>1
    <3>3. stream \in Seq(Tokens) /\ data \in Seq(Tokens) /\ heard \in Seq(Seq(Tokens))
      BY <2>0, <3>1
    <3> QED
      BY <1>1, <3>1, <3>2, <3>3 DEF Over, Conversing
  <2> QED
    BY <1>1, <2>1 DEF Over, LocationInv, Contiguous, InTurn, AwardIsDeserved, AnswersWhatWasSaid
<1>2. ASSUME Init PROVE LocationInv
  <2>0. <<>> \in Seq(Tokens) /\ <<>> \in Seq(Lines) /\ <<>> \in Seq(Seq(Tokens)) /\ Len(<<>>) = 0
    OBVIOUS
  <2>1. Conversing
    <3>1. /\ said = <<>> /\ stream = <<>> /\ data = <<>> /\ heard = <<>>
          /\ prompts = 0 /\ left \in BOOLEAN /\ cuts \in BOOLEAN /\ reply = "none"
      BY <1>2 DEF Init
    <3>2. said \in Seq(Lines) /\ Len(said) <= prompts /\ prompts \in 0 .. 2
      BY <2>0, <3>1
    <3>3. stream \in Seq(Tokens) /\ data \in Seq(Tokens) /\ heard \in Seq(Seq(Tokens))
      BY <2>0, <3>1
    <3> QED
      BY <1>2, <3>1, <3>2, <3>3 DEF Init, Conversing
  <2>2. EndsWhatWasSaid(0)
    <3>1. said \in Seq(Seq(Tokens)) /\ Len(said) = 0 /\ Len(<<>>) = 0
      BY <1>2 DEF Init
    <3>2. Everything = <<>>
      BY <3>1, SaidInLines DEF Everything
    <3> QED
      BY <1>2, <3>1, <3>2 DEF Init, EndsWhatWasSaid
  <2> QED
    BY <1>2, <2>1, <2>2
    DEF Init, LocationInv, Contiguous, InTurn, AwardIsDeserved, AnswersWhatWasSaid
<1> QED
  BY <1>1, <1>2

LEMMA LocationNext == LocationInv /\ [Next]_vars => LocationInv'
<1> SUFFICES ASSUME LocationInv, [Next]_vars PROVE LocationInv'
  OBVIOUS
<1>1. CASE Greet
  <2> USE DEF LocationInv
  <2>1. /\ pc = "greet" /\ pc' = "option" /\ prompts' = 1 /\ prompts = 0
        /\ UNCHANGED <<said, stream, left, data, heard, reply, cuts>>
    BY <1>1 DEF Greet, Conversing
  <2>2. Len(said) = 0 /\ said \in Seq(Lines) /\ Len(said) \in Nat
    <3>1. said \in Seq(Lines) /\ Len(said) <= 0
      BY <2>1 DEF Conversing
    <3> QED
      BY <3>1
  <2>3. Conversing'
    BY <2>1, <2>2 DEF Conversing
  <2>4. Contiguous'
    <3>1. PICK k \in Nat : EndsWhatWasSaid(k)
      BY <2>1 DEF Contiguous
    <3> QED
      BY <2>1, <3>1 DEF Contiguous, EndsWhatWasSaid, Everything
  <2> QED
    BY <2>1, <2>2, <2>3, <2>4 DEF InTurn, LineSaid, AwardIsDeserved, Everything, AnswersWhatWasSaid, Conversing
<1>2. CASE \E n \in PartSizes : HearOption(n) \/ HearLocation(n)
  BY <1>2, HearOptionKeeps, HearLocationKeeps
<1>3. CASE Reset
  <2> USE DEF LocationInv
  <2>1. /\ left /\ pc \in {"option", "location"} /\ pc' = "done"
        /\ UNCHANGED <<prompts, said, stream, left, data, heard, reply, cuts>>
    BY <1>3 DEF Reset
  <2>2. reply' = "none" /\ left'
    BY <2>1 DEF Conversing
  <2>3. Conversing'
    BY <2>1, <2>2 DEF Conversing
  <2> QED
    BY <2>1, <2>2, <2>3 DEF Contiguous, InTurn, AwardIsDeserved, AnswersWhatWasSaid
<1>4. CASE \E line \in Lines : Say(line)
  BY <1>4, SayKeeps
<1>5. CASE Leave \/ UNCHANGED vars
  <2> USE DEF LocationInv
  <2>1. /\ left' \in BOOLEAN /\ (left' = left \/ pc # "done")
        /\ UNCHANGED <<pc, prompts, said, stream, data, heard, reply, cuts>>
    BY <1>5 DEF Leave, vars, Conversing
  <2>2. Conversing'
    BY <2>1 DEF Conversing
  <2>3. Contiguous'
    <3>1. Everything' = Everything
      BY <2>1 DEF Everything
    <3> QED
      BY <2>1, <3>1 DEF Contiguous, EndsWhatWasSaid
  <2>4. InTurn'
    BY <2>1 DEF InTurn, LineSaid
  <2>5. AwardIsDeserved' /\ AnswersWhatWasSaid'
    BY <2>1 DEF AwardIsDeserved, Everything, AnswersWhatWasSaid
  <2> QED
    BY <2>2, <2>3, <2>4, <2>5
<1> QED
  BY <1>1, <1>2, <1>3, <1>4, <1>5 DEF Next, Serve

LEMMA LocationAlways == MCSpec => []LocationInv
<1>1. MCInit => LocationInv
  BY LocationInit DEF MCInit
<1>2. LocationInv /\ [MCNext]_<<job, vars, courseVars, modelVars, formVars>> => LocationInv'
  BY LocationNext DEF MCNext
<1> QED
  BY <1>1, <1>2, PTL DEF MCSpec

(* Where no line is cut, the answer at the end of a connection is the one  *)
(* to the lines said to the two prompts, whatever their lengths and the    *)
(* size of the buffer are (chall.py:36-44, 93-112).                        *)
THEOREM LocationAnswers == MCSpec => []AnswersWhatWasSaid
<1>1. LocationInv => AnswersWhatWasSaid
  BY DEF LocationInv
<1> QED
  BY <1>1, LocationAlways, PTL

(* However the network cuts the lines, an award is for a location that the *)
(* client said, all of it, in its order and without a gap.                 *)
THEOREM AwardsDeserved == MCSpec => []AwardIsDeserved
<1>1. LocationInv => AwardIsDeserved
  BY DEF LocationInv
<1> QED
  BY <1>1, LocationAlways, PTL

(* What a connection still has to do: the handler's phases to come and,    *)
(* within one, what is to be received.                                     *)
Phases == CASE pc = "greet" -> 3 [] pc = "option" -> 2 [] pc = "location" -> 1 [] pc = "done" -> 0
(* A handler that waits for a client that left has a part to receive.      *)
Listening == left /\ pc \in {"option", "location"} => PartSizes # {}
(* A step of a connection the client has left makes that less.             *)
NearerItsEnd == left => \/ Phases' < Phases
                        \/ Phases' = Phases /\ Len(stream') < Len(stream)

(* A part that ends no line is not empty.                                  *)
LEMMA PartIsReceived ==
  ASSUME Conversing, NEW n \in PartSizes, Receive(n), ~ Complete(n)
  PROVE  Len(stream') < Len(stream)
<1>1. /\ n \in Nat /\ Len(stream) \in Nat
      /\ Len(SubSeq(stream, n + 1, Len(stream))) = Len(stream) - n
  BY Parts DEF Conversing
<1>2. n >= 1
  BY <1>1, BuffSizeIsPositive DEF Complete
<1> QED
  BY <1>1, <1>2 DEF Receive

(* The way to the end of a connection, the descent ConversationEnds stands *)
(* on: once the client has left, a handler that waits for a part finds one *)
(* (chall.py:40-43), and each step takes the handler on or leaves less to  *)
(* receive, whatever the lines, the cuts and the size of the buffer are.   *)
THEOREM ConversationNearsItsEnd == MCSpec => []Listening /\ [][NearerItsEnd]_vars
<1>1. LocationInv => Listening
  <2> SUFFICES ASSUME Conversing, left PROVE PartSizes # {}
    BY DEF LocationInv, Listening
  <2>1. /\ stream \in Seq(Tokens) /\ Len(stream) \in Nat
        /\ BUFF_SIZE \in Nat \ {0} /\ (stream # <<>> => Len(stream) >= 1)
    BY BuffSizeIsPositive, EmptySeq DEF Conversing
  <2>2. CASE stream = <<>>
    <3>1. 0 \in PartSizes
      BY <2>2 DEF PartSizes
    <3> QED
      BY <3>1
  <2>3. CASE stream # <<>>
    <3> DEFINE most == IF Len(stream) < BUFF_SIZE THEN Len(stream) ELSE BUFF_SIZE
    <3>1. most \in Nat /\ most >= 1
      BY <2>1, <2>3
    <3>2. most \in PartSizes
      BY <2>3, <3>1 DEF PartSizes
    <3> QED
      BY <3>2
  <2> QED
    BY <2>2, <2>3
<1>2. LocationInv /\ [MCNext]_<<job, vars, courseVars, modelVars, formVars>>
        => [NearerItsEnd]_vars
  <2> SUFFICES ASSUME Conversing, Next, left PROVE NearerItsEnd
    BY DEF LocationInv, MCNext, NearerItsEnd
  <2>1. CASE Greet
    BY <2>1 DEF Greet, NearerItsEnd, Phases
  <2>2. ASSUME NEW n \in PartSizes, HearOption(n) PROVE NearerItsEnd
    <3>1. CASE Complete(n)
      <4>1. pc = "option" /\ pc' \in {"location", "done"}
        BY <2>2, <3>1, Zenon DEF HearOption
      <4> QED
        BY <4>1 DEF NearerItsEnd, Phases
    <3>2. CASE ~ Complete(n)
      <4>1. Len(stream') < Len(stream) /\ pc' = pc
        BY <2>2, <3>2, PartIsReceived DEF HearOption
      <4> QED
        BY <4>1 DEF NearerItsEnd, Phases
    <3> QED
      BY <3>1, <3>2
  <2>3. ASSUME NEW n \in PartSizes, HearLocation(n) PROVE NearerItsEnd
    <3>1. CASE Complete(n)
      <4>1. pc = "location" /\ pc' = "done"
        BY <2>3, <3>1, Zenon DEF HearLocation
      <4> QED
        BY <4>1 DEF NearerItsEnd, Phases
    <3>2. CASE ~ Complete(n)
      <4>1. Len(stream') < Len(stream) /\ pc' = pc
        BY <2>3, <3>2, PartIsReceived DEF HearLocation
      <4> QED
        BY <4>1 DEF NearerItsEnd, Phases
    <3> QED
      BY <3>1, <3>2
  <2>4. CASE Reset
    BY <2>4 DEF Reset, NearerItsEnd, Phases
  <2>5. CASE (\E line \in Lines : Say(line)) \/ Leave
    BY <2>5 DEF Say, Leave
  <2> QED
    BY <2>1, <2>2, <2>3, <2>4, <2>5 DEF Next, Serve
<1> QED
  BY <1>1, <1>2, LocationAlways, PTL DEF MCSpec
=============================================================================
