----------------------------- MODULE CoursePage -----------------------------
(***************************************************************************)
(* The course selection page (Web/subject-system, static/app.js and        *)
(* index.html): a list fetched anew whenever the order of sorting changes, *)
(* and the courses the student has selected from it.                       *)
(*                                                                         *)
(* Fetches are numbered as they are sent; nothing makes their replies come *)
(* in that order.  A course object carries the number of the fetch that    *)
(* brought it: the same course of two fetches is two objects.              *)
(***************************************************************************)
EXTENDS Integers, SequencesExt

CONSTANTS
  Courses,     \* ids of the courses in the table
  Orders,      \* values of the sortOrder box
  First,       \* the value it starts with (index.html:73)
  MaxFetches,  \* bound: how often the list is fetched
  MaxSelects   \* bound: how many courses are selected at a time

VARIABLES
  sortOrder,   \* the value of the sortOrder box
  sent,        \* sent[n]: the order the n-th fetch asked for
  inFlight,    \* numbers of the fetches that have no reply yet
  answered,    \* numbers of those answered with a list, as they came
  selected     \* selectedCourses

vars == <<sortOrder, sent, inFlight, answered, selected>>

Course == [id : Courses, fetch : 1 .. MaxFetches]

TypeOK ==
  /\ sortOrder \in Orders
  /\ sent \in Seq(Orders) /\ Len(sent) \in 1 .. MaxFetches
  /\ inFlight \subseteq 1 .. Len(sent)
  /\ answered \in Seq(1 .. Len(sent))
  /\ selected \in Seq(Course)

(* app.js:6-20: the page fetches the list once as it loads.                *)
Init ==
  /\ sortOrder = First
  /\ sent = <<First>> /\ inFlight = {1}
  /\ answered = <<>>
  /\ selected = <<>>

(* index.html:72, app.js:6-10: choosing another order fetches again.       *)
Choose(order) ==
  /\ order # sortOrder /\ Len(sent) < MaxFetches
  /\ sortOrder' = order
  /\ sent' = Append(sent, order)
  /\ inFlight' = inFlight \union {Len(sent')}
  /\ UNCHANGED <<answered, selected>>

(* app.js:11-15: the list replaces the one shown, whichever fetch it is of. *)
Receive(n) ==
  /\ n \in inFlight
  /\ inFlight' = inFlight \ {n}
  /\ answered' = Append(answered, n)
  /\ UNCHANGED <<sortOrder, sent, selected>>

(* app.js:16, course.php:13, 31: a reply that is no list is dropped.       *)
Fail(n) ==
  /\ n \in inFlight
  /\ inFlight' = inFlight \ {n}
  /\ UNCHANGED <<sortOrder, sent, answered, selected>>

(* availableCourses, and what of it is on the page                         *)
Shown == IF answered = <<>> THEN {}
         ELSE {[id |-> c, fetch |-> Last(answered)] : c \in Courses}

\* Faulty variant: courses are compared as objects.
IsSelectedByObject(course) == course \in ToSet(selected)
(* app.js:22-37                                                            *)
IsSelected(course) == \E i \in DOMAIN selected : selected[i].id = course.id

Select(course) ==
  /\ course \in Shown
  /\ ~ IsSelected(course)
  /\ Len(selected) < MaxSelects
  /\ selected' = Append(selected, course)
  /\ UNCHANGED <<sortOrder, sent, inFlight, answered>>

(* The selected courses but those of this id.                              *)
Kept(id) ==
  LET kept[n \in 0 .. Len(selected)] ==
        IF n = 0 THEN <<>>
        ELSE IF selected[n].id = id THEN kept[n - 1] ELSE Append(kept[n - 1], selected[n])
  IN kept[Len(selected)]

(* app.js:73-79                                                            *)
RemoveSelectedCourse(id) ==
  /\ \E i \in DOMAIN selected : selected[i].id = id
  /\ selected' = Kept(id)
  /\ UNCHANGED <<sortOrder, sent, inFlight, answered>>

Next ==
  \/ \E order \in Orders : Choose(order)
  \/ \E n \in inFlight : Receive(n) \/ Fail(n)
  \/ \E course \in Shown : Select(course)
  \/ \E id \in Courses : RemoveSelectedCourse(id)

Spec == Init /\ [][Next]_vars

-----------------------------------------------------------------------------
(* No course is selected twice, however often the list is fetched between  *)
(* one click and the next (app.js:24).                                     *)
SelectedOnce == \A i, j \in DOMAIN selected : selected[i].id = selected[j].id => i = j

=============================================================================
