----------------------------- MODULE StringMap -----------------------------
(***************************************************************************)
(* The hash table under keystone's symbol, macro and directive tables      *)
(* (lib/Support/StringMap.cpp and include/llvm/ADT/StringMap.h, in         *)
(* Reverse/client/docker/keystone/llvm): open addressing in a power of two *)
(* of buckets, probes at growing distances, and tombstones for what was    *)
(* erased.  A probe has no bound in the code: it relies on RehashTable to  *)
(* leave an empty bucket.                                                  *)
(***************************************************************************)
EXTENDS Integers, FiniteSets

CONSTANTS
  Keys,       \* the strings used as keys
  Hash,       \* Hash[k]: HashString of k
  InitSizes,  \* sizes a map may be constructed with; 0 is none
  None        \* no key

VARIABLES
  table,      \* TheTable, from 0 on: a key, Free or Tombstone
  items,      \* NumItems
  tombs,      \* NumTombstones
  answer      \* the last call: its kind, its key, whether it found the key, and
              \* the key of the entry its iterator is at

vars == <<table, items, tombs, answer>>

Free == "free"
Tombstone == "tombstone"
Buckets(n) == 0 .. n - 1
Unused(n) == [b \in Buckets(n) |-> Free]
NumBuckets == Cardinality(DOMAIN table)

(* The constructors.                                                       *)
Init ==
  /\ \E n \in InitSizes : table = Unused(n)
  /\ items = 0 /\ tombs = 0
  /\ answer = [call |-> "none", key |-> None, found |-> FALSE, entry |-> None]

Held == {table[b] : b \in DOMAIN table} \ {Free, Tombstone}

-----------------------------------------------------------------------------
\* Probing.

(* The bucket after i steps of 1, 2, 3 ... in n of them.                   *)
Probe(k, n, i) == (Hash[k] + (i * (i + 1)) \div 2) % n

(* The steps at which a probe for k meets one of the cells; the buckets it *)
(* visits repeat after 2 n steps.                                          *)
Steps(n) == 0 .. 2 * n - 1
Stops(t, n, k, cells) == {i \in Steps(n) : t[Probe(k, n, i)] \in cells}
Least(s) == CHOOSE i \in s : \A j \in s : i <= j

\* Where a probe for k ends: at k, or at a bucket never used.
Ends(t, n, k) == Stops(t, n, k, {k, Free})
Reached(t, n, k) == Probe(k, n, Least(Ends(t, n, k)))

(* FindKey                                                                 *)
FindKey(k) ==
  IF NumBuckets = 0 THEN -1
  ELSE LET b == Reached(table, NumBuckets, k) IN IF table[b] = k THEN b ELSE -1

\* Faulty variant: a tombstone ends the search for the key.
LookupBucketForEager(t, n, k) ==
  Probe(k, n, Least(Stops(t, n, k, {k, Free, Tombstone})))

(* LookupBucketFor: the key's bucket, or else the first tombstone the      *)
(* search has passed, or else the empty bucket that ended it.              *)
LookupBucketFor(t, n, k) ==
  LET last == Least(Ends(t, n, k))
      passed == {i \in Stops(t, n, k, {Tombstone}) : i < last}
  IN Probe(k, n, IF t[Probe(k, n, last)] = k \/ passed = {} THEN last ELSE Least(passed))

-----------------------------------------------------------------------------
\* Rehashing.

(* The new table before the item of bucket b is moved into it, for each    *)
(* old bucket b, and when all are.                                         *)
Moved(t, size) ==
  LET new[b \in 0 .. Cardinality(DOMAIN t)] ==
        IF b = 0 THEN Unused(size)
        ELSE IF t[b - 1] \in {Free, Tombstone} THEN new[b - 1]
        ELSE [new[b - 1] EXCEPT ![Reached(new[b - 1], size, t[b - 1])] = t[b - 1]]
  IN new

\* Faulty variant: tombstones do not count.
NewSizeByItems(n, held, dead) == IF held * 4 > n * 3 THEN 2 * n ELSE 0

(* More than three quarters items: twice the size; at most an eighth never *)
(* used: the same size, without the tombstones; or 0: stay.                *)
NewSize(n, held, dead) ==
  IF held * 4 > n * 3 THEN 2 * n
  ELSE IF n - (held + dead) <= n \div 8 THEN n ELSE 0

(* RehashTable follows the item in bucket b to where it is moved.          *)
RehashTable(t, held, dead, b) ==
  LET n == Cardinality(DOMAIN t)
      size == NewSize(n, held, dead)
      new == Moved(t, size)
  IN IF size = 0 THEN [table |-> t, tombs |-> dead, bucket |-> b]
     ELSE [table |-> new[n], tombs |-> 0, bucket |-> Reached(new[b], size, t[b])]

-----------------------------------------------------------------------------
\* The calls.  One whose probe has no end does not return.

Returns(k) == NumBuckets = 0 \/ Ends(table, NumBuckets, k) # {}
Answers(call, k, found, entry) ==
  answer' = [call |-> call, key |-> k, found |-> found, entry |-> entry]
EntryAt(t, b) == IF b = -1 THEN None ELSE t[b]

Find(k) ==
  /\ Returns(k)
  /\ LET b == FindKey(k) IN Answers("find", k, b # -1, EntryAt(table, b))
  /\ UNCHANGED <<table, items, tombs>>

(* A map without buckets gets sixteen.                                     *)
Allocated == IF NumBuckets = 0 THEN Unused(16) ELSE table

InsertAt(k, t, b) ==
  LET r == RehashTable([t EXCEPT ![b] = k], items + 1,
                       IF t[b] = Tombstone THEN tombs - 1 ELSE tombs, b)
  IN /\ items' = items + 1 /\ table' = r.table /\ tombs' = r.tombs
     /\ Answers("insert", k, FALSE, EntryAt(r.table, r.bucket))

(* insert leaves a key alone that is there already.                        *)
Insert(k) ==
  /\ Returns(k)
  /\ LET t == Allocated
         b == LookupBucketFor(t, Cardinality(DOMAIN t), k)
     IN IF t[b] \in {Free, Tombstone} THEN InsertAt(k, t, b)
        ELSE Answers("insert", k, TRUE, t[b]) /\ UNCHANGED <<table, items, tombs>>

(* RemoveKey leaves a tombstone, erase frees the entry.                    *)
RemoveKey(b) ==
  /\ table' = [table EXCEPT ![b] = Tombstone]
  /\ items' = items - 1
  /\ tombs' = tombs + 1

Erase(k) ==
  /\ Returns(k)
  /\ LET b == FindKey(k)
     IN /\ IF b = -1 THEN UNCHANGED <<table, items, tombs>> ELSE RemoveKey(b)
        /\ Answers("erase", k, b # -1, None)

(* clear has nothing to do for a map without items, tombstones or not.     *)
Clear ==
  /\ IF items = 0 THEN UNCHANGED <<table, items, tombs>>
     ELSE table' = Unused(NumBuckets) /\ items' = 0 /\ tombs' = 0
  /\ Answers("clear", None, FALSE, None)

Next == Clear \/ \E k \in Keys : Find(k) \/ Insert(k) \/ Erase(k)

Spec == Init /\ [][Next]_vars

-----------------------------------------------------------------------------
(* The counts that decide about rehashing are those of the table           *)
(* (StringMap.h:341-344, StringMap.cpp:171-172, 243).                      *)
TypeOK ==
  /\ table \in [Buckets(NumBuckets) -> Keys \union {Free, Tombstone}]
  /\ items = Cardinality({b \in DOMAIN table : table[b] \in Keys})
  /\ tombs = Cardinality({b \in DOMAIN table : table[b] = Tombstone})

(* Every probe meets a bucket that ends it (StringMap.cpp:70, 127).        *)
ProbesEnd == \A k \in Keys : Returns(k)

=============================================================================
