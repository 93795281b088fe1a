------------------------ MODULE RelaySnapshotsProofs ------------------------
(***************************************************************************)
(* Proofs about RelaySnapshots, for any number of uploads, deletions and   *)
(* devices that poll, any limit and any failures: bucket and table stay    *)
(* together, prunes spare the newest photos and leave the account within   *)
(* its caps.                                                               *)
(***************************************************************************)
EXTENDS RelaySnapshots, FiniteSetTheorems, TLAPS

LEMMA States ==
    /\ Idle \in ProcState /\ Idle.pc = "idle" /\ Idle.cur = {} /\ Idle.todo = {}
    /\ ~Idle.prunes /\ ~Idle.settled /\ Idle.key = 0
    /\ MaxPuts \in Nat /\ MaxSnapshots \in Nat \ {0}
BY LimitAssumption DEF Idle, ProcState, Key

\* Ids are a numbering of the rows: finitely many, and no more are newer than a row
\* than ids were given out since.
LEMMA Finite ==
    ASSUME TypeOK, Identified
    PROVE  /\ IsFiniteSet(rows)
           /\ \A x \in rows : /\ IsFiniteSet(Newer(x))
                              /\ Cardinality(Newer(x)) \in Nat
                              /\ Cardinality(Newer(x)) <= ids - x.id
<1> DEFINE Id(S) == [y \in S |-> y.id]
<1>1. ASSUME NEW S \in SUBSET rows, NEW n \in Nat, \A y \in S : y.id > n
      PROVE  /\ IsFiniteSet(S) /\ Cardinality(S) \in Nat
             /\ n <= ids => Cardinality(S) <= ids - n
  <2>1. /\ rows \subseteq Row /\ ids \in Nat
        /\ \A x \in rows : x \in Known /\ x.id <= ids /\ x.id \in Nat
    BY States DEF TypeOK, Row, Key, Known, Identified
  <2>2. \A y \in S : y.id \in n + 1 .. ids
    BY <1>1, <2>1
  <2>3. Id(S) \in [S -> n + 1 .. ids]
    BY <2>2
  <2>4. Id(S) \in Injection(S, n + 1 .. ids)
    BY <1>1, <2>3 DEF Identified, Injection, IsInjective
  <2>5. IsFiniteSet(n + 1 .. ids)
        /\ Cardinality(n + 1 .. ids) = IF n + 1 > ids THEN 0 ELSE ids - n
    BY <2>1, FS_Interval
  <2>6. IsFiniteSet(S) /\ Cardinality(S) <= Cardinality(n + 1 .. ids)
    BY <2>4, <2>5, FS_Injection
  <2>7. Cardinality(S) \in Nat
    BY <2>6, FS_CardinalityType
  <2>8. QED
    BY <2>1, <2>5, <2>6, <2>7
<1>2. IsFiniteSet(rows)
  BY <1>1, States DEF TypeOK, Row, Key
<1>3. ASSUME NEW x \in rows
      PROVE  /\ IsFiniteSet(Newer(x)) /\ Cardinality(Newer(x)) \in Nat
             /\ Cardinality(Newer(x)) <= ids - x.id
  <2>1. x.id \in Nat /\ x.id <= ids
    BY States DEF TypeOK, Row, Key, Known, Identified
  <2>2. Newer(x) \in SUBSET rows /\ \A y \in Newer(x) : y.id > x.id
    BY DEF Newer
  <2>3. QED
    BY <1>1, <2>1, <2>2
<1>4. QED
  BY <1>2, <1>3

\* Removing rows makes no row prunable.
LEMMA Shrinks ==
    ASSUME TypeOK, Identified, rows' \subseteq rows
    PROVE  Prunable' \subseteq Prunable
<1> SUFFICES ASSUME NEW x \in rows', x.old \/ Cardinality(Newer(x)') >= MaxSnapshots
             PROVE  x \in Prunable
  BY DEF Prunable
<1>1. Newer(x)' \in SUBSET Newer(x) /\ x \in rows
  BY DEF Newer
<1>2. IsFiniteSet(Newer(x)) /\ Cardinality(Newer(x)) \in Nat
  BY <1>1, Finite
<1>3. Cardinality(Newer(x)') <= Cardinality(Newer(x)) /\ Cardinality(Newer(x)') \in Nat
  BY <1>1, <1>2, FS_Subset, FS_CardinalityType
<1>4. QED
  BY <1>1, <1>2, <1>3, States DEF Prunable

\* The smallest of a set of naturals.
LEMMA Smallest ==
    ASSUME NEW S \in SUBSET Nat, S # {}
    PROVE  \E m \in S : \A n \in S : m <= n
<1> DEFINE Less == {z \in Nat \X Nat : z[1] < z[2]}
<1>1. IsWellFoundedOn(Less, Nat)
  BY NatLessThanWellFounded DEF OpToRel
<1>2. PICK m \in S : \A n \in S : <<n, m>> \notin Less
  BY <1>1, WFMin
<1>3. ASSUME NEW n \in S PROVE m <= n
  <2>1. <<n, m>> \in Nat \X Nat /\ <<n, m>>[1] = n /\ <<n, m>>[2] = m
    OBVIOUS
  <2>2. ~(n < m)
    BY <1>2, <2>1
  <2>3. QED
    BY <2>2
<1>4. QED
  BY <1>3

\* An account none of whose rows can be pruned is within its caps.
LEMMA WithinCaps ==
    ASSUME TypeOK, Identified, Prunable = {}
    PROVE  Cardinality(rows) <= MaxSnapshots /\ \A x \in rows : ~x.old
<1>1. \A x \in rows : ~x.old /\ ~(Cardinality(Newer(x)) >= MaxSnapshots)
  BY DEF Prunable
<1>2. CASE rows = {}
  BY <1>1, <1>2, FS_EmptySet, States
<1>3. CASE rows # {}
  <2> DEFINE Ids == {x.id : x \in rows}
  <2>1. \A x \in rows : x.id \in Nat
    BY States DEF TypeOK, Row, Key
  <2>2. PICK x \in rows : \A y \in rows : x.id <= y.id
    <3>1. Ids \in SUBSET Nat /\ Ids # {}
      BY <1>3, <2>1
    <3>2. PICK m \in Ids : \A n \in Ids : m <= n
      BY <3>1, Smallest
    <3>3. QED
      BY <3>2
  <2>3. \A y \in rows : y = x \/ y.id > x.id
    BY <2>1, <2>2 DEF Identified
  <2>4. rows = Newer(x) \cup {x} /\ x \notin Newer(x)
    BY <2>1, <2>3 DEF Newer
  <2>5. IsFiniteSet(Newer(x)) /\ Cardinality(Newer(x)) \in Nat
    BY Finite
  <2>6. Cardinality(rows) = Cardinality(Newer(x)) + 1
    BY <2>4, <2>5, FS_AddElement
  <2>7. QED
    BY <1>1, <2>5, <2>6, States
<1>4. QED
  BY <1>2, <1>3

Spent == Prunable = {}
Capped == Cardinality(rows) <= MaxSnapshots /\ \A x \in rows : ~x.old

LEMMA WithinCapsNext == TypeOK' /\ Identified' /\ Spent' => Capped'
<1>1. TypeOK /\ Identified /\ Spent => Capped
  BY WithinCaps DEF Spent, Capped
<1>2. QED
  BY <1>1, PTL

-----------------------------------------------------------------------------
\* Bodies that wait for their row are finitely many, and a row is due to each.
LEMMA Due ==
    ASSUME SnapshotsInv
    PROVE  /\ Waiting \subseteq 1..puts /\ IsFiniteSet(Waiting)
           /\ Cardinality(Waiting) \in Nat /\ ids \in Nat /\ puts \in Nat
           /\ ids + Cardinality(Waiting) <= puts
           /\ \A p \in Proc : At(p, "insert") => proc[p].key \in Waiting /\ ids + 1 <= puts
<1>1. ids \in Nat /\ puts \in Nat /\ ids + Cardinality(Waiting) <= puts
  BY States DEF SnapshotsInv, TypeOK, Identified
<1>2. Waiting \subseteq 1..puts
  BY DEF SnapshotsInv, Holds, Waiting
<1>3. IsFiniteSet(Waiting) /\ Cardinality(Waiting) \in Nat
  <2>1. IsFiniteSet(1..puts) /\ Waiting \in SUBSET (1..puts)
    BY <1>1, <1>2, FS_Interval
  <2>2. QED
    BY <2>1, FS_Subset, FS_CardinalityType
<1>4. ASSUME NEW p \in Proc, At(p, "insert")
      PROVE  proc[p].key \in Waiting /\ ids + 1 <= puts
  <2>1. proc[p].key \in Waiting
    BY <1>4 DEF Waiting
  <2>2. Cardinality(Waiting) # 0
    BY <1>3, <2>1, FS_EmptySet
  <2>3. QED
    BY <1>1, <1>3, <2>1, <2>2
<1>5. QED
  BY <1>1, <1>2, <1>3, <1>4

\* What the steps make of a process.
LEMMA Changes ==
    ASSUME NEW s \in ProcState
    PROVE  /\ \A k \in Key : [s EXCEPT !.pc = "insert", !.key = k] \in ProcState
           /\ \A x \in Row : [s EXCEPT !.pc = "row", !.cur = {x}] \in ProcState
           /\ [s EXCEPT !.pc = "object", !.todo = s.todo \ s.cur, !.cur = {}] \in ProcState
           /\ [s EXCEPT !.settled = FALSE] \in ProcState
<1>1. ASSUME NEW k \in Key PROVE [s EXCEPT !.pc = "insert", !.key = k] \in ProcState
  BY <1>1 DEF ProcState
<1>2. ASSUME NEW x \in Row PROVE [s EXCEPT !.pc = "row", !.cur = {x}] \in ProcState
  <2>1. {x} \in SUBSET Row
    BY <1>2
  <2>2. QED
    BY <2>1 DEF ProcState
<1>3. [s EXCEPT !.pc = "object", !.todo = s.todo \ s.cur, !.cur = {}] \in ProcState
  <2>1. s.todo \ s.cur \in SUBSET Row /\ {} \in SUBSET Row
    BY DEF ProcState
  <2> DEFINE left == s.todo \ s.cur
  <2> HIDE DEF left
  <2>2. [s EXCEPT !.pc = "object", !.todo = left, !.cur = {}] \in ProcState
    BY <2>1 DEF ProcState, left
  <2>3. QED
    BY <2>2 DEF left
<1>4. [s EXCEPT !.settled = FALSE] \in ProcState
  BY DEF ProcState
<1>5. QED
  BY <1>1, <1>2, <1>3, <1>4

LEMMA TypeStep == SnapshotsInv /\ [Next]_vars => TypeOK'
<1> SUFFICES ASSUME SnapshotsInv, [Next]_vars PROVE TypeOK'
  OBVIOUS
<1>0. TypeOK /\ Request \subseteq Proc /\ Poller \subseteq Proc
  BY DEF SnapshotsInv, Proc
<1> USE LimitAssumption DEF TypeOK
<1>1. ASSUME NEW p \in Proc, NEW s \in ProcState, proc' = [proc EXCEPT ![p] = s]
      PROVE  proc' \in [Proc -> ProcState]
  BY <1>0, <1>1
<1>s. \A p \in Proc : proc[p] \in ProcState
  BY <1>0
<1>2. ASSUME NEW r \in Request, UploadReceived(r) PROVE TypeOK'
  <2>1. PICK t \in BOOLEAN :
            proc' = [proc EXCEPT ![r] = [Idle EXCEPT !.pc = "put", !.thief = t]]
    BY <1>2 DEF UploadReceived
  <2>2. [Idle EXCEPT !.pc = "put", !.thief = t] \in ProcState
    BY States DEF ProcState
  <2>3. QED
    BY <1>0, <1>1, <1>2, <2>1, <2>2 DEF UploadReceived
<1>3. ASSUME NEW r \in Request, DeleteReceived(r) PROVE TypeOK'
  <2>1. PICK x \in rows :
            proc' = [proc EXCEPT ![r] = [Idle EXCEPT !.pc = "object", !.todo = {x}]]
    BY <1>3 DEF DeleteReceived
  <2>2. [Idle EXCEPT !.pc = "object", !.todo = {x}] \in ProcState
    BY <1>0, States DEF ProcState
  <2>3. QED
    BY <1>0, <1>1, <1>3, <2>1, <2>2 DEF DeleteReceived
<1>4. ASSUME NEW p \in Poller, PollAnswered(p) PROVE TypeOK'
  <2>1. [Idle EXCEPT !.pc = "select"] \in ProcState
    BY States DEF ProcState
  <2>2. QED
    BY <1>0, <1>1, <1>4, <2>1 DEF PollAnswered
<1>5. ASSUME NEW p \in Proc, PutObject(p) PROVE TypeOK'
  <2>1. puts + 1 \in Key
    BY <1>0, <1>5 DEF PutObject, Key
  <2>2. [proc[p] EXCEPT !.pc = "insert", !.key = puts + 1] \in ProcState
    BY <1>s, <2>1, Changes
  <2>3. proc' = [proc EXCEPT ![p] = [proc[p] EXCEPT !.pc = "insert", !.key = puts + 1]]
    BY <1>0, <1>5 DEF PutObject
  <2>4. QED
    BY <1>0, <1>1, <1>5, <2>1, <2>2, <2>3 DEF PutObject, Key
<1>6. ASSUME NEW p \in Proc, InsertRow(p) PROVE TypeOK'
  <2>1. ids + 1 \in 0..puts /\ ids + 1 \in Key /\ proc[p].key \in Key
    BY <1>0, <1>6, Due DEF InsertRow, SnapshotsInv, Holds, At, Key
  <2>2. [id |-> ids + 1, key |-> proc[p].key, old |-> FALSE] \in Row
    BY <2>1 DEF Row
  <2>3. \A q \in Proc : /\ [proc[q] EXCEPT !.settled = FALSE] \in ProcState
                        /\ [proc[q] EXCEPT !.pc = "select"] \in ProcState
                        /\ [Idle EXCEPT !.threw = TRUE] \in ProcState
    BY <1>0, States DEF ProcState
  <2>4. proc' \in [Proc -> ProcState]
    BY <1>6, <2>3 DEF InsertRow
  <2>5. QED
    BY <1>0, <1>6, <2>1, <2>2, <2>4 DEF InsertRow
<1>7. ASSUME NEW p \in Proc, SelectRows(p) PROVE TypeOK'
  <2>1. Prunable \subseteq Row
    BY <1>0 DEF Prunable
  <2>2. [proc[p] EXCEPT !.pc = "object", !.todo = Prunable, !.prunes = TRUE,
                        !.settled = TRUE] \in ProcState
    <3> HIDE DEF TypeOK
    <3>1. proc[p] \in ProcState /\ Prunable \in SUBSET Row
      BY <1>s, <2>1
    <3>2. QED
      BY <3>1 DEF ProcState
  <2>3. \E s \in ProcState : proc' = [proc EXCEPT ![p] = s]
    BY <1>7, <2>2, States DEF SelectRows
  <2>4. QED
    BY <1>0, <1>1, <1>7, <2>3 DEF SelectRows
<1>8. ASSUME NEW p \in Proc, NEW x \in proc[p].todo,
             proc' = [proc EXCEPT ![p].pc = "row", ![p].cur = {x}]
      PROVE  proc' \in [Proc -> ProcState] /\ x.key \in Key
  <2>1. x \in Row
    BY <1>0 DEF ProcState
  <2>2. [proc[p] EXCEPT !.pc = "row", !.cur = {x}] \in ProcState
    BY <1>s, <2>1, Changes
  <2>3. QED
    BY <1>0, <1>8, <2>1, <2>2 DEF Row
<1>9. ASSUME NEW p \in Proc, DeleteObject(p) \/ DeleteObjectFails(p) PROVE TypeOK'
  BY <1>0, <1>8, <1>9 DEF DeleteObject, DeleteObjectFails
<1>10. ASSUME NEW p \in Proc, DeleteRow(p) PROVE TypeOK'
  <2>1. [proc[p] EXCEPT !.pc = "object", !.todo = proc[p].todo \ proc[p].cur,
                        !.cur = {}] \in ProcState
    BY <1>s, Changes
  <2>2. \E s \in ProcState : proc' = [proc EXCEPT ![p] = s]
    BY <1>10, <2>1, States DEF DeleteRow
  <2>3. QED
    BY <1>0, <1>1, <1>10, <2>2 DEF DeleteRow
<1>11. ASSUME NEW p \in Proc, Fail(p) PROVE TypeOK'
  <2>1. At(p, "insert") => proc[p].key \in Key
    BY <1>0, <1>11, Due DEF SnapshotsInv, Holds, Key
  <2>2. \A x \in proc[p].cur : x.key \in Key
    BY <1>0 DEF ProcState, Row
  <2>3. leaked' \subseteq Key
    BY <1>0, <1>11, <2>1, <2>2 DEF Fail
  <2>4. QED
    BY <1>0, <1>1, <1>11, <2>3, States DEF Fail, Finish
<1>12. ASSUME NEW x \in rows, Expire(x) PROVE TypeOK'
  <2>1. [x EXCEPT !.old = TRUE] \in Row
    BY <1>0 DEF Row
  <2>2. \A q \in Proc : [proc[q] EXCEPT !.settled = FALSE] \in ProcState
    BY <1>s, Changes
  <2>3. QED
    BY <1>0, <1>12, <2>1, <2>2 DEF Expire
<1>13. CASE UNCHANGED vars
  BY <1>0, <1>13 DEF vars
<1>14. QED
  BY <1>2, <1>3, <1>4, <1>5, <1>6, <1>7, <1>9, <1>10, <1>11, <1>12, <1>13 DEF Next, Proceed

-----------------------------------------------------------------------------
Same(q) == /\ proc'[q].pc = proc[q].pc /\ proc'[q].key = proc[q].key
           /\ proc'[q].todo = proc[q].todo /\ proc'[q].cur = proc[q].cur

\* A step that puts nothing and adds no row leaves the numbering right.
LEMMA StaysIdentified ==
    ASSUME SnapshotsInv, Known' \subseteq Known, Waiting' \subseteq Waiting,
           rows' \subseteq rows, ids' = ids, puts' = puts
    PROVE  Identified'
<1>1. Waiting' \in SUBSET Waiting /\ IsFiniteSet(Waiting) /\ Cardinality(Waiting) \in Nat
      /\ ids \in Nat /\ puts \in Nat /\ ids + Cardinality(Waiting) <= puts
  BY Due
<1>2. Cardinality(Waiting') <= Cardinality(Waiting) /\ Cardinality(Waiting') \in Nat
  BY <1>1, FS_Subset, FS_CardinalityType
<1>3. ids' + Cardinality(Waiting') <= puts'
  BY <1>1, <1>2
<1>4. QED
  BY <1>3 DEF SnapshotsInv, Identified

\* A process that does not move holds what it held, when no body that is waiting goes
\* and none comes back.
LEMMA StillHolds ==
    ASSUME SnapshotsInv, NEW q \in Proc, Same(q), puts' >= puts, puts' \in Nat,
           \A r \in Proc : At(r, "insert")' =>
              (At(r, "insert") /\ proc'[r].key = proc[r].key) \/ proc'[r].key = puts + 1,
           Waiting \cap objects \subseteq objects',
           objects' \ leaked' \subseteq (objects \ leaked) \cup {puts + 1}
    PROVE  Holds(q)'
<1>1. Holds(q) /\ puts \in Nat /\ \A x \in proc[q].todo : x.key <= puts /\ x.key \in Nat
  <2>1. \A x \in proc[q].todo : x \in Known
    BY DEF Known, Taken
  <2>2. proc[q].todo \subseteq Row
    BY DEF SnapshotsInv, TypeOK, ProcState
  <2>3. QED
    BY <2>1, <2>2, States DEF SnapshotsInv, Identified, Row, Key, TypeOK
<1>2. At(q, "insert") => proc[q].key \in Waiting
  BY DEF Waiting
<1>3. QED
  BY <1>1, <1>2 DEF Holds, At, Same

\* A prune in flight goes for what it must as long as no row comes in or grows old.
LEMMA StillChosen ==
    ASSUME SnapshotsInv, NEW q \in Proc, Same(q), rows' \subseteq rows, ids' = ids,
           proc'[q].prunes = proc[q].prunes, proc'[q].settled = proc[q].settled
    PROVE  Chosen(q)'
<1>1. Prunable' \subseteq Prunable
  BY Shrinks DEF SnapshotsInv
<1>2. Chosen(q)
  BY DEF SnapshotsInv
<1>3. QED
  BY <1>1, <1>2 DEF Chosen, Same

\* A process that was about to begin, or to select its rows, may take rows of the table.
LEMMA QuietStep ==
    ASSUME SnapshotsInv, UNCHANGED <<objects, rows, puts, ids, leaked>>,
           NEW p \in Proc, NEW s, proc' = [proc EXCEPT ![p] = s],
           proc[p].pc \in {"idle", "select"},
           s.pc \in {"idle", "put", "select", "object"}, s.cur = {}, s.todo \subseteq rows,
           Chosen(p)'
    PROVE  Together' /\ Identified' /\ \A q \in Proc : Holds(q)' /\ Chosen(q)'
<1>1. proc'[p] = s /\ \A q \in Proc \ {p} : proc'[q] = proc[q]
  BY DEF SnapshotsInv, TypeOK
<1>2. \A q \in Proc : /\ At(q, "insert")' <=> At(q, "insert") /\ q # p
                      /\ At(q, "row")' <=> At(q, "row") /\ q # p
                      /\ At(p, "insert") \/ At(p, "row") => FALSE
  BY <1>1 DEF At
<1>3. Together'
  BY <1>1, <1>2 DEF SnapshotsInv, Together
<1>4. Identified'
  <2>1. Waiting' \subseteq Waiting
    BY <1>1, <1>2 DEF Waiting
  <2>2. \A q \in Proc : Taken(q)' \subseteq Known
    BY <1>1 DEF Taken, Known
  <2>3. Known' \subseteq Known
    BY <2>2 DEF Known
  <2>4. QED
    BY <2>1, <2>3, StaysIdentified
<1>5. ASSUME NEW q \in Proc PROVE Holds(q)' /\ Chosen(q)'
  <2>1. CASE q = p
    BY <1>1, <2>1 DEF Holds, At
  <2>2. CASE q # p
    <3>1. Same(q) /\ proc'[q] = proc[q]
      BY <1>1, <2>2 DEF Same
    <3>2. Holds(q)'
      BY <1>1, <1>2, <3>1, StillHolds, Due
    <3>3. QED
      BY <3>1, <3>2, StillChosen
  <2>3. QED
    BY <2>1, <2>2
<1>6. QED
  BY <1>3, <1>4, <1>5

\* What the processes and the tables know, apart from the types.
Knowledge == Together /\ Identified /\ \A q \in Proc : Holds(q) /\ Chosen(q)

LEMMA PutStep == ASSUME SnapshotsInv, NEW p \in Proc, PutObject(p) PROVE Knowledge'
<1>0. /\ puts' = puts + 1 /\ objects' = objects \cup {puts + 1} /\ puts \in Nat
      /\ UNCHANGED <<rows, ids, leaked>> /\ ids \in Nat
  BY Due DEF PutObject
<1>1. /\ At(p, "put") /\ proc'[p].pc = "insert" /\ proc'[p].key = puts + 1
      /\ proc'[p].todo = proc[p].todo /\ proc'[p].cur = proc[p].cur
      /\ proc'[p].prunes = proc[p].prunes
      /\ \A q \in Proc \ {p} : proc'[q] = proc[q]
  BY DEF PutObject, SnapshotsInv, TypeOK, ProcState
<1>2. /\ \A q \in Proc : At(q, "insert")' <=> At(q, "insert") \/ q = p
      /\ \A q \in Proc : At(q, "row")' <=> At(q, "row")
      /\ ~At(p, "insert") /\ ~At(p, "row")
  BY <1>1 DEF At
<1>3. Waiting \subseteq 1..puts /\ Waiting' = Waiting \cup {puts + 1}
  BY <1>1, <1>2, Due DEF Waiting
<1>4. Known' = Known
  BY <1>0, <1>1 DEF Known, Taken
<1>5. \A x \in Known : x.key <= puts /\ x.key \in Nat /\ x.key # puts + 1
  <2>1. rows \subseteq Row /\ \A q \in Proc : proc[q].todo \subseteq Row
                                             /\ proc[q].cur \subseteq Row
    BY DEF SnapshotsInv, TypeOK, ProcState
  <2>2. Known \subseteq Row
    BY <2>1 DEF Known, Taken
  <2>3. QED
    BY <1>0, <2>2, States DEF SnapshotsInv, Identified, Row, Key
<1>6. Identified'
  <2>1. IsFiniteSet(Waiting) /\ Cardinality(Waiting) \in Nat
        /\ ids + Cardinality(Waiting) <= puts
    BY Due
  <2>2. Cardinality(Waiting') = Cardinality(Waiting) + 1
    <3>1. puts + 1 \notin Waiting
      BY <1>0, <1>3
    <3>2. QED
      BY <1>3, <2>1, <3>1, FS_AddElement
  <2>3. QED
    BY <1>0, <1>3, <1>4, <1>5, <2>1, <2>2 DEF SnapshotsInv, Identified
<1>7. Together'
  <2>1. \A x \in rows' : \/ x.key \in objects' \cup leaked'
                         \/ \E q \in Proc : At(q, "row")' /\ \E y \in proc'[q].cur : y.id = x.id
    BY <1>0, <1>1, <1>2 DEF SnapshotsInv, Together
  <2>2. \A k \in objects \ leaked : \/ \E x \in rows : x.key = k
                                    \/ \E q \in Proc : At(q, "insert") /\ proc[q].key = k
    BY DEF SnapshotsInv, Together
  <2>3. \A k \in objects' \ leaked' :
           \/ \E x \in rows' : x.key = k
           \/ \E q \in Proc : At(q, "insert")' /\ proc'[q].key = k
    BY <1>0, <1>1, <1>2, <2>2
  <2>4. QED
    BY <2>1, <2>3 DEF Together
<1>8. ASSUME NEW q \in Proc PROVE Holds(q)' /\ Chosen(q)'
  <2>1. CASE q = p
    <3>1. \A r \in Proc : At(r, "insert") => proc[r].key # puts + 1
      BY <1>0, <1>3, Due
    <3>2. \A r \in Proc : At(r, "insert")' /\ proc'[r].key = proc'[p].key => r = p
      BY <1>1, <1>2, <3>1 DEF At
    <3>3. Holds(p)'
      BY <1>0, <1>1, <1>2, <3>2 DEF Holds, At, SnapshotsInv
    <3>4. Chosen(p)'
      BY <1>1 DEF Chosen, SnapshotsInv, At
    <3>5. QED
      BY <2>1, <3>3, <3>4
  <2>2. CASE q # p
    <3>1. Same(q) /\ proc'[q] = proc[q]
      BY <1>1, <2>2 DEF Same
    <3>2. \A r \in Proc : At(r, "insert")' =>
              (At(r, "insert") /\ proc'[r].key = proc[r].key) \/ proc'[r].key = puts + 1
      BY <1>1, <1>2
    <3>3. Holds(q)'
      BY <1>0, <3>1, <3>2, StillHolds
    <3>4. QED
      BY <1>0, <3>1, <3>3, StillChosen
  <2>3. QED
    BY <2>1, <2>2
<1>9. QED
  BY <1>6, <1>7, <1>8 DEF Knowledge

LEMMA InsertStep == ASSUME SnapshotsInv, NEW p \in Proc, InsertRow(p) PROVE Knowledge'
<1> DEFINE new == [id |-> ids + 1, key |-> proc[p].key, old |-> FALSE]
<1>0. /\ rows' = rows \cup {new} /\ ids' = ids + 1 /\ ids \in Nat /\ puts \in Nat
      /\ UNCHANGED <<objects, puts, leaked>> /\ At(p, "insert")
      /\ proc[p].key \in objects \cap 1..puts /\ proc[p].key \in Waiting
      /\ ids + 1 <= puts /\ proc[p].todo = {} /\ proc[p].cur = {} /\ ~proc[p].prunes
  BY Due DEF InsertRow, SnapshotsInv, Holds, Chosen, At
<1>1. /\ proc'[p].pc \in {"idle", "select"} /\ proc'[p].todo = {} /\ proc'[p].cur = {}
      /\ ~proc'[p].prunes
  <2>1. CASE proc[p].thief
    BY <2>1, States DEF InsertRow, Idle
  <2>2. CASE ~proc[p].thief
    BY <1>0, <2>2 DEF InsertRow, SnapshotsInv, TypeOK, ProcState
  <2>3. QED
    BY <2>1, <2>2
<1>2. \A q \in Proc \ {p} : Same(q) /\ ~proc'[q].settled
                           /\ proc'[q].prunes = proc[q].prunes
  BY DEF InsertRow, SnapshotsInv, TypeOK, ProcState, Same
<1>3. /\ \A q \in Proc : At(q, "insert")' <=> At(q, "insert") /\ q # p
      /\ \A q \in Proc : At(q, "row")' <=> At(q, "row")
  BY <1>0, <1>1, <1>2 DEF At, Same
<1>4. Waiting' \subseteq Waiting \ {proc[p].key}
  BY <1>0, <1>2, <1>3 DEF Waiting, Same, SnapshotsInv, Holds
<1>5. Known' \subseteq Known \cup {new}
  <2>1. \A q \in Proc : Taken(q)' \subseteq Taken(q)
    BY <1>1, <1>2 DEF Taken, Same
  <2>2. QED
    BY <1>0, <2>1 DEF Known
<1>6. \A x \in Known : /\ x.key <= puts /\ x.key \in Nat /\ x.key # proc[p].key
                       /\ x.id <= ids /\ x.id \in Nat
  <2>1. rows \subseteq Row /\ \A q \in Proc : proc[q].todo \subseteq Row
                                             /\ proc[q].cur \subseteq Row
    BY DEF SnapshotsInv, TypeOK, ProcState
  <2>2. Known \subseteq Row
    BY <2>1 DEF Known, Taken
  <2>3. QED
    BY <1>0, <2>2, States DEF SnapshotsInv, Identified, Row, Key
<1>7. Identified'
  <2>1. IsFiniteSet(Waiting) /\ Cardinality(Waiting) \in Nat
        /\ ids + Cardinality(Waiting) <= puts
    BY Due
  <2>2. IsFiniteSet(Waiting \ {proc[p].key})
        /\ Cardinality(Waiting \ {proc[p].key}) = Cardinality(Waiting) - 1
    BY <1>0, <2>1, FS_RemoveElement
  <2>3. Waiting' \in SUBSET (Waiting \ {proc[p].key})
    BY <1>4
  <2>4. Cardinality(Waiting') <= Cardinality(Waiting) - 1 /\ Cardinality(Waiting') \in Nat
    BY <2>2, <2>3, FS_Subset, FS_CardinalityType
  <2>5. ids' + Cardinality(Waiting') <= puts'
    BY <1>0, <2>1, <2>4
  <2>6. \A x \in Known' : x.id <= ids' /\ x.key <= puts' /\ x.key \notin Waiting'
    BY <1>0, <1>4, <1>5, <1>6 DEF SnapshotsInv, Identified
  <2>7. \A x, y \in Known' : x.id = y.id <=> x.key = y.key
    BY <1>0, <1>5, <1>6 DEF SnapshotsInv, Identified
  <2>8. \A x, y \in rows' : x.id = y.id => x = y
    <3>1. rows \subseteq Known /\ new.id = ids + 1
      BY DEF Known
    <3>2. \A x \in rows : x.id # new.id
      BY <1>0, <1>6, <3>1
    <3>3. \A x, y \in rows : x.id = y.id => x = y
      BY DEF SnapshotsInv, Identified
    <3>4. QED
      BY <1>0, <3>2, <3>3
  <2>9. QED
    BY <2>5, <2>6, <2>7, <2>8 DEF Identified
<1>8. Together'
  <2>1. \A x \in rows : \/ x.key \in objects' \cup leaked'
                        \/ \E q \in Proc : At(q, "row")' /\ \E y \in proc'[q].cur : y.id = x.id
    <3>1. \A q \in Proc : At(q, "row") => proc'[q].cur = proc[q].cur
      BY <1>0, <1>1, <1>2 DEF Same
    <3>2. QED
      BY <1>0, <1>3, <3>1 DEF SnapshotsInv, Together
  <2>2. \A x \in rows' : \/ x.key \in objects' \cup leaked'
                         \/ \E q \in Proc : At(q, "row")' /\ \E y \in proc'[q].cur : y.id = x.id
    BY <1>0, <2>1
  <2>3. \A k \in objects \ leaked : \/ \E x \in rows : x.key = k
                                    \/ \E q \in Proc : At(q, "insert") /\ proc[q].key = k
    BY DEF SnapshotsInv, Together
  <2>4. \A q \in Proc : At(q, "insert") => q = p \/ (At(q, "insert")'
                                                     /\ proc'[q].key = proc[q].key)
    BY <1>2, <1>3 DEF Same
  <2>5. new \in rows' /\ new.key = proc[p].key
    BY <1>0
  <2>6. \A k \in objects' \ leaked' :
           \/ \E x \in rows' : x.key = k
           \/ \E q \in Proc : At(q, "insert")' /\ proc'[q].key = k
    <3>1. objects' = objects /\ leaked' = leaked /\ rows \subseteq rows'
      BY <1>0
    <3>2. ASSUME NEW q \in Proc, At(q, "insert")
          PROVE  \/ \E x \in rows' : x.key = proc[q].key
                 \/ \E r \in Proc : At(r, "insert")' /\ proc'[r].key = proc[q].key
      BY <2>4, <2>5, <3>2
    <3>3. QED
      BY <2>3, <3>1, <3>2
  <2>7. QED
    BY <2>2, <2>6 DEF Together
<1>9. ASSUME NEW q \in Proc PROVE Holds(q)' /\ Chosen(q)'
  <2>1. CASE q = p
    BY <1>1, <2>1 DEF Holds, Chosen, At
  <2>2. CASE q # p
    <3>1. Same(q) /\ ~proc'[q].settled /\ proc'[q].prunes = proc[q].prunes
      BY <1>2, <2>2
    <3>2. \A r \in Proc : At(r, "insert")' => At(r, "insert") /\ proc'[r].key = proc[r].key
      BY <1>2, <1>3 DEF Same
    <3>3. Holds(q)'
      BY <1>0, <3>1, <3>2, StillHolds
    <3>4. \A x \in proc[q].todo : x.id \in Nat
      BY <1>6 DEF Known, Taken
    <3>5. Chosen(q)'
      BY <1>0, <3>1, <3>4, States DEF Chosen, Same, SnapshotsInv
    <3>6. QED
      BY <3>3, <3>5
  <2>3. QED
    BY <2>1, <2>2
<1>10. QED
  BY <1>7, <1>8, <1>9 DEF Knowledge

\* A body goes, or its removal fails: the process is then about to remove the row.
LEMMA ObjectStep ==
    ASSUME SnapshotsInv, NEW p \in Proc, DeleteObject(p) \/ DeleteObjectFails(p)
    PROVE  Knowledge'
<1>0. PICK x \in proc[p].todo :
         /\ proc' = [proc EXCEPT ![p].pc = "row", ![p].cur = {x}]
         /\ objects \ {x.key} \subseteq objects' /\ objects' \subseteq objects
         /\ leaked \subseteq leaked' /\ x.key \notin objects' \ leaked'
         /\ UNCHANGED <<rows, puts, ids>> /\ At(p, "object")
  BY DEF DeleteObject, DeleteObjectFails
<1>1. /\ proc'[p].pc = "row" /\ proc'[p].cur = {x} /\ proc'[p].todo = proc[p].todo
      /\ proc'[p].prunes = proc[p].prunes /\ proc'[p].settled = proc[p].settled
      /\ \A q \in Proc \ {p} : proc'[q] = proc[q]
  BY <1>0 DEF SnapshotsInv, TypeOK, ProcState
<1>2. /\ \A q \in Proc : At(q, "insert")' <=> At(q, "insert")
      /\ \A q \in Proc : At(q, "row")' <=> At(q, "row") \/ q = p
      /\ ~At(p, "insert") /\ ~At(p, "row")
  BY <1>0, <1>1 DEF At
<1>3. x \in Known /\ x.key \notin Waiting /\ rows \subseteq Known
  BY <1>0 DEF Known, Taken, SnapshotsInv, Identified
<1>4. Identified'
  <2>1. \A q \in Proc : Taken(q)' \subseteq Taken(q)
    BY <1>0, <1>1 DEF Taken
  <2>2. Known' \subseteq Known
    BY <1>0, <2>1 DEF Known
  <2>3. Waiting' \subseteq Waiting
    BY <1>1, <1>2 DEF Waiting
  <2>4. QED
    BY <1>0, <2>2, <2>3, StaysIdentified
<1>5. Together'
  <2>1. ASSUME NEW z \in rows
        PROVE  \/ z.key \in objects' \cup leaked'
               \/ \E q \in Proc : At(q, "row")' /\ \E y \in proc'[q].cur : y.id = z.id
    <3>1. CASE z.key = x.key
      <4>1. z.id = x.id
        BY <1>3, <3>1 DEF SnapshotsInv, Identified
      <4>2. QED
        BY <1>1, <1>2, <4>1
    <3>2. CASE z.key # x.key /\ z.key \in objects \cup leaked
      BY <1>0, <3>2
    <3>3. CASE z.key \notin objects \cup leaked
      <4>1. PICK q \in Proc : At(q, "row") /\ \E y \in proc[q].cur : y.id = z.id
        BY <3>3 DEF SnapshotsInv, Together
      <4>2. QED
        BY <1>1, <1>2, <4>1
    <3>4. QED
      BY <3>1, <3>2, <3>3
  <2>2. ASSUME NEW k \in objects' \ leaked'
        PROVE  \/ \E z \in rows' : z.key = k
               \/ \E q \in Proc : At(q, "insert")' /\ proc'[q].key = k
    <3>1. \/ \E z \in rows : z.key = k
          \/ \E q \in Proc : At(q, "insert") /\ proc[q].key = k
      BY <1>0, <2>2 DEF SnapshotsInv, Together
    <3>2. QED
      BY <1>0, <1>1, <1>2, <3>1
  <2>3. QED
    BY <1>0, <2>1, <2>2 DEF Together
<1>6. ASSUME NEW q \in Proc PROVE Holds(q)' /\ Chosen(q)'
  <2>1. CASE q = p
    <3>1. Holds(p)'
      BY <1>0, <1>1, <1>2 DEF Holds, At
    <3>2. Prunable' \subseteq Prunable
      BY <1>0, Shrinks DEF SnapshotsInv
    <3>3. Chosen(p)'
      BY <1>0, <1>1, <3>2 DEF Chosen, SnapshotsInv
    <3>4. QED
      BY <2>1, <3>1, <3>3
  <2>2. CASE q # p
    <3>1. Same(q) /\ proc'[q] = proc[q]
      BY <1>1, <2>2 DEF Same
    <3>2. \A r \in Proc : At(r, "insert")' => At(r, "insert") /\ proc'[r].key = proc[r].key
      BY <1>1, <1>2
    <3>3. /\ Waiting \cap objects \subseteq objects'
          /\ objects' \ leaked' \subseteq (objects \ leaked) \cup {puts + 1}
          /\ puts' = puts /\ puts \in Nat
      BY <1>0, <1>3, Due
    <3>4. Holds(q)'
      BY <3>1, <3>2, <3>3, StillHolds
    <3>5. QED
      BY <1>0, <3>1, <3>4, StillChosen
  <2>3. QED
    BY <2>1, <2>2
<1>7. QED
  BY <1>4, <1>5, <1>6 DEF Knowledge

LEMMA RowStep == ASSUME SnapshotsInv, NEW p \in Proc, DeleteRow(p) PROVE Knowledge'
<1>0. PICK x \in proc[p].todo : proc[p].cur = {x} /\ x.key \notin objects \ leaked
  BY DEF SnapshotsInv, Holds, DeleteRow
<1>1. /\ rows' = {y \in rows : y.id # x.id} /\ At(p, "row")
      /\ UNCHANGED <<objects, puts, ids, leaked>>
      /\ \A q \in Proc \ {p} : proc'[q] = proc[q]
  BY <1>0 DEF DeleteRow, SnapshotsInv, TypeOK
<1>2. /\ proc'[p].pc \in {"idle", "object"} /\ proc'[p].cur = {}
      /\ proc'[p].todo \subseteq proc[p].todo \ {x}
      /\ proc'[p].pc = "idle" => ~proc'[p].prunes /\ proc'[p].todo = {}
      /\ proc'[p].prunes => /\ proc[p].prunes /\ proc'[p].todo = proc[p].todo \ {x}
                            /\ proc'[p].settled = proc[p].settled
  <2>1. CASE proc[p].todo \ {x} = {}
    BY <1>0, <2>1, States DEF DeleteRow, SnapshotsInv, TypeOK
  <2>2. CASE proc[p].todo \ {x} # {}
    <3>1. proc'[p] = [proc[p] EXCEPT !.pc = "object", !.todo = proc[p].todo \ {x}, !.cur = {}]
      BY <1>0, <2>2 DEF DeleteRow, SnapshotsInv, TypeOK
    <3>2. QED
      BY <3>1 DEF SnapshotsInv, TypeOK, ProcState
  <2>3. QED
    BY <2>1, <2>2
<1>3. /\ \A q \in Proc : At(q, "insert")' <=> At(q, "insert")
      /\ \A q \in Proc : At(q, "row")' <=> At(q, "row") /\ q # p
      /\ ~At(p, "insert")
  BY <1>1, <1>2 DEF At
<1>4. x \in Known /\ rows \subseteq Known
  BY <1>0 DEF Known, Taken
<1>5. Identified'
  <2>1. \A q \in Proc : Taken(q)' \subseteq Taken(q)
    BY <1>0, <1>1, <1>2 DEF Taken
  <2>2. Known' \subseteq Known
    BY <1>1, <2>1 DEF Known
  <2>3. Waiting' \subseteq Waiting
    BY <1>1, <1>3 DEF Waiting
  <2>4. rows' \subseteq rows
    BY <1>1
  <2>5. QED
    BY <1>1, <2>2, <2>3, <2>4, StaysIdentified
<1>6. Together'
  <2>1. ASSUME NEW z \in rows'
        PROVE  \/ z.key \in objects' \cup leaked'
               \/ \E q \in Proc : At(q, "row")' /\ \E y \in proc'[q].cur : y.id = z.id
    <3>1. CASE z.key \in objects \cup leaked
      BY <1>1, <3>1
    <3>2. CASE z.key \notin objects \cup leaked
      <4>1. z \in rows /\ z.id # x.id
        BY <1>1
      <4>2. PICK q \in Proc : At(q, "row") /\ \E y \in proc[q].cur : y.id = z.id
        BY <3>2, <4>1 DEF SnapshotsInv, Together
      <4>3. q # p
        BY <1>0, <4>1, <4>2
      <4>4. QED
        BY <1>1, <1>3, <4>2, <4>3
    <3>3. QED
      BY <3>1, <3>2
  <2>2. ASSUME NEW k \in objects' \ leaked'
        PROVE  \/ \E z \in rows' : z.key = k
               \/ \E q \in Proc : At(q, "insert")' /\ proc'[q].key = k
    <3>1. CASE \E z \in rows : z.key = k
      <4>1. PICK z \in rows : z.key = k
        BY <3>1
      <4>2. z.id # x.id
        BY <1>0, <1>1, <1>4, <2>2, <4>1 DEF SnapshotsInv, Identified
      <4>3. QED
        BY <1>1, <4>1, <4>2
    <3>2. CASE \E q \in Proc : At(q, "insert") /\ proc[q].key = k
      BY <1>1, <1>3, <3>2
    <3>3. QED
      BY <1>1, <2>2, <3>1, <3>2 DEF SnapshotsInv, Together
  <2>3. QED
    BY <2>1, <2>2 DEF Together
<1>7. ASSUME NEW q \in Proc PROVE Holds(q)' /\ Chosen(q)'
  <2>0. rows' \subseteq rows
    BY <1>1
  <2>1. CASE q = p
    <3>1. Holds(p)'
      BY <1>2 DEF Holds, At
    <3>2. Prunable' \subseteq Prunable
      BY <2>0, Shrinks DEF SnapshotsInv
    <3>3. \A y \in Prunable' : y # x
      BY <1>1 DEF Prunable
    <3>4. Chosen(p)'
      BY <1>1, <1>2, <3>2, <3>3 DEF Chosen, SnapshotsInv
    <3>5. QED
      BY <2>1, <3>1, <3>4
  <2>2. CASE q # p
    <3>1. Same(q) /\ proc'[q] = proc[q]
      BY <1>1, <2>2 DEF Same
    <3>2. \A r \in Proc : At(r, "insert")' => At(r, "insert") /\ proc'[r].key = proc[r].key
      BY <1>1, <1>3
    <3>3. Holds(q)'
      BY <1>1, <3>1, <3>2, StillHolds, Due
    <3>4. QED
      BY <1>1, <2>0, <3>1, <3>3, StillChosen
  <2>3. QED
    BY <2>1, <2>2
<1>8. QED
  BY <1>5, <1>6, <1>7 DEF Knowledge

LEMMA FailStep == ASSUME SnapshotsInv, NEW p \in Proc, Fail(p) PROVE Knowledge'
<1>0. /\ proc' = [proc EXCEPT ![p] = Idle] /\ UNCHANGED <<objects, rows, puts, ids>>
      /\ leaked \subseteq leaked' /\ (At(p, "insert") => proc[p].key \in leaked')
      /\ \A x \in proc[p].cur : x.key \in leaked'
  BY DEF Fail, Finish
<1>1. proc'[p] = Idle /\ \A q \in Proc \ {p} : proc'[q] = proc[q]
  BY <1>0 DEF SnapshotsInv, TypeOK
<1>2. /\ \A q \in Proc : At(q, "insert")' <=> At(q, "insert") /\ q # p
      /\ \A q \in Proc : At(q, "row")' <=> At(q, "row") /\ q # p
  BY <1>1, States DEF At
<1>3. rows \subseteq Known /\ proc[p].cur \subseteq Known
  BY DEF Known, Taken
<1>4. Identified'
  <2>1. \A q \in Proc : Taken(q)' \subseteq Taken(q)
    BY <1>1, States DEF Taken
  <2>2. Known' \subseteq Known
    BY <1>0, <2>1 DEF Known
  <2>3. Waiting' \subseteq Waiting
    BY <1>1, <1>2 DEF Waiting
  <2>4. QED
    BY <1>0, <2>2, <2>3, StaysIdentified
<1>5. Together'
  <2>1. ASSUME NEW z \in rows
        PROVE  \/ z.key \in objects' \cup leaked'
               \/ \E q \in Proc : At(q, "row")' /\ \E y \in proc'[q].cur : y.id = z.id
    <3>1. CASE z.key \in objects \cup leaked
      BY <1>0, <3>1
    <3>2. ASSUME NEW q \in Proc, At(q, "row"), NEW y \in proc[q].cur, y.id = z.id
          PROVE  \/ z.key \in objects' \cup leaked'
                 \/ \E r \in Proc : At(r, "row")' /\ \E w \in proc'[r].cur : w.id = z.id
      <4>1. CASE q = p
        BY <1>0, <1>3, <3>2, <4>1 DEF SnapshotsInv, Identified
      <4>2. CASE q # p
        BY <1>1, <1>2, <3>2, <4>2
      <4>3. QED
        BY <4>1, <4>2
    <3>3. QED
      BY <3>1, <3>2 DEF SnapshotsInv, Together
  <2>2. ASSUME NEW k \in objects' \ leaked'
        PROVE  \/ \E z \in rows' : z.key = k
               \/ \E q \in Proc : At(q, "insert")' /\ proc'[q].key = k
    <3>1. \/ \E z \in rows : z.key = k
          \/ \E q \in Proc : At(q, "insert") /\ proc[q].key = k
      BY <1>0, <2>2 DEF SnapshotsInv, Together
    <3>2. QED
      BY <1>0, <1>1, <1>2, <2>2, <3>1
  <2>3. QED
    BY <1>0, <2>1, <2>2 DEF Together
<1>6. ASSUME NEW q \in Proc PROVE Holds(q)' /\ Chosen(q)'
  <2>1. CASE q = p
    BY <1>1, <2>1, States DEF Holds, Chosen, At
  <2>2. CASE q # p
    <3>1. Same(q) /\ proc'[q] = proc[q]
      BY <1>1, <2>2 DEF Same
    <3>2. \A r \in Proc : At(r, "insert")' => At(r, "insert") /\ proc'[r].key = proc[r].key
      BY <1>1, <1>2
    <3>3. objects' \ leaked' \subseteq (objects \ leaked) \cup {puts + 1}
      BY <1>0
    <3>4. Holds(q)'
      BY <1>0, <3>1, <3>2, <3>3, StillHolds, Due
    <3>5. QED
      BY <1>0, <3>1, <3>4, StillChosen
  <2>3. QED
    BY <2>1, <2>2
<1>7. QED
  BY <1>4, <1>5, <1>6 DEF Knowledge

LEMMA ExpireStep == ASSUME SnapshotsInv, NEW x \in rows, Expire(x) PROVE Knowledge'
<1> DEFINE aged == [x EXCEPT !.old = TRUE]
<1>0. /\ rows' = (rows \ {x}) \cup {aged} /\ aged.id = x.id /\ aged.key = x.key
      /\ UNCHANGED <<objects, puts, ids, leaked>>
  BY DEF Expire, SnapshotsInv, TypeOK, Row
<1> HIDE DEF aged
<1>1. \A q \in Proc : Same(q) /\ ~proc'[q].settled /\ proc'[q].prunes = proc[q].prunes
  BY DEF Expire, SnapshotsInv, TypeOK, ProcState, Same
<1>2. /\ \A q \in Proc : At(q, "insert")' <=> At(q, "insert")
      /\ \A q \in Proc : At(q, "row")' <=> At(q, "row")
  BY <1>1 DEF At, Same
<1>3. Known' \subseteq Known \cup {aged} /\ x \in Known
  <2>1. \A q \in Proc : Taken(q)' \subseteq Taken(q)
    BY <1>1 DEF Taken, Same
  <2>2. QED
    BY <1>0, <2>1 DEF Known
<1>4. Waiting' = Waiting
  BY <1>1, <1>2 DEF Waiting, Same
<1>5. Identified'
  <2>1. \A z \in Known' : z.id <= ids' /\ z.key <= puts' /\ z.key \notin Waiting'
    BY <1>0, <1>3, <1>4 DEF SnapshotsInv, Identified
  <2>2. \A y, z \in Known' : y.id = z.id <=> y.key = z.key
    BY <1>0, <1>3 DEF SnapshotsInv, Identified
  <2>3. \A y, z \in rows' : y.id = z.id => y = z
    BY <1>0 DEF SnapshotsInv, Identified
  <2>4. QED
    BY <1>0, <1>4, <2>1, <2>2, <2>3 DEF SnapshotsInv, Identified
<1>6. Together'
  <2>1. ASSUME NEW z \in rows
        PROVE  \/ z.key \in objects' \cup leaked'
               \/ \E q \in Proc : At(q, "row")' /\ \E y \in proc'[q].cur : y.id = z.id
    BY <1>0, <1>1, <1>2 DEF Same, SnapshotsInv, Together
  <2>2. ASSUME NEW k \in objects' \ leaked'
        PROVE  \/ \E z \in rows' : z.key = k
               \/ \E q \in Proc : At(q, "insert")' /\ proc'[q].key = k
    <3>1. \/ \E z \in rows : z.key = k
          \/ \E q \in Proc : At(q, "insert") /\ proc[q].key = k
      BY <1>0, <2>2 DEF SnapshotsInv, Together
    <3>2. QED
      BY <1>0, <1>1, <1>2, <3>1 DEF Same
  <2>3. QED
    BY <1>0, <2>1, <2>2 DEF Together
<1>7. ASSUME NEW q \in Proc PROVE Holds(q)' /\ Chosen(q)'
  <2>1. \A r \in Proc : At(r, "insert")' => At(r, "insert") /\ proc'[r].key = proc[r].key
    BY <1>1, <1>2 DEF Same
  <2>2. Holds(q)'
    BY <1>0, <1>1, <2>1, StillHolds, Due
  <2>3. Chosen(q)'
    BY <1>0, <1>1 DEF Chosen, Same, SnapshotsInv
  <2>4. QED
    BY <2>2, <2>3
<1>8. QED
  BY <1>5, <1>6, <1>7 DEF Knowledge

\* The steps that only look at the table.
LEMMA LookStep ==
    ASSUME SnapshotsInv, NEW p \in Proc,
           (p \in Request /\ (UploadReceived(p) \/ DeleteReceived(p)))
              \/ (p \in Poller /\ PollAnswered(p)) \/ SelectRows(p)
    PROVE  Knowledge'
<1>0. UNCHANGED <<objects, rows, puts, ids, leaked>> /\ proc[p].pc \in {"idle", "select"}
  BY DEF UploadReceived, DeleteReceived, PollAnswered, SelectRows, At
<1>1. ASSUME NEW s, proc' = [proc EXCEPT ![p] = s], s.cur = {}, s.todo \subseteq rows,
             s.pc \in {"idle", "put", "select", "object"}, ~s.prunes,
             s.pc # "object" => s.todo = {}
      PROVE  Knowledge'
  <2>1. proc'[p] = s
    BY <1>1 DEF SnapshotsInv, TypeOK
  <2>2. Chosen(p)'
    BY <1>1, <2>1 DEF Chosen
  <2>3. QED
    BY <1>0, <1>1, <2>2, QuietStep DEF Knowledge
<1>2. ASSUME UploadReceived(p) PROVE Knowledge'
  <2>1. PICK t \in BOOLEAN :
            proc' = [proc EXCEPT ![p] = [Idle EXCEPT !.pc = "put", !.thief = t]]
    BY <1>2 DEF UploadReceived
  <2> DEFINE s == [Idle EXCEPT !.pc = "put", !.thief = t]
  <2>2. s.pc = "put" /\ s.cur = {} /\ s.todo = {} /\ ~s.prunes
    BY DEF Idle
  <2>3. QED
    BY <1>1, <2>1, <2>2
<1>3. ASSUME DeleteReceived(p) PROVE Knowledge'
  <2>1. PICK x \in rows :
            proc' = [proc EXCEPT ![p] = [Idle EXCEPT !.pc = "object", !.todo = {x}]]
    BY <1>3 DEF DeleteReceived
  <2> DEFINE s == [Idle EXCEPT !.pc = "object", !.todo = {x}]
  <2>2. s.pc = "object" /\ s.cur = {} /\ s.todo = {x} /\ ~s.prunes
    BY DEF Idle
  <2>3. QED
    BY <1>1, <2>1, <2>2
<1>4. ASSUME PollAnswered(p) PROVE Knowledge'
  <2> DEFINE s == [Idle EXCEPT !.pc = "select"]
  <2>1. s.pc = "select" /\ s.cur = {} /\ s.todo = {} /\ ~s.prunes
    BY DEF Idle
  <2>2. QED
    BY <1>1, <1>4, <2>1 DEF PollAnswered
<1>5. ASSUME SelectRows(p) PROVE Knowledge'
  <2>1. CASE Prunable = {}
    BY <1>1, <1>5, <2>1, States DEF SelectRows
  <2>2. CASE Prunable # {}
    <3> DEFINE s == [proc[p] EXCEPT !.pc = "object", !.todo = Prunable, !.prunes = TRUE,
                                    !.settled = TRUE]
    <3>1. proc' = [proc EXCEPT ![p] = s]
      BY <1>5, <2>2 DEF SelectRows
    <3>2. /\ s.pc = "object" /\ s.todo = Prunable /\ s.cur = proc[p].cur
          /\ proc[p].cur = {} /\ proc'[p] = s
      BY <1>5, <3>1 DEF SelectRows, At, SnapshotsInv, TypeOK, ProcState, Holds
    <3>3. Prunable' = Prunable /\ Prunable \subseteq rows
      BY <1>0 DEF Prunable, Newer
    <3>4. ASSUME NEW x \in Prunable PROVE x.old \/ x.id <= ids - MaxSnapshots
      <4>1. x \in rows /\ (x.old \/ Cardinality(Newer(x)) >= MaxSnapshots)
        BY DEF Prunable
      <4>2. Cardinality(Newer(x)) \in Nat /\ Cardinality(Newer(x)) <= ids - x.id
        BY <4>1, Finite DEF SnapshotsInv
      <4>3. x.id \in Nat /\ ids \in Nat
        BY <4>1, Due, States DEF SnapshotsInv, TypeOK, Row, Key
      <4>4. QED
        BY <4>1, <4>2, <4>3, States
    <3>5. Chosen(p)'
      BY <1>0, <3>2, <3>3, <3>4 DEF Chosen
    <3>6. QED
      BY <1>0, <3>1, <3>2, <3>3, <3>5, QuietStep DEF Knowledge
  <2>3. QED
    BY <2>1, <2>2
<1>6. QED
  BY <1>2, <1>3, <1>4, <1>5

-----------------------------------------------------------------------------
\* pruneSnapshots and handleSnapshotDelete remove from R2 and D1 together: apart from
\* calls that failed, a row has its body or is about to go, and a body has its row or is
\* about to get it, in every interleaving of uploads, deletions and prunes.
THEOREM TablesTogether == Spec => []SnapshotsInv
<1>1. Init => SnapshotsInv
  <2> SUFFICES ASSUME Init PROVE SnapshotsInv
    OBVIOUS
  <2>1. /\ objects = {} /\ rows = {} /\ puts = 0 /\ ids = 0 /\ faults = 0 /\ leaked = {}
        /\ proc = [p \in Proc |-> Idle]
    BY DEF Init
  <2>2. TypeOK
    BY <2>1, States, LimitAssumption DEF TypeOK
  <2>3. \A p \in Proc : Holds(p) /\ Chosen(p)
    BY <2>1, States DEF Holds, Chosen, At
  <2>4. Known = {} /\ Waiting = {}
    BY <2>1, States DEF Known, Taken, Waiting, At
  <2>5. Identified /\ Together
    BY <2>1, <2>4, FS_EmptySet DEF Identified, Together
  <2>6. QED
    BY <2>2, <2>3, <2>5 DEF SnapshotsInv
<1>2. SnapshotsInv /\ [Next]_vars => SnapshotsInv'
  <2> SUFFICES ASSUME SnapshotsInv, [Next]_vars PROVE SnapshotsInv'
    OBVIOUS
  <2>1. TypeOK' /\ Request \subseteq Proc /\ Poller \subseteq Proc
    BY TypeStep DEF Proc
  <2>2. CASE UNCHANGED vars
    BY <2>2 DEF vars, SnapshotsInv, TypeOK, Together, Identified, Known, Taken, Waiting,
                Holds, Chosen, At, Prunable, Newer
  <2>3. CASE Next
    <3>1. Knowledge'
      BY <2>1, <2>3, LookStep, PutStep, InsertStep, ObjectStep, RowStep, FailStep, ExpireStep
         DEF Next, Proceed
    <3>2. QED
      BY <2>1, <3>1 DEF Knowledge, SnapshotsInv
  <2>4. QED
    BY <2>2, <2>3
<1>3. QED
  BY <1>1, <1>2, PTL DEF Spec

\* pruneSnapshots: it removes a photo only when it is older than the cutoff or has
\* MaxSnapshots newer ones, also when uploads and deletions run in between.
THEOREM NewestSpared == Spec => NewestKept
<1>1. ASSUME SnapshotsInv,
             NEW p \in Proc, NEW x \in proc[p].cur, DeleteRow(p), proc[p].prunes
      PROVE  x.old \/ x.id <= ids - MaxSnapshots
  <2>1. x \in proc[p].todo
    BY <1>1 DEF SnapshotsInv, Holds, DeleteRow
  <2>2. QED
    BY <1>1, <2>1 DEF SnapshotsInv, Chosen
<1>2. SnapshotsInv =>
        [\A p \in Proc : \A x \in proc[p].cur :
            DeleteRow(p) /\ proc[p].prunes => x.old \/ x.id <= ids - MaxSnapshots]_vars
  BY <1>1
<1>3. QED
  BY <1>2, TablesTogether, PTL DEF NewestKept

\* pruneSnapshots: a prune that ran to its end, with nothing coming in or growing old
\* meanwhile, leaves the account within the count and age caps.
THEOREM PruneComplete == Spec => PruneEnds
<1>1. ASSUME SnapshotsInv, SnapshotsInv', [Next]_vars, NEW p \in Proc, At(p, "row"),
             At(p, "idle")', faults' = faults, proc[p].prunes, proc[p].settled
      PROVE  Cardinality(rows') <= MaxSnapshots /\ \A x \in rows' : ~x.old
  <2>1. DeleteRow(p)
    <3>1. TypeOK /\ Request \subseteq Proc /\ Poller \subseteq Proc
      BY <1>1 DEF SnapshotsInv, Proc
    <3>2. ASSUME NEW q \in Proc, q # p
          PROVE  UploadReceived(q) \/ DeleteReceived(q) \/ PollAnswered(q) \/ PutObject(q)
                   \/ InsertRow(q) \/ SelectRows(q) \/ DeleteObject(q)
                   \/ DeleteObjectFails(q) \/ DeleteRow(q) => proc'[p].pc = proc[p].pc
      <4>0. proc \in [Proc -> ProcState]
        BY <3>1 DEF TypeOK
      <4>1. UploadReceived(q) => proc'[p].pc = proc[p].pc
        BY <4>0, <3>2 DEF UploadReceived
      <4>2. DeleteReceived(q) => proc'[p].pc = proc[p].pc
        BY <4>0, <3>2 DEF DeleteReceived
      <4>3. PollAnswered(q) => proc'[p].pc = proc[p].pc
        BY <4>0, <3>2 DEF PollAnswered
      <4>4. PutObject(q) => proc'[p].pc = proc[p].pc
        BY <4>0, <3>2 DEF PutObject
      <4>5. InsertRow(q) => proc'[p].pc = proc[p].pc
        <5>1. proc[p] \in ProcState
          BY <4>0
        <5>2. [proc[p] EXCEPT !.settled = FALSE].pc = proc[p].pc
          BY <5>1 DEF ProcState
        <5>3. QED
          BY <5>2, <3>2 DEF InsertRow
      <4>6. SelectRows(q) => proc'[p].pc = proc[p].pc
        BY <4>0, <3>2 DEF SelectRows
      <4>7. DeleteObject(q) \/ DeleteObjectFails(q) => proc'[p].pc = proc[p].pc
        BY <4>0, <3>2 DEF DeleteObject, DeleteObjectFails
      <4>8. DeleteRow(q) => proc'[p].pc = proc[p].pc
        BY <4>0, <3>2 DEF DeleteRow
      <4>9. QED
        BY <4>1, <4>2, <4>3, <4>4, <4>5, <4>6, <4>7, <4>8
    <3>3. ASSUME NEW q \in Proc, Fail(q) PROVE FALSE
      BY <1>1, <3>1, <3>3 DEF Fail, TypeOK
    <3>4. ASSUME NEW x \in rows, Expire(x) PROVE FALSE
      BY <1>1, <3>1, <3>4 DEF Expire, TypeOK, ProcState, At
    <3>5. ~(UploadReceived(p) \/ DeleteReceived(p) \/ PollAnswered(p) \/ PutObject(p)
            \/ InsertRow(p) \/ SelectRows(p) \/ DeleteObject(p) \/ DeleteObjectFails(p))
      BY <1>1 DEF At, UploadReceived, DeleteReceived, PollAnswered, PutObject, InsertRow,
           SelectRows, DeleteObject, DeleteObjectFails
    <3>6. ~UNCHANGED vars
      BY <1>1 DEF vars, At
    <3>7. QED
      BY <1>1, <3>1, <3>2, <3>3, <3>4, <3>5, <3>6 DEF Next, Proceed, At
  <2>2. PICK x \in proc[p].todo : proc[p].cur = {x}
    BY <1>1, <2>1 DEF SnapshotsInv, Holds, DeleteRow
  <2>3. proc[p].todo \ {x} = {}
    BY <1>1, <2>1, <2>2 DEF DeleteRow, SnapshotsInv, TypeOK, ProcState, At
  <2>4. rows' = {y \in rows : y.id # x.id}
    BY <2>1, <2>2 DEF DeleteRow
  <2>5. Prunable' \subseteq Prunable /\ Prunable \subseteq proc[p].todo
    BY <1>1, <2>4, Shrinks DEF SnapshotsInv, Chosen
  <2>6. x \notin Prunable'
    BY <2>4 DEF Prunable
  <2>7. Prunable' = {}
    BY <2>3, <2>5, <2>6
  <2>8. TypeOK' /\ Identified'
    BY <1>1 DEF SnapshotsInv
  <2>9. QED
    BY <2>7, <2>8, WithinCapsNext DEF Spent, Capped
<1>2. SnapshotsInv /\ SnapshotsInv' /\ [Next]_vars =>
        [\A p \in Proc :
           /\ At(p, "row") /\ At(p, "idle")' /\ faults' = faults
           /\ proc[p].prunes /\ proc[p].settled
           => /\ Cardinality(rows') <= MaxSnapshots
              /\ \A x \in rows' : ~x.old]_vars
  BY <1>1
<1>3. QED
  BY <1>2, TablesTogether, PTL DEF PruneEnds, Spec
=============================================================================
