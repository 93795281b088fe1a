--------------------------- MODULE RelaySnapshots ---------------------------
(***************************************************************************)
(* The intruder snapshots of one account on the Cloudflare relay           *)
(* (worker/worker.js): bodies in the R2 bucket, metadata rows in D1.       *)
(*                                                                         *)
(* An upload puts the body, inserts the row and prunes; every poll prunes  *)
(* too, after its answer (ctx.waitUntil).  Requests and polls are          *)
(* processes, each R2 or D1 call one step.                                 *)
(***************************************************************************)
EXTENDS Integers, FiniteSets

CONSTANTS
    Request,        \* slots for uploads and deletions
    Poller,         \* the devices that poll the account
    MaxSnapshots,   \* MAX_SNAPSHOTS_PER_USER
    MaxPuts,        \* bound on the snapshots uploaded
    MaxFaults       \* bound on the failing calls and evictions

ASSUME ProcAssumption == Request \cap Poller = {}
ASSUME LimitAssumption == MaxSnapshots \in Nat \ {0} /\ MaxPuts \in Nat /\ MaxFaults \in Nat

VARIABLES
    objects,    \* the keys in the bucket
    rows,       \* the snapshots rows
    puts,       \* how many bodies were put: keys are fresh
    ids,        \* the last snap_id
    proc,       \* the requests and polls in flight
    faults,     \* how many calls failed
    leaked      \* history: the keys whose calls were cut short or failed

vars == <<objects, rows, puts, ids, proc, faults, leaked>>

Proc == Request \cup Poller
Key == 1..MaxPuts

\* old: created_at lies before the cutoff of 24 hours.
Row == [id : Key, key : Key, old : BOOLEAN]

\* thief: the row read at authentication shows a THIEF_ALERT.  todo: the rows a prune
\* or a deletion still has to remove, cur the one it is at.  settled: history, nothing
\* was inserted or grew old since the prune selected its rows.  threw: the request
\* that had this slot was answered 500 by its own code, no call having failed.
ProcState ==
    [pc : {"idle", "put", "insert", "select", "object", "row"}, thief : BOOLEAN,
     key : Key \cup {0}, todo : SUBSET Row, cur : SUBSET Row, prunes : BOOLEAN,
     settled : BOOLEAN, threw : BOOLEAN]

Idle == [pc |-> "idle", thief |-> FALSE, key |-> 0, todo |-> {}, cur |-> {},
         prunes |-> FALSE, settled |-> FALSE, threw |-> FALSE]

Init ==
    /\ objects = {}
    /\ rows = {}
    /\ puts = 0
    /\ ids = 0
    /\ proc = [p \in Proc |-> Idle]
    /\ faults = 0
    /\ leaked = {}

At(p, pc) == proc[p].pc = pc

Finish(p) == proc' = [proc EXCEPT ![p] = Idle]

-----------------------------------------------------------------------------
(* Uploads.                                                                *)

UploadReceived(r) ==
    /\ At(r, "idle")
    /\ \E t \in BOOLEAN : proc' = [proc EXCEPT ![r] = [Idle EXCEPT !.pc = "put",
                                                                   !.thief = t]]
    /\ UNCHANGED <<objects, rows, puts, ids, faults, leaked>>

PutObject(r) ==
    /\ At(r, "put")
    /\ puts < MaxPuts
    /\ puts' = puts + 1
    /\ objects' = objects \cup {puts + 1}
    /\ proc' = [proc EXCEPT ![r].pc = "insert", ![r].key = puts + 1]
    /\ UNCHANGED <<rows, ids, faults, leaked>>

\* With a THIEF_ALERT in the row, the handler goes on to use the name ctx, which it
\* does not have: it throws, and never prunes.
InsertRow(r) ==
    /\ At(r, "insert")
    /\ ids' = ids + 1
    /\ rows' = rows \cup {[id |-> ids + 1, key |-> proc[r].key, old |-> FALSE]}
    /\ proc' = [p \in Proc |->
                   IF p # r THEN [proc[p] EXCEPT !.settled = FALSE]
                   ELSE IF proc[r].thief THEN [Idle EXCEPT !.threw = TRUE]
                   ELSE [proc[r] EXCEPT !.pc = "select"]]
    /\ UNCHANGED <<objects, puts, faults, leaked>>

-----------------------------------------------------------------------------
(* Pruning and deleting.                                                   *)

\* SELECT snap_id ... ORDER BY snap_id DESC LIMIT 1 OFFSET n, and all rows up to it.
Newer(x) == {y \in rows : y.id > x.id}
\* Mutants: the age is not looked at; the newest row beyond the limit stays; the cap
\* removes one row too many.
CapOnly == {x \in rows : Cardinality(Newer(x)) >= MaxSnapshots}
CapLess == {x \in rows : x.old \/ Cardinality(Newer(x)) > MaxSnapshots}
CapMore == {x \in rows : x.old \/ Cardinality(Newer(x)) >= MaxSnapshots - 1}
Prunable == {x \in rows : x.old \/ Cardinality(Newer(x)) >= MaxSnapshots}

PollAnswered(p) ==
    /\ At(p, "idle")
    /\ proc' = [proc EXCEPT ![p] = [Idle EXCEPT !.pc = "select"]]
    /\ UNCHANGED <<objects, rows, puts, ids, faults, leaked>>

SelectRows(p) ==
    /\ At(p, "select")
    /\ proc' = [proc EXCEPT ![p] = IF Prunable = {} THEN Idle
                                   ELSE [@ EXCEPT !.pc = "object", !.todo = Prunable,
                                                  !.prunes = TRUE, !.settled = TRUE]]
    /\ UNCHANGED <<objects, rows, puts, ids, faults, leaked>>

\* handleSnapshotDelete: any row of the account; an unknown id answers 404.
DeleteReceived(r) ==
    /\ At(r, "idle")
    /\ \E x \in rows : proc' = [proc EXCEPT ![r] = [Idle EXCEPT !.pc = "object",
                                                                !.todo = {x}]]
    /\ UNCHANGED <<objects, rows, puts, ids, faults, leaked>>

DeleteObject(p) ==
    /\ At(p, "object")
    /\ \E x \in proc[p].todo :
          /\ objects' = objects \ {x.key}
          /\ proc' = [proc EXCEPT ![p].pc = "row", ![p].cur = {x}]
    /\ UNCHANGED <<rows, puts, ids, faults, leaked>>

\* try { delete } catch (_) {}: the row goes all the same.
DeleteObjectFails(p) ==
    /\ At(p, "object")
    /\ faults < MaxFaults
    /\ faults' = faults + 1
    /\ \E x \in proc[p].todo :
          /\ leaked' = leaked \cup {x.key}
          /\ proc' = [proc EXCEPT ![p].pc = "row", ![p].cur = {x}]
    /\ UNCHANGED <<objects, rows, puts, ids>>

\* Mutant: only the object is deleted.
KeepRow(p) ==
    /\ At(p, "row")
    /\ LET left == proc[p].todo \ proc[p].cur IN
       proc' = [proc EXCEPT ![p] = IF left = {} THEN Idle
                                   ELSE [@ EXCEPT !.pc = "object", !.todo = left,
                                                  !.cur = {}]]
    /\ UNCHANGED <<objects, rows, puts, ids, faults, leaked>>

\* DELETE FROM snapshots WHERE snap_id = ?.
DeleteRow(p) ==
    /\ At(p, "row")
    /\ rows' = {y \in rows : \A x \in proc[p].cur : y.id # x.id}
    /\ LET left == proc[p].todo \ proc[p].cur IN
       proc' = [proc EXCEPT ![p] = IF left = {} THEN Idle
                                   ELSE [@ EXCEPT !.pc = "object", !.todo = left,
                                                  !.cur = {}]]
    /\ UNCHANGED <<objects, puts, ids, faults, leaked>>

-----------------------------------------------------------------------------
(* Time and failures.                                                      *)

Expire(x) ==
    /\ ~x.old
    /\ rows' = (rows \ {x}) \cup {[x EXCEPT !.old = TRUE]}
    /\ proc' = [p \in Proc |-> [proc[p] EXCEPT !.settled = FALSE]]
    /\ UNCHANGED <<objects, puts, ids, faults, leaked>>

\* A D1 call throws, or the isolate is evicted.  (What a prune throws is caught, and
\* the request answered.)
Fail(p) ==
    /\ ~At(p, "idle")
    /\ faults < MaxFaults
    /\ faults' = faults + 1
    /\ Finish(p)
    /\ leaked' = leaked \cup (IF At(p, "insert") THEN {proc[p].key} ELSE {})
                        \cup {x.key : x \in proc[p].cur}
    /\ UNCHANGED <<objects, rows, puts, ids>>

\* The calls of a request or prune under way.
Proceed(p) ==
    \/ PutObject(p) \/ InsertRow(p) \/ SelectRows(p)
    \/ DeleteObject(p) \/ DeleteObjectFails(p) \/ DeleteRow(p)

Next ==
    \/ \E r \in Request : UploadReceived(r) \/ DeleteReceived(r)
    \/ \E p \in Poller : PollAnswered(p)
    \/ \E p \in Proc : Proceed(p) \/ Fail(p)
    \/ \E x \in rows : Expire(x)

Spec == Init /\ [][Next]_vars

\* Every device polls for ever, and a call that was made comes back.
Fairness ==
    /\ \A p \in Poller : WF_vars(PollAnswered(p))
    /\ \A p \in Proc : WF_vars(Proceed(p))

FairSpec == Spec /\ Fairness

-----------------------------------------------------------------------------
\* The types of the bucket, the table and the processes.
TypeOK ==
    /\ objects \subseteq Key
    /\ rows \subseteq Row
    /\ puts \in 0..MaxPuts
    /\ ids \in 0..puts
    /\ proc \in [Proc -> ProcState]
    /\ faults \in 0..MaxFaults
    /\ leaked \subseteq Key

\* "Both prune R2 and D1 together": apart from failed or abandoned calls, a row without
\* its object is about to go, and an object without a row is about to get one.
Together ==
    /\ \A x \in rows :
          \/ x.key \in objects \cup leaked
          \/ \E p \in Proc : At(p, "row") /\ \E y \in proc[p].cur : y.id = x.id
    /\ \A k \in objects \ leaked :
          \/ \E x \in rows : x.key = k
          \/ \E p \in Proc : At(p, "insert") /\ proc[p].key = k

\* The rows that the table holds, or that a prune or deletion took from it; the bodies
\* whose row is still to come.
Taken(p) == proc[p].todo \cup proc[p].cur
Known == rows \cup UNION {Taken(p) : p \in Proc}
Waiting == {proc[p].key : p \in {q \in Proc : At(q, "insert")}}

\* An id goes with one key for ever, and no more rows are due than bodies were put.
Identified ==
    /\ \A x \in Known : x.id <= ids /\ x.key <= puts /\ x.key \notin Waiting
    /\ \A x, y \in Known : x.id = y.id <=> x.key = y.key
    /\ \A x, y \in rows : x.id = y.id => x = y
    /\ ids + Cardinality(Waiting) <= puts

\* What a process holds: an upload a body of its own, a prune or a deletion the row
\* whose body it has just removed.
Holds(p) ==
    /\ At(p, "insert") => /\ proc[p].key \in objects \cap 1..puts
                          /\ \A q \in Proc : At(q, "insert") /\ proc[q].key = proc[p].key
                                            => q = p
    /\ At(p, "row") => \E x \in proc[p].todo : proc[p].cur = {x}
                                             /\ x.key \notin objects \ leaked
    /\ ~At(p, "row") => proc[p].cur = {}

\* A prune goes for old rows and rows beyond the limit, and, while nothing came in or
\* grew old, for all of them.
Chosen(p) ==
    /\ proc[p].pc \notin {"object", "row"} => ~proc[p].prunes /\ proc[p].todo = {}
    /\ proc[p].prunes =>
          /\ \A x \in proc[p].todo : x.old \/ x.id <= ids - MaxSnapshots
          /\ proc[p].settled => Prunable \subseteq proc[p].todo

\* What a request or prune in flight knows of the bucket and the table stays right.
SnapshotsInv ==
    /\ TypeOK
    /\ Together
    /\ Identified
    /\ \A p \in Proc : Holds(p) /\ Chosen(p)

\* A prune removes no photo that is younger than the cutoff and one of the newest
\* MaxSnapshots ever taken, however prunes and deletions interleave.
NewestKept ==
    [][\A p \in Proc : \A x \in proc[p].cur :
          DeleteRow(p) /\ proc[p].prunes => x.old \/ x.id <= ids - MaxSnapshots]_vars

\* When a prune ends, and nothing came in or grew old meanwhile, the account is within
\* the count and age caps.
PruneEnds ==
    [][\A p \in Proc :
          /\ At(p, "row") /\ At(p, "idle")' /\ faults' = faults
          /\ proc[p].prunes /\ proc[p].settled
          => /\ Cardinality(rows') <= MaxSnapshots
             /\ \A x \in rows' : ~x.old]_vars

\* Uploads that throw never prune, and failing calls stop prunes; the polls still bring
\* the account within its caps, for good once uploads and failures end.
PolledWithinCaps == <>[](Cardinality(rows) <= MaxSnapshots /\ \A x \in rows : ~x.old)

\* "A Telegram outage must never fail the upload": an upload whose row was stored, and
\* none of whose calls failed, is not answered with an error (handleSnapshotUpload).
StoredIsReported ==
    [][\A r \in Request : InsertRow(r) => ~proc'[r].threw]_vars
=============================================================================
