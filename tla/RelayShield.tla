----------------------------- MODULE RelayShield -----------------------------
(***************************************************************************)
(* The attempts shield of the relay (worker/worker.js): a counter in the   *)
(* D1 table pair_fails, one row per subject and minute, that handleArm     *)
(* puts before the comparison of the disarm pass and handlePairLink before *)
(* the lookup of a pairing code.  Requests of one subject run side by      *)
(* side; each of their statements is a step.                               *)
(***************************************************************************)
EXTENDS Naturals, FiniteSets

CONSTANTS
    Slot,           \* slots for the attempts in flight
    Limit,          \* PASS_MAX or PAIR_LINK_MAX
    Resets,         \* TRUE: a success deletes the row (handleArm)
    MaxMinute,      \* bound on the clock, in minutes
    MaxAttempts     \* bound on the attempts of a minute

ASSUME SlotAssumption == IsFiniteSet(Slot)
ASSUME LimitAssumption == Limit \in Nat /\ MaxMinute \in Nat /\ MaxAttempts \in Nat
ASSUME ResetsAssumption == Resets \in BOOLEAN

VARIABLES
    minute,     \* Math.floor(now() / RATE_LIMIT_WINDOW)
    fails,      \* the pair_fails rows: 0 is "no row", which reads as 0
    attempt,    \* the attempts in flight
    tally       \* history, per minute since its row was last deleted: see Tally

shieldVars == <<minute, fails, attempt, tally>>

Minute == 0..MaxMinute

\* late: the attempt was counted in a row that has been deleted since.
Attempt == [pc : {"idle", "count", "read", "judge", "reset"}, bucket : Minute,
            right : BOOLEAN, late : BOOLEAN]

\* let: attempts let through by the row they were counted in; lateLet: by a younger
\* row; carried: how many attempts were between INSERT and SELECT at the deletion.
Tally == [let : Nat, lateLet : Nat, carried : Nat]

NoAttempt == [pc |-> "idle", bucket |-> 0, right |-> FALSE, late |-> FALSE]
Clean == [let |-> 0, lateLet |-> 0, carried |-> 0]

\* The attempts of minute m between their INSERT and their SELECT.
Counted(m) == {r \in Slot : attempt[r].pc = "read" /\ attempt[r].bucket = m}
Fresh(m) == {r \in Counted(m) : ~attempt[r].late}
Late(m) == {r \in Counted(m) : attempt[r].late}

ShieldInit ==
    /\ minute = 0
    /\ fails = [m \in Minute |-> 0]
    /\ attempt = [r \in Slot |-> NoAttempt]
    /\ tally = [m \in Minute |-> Clean]

-----------------------------------------------------------------------------
Tick ==
    /\ minute < MaxMinute
    /\ minute' = minute + 1
    /\ UNCHANGED <<fails, attempt, tally>>

\* An attempt computes its key once, and keeps it when the minute turns.
Try(r) ==
    /\ attempt[r].pc = "idle"
    /\ \E right \in BOOLEAN :
           attempt' = [attempt EXCEPT ![r] = [pc |-> "count", bucket |-> minute,
                                              right |-> right, late |-> FALSE]]
    /\ UNCHANGED <<minute, fails, tally>>

\* Mutant: an existing row is not updated.
CountOnce(r) ==
    /\ attempt[r].pc = "count"
    /\ fails[attempt[r].bucket] < MaxAttempts
    /\ fails' = [fails EXCEPT ![attempt[r].bucket] = 1]
    /\ attempt' = [attempt EXCEPT ![r].pc = "read"]
    /\ UNCHANGED <<minute, tally>>

\* INSERT ... ON CONFLICT DO UPDATE SET fails = fails + 1.
Count(r) ==
    /\ attempt[r].pc = "count"
    /\ fails[attempt[r].bucket] < MaxAttempts
    /\ fails' = [fails EXCEPT ![attempt[r].bucket] = @ + 1]
    /\ attempt' = [attempt EXCEPT ![r].pc = "read"]
    /\ UNCHANGED <<minute, tally>>

\* The SELECT answers with more than the limit: 429.
RefuseMore(r) ==
    /\ attempt[r].pc = "read"
    /\ fails[attempt[r].bucket] > Limit
    /\ attempt' = [attempt EXCEPT ![r] = NoAttempt]
    /\ UNCHANGED <<minute, fails, tally>>

LetThrough(r) ==
    /\ attempt[r].pc = "read"
    /\ fails[attempt[r].bucket] <= Limit
    /\ attempt' = [attempt EXCEPT ![r].pc = "judge"]
    /\ tally' = IF attempt[r].late
                THEN [tally EXCEPT ![attempt[r].bucket].lateLet = @ + 1]
                ELSE [tally EXCEPT ![attempt[r].bucket].let = @ + 1]
    /\ UNCHANGED <<minute, fails>>

\* D1 answers one of the two statements with an error: the shield fails open.
ShieldError(r) ==
    /\ attempt[r].pc \in {"count", "read"}
    /\ attempt' = [attempt EXCEPT ![r].pc = "judge"]
    /\ UNCHANGED <<minute, fails, tally>>

\* The pass is compared, or the code looked up.
Judge(r) ==
    /\ attempt[r].pc = "judge"
    /\ attempt' = IF attempt[r].right /\ Resets
                  THEN [attempt EXCEPT ![r].pc = "reset"]
                  ELSE [attempt EXCEPT ![r] = NoAttempt]
    /\ UNCHANGED <<minute, fails, tally>>

\* DELETE FROM pair_fails WHERE ip_window = ?: the attempts between their two
\* statements now read a younger row.
Reset(r) ==
    LET m == attempt[r].bucket IN
    /\ attempt[r].pc = "reset"
    /\ fails' = [fails EXCEPT ![m] = 0]
    /\ tally' = [tally EXCEPT ![m] = [let |-> 0, lateLet |-> 0,
                                      carried |-> Cardinality(Counted(m))]]
    /\ attempt' = [x \in Slot |->
                      IF x = r THEN NoAttempt
                      ELSE IF x \in Counted(m) THEN [attempt[x] EXCEPT !.late = TRUE]
                      ELSE attempt[x]]
    /\ UNCHANGED minute

\* The DELETE failed, and nobody is told.
ResetError(r) ==
    /\ attempt[r].pc = "reset"
    /\ attempt' = [attempt EXCEPT ![r] = NoAttempt]
    /\ UNCHANGED <<minute, fails, tally>>

ShieldNext ==
    \/ Tick
    \/ \E r \in Slot :
          \/ Try(r) \/ Count(r) \/ RefuseMore(r) \/ LetThrough(r) \/ ShieldError(r)
          \/ Judge(r) \/ Reset(r) \/ ResetError(r)

ShieldSpec == ShieldInit /\ [][ShieldNext]_shieldVars

-----------------------------------------------------------------------------
\* The types of the rows, the attempts and the tallies.
ShieldTypeOK ==
    /\ minute \in Minute
    /\ fails \in [Minute -> 0..MaxAttempts]
    /\ attempt \in [Slot -> Attempt]
    /\ tally \in [Minute -> Tally]

\* However the attempts interleave, and whatever minute they end in, the shield of a
\* minute lets at most Limit of them through after each success, and those that the
\* deletion of the row caught between their two statements.
GuessesBounded ==
    \A m \in Minute : tally[m].let + tally[m].lateLet <= Limit + tally[m].carried

\* Why: an attempt is counted before it reads, so the row is never below those it let
\* through and those about to read it.
TallyOK ==
    /\ \A m \in Minute :
        /\ tally[m].let + Cardinality(Fresh(m)) <= fails[m]
        /\ tally[m].let <= Limit
        /\ tally[m].lateLet + Cardinality(Late(m)) <= tally[m].carried
    /\ \A r \in Slot : attempt[r].pc = "count" => ~attempt[r].late

ShieldInv == ShieldTypeOK /\ TallyOK
=============================================================================
