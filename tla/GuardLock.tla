----------------------------- MODULE GuardLock -----------------------------
(***************************************************************************)
(* One PID file of the laptop, as relay.lock, thief.lock and gate.lock use *)
(* it (guardlock.py), or as guard.lock does (cli.py on Windows).           *)
(*                                                                         *)
(* acquire() and release() look at the file and change it in calls of      *)
(* their own, and write_text() first empties the file: other processes run *)
(* in between.  A process may be killed anywhere, its file stays, and its  *)
(* PID may come back, as another run of the program or as another program. *)
(***************************************************************************)
EXTENDS FiniteSets, Integers

CONSTANTS
    Pid,            \* the process identifiers
    Impls,          \* the implementations considered: see Impl
    MaxCrashes      \* bound on the processes that end inside acquire() or release()

Impl == {"guardlock", "guard"}
None == "none"      \* there is no file
Empty == "empty"    \* the file is there, and no PID in it

ASSUME PidAssumption == None \notin Pid /\ Empty \notin Pid
ASSUME ImplAssumption == Impls \subseteq Impl
ASSUME CrashAssumption == MaxCrashes \in Nat

VARIABLES
    impl,       \* the implementation
    file,       \* what the file says
    at,         \* where the process with this PID is
    seen,       \* what it read of the file
    raced,      \* history: two acquire() overlapped, and what came of it may be there yet
    crashes     \* how many processes ended inside acquire() or release()

lockVars == <<impl, file, at, seen, raced, crashes>>

LockInit ==
    /\ impl \in Impls
    /\ file = None
    /\ at = [p \in Pid |-> "off"]
    /\ seen = [p \in Pid |-> None]
    /\ raced = FALSE
    /\ crashes = 0

At(p, l) == at[p] = l
GoesTo(p, l) == at' = [at EXCEPT ![p] = l]

Acquiring(p) == at[p] \in {"exists?", "read", "alive?", "unlink", "open", "write", "lost"}
Releasing(p) == at[p] \in {"r exists?", "r read", "r unlink"}
Holds(p) == At(p, "held") \/ Releasing(p)

\* _pid_alive, or OpenProcess: any process that has the PID, the caller included.
PidAlive(pid) == pid \in Pid /\ at[pid] # "off"

-----------------------------------------------------------------------------
(* acquire()                                                               *)

\* A process that starts, or one that was refused or has released the lock and tries again:
\* the thief catcher goes on without the lock, and may be armed more than once.
Start(p) ==
    /\ at[p] \in {"off", "refused", "free"}
    /\ GoesTo(p, "exists?")
    /\ raced' = \E q \in Pid : Acquiring(q) \/ (raced /\ Holds(q))
    /\ UNCHANGED <<impl, file, seen, crashes>>

Exists(p) ==
    /\ At(p, "exists?")
    /\ GoesTo(p, IF file = None THEN "open" ELSE "read")
    /\ UNCHANGED <<impl, file, seen, raced, crashes>>

\* The file may be gone by now: guardlock takes that for a stale lock, while the guard's
\* exception ends it (see Dies).
ReadPid(p) ==
    /\ At(p, "read")
    /\ file = None => impl = "guardlock"
    /\ seen' = [seen EXCEPT ![p] = file]
    /\ GoesTo(p, "alive?")
    /\ UNCHANGED <<impl, file, raced, crashes>>

\* A mutant: a lock that names a PID is held, whether the process runs or not.
BusyByFile(p) ==
    /\ At(p, "alive?")
    /\ seen[p] \in Pid
    /\ GoesTo(p, "refused")
    /\ seen' = [seen EXCEPT ![p] = None]
    /\ UNCHANGED <<impl, file, raced, crashes>>

Busy(p) ==
    /\ At(p, "alive?")
    /\ PidAlive(seen[p])
    /\ GoesTo(p, "refused")
    /\ seen' = [seen EXCEPT ![p] = None]
    /\ UNCHANGED <<impl, file, raced, crashes>>

\* A mutant: every lock is taken over.
AnyLock(p) == TRUE

Stale(p) == ~PidAlive(seen[p])

\* A stale lock: guardlock removes the file first, the guard writes over it.
TakeOver(p) ==
    /\ At(p, "alive?")
    /\ Stale(p)
    /\ GoesTo(p, IF impl = "guardlock" THEN "unlink" ELSE "open")
    /\ seen' = [seen EXCEPT ![p] = None]
    /\ UNCHANGED <<impl, file, raced, crashes>>

\* The file goes, whatever it is by now, and with it what others write to it yet.  (Windows
\* refuses that, and the caller's exception ends it.)
Remove(p, l) ==
    /\ file' = None
    /\ at' = [q \in Pid |-> IF q = p THEN l ELSE IF At(q, "write") THEN "lost" ELSE at[q]]

Unlink(p) ==
    /\ At(p, "unlink")
    /\ Remove(p, "open")
    /\ UNCHANGED <<impl, seen, raced, crashes>>

Open(p) ==
    /\ At(p, "open")
    /\ file' = Empty
    /\ GoesTo(p, "write")
    /\ UNCHANGED <<impl, seen, raced, crashes>>

Write(p) ==
    /\ at[p] \in {"write", "lost"}
    /\ file' = IF At(p, "write") THEN p ELSE file
    /\ GoesTo(p, "held")
    /\ UNCHANGED <<impl, seen, raced, crashes>>

-----------------------------------------------------------------------------
(* release()                                                               *)

Release(p) ==
    /\ At(p, "held")
    /\ GoesTo(p, "r exists?")
    /\ UNCHANGED <<impl, file, seen, raced, crashes>>

ReleaseExists(p) ==
    /\ At(p, "r exists?")
    /\ GoesTo(p, IF file = None THEN "free" ELSE "r read")
    /\ UNCHANGED <<impl, file, seen, raced, crashes>>

\* guardlock removes a file without a PID as well; a file that is gone is no error.
Removes(p) == file = p \/ (file \in {None, Empty} /\ impl = "guardlock")

ReleaseRead(p) ==
    /\ At(p, "r read")
    /\ GoesTo(p, IF Removes(p) THEN "r unlink" ELSE "free")
    /\ UNCHANGED <<impl, file, seen, raced, crashes>>

ReleaseUnlink(p) ==
    /\ At(p, "r unlink")
    /\ Remove(p, "free")
    /\ UNCHANGED <<impl, seen, raced, crashes>>

-----------------------------------------------------------------------------
(* The processes.                                                          *)

\* The process exits, crashes, is killed, or a call of its own raises.
Dies(p) ==
    /\ at[p] # "off"
    /\ IF Acquiring(p) \/ Releasing(p)
       THEN crashes < MaxCrashes /\ crashes' = crashes + 1
       ELSE UNCHANGED crashes
    /\ GoesTo(p, "off")
    /\ seen' = [seen EXCEPT ![p] = None]
    /\ UNCHANGED <<impl, file, raced>>

\* Another program gets the PID.
Stranger(p) ==
    /\ At(p, "off")
    /\ GoesTo(p, "stranger")
    /\ UNCHANGED <<impl, file, seen, raced, crashes>>

-----------------------------------------------------------------------------
Call(p) ==
    \/ Exists(p) \/ ReadPid(p) \/ Busy(p) \/ TakeOver(p) \/ Unlink(p) \/ Open(p) \/ Write(p)
    \/ ReleaseExists(p) \/ ReleaseRead(p) \/ ReleaseUnlink(p)

Process(p) == Start(p) \/ Call(p) \/ Release(p) \/ Dies(p) \/ Stranger(p)

LockNext == \E p \in Pid : Process(p)

LockSpec == LockInit /\ [][LockNext]_lockVars

\* A call that was begun goes on; nobody has to start, release or end.
FairLockSpec == LockSpec /\ \A p \in Pid : WF_lockVars(Call(p))

-----------------------------------------------------------------------------
Label == {"off", "stranger", "exists?", "read", "alive?", "unlink", "open", "write",
          "lost", "held", "r exists?", "r read", "r unlink", "free", "refused"}

LockTypeOK ==
    /\ impl \in Impl
    /\ file \in Pid \cup {None, Empty}
    /\ at \in [Pid -> Label]
    /\ seen \in [Pid -> Pid \cup {None, Empty}]
    /\ raced \in BOOLEAN
    /\ crashes \in 0 .. MaxCrashes

\* Unless two starts overlapped, one process at most acquires the lock, ...
OneStarter == ~raced => \A p, q \in Pid : Acquiring(p) /\ Acquiring(q) => p = q

\* ... the file names whoever holds it, so that one process at most does, ...
HolderNamed == ~raced => \A p \in Pid : Holds(p) => file = p

\* ... and who is about to take it over has seen that nobody does.
TakesFree ==
    ~raced => \A p, q \in Pid : Acquiring(p) /\ Holds(q) =>
                    /\ at[p] \in {"exists?", "read", "alive?"}
                    /\ At(p, "alive?") => seen[p] = q

\* A start that writes its PID writes it to the file that is there.
WritesItsFile == ~raced => \A p \in Pid : ~At(p, "lost")

\* One relay listener, one guard, one source of the alarm: after crashes, stale locks and
\* releases in any order, in all behaviours in which no two processes acquire the lock at
\* the same time.
LockInv == LockTypeOK /\ OneStarter /\ HolderNamed /\ TakesFree /\ WritesItsFile

\* "A lock whose PID is no longer running is STALE and may be taken over, so a crashed
\* process never wedges the next start" (guardlock.py): when the crashes are over, then
\* however starts race each other one of them gets the lock, unless it is asked to end or
\* the PID of the crashed process is in use again.
Reused == PidAlive(file) /\ ~Holds(file)

NeverWedged ==
    \A p \in Pid :
        crashes = MaxCrashes /\ At(p, "exists?")
            ~> (\E q \in Pid : Holds(q)) \/ Reused \/ At(p, "off")
=============================================================================
