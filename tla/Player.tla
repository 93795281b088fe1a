------------------------------- MODULE Player -------------------------------
(***************************************************************************)
(* player.py: one Player, which several threads may call at a time.        *)
(*                                                                         *)
(* play() and stop() take no lock, so each of their statements that reads  *)
(* or writes the player is a step of its own.  A play() starts a thread    *)
(* that sounds until it sees _stop set, or its file ends.                  *)
(***************************************************************************)
EXTENDS Integers, FiniteSets

CONSTANTS
    Caller,         \* the threads that call the player
    MaxThreads      \* bound on the threads that sound at a time

ASSUME CallerAssumption == IsFiniteSet(Caller)
ASSUME ThreadAssumption == MaxThreads \in Nat \ {0}

VARIABLES
    flag,       \* _playing
    told,       \* _stop
    alive,      \* the threads that sound
    call        \* what each caller is doing

player == <<flag, told, alive, call>>

\* op: the call; at: its next statement.  The stop() inside play() has the same statements.
Idle == [op |-> "none", at |-> "done"]

PlayerInit ==
    /\ flag = FALSE
    /\ told = FALSE
    /\ alive = {}
    /\ call = [c \in Caller |-> Idle]

Begin(c, op) ==
    call' = [call EXCEPT ![c] = [op |-> op, at |-> IF op = "play" THEN "playing?" ELSE "stop?"]]

At(c, p) == call[c].at = p

To(c, p) == call' = [call EXCEPT ![c].at = p]

\* The call is over; its caller goes on with Return(c).
Returned(c, op) == call[c] = [op |-> op, at |-> "done"]

Return(c) == call' = [call EXCEPT ![c] = Idle]

-----------------------------------------------------------------------------
AfterStop(c) == IF call[c].op = "play" THEN "clear" ELSE "done"

\* play() looks whether it must stop something first; so does the stop() it calls.
Playing(c) ==
    /\ At(c, "playing?")
    /\ To(c, IF flag THEN "stop?" ELSE "clear")
    /\ UNCHANGED <<flag, told, alive>>

Stop(c) ==
    /\ At(c, "stop?")
    /\ To(c, IF flag THEN "set" ELSE AfterStop(c))
    /\ UNCHANGED <<flag, told, alive>>

SetStop(c) ==
    /\ At(c, "set")
    /\ told' = TRUE
    /\ To(c, "join")
    /\ UNCHANGED <<flag, alive>>

\* join(2) may give up on a thread that is slow to look at _stop.
Join(c) ==
    /\ At(c, "join")
    /\ To(c, "unset")
    /\ UNCHANGED <<flag, told, alive>>

\* A mutant: stop() clears its event itself.
UnsetClears(c) ==
    /\ At(c, "unset")
    /\ flag' = FALSE
    /\ told' = FALSE
    /\ To(c, AfterStop(c))
    /\ UNCHANGED <<alive>>

Unset(c) ==
    /\ At(c, "unset")
    /\ flag' = FALSE
    /\ To(c, AfterStop(c))
    /\ UNCHANGED <<told, alive>>

FreeThreads == (1 .. MaxThreads) \ alive

ClearStop(c) ==
    /\ At(c, "clear")
    /\ FreeThreads # {}
    /\ told' = FALSE
    /\ To(c, "start")
    /\ UNCHANGED <<flag, alive>>

\* _thread is replaced and started.
StartThread(c) ==
    /\ At(c, "start")
    /\ FreeThreads # {}
    /\ alive' = alive \cup {CHOOSE t \in FreeThreads : \A u \in FreeThreads : t <= u}
    /\ To(c, "mark")
    /\ UNCHANGED <<flag, told>>

Mark(c) ==
    /\ At(c, "mark")
    /\ flag' = TRUE
    /\ To(c, "done")
    /\ UNCHANGED <<told, alive>>

\* _loop: the thread sees _stop.
ThreadStops(t) ==
    /\ t \in alive
    /\ told
    /\ alive' = alive \ {t}
    /\ UNCHANGED <<flag, told, call>>

\* _loop: a file that is played once ends, or no backend plays it.
ThreadEnds(t) ==
    /\ t \in alive
    /\ alive' = alive \ {t}
    /\ UNCHANGED <<flag, told, call>>

CallSteps(c) ==
    \/ Playing(c) \/ Stop(c) \/ SetStop(c) \/ Join(c) \/ Unset(c) \/ ClearStop(c) \/ StartThread(c) \/ Mark(c)

-----------------------------------------------------------------------------
PlayerTypeOK ==
    /\ {flag, told} \subseteq BOOLEAN
    /\ alive \subseteq 1 .. MaxThreads
    /\ call \in [Caller -> [op : {"none", "play", "stop"},
                            at : {"playing?", "stop?", "set", "join", "unset", "clear", "start", "mark", "done"}]]

\* No call is under way.
AtRest == \A c \in Caller : At(c, "done")
=============================================================================
