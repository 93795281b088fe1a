------------------------- MODULE ThiefCatcherProofs -------------------------
(***************************************************************************)
(* Proofs about ThiefCatcher, for every configuration, any number of       *)
(* catchers, gates and failures: however the two _disarm(), the trigger    *)
(* and the watchers of the gates interleave, a catcher that was told to    *)
(* stop leaves nothing behind.                                             *)
(***************************************************************************)
EXTENDS ThiefCatcher, FiniteSetTheorems, TLAPS

\* TypeOK without the two Boolean variables.
Shapes ==
    /\ cfg \in Config
    /\ lockFile \in {"none", "dead", "other", "us"}
    /\ lid \in {"user", "nothing"}
    /\ siren \subseteq 1 .. arms
    /\ catcher \in [stop : BOOLEAN, armed : BOOLEAN, active : BOOLEAN, lock : BOOLEAN,
                    hold : BOOLEAN, oldLid : BOOLEAN, gate : SUBSET Gate]
    /\ loop \in [was : BOOLEAN, fails : 0 .. MaxFailures,
                 from : {"none", "grace", "loop", "blind"}]
    /\ pc \in [loop : LoopState \cup DisarmState, ui : UiState \cup DisarmState]
    /\ gate \in [Gate -> [at : GateState, arm : 0 .. MaxArms]]
    /\ gateLock \in {"none", "dead", "us"}
    /\ arms \in 0 .. MaxArms
    /\ faults \in 0 .. MaxFaults
    /\ known \in [left : BOOLEAN, lidLost : BOOLEAN, cut : BOOLEAN, raised : BOOLEAN]

Flow == LockIsHeld /\ ShownDisarmed /\ Placed /\ Cleaned /\ LockedLate /\ Console /\ LidKnown /\ OwnSiren

\* With one siren at most, that of the current catcher, there is no second one.
LEMMA Parts == ThiefInv <=> TypeOK /\ Flow
<1>1. ASSUME OwnSiren PROVE OneSiren
  <2>1. Cardinality({}) = 0 /\ Cardinality({arms}) = 1
    BY FS_EmptySet, FS_Singleton
  <2>2. CASE siren \subseteq {arms}
    <3>1. siren = {} \/ siren = {arms}
      BY <2>2
    <3>2. QED
      BY <2>1, <3>1 DEF OneSiren
  <2>3. CASE known.left
    BY <2>3 DEF OneSiren
  <2>4. QED
    BY <1>1, <2>2, <2>3 DEF OwnSiren
<1>2. QED
  BY <1>1 DEF ThiefInv, Flow

LEMMA PartsNext == TypeOK' /\ Flow' => ThiefInv'
BY Parts, PTL

LEMMA LoopUpdates ==
    ASSUME Shapes, NEW n \in 0 .. MaxFailures
    PROVE  LET Type == [was : BOOLEAN, fails : 0 .. MaxFailures,
                        from : {"none", "grace", "loop", "blind"}]
           IN  /\ [loop EXCEPT !.fails = n] \in Type
               /\ \A f \in {"none", "grace", "loop", "blind"} :
                     [loop EXCEPT !.fails = n, !.from = f] \in Type
               /\ \A w \in BOOLEAN : [loop EXCEPT !.fails = n, !.was = w] \in Type
<1> DEFINE Fails == 0 .. MaxFailures
           From == {"none", "grace", "loop", "blind"}
<1>1. loop \in [was : BOOLEAN, fails : Fails, from : From] /\ n \in Fails
  BY DEF Shapes
<1> HIDE DEF Fails, From
<1>2. [loop EXCEPT !.fails = n] \in [was : BOOLEAN, fails : Fails, from : From]
  BY <1>1
<1>3. ASSUME NEW f \in From
      PROVE  [loop EXCEPT !.fails = n, !.from = f] \in [was : BOOLEAN, fails : Fails, from : From]
  BY <1>1, <1>3
<1>4. ASSUME NEW w \in BOOLEAN
      PROVE  [loop EXCEPT !.fails = n, !.was = w] \in [was : BOOLEAN, fails : Fails, from : From]
  BY <1>1, <1>4
<1>5. QED
  BY <1>2, <1>3, <1>4 DEF Fails, From

LEMMA LoopErrors ==
    ASSUME Shapes, LoopError
    PROVE  /\ loop' \in [was : BOOLEAN, fails : 0 .. MaxFailures,
                         from : {"none", "grace", "loop", "blind"}]
           /\ \E p \in {"play", "sleep"} : Go("loop", p)
<1> DEFINE n == IF loop.fails < MaxFailures THEN loop.fails + 1 ELSE loop.fails
           f == IF Blind(loop.fails + 1) THEN "blind" ELSE loop.from
<1>1. n \in 0 .. MaxFailures /\ f \in {"none", "grace", "loop", "blind"}
  BY BoundAssumption DEF Shapes
<1>2. loop' = [loop EXCEPT !.fails = n, !.from = f]
  BY DEF LoopError
<1> HIDE DEF n, f
<1>3. QED
  BY <1>1, <1>2 DEF Shapes, LoopError

\* The type invariant is kept by every step.
Lights == {plug, bus} \subseteq BOOLEAN

LEMMA TypeParts == TypeOK <=> Shapes /\ Lights
BY DEF TypeOK, Shapes, Lights

LEMMA BeginsTypes ==
    ASSUME Shapes, ArmDesktop \/ ArmConsole
    PROVE  Shapes'
<1>1. PICK u \in {"started", "console"}, c \in BOOLEAN : Begins(u, c)
  BY DEF ArmDesktop, ArmConsole
<1>2. arms' \in 0 .. MaxArms /\ siren' \subseteq 1 .. arms'
  BY <1>1, BoundAssumption DEF Shapes, Begins
<1>3. loop' \in [was : BOOLEAN, fails : 0 .. MaxFailures, from : {"none", "grace", "loop", "blind"}]
  BY <1>1, BoundAssumption DEF Shapes, Begins, NoLoop
<1>4. /\ catcher' \in [stop : BOOLEAN, armed : BOOLEAN, active : BOOLEAN, lock : BOOLEAN,
                       hold : BOOLEAN, oldLid : BOOLEAN, gate : SUBSET Gate]
      /\ pc' \in [loop : LoopState \cup DisarmState, ui : UiState \cup DisarmState]
      /\ known' \in [left : BOOLEAN, lidLost : BOOLEAN, cut : BOOLEAN, raised : BOOLEAN]
  BY <1>1 DEF Shapes, Begins, NewCatcher, LoopState, UiState
<1>5. UNCHANGED <<cfg, plug, lid, lockFile, gate, gateLock, faults>>
  BY <1>1 DEF Begins, machine, gates
<1>6. QED
  BY <1>2, <1>3, <1>4, <1>5 DEF Shapes

LEMMA ArmingTypes ==
    ASSUME Shapes, ArmRefused \/ ArmAccepted \/ AcquireThiefLock \/ HoldAwake \/ SetLid
                   \/ GraceEnds \/ Reread, plug \in BOOLEAN
    PROVE  Shapes'
<1> USE DEF LoopState, DisarmState, UiState, Go, At
<1>1. CASE ArmRefused
  <2>1. pc' \in [loop : LoopState \cup DisarmState, ui : UiState \cup DisarmState]
    BY <1>1 DEF Shapes, ArmRefused
  <2>2. UNCHANGED <<cfg, plug, lid, lockFile, siren, catcher, loop, gate, gateLock, arms,
                    faults, known>>
    BY <1>1 DEF ArmRefused, machine, gates
  <2>3. QED
    BY <2>1, <2>2 DEF Shapes
<1>2. CASE ArmAccepted
  <2>1. catcher' \in [stop : BOOLEAN, armed : BOOLEAN, active : BOOLEAN, lock : BOOLEAN,
                      hold : BOOLEAN, oldLid : BOOLEAN, gate : SUBSET Gate]
    BY <1>2 DEF Shapes, ArmAccepted
  <2>2. loop' \in [was : BOOLEAN, fails : 0 .. MaxFailures,
                   from : {"none", "grace", "loop", "blind"}]
    BY <1>2 DEF Shapes, ArmAccepted
  <2>3. pc' \in [loop : LoopState \cup DisarmState, ui : UiState \cup DisarmState]
    BY <1>2 DEF Shapes, ArmAccepted
  <2>4. UNCHANGED <<cfg, plug, lid, lockFile, siren, gate, gateLock, arms, faults, known>>
    BY <1>2 DEF ArmAccepted, machine, gates
  <2>5. QED
    BY <2>1, <2>2, <2>3, <2>4 DEF Shapes
<1>3. CASE AcquireThiefLock
  <2>1. /\ catcher' \in [stop : BOOLEAN, armed : BOOLEAN, active : BOOLEAN, lock : BOOLEAN,
                         hold : BOOLEAN, oldLid : BOOLEAN, gate : SUBSET Gate]
        /\ lockFile' \in {"none", "dead", "other", "us"}
    <3>1. CASE catcher' = catcher /\ lockFile' = lockFile
      BY <3>1 DEF Shapes
    <3>2. CASE catcher' = [catcher EXCEPT !.lock = TRUE] /\ lockFile' = "us"
      BY <3>2 DEF Shapes
    <3>3. QED
      BY <1>3, <3>1, <3>2 DEF AcquireThiefLock
  <2>2. QED
    BY <1>3, <2>1 DEF Shapes, AcquireThiefLock, gates
<1>4. CASE HoldAwake
  <2>1. cfg.windows \in BOOLEAN
    BY DEF Shapes, Config
  <2>2. catcher' \in [stop : BOOLEAN, armed : BOOLEAN, active : BOOLEAN, lock : BOOLEAN,
                      hold : BOOLEAN, oldLid : BOOLEAN, gate : SUBSET Gate]
    BY <1>4, <2>1 DEF Shapes, HoldAwake
  <2>3. QED
    BY <1>4, <2>2 DEF Shapes, HoldAwake, machine, gates
<1>5. CASE SetLid
  <2>1. /\ catcher' \in [stop : BOOLEAN, armed : BOOLEAN, active : BOOLEAN, lock : BOOLEAN,
                         hold : BOOLEAN, oldLid : BOOLEAN, gate : SUBSET Gate]
        /\ lid' \in {"user", "nothing"}
        /\ known' \in [left : BOOLEAN, lidLost : BOOLEAN, cut : BOOLEAN, raised : BOOLEAN]
    BY <1>5 DEF Shapes, SetLid
  <2>2. faults' \in 0 .. MaxFaults
    BY <1>5, BoundAssumption DEF Shapes, SetLid, Fault
  <2>3. QED
    BY <1>5, <2>1, <2>2 DEF Shapes, SetLid, gates
<1>6. CASE GraceEnds
  BY <1>6 DEF Shapes, GraceEnds, machine, gates
<1>7. CASE Reread
  <2>1. PICK now \in BOOLEAN : loop' = [loop EXCEPT !.was = now, !.from = "grace"]
    BY <1>7 DEF Reread
  <2>2. loop' \in [was : BOOLEAN, fails : 0 .. MaxFailures,
                      from : {"none", "grace", "loop", "blind"}]
    BY <2>1 DEF Shapes
  <2>3. \E q \in {"play", "poll"} : Go("loop", q)
    BY <1>7 DEF Reread
  <2>4. QED
    BY <1>7, <2>2, <2>3 DEF Shapes, Reread, machine, gates
<1>8. QED
  BY <1>1, <1>2, <1>3, <1>4, <1>5, <1>6, <1>7

LEMMA PollTypes ==
    ASSUME Shapes, PollStopped \/ PollFails \/ PollReads \/ Sleep, plug \in BOOLEAN
    PROVE  Shapes'
<1> USE DEF LoopState, DisarmState, UiState, Go, At
<1>1. CASE PollStopped
  BY <1>1 DEF Shapes, PollStopped, machine, gates
<1>2. CASE PollFails
  BY <1>2, LoopErrors DEF Shapes, PollFails, machine, gates
<1>3. CASE PollReads
  <2>0. 0 \in 0 .. MaxFailures
    BY BoundAssumption
  <2>1. loop' \in [was : BOOLEAN, fails : 0 .. MaxFailures,
                   from : {"none", "grace", "loop", "blind"}]
    <3>1. CASE loop' = [loop EXCEPT !.fails = 0, !.from = "loop"]
      BY <2>0, <3>1, LoopUpdates
    <3>2. CASE loop' = [loop EXCEPT !.fails = 0]
      BY <2>0, <3>2, LoopUpdates
    <3>3. CASE loop' = [loop EXCEPT !.fails = 0, !.was = plug]
      <4>1. [loop EXCEPT !.fails = 0, !.was = plug]
               \in [was : BOOLEAN, fails : 0 .. MaxFailures,
                    from : {"none", "grace", "loop", "blind"}]
        BY <2>0, LoopUpdates
      <4>2. QED
        BY <3>3, <4>1
    <3>4. QED
      <4>1. \/ loop' = [loop EXCEPT !.fails = 0, !.from = "loop"]
            \/ loop' = [loop EXCEPT !.fails = 0]
            \/ loop' = [loop EXCEPT !.fails = 0, !.was = plug]
        BY <1>3 DEF PollReads
      <4>2. QED
        BY <4>1, <3>1, <3>2, <3>3
  <2>2. \E q \in {"play", "s_siren", "sleep"} : Go("loop", q)
    BY <1>3 DEF PollReads
  <2>3. QED
    BY <1>3, <2>1, <2>2 DEF Shapes, PollReads, machine, gates
<1>4. CASE Sleep
  BY <1>4 DEF Shapes, Sleep, machine, gates
<1>5. QED
  BY <1>1, <1>2, <1>3, <1>4

LEMMA TriggerTypes ==
    ASSUME Shapes, PlaySiren \/ SpawnGate \/ ChooseChannel \/ Tell \/ SetActive \/ TriggerRaises,
           pc.loop # "off" => arms > 0
    PROVE  Shapes'
<1> USE DEF LoopState, DisarmState, UiState, Go, At
<1>1. CASE PlaySiren
  <2>0. arms > 0
    BY <1>1 DEF PlaySiren
  <2>1. siren' \subseteq 1 .. arms
    <3>1. siren \subseteq 1 .. arms /\ arms \in 1 .. arms
      BY <2>0, BoundAssumption DEF Shapes
    <3>2. siren' \subseteq siren \cup {arms}
      BY <1>1 DEF PlaySiren
    <3>3. QED
      BY <3>1, <3>2
  <2>2. QED
    BY <1>1, <2>1 DEF Shapes, PlaySiren, machine, gates
<1>2. CASE SpawnGate
  <2>1. /\ gate' \in [Gate -> [at : GateState, arm : 0 .. MaxArms]]
        /\ gateLock' \in {"none", "dead", "us"}
        /\ catcher' \in [stop : BOOLEAN, armed : BOOLEAN, active : BOOLEAN, lock : BOOLEAN,
                         hold : BOOLEAN, oldLid : BOOLEAN, gate : SUBSET Gate]
    BY <1>2 DEF Shapes, SpawnGate, GateState
  <2>2. QED
    BY <1>2, <2>1 DEF Shapes, SpawnGate, machine
<1>3. CASE ChooseChannel
  BY <1>3 DEF Shapes, ChooseChannel, machine, gates
<1>4. CASE Tell
  BY <1>4 DEF Shapes, Tell, machine, gates
<1>5. CASE SetActive
  <2>1. catcher' \in [stop : BOOLEAN, armed : BOOLEAN, active : BOOLEAN, lock : BOOLEAN,
                         hold : BOOLEAN, oldLid : BOOLEAN, gate : SUBSET Gate]
    BY <1>5 DEF Shapes, SetActive
  <2>2. loop' \in [was : BOOLEAN, fails : 0 .. MaxFailures,
                      from : {"none", "grace", "loop", "blind"}]
    BY <1>5 DEF Shapes, SetActive
  <2>3. \E q \in {"poll", "sleep"} : Go("loop", q)
    BY <1>5 DEF SetActive
  <2>4. QED
    BY <1>5, <2>1, <2>2, <2>3 DEF Shapes, SetActive, machine, gates
<1>6. CASE TriggerRaises
  <2>1. /\ loop' \in [was : BOOLEAN, fails : 0 .. MaxFailures,
                      from : {"none", "grace", "loop", "blind"}]
        /\ \E p \in {"play", "sleep", "ending"} : Go("loop", p)
    BY <1>6, LoopErrors DEF Shapes, TriggerRaises
  <2>2. QED
    BY <1>6, <2>1, BoundAssumption DEF Shapes, TriggerRaises, Fault, machine, gates
<1>7. QED
  BY <1>1, <1>2, <1>3, <1>4, <1>5, <1>6

LEMMA ReplugTypes ==
    ASSUME Shapes, ReplugSilences \/ ReplugEnds \/ Interrupt \/ Disarm
    PROVE  Shapes'
<1> USE DEF LoopState, DisarmState, UiState, Go, At
<1>1. CASE ReplugSilences
  BY <1>1 DEF Shapes, ReplugSilences, StopSiren, machine, gates
<1>2. CASE ReplugEnds
  <2>1. catcher' \in [stop : BOOLEAN, armed : BOOLEAN, active : BOOLEAN, lock : BOOLEAN,
                         hold : BOOLEAN, oldLid : BOOLEAN, gate : SUBSET Gate]
    BY <1>2 DEF Shapes, ReplugEnds
  <2>2. loop' \in [was : BOOLEAN, fails : 0 .. MaxFailures,
                   from : {"none", "grace", "loop", "blind"}]
    BY <1>2 DEF Shapes, ReplugEnds
  <2>3. pc' \in [loop : LoopState \cup DisarmState, ui : UiState \cup DisarmState]
    BY <1>2 DEF Shapes, ReplugEnds
  <2>4. QED
    BY <1>2, <2>1, <2>2, <2>3 DEF Shapes, ReplugEnds, machine, gates
<1>3. CASE Interrupt
  BY <1>3 DEF Shapes, Interrupt, machine, gates
<1>4. CASE Disarm
  <2>1. catcher' \in [stop : BOOLEAN, armed : BOOLEAN, active : BOOLEAN, lock : BOOLEAN,
                         hold : BOOLEAN, oldLid : BOOLEAN, gate : SUBSET Gate]
    BY <1>4 DEF Shapes, Disarm
  <2>2. QED
    BY <1>4, <2>1 DEF Shapes, Disarm, machine, gates
<1>5. QED
  BY <1>1, <1>2, <1>3, <1>4

LEMMA DisarmTypes ==
    ASSUME Shapes, NEW t \in Thread, ThreadDisarms(t)
    PROVE  Shapes'
<1> USE DEF LoopState, DisarmState, UiState, Go, At, Thread
<1>1. CASE DisarmHold(t)
  BY <1>1 DEF Shapes, DisarmHold, machine, gates
<1>2. CASE DisarmJoin(t)
  <2>1. catcher' \in [stop : BOOLEAN, armed : BOOLEAN, active : BOOLEAN, lock : BOOLEAN,
                         hold : BOOLEAN, oldLid : BOOLEAN, gate : SUBSET Gate]
    BY <1>2 DEF Shapes, DisarmJoin
  <2>2. \/ Go("loop", "d_lid") \/ Go("ui", "d_lid") \/ Go("ui", "u_join") \/ Go("loop", "ending")
    BY <1>2 DEF DisarmJoin
  <2>3. QED
    BY <1>2, <2>1, <2>2 DEF Shapes, DisarmJoin, machine, gates
<1>3. CASE DisarmLid(t)
  <2>1. /\ catcher' \in [stop : BOOLEAN, armed : BOOLEAN, active : BOOLEAN, lock : BOOLEAN,
                         hold : BOOLEAN, oldLid : BOOLEAN, gate : SUBSET Gate]
        /\ lid' \in {"user", "nothing"}
        /\ known' \in [left : BOOLEAN, lidLost : BOOLEAN, cut : BOOLEAN, raised : BOOLEAN]
    BY <1>3 DEF Shapes, DisarmLid
  <2>2. faults' \in 0 .. MaxFaults
    BY <1>3, BoundAssumption DEF Shapes, DisarmLid, Fault
  <2>3. Go("loop", "d_siren") \/ Go("ui", "d_siren")
    BY <1>3 DEF DisarmLid
  <2>4. QED
    BY <1>3, <2>1, <2>2, <2>3 DEF Shapes, DisarmLid, gates
<1>4. CASE DisarmSiren(t)
  <2>1. /\ catcher' \in [stop : BOOLEAN, armed : BOOLEAN, active : BOOLEAN, lock : BOOLEAN,
                         hold : BOOLEAN, oldLid : BOOLEAN, gate : SUBSET Gate]
        /\ gate' \in [Gate -> [at : GateState, arm : 0 .. MaxArms]]
    BY <1>4 DEF Shapes, DisarmSiren, GateState
  <2>2. /\ siren' \subseteq siren
        /\ Go("loop", "d_end") \/ Go("ui", "d_end")
    BY <1>4 DEF DisarmSiren, StopSiren
  <2>3. QED
    BY <1>4, <2>1, <2>2 DEF Shapes, DisarmSiren, machine
<1>5. CASE DisarmEnd(t)
  <2>1. /\ catcher' \in [stop : BOOLEAN, armed : BOOLEAN, active : BOOLEAN, lock : BOOLEAN,
                         hold : BOOLEAN, oldLid : BOOLEAN, gate : SUBSET Gate]
        /\ lockFile' \in {"none", "dead", "other", "us"}
    BY <1>5 DEF Shapes, DisarmEnd
  <2>2. Go("ui", "u_join") \/ Go("loop", "ending")
    BY <1>5 DEF DisarmEnd
  <2>3. QED
    BY <1>5, <2>1, <2>2 DEF Shapes, DisarmEnd, gates
<1>6. QED
  BY <1>1, <1>2, <1>3, <1>4, <1>5 DEF ThreadDisarms

LEMMA OutsideTypes ==
    ASSUME Shapes,
           \/ Publish \/ UiJoined \/ LoopEnds \/ ProcessExits \/ Charger
           \/ \E g \in Gate : GatePassed(g) \/ GateFailed(g) \/ WatcherSilences(g)
    PROVE  Shapes'
<1> USE DEF LoopState, DisarmState, UiState, Go, At
<1>1. CASE Publish
  BY <1>1 DEF Shapes, Publish, machine, gates
<1>2. CASE UiJoined
  BY <1>2 DEF Shapes, UiJoined, machine, gates
<1>3. CASE LoopEnds
  BY <1>3 DEF Shapes, LoopEnds, machine, gates
<1>4. CASE ProcessExits
  <2>1. /\ gate' \in [Gate -> [at : GateState, arm : 0 .. MaxArms]]
        /\ gateLock' \in {"none", "dead", "us"}
        /\ lockFile' \in {"none", "dead", "other", "us"}
    BY <1>4 DEF Shapes, ProcessExits, GateState
  <2>2. known' \in [left : BOOLEAN, lidLost : BOOLEAN, cut : BOOLEAN, raised : BOOLEAN]
    BY <1>4 DEF Shapes, ProcessExits
  <2>3. QED
    BY <1>4, <2>1, <2>2 DEF Shapes, ProcessExits
<1>5. CASE Charger
  BY <1>5 DEF Shapes, Charger, gates
<1>6. CASE \E g \in Gate : GatePassed(g) \/ GateFailed(g) \/ WatcherSilences(g)
  <2>1. PICK g \in Gate : GatePassed(g) \/ GateFailed(g) \/ WatcherSilences(g)
    BY <1>6
  <2>2. gate' \in [Gate -> [at : GateState, arm : 0 .. MaxArms]]
    BY <2>1 DEF Shapes, GatePassed, GateFailed, WatcherSilences, GateState
  <2>3. QED
    BY <2>1, <2>2 DEF Shapes, GatePassed, GateFailed, WatcherSilences, machine
<1>7. QED
  BY <1>1, <1>2, <1>3, <1>4, <1>5, <1>6

\* The type invariant is kept by every step.
LEMMA TypeStep ==
    ASSUME TypeOK, Placed, Next
    PROVE  TypeOK'
<1>1. Shapes /\ Lights
  BY TypeParts
<1>2. pc.loop # "off" => arms > 0
  BY DEF Placed, At
<1>3. plug \in BOOLEAN
  BY <1>1 DEF Lights
<1>4. Shapes'
  BY <1>1, <1>2, <1>3, BeginsTypes, ArmingTypes, PollTypes, TriggerTypes, ReplugTypes,
     DisarmTypes, OutsideTypes DEF Next, Loop, Ui, Watcher, Thread
<1>5. Lights'
  <2>1. CASE LoopEnds
    BY <1>1, <2>1 DEF Lights, LoopEnds, machine, Shapes
  <2>2. CASE Charger \/ Publish \/ UiJoined
    BY <1>1, <2>2 DEF Lights, Charger, Publish, UiJoined, machine
  <2>3. CASE plug' = plug /\ bus' = bus
    BY <1>1, <2>3 DEF Lights
  <2>4. CASE ArmDesktop \/ ArmConsole \/ Disarm \/ Interrupt \/ ProcessExits
    BY <2>3, <2>4 DEF ArmDesktop, ArmConsole, Begins, Disarm, Interrupt, ProcessExits, machine
  <2>5. ASSUME NEW t \in Thread, ThreadDisarms(t) PROVE plug' = plug /\ bus' = bus
    BY <2>5 DEF ThreadDisarms, DisarmHold, DisarmJoin, DisarmLid, DisarmSiren, DisarmEnd, machine
  <2>6. CASE \/ ArmRefused \/ ArmAccepted \/ AcquireThiefLock \/ HoldAwake \/ SetLid \/ GraceEnds
             \/ Reread \/ PollStopped \/ PollFails \/ PollReads \/ Sleep
    BY <2>3, <2>6 DEF ArmRefused, ArmAccepted, AcquireThiefLock, HoldAwake, SetLid, GraceEnds,
       Reread, PollStopped, PollFails, PollReads, Sleep, machine
  <2>7. CASE \/ PlaySiren \/ SpawnGate \/ ChooseChannel \/ Tell \/ SetActive \/ TriggerRaises
             \/ ReplugSilences \/ ReplugEnds
    BY <2>3, <2>7 DEF PlaySiren, SpawnGate, ChooseChannel, Tell, SetActive, TriggerRaises,
       ReplugSilences, ReplugEnds, machine
  <2>8. CASE \E g \in Gate : GatePassed(g) \/ GateFailed(g) \/ Watcher(g)
    BY <2>3, <2>8 DEF GatePassed, GateFailed, Watcher, WatcherSilences, machine
  <2>9. QED
    BY <2>1, <2>2, <2>3, <2>4, <2>5, <2>6, <2>7, <2>8 DEF Next, Loop, Ui, Thread
<1>6. QED
  BY <1>4, <1>5 DEF TypeOK, Shapes, Lights

-----------------------------------------------------------------------------
(* The rest of the invariant: a lemma per way a thread moves on.           *)

\* What a step of the loop changes while it monitors.
LoopMoves(q) ==
    /\ pc' = [pc EXCEPT !["loop"] = q]
    /\ cfg' = cfg /\ arms' = arms /\ bus' = bus
    /\ catcher'.stop = catcher.stop /\ catcher'.armed = catcher.armed
    /\ known'.left = known.left /\ known'.raised = known.raised

\* The loop goes on monitoring.
LEMMA LoopWorks ==
    ASSUME Shapes, Flow, pc.loop \in Monitoring, NEW q \in Monitoring, LoopMoves(q),
           siren' \subseteq siren \cup {arms},
           catcher.hold => catcher'.hold \/ q = "lid",
           catcher.lock => catcher'.lock,
           catcher'.lock => catcher.lock \/ q = "hold",
           lockFile' = "us" => lockFile = "us" \/ catcher'.lock,
           catcher.stop /\ pc.loop \in {"hold", "lid", "grace"} => q \in {"hold", "lid", "grace"},
           LidKnown'
    PROVE  Flow'
<1>1. pc'.loop = q /\ pc'.ui = pc.ui
  BY DEF Shapes, LoopMoves
<1> USE <1>1 DEF Flow, LoopMoves, At, Sure, Monitoring, LoopState, DisarmState
<1>2. LockIsHeld'
  BY DEF LockIsHeld
<1>3. ShownDisarmed'
  BY DEF ShownDisarmed
<1>4. Placed'
  BY DEF Placed
<1>5. Cleaned'
  BY DEF Cleaned, Cleans
<1>6. LockedLate'
  BY DEF LockedLate
<1>7. Console'
  BY DEF Console
<1>8. OwnSiren'
  BY DEF OwnSiren
<1>9. QED
  BY <1>2, <1>3, <1>4, <1>5, <1>6, <1>7, <1>8

\* The loop turns to its _disarm().
LEMMA LoopLeaves ==
    ASSUME Shapes, Flow, pc.loop \in Monitoring, LoopMoves("d_hold"),
           siren' = siren, catcher' = catcher, lockFile' = lockFile, lid' = lid, known' = known,
           cfg.gui => catcher.stop
    PROVE  Flow'
<1>1. pc'.loop = "d_hold" /\ pc'.ui = pc.ui
  BY DEF Shapes, LoopMoves
<1> USE <1>1 DEF Flow, LoopMoves, At, Sure, Monitoring, LoopState, DisarmState
<1>2. LockIsHeld'
  BY DEF LockIsHeld
<1>3. ShownDisarmed'
  BY DEF ShownDisarmed
<1>4. Placed'
  BY DEF Placed
<1>5. Cleaned'
  BY DEF Cleaned, Cleans, ToSiren, ToLid, ToJoin
<1>6. LockedLate'
  BY DEF LockedLate
<1>7. Console'
  BY DEF Console, ToLid, ToJoin
<1>8. OwnSiren' /\ LidKnown'
  BY DEF OwnSiren, LidKnown
<1>9. QED
  BY <1>2, <1>3, <1>4, <1>5, <1>6, <1>7, <1>8

\* The five steps of _disarm(), on either thread.
LEMMA JoinStep ==
    ASSUME Shapes, Flow, NEW t \in Thread, DisarmHold(t) \/ DisarmJoin(t)
    PROVE  Flow'
<1> USE DEF Flow, At, Go, Sure, Monitoring, LoopState, DisarmState
<1>1. /\ cfg' = cfg /\ arms' = arms /\ bus' = bus /\ known' = known /\ siren' = siren
      /\ lockFile' = lockFile /\ lid' = lid
      /\ catcher'.stop = catcher.stop /\ catcher'.armed = catcher.armed
      /\ catcher'.active = catcher.active /\ catcher'.lock = catcher.lock
      /\ catcher'.oldLid = catcher.oldLid
  BY DEF DisarmHold, DisarmJoin, machine, Shapes
<1>2. \/ pc[t] = "d_hold" /\ catcher.hold /\ pc' = [pc EXCEPT ![t] = "d_join"] /\ catcher' = catcher
      \/ pc[t] = "d_hold" /\ ~catcher.hold /\ pc' = [pc EXCEPT ![t] = "d_lid"] /\ catcher' = catcher
      \/ pc[t] = "d_join" /\ pc' = [pc EXCEPT ![t] = "d_lid"] /\ ~catcher'.hold
      \/ /\ pc[t] = "d_join" /\ ~catcher.hold /\ ~catcher'.hold
         /\ pc' = [pc EXCEPT ![t] = IF t = "ui" THEN "u_join" ELSE "ending"]
  BY DEF DisarmHold, DisarmJoin, Shapes
<1>3. CASE t = "loop"
  <2>1. /\ pc'.ui = pc.ui
        /\ \/ pc.loop = "d_hold" /\ catcher.hold /\ pc'.loop = "d_join" /\ catcher' = catcher
           \/ pc.loop = "d_hold" /\ ~catcher.hold /\ pc'.loop = "d_lid" /\ catcher' = catcher
           \/ pc.loop = "d_join" /\ pc'.loop = "d_lid" /\ ~catcher'.hold
           \/ pc.loop = "d_join" /\ ~catcher.hold /\ ~catcher'.hold /\ pc'.loop = "ending"
    BY <1>2, <1>3 DEF Shapes
  <2>2. LockIsHeld'
    BY <1>1, <2>1 DEF LockIsHeld
  <2>3. ShownDisarmed'
    BY <1>1, <2>1 DEF ShownDisarmed
  <2>4. Placed'
    BY <1>1, <2>1 DEF Placed, Blank
  <2>5. Cleaned'
    BY <1>1, <2>1 DEF Cleaned, Cleans, ToSiren, ToLid, ToJoin
  <2>6. LockedLate'
    BY <1>1, <2>1 DEF LockedLate
  <2>7. Console'
    BY <1>1, <2>1 DEF Console, Placed, Blank, ToLid, ToJoin
  <2>8. LidKnown' /\ OwnSiren'
    BY <1>1, <2>1 DEF LidKnown, OwnSiren
  <2>9. QED
    BY <2>2, <2>3, <2>4, <2>5, <2>6, <2>7, <2>8
<1>4. CASE t = "ui"
  <2>1. /\ pc'.loop = pc.loop
        /\ \/ pc.ui = "d_hold" /\ catcher.hold /\ pc'.ui = "d_join" /\ catcher' = catcher
           \/ pc.ui = "d_hold" /\ ~catcher.hold /\ pc'.ui = "d_lid" /\ catcher' = catcher
           \/ pc.ui = "d_join" /\ pc'.ui = "d_lid" /\ ~catcher'.hold
           \/ pc.ui = "d_join" /\ ~catcher.hold /\ ~catcher'.hold /\ pc'.ui = "u_join"
    BY <1>2, <1>4 DEF Shapes
  <2>2. LockIsHeld'
    BY <1>1, <2>1 DEF LockIsHeld
  <2>3. ShownDisarmed'
    BY <1>1, <2>1 DEF ShownDisarmed
  <2>4. Placed'
    BY <1>1, <2>1 DEF Placed, Blank
  <2>5. Cleaned'
    BY <1>1, <2>1 DEF Cleaned, Cleans, ToSiren, ToLid, ToJoin
  <2>6. LockedLate'
    BY <1>1, <2>1 DEF LockedLate
  <2>7. Console'
    BY <1>1, <2>1 DEF Console, Placed, Blank, ToLid, ToJoin
  <2>8. LidKnown' /\ OwnSiren'
    BY <1>1, <2>1 DEF LidKnown, OwnSiren
  <2>9. QED
    BY <2>2, <2>3, <2>4, <2>5, <2>6, <2>7, <2>8
<1>5. QED
  BY <1>3, <1>4 DEF Thread

LEMMA LidStep ==
    ASSUME Shapes, Flow, NEW t \in Thread, DisarmLid(t)
    PROVE  Flow'
<1> USE DEF Flow, At, Sure, Monitoring, LoopState, DisarmState
<1>1. /\ cfg' = cfg /\ arms' = arms /\ bus' = bus /\ siren' = siren /\ lockFile' = lockFile
      /\ catcher' = [catcher EXCEPT !.oldLid = FALSE]
      /\ catcher'.stop = catcher.stop /\ catcher'.armed = catcher.armed
      /\ catcher'.active = catcher.active /\ catcher'.lock = catcher.lock
      /\ catcher'.hold = catcher.hold /\ ~catcher'.oldLid
      /\ known'.left = known.left /\ known'.raised = known.raised /\ known'.cut = known.cut
      /\ known.lidLost => known'.lidLost
      /\ lid' = "nothing" => known'.lidLost \/ (~catcher.oldLid /\ lid = "nothing")
  BY DEF DisarmLid, Go, Shapes, Fault
<1>2. pc[t] = "d_lid" /\ pc' = [pc EXCEPT ![t] = "d_siren"]
  BY DEF DisarmLid, Go, Shapes, Fault
<1>3. CASE t = "loop"
  <2>1. pc'.ui = pc.ui /\ pc.loop = "d_lid" /\ pc'.loop = "d_siren"
    BY <1>2, <1>3 DEF Shapes
  <2>2. LockIsHeld'
    BY <1>1, <2>1 DEF LockIsHeld
  <2>3. ShownDisarmed'
    BY <1>1, <2>1 DEF ShownDisarmed
  <2>4. Placed'
    BY <1>1, <2>1 DEF Placed, Blank
  <2>5. Cleaned'
    BY <1>1, <2>1 DEF Cleaned, Cleans, ToSiren, ToLid, ToJoin
  <2>6. LockedLate'
    BY <1>1, <2>1 DEF LockedLate, Placed
  <2>7. Console'
    BY <1>1, <2>1 DEF Console, Placed, Blank, ToLid, ToJoin
  <2>8. LidKnown' /\ OwnSiren'
    BY <1>1, <2>1 DEF LidKnown, OwnSiren
  <2>9. QED
    BY <2>2, <2>3, <2>4, <2>5, <2>6, <2>7, <2>8
<1>4. CASE t = "ui"
  <2>1. pc'.loop = pc.loop /\ pc.ui = "d_lid" /\ pc'.ui = "d_siren"
    BY <1>2, <1>4 DEF Shapes
  <2>2. LockIsHeld'
    BY <1>1, <2>1 DEF LockIsHeld
  <2>3. ShownDisarmed'
    BY <1>1, <2>1 DEF ShownDisarmed
  <2>4. Placed'
    BY <1>1, <2>1 DEF Placed, Blank
  <2>5. Cleaned'
    BY <1>1, <2>1 DEF Cleaned, Cleans, ToSiren, ToLid, ToJoin
  <2>6. LockedLate'
    BY <1>1, <2>1 DEF LockedLate, Placed
  <2>7. Console'
    BY <1>1, <2>1 DEF Console, Placed, Blank, ToLid, ToJoin
  <2>8. LidKnown' /\ OwnSiren'
    BY <1>1, <2>1 DEF LidKnown, OwnSiren
  <2>9. QED
    BY <2>2, <2>3, <2>4, <2>5, <2>6, <2>7, <2>8
<1>5. QED
  BY <1>3, <1>4 DEF Thread

LEMMA SirenStep ==
    ASSUME Shapes, Flow, NEW t \in Thread, DisarmSiren(t)
    PROVE  Flow'
<1> USE DEF Flow, At, Sure, Monitoring, LoopState, DisarmState
<1>1. /\ cfg' = cfg /\ arms' = arms /\ bus' = bus /\ siren' = siren \ {arms} /\ lockFile' = lockFile
      /\ lid' = lid /\ known' = known
      /\ catcher'.stop = catcher.stop /\ catcher'.armed = catcher.armed
      /\ catcher'.active = catcher.active /\ catcher'.lock = catcher.lock
      /\ catcher'.hold = catcher.hold /\ catcher'.oldLid = catcher.oldLid
  BY DEF DisarmSiren, StopSiren, Go, Shapes, machine
<1>2. pc[t] = "d_siren" /\ pc' = [pc EXCEPT ![t] = "d_end"]
  BY DEF DisarmSiren, StopSiren, Go, Shapes, machine
<1>3. CASE t = "loop"
  <2>1. pc'.ui = pc.ui /\ pc.loop = "d_siren" /\ pc'.loop = "d_end"
    BY <1>2, <1>3 DEF Shapes
  <2>2. LockIsHeld'
    BY <1>1, <2>1 DEF LockIsHeld
  <2>3. ShownDisarmed'
    BY <1>1, <2>1 DEF ShownDisarmed
  <2>4. Placed'
    BY <1>1, <2>1 DEF Placed, Blank
  <2>5. Cleaned'
    BY <1>1, <2>1 DEF Cleaned, Cleans, ToSiren, ToLid, ToJoin
  <2>6. LockedLate'
    BY <1>1, <2>1 DEF LockedLate, Placed
  <2>7. Console'
    BY <1>1, <2>1 DEF Console, Placed, Blank, ToLid, ToJoin
  <2>8. LidKnown' /\ OwnSiren'
    BY <1>1, <2>1 DEF LidKnown, OwnSiren
  <2>9. QED
    BY <2>2, <2>3, <2>4, <2>5, <2>6, <2>7, <2>8
<1>4. CASE t = "ui"
  <2>1. pc'.loop = pc.loop /\ pc.ui = "d_siren" /\ pc'.ui = "d_end"
    BY <1>2, <1>4 DEF Shapes
  <2>2. LockIsHeld'
    BY <1>1, <2>1 DEF LockIsHeld
  <2>3. ShownDisarmed'
    BY <1>1, <2>1 DEF ShownDisarmed
  <2>4. Placed'
    BY <1>1, <2>1 DEF Placed, Blank
  <2>5. Cleaned'
    BY <1>1, <2>1 DEF Cleaned, Cleans, ToSiren, ToLid, ToJoin
  <2>6. LockedLate'
    BY <1>1, <2>1 DEF LockedLate, Placed
  <2>7. Console'
    BY <1>1, <2>1 DEF Console, Placed, Blank, ToLid, ToJoin
  <2>8. LidKnown' /\ OwnSiren'
    BY <1>1, <2>1 DEF LidKnown, OwnSiren
  <2>9. QED
    BY <2>2, <2>3, <2>4, <2>5, <2>6, <2>7, <2>8
<1>5. QED
  BY <1>3, <1>4 DEF Thread

LEMMA EndStep ==
    ASSUME Shapes, Flow, NEW t \in Thread, DisarmEnd(t)
    PROVE  Flow'
<1> USE DEF Flow, At, Sure, Monitoring, LoopState, DisarmState
<1>1. /\ cfg' = cfg /\ arms' = arms /\ bus' = bus /\ siren' = siren /\ lid' = lid /\ known' = known
      /\ lockFile' = "us" => lockFile = "us" /\ ~catcher.lock
      /\ catcher'.stop = catcher.stop /\ ~catcher'.armed /\ ~catcher'.active /\ ~catcher'.lock
      /\ catcher'.hold = catcher.hold /\ catcher'.oldLid = catcher.oldLid
  BY DEF DisarmEnd, Go, Shapes
<1>2. pc[t] = "d_end" /\ pc' = [pc EXCEPT ![t] = IF t = "ui" THEN "u_join" ELSE "ending"]
  BY DEF DisarmEnd, Go, Shapes
<1>3. CASE t = "loop"
  <2>1. pc'.ui = pc.ui /\ pc.loop = "d_end" /\ pc'.loop = "ending"
    BY <1>2, <1>3 DEF Shapes
  <2>2. LockIsHeld'
    BY <1>1, <2>1 DEF LockIsHeld
  <2>3. ShownDisarmed'
    BY <1>1, <2>1 DEF ShownDisarmed
  <2>4. Placed'
    BY <1>1, <2>1 DEF Placed, Blank
  <2>5. Cleaned'
    BY <1>1, <2>1 DEF Cleaned, Cleans, ToSiren, ToLid, ToJoin
  <2>6. LockedLate'
    BY <1>1, <2>1 DEF LockedLate, Placed
  <2>7. Console'
    BY <1>1, <2>1 DEF Console, Placed, Blank, ToLid, ToJoin
  <2>8. LidKnown' /\ OwnSiren'
    BY <1>1, <2>1 DEF LidKnown, OwnSiren
  <2>9. QED
    BY <2>2, <2>3, <2>4, <2>5, <2>6, <2>7, <2>8
<1>4. CASE t = "ui"
  <2>1. pc'.loop = pc.loop /\ pc.ui = "d_end" /\ pc'.ui = "u_join"
    BY <1>2, <1>4 DEF Shapes
  <2>2. LockIsHeld'
    BY <1>1, <2>1 DEF LockIsHeld
  <2>3. ShownDisarmed'
    BY <1>1, <2>1 DEF ShownDisarmed
  <2>4. Placed'
    BY <1>1, <2>1 DEF Placed, Blank
  <2>5. Cleaned'
    BY <1>1, <2>1 DEF Cleaned, Cleans, ToSiren, ToLid, ToJoin
  <2>6. LockedLate'
    BY <1>1, <2>1 DEF LockedLate, Placed
  <2>7. Console'
    BY <1>1, <2>1 DEF Console, Placed, Blank, ToLid, ToJoin
  <2>8. LidKnown' /\ OwnSiren'
    BY <1>1, <2>1 DEF LidKnown, OwnSiren
  <2>9. QED
    BY <2>2, <2>3, <2>4, <2>5, <2>6, <2>7, <2>8
<1>5. QED
  BY <1>3, <1>4 DEF Thread

\* A new catcher: what the one before it left is known.
LEMMA BeginsStep ==
    ASSUME Shapes, Flow, ArmDesktop \/ ArmConsole
    PROVE  Flow'
<1> USE DEF Flow, At, Go, Sure, Monitoring, LoopState, DisarmState
<1>1. /\ pc.loop = "off" /\ pc.ui = "idle" /\ pc'.loop = "read"
      /\ pc'.ui = IF cfg.gui THEN "started" ELSE "console"
      /\ cfg' = cfg /\ arms' = arms + 1 /\ bus' = bus /\ siren' = siren /\ lockFile' = lockFile
      /\ lid' = lid
  BY DEF ArmDesktop, ArmConsole, Begins, machine
<1>a. lid = "nothing" => known'.lidLost
  <2>1. PICK c \in BOOLEAN : known' = [left |-> known.left \/ c, lidLost |-> lid = "nothing",
                                     cut |-> FALSE, raised |-> FALSE]
    BY DEF ArmDesktop, ArmConsole, Begins
  <2>2. QED
    BY <2>1
<1>b. /\ known.left => known'.left
      /\ cfg.gui /\ (catcher.armed \/ arms \in siren) => known'.left
  <2>1. CASE ArmDesktop
    BY <2>1 DEF ArmDesktop, Begins
  <2>2. CASE ArmConsole
    BY <2>2 DEF ArmConsole, Begins
  <2>3. QED
    BY <2>1, <2>2
<1>2. /\ ~catcher'.stop /\ ~catcher'.armed /\ ~catcher'.active /\ ~catcher'.lock
      /\ ~catcher'.hold /\ ~catcher'.oldLid
  BY DEF ArmDesktop, ArmConsole, Begins, NewCatcher
<1>3. arms + 1 > 0 /\ arms + 1 \notin siren
  BY BoundAssumption DEF Shapes
<1>4. ~known'.left => arms \notin siren /\ (lockFile = "us" => known.left)
  BY <1>1, <1>b DEF LockIsHeld, LockedLate, Console
<1>5. LockIsHeld'
  BY <1>1, <1>4, <1>b DEF LockIsHeld
<1>6. ShownDisarmed'
  BY <1>1 DEF ShownDisarmed
<1>7. Placed'
  BY <1>1, <1>2, <1>3 DEF Placed, Blank
<1>8. Cleaned'
  BY <1>1, <1>2 DEF Cleaned
<1>9. LockedLate'
  BY <1>1, <1>2 DEF LockedLate
<1>10. Console'
  BY <1>1 DEF Console
<1>11. LidKnown' /\ OwnSiren'
  <2>1. ~known'.left => siren = {}
    BY <1>4, <1>b DEF OwnSiren
  <2>2. QED
    BY <1>1, <1>a, <2>1 DEF LidKnown, OwnSiren
<1>12. QED
  BY <1>5, <1>6, <1>7, <1>8, <1>9, <1>10, <1>11

\* arm() returns at once when nothing is plugged in.
LEMMA RefusedStep ==
    ASSUME Shapes, Flow, ArmRefused
    PROVE  Flow'
<1> USE DEF Flow, At, Go, Sure, Monitoring, LoopState, DisarmState
<1>1. /\ pc.loop = "read" /\ pc'.loop = "ending" /\ pc'.ui = pc.ui
      /\ cfg' = cfg /\ arms' = arms /\ siren' = siren /\ lockFile' = lockFile /\ lid' = lid
      /\ bus' = bus /\ known' = known /\ catcher' = catcher
  BY DEF ArmRefused, Shapes, machine
<1>2. LockIsHeld'
  BY <1>1 DEF LockIsHeld
<1>3. ShownDisarmed'
  BY <1>1 DEF ShownDisarmed, Placed
<1>4. Placed'
  BY <1>1 DEF Placed, Blank
<1>5. Cleaned'
  BY <1>1 DEF Cleaned, Cleans, Placed, ToSiren, ToLid, ToJoin
<1>6. LockedLate'
  BY <1>1 DEF LockedLate, Placed
<1>7. Console'
  BY <1>1 DEF Console, Placed, Blank, ToLid, ToJoin
<1>8. LidKnown' /\ OwnSiren'
  BY <1>1 DEF LidKnown, OwnSiren
<1>9. QED
  BY <1>2, <1>3, <1>4, <1>5, <1>6, <1>7, <1>8

\* From here on the catcher is armed.
LEMMA AcceptedStep ==
    ASSUME Shapes, Flow, ArmAccepted
    PROVE  Flow'
<1> USE DEF Flow, At, Go, Sure, Monitoring, LoopState, DisarmState
<1>1. /\ pc.loop = "read" /\ pc'.loop = "lock" /\ pc'.ui = pc.ui
      /\ cfg' = cfg /\ arms' = arms /\ siren' = siren /\ lockFile' = lockFile /\ lid' = lid
      /\ bus' = bus /\ known' = known /\ catcher'.armed
      /\ catcher'.stop = catcher.stop /\ catcher'.lock = catcher.lock
      /\ catcher'.oldLid = catcher.oldLid
  BY DEF ArmAccepted, Shapes, machine
<1>2. LockIsHeld'
  BY <1>1 DEF LockIsHeld
<1>3. ShownDisarmed'
  BY <1>1 DEF ShownDisarmed, Placed
<1>4. Placed'
  BY <1>1 DEF Placed, Blank
<1>5. Cleaned'
  BY <1>1 DEF Cleaned, Cleans, Placed, ToSiren, ToLid, ToJoin
<1>6. LockedLate'
  BY <1>1 DEF LockedLate, Placed
<1>7. Console'
  BY <1>1 DEF Console, Placed, Blank, ToLid, ToJoin
<1>8. LidKnown' /\ OwnSiren'
  BY <1>1 DEF LidKnown, OwnSiren
<1>9. QED
  BY <1>2, <1>3, <1>4, <1>5, <1>6, <1>7, <1>8

\* The thread of the loop is over; nothing was left to it.
LEMMA LoopEndsStep ==
    ASSUME Shapes, Flow, LoopEnds
    PROVE  Flow'
<1> USE DEF Flow, At, Go, Sure, Monitoring, LoopState, DisarmState
<1>1. /\ pc.loop = "ending" /\ pc'.loop = "off" /\ pc'.ui = pc.ui /\ cfg.gui
      /\ cfg' = cfg /\ arms' = arms /\ siren' = siren /\ lockFile' = lockFile /\ lid' = lid
      /\ known' = known /\ catcher' = catcher
  BY DEF LoopEnds, Shapes, machine
<1>2. LockIsHeld'
  BY <1>1 DEF LockIsHeld
<1>3. ShownDisarmed'
  BY <1>1 DEF ShownDisarmed, Placed
<1>4. Placed'
  BY <1>1 DEF Placed, Blank
<1>5. Cleaned'
  BY <1>1 DEF Cleaned, Cleans, Placed, ToSiren, ToLid, ToJoin
<1>6. LockedLate'
  BY <1>1 DEF LockedLate, Placed
<1>7. Console'
  BY <1>1 DEF Console, Placed, Blank, ToLid, ToJoin
<1>8. LidKnown' /\ OwnSiren'
  BY <1>1 DEF LidKnown, OwnSiren
<1>9. QED
  BY <1>2, <1>3, <1>4, <1>5, <1>6, <1>7, <1>8

\* An exception takes the loop out of arm() with everything still on.
LEMMA RaisedStep ==
    ASSUME Shapes, Flow, TriggerRaises, loop.from # "loop"
    PROVE  Flow'
<1> USE DEF Flow, At, Go, Sure, Monitoring, LoopState, DisarmState
<1>1. /\ pc.loop \in {"gate", "relay", "socket"} /\ pc'.loop = "ending" /\ pc'.ui = pc.ui
      /\ cfg' = cfg /\ arms' = arms /\ siren' = siren /\ lockFile' = lockFile /\ lid' = lid
      /\ bus' = bus /\ catcher' = catcher
      /\ known'.raised = catcher.stop /\ known'.left = known.left
      /\ known'.lidLost = known.lidLost
  BY DEF TriggerRaises, Shapes, machine
<1>2. LockIsHeld'
  BY <1>1 DEF LockIsHeld
<1>3. ShownDisarmed'
  BY <1>1 DEF ShownDisarmed, Placed
<1>4. Placed'
  BY <1>1 DEF Placed, Blank
<1>5. Cleaned'
  BY <1>1 DEF Cleaned, Cleans, Placed, ToSiren, ToLid, ToJoin
<1>6. LockedLate'
  BY <1>1 DEF LockedLate, Placed
<1>7. Console'
  BY <1>1 DEF Console, Placed, Blank, ToLid, ToJoin
<1>8. LidKnown' /\ OwnSiren'
  BY <1>1 DEF LidKnown, OwnSiren
<1>9. QED
  BY <1>2, <1>3, <1>4, <1>5, <1>6, <1>7, <1>8

\* The desktop tells the catcher to stop, and starts to clean up.
LEMMA DisarmStep ==
    ASSUME Shapes, Flow, Disarm
    PROVE  Flow'
<1> USE DEF Flow, At, Go, Sure, Monitoring, LoopState, DisarmState
<1>1. /\ pc'.loop = pc.loop /\ pc.ui = "idle" /\ pc'.ui = "d_hold" /\ cfg.gui
      /\ cfg' = cfg /\ arms' = arms /\ siren' = siren /\ lockFile' = lockFile /\ lid' = lid
      /\ bus' = bus /\ known' = known /\ catcher'.stop
      /\ catcher'.armed = catcher.armed /\ catcher'.active = catcher.active
      /\ catcher'.lock = catcher.lock /\ catcher'.hold = catcher.hold
      /\ catcher'.oldLid = catcher.oldLid
  BY DEF Disarm, Shapes, machine
<1>2. LockIsHeld'
  BY <1>1 DEF LockIsHeld
<1>3. ShownDisarmed'
  BY <1>1 DEF ShownDisarmed, Placed
<1>4. Placed'
  BY <1>1 DEF Placed, Blank
<1>5. Cleaned'
  BY <1>1 DEF Cleaned, Cleans, Placed, ToSiren, ToLid, ToJoin
<1>6. LockedLate'
  BY <1>1 DEF LockedLate, Placed
<1>7. Console'
  BY <1>1 DEF Console, Placed, Blank, ToLid, ToJoin
<1>8. LidKnown' /\ OwnSiren'
  BY <1>1 DEF LidKnown, OwnSiren
<1>9. QED
  BY <1>2, <1>3, <1>4, <1>5, <1>6, <1>7, <1>8

\* The desktop tells the bus.
LEMMA UiStep ==
    ASSUME Shapes, Flow, Publish \/ UiJoined
    PROVE  Flow'
<1> USE DEF Flow, At, Go, Sure, Monitoring, LoopState, DisarmState
<1>1. /\ pc'.loop = pc.loop /\ pc'.ui = "idle"
      /\ (pc.ui = "started" /\ bus') \/ (pc.ui = "u_join" /\ ~bus')
      /\ cfg' = cfg /\ arms' = arms /\ siren' = siren /\ lockFile' = lockFile /\ lid' = lid
      /\ known' = known /\ catcher' = catcher
  BY DEF Publish, UiJoined, Shapes, machine
<1>2. LockIsHeld'
  BY <1>1 DEF LockIsHeld
<1>3. ShownDisarmed'
  BY <1>1 DEF ShownDisarmed, Placed
<1>4. Placed'
  BY <1>1 DEF Placed, Blank
<1>5. Cleaned'
  BY <1>1 DEF Cleaned, Cleans, Placed, ToSiren, ToLid, ToJoin
<1>6. LockedLate'
  BY <1>1 DEF LockedLate, Placed
<1>7. Console'
  BY <1>1 DEF Console, Placed, Blank, ToLid, ToJoin
<1>8. LidKnown' /\ OwnSiren'
  BY <1>1 DEF LidKnown, OwnSiren
<1>9. QED
  BY <1>2, <1>3, <1>4, <1>5, <1>6, <1>7, <1>8

\* The process ends; the system takes back what only it held.
LEMMA ExitStep ==
    ASSUME Shapes, Flow, ProcessExits
    PROVE  Flow'
<1> USE DEF Flow, At, Go, Sure, Monitoring, LoopState, DisarmState
<1>1. /\ pc.loop # "off" /\ pc.ui = "console" /\ pc'.loop = "off" /\ pc'.ui = "idle"
      /\ cfg' = cfg /\ arms' = arms /\ siren' = siren \ {arms} /\ lockFile' # "us" /\ lid' = lid
      /\ bus' = bus /\ catcher' = catcher
      /\ known'.left = known.left /\ known'.lidLost = known.lidLost
      /\ ~known'.cut => pc.loop = "ending" /\ ~catcher.armed
  BY DEF ProcessExits, Shapes
<1>2. LockIsHeld'
  BY <1>1 DEF LockIsHeld
<1>3. ShownDisarmed'
  BY <1>1 DEF ShownDisarmed, Placed
<1>4. Placed'
  BY <1>1 DEF Placed, Blank
<1>5. Cleaned'
  BY <1>1 DEF Cleaned, Cleans, Placed, ToSiren, ToLid, ToJoin
<1>6. LockedLate'
  BY <1>1 DEF LockedLate, Placed
<1>7. Console'
  BY <1>1 DEF Console, Placed, Blank, ToLid, ToJoin
<1>8. LidKnown' /\ OwnSiren'
  BY <1>1 DEF LidKnown, OwnSiren
<1>9. QED
  BY <1>2, <1>3, <1>4, <1>5, <1>6, <1>7, <1>8

\* The charger, the gates and their watchers: a siren at most falls silent.
LEMMA OutsideStep ==
    ASSUME Shapes, Flow, Charger \/ \E g \in Gate : GatePassed(g) \/ GateFailed(g) \/ WatcherSilences(g)
    PROVE  Flow'
<1> USE DEF Flow, At, Go, Sure, Monitoring, LoopState, DisarmState
<1>1. /\ pc' = pc /\ cfg' = cfg /\ arms' = arms /\ siren' \subseteq siren
      /\ lockFile' = lockFile /\ lid' = lid /\ bus' = bus /\ catcher' = catcher /\ known' = known
  BY DEF Charger, GatePassed, GateFailed, WatcherSilences, Shapes, machine
<1>2. LockIsHeld'
  BY <1>1 DEF LockIsHeld
<1>3. ShownDisarmed'
  BY <1>1 DEF ShownDisarmed, Placed
<1>4. Placed'
  BY <1>1 DEF Placed, Blank
<1>5. Cleaned'
  BY <1>1 DEF Cleaned, Cleans, Placed, ToSiren, ToLid, ToJoin
<1>6. LockedLate'
  BY <1>1 DEF LockedLate, Placed
<1>7. Console'
  BY <1>1 DEF Console, Placed, Blank, ToLid, ToJoin
<1>8. LidKnown' /\ OwnSiren'
  BY <1>1 DEF LidKnown, OwnSiren
<1>9. QED
  BY <1>2, <1>3, <1>4, <1>5, <1>6, <1>7, <1>8

\* Every step of the loop between its arming and its _disarm() goes on monitoring, ...
LEMMA MonitoringStep ==
    ASSUME Shapes, Flow,
           \/ AcquireThiefLock \/ HoldAwake \/ SetLid \/ Reread \/ PollFails \/ PollReads \/ Sleep
           \/ PlaySiren \/ SpawnGate \/ ChooseChannel \/ Tell \/ SetActive
           \/ ReplugSilences \/ ReplugEnds
    PROVE  Flow'
<1>1. LidKnown
  BY DEF Flow
<1> USE DEF Monitoring, LoopState
<1>2. CASE AcquireThiefLock
  <2>1. PICK q \in {"hold"} : pc' = [pc EXCEPT !["loop"] = q]
    BY <1>2 DEF AcquireThiefLock, Go
  <2>2. LoopMoves(q) /\ pc.loop \in {"lock"}
    BY <1>2, <2>1 DEF AcquireThiefLock, At, LoopMoves, Shapes, gates
  <2>3. /\ siren' \subseteq siren \cup {arms}
        /\ catcher.hold => catcher'.hold \/ q = "lid"
        /\ catcher.lock => catcher'.lock
        /\ catcher'.lock => catcher.lock \/ q = "hold"
        /\ lockFile' = "us" => lockFile = "us" \/ catcher'.lock
    BY <1>2, <2>1 DEF AcquireThiefLock, Shapes, gates
  <2>4. LidKnown'
    BY <1>1, <1>2 DEF AcquireThiefLock, LidKnown, Shapes, gates
  <2>5. QED
    BY <2>1, <2>2, <2>3, <2>4, LoopWorks
<1>3. CASE HoldAwake
  <2>1. PICK q \in {"lid"} : pc' = [pc EXCEPT !["loop"] = q]
    BY <1>3 DEF HoldAwake, Go
  <2>2. LoopMoves(q) /\ pc.loop \in {"hold"}
    BY <1>3, <2>1 DEF HoldAwake, At, LoopMoves, Shapes, machine
  <2>3. /\ siren' \subseteq siren \cup {arms}
        /\ catcher.hold => catcher'.hold \/ q = "lid"
        /\ catcher.lock => catcher'.lock
        /\ catcher'.lock => catcher.lock \/ q = "hold"
        /\ lockFile' = "us" => lockFile = "us" \/ catcher'.lock
    BY <1>3, <2>1 DEF HoldAwake, Shapes, machine
  <2>4. LidKnown'
    BY <1>1, <1>3 DEF HoldAwake, LidKnown, Shapes, machine
  <2>5. QED
    BY <2>1, <2>2, <2>3, <2>4, LoopWorks
<1>4. CASE SetLid
  <2>1. PICK q \in {"grace"} : pc' = [pc EXCEPT !["loop"] = q]
    BY <1>4 DEF SetLid, Go
  <2>2. LoopMoves(q) /\ pc.loop \in {"lid"}
    BY <1>4, <2>1 DEF SetLid, At, LoopMoves, Shapes
  <2>3. /\ siren' \subseteq siren \cup {arms}
        /\ catcher.hold => catcher'.hold \/ q = "lid"
        /\ catcher.lock => catcher'.lock
        /\ catcher'.lock => catcher.lock \/ q = "hold"
        /\ lockFile' = "us" => lockFile = "us" \/ catcher'.lock
    BY <1>4, <2>1 DEF SetLid, Shapes
  <2>4. LidKnown'
    BY <1>1, <1>4 DEF SetLid, LidKnown, Shapes
  <2>5. QED
    BY <2>1, <2>2, <2>3, <2>4, LoopWorks
<1>5. CASE Reread
  <2>1. PICK q \in {"play", "poll"} : pc' = [pc EXCEPT !["loop"] = q]
    BY <1>5 DEF Reread, Go
  <2>2. LoopMoves(q) /\ pc.loop \in {"reread"}
    BY <1>5, <2>1 DEF Reread, At, LoopMoves, Shapes, machine
  <2>3. /\ siren' \subseteq siren \cup {arms}
        /\ catcher.hold => catcher'.hold \/ q = "lid"
        /\ catcher.lock => catcher'.lock
        /\ catcher'.lock => catcher.lock \/ q = "hold"
        /\ lockFile' = "us" => lockFile = "us" \/ catcher'.lock
    BY <1>5, <2>1 DEF Reread, Shapes, machine
  <2>4. LidKnown'
    BY <1>1, <1>5 DEF Reread, LidKnown, Shapes, machine
  <2>5. QED
    BY <2>1, <2>2, <2>3, <2>4, LoopWorks
<1>6. CASE PollFails
  <2>1. PICK q \in {"play", "sleep"} : pc' = [pc EXCEPT !["loop"] = q]
    BY <1>6 DEF PollFails, Go, LoopError
  <2>2. LoopMoves(q) /\ pc.loop \in {"poll"}
    BY <1>6, <2>1 DEF PollFails, At, LoopMoves, Shapes, machine, LoopError
  <2>3. /\ siren' \subseteq siren \cup {arms}
        /\ catcher.hold => catcher'.hold \/ q = "lid"
        /\ catcher.lock => catcher'.lock
        /\ catcher'.lock => catcher.lock \/ q = "hold"
        /\ lockFile' = "us" => lockFile = "us" \/ catcher'.lock
    BY <1>6, <2>1 DEF PollFails, Shapes, machine, LoopError
  <2>4. LidKnown'
    BY <1>1, <1>6 DEF PollFails, LidKnown, Shapes, machine, LoopError
  <2>5. QED
    BY <2>1, <2>2, <2>3, <2>4, LoopWorks
<1>7. CASE PollReads
  <2>1. PICK q \in {"play", "s_siren", "sleep"} : pc' = [pc EXCEPT !["loop"] = q]
    BY <1>7 DEF PollReads, Go
  <2>2. LoopMoves(q) /\ pc.loop \in {"poll"}
    BY <1>7, <2>1 DEF PollReads, At, LoopMoves, Shapes, machine
  <2>3. /\ siren' \subseteq siren \cup {arms}
        /\ catcher.hold => catcher'.hold \/ q = "lid"
        /\ catcher.lock => catcher'.lock
        /\ catcher'.lock => catcher.lock \/ q = "hold"
        /\ lockFile' = "us" => lockFile = "us" \/ catcher'.lock
    BY <1>7, <2>1 DEF PollReads, Shapes, machine
  <2>4. LidKnown'
    BY <1>1, <1>7 DEF PollReads, LidKnown, Shapes, machine
  <2>5. QED
    BY <2>1, <2>2, <2>3, <2>4, LoopWorks
<1>8. CASE Sleep
  <2>1. PICK q \in {"poll"} : pc' = [pc EXCEPT !["loop"] = q]
    BY <1>8 DEF Sleep, Go
  <2>2. LoopMoves(q) /\ pc.loop \in {"sleep"}
    BY <1>8, <2>1 DEF Sleep, At, LoopMoves, Shapes, machine
  <2>3. /\ siren' \subseteq siren \cup {arms}
        /\ catcher.hold => catcher'.hold \/ q = "lid"
        /\ catcher.lock => catcher'.lock
        /\ catcher'.lock => catcher.lock \/ q = "hold"
        /\ lockFile' = "us" => lockFile = "us" \/ catcher'.lock
    BY <1>8, <2>1 DEF Sleep, Shapes, machine
  <2>4. LidKnown'
    BY <1>1, <1>8 DEF Sleep, LidKnown, Shapes, machine
  <2>5. QED
    BY <2>1, <2>2, <2>3, <2>4, LoopWorks
<1>9. CASE PlaySiren
  <2>1. PICK q \in {"gate"} : pc' = [pc EXCEPT !["loop"] = q]
    BY <1>9 DEF PlaySiren, Go
  <2>2. LoopMoves(q) /\ pc.loop \in {"play"}
    BY <1>9, <2>1 DEF PlaySiren, At, LoopMoves, Shapes, machine
  <2>3. /\ siren' \subseteq siren \cup {arms}
        /\ catcher.hold => catcher'.hold \/ q = "lid"
        /\ catcher.lock => catcher'.lock
        /\ catcher'.lock => catcher.lock \/ q = "hold"
        /\ lockFile' = "us" => lockFile = "us" \/ catcher'.lock
    BY <1>9, <2>1 DEF PlaySiren, Shapes, machine
  <2>4. LidKnown'
    BY <1>1, <1>9 DEF PlaySiren, LidKnown, Shapes, machine
  <2>5. QED
    BY <2>1, <2>2, <2>3, <2>4, LoopWorks
<1>10. CASE SpawnGate
  <2>1. PICK q \in {"send"} : pc' = [pc EXCEPT !["loop"] = q]
    BY <1>10 DEF SpawnGate, Go
  <2>2. LoopMoves(q) /\ pc.loop \in {"gate"}
    BY <1>10, <2>1 DEF SpawnGate, At, LoopMoves, Shapes, machine
  <2>3. /\ siren' \subseteq siren \cup {arms}
        /\ catcher.hold => catcher'.hold \/ q = "lid"
        /\ catcher.lock => catcher'.lock
        /\ catcher'.lock => catcher.lock \/ q = "hold"
        /\ lockFile' = "us" => lockFile = "us" \/ catcher'.lock
    BY <1>10, <2>1 DEF SpawnGate, Shapes, machine
  <2>4. LidKnown'
    BY <1>1, <1>10 DEF SpawnGate, LidKnown, Shapes, machine
  <2>5. QED
    BY <2>1, <2>2, <2>3, <2>4, LoopWorks
<1>11. CASE ChooseChannel
  <2>1. PICK q \in {"bot", "rung", "relay", "socket"} : pc' = [pc EXCEPT !["loop"] = q]
    BY <1>11 DEF ChooseChannel, Go
  <2>2. LoopMoves(q) /\ pc.loop \in {"send"}
    BY <1>11, <2>1 DEF ChooseChannel, At, LoopMoves, Shapes, machine
  <2>3. /\ siren' \subseteq siren \cup {arms}
        /\ catcher.hold => catcher'.hold \/ q = "lid"
        /\ catcher.lock => catcher'.lock
        /\ catcher'.lock => catcher.lock \/ q = "hold"
        /\ lockFile' = "us" => lockFile = "us" \/ catcher'.lock
    BY <1>11, <2>1 DEF ChooseChannel, Shapes, machine
  <2>4. LidKnown'
    BY <1>1, <1>11 DEF ChooseChannel, LidKnown, Shapes, machine
  <2>5. QED
    BY <2>1, <2>2, <2>3, <2>4, LoopWorks
<1>12. CASE Tell
  <2>1. PICK q \in {"rung", "socket"} : pc' = [pc EXCEPT !["loop"] = q]
    BY <1>12 DEF Tell, Go
  <2>2. LoopMoves(q) /\ pc.loop \in {"bot", "relay", "socket"}
    BY <1>12, <2>1 DEF Tell, At, LoopMoves, Shapes, machine
  <2>3. /\ siren' \subseteq siren \cup {arms}
        /\ catcher.hold => catcher'.hold \/ q = "lid"
        /\ catcher.lock => catcher'.lock
        /\ catcher'.lock => catcher.lock \/ q = "hold"
        /\ lockFile' = "us" => lockFile = "us" \/ catcher'.lock
    BY <1>12, <2>1 DEF Tell, Shapes, machine
  <2>4. LidKnown'
    BY <1>1, <1>12 DEF Tell, LidKnown, Shapes, machine
  <2>5. QED
    BY <2>1, <2>2, <2>3, <2>4, LoopWorks
<1>13. CASE SetActive
  <2>1. PICK q \in {"poll", "sleep"} : pc' = [pc EXCEPT !["loop"] = q]
    BY <1>13 DEF SetActive, Go
  <2>2. LoopMoves(q) /\ pc.loop \in {"rung"}
    BY <1>13, <2>1 DEF SetActive, At, LoopMoves, Shapes, machine
  <2>3. /\ siren' \subseteq siren \cup {arms}
        /\ catcher.hold => catcher'.hold \/ q = "lid"
        /\ catcher.lock => catcher'.lock
        /\ catcher'.lock => catcher.lock \/ q = "hold"
        /\ lockFile' = "us" => lockFile = "us" \/ catcher'.lock
    BY <1>13, <2>1 DEF SetActive, Shapes, machine
  <2>4. LidKnown'
    BY <1>1, <1>13 DEF SetActive, LidKnown, Shapes, machine
  <2>5. QED
    BY <2>1, <2>2, <2>3, <2>4, LoopWorks
<1>14. CASE ReplugSilences
  <2>1. PICK q \in {"s_off"} : pc' = [pc EXCEPT !["loop"] = q]
    BY <1>14 DEF ReplugSilences, Go, StopSiren
  <2>2. LoopMoves(q) /\ pc.loop \in {"s_siren"}
    BY <1>14, <2>1 DEF ReplugSilences, At, LoopMoves, Shapes, machine, StopSiren
  <2>3. /\ siren' \subseteq siren \cup {arms}
        /\ catcher.hold => catcher'.hold \/ q = "lid"
        /\ catcher.lock => catcher'.lock
        /\ catcher'.lock => catcher.lock \/ q = "hold"
        /\ lockFile' = "us" => lockFile = "us" \/ catcher'.lock
    BY <1>14, <2>1 DEF ReplugSilences, Shapes, machine, StopSiren
  <2>4. LidKnown'
    BY <1>1, <1>14 DEF ReplugSilences, LidKnown, Shapes, machine, StopSiren
  <2>5. QED
    BY <2>1, <2>2, <2>3, <2>4, LoopWorks
<1>15. CASE ReplugEnds
  <2>1. PICK q \in {"sleep"} : pc' = [pc EXCEPT !["loop"] = q]
    BY <1>15 DEF ReplugEnds, Go
  <2>2. LoopMoves(q) /\ pc.loop \in {"s_off"}
    BY <1>15, <2>1 DEF ReplugEnds, At, LoopMoves, Shapes, machine
  <2>3. /\ siren' \subseteq siren \cup {arms}
        /\ catcher.hold => catcher'.hold \/ q = "lid"
        /\ catcher.lock => catcher'.lock
        /\ catcher'.lock => catcher.lock \/ q = "hold"
        /\ lockFile' = "us" => lockFile = "us" \/ catcher'.lock
    BY <1>15, <2>1 DEF ReplugEnds, Shapes, machine
  <2>4. LidKnown'
    BY <1>1, <1>15 DEF ReplugEnds, LidKnown, Shapes, machine
  <2>5. QED
    BY <2>1, <2>2, <2>3, <2>4, LoopWorks
<1>16. QED
  BY <1>2, <1>3, <1>4, <1>5, <1>6, <1>7, <1>8, <1>9, <1>10, <1>11, <1>12, <1>13, <1>14, <1>15

\* ... unless it is told to stop, or an exception leaves arm().
LEMMA LeavingStep ==
    ASSUME Shapes, Flow, GraceEnds \/ PollStopped \/ Interrupt \/ TriggerRaises
    PROVE  Flow'
<1> USE DEF Monitoring, LoopState
<1>1. CASE PollStopped
  BY <1>1, LoopLeaves DEF PollStopped, Go, At, LoopMoves, machine
<1>2. CASE Interrupt
  <2>1. ~cfg.gui
    BY <1>2 DEF Interrupt, Flow, Placed, At
  <2>2. pc.loop \in Monitoring
    BY <1>2 DEF Interrupt, Caught
  <2>3. QED
    BY <1>2, <2>1, <2>2, LoopLeaves DEF Interrupt, Go, LoopMoves, machine
<1>3. CASE GraceEnds /\ catcher.stop
  BY <1>3, LoopLeaves DEF GraceEnds, Go, At, LoopMoves, machine
<1>4. CASE GraceEnds /\ ~catcher.stop
  <2>1. LoopMoves("reread") /\ pc.loop = "grace"
    BY <1>4 DEF GraceEnds, Go, At, LoopMoves, machine
  <2>2. LidKnown'
    BY <1>4 DEF GraceEnds, Flow, LidKnown, machine
  <2>3. QED
    BY <1>4, <2>1, <2>2, LoopWorks DEF GraceEnds, machine
<1>5. CASE TriggerRaises /\ loop.from = "loop"
  <2>1. PICK q \in {"play", "sleep"} : pc' = [pc EXCEPT !["loop"] = q]
    BY <1>5 DEF TriggerRaises, LoopError, Go
  <2>2. LoopMoves(q) /\ pc.loop \in Monitoring /\ pc.loop \notin {"hold", "lid", "grace"}
    BY <1>5, <2>1 DEF TriggerRaises, LoopMoves, machine
  <2>3. LidKnown'
    BY <1>5 DEF TriggerRaises, Flow, LidKnown, machine
  <2>4. QED
    BY <1>5, <2>1, <2>2, <2>3, LoopWorks DEF TriggerRaises, machine
<1>6. CASE TriggerRaises /\ loop.from # "loop"
  BY <1>6, RaisedStep
<1>7. QED
  BY <1>1, <1>2, <1>3, <1>4, <1>5, <1>6

LEMMA FlowStep ==
    ASSUME TypeOK, Flow, Next
    PROVE  Flow'
<1>1. Shapes
  BY TypeParts
<1>2. ASSUME NEW t \in Thread, ThreadDisarms(t) PROVE Flow'
  BY <1>1, <1>2, JoinStep, LidStep, SirenStep, EndStep DEF ThreadDisarms
<1>3. QED
  BY <1>1, <1>2, BeginsStep, RefusedStep, AcceptedStep, LoopEndsStep, DisarmStep, UiStep,
     ExitStep, OutsideStep, MonitoringStep, LeavingStep DEF Next, Loop, Ui, Watcher, Thread

LEMMA ThiefStutters ==
    ASSUME ThiefInv, UNCHANGED vars
    PROVE  ThiefInv'
<1>1. /\ cfg' = cfg /\ plug' = plug /\ lid' = lid /\ lockFile' = lockFile /\ siren' = siren
      /\ catcher' = catcher /\ loop' = loop /\ pc' = pc /\ gate' = gate /\ gateLock' = gateLock
      /\ bus' = bus /\ arms' = arms /\ faults' = faults /\ known' = known
  BY DEF vars, machine, gates
<1>2. TypeOK'
  BY <1>1 DEF ThiefInv, TypeOK
<1>3. (LockIsHeld /\ ShownDisarmed /\ OneSiren /\ Placed /\ LidKnown /\ OwnSiren)'
  BY <1>1 DEF ThiefInv, LockIsHeld, ShownDisarmed, OneSiren, Placed, LidKnown, OwnSiren, At, Blank
<1>4. (Cleaned /\ LockedLate /\ Console)'
  BY <1>1 DEF ThiefInv, Cleaned, LockedLate, Console, Cleans, Sure, At, Blank
<1>5. QED
  BY <1>2, <1>3, <1>4 DEF ThiefInv

LEMMA Starts ==
    ASSUME Init
    PROVE  ThiefInv
<1>1. Shapes
  <2>1. loop \in [was : BOOLEAN, fails : 0 .. MaxFailures,
                  from : {"none", "grace", "loop", "blind"}]
    BY BoundAssumption DEF Init, NoLoop
  <2>2. gate \in [Gate -> [at : GateState, arm : 0 .. MaxArms]]
    BY BoundAssumption DEF Init, NoGate, GateState
  <2>3. pc \in [loop : LoopState \cup DisarmState, ui : UiState \cup DisarmState]
    BY DEF Init, LoopState, UiState
  <2>4. arms \in 0 .. MaxArms /\ faults \in 0 .. MaxFaults /\ cfg \in Config
    BY BoundAssumption, ConfigAssumption DEF Init
  <2>5. /\ catcher \in [stop : BOOLEAN, armed : BOOLEAN, active : BOOLEAN, lock : BOOLEAN,
                        hold : BOOLEAN, oldLid : BOOLEAN, gate : SUBSET Gate]
        /\ known \in [left : BOOLEAN, lidLost : BOOLEAN, cut : BOOLEAN, raised : BOOLEAN]
    BY DEF Init, NewCatcher, NothingKnown
  <2>6. QED
    BY <2>1, <2>2, <2>3, <2>4, <2>5 DEF Init, Shapes
<1>2. Lights
  BY DEF Init, Lights
<1>3. Flow
  <2>1. /\ pc.loop = "off" /\ pc.ui = "idle" /\ siren = {} /\ lid = "user" /\ lockFile # "us"
        /\ ~bus /\ arms = 0
        /\ ~catcher.stop /\ ~catcher.lock /\ ~catcher.armed /\ ~catcher.active
        /\ ~catcher.hold /\ ~catcher.oldLid
    BY DEF Init, NewCatcher
  <2>2. LockIsHeld /\ ShownDisarmed /\ LidKnown /\ OwnSiren
    BY <2>1 DEF LockIsHeld, ShownDisarmed, LidKnown, OwnSiren, At
  <2>3. Placed
    BY <2>1 DEF Placed, At, DisarmState
  <2>4. Cleaned /\ LockedLate
    BY <2>1 DEF Cleaned, LockedLate, Monitoring
  <2>5. Console
    BY <2>1 DEF Console, Monitoring, DisarmState, At, Blank
  <2>6. QED
    BY <2>2, <2>3, <2>4, <2>5 DEF Flow
<1>4. QED
  BY <1>1, <1>2, <1>3, TypeParts, Parts

\* What the threads, the gates and the desktop know of each other, at every step: whatever
\* is still on after a disarm, a thread is on its way to turn it off; thief.lock, the lid and
\* the siren belong to the current catcher, or the crash of the one before it is known.
THEOREM Thief == Spec => []ThiefInv
<1>1. Init => ThiefInv
  BY Starts
<1>2. ThiefInv /\ [Next]_vars => ThiefInv'
  <2> SUFFICES ASSUME ThiefInv, [Next]_vars PROVE ThiefInv'
    OBVIOUS
  <2>1. TypeOK /\ Flow /\ Placed
    BY Parts DEF Flow
  <2>2. CASE Next
    <3>1. TypeOK' /\ Flow'
      BY <2>1, <2>2, TypeStep, FlowStep
    <3>2. QED
      BY <3>1, PartsNext
  <2>3. CASE UNCHANGED vars
    BY <2>3, ThiefStutters
  <2>4. QED
    BY <2>2, <2>3
<1>3. QED
  BY <1>1, <1>2, PTL DEF Spec

\* Once its threads are done, a catcher that was told to stop left nothing on: no siren, no
\* lock, no thread that blocks sleep, and the lid as it was.
THEOREM DisarmLeavesNothing == Spec => []DisarmedIsQuiet
<1>1. ThiefInv => DisarmedIsQuiet
  <2> SUFFICES ASSUME ThiefInv, arms > 0, pc.loop = "off", pc.ui = "idle",
                      cfg.gui => catcher.stop /\ ~known.raised, ~known.cut
               PROVE  Quiet
    BY DEF DisarmedIsQuiet, Finished, At
  <2>1. ~Cleans(DisarmState) /\ ~Cleans(ToSiren) /\ ~Cleans(ToLid) /\ ~Cleans(ToJoin)
    BY DEF Cleans, Monitoring, DisarmState, ToSiren, ToLid, ToJoin
  <2>2. arms \notin siren /\ Blank
    BY <2>1 DEF ThiefInv, Cleaned, Console, Blank, At
  <2>3. QED
    BY <2>2 DEF ThiefInv, Blank, LockIsHeld, LidKnown, Quiet
<1>2. QED
  BY <1>1, Thief, PTL
=============================================================================
