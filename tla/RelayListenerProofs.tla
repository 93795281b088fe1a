------------------------ MODULE RelayListenerProofs ------------------------
(***************************************************************************)
(* The listener rings each alert once, and knows of every sound it makes,  *)
(* for any configurations, any number of alerts and any arming.            *)
(* ListenerInv is inductive: InOrder makes an episode that differs from    *)
(* the one remembered a later one, and Remembered then keeps it out of     *)
(* what was sounded.                                                       *)
(*                                                                         *)
(* The second part is about relay.lock, one holder of a PID file, for any  *)
(* set of PIDs and any number of crashes, in the behaviours in which no    *)
(* two starts overlap.  LockInv is inductive: HolderNamed lets a starter   *)
(* find the holder in the file, TakesFree keeps it from taking over what   *)
(* it found, and OneStarter keeps others from doing so in between.         *)
(***************************************************************************)
EXTENDS RelayListener, GuardLock, TLAPS

\* The answers Go keeps or forgets are answers (the last poll's, cli.py).
LEMMA GoTypes ==
    ASSUME TypeOK, NEW p, Go(p)
    PROVE  /\ resp' \in [alert : Alert, armed : BOOLEAN]
           /\ pc' = p
           /\ resp'.alert.ts <= resp.alert.ts
<1> USE BoundAssumption
<1>1. NoAlert \in Alert /\ NoAlert.ts = 0
  BY DEF NoAlert, Alert, Type
<1>2. resp'.alert \in {resp.alert, NoAlert} /\ resp' \in [alert : Alert, armed : BOOLEAN]
  BY <1>1 DEF Go, Answer, TypeOK
<1>3. resp.alert \in Alert
  BY DEF TypeOK
<1>4. resp.alert.ts \in Nat
  BY <1>3 DEF Alert
<1>5. resp'.alert.ts \in {resp.alert.ts, 0}
  BY <1>1, <1>2
<1>6. resp'.alert.ts <= resp.alert.ts
  BY <1>4, <1>5
<1> QED
  BY <1>2, <1>6 DEF Go

\* The types of what the listener keeps of itself.
Memory == [last : 0 .. MaxAlerts, seen : BOOLEAN, on : BOOLEAN, long : BOOLEAN,
           prev : {"none", "on", "off"}, fired : BOOLEAN,
           since : {"none", "fresh", "stable"}, watch : BOOLEAN]

\* What a step of the listener has to keep: its own variables have their types, it knows of
\* the sound, and the order of the episodes stays.
LEMMA Moves ==
    ASSUME ListenerInv, NEW p, Go(p), UNCHANGED <<cfg, relay, world>>,
           p \in {"poll", "gate", "valve", "watch", "confirm", "raise", "siren"},
           cfg.gui => p = "poll",
           pc # "over",
           sound' \in {"none", "song", "siren"}, gate' \in {"none", "open"},
           me' \in Memory,
           me'.last = me.last,
           rung' = rung,
           KnownSound'
    PROVE  ListenerInv'
<1> USE BoundAssumption
<1>1. /\ resp' \in [alert : Alert, armed : BOOLEAN] /\ pc' = p
      /\ resp'.alert.ts <= resp.alert.ts
  BY GoTypes DEF ListenerInv
<1>2. TypeOK'
  BY <1>1 DEF ListenerInv, TypeOK, Memory, relay, world
<1>3. Placed'
  BY <1>1 DEF Placed
<1>4. InOrder'
  BY <1>1, <1>2 DEF ListenerInv, InOrder, relay, TypeOK, Alert, Memory
<1>5. Remembered'
  BY <1>1 DEF ListenerInv, Remembered
<1> QED
  BY <1>2, <1>3, <1>4, <1>5 DEF ListenerInv

\* An episode that begins: it is remembered, and sounded only if it was not before.
LEMMA Begins ==
    ASSUME ListenerInv, pc = "episode", ShouldPlay, ~cfg.gui,
           NEW p \in {"poll", "gate", "valve"}, Go(p), UNCHANGED <<cfg, relay, world, gate>>,
           \/ /\ me' = EpisodeOf(A) /\ UNCHANGED <<sound, rung>>
           \/ /\ me' = [EpisodeOf(A) EXCEPT !.on = TRUE, !.long = FALSE]
              /\ sound' = SoundOf(A)
              /\ rung' = rung \cup {A.ts}
    PROVE  ListenerInv' /\ A.ts \notin rung
<1> USE BoundAssumption
<1>1. /\ resp' \in [alert : Alert, armed : BOOLEAN] /\ pc' = p
      /\ resp'.alert.ts <= resp.alert.ts
  BY GoTypes DEF ListenerInv
<1>2. /\ A \in Alert /\ A.ts \in 0 .. MaxAlerts /\ alert.ts \in 0 .. MaxAlerts
      /\ resp'.alert.ts \in 0 .. MaxAlerts
  BY <1>1 DEF ListenerInv, TypeOK, Alert, A
<1>3. me \in Memory /\ me.last \in 0 .. MaxAlerts
  BY DEF ListenerInv, TypeOK, Memory
\* Answers come in order: the new episode is later than the one remembered.
<1>4. me.last < A.ts /\ A.ts <= alert.ts /\ A.ts \in 1 .. MaxAlerts
  BY <1>2, <1>3 DEF ListenerInv, InOrder, ShouldPlay, A
<1>5. \A ts \in rung : ts <= me.last /\ ts \in 1 .. MaxAlerts
  BY DEF ListenerInv, Remembered, TypeOK
<1>6. A.ts \notin rung
  BY <1>3, <1>4, <1>5
<1>7. me' \in Memory /\ me'.last = A.ts /\ (sound' = sound => me'.on = me.on \/ me'.on)
  BY <1>2, <1>3 DEF Memory, EpisodeOf
<1>8. rung' \subseteq 1 .. MaxAlerts /\ \A ts \in rung' : ts <= A.ts
  BY <1>3, <1>4, <1>5
<1>9. sound' \in {"none", "song", "siren"}
  BY DEF ListenerInv, TypeOK, SoundOf
<1>10. TypeOK'
  BY <1>1, <1>7, <1>8, <1>9 DEF ListenerInv, TypeOK, Memory, relay, world
<1>11. KnownSound'
  BY <1>3, <1>7 DEF ListenerInv, KnownSound, EpisodeOf, Memory
<1>12. InOrder'
  <2>1. resp'.alert.ts <= alert.ts
    BY <1>1, <1>2, <1>4 DEF A
  <2> QED
    BY <1>1, <1>4, <1>7, <2>1 DEF InOrder, relay
<1>13. Remembered' /\ Placed'
  BY <1>1, <1>7, <1>8 DEF Remembered, Placed
<1> QED
  BY <1>6, <1>10, <1>11, <1>12, <1>13 DEF ListenerInv

\* The steps of an episode: the command line's (_relay_episode_should_play, the gate and the
\* valve), and those of RelayService.
LEMMA EpisodeKept ==
    ASSUME ListenerInv,
           \/ EpisodeSilent \/ EpisodeElsewhere \/ EpisodeRings \/ EpisodeHeld
           \/ EpisodeCleared \/ EpisodeGoesOn \/ Gate \/ Valve
           \/ ServiceAlert \/ ServiceCleared \/ ServiceGoesOn
    PROVE  ListenerInv'
<1>1. /\ me \in Memory /\ sound \in {"none", "song", "siren"} /\ gate \in {"none", "open"}
      /\ cfg.gui \in BOOLEAN /\ cfg.pin \in BOOLEAN
  BY DEF ListenerInv, TypeOK, Memory, Config
<1>2. KnownSound /\ Placed
  BY DEF ListenerInv
<1>3. AfterEpisode \in {"gate", "valve"}
  BY DEF AfterEpisode
<1>4. CASE EpisodeSilent
  BY <1>4, Begins DEF EpisodeSilent, Episode
<1>5. CASE EpisodeElsewhere
  BY <1>3, <1>5, Begins DEF EpisodeElsewhere, Episode
<1>6. CASE EpisodeRings
  BY <1>3, <1>6, Begins DEF EpisodeRings, Episode
<1>7. CASE EpisodeHeld
  BY <1>7, Begins DEF EpisodeHeld, Episode
<1>8. CASE EpisodeCleared
  <2>1. me' \in Memory /\ me'.last = me.last /\ KnownSound'
    BY <1>1, <1>8 DEF EpisodeCleared, Memory, KnownSound
  <2> QED
    BY <1>1, <1>8, <2>1, Moves DEF EpisodeCleared, Episode
<1>9. CASE EpisodeGoesOn
  <2>1. KnownSound'
    BY <1>2, <1>9 DEF EpisodeGoesOn, KnownSound
  <2> QED
    BY <1>1, <1>9, <2>1, Moves DEF EpisodeGoesOn, Episode
<1>10. CASE Gate
  <2>1. KnownSound' /\ ~cfg.gui /\ gate' \in {"none", "open"}
    BY <1>1, <1>2, <1>10 DEF Gate, KnownSound, Placed
  <2> QED
    BY <1>1, <1>10, <2>1, Moves DEF Gate
<1>11. CASE Valve
  <2>1. /\ me' \in Memory /\ me'.last = me.last /\ ~cfg.gui
        /\ sound' \in {"none", "song", "siren"}
    BY <1>1, <1>2, <1>11 DEF Valve, Memory, Placed
  <2>2. KnownSound'
    BY <1>1, <1>2, <1>11, <2>1 DEF Valve, KnownSound, Memory
  <2> QED
    BY <1>1, <1>11, <2>1, <2>2, Moves DEF Valve
<1>12. CASE ServiceAlert
  <2>1. /\ me' \in Memory /\ me'.last = me.last /\ cfg.gui
        /\ sound' \in {"none", "song", "siren"}
    BY <1>1, <1>12 DEF ServiceAlert, Service, Memory
  <2>2. KnownSound'
    BY <1>1, <1>2, <1>12, <2>1 DEF ServiceAlert, KnownSound, Memory
  <2> QED
    BY <1>1, <1>12, <2>1, <2>2, Moves DEF ServiceAlert, Service
<1>13. CASE ServiceCleared
  <2>1. me' \in Memory /\ me'.last = me.last /\ KnownSound'
    BY <1>1, <1>13 DEF ServiceCleared, Memory, KnownSound
  <2> QED
    BY <1>1, <1>13, <2>1, Moves DEF ServiceCleared, Service
<1>14. CASE ServiceGoesOn
  <2>1. KnownSound'
    BY <1>2, <1>14 DEF ServiceGoesOn, KnownSound
  <2> QED
    BY <1>1, <1>14, <2>1, Moves DEF ServiceGoesOn, Service
<1> QED
  BY <1>4, <1>5, <1>6, <1>7, <1>8, <1>9, <1>10, <1>11, <1>12, <1>13, <1>14

\* The steps of the charger watch, which the desktop application does not have.
LEMMA WatchKept ==
    ASSUME ListenerInv,
           \/ WatchOff \/ WatchOn \/ WatchUnplugged \/ WatchLost \/ WatchHiccup
           \/ WatchConfirms \/ WatchSiren \/ WatchError
    PROVE  ListenerInv'
<1>1. /\ me \in Memory /\ sound \in {"none", "song", "siren"} /\ gate \in {"none", "open"}
      /\ KnownSound
  BY DEF ListenerInv, TypeOK, Memory
<1>2. pc \in {"watch", "confirm", "siren"}
  BY DEF WatchOff, WatchOn, WatchUnplugged, WatchLost, WatchHiccup, WatchConfirms, WatchSiren,
         WatchError
<1>3. ~cfg.gui
  BY <1>2 DEF ListenerInv, Placed
<1>4. me' \in Memory /\ me'.last = me.last
  <2>1. CASE WatchOff
    BY <1>1, <2>1 DEF WatchOff, Memory
  <2>2. CASE WatchOn
    BY <1>1, <2>2 DEF WatchOn, Charging, Memory
  <2>3. CASE WatchUnplugged \/ WatchHiccup \/ WatchSiren
    BY <1>1, <2>3 DEF WatchUnplugged, WatchHiccup, WatchSiren, Uncharged, Memory
  <2>4. CASE WatchLost \/ WatchConfirms \/ WatchError
    BY <1>1, <2>4 DEF WatchLost, WatchConfirms, WatchError, Uncharged, Memory
  <2> QED
    BY <2>1, <2>2, <2>3, <2>4
<1>5. sound' \in {"none", "song", "siren"} /\ gate' = gate /\ rung' = rung
  BY <1>1 DEF WatchOff, WatchOn, WatchUnplugged, WatchLost, WatchHiccup, WatchConfirms,
              WatchSiren, WatchError
<1>6. KnownSound'
  <2>1. CASE WatchOff
    BY <1>1, <2>1 DEF WatchOff, Memory, KnownSound
  <2>2. CASE WatchOn
    BY <1>1, <1>3, <2>2 DEF WatchOn, Charging, Memory, KnownSound
  <2>3. CASE WatchUnplugged \/ WatchHiccup
    BY <1>1, <2>3 DEF WatchUnplugged, WatchHiccup, Uncharged, Memory, KnownSound
  <2>4. CASE WatchSiren
    BY <1>1, <1>3, <2>4 DEF WatchSiren, Uncharged, Memory, KnownSound
  <2>5. CASE WatchLost \/ WatchConfirms \/ WatchError
    BY <1>1, <2>5 DEF WatchLost, WatchConfirms, WatchError, Memory, KnownSound
  <2> QED
    BY <2>1, <2>2, <2>3, <2>4, <2>5
<1>7. PICK p \in {"poll", "confirm", "raise"} : Go(p) /\ UNCHANGED <<cfg, relay, world>>
  BY DEF WatchOff, WatchOn, WatchUnplugged, WatchLost, WatchHiccup, WatchConfirms, WatchSiren,
         WatchError
<1> QED
  BY <1>1, <1>2, <1>3, <1>4, <1>5, <1>6, <1>7, Moves

\* The alert the watch raises is a later one.
LEMMA RaiseKept ==
    ASSUME ListenerInv, WatchRaises
    PROVE  ListenerInv'
<1> USE BoundAssumption
<1>1. /\ resp' \in [alert : Alert, armed : BOOLEAN] /\ pc' = "siren"
      /\ resp'.alert.ts <= resp.alert.ts
  BY GoTypes DEF WatchRaises, ListenerInv
<1>2. alert' \in Alert /\ alert.ts <= alert'.ts
  <2>1. alert \in Alert /\ alert.ts \in Nat
    BY DEF ListenerInv, TypeOK, Alert
  <2>2. CASE alert' = alert
    BY <2>1, <2>2
  <2>3. CASE alert.ts < MaxAlerts /\ alert' = NewAlert("THIEF_ALERT")
    BY <2>1, <2>3 DEF NewAlert, Alert, Type
  <2> QED
    BY <2>2, <2>3 DEF WatchRaises
<1>3. /\ alert.ts \in Nat /\ alert'.ts \in Nat /\ resp.alert.ts \in Nat
      /\ resp'.alert.ts \in Nat /\ me.last \in Nat
  BY <1>1, <1>2 DEF ListenerInv, TypeOK, Alert
<1>4. TypeOK'
  BY <1>1, <1>2 DEF WatchRaises, ListenerInv, TypeOK, world
<1>5. Placed' /\ KnownSound' /\ Remembered'
  BY <1>1 DEF WatchRaises, ListenerInv, Placed, KnownSound, Remembered
<1>6. InOrder'
  BY <1>1, <1>2, <1>3 DEF WatchRaises, ListenerInv, InOrder
<1> QED
  BY <1>4, <1>5, <1>6 DEF ListenerInv

\* The poll that is answered, the registration and the end of the listener.
LEMMA PollKept ==
    ASSUME ListenerInv, PollAnswered \/ Reregister \/ Ends
    PROVE  ListenerInv'
<1> USE BoundAssumption
<1>1. CASE PollAnswered
  <2>1. TypeOK'
    BY <1>1 DEF PollAnswered, ListenerInv, TypeOK, Answer, relay, world
  <2>2. Placed' /\ KnownSound' /\ Remembered'
    BY <1>1 DEF PollAnswered, ListenerInv, Placed, KnownSound, Remembered
  <2>3. InOrder'
    BY <1>1 DEF PollAnswered, ListenerInv, InOrder, Answer, A, relay, TypeOK, Alert
  <2> QED
    BY <2>1, <2>2, <2>3 DEF ListenerInv
<1>2. CASE Reregister
  <2>1. alert' \in Alert /\ alert'.ts = alert.ts
    BY <1>2 DEF Reregister, NoAlert, Alert, Type, ListenerInv, TypeOK
  <2>2. {armed', plug', thiefLock'} \subseteq BOOLEAN
    BY <1>2 DEF Reregister, ListenerInv, TypeOK, world
  <2>3. TypeOK'
    BY <1>2, <2>1, <2>2 DEF Reregister, ListenerInv, TypeOK
  <2>4. Placed' /\ KnownSound' /\ Remembered'
    BY <1>2 DEF Reregister, ListenerInv, Placed, KnownSound, Remembered
  <2>5. InOrder'
    BY <1>2, <2>1 DEF Reregister, ListenerInv, InOrder
  <2> QED
    BY <2>3, <2>4, <2>5 DEF ListenerInv
<1>3. CASE Ends
  <2>1. /\ resp' \in [alert : Alert, armed : BOOLEAN] /\ pc' = "over"
        /\ resp'.alert.ts <= resp.alert.ts
    BY <1>3, GoTypes DEF Ends, ListenerInv
  <2>2. NewListener \in Memory /\ NewListener.last = 0
    BY DEF NewListener, Memory
  <2>3. TypeOK'
    BY <1>3, <2>1, <2>2 DEF Ends, ListenerInv, TypeOK, Memory, relay, world
  <2>4. Placed' /\ KnownSound' /\ Remembered'
    BY <1>3, <2>1 DEF Ends, Placed, KnownSound, Remembered
  <2>5. alert.ts \in Nat /\ resp.alert.ts \in Nat /\ resp'.alert.ts \in Nat
    BY <2>1 DEF ListenerInv, TypeOK, Alert
  <2>6. InOrder'
    BY <1>3, <2>1, <2>2, <2>5 DEF Ends, ListenerInv, InOrder, relay
  <2> QED
    BY <2>3, <2>4, <2>6 DEF ListenerInv
<1> QED
  BY <1>1, <1>2, <1>3

\* The relay, the owner, the charger, the catcher and time: an alert's stamp never falls.
LEMMA EnvironmentKept ==
    ASSUME ListenerInv, Environment
    PROVE  ListenerInv'
<1> USE BoundAssumption
<1>1. /\ me \in Memory /\ sound \in {"none", "song", "siren"} /\ alert \in Alert
      /\ alert.ts \in Nat /\ arms \in 0 .. MaxArms
  BY DEF ListenerInv, TypeOK, Memory, Alert
<1>2. UNCHANGED <<cfg, gate, pc, resp, rung>>
  BY DEF Environment, Raise, Clear, ArmAccount, DisarmAccount, TokenLost, Charger, Catcher,
         SongEnds, AlertAges, SoundAges, ChargeAges, relay, world
<1>3. alert' \in Alert /\ alert.ts <= alert'.ts
  <2>1. CASE \E type \in Type : Raise(type)
    BY <1>1, <2>1 DEF Raise, NewAlert, Alert
  <2>2. CASE Clear \/ DisarmAccount
    <3>1. alert' \in Alert /\ alert'.ts = alert.ts
      BY <1>1, <2>2 DEF Clear, DisarmAccount, NoAlert, Alert, Type
    <3> QED
      BY <1>1, <3>1
  <2>3. CASE AlertAges
    <3>1. alert' \in Alert /\ alert'.ts = alert.ts
      BY <1>1, <2>3 DEF AlertAges, Alert
    <3> QED
      BY <1>1, <3>1
  <2>4. CASE alert' = alert
    BY <1>1, <2>4 DEF Alert
  <2> QED
    BY <2>1, <2>2, <2>3, <2>4 DEF Environment, ArmAccount, TokenLost, Charger, Catcher,
       SongEnds, SoundAges, ChargeAges, relay
<1>4. me' \in Memory /\ me'.last = me.last /\ me'.on = me.on /\ me'.seen = me.seen
  <2>1. CASE SoundAges \/ ChargeAges
    BY <1>1, <2>1 DEF SoundAges, ChargeAges, Memory
  <2>2. CASE me' = me
    BY <1>1, <2>2
  <2> QED
    BY <2>1, <2>2 DEF Environment, Raise, Clear, ArmAccount, DisarmAccount, TokenLost, Charger,
       Catcher, SongEnds, AlertAges
<1>5. sound' \in {sound, "none"}
  BY DEF Environment, Raise, Clear, ArmAccount, DisarmAccount, TokenLost, Charger, Catcher,
         SongEnds, AlertAges, SoundAges, ChargeAges
<1>6. arms' \in 0 .. MaxArms
  BY <1>1 DEF Environment, Raise, Clear, ArmAccount, DisarmAccount, TokenLost, Charger,
         Catcher, SongEnds, AlertAges, SoundAges, ChargeAges, relay
<1>7. {armed', plug', thiefLock'} \subseteq BOOLEAN /\ token' \in {"ours", "unknown", "fresh"}
  BY DEF ListenerInv, TypeOK, Environment, Raise, Clear, ArmAccount, DisarmAccount, TokenLost,
         Charger, Catcher, SongEnds, AlertAges, SoundAges, ChargeAges, relay, world
<1>8. TypeOK'
  BY <1>1, <1>2, <1>3, <1>4, <1>5, <1>6, <1>7 DEF ListenerInv, TypeOK, Memory
<1>9. Placed' /\ KnownSound' /\ Remembered'
  BY <1>2, <1>4, <1>5 DEF ListenerInv, Placed, KnownSound, Remembered
<1>10. InOrder'
  <2>1. alert.ts \in Nat /\ alert'.ts \in Nat /\ resp.alert.ts \in Nat /\ me.last \in Nat
    BY <1>1, <1>3 DEF ListenerInv, TypeOK, Alert, Memory
  <2> QED
    BY <1>2, <1>3, <1>4, <2>1 DEF ListenerInv, InOrder, A
<1> QED
  BY <1>8, <1>9, <1>10 DEF ListenerInv

\* The listener starts quiet.
LEMMA StartsQuiet == Init => ListenerInv
<1> USE BoundAssumption, ConfigAssumption
<1> SUFFICES ASSUME Init
             PROVE  ListenerInv
  OBVIOUS
<1>1. NoAlert \in Alert /\ NoAlert.ts = 0 /\ NewListener \in Memory /\ NewListener.last = 0
  BY DEF NoAlert, Alert, Type, NewListener, Memory
<1>2. TypeOK
  <2>1. {armed, plug, thiefLock} \subseteq BOOLEAN
    BY DEF Init
  <2>2. resp \in [alert : Alert, armed : BOOLEAN] /\ alert \in Alert /\ me \in Memory
    BY <1>1 DEF Init, Answer
  <2>3. cfg \in Config /\ arms \in 0 .. MaxArms
    BY DEF Init
  <2> QED
    BY <2>1, <2>2, <2>3 DEF Init, TypeOK, Memory
<1>3. Placed /\ KnownSound /\ Remembered /\ InOrder
  BY <1>1 DEF Init, Placed, KnownSound, Remembered, InOrder, Answer
<1> QED
  BY <1>2, <1>3 DEF ListenerInv

\* Every step keeps what is true of the listener.
LEMMA ListenerStep == ListenerInv /\ [Next]_vars => ListenerInv'
<1> SUFFICES ASSUME ListenerInv, [Next]_vars
             PROVE  ListenerInv'
  OBVIOUS
<1>1. CASE UNCHANGED vars
  BY <1>1 DEF ListenerInv, TypeOK, Placed, KnownSound, InOrder, Remembered, A, vars, relay,
              world
<1> QED
  BY <1>1, EpisodeKept, WatchKept, RaiseKept, PollKept, EnvironmentKept DEF Next, Listener

\* The listener knows of every sound it makes, and takes the alerts in their order, whatever
\* the relay, the owner, the charger and the thief catcher do between its steps (cli.py,
\* gui/services.py).
THEOREM Listens == Spec => []ListenerInv
<1> QED
  BY StartsQuiet, ListenerStep, PTL DEF Spec

\* An alert is sounded once, however long it stays: neither the safety valve, a re-plugged
\* charger nor the end of a song makes the same episode ring again (_relay_episode_should_play).
THEOREM RingsOnce == Spec => SoundedOnce
<1>1. ListenerInv /\ [Next]_vars => [EpisodeRings => A.ts \notin rung]_vars
  <2> SUFFICES ASSUME ListenerInv, EpisodeRings
               PROVE  A.ts \notin rung
    OBVIOUS
  <2>1. AfterEpisode \in {"gate", "valve"}
    BY DEF AfterEpisode
  <2> QED
    BY <2>1, Begins DEF EpisodeRings, Episode
<1> QED
  BY <1>1, Listens, PTL DEF Spec, SoundedOnce

-----------------------------------------------------------------------------
(* One listener: relay.lock, which a process takes before it polls.         *)

\* The four parts that speak of behaviours without a race (acquire and release).
Exclusive == OneStarter /\ HolderNamed /\ TakesFree /\ WritesItsFile

\* The file, the program counters and what was read keep their types (guardlock.py).
LEMMA LockTypeKept ==
    ASSUME LockTypeOK, [LockNext]_lockVars
    PROVE  LockTypeOK'
<1> USE PidAssumption, ImplAssumption, CrashAssumption
<1>1. CASE UNCHANGED lockVars
  BY <1>1 DEF LockTypeOK, lockVars
<1>2. ASSUME NEW p \in Pid, Process(p)
      PROVE  LockTypeOK'
  <2>1. CASE Start(p)
    BY <2>1 DEF LockTypeOK, Start, GoesTo, Label
  <2>2. CASE Exists(p)
    BY <2>2 DEF LockTypeOK, Exists, GoesTo, Label
  <2>3. CASE ReadPid(p)
    BY <2>3 DEF LockTypeOK, ReadPid, GoesTo, Label
  <2>4. CASE Busy(p)
    BY <2>4 DEF LockTypeOK, Busy, GoesTo, Label
  <2>5. CASE TakeOver(p)
    BY <2>5 DEF LockTypeOK, TakeOver, GoesTo, Label
  <2>6. CASE Unlink(p)
    BY <2>6 DEF LockTypeOK, Unlink, Remove, Label
  <2>7. CASE Open(p)
    BY <2>7 DEF LockTypeOK, Open, GoesTo, Label
  <2>8. CASE Write(p)
    BY <2>8 DEF LockTypeOK, Write, GoesTo, Label
  <2>9. CASE Release(p)
    BY <2>9 DEF LockTypeOK, Release, GoesTo, Label
  <2>10. CASE ReleaseExists(p)
    BY <2>10 DEF LockTypeOK, ReleaseExists, GoesTo, Label
  <2>11. CASE ReleaseRead(p)
    BY <2>11 DEF LockTypeOK, ReleaseRead, GoesTo, Label
  <2>12. CASE ReleaseUnlink(p)
    BY <2>12 DEF LockTypeOK, ReleaseUnlink, Remove, Label
  <2>13. CASE Dies(p)
    <3>1. crashes' \in 0 .. MaxCrashes
      <4>1. CASE crashes < MaxCrashes /\ crashes' = crashes + 1
        BY <4>1 DEF LockTypeOK
      <4>2. CASE crashes' = crashes
        BY <4>2 DEF LockTypeOK
      <4> QED
        BY <2>13, <4>1, <4>2 DEF Dies
    <3> QED
      BY <2>13, <3>1 DEF LockTypeOK, Dies, GoesTo, Label
  <2>14. CASE Stranger(p)
    BY <2>14 DEF LockTypeOK, Stranger, GoesTo, Label
  <2> QED
    BY <1>2, <2>1, <2>2, <2>3, <2>4, <2>5, <2>6, <2>7, <2>8, <2>9, <2>10, <2>11, <2>12, <2>13,
       <2>14 DEF Process, Call
<1> QED
  BY <1>1, <1>2 DEF LockNext

\* A step that moves process p alone, and neither the file nor raced, keeps the four parts if
\* it keeps those that speak of p (the looks of acquire and release at the file).
LEMMA StarterMoves ==
    ASSUME LockTypeOK, Exclusive, NEW p \in Pid,
           file' = file, raced' = raced,
           \A q \in Pid \ {p} : at'[q] = at[q] /\ seen'[q] = seen[q],
           Acquiring(p)' => Acquiring(p),
           Holds(p)' => Holds(p),
           at'[p] # "lost",
           ~raced /\ Acquiring(p)' => \A q \in Pid : Holds(q) =>
                at'[p] \in {"exists?", "read", "alive?"} /\ (at'[p] = "alive?" => seen'[p] = q)
    PROVE  Exclusive'
<1> SUFFICES ASSUME ~raced
             PROVE  Exclusive'
  BY DEF Exclusive, OneStarter, HolderNamed, TakesFree, WritesItsFile
<1>0. \A q \in Pid : (Acquiring(q)' => Acquiring(q)) /\ (Holds(q)' => Holds(q))
  BY DEF Acquiring, Holds, Releasing, At
<1>1. OneStarter'
  BY <1>0 DEF Exclusive, OneStarter
<1>2. HolderNamed'
  BY <1>0 DEF Exclusive, HolderNamed
<1>3. TakesFree'
  <2> SUFFICES ASSUME NEW q \in Pid, NEW h \in Pid, Acquiring(q)', Holds(h)'
               PROVE  /\ at'[q] \in {"exists?", "read", "alive?"}
                      /\ at'[q] = "alive?" => seen'[q] = h
    BY DEF TakesFree, At
  <2>1. CASE q = p
    BY <1>0, <2>1
  <2>2. CASE q # p
    BY <1>0, <2>2 DEF Exclusive, TakesFree, At
  <2> QED
    BY <2>1, <2>2
<1>4. WritesItsFile'
  BY DEF Exclusive, WritesItsFile, At
<1> QED
  BY <1>1, <1>2, <1>3, <1>4 DEF Exclusive

\* Every step keeps one starter, and one holder whom the file names (acquire, release).
LEMMA ExclusiveKept ==
    ASSUME LockTypeOK, Exclusive, [LockNext]_lockVars
    PROVE  Exclusive'
<1> USE PidAssumption
<1>1. CASE UNCHANGED lockVars
  BY <1>1 DEF Exclusive, OneStarter, HolderNamed, TakesFree, WritesItsFile, lockVars, Acquiring,
              Holds, Releasing, At
<1>2. ASSUME NEW p \in Pid, Process(p)
      PROVE  Exclusive'
  <2>1. CASE Start(p)
    \* The race is over when nobody starts, and nobody holds what came of it.
    <3> SUFFICES ASSUME ~raced'
                 PROVE  Exclusive'
      BY DEF Exclusive, OneStarter, HolderNamed, TakesFree, WritesItsFile
    <3>1. /\ \A q \in Pid : ~Acquiring(q) /\ (raced => ~Holds(q))
          /\ at' = [at EXCEPT ![p] = "exists?"] /\ file' = file /\ seen' = seen
      BY <2>1 DEF Start, GoesTo
    <3>2. \A q \in Pid : (Acquiring(q)' => q = p) /\ (Holds(q)' => Holds(q))
      BY <3>1 DEF LockTypeOK, Acquiring, Holds, Releasing, At
    <3>3. at'[p] = "exists?"
      BY <3>1 DEF LockTypeOK
    <3>4. HolderNamed'
      BY <3>1, <3>2 DEF Exclusive, HolderNamed
    <3>5. TakesFree'
      BY <3>2, <3>3 DEF TakesFree, At
    <3>6. WritesItsFile'
      BY <3>2, <3>3 DEF WritesItsFile, At, Acquiring
    <3> QED
      BY <3>2, <3>4, <3>5, <3>6 DEF Exclusive, OneStarter
  <2>2. CASE Exists(p)
    \* A holder's PID is in the file, so the file is there.
    <3>1. ~raced => \A q \in Pid : Holds(q) => file # None
      BY DEF Exclusive, HolderNamed
    <3> QED
      BY <2>2, <3>1, StarterMoves DEF Exists, GoesTo, LockTypeOK, Acquiring, Holds, Releasing, At
  <2>3. CASE ReadPid(p)
    <3>1. ~raced => \A q \in Pid : Holds(q) => file = q
      BY DEF Exclusive, HolderNamed
    <3> QED
      BY <2>3, <3>1, StarterMoves DEF ReadPid, GoesTo, LockTypeOK, Acquiring, Holds, Releasing, At
  <2>4. CASE Busy(p)
    BY <2>4, StarterMoves DEF Busy, GoesTo, LockTypeOK, Acquiring, Holds, Releasing, At
  <2>5. CASE TakeOver(p)
    \* The starter read the PID of the holder, who lives: nobody holds the lock.
    <3>1. ~raced => \A q \in Pid : ~Holds(q)
      <4> SUFFICES ASSUME ~raced, NEW q \in Pid, Holds(q)
                   PROVE  FALSE
        OBVIOUS
      <4>1. Acquiring(p) /\ At(p, "alive?") /\ ~PidAlive(seen[p])
        BY <2>5 DEF TakeOver, Stale, Acquiring, At
      <4>2. seen[p] = q
        BY <4>1 DEF Exclusive, TakesFree
      <4>3. PidAlive(q)
        BY DEF PidAlive, Holds, Releasing, At
      <4> QED
        BY <4>1, <4>2, <4>3
    <3> QED
      BY <2>5, <3>1, StarterMoves
         DEF TakeOver, GoesTo, LockTypeOK, Acquiring, Holds, Releasing, At
  <2>6. CASE Unlink(p)
    <3> SUFFICES ASSUME ~raced
                 PROVE  Exclusive'
      BY <2>6 DEF Unlink, Exclusive, OneStarter, HolderNamed, TakesFree, WritesItsFile
    <3>1. Acquiring(p) /\ at[p] = "unlink"
      BY <2>6 DEF Unlink, At, Acquiring
    <3>2. \A q \in Pid : ~Holds(q) /\ (Acquiring(q) => q = p)
      BY <3>1 DEF Exclusive, TakesFree, OneStarter
    <3>3. \A q \in Pid : at[q] # "write"
      BY <3>1, <3>2 DEF Acquiring
    <3>4. at' = [at EXCEPT ![p] = "open"] /\ UNCHANGED <<seen, raced>>
      BY <2>6, <3>3 DEF Unlink, Remove, At, LockTypeOK
    <3>5. \A q \in Pid : ~Holds(q)' /\ (Acquiring(q)' => q = p) /\ at'[q] # "lost"
      BY <3>2, <3>4 DEF LockTypeOK, Exclusive, WritesItsFile, Holds, Releasing, Acquiring, At
    <3> QED
      BY <3>5 DEF Exclusive, OneStarter, HolderNamed, TakesFree, WritesItsFile, At
  <2>7. CASE Open(p)
    <3> SUFFICES ASSUME ~raced
                 PROVE  Exclusive'
      BY <2>7 DEF Open, Exclusive, OneStarter, HolderNamed, TakesFree, WritesItsFile
    <3>1. Acquiring(p) /\ at[p] = "open"
      BY <2>7 DEF Open, At, Acquiring
    <3>2. \A q \in Pid : ~Holds(q) /\ (Acquiring(q) => q = p)
      BY <3>1 DEF Exclusive, TakesFree, OneStarter
    <3>3. at' = [at EXCEPT ![p] = "write"] /\ UNCHANGED <<seen, raced>>
      BY <2>7 DEF Open, GoesTo
    <3>4. \A q \in Pid : ~Holds(q)' /\ (Acquiring(q)' => q = p) /\ at'[q] # "lost"
      BY <3>2, <3>3 DEF LockTypeOK, Exclusive, WritesItsFile, Holds, Releasing, Acquiring, At
    <3> QED
      BY <3>4 DEF Exclusive, OneStarter, HolderNamed, TakesFree, WritesItsFile, At
  <2>8. CASE Write(p)
    <3> SUFFICES ASSUME ~raced
                 PROVE  Exclusive'
      BY <2>8 DEF Write, Exclusive, OneStarter, HolderNamed, TakesFree, WritesItsFile
    <3>1. Acquiring(p) /\ at[p] = "write"
      BY <2>8 DEF Write, At, Acquiring, Exclusive, WritesItsFile
    <3>2. \A q \in Pid : ~Holds(q) /\ (Acquiring(q) => q = p)
      BY <3>1 DEF Exclusive, TakesFree, OneStarter
    <3>3. at' = [at EXCEPT ![p] = "held"] /\ file' = p /\ UNCHANGED <<seen, raced>>
      BY <2>8, <3>1 DEF Write, GoesTo, At
    <3>4. \A q \in Pid : (Holds(q)' => q = p) /\ ~Acquiring(q)'
      BY <3>2, <3>3 DEF LockTypeOK, Holds, Releasing, Acquiring, At
    <3> QED
      BY <3>3, <3>4 DEF Exclusive, OneStarter, HolderNamed, TakesFree, WritesItsFile, At,
                        Acquiring
  <2>9. CASE Release(p)
    BY <2>9, StarterMoves DEF Release, GoesTo, LockTypeOK, Acquiring, Holds, Releasing, At
  <2>10. CASE ReleaseExists(p)
    BY <2>10, StarterMoves DEF ReleaseExists, GoesTo, LockTypeOK, Acquiring, Holds, Releasing, At
  <2>11. CASE ReleaseRead(p)
    BY <2>11, StarterMoves DEF ReleaseRead, GoesTo, LockTypeOK, Acquiring, Holds, Releasing, At
  <2>12. CASE ReleaseUnlink(p)
    \* p is the only holder, and nobody who starts is further than reading the file.
    <3> SUFFICES ASSUME ~raced
                 PROVE  Exclusive'
      BY <2>12 DEF ReleaseUnlink, Exclusive, OneStarter, HolderNamed, TakesFree, WritesItsFile
    <3>1. Holds(p)
      BY <2>12 DEF ReleaseUnlink, Holds, Releasing, At
    <3>2. \A q \in Pid : Holds(q) => q = p
      BY <3>1 DEF Exclusive, HolderNamed
    <3>3. \A q \in Pid : at[q] # "write"
      BY <3>1 DEF Exclusive, TakesFree, Acquiring
    <3>4. at' = [at EXCEPT ![p] = "free"] /\ UNCHANGED <<seen, raced>>
      BY <2>12, <3>3 DEF ReleaseUnlink, Remove, At, LockTypeOK
    <3>5. \A q \in Pid : ~Holds(q)' /\ (Acquiring(q)' => Acquiring(q)) /\ at'[q] # "lost"
      BY <3>2, <3>4 DEF LockTypeOK, Exclusive, WritesItsFile, Holds, Releasing, Acquiring, At
    <3> QED
      BY <3>4, <3>5 DEF Exclusive, OneStarter, HolderNamed, TakesFree, WritesItsFile, At
  <2>13. CASE Dies(p)
    BY <2>13, StarterMoves DEF Dies, GoesTo, LockTypeOK, Acquiring, Holds, Releasing, At
  <2>14. CASE Stranger(p)
    BY <2>14, StarterMoves DEF Stranger, GoesTo, LockTypeOK, Acquiring, Holds, Releasing, At
  <2> QED
    BY <1>2, <2>1, <2>2, <2>3, <2>4, <2>5, <2>6, <2>7, <2>8, <2>9, <2>10, <2>11, <2>12, <2>13,
       <2>14 DEF Process, Call
<1> QED
  BY <1>1, <1>2 DEF LockNext

\* One process holds the lock at most, and the file names it, whatever crashed before and
\* whichever PIDs are used again, as long as no two starts overlap (guardlock.py, cli.py).
THEOREM OneHolder == LockSpec => []LockInv
<1>1. LockInit => LockInv
  <2> SUFFICES ASSUME LockInit
               PROVE  LockInv
    OBVIOUS
  <2>1. LockTypeOK
    <3>1. impl \in Impl
      BY ImplAssumption DEF LockInit
    <3>2. crashes \in 0 .. MaxCrashes
      BY CrashAssumption DEF LockInit
    <3>3. at \in [Pid -> Label] /\ seen \in [Pid -> Pid \cup {None, Empty}]
      BY DEF LockInit, Label
    <3> QED
      BY <3>1, <3>2, <3>3 DEF LockInit, LockTypeOK
  <2>2. \A p \in Pid : at[p] = "off"
    BY DEF LockInit
  <2>3. \A p \in Pid : ~Acquiring(p) /\ ~Holds(p) /\ ~At(p, "lost")
    BY <2>2 DEF Acquiring, Holds, Releasing, At
  <2> QED
    BY <2>1, <2>3 DEF LockInv, OneStarter, HolderNamed, TakesFree, WritesItsFile
<1>2. LockInv /\ [LockNext]_lockVars => LockInv'
  BY LockTypeKept, ExclusiveKept DEF LockInv, Exclusive
<1> QED
  BY <1>1, <1>2, PTL DEF LockSpec
=============================================================================
