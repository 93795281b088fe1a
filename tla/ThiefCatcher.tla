--------------------------- MODULE ThiefCatcher ----------------------------
(***************************************************************************)
(* The thief catcher of the laptop (battery_notifier/thief_catcher.py)     *)
(* with the PIN gate (alarm_gate.py) and the desktop service that arms and *)
(* disarms it (gui/services.py), or the command `battery-music arm`.       *)
(*                                                                         *)
(* Threads: the loop runs arm(); ui is the caller of ThiefService; each    *)
(* gate process has a watcher.  They share the fields of the catcher       *)
(* without a lock.  Calls of the player are atomic here (see Player), and  *)
(* so is a call to the relay on one route; the relay lets this laptop      *)
(* clear its own THIEF_ALERT with the PIN only (see RelayAccount).         *)
(***************************************************************************)
EXTENDS Integers, FiniteSets

CONSTANTS
    Configs,        \* the configurations considered
    Gate,           \* names for the gate processes
    MaxFailures,    \* MAX_READ_FAILURES
    MaxArms,        \* bound on the catchers made one after the other
    MaxFaults       \* bound on exceptions and on files or tools that fail

\* gui: ThiefService, else the command line.  worker: a worker_url is configured.  pin:
\* an alarm_pin is.  windows: the platform has KeepAwake and the gate.
\* other: another process is armed, and holds thief.lock.
Config == [mode : {"local", "relay", "both", "telegram"}, gui : BOOLEAN,
           route : {"both", "phone", "laptop", "phone_then_laptop"},
           worker : BOOLEAN, pin : BOOLEAN, force : BOOLEAN, windows : BOOLEAN,
           other : BOOLEAN]

ASSUME ConfigAssumption == Configs \subseteq Config
ASSUME BoundAssumption == MaxFailures \in Nat \ {0} /\ MaxArms \in Nat /\ MaxFaults \in Nat

VARIABLES
    cfg,        \* the configuration, read once
    plug,       \* is the charger connected?
    lockFile,   \* thief.lock: the process it names
    lid,        \* the lid-close action
    siren,      \* the catchers whose player plays
    catcher,    \* the fields of the current ThiefCatcher
    loop,       \* the local variables of arm()
    pc,         \* where the loop and the ui are
    gate,       \* the gate processes and their watchers
    gateLock,   \* gate.lock: the process it names
    bus,        \* the status bus says armed
    arms,       \* how many catchers were made
    faults,     \* how many faults happened
    known       \* history, see below

machine == <<plug, lid, lockFile>>
gates == <<gate, gateLock>>
vars == <<cfg, machine, siren, catcher, loop, pc, gates, bus, arms, faults, known>>

\* hold: the thread that blocks sleep runs; oldLid: a lid action is remembered; lock:
\* _thief_lock is set; gate: _gate_proc.
NewCatcher == [stop |-> FALSE, armed |-> FALSE, active |-> FALSE, lock |-> FALSE,
               hold |-> FALSE, oldLid |-> FALSE, gate |-> {}]

\* was: was_charging, and at first was_charging_at_arm; from: where an alert is triggered
NoLoop == [was |-> FALSE, fails |-> 0, from |-> "none"]

\* left: a catcher was replaced that had crashed and was never disarmed.  lidLost: the lid
\* is changed and no catcher remembers what it was.  cut: the process ended inside arm().
\* raised: the trigger raised out of arm() during or after the ui's disarm.
NothingKnown == [left |-> FALSE, lidLost |-> FALSE, cut |-> FALSE, raised |-> FALSE]

\* open: the window is up; w_siren: it ended with exit code 0, and its watcher stops the
\* siren; over: its watcher is gone, ended or killed with the process of the catcher.
NoGate == [at |-> "none", arm |-> 0]

Init ==
    /\ cfg \in Configs
    /\ plug \in BOOLEAN
    /\ lockFile = IF cfg.other THEN "other" ELSE "dead"
    /\ lid = "user"
    /\ siren = {}
    /\ catcher = NewCatcher
    /\ loop = NoLoop
    /\ pc = [loop |-> "off", ui |-> "idle"]
    /\ gate = [g \in Gate |-> NoGate]
    /\ gateLock = "none"
    /\ bus = FALSE
    /\ arms = 0
    /\ faults = 0
    /\ known = NothingKnown

At(t, p) == pc[t] = p
Go(t, p) == pc' = [pc EXCEPT ![t] = p]

\* routing.py
WantsLocal == cfg.route \in {"both", "laptop", "phone_then_laptop"}
WantsRelay == cfg.route \in {"both", "phone", "phone_then_laptop"}
\* WorkerClient is made for the modes relay and both only.
HasWorker == cfg.worker /\ cfg.mode \in {"relay", "both"}

\* One thing more goes wrong.
Fault == faults < MaxFaults /\ faults' = faults + 1

-----------------------------------------------------------------------------
(* arm(): from the call to the monitoring loop.                            *)

\* A new catcher, on a thread or in a process of its own.
Begins(ui, crashed) ==
    /\ At("loop", "off")
    /\ At("ui", "idle")
    /\ arms < MaxArms
    /\ arms' = arms + 1
    /\ catcher' = NewCatcher
    /\ loop' = NoLoop
    /\ pc' = [loop |-> "read", ui |-> ui]
    /\ known' = [left |-> known.left \/ crashed, lidLost |-> lid = "nothing", cut |-> FALSE,
                 raised |-> FALSE]
    /\ UNCHANGED <<cfg, machine, siren, gates, bus, faults>>

\* ThiefService.arm: a catcher whose thread is dead is replaced, disarmed or not.
ArmDesktop == cfg.gui /\ Begins("started", catcher.armed \/ arms \in siren)

\* `battery-music arm`
ArmConsole == ~cfg.gui /\ Begins("console", FALSE)

\* bus.update after the thread was started
Publish ==
    /\ At("ui", "started")
    /\ Go("ui", "idle")
    /\ bus' = TRUE
    /\ UNCHANGED <<cfg, machine, siren, catcher, loop, gates, arms, faults, known>>

ArmRefused ==
    /\ At("loop", "read")
    /\ Go("loop", "ending")
    /\ UNCHANGED <<cfg, machine, siren, catcher, loop, gates, bus, arms, faults, known>>

ArmAccepted ==
    /\ At("loop", "read")
    /\ plug \/ cfg.force
    /\ catcher' = [catcher EXCEPT !.armed = TRUE, !.active = FALSE]
    /\ loop' = [loop EXCEPT !.was = plug]
    /\ Go("loop", "lock")
    /\ UNCHANGED <<cfg, machine, siren, gates, bus, arms, faults, known>>

\* guardlock.acquire: a lock whose process is dead is taken over; one that names a live
\* process, this one included, is left alone.  Armed either way.
AcquireThiefLock ==
    /\ At("loop", "lock")
    /\ \/ /\ lockFile \in {"none", "dead"}
          /\ lockFile' = "us"
          /\ catcher' = [catcher EXCEPT !.lock = TRUE]
       \/ /\ lockFile \in {"us", "other"}
          /\ UNCHANGED <<lockFile, catcher>>
    /\ Go("loop", "hold")
    /\ UNCHANGED <<cfg, plug, lid, siren, loop, gates, bus, arms, faults, known>>

HoldAwake ==
    /\ At("loop", "hold")
    /\ catcher' = [catcher EXCEPT !.hold = cfg.windows]
    /\ Go("loop", "lid")
    /\ UNCHANGED <<cfg, machine, siren, loop, gates, bus, arms, faults, known>>

\* KeepAwake._set_lid_action: what it remembers is only assigned after both settings
\* were changed; when one of the two fails, the other stays changed.
SetLid ==
    /\ At("loop", "lid")
    /\ \/ /\ ~cfg.windows \/ lid = "nothing"
          /\ UNCHANGED <<lid, catcher, faults, known>>
       \/ /\ cfg.windows /\ lid = "user"
          /\ lid' = "nothing"
          /\ catcher' = [catcher EXCEPT !.oldLid = TRUE]
          /\ UNCHANGED <<faults, known>>
       \/ /\ cfg.windows /\ lid = "user"
          /\ Fault
          /\ lid' \in {"user", "nothing"}
          /\ known' = [known EXCEPT !.lidLost = @ \/ lid' = "nothing"]
          /\ UNCHANGED catcher
    /\ Go("loop", "grace")
    /\ UNCHANGED <<cfg, plug, lockFile, siren, loop, gates, bus, arms>>

GraceEnds ==
    /\ At("loop", "grace")
    /\ Go("loop", IF catcher.stop THEN "d_hold" ELSE "reread")
    /\ UNCHANGED <<cfg, machine, siren, catcher, loop, gates, bus, arms, faults, known>>

\* The read after the grace period; when it fails, the charger counts as connected.
Reread ==
    /\ At("loop", "reread")
    /\ \E now \in {plug, TRUE} :
          /\ loop' = [loop EXCEPT !.was = now, !.from = "grace"]
          /\ Go("loop", IF loop.was /\ ~now /\ ~catcher.active THEN "play" ELSE "poll")
    /\ UNCHANGED <<cfg, machine, siren, catcher, gates, bus, arms, faults, known>>

-----------------------------------------------------------------------------
(* The monitoring loop.                                                    *)

\* No alert is active at the 5th failure: the failsafe alarm.
Blind(fails) == fails >= MaxFailures /\ ~catcher.active

LoopError ==
    /\ loop' = [loop EXCEPT !.fails = IF @ < MaxFailures THEN @ + 1 ELSE @,
                            !.from = IF Blind(loop.fails + 1) THEN "blind" ELSE @]
    /\ Go("loop", IF Blind(loop.fails + 1) THEN "play" ELSE "sleep")

\* A mutant: the loop leaves the cleaning to the thread that told it to stop.
PollStoppedNoDisarm ==
    /\ At("loop", "poll")
    /\ catcher.stop
    /\ Go("loop", "ending")
    /\ UNCHANGED <<cfg, machine, siren, catcher, loop, gates, bus, arms, faults, known>>

\* A mutant: an active alert keeps the loop going.
PollStoppedWhenCalm ==
    /\ At("loop", "poll")
    /\ catcher.stop /\ ~catcher.active
    /\ Go("loop", "d_hold")
    /\ UNCHANGED <<cfg, machine, siren, catcher, loop, gates, bus, arms, faults, known>>

PollStopped ==
    /\ At("loop", "poll")
    /\ catcher.stop
    /\ Go("loop", "d_hold")
    /\ UNCHANGED <<cfg, machine, siren, catcher, loop, gates, bus, arms, faults, known>>

\* A mutant: a failed read is only logged.
PollFailsUncounted ==
    /\ At("loop", "poll")
    /\ ~catcher.stop
    /\ Go("loop", "sleep")
    /\ UNCHANGED <<cfg, machine, siren, catcher, loop, gates, bus, arms, faults, known>>

PollFails ==
    /\ At("loop", "poll")
    /\ ~catcher.stop
    /\ LoopError
    /\ UNCHANGED <<cfg, machine, siren, catcher, gates, bus, arms, faults, known>>

Unplugged == loop.was /\ ~plug /\ ~catcher.active
Replugged == ~loop.was /\ plug /\ catcher.active

PollReads ==
    /\ At("loop", "poll")
    /\ ~catcher.stop
    /\ \/ /\ Unplugged
          /\ loop' = [loop EXCEPT !.fails = 0, !.from = "loop"]
          /\ Go("loop", "play")
       \/ /\ Replugged
          /\ loop' = [loop EXCEPT !.fails = 0]
          /\ Go("loop", "s_siren")
       \/ /\ ~Unplugged /\ ~Replugged
          /\ loop' = [loop EXCEPT !.fails = 0, !.was = plug]
          /\ Go("loop", "sleep")
    /\ UNCHANGED <<cfg, machine, siren, catcher, gates, bus, arms, faults, known>>

Sleep ==
    /\ At("loop", "sleep")
    /\ Go("loop", "poll")
    /\ UNCHANGED <<cfg, machine, siren, catcher, loop, gates, bus, arms, faults, known>>

-----------------------------------------------------------------------------
(* _trigger_alert(), on the loop's thread.                                 *)

PlaySiren ==
    /\ At("loop", "play")
    /\ siren' = IF WantsLocal THEN siren \cup {arms} ELSE siren
    /\ Go("loop", "gate")
    /\ UNCHANGED <<cfg, machine, catcher, loop, gates, bus, arms, faults, known>>

\* spawn_gate: gate.lock names the process that spawned the first gate, and nothing ever
\* releases it: that process spawns no second one.
Free(g) == gate[g].at \in {"none", "over"}

SpawnGate ==
    /\ At("loop", "gate")
    /\ \/ /\ ~cfg.pin
          /\ UNCHANGED <<catcher, gate, gateLock>>
       \/ /\ cfg.pin
          /\ gateLock = "us"
          /\ catcher' = [catcher EXCEPT !.gate = {}]
          /\ UNCHANGED <<gate, gateLock>>
       \/ /\ cfg.pin
          /\ gateLock \in {"none", "dead"}
          /\ gateLock' = "us"
          /\ \E g \in {x \in Gate : Free(x)} :
                /\ gate' = [gate EXCEPT ![g] = [at |-> "open", arm |-> arms]]
                /\ catcher' = [catcher EXCEPT !.gate = {g}]
    /\ Go("loop", "send")
    /\ UNCHANGED <<cfg, machine, siren, loop, bus, arms, faults, known>>

\* Who is told: the Telegram bot, nobody, the relay, or a notification server.
ChooseChannel ==
    /\ At("loop", "send")
    /\ Go("loop", CASE cfg.mode = "telegram"   -> "bot"
                    [] cfg.mode # "telegram" /\ ~WantsRelay -> "rung"
                    [] cfg.mode # "telegram" /\ WantsRelay /\ HasWorker -> "relay"
                    [] OTHER -> "socket")
    /\ UNCHANGED <<cfg, machine, siren, catcher, loop, gates, bus, arms, faults, known>>

\* The relay on its two routes, and without an answer of either the server.  Failures of
\* the others are swallowed.
Tell ==
    /\ pc.loop \in {"bot", "relay", "socket"}
    /\ \/ Go("loop", "rung")
       \/ At("loop", "relay") /\ Go("loop", "socket")
    /\ UNCHANGED <<cfg, machine, siren, catcher, loop, gates, bus, arms, faults, known>>

\* The assignments after _trigger_alert returned.
SetActive ==
    /\ At("loop", "rung")
    /\ catcher' = [catcher EXCEPT !.active = TRUE]
    /\ loop' = [loop EXCEPT !.was = IF loop.from = "loop" THEN FALSE ELSE @]
    /\ Go("loop", IF loop.from = "grace" THEN "poll" ELSE "sleep")
    /\ UNCHANGED <<cfg, machine, siren, gates, bus, arms, faults, known>>

\* An exception of the trigger: in the loop it counts as a failure; in the grace period
\* and in the failsafe nothing catches it, and arm() ends as it stands.
TriggerRaises ==
    /\ pc.loop \in {"gate", "relay", "socket"}
    /\ Fault
    /\ \/ /\ loop.from = "loop"
          /\ LoopError
          /\ UNCHANGED known
       \/ /\ loop.from # "loop"
          /\ Go("loop", "ending")
          /\ known' = [known EXCEPT !.raised = catcher.stop]
          /\ UNCHANGED loop
    /\ UNCHANGED <<cfg, machine, siren, catcher, gates, bus, arms>>

-----------------------------------------------------------------------------
(* _stop_alert() on the loop's thread, and the two threads' _disarm().     *)

Thread == {"loop", "ui"}

\* The siren of a catcher is its own player's.
StopSiren(t, p) ==
    /\ siren' = siren \ {arms}
    /\ Go(t, p)

ReplugSilences ==
    /\ At("loop", "s_siren")
    /\ StopSiren("loop", "s_off")
    /\ UNCHANGED <<cfg, machine, catcher, loop, gates, bus, arms, faults, known>>

\* WorkerClient.clear_alert follows, without a PIN: the relay refuses it for an alert of
\* this laptop (OriginProtected of RelayAccount).
ReplugEnds ==
    /\ At("loop", "s_off")
    /\ catcher' = [catcher EXCEPT !.active = FALSE]
    /\ loop' = [loop EXCEPT !.was = TRUE]
    /\ Go("loop", "sleep")
    /\ UNCHANGED <<cfg, machine, siren, gates, bus, arms, faults, known>>

\* ThiefService.disarm: it calls the catcher it knows, whatever its thread does.
Disarm ==
    /\ cfg.gui
    /\ At("ui", "idle")
    /\ arms > 0
    /\ catcher' = [catcher EXCEPT !.stop = TRUE]
    /\ Go("ui", "d_hold")
    /\ UNCHANGED <<cfg, machine, siren, loop, gates, bus, arms, faults, known>>

\* KeepAwake.release looks at _thread, joins it and sets it to None; it raises when the
\* other thread set it to None in between.
DisarmHold(t) ==
    /\ At(t, "d_hold")
    /\ Go(t, IF catcher.hold THEN "d_join" ELSE "d_lid")
    /\ UNCHANGED <<cfg, machine, siren, catcher, loop, gates, bus, arms, faults, known>>

DisarmJoin(t) ==
    /\ At(t, "d_join")
    /\ catcher' = [catcher EXCEPT !.hold = FALSE]
    /\ \/ Go(t, "d_lid")
       \/ ~catcher.hold /\ Go(t, IF t = "ui" THEN "u_join" ELSE "ending")
    /\ UNCHANGED <<cfg, machine, siren, loop, gates, bus, arms, faults, known>>

\* A powercfg that fails here is logged, and the old setting is forgotten.
DisarmLid(t) ==
    /\ At(t, "d_lid")
    /\ \/ /\ lid' = IF catcher.oldLid THEN "user" ELSE lid
          /\ UNCHANGED <<faults, known>>
       \/ /\ catcher.oldLid
          /\ Fault
          /\ UNCHANGED lid
          /\ known' = [known EXCEPT !.lidLost = TRUE]
    /\ catcher' = [catcher EXCEPT !.oldLid = FALSE]
    /\ Go(t, "d_siren")
    /\ UNCHANGED <<cfg, plug, lockFile, siren, loop, gates, bus, arms>>

\* The window of the gate this catcher knows is closed, and the player stopped.
DisarmSiren(t) ==
    /\ At(t, "d_siren")
    /\ LET open == {g \in catcher.gate : gate[g] = [at |-> "open", arm |-> arms]} IN
          /\ gate' = [g \in Gate |-> IF g \in open THEN [gate[g] EXCEPT !.at = "over"]
                                     ELSE gate[g]]
          /\ catcher' = [catcher EXCEPT !.gate = @ \ open]
    /\ StopSiren(t, "d_end")
    /\ UNCHANGED <<cfg, machine, loop, gateLock, bus, arms, faults, known>>

\* A mutant: the lock is forgotten.
DisarmEndKeepsLock(t) ==
    /\ At(t, "d_end")
    /\ catcher' = [catcher EXCEPT !.armed = FALSE, !.active = FALSE, !.lock = FALSE]
    /\ Go(t, IF t = "ui" THEN "u_join" ELSE "ending")
    /\ UNCHANGED <<cfg, machine, siren, loop, gates, bus, arms, faults, known>>

\* After the relay was asked to clear, without a PIN: the flags, and thief.lock last,
\* where guardlock.release removes a lock that names this process.
DisarmEnd(t) ==
    /\ At(t, "d_end")
    /\ lockFile' = IF catcher.lock /\ lockFile = "us" THEN "none" ELSE lockFile
    /\ catcher' = [catcher EXCEPT !.armed = FALSE, !.active = FALSE, !.lock = FALSE]
    /\ Go(t, IF t = "ui" THEN "u_join" ELSE "ending")
    /\ UNCHANGED <<cfg, plug, lid, siren, loop, gates, bus, arms, faults, known>>

\* thread.join(timeout=5) may give up; then the bus is told either way.
UiJoined ==
    /\ At("ui", "u_join")
    /\ bus' = FALSE
    /\ Go("ui", "idle")
    /\ UNCHANGED <<cfg, machine, siren, catcher, loop, gates, arms, faults, known>>

\* The end of the loop's thread: _run_catcher tells the bus what the catcher says.  On
\* the command line, the process ends with it.
LoopEnds ==
    /\ At("loop", "ending")
    /\ cfg.gui
    /\ bus' = catcher.armed
    /\ Go("loop", "off")
    /\ UNCHANGED <<cfg, machine, siren, catcher, loop, gates, arms, faults, known>>

-----------------------------------------------------------------------------
(* The gate: a process of its own, and the thread that waits for it.       *)

\* The PIN, or the owner's face.  Closing the window changes nothing.
GatePassed(g) ==
    /\ cfg.windows
    /\ gate[g].at = "open"
    /\ gate' = [gate EXCEPT ![g].at = "w_siren"]
    /\ UNCHANGED <<cfg, machine, siren, catcher, loop, pc, gateLock, bus, arms,
                   faults, known>>

\* The window could not be shown, or its process was killed: the watcher just ends.  There
\* is no window but on Windows.
GateFailed(g) ==
    /\ gate[g].at = "open"
    /\ gate' = [gate EXCEPT ![g].at = "over"]
    /\ UNCHANGED <<cfg, machine, siren, catcher, loop, pc, gateLock, bus, arms,
                   faults, known>>

WatcherSilences(g) ==
    /\ gate[g].at = "w_siren"
    /\ siren' = siren \ {gate[g].arm}
    /\ gate' = [gate EXCEPT ![g].at = "over"]
    /\ UNCHANGED <<cfg, machine, catcher, loop, pc, gateLock, bus, arms, faults, known>>

-----------------------------------------------------------------------------
(* The command line, the charger and the owner's phone.                    *)

\* Ctrl+C inside the try of the loop: break, and then _disarm.
Caught ==
    \/ pc.loop \in {"poll", "s_siren", "s_off"}
    \/ loop.from = "loop" /\ pc.loop \in {"play", "gate", "send", "bot", "relay", "socket",
                                         "rung"}

Interrupt ==
    /\ At("ui", "console")
    /\ Caught
    /\ Go("loop", "d_hold")
    /\ UNCHANGED <<cfg, machine, siren, catcher, loop, gates, bus, arms, faults, known>>

\* Ctrl+C anywhere else, the sleep of the loop included, leaves arm(), and so does
\* its end: the process is gone, and what the system does not take back stays.
ProcessExits ==
    /\ At("ui", "console")
    /\ pc.loop # "off"
    /\ ~Caught
    /\ siren' = siren \ {arms}
    /\ lockFile' = IF lockFile = "us" THEN "dead" ELSE lockFile
    /\ gateLock' = IF gateLock = "us" THEN "dead" ELSE gateLock
    /\ gate' = [g \in Gate |-> [gate[g] EXCEPT !.at = "over"]]
    /\ known' = [known EXCEPT !.cut = @ \/ ~At("loop", "ending") \/ catcher.armed]
    /\ pc' = [loop |-> "off", ui |-> "idle"]
    /\ UNCHANGED <<cfg, plug, lid, catcher, loop, bus, arms, faults>>

Charger ==
    /\ plug' = ~plug
    /\ UNCHANGED <<cfg, lid, lockFile, siren, catcher, loop, pc, gates, bus, arms,
                   faults, known>>

-----------------------------------------------------------------------------
ThreadDisarms(t) ==
    \/ DisarmHold(t) \/ DisarmJoin(t) \/ DisarmLid(t) \/ DisarmSiren(t) \/ DisarmEnd(t)

\* What the loop's thread does.
Loop ==
    \/ ArmRefused \/ ArmAccepted \/ AcquireThiefLock \/ HoldAwake \/ SetLid \/ GraceEnds
    \/ Reread \/ PollStopped \/ PollFails \/ PollReads \/ Sleep \/ PlaySiren \/ SpawnGate
    \/ ChooseChannel \/ Tell \/ SetActive \/ TriggerRaises \/ ReplugSilences
    \/ ReplugEnds \/ ThreadDisarms("loop") \/ LoopEnds

Ui == Publish \/ ThreadDisarms("ui") \/ UiJoined

Watcher(g) == WatcherSilences(g)

Next ==
    \/ ArmDesktop \/ ArmConsole \/ Disarm \/ Loop \/ Ui
    \/ Interrupt \/ ProcessExits \/ Charger
    \/ \E g \in Gate : GatePassed(g) \/ GateFailed(g) \/ Watcher(g)

Spec == Init /\ [][Next]_vars

\* The threads are scheduled; nobody has to arm, disarm, pass the gate or end the process.
FairSpec ==
    /\ Spec
    /\ WF_vars(Loop)
    /\ WF_vars(Ui)
    /\ \A g \in Gate : WF_vars(Watcher(g))

-----------------------------------------------------------------------------
GateState == {"none", "open", "w_siren", "over"}
LoopState == {"off", "read", "lock", "hold", "lid", "grace", "reread", "poll", "sleep", "play",
              "gate", "send", "bot", "relay", "socket",
                                         "rung", "s_siren", "s_off", "ending"}
DisarmState == {"d_hold", "d_join", "d_lid", "d_siren", "d_end"}
UiState == {"idle", "started", "console", "u_join"}

\* The values the variables take.
TypeOK ==
    /\ cfg \in Config
    /\ {plug, bus} \subseteq BOOLEAN
    /\ lockFile \in {"none", "dead", "other", "us"}
    /\ lid \in {"user", "nothing"}
    /\ siren \subseteq 1 .. arms
    /\ catcher \in [stop : BOOLEAN, armed : BOOLEAN, active : BOOLEAN, lock : BOOLEAN,
                    hold : BOOLEAN, oldLid : BOOLEAN, gate : SUBSET Gate]
    /\ loop \in [was : BOOLEAN, fails : 0 .. MaxFailures,
                 from : {"none", "grace", "loop", "blind"}]
    /\ pc \in [loop : LoopState \cup DisarmState, ui : UiState \cup DisarmState]
    /\ gate \in [Gate -> [at : GateState, arm : 0 .. MaxArms]]
    /\ gateLock \in {"none", "dead", "us"}
    /\ arms \in 0 .. MaxArms
    /\ faults \in 0 .. MaxFaults
    /\ known \in [left : BOOLEAN, lidLost : BOOLEAN, cut : BOOLEAN, raised : BOOLEAN]


\* A catcher that was told to stop, or whose process ended as it should, leaves nothing
\* behind when its threads are done: no siren, no thief.lock of this process, no thread
\* that blocks sleep, and the lid as the user had it.  However the two _disarm() and the
\* trigger interleave, the later one cleans up what the earlier could not see.  It is not
\* so after a Ctrl+C that is not caught, or a trigger that raised after the ui's _disarm.
Quiet ==
    /\ arms \notin siren
    /\ ~catcher.armed /\ ~catcher.active /\ ~catcher.hold /\ ~catcher.lock
    /\ lockFile = "us" => known.left
    /\ lid = "nothing" => known.lidLost

Finished == arms > 0 /\ At("loop", "off") /\ At("ui", "idle")

DisarmedIsQuiet ==
    Finished /\ (cfg.gui => catcher.stop /\ ~known.raised) /\ ~known.cut => Quiet

\* thief.lock never names this process while no catcher holds it: the relay listener would
\* stay silent for nobody.
LockIsHeld == lockFile = "us" => catcher.lock \/ known.left

\* The desktop shows "disarmed" only when the loop was told to stop or is over.
ShownDisarmed == ~bus /\ At("ui", "idle") /\ cfg.gui => At("loop", "off") \/ catcher.stop

\* A catcher starts silent, unless the one before it crashed.
OneSiren == Cardinality(siren) > 1 => known.left

\* Where a thread that disarms has one thing still to do.
ToJoin == {"d_hold", "d_join"}
ToLid == ToJoin \cup {"d_lid"}
ToSiren == ToLid \cup {"d_siren"}

\* Armed, and not on its way out.
Monitoring == LoopState \ {"off", "read", "ending"}

\* Only the thread that finds the holding thread gone under its hands leaves _disarm() early,
\* and then the other one has just passed there, and does the rest.
Sure(t) == At(t, "d_join") => catcher.hold

Cleans(points) ==
    \/ pc.loop \in Monitoring \cup points /\ Sure("loop")
    \/ pc.ui \in points /\ Sure("ui")

Blank == ~catcher.armed /\ ~catcher.active /\ ~catcher.lock /\ ~catcher.hold /\ ~catcher.oldLid

\* Who is where.
Placed ==
    /\ ~At("loop", "off") => arms > 0
    /\ IF cfg.gui THEN ~At("ui", "console")
       ELSE pc.ui \in {"idle", "console"} /\ (At("ui", "idle") <=> At("loop", "off"))
    /\ pc.ui \in DisarmState \cup {"u_join"} => catcher.stop
    /\ cfg.gui /\ pc.loop \in DisarmState => catcher.stop
    /\ At("loop", "read") => Blank /\ arms \notin siren

\* On the desktop, after a disarm that no exception of the trigger cut short: for everything
\* that is still on, a thread is on its way to turn it off.
Cleaned ==
    cfg.gui /\ catcher.stop /\ ~known.raised =>
        /\ catcher.armed \/ catcher.active \/ catcher.lock => Cleans(DisarmState)
        /\ arms \in siren => Cleans(ToSiren)
        /\ catcher.oldLid => Cleans(ToLid)
        /\ catcher.hold => Cleans(ToJoin)

\* A lock that was taken after the ui's _disarm() is given back by the loop's.
LockedLate ==
    cfg.gui /\ ~catcher.armed =>
        /\ pc.loop \in Monitoring => catcher.stop
        /\ catcher.lock => /\ catcher.stop
                           /\ \/ pc.loop \in {"hold", "lid", "grace"} \cup DisarmState /\ Sure("loop")
                              \/ pc.ui \in DisarmState /\ Sure("ui")

\* On the command line one thread disarms, and the end of the process does the rest.
Console ==
    ~cfg.gui =>
        /\ pc.loop \in Monitoring \cup DisarmState => catcher.armed
        /\ At("loop", "d_join") => catcher.hold
        /\ pc.loop \in DisarmState \ ToJoin => ~catcher.hold
        /\ pc.loop \in DisarmState \ ToLid => ~catcher.oldLid
        /\ At("loop", "ending") /\ ~catcher.armed => Blank
        /\ At("loop", "off") => /\ lockFile # "us" /\ arms \notin siren
                                /\ ~known.cut => Blank

\* The lid stays changed only where somebody remembers what it was, or could not.
LidKnown == lid = "nothing" => catcher.oldLid \/ known.lidLost

\* The siren that plays is that of the current catcher.
OwnSiren == ~known.left => siren \subseteq {arms}

\* What holds in every state; DisarmedIsQuiet follows from it.
ThiefInv ==
    /\ TypeOK /\ LockIsHeld /\ ShownDisarmed /\ OneSiren
    /\ Placed /\ Cleaned /\ LockedLate /\ Console /\ LidKnown /\ OwnSiren

\* While a catcher watches and was not told to stop, a charger that goes away for good,
\* or that can no longer be read, raises the alarm.
Watching == pc.loop \in {"poll", "sleep"} /\ loop.was /\ ~catcher.active
Stopped == catcher.stop \/ pc.loop \in DisarmState \cup {"ending", "off"}
UnplugRaises == Watching /\ ~plug ~> catcher.active \/ plug \/ Stopped

\* A disarm ends: both threads come to rest, whatever they were doing.
DisarmEnds == cfg.gui /\ catcher.stop ~> At("loop", "off") /\ At("ui", "idle")
=============================================================================
