--------------------------- MODULE RelayListener ---------------------------
(***************************************************************************)
(* The relay listener of the laptop: `battery-music relay` (cli.py), and   *)
(* the RelayService of the desktop application (gui/services.py), which    *)
(* polls the same relay with a shorter loop.                               *)
(*                                                                         *)
(* The relay, the charger and the thief catcher, of which the listener     *)
(* sees thief.lock only, change between any two steps of a poll.           *)
(***************************************************************************)
EXTENDS Integers

CONSTANTS
    Configs,        \* the configurations considered
    MaxAlerts,      \* bound on the alerts raised
    MaxArms         \* bound on the times the account is armed

Type == {"THIEF_ALERT", "BATTERY"}

\* gui: RelayService, else the command line.  pin: an alarm_pin is set.  escalate:
\* escalate_minutes is positive.
Config == [gui : BOOLEAN, route : {"both", "phone", "laptop", "phone_then_laptop"},
           pin : BOOLEAN, escalate : BOOLEAN]

ASSUME ConfigAssumption == Configs \subseteq Config
ASSUME BoundAssumption == MaxAlerts \in Nat /\ MaxArms \in Nat

VARIABLES
    cfg,        \* the configuration, read once
    alert,      \* the alert of the account; old: escalate_minutes have passed
    armed,      \* the account is armed
    token,      \* what the relay makes of the laptop's token
    plug,       \* is the charger connected?
    thiefLock,  \* a live process holds thief.lock
    sound,      \* what the player plays
    gate,       \* the PIN gate process this listener started
    pc,         \* where the listener is
    resp,       \* the answer of the last poll
    me,         \* the listener's local variables
    arms,       \* how often the account was armed
    rung        \* history: the alerts whose episode was sounded

relay == <<alert, armed, token, arms>>
world == <<plug, thiefLock>>
vars == <<cfg, relay, world, sound, gate, pc, resp, me, rung>>

\* ts stands for alert_ts: every alert has a new one.
NoAlert == [active |-> FALSE, type |-> "BATTERY", ts |-> 0, old |-> FALSE]
Answer(a, on) == [alert |-> a, armed |-> on]

\* last: last_episode (0: None).  seen: RelayService's _last_alert_active.  long: the sound
\* is older than 300 seconds.  prev, fired, since and watch are the charger watch's.
NewListener == [last |-> 0, seen |-> FALSE, on |-> FALSE, long |-> FALSE, prev |-> "none",
                fired |-> FALSE, since |-> "none", watch |-> FALSE]

Init ==
    /\ cfg \in Configs
    /\ alert = NoAlert
    /\ armed = FALSE
    /\ token = "ours"
    /\ plug \in BOOLEAN
    /\ thiefLock = FALSE
    /\ sound = "none"
    /\ gate = "none"
    /\ pc = "poll"
    /\ resp = Answer(NoAlert, FALSE)
    /\ me = NewListener
    /\ arms = 0
    /\ rung = {}

\* routing.py
WantsLocal == cfg.route \in {"both", "laptop", "phone_then_laptop"}
Escalates == cfg.route = "phone_then_laptop"
SirenDue(a) == WantsLocal /\ (Escalates /\ cfg.escalate => a.old)

-----------------------------------------------------------------------------
(* The answer of worker.poll().                                            *)

\* What is not looked at any more of the answer is forgotten.
Go(p) ==
    /\ pc' = p
    /\ resp' = CASE p \in {"episode", "gate", "valve"} -> resp
                 [] p \in {"watch", "confirm"}           -> Answer(NoAlert, resp.armed)
                 [] OTHER                                -> Answer(NoAlert, FALSE)

\* A poll without an answer, or with an error other than the one below, changes nothing.
PollAnswered ==
    /\ pc = "poll"
    /\ token \in {"ours", "fresh"}
    /\ resp' = Answer(alert, armed)
    /\ pc' = "episode"
    /\ UNCHANGED <<cfg, relay, world, sound, gate, me, rung>>

\* Registering may fail; the next poll tries again.  The laptop is then the only device of
\* a new account, which nobody arms.
Reregister ==
    /\ pc = "poll"
    /\ token = "unknown"
    /\ token' = "fresh"
    /\ alert' = [NoAlert EXCEPT !.ts = alert.ts]
    /\ armed' = FALSE
    /\ UNCHANGED <<cfg, arms, world, sound, gate, pc, resp, me, rung>>

\* Banned, or Ctrl+C, or RelayService.stop(): the loop ends, the player is stopped.
Ends ==
    /\ pc # "over"
    /\ Go("over")
    /\ sound' = "none"
    /\ me' = NewListener
    /\ UNCHANGED <<cfg, relay, world, gate, rung>>

-----------------------------------------------------------------------------
(* The episode: _relay_episode_should_play and what follows.               *)

A == resp.alert
Thief == A.type = "THIEF_ALERT"
ShouldPlay == A.active /\ A.ts # me.last

EpisodeOf(a) == [me EXCEPT !.last = a.ts]

\* THIEF loops the siren, BATTERY plays one song.
SoundOf(a) == IF a.type = "THIEF_ALERT" THEN "siren" ELSE "song"

AfterEpisode == IF Thief /\ cfg.pin THEN "gate" ELSE "valve"

Episode == pc = "episode" /\ ~cfg.gui

\* The thief catcher of this laptop is the alarm source.
EpisodeSilent ==
    /\ Episode
    /\ ShouldPlay /\ Thief /\ thiefLock
    /\ me' = EpisodeOf(A)
    /\ Go("valve")
    /\ UNCHANGED <<cfg, relay, world, sound, gate, rung>>

EpisodeElsewhere ==
    /\ Episode
    /\ ShouldPlay /\ ~(Thief /\ thiefLock)
    /\ ~WantsLocal
    /\ me' = EpisodeOf(A)
    /\ Go(AfterEpisode)
    /\ UNCHANGED <<cfg, relay, world, sound, gate, rung>>

EpisodeRings ==
    /\ Episode
    /\ ShouldPlay /\ ~(Thief /\ thiefLock)
    /\ SirenDue(A)
    /\ sound' = SoundOf(A)
    /\ me' = [EpisodeOf(A) EXCEPT !.on = TRUE, !.long = FALSE]
    /\ rung' = rung \cup {A.ts}
    /\ Go(AfterEpisode)
    /\ UNCHANGED <<cfg, relay, world, gate>>

\* The note "phone-first" names a variable that does not exist: the rest of this poll is
\* skipped, with the episode already remembered.
EpisodeHeld ==
    /\ Episode
    /\ ShouldPlay /\ ~(Thief /\ thiefLock)
    /\ WantsLocal /\ ~SirenDue(A)
    /\ me' = EpisodeOf(A)
    /\ Go("poll")
    /\ UNCHANGED <<cfg, relay, world, sound, gate, rung>>

EpisodeCleared ==
    /\ Episode
    /\ ~A.active /\ me.on
    /\ sound' = "none"
    /\ me' = [me EXCEPT !.on = FALSE, !.long = FALSE]
    /\ Go("valve")
    /\ UNCHANGED <<cfg, relay, world, gate, rung>>

EpisodeGoesOn ==
    /\ Episode
    /\ ~ShouldPlay /\ (A.active \/ ~me.on)
    /\ Go("valve")
    /\ UNCHANGED <<cfg, relay, world, sound, gate, me, rung>>

\* spawn_gate starts one gate per process.  The thread that would wait for it cannot be
\* made, as threading is not imported: the rest of the poll is skipped once.
Gate ==
    /\ pc = "gate"
    /\ gate' = IF gate = "none" THEN "open" ELSE gate
    /\ Go(IF gate = "none" THEN "poll" ELSE "valve")
    /\ UNCHANGED <<cfg, relay, world, sound, me, rung>>

\* The safety valve stops the sound and keeps the episode.
\* A mutant: it forgets the episode, as it once did.
ValveForgets ==
    /\ pc = "valve"
    /\ Go("watch")
    /\ sound' = IF me.on /\ me.long THEN "none" ELSE sound
    /\ me' = IF me.on /\ me.long THEN [me EXCEPT !.on = FALSE, !.long = FALSE, !.last = 0] ELSE me
    /\ UNCHANGED <<cfg, relay, world, gate, rung>>

Valve ==
    /\ pc = "valve"
    /\ Go("watch")
    /\ sound' = IF me.on /\ me.long THEN "none" ELSE sound
    /\ me' = IF me.on /\ me.long THEN [me EXCEPT !.on = FALSE, !.long = FALSE] ELSE me
    /\ UNCHANGED <<cfg, relay, world, gate, rung>>

-----------------------------------------------------------------------------
(* The charger watch, while the answer says the account is armed.          *)

WatchOff ==
    /\ pc = "watch"
    /\ ~resp.armed
    /\ me' = [me EXCEPT !.prev = "none", !.fired = FALSE, !.since = "none"]
    /\ Go("poll")
    /\ UNCHANGED <<cfg, relay, world, sound, gate, rung>>

\* The end of the watch, by what its first read saw.
Charging ==
    IF me.since = "none"
    THEN [me EXCEPT !.prev = "on", !.since = "fresh",
                    !.on = @ /\ ~(me.fired /\ me.watch),
                    !.long = @ /\ ~(me.fired /\ me.watch), !.watch = @ /\ ~me.fired]
    ELSE [me EXCEPT !.prev = "on", !.fired = @ /\ me.since = "fresh"]

WatchOn ==
    /\ pc = "watch"
    /\ resp.armed
    /\ plug
    /\ me' = Charging
    /\ sound' = IF me.since = "none" /\ me.fired /\ me.watch THEN "none" ELSE sound
    /\ Go("poll")
    /\ UNCHANGED <<cfg, relay, world, gate, rung>>

\* A mutant: the watch sleeps while a siren sounds.
LostWhenSilent == me.prev = "on" /\ ~plug /\ ~me.fired /\ ~thiefLock /\ ~me.on

Lost == me.prev = "on" /\ ~plug /\ ~me.fired /\ ~thiefLock

Uncharged == [me EXCEPT !.prev = "off", !.since = "none"]

WatchUnplugged ==
    /\ pc = "watch"
    /\ resp.armed
    /\ ~plug /\ ~Lost
    /\ me' = Uncharged
    /\ Go("poll")
    /\ UNCHANGED <<cfg, relay, world, sound, gate, rung>>

\* sleep(3), then a second read.
WatchLost ==
    /\ pc = "watch"
    /\ resp.armed
    /\ Lost
    /\ Go("confirm")
    /\ UNCHANGED <<cfg, relay, world, sound, gate, me, rung>>

\* A hiccup: the watch remembers what the first read saw.
WatchHiccup ==
    /\ pc = "confirm"
    /\ plug
    /\ me' = Uncharged
    /\ Go("poll")
    /\ UNCHANGED <<cfg, relay, world, sound, gate, rung>>

WatchConfirms ==
    /\ pc = "confirm"
    /\ ~plug
    /\ me' = [me EXCEPT !.fired = TRUE, !.watch = TRUE, !.since = "none"]
    /\ Go("raise")
    /\ UNCHANGED <<cfg, relay, world, sound, gate, rung>>

\* An exception of a read skips the rest of the watch.
WatchError ==
    /\ pc \in {"watch", "confirm"}
    /\ resp.armed
    /\ Go("poll")
    /\ UNCHANGED <<cfg, relay, world, sound, gate, me, rung>>

NewAlert(type) == [active |-> TRUE, type |-> type, ts |-> alert.ts + 1, old |-> FALSE]

\* WorkerClient.send_alert, whose failure changes nothing here.
WatchRaises ==
    /\ pc = "raise"
    /\ \/ UNCHANGED alert
       \/ token # "unknown" /\ alert.ts < MaxAlerts /\ alert' = NewAlert("THIEF_ALERT")
    /\ Go("siren")
    /\ UNCHANGED <<cfg, armed, token, arms, world, sound, gate, me, rung>>

\* A mutant: the watch's siren is not taken note of.
WatchSirenUnknown ==
    /\ pc = "siren"
    /\ sound' = "siren"
    /\ me' = Uncharged
    /\ Go("poll")
    /\ UNCHANGED <<cfg, relay, world, gate, rung>>

WatchSiren ==
    /\ pc = "siren"
    /\ sound' = "siren"
    /\ me' = [Uncharged EXCEPT !.on = TRUE, !.long = FALSE]
    /\ Go("poll")
    /\ UNCHANGED <<cfg, relay, world, gate, rung>>

-----------------------------------------------------------------------------
(* RelayService: the alert's edges.                                        *)

Service == pc = "episode" /\ cfg.gui

\* With a PIN, an import fails after play(), and the alert is not taken note of.
ServiceAlert ==
    /\ Service
    /\ A.active /\ ~me.seen
    /\ sound' = IF Thief THEN "siren" ELSE sound
    /\ me' = [me EXCEPT !.seen = ~(Thief /\ cfg.pin)]
    /\ Go("poll")
    /\ UNCHANGED <<cfg, relay, world, gate, rung>>

\* A mutant: the edge is taken note of only.
ServiceClearedLoud ==
    /\ Service
    /\ ~A.active /\ me.seen
    /\ me' = [me EXCEPT !.seen = FALSE]
    /\ Go("poll")
    /\ UNCHANGED <<cfg, relay, world, sound, gate, rung>>

ServiceCleared ==
    /\ Service
    /\ ~A.active /\ me.seen
    /\ sound' = "none"
    /\ me' = [me EXCEPT !.seen = FALSE]
    /\ Go("poll")
    /\ UNCHANGED <<cfg, relay, world, gate, rung>>

ServiceGoesOn ==
    /\ Service
    /\ A.active = me.seen
    /\ Go("poll")
    /\ UNCHANGED <<cfg, relay, world, sound, gate, me, rung>>

-----------------------------------------------------------------------------
(* The relay, the owner, the charger, the thief catcher, time.             *)

\* A device of the account raises an alert; the last one is the one that is kept.
Raise(type) ==
    /\ token # "fresh"
    /\ alert.ts < MaxAlerts
    /\ alert' = NewAlert(type)
    /\ UNCHANGED <<cfg, armed, token, arms, world, sound, gate, pc, resp, me, rung>>

Clear ==
    /\ alert.active
    /\ alert' = [NoAlert EXCEPT !.ts = alert.ts]
    /\ UNCHANGED <<cfg, armed, token, arms, world, sound, gate, pc, resp, me, rung>>

ArmAccount ==
    /\ token # "fresh"
    /\ ~armed /\ arms < MaxArms
    /\ armed' = TRUE
    /\ arms' = arms + 1
    /\ UNCHANGED <<cfg, alert, token, world, sound, gate, pc, resp, me, rung>>

\* A disarm stands the alert down (StandDown of RelayAccount).
DisarmAccount ==
    /\ armed
    /\ armed' = FALSE
    /\ alert' = [NoAlert EXCEPT !.ts = alert.ts]
    /\ UNCHANGED <<cfg, token, arms, world, sound, gate, pc, resp, me, rung>>

TokenLost ==
    /\ token = "ours"
    /\ token' = "unknown"
    /\ UNCHANGED <<cfg, alert, armed, arms, world, sound, gate, pc, resp, me, rung>>

Charger ==
    /\ plug' = ~plug
    /\ UNCHANGED <<cfg, relay, thiefLock, sound, gate, pc, resp, me, rung>>

\* A thief catcher is armed or disarmed on this laptop.
Catcher ==
    /\ thiefLock' = ~thiefLock
    /\ UNCHANGED <<cfg, relay, plug, sound, gate, pc, resp, me, rung>>

\* A song ends by itself; escalate_minutes, 300 or 60 seconds pass.
SongEnds ==
    /\ sound = "song"
    /\ sound' = "none"
    /\ UNCHANGED <<cfg, relay, world, gate, pc, resp, me, rung>>

AlertAges ==
    /\ alert.active /\ ~alert.old
    /\ alert' = [alert EXCEPT !.old = TRUE]
    /\ UNCHANGED <<cfg, armed, token, arms, world, sound, gate, pc, resp, me, rung>>

SoundAges ==
    /\ me.on /\ ~me.long
    /\ me' = [me EXCEPT !.long = TRUE]
    /\ UNCHANGED <<cfg, relay, world, sound, gate, pc, resp, rung>>

ChargeAges ==
    /\ me.since = "fresh"
    /\ me' = [me EXCEPT !.since = "stable"]
    /\ UNCHANGED <<cfg, relay, world, sound, gate, pc, resp, rung>>

-----------------------------------------------------------------------------
Listener ==
    \/ EpisodeSilent \/ EpisodeElsewhere \/ EpisodeRings \/ EpisodeHeld \/ EpisodeCleared
    \/ EpisodeGoesOn \/ Gate \/ Valve \/ WatchOff \/ WatchOn \/ WatchUnplugged \/ WatchLost
    \/ WatchHiccup \/ WatchConfirms \/ WatchRaises \/ WatchSiren
    \/ ServiceAlert \/ ServiceCleared \/ ServiceGoesOn

Environment ==
    \/ \E type \in Type : Raise(type)
    \/ Clear \/ ArmAccount \/ DisarmAccount \/ TokenLost \/ Charger \/ Catcher
    \/ SongEnds \/ AlertAges \/ SoundAges \/ ChargeAges

Next ==
    \/ PollAnswered \/ Reregister \/ Ends \/ Listener \/ WatchError
    \/ Environment

Spec == Init /\ [][Next]_vars

Read == WatchOn \/ WatchUnplugged \/ WatchLost
Confirm == WatchHiccup \/ WatchConfirms

\* The listener goes on; polls are answered and registrations succeed at last; a battery
\* that is read again and again is read without an exception at last.
FairSpec ==
    /\ Spec
    /\ WF_vars(Listener)
    /\ WF_vars(PollAnswered \/ Reregister)
    /\ SF_vars(Read)
    /\ SF_vars(Confirm)

-----------------------------------------------------------------------------
Alert == [active : BOOLEAN, type : Type, ts : 0 .. MaxAlerts, old : BOOLEAN]

TypeOK ==
    /\ cfg \in Config
    /\ alert \in Alert
    /\ {armed, plug, thiefLock} \subseteq BOOLEAN
    /\ token \in {"ours", "unknown", "fresh"}
    /\ sound \in {"none", "song", "siren"}
    /\ gate \in {"none", "open"}
    /\ pc \in {"poll", "episode", "gate", "valve", "watch", "confirm", "raise", "siren", "over"}
    /\ resp \in [alert : Alert, armed : BOOLEAN]
    /\ me \in [last : 0 .. MaxAlerts, seen : BOOLEAN, on : BOOLEAN, long : BOOLEAN,
               prev : {"none", "on", "off"}, fired : BOOLEAN,
               since : {"none", "fresh", "stable"}, watch : BOOLEAN]
    /\ arms \in 0 .. MaxArms
    /\ rung \subseteq 1 .. MaxAlerts

\* RelayService has neither a valve nor a watch.
Placed == cfg.gui => pc \in {"poll", "episode", "over"}

\* The listener knows of every sound it makes, and so can stop it.  It is not so of
\* RelayService with a PIN.
KnownSound ==
    sound # "none" /\ ~(cfg.gui /\ cfg.pin) => IF cfg.gui THEN me.seen ELSE me.on

\* The answers come in the order of the alerts: an episode that differs from the last one is
\* a later one, also on the account of a new registration.
InOrder ==
    /\ me.last <= alert.ts /\ resp.alert.ts <= alert.ts
    /\ pc = "episode" => me.last <= A.ts

\* What was sounded is no later than the episode remembered, while the listener runs.
Remembered == pc # "over" => \A ts \in rung : ts <= me.last

\* What holds in every state.
ListenerInv == TypeOK /\ Placed /\ KnownSound /\ InOrder /\ Remembered

\* An episode is sounded once: once the valve, a re-plugged charger or the song's end made
\* it silent, the same alert does not sound again.
SoundedOnce == [][EpisodeRings => A.ts \notin rung]_vars

\* An alert that stays cleared falls silent, whoever raised it, unless RelayService has a
\* PIN; so does the watch's own siren when the relay never heard of it.
ClearedFallsSilent ==
    ~alert.active /\ ~(cfg.gui /\ cfg.pin) ~> sound = "none" \/ alert.active

\* While the account stays armed and no catcher is, a charger the watch saw connected and
\* that goes away for good makes it fire.
WatchFires ==
    /\ armed /\ token = "ours" /\ ~cfg.gui
    /\ me.prev = "on" /\ pc = "poll" /\ ~plug
    ~> me.fired \/ plug \/ ~armed \/ thiefLock \/ token # "ours" \/ pc = "over"
=============================================================================
