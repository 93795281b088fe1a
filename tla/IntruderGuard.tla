--------------------------- MODULE IntruderGuard ---------------------------
(***************************************************************************)
(* The intruder guard of the laptop (intruder_guard.py), as `battery-music *)
(* guard` runs it (cli.py), with the face check of face_guard.py.          *)
(*                                                                         *)
(* One loop watches the Windows security log.  People sign in, or fail to, *)
(* the owner uses the phone and time passes between any two of its steps.  *)
(***************************************************************************)
EXTENDS Integers, Sequences, FiniteSetsExt

CONSTANTS
    Configs,        \* the configurations considered
    Cooldown,       \* COOLDOWN_SECONDS
    Window,         \* the hour of HOURLY_BUDGET
    Budget,         \* HOURLY_BUDGET
    PollEvery       \* the loop polls the relay once in so many turns

\* worker: the guard has a token.  model: a face model is loaded.  player: guard_siren,
\* with files to play.
Config == [worker : BOOLEAN, model : BOOLEAN, player : BOOLEAN]

ASSUME ConfigAssumption == Configs \subseteq Config
ASSUME TimeAssumption == Cooldown \in Nat /\ Window \in Nat /\ Cooldown <= Window
ASSUME CountAssumption == Budget \in Nat \ {0} /\ PollEvery \in Nat \ {0}

VARIABLES
    cfg,        \* the configuration, read once
    acct,       \* what the relay says of the account: is it armed, is an alert up?
    failed,     \* the newest failed logon is newer than _last_seen_event
    proof,      \* a logon succeeded since the trigger
    lock,       \* whose PID is in guard.lock
    pc,         \* where the loop is
    me,         \* its local variables
    stop,       \* _stop_event
    playing,    \* the siren sounds
    uploads,    \* _uploads, each by its age
    rung        \* history: the ages of the alerts sent

log == <<failed, proof>>
quota == <<uploads, rung>>
vars == <<cfg, acct, log, lock, pc, me, stop, playing, quota>>

\* cycles: _cycles modulo PollEvery.  long: SIREN_MAX_SECONDS of the siren have passed.
\* spoiled: an exception ended the last turn.
NewGuard == [cycles |-> 0, verdict |-> "none", long |-> FALSE, spoiled |-> FALSE]

Init ==
    /\ cfg \in Configs
    /\ acct \in [armed : BOOLEAN, alert : {FALSE}]
    /\ failed \in BOOLEAN
    /\ proof = FALSE
    /\ lock \in {"free", "other"}
    /\ pc = "start"
    /\ me = NewGuard
    /\ stop = FALSE
    /\ playing = FALSE
    /\ uploads = <<>>
    /\ rung = <<>>

Go(p) == pc' = p

\* The end of a turn: what it found out is forgotten.
Rests ==
    /\ Go("sleep")
    /\ me' = [NewGuard EXCEPT !.cycles = me.cycles]
    /\ proof' = FALSE

-----------------------------------------------------------------------------
(* Starting: the guard command, then arm().                                *)

\* _acquire_guard_lock: another guard lives, or a process that has its PID.
GuardBusy ==
    /\ pc = "start"
    /\ lock = "other"
    /\ Go("over")
    /\ UNCHANGED <<cfg, acct, log, lock, me, stop, playing, quota>>

AcquireGuardLock ==
    /\ pc = "start"
    /\ lock = "free"
    /\ lock' = "ours"
    /\ Go("baseline")
    /\ UNCHANGED <<cfg, acct, log, me, stop, playing, quota>>

\* Failures before this are history; if the log cannot be read, those before now are.
Baseline ==
    /\ pc = "baseline"
    /\ failed' = FALSE
    /\ stop' = FALSE
    /\ Go("arm")
    /\ UNCHANGED <<cfg, acct, proof, lock, me, playing, quota>>

\* arm_account may fail.
ArmsAccount ==
    /\ pc = "arm"
    /\ \/ UNCHANGED acct
       \/ cfg.worker /\ acct' = [acct EXCEPT !.armed = TRUE]
    /\ Go("turn")
    /\ UNCHANGED <<cfg, log, lock, me, stop, playing, quota>>

-----------------------------------------------------------------------------
(* The loop of arm(): poll, then look at the log.                          *)

\* The command's finally: guard.lock is released.
Leaves ==
    /\ Go("over")
    /\ lock' = "free"
    /\ me' = NewGuard
    /\ proof' = FALSE

LoopEnds ==
    /\ pc = "turn"
    /\ stop
    /\ Leaves
    /\ UNCHANGED <<cfg, acct, failed, stop, playing, quota>>

PollDue == cfg.worker /\ me.cycles = 0

Checks ==
    /\ Go("check")
    /\ me' = [NewGuard EXCEPT !.cycles = (me.cycles + 1) % PollEvery]

\* A poll that is not answered is as good as one that says the account is armed.
StaysArmed ==
    /\ pc = "turn"
    /\ ~stop
    /\ Checks
    /\ UNCHANGED <<cfg, acct, log, lock, stop, playing, quota>>

RemotelyDisarmed ==
    /\ pc = "turn"
    /\ ~stop
    /\ PollDue /\ ~acct.armed
    /\ stop' = TRUE
    /\ Leaves
    /\ UNCHANGED <<cfg, acct, failed, playing, quota>>

Sleep ==
    /\ pc = "sleep"
    /\ Go("turn")
    /\ UNCHANGED <<cfg, acct, log, lock, me, stop, playing, quota>>

-----------------------------------------------------------------------------
(* _should_upload.                                                         *)

Cooled == uploads # <<>> => uploads[Len(uploads)] >= Cooldown

\* A mutant: the whole hour is over once its end is reached.
InWindowEarly(age) == age < Window

InWindow(age) == age <= Window

\* The deque, oldest first, loses its head as long as that is not to be kept.
From(ages, kept) == IF kept = {} THEN <<>> ELSE SubSeq(ages, Min(kept), Len(ages))

Pruned == From(uploads, {i \in DOMAIN uploads : InWindow(uploads[i])})

ShouldUpload == Cooled /\ Len(Pruned) < Budget

-----------------------------------------------------------------------------
(* _check_once.                                                            *)

\* Nothing newer, or the log cannot be read this time.
NothingNew ==
    /\ pc = "check"
    /\ Rests
    /\ UNCHANGED <<cfg, acct, failed, lock, stop, playing, quota>>

Suppressed ==
    /\ pc = "check"
    /\ failed
    /\ ~ShouldUpload
    /\ failed' = FALSE
    /\ uploads' = IF Cooled THEN Pruned ELSE uploads
    /\ Rests
    /\ UNCHANGED <<cfg, acct, lock, stop, playing, rung>>

\* The failures since the last look are one, the trigger; a logon may have succeeded in the
\* two seconds before it.  The upload is counted before anything of it is known.
Detected ==
    /\ pc = "check"
    /\ failed
    /\ ShouldUpload
    /\ failed' = FALSE
    /\ proof' \in BOOLEAN
    /\ uploads' = Append(Pruned, 0)
    /\ Go("burst")
    /\ UNCHANGED <<cfg, acct, lock, me, stop, playing, rung>>

\* capture_burst: no first frame, no burst, and nothing to check or to upload.
NoCamera ==
    /\ pc = "burst"
    /\ Go("alert")
    /\ UNCHANGED <<cfg, acct, log, lock, me, stop, playing, quota>>

FirstFrame ==
    /\ pc = "burst"
    /\ Go("frames")
    /\ UNCHANGED <<cfg, acct, log, lock, me, stop, playing, quota>>

\* load_verdict: no model that can be read and decrypted, no check.
HasFaceCheck == cfg.model

\* The rest of the burst.
BurstDone ==
    /\ pc = "frames"
    /\ Go(IF HasFaceCheck THEN "verdict" ELSE "photo")
    /\ UNCHANGED <<cfg, acct, log, lock, me, stop, playing, quota>>

\* The camera gives no frame this time: the loop sleeps and asks again, as often as it takes.
NoFrame ==
    /\ pc = "frames"
    /\ Go("interval")
    /\ UNCHANGED <<cfg, acct, log, lock, me, stop, playing, quota>>

AskAgain ==
    /\ pc = "interval"
    /\ Go("frames")
    /\ UNCHANGED <<cfg, acct, log, lock, me, stop, playing, quota>>

\* What a burst shows: who is in its sharpest frame, and whether the eyes move between its
\* first frame and its last (liveness_score).
Burst == [face : {"owner", "unknown", "no_face"}, live : BOOLEAN]

\* An owner who does not move is a picture of the owner.
IsOwner(b) == b.face = "owner" /\ b.live

Disapproved == me.verdict = "stranger"

\* A mutant: a check that fails ends the turn.
FaceVerdictGivesUp ==
    /\ pc = "verdict"
    /\ \/ me' = [me EXCEPT !.verdict = "stranger"] /\ Go("photo")
       \/ me' = [NewGuard EXCEPT !.cycles = me.cycles] /\ Go("sleep")
    /\ UNCHANGED <<cfg, acct, log, lock, stop, playing, quota>>

\* A stranger's workstation is locked, if Windows does it.  Whoever the check fails on is one.
FaceVerdict ==
    /\ pc = "verdict"
    /\ \E b \in Burst : ~IsOwner(b)
    /\ me' = [me EXCEPT !.verdict = "stranger"]
    /\ Go("photo")
    /\ UNCHANGED <<cfg, acct, log, lock, stop, playing, quota>>

OwnerStandsDown ==
    /\ pc = "verdict"
    /\ \E b \in Burst : IsOwner(b)
    /\ Go("sleep")
    /\ me' = [NewGuard EXCEPT !.cycles = me.cycles, !.verdict = "owner"]
    /\ proof' = FALSE
    /\ UNCHANGED <<cfg, acct, failed, lock, stop, playing, quota>>

\* snapshot_montage and upload_snapshot, whose failures leave the alert without a photo.
Photo ==
    /\ pc = "photo"
    /\ Go("alert")
    /\ UNCHANGED <<cfg, acct, log, lock, me, stop, playing, quota>>

\* An exception of the montage of the frames is left to the loop, and the alert is never
\* sent.
LoopError ==
    /\ pc = "photo"
    /\ Go("sleep")
    /\ me' = [NewGuard EXCEPT !.cycles = me.cycles, !.spoiled = TRUE]
    /\ proof' = FALSE
    /\ UNCHANGED <<cfg, acct, failed, lock, stop, playing, quota>>

NoRelay ==
    /\ pc = "alert"
    /\ ~cfg.worker
    /\ Go("alerted")
    /\ UNCHANGED <<cfg, acct, log, lock, me, stop, playing, quota>>

AlertUp == acct' = [acct EXCEPT !.alert = TRUE]

\* WorkerClient posts on one route and, unless it is answered, once more on the other: the
\* relay may have taken the first post, the second, both or neither.
SendAlert ==
    /\ pc = "alert"
    /\ cfg.worker
    /\ \/ AlertUp /\ Go("alerted")
       \/ (AlertUp \/ UNCHANGED acct) /\ Go("alert again")
    /\ rung' = Append(rung, 0)
    /\ UNCHANGED <<cfg, log, lock, me, stop, playing, uploads>>

SendAlertAgain ==
    /\ pc = "alert again"
    /\ AlertUp \/ UNCHANGED acct
    /\ Go("alerted")
    /\ UNCHANGED <<cfg, log, lock, me, stop, playing, quota>>

Quiet ==
    /\ pc = "alerted"
    /\ ~(Disapproved /\ cfg.player)
    /\ Rests
    /\ UNCHANGED <<cfg, acct, failed, lock, stop, playing, quota>>

Siren ==
    /\ pc = "alerted"
    /\ Disapproved /\ cfg.player
    /\ playing' = TRUE
    /\ Go("siren")
    /\ UNCHANGED <<cfg, acct, log, lock, me, stop, quota>>

-----------------------------------------------------------------------------
(* _siren_with_stand_down.                                                 *)

StandsDown ==
    /\ playing' = FALSE
    /\ Rests

\* A mutant: the siren ends at its deadline only.
DeadlineOnly == me.long

SirenDone == me.long \/ stop

SirenOver ==
    /\ pc = "siren"
    /\ SirenDone
    /\ StandsDown
    /\ UNCHANGED <<cfg, acct, failed, lock, stop, quota>>

\* sleep(3), then the log is read.
SirenGoesOn ==
    /\ pc = "siren"
    /\ ~SirenDone
    /\ Go("signed in")
    /\ UNCHANGED <<cfg, acct, log, lock, me, stop, playing, quota>>

OwnerSignedIn ==
    /\ pc = "signed in"
    /\ proof
    /\ StandsDown
    /\ UNCHANGED <<cfg, acct, failed, lock, stop, quota>>

\* No logon since two seconds before the trigger, or the log cannot be read.
NobodySignedIn ==
    /\ pc = "signed in"
    /\ Go(IF cfg.worker THEN "ask" ELSE "siren")
    /\ UNCHANGED <<cfg, acct, log, lock, me, stop, playing, quota>>

\* A mutant: a disarm does not clear the siren.
ClearedOnly == ~acct.alert

Cleared == ~acct.alert \/ ~acct.armed

RelayStandsDown ==
    /\ pc = "ask"
    /\ Cleared
    /\ StandsDown
    /\ UNCHANGED <<cfg, acct, failed, lock, stop, quota>>

RelayKeepsOn ==
    /\ pc = "ask"
    /\ ~Cleared
    /\ Go("siren")
    /\ UNCHANGED <<cfg, acct, log, lock, me, stop, playing, quota>>

PollFails ==
    /\ pc = "ask"
    /\ Go("siren")
    /\ UNCHANGED <<cfg, acct, log, lock, me, stop, playing, quota>>

-----------------------------------------------------------------------------
(* The end, from outside the loop.                                         *)

\* disarm() from another thread, of a guard that is armed.
Disarm ==
    /\ pc \notin {"start", "baseline", "over"}
    /\ stop' = TRUE
    /\ playing' = FALSE
    /\ UNCHANGED <<cfg, acct, log, lock, pc, me, quota>>

\* Ctrl+C in arm(), wherever it is: disarm(), then the lock is released.
\* A mutant: the lock only.
InterruptLoud ==
    /\ pc \notin {"start", "over"}
    /\ stop' = TRUE
    /\ Leaves
    /\ UNCHANGED <<cfg, acct, failed, playing, quota>>

Interrupt ==
    /\ pc \notin {"start", "over"}
    /\ stop' = TRUE
    /\ playing' = FALSE
    /\ Leaves
    /\ UNCHANGED <<cfg, acct, failed, quota>>

-----------------------------------------------------------------------------
(* The log, the owner's phone, time.                                       *)

LogonFails ==
    /\ failed' = TRUE
    /\ UNCHANGED <<cfg, acct, proof, lock, pc, me, stop, playing, quota>>

LogonSucceeds ==
    /\ pc \notin {"start", "baseline", "arm", "turn", "check", "sleep", "over"}
    /\ proof' = TRUE
    /\ UNCHANGED <<cfg, acct, failed, lock, pc, me, stop, playing, quota>>

ArmAccount ==
    /\ ~acct.armed
    /\ acct' = [acct EXCEPT !.armed = TRUE]
    /\ UNCHANGED <<cfg, log, lock, pc, me, stop, playing, quota>>

DisarmAccount ==
    /\ acct.armed
    /\ acct' = [armed |-> FALSE, alert |-> FALSE]
    /\ UNCHANGED <<cfg, log, lock, pc, me, stop, playing, quota>>

ClearAlert ==
    /\ acct.alert
    /\ acct' = [acct EXCEPT !.alert = FALSE]
    /\ UNCHANGED <<cfg, log, lock, pc, me, stop, playing, quota>>

Older(ages) == [i \in DOMAIN ages |-> IF ages[i] > Window THEN ages[i] ELSE ages[i] + 1]

Tick ==
    /\ uploads' = Older(uploads)
    /\ rung' = From(Older(rung), {i \in DOMAIN rung : Older(rung)[i] <= Window})
    /\ UNCHANGED <<cfg, acct, log, lock, pc, me, stop, playing>>

SirenAges ==
    /\ playing /\ ~me.long
    /\ me' = [me EXCEPT !.long = TRUE]
    /\ UNCHANGED <<cfg, acct, log, lock, pc, stop, playing, quota>>

-----------------------------------------------------------------------------
Loop ==
    \/ GuardBusy \/ AcquireGuardLock \/ Baseline \/ ArmsAccount \/ LoopEnds \/ StaysArmed
    \/ RemotelyDisarmed \/ Sleep \/ NothingNew \/ Suppressed \/ Detected \/ NoCamera
    \/ FirstFrame \/ BurstDone \/ NoFrame \/ AskAgain \/ FaceVerdict \/ OwnerStandsDown
    \/ Photo \/ NoRelay \/ SendAlert \/ SendAlertAgain \/ Quiet \/ Siren \/ SirenOver
    \/ SirenGoesOn \/ OwnerSignedIn \/ NobodySignedIn \/ RelayStandsDown \/ RelayKeepsOn
    \/ PollFails

Environment ==
    \/ LogonFails \/ LogonSucceeds \/ ArmAccount \/ DisarmAccount \/ ClearAlert
    \/ Tick \/ SirenAges

Next == Loop \/ LoopError \/ Disarm \/ Interrupt \/ Environment

Spec == Init /\ [][Next]_vars

\* The loop goes on.  What is tried again and again works at last: reading the log, and
\* polls.  Nothing is assumed of the camera: the loop may ask it for the next frame for ever.
FairSpec ==
    /\ Spec
    /\ WF_vars(Loop)
    /\ SF_vars(Suppressed \/ Detected)
    /\ SF_vars(OwnerSignedIn)
    /\ SF_vars(RemotelyDisarmed)
    /\ SF_vars(RelayStandsDown)

-----------------------------------------------------------------------------
Place == {"start", "over", "baseline", "arm", "turn", "check", "sleep", "burst", "frames",
          "interval", "verdict", "photo", "alert", "alert again", "alerted", "siren",
          "signed in", "ask"}

AgeOK(ages) == ages \in Seq(0 .. Window + 1)

TypeOK ==
    /\ cfg \in Config
    /\ acct \in [armed : BOOLEAN, alert : BOOLEAN]
    /\ lock \in {"free", "ours", "other"}
    /\ pc \in Place
    /\ me \in [cycles : 0 .. PollEvery - 1, verdict : {"none", "owner", "stranger"},
               long : BOOLEAN, spoiled : BOOLEAN]
    /\ {failed, proof, stop, playing} \subseteq BOOLEAN
    /\ AgeOK(uploads) /\ AgeOK(rung)

\* The siren sounds only in the siren's own loop, which is there to stop it, and only at a
\* face that was disapproved of.
SirenAttended == playing => pc \in {"siren", "signed in", "ask"} /\ lock = "ours" /\ Disapproved

\* A guard that runs holds guard.lock.
Holds == pc \notin {"start", "over"} => lock = "ours"

\* Two uploads are a cooldown apart.
Spaced ==
    \A i, j \in DOMAIN uploads :
        i < j => (uploads[i] >= uploads[j] + Cooldown \/ uploads[i] > Window)

\* The last hour has as many uploads as the budget allows.
InBudget ==
    \A i \in DOMAIN uploads : uploads[i] <= Window => Len(uploads) - i < Budget

\* The newest upload was counted, and its alert is not yet sent.
Pending == pc \in {"burst", "frames", "interval", "verdict", "photo", "alert"}

\* The upload counted next after the one an alert is about; the last alert has none, unless
\* another is pending.
NextUpload(j) == Len(uploads) - (Len(rung) - j) + (IF Pending THEN 0 ELSE 1)

\* An alert is sent before the next upload is counted.
Answered ==
    \A j \in DOMAIN rung :
        NextUpload(j) <= Len(uploads) =>
            NextUpload(j) >= 1 /\ uploads[NextUpload(j)] <= rung[j]

\* Alerts are remembered for an hour.
Recent == rung # <<>> => rung[1] <= Window

\* What holds in every state; AlertsCapped follows from it.
GuardInv ==
    TypeOK /\ SirenAttended /\ Holds /\ Spaced /\ InBudget /\ Answered /\ Recent

\* An hour hears of as many intrusions as the budget has, and of one more whose upload was
\* counted before that hour.
AlertsCapped == Len(rung) <= Budget + 1

\* The camera was opened, gives no more frames, and is asked for them for ever
\* (intruder_guard.py:190-194).
Hung == <>[](pc \in {"frames", "interval"})

\* The guard looks for failed logons, and there is one that the quota lets through.
Intrusion ==
    /\ pc \in {"turn", "check", "sleep"}
    /\ cfg.worker /\ failed /\ ShouldUpload

\* An intrusion is reported whether or not there is a camera, whatever the face check and the
\* upload do, unless the face is the owner's or the guard ends.  "No camera evidence changes
\* the alert, not whether we send it" (intruder_guard.py:319) has two exceptions in the code: a
\* camera that hangs the burst, and a montage that raises.
IntruderAlerted ==
    Hung \/ (Intrusion ~> pc = "alerted" \/ me.verdict = "owner" \/ me.spoiled \/ pc = "over")

\* The relay's reasons to stop the siren.
ToldToStop == cfg.worker /\ ~(acct.alert /\ acct.armed)

\* The siren stops for the owner's password, at its deadline, and for an alert that stays
\* cleared or an account that stays disarmed, whichever comes first.
StandDownHeard ==
    /\ playing /\ (proof \/ me.long) ~> ~playing
    /\ playing /\ ToldToStop ~> ~playing \/ ~ToldToStop

\* A guard that is told to stop ends, and is silent ever after, wherever it was, unless its
\* camera hangs: capture_burst does not look at _stop_event.
StopIsFinal ==
    Hung \/ (stop /\ pc \notin {"start", "baseline"} ~> [](pc = "over" /\ ~playing))
=============================================================================
