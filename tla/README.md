# Battery Music Notifier: a formal model

This directory holds TLA+ models of Battery Music Notifier, the TLC configurations that
check them on small instances, and TLAPS proofs of the properties that matter most.
Definitions are translated from the code under `src/`; `PROJECT.json` maps every one
to the lines it stands for.

All devices meet at the **relay** (the Cloudflare worker, `worker/worker.js`): it decides who
may silence an alarm, who may disarm an account, and which token belongs to whom. Around it
the models cover what the **laptop** does: its locks, thief catcher, intruder guard, relay
listener, player, sockets and configuration. The phone is modelled as the requests it makes.

## 1. The system

A laptop (Python) and a phone (Kotlin) share one *account* on a relay. Either device can
be the victim (its charger is pulled, a logon fails) and either can ring for the other.

| Component | State | Operations | Talks to |
|---|---|---|---|
| Relay, account (`worker.js`, `schema.sql`) | the `users` row (alert, origin, armed, pass, PIN, key, ban), `arm_challenges` | alert, clear, arm/disarm, pass, PIN and key setup, challenge; admin ban, broadcast, clear-all | devices poll; Telegram |
| Relay, attempts shield | `pair_fails`: a counter per user or address and minute | count, read, reset on success | in front of disarm and pairing |
| Relay, pairing | `pairing_codes`, `users.linked_token`, `devices` | generate a code, link, touch a device | both devices |
| Relay, snapshots | R2 objects, `snapshots` rows | upload, fetch, delete, prune (also after every poll) | R2 and D1 |
| Relay, events and statistics | `events`, `daily_stats` | insert and trim, compute once a day | dashboards |
| Relay, limits and sessions | per-isolate memory: windows, denied tokens; `admin_sessions` | check, note a failure, login | every request |
| Self-hosted relay (`relay-node/`) | Postgres tables, Redis or memory limits | alert, clear, poll, pair, admin (no origin protection, arming or snapshots) | devices |
| Laptop, locks (`guardlock.py`) | PID files `relay`, `thief`, `guard`, `gate.lock` | acquire, stale takeover, release, probe | all laptop processes |
| Laptop, thief catcher (`thief_catcher.py`, `alarm_gate.py`) | armed, alert active, gate process, siren | arm loop, trigger, stop, gate, disarm | relay, socket, player |
| Laptop, intruder guard (`intruder_guard.py`, `face_guard.py`) | last event, upload quota, siren | check a failed logon, photo, alert, stand down | relay, camera |
| Laptop, relay listener (`cli.py relay`, `routing.py`) | last episode, sound, charger watch | poll, episode, escalation, gate | relay, player |
| Laptop, desktop application (`gui/`) | service threads, status bus | start and stop services, arm, disarm | all of the above |
| Laptop, player (`player.py`) | thread, stop flag | play, stop | sound device |
| Laptop, sockets (`remote.py`, `connection.py`) | episode, connection, Telegram mailbox | START/STOP with ACK, cloud fallback | phone client |
| Laptop, configuration (`config.py`, `cli.py pin/pass/quiet-arm/link`, `gui/bridge.py`) | `config.toml`, scheduled tasks, `quiet_pass.bin` | load and encrypt, save one setting, save the form, nightly arm and disarm | relay, task scheduler |
| Laptop, worker client (`worker_client.py`) | primary and alternate route | POST/GET, second attempt | relay |
| Phone, guard (`ArmService.kt`, `ThiefWorker.kt`, receivers) | watching, ringing, muted episode, dead-man timers | 4 s watch loop, expedited alert with retry, silence | relay |
| Phone, battery (`BatteryWorker.kt`) | none between runs | poll, then alert or clear, every 15 min | relay |
| Phone, client, keys, screens | preferences, key store | calls of the relay, UI | relay |

What is hard: every handler of the relay works on the `users` row read by `authUser()` and
then runs several awaited statements, so requests of two devices interleave between any two of
them and any request may be cut short; R2 and D1 are written one after the other; codes,
challenges and tokens are read and consumed in separate statements; on the laptop, the arm
loop, the gate watcher, the GUI and the playback thread share flags without locks; on the
phone, workers and services act on an answer polled earlier. `PROJECT.json` lists each
hazard at its line, with the property that covers it or the reason none does yet.

What makes each part correct, in one sentence each: the origin of a theft alarm does not
silence it without the PIN, and nobody disarms without the factor the account asks for
(account); guessing is bounded (shield); a code admits one account's phone and a replaced
phone stays out (pairing); photos and their rows stay together and the newest survive
(snapshots); one process per role (locks); an unplug while armed rings until a legitimate
stop, and a disarmed guard is silent (thief catcher, phone guard); a failed logon is told
once, and its siren hears every way to end it (intruder guard); an episode rings once
(listener); a stopped player is silent (player); an alert is told over whichever way works
(sockets); one command does not take back what another saved (configuration).

## 2. The modules

### RelayAccount: one account and its requests in flight

`acct` is the `users` row, `challenge` the `arm_challenges` row, `req[r]` a handler at work.
`Receive` is `authUser()`: it copies the row to `req[r].row`, and every later decision
uses that copy, as the code does. Then one action per D1 statement that changes state:

| Actions | Code |
|---|---|
| `RefuseAlert`, `SendAlert` | `handleSendAlert` |
| `RefuseClear`, `ClearAlert` (guard `OriginMayNotClear`) | `handleClearAlert` |
| `RateLimited`, `RefusePass`, `DisarmWithPass`, `RefuseSignature`, `DisarmWithKey`, `BurnChallenge`, `UpdateArmed`, `StandDown` | `handleArm`, in the order of its statements |
| `ArmChallenge`, `ChallengeExpires` | `handleArmChallenge`, the 120 s lifetime |
| `PinSetup`, `PassSetup`, `KeySetup` | the three setup handlers |
| `AdminBroadcast`, `AdminClearAll`, `AdminBan` | the administrator |
| `Fail` | a statement throws or the isolate is evicted; what was written stays |

Secrets are model values (the code compares hashes). A signature is a pair of key and
challenge. `episode`, `burnt`, `seen` and `spent` are history variables: they identify the
alert and the challenges a request knew at authentication, and no guard reads them
apart from the bounds. `DisarmWithPass` allows any verdict of the shield, which has a module
of its own. A pass set without its being the row's is what
`PassSetup` decides; a request that is turned away changes nothing and ends.

### RelayShield: the attempts counter

`fails[m]` is the `pair_fails` row of minute m for one key. An attempt counts itself
(`Count`), then reads (`RefuseMore` or `LetThrough`), is judged, and a correct pass
deletes the row (`Reset`). Both statements may fail, and then the shield lets the attempt
pass (`ShieldError`), as the `catch` in the code does: such an attempt is not among those
counted in `tally`. `Resets = TRUE` is the disarm; `FALSE` would be the pairing code, whose
handler never deletes the row. `tally` is history. Names that `RelayAccount` has too carry the
prefix `Shield` (`ShieldSpec`), so that one module of proofs extends both.

### RelayPairing: codes, linked tokens, devices

Seven statements of `handlePairLink` are seven actions (`Lookup`, `Burn`, `ReadPrevious`,
`RetireRow`, `RotateToken`, `RegisterPhone`, `ReplyToken`), between which other links and the
polls of both devices (`Authenticate`, `TouchDevice`) run. The same six digits may be
generated again once a row is gone, so `gens`, `from`, `handed` and `retired` record, as
history, which generated code each token was minted for.

### RelaySnapshots: photos in R2 and D1

Uploads, deletions and prunes are processes whose R2 and D1 calls are steps. An upload
whose account shows a THIEF_ALERT ends in an exception after its INSERT, because
`handleSnapshotUpload` uses `ctx` without having it; it never prunes. Polls prune too.

### GuardLock: the PID files

`file` is one PID file, `at[p]` where the process with PID p is in `acquire()` or `release()`.
Each look at the file and each change of it is an action (`Exists`, `ReadPid`, `Busy` or
`TakeOver`, `Unlink`, `Open`, `Write`; `ReleaseExists`, `ReleaseRead`, `ReleaseUnlink`), and
`write_text` is two, since it empties the file first. A process may end anywhere (`Dies`), its
PID may come back, as the same program or as a `Stranger`. `impl` tells `guardlock.py` from
the guard's own lock in `cli.py` on Windows, which writes over a stale file instead of
removing it. `raced` is history: two starts overlapped. The prefix `Lock` (`LockSpec`) keeps its
names apart from those of `RelayListener`, with which it shares a module of proofs.

### ThiefCatcher: arm loop, gate and disarm

`pc.loop` is the thread inside `arm()`, `pc.ui` the thread that arms and disarms
(`ThiefService`, or the console with Ctrl+C), and every gate process has a watcher; they
share the fields of the `ThiefCatcher` object (`catcher`), the player (`siren`), the lid
action, `thief.lock` and `gate.lock` without a lock, as the code does.

| Actions | Code |
|---|---|
| `ArmDesktop`, `ArmConsole`, `Publish` | `ThiefService.arm`, `battery-music arm` |
| `ArmRefused`, `ArmAccepted`, `AcquireThiefLock`, `HoldAwake`, `SetLid`, `GraceEnds`, `Reread`, `Blind` | the beginning of `arm()` |
| `PollReads`, `PollFails`, `LoopError`, `PollStopped`, `Sleep` | the loop, with its count of unreadable polls |
| `PlaySiren`, `SpawnGate`, `ChooseChannel`, `Tell`, `SetActive`, `TriggerRaises` | `_trigger_alert`, step by step |
| `ReplugSilences`, `ReplugEnds` | the charger comes back |
| `GatePassed`, `GateFailed`, `WatcherSilences` | the gate process, and the thread that waits for it |
| `Disarm`, `DisarmHold`, `DisarmJoin`, `DisarmLid`, `DisarmSiren`, `DisarmEnd` | `disarm()`, and `_disarm` on either thread |
| `Caught`, `Interrupt`, `ProcessExits` | exceptions, Ctrl+C, the end of the process |

Configurations are records (`Config`): mode, route, worker, PIN, platform. History (`known`)
records only events the properties have to except: a catcher that crashed and was replaced,
a lid action nobody remembers, a process that ended inside `arm()`, a trigger that raised.

### RelayListener: the laptop that rings for the other

One poll is read by `battery-music relay` or by `RelayService` and handled step by step:
episode, route, escalation, gate, clear, valve, charger watch, each an action in the order
of the code, while the relay, the charger and `thief.lock` change between any two. `resp` is
the answer, `me` the local variables. What the code does by exception is there too: in
the console a gate ends the handling of that poll (`threading` is not imported), and in the
desktop application an alarm PIN makes every poll fail after `play()`.

### IntruderGuard: failed logons

One loop: poll of the relay every fifth turn, the newest failed logon, quota, burst, face verdict,
lock, montage, upload, alert, siren. The two lists of times are sequences that lose their head
(`From`), as the code's loop pops them. Time is ages (`Cooldown`, `Window`, `SIREN_MAX_SECONDS` as
`me.long`), the camera and the face check are verdicts, people and the owner act between any two
steps. A burst asks the camera again when it gives no frame (`NoFrame`, `AskAgain`), and may do so
for ever, as in the code. The siren's inner loop looks at stop, deadline, relay and the log of
successful logons in the order of the code.

### Player and Siren

`Player` is `player.py` statement by statement for several callers: `play()` is
`playing?`, perhaps the statements of `stop()`, `clear`, start; `stop()` sets the event, joins for
at most two seconds and then believes the thread gone. `alive` is the set of threads that
sound. `Siren` is what callers may rely on: nothing sounds unasked, what was told to stop
fades and does not come back, and for a single caller a `stop()` leaves nothing behind. The
refinement mapping is in `BatteryAlerts`:

    Sound == IF alive = {} THEN "off" ELSE IF told THEN "fading" ELSE "on"
    Promised == INSTANCE Siren WITH sound <- Sound, asked <- ..., exclusive <- OneCaller

`ThiefCatcher`, `RelayListener` and `IntruderGuard` take a call of the player as one step, which is what
`Siren` allows to a single caller. The catcher's player has two callers when a disarm meets a
trigger; that overlap is looked at in `BatteryAlerts`, not there.

### BatteryAlerts: client, server, mailbox, monitor

The client (`RemoteMonitor.run`) looks for the server, sends START and STOP, counts what was
not acknowledged, and falls back to the bot's description (`mailbox`), which the server fetches,
acts on and clears in three steps. `backlog` holds the connections the server has yet to
answer, dead ones included: a command that timed out at the client is executed later.
`Config` covers the monitor of the laptop's own battery, both sides with `--mode local` or `auto`,
a tunnel, different socket secrets, and a client whose server reads the bot only. The monitor has
a clock: `hour` turns at any time, in a day of `Day` hours, and `Quiet` is the code's comparison of
it with the two ends of the quiet hours. The properties measure the night differently, as hours
since it began (`Since`, `Night`).

### Settings: config.toml and the nightly arming

`file` has the settings that decide something (PIN, token, auto-disarm), whether a secret is in
plain text, and whether the table is there at all; `todo[p]` are the steps a process has yet to
take, a sequence written like the command. Every rewrite is three steps, `Reads` (with the new
text in `me[p].doc`), `EmptyFile`, `WriteFile`; `load()` is two, and adds a rewrite when it finds
plain text. `saved` and `raced` are history: `saved` is what the owner last chose for each setting,
and whether a form was saved with the mask since, which chooses no PIN.

## 3. What TLC checks

| Run | Instance | What it shows |
|---|---|---|
| `relay_account`, alerts | 2 requests, 2 devices, 1 PIN, 2 alerts, admin, failures | `OriginProtected`, `DisarmStandsDown` and the inductive invariant `IInv` |
| `relay_account`, factors | 2 requests, 2 secrets, 2 keys, 1 challenge, bans, failures | `PassGuards`, `ReplayRefused`, `IInv` |
| `relay_gates`, shield | 3 attempts, limit 1, 2 minutes, 3 counts a minute | `GuessesBounded`, `ShieldInv` |
| `relay_gates`, pairing | 2 requests, 2 accounts, 1 code, 3 generations, 3 tokens | `PairingInv`, `MintedCodeGone`, `GrantedByOwner`, `RetiredStaysOut`, `HandedWorks` |
| `relay_snapshots` | 2 requests, 1 poller, cap 1, 2 photos, 1 failing call | `SnapshotsInv`, `NewestKept`, `PruneEnds`, and under fairness `PolledWithinCaps` |
| `thief` | 3 configurations, 2 arms, 1 gate name, 2 failed polls, 1 fault | `DisarmedIsQuiet`, `ThiefInv`; under fairness `UnplugRaises`, `DisarmEnds` |
| `listener` | 4 configurations, 2 alerts, 1 arming | `ListenerInv`, `SoundedOnce`; under fairness `ClearedFallsSilent`, `WatchFires` |
| `guard` | 3 configurations, cooldown 1, window 2, budget 2 | `GuardInv`, `AlertsCapped`; under fairness `IntruderAlerted`, `StandDownHeard`, `StopIsFinal`, the first and the last unless a burst hangs |
| `socket` | 10 configurations, 2 callers, 2 threads, a day of 4 hours, 2 lost commands, 2 faults | `AlertsInv`, `ImplementsSiren`, `QuietKept`; under fairness `QuietHours`, `StopSilences`, `AlertDelivered` |
| `locks` | 3 PIDs, both implementations, 2 crashes | `LockInv`; under fairness `NeverWedged` |
| `settings` | 1 console, the desktop application, the scheduler, 2 commands, 1 kill | `SettingsInv`; under fairness `QuietEnds` |
| `relay_either` | as `relay_account` | *violated*: `SignatureSuffices` |
| `settings_mask` | as `settings` | *violated*: `MaskKeepsPin` |
| `snapshot_upload` | no failing call | *violated*: `StoredIsReported` |

A behaviour of `relay_account` has clients of one kind (`kind` in `MCRelayAccount`), since with both
kinds at once the instance is out of reach; that an alert is stood down after a factor was shown is
left to the proofs, which have no such limit. `relay_gates` holds two modules that share no variable,
one of which moves in a behaviour.

**Bounds.** Every bound is a constant: `MaxEpisode`, `MaxChallenge`, `MaxMinute`,
`MaxAttempts`, `MaxGen`, `MaxToken`, `MaxSnapshots`, `MaxPuts`, `MaxFaults`, `MaxArms`,
`MaxAlerts`, `Day`, `MaxThreads`, `MaxBacklog`, `MaxCrashes`, `MaxRuns`, `MaxKills`. Two requests in
flight are the least that interleave; slots are reused, so a run has any number of
requests one after the other. The properties relate one request to the row, which one
*other* request at a time changes; the proofs below then cover any number. One pairing
code makes its digits collide as soon as possible. In `relay_snapshots` a cap of one
photo already has rows beyond the cap, and one failing call may hit any call of any process.

On the laptop, numbers of the code are made small where only their order matters:
`MAX_READ_FAILURES` is 2 instead of 5 and `max_reconnect_attempts` 2 instead of 3 (one below the
limit, then the limit); the guard polls the relay every second turn instead of every fifth, and
its cooldown, window and budget of 1, 2 and 2 have an upload that is in the cooldown, one in the
window and one that left it. Two catchers one after the other show what the first leaves to the
second; two alerts, what an episode leaves to the next. Three PIDs are a holder, one that crashed
and one that starts. Two sounding threads are one that `stop()` gave up on and its successor; a
third is refused. A day of four hours has quiet hours of one to three within a day, of three to
one over midnight, and none. How much goes wrong is a matter of the configuration (`faults`): two
timeouts, lost routes, failed posts or restarts of the client with local sockets and a cable, one
where two channels and two callers are at work. In `settings` the commands are two, and scheduled
tasks run between, before and after them as often as they like; nobody starts anything after a
race, so that its aftermath ends.

**Symmetry** is used only for slots, keys and accounts that no definition tells
apart, and never in a run with a liveness property.

**Deadlock** is not checked where the system may stop: a catcher, listener, guard, server or
command that has ended.

**Fairness** is in the `FairSpec` of each module, next to its reason:

- `RelaySnapshots`: polls recur, because the clients poll on a timer for as long as they run (the
  laptop every `poll_interval`, the phone every four seconds while it watches), and a call that
  was made returns or fails. Nothing is assumed of uploads, deletions or expiry.
- `ThiefCatcher`: the loop, the user's thread inside a call and the watchers are scheduled (WF).
  Nobody has to arm, disarm, unplug, pass the gate or end the process.
- `RelayListener`: the listener goes on; a poll is answered or a registration succeeds at last;
  a battery that is read again and again is at last read without an exception (SF).
- `IntruderGuard`: the loop goes on; what it tries again and again (reading the log, a poll) works
  at last (SF). The alert itself is tried once, so nothing is assumed of it, and nothing is of
  the camera: a burst may ask it for ever.
- `BatteryAlerts`: calls, loops and threads are scheduled; failures end with their bound.
- `GuardLock`: a call that was begun goes on; nobody has to start, release or end.
- `Settings`: processes go on, the daily task runs (SF: the slot it runs in may be taken for a
  while), and one of its disarms gets through (SF).

**What the properties except, and why.** `LockInv` speaks of behaviours in which no two starts
overlap, `SettingsInv` of rewrites that do not: both files are used without a lock, and both
models reach the broken states when they overlap. `DisarmedIsQuiet` excepts an exception out of a
trigger that runs during the disarm. `ListenerInv` and `ClearedFallsSilent` except `RelayService`
with an alarm PIN, whose polls fail. `ImplementsSiren` promises silence after `stop()` to a
single caller only. `RingsWhenAcknowledged` (in `AlertsInv`) leaves out a client that may use the
cloud: it counts a START as heard once it is posted.

`PassGuards` is about the pass that a request read at its authentication: a pass set since is not
asked for, and a first key takes none. `OriginProtected` and `DisarmStandsDown` except an alert
raised after that read. `IntruderAlerted` and `StopIsFinal` except a burst that asks the camera
for ever (`Hung`), and the first also a montage that raises. `SettingsKept` excepts a form saved
with the mask, which loses the PIN. `AlertDelivered` is for equal secrets, outside the quiet
hours, for a server that can be found or reads the mailbox, and excepts a START that the server
erases with the command it read before it (`Erased`), one that an older STOP of the other channel
follows (`Overtaken`), and a laptop whose playback threads are used up. A client in `auto` counts
a START as told that it posted; that the server plays it is part of the property, provided that
the server reads its mailbox.

**Findings.** Each is a run that violates a sentence of the repository.

- `snapshot_upload`: *"a Telegram outage must never fail the upload"* (worker.js:606-607). An
  upload under a THIEF_ALERT always fails, after the photo was stored, because
  `handleSnapshotUpload` uses `ctx` without having it.
- `relay_either`: *"Two independent second factors -- use either"* (README.md:526). With a pass
  set, a signature is never looked at (worker.js:521).
- `settings_mask`: *"saving the mask keeps them intact"* (bridge.py:133-134). The alarm PIN is not
  among the secrets that line 179 keeps, and becomes the mask.

**Seen while modelling, without a run.** The models follow the code in all of these.

Relay: an alert raised between the authentication of a disarm and its UPDATE survives the disarm,
although worker.js:538 says that disarming stands everything down (`DisarmStandsDown` is what does
hold: every alert that was up at authentication is gone); an alert that its own device raises
between the read and the UPDATE of its clear is silenced (schema.sql:28-29); a disarm
authenticated before the account was given a pass, and armed, goes through without it
(README.md:489 says that disarming demands the pass), and of two overlapping changes of the pass
the later replaces one it has not shown (test_worker_live.py:543 says that changing it requires
the current one): `PassGuards` speaks of the pass each request read; with a key and no pass a
disarm that shows neither succeeds (worker.js:521; worker_client.py:178 says that it needs
either); one challenge can be accepted by two disarms that race, and a disarm burns whatever
challenge is there by then; the poll of a replaced phone can insert its `devices` row again; two
links racing one code both answer ok; an owner's correct pass is refused in a minute whose
attempts others used up (worker.js:517).

Locks: two starts that overlap can both hold a lock (cli.py:902-903 says two must not both poll);
a new process that has the PID in the stale file refuses itself.

Thief catcher: after an alarm for an unreadable battery that the PIN silenced, the next unplug
raises nothing; a second trigger forgets the first gate; Ctrl+C outside the `try` leaves the
lock; the spawner's `gate.lock` is never released, so that process gets one gate.

Listener: a siren held back for `escalate_minutes` is never due again (cli.py:1011-1024), and
the note about it names a variable that does not exist; the gate's result is lost in
the console; with an alarm PIN the desktop's siren starts again every poll.

Guard: "still armed locally" (intruder_guard.py:246) although the first poll then ends it; a
camera that gives one frame and no other holds the guard in its burst for ever, before the alert
(190-194), and a montage that raises loses it, although no camera evidence is to change whether
the alert is sent (319-320); any successful logon stops the siren.

Sockets: a STOP that was not acknowledged is not repeated (remote.py:255-269; README.md:733); a
STOP or START written while a command is acted on is erased with it (remote.py:339); two callers
can leave a sound nobody knows of, and a STOP of one channel may follow a newer START of the
other; with different secrets the client never falls back (README.md:734); a client in `auto`
counts a START as playing that it posted for a server in `local`, which reads no mailbox.

Configuration: the form never syncs a PIN, since it imports a module that does not
exist; `quiet-arm` without `--auto-disarm` leaves an earlier End task and flag in place while it
says "stays armed" (cli.py:759-762); a process that loads `config.toml` while it is being written
finds no token and registers a new account.

## 4. What is proved

Eight modules hold proofs, checked by `tlapm`; the shield's are with the account's, and those of
the locks with the listener's. A theorem holds for every value of the constants under the
assumptions its module names: `None` is no token, secret, key or PID; kinds of processes have
different names; limits and bounds are numbers, and those that count something that must happen
are not zero; the cooldown is not longer than the window; configurations are among the `Config` of
the module. Finiteness is assumed where the proof counts: of the attempts in flight at the shield,
and of the callers of the player.

| Theorem | Statement |
|---|---|
| `RelayAccountProofs!Invariant`, `TypeCorrect` | `[]IInv`, and the types |
| `RelayAccountProofs!PassNeeded`, `NoReplay` | who disarms or changes the factors: `PassGuards`, `ReplayRefused` |
| `RelayAccountProofs!OriginKept`, `StoodDown` | the alert: `OriginProtected`, `DisarmStandsDown` |
| `RelayAccountProofs!ShieldInvariant`, `Bounded` | the counter's invariant, and `GuessesBounded` |
| `RelayPairingProofs!PairingKept`, `CodesSpent`, `OwnersOnly` | `[]PairingInv`, `MintedCodeGone`, `GrantedByOwner` |
| `RelayPairingProofs!Rotation`, `PhonesStayIn` | tokens after a later link: `RetiredStaysOut`, `HandedWorks` |
| `RelaySnapshotsProofs!TablesTogether` | `[]SnapshotsInv`: bucket and table |
| `RelaySnapshotsProofs!NewestSpared`, `PruneComplete` | what a prune takes, and leaves: `NewestKept`, `PruneEnds` |
| `RelayListenerProofs!OneHolder` | `[]LockInv` of the PID files |
| `RelayListenerProofs!Listens`, `RingsOnce` | `[]ListenerInv`, and `SoundedOnce` from it |
| `SettingsProofs!Kept` | `[]SettingsInv` |
| `ThiefCatcherProofs!Thief`, `DisarmLeavesNothing` | `[]ThiefInv`, and `DisarmedIsQuiet` from it |
| `IntruderGuardProofs!Guarded`, `Capped` | `[]GuardInv`, and `AlertsCapped` from it |
| `BatteryAlertsProofs!Alerts` | `[]AlertsInv`: the player's caller, and acknowledged commands |
| `BatteryAlertsProofs!NightIsKept` | the quiet hours: `QuietKept` |
| `BatteryAlertsProofs!PlayerIsSiren` | the refinement: `ImplementsSiren` |

**Account.** The properties speak of a request's copy of the row, so they are not inductive:
a handler at its third statement must still have passed the checks of its first. `IInv`
adds, for each request and each `pc`, what its earlier steps established (the pass was shown, or
the signature verified over a challenge not burnt at authentication), that challenges are
burnt only once minted, and that a request which saw an alert that is still up saw *this*
alert (`seen` against `episode`). A disarm of the account is then a step of `UpdateArmed` only,
and the clauses of `IInv` at that `pc` give each action property.

**Shield.** `GuessesBounded` needs to know of attempts between their two statements. They
are split in `Fresh` and `Late`, those that a reset caught. Each was counted before it reads,
so `let + |Fresh| <= fails`; hence one more `LetThrough` with `fails <= Limit` keeps
`let <= Limit`; a reset turns the fresh ones into late ones, and `carried` bounds those.
The proof uses the theorems on cardinalities of finite sets.

**Pairing.** `PairingInv` says what each link in flight holds of the tables. The lemma
`StepKeeps` states what no step takes back (generated codes, minted tokens, retirement);
from it, what a request holds stays right while others act, and each part of the
invariant then has a lemma of its own.

**Snapshots.** `Together` says what may be missing on either side: a row whose object a prune or
deletion has just removed, an object whose row is still to be inserted, and what a failed call
left. It is not inductive alone: a prune works from rows it selected earlier, which others may have
deleted since. `Identified` covers them (`Known`: the table, and what each process took from it):
an id belongs to one key for ever, so a deletion by id is the deletion of the row that was read, and
`ids + |Waiting| <= puts` leaves an id for every body that still waits for its row. `Holds` says
what each process has in hand, `Chosen` why a prune took it: it was old, or `MaxSnapshots` newer
ids existed already, and ids only grow. That gives `NewestKept`. As long as nothing came in or grew
old (`settled`), all of `Prunable` is in the prune's hands, so that when it runs out, the account
is within its caps (`PruneEnds`).

**Locks.** `LockInv` is inductive. That one process holds the file at most follows from the
file naming whoever does; this survives a takeover because who is about to take over has read the
file while nobody who is named in it lives, which `TakesFree` keeps, and because no second starter
runs in between (`OneStarter`). `WritesItsFile` says that a start does not write to a file that
was removed meanwhile. The lemma `Moves` settles every step that only looks at the file, so that
the proof is about `Unlink`, `Open`, `Write`, `ReleaseUnlink` and the start that ends a race.

**Thief catcher.** `DisarmedIsQuiet` speaks of two threads at rest; it follows from `Cleaned`, which
speaks of them on the way: after a disarm, for each thing that is still on (siren, lid,
blocked sleep, flags, lock) some thread has the step that turns it off ahead of it. The
difficulty is that either thread may leave `_disarm` early, when it finds the holding thread gone
under its hands. `Sure` names the threads that will not, and the invariant shows that one of
the two is always sure: the one that loses the thread loses it to the other, which is then past
that point. `LockedLate` is the same for a lock taken after the user's `_disarm`; `Console` is the case
of one thread, where the end of the process does the rest; `LidKnown` and `OwnSiren` tie what is
on to the catcher that turned it on.

**Listener.** `SoundedOnce` is about the step that rings and what was rung before. An episode is
told from the one remembered only by being *different*, and nothing in one poll says which of the two
is the later: the answer was read several steps ago, and the account may be a new one by now. `InOrder`
supplies it (what is remembered, then the answer at hand, then the account's alert), so a different
episode is a later one, and `Remembered`, that whatever was rung is no later than what is
remembered, keeps it out of `rung`. `KnownSound` needs `Placed`: `RelayService` has neither valve
nor watch, and the steps that end a sound there look at `me.seen` instead of `me.on`.

**Settings.** `SettingsKept` speaks of the file between two rewrites, and says nothing of the one
that is on its way. `Drafted` does: the text a process is about to write is what was saved with
its own setting changed, from reading on, through the emptying, to the write that makes it
true of the file. It lasts because no other rewrite begins meanwhile (`OneRewrite`), and it begins true
because the file was right when it was read, which includes that it had its table (`TableThere`):
without it `_save_worker_token` appends to a text that `load()` does not see. What a process
does next is the head of a sequence, so `RewritesOrdered` says of every script where an emptying and
a write may stand; the lemmas on sequences (`PlainConcat`, `RestOrdered`, `RewriteOrdered`) show
that commands begin without them and that a rewriting step puts the two in front. The encryption
of secrets is the case with no setting of its own: it saves what it read, which is why it must
read the file again and not use what `load()` returned.

**Intruder guard.** The upload quota is about uploads when they are counted, `AlertsCapped` about alerts
when they are sent, perhaps much later. `Answered` relates the two sequences without an index
of history: the alert of one upload is sent before the next upload is counted (`NextUpload`), so
every alert of the last hour but the oldest has an upload of its own within that hour, of which
`InBudget` allows `Budget`. Hence one more than the budget, and not the budget itself. An alert may be
missing (the owner's face, a montage that raises), which is why `Answered` bounds from one
side only.

**Player and battery alerts.** `PlayerIsSiren` maps each statement of `play()`, of `stop()` and of
the threads to a step of `Siren` or to a stutter, for any number of callers; with a single caller
`Known` says, statement by statement, what that caller knows of the sound, and the last statement of
`stop()` is then the step that leaves nothing behind. For `RingsWhenAcknowledged` the question is
whether an acknowledgement is that of the newest command: only the newest connection may have a
client that still waits (`Queued`), the server answers a connection when the call it made for
it has returned (`Serving`, `Placed`), and connections are answered in order; so when the client reads
its acknowledgement the queue is empty and the player is on. `NightIsKept` needs first that the
code's comparison of three hours and the hours since the night began say the same
(`QuietAtNight`, for every length of the day); then only a `play()` that was called before the night, or
whose look at the clock was, can sound, and `Silent` says that there is none.

**Only model-checked.** Every invariant and every action property of the passing runs is proved. The
liveness properties are not, because liveness under fairness and ENABLED are out of the prover's
reach: `PolledWithinCaps`, `UnplugRaises`, `DisarmEnds`, `ClearedFallsSilent`, `WatchFires`,
`IntruderAlerted`, `StandDownHeard`, `StopIsFinal`, `AlertDelivered`, `StopSilences`, `QuietHours`,
`NeverWedged`, `QuietEnds`. What a recursive definition computes would be out of
reach too; none of the modules has one.

## 5. What is not modelled

*Relay:* names, platforms, timestamps and battery figures of rows; the wording of answers;
`handleRegister` beyond the account it creates; the event log and the statistics, which no
decision reads; rate limits in the memory of an isolate; Telegram delivery (fire and forget,
after the answer). Cryptography is perfect: hashes and signatures have no collisions. D1
statements are atomic and take effect in the order they are executed. The self-hosted relay
is an older subset of the same operations.

*Laptop:* enrolling faces (an archive that cannot be decrypted loads as empty and is then
written over, face_guard.py:190-202 and 351-357); the guard's lock elsewhere than on Windows, which
is one write; the second attempt of `WorkerClient` over the other route; `init` and `domain`;
the SMS client, which only its tests use, against a server of another repository (an event
frame between two pages ends its backfill, sms_client.py:200-203); platform probes, QR codes,
diagnostics and notifiers, which are input and output without a protocol.

*Phone:* its services and workers. What they send is in `RelayAccount` as requests of a device;
the hazards of the watch loop and of the workers are in `PROJECT.json`.

## 6. Plan

Done: the modules above, and the proofs of every safety property they check. Left: a module
`PhoneGuard` (watch loop, expedited worker, mute, dead-man) over `RelayAccount`, and in it the
battery worker, whose alert or clear may answer a poll that is out of date.
