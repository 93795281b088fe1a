--------------------------- MODULE BatteryAlerts ---------------------------
(***************************************************************************)
(* Battery alerts without the relay (remote.py, connection.py, monitor.py, *)
(* gui/services.py ServeService).                                          *)
(*                                                                         *)
(* RemoteMonitor (the client: a phone) watches a battery and sends START   *)
(* and STOP to NotificationServer (the laptop), over a socket that         *)
(* acknowledges, or through the description of a Telegram bot, which the   *)
(* server fetches and clears.  Monitor watches the laptop's own battery.   *)
(* All of them work one Player.                                            *)
(***************************************************************************)
EXTENDS Player, SequencesExt

CONSTANTS
    Configs,        \* the set-ups a behaviour starts in
    Day,            \* the hours of a day
    MaxLost,        \* max_reconnect_attempts
    MaxBacklog,     \* bound on the connections the server has yet to answer
    MaxFaults       \* bound on timeouts, failed calls, changes of route, restarts

ASSUME DayAssumption == Day \in Nat \ {0}
ASSUME LostAssumption == MaxLost \in Nat \ {0}
ASSUME BacklogAssumption == MaxBacklog \in Nat \ {0}
ASSUME FaultAssumption == MaxFaults \in Nat

\* The thread of Monitor or of NotificationServer, and the one that polls Telegram.
ASSUME ThreadsAssumption == {"accept", "telegram"} \subseteq Caller

None == "none"
Routes == {"usb", "lan"}     \* 127.0.0.1 through adb, and the address of the laptop

\* role: Monitor, or client and server; client, server: their --mode;
\* agree: both have the same socket_secret; vpn: the client runs one; cable: the phone hangs on
\* the laptop; from, to: quiet_hours; faults: how much goes wrong.
Config == [role : {"monitor", "remote"}, client : {"auto", "local", "telegram"},
           server : {"auto", "local", "telegram"}, agree : BOOLEAN, vpn : BOOLEAN, cable : BOOLEAN,
           faults : 0 .. MaxFaults, from : 0 .. Day - 1, to : 0 .. Day - 1]

ASSUME ConfigAssumption == Configs \subseteq Config

VARIABLES
    cfg,
    over,       \* the battery is beyond a limit (should_alert)
    hour,       \* the clock
    up,         \* the routes that lead to the laptop
    cached,     \* last_server.json
    client,     \* RemoteMonitor.run: playing, lost, host, and its next step
    backlog,    \* connections not yet answered; live: its client still waits
    server,     \* what the thread of NotificationServer.run (or Monitor.run) is at
    stopping,   \* _stop_event of the server
    mailbox,    \* the description of the bot
    telegram,   \* _poll_telegram: its next step and the command it fetched
    faults

vars == <<player, cfg, over, hour, up, cached, client, backlog, server, stopping, mailbox,
          telegram, faults>>

net == <<up, cached, backlog, mailbox>>
env == <<over, hour, faults>>
laptop == <<server, stopping, telegram>>

Remote == cfg.role = "remote"
HasSocket(mode) == mode \in {"auto", "local"}
HasTelegram(mode) == mode \in {"auto", "telegram"}

Init ==
    /\ cfg \in Configs
    /\ over = FALSE
    /\ hour \in IF cfg.role = "monitor" THEN 0 .. Day - 1 ELSE {0}
    /\ up = {r \in Routes : HasSocket(cfg.server) /\ (r = "usb" => cfg.cable)}
    /\ cached \in IF cfg.vpn THEN {None, "lan"} ELSE {None}
    /\ client = [at |-> IF cfg.role = "remote" THEN "boot" ELSE "off",
                 playing |-> FALSE, lost |-> 0, host |-> None]
    /\ backlog = <<>>
    /\ server = "accept"
    /\ stopping = FALSE
    /\ mailbox = ""
    /\ telegram = [at |-> IF cfg.role = "remote" /\ HasTelegram(cfg.server) THEN "fetch" ELSE "off",
                   cmd |-> ""]
    /\ faults = 0
    /\ PlayerInit

Fault ==
    /\ faults < cfg.faults
    /\ faults' = faults + 1

-----------------------------------------------------------------------------
(* Monitor.run: one look at the clock and the battery. *)

\* A mutant: the quiet hours are those of one day.
QuietByDay == cfg.from <= hour /\ hour < cfg.to

\* Quiet hours that begin later than they end go over midnight.
Quiet ==
    IF cfg.from > cfg.to
    THEN hour >= cfg.from \/ hour < cfg.to
    ELSE cfg.from <= hour /\ hour < cfg.to

\* A mutant: quiet hours keep new alerts out, and leave one that plays alone.
SilenceDueByDay == flag /\ ~Quiet /\ ~over

SilenceDue == flag /\ (Quiet \/ ~over)

SoundDue == ~flag /\ over /\ ~Quiet

MonitorReads ==
    /\ cfg.role = "monitor"
    /\ server = "accept"
    /\ ~stopping
    /\ Returned("accept", "none")
    /\ \/ SilenceDue /\ Begin("accept", "stop")
       \/ SoundDue /\ Begin("accept", "play")
    /\ UNCHANGED <<flag, told, alive, cfg, net, env, client, laptop>>

\* The call returned: the monitor notifies and sleeps.
MonitorSleeps ==
    /\ cfg.role = "monitor"
    /\ server = "accept"
    /\ Returned("accept", "play") \/ Returned("accept", "stop")
    /\ Return("accept")
    /\ UNCHANGED <<flag, told, alive, cfg, net, env, client, laptop>>

-----------------------------------------------------------------------------
(* The client finds the server: smart_find_server. *)

Listening == HasSocket(cfg.server) /\ server \in {"accept", "answer"}

\* The route leads to a server that accepts connections.
Reached(r) == r \in up /\ Listening

\* What can be found: under a VPN no beacon and no scan, only the cable and a cached address.
Findable(r) ==
    /\ Reached(r)
    /\ r = "lan" => ~cfg.vpn \/ cached = "lan"

\* The cable is tried first.
Found ==
    IF Findable("usb") THEN "usb" ELSE IF Findable("lan") THEN "lan" ELSE None

\* The server answers no PING while it handles a command.
Busy == backlog # <<>> \/ server # "accept"

\* A host found by cable, beacon or scan is cached; one found through the cache is there already.
Resolve(next) ==
    \/ /\ client' = [client EXCEPT !.host = Found, !.at = next]
       /\ cached' = IF Found = None THEN cached ELSE Found
       /\ UNCHANGED faults
    \/ /\ Found # None
       /\ IF Busy THEN UNCHANGED faults ELSE Fault
       /\ client' = [client EXCEPT !.at = next]
       /\ UNCHANGED cached

ClientBoots ==
    /\ client.at = "boot"
    /\ IF HasSocket(cfg.client)
       THEN Resolve("read")
       ELSE client' = [client EXCEPT !.at = "read"] /\ UNCHANGED <<cached, faults>>
    /\ UNCHANGED <<player, cfg, over, hour, up, backlog, mailbox, laptop>>

-----------------------------------------------------------------------------
(* RemoteMonitor.run: one turn of its loop. *)

ClientReads ==
    /\ client.at = "read"
    /\ over # client.playing
    /\ client' = [client EXCEPT !.at =
                    CASE over /\ client.host = None -> "resolve"
                      [] client.host # None -> "send"
                      [] OTHER -> "post"]
    /\ UNCHANGED <<player, cfg, net, env, laptop>>

\* Discovery is tried again in every mode.
ClientResolves ==
    /\ client.at = "resolve"
    /\ Resolve("resolved")
    /\ UNCHANGED <<player, cfg, over, hour, up, backlog, mailbox, laptop>>

ClientChooses ==
    /\ client.at = "resolved"
    /\ client' = [client EXCEPT !.at = IF client.host = None THEN "post" ELSE "send"]
    /\ UNCHANGED <<player, cfg, net, env, laptop>>

Command == IF client.playing THEN "STOP" ELSE "START"

\* The START was acknowledged or posted; or the turn that sends STOP ends, whatever came of it.
Noted == [client EXCEPT !.at = "read", !.playing = ~client.playing,
                        !.lost = IF client.playing THEN @ ELSE 0]

\* A mutant: the client holds on to the host it found.
NotAcknowledgedTrusting ==
    IF client.playing THEN Noted ELSE [client EXCEPT !.at = "read"]

\* No acknowledgement: after MaxLost of them in a row the host is given up.
NotAcknowledged ==
    LET lost == IF client.lost < MaxLost THEN client.lost + 1 ELSE MaxLost IN
    IF client.playing THEN Noted
    ELSE [client EXCEPT !.at = "read", !.lost = lost,
                        !.host = IF lost >= MaxLost THEN None ELSE @]

\* send_command_with_ack connects and sends, and waits for the answer.
ClientSends ==
    /\ client.at = "send"
    /\ Reached(client.host)
    /\ Len(backlog) < MaxBacklog
    /\ backlog' = Append(backlog, [cmd |-> Command, live |-> TRUE])
    /\ client' = [client EXCEPT !.at = "ack"]
    /\ UNCHANGED <<player, cfg, up, cached, mailbox, env, laptop>>

CannotConnect ==
    /\ client.at = "send"
    /\ ~Reached(client.host)
    /\ client' = NotAcknowledged
    /\ UNCHANGED <<player, cfg, net, env, laptop>>

\* Its answer was lost with the route, or with the server.
Unanswerable == client.host \notin up \/ \A i \in DOMAIN backlog : ~backlog[i].live

\* No answer within 5 s.  The command stays in the server's queue.
ClientTimesOut ==
    /\ client.at = "ack"
    /\ IF Unanswerable THEN UNCHANGED faults ELSE Fault
    /\ backlog' = [i \in DOMAIN backlog |-> [backlog[i] EXCEPT !.live = FALSE]]
    /\ client' = NotAcknowledged
    /\ UNCHANGED <<player, cfg, over, hour, up, cached, mailbox, laptop>>

\* _has_internet and setMyDescription.
ClientPosts ==
    /\ client.at = "post"
    /\ HasTelegram(cfg.client)
    /\ mailbox' = Command
    /\ client' = Noted
    /\ UNCHANGED <<player, cfg, up, cached, backlog, env, laptop>>

\* Nothing is posted, or it is and the answer is lost.
ClientPostFails ==
    /\ client.at = "post"
    /\ IF HasTelegram(cfg.client)
       THEN Fault /\ mailbox' \in {mailbox, Command}
       ELSE UNCHANGED <<faults, mailbox>>
    /\ client' = IF client.playing THEN Noted ELSE [client EXCEPT !.at = "read"]
    /\ UNCHANGED <<player, cfg, over, hour, up, cached, backlog, laptop>>

\* The client is stopped and started again: what it had sent is forgotten.
ClientRestarts ==
    /\ client.at # "off"
    /\ Fault
    /\ client' = [at |-> "boot", playing |-> FALSE, lost |-> 0, host |-> None]
    /\ backlog' = [i \in DOMAIN backlog |-> [backlog[i] EXCEPT !.live = FALSE]]
    /\ UNCHANGED <<player, cfg, over, hour, up, cached, mailbox, laptop>>

-----------------------------------------------------------------------------
(* NotificationServer.run: one connection at a time. *)

\* A mutant: a newer connection is served first.
NewestConnection == Len(backlog)

NextConnection == 1

Op(cmd) == IF cmd = "START" THEN "play" ELSE "stop"

ServerHandles ==
    /\ Remote
    /\ server = "accept"
    /\ ~stopping
    /\ backlog # <<>>
    /\ cfg.agree
    /\ Begin("accept", Op(backlog[NextConnection].cmd))
    /\ server' = "answer"
    /\ UNCHANGED <<flag, told, alive, cfg, net, env, client, stopping, telegram>>

\* What the connection at i gets; a client that still waits goes on.
Answered(i, waiter) ==
    /\ backlog' = RemoveAt(backlog, i)
    /\ client' = IF backlog[i].live /\ client.host \in up THEN waiter ELSE client

ServerAcknowledges ==
    /\ server = "answer"
    /\ Returned("accept", "play") \/ Returned("accept", "stop")
    /\ Answered(NextConnection, Noted)
    /\ Return("accept")
    /\ server' = "accept"
    /\ UNCHANGED <<flag, told, alive, cfg, up, cached, mailbox, env, stopping, telegram>>

\* ERR:UNAUTHORIZED
ServerRefuses ==
    /\ Remote
    /\ server = "accept"
    /\ ~stopping
    /\ backlog # <<>>
    /\ ~cfg.agree
    /\ Answered(NextConnection, NotAcknowledged)
    /\ UNCHANGED <<player, cfg, up, cached, mailbox, env, laptop>>

\* stop_serve, or Ctrl+C.
StopServer ==
    /\ ~stopping
    /\ stopping' = TRUE
    /\ UNCHANGED <<player, cfg, net, env, client, server, telegram>>

\* A mutant: the server ends without a last stop().
ServerClosesAsIs ==
    /\ server = "accept"
    /\ Returned("accept", "none")
    /\ stopping
    /\ server' = "over"
    /\ backlog' = <<>>
    /\ client' = IF client.at = "ack" THEN NotAcknowledged ELSE client
    /\ UNCHANGED <<player, cfg, up, cached, mailbox, env, stopping, telegram>>

\* The finally block: the socket is closed, and the player told to stop.
ServerCloses ==
    /\ server = "accept"
    /\ Returned("accept", "none")
    /\ stopping
    /\ Begin("accept", "stop")
    /\ server' = "closing"
    /\ backlog' = <<>>
    /\ client' = IF client.at = "ack" THEN NotAcknowledged ELSE client
    /\ UNCHANGED <<flag, told, alive, cfg, up, cached, mailbox, env, stopping, telegram>>

ServerOver ==
    /\ server = "closing"
    /\ Returned("accept", "stop")
    /\ Return("accept")
    /\ server' = "over"
    /\ UNCHANGED <<flag, told, alive, cfg, net, env, client, stopping, telegram>>

-----------------------------------------------------------------------------
(* _poll_telegram: fetch, act, clear. *)

TelegramFetches ==
    /\ telegram.at = "fetch"
    /\ ~stopping
    /\ mailbox # ""
    /\ Begin("telegram", Op(mailbox))
    /\ telegram' = [at |-> "act", cmd |-> mailbox]
    /\ UNCHANGED <<flag, told, alive, cfg, net, env, client, server, stopping>>

TelegramActed ==
    /\ telegram.at = "act"
    /\ Returned("telegram", Op(telegram.cmd))
    /\ Return("telegram")
    /\ telegram' = [telegram EXCEPT !.at = "clear"]
    /\ UNCHANGED <<flag, told, alive, cfg, net, env, client, server, stopping>>

\* The description becomes empty, whatever it is by now; or the call fails.
TelegramClears ==
    /\ telegram.at = "clear"
    /\ \/ mailbox' = "" /\ UNCHANGED faults
       \/ Fault /\ UNCHANGED mailbox
    /\ telegram' = [at |-> "fetch", cmd |-> ""]
    /\ UNCHANGED <<player, cfg, over, hour, up, cached, backlog, client, server, stopping>>

TelegramEnds ==
    /\ telegram.at = "fetch"
    /\ stopping
    /\ telegram' = [telegram EXCEPT !.at = "off"]
    /\ UNCHANGED <<player, cfg, net, env, client, server, stopping>>

-----------------------------------------------------------------------------
(* The environment. *)

BatteryTurns ==
    /\ over' = ~over
    /\ UNCHANGED <<player, cfg, hour, net, faults, client, laptop>>

ClockTurns ==
    /\ cfg.role = "monitor"
    /\ hour' = (hour + 1) % Day
    /\ UNCHANGED <<player, cfg, over, net, faults, client, laptop>>

\* Where no server listens, no route leads to one.
RouteChanges(r) ==
    /\ Remote /\ HasSocket(cfg.server)
    /\ Fault
    /\ up' = IF r \in up THEN up \ {r} ELSE up \cup {r}
    /\ UNCHANGED <<player, cfg, over, hour, cached, backlog, mailbox, client, laptop>>

-----------------------------------------------------------------------------
NetSame == UNCHANGED <<cfg, net, env, client, laptop>>

PlayerSteps == \E c \in Caller : CallSteps(c) /\ NetSame
SoundStops == \E t \in alive : ThreadStops(t) /\ NetSame
SoundEnds == \E t \in alive : ThreadEnds(t) /\ NetSame

ClientSteps ==
    \/ ClientBoots \/ ClientReads \/ ClientResolves \/ ClientChooses \/ ClientSends
    \/ CannotConnect \/ ClientPosts \/ ClientPostFails

ServerSteps ==
    \/ MonitorReads \/ MonitorSleeps \/ ServerHandles \/ ServerAcknowledges \/ ServerRefuses
    \/ ServerCloses \/ ServerOver

TelegramSteps == TelegramFetches \/ TelegramActed \/ TelegramClears \/ TelegramEnds

Next ==
    \/ PlayerSteps \/ SoundStops \/ SoundEnds
    \/ ClientSteps \/ ClientTimesOut \/ ClientRestarts
    \/ ServerSteps \/ StopServer
    \/ TelegramSteps
    \/ BatteryTurns \/ ClockTurns
    \/ \E r \in Routes : RouteChanges(r)

Spec == Init /\ [][Next]_vars

(***************************************************************************)
(* The threads are scheduled, calls return, a thread that sounds looks at  *)
(* _stop, and the loops of client, server and poller go on.  Failures stop *)
(* with their bound.                                                       *)
(***************************************************************************)
FairSpec ==
    /\ Spec
    /\ \A c \in Caller : WF_vars(CallSteps(c) /\ NetSame)
    /\ \A t \in 1 .. MaxThreads : WF_vars(ThreadStops(t) /\ NetSame)
    /\ WF_vars(ClientSteps)
    /\ WF_vars(Unanswerable /\ ClientTimesOut)
    /\ WF_vars(ServerSteps)
    /\ WF_vars(TelegramSteps)

-----------------------------------------------------------------------------
TypeOK ==
    /\ PlayerTypeOK
    /\ cfg \in Config
    /\ {over, stopping} \subseteq BOOLEAN
    /\ hour \in 0 .. Day - 1
    /\ up \subseteq Routes
    /\ cached \in Routes \cup {None}
    /\ client \in [at : {"off", "boot", "read", "resolve", "resolved", "send", "ack", "post"},
                   playing : BOOLEAN, lost : 0 .. MaxLost, host : Routes \cup {None}]
    /\ backlog \in Seq([cmd : {"START", "STOP"}, live : BOOLEAN]) /\ Len(backlog) <= MaxBacklog
    /\ server \in {"accept", "answer", "closing", "over"}
    /\ mailbox \in {"", "START", "STOP"}
    /\ telegram \in [at : {"off", "fetch", "act", "clear"}, cmd : {"", "START", "STOP"}]
    /\ faults \in 0 .. MaxFaults

\* One thread works the player: that of Monitor, or of a server without Telegram.
OneCaller == ~Remote \/ cfg.server = "local"

(* With one caller nothing sounds that the player does not know of: when no call is under way *)
(* and _playing is unset, every thread left has been told to stop (Player.stop joins for two  *)
(* seconds only).                                                                              *)
KnownSound == OneCaller /\ AtRest /\ ~flag => alive = {} \/ told

(* A client whose START was acknowledged has no older command left in the server's queue, and *)
(* the server's player is on: timed-out commands are handled before it, never after.  A client *)
(* that may use the cloud counts a START as heard that it posted there, read or not.           *)
RingsWhenAcknowledged ==
    OneCaller /\ ~HasTelegram(cfg.client) /\ client.playing /\ client.at # "ack" /\ ~stopping
        => flag /\ backlog = <<>>

\* What a caller of the player is at: a statement of the call it made, and nothing between calls.
Placed(c) ==
    /\ At(c, "playing?") \/ At(c, "clear") \/ At(c, "start") \/ At(c, "mark") => call[c].op = "play"
    /\ call[c].op = "none" => At(c, "done")
    /\ c \notin {"accept", "telegram"} => call[c] = Idle

\* The thread that polls Telegram calls the player between its fetch and its clear.
Polling ==
    /\ OneCaller => telegram.at = "off"
    /\ IF telegram.at = "act"
       THEN telegram.cmd # "" /\ call["telegram"].op = Op(telegram.cmd)
       ELSE call["telegram"] = Idle

\* The server calls it to handle the oldest command, and for the last time when it closes.
Serving ==
    /\ Remote /\ server \in {"accept", "over"} => call["accept"] = Idle
    /\ server = "answer" =>
         Remote /\ backlog # <<>> /\ call["accept"].op = Op(backlog[NextConnection].cmd)
    /\ server \in {"closing", "over"} => stopping

\* What the one caller knows of the sound, statement by statement.
Known ==
    LET at == call["accept"].at IN
    /\ at \in {"playing?", "stop?", "done"} /\ ~flag => alive = {} \/ told
    /\ at \in {"join", "unset"} => told
    /\ at = "start" => ~told
    /\ at = "done" => /\ call["accept"].op = "stop" => ~flag
                      /\ call["accept"].op = "play" => flag

\* Only the newest connection may have a client that waits for its answer.
Queued ==
    /\ ~Remote => backlog = <<>> /\ client.at = "off" /\ ~client.playing
    /\ \A i \in DOMAIN backlog :
         backlog[i].live => i = Len(backlog) /\ client.at = "ack" /\ backlog[i].cmd = Command

(* What holds in every state.  KnownSound is what Known says between calls; Queued and Serving *)
(* are why an acknowledgement is that of the newest command, and of a call that has returned.  *)
AlertsInv ==
    /\ TypeOK
    /\ \A c \in Caller : Placed(c)
    /\ Polling /\ Serving /\ Queued
    /\ OneCaller => Known
    /\ KnownSound /\ RingsWhenAcknowledged

\* The hours since the quiet hours began; they last as long as those are fewer than at their end.
Since(h) == IF h < cfg.from THEN h + Day - cfg.from ELSE h - cfg.from

Night == ~Remote /\ Since(hour) < Since(cfg.to)

\* The alert can be raised: a client that may use the cloud is read there, and one that may not
\* can find the server.
Deliverable ==
    /\ Remote => IF HasTelegram(cfg.client) THEN HasTelegram(cfg.server) ELSE Found # None
    /\ ~stopping

\* A START is posted while the server is about to clear what it read before.
Erased == client.at = "post" /\ ~client.playing /\ telegram.at \in {"act", "clear"}

\* A START that is sent or counts as told, and an older STOP that the other channel still holds.
Overtaken ==
    \/ (client.at = "ack" \/ client.playing) /\ "STOP" \in {mailbox, telegram.cmd}
    \/ client.playing /\ \E i \in DOMAIN backlog : backlog[i].cmd = "STOP"

\* The laptop is told to sound, and the client counts it as told.
Sounding == flag /\ (Remote => client.playing)

(* A battery beyond its limit sounds the laptop, whatever fails on the way: after MaxLost      *)
(* commands without acknowledgement the client looks for the server again, and a client that   *)
(* may use the cloud falls back to it, though its host is never found again.  The exceptions:  *)
(* the quiet hours; a START that is cleared with what the server read before it; an older STOP *)
(* of the other channel that is handled after it; playback threads without end.                *)
AlertDelivered ==
    (over /\ ~Night /\ cfg.agree /\ ~client.playing /\ client.at # "ack")
        ~> (Sounding \/ ~over \/ Night \/ ~Deliverable \/ Erased \/ Overtaken \/ FreeThreads = {})

(* A STOP that is about to be acknowledged silences the laptop, also the threads that an       *)
(* earlier stop() gave up on, unless a START follows; and so does the end of the server or of  *)
(* the monitor, whatever it was at when it was stopped.                                        *)
StopSilences ==
    (OneCaller /\ (server = "over" \/ (server = "answer" /\ Returned("accept", "stop"))))
        ~> (alive = {} \/ call["accept"].op = "play")

\* Nothing sounds, and no look at the clock of before the quiet hours is about to sound.
Silent == alive = {} /\ call["accept"].op # "play"

(* Quiet hours silence an alert that plays, whenever they begin. *)
QuietHours == Night ~> (Silent \/ ~Night)

(* Once silent, the laptop is silent until they end, over midnight too. *)
QuietKept == [][Night /\ Night' /\ Silent => Silent']_vars

(* The player of the server and of the monitor is the siren its callers take it for.          *)
Sound == IF alive = {} THEN "off" ELSE IF told THEN "fading" ELSE "on"

Promised == INSTANCE Siren WITH
    sound <- Sound, asked <- [c \in Caller |-> call[c].op], exclusive <- OneCaller

ImplementsSiren == Promised!Spec
=============================================================================
