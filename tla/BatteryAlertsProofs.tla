------------------------ MODULE BatteryAlertsProofs ------------------------
(***************************************************************************)
(* Proofs about BatteryAlerts, for every set-up, any number of threads,    *)
(* queued connections and failures: what the one caller of a player knows  *)
(* of its sound, what an acknowledgement means to the client, and that the *)
(* player, statement by statement, is the Siren its callers take it for.   *)
(***************************************************************************)
EXTENDS BatteryAlerts, NaturalsInduction, WellFoundedInduction, SequenceTheorems, TLAPS

\* The thread that is started is a free one.
LEMMA FreeThread ==
    ASSUME FreeThreads # {}
    PROVE  (CHOOSE t \in FreeThreads : \A u \in FreeThreads : t <= u) \in FreeThreads
<1> DEFINE Less == {z \in Nat \X Nat : z[1] < z[2]}
<1>1. FreeThreads \in SUBSET Nat /\ FreeThreads # {}
  BY ThreadAssumption DEF FreeThreads
<1>2. IsWellFoundedOn(Less, Nat)
  BY NatLessThanWellFounded DEF OpToRel
<1>3. PICK t \in FreeThreads : \A u \in FreeThreads : <<u, t>> \notin Less
  BY <1>1, <1>2, WFMin
<1>4. ASSUME NEW u \in FreeThreads PROVE t <= u
  <2>1. <<u, t>> \in Nat \X Nat /\ <<u, t>>[1] = u /\ <<u, t>>[2] = t
    BY <1>1
  <2>2. ~(u < t)
    BY <1>3, <2>1
  <2>3. QED
    BY <1>1, <2>2
<1>5. QED
  BY <1>4

\* The queue without its head.
LEMMA HeadServed ==
    ASSUME NEW S, NEW s \in Seq(S), s # <<>>
    PROVE  /\ RemoveAt(s, 1) \in Seq(S)
           /\ Len(RemoveAt(s, 1)) = Len(s) - 1
           /\ \A i \in 1 .. Len(s) - 1 : RemoveAt(s, 1)[i] = s[i + 1]
<1>1. Len(s) \in Nat /\ Len(s) >= 1
  BY EmptySeq, LenProperties
<1>2. SubSeq(s, 1, 0) = <<>>
  BY <1>1
<1>3. /\ SubSeq(s, 2, Len(s)) \in Seq(S)
      /\ Len(SubSeq(s, 2, Len(s))) = Len(s) - 1
      /\ \A i \in 1 .. Len(s) - 1 : SubSeq(s, 2, Len(s))[i] = s[i + 1]
  <2>1. \A i \in 2 .. Len(s) : s[i] \in S
    BY <1>1, ElementOfSeq
  <2>2. 2 \in Int /\ Len(s) \in Int
    BY <1>1
  <2>3. /\ SubSeq(s, 2, Len(s)) \in Seq(S)
        /\ Len(SubSeq(s, 2, Len(s))) = IF 2 <= Len(s) THEN Len(s) - 2 + 1 ELSE 0
        /\ \A i \in 1 .. Len(s) - 2 + 1 : SubSeq(s, 2, Len(s))[i] = s[2 + i - 1]
    BY <2>1, <2>2, SubSeqProperties
  <2>4. Len(SubSeq(s, 2, Len(s))) = Len(s) - 1
    <3>1. CASE Len(s) = 1
      BY <2>3, <3>1
    <3>2. CASE Len(s) # 1
      <4> DEFINE n == Len(s)
      <4>0. n \in Nat /\ n >= 1 /\ n # 1
        BY <1>1, <3>2
      <4> HIDE DEF n
      <4>1. 2 <= n /\ n - 2 + 1 = n - 1
        BY <4>0
      <4>2. QED
        BY <2>3, <4>1 DEF n
    <3>3. QED
      BY <3>1, <3>2
  <2>5. ASSUME NEW i \in 1 .. Len(s) - 1 PROVE SubSeq(s, 2, Len(s))[i] = s[i + 1]
    <3>1. i \in 1 .. Len(s) - 2 + 1 /\ 2 + i - 1 = i + 1
      BY <1>1
    <3>2. QED
      BY <2>3, <3>1
  <2>6. QED
    BY <2>3, <2>4, <2>5
<1>4. RemoveAt(s, 1) = SubSeq(s, 2, Len(s))
  BY <1>1, <1>2, <1>3, ConcatEmptySeq DEF RemoveAt
<1>5. QED
  BY <1>3, <1>4

-----------------------------------------------------------------------------
(* The player. *)

\* What the invariant says of the player, and of what the rest of the program is at.
Worked ==
    /\ PlayerTypeOK
    /\ \A c \in Caller : Placed(c)
    /\ OneCaller => Known

Flags == {over, stopping} \subseteq BOOLEAN /\ hour \in 0 .. Day - 1

NetTypeOK ==
    /\ cfg \in Config
    /\ Flags
    /\ up \subseteq Routes
    /\ cached \in Routes \cup {None}
    /\ client \in [at : {"off", "boot", "read", "resolve", "resolved", "send", "ack", "post"},
                   playing : BOOLEAN, lost : 0 .. MaxLost, host : Routes \cup {None}]
    /\ backlog \in Seq([cmd : {"START", "STOP"}, live : BOOLEAN]) /\ Len(backlog) <= MaxBacklog
    /\ server \in {"accept", "answer", "closing", "over"}
    /\ mailbox \in {"", "START", "STOP"}
    /\ telegram \in [at : {"off", "fetch", "act", "clear"}, cmd : {"", "START", "STOP"}]
    /\ faults \in 0 .. MaxFaults

\* A step of the server that begins or ends a call.
LEMMA ServerMoves ==
    ASSUME NetTypeOK, server' \in {"accept", "answer", "closing", "over"},
           UNCHANGED <<cfg, net, env, client, stopping, telegram>>
    PROVE  NetTypeOK'
<1>1. /\ cfg' = cfg /\ up' = up /\ cached' = cached /\ client' = client
      /\ backlog' = backlog /\ mailbox' = mailbox /\ telegram' = telegram
      /\ faults' = faults /\ over' = over /\ hour' = hour /\ stopping' = stopping
  BY DEF net, env
<1>2. QED
  BY <1>1 DEF NetTypeOK, Flags

Operated == NetTypeOK /\ Polling /\ Serving /\ Queued /\ RingsWhenAcknowledged

\* Between calls the one caller knows whether anything sounds.
LEMMA Parts == AlertsInv <=> Worked /\ Operated
<1>1. ASSUME OneCaller => Known PROVE KnownSound
  BY <1>1, ThreadsAssumption DEF KnownSound, Known, AtRest, At
<1>2. QED
  BY <1>1 DEF AlertsInv, TypeOK, Worked, NetTypeOK, Flags, Operated

\* A call that begins finds its caller idle, and knows what the caller knew.
LEMMA Asked ==
    ASSUME Worked, NEW c \in Caller, NEW op \in {"play", "stop"}, Begin(c, op),
           call[c] = Idle, c \in {"accept", "telegram"}, OneCaller => c = "accept",
           UNCHANGED <<flag, told, alive, cfg>>
    PROVE  /\ Worked'
           /\ call'[c].op = op
           /\ \A d \in Caller \ {c} : call'[d] = call[d]
<1>1. /\ call' = [call EXCEPT ![c] = [op |-> op, at |-> IF op = "play" THEN "playing?" ELSE "stop?"]]
      /\ call \in [Caller -> [op : {"none", "play", "stop"},
                     at : {"playing?", "stop?", "set", "join", "unset", "clear", "start", "mark", "done"}]]
  BY DEF Begin, Worked, PlayerTypeOK
<1>2. /\ call'[c].op = op /\ call'[c].at = IF op = "play" THEN "playing?" ELSE "stop?"
      /\ \A d \in Caller \ {c} : call'[d] = call[d]
  BY <1>1
<1>3. PlayerTypeOK'
  BY <1>1 DEF Worked, PlayerTypeOK
<1>4. \A d \in Caller : Placed(d)'
  BY <1>2 DEF Worked, Placed, At
<1>5. OneCaller' => Known'
  BY <1>2, ThreadsAssumption DEF Worked, Known, OneCaller, Remote, Idle
<1>6. QED
  BY <1>2, <1>3, <1>4, <1>5 DEF Worked

\* A call that is answered leaves its caller idle.
LEMMA Answers ==
    ASSUME Worked, NEW c \in Caller, At(c, "done"), Return(c),
           UNCHANGED <<flag, told, alive, cfg>>
    PROVE  /\ Worked'
           /\ call'[c] = Idle
           /\ \A d \in Caller \ {c} : call'[d] = call[d]
<1>1. /\ call' = [call EXCEPT ![c] = Idle]
      /\ call \in [Caller -> [op : {"none", "play", "stop"},
                     at : {"playing?", "stop?", "set", "join", "unset", "clear", "start", "mark", "done"}]]
  BY DEF Return, Worked, PlayerTypeOK
<1>2. call'[c] = Idle /\ \A d \in Caller \ {c} : call'[d] = call[d]
  BY <1>1
<1>3. PlayerTypeOK'
  BY <1>1 DEF Worked, PlayerTypeOK, Idle
<1>4. \A d \in Caller : Placed(d)'
  BY <1>2 DEF Worked, Placed, At, Idle
<1>5. OneCaller' => Known'
  BY <1>2, ThreadsAssumption DEF Worked, Known, OneCaller, Remote, Idle, At
<1>6. QED
  BY <1>2, <1>3, <1>4, <1>5 DEF Worked

\* One statement of a call: the call stays the same, and every other call too.
LEMMA Statement ==
    ASSUME Worked, NEW c \in Caller, CallSteps(c), OneCaller => c = "accept", UNCHANGED cfg
    PROVE  /\ Worked'
           /\ call'[c].op = call[c].op /\ call[c].op \in {"play", "stop"}
           /\ \A d \in Caller \ {c} : call'[d] = call[d]
<1> DEFINE Points == {"playing?", "stop?", "set", "join", "unset", "clear", "start", "mark", "done"}
<1>1. /\ call \in [Caller -> [op : {"none", "play", "stop"}, at : Points]]
      /\ {flag, told} \subseteq BOOLEAN /\ alive \subseteq 1 .. MaxThreads
      /\ Placed(c)
  BY DEF Worked, PlayerTypeOK
<1>2. call[c].op \in {"play", "stop"} /\ call[c].at # "done"
  BY <1>1 DEF CallSteps, Playing, Stop, SetStop, Join, Unset, ClearStop, StartThread, Mark, At, Placed
<1>3. ASSUME NEW p \in Points, To(c, p)
      PROVE  /\ call' \in [Caller -> [op : {"none", "play", "stop"}, at : Points]]
             /\ call'[c].op = call[c].op /\ call'[c].at = p
             /\ \A d \in Caller \ {c} : call'[d] = call[d]
  BY <1>1, <1>3 DEF To
\* What is left to show of a statement that goes on at p.
<1>4. ASSUME NEW p \in Points, To(c, p),
             p \in {"playing?", "clear", "start", "mark"} => call[c].op = "play",
             {flag', told'} \subseteq BOOLEAN, alive' \subseteq 1 .. MaxThreads,
             c = "accept" /\ Known =>
               /\ p \in {"playing?", "stop?", "done"} /\ ~flag' => alive' = {} \/ told'
               /\ p \in {"join", "unset"} => told'
               /\ p = "start" => ~told'
               /\ p = "done" => /\ call[c].op = "stop" => ~flag'
                                /\ call[c].op = "play" => flag'
      PROVE  /\ Worked'
             /\ call'[c].op = call[c].op
             /\ \A d \in Caller \ {c} : call'[d] = call[d]
  <2>1. /\ call' \in [Caller -> [op : {"none", "play", "stop"}, at : Points]]
        /\ call'[c].op = call[c].op /\ call'[c].at = p
        /\ \A d \in Caller \ {c} : call'[d] = call[d]
    BY <1>3, <1>4
  <2>2. PlayerTypeOK'
    BY <2>1, <1>4 DEF PlayerTypeOK
  <2>3. \A d \in Caller : Placed(d)'
    <3>1. ASSUME NEW d \in Caller \ {c} PROVE Placed(d)'
      BY <2>1 DEF Worked, Placed, At
    <3>2. c \in {"accept", "telegram"}
      BY <1>1, <1>2 DEF Placed, Idle
    <3>3. Placed(c)'
      BY <1>2, <1>4, <2>1, <3>2 DEF Placed, At
    <3>4. QED
      BY <3>1, <3>3
  <2>4. OneCaller' => Known'
    BY <1>4, <2>1 DEF Worked, Known, OneCaller, Remote
  <2>5. QED
    BY <2>1, <2>2, <2>3, <2>4 DEF Worked
<1>5. QED
  <2>1. CASE Playing(c)
    BY <1>1, <1>2, <1>4, <2>1 DEF Playing, At, Known, Placed
  <2>2. CASE Stop(c)
    BY <1>1, <1>2, <1>4, <2>2 DEF Stop, At, Known, Placed, AfterStop
  <2>3. CASE SetStop(c)
    BY <1>1, <1>2, <1>4, <2>3 DEF SetStop, At, Known, Placed
  <2>4. CASE Join(c)
    BY <1>1, <1>2, <1>4, <2>4 DEF Join, At, Known, Placed
  <2>5. CASE Unset(c)
    BY <1>1, <1>2, <1>4, <2>5 DEF Unset, At, Known, Placed, AfterStop
  <2>6. CASE ClearStop(c)
    BY <1>1, <1>2, <1>4, <2>6 DEF ClearStop, At, Known, Placed
  <2>7. CASE StartThread(c)
    <3>1. alive' \subseteq 1 .. MaxThreads
      BY <1>1, <2>7, FreeThread DEF StartThread, FreeThreads
    <3>2. QED
      BY <1>1, <1>2, <1>4, <2>7, <3>1 DEF StartThread, At, Known, Placed
  <2>8. CASE Mark(c)
    BY <1>1, <1>2, <1>4, <2>8 DEF Mark, At, Known, Placed
  <2>9. QED
    BY <1>2, <2>1, <2>2, <2>3, <2>4, <2>5, <2>6, <2>7, <2>8 DEF CallSteps

\* Whatever the threads do, they leave fewer.
LEMMA Quieter ==
    ASSUME Worked, alive' \subseteq alive, UNCHANGED <<flag, told, call, cfg>>
    PROVE  Worked'
BY DEF Worked, PlayerTypeOK, Placed, At, Known, OneCaller, Remote

LEMMA Untouched ==
    ASSUME Worked, UNCHANGED <<player, cfg>>
    PROVE  Worked'
BY DEF Worked, player, PlayerTypeOK, Placed, At, Known, OneCaller, Remote

-----------------------------------------------------------------------------
(* The client. *)

ClientState ==
    [at : {"off", "boot", "read", "resolve", "resolved", "send", "ack", "post"},
     playing : BOOLEAN, lost : 0 .. MaxLost, host : Routes \cup {None}]

\* What a turn of the client's loop ends with.
LEMMA Turns ==
    ASSUME client \in ClientState
    PROVE  /\ Noted \in ClientState /\ Noted.at = "read" /\ Noted.playing = ~client.playing
           /\ NotAcknowledged \in ClientState /\ NotAcknowledged.at = "read"
           /\ ~NotAcknowledged.playing
<1>1. /\ Noted \in ClientState /\ Noted.at = "read" /\ Noted.playing = ~client.playing
  <2> DEFINE n == IF client.playing THEN client.lost ELSE 0
             s == [client EXCEPT !.at = "read", !.playing = ~client.playing, !.lost = n]
  <2>1. n \in 0 .. MaxLost
    BY LostAssumption DEF ClientState
  <2>2. Noted = s
    BY DEF Noted
  <2> HIDE DEF n
  <2>3. s \in ClientState /\ s.at = "read" /\ s.playing = ~client.playing
    BY <2>1 DEF ClientState
  <2>4. QED
    BY <2>2, <2>3
<1> DEFINE lost == IF client.lost < MaxLost THEN client.lost + 1 ELSE MaxLost
<1>2. lost \in 0 .. MaxLost
  BY LostAssumption DEF ClientState
<1> HIDE DEF lost
<1>3. [client EXCEPT !.at = "read", !.lost = lost,
                     !.host = IF lost >= MaxLost THEN None ELSE @] \in ClientState
  BY <1>2 DEF ClientState
<1>4. NotAcknowledged = IF client.playing THEN Noted
                        ELSE [client EXCEPT !.at = "read", !.lost = lost,
                                !.host = IF lost >= MaxLost THEN None ELSE @]
  BY DEF NotAcknowledged, lost
<1>5. QED
  BY <1>1, <1>3, <1>4 DEF ClientState

Connection == [cmd : {"START", "STOP"}, live : BOOLEAN]

LEMMA HeadOf ==
    ASSUME backlog \in Seq(Connection), backlog # <<>>
    PROVE  /\ 1 \in DOMAIN backlog /\ backlog[1] \in Connection
           /\ Len(backlog) \in Nat /\ Len(backlog) >= 1 /\ DOMAIN backlog = 1 .. Len(backlog)
<1>1. Len(backlog) \in Nat /\ Len(backlog) >= 1 /\ DOMAIN backlog = 1 .. Len(backlog)
  BY EmptySeq, LenProperties
<1>2. 1 \in 1 .. Len(backlog)
  BY <1>1
<1>3. backlog[1] \in Connection
  BY <1>2, ElementOfSeq
<1>4. QED
  BY <1>1, <1>2, <1>3

\* The client gives up on what it has sent.
LEMMA Abandoned ==
    ASSUME backlog \in Seq(Connection),
           backlog' = [i \in DOMAIN backlog |-> [backlog[i] EXCEPT !.live = FALSE]]
    PROVE  /\ backlog' \in Seq(Connection) /\ Len(backlog') = Len(backlog)
           /\ DOMAIN backlog' = DOMAIN backlog
           /\ \A i \in DOMAIN backlog : backlog'[i].cmd = backlog[i].cmd /\ ~backlog'[i].live
           /\ backlog = <<>> <=> backlog' = <<>>
<1>1. Len(backlog) \in Nat /\ DOMAIN backlog = 1 .. Len(backlog)
  BY LenProperties
<1>2. \A i \in 1 .. Len(backlog) : backlog[i] \in Connection
  BY ElementOfSeq
<1>3. \A x \in Connection : /\ [x EXCEPT !.live = FALSE] \in Connection
                            /\ [x EXCEPT !.live = FALSE].cmd = x.cmd
                            /\ ~[x EXCEPT !.live = FALSE].live
  BY DEF Connection
<1>4. \A i \in DOMAIN backlog : /\ backlog'[i] \in Connection
                                /\ backlog'[i].cmd = backlog[i].cmd /\ ~backlog'[i].live
  BY <1>1, <1>2, <1>3
<1>5. backlog' \in [1 .. Len(backlog) -> Connection]
  BY <1>1, <1>4
<1>6. backlog' \in Seq(Connection)
  BY <1>1, <1>5, IsASeq
<1>7. DOMAIN backlog' = 1 .. Len(backlog)
  BY <1>5
<1>8. Len(backlog') = Len(backlog)
  BY <1>1, <1>6, <1>7, LenProperties
<1>9. backlog = <<>> <=> backlog' = <<>>
  BY <1>6, <1>8, EmptySeq
<1>10. QED
  BY <1>1, <1>4, <1>6, <1>7, <1>8, <1>9

LEMMA SameFlags ==
    ASSUME Operated, UNCHANGED <<over, hour, stopping>>
    PROVE  Flags'
BY DEF Operated, NetTypeOK, Flags

LEMMA SameNet ==
    ASSUME Operated, UNCHANGED <<cfg, net, env, client, laptop>>
    PROVE  NetTypeOK'
<1>1. UNCHANGED <<cfg, up, cached, client, backlog, server, mailbox, telegram, faults>>
  BY DEF net, env, laptop
<1>2. Flags'
  BY SameFlags DEF env, laptop
<1>3. QED
  BY <1>1, <1>2 DEF Operated, NetTypeOK

\* A client that goes on without the server: no command of it is queued anew, the ones that are
\* have nobody who waits, and it believes in an alert only when it may have used the cloud.
LEMMA GoesOn ==
    ASSUME Operated, client' \in ClientState, Remote,
           client'.at # "off",
           \/ backlog' = [i \in DOMAIN backlog |-> [backlog[i] EXCEPT !.live = FALSE]]
           \/ backlog' = backlog /\ (\A i \in DOMAIN backlog : ~backlog[i].live),
           client'.playing => HasTelegram(cfg.client) \/ (client.playing /\ client.at # "ack"),
           cached' \in Routes \cup {None}, mailbox' \in {"", "START", "STOP"},
           faults' \in 0 .. MaxFaults,
           UNCHANGED <<player, cfg, over, hour, up, laptop>>
    PROVE  Operated'
<1>1. /\ backlog' \in Seq([cmd : {"START", "STOP"}, live : BOOLEAN]) /\ Len(backlog') = Len(backlog)
      /\ Len(backlog) <= MaxBacklog /\ DOMAIN backlog' = DOMAIN backlog
      /\ \A i \in DOMAIN backlog : backlog'[i].cmd = backlog[i].cmd /\ ~backlog'[i].live
      /\ backlog = <<>> <=> backlog' = <<>>
  <2>1. backlog \in Seq(Connection) /\ Len(backlog) <= MaxBacklog
    BY DEF Operated, NetTypeOK, Connection
  <2>2. CASE backlog' = [i \in DOMAIN backlog |-> [backlog[i] EXCEPT !.live = FALSE]]
    BY <2>1, <2>2, Abandoned DEF Connection
  <2>3. CASE backlog' = backlog /\ (\A i \in DOMAIN backlog : ~backlog[i].live)
    BY <2>1, <2>3 DEF Connection
  <2>4. QED
    BY <2>2, <2>3
<1>2. NetTypeOK'
  BY <1>1, SameFlags DEF Operated, NetTypeOK, ClientState, laptop
<1>3. Polling'
  BY DEF Operated, Polling, OneCaller, Remote, player, laptop, Op
<1>4. Serving'
  <2>1. backlog # <<>> => 1 \in DOMAIN backlog
    BY HeadOf DEF Operated, NetTypeOK, Connection
  <2>2. QED
    BY <1>1, <2>1 DEF Operated, Serving, Remote, player, laptop, Op, NextConnection
<1>5. Queued'
  BY <1>1 DEF Operated, Queued, Remote, Command
<1>6. RingsWhenAcknowledged'
  BY <1>1 DEF Operated, RingsWhenAcknowledged, OneCaller, Remote, player, laptop, HasTelegram
<1>7. QED
  BY <1>2, <1>3, <1>4, <1>5, <1>6 DEF Operated

\* Only a client that waits for an answer has something in the queue that waits with it.
LEMMA NobodyWaits ==
    ASSUME Operated, client.at \notin {"off", "ack"}
    PROVE  Remote /\ \A i \in DOMAIN backlog : ~backlog[i].live
BY DEF Operated, Queued

LEMMA Faults ==
    ASSUME Operated, Fault
    PROVE  faults' \in 0 .. MaxFaults
<1>1. faults \in 0 .. MaxFaults /\ cfg.faults \in 0 .. MaxFaults
  BY DEF Operated, NetTypeOK, Config
<1>2. QED
  BY <1>1, FaultAssumption DEF Fault

\* A resolution of the server moves the client on, with or without a host.
LEMMA Resolves ==
    ASSUME Operated, NEW next \in {"read", "resolved"}, Resolve(next),
           client.at \notin {"off", "ack"}, UNCHANGED <<player, cfg, over, hour, up, backlog, mailbox, laptop>>
    PROVE  Operated'
<1>1. /\ client \in ClientState /\ cached \in Routes \cup {None} /\ faults \in 0 .. MaxFaults
      /\ mailbox \in {"", "START", "STOP"}
  BY DEF Operated, NetTypeOK, ClientState
<1>2. Found \in Routes \cup {None}
  BY DEF Found, Routes, None
<1>3. faults' \in 0 .. MaxFaults
  BY <1>1, Faults DEF Resolve
<1>4. cached' \in Routes \cup {None}
  BY <1>1, <1>2 DEF Resolve
<1>5. /\ client' \in ClientState /\ client'.at = next /\ client'.playing = client.playing
  BY <1>1, <1>2 DEF Resolve, ClientState
<1>6. QED
  BY <1>1, <1>3, <1>4, <1>5, NobodyWaits, GoesOn

LEMMA ClientStep ==
    ASSUME Operated, \/ ClientBoots \/ ClientReads \/ ClientResolves \/ ClientChooses
                     \/ CannotConnect \/ ClientPosts \/ ClientPostFails
    PROVE  Operated' /\ UNCHANGED <<player, cfg>>
<1>1. /\ client \in ClientState /\ cached \in Routes \cup {None} /\ faults \in 0 .. MaxFaults
      /\ mailbox \in {"", "START", "STOP"}
  BY DEF Operated, NetTypeOK, ClientState
<1>2. CASE ClientBoots
  <2>1. client.at \notin {"off", "ack"}
    BY <1>2 DEF ClientBoots
  <2>2. CASE HasSocket(cfg.client)
    BY <1>2, <2>1, <2>2, Resolves DEF ClientBoots
  <2>3. CASE ~HasSocket(cfg.client)
    <3>1. /\ client' \in ClientState /\ client'.at = "read" /\ client'.playing = client.playing
      BY <1>1, <1>2, <2>3 DEF ClientBoots, ClientState
    <3>2. UNCHANGED <<player, cfg, over, hour, up, cached, backlog, mailbox, laptop, faults>>
      BY <1>2, <2>3 DEF ClientBoots
    <3>3. QED
      BY <1>1, <2>1, <3>1, <3>2, NobodyWaits, GoesOn
  <2>4. QED
    BY <1>2, <2>2, <2>3 DEF ClientBoots
<1>3. CASE ClientResolves
  <2>1. client.at \notin {"off", "ack"}
    BY <1>3 DEF ClientResolves
  <2>2. QED
    BY <1>3, <2>1, Resolves DEF ClientResolves
<1>4. CASE ClientReads \/ ClientChooses
  <2>1. client.at \notin {"off", "ack"}
    BY <1>4 DEF ClientReads, ClientChooses
  <2>2. PICK a \in {"resolve", "send", "post"} : client' = [client EXCEPT !.at = a]
    BY <1>4 DEF ClientReads, ClientChooses
  <2>3. /\ client' \in ClientState /\ client'.at # "off" /\ client'.playing = client.playing
    BY <1>1, <2>2 DEF ClientState
  <2>4. UNCHANGED <<player, cfg, over, hour, up, cached, backlog, mailbox, laptop, faults>>
    BY <1>4 DEF ClientReads, ClientChooses, net, env
  <2>5. QED
    BY <1>1, <2>1, <2>3, <2>4, NobodyWaits, GoesOn
<1>5. CASE CannotConnect
  <2>1. client.at \notin {"off", "ack"} /\ client' = NotAcknowledged
    BY <1>5 DEF CannotConnect
  <2>2. /\ client' \in ClientState /\ client'.at # "off" /\ ~client'.playing
    BY <1>1, <2>1, Turns
  <2>3. UNCHANGED <<player, cfg, over, hour, up, cached, backlog, mailbox, laptop, faults>>
    BY <1>5 DEF CannotConnect, net, env
  <2>4. QED
    BY <1>1, <2>1, <2>2, <2>3, NobodyWaits, GoesOn
<1>6. CASE ClientPosts
  <2>1. client.at \notin {"off", "ack"} /\ client' = Noted /\ HasTelegram(cfg.client)
    BY <1>6 DEF ClientPosts
  <2>2. client' \in ClientState /\ client'.at # "off" /\ mailbox' \in {"", "START", "STOP"}
    BY <1>1, <1>6, <2>1, Turns DEF ClientPosts, Command
  <2>3. UNCHANGED <<player, cfg, over, hour, up, cached, backlog, laptop, faults>>
    BY <1>6 DEF ClientPosts, env
  <2>4. QED
    BY <1>1, <2>1, <2>2, <2>3, NobodyWaits, GoesOn
<1>7. CASE ClientPostFails
  <2>1. client.at \notin {"off", "ack"}
    BY <1>7 DEF ClientPostFails
  <2>2. client' \in ClientState /\ client'.at # "off" /\ ~client'.playing
    <3>1. CASE client.playing
      BY <1>1, <1>7, <3>1, Turns DEF ClientPostFails
    <3>2. CASE ~client.playing
      BY <1>1, <1>7, <3>2 DEF ClientPostFails, ClientState
    <3>3. QED
      BY <3>1, <3>2
  <2>3. mailbox' \in {"", "START", "STOP"}
    BY <1>1, <1>7 DEF ClientPostFails, Command
  <2>4. faults' \in 0 .. MaxFaults
    BY <1>1, <1>7, Faults DEF ClientPostFails
  <2>5. UNCHANGED <<player, cfg, over, hour, up, cached, backlog, laptop>>
    BY <1>7 DEF ClientPostFails
  <2>6. QED
    BY <1>1, <2>1, <2>2, <2>3, <2>4, <2>5, NobodyWaits, GoesOn
<1>8. QED
  BY <1>2, <1>3, <1>4, <1>5, <1>6, <1>7

LEMMA ClientGivesUp ==
    ASSUME Operated, ClientTimesOut \/ ClientRestarts
    PROVE  Operated' /\ UNCHANGED <<player, cfg>>
<1>1. client \in ClientState /\ cached \in Routes \cup {None} /\ mailbox \in {"", "START", "STOP"}
  BY DEF Operated, NetTypeOK, ClientState
<1>2. Remote
  BY DEF Operated, Queued, ClientTimesOut, ClientRestarts
<1>3. faults' \in 0 .. MaxFaults
  BY Faults DEF ClientTimesOut, ClientRestarts, Operated, NetTypeOK
<1>4. client' \in ClientState /\ client'.at # "off" /\ ~client'.playing
  <2>1. CASE ClientTimesOut
    BY <1>1, <2>1, Turns DEF ClientTimesOut
  <2>2. CASE ClientRestarts
    BY <2>2, LostAssumption DEF ClientRestarts, ClientState
  <2>3. QED
    BY <2>1, <2>2
<1>5. /\ backlog' = [i \in DOMAIN backlog |-> [backlog[i] EXCEPT !.live = FALSE]]
      /\ UNCHANGED <<player, cfg, over, hour, up, cached, mailbox, laptop>>
  BY DEF ClientTimesOut, ClientRestarts
<1>6. QED
  BY <1>1, <1>2, <1>3, <1>4, <1>5, GoesOn

\* The command that is sent is the newest in the queue, and the client's next.
LEMMA Sends ==
    ASSUME Operated, ClientSends
    PROVE  Operated' /\ UNCHANGED <<player, cfg>>
<1> DEFINE x == [cmd |-> Command, live |-> TRUE]
<1>1. /\ client \in ClientState /\ backlog \in Seq(Connection) /\ x \in Connection
      /\ Len(backlog) <= MaxBacklog
  BY DEF Operated, NetTypeOK, ClientState, Connection, Command
<1>2. /\ client' \in ClientState /\ client'.at = "ack" /\ client'.playing = client.playing
      /\ UNCHANGED <<player, cfg, over, hour, up, cached, mailbox, laptop, faults>>
      /\ backlog' = Append(backlog, x) /\ Len(backlog) < MaxBacklog
  BY <1>1 DEF ClientSends, ClientState, env
<1>3. client.at \notin {"off", "ack"}
  BY DEF ClientSends
<1> HIDE DEF x
<1>4. /\ backlog' \in Seq(Connection) /\ Len(backlog') = Len(backlog) + 1
      /\ \A i \in 1 .. Len(backlog) : backlog'[i] = backlog[i]
      /\ backlog'[Len(backlog) + 1] = x
  BY <1>1, <1>2, AppendProperties
<1>5. /\ Len(backlog) \in Nat /\ DOMAIN backlog = 1 .. Len(backlog)
      /\ DOMAIN backlog' = 1 .. Len(backlog) + 1
  BY <1>1, <1>4, LenProperties
<1>6. NetTypeOK'
  <2>1. Len(backlog') <= MaxBacklog
    BY <1>2, <1>4, <1>5, BacklogAssumption
  <2>2. QED
    BY <1>2, <1>4, <2>1, SameFlags DEF Operated, NetTypeOK, ClientState, Connection, laptop
<1>7. Polling'
  BY <1>2 DEF Operated, Polling, OneCaller, Remote, player, laptop, Op
<1>8. Serving'
  <2>1. backlog # <<>> => 1 \in 1 .. Len(backlog)
    BY <1>1, HeadOf
  <2>2. backlog' # <<>>
    BY <1>4, <1>5, EmptySeq
  <2>3. QED
    BY <1>2, <1>4, <2>1, <2>2 DEF Operated, Serving, Remote, player, laptop, Op, NextConnection
<1>9. Queued'
  <2>1. Remote'
    BY <1>2, <1>3 DEF Operated, Queued, Remote
  <2>2. ASSUME NEW i \in DOMAIN backlog', backlog'[i].live
        PROVE  i = Len(backlog') /\ client'.at = "ack" /\ backlog'[i].cmd = Command'
    <3>1. i \notin 1 .. Len(backlog)
      BY <1>3, <1>4, <1>5, <2>2, NobodyWaits
    <3>2. i = Len(backlog) + 1
      BY <1>5, <3>1
    <3>3. x.cmd = Command'
      BY <1>2 DEF x, Command
    <3>4. QED
      BY <1>2, <1>4, <3>2, <3>3
  <2>3. QED
    BY <2>1, <2>2 DEF Queued
<1>10. RingsWhenAcknowledged'
  BY <1>2 DEF RingsWhenAcknowledged
<1>11. QED
  BY <1>2, <1>6, <1>7, <1>8, <1>9, <1>10 DEF Operated

-----------------------------------------------------------------------------
(* The server and the monitor. *)

\* A call for the server or the monitor begins when it has none.
LEMMA AcceptAsks ==
    ASSUME Worked, Operated, NEW op \in {"play", "stop"}, Begin("accept", op),
           Returned("accept", "none"), UNCHANGED <<flag, told, alive, cfg>>
    PROVE  /\ Worked' /\ call'["accept"].op = op
           /\ \A d \in Caller \ {"accept"} : call'[d] = call[d]
<1>1. "accept" \in Caller /\ call["accept"] = Idle
  BY ThreadsAssumption DEF Returned, Idle
<1>2. QED
  BY <1>1, Asked

\* What the server does to its queue when it has answered the oldest connection.
LEMMA Dequeues ==
    ASSUME Operated, NEW waiter, waiter \in ClientState, waiter.at # "off",
           Answered(NextConnection, waiter), backlog # <<>>, Remote
    PROVE  /\ backlog' \in Seq([cmd : {"START", "STOP"}, live : BOOLEAN])
           /\ Len(backlog') <= MaxBacklog
           /\ client' \in ClientState
           /\ \/ client' = client
              \/ client' = waiter /\ backlog' = <<>> /\ backlog[1].cmd = Command /\ backlog[1].live
           /\ \A i \in DOMAIN backlog' :
                backlog'[i].live => i = Len(backlog') /\ client'.at = "ack" /\ backlog'[i].cmd = Command'
<1>1. /\ client \in ClientState /\ backlog \in Seq(Connection) /\ Len(backlog) <= MaxBacklog
      /\ \A i \in DOMAIN backlog :
           backlog[i].live => i = Len(backlog) /\ client.at = "ack" /\ backlog[i].cmd = Command
  BY DEF Operated, NetTypeOK, ClientState, Connection, Queued
<1>2. /\ 1 \in DOMAIN backlog /\ backlog[1] \in Connection
      /\ Len(backlog) \in Nat /\ Len(backlog) >= 1 /\ DOMAIN backlog = 1 .. Len(backlog)
  BY <1>1, HeadOf
<1>3. backlog' = RemoveAt(backlog, 1)
  BY DEF Answered, NextConnection
<1>4. /\ backlog' \in Seq(Connection) /\ Len(backlog') = Len(backlog) - 1
      /\ \A i \in 1 .. Len(backlog) - 1 : backlog'[i] = backlog[i + 1]
  BY <1>1, <1>3, HeadServed
<1>5. DOMAIN backlog' = 1 .. Len(backlog) - 1
  BY <1>4, LenProperties
<1>6. Len(backlog') <= MaxBacklog
  BY <1>1, <1>2, <1>4, BacklogAssumption
<1>7. \/ client' = client
      \/ client' = waiter /\ backlog[1].live
  BY DEF Answered, NextConnection
<1>8. ASSUME backlog[1].live
      PROVE  backlog' = <<>> /\ backlog[1].cmd = Command
  <2>1. Len(backlog) = 1 /\ backlog[1].cmd = Command
    BY <1>1, <1>2, <1>8
  <2>2. Len(backlog') = 0
    BY <1>4, <2>1
  <2>3. QED
    BY <1>4, <2>1, <2>2, EmptySeq
<1>9. CASE client' = client
  <2>1. ASSUME NEW i \in DOMAIN backlog', backlog'[i].live
        PROVE  i = Len(backlog') /\ client'.at = "ack" /\ backlog'[i].cmd = Command'
    <3>1. /\ i \in 1 .. Len(backlog) - 1 /\ i + 1 \in DOMAIN backlog
          /\ backlog'[i] = backlog[i + 1]
      BY <1>2, <1>4, <1>5
    <3>2. i + 1 = Len(backlog) /\ client.at = "ack" /\ backlog[i + 1].cmd = Command
      BY <1>1, <2>1, <3>1
    <3>3. i = Len(backlog')
      BY <1>2, <1>4, <3>1, <3>2
    <3>4. QED
      BY <1>9, <3>1, <3>2, <3>3 DEF Command
  <2>2. QED
    BY <1>1, <1>4, <1>6, <1>9, <2>1 DEF Connection
<1>10. CASE client' = waiter /\ backlog[1].live
  <2>1. DOMAIN backlog' = {}
    BY <1>2, <1>5, <1>4, <1>8, <1>10, EmptySeq
  <2>2. QED
    BY <1>4, <1>6, <1>8, <1>10, <2>1 DEF Connection
<1>11. QED
  BY <1>7, <1>9, <1>10

LEMMA ServerStep ==
    ASSUME Worked, Operated, ServerSteps
    PROVE  Worked' /\ Operated'
<1> USE DEF NextConnection
<1>1. /\ client \in ClientState /\ cached \in Routes \cup {None} /\ faults \in 0 .. MaxFaults
      /\ "accept" \in Caller /\ "telegram" \in Caller \ {"accept"}
  BY ThreadsAssumption DEF Operated, NetTypeOK, ClientState
<1>10. Flags'
  BY SameFlags DEF ServerSteps, MonitorReads, MonitorSleeps, ServerHandles, ServerAcknowledges,
     ServerRefuses, ServerCloses, ServerOver, env, laptop
<1>2. CASE MonitorReads
  <2>1. PICK op \in {"play", "stop"} : Begin("accept", op)
    BY <1>2 DEF MonitorReads
  <2>2. /\ Returned("accept", "none") /\ ~Remote
        /\ UNCHANGED <<flag, told, alive, cfg, net, env, client, laptop>>
    BY <1>2 DEF MonitorReads, Remote
  <2>3. Worked' /\ call'["telegram"] = call["telegram"]
    BY <1>1, <2>1, <2>2, AcceptAsks
  <2>4. Operated'
    BY <1>10, <2>2, <2>3 DEF Operated, NetTypeOK, Polling, Serving, Queued, RingsWhenAcknowledged, OneCaller,
       Remote, net, env, laptop, Op, Command
  <2>5. QED
    BY <2>3, <2>4
<1>3. CASE MonitorSleeps
  <2>1. /\ At("accept", "done") /\ ~Remote /\ Return("accept")
        /\ UNCHANGED <<flag, told, alive, cfg, net, env, client, laptop>>
    BY <1>3 DEF MonitorSleeps, Remote, Returned, At
  <2>2. Worked' /\ call'["telegram"] = call["telegram"]
    BY <1>1, <2>1, Answers
  <2>3. Operated'
    BY <1>10, <2>1, <2>2 DEF Operated, NetTypeOK, Polling, Serving, Queued, RingsWhenAcknowledged, OneCaller,
       Remote, net, env, laptop, Op, Command
  <2>4. QED
    BY <2>2, <2>3
<1>4. CASE ServerHandles
  <2>1. /\ backlog \in Seq(Connection) /\ backlog # <<>>
    BY <1>4 DEF ServerHandles, Operated, NetTypeOK, Connection
  <2> DEFINE op == Op(backlog[1].cmd)
  <2>2. op \in {"play", "stop"} /\ Begin("accept", op)
    BY <1>4, <2>1, HeadOf DEF ServerHandles, Connection, Op
  <2>3. /\ Returned("accept", "none") /\ Remote /\ server' = "answer" /\ server = "accept"
        /\ UNCHANGED <<flag, told, alive, cfg, net, env, client, stopping, telegram>>
    BY <1>4 DEF ServerHandles, Operated, Serving, Returned, Idle
  <2>4. Worked' /\ call'["accept"].op = op /\ call'["telegram"] = call["telegram"]
    BY <1>1, <2>2, <2>3, AcceptAsks
  <2>5. NetTypeOK' /\ Polling' /\ Queued'
    <3>1. NetTypeOK'
      BY <2>3, ServerMoves DEF Operated
    <3>2. Polling'
      BY <2>3, <2>4 DEF Operated, Polling, OneCaller, Remote, Op
    <3>3. Queued'
      BY <2>3 DEF Operated, Queued, Remote, Command, net
    <3>4. QED
      BY <3>1, <3>2, <3>3
  <2>6. Serving'
    BY <2>1, <2>3, <2>4 DEF Serving, Remote, net, Op
  <2>7. RingsWhenAcknowledged'
    BY <2>1, <2>3 DEF Operated, RingsWhenAcknowledged, OneCaller, Remote, HasTelegram, net
  <2>8. QED
    BY <2>4, <2>5, <2>6, <2>7 DEF Operated
<1>5. CASE ServerAcknowledges
  <2>1. /\ server = "answer" /\ At("accept", "done") /\ Return("accept") /\ server' = "accept"
        /\ Answered(1, Noted)
        /\ UNCHANGED <<flag, told, alive, cfg, up, cached, mailbox, env, stopping, telegram>>
    BY <1>5 DEF ServerAcknowledges, Returned, At
  <2>2. /\ Remote /\ backlog # <<>> /\ call["accept"].op = Op(backlog[1].cmd)
    BY <2>1 DEF Operated, Serving
  <2>3. Worked' /\ call'["accept"] = Idle /\ call'["telegram"] = call["telegram"]
    BY <1>1, <2>1, Answers
  <2>4. /\ Noted \in ClientState /\ Noted.at # "off" /\ Noted.playing = ~client.playing
    BY <1>1, Turns
  <2>5. /\ backlog' \in Seq([cmd : {"START", "STOP"}, live : BOOLEAN])
        /\ Len(backlog') <= MaxBacklog
        /\ client' \in ClientState
        /\ \/ client' = client
           \/ client' = Noted /\ backlog' = <<>> /\ backlog[1].cmd = Command /\ backlog[1].live
        /\ \A i \in DOMAIN backlog' :
             backlog'[i].live => i = Len(backlog') /\ client'.at = "ack" /\ backlog'[i].cmd = Command'
    BY <2>1, <2>2, <2>4, Dequeues
  <2>6. NetTypeOK'
    BY <1>10, <2>1, <2>5 DEF Operated, NetTypeOK, ClientState, env
  <2>7. Polling' /\ Serving'
    BY <2>1, <2>3 DEF Operated, Polling, Serving, OneCaller, Remote, Op
  <2>8. Queued'
    BY <2>1, <2>2, <2>5 DEF Queued, Remote
  <2>9. RingsWhenAcknowledged'
    <3>1. CASE client' = client
      BY <2>1, <2>2, <3>1 DEF Operated, RingsWhenAcknowledged, OneCaller, Remote, HasTelegram
    <3>2. CASE client' = Noted /\ backlog' = <<>> /\ backlog[1].cmd = Command
      <4>1. SUFFICES ASSUME OneCaller, client'.playing PROVE flag'
        BY <2>1, <3>2 DEF RingsWhenAcknowledged, OneCaller, Remote
      <4>2. call["accept"].op = "play"
        BY <1>1, <2>2, <2>4, <3>2, <4>1 DEF Command, Op, ClientState
      <4>3. QED
        BY <2>1, <4>1, <4>2 DEF Worked, Known, At
    <3>3. QED
      BY <2>5, <3>1, <3>2
  <2>10. QED
    BY <2>3, <2>6, <2>7, <2>8, <2>9 DEF Operated
<1>6. CASE ServerRefuses
  <2>1. /\ Remote /\ backlog # <<>> /\ server = "accept"
        /\ Answered(1, NotAcknowledged)
        /\ UNCHANGED <<player, cfg, up, cached, mailbox, env, laptop>>
    BY <1>6 DEF ServerRefuses
  <2>2. Worked'
    BY <2>1, Untouched
  <2>3. NotAcknowledged \in ClientState /\ NotAcknowledged.at # "off" /\ ~NotAcknowledged.playing
    BY <1>1, Turns
  <2>4. /\ backlog' \in Seq([cmd : {"START", "STOP"}, live : BOOLEAN])
        /\ Len(backlog') <= MaxBacklog
        /\ client' \in ClientState
        /\ client' = client \/ client' = NotAcknowledged
        /\ \A i \in DOMAIN backlog' :
             backlog'[i].live => i = Len(backlog') /\ client'.at = "ack" /\ backlog'[i].cmd = Command'
    BY <2>1, <2>3, Dequeues
  <2>5. NetTypeOK' /\ Polling' /\ Serving'
    BY <1>10, <2>1, <2>4 DEF Operated, NetTypeOK, ClientState, Polling, Serving, OneCaller, Remote, Op, env,
       laptop, player
  <2>6. Queued' /\ RingsWhenAcknowledged'
    BY <2>1, <2>3, <2>4 DEF Operated, Queued, RingsWhenAcknowledged, OneCaller, Remote, HasTelegram,
       laptop
  <2>7. QED
    BY <2>2, <2>5, <2>6 DEF Operated
<1>7. CASE ServerCloses
  <2>1. /\ Returned("accept", "none") /\ Begin("accept", "stop") /\ stopping
        /\ server' = "closing" /\ backlog' = <<>>
        /\ client' = IF client.at = "ack" THEN NotAcknowledged ELSE client
        /\ UNCHANGED <<flag, told, alive, cfg, up, cached, mailbox, env, stopping, telegram>>
    BY <1>7 DEF ServerCloses
  <2>2. Worked' /\ call'["telegram"] = call["telegram"]
    BY <1>1, <2>1, AcceptAsks
  <2>3. /\ client' \in ClientState
        /\ ~Remote => client'.at = "off" /\ ~client'.playing
    BY <1>1, <2>1, Turns DEF Operated, Queued
  <2>4. NetTypeOK'
    <3>1. backlog' \in Seq([cmd : {"START", "STOP"}, live : BOOLEAN]) /\ Len(backlog') <= MaxBacklog
      BY <2>1, BacklogAssumption, EmptySeq
    <3>2. QED
      BY <1>10, <2>1, <2>3, <3>1 DEF Operated, NetTypeOK, ClientState, env
  <2>5. Polling' /\ Serving' /\ Queued' /\ RingsWhenAcknowledged'
    <3>1. Polling' /\ Serving' /\ RingsWhenAcknowledged'
      BY <2>1, <2>2 DEF Operated, Polling, Serving, RingsWhenAcknowledged, OneCaller, Remote, Op
    <3>2. Queued'
      <4>1. backlog' = <<>> /\ DOMAIN backlog' = {}
        BY <2>1
      <4>2. QED
        BY <2>1, <2>3, <4>1 DEF Queued, Remote
    <3>3. QED
      BY <3>1, <3>2
  <2>6. QED
    BY <2>2, <2>4, <2>5 DEF Operated
<1>8. CASE ServerOver
  <2>1. /\ At("accept", "done") /\ Return("accept") /\ server = "closing" /\ server' = "over"
        /\ UNCHANGED <<flag, told, alive, cfg, net, env, client, stopping, telegram>>
    BY <1>8 DEF ServerOver, Returned, At
  <2>2. Worked' /\ call'["accept"] = Idle /\ call'["telegram"] = call["telegram"]
    BY <1>1, <2>1, Answers
  <2>3. NetTypeOK' /\ Polling'
    <3>1. NetTypeOK'
      BY <2>1, ServerMoves DEF Operated
    <3>2. Polling'
      BY <2>1, <2>2 DEF Operated, Polling, OneCaller, Remote, Op
    <3>3. QED
      BY <3>1, <3>2
  <2>4. Serving' /\ RingsWhenAcknowledged'
    BY <2>1, <2>2 DEF Operated, Serving, RingsWhenAcknowledged, Op
  <2>5. Queued'
    BY <2>1 DEF Operated, Queued, Remote, net, Command
  <2>6. QED
    BY <2>2, <2>3, <2>4, <2>5 DEF Operated
<1>9. QED
  BY <1>2, <1>3, <1>4, <1>5, <1>6, <1>7, <1>8 DEF ServerSteps

-----------------------------------------------------------------------------
(* The rest. *)

\* A step that neither the client nor the server takes.
LEMMA Aside ==
    ASSUME Operated, UNCHANGED <<cfg, client, backlog, server>>, call'["accept"] = call["accept"],
           OneCaller => flag' = flag, stopping => stopping', Polling',
           Flags', up' \subseteq Routes,
           UNCHANGED cached, mailbox' \in {"", "START", "STOP"},
           telegram' \in [at : {"off", "fetch", "act", "clear"}, cmd : {"", "START", "STOP"}],
           faults' \in 0 .. MaxFaults
    PROVE  Operated'
<1>1. NetTypeOK'
  BY DEF Operated, NetTypeOK
<1>2. Serving'
  BY DEF Operated, Serving, Remote, NextConnection, Op
<1>3. Queued'
  BY DEF Operated, Queued, Remote, Command
<1>4. RingsWhenAcknowledged'
  BY DEF Operated, RingsWhenAcknowledged, OneCaller, Remote, HasTelegram
<1>5. QED
  BY <1>1, <1>2, <1>3, <1>4 DEF Operated

LEMMA TelegramStep ==
    ASSUME Worked, Operated, TelegramSteps
    PROVE  Worked' /\ Operated'
<1>1. /\ "telegram" \in Caller /\ "accept" \in Caller \ {"telegram"}
      /\ telegram \in [at : {"off", "fetch", "act", "clear"}, cmd : {"", "START", "STOP"}]
      /\ mailbox \in {"", "START", "STOP"} /\ faults \in 0 .. MaxFaults
      /\ telegram.at # "off" => ~OneCaller
  BY ThreadsAssumption DEF Operated, NetTypeOK, Polling
<1>2. CASE TelegramFetches
  <2>1. /\ telegram.at = "fetch" /\ mailbox # "" /\ Begin("telegram", Op(mailbox))
        /\ telegram' = [at |-> "act", cmd |-> mailbox]
        /\ UNCHANGED <<flag, told, alive, cfg, net, env, client, server, stopping>>
    BY <1>2 DEF TelegramFetches
  <2>2. call["telegram"] = Idle /\ Op(mailbox) \in {"play", "stop"}
    BY <2>1 DEF Operated, Polling, Op
  <2>3. Worked' /\ call'["telegram"].op = Op(mailbox) /\ call'["accept"] = call["accept"]
    <3>1. PICK op \in {"play", "stop"} : op = Op(mailbox)
      BY <2>2
    <3>2. Begin("telegram", op) /\ ~OneCaller
      BY <1>1, <2>1, <3>1
    <3>3. UNCHANGED <<flag, told, alive, cfg>>
      BY <2>1
    <3>4. /\ Worked' /\ call'["telegram"].op = op
          /\ \A d \in Caller \ {"telegram"} : call'[d] = call[d]
      BY <1>1, <2>2, <3>2, <3>3, Asked
    <3>5. QED
      BY <1>1, <3>1, <3>4
  <2>4. Polling'
    BY <1>1, <2>1, <2>3 DEF Polling, OneCaller, Remote, Op
  <2>5. Operated'
    BY <1>1, <2>1, <2>3, <2>4, Aside, SameFlags DEF Operated, NetTypeOK, net, env
  <2>6. QED
    BY <2>3, <2>5
<1>3. CASE TelegramActed
  <2>1. /\ telegram.at = "act" /\ At("telegram", "done") /\ Return("telegram")
        /\ telegram' = [telegram EXCEPT !.at = "clear"]
        /\ UNCHANGED <<flag, told, alive, cfg, net, env, client, server, stopping>>
    BY <1>3 DEF TelegramActed, Returned, At
  <2>2. Worked' /\ call'["telegram"] = Idle /\ call'["accept"] = call["accept"]
    BY <1>1, <2>1, Answers
  <2>3. Polling'
    BY <1>1, <2>1, <2>2 DEF Polling, OneCaller, Remote
  <2>4. Operated'
    BY <1>1, <2>1, <2>2, <2>3, Aside, SameFlags DEF Operated, NetTypeOK, net, env
  <2>5. QED
    BY <2>2, <2>4
<1>4. CASE TelegramClears \/ TelegramEnds
  <2>1. /\ telegram.at \in {"clear", "fetch"} /\ mailbox' \in {mailbox, ""}
        /\ telegram' \in {[at |-> "fetch", cmd |-> ""], [telegram EXCEPT !.at = "off"]}
        /\ UNCHANGED <<player, cfg, over, hour, up, cached, backlog, client, server, stopping>>
    BY <1>4 DEF TelegramClears, TelegramEnds, net, env
  <2>2. faults' \in 0 .. MaxFaults
    BY <1>1, <1>4, Faults DEF TelegramClears, TelegramEnds, env
  <2>3. /\ telegram' \in [at : {"off", "fetch", "act", "clear"}, cmd : {"", "START", "STOP"}]
        /\ telegram'.at # "act"
    <3>1. CASE telegram' = [at |-> "fetch", cmd |-> ""]
      BY <3>1
    <3>2. CASE telegram' = [telegram EXCEPT !.at = "off"]
      BY <1>1, <3>2
    <3>3. QED
      BY <2>1, <3>1, <3>2
  <2>4. Polling'
    <3>1. telegram'.at # "act"
      BY <2>3
    <3>3. ~OneCaller /\ call["telegram"] = Idle
      BY <1>1, <2>1 DEF Operated, Polling
    <3>2. QED
      BY <2>1, <3>1, <3>3 DEF Polling, OneCaller, Remote, player
  <2>5. Operated'
    <3>1. /\ mailbox' \in {"", "START", "STOP"} /\ up' \subseteq Routes
          /\ telegram' \in [at : {"off", "fetch", "act", "clear"}, cmd : {"", "START", "STOP"}]
          /\ call'["accept"] = call["accept"] /\ flag' = flag
          /\ UNCHANGED <<cfg, client, backlog, server, cached, over, hour, stopping>>
      BY <1>1, <2>1, <2>3 DEF Operated, NetTypeOK, player
    <3>2. Flags'
      BY <3>1, SameFlags
    <3>3. QED
      BY <2>2, <2>4, <3>1, <3>2, Aside
  <2>6. Worked'
    BY <2>1, Untouched
  <2>7. QED
    BY <2>5, <2>6
<1>5. QED
  BY <1>2, <1>3, <1>4 DEF TelegramSteps

\* The environment, and the end of the server, leave every call as it is.
LEMMA WorldStep ==
    ASSUME Operated, StopServer \/ BatteryTurns \/ ClockTurns \/ \E r \in Routes : RouteChanges(r)
    PROVE  Operated' /\ UNCHANGED <<player, cfg>>
<1>1. /\ UNCHANGED <<player, cfg, cached, backlog, mailbox, client, server, telegram>>
      /\ Flags' /\ up' \subseteq Routes /\ faults' \in 0 .. MaxFaults
      /\ stopping => stopping'
  <2>1. CASE StopServer \/ BatteryTurns \/ ClockTurns
    <3>1. /\ UNCHANGED <<player, cfg, cached, backlog, mailbox, client, server, telegram, up, faults>>
          /\ stopping' = stopping \/ stopping' = TRUE
          /\ over' = over \/ over' = ~over
          /\ hour' = hour \/ hour' = (hour + 1) % Day
      BY <2>1 DEF StopServer, BatteryTurns, ClockTurns, net, env, laptop
    <3>2. Flags'
      <4>1. hour \in 0 .. Day - 1 /\ Flags
        BY DEF Operated, NetTypeOK, Flags
      <4>2. (hour + 1) % Day \in 0 .. Day - 1
        BY <4>1, DayAssumption
      <4>3. QED
        BY <3>1, <4>1, <4>2 DEF Flags
    <3>3. stopping => stopping'
      BY <3>1
    <3>4. up' \subseteq Routes /\ faults' \in 0 .. MaxFaults
      BY <3>1 DEF Operated, NetTypeOK
    <3>5. QED
      BY <3>1, <3>2, <3>3, <3>4
  <2>2. CASE \E r \in Routes : RouteChanges(r)
    <3>1. PICK r \in Routes : RouteChanges(r)
      BY <2>2
    <3>2. faults' \in 0 .. MaxFaults
      BY <3>1, Faults DEF RouteChanges
    <3>3. QED
      BY <3>1, <3>2, SameFlags DEF RouteChanges, Operated, NetTypeOK, laptop
  <2>3. QED
    BY <2>1, <2>2
<1>2. Polling'
  BY <1>1 DEF Operated, Polling, OneCaller, Remote, Op, player
<1>3. QED
  <2>1. /\ call'["accept"] = call["accept"] /\ flag' = flag /\ UNCHANGED <<player, cfg>>
        /\ mailbox' \in {"", "START", "STOP"}
        /\ telegram' \in [at : {"off", "fetch", "act", "clear"}, cmd : {"", "START", "STOP"}]
    BY <1>1 DEF Operated, NetTypeOK, player
  <2>2. QED
    BY <1>1, <1>2, <2>1, Aside

\* A call of the server goes on while the server handles a command, or closes.
LEMMA PlayerStep ==
    ASSUME Worked, Operated, PlayerSteps \/ SoundStops \/ SoundEnds
    PROVE  Worked' /\ Operated'
<1>1. CASE PlayerSteps
  <2>1. PICK c \in Caller : CallSteps(c) /\ NetSame
    BY <1>1 DEF PlayerSteps
  <2>2. UNCHANGED <<cfg, net, env, client, laptop>>
    BY <2>1 DEF NetSame
  <2>3. call[c].at # "done" /\ call[c] # Idle
    BY <2>1 DEF CallSteps, Playing, Stop, SetStop, Join, Unset, ClearStop, StartThread, Mark, At, Idle
  <2>4. c \in {"accept", "telegram"} /\ (OneCaller => c = "accept")
    BY <2>3 DEF Worked, Placed, Operated, Polling
  <2>5. /\ Worked' /\ call'[c].op = call[c].op /\ call[c].op \in {"play", "stop"}
        /\ \A d \in Caller \ {c} : call'[d] = call[d]
    BY <2>1, <2>2, <2>4, Statement
  <2>6. NetTypeOK' /\ Queued'
    <3>1. NetTypeOK'
      BY <2>2, SameNet
    <3>2. Queued'
      BY <2>2 DEF Operated, Queued, Remote, Command, net
    <3>3. QED
      BY <3>1, <3>2
  <2>7. Polling' /\ Serving' /\ RingsWhenAcknowledged'
    <3>1. CASE c = "telegram"
      <4>1. call'["accept"] = call["accept"] /\ ~OneCaller /\ telegram.at = "act"
        BY <2>3, <2>4, <2>5, <3>1, ThreadsAssumption DEF Operated, Polling
      <4>2. QED
        BY <2>2, <2>5, <3>1, <4>1 DEF Operated, Polling, Serving, RingsWhenAcknowledged, OneCaller,
           Remote, Op, net, laptop, NextConnection
    <3>2. CASE c = "accept"
      <4>1. call'["telegram"] = call["telegram"]
        BY <2>5, <3>2, ThreadsAssumption
      <4>2. ~Remote \/ server \in {"answer", "closing"}
        BY <2>3, <3>2 DEF Operated, NetTypeOK, Serving
      <4>3. RingsWhenAcknowledged'
        <5>1. Remote => backlog # <<>> \/ stopping
          BY <4>2 DEF Operated, Serving
        <5>2. ~client.playing \/ Remote
          BY DEF Operated, Queued
        <5>3. QED
          BY <2>2, <5>1, <5>2 DEF Operated, RingsWhenAcknowledged, OneCaller, Remote, HasTelegram, net,
             laptop
      <4>4. QED
        BY <2>2, <2>3, <2>5, <3>2, <4>1, <4>2, <4>3 DEF Operated, Polling, Serving, OneCaller, Remote,
           Op, net, laptop, NextConnection
    <3>3. QED
      BY <2>4, <3>1, <3>2
  <2>8. QED
    BY <2>5, <2>6, <2>7 DEF Operated
<1>2. CASE SoundStops \/ SoundEnds
  <2>1. alive' \subseteq alive /\ UNCHANGED <<flag, told, call, cfg, net, env, client, laptop>>
    BY <1>2 DEF SoundStops, SoundEnds, ThreadStops, ThreadEnds, NetSame
  <2>2. Worked'
    BY <2>1, Quieter
  <2>3. Polling'
    BY <2>1 DEF Operated, Polling, OneCaller, Remote, Op, laptop
  <2>4. Operated'
    BY <2>1, <2>3, Aside, SameFlags DEF Operated, NetTypeOK, net, env, laptop
  <2>5. QED
    BY <2>2, <2>4
<1>3. QED
  BY <1>1, <1>2

(* remote.py, connection.py, player.py: in every set-up, what is on the way between client,     *)
(* server and player.  With one caller the player knows of everything that sounds; a START that *)
(* was acknowledged rings, and nothing older is left behind it in the queue.                    *)
THEOREM Alerts == Spec => []AlertsInv
<1>1. Init => AlertsInv
  <2> SUFFICES ASSUME Init PROVE Worked /\ Operated
    BY Parts
  <2>2. Worked
    <3>1. /\ flag = FALSE /\ told = FALSE /\ alive = {} /\ call = [c \in Caller |-> Idle]
          /\ \A c \in Caller : call[c] = Idle
      BY DEF Init, PlayerInit
    <3>2. PlayerTypeOK
      BY <3>1 DEF PlayerTypeOK, Idle
    <3>3. \A c \in Caller : Placed(c)
      BY <3>1 DEF Placed, At, Idle
    <3>4. Known
      BY <3>1, ThreadsAssumption DEF Known, Idle
    <3>5. QED
      BY <3>2, <3>3, <3>4 DEF Worked
  <2>3. NetTypeOK
    <3>1. backlog \in Seq([cmd : {"START", "STOP"}, live : BOOLEAN]) /\ Len(backlog) <= MaxBacklog
      <4>1. backlog = <<>>
        BY DEF Init
      <4>2. QED
        BY <4>1, BacklogAssumption, EmptySeq
    <3>2. cfg \in Config
      BY ConfigAssumption DEF Init
    <3>3. up \subseteq Routes /\ cached \in Routes \cup {None}
      BY DEF Init, Routes
    <3>4. faults \in 0 .. MaxFaults /\ client \in ClientState
      <4>1. /\ faults = 0
            /\ client = [at |-> IF cfg.role = "remote" THEN "boot" ELSE "off",
                         playing |-> FALSE, lost |-> 0, host |-> None]
        BY DEF Init
      <4>2. QED
        BY <4>1, FaultAssumption, LostAssumption DEF ClientState
    <3>5. Flags
      <4>1. hour \in IF cfg.role = "monitor" THEN 0 .. Day - 1 ELSE {0}
        BY DEF Init
      <4>2. hour \in 0 .. Day - 1
        BY <4>1, DayAssumption
      <4>3. QED
        BY <4>2 DEF Init, Flags
    <3>6. QED
      BY <3>1, <3>2, <3>3, <3>4, <3>5 DEF Init, NetTypeOK, ClientState
  <2>4. Polling
    <3>1. OneCaller => telegram.at = "off"
      BY DEF Init, OneCaller, Remote, HasTelegram
    <3>2. telegram.at # "act" /\ call["telegram"] = Idle
      BY ThreadsAssumption DEF Init, PlayerInit
    <3>3. QED
      BY <3>1, <3>2 DEF Polling
  <2>5. Serving /\ Queued /\ RingsWhenAcknowledged
    <3>1. /\ backlog = <<>> /\ DOMAIN backlog = {} /\ server = "accept"
          /\ ~client.playing /\ (~Remote => client.at = "off")
      <4>1. /\ backlog = <<>> /\ server = "accept"
            /\ client = [at |-> IF cfg.role = "remote" THEN "boot" ELSE "off",
                         playing |-> FALSE, lost |-> 0, host |-> None]
        BY DEF Init
      <4>2. QED
        BY <4>1 DEF Remote
    <3>2. call["accept"] = Idle
      BY ThreadsAssumption DEF Init, PlayerInit
    <3>3. QED
      BY <3>1, <3>2 DEF Serving, Queued, RingsWhenAcknowledged
  <2>6. QED
    BY <2>2, <2>3, <2>4, <2>5 DEF Operated
<1>2. AlertsInv /\ [Next]_vars => AlertsInv'
  <2> SUFFICES ASSUME Worked, Operated, [Next]_vars PROVE Worked' /\ Operated'
    <3>1. (AlertsInv <=> Worked /\ Operated)'
      BY Parts, PTL
    <3>2. QED
      BY <3>1, Parts
  <2>2. CASE UNCHANGED vars
    <3>1. Worked'
      BY <2>2, Untouched DEF vars
    <3>2. Polling'
      BY <2>2 DEF Operated, Polling, OneCaller, Remote, Op, vars, player
    <3>3. Operated'
      BY <2>2, <3>2, Aside, SameFlags DEF Operated, NetTypeOK, vars, player
    <3>4. QED
      BY <3>1, <3>3
  <2>3. CASE PlayerSteps \/ SoundStops \/ SoundEnds
    BY <2>3, PlayerStep
  <2>4. CASE ClientSteps \/ ClientTimesOut \/ ClientRestarts
    <3>1. Operated' /\ UNCHANGED <<player, cfg>>
      BY <2>4, ClientStep, Sends, ClientGivesUp DEF ClientSteps
    <3>2. QED
      BY <3>1, Untouched
  <2>5. CASE ServerSteps
    BY <2>5, ServerStep
  <2>6. CASE TelegramSteps
    BY <2>6, TelegramStep
  <2>7. CASE StopServer \/ BatteryTurns \/ ClockTurns \/ \E r \in Routes : RouteChanges(r)
    <3>1. Operated' /\ UNCHANGED <<player, cfg>>
      BY <2>7, WorldStep
    <3>2. QED
      BY <3>1, Untouched
  <2>8. QED
    BY <2>2, <2>3, <2>4, <2>5, <2>6, <2>7 DEF Next
<1>3. QED
  BY <1>1, <1>2, PTL DEF Spec

-----------------------------------------------------------------------------
(* The player implements the siren. *)

Ops == [c \in Caller |-> call[c].op]

\* A call that begins or is answered, seen from the siren.
LEMMA AskPromised ==
    ASSUME Worked, NEW c \in Caller, NEW op \in {"play", "stop"}, Begin(c, op), call[c] = Idle,
           UNCHANGED <<flag, told, alive, cfg>>
    PROVE  Promised!Next
<1>1. /\ call' = [call EXCEPT ![c] = [op |-> op, at |-> IF op = "play" THEN "playing?" ELSE "stop?"]]
      /\ call \in [Caller -> [op : {"none", "play", "stop"},
                     at : {"playing?", "stop?", "set", "join", "unset", "clear", "start", "mark", "done"}]]
  BY DEF Begin, Worked, PlayerTypeOK
<1>2. call'[c].op = op /\ \A d \in Caller \ {c} : call'[d] = call[d]
  BY <1>1
<1>3. Ops' = [Ops EXCEPT ![c] = op]
  BY <1>2 DEF Ops
<1>4. Ops[c] = "none"
  BY DEF Ops, Idle
<1>5. UNCHANGED <<Sound, OneCaller>>
  BY DEF Sound, OneCaller, Remote
<1>6. Promised!Ask(c, op)
  BY <1>3, <1>4, <1>5 DEF Promised!Ask, Ops
<1>7. QED
  BY <1>6 DEF Promised!Next

LEMMA AnswerPromised ==
    ASSUME Worked, NEW c \in Caller, At(c, "done"), call[c].op # "none", Return(c),
           OneCaller => c = "accept", UNCHANGED <<flag, told, alive, cfg>>
    PROVE  Promised!Next
<1>1. /\ call' = [call EXCEPT ![c] = Idle]
      /\ call \in [Caller -> [op : {"none", "play", "stop"},
                     at : {"playing?", "stop?", "set", "join", "unset", "clear", "start", "mark", "done"}]]
  BY DEF Return, Worked, PlayerTypeOK
<1>2. call'[c].op = "none" /\ \A d \in Caller \ {c} : call'[d] = call[d]
  BY <1>1 DEF Idle
<1>3. Ops' = [Ops EXCEPT ![c] = "none"]
  BY <1>2 DEF Ops
<1>4. UNCHANGED <<Sound, OneCaller>>
  BY DEF Sound, OneCaller, Remote
<1>5. OneCaller /\ call[c].op = "stop" => Sound # "on"
  BY DEF Worked, Known, At, Sound
<1>6. Promised!Answer(c)
  BY <1>3, <1>4, <1>5 DEF Promised!Answer, Ops
<1>7. QED
  BY <1>6 DEF Promised!Next

\* A statement of the player: most change nothing that its callers rely on.
LEMMA StatementPromised ==
    ASSUME Worked, NEW c \in Caller, CallSteps(c), OneCaller => c = "accept", UNCHANGED cfg
    PROVE  Promised!Next \/ UNCHANGED Promised!vars
<1>1. /\ call'[c].op = call[c].op /\ call[c].op \in {"play", "stop"}
      /\ \A d \in Caller \ {c} : call'[d] = call[d]
  BY Statement
<1>2. Ops' = Ops /\ UNCHANGED OneCaller
  BY <1>1 DEF Ops, OneCaller, Remote
<1>3. ASSUME UNCHANGED <<told, alive>> PROVE UNCHANGED Promised!vars
  <2>1. UNCHANGED Sound
    BY <1>3 DEF Sound
  <2>2. QED
    BY <1>2, <2>1 DEF Promised!vars, Ops
<1>4. CASE Playing(c) \/ Stop(c) \/ Join(c) \/ Unset(c) \/ Mark(c)
  BY <1>3, <1>4 DEF Playing, Stop, Join, Unset, Mark
<1>5. CASE SetStop(c)
  <2>1. UNCHANGED Sound \/ (Sound = "on" /\ Sound' = "fading")
    BY <1>5 DEF SetStop, Sound
  <2>2. CASE UNCHANGED Sound
    BY <1>2, <2>2 DEF Promised!vars, Ops
  <2>3. CASE Sound = "on" /\ Sound' = "fading"
    <3>1. Ops[c] # "none"
      BY <1>1 DEF Ops
    <3>2. Promised!Fades
      BY <1>2, <2>3, <3>1 DEF Promised!Fades, Ops
    <3>3. QED
      BY <3>2 DEF Promised!Next
  <2>4. QED
    BY <2>1, <2>2, <2>3
<1>6. ASSUME Sound' \in IF OneCaller THEN {"on"} ELSE {"on", "fading"}, call[c].op = "play"
      PROVE  Promised!Next
  <2>1. Ops[c] = "play"
    BY <1>6 DEF Ops
  <2>2. Promised!Starts
    BY <1>2, <1>6, <2>1 DEF Promised!Starts, Ops
  <2>3. QED
    BY <2>2 DEF Promised!Next
<1>7. CASE ClearStop(c)
  <2>1. call[c].op = "play"
    BY <1>7 DEF ClearStop, Worked, Placed
  <2>2. Sound' = "on" \/ UNCHANGED Sound
    BY <1>7 DEF ClearStop, Sound
  <2>3. CASE Sound' = "on"
    BY <1>6, <2>1, <2>3
  <2>4. CASE UNCHANGED Sound
    BY <1>2, <2>4 DEF Promised!vars, Ops
  <2>5. QED
    BY <2>2, <2>3, <2>4
<1>8. CASE StartThread(c)
  <2>1. call[c].op = "play"
    BY <1>8 DEF StartThread, Worked, Placed
  <2>2. alive' # {} /\ told' = told /\ (OneCaller => ~told)
    BY <1>8 DEF StartThread, Worked, Known, At
  <2>3. QED
    BY <1>6, <2>1, <2>2 DEF Sound
<1>9. QED
  BY <1>4, <1>5, <1>7, <1>8 DEF CallSteps

LEMMA SoundPromised ==
    ASSUME SoundStops \/ SoundEnds
    PROVE  Promised!Next \/ UNCHANGED Promised!vars
<1>1. /\ alive # {} /\ alive' \subseteq alive /\ UNCHANGED <<flag, told, call, cfg>>
  BY DEF SoundStops, SoundEnds, ThreadStops, ThreadEnds, NetSame
<1>2. Ops' = Ops /\ UNCHANGED OneCaller
  BY <1>1 DEF Ops, OneCaller, Remote
<1>3. CASE alive' = {}
  <2>1. Sound # "off" /\ Sound' = "off"
    BY <1>1, <1>3 DEF Sound
  <2>2. Promised!Ends
    BY <1>2, <2>1 DEF Promised!Ends, Ops
  <2>3. QED
    BY <2>2 DEF Promised!Next
<1>4. CASE alive' # {}
  <2>1. UNCHANGED Sound
    BY <1>1, <1>4 DEF Sound
  <2>2. QED
    BY <1>2, <2>1 DEF Promised!vars, Ops
<1>5. QED
  BY <1>3, <1>4

LEMMA Aloof ==
    ASSUME UNCHANGED <<player, cfg>>
    PROVE  UNCHANGED Promised!vars
BY DEF player, Promised!vars, Sound, OneCaller, Remote

LEMMA ServerPromised ==
    ASSUME Worked, Operated, ServerSteps
    PROVE  Promised!Next \/ UNCHANGED Promised!vars
<1>1. "accept" \in Caller
  BY ThreadsAssumption
<1>2. ASSUME NEW op \in {"play", "stop"}, Begin("accept", op), Returned("accept", "none"),
             UNCHANGED <<flag, told, alive, cfg>>
      PROVE  Promised!Next
  <2>1. call["accept"] = Idle
    BY <1>2 DEF Returned, Idle
  <2>2. QED
    BY <1>1, <1>2, <2>1, AskPromised
<1>3. ASSUME Returned("accept", "play") \/ Returned("accept", "stop"), Return("accept"),
             UNCHANGED <<flag, told, alive, cfg>>
      PROVE  Promised!Next
  <2>1. At("accept", "done") /\ call["accept"].op # "none"
    BY <1>3 DEF Returned, At
  <2>2. QED
    BY <1>1, <1>3, <2>1, AnswerPromised
<1>4. CASE MonitorReads
  <2>1. PICK op \in {"play", "stop"} : Begin("accept", op)
    BY <1>4 DEF MonitorReads
  <2>2. QED
    BY <1>2, <1>4, <2>1 DEF MonitorReads
<1>5. CASE MonitorSleeps \/ ServerAcknowledges \/ ServerOver
  BY <1>3, <1>5 DEF MonitorSleeps, ServerAcknowledges, ServerOver
<1>6. CASE ServerHandles
  <2>1. PICK op \in {"play", "stop"} : op = Op(backlog[NextConnection].cmd)
    BY DEF Op
  <2>2. Returned("accept", "none") /\ UNCHANGED <<flag, told, alive, cfg>>
    BY <1>6 DEF ServerHandles, Operated, Serving, Returned, Idle
  <2>3. Begin("accept", op)
    BY <1>6, <2>1 DEF ServerHandles
  <2>4. QED
    BY <1>2, <2>2, <2>3
<1>7. CASE ServerRefuses
  BY <1>7, Aloof DEF ServerRefuses
<1>8. CASE ServerCloses
  BY <1>2, <1>8 DEF ServerCloses
<1>9. QED
  BY <1>4, <1>5, <1>6, <1>7, <1>8 DEF ServerSteps

LEMMA TelegramPromised ==
    ASSUME Worked, Operated, TelegramSteps
    PROVE  Promised!Next \/ UNCHANGED Promised!vars
<1>1. "telegram" \in Caller
  BY ThreadsAssumption
<1>2. CASE TelegramFetches
  <2>1. PICK op \in {"play", "stop"} : op = Op(mailbox)
    BY DEF Op
  <2>2. Begin("telegram", op) /\ UNCHANGED <<flag, told, alive, cfg>>
    BY <1>2, <2>1 DEF TelegramFetches
  <2>3. call["telegram"] = Idle
    BY <1>2 DEF TelegramFetches, Operated, Polling
  <2>4. QED
    BY <1>1, <2>2, <2>3, AskPromised
<1>3. CASE TelegramActed
  <2>1. /\ At("telegram", "done") /\ call["telegram"].op # "none" /\ Return("telegram")
        /\ UNCHANGED <<flag, told, alive, cfg>>
    BY <1>3 DEF TelegramActed, Returned, At, Op
  <2>2. ~OneCaller
    BY <1>3 DEF TelegramActed, Operated, Polling
  <2>3. QED
    BY <1>1, <2>1, <2>2, AnswerPromised
<1>4. CASE TelegramClears \/ TelegramEnds
  BY <1>4, Aloof DEF TelegramClears, TelegramEnds
<1>5. QED
  BY <1>2, <1>3, <1>4 DEF TelegramSteps

(* player.py, with the callers that remote.py and monitor.py give it: play() and stop(), whose  *)
(* statements interleave with those of other calls and with threads that end, do for every      *)
(* caller what the siren promises.                                                              *)
THEOREM PlayerIsSiren == Spec => ImplementsSiren
<1>1. Init => Promised!Init
  <2> SUFFICES ASSUME Init PROVE Promised!Init
    OBVIOUS
  <2>1. alive = {} /\ call = [c \in Caller |-> Idle]
    BY DEF Init, PlayerInit
  <2>2. Sound = "off" /\ Ops = [c \in Caller |-> "none"] /\ OneCaller \in BOOLEAN
    BY <2>1 DEF Sound, Ops, Idle, OneCaller
  <2>3. QED
    BY <2>2 DEF Promised!Init, Ops
<1>2. AlertsInv /\ [Next]_vars => [Promised!Next]_(Promised!vars)
  <2> SUFFICES ASSUME Worked, Operated, [Next]_vars
               PROVE  Promised!Next \/ UNCHANGED Promised!vars
    BY Parts
  <2>1. CASE UNCHANGED vars
    BY <2>1, Aloof DEF vars
  <2>2. CASE PlayerSteps
    <3>1. PICK c \in Caller : CallSteps(c) /\ NetSame
      BY <2>2 DEF PlayerSteps
    <3>2. call[c] # Idle
      BY <3>1 DEF CallSteps, Playing, Stop, SetStop, Join, Unset, ClearStop, StartThread, Mark, At, Idle
    <3>3. OneCaller => c = "accept"
      BY <3>2 DEF Worked, Placed, Operated, Polling
    <3>4. UNCHANGED cfg
      BY <3>1 DEF NetSame
    <3>5. QED
      BY <3>1, <3>3, <3>4, StatementPromised
  <2>3. CASE SoundStops \/ SoundEnds
    BY <2>3, SoundPromised
  <2>4. CASE ClientSteps \/ ClientTimesOut \/ ClientRestarts
    <3>1. UNCHANGED <<player, cfg>>
      BY <2>4, ClientStep, Sends, ClientGivesUp DEF ClientSteps
    <3>2. QED
      BY <3>1, Aloof
  <2>5. CASE ServerSteps
    BY <2>5, ServerPromised
  <2>6. CASE TelegramSteps
    BY <2>6, TelegramPromised
  <2>7. CASE StopServer \/ BatteryTurns \/ ClockTurns \/ \E r \in Routes : RouteChanges(r)
    BY <2>7, WorldStep, Aloof
  <2>8. QED
    BY <2>1, <2>2, <2>3, <2>4, <2>5, <2>6, <2>7 DEF Next
<1>3. QED
  BY <1>1, <1>2, Alerts, PTL DEF Spec, ImplementsSiren, Promised!Spec

-----------------------------------------------------------------------------
(* Quiet hours. *)

\* The comparison of monitor.py is that of the hours since they began, over midnight too.
LEMMA QuietAtNight ==
    ASSUME NetTypeOK, ~Remote
    PROVE  Quiet <=> Night
<1>1. Day \in Nat /\ {hour, cfg.from, cfg.to} \subseteq 0 .. Day - 1
  BY DayAssumption DEF NetTypeOK, Flags, Config
<1>2. QED
  BY <1>1 DEF Quiet, Night, Since

\* A statement of a call that is not a play() starts no thread.
LEMMA StatementSilent ==
    ASSUME Worked, NEW c \in Caller, CallSteps(c), call[c].op # "play"
    PROVE  alive' = alive /\ call'[c].op = call[c].op
<1>1. /\ ~At(c, "playing?") /\ ~At(c, "clear") /\ ~At(c, "start") /\ ~At(c, "mark")
      /\ call \in [Caller -> [op : {"none", "play", "stop"},
                     at : {"playing?", "stop?", "set", "join", "unset", "clear", "start", "mark", "done"}]]
  BY DEF Worked, Placed, PlayerTypeOK
<1>2. QED
  BY <1>1 DEF CallSteps, Playing, Stop, SetStop, Join, Unset, ClearStop, StartThread, Mark, To

\* The monitor asks for no sound at night, and nobody else works its player.
LEMMA ServerSilent ==
    ASSUME Worked, Operated, Night, Silent, ServerSteps
    PROVE  Silent'
<1>2. ~SoundDue /\ ~Remote
  BY QuietAtNight DEF Night, Operated, SoundDue
<1>3. call \in [Caller -> [op : {"none", "play", "stop"},
                     at : {"playing?", "stop?", "set", "join", "unset", "clear", "start", "mark", "done"}]]
  BY DEF Worked, PlayerTypeOK
<1>4. server # "answer"
  BY <1>2 DEF Operated, Serving
<1>5. alive' = alive /\ (Begin("accept", "stop") \/ Return("accept"))
  BY <1>2, <1>4 DEF ServerSteps, MonitorReads, MonitorSleeps, ServerHandles, ServerAcknowledges,
     ServerRefuses, ServerCloses, ServerOver
<1>6. call'["accept"].op # "play"
  BY <1>3, <1>5, ThreadsAssumption DEF Begin, Return, Idle
<1>7. QED
  BY <1>5, <1>6 DEF Silent

(* Whenever quiet hours begin and end, also over midnight (monitor.py:20-28): an alert that is   *)
(* silent in them stays so, whatever the battery, the player's threads and a stop of the monitor *)
(* do meanwhile.                                                                                 *)
THEOREM NightIsKept == Spec => QuietKept
<1>1. AlertsInv /\ [Next]_vars => (Night /\ Night' /\ Silent => Silent')
  <2> SUFFICES ASSUME Worked, Operated, [Next]_vars, Night, Silent
               PROVE  Silent'
    BY Parts
  <2>0. telegram.at = "off" /\ OneCaller
    BY DEF Night, Operated, Polling, OneCaller
  <2>1. CASE UNCHANGED <<player, cfg>>
    BY <2>1 DEF Silent, player
  <2>2. CASE PlayerSteps
    <3>1. PICK c \in Caller : CallSteps(c)
      BY <2>2 DEF PlayerSteps
    <3>2. call[c] # Idle
      BY <3>1 DEF CallSteps, Playing, Stop, SetStop, Join, Unset, ClearStop, StartThread, Mark, At, Idle
    <3>3. c = "accept"
      BY <2>0, <3>2 DEF Worked, Placed, Operated, Polling
    <3>4. QED
      BY <3>1, <3>3, StatementSilent DEF Silent
  <2>3. CASE SoundStops \/ SoundEnds
    BY <2>3 DEF SoundStops, SoundEnds, ThreadStops, ThreadEnds, Silent
  <2>4. CASE ClientSteps \/ ClientTimesOut \/ ClientRestarts
    BY <2>1, <2>4, ClientStep, Sends, ClientGivesUp DEF ClientSteps
  <2>5. CASE ServerSteps
    BY <2>5, ServerSilent
  <2>6. CASE TelegramSteps
    BY <2>0, <2>6 DEF TelegramSteps, TelegramFetches, TelegramActed, TelegramClears, TelegramEnds
  <2>7. CASE StopServer \/ BatteryTurns \/ ClockTurns \/ \E r \in Routes : RouteChanges(r)
    BY <2>1, <2>7, WorldStep
  <2>8. CASE UNCHANGED vars
    BY <2>1, <2>8 DEF vars
  <2>9. QED
    BY <2>2, <2>3, <2>4, <2>5, <2>6, <2>7, <2>8 DEF Next
<1>2. QED
  BY <1>1, Alerts, PTL DEF Spec, QuietKept
=============================================================================
