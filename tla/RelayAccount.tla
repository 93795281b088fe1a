---------------------------- MODULE RelayAccount ----------------------------
(***************************************************************************)
(* One account of the Cloudflare relay (worker/worker.js) and the requests *)
(* that its devices have in flight.                                        *)
(*                                                                         *)
(* Every handler works on the user row that authUser() read, and every D1  *)
(* statement after that read is awaited, so other requests run in between: *)
(* a handler is a process whose steps are its statements, and req[r].row   *)
(* is the row it read at the start.  The attempts shield on the pass is    *)
(* the module RelayShield; here its verdict is either answer.              *)
(***************************************************************************)
EXTENDS Naturals, FiniteSets

CONSTANTS
    Request,        \* slots for the requests in flight
    Device,         \* the bearer tokens of the account, as presentedTokenHash gives them
    Secret,         \* disarm passes and alarm PINs
    Key,            \* disarm public keys
    None,           \* an absent value (NULL, "" or a missing field)
    Ops,            \* the operations clients call in this instance
    Others,         \* what else happens in it: the administrator's calls and failures
    MaxEpisode,     \* bound on the alerts raised
    MaxChallenge    \* bound on the challenges minted

OpName == {"alert", "clear", "arm", "disarm", "pin", "pass", "key", "challenge"}

ASSUME NoneAssumption == None \notin Device \cup Secret \cup Key
ASSUME OpsAssumption == Ops \subseteq OpName
ASSUME OthersAssumption == Others \subseteq {"broadcast", "clear-all", "ban", "fail"}
ASSUME BoundAssumption == MaxEpisode \in Nat /\ MaxChallenge \in Nat

VARIABLES
    acct,       \* the users row
    challenge,  \* the arm_challenges row: id 0 is "no row", live is expires_at >= now()
    minted,     \* how many challenges were minted: ids are fresh
    episode,    \* how many alerts were raised: the identity of the current alert
    burnt,      \* the challenges a disarm deleted after verifying a signature
    req         \* the requests in flight

vars == <<acct, challenge, minted, episode, burnt, req>>

AlertType == {"BATTERY", "THIEF_ALERT"}
\* What an administrator may broadcast: any text, so a THIEF_ALERT too.
BroadcastType == {"TEST", "THIEF_ALERT"}

Signature == [key : Key, id : 1..MaxChallenge]

Account ==
    [alert : BOOLEAN, type : AlertType \cup BroadcastType \cup {""},
     origin : Device \cup {None}, armed : BOOLEAN, banned : BOOLEAN,
     pass : Secret \cup {None}, pin : Secret \cup {None}, key : Key \cup {None}]

\* What a client sends.  given: the pass, current pass or gate PIN it shows;
\* new: the pass or PIN it sets; newKey: the key it enrolls.
Call ==
    [op : OpName, dev : Device \cup {None}, type : AlertType, given : Secret \cup {None},
     new : Secret \cup {None}, newKey : Key \cup {None}, sig : Signature \cup {None}]

Pc == {"idle", "start", "burn", "update", "standdown"}

(***************************************************************************)
(* seen and spent are history: the alert and the burnt challenges at the   *)
(* time of the authentication read.                                        *)
(***************************************************************************)
RequestState ==
    [pc : Pc, call : Call, row : Account, seen : 0..MaxEpisode,
     spent : SUBSET (1..MaxChallenge)]

NewAccount ==
    [alert |-> FALSE, type |-> "", origin |-> None, armed |-> FALSE, banned |-> FALSE,
     pass |-> None, pin |-> None, key |-> None]

\* The calls a client can make: fields an operation does not read stay fixed, and
\* a signature is over a challenge that was handed out.
PlainCall(o, d) ==
    [op |-> o, dev |-> d, type |-> "BATTERY", given |-> None, new |-> None,
     newKey |-> None, sig |-> None]
SecretOrNone == Secret \cup {None}
Signed == {None} \cup {g \in Signature : g.id <= minted}

\* A call that shows a pass, a current pass or a gate PIN, or none.
Showing(o) == {[PlainCall(o, d) EXCEPT !.given = s] : d \in Device, s \in SecretOrNone}

Calls ==
    UNION {{PlainCall(o, d) : o \in {"arm", "challenge"}, d \in Device},
           {[PlainCall("alert", d) EXCEPT !.type = t] : d \in Device, t \in AlertType},
           Showing("clear"),
           {[c EXCEPT !.sig = g] : c \in Showing("disarm"), g \in Signed},
           {[PlainCall("pin", d) EXCEPT !.new = n] : d \in Device, n \in Secret},
           {[c EXCEPT !.new = n] : c \in Showing("pass"), n \in Secret},
           {[c EXCEPT !.newKey = k] : c \in Showing("key"), k \in Key}}

IdleSlot ==
    [pc |-> "idle", call |-> PlainCall("arm", None), row |-> NewAccount, seen |-> 0,
     spent |-> {}]

Init ==
    /\ acct = NewAccount
    /\ challenge = [id |-> 0, live |-> FALSE]
    /\ minted = 0
    /\ episode = 0
    /\ burnt = {}
    /\ req = [r \in Request |-> IdleSlot]

-----------------------------------------------------------------------------
(* Helpers.                                                                *)

At(r, op, pc) == req[r].call.op = op /\ req[r].pc = pc
Goto(r, pc) == req' = [req EXCEPT ![r].pc = pc]
Finish(r) == req' = [req EXCEPT ![r] = IdleSlot]

\* authUser(): a banned account is turned away, and nothing of it is kept.
Receive(r) ==
    /\ req[r].pc = "idle"
    /\ ~acct.banned
    /\ \E c \in {x \in Calls : x.op \in Ops} :
           req' = [req EXCEPT ![r] =
                      [pc |-> "start", call |-> c, row |-> acct, seen |-> episode,
                       spent |-> burnt]]
    /\ UNCHANGED <<acct, challenge, minted, episode, burnt>>

\* The isolate is evicted or a statement throws: what was written stays.
Fail(r) ==
    /\ "fail" \in Others
    /\ req[r].pc # "idle"
    /\ Finish(r)
    /\ UNCHANGED <<acct, challenge, minted, episode, burnt>>

-----------------------------------------------------------------------------
(* Alerts.                                                                 *)

\* rate_limited or unknown_snapshot: nothing is written.
RefuseAlert(r) ==
    /\ At(r, "alert", "start")
    /\ Finish(r)
    /\ UNCHANGED <<acct, challenge, minted, episode, burnt>>

SendAlert(r) ==
    /\ At(r, "alert", "start")
    /\ episode < MaxEpisode
    /\ acct' = [acct EXCEPT !.alert = TRUE, !.type = req[r].call.type,
                            !.origin = req[r].call.dev]
    /\ episode' = episode + 1
    /\ Finish(r)
    /\ UNCHANGED <<challenge, minted, burnt>>

\* The origin check of handleClearAlert, on the row read at authentication.  The
\* mutant compares the PINs without asking that there are any.
OriginMayNotClearUnlessSamePin(r) ==
    LET row == req[r].row  c == req[r].call IN
    row.alert /\ row.type = "THIEF_ALERT" /\ row.origin = c.dev /\ c.given # row.pin
OriginMayNotClear(r) ==
    LET row == req[r].row  c == req[r].call IN
    /\ row.alert
    /\ row.type = "THIEF_ALERT"
    /\ row.origin = c.dev
    /\ ~(c.given # None /\ row.pin # None /\ c.given = row.pin)

RefuseClear(r) ==
    /\ At(r, "clear", "start")
    /\ OriginMayNotClear(r)
    /\ Finish(r)
    /\ UNCHANGED <<acct, challenge, minted, episode, burnt>>

\* Mutant: the UPDATE forgets alert_active.
ClearTypeOnly(r) ==
    /\ At(r, "clear", "start")
    /\ ~OriginMayNotClear(r)
    /\ acct' = [acct EXCEPT !.type = ""]
    /\ Finish(r)
    /\ UNCHANGED <<challenge, minted, episode, burnt>>

ClearAlert(r) ==
    /\ At(r, "clear", "start")
    /\ ~OriginMayNotClear(r)
    /\ acct' = [acct EXCEPT !.alert = FALSE, !.type = ""]
    /\ Finish(r)
    /\ UNCHANGED <<challenge, minted, episode, burnt>>

-----------------------------------------------------------------------------
(* Arming and disarming.                                                   *)

\* The account of the row asks for the pass.
PassDemanded(r) == req[r].row.pass # None
PassShown(r) == req[r].call.given = req[r].row.pass

\* Without a pass, a request that carries a signature is judged by it.
KeyJudged(r) ==
    /\ ~PassDemanded(r)
    /\ req[r].call.sig # None
    /\ req[r].row.key # None

\* rate_limited: the verdict of the shield, whatever pass is shown.
RateLimited(r) ==
    /\ At(r, "disarm", "start")
    /\ PassDemanded(r)
    /\ Finish(r)
    /\ UNCHANGED <<acct, challenge, minted, episode, burnt>>

\* pass_required or invalid_pass: a signature that came along is not looked at.
RefusePass(r) ==
    /\ At(r, "disarm", "start")
    /\ PassDemanded(r)
    /\ ~PassShown(r)
    /\ Finish(r)
    /\ UNCHANGED <<acct, challenge, minted, episode, burnt>>

\* Mutant: a pass is required, and not compared.
DisarmWithAnyPass(r) ==
    /\ At(r, "disarm", "start")
    /\ PassDemanded(r)
    /\ req[r].call.given # None
    /\ Goto(r, "update")
    /\ UNCHANGED <<acct, challenge, minted, episode, burnt>>

DisarmWithPass(r) ==
    /\ At(r, "disarm", "start")
    /\ PassDemanded(r)
    /\ PassShown(r)
    /\ Goto(r, "update")
    /\ UNCHANGED <<acct, challenge, minted, episode, burnt>>

\* verifyDisarmSignature: made with the row's key, over the stored challenge.
Verifies(r) == req[r].call.sig = [key |-> req[r].row.key, id |-> challenge.id]

RefuseSignature(r) ==
    /\ At(r, "disarm", "start")
    /\ KeyJudged(r)
    /\ ~(challenge.live /\ Verifies(r))
    /\ Finish(r)
    /\ UNCHANGED <<acct, challenge, minted, episode, burnt>>

DisarmWithKey(r) ==
    /\ At(r, "disarm", "start")
    /\ KeyJudged(r)
    /\ challenge.live
    /\ Verifies(r)
    /\ Goto(r, "burn")
    /\ UNCHANGED <<acct, challenge, minted, episode, burnt>>

\* Mutant: the challenge is verified and never deleted.
KeepChallenge(r) ==
    /\ At(r, "disarm", "burn")
    /\ burnt' = burnt \cup {req[r].call.sig.id}
    /\ Goto(r, "update")
    /\ UNCHANGED <<acct, challenge, minted, episode>>

\* DELETE FROM arm_challenges WHERE user_id = ?: whatever challenge is there.
BurnChallenge(r) ==
    /\ At(r, "disarm", "burn")
    /\ challenge' = [id |-> 0, live |-> FALSE]
    /\ burnt' = burnt \cup {req[r].call.sig.id}
    /\ Goto(r, "update")
    /\ UNCHANGED <<acct, minted, episode>>

\* A disarm whose row showed an alert goes on to stand it down.
GoesOnWithThiefOnly(r) ==
    req[r].call.op = "disarm" /\ req[r].row.alert /\ req[r].row.type = "THIEF_ALERT"
GoesOn(r) == req[r].call.op = "disarm" /\ req[r].row.alert

\* The UPDATE of armed.
UpdateArmed(r) ==
    /\ \/ At(r, "arm", "start")
       \/ At(r, "disarm", "update")
       \/ At(r, "disarm", "start") /\ ~PassDemanded(r) /\ ~KeyJudged(r)
    /\ acct' = [acct EXCEPT !.armed = (req[r].call.op = "arm")]
    /\ IF GoesOn(r) THEN Goto(r, "standdown") ELSE Finish(r)
    /\ UNCHANGED <<challenge, minted, episode, burnt>>

StandDown(r) ==
    /\ At(r, "disarm", "standdown")
    /\ acct' = [acct EXCEPT !.alert = FALSE, !.type = "", !.origin = None]
    /\ Finish(r)
    /\ UNCHANGED <<challenge, minted, episode, burnt>>

ArmChallenge(r) ==
    /\ At(r, "challenge", "start")
    /\ minted < MaxChallenge
    /\ minted' = minted + 1
    /\ challenge' = [id |-> minted + 1, live |-> TRUE]
    /\ Finish(r)
    /\ UNCHANGED <<acct, episode, burnt>>

\* 120 seconds go by: the row stays, expires_at < now().
ChallengeExpires ==
    /\ challenge.live
    /\ challenge' = [challenge EXCEPT !.live = FALSE]
    /\ UNCHANGED <<acct, minted, episode, burnt, req>>

-----------------------------------------------------------------------------
(* Secrets.                                                                *)

PinSetup(r) ==
    /\ At(r, "pin", "start")
    /\ acct' = [acct EXCEPT !.pin = req[r].call.new]
    /\ Finish(r)
    /\ UNCHANGED <<challenge, minted, episode, burnt>>

\* pass/setup: changing the pass of the row needs that pass.
PassRefused(r) == PassDemanded(r) /\ ~PassShown(r)

PassSetup(r) ==
    /\ At(r, "pass", "start")
    /\ acct' = IF PassRefused(r) THEN acct ELSE [acct EXCEPT !.pass = req[r].call.new]
    /\ Finish(r)
    /\ UNCHANGED <<challenge, minted, episode, burnt>>

\* key/setup: replacing a key needs the pass, when there is one.
KeyRefused(r) == req[r].row.key # None /\ PassDemanded(r) /\ ~PassShown(r)

KeySetup(r) ==
    /\ At(r, "key", "start")
    /\ acct' = IF KeyRefused(r) THEN acct ELSE [acct EXCEPT !.key = req[r].call.newKey]
    /\ Finish(r)
    /\ UNCHANGED <<challenge, minted, episode, burnt>>

-----------------------------------------------------------------------------
(* The administrator: single statements that read no row first.            *)

AdminBroadcast(t) ==
    /\ "broadcast" \in Others
    /\ ~acct.banned
    /\ episode < MaxEpisode
    /\ acct' = [acct EXCEPT !.alert = TRUE, !.type = t]
    /\ episode' = episode + 1
    /\ UNCHANGED <<challenge, minted, burnt, req>>

AdminClearAll ==
    /\ "clear-all" \in Others
    /\ acct' = [acct EXCEPT !.alert = FALSE, !.type = ""]
    /\ UNCHANGED <<challenge, minted, episode, burnt, req>>

AdminBan(b) ==
    /\ "ban" \in Others
    /\ acct' = [acct EXCEPT !.banned = b]
    /\ UNCHANGED <<challenge, minted, episode, burnt, req>>

Handler(r) ==
    \/ RefuseAlert(r) \/ SendAlert(r) \/ RefuseClear(r) \/ ClearAlert(r)
    \/ RateLimited(r) \/ RefusePass(r) \/ DisarmWithPass(r)
    \/ RefuseSignature(r) \/ DisarmWithKey(r) \/ BurnChallenge(r) \/ UpdateArmed(r)
    \/ StandDown(r) \/ ArmChallenge(r) \/ PinSetup(r) \/ PassSetup(r) \/ KeySetup(r)

Admin ==
    \/ \E t \in BroadcastType : AdminBroadcast(t)
    \/ AdminClearAll
    \/ \E b \in BOOLEAN : AdminBan(b)

Next ==
    \/ \E r \in Request : Receive(r) \/ Handler(r) \/ Fail(r)
    \/ ChallengeExpires
    \/ Admin

Spec == Init /\ [][Next]_vars

-----------------------------------------------------------------------------
(* Properties.                                                             *)

\* The types of the account row, the challenge row and the requests; a signature
\* is only ever made over a challenge that was minted.
TypeOK ==
    /\ acct \in Account
    /\ challenge \in [id : 0..MaxChallenge, live : BOOLEAN]
    /\ minted \in 0..MaxChallenge
    /\ episode \in 0..MaxEpisode
    /\ burnt \in SUBSET (1..MaxChallenge)
    /\ req \in [Request -> RequestState]

\* The step is one of request r.
StepOf(r) == req'[r] # req[r]
Disarms == acct.armed /\ ~acct'.armed
Silences == acct.alert /\ ~acct'.alert
ThiefActive == acct.alert /\ acct.type = "THIEF_ALERT"
\* The last statement of a disarm that was let through.
EndsDisarm(r) ==
    (StandDown(r) \/ (UpdateArmed(r) /\ ~acct'.armed)) /\ req'[r].pc = "idle"

\* The request takes something of the guard away: it switches the account off,
\* changes its pass, or puts another key where its row had one.
Weakens(r) ==
    /\ StepOf(r)
    /\ \/ Disarms
       \/ acct'.pass # acct.pass
       \/ req[r].row.key # None /\ acct'.key # acct.key

\* A request that was authenticated while the account had a pass weakens its guard only
\* if it showed that pass, whatever other requests do between its statements (handleArm,
\* handlePassSetup, handleKeySetup).  It is the pass of the row it read: one that was set
\* since is not asked for, and a first key takes none.
PassGuards ==
    [][\A r \in Request :
          Weakens(r) /\ req[r].row.pass # None
          => req[r].call.given = req[r].row.pass]_vars

\* A disarm judged by its signature used the enrolled key, over a challenge that no
\* disarm had burnt when it was authenticated: an old signature cannot be replayed.
ReplayRefused ==
    [][\A r \in Request :
          Disarms /\ StepOf(r) /\ KeyJudged(r)
          => /\ req[r].call.sig.key = req[r].row.key
             /\ req[r].call.sig.id \notin req[r].spent]_vars

\* The device that raised the THIEF_ALERT it read silences it only with the alarm
\* PIN (handleClearAlert); the exception is an alert that landed after the read.
OriginProtected ==
    [][\A r \in Request :
             /\ ThiefActive /\ Silences /\ StepOf(r)
             /\ req[r].call.op = "clear"
             /\ req[r].call.dev = acct.origin
             /\ req[r].seen = episode
          => /\ req[r].call.given # None
             /\ req[r].call.given = req[r].row.pin]_vars

\* A disarm leaves no alert behind of those raised before it was authenticated, even
\* when clears and other disarms run between its statements (handleArm).
DisarmStandsDown ==
    [][\A r \in Request :
          EndsDisarm(r) /\ req[r].seen = episode => ~acct'.alert]_vars

(***************************************************************************)
(* What the documentation says of the two factors, and handleArm does not. *)
(***************************************************************************)

\* "Two independent second factors -- use either" (README.md:526): a disarm that carries
\* a good signature over the live challenge is not refused for want of the pass.
SignatureSuffices ==
    [][\A r \in Request :
          RefusePass(r) => ~(req[r].row.key # None /\ challenge.live /\ Verifies(r))]_vars

(***************************************************************************)
(* The inductive invariant behind these: what a request in flight still    *)
(* knows of the account, and what it has already proved.                   *)
(***************************************************************************)

\* A row read since the last alert shows every alert that is still up.
FreshRow ==
    \A r \in Request :
        /\ req[r].seen <= episode
        /\ req[r].pc # "idle" /\ req[r].seen = episode /\ acct.alert
           => /\ req[r].row.alert
              /\ req[r].row.type = acct.type
              /\ req[r].row.origin = acct.origin

\* Past the checks, the pass of the row was shown, or an unspent challenge signed.
Checked ==
    \A r \in Request :
        /\ req[r].pc \in {"burn", "update", "standdown"} => req[r].call.op = "disarm"
        /\ req[r].pc \in {"update", "standdown"} /\ PassDemanded(r) => PassShown(r)
        /\ req[r].pc = "burn" => KeyJudged(r)
        /\ req[r].pc \in {"burn", "update"} /\ KeyJudged(r)
           => /\ req[r].call.sig.key = req[r].row.key
              /\ req[r].call.sig.id \in 1..minted
              /\ req[r].call.sig.id \notin req[r].spent

\* Burnt challenges are old ones, and never the stored one.
BurntIsGone ==
    /\ challenge.id \in 0..minted
    /\ burnt \subseteq 1..minted
    /\ challenge.id \notin burnt
    /\ \A r \in Request : req[r].spent \subseteq burnt

IInv == TypeOK /\ FreshRow /\ Checked /\ BurntIsGone
=============================================================================
