------------------------- MODULE RelayAccountProofs -------------------------
(***************************************************************************)
(* Proofs about RelayAccount, for every set of request slots, devices,     *)
(* secrets and keys: its inductive invariant IInv, and the properties      *)
(* about disarming and clearing that follow from it.                       *)
(*                                                                         *)
(* The last part is about the attempts shield in front of the comparison   *)
(* of the pass (RelayShield): how many guesses a minute lets through, for  *)
(* any limit, any number of requests and however they interleave.          *)
(***************************************************************************)
EXTENDS RelayAccount, RelayShield, FiniteSetTheorems, TLAPS

-----------------------------------------------------------------------------
(* The calls and the slots.                                                *)

\* The fields of a call that shows a secret.
LEMMA ShowingTyped ==
    ASSUME NEW o \in OpName, NEW c \in Showing(o)
    PROVE  c \in Call /\ c.op = o
<1>1. PICK d \in Device, s \in SecretOrNone : c = [PlainCall(o, d) EXCEPT !.given = s]
  BY DEF Showing
<1>2. c = [op |-> o, dev |-> d, type |-> "BATTERY", given |-> s, new |-> None,
           newKey |-> None, sig |-> None]
  BY <1>1 DEF PlainCall
<1>3. QED
  BY <1>2 DEF Call, SecretOrNone, AlertType

\* Every call a client can make is a Call.
LEMMA CallsTyped == Calls \subseteq Call
<1> SUFFICES ASSUME NEW c \in Calls PROVE c \in Call
  OBVIOUS
<1>1. ASSUME NEW o \in {"arm", "challenge"}, NEW d \in Device
      PROVE  PlainCall(o, d) \in Call
  BY DEF PlainCall, Call, OpName, AlertType
<1>2. ASSUME NEW d \in Device, NEW t \in AlertType
      PROVE  [PlainCall("alert", d) EXCEPT !.type = t] \in Call
  BY DEF PlainCall, Call, OpName
<1>3. Showing("clear") \subseteq Call
  BY ShowingTyped DEF OpName
<1>4. ASSUME NEW b \in Showing("disarm"), NEW g \in Signed
      PROVE  [b EXCEPT !.sig = g] \in Call
  <2>1. b \in Call /\ g \in Signature \cup {None}
    BY ShowingTyped DEF OpName, Signed
  <2>2. QED
    BY <2>1 DEF Call
<1>5. ASSUME NEW d \in Device, NEW n \in Secret
      PROVE  [PlainCall("pin", d) EXCEPT !.new = n] \in Call
  BY DEF PlainCall, Call, OpName, AlertType
<1>6. ASSUME NEW b \in Showing("pass"), NEW n \in Secret
      PROVE  [b EXCEPT !.new = n] \in Call
  <2>1. b \in Call
    BY ShowingTyped DEF OpName
  <2>2. QED
    BY <2>1 DEF Call
<1>7. ASSUME NEW b \in Showing("key"), NEW k \in Key
      PROVE  [b EXCEPT !.newKey = k] \in Call
  <2>1. b \in Call
    BY ShowingTyped DEF OpName
  <2>2. QED
    BY <2>1 DEF Call
<1>8. QED
  BY <1>1, <1>2, <1>3, <1>4, <1>5, <1>6, <1>7 DEF Calls

LEMMA IdleTyped == IdleSlot \in RequestState
BY BoundAssumption DEF IdleSlot, RequestState, NewAccount, Account, PlainCall, Call,
   AlertType, BroadcastType, Pc, OpName

\* What the end of a request does to the slots.
LEMMA FinishEffect ==
    ASSUME TypeOK, NEW r \in Request, Finish(r)
    PROVE  /\ req' \in [Request -> RequestState]
           /\ req'[r].pc = "idle" /\ req'[r].seen = 0 /\ req'[r].spent = {}
           /\ \A x \in Request : x # r => req'[x] = req[x]
<1>1. req'[r] = IdleSlot
  BY DEF TypeOK, Finish
<1>2. QED
  BY <1>1, IdleTyped DEF TypeOK, Finish, IdleSlot

\* A handler that goes on keeps what it read and what it was sent.
LEMMA GotoEffect ==
    ASSUME TypeOK, NEW r \in Request, NEW pc \in Pc, Goto(r, pc)
    PROVE  /\ req' \in [Request -> RequestState]
           /\ req'[r].pc = pc
           /\ req'[r].call = req[r].call
           /\ req'[r].row = req[r].row
           /\ req'[r].seen = req[r].seen
           /\ req'[r].spent = req[r].spent
           /\ \A x \in Request : x # r => req'[x] = req[x]
<1>1. req[r] \in RequestState
  BY DEF TypeOK
<1>2. req'[r] = [req[r] EXCEPT !.pc = pc]
  BY DEF TypeOK, Goto
<1>3. req'[r] \in RequestState
  BY <1>1, <1>2 DEF RequestState
<1>4. QED
  BY <1>1, <1>2, <1>3 DEF TypeOK, Goto, RequestState

\* What a call reads once it is in a slot.
LEMMA ReceiveEffect ==
    ASSUME TypeOK, NEW r \in Request, Receive(r)
    PROVE  /\ req' \in [Request -> RequestState]
           /\ req'[r].pc = "start" /\ req'[r].row = acct
           /\ req'[r].seen = episode /\ req'[r].spent = burnt
           /\ \A x \in Request : x # r => req'[x] = req[x]
<1>1. PICK c \in Calls :
          req' = [req EXCEPT ![r] =
                    [pc |-> "start", call |-> c, row |-> acct, seen |-> episode,
                     spent |-> burnt]]
  BY DEF Receive
<1>2. c \in Call
  BY CallsTyped
<1>3. [pc |-> "start", call |-> c, row |-> acct, seen |-> episode, spent |-> burnt]
          \in RequestState
  BY <1>2 DEF TypeOK, RequestState, Pc
<1>4. QED
  BY <1>1, <1>3 DEF TypeOK

\* Slots only end or go on.
LEMMA HandlerSlots ==
    ASSUME NEW r \in Request, Handler(r) \/ Fail(r)
    PROVE  Finish(r) \/ \E pc \in {"burn", "update", "standdown"} : Goto(r, pc)
BY DEF Handler, Fail, SendAlert, RefuseAlert, RefuseClear, ClearAlert, RateLimited, RefusePass,
   DisarmWithPass, RefuseSignature, DisarmWithKey, BurnChallenge, UpdateArmed, StandDown,
   ArmChallenge, PinSetup, PassSetup, KeySetup

-----------------------------------------------------------------------------
(* The invariant, part by part.                                            *)

\* The account row keeps its type; the alert number grows with each alert.
LEMMA AccountStep ==
    ASSUME TypeOK, Next
    PROVE  acct' \in Account /\ episode' \in 0..MaxEpisode
<1> USE DEF TypeOK
<1>1. ASSUME NEW r \in Request, Receive(r) \/ Fail(r) PROVE UNCHANGED <<acct, episode>>
  BY <1>1 DEF Receive, Fail
<1>2. ASSUME NEW r \in Request, Handler(r)
      PROVE  acct' \in Account /\ episode' \in 0..MaxEpisode
  <2>1. req[r].call \in Call
    BY DEF RequestState
  <2>2. CASE SendAlert(r)
    <3>1. req[r].call.type \in AlertType /\ req[r].call.dev \in Device \cup {None}
      BY <2>1 DEF Call
    <3>2. acct' \in Account
      BY <2>2, <3>1 DEF SendAlert, Account
    <3>3. QED
      BY <2>2, <3>2, BoundAssumption DEF SendAlert
  <2>3. CASE ClearAlert(r) \/ StandDown(r)
    BY <2>3 DEF ClearAlert, StandDown, Account
  <2>4. CASE UpdateArmed(r)
    BY <2>4 DEF UpdateArmed, Account
  <2>5. CASE PinSetup(r)
    BY <2>1, <2>5 DEF PinSetup, Account, Call
  <2>6. CASE PassSetup(r)
    BY <2>1, <2>6 DEF PassSetup, Account, Call
  <2>7. CASE KeySetup(r)
    BY <2>1, <2>7 DEF KeySetup, Account, Call
  <2>8. CASE UNCHANGED <<acct, episode>>
    BY <2>8
  <2>9. QED
    BY <1>2, <2>2, <2>3, <2>4, <2>5, <2>6, <2>7, <2>8
    DEF Handler, RefuseAlert, RefuseClear, RateLimited, RefusePass, DisarmWithPass,
        RefuseSignature, DisarmWithKey, BurnChallenge, ArmChallenge
<1>3. CASE ChallengeExpires
  BY <1>3 DEF ChallengeExpires
<1>4. ASSUME NEW t \in BroadcastType, AdminBroadcast(t)
      PROVE  acct' \in Account /\ episode' \in 0..MaxEpisode
  <2>1. acct' \in Account
    BY <1>4 DEF AdminBroadcast, Account
  <2>2. QED
    BY <1>4, <2>1, BoundAssumption DEF AdminBroadcast
<1>5. CASE AdminClearAll
  BY <1>5 DEF AdminClearAll, Account
<1>6. ASSUME NEW b \in BOOLEAN, AdminBan(b)
      PROVE  acct' \in Account /\ episode' \in 0..MaxEpisode
  BY <1>6 DEF AdminBan, Account
<1>7. QED
  BY <1>1, <1>2, <1>3, <1>4, <1>5, <1>6 DEF Next, Admin

\* Challenges: ids are minted in order, burnt ones are never stored again.
LEMMA ChallengeStep ==
    ASSUME TypeOK, Checked, BurntIsGone, Next
    PROVE  /\ challenge' \in [id : 0..MaxChallenge, live : BOOLEAN]
           /\ minted' \in 0..MaxChallenge /\ minted <= minted'
           /\ burnt \subseteq burnt'
           /\ challenge'.id \in 0..minted'
           /\ burnt' \subseteq 1..minted'
           /\ challenge'.id \notin burnt'
<1> USE BoundAssumption DEF TypeOK, BurntIsGone
<1>1. CASE UNCHANGED <<challenge, minted, burnt>>
  BY <1>1
<1>2. ASSUME NEW r \in Request, BurnChallenge(r)
      PROVE  /\ challenge' = [id |-> 0, live |-> FALSE]
             /\ minted' = minted
             /\ \E i \in 1..minted : burnt' = burnt \cup {i}
  BY <1>2 DEF BurnChallenge, At, Checked
<1>3. ASSUME NEW r \in Request, ArmChallenge(r)
      PROVE  /\ challenge' = [id |-> minted + 1, live |-> TRUE]
             /\ minted' = minted + 1 /\ minted < MaxChallenge
             /\ burnt' = burnt
  BY <1>3 DEF ArmChallenge
<1>4. CASE ChallengeExpires
  <2>1. challenge'.id = challenge.id /\ challenge' \in [id : 0..MaxChallenge, live : BOOLEAN]
    BY <1>4 DEF ChallengeExpires
  <2>2. UNCHANGED <<minted, burnt>>
    BY <1>4 DEF ChallengeExpires
  <2>3. QED
    BY <2>1, <2>2
<1>5. ASSUME NEW r \in Request, Handler(r), ~BurnChallenge(r), ~ArmChallenge(r)
      PROVE  UNCHANGED <<challenge, minted, burnt>>
  BY <1>5 DEF Handler, SendAlert, RefuseAlert, RefuseClear, ClearAlert, RateLimited, RefusePass,
     DisarmWithPass, RefuseSignature, DisarmWithKey, UpdateArmed, StandDown, PinSetup,
     PassSetup, KeySetup
<1>6. ASSUME NEW r \in Request, Receive(r) \/ Fail(r)
      PROVE  UNCHANGED <<challenge, minted, burnt>>
  BY <1>6 DEF Receive, Fail
<1>7. Admin => UNCHANGED <<challenge, minted, burnt>>
  BY DEF Admin, AdminBroadcast, AdminClearAll, AdminBan
<1>8. ASSUME NEW r \in Request, BurnChallenge(r) \/ ArmChallenge(r)
      PROVE  /\ challenge' \in [id : 0..MaxChallenge, live : BOOLEAN]
             /\ minted' \in 0..MaxChallenge /\ minted <= minted'
             /\ burnt \subseteq burnt'
             /\ challenge'.id \in 0..minted'
             /\ burnt' \subseteq 1..minted'
             /\ challenge'.id \notin burnt'
  <2>1. CASE BurnChallenge(r)
    <3>1. PICK i \in 1..minted : burnt' = burnt \cup {i}
      BY <1>2, <2>1
    <3>2. challenge' = [id |-> 0, live |-> FALSE] /\ minted' = minted
      BY <1>2, <2>1
    <3>3. 0 \notin burnt'
      BY <3>1
    <3>4. challenge' \in [id : 0..MaxChallenge, live : BOOLEAN] /\ challenge'.id = 0
      BY <3>2
    <3>5. QED
      BY <3>1, <3>2, <3>3, <3>4
  <2>2. CASE ArmChallenge(r)
    <3>1. /\ challenge' = [id |-> minted + 1, live |-> TRUE]
          /\ minted' = minted + 1 /\ burnt' = burnt
          /\ minted + 1 \in 1..MaxChallenge
      BY <1>3, <2>2
    <3>2. minted + 1 \notin burnt /\ burnt \subseteq 1..(minted + 1)
      OBVIOUS
    <3>3. challenge' \in [id : 0..MaxChallenge, live : BOOLEAN] /\ challenge'.id = minted + 1
      BY <3>1
    <3>4. QED
      BY <3>1, <3>2, <3>3
  <2>3. QED
    BY <1>8, <2>1, <2>2
<1>9. QED
  BY <1>1, <1>4, <1>5, <1>6, <1>7, <1>8 DEF Next

\* The slots keep their type, and only requests in flight know of anything.
LEMMA SlotStep ==
    ASSUME TypeOK, Next
    PROVE  req' \in [Request -> RequestState]
<1>1. ASSUME NEW r \in Request, Receive(r) PROVE req' \in [Request -> RequestState]
  BY <1>1, ReceiveEffect
<1>2. ASSUME NEW r \in Request, Handler(r) \/ Fail(r)
      PROVE  req' \in [Request -> RequestState]
  BY <1>2, HandlerSlots, FinishEffect, GotoEffect DEF Pc
<1>3. CASE ChallengeExpires \/ Admin
  BY <1>3 DEF ChallengeExpires, Admin, AdminBroadcast, AdminClearAll, AdminBan, TypeOK
<1>4. QED
  BY <1>1, <1>2, <1>3 DEF Next

\* A slot in flight after a step was received in it, or was in flight before it with
\* the same row and call.
SameSlot(x) ==
    /\ req[x].pc # "idle"
    /\ req'[x].row = req[x].row /\ req'[x].call = req[x].call
    /\ req'[x].seen = req[x].seen /\ req'[x].spent = req[x].spent

LEMMA SlotHistory ==
    ASSUME TypeOK, Next, NEW x \in Request
    PROVE  \/ SameSlot(x)
           \/ req'[x].pc = "idle" /\ req'[x].seen \in {0, req[x].seen}
              /\ req'[x].spent \in {{}, req[x].spent}
           \/ /\ req'[x].pc = "start" /\ req'[x].row = acct /\ req'[x].seen = episode
              /\ req'[x].spent = burnt /\ UNCHANGED <<acct, episode>>
<1>1. CASE req'[x] = req[x]
  BY <1>1 DEF SameSlot
<1>2. CASE Receive(x)
  BY <1>2, ReceiveEffect DEF Receive
<1>3. CASE Handler(x) \/ Fail(x)
  <2>1. req[x].pc # "idle"
    BY <1>3 DEF Handler, Fail, At, SendAlert, RefuseAlert, RefuseClear, ClearAlert,
       RateLimited, RefusePass, DisarmWithPass, RefuseSignature, DisarmWithKey, BurnChallenge,
       UpdateArmed, StandDown, ArmChallenge, PinSetup, PassSetup, KeySetup
  <2>2. CASE Finish(x)
    BY <2>2, FinishEffect
  <2>3. ASSUME NEW pc \in {"burn", "update", "standdown"}, Goto(x, pc) PROVE SameSlot(x)
    BY <2>1, <2>3, GotoEffect DEF Pc, SameSlot
  <2>4. QED
    BY <1>3, <2>2, <2>3, HandlerSlots
<1>4. ASSUME NEW r \in Request, r # x, Receive(r) \/ Handler(r) \/ Fail(r)
      PROVE  req'[x] = req[x]
  BY <1>4, HandlerSlots, ReceiveEffect, FinishEffect, GotoEffect DEF Pc
<1>5. CASE ChallengeExpires \/ Admin
  BY <1>1, <1>5 DEF ChallengeExpires, Admin, AdminBroadcast, AdminClearAll, AdminBan
<1>6. QED
  BY <1>1, <1>2, <1>3, <1>4, <1>5 DEF Next

\* A fresh row stays fresh: every action that raises an alert moves episode on, and
\* no other action raises one or changes its type or origin.
LEMMA AlertStep ==
    ASSUME TypeOK, Next
    PROVE  \/ episode' = episode + 1
           \/ /\ episode' = episode
              /\ acct'.alert => /\ acct.alert
                                /\ acct'.type = acct.type /\ acct'.origin = acct.origin
<1> USE DEF TypeOK
<1>1. ASSUME NEW r \in Request, Receive(r) \/ Fail(r) PROVE UNCHANGED <<acct, episode>>
  BY <1>1 DEF Receive, Fail
<1>2. ASSUME NEW r \in Request, Handler(r)
      PROVE  \/ episode' = episode + 1
             \/ /\ episode' = episode
                /\ acct'.alert => /\ acct.alert
                                  /\ acct'.type = acct.type /\ acct'.origin = acct.origin
  <2>1. CASE SendAlert(r)
    BY <2>1 DEF SendAlert
  <2>2. CASE ClearAlert(r) \/ StandDown(r)
    BY <2>2 DEF ClearAlert, StandDown, Account
  <2>3. CASE UpdateArmed(r)
    BY <2>3 DEF UpdateArmed, Account
  <2>4. CASE PinSetup(r) \/ PassSetup(r) \/ KeySetup(r)
    <3>1. acct \in Account
      OBVIOUS
    <3>2. CASE PinSetup(r)
      BY <3>1, <3>2 DEF PinSetup, Account
    <3>3. CASE PassSetup(r)
      BY <3>1, <3>3 DEF PassSetup, Account
    <3>4. CASE KeySetup(r)
      BY <3>1, <3>4 DEF KeySetup, Account
    <3>5. QED
      BY <2>4, <3>2, <3>3, <3>4
  <2>5. CASE UNCHANGED <<acct, episode>>
    BY <2>5
  <2>6. QED
    BY <1>2, <2>1, <2>2, <2>3, <2>4, <2>5
    DEF Handler, RefuseAlert, RefuseClear, RateLimited, RefusePass, DisarmWithPass,
        RefuseSignature, DisarmWithKey, BurnChallenge, ArmChallenge
<1>3. CASE ChallengeExpires
  BY <1>3 DEF ChallengeExpires
<1>4. CASE Admin
  BY <1>4 DEF Admin, AdminBroadcast, AdminClearAll, AdminBan, Account
<1>5. QED
  BY <1>1, <1>2, <1>3, <1>4 DEF Next

LEMMA FreshRowStep ==
    ASSUME TypeOK, FreshRow, Next
    PROVE  FreshRow'
<1> SUFFICES ASSUME NEW x \in Request
             PROVE  /\ req'[x].seen <= episode'
                    /\ req'[x].pc # "idle" /\ req'[x].seen = episode' /\ acct'.alert
                       => /\ req'[x].row.alert
                          /\ req'[x].row.type = acct'.type
                          /\ req'[x].row.origin = acct'.origin
  BY DEF FreshRow
<1>1. episode \in Nat /\ req[x].seen \in Nat /\ req[x].seen <= episode
  BY BoundAssumption DEF TypeOK, RequestState, FreshRow
<1>2. CASE SameSlot(x)
  BY <1>1, <1>2, AlertStep DEF SameSlot, FreshRow
<1>3. CASE req'[x].pc = "idle" /\ req'[x].seen \in {0, req[x].seen}
  BY <1>1, <1>3, AlertStep
<1>4. CASE /\ req'[x].row = acct /\ req'[x].seen = episode
           /\ UNCHANGED <<acct, episode>>
  BY <1>1, <1>4
<1>5. QED
  BY <1>2, <1>3, <1>4, SlotHistory

\* What DisarmWithPass and DisarmWithKey let through was checked.
LEMMA CheckedStep ==
    ASSUME TypeOK, Checked, BurntIsGone, Next
    PROVE  Checked'
<1> SUFFICES ASSUME NEW x \in Request
             PROVE  /\ req'[x].pc \in {"burn", "update", "standdown"}
                       => req'[x].call.op = "disarm"
                    /\ req'[x].pc \in {"update", "standdown"} /\ PassDemanded(x)'
                       => PassShown(x)'
                    /\ req'[x].pc = "burn" => KeyJudged(x)'
                    /\ req'[x].pc \in {"burn", "update"} /\ KeyJudged(x)'
                       => /\ req'[x].call.sig.key = req'[x].row.key
                          /\ req'[x].call.sig.id \in 1..minted'
                          /\ req'[x].call.sig.id \notin req'[x].spent
  BY DEF Checked
<1>1. minted \in Nat /\ minted' \in Nat /\ minted <= minted'
  BY ChallengeStep, BoundAssumption DEF TypeOK
<1>2. CASE req'[x] = req[x]
  BY <1>1, <1>2 DEF Checked, PassDemanded, PassShown, KeyJudged
<1>3. CASE req'[x].pc \in {"idle", "start"}
  BY <1>3
<1>4. CASE DisarmWithPass(x)
  <2>1. /\ req'[x].pc = "update" /\ req'[x].call = req[x].call /\ req'[x].row = req[x].row
    BY <1>4, GotoEffect DEF DisarmWithPass, Pc
  <2>2. QED
    BY <1>4, <2>1 DEF DisarmWithPass, At, PassDemanded, PassShown, KeyJudged
<1>5. CASE DisarmWithKey(x)
  <2>1. /\ req'[x].pc = "burn" /\ req'[x].call = req[x].call /\ req'[x].row = req[x].row
        /\ req'[x].spent = req[x].spent /\ minted' = minted
    BY <1>5, GotoEffect DEF DisarmWithKey, Pc
  <2>2. /\ req[x].call.op = "disarm" /\ KeyJudged(x)
        /\ req[x].call.sig = [key |-> req[x].row.key, id |-> challenge.id]
    BY <1>5 DEF DisarmWithKey, At, Verifies
  <2>3. req[x].call.sig \in Signature
    BY <2>2 DEF KeyJudged, TypeOK, RequestState, Call
  <2>4. /\ req[x].call.sig.key = req[x].row.key
        /\ req[x].call.sig.id = challenge.id /\ challenge.id \in 1..MaxChallenge
    BY <2>2, <2>3 DEF Signature
  <2>5. challenge.id \in 1..minted /\ challenge.id \notin req[x].spent
    BY <2>4, <1>1 DEF BurntIsGone
  <2>6. QED
    BY <2>1, <2>2, <2>4, <2>5 DEF KeyJudged, PassDemanded
<1>6. CASE BurnChallenge(x)
  <2>1. /\ req'[x].pc = "update" /\ req'[x].call = req[x].call /\ req'[x].row = req[x].row
        /\ req'[x].spent = req[x].spent /\ minted' = minted /\ req[x].pc = "burn"
    BY <1>6, GotoEffect DEF BurnChallenge, At, Pc
  <2>2. QED
    BY <2>1 DEF Checked, PassDemanded, PassShown, KeyJudged
<1>7. CASE UpdateArmed(x) /\ Goto(x, "standdown")
  <2>1. /\ req'[x].pc = "standdown" /\ req'[x].call = req[x].call /\ req'[x].row = req[x].row
    BY <1>7, GotoEffect DEF Pc
  <2>2. req[x].call.op = "disarm" /\ (PassDemanded(x) => req[x].pc = "update")
    BY <1>7, <2>1 DEF UpdateArmed, GoesOn, At, Goto, Finish, TypeOK, IdleSlot
  <2>3. QED
    BY <2>1, <2>2 DEF Checked, PassDemanded, PassShown
<1>8. ASSUME NEW r \in Request, r # x, Receive(r) \/ Handler(r) \/ Fail(r)
      PROVE  req'[x] = req[x]
  BY <1>8, HandlerSlots, ReceiveEffect, FinishEffect, GotoEffect DEF Pc
<1>9. CASE Receive(x) \/ Fail(x) \/ Finish(x)
  BY <1>3, <1>9, ReceiveEffect, FinishEffect DEF Fail
<1>10. CASE ChallengeExpires \/ Admin
  BY <1>2, <1>10 DEF ChallengeExpires, Admin, AdminBroadcast, AdminClearAll, AdminBan
<1>11. Handler(x) => \/ Finish(x) \/ DisarmWithPass(x) \/ DisarmWithKey(x)
                     \/ BurnChallenge(x) \/ (UpdateArmed(x) /\ Goto(x, "standdown"))
  BY DEF Handler, SendAlert, RefuseAlert, RefuseClear, ClearAlert, RateLimited, RefusePass,
     RefuseSignature, UpdateArmed, StandDown, ArmChallenge, PinSetup, PassSetup, KeySetup
<1>12. QED
  BY <1>2, <1>4, <1>5, <1>6, <1>7, <1>8, <1>9, <1>10, <1>11 DEF Next

LEMMA SpentStep ==
    ASSUME TypeOK, Checked, BurntIsGone, Next, NEW x \in Request
    PROVE  req'[x].spent \subseteq burnt'
<1>1. burnt \subseteq burnt' /\ req[x].spent \subseteq burnt
  BY ChallengeStep DEF BurntIsGone
<1>2. QED
  BY <1>1, SlotHistory DEF SameSlot

-----------------------------------------------------------------------------
(* The theorems.                                                           *)

LEMMA IInvInit == Init => IInv
<1> SUFFICES ASSUME Init PROVE IInv
  OBVIOUS
<1>1. \A r \in Request : req[r] = IdleSlot
  BY DEF Init
<1>2. TypeOK
  <2>1. acct \in Account
    BY DEF Init, NewAccount, Account, AlertType, BroadcastType
  <2>2. challenge \in [id : 0..MaxChallenge, live : BOOLEAN]
    BY BoundAssumption DEF Init
  <2>3. req \in [Request -> RequestState]
    BY IdleTyped DEF Init
  <2>4. QED
    BY <2>1, <2>2, <2>3, BoundAssumption DEF Init, TypeOK
<1>3. FreshRow /\ Checked /\ BurntIsGone
  BY <1>1, BoundAssumption DEF Init, FreshRow, Checked, BurntIsGone, IdleSlot
<1>4. QED
  BY <1>2, <1>3 DEF IInv

LEMMA IInvStep == IInv /\ [Next]_vars => IInv'
<1> SUFFICES ASSUME IInv, [Next]_vars PROVE IInv'
  OBVIOUS
<1> USE DEF IInv
<1>1. CASE Next
  <2>1. TypeOK'
    BY <1>1, AccountStep, ChallengeStep, SlotStep, BoundAssumption DEF TypeOK
  <2>2. FreshRow' /\ Checked'
    BY <1>1, FreshRowStep, CheckedStep
  <2>3. BurntIsGone'
    BY <1>1, ChallengeStep, SpentStep DEF BurntIsGone
  <2>4. QED
    BY <2>1, <2>2, <2>3
<1>2. CASE UNCHANGED vars
  BY <1>2 DEF vars, TypeOK, FreshRow, Checked, BurntIsGone, PassDemanded, PassShown,
     KeyJudged
<1>3. QED
  BY <1>1, <1>2

\* What requests in flight know and have proved stays right: the invariant the
\* properties below rest on.
THEOREM Invariant == Spec => []IInv
<1>1. QED
  BY IInvInit, IInvStep, PTL DEF Spec

\* The types of the account row, of its challenge and of the requests.
THEOREM TypeCorrect == Spec => []TypeOK
<1>1. IInv => TypeOK
  BY DEF IInv
<1>2. QED
  BY <1>1, Invariant, PTL

-----------------------------------------------------------------------------
(* The properties of the steps.                                            *)

\* Only the UPDATE of a disarm switches the account off.
LEMMA DisarmIsUpdate ==
    ASSUME TypeOK, Next, Disarms, NEW r \in Request, StepOf(r)
    PROVE  UpdateArmed(r) /\ req[r].call.op = "disarm"
<1>1. ASSUME NEW x \in Request, Receive(x) \/ Fail(x) PROVE FALSE
  BY <1>1 DEF Receive, Fail, Disarms
<1>2. ASSUME NEW x \in Request, Handler(x) PROVE UpdateArmed(x)
  BY <1>2 DEF Handler, Disarms, TypeOK, Account, SendAlert, RefuseAlert, RefuseClear,
     ClearAlert, RateLimited, RefusePass, DisarmWithPass, RefuseSignature, DisarmWithKey,
     BurnChallenge, StandDown, ArmChallenge, PinSetup, PassSetup, KeySetup
<1>3. ChallengeExpires \/ Admin => FALSE
  BY DEF ChallengeExpires, Admin, AdminBroadcast, AdminClearAll, AdminBan, StepOf
<1>4. PICK x \in Request : UpdateArmed(x)
  BY <1>1, <1>2, <1>3 DEF Next
<1>5. x = r
  BY <1>4, FinishEffect, GotoEffect DEF UpdateArmed, StepOf, Pc
<1>6. QED
  BY <1>4, <1>5 DEF UpdateArmed, Disarms, At, TypeOK, Account

\* Only the setup handlers change the pass and the key of the row.
LEMMA SetupIsOwn ==
    ASSUME TypeOK, Next, NEW r \in Request, StepOf(r),
           acct'.pass # acct.pass \/ acct'.key # acct.key
    PROVE  \/ PassSetup(r) /\ acct'.key = acct.key
           \/ KeySetup(r) /\ acct'.pass = acct.pass
<1>1. ASSUME NEW x \in Request, Receive(x) \/ Fail(x) PROVE FALSE
  BY <1>1 DEF Receive, Fail
<1>2. ASSUME NEW x \in Request, Handler(x) PROVE PassSetup(x) \/ KeySetup(x)
  BY <1>2 DEF Handler, TypeOK, Account, SendAlert, RefuseAlert, RefuseClear, ClearAlert,
     RateLimited, RefusePass, DisarmWithPass, RefuseSignature, DisarmWithKey, BurnChallenge,
     UpdateArmed, StandDown, ArmChallenge, PinSetup
<1>3. ChallengeExpires \/ Admin => FALSE
  BY DEF ChallengeExpires, Admin, AdminBroadcast, AdminClearAll, AdminBan, StepOf
<1>4. PICK x \in Request : PassSetup(x) \/ KeySetup(x)
  BY <1>1, <1>2, <1>3 DEF Next
<1>5. x = r
  BY <1>4, FinishEffect DEF PassSetup, KeySetup, StepOf
<1>6. QED
  BY <1>4, <1>5 DEF PassSetup, KeySetup, TypeOK, Account

\* A request authenticated while the account had a pass switches it off, changes its pass
\* or replaces its key only if it showed that pass.
THEOREM PassNeeded == Spec => PassGuards
<1>1. IInv /\ [Next]_vars
      => [\A r \in Request :
            Weakens(r) /\ req[r].row.pass # None
            => req[r].call.given = req[r].row.pass]_vars
  <2> SUFFICES ASSUME IInv, Next, NEW r \in Request, Weakens(r), req[r].row.pass # None
               PROVE  req[r].call.given = req[r].row.pass
    BY DEF vars
  <2>1. CASE Disarms
    <3>1. UpdateArmed(r) /\ req[r].call.op = "disarm"
      BY <2>1, DisarmIsUpdate DEF IInv, Weakens
    <3>2. req[r].pc = "update"
      BY <3>1 DEF UpdateArmed, At, PassDemanded
    <3>3. QED
      BY <3>2 DEF IInv, Checked, PassDemanded, PassShown
  <2>2. CASE acct'.pass # acct.pass
    <3>1. PassSetup(r)
      BY <2>2, SetupIsOwn DEF IInv, Weakens
    <3>2. ~PassRefused(r)
      BY <2>2, <3>1 DEF PassSetup
    <3>3. QED
      BY <3>2 DEF PassRefused, PassDemanded, PassShown
  <2>3. CASE acct'.pass = acct.pass /\ req[r].row.key # None /\ acct'.key # acct.key
    <3>1. KeySetup(r) \/ (PassSetup(r) /\ acct'.key = acct.key)
      BY <2>3, SetupIsOwn DEF IInv, Weakens
    <3>2. ~KeyRefused(r)
      BY <2>3, <3>1 DEF KeySetup
    <3>3. QED
      BY <2>3, <3>2 DEF KeyRefused, PassDemanded, PassShown
  <2>4. QED
    BY <2>1, <2>2, <2>3 DEF Weakens
<1>2. QED
  BY <1>1, Invariant, PTL DEF Spec, PassGuards

\* A signature over a challenge burnt before the request was authenticated does not
\* switch the account off, and one by another key never does.
THEOREM NoReplay == Spec => ReplayRefused
<1>1. IInv /\ [Next]_vars
      => [\A r \in Request :
            Disarms /\ StepOf(r) /\ KeyJudged(r)
            => /\ req[r].call.sig.key = req[r].row.key
               /\ req[r].call.sig.id \notin req[r].spent]_vars
  <2> SUFFICES ASSUME IInv, Next, NEW r \in Request, Disarms, StepOf(r), KeyJudged(r)
               PROVE  /\ req[r].call.sig.key = req[r].row.key
                      /\ req[r].call.sig.id \notin req[r].spent
    BY DEF vars
  <2>1. UpdateArmed(r) /\ req[r].call.op = "disarm"
    BY DisarmIsUpdate DEF IInv
  <2>2. req[r].pc = "update"
    BY <2>1 DEF UpdateArmed, At
  <2>3. QED
    BY <2>2 DEF IInv, Checked
<1>2. QED
  BY <1>1, Invariant, PTL DEF Spec, ReplayRefused

\* The origin of the THIEF_ALERT a clear has read silences it only with the PIN.
THEOREM OriginKept == Spec => OriginProtected
<1>1. IInv /\ [Next]_vars
      => [\A r \in Request :
               /\ ThiefActive /\ Silences /\ StepOf(r)
               /\ req[r].call.op = "clear"
               /\ req[r].call.dev = acct.origin
               /\ req[r].seen = episode
            => /\ req[r].call.given # None
               /\ req[r].call.given = req[r].row.pin]_vars
  <2> SUFFICES ASSUME IInv, Next, NEW r \in Request, ThiefActive, Silences, StepOf(r),
                      req[r].call.op = "clear", req[r].call.dev = acct.origin,
                      req[r].seen = episode
               PROVE  /\ req[r].call.given # None
                      /\ req[r].call.given = req[r].row.pin
    BY DEF vars
  <2>1. ClearAlert(r)
    <3>1. ASSUME NEW x \in Request, Receive(x) \/ Fail(x) PROVE FALSE
      BY <3>1 DEF Receive, Fail, Silences
    <3>2. ASSUME NEW x \in Request, Handler(x) PROVE ClearAlert(x) \/ StandDown(x)
      BY <3>2 DEF Handler, Silences, IInv, TypeOK, Account, SendAlert, RefuseAlert,
         RefuseClear, RateLimited, RefusePass, DisarmWithPass, RefuseSignature, DisarmWithKey,
         BurnChallenge, UpdateArmed, ArmChallenge, PinSetup, PassSetup, KeySetup
    <3>3. ChallengeExpires \/ Admin => FALSE
      BY DEF ChallengeExpires, Admin, AdminBroadcast, AdminClearAll, AdminBan, StepOf
    <3>4. PICK x \in Request : ClearAlert(x) \/ StandDown(x)
      BY <3>1, <3>2, <3>3 DEF Next
    <3>5. x = r
      BY <3>4, FinishEffect DEF ClearAlert, StandDown, StepOf, IInv
    <3>6. QED
      BY <3>4, <3>5 DEF StandDown, At
  <2>2. /\ req[r].row.alert /\ req[r].row.type = "THIEF_ALERT"
        /\ req[r].row.origin = req[r].call.dev
    BY <2>1 DEF IInv, FreshRow, ThiefActive, ClearAlert, At
  <2>3. QED
    BY <2>1, <2>2 DEF ClearAlert, OriginMayNotClear
<1>2. QED
  BY <1>1, Invariant, PTL DEF Spec, OriginProtected

\* A disarm leaves none of the alerts behind that were up when it was authenticated.
THEOREM StoodDown == Spec => DisarmStandsDown
<1>1. IInv /\ [Next]_vars
      => [\A r \in Request :
            EndsDisarm(r) /\ req[r].seen = episode => ~acct'.alert]_vars
  <2> SUFFICES ASSUME IInv, NEW r \in Request, EndsDisarm(r), req[r].seen = episode
               PROVE  ~acct'.alert
    OBVIOUS
  <2>1. CASE StandDown(r)
    BY <2>1 DEF StandDown, IInv, TypeOK, Account
  <2>2. CASE UpdateArmed(r) /\ ~acct'.armed /\ req'[r].pc = "idle"
    <3>1. acct'.alert = acct.alert /\ req[r].call.op # "arm"
      BY <2>2 DEF UpdateArmed, IInv, TypeOK, Account
    <3>2. req[r].pc # "idle" /\ req[r].call.op = "disarm"
      BY <2>2, <3>1 DEF UpdateArmed, At
    <3>3. ~req[r].row.alert
      BY <2>2, <3>2, GotoEffect DEF UpdateArmed, GoesOn, IInv, Pc
    <3>4. QED
      BY <3>1, <3>2, <3>3 DEF IInv, FreshRow
  <2>3. QED
    BY <2>1, <2>2 DEF EndsDisarm
<1>2. QED
  BY <1>1, Invariant, PTL DEF Spec, DisarmStandsDown

-----------------------------------------------------------------------------
(* The attempts shield that a disarm passes before its pass is compared.   *)

\* The attempts between their two statements are finitely many.
LEMMA AttemptSizes ==
    ASSUME NEW m \in Minute
    PROVE  /\ IsFiniteSet(Fresh(m)) /\ Cardinality(Fresh(m)) \in Nat
           /\ IsFiniteSet(Late(m)) /\ Cardinality(Late(m)) \in Nat
           /\ IsFiniteSet(Counted(m)) /\ Cardinality(Counted(m)) \in Nat
<1>1. /\ Counted(m) \in SUBSET Slot
      /\ Fresh(m) \in SUBSET Slot /\ Late(m) \in SUBSET Slot
  BY DEF Counted, Fresh, Late
<1>2. QED
  BY <1>1, SlotAssumption, FS_Subset, FS_CardinalityType

\* What the tally of one minute must satisfy.
TallyOf(m) ==
    /\ tally[m].let + Cardinality(Fresh(m)) <= fails[m]
    /\ tally[m].let <= Limit
    /\ tally[m].lateLet + Cardinality(Late(m)) <= tally[m].carried

\* An attempt that joins no row it was not in, and moves no tally, disturbs nothing.
LEMMA TallyLeft ==
    ASSUME ShieldTypeOK, NEW m \in Minute, TallyOf(m),
           Fresh(m)' \subseteq Fresh(m), Late(m)' \subseteq Late(m),
           fails'[m] = fails[m], tally'[m] = tally[m]
    PROVE  TallyOf(m)'
<1>1. /\ Fresh(m)' \in SUBSET Fresh(m) /\ Late(m)' \in SUBSET Late(m)
  OBVIOUS
<1>2. /\ Cardinality(Fresh(m)') <= Cardinality(Fresh(m))
      /\ Cardinality(Late(m)') <= Cardinality(Late(m))
      /\ Cardinality(Fresh(m)') \in Nat /\ Cardinality(Late(m)') \in Nat
  BY <1>1, AttemptSizes, FS_Subset, FS_CardinalityType
<1>3. tally[m] \in Tally /\ fails[m] \in Nat
  BY LimitAssumption DEF ShieldTypeOK
<1>4. QED
  BY <1>2, <1>3, AttemptSizes DEF TallyOf, Tally

\* Counting, reading, judging and deleting keep the types (the shield of handleArm).
LEMMA ShieldTypeStep == ShieldTypeOK /\ [ShieldNext]_shieldVars => ShieldTypeOK'
<1> SUFFICES ASSUME ShieldTypeOK, [ShieldNext]_shieldVars PROVE ShieldTypeOK'
  OBVIOUS
<1> USE LimitAssumption DEF ShieldTypeOK
<1>0. NoAttempt \in Attempt
  BY DEF NoAttempt, Attempt, Minute
<1>1. CASE Tick
  BY <1>1 DEF Tick, Minute
<1>2. ASSUME NEW r \in Slot, Try(r) PROVE ShieldTypeOK'
  <2>1. PICK right \in BOOLEAN :
            attempt' = [attempt EXCEPT ![r] = [pc |-> "count", bucket |-> minute,
                                       right |-> right, late |-> FALSE]]
    BY <1>2 DEF Try
  <2>2. [pc |-> "count", bucket |-> minute, right |-> right, late |-> FALSE] \in Attempt
    BY DEF Attempt
  <2>3. QED
    BY <1>2, <2>1, <2>2 DEF Try
<1>3. ASSUME NEW r \in Slot, NEW pc \in {"count", "read", "judge", "reset"},
             attempt' = [attempt EXCEPT ![r].pc = pc]
      PROVE  attempt' \in [Slot -> Attempt]
  BY <1>3 DEF Attempt
<1>4. ASSUME NEW r \in Slot, Count(r) PROVE ShieldTypeOK'
  <2>1. attempt[r].bucket \in Minute
    BY DEF Attempt
  <2>2. fails' \in [Minute -> 0..MaxAttempts]
    BY <1>4, <2>1 DEF Count
  <2>3. QED
    BY <1>3, <1>4, <2>2 DEF Count
<1>5. ASSUME NEW r \in Slot, attempt' = [attempt EXCEPT ![r] = NoAttempt],
             UNCHANGED <<minute, fails, tally>>
      PROVE  ShieldTypeOK'
  BY <1>0, <1>5
<1>6. ASSUME NEW r \in Slot, LetThrough(r) PROVE ShieldTypeOK'
  <2>1. attempt[r].bucket \in Minute
    BY DEF Attempt
  <2>2. tally' \in [Minute -> Tally]
    BY <1>6, <2>1 DEF LetThrough, Tally
  <2>3. QED
    BY <1>3, <1>6, <2>2 DEF LetThrough
<1>7. ASSUME NEW r \in Slot, ShieldError(r) PROVE ShieldTypeOK'
  BY <1>3, <1>7 DEF ShieldError
<1>8. ASSUME NEW r \in Slot, Judge(r) PROVE ShieldTypeOK'
  BY <1>0, <1>3, <1>8 DEF Judge
<1>9. ASSUME NEW r \in Slot, Reset(r) PROVE ShieldTypeOK'
  <2>1. attempt[r].bucket \in Minute
    BY DEF Attempt
  <2>2. fails' \in [Minute -> 0..MaxAttempts]
    BY <1>9, <2>1 DEF Reset
  <2>3. tally' \in [Minute -> Tally]
    BY <1>9, <2>1, AttemptSizes DEF Reset, Tally
  <2>4. \A x \in Slot : [attempt[x] EXCEPT !.late = TRUE] \in Attempt
    BY DEF Attempt
  <2>5. attempt' \in [Slot -> Attempt]
    BY <1>0, <1>9, <2>4 DEF Reset
  <2>6. QED
    BY <1>9, <2>2, <2>3, <2>5 DEF Reset
<1>10. CASE UNCHANGED shieldVars
  BY <1>10 DEF shieldVars
<1>11. QED
  BY <1>1, <1>2, <1>4, <1>5, <1>6, <1>7, <1>8, <1>9, <1>10
  DEF ShieldNext, RefuseMore, ResetError

\* The row stays at or above those it let through and those about to read it.
LEMMA TallyStep == ShieldInv /\ [ShieldNext]_shieldVars => TallyOK'
<1> SUFFICES ASSUME ShieldTypeOK, TallyOK, [ShieldNext]_shieldVars PROVE TallyOK'
  BY DEF ShieldInv
<1>1. \A m \in Minute : TallyOf(m)
  BY DEF TallyOK, TallyOf
<1>2. SUFFICES /\ \A m \in Minute : TallyOf(m)'
               /\ \A x \in Slot : attempt'[x].pc = "count" => ~attempt'[x].late
  BY DEF TallyOK, TallyOf
<1>3. ASSUME UNCHANGED <<fails, attempt, tally>>
      PROVE  /\ \A m \in Minute : TallyOf(m)'
             /\ \A x \in Slot : attempt'[x].pc = "count" => ~attempt'[x].late
  BY <1>1, <1>3, TallyLeft DEF TallyOK, Fresh, Late, Counted
\* A slot that leaves "read", or was not there, and is not there after the step.
<1>4. ASSUME NEW r \in Slot, UNCHANGED <<fails, tally>>, attempt'[r].pc # "read",
             attempt'[r].pc = "count" => ~attempt'[r].late,
             \A x \in Slot : x # r => attempt'[x] = attempt[x]
      PROVE  /\ \A m \in Minute : TallyOf(m)'
             /\ \A x \in Slot : attempt'[x].pc = "count" => ~attempt'[x].late
  <2>1. \A m \in Minute : Fresh(m)' \subseteq Fresh(m) /\ Late(m)' \subseteq Late(m)
    BY <1>4 DEF Fresh, Late, Counted
  <2>2. QED
    BY <1>1, <1>4, <2>1, TallyLeft DEF TallyOK
<1>5. ASSUME NEW r \in Slot, Count(r)
      PROVE  /\ \A m \in Minute : TallyOf(m)'
             /\ \A x \in Slot : attempt'[x].pc = "count" => ~attempt'[x].late
  <2>1. PICK b \in Minute :
            b = attempt[r].bucket /\ ~attempt[r].late /\ attempt[r].pc = "count"
    BY <1>5 DEF ShieldTypeOK, Attempt, Count, TallyOK
  <2>2. /\ attempt'[r].pc = "read" /\ attempt'[r].bucket = b /\ ~attempt'[r].late
        /\ \A x \in Slot : x # r => attempt'[x] = attempt[x]
    BY <1>5, <2>1 DEF Count, ShieldTypeOK, Attempt
  <2>3. /\ fails'[b] = fails[b] + 1 /\ tally' = tally
        /\ \A m \in Minute : m # b => fails'[m] = fails[m]
    BY <1>5, <2>1 DEF Count, ShieldTypeOK
  <2>4. Fresh(b)' = Fresh(b) \cup {r} /\ Late(b)' = Late(b)
    BY <2>1, <2>2 DEF Fresh, Late, Counted
  <2>5. TallyOf(b)'
    <3>1. Cardinality(Fresh(b)') <= Cardinality(Fresh(b)) + 1
          /\ Cardinality(Fresh(b)') \in Nat
      <4>1. IsFiniteSet(Fresh(b)) /\ Cardinality(Fresh(b)) \in Nat
        BY AttemptSizes
      <4>2. Cardinality(Fresh(b) \cup {r})
              = IF r \in Fresh(b) THEN Cardinality(Fresh(b)) ELSE Cardinality(Fresh(b)) + 1
        BY <4>1, FS_AddElement
      <4>3. QED
        BY <2>4, <4>1, <4>2
    <3>2. tally[b] \in Tally /\ fails[b] \in Nat
      BY <2>1, LimitAssumption DEF ShieldTypeOK
    <3>3. TallyOf(b)
      BY <1>1, <2>1
    <3>4. QED
      BY <2>1, <2>3, <2>4, <3>1, <3>2, <3>3, AttemptSizes DEF TallyOf, Tally
  <2>6. ASSUME NEW m \in Minute, m # b PROVE TallyOf(m)'
    <3>1. Fresh(m)' = Fresh(m) /\ Late(m)' = Late(m)
      BY <2>1, <2>2, <2>6 DEF Fresh, Late, Counted
    <3>2. QED
      BY <1>1, <2>3, <2>6, <3>1, TallyLeft
  <2>7. QED
    BY <2>2, <2>5, <2>6 DEF TallyOK
<1>6. ASSUME NEW r \in Slot, LetThrough(r)
      PROVE  /\ \A m \in Minute : TallyOf(m)'
             /\ \A x \in Slot : attempt'[x].pc = "count" => ~attempt'[x].late
  <2>1. PICK b \in Minute :
            b = attempt[r].bucket /\ attempt[r].pc = "read" /\ fails[b] <= Limit
    BY <1>6 DEF ShieldTypeOK, Attempt, LetThrough
  <2>2. /\ attempt'[r].pc = "judge"
        /\ \A x \in Slot : x # r => attempt'[x] = attempt[x]
    BY <1>6 DEF LetThrough, ShieldTypeOK, Attempt
  <2>3. \A m \in Minute : /\ fails'[m] = fails[m]
                          /\ m # b => tally'[m] = tally[m]
    BY <1>6, <2>1 DEF LetThrough, ShieldTypeOK
  <2>4. Fresh(b)' = Fresh(b) \ {r} /\ Late(b)' = Late(b) \ {r}
    BY <2>1, <2>2 DEF Fresh, Late, Counted
  <2>5. TallyOf(b)'
    <3>1. tally[b] \in Tally /\ fails[b] \in Nat
      BY <2>1, LimitAssumption DEF ShieldTypeOK
    <3>2. TallyOf(b)
      BY <1>1, <2>1
    <3>3. CASE attempt[r].late
      <4>1. r \in Late(b) /\ r \notin Fresh(b)
        BY <2>1, <3>3 DEF Late, Fresh, Counted
      <4>2. Cardinality(Late(b)') = Cardinality(Late(b)) - 1 /\ Fresh(b)' = Fresh(b)
        <5>1. IsFiniteSet(Late(b))
          BY AttemptSizes
        <5>2. Cardinality(Late(b) \ {r}) = Cardinality(Late(b)) - 1
          BY <4>1, <5>1, FS_RemoveElement
        <5>3. QED
          BY <2>4, <4>1, <5>2
      <4>3. /\ tally'[b].lateLet = tally[b].lateLet + 1
            /\ tally'[b].let = tally[b].let /\ tally'[b].carried = tally[b].carried
        BY <1>6, <2>1, <3>3 DEF LetThrough, ShieldTypeOK, Tally
      <4>4. QED
        BY <2>1, <2>3, <3>1, <3>2, <4>2, <4>3, AttemptSizes DEF TallyOf, Tally
    <3>4. CASE ~attempt[r].late
      <4>1. r \in Fresh(b) /\ r \notin Late(b)
        BY <2>1, <3>4 DEF Late, Fresh, Counted
      <4>2. Cardinality(Fresh(b)') = Cardinality(Fresh(b)) - 1 /\ Late(b)' = Late(b)
        <5>1. IsFiniteSet(Fresh(b))
          BY AttemptSizes
        <5>2. Cardinality(Fresh(b) \ {r}) = Cardinality(Fresh(b)) - 1
          BY <4>1, <5>1, FS_RemoveElement
        <5>3. QED
          BY <2>4, <4>1, <5>2
      <4>3. Cardinality(Fresh(b)) # 0
        BY <2>1, <4>1, AttemptSizes, FS_EmptySet
      <4>4. /\ tally'[b].let = tally[b].let + 1
            /\ tally'[b].lateLet = tally[b].lateLet /\ tally'[b].carried = tally[b].carried
        BY <1>6, <2>1, <3>4 DEF LetThrough, ShieldTypeOK, Tally
      <4>5. QED
        BY <2>1, <2>3, <3>1, <3>2, <4>2, <4>3, <4>4, AttemptSizes, LimitAssumption
        DEF TallyOf, Tally
    <3>5. QED
      BY <3>3, <3>4
  <2>6. ASSUME NEW m \in Minute, m # b PROVE TallyOf(m)'
    <3>1. Fresh(m)' \subseteq Fresh(m) /\ Late(m)' \subseteq Late(m)
      BY <2>2 DEF Fresh, Late, Counted
    <3>2. QED
      BY <1>1, <2>3, <2>6, <3>1, TallyLeft
  <2>7. QED
    BY <2>2, <2>5, <2>6 DEF TallyOK
<1>7. ASSUME NEW r \in Slot, Reset(r)
      PROVE  /\ \A m \in Minute : TallyOf(m)'
             /\ \A x \in Slot : attempt'[x].pc = "count" => ~attempt'[x].late
  <2>1. PICK b \in Minute : b = attempt[r].bucket /\ attempt[r].pc = "reset"
    BY <1>7 DEF ShieldTypeOK, Attempt, Reset
  <2>2. \A x \in Slot : attempt'[x] = IF x = r THEN NoAttempt
                                     ELSE IF x \in Counted(b)
                                          THEN [attempt[x] EXCEPT !.late = TRUE]
                                          ELSE attempt[x]
    BY <1>7, <2>1 DEF Reset
  <2>3. \A x \in Slot : x \in Counted(b) =>
            /\ attempt'[x].pc = "read" /\ attempt'[x].bucket = b /\ attempt'[x].late
    BY <2>1, <2>2 DEF Counted, ShieldTypeOK, Attempt
  <2>4. \A x \in Slot : x \notin Counted(b) => attempt'[x] \in {NoAttempt, attempt[x]}
    BY <2>2
  <2>5. \A x \in Slot : attempt'[x].pc = "count" => ~attempt'[x].late
    BY <2>3, <2>4 DEF TallyOK, NoAttempt
  <2>6. TallyOf(b)'
    <3>1. Fresh(b)' = {} /\ Late(b)' = Counted(b)
      BY <2>1, <2>3, <2>4 DEF Fresh, Late, Counted, NoAttempt
    <3>2. /\ fails'[b] = 0 /\ tally'[b].let = 0 /\ tally'[b].lateLet = 0
          /\ tally'[b].carried = Cardinality(Counted(b))
      BY <1>7, <2>1 DEF Reset, ShieldTypeOK
    <3>3. QED
      BY <2>1, <3>1, <3>2, AttemptSizes, FS_EmptySet, LimitAssumption DEF TallyOf
  <2>7. ASSUME NEW m \in Minute, m # b PROVE TallyOf(m)'
    <3>1. Fresh(m)' \subseteq Fresh(m) /\ Late(m)' \subseteq Late(m)
      BY <2>3, <2>4, <2>7 DEF Fresh, Late, Counted, NoAttempt
    <3>2. fails'[m] = fails[m] /\ tally'[m] = tally[m]
      BY <1>7, <2>1, <2>7 DEF Reset, ShieldTypeOK
    <3>3. QED
      BY <1>1, <3>1, <3>2, TallyLeft
  <2>8. QED
    BY <2>5, <2>6, <2>7
<1>8. ASSUME NEW r \in Slot, Try(r) \/ RefuseMore(r) \/ ShieldError(r) \/ Judge(r)
                                \/ ResetError(r)
      PROVE  /\ attempt'[r].pc # "read" /\ (attempt'[r].pc = "count" => ~attempt'[r].late)
             /\ UNCHANGED <<fails, tally>>
             /\ \A x \in Slot : x # r => attempt'[x] = attempt[x]
  BY <1>8 DEF Try, RefuseMore, ShieldError, Judge, ResetError, ShieldTypeOK, NoAttempt, Attempt
<1>9. QED
  BY <1>3, <1>4, <1>5, <1>6, <1>7, <1>8 DEF ShieldNext, Tick, shieldVars

\* The counter of a minute is never below the attempts it let through and those that
\* are about to read it.
THEOREM ShieldInvariant == ShieldSpec => []ShieldInv
<1>1. ShieldInit => ShieldInv
  <2> SUFFICES ASSUME ShieldInit PROVE ShieldInv
    OBVIOUS
  <2>1. ShieldTypeOK
    BY LimitAssumption DEF ShieldInit, ShieldTypeOK, Minute, Attempt, Tally, NoAttempt, Clean
  <2>2. \A m \in Minute : Fresh(m) = {} /\ Late(m) = {}
    BY DEF ShieldInit, Fresh, Late, Counted, NoAttempt
  <2>3. TallyOK
    <3>1. Cardinality({}) = 0
      BY FS_EmptySet
    <3>2. \A m \in Minute : tally[m] = Clean /\ fails[m] = 0
      BY DEF ShieldInit
    <3>3. \A r \in Slot : ~attempt[r].late
      BY DEF ShieldInit, NoAttempt
    <3>4. ASSUME NEW m \in Minute PROVE TallyOf(m)
      <4>1. Cardinality(Fresh(m)) = 0 /\ Cardinality(Late(m)) = 0
        BY <2>2, <3>1
      <4>2. tally[m].let = 0 /\ tally[m].lateLet = 0 /\ tally[m].carried = 0
            /\ fails[m] = 0
        BY <3>2 DEF Clean
      <4>3. QED
        BY <4>1, <4>2, LimitAssumption DEF TallyOf
    <3>5. QED
      BY <3>3, <3>4 DEF TallyOK, TallyOf
  <2>4. QED
    BY <2>1, <2>3 DEF ShieldInv
<1>2. ShieldInv /\ [ShieldNext]_shieldVars => ShieldInv'
  BY ShieldTypeStep, TallyStep DEF ShieldInv
<1>3. QED
  BY <1>1, <1>2, PTL DEF ShieldSpec

\* A minute lets at most Limit attempts through after each success, and those that
\* were between their two statements then.
THEOREM Bounded == ShieldSpec => []GuessesBounded
<1>1. ShieldInv => GuessesBounded
  <2> SUFFICES ASSUME ShieldTypeOK, TallyOK, NEW m \in Minute
               PROVE  tally[m].let + tally[m].lateLet <= Limit + tally[m].carried
    BY DEF ShieldInv, GuessesBounded
  <2>1. tally[m] \in Tally /\ Cardinality(Late(m)) \in Nat
    BY AttemptSizes DEF ShieldTypeOK
  <2>2. tally[m].let <= Limit
        /\ tally[m].lateLet + Cardinality(Late(m)) <= tally[m].carried
    BY DEF TallyOK
  <2>3. QED
    BY <2>1, <2>2, LimitAssumption DEF Tally
<1>2. QED
  BY <1>1, ShieldInvariant, PTL
=============================================================================
