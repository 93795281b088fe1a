---------------------------- MODULE RelayPairing ----------------------------
(***************************************************************************)
(* Pairing on the Cloudflare relay (worker/worker.js): an account hands a  *)
(* six-digit code to a joining phone, which trades it for the linked token *)
(* of the account; the device registry follows the tokens.                 *)
(*                                                                         *)
(* A request is a process: handlePairLink runs seven awaited statements,   *)
(* and other links and polls run between any two of them.  The attempts    *)
(* shield in front of it is the module RelayShield.                        *)
(***************************************************************************)
EXTENDS Naturals, Sequences

CONSTANTS
    Request,    \* slots for the requests in flight
    Account,    \* accounts; an account also stands for the token of its laptop
    Code,       \* the six-digit codes
    None,       \* no row, no token
    MaxGen,     \* bound on the codes generated
    MaxToken    \* bound on the linked tokens minted

ASSUME NoneAssumption == None \notin Account \cup Nat
ASSUME AccountAssumption == Account \cap Nat = {}
ASSUME BoundAssumption == MaxGen \in Nat /\ MaxToken \in Nat

VARIABLES
    codes,      \* pairing_codes: the owner of each code, whether it is still valid,
                \* and (history) which generated code it is
    gens,       \* history: the accounts that generated a code, in order
    linked,     \* users.linked_token
    devices,    \* the devices rows: token and account
    minted,     \* how many linked tokens were minted
    from,       \* history: the generated code a linked token was minted for
    handed,     \* history: the linked tokens that reached a phone
    retired,    \* history: the linked tokens that were replaced
    req         \* the requests in flight

vars == <<codes, gens, linked, devices, minted, from, handed, retired, req>>

Token == Account \cup 1..MaxToken

\* gen 0 is "no row".
CodeRow == [owner : Account \cup {None}, live : BOOLEAN, gen : 0..MaxGen]
NoRow == [owner |-> None, live |-> FALSE, gen |-> 0]

Pc == {"idle", "burn", "previous", "retire", "rotate", "register", "reply", "touch"}

\* code: the code presented; row: the record looked up, whose owner is the account of
\* the request; token: the previous linked token, then the new one.
RequestState ==
    [pc : Pc, code : Code \cup {None}, row : CodeRow, token : Token \cup {None}]
Idle == [pc |-> "idle", code |-> None, row |-> NoRow, token |-> None]

Init ==
    /\ codes = [c \in Code |-> NoRow]
    /\ gens = <<>>
    /\ linked = [a \in Account |-> None]
    /\ devices = {[token |-> a, owner |-> a] : a \in Account}
    /\ minted = 0
    /\ from = [t \in 1..MaxToken |-> 0]
    /\ handed = {}
    /\ retired = {}
    /\ req = [r \in Request |-> Idle]

At(r, pc) == req[r].pc = pc
\* Mutant: the record is read again, and the code may be another account's by now.
OwnerOfCode(r) ==
    IF req[r].code # None /\ codes[req[r].code].gen # 0
    THEN codes[req[r].code].owner ELSE req[r].row.owner
Owner(r) == req[r].row.owner
Goto(r, pc) == req' = [req EXCEPT ![r].pc = pc]
Finish(r) == req' = [req EXCEPT ![r] = Idle]

-----------------------------------------------------------------------------
\* handlePairGenerate: the INSERT of a code that still has a row, expired or not,
\* breaks the primary key, and the request fails.
PairGenerate(a) ==
    /\ Len(gens) < MaxGen
    /\ \E c \in Code :
          /\ codes[c].gen = 0
          /\ codes' = [codes EXCEPT ![c] = [owner |-> a, live |-> TRUE,
                                          gen |-> Len(gens) + 1]]
    /\ gens' = Append(gens, a)
    /\ UNCHANGED <<linked, devices, minted, from, handed, retired, req>>

\* Five minutes go by: expires_at > now() no longer holds, and the row stays.
CodeExpires(c) ==
    /\ codes[c].live
    /\ codes' = [codes EXCEPT ![c].live = FALSE]
    /\ UNCHANGED <<gens, linked, devices, minted, from, handed, retired, req>>

\* SELECT ... WHERE code = ? AND expires_at > ?; any other code answers 404.
Lookup(r, c) ==
    /\ At(r, "idle")
    /\ codes[c].live
    /\ req' = [req EXCEPT ![r] = [Idle EXCEPT !.pc = "burn", !.code = c,
                                              !.row = codes[c]]]
    /\ UNCHANGED <<codes, gens, linked, devices, minted, from, handed, retired>>

\* Mutant: the code is left to expire.
BurnLater(r) ==
    /\ At(r, "burn")
    /\ Goto(r, "previous")
    /\ UNCHANGED <<codes, gens, linked, devices, minted, from, handed, retired>>

\* DELETE FROM pairing_codes WHERE code = ?: whatever row has the code by now.
Burn(r) ==
    /\ At(r, "burn")
    /\ codes' = [codes EXCEPT ![req[r].code] = NoRow]
    /\ Goto(r, "previous")
    /\ UNCHANGED <<gens, linked, devices, minted, from, handed, retired>>

ReadPrevious(r) ==
    /\ At(r, "previous")
    /\ req' = [req EXCEPT ![r].pc = "retire", ![r].token = linked[Owner(r)]]
    /\ UNCHANGED <<codes, gens, linked, devices, minted, from, handed, retired>>

RetireRow(r) ==
    /\ At(r, "retire")
    /\ devices' = {d \in devices : d.token # req[r].token}
    /\ Goto(r, "rotate")
    /\ UNCHANGED <<codes, gens, linked, minted, from, handed, retired>>

\* Mutants: a phone that pairs again keeps the token of the account; the token is
\* written only over the one that was read.
LinkedKept(r) ==
    IF linked[Owner(r)] = None THEN [linked EXCEPT ![Owner(r)] = minted + 1] ELSE linked
LinkedIfUnchanged(r) ==
    IF linked[Owner(r)] = req[r].token
    THEN [linked EXCEPT ![Owner(r)] = minted + 1] ELSE linked
NewLinked(r) == [linked EXCEPT ![Owner(r)] = minted + 1]

\* The fresh token becomes the linked token of the account, whichever one it has now.
RotateToken(r) ==
    /\ At(r, "rotate")
    /\ minted < MaxToken
    /\ minted' = minted + 1
    /\ from' = [from EXCEPT ![minted + 1] = req[r].row.gen]
    /\ linked' = NewLinked(r)
    /\ retired' = retired \cup ({linked[Owner(r)]} \ {None})
    /\ req' = [req EXCEPT ![r].pc = "register", ![r].token = minted + 1]
    /\ UNCHANGED <<codes, gens, devices, handed>>

\* touchDevice: one row per token, whose account stays; a failure is swallowed.
Upsert(t, a) ==
    \/ devices' = IF \E d \in devices : d.token = t
                  THEN devices
                  ELSE devices \cup {[token |-> t, owner |-> a]}
    \/ UNCHANGED devices

RegisterPhone(r) ==
    /\ At(r, "register")
    /\ Upsert(req[r].token, Owner(r))
    /\ Goto(r, "reply")
    /\ UNCHANGED <<codes, gens, linked, minted, from, handed, retired>>

\* The pairing is counted in daily_stats, and the plaintext token returned.
ReplyToken(r) ==
    /\ At(r, "reply")
    /\ handed' = handed \cup {req[r].token}
    /\ Finish(r)
    /\ UNCHANGED <<codes, gens, linked, devices, minted, from, retired>>

\* authUser() of a poll or ping: SELECT ... WHERE token = ? OR linked_token = ?.
Authenticate(r) ==
    /\ At(r, "idle")
    /\ \E a \in Account, t \in Account \cup handed :
          /\ t = a \/ linked[a] = t
          /\ req' = [req EXCEPT ![r] = [Idle EXCEPT !.pc = "touch", !.token = t,
                                                    !.row = [NoRow EXCEPT !.owner = a]]]
    /\ UNCHANGED <<codes, gens, linked, devices, minted, from, handed, retired>>

TouchDevice(r) ==
    /\ At(r, "touch")
    /\ Upsert(req[r].token, Owner(r))
    /\ Finish(r)
    /\ UNCHANGED <<codes, gens, linked, minted, from, handed, retired>>

\* A statement throws, or the isolate goes away: what was written stays.
Fail(r) ==
    /\ ~At(r, "idle")
    /\ Finish(r)
    /\ UNCHANGED <<codes, gens, linked, devices, minted, from, handed, retired>>

Next ==
    \/ \E a \in Account : PairGenerate(a)
    \/ \E c \in Code : CodeExpires(c)
    \/ \E r \in Request :
          \/ \E c \in Code : Lookup(r, c)
          \/ Burn(r) \/ ReadPrevious(r) \/ RetireRow(r) \/ RotateToken(r)
          \/ RegisterPhone(r) \/ ReplyToken(r) \/ Authenticate(r) \/ TouchDevice(r)
          \/ Fail(r)

Spec == Init /\ [][Next]_vars
-----------------------------------------------------------------------------
\* The types of the tables and of the requests.
TypeOK ==
    /\ codes \in [Code -> CodeRow]
    /\ gens \in Seq(Account) /\ Len(gens) <= MaxGen
    /\ linked \in [Account -> 1..MaxToken \cup {None}]
    /\ devices \subseteq [token : Token, owner : Account]
    /\ minted \in 0..MaxToken
    /\ from \in [1..MaxToken -> 0..MaxGen]
    /\ handed \subseteq 1..MaxToken
    /\ retired \subseteq 1..MaxToken
    /\ req \in [Request -> RequestState]

\* Once a token was minted for a code, no phone can look that code up any more, even
\* when the six digits were handed out again meanwhile (handlePairLink).
MintedCodeGone ==
    \A c \in Code, t \in 1..minted : codes[c].gen # from[t]

\* The token is that of the laptop, or was minted for a code that the account generated.
Granted(t, a) == t = a \/ (t \in 1..minted /\ gens[from[t]] = a)

\* The linked token of an account was minted for a code that this account generated,
\* and no device row names another account than that of its token.
GrantedByOwner ==
    /\ \A a \in Account : linked[a] # None => Granted(linked[a], a)
    /\ \A d \in devices : Granted(d.token, d.owner)

\* "Re-linking rotates the linked token, de-authorizing the previous phone": a token
\* that was replaced is never accepted again, also when links overlap.
RetiredStaysOut ==
    \A a \in Account : linked[a] \notin retired

\* A phone that got its token is locked out only by a later pairing of the account.
HandedWorks ==
    \A t \in handed : t \in retired \/ \E a \in Account : linked[a] = t

\* A code with a row was generated by its owner, and has a generation of its own.
CodesOwned ==
    \A c \in Code :
        /\ codes[c].live => codes[c].gen # 0
        /\ codes[c].gen # 0 => /\ codes[c].gen \in 1..Len(gens)
                               /\ gens[codes[c].gen] = codes[c].owner
                               /\ \A e \in Code : codes[e].gen = codes[c].gen => e = c

\* Tokens in use were minted, each for a code that was generated.
TokensMinted ==
    /\ \A t \in 1..minted : from[t] \in 1..Len(gens)
    /\ \A a \in Account : linked[a] # None => linked[a] \in 1..minted
    /\ handed \subseteq 1..minted
    /\ retired \subseteq 1..minted

Holding == {"burn", "previous", "retire", "rotate", "register", "reply"}
Burnt == Holding \ {"burn"}

\* What a request in flight holds: a link the owner and generation of its record, which
\* no other code has, and once it has minted its own token; a poll a token it may use.
RequestOK(r) ==
    /\ req[r].pc \in Holding
       => /\ req[r].code \in Code
          /\ req[r].row.gen \in 1..Len(gens)
          /\ gens[req[r].row.gen] = Owner(r)
          /\ \A c \in Code : codes[c].gen = req[r].row.gen => c = req[r].code
    /\ req[r].pc \in Burnt => \A c \in Code : codes[c].gen # req[r].row.gen
    /\ req[r].pc \in {"register", "reply"}
       => /\ req[r].token \in 1..minted
          /\ from[req[r].token] = req[r].row.gen
          /\ req[r].token \in retired \/ linked[Owner(r)] = req[r].token
    /\ req[r].pc = "touch" => Owner(r) \in Account /\ Granted(req[r].token, Owner(r))

PairingInv ==
    /\ TypeOK
    /\ CodesOwned
    /\ TokensMinted
    /\ \A r \in Request : RequestOK(r)
    /\ MintedCodeGone
    /\ GrantedByOwner
    /\ RetiredStaysOut
    /\ HandedWorks
=============================================================================
