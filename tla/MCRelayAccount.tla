--------------------------- MODULE MCRelayAccount ---------------------------
(***************************************************************************)
(* Small instances of RelayAccount.  What the clients of a behaviour do is *)
(* of one kind: alerts, PIN changes and disarms, with the administrator;   *)
(* or the pass, the key, and the disarms that these prove.                 *)
(***************************************************************************)
EXTENDS RelayAccount, TLC

CONSTANTS Phone, Pin    \* the device of the second kind, the one secret of the first

AlarmOps == {"alert", "clear", "arm", "disarm", "pin"}
FactorOps == {"arm", "disarm", "pass", "key", "challenge"}
AdminOthers == {"broadcast", "clear-all", "fail"}
BanOthers == {"ban", "fail"}

Alarm == INSTANCE RelayAccount WITH
    Ops <- AlarmOps, Others <- AdminOthers, Secret <- {Pin}, Key <- {}, MaxChallenge <- 0

Factors == INSTANCE RelayAccount WITH
    Ops <- FactorOps, Others <- BanOthers, Device <- {Phone}, MaxEpisode <- 0

VARIABLE kind

AlarmNext == kind = "alarm" /\ Alarm!Next /\ UNCHANGED kind
FactorsNext == kind = "factors" /\ Factors!Next /\ UNCHANGED kind

EitherInit == Init /\ kind \in {"alarm", "factors"}
EitherSpec == EitherInit /\ [][AlarmNext \/ FactorsNext]_<<vars, kind>>

\* No property or action tells two slots or two keys apart.
SlotsAndKeys == Permutations(Request) \cup Permutations(Key)
=============================================================================
