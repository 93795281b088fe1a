---------------------------- MODULE MCRelayGates ----------------------------
(***************************************************************************)
(* Pairing, and the shield in front of it and of the disarm.  Neither      *)
(* reads what the other writes: to pairing, an attempt is one more request *)
(* that goes no further.  So a behaviour is one of the two.                *)
(***************************************************************************)
EXTENDS RelayPairing, RelayShield, TLC

VARIABLE gate

gateVars == <<vars, shieldVars, gate>>

PairingNext == gate = "pairing" /\ Next /\ UNCHANGED <<shieldVars, gate>>
AttemptsNext == gate = "shield" /\ ShieldNext /\ UNCHANGED <<vars, gate>>

GatesInit ==
    /\ Init
    /\ ShieldInit
    /\ gate \in {"pairing", "shield"}

GatesSpec == GatesInit /\ [][PairingNext \/ AttemptsNext]_gateVars

Symmetric == Permutations(Request) \cup Permutations(Account) \cup Permutations(Slot)
=============================================================================
