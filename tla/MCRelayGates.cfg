SPECIFICATION GatesSpec
CONSTANTS
    Request = {r1, r2}
    Account = {a1, a2}
    Code = {c1}
    None = None
    MaxGen = 3
    MaxToken = 3
    Slot = {x1, x2, x3}
    Limit = 1
    Resets = TRUE
    MaxMinute = 1
    MaxAttempts = 3
INVARIANT PairingInv
INVARIANT MintedCodeGone
INVARIANT GrantedByOwner
INVARIANT RetiredStaysOut
INVARIANT HandedWorks
INVARIANT ShieldInv
INVARIANT GuessesBounded
SYMMETRY Symmetric
