SPECIFICATION EitherSpec
CONSTANTS
    Request = {r1, r2}
    Device = {laptop, phone}
    Secret = {s1, s2}
    Key = {k1, k2}
    None = None
    Phone = phone
    Pin = s1
    Ops <- AlarmOps
    Others <- AdminOthers
    MaxEpisode = 2
    MaxChallenge = 1
PROPERTY SignatureSuffices
SYMMETRY SlotsAndKeys
