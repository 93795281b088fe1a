SPECIFICATION Spec
CONSTANTS
    Request = {r1, r2}
    Poller = {p1}
    MaxSnapshots = 1
    MaxPuts = 3
    MaxFaults = 0
PROPERTY StoredIsReported
