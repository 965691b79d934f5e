\* Two enroll commands, two commands on the hub, two codes, two hosts, two hubs.
SPECIFICATION Spec
CONSTANTS
    Clients = {q1, q2}
    Admins = {a1, a2}
    Codes = {c1, c2}
    Hosts = {n1, n2}
    Hubs = {u1, u2}
    Here = u1
    NoOne = NoOne
    NoCode = NoCode
    NoHost = NoHost
    Life = 0
    MaxTime = 1
SYMMETRY Symmetry
INVARIANTS
    TypeOK
    OneHostPerCode
    ReportsHold
PROPERTY ImplementsStore
