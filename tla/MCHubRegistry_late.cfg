\* Two hosts, one ID, two tunnels, two browsers; a handler may be so late that
\* its registration expires.
SPECIFICATION Spec
CONSTANTS
    Hosts = {h1, h2}
    Ids = {i1}
    Conns = {k1, k2}
    Subs = {b1, b2}
    NoConn = NoConn
    TTL = 2
    Period = 1
    Late = 3
    QueueCap = 2
SYMMETRY Symmetry
INVARIANTS
    TypeOK
    ListMatchesSessions
    NoMissedChange
PROPERTY HostKeepsRepository
