\* One daemon, two connections, two losses; handlers serve their ticker in time.
SPECIFICATION FairAgentSpec
CONSTANTS
    Hosts = {h1}
    Ids = {i1}
    Conns = {k1, k2}
    Subs = {}
    NoConn = NoConn
    TTL = 2
    Period = 1
    Late = 1
    QueueCap = 1
    MaxFaults = 2
\* The system stops when every daemon has stopped.
CHECK_DEADLOCK FALSE
INVARIANTS
    AgentTypeOK
    TunnelsAgree
    LiveTunnelsListed
PROPERTIES
    AgentsComeBack
    RevokedHostsLeave
