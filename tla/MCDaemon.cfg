\* Two commands at a time, two daemons one after the other.
SPECIFICATION FairSpec
CONSTANTS
    Clis = {g1, g2}
    Daemons = {d1, d2}
    None = None
    NoFile = NoFile
    Garbage = Garbage
INVARIANTS
    TypeOK
    RunningDaemonIsFound
PROPERTY EveryCommandEnds
