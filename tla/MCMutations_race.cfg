\* Two clients and an editor race on one file; every request is answered.
SPECIFICATION FairSpec
CONSTANTS
    Clients = {c1, c2}
    Paths = {p}
    Hunks = {h1}
    WholeFile = WholeFile
    Absent = Absent
    Unmerged = Unmerged
    NoPath = NoPath
    Nobody = Nobody
    NoView = NoView
    MaxEdits = 1
    MaxCommits = 1
    ListsTear = FALSE
INVARIANTS
    TypeOK
    GuardedFresh
    GuardedIndexFresh
    DecisionsHold
PROPERTIES
    EveryRequestAnswered
    ImplementsReviewedRepository
