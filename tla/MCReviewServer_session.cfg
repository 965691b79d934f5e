\* A request, the watcher, one comment and one browser with a channel of one.
SPECIFICATION FairSpec
CONSTANTS
    Requests = {r1}
    Watcher = w
    Comments = {c1}
    Subs = {b1}
    Agents = {}
    SubCap = 1
    AgentCap = 1
    NoComment = NoComment
    MaxVersion = 3
INVARIANTS
    TypeOK
    ReviewersDecide
    NothingMissed
PROPERTY SessionProgresses
CHECK_DEADLOCK FALSE
