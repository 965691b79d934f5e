\* A comment added while the session stops.
SPECIFICATION Spec
CONSTANTS
    Requests = {r1}
    Watcher = w
    Comments = {c1}
    Subs = {}
    Agents = {}
    SubCap = 2
    AgentCap = 2
    NoComment = NoComment
    MaxVersion = 2
INVARIANT SummaryComplete
CHECK_DEADLOCK FALSE
