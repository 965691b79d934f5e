\* Three requests work on one comment; an agent with a channel of two.
SPECIFICATION Spec
CONSTANTS
    Requests = {r1, r2, r3}
    Watcher = w
    Comments = {c1}
    Subs = {}
    Agents = {a1}
    SubCap = 1
    AgentCap = 2
    NoComment = NoComment
    MaxVersion = 1
SYMMETRY Symmetry
INVARIANTS
    
    AgentInTheLoop
CHECK_DEADLOCK FALSE
