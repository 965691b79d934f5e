\* Every diff of at most five lines in at most two hunks.  A diff at its bounds ends.
SPECIFICATION Spec
CONSTANTS
    Texts = {"x", "--", "++"}
    Dashed = {"--"}
    Plussed = {"++"}
    MaxLines = 5
    MaxHunks = 2
CHECK_DEADLOCK FALSE
INVARIANTS
    ActionsExact
    OrdinalsAgree
    CommentsLocated
