\* Blocks discarded from the hunks of a diff.
SPECIFICATION Spec
CONSTANTS
    Texts = {"x", "--", "++"}
    Dashed = {"--"}
    Plussed = {"++"}
    MaxLines = 5
    MaxHunks = 2
CHECK_DEADLOCK FALSE
INVARIANT BlocksDiscarded
