\* Two clicks and the event stream at once, two files with two texts.
SPECIFICATION Spec
CONSTANTS
    Paths = {p, q}
    Texts = {x, y}
    Clicks = {c1, c2}
    Stream = s
    NoPath = NoPath
    NoText = NoText
    NoView = NoView
    NoTask = NoTask
    NoSelection = NoSelection
SYMMETRY Symmetry
INVARIANTS
    TypeOK
    HighlightsMatch
PROPERTIES
    SavesLoseNothing
