\* Two clients race on one file while only browsers change it.
SPECIFICATION Spec
CONSTANTS
    Clients = {c1, c2}
    Paths = {p}
    Hunks = {h1}
    WholeFile = WholeFile
    Absent = Absent
    Unmerged = Unmerged
    NoPath = NoPath
    Nobody = Nobody
    NoView = NoView
    MaxEdits = 0
    MaxCommits = 2
    ListsTear = TRUE
SYMMETRY Symmetry
PROPERTIES
    MutatesWhatWasReviewed
