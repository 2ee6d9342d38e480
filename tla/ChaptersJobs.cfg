SPECIFICATION Spec
CONSTANTS
    Number = {2, 3}
    Row = {r1, r2, r3}
    Job = {j1, j2}
    Worker = {}
    MaxPages = 1
    Target = {0, 1}
    Editing = FALSE
    NoRow = NoRow
SYMMETRY Symmetry
INVARIANTS DuplicatesOnlyByOverlap GapsAreExplained
