SPECIFICATION Spec
CONSTANTS
    Number = {1}
    Row = {r1, r2}
    Job = {j1}
    Worker = {w1, w2}
    MaxPages = 2
    Target = {0}
    Editing = TRUE
    NoRow = NoRow
SYMMETRY Symmetry
INVARIANTS TypeOK ImagesAreThere
