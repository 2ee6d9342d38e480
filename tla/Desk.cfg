SPECIFICATION Spec
CONSTANTS
    Worker = {w1, w2}
    Ticket = {t1}
    NoTicket = NoTicket
    Comic = {c1}
    Genre = {g1, g2}
    Title = {ta, tb}
    Name = {"x"}
    MaxTries = 2
    MaxFollows = 1
    NoBase = NoBase
    NoItem = NoItem
    Mixed = Mixed
SYMMETRY Symmetry
INVARIANTS TypeOK FewLateReplies StatusTellsWhoseTurn SlugFromTitle GenresAreAsked
