SPECIFICATION Spec
CONSTANTS
    User = {u1}
    Chapter = {c1, c2}
    Worker = {w1, w2}
    Setting = {1, 2}
    Limit = 1
    Bonus = 1
    Amount <- Amounts
    MaxDay = 1
    MaxPoints = 1
    NoUser = NoUser
    NoChapter = NoChapter
    NoSetting = NoSetting
SYMMETRY Symmetry
PROPERTIES DistributePaysReaders
