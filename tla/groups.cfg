SPECIFICATION Spec
CONSTANTS
    Groups = {g1, g2}
    SoulFiles = {Soul, Bootstrap}
    Bootstrap = Bootstrap
    PlainFiles = {Agents}
    Creates = {x1, x2}
    Deletes = {d1}
    Writes = {w1}
    Nothing = Nothing
    MaxCrashes = 2
    IoMayFail = TRUE
INVARIANTS
    TypeOK
    EditsAreKept
    MainIsComplete
SYMMETRY Symmetry
CHECK_DEADLOCK FALSE
