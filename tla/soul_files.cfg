SPECIFICATION SoulSpec
CONSTANTS
    Ops = {o1, o2, o3}
    Headings = {Facts, facts, FactsLearned}
    Alike = {Facts, facts}
    Short = Facts
    Longer = {FactsLearned}
    Blank = Blank
    Template <- MCTemplate
    MaxCrashes = 1
    IoMayFail = TRUE
SYMMETRY Symmetry
INVARIANTS
    SoulTypeOK
    EntriesStay
    ForgottenIsGone
CHECK_DEADLOCK FALSE
