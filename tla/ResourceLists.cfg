SPECIFICATION ListsSpec
CONSTANTS
    on = on
    bad = bad
    off = off
    only = only
    one = one
    two = two
    Res = {r1, r2, r3}
    Prop = {"name", "other"}
    Value = {on, only, bad, one, two}
    Numeric <- MCNumeric
    Begins <- MCBegins
    MatchValue <- MCMatchValue
    NoValue = NoValue
    Absent = Absent
    BulkLimit = 2
    MaxChanges = 2
SYMMETRY MCSymmetry
INVARIANTS
    ListsTypeOK
    ListComplete
    OutcomeExplained
    FullAndFresh
CHECK_DEADLOCK FALSE
