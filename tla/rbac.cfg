SPECIFICATION Spec
CONSTANTS
    Keys = {k1}
    Procs = {p1, p2}
    Roles = {r1, r2}
    rowTool = rowTool
    rowOther = rowOther
    t1 = t1
    Rows <- MCRows
    Tools = {t1}
    Matches <- MCMatches
    Nil = Nil
    NoTool = NoTool
SYMMETRY MCSymmetry
INVARIANTS
    TypeOK
    Agreement
    RecentUnlessRaced
