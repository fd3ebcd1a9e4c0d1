\* Lists are turned over while assessments come and go.
CONSTANTS
    f1 = f1
    f2 = f2
    f3 = f3
    x1 = x1
    e1 = e1
    e2 = e2
    Assessments = {a1, a2, a3, a4, a5}
    Children = {f1, f2, f3, x1, e1, e2}
    KindOf <- MCKindOf
    LabelOf <- MCLabelOf
    Collected <- MCCollected
    Limit = 2
    MaxChanges = 2
SPECIFICATION Spec
SYMMETRY Symmetry
INVARIANTS MissedNeedDeletes RepeatsNeedImports RepeatsHideRows DetailAgrees
