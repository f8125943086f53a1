SPECIFICATION Spec
CONSTANTS
    p1 = p1
    p2 = p2
    Procs = {p1, p2}
    v1 = v1
    v2 = v2
    Values = {v1, v2}
    i1 = i1
    i2 = i2
    i3 = i3
    i4 = i4
    Inodes = {i1, i2, i3, i4}
    None = None
    Torn = Torn
    Lost = Lost
SYMMETRY Symmetry
INVARIANTS
    NeverTorn
    PublishesOwnValue
PROPERTY
    RefinesRegister
