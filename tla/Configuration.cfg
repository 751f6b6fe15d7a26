SPECIFICATION Spec
CONSTANTS
    a = a
    b = b
    p1 = p1
    p2 = p2
    g1 = g1
    Paths = {p1, p2}
    Names = {a, b}
    Settings = {g1}
    Intervals <- MCIntervals
    Documents <- MCDocuments
    Added <- MCAdded
    Clients = {c1}
    loader = main
    Modulus = 16
    NoName = NoName
    NoEntity = NoEntity
    NoPath = NoPath
    Defaults = Defaults
SYMMETRY Symmetries
INVARIANTS SettingsBelongTogether LoadOnlyAdds VerdictIsSound
