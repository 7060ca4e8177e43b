SPECIFICATION Spec
CONSTANTS
    c1 = c1  c2 = c2  n1 = n1  n2 = n2  p1 = p1  p2 = p2  s1 = s1  s2 = s2
    Conns = {c1, c2}
    Names = {n1, n2}
    Passwords = {p1, p2}
    Salts = {s1, s2}
    NoOne = NoOne
SYMMETRY Symmetry
INVARIANTS
    TypeOK
    InByPassword
PROPERTIES
    AccountStays
    OnlyWrongRefused
