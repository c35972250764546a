\* One call at a time, nothing else writing meanwhile.
SPECIFICATION Spec
CONSTANTS
    p1 = p1  p2 = p2  out = out
    a = a  b = b
    m1 = m1  m2 = m2
    c1 = c1  c2 = c2  d1 = d1  d2 = d2
    NoFile = NoFile  Torn = Torn  NoArchive = NoArchive
    Calls = {c1, c2}
    Paths = {p1, p2, out}
    Data = {a, b}
    PlayerData = {m1, m2}
    Escaping = {out}
    Plans <- MCPlans
    Dirs = {d1, d2}
    DirsOf <- MCOwnDirs
    Overlap = FALSE
    Own = {p1, p2}
    Hasty = {}
PROPERTY ImplementsSnapshotApply
