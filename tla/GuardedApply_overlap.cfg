\* Two overlapping calls; the player saves p1 at any time, p2 between calls.
SPECIFICATION FairSpec
CONSTANTS
    p1 = p1  p2 = p2  out = out
    a = a  b = b
    m1 = m1  m2 = m2
    c1 = c1  c2 = c2  d1 = d1  d2 = d2
    NoFile = NoFile  Torn = Torn  NoArchive = NoArchive
    Calls = {c1, c2}
    Paths = {p1, p2, out}
    Data = {a, b}
    PlayerData = {m1, m2}
    Escaping = {out}
    Plans <- MCPlans
    Dirs = {d1, d2}
    DirsOf <- MCDirsOf
    Overlap = TRUE
    Own = {p1, p2}
    Hasty = {p1}
INVARIANT TypeOK
INVARIANT NothingLost
PROPERTY OnlyLicensedChanges
PROPERTY CallsSettle
