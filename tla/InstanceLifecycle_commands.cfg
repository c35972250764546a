\* Commands may die while they write.
SPECIFICATION Spec
CONSTANTS
    s1 = s1  s2 = s2
    q1 = q1  q2 = q2  q3 = q3
    j1 = j1  j2 = j2
    b1 = b1  b2 = b2
    Slugs = {s1, s2}
    Pins = {q1, q2, q3}
    JarOf <- MCJarOf
    Builds = {b1, b2}
    ModsOf <- MCModsOf
    BlockedBuilds = {b2}
    Targets = {"prism"}
    NoBuild = NoBuild  Absent = Absent  Torn = Torn  Foreign = Foreign
    PlayerFiles <- MCPlayerFiles
    Trees = {b1}
    MayFail = TRUE
INVARIANT TypeOK
INVARIANT BuildRoundTrip
INVARIANT InstallMakesRunnable
INVARIANT HandedOverSupported
PROPERTY NoOverwriteWithoutForce
