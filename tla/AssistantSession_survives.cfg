\* A pack with a mod of unknown side.
SPECIFICATION Spec
CONSTANTS
    bf1 = bf1  bf2 = bf2
    pk1 = pk1  pk2 = pk2  bad = bad  odd = odd
    dA = dA  dB = dB
    Briefs = {bf1}
    Packs = {pk1, bad, odd}
    BlockedPacks = {bad}
    Unwritable = {odd}
    Sides = {"client", "server"}
    Dirs = {dA, dB}
    Configured = dA
    None = None
    MaxToolCalls = 2
    MaxBatch = 2
PROPERTY FallbackSurvives
