\* Three tool calls per line, more if one completion makes several, any number of lines.
SPECIFICATION FairSpec
CONSTANTS
    bf1 = bf1  bf2 = bf2
    pk1 = pk1  pk2 = pk2  bad = bad  odd = odd
    dA = dA  dB = dB
    Briefs = {bf1, bf2}
    Packs = {pk1, pk2, bad, odd}
    BlockedPacks = {bad}
    Unwritable = {odd}
    Sides = {"client", "server"}
    Dirs = {dA, dB}
    Configured = dA
    None = None
    MaxToolCalls = 3
    MaxBatch = 3
INVARIANT TypeOK
INVARIANT PlanCurrent
PROPERTY AppliesConfirmedPack
PROPERTY LineAnswered
