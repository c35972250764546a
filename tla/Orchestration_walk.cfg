\* Every small catalog, every seed list, lookups failing anywhere.
SPECIFICATION FairSpec
CONSTANTS
    pa = pa  pb = pb  pc1 = pc1
    NoFile = NoFile
    NoId = NoId
    Projects <- MCProjects
    Catalogs <- MCCatalogs
    SeedLists <- MCSeedLists
INVARIANT TypeOK
INVARIANT CleanSetComplete
INVARIANT GapsReported
INVARIANT OriginsRight
PROPERTY ResolutionEnds
PROPERTY ResolutionShrinks
