\* Every small catalog, every lookup failing or late.
CONSTANTS
    pa = pa
    pb = pb
    lib = lib
    here = here
    there = there
    nowhere = nowhere
    shared = shared
    NoModId = NoModId
    NoRange = NoRange
    NoBound = NoBound
    NoNumber = NoNumber
    NoProject = NoProject
    NoReport = NoReport
    NoPlan = NoPlan
    NoPin = NoPin
    Projects <- MCProjects
    ModId <- MCModId
    KnownBad <- MCKnownBad
    Targets <- MCTargets
    Home = here
    Supported = {here, there}
    Minecraft <- MCMinecraft
    SideOf <- MCSideOf
    Commands <- MCCommands
    Catalogs <- MCCatalogs
SPECIFICATION Spec
INVARIANTS
    NothingDropped
CHECK_DEADLOCK FALSE
