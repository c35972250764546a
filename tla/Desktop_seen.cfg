\* Two calls on any screens.
SPECIFICATION Spec
CONSTANTS
    f1 = f1  good = good  bad = bad  blank = blank  none = none
    Folders <- MCFolders
    Packs <- MCPacks
    BadPacks <- MCBadPacks
    Blank = blank
    Nothing = none
    MaxCalls = 2
CHECK_DEADLOCK FALSE
INVARIANT WritesWhatWasSeen
