CONSTANTS
    t1 = t1
    t2 = t2
    Threads <- MCThreads
    Configs <- MCConfigs
    UpYunBuilt = TRUE
    Names <- MCNames
    Dirs <- MCDirs
    Generated <- MCGenerated
    Sizes <- MCSizes
    MaxUploadSize = 1
    Limits <- MCLimits
    MaxSaves = 2
    MaxSegments = 4
SPECIFICATION Spec
SYMMETRY Symmetry
INVARIANTS TypeOK SavedReadsBack GoneStaysGone PublicPathOpens NamesStayInside
