SPECIFICATION Spec
CONSTANTS
    Abs <- AbsIn
    Procs <- Shells
    Script <- Scripts
    Env <- Envs
    Zone <- Zones
    Database = "/work/.pave/state.db"
    Chunks <- SmallSchema
    Features <- OneFeature
    Written <- Contents
    Fractions <- Tenths
    MaxTime = 2
    MaxEdits = 1
CHECK_DEADLOCK FALSE
INVARIANTS
    LoadedAsDocumented
    OpenStoreIsWhole
    TableIsMemory
PROPERTIES
    InitKeepsFiles
    NewestIsRead
