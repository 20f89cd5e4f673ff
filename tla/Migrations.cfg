SPECIFICATION MigrateSpec
CONSTANTS
    Process = {server, scan1, scan2}
    None = none
    Repos = 2
    MaxVersion = 3
    Stmts = 2
    MaxStarts = 1
CHECK_DEADLOCK FALSE
INVARIANT SchemaSound
PROPERTY StartupEnds
