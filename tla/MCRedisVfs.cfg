\* Two clients, any command, a name that is a directory or a file, and another
\* one or .placeholder below it; the server's threads are scheduled fairly.
SPECIFICATION FairSpec
CONSTANTS
    D = D
    F = F
    P = placeholder
    Clients = {c1, c2}
    Names = {D, placeholder}
    Placeholder = placeholder
    Seed = foo
    NoName = empty
    DirPaths <- DeepDirPaths
    FilePaths <- DeepFilePaths
    MaxFid = 2
CONSTRAINT PlaceholderNamed
INVARIANTS
    TypeOK
    NewFidUnseen
    NeverSpinsInDirectory
PROPERTIES
    StatNeverRetyped
    CommandsEnd
