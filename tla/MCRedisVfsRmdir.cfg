\* One client: the comment on the emptiness test of rmdir.
SPECIFICATION Spec
CONSTANTS
    D = D
    F = F
    P = placeholder
    Clients = {c1}
    Names = {D, F}
    Placeholder = placeholder
    Seed = foo
    NoName = empty
    DirPaths <- NestedPaths
    FilePaths <- NestedPaths
    MaxFid = 2
PROPERTY EmptyDirectoryRemoved
