\* One client: the comment on the new entry of rename.
SPECIFICATION Spec
CONSTANTS
    D = D
    F = F
    P = placeholder
    Clients = {c1}
    Names = {D, F}
    Placeholder = placeholder
    Seed = foo
    NoName = empty
    DirPaths <- NestedPaths
    FilePaths <- NestedPaths
    MaxFid = 2
INVARIANT RenamesIntoNewParent
