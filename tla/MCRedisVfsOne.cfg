\* One client, which names .placeholder too: its commands are atomic.
SPECIFICATION Spec
CONSTANTS
    D = D
    F = F
    P = placeholder
    Clients = {c1}
    Names = {D, F, placeholder}
    Placeholder = placeholder
    Seed = foo
    NoName = empty
    DirPaths <- NamedPaths
    FilePaths <- NamedPaths
    MaxFid = 3
INVARIANTS
    NoDanglingEntry
    SingleLink
    SlaveOfSameFile
PROPERTY RefinesAtomicVfs
