\* Two clients, two transfer threads, orderly peers that may ABOR or leave
\* at any moment.
SPECIFICATION Spec
CONSTANTS
    Clients = {c1, c2}
    Threads = {t1, t2}
    NoThread = NoThread
    Peer = "orderly"
SYMMETRY ClientSymmetry
VIEW LiveState
INVARIANTS
    TypeOK
    NoUseAfterFree
    OneTransfer
    SelfReset
    NoLockLost
    AborStopsTransfer
    PortNeverCancels
PROPERTY RefinesLifetime
