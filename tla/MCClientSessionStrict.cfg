\* Strict peers: the acknowledged data connection, and what must happen in the
\* end; the server threads are scheduled fairly.
SPECIFICATION FairSpec
CONSTANTS
    Clients = {c1, c2}
    Threads = {t1, t2}
    NoThread = NoThread
    Peer = "strict"
CONSTRAINT FewCommands
INVARIANT AcknowledgedConnectionHolds
PROPERTIES
    EndedSessionFreed
    AborReturns
