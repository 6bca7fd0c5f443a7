\* A peer that overlaps its commands: the comment on the self-reset.
SPECIFICATION Spec
CONSTANTS
    Clients = {c1}
    Threads = {t1, t2}
    NoThread = NoThread
    Peer = "overlapping"
INVARIANT SelfReset
CHECK_DEADLOCK FALSE
