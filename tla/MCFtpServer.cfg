\* Two callers, two accepting threads and three clients, or two that
\* send PASV.
SPECIFICATION Spec
CONSTANTS
    Callers = {c1, c2}
    Acceptors = {t1, t2}
    Entries = {e1, e2, e3, e4, e5}
    Passive = {e1, e2}
    Ports = {p1, p2}
    Ranges <- TwoRanges
    Busy = {1, 6}
    Null = Null
SYMMETRY AllSymmetry
CONSTRAINTS
    PortsApart
    Promised
INVARIANTS
    TypeOK
    ClientListConsistent
    NoStrayAcceptor
    DataPortPromised
