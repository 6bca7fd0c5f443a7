\* One caller and one client that sends PASV: the range <<1, 1>> is port 1
\* alone, which another program has.
SPECIFICATION Spec
CONSTANTS
    Callers = {c1}
    Acceptors = {t1}
    Entries = {e1}
    Passive = {e1}
    Ports = {p1}
    Ranges <- TwoRanges
    Busy = {1}
    Null = Null
INVARIANT DataPortInRange
