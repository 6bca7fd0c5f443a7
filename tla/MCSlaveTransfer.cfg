\* Two sessions with orderly peers, or one with any peer; two slaves and two
\* calls at a time.
SPECIFICATION Spec
CONSTANTS
    Sessions = {s1, s2}
    Populations <- PopulationsValue
    Commands = {"RETR", "STOR", "APPE"}
    Names = {n}
    Stored = {n}
    Slaves = {v1, v2}
    NoSlave = noslave
    Threads = {w1, w2}
    Idle = idle
    MaxFid = 2
    MaxTrans = 2
SYMMETRY AllSymmetry
VIEW LiveState
CONSTRAINT CommandsApart
INVARIANTS
    TransactionsNotShared
    LinkedFilesStored
    LinkedFilesNotWritten
    PassiveRetrieveRouted
