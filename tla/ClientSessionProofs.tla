------------------------ MODULE ClientSessionProofs ------------------------
(***************************************************************************)
(* Proofs about ClientSession, for any sets of clients and threads.  They  *)
(* hold for the peers that do not overlap their transfers, and             *)
(* AcknowledgedHolds for a strict one.                                     *)
(***************************************************************************)
EXTENDS ClientSession, TLAPS

----------------------------------------------------------------------------
(* The inductive invariant, by parts.                                      *)

\* No thread of the session is in its transfer.
Quiet(c) == \A t \in Threads : owner[t] = c => ~InTransfer(t)

\* Locks are held exactly in the sections of the code that they guard.
LockInv ==
    /\ \A t \in Threads :
        /\ ClientListLock = t <=> thread[t] \in {"lock", "clear", "check", "unlock"}
        /\ \A c \in Clients : ClientLock[c] = t <=> owner[t] = c /\ thread[t] = "clear"
    /\ \A c \in Clients :
        ClientListLock = c <=> shell[c] \in {"exitCtrl", "exitCheck", "exitUnlock"}

\* Threads that have not been created, and those that have.
ThreadInv ==
    \A t \in Threads :
        /\ thread[t] = "idle" => owner[t] = NoThread /\ ~cancelled[t] /\ ~detached[t]
        /\ thread[t] # "idle" => owner[t] \in Clients
        /\ UsesEntry(t) => entry[owner[t]] = "live"

\* A thread in its transfer is the one that CurrentTransfer names, and the
\* session says so.
TransferInv ==
    \A t \in Threads : InTransfer(t) =>
        /\ TransferThreadID[owner[t]] = t
        /\ eStatus[owner[t]] # "WAITING"
        /\ ~detached[t]
        /\ cancelled[t] => shell[owner[t]] = "join"

\* The pthread_t values in the entry and in Shell's hands.
HandleInv ==
    \A c \in Clients :
        /\ eStatus[c] = "WAITING" => TransferThreadID[c] = NoThread
        /\ TransferThreadID[c] # NoThread => owner[TransferThreadID[c]] = c
        /\ target[c] # NoThread => owner[target[c]] = c
        /\ shell[c] \in {"cancel", "join"} =>
             \A t \in Threads : owner[t] = c /\ InTransfer(t) => target[c] = t

\* What holds at the points of Shell.
ShellInv ==
    \A c \in Clients :
        /\ entry[c] = "none" <=> shell[c] = "none"
        /\ ShellUsesEntry(c) => entry[c] = "live" /\ bIsCtrlCanalOpen[c]
        /\ armed[c] => Quiet(c)
        /\ shell[c] \in {"port", "pasv", "initpasv", "open", "openpasv", "spawnList",
                         "spawnTransfer", "relock"} => Quiet(c)
        /\ shell[c] \in {"open", "openpasv", "spawnList", "spawnTransfer"} => ~armed[c]
        /\ shell[c] = "reset" /\ cont[c] # "cmd" => eStatus[c] = "WAITING"
        /\ shell[c] \in {"read", "cancel", "join", "relock"} => cont[c] = "cmd" /\ ~DataSock[c]

\* Once Shell has left, the thread that ends the transfer is the only one.
TailInv ==
    \A t \in Threads :
        thread[t] \in {"clear", "check"} /\ ~ShellUsesEntry(owner[t]) =>
            eStatus[owner[t]] = "WAITING"

IInv == TypeOK /\ LockInv /\ ThreadInv /\ TransferInv /\ HandleInv /\ ShellInv /\ TailInv

----------------------------------------------------------------------------
(* Type correctness.                                                       *)

Orderly == Peer # "overlapping"

USE DEF vars, shellVars, connVars, threadVars, lockVars, Goto, Walk

\* Every step keeps every variable within its type.
LEMMA TypesStep == Types /\ [Next]_vars => Types'
<1> SUFFICES ASSUME Types, [Next]_vars PROVE Types'
  OBVIOUS
<1> USE ThreadsAssumption, NoThreadAssumption
<1> USE DEF Types, ShellPoints, ThreadPoints, Statuses, Connections, Continuations
<1>1. ASSUME NEW c \in Clients, Accept(c) PROVE Types'
  BY <1>1 DEF Accept
<1>2. ASSUME NEW c \in Clients, NEW cmd \in {"port", "pasv"}, CmdPortOrPasv(c, cmd) PROVE Types'
  BY <1>2 DEF CmdPortOrPasv
<1>3. ASSUME NEW c \in Clients, CmdPasvSlave(c) PROVE Types'
  BY <1>3 DEF CmdPasvSlave
<1>4. ASSUME NEW c \in Clients, CmdList(c) PROVE Types'
  <2>1. TransferThreadID' \in [Clients -> Threads \cup {NoThread}]
    BY <1>4 DEF CmdList
  <2>2. \E s \in {"cmd", "spawnList", "open"} : shell' = [shell EXCEPT ![c] = s]
    BY <1>4 DEF CmdList
  <2>3. shell' \in [Clients -> ShellPoints]
    BY <2>2
  <2>4. UNCHANGED armed \/ armed' = [armed EXCEPT ![c] = FALSE]
    BY <1>4 DEF CmdList
  <2>5. armed' \in [Clients -> BOOLEAN]
    BY <2>4
  <2>6. QED
    BY <1>4, <2>1, <2>3, <2>5 DEF CmdList
<1>5. ASSUME NEW c \in Clients, CmdTransfer(c) PROVE Types'
  <2>1. armed' = [armed EXCEPT ![c] = FALSE]
    BY <1>5 DEF CmdTransfer
  <2>2. armed' \in [Clients -> BOOLEAN]
    BY <2>1
  <2>3. \/ shell' = [shell EXCEPT ![c] = "openpasv"]
        \/ shell' = [shell EXCEPT ![c] = "spawnTransfer"]
    BY <1>5 DEF CmdTransfer
  <2>4. shell' \in [Clients -> ShellPoints]
    BY <2>3
  <2>5. QED
    BY <1>5, <2>2, <2>4 DEF CmdTransfer
<1>6. ASSUME NEW c \in Clients, CmdAbor(c) PROVE Types'
  BY <1>6 DEF CmdAbor
<1>7. ASSUME NEW c \in Clients, CmdQuit(c) PROVE Types'
  BY <1>7 DEF CmdQuit
<1>8. ASSUME NEW c \in Clients, Port(c) PROVE Types'
  BY <1>8 DEF Port
<1>9. ASSUME NEW c \in Clients, Pasv(c) PROVE Types'
  BY <1>9 DEF Pasv
<1>10. ASSUME NEW c \in Clients, OpenDataConnection(c) PROVE Types'
  BY <1>10 DEF OpenDataConnection
<1>11. ASSUME NEW c \in Clients, NEW t \in Threads, Spawn(c, t) PROVE Types'
  BY <1>11 DEF Spawn
<1>12. ASSUME NEW c \in Clients, SpawnFails(c) PROVE Types'
  BY <1>12 DEF SpawnFails
<1>13. ASSUME NEW c \in Clients, ResetEnter(c) PROVE Types'
  <2>1. DataSock' \in [Clients -> BOOLEAN]
    BY <1>13 DEF ResetEnter
  <2>2. cont[c] \in ShellPoints
    OBVIOUS
  <2>3. \E s \in ShellPoints : shell' = [shell EXCEPT ![c] = s]
    BY <1>13, <2>2 DEF ResetEnter
  <2>4. shell' \in [Clients -> ShellPoints]
    BY <2>3
  <2>5. UNCHANGED armed \/ armed' = [armed EXCEPT ![c] = FALSE]
    BY <1>13 DEF ResetEnter
  <2>6. armed' \in [Clients -> BOOLEAN]
    BY <2>5
  <2>7. Clear(c) \/ UNCHANGED <<TransferThreadID, eStatus, eDataConnection>>
    BY <1>13 DEF ResetEnter
  <2>8. /\ TransferThreadID' \in [Clients -> Threads \cup {NoThread}]
        /\ eStatus' \in [Clients -> Statuses] /\ eDataConnection' \in [Clients -> Connections]
    BY <2>7 DEF Clear
  <2>9. QED
    BY <1>13, <2>1, <2>4, <2>6, <2>8 DEF ResetEnter
<1>14. ASSUME NEW c \in Clients, ReadTransferThreadID(c) PROVE Types'
  BY <1>14 DEF ReadTransferThreadID
<1>15. ASSUME NEW c \in Clients, CancelTransfer(c) PROVE Types'
  <2>1. CASE ValidHandle(target[c])
    <3>1. target[c] \in Threads
      BY <2>1 DEF ValidHandle
    <3>2. cancelled' = [cancelled EXCEPT ![target[c]] = TRUE]
      BY <1>15, <2>1 DEF CancelTransfer
    <3>3. cancelled' \in [Threads -> BOOLEAN]
      BY <3>1, <3>2
    <3>4. QED
      BY <1>15, <2>1, <3>3 DEF CancelTransfer
  <2>2. CASE ~ValidHandle(target[c])
    BY <1>15, <2>2 DEF CancelTransfer
  <2>3. QED
    BY <2>1, <2>2
<1>16. ASSUME NEW c \in Clients, JoinTransfer(c) PROVE Types'
  BY <1>16 DEF JoinTransfer
<1>17. ASSUME NEW c \in Clients, ResetLeave(c) PROVE Types'
  BY <1>17 DEF ResetLeave, Clear
<1>18. ASSUME NEW c \in Clients, ExitEnterList(c) PROVE Types'
  BY <1>18 DEF ExitEnterList
<1>19. ASSUME NEW c \in Clients, ExitCloseCtrl(c) PROVE Types'
  BY <1>19 DEF ExitCloseCtrl
<1>20. ASSUME NEW c \in Clients, ExitCheck(c) PROVE Types'
  BY <1>20 DEF ExitCheck
<1>21. ASSUME NEW c \in Clients, ExitLeaveList(c) PROVE Types'
  BY <1>21 DEF ExitLeaveList
<1>22. ASSUME NEW c \in Clients, InitPasvReturn(c) PROVE Types'
  BY <1>22 DEF InitPasvReturn
<1>23. ASSUME NEW c \in Clients, OpenPasvReturn(c) PROVE Types'
  BY <1>23 DEF OpenPasvReturn
<1>24. ASSUME NEW t \in Threads, FinishWork(t) PROVE Types'
  BY <1>24 DEF FinishWork
<1>25. ASSUME NEW t \in Threads, ActOnCancel(t) PROVE Types'
  BY <1>25 DEF ActOnCancel
<1>26. ASSUME NEW t \in Threads, TailEnterList(t) PROVE Types'
  BY <1>26 DEF TailEnterList
<1>27. ASSUME NEW t \in Threads, TailReset(t) PROVE Types'
  <2>1. CASE DataSock[owner[t]] /\ cancelled[t]
    BY <1>27, <2>1 DEF TailReset
  <2>2. CASE ~(DataSock[owner[t]] /\ cancelled[t])
    <3>1. detached' = [u \in Threads |-> detached[u] \/ u = TransferThreadID[owner[t]]]
      BY <1>27, <2>2 DEF TailReset
    <3>2. detached' \in [Threads -> BOOLEAN]
      BY <3>1, Zenon
    <3>3. QED
      BY <1>27, <2>2, <3>2 DEF TailReset
  <2>3. QED
    BY <2>1, <2>2
<1>28. ASSUME NEW t \in Threads, TailClear(t) PROVE Types'
  BY <1>28 DEF TailClear
<1>29. ASSUME NEW t \in Threads, TailCheck(t) PROVE Types'
  BY <1>29 DEF TailCheck
<1>30. ASSUME NEW t \in Threads, TailLeaveList(t) PROVE Types'
  BY <1>30 DEF TailLeaveList
<1>31. CASE UNCHANGED vars
  BY <1>31
<1>32. QED
  BY <1>1, <1>2, <1>3, <1>4, <1>5, <1>6, <1>7, <1>8, <1>9, <1>10, <1>11, <1>12,
     <1>13, <1>14, <1>15, <1>16, <1>17, <1>18, <1>19, <1>20, <1>21, <1>22, <1>23,
     <1>24, <1>25, <1>26, <1>27, <1>28, <1>29, <1>30, <1>31
     DEF Next, ShellCommand, ShellStep, SlaveAnswer, ThreadStep, Idle

\* Enter and Leave of ClientListLock, and nothing else, change its holder.
LEMMA SectionsStep == TypeOK /\ [Next]_vars => ListSections'
<1> SUFFICES ASSUME Types, ListSections, [Next]_vars PROVE ListSections'
  BY DEF TypeOK
<1> USE ThreadsAssumption, NoThreadAssumption
<1> USE DEF Types, ListSections, Continuations
<1>1. ASSUME NEW c \in Clients, Accept(c) PROVE ListSections'
  BY <1>1 DEF Accept
<1>2. ASSUME NEW c \in Clients, NEW cmd \in {"port", "pasv"}, CmdPortOrPasv(c, cmd) PROVE ListSections'
  BY <1>2 DEF CmdPortOrPasv
<1>3. ASSUME NEW c \in Clients, CmdPasvSlave(c) PROVE ListSections'
  BY <1>3 DEF CmdPasvSlave
<1>4. ASSUME NEW c \in Clients, CmdList(c) PROVE ListSections'
  BY <1>4 DEF CmdList
<1>5. ASSUME NEW c \in Clients, CmdTransfer(c) PROVE ListSections'
  BY <1>5 DEF CmdTransfer
<1>6. ASSUME NEW c \in Clients, CmdAbor(c) PROVE ListSections'
  BY <1>6 DEF CmdAbor
<1>7. ASSUME NEW c \in Clients, CmdQuit(c) PROVE ListSections'
  BY <1>7 DEF CmdQuit
<1>8. ASSUME NEW c \in Clients, Port(c) PROVE ListSections'
  BY <1>8 DEF Port
<1>9. ASSUME NEW c \in Clients, Pasv(c) PROVE ListSections'
  BY <1>9 DEF Pasv
<1>10. ASSUME NEW c \in Clients, OpenDataConnection(c) PROVE ListSections'
  BY <1>10 DEF OpenDataConnection
<1>11. ASSUME NEW c \in Clients, NEW t \in Threads, Spawn(c, t) PROVE ListSections'
  BY <1>11 DEF Spawn
<1>12. ASSUME NEW c \in Clients, SpawnFails(c) PROVE ListSections'
  BY <1>12 DEF SpawnFails
<1>13. ASSUME NEW c \in Clients, ResetEnter(c) PROVE ListSections'
  BY <1>13 DEF ResetEnter, Clear
<1>14. ASSUME NEW c \in Clients, ReadTransferThreadID(c) PROVE ListSections'
  BY <1>14 DEF ReadTransferThreadID
<1>15. ASSUME NEW c \in Clients, CancelTransfer(c) PROVE ListSections'
  BY <1>15 DEF CancelTransfer
<1>16. ASSUME NEW c \in Clients, JoinTransfer(c) PROVE ListSections'
  BY <1>16 DEF JoinTransfer
<1>17. ASSUME NEW c \in Clients, ResetLeave(c) PROVE ListSections'
  BY <1>17 DEF ResetLeave, Clear
<1>18. ASSUME NEW c \in Clients, ExitEnterList(c) PROVE ListSections'
  BY <1>18 DEF ExitEnterList
<1>19. ASSUME NEW c \in Clients, ExitCloseCtrl(c) PROVE ListSections'
  BY <1>19 DEF ExitCloseCtrl
<1>20. ASSUME NEW c \in Clients, ExitCheck(c) PROVE ListSections'
  BY <1>20 DEF ExitCheck
<1>21. ASSUME NEW c \in Clients, ExitLeaveList(c) PROVE ListSections'
  BY <1>21 DEF ExitLeaveList
<1>22. ASSUME NEW c \in Clients, InitPasvReturn(c) PROVE ListSections'
  BY <1>22 DEF InitPasvReturn
<1>23. ASSUME NEW c \in Clients, OpenPasvReturn(c) PROVE ListSections'
  BY <1>23 DEF OpenPasvReturn
<1>24. ASSUME NEW t \in Threads, FinishWork(t) PROVE ListSections'
  BY <1>24 DEF FinishWork
<1>25. ASSUME NEW t \in Threads, ActOnCancel(t) PROVE ListSections'
  BY <1>25 DEF ActOnCancel
<1>26. ASSUME NEW t \in Threads, TailEnterList(t) PROVE ListSections'
  BY <1>26 DEF TailEnterList
<1>27. ASSUME NEW t \in Threads, TailReset(t) PROVE ListSections'
  BY <1>27 DEF TailReset
<1>28. ASSUME NEW t \in Threads, TailClear(t) PROVE ListSections'
  BY <1>28 DEF TailClear
<1>29. ASSUME NEW t \in Threads, TailCheck(t) PROVE ListSections'
  BY <1>29 DEF TailCheck
<1>30. ASSUME NEW t \in Threads, TailLeaveList(t) PROVE ListSections'
  BY <1>30 DEF TailLeaveList
<1>31. CASE UNCHANGED vars
  BY <1>31
<1>32. QED
  BY <1>1, <1>2, <1>3, <1>4, <1>5, <1>6, <1>7, <1>8, <1>9, <1>10, <1>11, <1>12,
     <1>13, <1>14, <1>15, <1>16, <1>17, <1>18, <1>19, <1>20, <1>21, <1>22, <1>23,
     <1>24, <1>25, <1>26, <1>27, <1>28, <1>29, <1>30, <1>31
     DEF Next, ShellCommand, ShellStep, SlaveAnswer, ThreadStep, Idle

\* Every step keeps every variable within its type, and the holder of
\* ClientListLock within its section.
LEMMA TypeStep == TypeOK /\ [Next]_vars => TypeOK'
BY TypesStep, SectionsStep DEF TypeOK

\* Lock ownership: the only way to lose a lock, a cancellation in close(), is
\* excluded by TransferInv and ShellInv.
LEMMA LockStep == ASSUME Orderly, IInv, TypeOK', [Next]_vars PROVE LockInv'
<1> USE ThreadsAssumption, NoThreadAssumption
<1> USE DEF IInv, TypeOK, Types, LockInv, ThreadInv, TransferInv, ShellInv, InTransfer, Continuations
<1>1. ASSUME NEW c \in Clients, Accept(c) PROVE LockInv'
  BY <1>1 DEF Accept
<1>2. ASSUME NEW c \in Clients, NEW cmd \in {"port", "pasv"}, CmdPortOrPasv(c, cmd) PROVE LockInv'
  BY <1>2 DEF CmdPortOrPasv
<1>3. ASSUME NEW c \in Clients, CmdPasvSlave(c) PROVE LockInv'
  BY <1>3 DEF CmdPasvSlave
<1>4. ASSUME NEW c \in Clients, CmdList(c) PROVE LockInv'
  BY <1>4 DEF CmdList
<1>5. ASSUME NEW c \in Clients, CmdTransfer(c) PROVE LockInv'
  BY <1>5 DEF CmdTransfer, Orderly
<1>6. ASSUME NEW c \in Clients, CmdAbor(c) PROVE LockInv'
  BY <1>6 DEF CmdAbor
<1>7. ASSUME NEW c \in Clients, CmdQuit(c) PROVE LockInv'
  BY <1>7 DEF CmdQuit
<1>8. ASSUME NEW c \in Clients, Port(c) PROVE LockInv'
  BY <1>8 DEF Port
<1>9. ASSUME NEW c \in Clients, Pasv(c) PROVE LockInv'
  BY <1>9 DEF Pasv
<1>10. ASSUME NEW c \in Clients, OpenDataConnection(c) PROVE LockInv'
  BY <1>10 DEF OpenDataConnection
<1>11. ASSUME NEW c \in Clients, NEW t \in Threads, Spawn(c, t) PROVE LockInv'
  BY <1>11 DEF Spawn
<1>12. ASSUME NEW c \in Clients, SpawnFails(c) PROVE LockInv'
  BY <1>12 DEF SpawnFails
<1>13. ASSUME NEW c \in Clients, ResetEnter(c) PROVE LockInv'
  BY <1>13 DEF ResetEnter, Clear
<1>14. ASSUME NEW c \in Clients, ReadTransferThreadID(c) PROVE LockInv'
  BY <1>14 DEF ReadTransferThreadID
<1>15. ASSUME NEW c \in Clients, CancelTransfer(c) PROVE LockInv'
  BY <1>15 DEF CancelTransfer, ValidHandle
<1>16. ASSUME NEW c \in Clients, JoinTransfer(c) PROVE LockInv'
  BY <1>16 DEF JoinTransfer, JoinableHandle
<1>17. ASSUME NEW c \in Clients, ResetLeave(c) PROVE LockInv'
  BY <1>17 DEF ResetLeave, Clear
<1>18. ASSUME NEW c \in Clients, ExitEnterList(c) PROVE LockInv'
  BY <1>18 DEF ExitEnterList
<1>19. ASSUME NEW c \in Clients, ExitCloseCtrl(c) PROVE LockInv'
  BY <1>19 DEF ExitCloseCtrl
<1>20. ASSUME NEW c \in Clients, ExitCheck(c) PROVE LockInv'
  BY <1>20 DEF ExitCheck
<1>21. ASSUME NEW c \in Clients, ExitLeaveList(c) PROVE LockInv'
  BY <1>21 DEF ExitLeaveList
<1>22. ASSUME NEW c \in Clients, InitPasvReturn(c) PROVE LockInv'
  BY <1>22 DEF InitPasvReturn
<1>23. ASSUME NEW c \in Clients, OpenPasvReturn(c) PROVE LockInv'
  BY <1>23 DEF OpenPasvReturn
<1>24. ASSUME NEW t \in Threads, FinishWork(t) PROVE LockInv'
  BY <1>24 DEF FinishWork, Alive
<1>25. ASSUME NEW t \in Threads, ActOnCancel(t) PROVE LockInv'
  BY <1>25 DEF ActOnCancel, Alive
<1>26. ASSUME NEW t \in Threads, TailEnterList(t) PROVE LockInv'
  BY <1>26 DEF TailEnterList, Alive
<1>27. ASSUME NEW t \in Threads, TailReset(t) PROVE LockInv'
  BY <1>27 DEF TailReset, Alive
<1>28. ASSUME NEW t \in Threads, TailClear(t) PROVE LockInv'
  BY <1>28 DEF TailClear, Alive
<1>29. ASSUME NEW t \in Threads, TailCheck(t) PROVE LockInv'
  BY <1>29 DEF TailCheck, Alive
<1>30. ASSUME NEW t \in Threads, TailLeaveList(t) PROVE LockInv'
  BY <1>30 DEF TailLeaveList, Alive
<1>31. CASE UNCHANGED vars
  BY <1>31
<1>32. QED
  BY <1>1, <1>2, <1>3, <1>4, <1>5, <1>6, <1>7, <1>8, <1>9, <1>10, <1>11, <1>12,
     <1>13, <1>14, <1>15, <1>16, <1>17, <1>18, <1>19, <1>20, <1>21, <1>22, <1>23,
     <1>24, <1>25, <1>26, <1>27, <1>28, <1>29, <1>30, <1>31
     DEF Next, ShellCommand, ShellStep, SlaveAnswer, ThreadStep, Idle

\* No step leaves a thread with a deleted entry: Shell deletes it when no thread
\* holds ClientListLock and none is in its transfer, and so does the tail.
LEMMA ThreadStepInv == ASSUME Orderly, IInv, TypeOK', [Next]_vars PROVE ThreadInv'
<1> USE ThreadsAssumption, NoThreadAssumption
<1> USE DEF IInv, TypeOK, Types, LockInv, ThreadInv, TransferInv, HandleInv, ShellInv, TailInv,
            UsesEntry, InTransfer, ShellUsesEntry, Quiet
<1>1. ASSUME NEW c \in Clients, Accept(c) PROVE ThreadInv'
  BY <1>1 DEF Accept
<1>2. ASSUME NEW c \in Clients, NEW cmd \in {"port", "pasv"}, CmdPortOrPasv(c, cmd) PROVE ThreadInv'
  BY <1>2 DEF CmdPortOrPasv
<1>3. ASSUME NEW c \in Clients, CmdPasvSlave(c) PROVE ThreadInv'
  BY <1>3 DEF CmdPasvSlave
<1>4. ASSUME NEW c \in Clients, CmdList(c) PROVE ThreadInv'
  BY <1>4 DEF CmdList
<1>5. ASSUME NEW c \in Clients, CmdTransfer(c) PROVE ThreadInv'
  BY <1>5 DEF CmdTransfer, Orderly
<1>6. ASSUME NEW c \in Clients, CmdAbor(c) PROVE ThreadInv'
  BY <1>6 DEF CmdAbor
<1>7. ASSUME NEW c \in Clients, CmdQuit(c) PROVE ThreadInv'
  BY <1>7 DEF CmdQuit
<1>8. ASSUME NEW c \in Clients, Port(c) PROVE ThreadInv'
  BY <1>8 DEF Port
<1>9. ASSUME NEW c \in Clients, Pasv(c) PROVE ThreadInv'
  BY <1>9 DEF Pasv
<1>10. ASSUME NEW c \in Clients, OpenDataConnection(c) PROVE ThreadInv'
  BY <1>10 DEF OpenDataConnection
<1>11. ASSUME NEW c \in Clients, NEW t \in Threads, Spawn(c, t) PROVE ThreadInv'
  BY <1>11 DEF Spawn
<1>12. ASSUME NEW c \in Clients, SpawnFails(c) PROVE ThreadInv'
  BY <1>12 DEF SpawnFails
<1>13. ASSUME NEW c \in Clients, ResetEnter(c) PROVE ThreadInv'
  BY <1>13 DEF ResetEnter, Clear
<1>14. ASSUME NEW c \in Clients, ReadTransferThreadID(c) PROVE ThreadInv'
  BY <1>14 DEF ReadTransferThreadID
<1>15. ASSUME NEW c \in Clients, CancelTransfer(c) PROVE ThreadInv'
  BY <1>15 DEF CancelTransfer, ValidHandle
<1>16. ASSUME NEW c \in Clients, JoinTransfer(c) PROVE ThreadInv'
  BY <1>16 DEF JoinTransfer, JoinableHandle
<1>17. ASSUME NEW c \in Clients, ResetLeave(c) PROVE ThreadInv'
  BY <1>17 DEF ResetLeave, Clear
<1>18. ASSUME NEW c \in Clients, ExitEnterList(c) PROVE ThreadInv'
  BY <1>18 DEF ExitEnterList
<1>19. ASSUME NEW c \in Clients, ExitCloseCtrl(c) PROVE ThreadInv'
  BY <1>19 DEF ExitCloseCtrl
<1>20. ASSUME NEW c \in Clients, ExitCheck(c) PROVE ThreadInv'
  BY <1>20 DEF ExitCheck
<1>21. ASSUME NEW c \in Clients, ExitLeaveList(c) PROVE ThreadInv'
  BY <1>21 DEF ExitLeaveList
<1>22. ASSUME NEW c \in Clients, InitPasvReturn(c) PROVE ThreadInv'
  BY <1>22 DEF InitPasvReturn
<1>23. ASSUME NEW c \in Clients, OpenPasvReturn(c) PROVE ThreadInv'
  BY <1>23 DEF OpenPasvReturn
<1>24. ASSUME NEW t \in Threads, FinishWork(t) PROVE ThreadInv'
  BY <1>24 DEF FinishWork, Alive
<1>25. ASSUME NEW t \in Threads, ActOnCancel(t) PROVE ThreadInv'
  BY <1>25 DEF ActOnCancel, Alive
<1>26. ASSUME NEW t \in Threads, TailEnterList(t) PROVE ThreadInv'
  BY <1>26 DEF TailEnterList, Alive
<1>27. ASSUME NEW t \in Threads, TailReset(t) PROVE ThreadInv'
  BY <1>27 DEF TailReset, Alive
<1>28. ASSUME NEW t \in Threads, TailClear(t) PROVE ThreadInv'
  BY <1>28 DEF TailClear, Alive
<1>29. ASSUME NEW t \in Threads, TailCheck(t) PROVE ThreadInv'
  BY <1>29 DEF TailCheck, Alive
<1>30. ASSUME NEW t \in Threads, TailLeaveList(t) PROVE ThreadInv'
  BY <1>30 DEF TailLeaveList, Alive
<1>31. CASE UNCHANGED vars
  BY <1>31
<1>32. QED
  BY <1>1, <1>2, <1>3, <1>4, <1>5, <1>6, <1>7, <1>8, <1>9, <1>10, <1>11, <1>12,
     <1>13, <1>14, <1>15, <1>16, <1>17, <1>18, <1>19, <1>20, <1>21, <1>22, <1>23,
     <1>24, <1>25, <1>26, <1>27, <1>28, <1>29, <1>30, <1>31
     DEF Next, ShellCommand, ShellStep, SlaveAnswer, ThreadStep, Idle

\* Only Shell creates transfers, and only when the previous one is over.
LEMMA TransferStep == ASSUME Orderly, IInv, TypeOK', [Next]_vars PROVE TransferInv'
<1> USE ThreadsAssumption, NoThreadAssumption
<1> USE DEF IInv, TypeOK, Types, ThreadInv, TransferInv, HandleInv, ShellInv, InTransfer, UsesEntry,
            Quiet
<1>1. ASSUME NEW c \in Clients, Accept(c) PROVE TransferInv'
  BY <1>1 DEF Accept
<1>2. ASSUME NEW c \in Clients, NEW cmd \in {"port", "pasv"}, CmdPortOrPasv(c, cmd) PROVE TransferInv'
  BY <1>2 DEF CmdPortOrPasv
<1>3. ASSUME NEW c \in Clients, CmdPasvSlave(c) PROVE TransferInv'
  BY <1>3 DEF CmdPasvSlave
<1>4. ASSUME NEW c \in Clients, CmdList(c) PROVE TransferInv'
  BY <1>4 DEF CmdList
<1>5. ASSUME NEW c \in Clients, CmdTransfer(c) PROVE TransferInv'
  BY <1>5 DEF CmdTransfer, Orderly
<1>6. ASSUME NEW c \in Clients, CmdAbor(c) PROVE TransferInv'
  BY <1>6 DEF CmdAbor
<1>7. ASSUME NEW c \in Clients, CmdQuit(c) PROVE TransferInv'
  BY <1>7 DEF CmdQuit
<1>8. ASSUME NEW c \in Clients, Port(c) PROVE TransferInv'
  BY <1>8 DEF Port
<1>9. ASSUME NEW c \in Clients, Pasv(c) PROVE TransferInv'
  BY <1>9 DEF Pasv
<1>10. ASSUME NEW c \in Clients, OpenDataConnection(c) PROVE TransferInv'
  BY <1>10 DEF OpenDataConnection
<1>11. ASSUME NEW c \in Clients, NEW t \in Threads, Spawn(c, t) PROVE TransferInv'
  BY <1>11 DEF Spawn
<1>12. ASSUME NEW c \in Clients, SpawnFails(c) PROVE TransferInv'
  BY <1>12 DEF SpawnFails
<1>13. ASSUME NEW c \in Clients, ResetEnter(c) PROVE TransferInv'
  BY <1>13 DEF ResetEnter, Clear
<1>14. ASSUME NEW c \in Clients, ReadTransferThreadID(c) PROVE TransferInv'
  BY <1>14 DEF ReadTransferThreadID
<1>15. ASSUME NEW c \in Clients, CancelTransfer(c) PROVE TransferInv'
  BY <1>15 DEF CancelTransfer, ValidHandle
<1>16. ASSUME NEW c \in Clients, JoinTransfer(c) PROVE TransferInv'
  BY <1>16 DEF JoinTransfer, JoinableHandle
<1>17. ASSUME NEW c \in Clients, ResetLeave(c) PROVE TransferInv'
  BY <1>17 DEF ResetLeave, Clear
<1>18. ASSUME NEW c \in Clients, ExitEnterList(c) PROVE TransferInv'
  BY <1>18 DEF ExitEnterList
<1>19. ASSUME NEW c \in Clients, ExitCloseCtrl(c) PROVE TransferInv'
  BY <1>19 DEF ExitCloseCtrl
<1>20. ASSUME NEW c \in Clients, ExitCheck(c) PROVE TransferInv'
  BY <1>20 DEF ExitCheck
<1>21. ASSUME NEW c \in Clients, ExitLeaveList(c) PROVE TransferInv'
  BY <1>21 DEF ExitLeaveList
<1>22. ASSUME NEW c \in Clients, InitPasvReturn(c) PROVE TransferInv'
  BY <1>22 DEF InitPasvReturn
<1>23. ASSUME NEW c \in Clients, OpenPasvReturn(c) PROVE TransferInv'
  BY <1>23 DEF OpenPasvReturn
<1>24. ASSUME NEW t \in Threads, FinishWork(t) PROVE TransferInv'
  BY <1>24 DEF FinishWork, Alive
<1>25. ASSUME NEW t \in Threads, ActOnCancel(t) PROVE TransferInv'
  BY <1>25 DEF ActOnCancel, Alive
<1>26. ASSUME NEW t \in Threads, TailEnterList(t) PROVE TransferInv'
  BY <1>26 DEF TailEnterList, Alive
<1>27. ASSUME NEW t \in Threads, TailReset(t) PROVE TransferInv'
  BY <1>27 DEF TailReset, Alive
<1>28. ASSUME NEW t \in Threads, TailClear(t) PROVE TransferInv'
  BY <1>28 DEF TailClear, Alive
<1>29. ASSUME NEW t \in Threads, TailCheck(t) PROVE TransferInv'
  BY <1>29 DEF TailCheck, Alive
<1>30. ASSUME NEW t \in Threads, TailLeaveList(t) PROVE TransferInv'
  BY <1>30 DEF TailLeaveList, Alive
<1>31. CASE UNCHANGED vars
  BY <1>31
<1>32. QED
  BY <1>1, <1>2, <1>3, <1>4, <1>5, <1>6, <1>7, <1>8, <1>9, <1>10, <1>11, <1>12,
     <1>13, <1>14, <1>15, <1>16, <1>17, <1>18, <1>19, <1>20, <1>21, <1>22, <1>23,
     <1>24, <1>25, <1>26, <1>27, <1>28, <1>29, <1>30, <1>31
     DEF Next, ShellCommand, ShellStep, SlaveAnswer, ThreadStep, Idle

\* The handles Shell reads without a lock name the running transfer, if any.
LEMMA HandleStep == ASSUME Orderly, IInv, TypeOK', [Next]_vars PROVE HandleInv'
<1> USE ThreadsAssumption, NoThreadAssumption
<1> USE DEF IInv, TypeOK, Types, ThreadInv, TransferInv, HandleInv, ShellInv, InTransfer, Quiet
<1>1. ASSUME NEW c \in Clients, Accept(c) PROVE HandleInv'
  BY <1>1 DEF Accept
<1>2. ASSUME NEW c \in Clients, NEW cmd \in {"port", "pasv"}, CmdPortOrPasv(c, cmd) PROVE HandleInv'
  BY <1>2 DEF CmdPortOrPasv
<1>3. ASSUME NEW c \in Clients, CmdPasvSlave(c) PROVE HandleInv'
  BY <1>3 DEF CmdPasvSlave
<1>4. ASSUME NEW c \in Clients, CmdList(c) PROVE HandleInv'
  BY <1>4 DEF CmdList
<1>5. ASSUME NEW c \in Clients, CmdTransfer(c) PROVE HandleInv'
  BY <1>5 DEF CmdTransfer, Orderly
<1>6. ASSUME NEW c \in Clients, CmdAbor(c) PROVE HandleInv'
  BY <1>6 DEF CmdAbor
<1>7. ASSUME NEW c \in Clients, CmdQuit(c) PROVE HandleInv'
  BY <1>7 DEF CmdQuit
<1>8. ASSUME NEW c \in Clients, Port(c) PROVE HandleInv'
  BY <1>8 DEF Port
<1>9. ASSUME NEW c \in Clients, Pasv(c) PROVE HandleInv'
  BY <1>9 DEF Pasv
<1>10. ASSUME NEW c \in Clients, OpenDataConnection(c) PROVE HandleInv'
  BY <1>10 DEF OpenDataConnection
<1>11. ASSUME NEW c \in Clients, NEW t \in Threads, Spawn(c, t) PROVE HandleInv'
  BY <1>11 DEF Spawn
<1>12. ASSUME NEW c \in Clients, SpawnFails(c) PROVE HandleInv'
  BY <1>12 DEF SpawnFails
<1>13. ASSUME NEW c \in Clients, ResetEnter(c) PROVE HandleInv'
  BY <1>13 DEF ResetEnter, Clear
<1>14. ASSUME NEW c \in Clients, ReadTransferThreadID(c) PROVE HandleInv'
  BY <1>14 DEF ReadTransferThreadID
<1>15. ASSUME NEW c \in Clients, CancelTransfer(c) PROVE HandleInv'
  BY <1>15 DEF CancelTransfer, ValidHandle
<1>16. ASSUME NEW c \in Clients, JoinTransfer(c) PROVE HandleInv'
  BY <1>16 DEF JoinTransfer, JoinableHandle
<1>17. ASSUME NEW c \in Clients, ResetLeave(c) PROVE HandleInv'
  BY <1>17 DEF ResetLeave, Clear
<1>18. ASSUME NEW c \in Clients, ExitEnterList(c) PROVE HandleInv'
  BY <1>18 DEF ExitEnterList
<1>19. ASSUME NEW c \in Clients, ExitCloseCtrl(c) PROVE HandleInv'
  BY <1>19 DEF ExitCloseCtrl
<1>20. ASSUME NEW c \in Clients, ExitCheck(c) PROVE HandleInv'
  BY <1>20 DEF ExitCheck
<1>21. ASSUME NEW c \in Clients, ExitLeaveList(c) PROVE HandleInv'
  BY <1>21 DEF ExitLeaveList
<1>22. ASSUME NEW c \in Clients, InitPasvReturn(c) PROVE HandleInv'
  BY <1>22 DEF InitPasvReturn
<1>23. ASSUME NEW c \in Clients, OpenPasvReturn(c) PROVE HandleInv'
  BY <1>23 DEF OpenPasvReturn
<1>24. ASSUME NEW t \in Threads, FinishWork(t) PROVE HandleInv'
  BY <1>24 DEF FinishWork, Alive
<1>25. ASSUME NEW t \in Threads, ActOnCancel(t) PROVE HandleInv'
  BY <1>25 DEF ActOnCancel, Alive
<1>26. ASSUME NEW t \in Threads, TailEnterList(t) PROVE HandleInv'
  BY <1>26 DEF TailEnterList, Alive
<1>27. ASSUME NEW t \in Threads, TailReset(t) PROVE HandleInv'
  BY <1>27 DEF TailReset, Alive
<1>28. ASSUME NEW t \in Threads, TailClear(t) PROVE HandleInv'
  BY <1>28 DEF TailClear, Alive
<1>29. ASSUME NEW t \in Threads, TailCheck(t) PROVE HandleInv'
  BY <1>29 DEF TailCheck, Alive
<1>30. ASSUME NEW t \in Threads, TailLeaveList(t) PROVE HandleInv'
  BY <1>30 DEF TailLeaveList, Alive
<1>31. CASE UNCHANGED vars
  BY <1>31
<1>32. QED
  BY <1>1, <1>2, <1>3, <1>4, <1>5, <1>6, <1>7, <1>8, <1>9, <1>10, <1>11, <1>12,
     <1>13, <1>14, <1>15, <1>16, <1>17, <1>18, <1>19, <1>20, <1>21, <1>22, <1>23,
     <1>24, <1>25, <1>26, <1>27, <1>28, <1>29, <1>30, <1>31
     DEF Next, ShellCommand, ShellStep, SlaveAnswer, ThreadStep, Idle

\* What a command finds out about the session still holds when it acts on it.
LEMMA ShellStepInv == ASSUME Orderly, IInv, TypeOK', [Next]_vars PROVE ShellInv'
<1> USE ThreadsAssumption, NoThreadAssumption
<1> USE DEF IInv, TypeOK, Types, Continuations, LockInv, ThreadInv, TransferInv, HandleInv,
            ShellInv, InTransfer, UsesEntry, ShellUsesEntry, Quiet
<1>1. ASSUME NEW c \in Clients, Accept(c) PROVE ShellInv'
  BY <1>1 DEF Accept
<1>2. ASSUME NEW c \in Clients, NEW cmd \in {"port", "pasv"}, CmdPortOrPasv(c, cmd) PROVE ShellInv'
  BY <1>2 DEF CmdPortOrPasv
<1>3. ASSUME NEW c \in Clients, CmdPasvSlave(c) PROVE ShellInv'
  BY <1>3 DEF CmdPasvSlave
<1>4. ASSUME NEW c \in Clients, CmdList(c) PROVE ShellInv'
  BY <1>4 DEF CmdList
<1>5. ASSUME NEW c \in Clients, CmdTransfer(c) PROVE ShellInv'
  BY <1>5 DEF CmdTransfer, Orderly
<1>6. ASSUME NEW c \in Clients, CmdAbor(c) PROVE ShellInv'
  BY <1>6 DEF CmdAbor
<1>7. ASSUME NEW c \in Clients, CmdQuit(c) PROVE ShellInv'
  BY <1>7 DEF CmdQuit
<1>8. ASSUME NEW c \in Clients, Port(c) PROVE ShellInv'
  BY <1>8 DEF Port
<1>9. ASSUME NEW c \in Clients, Pasv(c) PROVE ShellInv'
  BY <1>9 DEF Pasv
<1>10. ASSUME NEW c \in Clients, OpenDataConnection(c) PROVE ShellInv'
  BY <1>10 DEF OpenDataConnection
<1>11. ASSUME NEW c \in Clients, NEW t \in Threads, Spawn(c, t) PROVE ShellInv'
  BY <1>11 DEF Spawn
<1>12. ASSUME NEW c \in Clients, SpawnFails(c) PROVE ShellInv'
  BY <1>12 DEF SpawnFails
<1>13. ASSUME NEW c \in Clients, ResetEnter(c) PROVE ShellInv'
  BY <1>13 DEF ResetEnter, Clear
<1>14. ASSUME NEW c \in Clients, ReadTransferThreadID(c) PROVE ShellInv'
  BY <1>14 DEF ReadTransferThreadID
<1>15. ASSUME NEW c \in Clients, CancelTransfer(c) PROVE ShellInv'
  BY <1>15 DEF CancelTransfer, ValidHandle
<1>16. ASSUME NEW c \in Clients, JoinTransfer(c) PROVE ShellInv'
  BY <1>16 DEF JoinTransfer, JoinableHandle
<1>17. ASSUME NEW c \in Clients, ResetLeave(c) PROVE ShellInv'
  BY <1>17 DEF ResetLeave, Clear
<1>18. ASSUME NEW c \in Clients, ExitEnterList(c) PROVE ShellInv'
  BY <1>18 DEF ExitEnterList
<1>19. ASSUME NEW c \in Clients, ExitCloseCtrl(c) PROVE ShellInv'
  BY <1>19 DEF ExitCloseCtrl
<1>20. ASSUME NEW c \in Clients, ExitCheck(c) PROVE ShellInv'
  BY <1>20 DEF ExitCheck
<1>21. ASSUME NEW c \in Clients, ExitLeaveList(c) PROVE ShellInv'
  BY <1>21 DEF ExitLeaveList
<1>22. ASSUME NEW c \in Clients, InitPasvReturn(c) PROVE ShellInv'
  BY <1>22 DEF InitPasvReturn
<1>23. ASSUME NEW c \in Clients, OpenPasvReturn(c) PROVE ShellInv'
  BY <1>23 DEF OpenPasvReturn
<1>24. ASSUME NEW t \in Threads, FinishWork(t) PROVE ShellInv'
  BY <1>24 DEF FinishWork, Alive
<1>25. ASSUME NEW t \in Threads, ActOnCancel(t) PROVE ShellInv'
  BY <1>25 DEF ActOnCancel, Alive
<1>26. ASSUME NEW t \in Threads, TailEnterList(t) PROVE ShellInv'
  BY <1>26 DEF TailEnterList, Alive
<1>27. ASSUME NEW t \in Threads, TailReset(t) PROVE ShellInv'
  BY <1>27 DEF TailReset, Alive
<1>28. ASSUME NEW t \in Threads, TailClear(t) PROVE ShellInv'
  BY <1>28 DEF TailClear, Alive
<1>29. ASSUME NEW t \in Threads, TailCheck(t) PROVE ShellInv'
  BY <1>29 DEF TailCheck, Alive
<1>30. ASSUME NEW t \in Threads, TailLeaveList(t) PROVE ShellInv'
  BY <1>30 DEF TailLeaveList, Alive
<1>31. CASE UNCHANGED vars
  BY <1>31
<1>32. QED
  BY <1>1, <1>2, <1>3, <1>4, <1>5, <1>6, <1>7, <1>8, <1>9, <1>10, <1>11, <1>12,
     <1>13, <1>14, <1>15, <1>16, <1>17, <1>18, <1>19, <1>20, <1>21, <1>22, <1>23,
     <1>24, <1>25, <1>26, <1>27, <1>28, <1>29, <1>30, <1>31
     DEF Next, ShellCommand, ShellStep, SlaveAnswer, ThreadStep, Idle

\* After Shell has left, only the tail of the last transfer writes eStatus.
LEMMA TailStep == ASSUME Orderly, IInv, TypeOK', [Next]_vars PROVE TailInv'
<1> USE ThreadsAssumption, NoThreadAssumption
<1> USE DEF IInv, TypeOK, Types, LockInv, ThreadInv, ShellInv, TailInv, ShellUsesEntry, UsesEntry
<1>1. ASSUME NEW c \in Clients, Accept(c) PROVE TailInv'
  BY <1>1 DEF Accept
<1>2. ASSUME NEW c \in Clients, NEW cmd \in {"port", "pasv"}, CmdPortOrPasv(c, cmd) PROVE TailInv'
  BY <1>2 DEF CmdPortOrPasv
<1>3. ASSUME NEW c \in Clients, CmdPasvSlave(c) PROVE TailInv'
  BY <1>3 DEF CmdPasvSlave
<1>4. ASSUME NEW c \in Clients, CmdList(c) PROVE TailInv'
  BY <1>4 DEF CmdList
<1>5. ASSUME NEW c \in Clients, CmdTransfer(c) PROVE TailInv'
  BY <1>5 DEF CmdTransfer, Orderly
<1>6. ASSUME NEW c \in Clients, CmdAbor(c) PROVE TailInv'
  BY <1>6 DEF CmdAbor
<1>7. ASSUME NEW c \in Clients, CmdQuit(c) PROVE TailInv'
  BY <1>7 DEF CmdQuit
<1>8. ASSUME NEW c \in Clients, Port(c) PROVE TailInv'
  BY <1>8 DEF Port
<1>9. ASSUME NEW c \in Clients, Pasv(c) PROVE TailInv'
  BY <1>9 DEF Pasv
<1>10. ASSUME NEW c \in Clients, OpenDataConnection(c) PROVE TailInv'
  BY <1>10 DEF OpenDataConnection
<1>11. ASSUME NEW c \in Clients, NEW t \in Threads, Spawn(c, t) PROVE TailInv'
  BY <1>11 DEF Spawn
<1>12. ASSUME NEW c \in Clients, SpawnFails(c) PROVE TailInv'
  BY <1>12 DEF SpawnFails
<1>13. ASSUME NEW c \in Clients, ResetEnter(c) PROVE TailInv'
  BY <1>13 DEF ResetEnter, Clear
<1>14. ASSUME NEW c \in Clients, ReadTransferThreadID(c) PROVE TailInv'
  BY <1>14 DEF ReadTransferThreadID
<1>15. ASSUME NEW c \in Clients, CancelTransfer(c) PROVE TailInv'
  BY <1>15 DEF CancelTransfer, ValidHandle
<1>16. ASSUME NEW c \in Clients, JoinTransfer(c) PROVE TailInv'
  BY <1>16 DEF JoinTransfer, JoinableHandle
<1>17. ASSUME NEW c \in Clients, ResetLeave(c) PROVE TailInv'
  BY <1>17 DEF ResetLeave, Clear
<1>18. ASSUME NEW c \in Clients, ExitEnterList(c) PROVE TailInv'
  BY <1>18 DEF ExitEnterList
<1>19. ASSUME NEW c \in Clients, ExitCloseCtrl(c) PROVE TailInv'
  BY <1>19 DEF ExitCloseCtrl
<1>20. ASSUME NEW c \in Clients, ExitCheck(c) PROVE TailInv'
  BY <1>20 DEF ExitCheck
<1>21. ASSUME NEW c \in Clients, ExitLeaveList(c) PROVE TailInv'
  BY <1>21 DEF ExitLeaveList
<1>22. ASSUME NEW c \in Clients, InitPasvReturn(c) PROVE TailInv'
  BY <1>22 DEF InitPasvReturn
<1>23. ASSUME NEW c \in Clients, OpenPasvReturn(c) PROVE TailInv'
  BY <1>23 DEF OpenPasvReturn
<1>24. ASSUME NEW t \in Threads, FinishWork(t) PROVE TailInv'
  BY <1>24 DEF FinishWork, Alive
<1>25. ASSUME NEW t \in Threads, ActOnCancel(t) PROVE TailInv'
  BY <1>25 DEF ActOnCancel, Alive
<1>26. ASSUME NEW t \in Threads, TailEnterList(t) PROVE TailInv'
  BY <1>26 DEF TailEnterList, Alive
<1>27. ASSUME NEW t \in Threads, TailReset(t) PROVE TailInv'
  BY <1>27 DEF TailReset, Alive
<1>28. ASSUME NEW t \in Threads, TailClear(t) PROVE TailInv'
  BY <1>28 DEF TailClear, Alive
<1>29. ASSUME NEW t \in Threads, TailCheck(t) PROVE TailInv'
  BY <1>29 DEF TailCheck, Alive
<1>30. ASSUME NEW t \in Threads, TailLeaveList(t) PROVE TailInv'
  BY <1>30 DEF TailLeaveList, Alive
<1>31. CASE UNCHANGED vars
  BY <1>31
<1>32. QED
  BY <1>1, <1>2, <1>3, <1>4, <1>5, <1>6, <1>7, <1>8, <1>9, <1>10, <1>11, <1>12,
     <1>13, <1>14, <1>15, <1>16, <1>17, <1>18, <1>19, <1>20, <1>21, <1>22, <1>23,
     <1>24, <1>25, <1>26, <1>27, <1>28, <1>29, <1>30, <1>31
     DEF Next, ShellCommand, ShellStep, SlaveAnswer, ThreadStep, Idle

----------------------------------------------------------------------------
(* The theorems.                                                           *)

\* A server that has just started satisfies the strengthening.
LEMMA InitIInv == Init => IInv
  BY ThreadsAssumption, NoThreadAssumption
     DEF Init, IInv, TypeOK, Types, ListSections, LockInv, ThreadInv, TransferInv, HandleInv, ShellInv,
         TailInv, ShellPoints, ThreadPoints, Statuses, Connections, Continuations,
         UsesEntry, InTransfer, ShellUsesEntry, Quiet

\* Every behaviour, whatever the peers do, keeps the variables well typed.
THEOREM TypeCorrect == Spec => []TypeOK
<1>1. Init => TypeOK
  BY InitIInv DEF IInv
<1>2. QED
  BY <1>1, TypeStep, PTL DEF Spec

\* The strengthening of the safety properties is inductive.
THEOREM Invariance == ASSUME Orderly PROVE Spec => []IInv
<1>1. IInv /\ [Next]_vars => IInv'
  <2> SUFFICES ASSUME IInv, [Next]_vars PROVE IInv'
    OBVIOUS
  <2>1. TypeOK'
    BY TypeStep DEF IInv
  <2>2. QED
    BY <2>1, LockStep, ThreadStepInv, TransferStep, HandleStep, ShellStepInv, TailStep
       DEF IInv
<1>2. QED
  BY InitIInv, <1>1, PTL DEF Spec

\* No thread touches a CClientEntry after its deletion, so that it is also
\* deleted only once (Shell's exit, and the end of the transfer threads).
THEOREM UseAfterFreeFreedom == ASSUME Orderly PROVE Spec => []NoUseAfterFree
<1>1. IInv => NoUseAfterFree
  BY DEF IInv, ThreadInv, ShellInv, NoUseAfterFree
<1>2. QED
  BY <1>1, Invariance, PTL

\* The session never has two transfers, although RETR and STOR do not check.
THEOREM TransfersSerialised == ASSUME Orderly PROVE Spec => []OneTransfer
<1>1. IInv => OneTransfer
  BY DEF IInv, TransferInv, OneTransfer
<1>2. QED
  BY <1>1, Invariance, PTL

\* A transfer thread that ends detaches itself, and no other thread.
THEOREM ResetIsSelf == ASSUME Orderly PROVE Spec => []SelfReset
<1>1. IInv => SelfReset
  BY DEF IInv, TransferInv, SelfReset, InTransfer
<1>2. QED
  BY <1>1, Invariance, PTL

\* ABOR's pthread_cancel never makes a thread die with a lock.
THEOREM LocksSurviveCancel == ASSUME Orderly PROVE Spec => []NoLockLost
<1>1. IInv => NoLockLost
  BY DEF IInv, LockInv, NoLockLost
<1>2. QED
  BY <1>1, Invariance, PTL

\* When ABOR has waited, nothing of the session is still transferring, even if
\* the pthread_t it waited for had gone stale.
THEOREM AborStops == ASSUME Orderly PROVE Spec => []AborStopsTransfer
<1>1. IInv => AborStopsTransfer
  BY DEF IInv, ShellInv, AborStopsTransfer, Quiet
<1>2. QED
  BY <1>1, Invariance, PTL

----------------------------------------------------------------------------
(* A peer that sends one transfer command for each PORT or PASV.           *)

\* The points of Shell at which it prepares a data connection or a transfer.
Preparing(c) ==
    shell[c] \in {"port", "pasv", "open", "openpasv", "spawnList", "spawnTransfer"}

\* A thread between its two writes of ResetDataConnection(false) is the only
\* one of its session, and finds the connection it is to clear; no command
\* has got past it; a connection is cleared only by those two resets.
StrictInv ==
    /\ \A t \in Threads : InTransfer(t) \/ thread[t] = "clear" =>
          eDataConnection[owner[t]] # "NONE"
    /\ \A t \in Threads : thread[t] = "clear" => Quiet(owner[t])
    /\ \A c \in Clients : armed[c] \/ Preparing(c) =>
          \A t \in Threads : owner[t] = c => thread[t] # "clear"
    /\ \A c \in Clients : armed[c] \/ (Preparing(c) /\ shell[c] \notin {"port", "pasv"}) =>
          eDataConnection[c] # "NONE"
    /\ \A c \in Clients : shell[c] # "initpasv"

\* StrictInv is inductive relative to IInv.
LEMMA StrictStep == ASSUME Peer = "strict", IInv, StrictInv, TypeOK', [Next]_vars PROVE StrictInv'
<1> USE ThreadsAssumption, NoThreadAssumption
<1> USE DEF IInv, TypeOK, Types, LockInv, ThreadInv, TransferInv, ShellInv, StrictInv, InTransfer,
           UsesEntry, Quiet, Continuations, Preparing
<1>1. ASSUME NEW c \in Clients, Accept(c) PROVE StrictInv'
  BY <1>1 DEF Accept
<1>2. ASSUME NEW c \in Clients, NEW cmd \in {"port", "pasv"}, CmdPortOrPasv(c, cmd) PROVE StrictInv'
  BY <1>2 DEF CmdPortOrPasv
<1>3. ASSUME NEW c \in Clients, CmdPasvSlave(c) PROVE StrictInv'
  BY <1>3 DEF CmdPasvSlave
<1>4. ASSUME NEW c \in Clients, CmdList(c) PROVE StrictInv'
  BY <1>4 DEF CmdList
<1>5. ASSUME NEW c \in Clients, CmdTransfer(c) PROVE StrictInv'
  BY <1>5 DEF CmdTransfer
<1>6. ASSUME NEW c \in Clients, CmdAbor(c) PROVE StrictInv'
  BY <1>6 DEF CmdAbor
<1>7. ASSUME NEW c \in Clients, CmdQuit(c) PROVE StrictInv'
  BY <1>7 DEF CmdQuit
<1>8. ASSUME NEW c \in Clients, Port(c) PROVE StrictInv'
  BY <1>8 DEF Port
<1>9. ASSUME NEW c \in Clients, Pasv(c) PROVE StrictInv'
  BY <1>9 DEF Pasv
<1>10. ASSUME NEW c \in Clients, OpenDataConnection(c) PROVE StrictInv'
  BY <1>10 DEF OpenDataConnection
<1>11. ASSUME NEW c \in Clients, NEW t \in Threads, Spawn(c, t) PROVE StrictInv'
  BY <1>11 DEF Spawn
<1>12. ASSUME NEW c \in Clients, SpawnFails(c) PROVE StrictInv'
  BY <1>12 DEF SpawnFails
<1>13. ASSUME NEW c \in Clients, ResetEnter(c) PROVE StrictInv'
  BY <1>13 DEF ResetEnter, Clear
<1>14. ASSUME NEW c \in Clients, ReadTransferThreadID(c) PROVE StrictInv'
  BY <1>14 DEF ReadTransferThreadID
<1>15. ASSUME NEW c \in Clients, CancelTransfer(c) PROVE StrictInv'
  BY <1>15 DEF CancelTransfer
<1>16. ASSUME NEW c \in Clients, JoinTransfer(c) PROVE StrictInv'
  BY <1>16 DEF JoinTransfer
<1>17. ASSUME NEW c \in Clients, ResetLeave(c) PROVE StrictInv'
  BY <1>17 DEF ResetLeave, Clear
<1>18. ASSUME NEW c \in Clients, ExitEnterList(c) PROVE StrictInv'
  BY <1>18 DEF ExitEnterList
<1>19. ASSUME NEW c \in Clients, ExitCloseCtrl(c) PROVE StrictInv'
  BY <1>19 DEF ExitCloseCtrl
<1>20. ASSUME NEW c \in Clients, ExitCheck(c) PROVE StrictInv'
  BY <1>20 DEF ExitCheck
<1>21. ASSUME NEW c \in Clients, ExitLeaveList(c) PROVE StrictInv'
  BY <1>21 DEF ExitLeaveList
<1>22. ASSUME NEW c \in Clients, InitPasvReturn(c) PROVE StrictInv'
  BY <1>22 DEF InitPasvReturn
<1>23. ASSUME NEW c \in Clients, OpenPasvReturn(c) PROVE StrictInv'
  BY <1>23 DEF OpenPasvReturn
<1>24. ASSUME NEW t \in Threads, FinishWork(t) PROVE StrictInv'
  BY <1>24 DEF FinishWork, Alive
<1>25. ASSUME NEW t \in Threads, ActOnCancel(t) PROVE StrictInv'
  BY <1>25 DEF ActOnCancel, Alive
<1>26. ASSUME NEW t \in Threads, TailEnterList(t) PROVE StrictInv'
  BY <1>26 DEF TailEnterList, Alive
<1>27. ASSUME NEW t \in Threads, TailReset(t) PROVE StrictInv'
  BY <1>27 DEF TailReset, Alive
<1>28. ASSUME NEW t \in Threads, TailClear(t) PROVE StrictInv'
  BY <1>28 DEF TailClear, Alive
<1>29. ASSUME NEW t \in Threads, TailCheck(t) PROVE StrictInv'
  BY <1>29 DEF TailCheck, Alive
<1>30. ASSUME NEW t \in Threads, TailLeaveList(t) PROVE StrictInv'
  BY <1>30 DEF TailLeaveList
<1>31. CASE UNCHANGED vars
  BY <1>31
<1>32. QED
  BY <1>1, <1>2, <1>3, <1>4, <1>5, <1>6, <1>7, <1>8, <1>9, <1>10, <1>11, <1>12,
     <1>13, <1>14, <1>15, <1>16, <1>17, <1>18, <1>19, <1>20, <1>21, <1>22, <1>23,
     <1>24, <1>25, <1>26, <1>27, <1>28, <1>29, <1>30, <1>31
     DEF Next, ShellCommand, ShellStep, SlaveAnswer, ThreadStep, Idle

\* PORT and PASV wait, on ClientLock, for the tail of the transfer before,
\* which has announced WAITING already: it cannot clear what they then set up.
THEOREM AcknowledgedHolds == ASSUME Peer = "strict" PROVE Spec => []AcknowledgedConnectionHolds
<1>1. Init => StrictInv
  BY NoThreadAssumption DEF Init, StrictInv, InTransfer, Preparing, Quiet
<1>2. IInv /\ StrictInv /\ [Next]_vars /\ IInv' => StrictInv'
  BY StrictStep DEF IInv
<1>3. Spec => []IInv
  BY Invariance DEF Orderly
<1>4. StrictInv => AcknowledgedConnectionHolds
  BY DEF StrictInv, AcknowledgedConnectionHolds
<1>5. QED
  BY <1>1, <1>2, <1>3, <1>4, PTL DEF Spec

\* The reset before PORT and PASV finds no transfer thread to cancel.
THEOREM PortCancelsNothing == ASSUME Orderly PROVE Spec => []PortNeverCancels
<1>1. IInv => PortNeverCancels
  BY DEF IInv, ShellInv, PortNeverCancels
<1>2. QED
  BY <1>1, Invariance, PTL

----------------------------------------------------------------------------
(* ClientSession implements EntryLifetime.  The proof rests on IInv, and    *)
(* on the counting of the references to an entry.                          *)

\* A session that is not WAITING has a transfer, unless Shell has just failed
\* to create one or is in ABOR; and the control channel is open as long as
\* Shell uses a live entry.
HolderInv ==
    \A c \in Clients :
        /\ eStatus[c] # "WAITING" /\ shell[c] \notin {"reset", "read", "cancel", "join", "relock"} =>
              \E t \in Threads : owner[t] = c /\ InTransfer(t)
        /\ entry[c] = "live" /\ bIsCtrlCanalOpen[c] => ShellUsesEntry(c)

\* HolderInv is inductive relative to IInv.
LEMMA HolderStep == ASSUME Orderly, IInv, HolderInv, TypeOK', [Next]_vars PROVE HolderInv'
<1> USE ThreadsAssumption, NoThreadAssumption
<1> USE DEF IInv, TypeOK, Types, LockInv, ThreadInv, TransferInv, HandleInv, ShellInv, HolderInv,
            InTransfer,
           UsesEntry, ShellUsesEntry, Quiet, Continuations
<1>1. ASSUME NEW c \in Clients, Accept(c) PROVE HolderInv'
  BY <1>1 DEF Accept
<1>2. ASSUME NEW c \in Clients, NEW cmd \in {"port", "pasv"}, CmdPortOrPasv(c, cmd) PROVE HolderInv'
  BY <1>2 DEF CmdPortOrPasv
<1>3. ASSUME NEW c \in Clients, CmdPasvSlave(c) PROVE HolderInv'
  BY <1>3 DEF CmdPasvSlave
<1>4. ASSUME NEW c \in Clients, CmdList(c) PROVE HolderInv'
  BY <1>4 DEF CmdList
<1>5. ASSUME NEW c \in Clients, CmdTransfer(c) PROVE HolderInv'
  BY <1>5 DEF CmdTransfer
<1>6. ASSUME NEW c \in Clients, CmdAbor(c) PROVE HolderInv'
  BY <1>6 DEF CmdAbor
<1>7. ASSUME NEW c \in Clients, CmdQuit(c) PROVE HolderInv'
  BY <1>7 DEF CmdQuit
<1>8. ASSUME NEW c \in Clients, Port(c) PROVE HolderInv'
  BY <1>8 DEF Port
<1>9. ASSUME NEW c \in Clients, Pasv(c) PROVE HolderInv'
  BY <1>9 DEF Pasv
<1>10. ASSUME NEW c \in Clients, OpenDataConnection(c) PROVE HolderInv'
  BY <1>10 DEF OpenDataConnection
<1>11. ASSUME NEW c \in Clients, NEW t \in Threads, Spawn(c, t) PROVE HolderInv'
  BY <1>11 DEF Spawn
<1>12. ASSUME NEW c \in Clients, SpawnFails(c) PROVE HolderInv'
  BY <1>12 DEF SpawnFails
<1>13. ASSUME NEW c \in Clients, ResetEnter(c) PROVE HolderInv'
  BY <1>13 DEF ResetEnter, Clear
<1>14. ASSUME NEW c \in Clients, ReadTransferThreadID(c) PROVE HolderInv'
  BY <1>14 DEF ReadTransferThreadID
<1>15. ASSUME NEW c \in Clients, CancelTransfer(c) PROVE HolderInv'
  BY <1>15 DEF CancelTransfer
<1>16. ASSUME NEW c \in Clients, JoinTransfer(c) PROVE HolderInv'
  BY <1>16 DEF JoinTransfer
<1>17. ASSUME NEW c \in Clients, ResetLeave(c) PROVE HolderInv'
  BY <1>17 DEF ResetLeave, Clear
<1>18. ASSUME NEW c \in Clients, ExitEnterList(c) PROVE HolderInv'
  BY <1>18 DEF ExitEnterList
<1>19. ASSUME NEW c \in Clients, ExitCloseCtrl(c) PROVE HolderInv'
  BY <1>19 DEF ExitCloseCtrl
<1>20. ASSUME NEW c \in Clients, ExitCheck(c) PROVE HolderInv'
  BY <1>20 DEF ExitCheck
<1>21. ASSUME NEW c \in Clients, ExitLeaveList(c) PROVE HolderInv'
  BY <1>21 DEF ExitLeaveList
<1>22. ASSUME NEW c \in Clients, InitPasvReturn(c) PROVE HolderInv'
  BY <1>22 DEF InitPasvReturn
<1>23. ASSUME NEW c \in Clients, OpenPasvReturn(c) PROVE HolderInv'
  BY <1>23 DEF OpenPasvReturn
<1>24. ASSUME NEW t \in Threads, FinishWork(t) PROVE HolderInv'
  BY <1>24 DEF FinishWork, Alive
<1>25. ASSUME NEW t \in Threads, ActOnCancel(t) PROVE HolderInv'
  BY <1>25 DEF ActOnCancel, Alive
<1>26. ASSUME NEW t \in Threads, TailEnterList(t) PROVE HolderInv'
  BY <1>26 DEF TailEnterList, Alive
<1>27. ASSUME NEW t \in Threads, TailReset(t) PROVE HolderInv'
  BY <1>27 DEF TailReset, Alive
<1>28. ASSUME NEW t \in Threads, TailClear(t) PROVE HolderInv'
  BY <1>28 DEF TailClear, Alive
<1>29. ASSUME NEW t \in Threads, TailCheck(t) PROVE HolderInv'
  BY <1>29 DEF TailCheck, Alive
<1>30. ASSUME NEW t \in Threads, TailLeaveList(t) PROVE HolderInv'
  BY <1>30 DEF TailLeaveList
<1>31. CASE UNCHANGED vars
  BY <1>31
<1>32. QED
  BY <1>1, <1>2, <1>3, <1>4, <1>5, <1>6, <1>7, <1>8, <1>9, <1>10, <1>11, <1>12,
     <1>13, <1>14, <1>15, <1>16, <1>17, <1>18, <1>19, <1>20, <1>21, <1>22, <1>23,
     <1>24, <1>25, <1>26, <1>27, <1>28, <1>29, <1>30, <1>31
     DEF Next, ShellCommand, ShellStep, SlaveAnswer, ThreadStep, Idle

LEMMA InitHolder == Init => HolderInv
BY DEF Init, HolderInv, ShellUsesEntry

----------------------------------------------------------------------------
(* Each step is one of EntryLifetime, or none.                             *)

\* What a step does to the entries and their holders.
OthersKept(c) == \A d \in Clients \ {c} : Holders(d)' = Holders(d)

Connects(c) ==
    /\ entry[c] = "none" /\ entry' = [entry EXCEPT ![c] = "live"]
    /\ Holders(c)' = {c} /\ OthersKept(c)
Holds(c, t) ==
    /\ c \in Holders(c) /\ t \notin Holders(c) /\ entry' = entry
    /\ Holders(c)' = Holders(c) \cup {t} /\ OthersKept(c)
Releases(c, h) ==
    /\ h \in Holders(c)
    /\ Holders(c)' = Holders(c) \ {h} /\ OthersKept(c)
    /\ entry' = IF Holders(c) \ {h} = {} THEN [entry EXCEPT ![c] = "freed"] ELSE entry
Stutters == entry' = entry /\ \A c \in Clients : Holders(c)' = Holders(c)

LifetimeStep ==
    \/ Stutters
    \/ \E c \in Clients :
        \/ Connects(c)
        \/ \E t \in Threads : Holds(c, t)
        \/ \E h \in Threads \cup {c} : Releases(c, h)

\* A step keeps the holders of c if no thread of c, and not Shell, begins or
\* ceases to use its entry.
Keeps(c) ==
    /\ ShellUsesEntry(c)' = ShellUsesEntry(c)
    /\ \A t \in Threads : (owner[t] = c /\ UsesEntry(t))' = (owner[t] = c /\ UsesEntry(t))

LEMMA KeptHolders == ASSUME NEW c \in Clients, Keeps(c) PROVE Holders(c)' = Holders(c)
BY DEF Keeps, Holders

LEMMA KeptAll == ASSUME entry' = entry, \A c \in Clients : Keeps(c) PROVE LifetimeStep
BY KeptHolders DEF LifetimeStep, Stutters

LEMMA StepsAreLifetime == ASSUME IInv, HolderInv, [Next]_vars PROVE LifetimeStep
<1> USE ThreadsAssumption, NoThreadAssumption
<1> USE DEF IInv, TypeOK, Types, LockInv, ThreadInv, TransferInv, ShellInv, InTransfer, UsesEntry,
            ShellUsesEntry,
           Continuations
<1>1. ASSUME NEW c \in Clients, Accept(c) PROVE LifetimeStep
  <2>1. Holders(c) = {}
    BY <1>1 DEF Accept, Holders
  <2>2. Holders(c)' = {c}
    BY <1>1 DEF Accept, Holders
  <2>3. \A d \in Clients \ {c} : Keeps(d)
    BY <1>1 DEF Accept, Keeps
  <2>4. OthersKept(c)
    BY <2>3, KeptHolders DEF OthersKept
  <2>5. QED
    BY <1>1, <2>2, <2>4 DEF Accept, LifetimeStep, Connects
<1>2. ASSUME NEW c \in Clients, NEW cmd \in {"port", "pasv"}, CmdPortOrPasv(c, cmd) PROVE LifetimeStep
  BY <1>2, KeptAll DEF CmdPortOrPasv, Keeps
<1>3. ASSUME NEW c \in Clients, CmdPasvSlave(c) PROVE LifetimeStep
  BY <1>3, KeptAll DEF CmdPasvSlave, Keeps
<1>4. ASSUME NEW c \in Clients, CmdList(c) PROVE LifetimeStep
  BY <1>4, KeptAll DEF CmdList, Keeps
<1>5. ASSUME NEW c \in Clients, CmdTransfer(c) PROVE LifetimeStep
  BY <1>5, KeptAll DEF CmdTransfer, Keeps
<1>6. ASSUME NEW c \in Clients, CmdAbor(c) PROVE LifetimeStep
  BY <1>6, KeptAll DEF CmdAbor, Keeps
<1>7. ASSUME NEW c \in Clients, CmdQuit(c) PROVE LifetimeStep
  BY <1>7, KeptAll DEF CmdQuit, Keeps
<1>8. ASSUME NEW c \in Clients, Port(c) PROVE LifetimeStep
  BY <1>8, KeptAll DEF Port, Keeps
<1>9. ASSUME NEW c \in Clients, Pasv(c) PROVE LifetimeStep
  BY <1>9, KeptAll DEF Pasv, Keeps
<1>10. ASSUME NEW c \in Clients, OpenDataConnection(c) PROVE LifetimeStep
  BY <1>10, KeptAll DEF OpenDataConnection, Keeps
<1>11. ASSUME NEW c \in Clients, NEW t \in Threads, Spawn(c, t) PROVE LifetimeStep
  <2>1. c \in Holders(c) /\ t \notin Holders(c)
    BY <1>11 DEF Spawn, Holders
  <2>2. \A d \in Clients : ShellUsesEntry(d)' = ShellUsesEntry(d)
    BY <1>11 DEF Spawn
  <2>3. owner'[t] = c /\ thread'[t] = "work"
    BY <1>11 DEF Spawn
  <2>4. \A u \in Threads \ {t} : owner'[u] = owner[u] /\ thread'[u] = thread[u]
    BY <1>11 DEF Spawn
  <2>5. Holders(c)' = Holders(c) \cup {t}
    BY <2>1, <2>2, <2>3, <2>4 DEF Holders
  <2>6. \A d \in Clients \ {c} : Keeps(d)
    BY <1>11, <2>2, <2>3, <2>4 DEF Spawn, Keeps
  <2>7. OthersKept(c)
    BY <2>6, KeptHolders DEF OthersKept
  <2>8. QED
    BY <1>11, <2>1, <2>5, <2>7 DEF Spawn, LifetimeStep, Holds
<1>12. ASSUME NEW c \in Clients, SpawnFails(c) PROVE LifetimeStep
  BY <1>12, KeptAll DEF SpawnFails, Keeps
<1>13. ASSUME NEW c \in Clients, ResetEnter(c) PROVE LifetimeStep
  BY <1>13, KeptAll DEF ResetEnter, Keeps, Clear
<1>14. ASSUME NEW c \in Clients, ReadTransferThreadID(c) PROVE LifetimeStep
  BY <1>14, KeptAll DEF ReadTransferThreadID, Keeps
<1>15. ASSUME NEW c \in Clients, CancelTransfer(c) PROVE LifetimeStep
  BY <1>15, KeptAll DEF CancelTransfer, Keeps
<1>16. ASSUME NEW c \in Clients, JoinTransfer(c) PROVE LifetimeStep
  BY <1>16, KeptAll DEF JoinTransfer, Keeps
<1>17. ASSUME NEW c \in Clients, ResetLeave(c) PROVE LifetimeStep
  BY <1>17, KeptAll DEF ResetLeave, Keeps, Clear
<1>18. ASSUME NEW c \in Clients, ExitEnterList(c) PROVE LifetimeStep
  BY <1>18, KeptAll DEF ExitEnterList, Keeps
<1>19. ASSUME NEW c \in Clients, ExitCloseCtrl(c) PROVE LifetimeStep
  BY <1>19, KeptAll DEF ExitCloseCtrl, Keeps
<1>20. ASSUME NEW c \in Clients, ExitCheck(c) PROVE LifetimeStep
  <2>1. c \in Holders(c) /\ c \notin Threads
    BY <1>20 DEF ExitCheck, Holders
  <2>2. ~ShellUsesEntry(c)'
    BY <1>20 DEF ExitCheck
  <2>3. \A d \in Clients \ {c} : ShellUsesEntry(d)' = ShellUsesEntry(d)
    BY <1>20 DEF ExitCheck
  <2>4. owner' = owner /\ thread' = thread
    BY <1>20 DEF ExitCheck
  <2>5. Holders(c)' = Holders(c) \ {c}
    BY <2>1, <2>2, <2>4 DEF Holders
  <2>6. \A d \in Clients \ {c} : Keeps(d)
    BY <2>3, <2>4 DEF Keeps
  <2>7. OthersKept(c)
    BY <2>6, KeptHolders DEF OthersKept
  <2>8. Holders(c) \ {c} = {t \in Threads : owner[t] = c /\ UsesEntry(t)}
    BY <2>1 DEF Holders
  <2>9. ASSUME eStatus[c] = "WAITING" PROVE Releases(c, c)
    <3>1. \A t \in Threads : owner[t] = c => ~UsesEntry(t)
      BY <1>20, <2>9 DEF ExitCheck
    <3>2. Holders(c) \ {c} = {}
      BY <2>8, <3>1
    <3>3. QED
      BY <1>20, <2>1, <2>5, <2>7, <2>9, <3>2 DEF ExitCheck, Releases
  <2>10. ASSUME eStatus[c] # "WAITING" PROVE Releases(c, c)
    <3>1. \E t \in Threads : owner[t] = c /\ InTransfer(t)
      BY <1>20, <2>10 DEF ExitCheck, HolderInv
    <3>2. Holders(c) \ {c} # {}
      BY <2>8, <3>1
    <3>3. QED
      BY <1>20, <2>1, <2>5, <2>7, <2>10, <3>2 DEF ExitCheck, Releases
  <2>11. QED
    BY <2>9, <2>10 DEF LifetimeStep
<1>21. ASSUME NEW c \in Clients, ExitLeaveList(c) PROVE LifetimeStep
  BY <1>21, KeptAll DEF ExitLeaveList, Keeps
<1>22. ASSUME NEW c \in Clients, InitPasvReturn(c) PROVE LifetimeStep
  BY <1>22, KeptAll DEF InitPasvReturn, Keeps
<1>23. ASSUME NEW c \in Clients, OpenPasvReturn(c) PROVE LifetimeStep
  BY <1>23, KeptAll DEF OpenPasvReturn, Keeps
<1>24. ASSUME NEW t \in Threads, FinishWork(t) PROVE LifetimeStep
  BY <1>24, KeptAll DEF FinishWork, Keeps, Alive
<1>25. ASSUME NEW t \in Threads, ActOnCancel(t) PROVE LifetimeStep
  <2> DEFINE c == owner[t]
  <2>1. c \in Clients /\ t \in Holders(c) /\ t # c
    BY <1>25 DEF ActOnCancel, Holders
  <2>2. /\ owner' = owner /\ thread'[t] \in {"unlock", "done"}
        /\ \A u \in Threads \ {t} : thread'[u] = thread[u]
        /\ shell' = shell
    BY <1>25 DEF ActOnCancel
  <2>3. Holders(c)' = Holders(c) \ {t}
    BY <2>1, <2>2 DEF Holders
  <2>4. \A d \in Clients \ {c} : Keeps(d)
    BY <2>2 DEF Keeps
  <2>5. OthersKept(c)
    BY <2>4, KeptHolders DEF OthersKept
  <2>6. c \in Holders(c) \ {t}
    BY <1>25, <2>1 DEF ActOnCancel, Holders
  <2>7. Releases(c, t)
    BY <1>25, <2>1, <2>3, <2>5, <2>6 DEF ActOnCancel, Releases
  <2>8. QED
    BY <2>1, <2>7 DEF LifetimeStep
<1>26. ASSUME NEW t \in Threads, TailEnterList(t) PROVE LifetimeStep
  BY <1>26, KeptAll DEF TailEnterList, Keeps, Alive
<1>27. ASSUME NEW t \in Threads, TailReset(t) PROVE LifetimeStep
  <2>1. ~(DataSock[owner[t]] /\ cancelled[t])
    BY <1>27 DEF TailReset
  <2>2. thread' = [thread EXCEPT ![t] = "clear"]
    BY <1>27, <2>1 DEF TailReset
  <2>3. QED
    BY <1>27, <2>2, KeptAll DEF TailReset, Keeps
<1>28. ASSUME NEW t \in Threads, TailClear(t) PROVE LifetimeStep
  BY <1>28, KeptAll DEF TailClear, Keeps, Alive
<1>29. ASSUME NEW t \in Threads, TailCheck(t) PROVE LifetimeStep
  <2> DEFINE c == owner[t]
  <2>1. c \in Clients /\ t \in Holders(c) /\ t # c
    BY <1>29 DEF TailCheck, Holders
  <2>2. /\ owner' = owner /\ thread'[t] \in {"unlock", "done"}
        /\ \A u \in Threads \ {t} : thread'[u] = thread[u]
        /\ shell' = shell
    BY <1>29 DEF TailCheck
  <2>3. Holders(c)' = Holders(c) \ {t}
    BY <2>1, <2>2 DEF Holders
  <2>4. \A d \in Clients \ {c} : Keeps(d)
    BY <2>2 DEF Keeps
  <2>5. OthersKept(c)
    BY <2>4, KeptHolders DEF OthersKept
  <2>6. ASSUME bIsCtrlCanalOpen[c] PROVE Releases(c, t)
    <3>1. c \in Holders(c) \ {t}
      BY <1>29, <2>1, <2>6 DEF TailCheck, Alive, Holders, HolderInv
    <3>2. QED
      BY <1>29, <2>1, <2>3, <2>5, <2>6, <3>1 DEF TailCheck, Releases
  <2>7. ASSUME ~bIsCtrlCanalOpen[c] PROVE Releases(c, t)
    <3>1. ~ShellUsesEntry(c)
      BY <2>1, <2>7
    <3>2. \A u \in Threads : owner[u] = c /\ UsesEntry(u) => u = t
      BY <1>29, <2>1, <3>1 DEF TailCheck, TailInv
    <3>3. Holders(c) \ {t} = {}
      BY <3>1, <3>2 DEF Holders
    <3>4. QED
      BY <1>29, <2>1, <2>3, <2>5, <2>7, <3>3 DEF TailCheck, Releases
  <2>8. QED
    BY <2>1, <2>6, <2>7 DEF LifetimeStep
<1>30. ASSUME NEW t \in Threads, TailLeaveList(t) PROVE LifetimeStep
  BY <1>30, KeptAll DEF TailLeaveList, Keeps
<1>31. CASE UNCHANGED vars
  BY <1>31, KeptAll DEF Keeps
<1>32. QED
  BY <1>1, <1>2, <1>3, <1>4, <1>5, <1>6, <1>7, <1>8, <1>9, <1>10, <1>11, <1>12,
     <1>13, <1>14, <1>15, <1>16, <1>17, <1>18, <1>19, <1>20, <1>21, <1>22, <1>23,
     <1>24, <1>25, <1>26, <1>27, <1>28, <1>29, <1>30, <1>31
     DEF Next, ShellCommand, ShellStep, SlaveAnswer, ThreadStep, Idle

\* eStatus and bIsCtrlCanalOpen, each written by one thread and read by the
\* other, implement reference counting of the CClientEntry.
THEOREM ImplementsLifetime == ASSUME Orderly PROVE Spec => RefinesLifetime
<1>1. Init => Lifetime!Init
  <2> SUFFICES ASSUME Init PROVE Lifetime!Init
    OBVIOUS
  <2>1. \A c \in Clients : Holders(c) = {}
    BY DEF Init, Holders, UsesEntry, ShellUsesEntry
  <2>2. QED
    BY <2>1 DEF Init, Lifetime!Init
<1>2. Init => HolderInv
  BY InitHolder
<1>3. IInv /\ HolderInv /\ [Next]_vars /\ IInv' => HolderInv'
  BY HolderStep DEF IInv
<1>4. LifetimeStep => [Lifetime!Next]_<<entry, [c \in Clients |-> Holders(c)]>>
  <2> SUFFICES ASSUME LifetimeStep, ~Stutters PROVE Lifetime!Next
    BY DEF Stutters
  <2>1. ASSUME NEW c \in Clients, Connects(c) PROVE Lifetime!Connect(c)
    BY <2>1 DEF Connects, OthersKept, Lifetime!Connect
  <2>2. ASSUME NEW c \in Clients, NEW t \in Threads, Holds(c, t) PROVE Lifetime!Hold(c, t)
    BY <2>2 DEF Holds, OthersKept, Lifetime!Hold
  <2>3. ASSUME NEW c \in Clients, NEW h, Releases(c, h) PROVE Lifetime!Release(c, h)
    BY <2>3 DEF Releases, OthersKept, Lifetime!Release
  <2>4. QED
    BY <2>1, <2>2, <2>3 DEF LifetimeStep, Lifetime!Next
<1>5. IInv /\ HolderInv /\ [Next]_vars => [Lifetime!Next]_<<entry, [c \in Clients |-> Holders(c)]>>
  BY <1>4, StepsAreLifetime
<1>6. QED
  BY <1>1, <1>2, <1>3, <1>5, Invariance, PTL DEF Spec, RefinesLifetime, Lifetime!Spec

=============================================================================
