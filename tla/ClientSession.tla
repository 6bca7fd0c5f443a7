--------------------------- MODULE ClientSession ---------------------------
(***************************************************************************)
(* The life of the CClientEntry objects of CFtpServer.cpp.                 *)
(*                                                                         *)
(* Every connected client has a Shell thread that reads its control        *)
(* connection, and a transfer thread (ListThread, RetrieveThread or        *)
(* StoreThread) for each LIST, RETR, STOR...  They share one CClientEntry, *)
(* and whichever of them is the last to leave deletes it.  Two locks       *)
(* protect it: ClientListLock, one for the server, and the entry's own     *)
(* ClientLock.  eStatus and eDataConnection are also read with no lock.    *)
(*                                                                         *)
(* One action per step between two points where another thread can be seen *)
(* to interleave: a lock, a cancellation, a blocking call, an unprotected  *)
(* read.  Commands that touch none of this state are stuttering steps.     *)
(***************************************************************************)
EXTENDS FiniteSets

CONSTANTS
    Clients,     \* the control connections that may be accepted
    Threads,     \* transfer threads that may be created, each only once
    NoThread,    \* the null pthread_t, and the owner of a free lock
    Peer         \* what the peers do; they send any other command at any time.
                 \*   "orderly": RETR and STOR follow a PORT or PASV that was
                 \*      acknowledged since the last RETR, STOR, LIST, NLST or STAT
                 \*   "strict": so do LIST and NLST; no STAT <path>, and PASV
                 \*      is sent without PRET
                 \*   "overlapping": the peer does not wait for its transfers

ASSUME ThreadsAssumption == NoThread \notin Threads /\ Threads \cap Clients = {}
ASSUME NoThreadAssumption == NoThread \notin Clients
ASSUME PeerAssumption == Peer \in {"orderly", "strict", "overlapping"}

VARIABLES
    entry,            \* "none" before AddClient, "live", "freed" by the destructor
    shell,            \* where each client's Shell thread is
    cont,             \* what Shell does when its ResetDataConnection returns
    target,           \* the pthread_t Shell read for pthread_cancel or pthread_join
    eStatus,          \* CClientEntry::eStatus
    eDataConnection,  \* CClientEntry::eDataConnection
    DataSock,         \* CClientEntry::DataSock is open
    bIsCtrlCanalOpen, \* CClientEntry::bIsCtrlCanalOpen
    TransferThreadID, \* CClientEntry::CurrentTransfer.TransferThreadID
    armed,            \* the peer was told that a data connection is ready
    thread,           \* where each transfer thread is
    owner,            \* the client whose entry a transfer thread was given
    cancelled,        \* pthread_cancel was called on the thread
    detached,         \* pthread_detach was called on the thread
    ClientListLock,   \* the holder of the server's list lock
    ClientLock,       \* the holder of each entry's lock
    staleHandle       \* Shell has passed a dead pthread_t to pthread

shellVars == <<shell, cont, target, armed>>
connVars == <<eStatus, eDataConnection, DataSock, TransferThreadID>>
threadVars == <<thread, owner, cancelled, detached>>
lockVars == <<ClientListLock, ClientLock>>
vars == <<entry, bIsCtrlCanalOpen, staleHandle,
          shellVars, connVars, threadVars, lockVars>>

Statuses == {"WAITING", "LISTING", "TRANSFERRING"}  \* the last: UPLOADING, DOWNLOADING
Connections == {"NONE", "PORT", "PASV"}
Continuations == {"cmd", "port", "pasv"}
ShellPoints == Continuations \cup
    {"none", "initpasv", "open", "openpasv", "spawnList", "spawnTransfer",
     "reset", "read", "cancel", "join", "relock",
     "exitList", "exitCtrl", "exitCheck", "exitUnlock", "gone"}
ThreadPoints == {"idle", "work", "tail", "lock", "clear", "check", "unlock", "done"}

Init ==
    /\ entry = [c \in Clients |-> "none"]
    /\ shell = [c \in Clients |-> "none"]
    /\ cont = [c \in Clients |-> "cmd"]
    /\ target = [c \in Clients |-> NoThread]
    /\ eStatus = [c \in Clients |-> "WAITING"]
    /\ eDataConnection = [c \in Clients |-> "NONE"]
    /\ DataSock = [c \in Clients |-> FALSE]
    /\ bIsCtrlCanalOpen = [c \in Clients |-> FALSE]
    /\ TransferThreadID = [c \in Clients |-> NoThread]
    /\ armed = [c \in Clients |-> FALSE]
    /\ thread = [t \in Threads |-> "idle"]
    /\ owner = [t \in Threads |-> NoThread]
    /\ cancelled = [t \in Threads |-> FALSE]
    /\ detached = [t \in Threads |-> FALSE]
    /\ ClientListLock = NoThread
    /\ ClientLock = [c \in Clients |-> NoThread]
    /\ staleHandle = [c \in Clients |-> FALSE]

Goto(c, point) == shell' = [shell EXCEPT ![c] = point]
Walk(t, point) == thread' = [thread EXCEPT ![t] = point]

----------------------------------------------------------------------------
(* Shell: the commands.                                                    *)

\* AddClient links a new entry under ClientListLock; Shell starts and opens
\* the control channel.
Accept(c) ==
    /\ entry[c] = "none" /\ ClientListLock = NoThread
    /\ entry' = [entry EXCEPT ![c] = "live"]
    /\ bIsCtrlCanalOpen' = [bIsCtrlCanalOpen EXCEPT ![c] = TRUE]
    /\ Goto(c, "cmd")
    /\ UNCHANGED <<cont, target, armed, connVars, threadVars, lockVars, staleHandle>>

\* Mutant: eStatus is not checked.
CmdPortOrPasvAnytime(c, cmd) ==
    /\ shell[c] = "cmd"
    /\ cont' = [cont EXCEPT ![c] = cmd]
    /\ Goto(c, IF eDataConnection[c] = "NONE" THEN cmd ELSE "reset")
    /\ UNCHANGED <<entry, bIsCtrlCanalOpen, target, armed, connVars, threadVars,
                   lockVars, staleHandle>>

\* Mutant: the earlier data connection is not reset.
CmdPortOrPasvNoReset(c, cmd) ==
    /\ shell[c] = "cmd" /\ eStatus[c] = "WAITING"
    /\ Goto(c, cmd)
    /\ UNCHANGED <<entry, bIsCtrlCanalOpen, cont, target, armed, connVars, threadVars,
                   lockVars, staleHandle>>

\* PORT, or a PASV with no PRET, first resets a data connection that an
\* earlier command left behind.
CmdPortOrPasv(c, cmd) ==
    /\ shell[c] = "cmd" /\ eStatus[c] = "WAITING"
    /\ cont' = [cont EXCEPT ![c] = cmd]
    /\ Goto(c, IF eDataConnection[c] = "NONE" THEN cmd ELSE "reset")
    /\ UNCHANGED <<entry, bIsCtrlCanalOpen, target, armed, connVars, threadVars,
                   lockVars, staleHandle>>

\* PORT stores the address, unless it is not the originator's (501).
Port(c) ==
    /\ shell[c] = "port"
    /\ \/ /\ eDataConnection' = [eDataConnection EXCEPT ![c] = "PORT"]
          /\ armed' = [armed EXCEPT ![c] = TRUE]
       \/ UNCHANGED <<eDataConnection, armed>>
    /\ Goto(c, "cmd")
    /\ UNCHANGED <<entry, bIsCtrlCanalOpen, cont, target, eStatus, DataSock,
                   TransferThreadID, threadVars, lockVars, staleHandle>>

\* PASV opens a listening socket; when no port is free (451) or listen fails
\* the socket stays open and eDataConnection stays NONE.
Pasv(c) ==
    /\ shell[c] = "pasv"
    /\ DataSock' = [DataSock EXCEPT ![c] = TRUE]
    /\ \/ /\ eDataConnection' = [eDataConnection EXCEPT ![c] = "PASV"]
          /\ armed' = [armed EXCEPT ![c] = TRUE]
       \/ UNCHANGED <<eDataConnection, armed>>
    /\ Goto(c, "cmd")
    /\ UNCHANGED <<entry, bIsCtrlCanalOpen, cont, target, eStatus,
                   TransferThreadID, threadVars, lockVars, staleHandle>>

\* A PASV that follows a PRET asks a slave to listen, with no reset before it.
CmdPasvSlave(c) ==
    /\ shell[c] = "cmd" /\ eStatus[c] = "WAITING" /\ Peer # "strict"
    /\ Goto(c, "initpasv")
    /\ UNCHANGED <<entry, bIsCtrlCanalOpen, cont, target, armed, connVars,
                   threadVars, lockVars, staleHandle>>

\* InitPasvDataConnection returns, or throws (425).
InitPasvReturn(c) ==
    /\ shell[c] = "initpasv"
    /\ \/ /\ eDataConnection' = [eDataConnection EXCEPT ![c] = "PASV"]
          /\ armed' = [armed EXCEPT ![c] = TRUE]
       \/ UNCHANGED <<eDataConnection, armed>>
    /\ Goto(c, "cmd")
    /\ UNCHANGED <<entry, bIsCtrlCanalOpen, cont, target, eStatus, DataSock,
                   TransferThreadID, threadVars, lockVars, staleHandle>>

\* Mutant: eStatus is not checked.
CmdListAnytime(c) ==
    /\ shell[c] = "cmd"
    /\ TransferThreadID' = [TransferThreadID EXCEPT ![c] = NoThread]
    /\ Goto(c, "spawnList")
    /\ armed' = [armed EXCEPT ![c] = FALSE]
    /\ UNCHANGED <<entry, bIsCtrlCanalOpen, cont, target, eStatus, eDataConnection,
                   DataSock, threadVars, lockVars, staleHandle>>

\* LIST, NLST and STAT <path>: CurrentTransfer is cleared; then the path does
\* not exist (550) or there is no data connection (503), or the data
\* connection is opened, or STAT goes on with the control connection.
CmdList(c) ==
    /\ shell[c] = "cmd" /\ eStatus[c] = "WAITING"
    /\ TransferThreadID' = [TransferThreadID EXCEPT ![c] = NoThread]
    /\ \/ Goto(c, "cmd") /\ UNCHANGED armed
       \/ /\ Peer # "strict"
          /\ Goto(c, "spawnList") /\ armed' = [armed EXCEPT ![c] = FALSE]
       \/ /\ eDataConnection[c] # "NONE"
          /\ Peer = "strict" => armed[c]
          /\ Goto(c, "open") /\ armed' = [armed EXCEPT ![c] = FALSE]
    /\ UNCHANGED <<entry, bIsCtrlCanalOpen, cont, target, eStatus, eDataConnection,
                   DataSock, threadVars, lockVars, staleHandle>>

\* OpenDataConnection connects or accepts, or gives up (425) and resets.
OpenDataConnection(c) ==
    /\ shell[c] = "open"
    /\ \/ /\ DataSock' = [DataSock EXCEPT ![c] = TRUE]
          /\ Goto(c, "spawnList")
          /\ UNCHANGED cont
       \/ /\ Goto(c, "reset")
          /\ cont' = [cont EXCEPT ![c] = "cmd"]
          /\ UNCHANGED DataSock
    /\ UNCHANGED <<entry, bIsCtrlCanalOpen, target, armed, eStatus, eDataConnection,
                   TransferThreadID, threadVars, lockVars, staleHandle>>

\* RETR, STOR, APPE and STOU: eStatus is not looked at.  With PASV the slave
\* is first asked to accept the data connection.
CmdTransfer(c) ==
    /\ shell[c] = "cmd"
    /\ Peer = "overlapping" \/ armed[c]
    /\ armed' = [armed EXCEPT ![c] = FALSE]
    /\ Goto(c, IF eDataConnection[c] = "PASV" THEN "openpasv" ELSE "spawnTransfer")
    /\ UNCHANGED <<entry, bIsCtrlCanalOpen, cont, target, connVars, threadVars,
                   lockVars, staleHandle>>

\* OpenPasvDataConnection returns, or throws (425).
OpenPasvReturn(c) ==
    /\ shell[c] = "openpasv"
    /\ \E point \in {"cmd", "spawnTransfer"} : Goto(c, point)
    /\ UNCHANGED <<entry, bIsCtrlCanalOpen, cont, target, armed, connVars,
                   threadVars, lockVars, staleHandle>>

\* eStatus is set, then pthread_create overwrites TransferThreadID.
Spawn(c, t) ==
    /\ shell[c] \in {"spawnList", "spawnTransfer"} /\ thread[t] = "idle"
    /\ eStatus' = [eStatus EXCEPT
           ![c] = IF shell[c] = "spawnList" THEN "LISTING" ELSE "TRANSFERRING"]
    /\ TransferThreadID' = [TransferThreadID EXCEPT ![c] = t]
    /\ owner' = [owner EXCEPT ![t] = c]
    /\ Walk(t, "work")
    /\ Goto(c, "cmd")
    /\ UNCHANGED <<entry, bIsCtrlCanalOpen, cont, target, armed, eDataConnection,
                   DataSock, cancelled, detached, lockVars, staleHandle>>

\* pthread_create fails: Shell resets the connection it had opened.
SpawnFails(c) ==
    /\ shell[c] \in {"spawnList", "spawnTransfer"}
    /\ eStatus' = [eStatus EXCEPT
           ![c] = IF shell[c] = "spawnList" THEN "LISTING" ELSE "TRANSFERRING"]
    /\ Goto(c, "reset")
    /\ cont' = [cont EXCEPT ![c] = "cmd"]
    /\ UNCHANGED <<entry, bIsCtrlCanalOpen, target, armed, eDataConnection, DataSock,
                   TransferThreadID, threadVars, lockVars, staleHandle>>

\* ABOR resets the data connection if the session is not WAITING.
CmdAbor(c) ==
    /\ shell[c] = "cmd" /\ eStatus[c] # "WAITING"
    /\ Goto(c, "reset")
    /\ cont' = [cont EXCEPT ![c] = "cmd"]
    /\ armed' = [armed EXCEPT ![c] = FALSE]
    /\ UNCHANGED <<entry, bIsCtrlCanalOpen, target, connVars, threadVars, lockVars,
                   staleHandle>>

\* QUIT, a timeout, too many passwords, or the control connection is lost.
CmdQuit(c) ==
    /\ shell[c] = "cmd"
    /\ Goto(c, "exitList")
    /\ UNCHANGED <<entry, bIsCtrlCanalOpen, cont, target, armed, connVars,
                   threadVars, lockVars, staleHandle>>

----------------------------------------------------------------------------
(* Shell: ResetDataConnection(true).                                       *)

\* What both forms of ResetDataConnection end with.
Clear(c) ==
    /\ TransferThreadID' = [TransferThreadID EXCEPT ![c] = NoThread]
    /\ eStatus' = [eStatus EXCEPT ![c] = "WAITING"]
    /\ eDataConnection' = [eDataConnection EXCEPT ![c] = "NONE"]

\* Mutant: DataSock is left for the transfer thread to close.
ResetEnterNoClose(c) ==
    /\ shell[c] = "reset" /\ ClientLock[c] = NoThread
    /\ Goto(c, IF TransferThreadID[c] = NoThread THEN "relock" ELSE "read")
    /\ UNCHANGED <<entry, bIsCtrlCanalOpen, cont, target, armed, connVars, threadVars,
                   lockVars, staleHandle>>

\* DataSock is closed under ClientLock.  With no transfer thread the reset is
\* finished before the lock is released; otherwise the lock is released first.
ResetEnter(c) ==
    /\ shell[c] = "reset" /\ ClientLock[c] = NoThread
    /\ DataSock' = [DataSock EXCEPT ![c] = FALSE]
    /\ \/ /\ TransferThreadID[c] = NoThread
          /\ Clear(c)
          /\ armed' = [armed EXCEPT ![c] = FALSE]
          /\ Goto(c, cont[c])
       \/ /\ TransferThreadID[c] # NoThread
          /\ Goto(c, "read")
          /\ UNCHANGED <<armed, TransferThreadID, eStatus, eDataConnection>>
    /\ UNCHANGED <<entry, bIsCtrlCanalOpen, cont, target, threadVars, lockVars,
                   staleHandle>>

\* The argument of pthread_cancel is read with no lock held.
ReadTransferThreadID(c) ==
    /\ shell[c] = "read"
    /\ target' = [target EXCEPT ![c] = TransferThreadID[c]]
    /\ Goto(c, "cancel")
    /\ UNCHANGED <<entry, bIsCtrlCanalOpen, cont, armed, connVars, threadVars,
                   lockVars, staleHandle>>

\* A pthread_t may be used until the thread is joined, or detached and gone.
ValidHandle(t) == t # NoThread /\ (thread[t] # "done" \/ ~detached[t])
JoinableHandle(t) == t # NoThread /\ ~detached[t]

\* Mutant: the cancelled thread is not joined.
CancelTransferNoJoin(c) ==
    /\ shell[c] = "cancel"
    /\ cancelled' = [t \in Threads |-> cancelled[t] \/ t = target[c]]
    /\ Goto(c, "relock")
    /\ UNCHANGED <<entry, bIsCtrlCanalOpen, cont, target, armed, connVars, thread,
                   owner, detached, lockVars, staleHandle>>

\* pthread_cancel; the argument of pthread_join is then read, still unlocked.
\* The call is undefined on a dead handle: here it is recorded and fails.
CancelTransfer(c) ==
    /\ shell[c] = "cancel"
    /\ \/ /\ ValidHandle(target[c])
          /\ cancelled' = [cancelled EXCEPT ![target[c]] = TRUE]
          /\ target' = [target EXCEPT ![c] = TransferThreadID[c]]
          /\ Goto(c, "join")
          /\ UNCHANGED staleHandle
       \/ /\ ~ValidHandle(target[c])
          /\ staleHandle' = [staleHandle EXCEPT ![c] = TRUE]
          /\ Goto(c, "relock")
          /\ UNCHANGED <<cancelled, target>>
    /\ UNCHANGED <<entry, bIsCtrlCanalOpen, cont, armed, connVars, thread, owner,
                   detached, lockVars>>

\* pthread_join waits for the end of the thread, unless the handle has been
\* detached or cleared meanwhile.
JoinTransfer(c) ==
    /\ shell[c] = "join"
    /\ \/ JoinableHandle(target[c]) /\ thread[target[c]] = "done" /\ UNCHANGED staleHandle
       \/ ~JoinableHandle(target[c]) /\ staleHandle' = [staleHandle EXCEPT ![c] = TRUE]
    /\ Goto(c, "relock")
    /\ UNCHANGED <<entry, bIsCtrlCanalOpen, cont, target, armed, connVars, threadVars,
                   lockVars>>

\* ClientLock is taken again and the reset is finished.
ResetLeave(c) ==
    /\ shell[c] = "relock" /\ ClientLock[c] = NoThread
    /\ Clear(c)
    /\ armed' = [armed EXCEPT ![c] = FALSE]
    /\ Goto(c, cont[c])
    /\ UNCHANGED <<entry, bIsCtrlCanalOpen, cont, target, DataSock, threadVars,
                   lockVars, staleHandle>>

----------------------------------------------------------------------------
(* Shell: the end of the control connection.                               *)

ExitEnterList(c) ==
    /\ shell[c] = "exitList" /\ ClientListLock = NoThread
    /\ ClientListLock' = c
    /\ Goto(c, "exitCtrl")
    /\ UNCHANGED <<entry, bIsCtrlCanalOpen, cont, target, armed, connVars, threadVars,
                   ClientLock, staleHandle>>

\* CtrlSock is closed under ClientLock.
ExitCloseCtrl(c) ==
    /\ shell[c] = "exitCtrl" /\ ClientLock[c] = NoThread
    /\ Goto(c, "exitCheck")
    /\ UNCHANGED <<entry, bIsCtrlCanalOpen, cont, target, armed, connVars, threadVars,
                   lockVars, staleHandle>>

\* Mutant: eStatus is not checked.
ExitCheckAlwaysDeletes(c) ==
    /\ shell[c] = "exitCheck"
    /\ entry' = [entry EXCEPT ![c] = "freed"]
    /\ Goto(c, "exitUnlock")
    /\ UNCHANGED <<bIsCtrlCanalOpen, cont, target, armed, connVars, threadVars,
                   lockVars, staleHandle>>

\* A session with a transfer is left to the transfer thread to delete.
ExitCheck(c) ==
    /\ shell[c] = "exitCheck"
    /\ \/ /\ eStatus[c] = "WAITING"
          /\ entry' = [entry EXCEPT ![c] = "freed"]
          /\ UNCHANGED bIsCtrlCanalOpen
       \/ /\ eStatus[c] # "WAITING"
          /\ bIsCtrlCanalOpen' = [bIsCtrlCanalOpen EXCEPT ![c] = FALSE]
          /\ UNCHANGED entry
    /\ Goto(c, "exitUnlock")
    /\ UNCHANGED <<cont, target, armed, connVars, threadVars, lockVars, staleHandle>>

\* Mutant: ClientListLock is not released.
ExitLeaveListLocked(c) ==
    /\ shell[c] = "exitUnlock"
    /\ Goto(c, "gone")
    /\ UNCHANGED <<entry, bIsCtrlCanalOpen, cont, target, armed, connVars, threadVars,
                   lockVars, staleHandle>>

ExitLeaveList(c) ==
    /\ shell[c] = "exitUnlock"
    /\ ClientListLock' = NoThread
    /\ Goto(c, "gone")
    /\ UNCHANGED <<entry, bIsCtrlCanalOpen, cont, target, armed, connVars, threadVars,
                   ClientLock, staleHandle>>

----------------------------------------------------------------------------
(* The transfer threads.  What a thread does once its entry has been        *)
(* deleted is undefined: it takes no more steps here.                       *)

Alive(t) == entry[owner[t]] = "live"

\* The listing or the slave's RPC is over, with the reply sent.
FinishWork(t) ==
    /\ thread[t] = "work" /\ Alive(t)
    /\ Walk(t, "tail")
    /\ UNCHANGED <<entry, bIsCtrlCanalOpen, shellVars, connVars, owner, cancelled,
                   detached, lockVars, staleHandle>>

\* A pending cancellation ends the thread at the next blocking call.
ActOnCancel(t) ==
    /\ thread[t] = "work" /\ Alive(t) /\ cancelled[t]
    /\ Walk(t, "done")
    /\ UNCHANGED <<entry, bIsCtrlCanalOpen, shellVars, connVars, owner, cancelled,
                   detached, lockVars, staleHandle>>

TailEnterList(t) ==
    /\ thread[t] = "tail" /\ Alive(t) /\ ClientListLock = NoThread
    /\ ClientListLock' = t
    /\ Walk(t, "lock")
    /\ UNCHANGED <<entry, bIsCtrlCanalOpen, shellVars, connVars, owner, cancelled,
                   detached, ClientLock, staleHandle>>

\* ResetDataConnection(false): close is a cancellation point, so a cancelled
\* thread that finds DataSock open ends there, with both locks.
TailReset(t) ==
    LET c == owner[t] IN
    /\ thread[t] = "lock" /\ Alive(t) /\ ClientLock[c] = NoThread
    /\ ClientLock' = [ClientLock EXCEPT ![c] = t]
    /\ DataSock' = [DataSock EXCEPT ![c] = FALSE]
    /\ \/ /\ DataSock[c] /\ cancelled[t]
          /\ Walk(t, "done")
          /\ UNCHANGED <<TransferThreadID, eStatus, detached>>
       \/ /\ ~(DataSock[c] /\ cancelled[t])
          /\ detached' = [u \in Threads |-> detached[u] \/ u = TransferThreadID[c]]
          /\ TransferThreadID' = [TransferThreadID EXCEPT ![c] = NoThread]
          /\ eStatus' = [eStatus EXCEPT ![c] = "WAITING"]
          /\ Walk(t, "clear")
    /\ UNCHANGED <<entry, bIsCtrlCanalOpen, shellVars, eDataConnection, owner,
                   cancelled, ClientListLock, staleHandle>>

\* eDataConnection is written after eStatus; then ClientLock is released.
TailClear(t) ==
    LET c == owner[t] IN
    /\ thread[t] = "clear" /\ Alive(t)
    /\ eDataConnection' = [eDataConnection EXCEPT ![c] = "NONE"]
    /\ ClientLock' = [ClientLock EXCEPT ![c] = NoThread]
    /\ Walk(t, "check")
    /\ UNCHANGED <<entry, bIsCtrlCanalOpen, shellVars, eStatus, DataSock,
                   TransferThreadID, owner, cancelled, detached, ClientListLock,
                   staleHandle>>

\* Mutant: the entry is left to Shell.
TailCheckNeverDeletes(t) ==
    /\ thread[t] = "check" /\ Alive(t)
    /\ Walk(t, "unlock")
    /\ UNCHANGED <<entry, bIsCtrlCanalOpen, shellVars, connVars, owner, cancelled,
                   detached, lockVars, staleHandle>>

\* With the control channel closed, the transfer thread deletes the entry.
TailCheck(t) ==
    /\ thread[t] = "check" /\ Alive(t)
    /\ entry' = IF bIsCtrlCanalOpen[owner[t]]
                THEN entry ELSE [entry EXCEPT ![owner[t]] = "freed"]
    /\ Walk(t, "unlock")
    /\ UNCHANGED <<bIsCtrlCanalOpen, shellVars, connVars, owner, cancelled, detached,
                   lockVars, staleHandle>>

TailLeaveList(t) ==
    /\ thread[t] = "unlock"
    /\ ClientListLock' = NoThread
    /\ Walk(t, "done")
    /\ UNCHANGED <<entry, bIsCtrlCanalOpen, shellVars, connVars, owner, cancelled,
                   detached, ClientLock, staleHandle>>

----------------------------------------------------------------------------
ShellCommand(c) ==
    \/ Accept(c) \/ CmdPortOrPasv(c, "port") \/ CmdPortOrPasv(c, "pasv")
    \/ CmdPasvSlave(c) \/ CmdList(c) \/ CmdTransfer(c) \/ CmdAbor(c) \/ CmdQuit(c)

\* The steps Shell takes by itself; those of the RPCs wait for a slave.
ShellStep(c) ==
    \/ Port(c) \/ Pasv(c) \/ OpenDataConnection(c)
    \/ (\E t \in Threads : Spawn(c, t)) \/ SpawnFails(c)
    \/ ResetEnter(c) \/ ReadTransferThreadID(c) \/ CancelTransfer(c)
    \/ JoinTransfer(c) \/ ResetLeave(c)
    \/ ExitEnterList(c) \/ ExitCloseCtrl(c) \/ ExitCheck(c) \/ ExitLeaveList(c)

SlaveAnswer(c) == InitPasvReturn(c) \/ OpenPasvReturn(c)

ThreadStep(t) ==
    \/ ActOnCancel(t) \/ TailEnterList(t) \/ TailReset(t) \/ TailClear(t)
    \/ TailCheck(t) \/ TailLeaveList(t)

\* Every client has come and gone: the server is idle.
Idle ==
    /\ \A c \in Clients : shell[c] = "gone"
    /\ \A t \in Threads : thread[t] \in {"idle", "done"}
    /\ UNCHANGED vars

Next ==
    \/ \E c \in Clients : ShellCommand(c) \/ ShellStep(c) \/ SlaveAnswer(c)
    \/ \E t \in Threads : FinishWork(t) \/ ThreadStep(t)
    \/ Idle

Spec == Init /\ [][Next]_vars

\* The server's own threads are scheduled; peers and slaves need not answer.
Fairness ==
    /\ \A c \in Clients : WF_vars(ShellStep(c))
    /\ \A t \in Threads : WF_vars(ThreadStep(t))

FairSpec == Spec /\ Fairness

----------------------------------------------------------------------------
(* Type correctness.                                                       *)

Types ==
    /\ entry \in [Clients -> {"none", "live", "freed"}]
    /\ shell \in [Clients -> ShellPoints]
    /\ cont \in [Clients -> Continuations]
    /\ target \in [Clients -> Threads \cup {NoThread}]
    /\ eStatus \in [Clients -> Statuses]
    /\ eDataConnection \in [Clients -> Connections]
    /\ DataSock \in [Clients -> BOOLEAN]
    /\ bIsCtrlCanalOpen \in [Clients -> BOOLEAN]
    /\ TransferThreadID \in [Clients -> Threads \cup {NoThread}]
    /\ armed \in [Clients -> BOOLEAN]
    /\ thread \in [Threads -> ThreadPoints]
    /\ owner \in [Threads -> Clients \cup {NoThread}]
    /\ cancelled \in [Threads -> BOOLEAN]
    /\ detached \in [Threads -> BOOLEAN]
    /\ ClientListLock \in Clients \cup Threads \cup {NoThread}
    /\ ClientLock \in [Clients -> Threads \cup {NoThread}]
    /\ staleHandle \in [Clients -> BOOLEAN]

\* Who is between Enter and Leave of ClientListLock.
ListSections ==
    /\ \A c \in Clients : ClientListLock = c <=> shell[c] \in {"exitCtrl", "exitCheck", "exitUnlock"}
    /\ \A t \in Threads : thread[t] \in {"lock", "clear", "check", "unlock"} => ClientListLock = t

\* Every variable has its type, and whoever is between Enter and Leave of
\* ClientListLock holds it, a Shell exactly then.
TypeOK == Types /\ ListSections

----------------------------------------------------------------------------
(* Safety.                                                                 *)

\* The threads that still touch their CClientEntry, and those among them that
\* have not yet done the ResetDataConnection at the end of the transfer.
UsesEntry(t) == thread[t] \in {"work", "tail", "lock", "clear", "check"}
InTransfer(t) == thread[t] \in {"work", "tail", "lock"}
ShellUsesEntry(c) == shell[c] \notin {"none", "exitUnlock", "gone"}

\* Whoever deletes a CClientEntry (the end of Shell or the end of a transfer
\* thread) is its last user: no thread touches the entry afterwards, and so
\* no second thread deletes it again.
NoUseAfterFree ==
    \A c \in Clients : entry[c] = "freed" =>
        /\ ~ShellUsesEntry(c)
        /\ \A t \in Threads : owner[t] = c => ~UsesEntry(t)

\* eStatus, which RETR and STOR do not look at, still serialises them: the
\* session never has two transfers under way.
OneTransfer ==
    \A t, u \in Threads : InTransfer(t) /\ InTransfer(u) /\ owner[t] = owner[u] => t = u

\* "do not wait sync on self": the thread that a transfer thread detaches at
\* its end, named by TransferThreadID, is that thread itself.
SelfReset ==
    \A t \in Threads : thread[t] = "lock" /\ entry[owner[t]] = "live" =>
        TransferThreadID[owner[t]] \in {t, NoThread}

\* A pthread_cancel never ends a thread while it holds a lock: close() is
\* called under ClientListLock and ClientLock, yet no cancelled thread gets
\* there with a socket left to close.
NoLockLost ==
    \A t \in Threads : thread[t] = "done" =>
        ClientListLock # t /\ \A c \in Clients : ClientLock[c] # t

\* The PORT or PASV that was acknowledged to the peer is still in force when
\* it sends its transfer command, in spite of the tail of the previous
\* transfer, which writes eDataConnection after it has announced WAITING.
\* It needs a strict peer.  A LIST sent too early, or a STAT, leaves such a
\* tail while eDataConnection is NONE, and PORT then does not wait for it; a
\* PASV that follows a PRET never does.
AcknowledgedConnectionHolds ==
    \A c \in Clients : armed[c] => eDataConnection[c] # "NONE"

\* When ABOR reports that the transfer has been stopped no thread of the
\* session is transferring, whether the thread was cancelled in time or ended
\* by itself while Shell had the lock released.
AborStopsTransfer ==
    \A c \in Clients : shell[c] = "relock" =>
        \A t \in Threads : owner[t] = c => ~InTransfer(t)

\* The reset that PORT and PASV do has no thread to cancel: only ABOR, or a
\* command that failed, waits for a thread.
PortNeverCancels ==
    \A c \in Clients : shell[c] \in {"read", "cancel", "join", "relock"} => cont[c] = "cmd"

----------------------------------------------------------------------------
(* Refinement.                                                             *)

\* The threads that may still touch the entry of client c.
Holders(c) ==
    {t \in Threads : owner[t] = c /\ UsesEntry(t)} \cup (IF ShellUsesEntry(c) THEN {c} ELSE {})

Lifetime == INSTANCE EntryLifetime WITH
    state <- entry, holders <- [c \in Clients |-> Holders(c)]

\* The flags eStatus and bIsCtrlCanalOpen implement reference counting: the
\* entry is deleted in the very step in which its last user leaves it.
RefinesLifetime == Lifetime!Spec

----------------------------------------------------------------------------
(* Liveness.                                                               *)

\* If no transfer blocks forever, the entry of a client that has left is
\* eventually deleted, by Shell or by the transfer thread it was left to.
EndedSessionFreed ==
    (\A t \in Threads : []<>(thread[t] # "work")) =>
        \A c \in Clients : (shell[c] = "exitList") ~> (entry[c] = "freed")

\* ABOR never hangs: the thread it joins ends although it may be blocked in
\* an RPC, or waiting for ClientListLock behind other clients.
AborReturns == \A c \in Clients : (shell[c] = "join") ~> (shell[c] = "relock")

=============================================================================
