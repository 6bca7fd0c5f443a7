----------------------------- MODULE FtpServer -----------------------------
(***************************************************************************)
(* The CFtpServer object of CFtpServer.cpp: listening and accepting, the   *)
(* list of clients and the range of the data ports.                        *)
(*                                                                         *)
(* The threads that own the object call StartListening, StopListening,     *)
(* StartAccepting and SetDataPortRange in any order, one at a time under   *)
(* FtpServerLock (main calls each once).  The accepting thread clears the  *)
(* two flags without that lock, puts entries into the client list under    *)
(* ClientListLock, and may delete them again without it.                   *)
(* The Shells take an entry out of the list when their session ends, and   *)
(* look for a data port in its range when their client sends PASV.         *)
(* ClientSession has the rest of them.                                     *)
(* Left out: uiNumberOfClient, which is only there for GetNumberOfClient,  *)
(* PORT, and PASV after PRET, which take no port of this host to listen on.*)
(*                                                                         *)
(* The listening socket is the TCP port that it is bound to.  The clients  *)
(* come to one address of the host, so their data ports meet.              *)
(***************************************************************************)
EXTENDS Integers, Sequences, FiniteSets, SequencesExt

CONSTANTS
    Callers,    \* the threads that call the server
    Acceptors,  \* the threads that StartAccepting may create, each only once
    Entries,    \* the CClientEntry objects, one for each client that connects
    Passive,    \* bound: those whose clients send PASV
    Ports,      \* what StartListening is called with
    Ranges,     \* what SetDataPortRange is called with: <<usStart, usLen>>
    Busy,       \* the ports that other programs have
    Null        \* no entry, thread, socket or search; a free lock

ASSUME NullAssumption == Null \notin Callers \cup Acceptors \cup Entries \cup Ports

\* A port has 16 bits.
MaxPort == 65535

ASSUME RangesAssumption ==
    \A r \in Ranges : r[1] \in 1..MaxPort /\ r[2] \in 1..MaxPort /\ r[1] + r[2] <= MaxPort

VARIABLES
    caller,             \* where each caller is
    port,               \* the argument of its StartListening, or Null
    FtpServerLock,      \* the caller that holds it
    bIsListening, bIsAccepting, ListeningSock, AcceptingThreadID,
    open,               \* the listening sockets that are open
    at,                 \* where each accepting thread is
    sock,               \* its copy of ListeningSock
    client,             \* its pClient
    cancelled,          \* the accepting threads that pthread_cancel was called on
    DataPortRange,      \* <<usStart, usLen>>
    entry,              \* each CClientEntry: "none" before AddClient, "live", or "freed"
    shell,              \* where its Shell is
    eDataConnection,    \* "PASV" once the client has been told a port
    DataSock,           \* "none", "open" from socket() to listen(), "listening" or
                        \* "connected"
    usDataPort,         \* the port that it is bound to, or 0
    search,             \* the ports that PASV tries: the first one, the one it is at
                        \* and the last one; Null when it tries none
    ClientListLock,     \* the entry whose Shell holds it
    pFirstClient, pLastClient, pNextClient, pPrevClient,
    lateEnd,            \* history: an accepting thread that ended has cleared the
                        \* bIsListening of a later StartListening or StartAccepting,
    raced               \* and an entry was deleted without ClientListLock
                        \* while another thread changed the list

calls == <<caller, port>>
listening == <<bIsListening, ListeningSock, open>>
accepting == <<bIsAccepting, AcceptingThreadID>>
acceptors == <<at, sock, client, cancelled>>
links == <<pFirstClient, pLastClient, pNextClient, pPrevClient>>
list == <<links, entry, raced, ClientListLock>>
dataports == <<eDataConnection, DataSock, usDataPort, search>>
shells == <<shell, dataports>>
vars == <<calls, FtpServerLock, listening, accepting, acceptors, DataPortRange, list, shells,
          lateEnd>>

Init ==
    /\ caller = [c \in Callers |-> "idle"] /\ port = [c \in Callers |-> Null]
    /\ FtpServerLock = Null
    /\ bIsListening = FALSE /\ ListeningSock = Null /\ open = {}
    /\ bIsAccepting = FALSE /\ AcceptingThreadID = Null
    /\ at = [t \in Acceptors |-> "none"]
    /\ sock = [t \in Acceptors |-> Null]
    /\ client = [t \in Acceptors |-> Null]
    /\ cancelled = {}
    /\ DataPortRange \in Ranges
    /\ entry = [e \in Entries |-> "none"]
    /\ shell = [e \in Entries |-> "none"]
    /\ eDataConnection = [e \in Entries |-> "NONE"] /\ DataSock = [e \in Entries |-> "none"]
    /\ usDataPort = [e \in Entries |-> 0] /\ search = [e \in Entries |-> Null]
    /\ ClientListLock = Null
    /\ pFirstClient = Null /\ pLastClient = Null
    /\ pNextClient = [e \in Entries |-> Null] /\ pPrevClient = [e \in Entries |-> Null]
    /\ lateEnd = FALSE /\ raced = FALSE

Call(c, from, to) == caller[c] = from /\ caller' = [caller EXCEPT ![c] = to]
Enter(c) == FtpServerLock = Null /\ FtpServerLock' = c
Leave(c) == FtpServerLock = c /\ FtpServerLock' = Null

----------------------------------------------------------------------------
(* StartListening and StopListening.                                       *)

\* The lock is left for StopListening as long as the server listens.
StartListening(c) ==
    /\ FtpServerLock = Null
    /\ \E p \in Ports :
        /\ IF caller[c] = "idle" THEN TRUE ELSE caller[c] = "again" /\ p = port[c]
        /\ \/ /\ bIsListening
              /\ caller' = [caller EXCEPT ![c] = "stop"]
              /\ port' = [port EXCEPT ![c] = p]
              /\ UNCHANGED listening
           \/ /\ ~bIsListening
              /\ caller' = [caller EXCEPT ![c] = "idle"]
              /\ port' = [port EXCEPT ![c] = Null]
              /\ \/ /\ p \notin open
                    /\ ListeningSock' = p /\ open' = open \cup {p} /\ bIsListening' = TRUE
                 \/ ListeningSock' = Null /\ UNCHANGED <<open, bIsListening>>
    /\ UNCHANGED <<FtpServerLock, accepting, acceptors, DataPortRange, list, shells, lateEnd>>

Returned(c) == IF port[c] = Null THEN "idle" ELSE "again"

\* Mutant: ListeningSock stays.
StopListeningKeeps(c) ==
    /\ caller[c] \in {"idle", "stop"} /\ FtpServerLock = Null
    /\ \/ /\ bIsListening
          /\ caller' = [caller EXCEPT ![c] = "cancel"]
          /\ FtpServerLock' = c
          /\ open' = open \ {ListeningSock}
       \/ /\ ~bIsListening
          /\ caller' = [caller EXCEPT ![c] = Returned(c)]
          /\ UNCHANGED <<FtpServerLock, open>>
    /\ UNCHANGED <<port, bIsListening, ListeningSock, accepting, acceptors, DataPortRange, list,
                   shells, lateEnd>>

\* StopListening closes the socket, unless the server does not listen.
StopListening(c) ==
    /\ caller[c] \in {"idle", "stop"} /\ FtpServerLock = Null
    /\ \/ /\ bIsListening
          /\ caller' = [caller EXCEPT ![c] = "cancel"]
          /\ FtpServerLock' = c
          /\ ListeningSock' = Null /\ open' = open \ {ListeningSock}
       \/ /\ ~bIsListening
          /\ caller' = [caller EXCEPT ![c] = Returned(c)]
          /\ UNCHANGED <<FtpServerLock, ListeningSock, open>>
    /\ UNCHANGED <<port, bIsListening, accepting, acceptors, DataPortRange, list, shells,
                   lateEnd>>

\* Mutant: the accepting thread is left to itself.
StopCancelNever(c) ==
    /\ Call(c, "cancel", "stopped")
    /\ UNCHANGED <<port, FtpServerLock, listening, accepting, acceptors, DataPortRange, list,
                   shells, lateEnd>>

\* pthread_cancel fails for a thread that an earlier StopListening has joined
\* (bIsAccepting stays TRUE then; the call is undefined).
StopCancel(c) ==
    /\ \/ /\ bIsAccepting /\ at[AcceptingThreadID] # "joined"
          /\ Call(c, "cancel", "join")
          /\ cancelled' = cancelled \cup {AcceptingThreadID}
       \/ /\ bIsAccepting => at[AcceptingThreadID] = "joined"
          /\ Call(c, "cancel", "stopped")
          /\ UNCHANGED cancelled
    /\ UNCHANGED <<port, FtpServerLock, listening, accepting, at, sock, client, DataPortRange,
                   list, shells, lateEnd>>

\* pthread_join waits for the thread to end.
StopJoin(c) ==
    /\ Call(c, "join", "stopped") /\ at[AcceptingThreadID] = "done"
    /\ at' = [at EXCEPT ![AcceptingThreadID] = "joined"]
    /\ cancelled' = {}
    /\ UNCHANGED <<port, FtpServerLock, listening, accepting, sock, client, DataPortRange, list,
                   shells, lateEnd>>

\* The lock is left for STOP_LISTENING, and once more taken and left after it.
StopReturn(c) ==
    /\ Call(c, "stopped", Returned(c)) /\ Leave(c)
    /\ bIsListening' = FALSE
    /\ UNCHANGED <<port, ListeningSock, open, accepting, acceptors, DataPortRange, list, shells,
                   lateEnd>>

----------------------------------------------------------------------------
(* StartAccepting and SetDataPortRange.                                    *)

\* pthread_create, or it fails; nothing is done if the server accepts.
StartAccepting(c) ==
    /\ ~bIsAccepting /\ bIsListening
    /\ Call(c, "idle", "created") /\ Enter(c)
    /\ \E t \in Acceptors :
        /\ at[t] = "none"
        /\ at' = [at EXCEPT ![t] = "start"]
        /\ AcceptingThreadID' = t
    /\ UNCHANGED <<port, bIsAccepting, listening, sock, client, cancelled, DataPortRange, list,
                   shells, lateEnd>>

\* The thread that has been created may have ended already.
StartedAccepting(c) ==
    /\ Call(c, "created", "idle") /\ Leave(c)
    /\ bIsAccepting' = TRUE
    /\ UNCHANGED <<port, listening, AcceptingThreadID, acceptors, DataPortRange, list, shells,
                   lateEnd>>

SetDataPortRange(c) ==
    /\ caller[c] = "idle" /\ FtpServerLock = Null
    /\ DataPortRange' \in Ranges
    /\ UNCHANGED <<calls, FtpServerLock, listening, accepting, acceptors, list, shells, lateEnd>>

----------------------------------------------------------------------------
(* The client list.                                                        *)

\* Who is between the two steps of taking an entry out of the list: the
\* accepting threads without a lock, the Shells with ClientListLock.
Deleting == {t \in Acceptors : at[t] = "unlinked"}
Unlinking == Deleting \cup {e \in Entries : shell[e] = "unlinked"}

\* An update of the list begins, with ClientListLock.
Update == raced' = (raced \/ Deleting # {})

AppendClient(e) ==
    /\ pLastClient' = e
    /\ IF pLastClient = Null THEN pFirstClient' = e /\ UNCHANGED <<pNextClient, pPrevClient>>
       ELSE /\ pNextClient' = [pNextClient EXCEPT ![pLastClient] = e]
            /\ pPrevClient' = [pPrevClient EXCEPT ![e] = pLastClient]
            /\ UNCHANGED pFirstClient

\* ~CClientEntry: the neighbours of e first,
UnlinkNeighbours(e) ==
    /\ pNextClient' = [x \in Entries |-> IF x = pPrevClient[e] THEN pNextClient[e] ELSE pNextClient[x]]
    /\ pPrevClient' = [x \in Entries |-> IF x = pNextClient[e] THEN pPrevClient[e] ELSE pPrevClient[x]]

\* then the ends of the list.
UnlinkEnds(e) ==
    /\ pFirstClient' = IF pFirstClient = e THEN pNextClient[e] ELSE pFirstClient
    /\ pLastClient' = IF pLastClient = e THEN pPrevClient[e] ELSE pLastClient
    /\ pNextClient' = [pNextClient EXCEPT ![e] = Null]
    /\ pPrevClient' = [pPrevClient EXCEPT ![e] = Null]
    /\ entry' = [entry EXCEPT ![e] = "freed"]

----------------------------------------------------------------------------
(* StartAcceptingEx.                                                       *)

Walk(t, from, to) == at[t] = from /\ at' = [at EXCEPT ![t] = to]

AcceptingBegins(t) ==
    /\ Walk(t, "start", "select")
    /\ sock' = [sock EXCEPT ![t] = ListeningSock]
    /\ UNCHANGED <<calls, FtpServerLock, listening, accepting, client, cancelled, DataPortRange,
                   list, shells, lateEnd>>

\* select, accept, the connection to redis and the callbacks, also that of
\* the destructor, are the places where a cancellation takes effect.
ActOnCancel(t) ==
    /\ t \in cancelled /\ at[t] \in {"select", "redis", "delete"}
    /\ at' = [at EXCEPT ![t] = "done"]
    /\ sock' = [sock EXCEPT ![t] = Null] /\ client' = [client EXCEPT ![t] = Null]
    /\ UNCHANGED <<calls, FtpServerLock, listening, accepting, cancelled, DataPortRange, list,
                   shells, lateEnd>>

\* A client connects, and AddClient begins.
Accept(t) ==
    /\ Walk(t, "select", "link") /\ sock[t] \in open
    /\ \E e \in Entries :
        /\ entry[e] = "none"
        /\ entry' = [entry EXCEPT ![e] = "live"]
        /\ client' = [client EXCEPT ![t] = e]
    /\ UNCHANGED <<calls, FtpServerLock, listening, accepting, sock, cancelled, DataPortRange,
                   links, raced, ClientListLock, shells, lateEnd>>

\* Mutant: ClientListLock is not taken.
AddClientUnlocked(t) ==
    /\ Walk(t, "link", "redis")
    /\ AppendClient(client[t])
    /\ Update
    /\ UNCHANGED <<calls, FtpServerLock, listening, accepting, sock, client, cancelled,
                   DataPortRange, entry, ClientListLock,
                   shells, lateEnd>>

AddClient(t) ==
    /\ Walk(t, "link", "redis") /\ ClientListLock = Null
    /\ AppendClient(client[t])
    /\ Update
    /\ UNCHANGED <<calls, FtpServerLock, listening, accepting, sock, client, cancelled,
                   DataPortRange, entry, ClientListLock, shells,
                   lateEnd>>

\* Redis cannot be reached: AddClient returns NULL and leaves the entry.
AddClientFails(t) ==
    /\ Walk(t, "redis", "select")
    /\ client' = [client EXCEPT ![t] = Null]
    /\ UNCHANGED <<calls, FtpServerLock, listening, accepting, sock, cancelled, DataPortRange,
                   list, shells, lateEnd>>

\* The Shell is created,
CreateShell(t) ==
    /\ Walk(t, "redis", "select")
    /\ shell' = [shell EXCEPT ![client[t]] = "read"]
    /\ client' = [client EXCEPT ![t] = Null]
    /\ UNCHANGED <<calls, FtpServerLock, listening, accepting, sock, cancelled, DataPortRange,
                   list, dataports, lateEnd>>

\* or it cannot be: the accepting thread deletes the entry, without the lock.
CreateShellFails(t) ==
    /\ Walk(t, "redis", "delete")
    /\ UNCHANGED <<calls, FtpServerLock, listening, accepting, sock, client, cancelled,
                   DataPortRange, list, shells, lateEnd>>

DeleteUnlink(t) ==
    /\ Walk(t, "delete", "unlinked")
    /\ UnlinkNeighbours(client[t])
    /\ raced' = (raced \/ Unlinking # {})
    /\ UNCHANGED <<calls, FtpServerLock, listening, accepting, sock, client, cancelled,
                   DataPortRange, pFirstClient, pLastClient, entry, ClientListLock, shells,
                   lateEnd>>

DeleteEnds(t) ==
    /\ Walk(t, "unlinked", "select")
    /\ UnlinkEnds(client[t])
    /\ client' = [client EXCEPT ![t] = Null]
    /\ UNCHANGED <<calls, FtpServerLock, listening, accepting, sock, cancelled, DataPortRange,
                   raced, ClientListLock, shells, lateEnd>>

\* select or accept fails: the loop ends, and the socket stays open.
AcceptFails(t) ==
    /\ Walk(t, "select", "end")
    /\ UNCHANGED <<calls, FtpServerLock, listening, accepting, sock, client, cancelled,
                   DataPortRange, list, shells, lateEnd>>

EndAccepting(t) ==
    /\ Walk(t, "end", "ending")
    /\ bIsAccepting' = FALSE
    /\ UNCHANGED <<calls, FtpServerLock, listening, AcceptingThreadID, sock, client, cancelled,
                   DataPortRange, list, shells, lateEnd>>

EndListening(t) ==
    /\ Walk(t, "ending", "done")
    /\ bIsListening' = FALSE
    /\ lateEnd' = (lateEnd \/ (bIsListening /\ <<sock[t], t>> # <<ListeningSock, AcceptingThreadID>>))
    /\ sock' = [sock EXCEPT ![t] = Null]
    /\ UNCHANGED <<calls, FtpServerLock, ListeningSock, open, accepting, client, cancelled,
                   DataPortRange, list, shells>>

----------------------------------------------------------------------------
(* The Shells.                                                             *)

ShellStep(e, from, to) == shell[e] = from /\ shell' = [shell EXCEPT ![e] = to]

\* PASV opens a socket, after ResetDataConnection if it has to close one, and
\* GetDataPortRange takes FtpServerLock.  Any port of the range is tried first;
\* the last one tried is usStart + usLen.
PasvBegins(e) ==
    /\ e \in Passive /\ DataSock[e] # "connected" /\ FtpServerLock = Null
    /\ ShellStep(e, "read", "bind")
    /\ eDataConnection' = [eDataConnection EXCEPT ![e] = "NONE"]
    /\ DataSock' = [DataSock EXCEPT ![e] = "open"]
    /\ usDataPort' = [usDataPort EXCEPT ![e] = 0]
    /\ LET start == DataPortRange[1]
           len == DataPortRange[2] IN
       \E first \in start..(start + len - 1) :
          search' = [search EXCEPT ![e] = [usFirstTry |-> first, usTriedPort |-> first,
                                           last |-> start + len]]
    /\ UNCHANGED <<calls, FtpServerLock, listening, accepting, acceptors, DataPortRange, list,
                   lateEnd>>

\* Another program, or the DataSock of another client, listens on the port.
\* With SO_REUSEADDR a socket that is only bound to it hinders nobody.
Occupied(e, p) ==
    p \in Busy \/ \E x \in Entries \ {e} : DataSock[x] = "listening" /\ usDataPort[x] = p

\* bind fails for a port that is occupied.  Behind the first port, which has
\* none below it that is tried, comes the last one; back at the first one,
\* there is none (451).
TryPort(e) ==
    /\ shell[e] = "bind"
    /\ LET try == search[e]
           next == IF try.usTriedPort - 1 < try.usFirstTry THEN try.last
                   ELSE try.usTriedPort - 1 IN
       \/ /\ ~Occupied(e, try.usTriedPort)
          /\ ShellStep(e, "bind", "listen")
          /\ usDataPort' = [usDataPort EXCEPT ![e] = try.usTriedPort]
          /\ search' = [search EXCEPT ![e] = Null]
       \/ /\ Occupied(e, try.usTriedPort) /\ next # try.usFirstTry
          /\ search' = [search EXCEPT ![e].usTriedPort = next]
          /\ UNCHANGED <<shell, usDataPort>>
       \/ /\ Occupied(e, try.usTriedPort) /\ next = try.usFirstTry
          /\ ShellStep(e, "bind", "read")
          /\ search' = [search EXCEPT ![e] = Null]
          /\ UNCHANGED usDataPort
    /\ UNCHANGED <<calls, FtpServerLock, listening, accepting, acceptors, DataPortRange, list,
                   eDataConnection, DataSock, lateEnd>>

\* Mutant: the result of listen is not looked at.
ListenUnchecked(e) ==
    /\ ShellStep(e, "listen", "read")
    /\ eDataConnection' = [eDataConnection EXCEPT ![e] = "PASV"]
    /\ DataSock' = [DataSock EXCEPT ![e] = IF Occupied(e, usDataPort[e]) THEN @ ELSE "listening"]
    /\ UNCHANGED <<calls, FtpServerLock, listening, accepting, acceptors, DataPortRange, list,
                   usDataPort, search, lateEnd>>

\* listen fails if another client's socket on the port has come first: there is
\* no reply then, and the socket stays.
Listen(e) ==
    /\ ShellStep(e, "listen", "read")
    /\ \/ /\ ~Occupied(e, usDataPort[e])
          /\ eDataConnection' = [eDataConnection EXCEPT ![e] = "PASV"]
          /\ DataSock' = [DataSock EXCEPT ![e] = "listening"]
       \/ /\ Occupied(e, usDataPort[e])
          /\ UNCHANGED <<eDataConnection, DataSock>>
    /\ UNCHANGED <<calls, FtpServerLock, listening, accepting, acceptors, DataPortRange, list,
                   usDataPort, search, lateEnd>>

\* A transfer: EstablishDataConnection accepts the client, and closes the
\* socket that listens.
Connect(e) ==
    /\ shell[e] = "read" /\ DataSock[e] = "listening"
    /\ DataSock' = [DataSock EXCEPT ![e] = "connected"]
    /\ UNCHANGED <<calls, FtpServerLock, listening, accepting, acceptors, DataPortRange, list,
                   shell, eDataConnection, usDataPort, search, lateEnd>>

\* The data connection has been used, or given up.
ResetDataConnection(e) ==
    /\ shell[e] = "read" /\ eDataConnection[e] # "NONE"
    /\ eDataConnection' = [eDataConnection EXCEPT ![e] = "NONE"]
    /\ DataSock' = [DataSock EXCEPT ![e] = "none"]
    /\ usDataPort' = [usDataPort EXCEPT ![e] = 0]
    /\ UNCHANGED <<calls, FtpServerLock, listening, accepting, acceptors, DataPortRange, list,
                   shell, search, lateEnd>>

\* The session ends: its Shell, or its last transfer, takes ClientListLock and
\* deletes the entry.
Unlink(e) ==
    /\ ShellStep(e, "read", "unlinked") /\ ClientListLock = Null
    /\ ClientListLock' = e
    /\ UnlinkNeighbours(e)
    /\ Update
    /\ UNCHANGED <<calls, FtpServerLock, listening, accepting, acceptors, DataPortRange,
                   pFirstClient, pLastClient, entry, dataports, lateEnd>>

Delete(e) ==
    /\ ShellStep(e, "unlinked", "none")
    /\ eDataConnection' = [eDataConnection EXCEPT ![e] = "NONE"]
    /\ DataSock' = [DataSock EXCEPT ![e] = "none"]
    /\ usDataPort' = [usDataPort EXCEPT ![e] = 0]
    /\ ClientListLock' = Null
    /\ UnlinkEnds(e)
    /\ UNCHANGED <<calls, FtpServerLock, listening, accepting, acceptors, DataPortRange, raced,
                   search, lateEnd>>

----------------------------------------------------------------------------
Stop(c) == StopListening(c) \/ StopCancel(c) \/ StopJoin(c) \/ StopReturn(c)

ServerCall(c) ==
    \/ StartListening(c) \/ Stop(c)
    \/ StartAccepting(c) \/ StartedAccepting(c) \/ SetDataPortRange(c)

Accepting(t) ==
    \/ AcceptingBegins(t) \/ ActOnCancel(t) \/ AddClient(t)
    \/ DeleteUnlink(t) \/ DeleteEnds(t) \/ EndAccepting(t) \/ EndListening(t)

Redis(t) == AddClientFails(t) \/ CreateShell(t) \/ CreateShellFails(t)

Pasv(e) == PasvBegins(e) \/ TryPort(e) \/ Listen(e)

Session(e) == Pasv(e) \/ Connect(e) \/ ResetDataConnection(e) \/ Unlink(e)

Next ==
    \/ \E c \in Callers : ServerCall(c)
    \/ \E t \in Acceptors : Accepting(t) \/ Redis(t) \/ Accept(t) \/ AcceptFails(t)
    \/ \E e \in Entries : Session(e) \/ Delete(e)

Spec == Init /\ [][Next]_vars

----------------------------------------------------------------------------
(* Type correctness.                                                       *)

Maybe(S) == S \cup {Null}

\* A search is at a port from the first to the last one.
Searches ==
    {try \in [usFirstTry : 1..MaxPort, usTriedPort : 1..MaxPort, last : 1..MaxPort] :
        try.usFirstTry <= try.usTriedPort /\ try.usTriedPort <= try.last}

\* Every variable has its type; the accepting thread has an entry exactly
\* while it works on one, and the Shell a search while it binds.
TypeOK ==
    /\ caller \in [Callers -> {"idle", "again", "stop", "cancel", "join", "stopped", "created"}]
    /\ port \in [Callers -> Maybe(Ports)] /\ FtpServerLock \in Maybe(Callers)
    /\ bIsListening \in BOOLEAN /\ ListeningSock \in Maybe(open) /\ open \subseteq Ports
    /\ bIsAccepting \in BOOLEAN /\ AcceptingThreadID \in Maybe(Acceptors)
    /\ at \in [Acceptors -> {"none", "start", "select", "link", "redis",
                             "delete", "unlinked", "end", "ending", "done", "joined"}]
    /\ sock \in [Acceptors -> Maybe(Ports)] /\ cancelled \subseteq Acceptors
    /\ \A t \in Acceptors : IF at[t] \in {"link", "redis", "delete", "unlinked"}
                            THEN client[t] \in Entries ELSE client[t] = Null
    /\ DataPortRange \in Ranges
    /\ entry \in [Entries -> {"none", "live", "freed"}]
    /\ shell \in [Entries -> {"none", "read", "bind", "listen", "unlinked"}]
    /\ eDataConnection \in [Entries -> {"NONE", "PASV"}]
    /\ DataSock \in [Entries -> {"none", "open", "listening", "connected"}]
    /\ usDataPort \in [Entries -> 0..MaxPort]
    /\ \A e \in Entries : IF shell[e] = "bind" THEN search[e] \in Searches ELSE search[e] = Null
    /\ ClientListLock \in Maybe(Entries) /\ pFirstClient \in Maybe(Entries)
    /\ pLastClient \in Maybe(Entries)
    /\ pNextClient \in [Entries -> Maybe(Entries)] /\ pPrevClient \in [Entries -> Maybe(Entries)]
    /\ lateEnd \in BOOLEAN /\ raced \in BOOLEAN

----------------------------------------------------------------------------
(* Safety.                                                                 *)

\* The entries that AddClient has put into the list.
Linked ==
    {e \in Entries : entry[e] = "live" /\ \A t \in Acceptors : at[t] = "link" => client[t] # e}

\* Between two updates the client list holds the entries that are alive, each
\* once, in both directions: those with a Shell, and those that AddClient or a
\* cancelled thread has left behind.  An accepting thread that cannot create a
\* Shell deletes the entry without ClientListLock; if another thread changes
\* the list meanwhile, nothing is promised.
ClientListConsistent ==
    Unlinking = {} /\ ~raced =>
        LET n == Cardinality(Linked) IN
        \E order \in [1..n -> Linked] :
            LET place(i) == IF i \in 1..n THEN order[i] ELSE Null IN
            /\ {order[i] : i \in 1..n} = Linked
            /\ pFirstClient = place(1) /\ pLastClient = place(n)
            /\ \A i \in 1..n : /\ pNextClient[order[i]] = place(i + 1)
                               /\ pPrevClient[order[i]] = place(i - 1)

\* No accepting thread goes on with a socket that StopListening has closed or
\* StartListening has replaced, and only one accepts at a time, whatever
\* several callers do.  What an accepting thread clears after accept has
\* failed may be that of a later call; nothing is promised then.
NoStrayAcceptor ==
    FtpServerLock = Null /\ ~lateEnd =>
        \A t \in Acceptors :
            at[t] \notin {"none", "end", "ending", "done", "joined"} =>
                /\ bIsListening /\ bIsAccepting /\ AcceptingThreadID = t
                /\ ListeningSock # Null /\ (at[t] # "start" => sock[t] = ListeningSock)

\* A client that has been told a port and has not come yet is waited for on
\* it: its socket listens there, and no other does, neither another program's
\* nor another client's.  Two sessions may have bound the port before.
DataPortPromised ==
    \A e \in Entries : eDataConnection[e] = "PASV" /\ DataSock[e] # "connected" =>
        DataSock[e] = "listening" /\ ~Occupied(e, usDataPort[e])

\* The port that a client is told is one of the usLen ports from usStart.
DataPortInRange ==
    \A e \in Entries : eDataConnection[e] = "PASV" =>
        \E r \in Ranges : usDataPort[e] \in r[1]..(r[1] + r[2] - 1)

=============================================================================
