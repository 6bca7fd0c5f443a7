-------------------------- MODULE FtpServerProofs --------------------------
(***************************************************************************)
(* Proofs about FtpServer, for any number of callers, accepting threads,    *)
(* clients and ports.                                                      *)
(*                                                                         *)
(* FtpServerLock tells which caller is inside StopListening or              *)
(* StartAccepting; where it is tells what an accepting thread that has not *)
(* left its loop may rely on.  The pointers of the client list follow an   *)
(* order of its entries, from which one that is being deleted has gone.    *)
(* A data port belongs to the socket whose listen has come first.          *)
(***************************************************************************)
EXTENDS FtpServer, FiniteSetTheorems, TLAPS

USE DEF calls, listening, accepting, acceptors, links, list, shells

\* In the loop of StartAcceptingEx, and there or just behind it.
InLoop(t) == at[t] \in {"start", "select", "link", "redis", "delete", "unlinked"}
Running(t) == InLoop(t) \/ at[t] = "end"

Inside(c) == caller[c] \in {"cancel", "join", "stopped", "created"}

\* The variables that matter here have their types.
ServerTypes ==
    /\ caller \in [Callers -> {"idle", "again", "stop", "cancel", "join", "stopped", "created"}]
    /\ FtpServerLock \in Callers \cup {Null}
    /\ at \in [Acceptors -> {"none", "start", "select", "link", "redis",
                             "delete", "unlinked", "end", "ending", "done", "joined"}]
    /\ sock \in [Acceptors -> Ports \cup {Null}]
    /\ ListeningSock \in Ports \cup {Null}
    /\ bIsListening \in BOOLEAN /\ bIsAccepting \in BOOLEAN /\ lateEnd \in BOOLEAN

\* FtpServerLock is the caller's that is inside one of the two calls.
LockInv == \A c \in Callers : Inside(c) <=> FtpServerLock = c

Unlocked == FtpServerLock = Null
Created == FtpServerLock # Null /\ caller[FtpServerLock] = "created"
Cancelling == FtpServerLock # Null /\ caller[FtpServerLock] = "cancel"

\* The thread that runs is the one that StartAccepting has created last, and
\* StopListening does not return before it is joined.
RunningInv ==
    \A t \in Acceptors : Running(t) =>
        /\ AcceptingThreadID = t
        /\ Unlocked \/ Cancelling => bIsAccepting
        /\ FtpServerLock # Null => caller[FtpServerLock] # "stopped"

\* A server that listens has a socket, until StopListening closes it.
SocketInv == bIsListening /\ (Unlocked \/ Created) => ListeningSock # Null

\* The thread in its loop accepts on that socket.
LoopInv ==
    ~lateEnd /\ (Unlocked \/ Created) =>
        \A t \in Acceptors : InLoop(t) =>
            bIsListening /\ (at[t] # "start" => sock[t] = ListeningSock)

ServerInv == ServerTypes /\ LockInv /\ RunningInv /\ SocketInv /\ LoopInv

USE NullAssumption

LEMMA InitServer == Init => ServerInv
<1> SUFFICES ASSUME Init PROVE ServerInv
  OBVIOUS
<1>1. ServerTypes
  BY DEF Init, ServerTypes
<1>2. LockInv
  BY DEF Init, LockInv, Inside
<1>3. \A t \in Acceptors : ~Running(t) /\ ~InLoop(t)
  BY DEF Init, Running, InLoop
<1>4. SocketInv
  BY DEF Init, SocketInv
<1>5. QED
  BY <1>1, <1>2, <1>3, <1>4 DEF ServerInv, RunningInv, LoopInv

\* The variables that ServerInv reads.
Server == <<caller, FtpServerLock, bIsListening, ListeningSock, bIsAccepting, AcceptingThreadID, at,
            sock, lateEnd>>

LEMMA Unread == ServerInv /\ UNCHANGED Server => ServerInv'
BY DEF Server, ServerInv, ServerTypes, LockInv, RunningInv, SocketInv, LoopInv, Inside, Running,
       InLoop, Unlocked, Created, Cancelling

\* A step of an accepting thread within its loop, or from behind it.
Loop(t) ==
    /\ UNCHANGED <<caller, FtpServerLock, bIsListening, ListeningSock, bIsAccepting,
                   AcceptingThreadID, lateEnd>>
    /\ \E place \in {"select", "link", "redis", "delete", "unlinked", "end"} :
        at[t] \notin {"none", "end", "ending", "done", "joined"}
        /\ at' = [at EXCEPT ![t] = place]
    /\ sock' = [sock EXCEPT ![t] = IF at[t] = "start" THEN ListeningSock ELSE @]

LEMMA LoopStep ==
    ASSUME NEW t \in Acceptors, ServerInv, Loop(t) PROVE ServerInv'
<1> USE DEF ServerInv
<1>1. PICK place \in {"select", "link", "redis", "delete", "unlinked", "end"} :
        /\ at[t] \notin {"none", "end", "ending", "done", "joined"}
        /\ at' = [at EXCEPT ![t] = place]
  BY DEF Loop
<1>2. InLoop(t)
  BY <1>1 DEF InLoop, ServerTypes
<1>3. ServerTypes'
  BY <1>1 DEF ServerTypes, Loop
<1>4. LockInv'
  BY DEF LockInv, Inside, Loop
<1>5. \A u \in Acceptors : (Running(u)' => Running(u)) /\ (InLoop(u)' => InLoop(u))
  BY <1>1, <1>2 DEF Running, InLoop, ServerTypes
<1>6. RunningInv'
  BY <1>5 DEF RunningInv, Unlocked, Cancelling, Loop
<1>7. SocketInv'
  BY DEF SocketInv, Unlocked, Created, Loop
<1>8. LoopInv'
  <2> SUFFICES ASSUME ~lateEnd, Unlocked \/ Created, NEW u \in Acceptors, InLoop(u)'
               PROVE  bIsListening /\ (at'[u] # "start" => sock'[u] = ListeningSock)
    BY DEF LoopInv, Loop, Unlocked, Created
  <2>1. InLoop(u) /\ bIsListening /\ (at[u] # "start" => sock[u] = ListeningSock)
    BY <1>5 DEF LoopInv
  <2>2. at'[u] # "start" => sock'[u] = ListeningSock
    BY <2>1, <1>1 DEF Loop, ServerTypes
  <2>3. QED
    BY <2>1, <2>2
<1>9. QED
  BY <1>3, <1>4, <1>6, <1>7, <1>8

\* The steps of accepting threads that are of this kind.
LEMMA LoopSteps ==
    ASSUME NEW t \in Acceptors, ServerInv,
           \/ AcceptingBegins(t) \/ AddClient(t) \/ DeleteUnlink(t) \/ DeleteEnds(t)
           \/ Redis(t) \/ Accept(t) \/ AcceptFails(t)
    PROVE  Loop(t)
<1> USE DEF Walk, Loop, ServerInv, ServerTypes
<1>1. CASE AcceptingBegins(t)
  BY <1>1 DEF AcceptingBegins
<1>2. CASE AddClient(t)
  BY <1>2 DEF AddClient
<1>3. CASE DeleteUnlink(t)
  BY <1>3 DEF DeleteUnlink
<1>4. CASE DeleteEnds(t)
  BY <1>4 DEF DeleteEnds
<1>5. CASE Redis(t)
  BY <1>5 DEF Redis, AddClientFails, CreateShell, CreateShellFails
<1>6. CASE Accept(t)
  BY <1>6 DEF Accept
<1>7. CASE AcceptFails(t)
  BY <1>7 DEF AcceptFails
<1>8. QED
  BY <1>1, <1>2, <1>3, <1>4, <1>5, <1>6, <1>7

\* Who holds the lock, and what that says.
LEMMA Holder ==
    ASSUME LockInv, NEW c \in Callers
    PROVE  /\ FtpServerLock = Null => ~Inside(c)
           /\ Inside(c) => FtpServerLock = c /\ FtpServerLock # Null
BY DEF LockInv

LEMMA CallStep ==
    ASSUME NEW c \in Callers, ServerInv, ServerCall(c) PROVE ServerInv'
<1> USE DEF ServerInv, Call, Enter, Leave
<1>1. CASE StartListening(c)
  <2>1. Unlocked /\ FtpServerLock' = Null /\ at' = at /\ sock' = sock
        /\ lateEnd' = lateEnd /\ bIsAccepting' = bIsAccepting
        /\ AcceptingThreadID' = AcceptingThreadID
    BY <1>1 DEF StartListening, Unlocked
  <2>2. PICK place \in {"idle", "stop"} : caller' = [caller EXCEPT ![c] = place]
    BY <1>1 DEF StartListening
  <2>3. \/ bIsListening' = bIsListening /\ ListeningSock' = ListeningSock
        \/ ~bIsListening /\ bIsListening' /\ ListeningSock' \in Ports /\ bIsListening' \in BOOLEAN
        \/ ~bIsListening /\ bIsListening' = FALSE /\ ListeningSock' = Null
    BY <1>1 DEF StartListening, ServerTypes
  <2>4. ServerTypes'
    BY <2>1, <2>2, <2>3 DEF ServerTypes
  <2>5. LockInv'
    BY <2>1, <2>2 DEF LockInv, Inside, ServerTypes, Unlocked
  <2>6. RunningInv'
    BY <2>1 DEF RunningInv, Running, InLoop, Unlocked, Cancelling
  <2>7. SocketInv'
    BY <2>1, <2>3 DEF SocketInv, Unlocked, Created
  <2>8. LoopInv'
    BY <2>1, <2>3 DEF LoopInv, InLoop, Unlocked, Created
  <2>9. QED
    BY <2>4, <2>5, <2>6, <2>7, <2>8
<1>2. CASE StopListening(c)
  <2>1. /\ FtpServerLock = Null /\ at' = at /\ sock' = sock /\ lateEnd' = lateEnd
        /\ bIsAccepting' = bIsAccepting /\ AcceptingThreadID' = AcceptingThreadID
        /\ bIsListening' = bIsListening
    BY <1>2 DEF StopListening
  <2>2. CASE bIsListening
    <3>1. /\ caller' = [caller EXCEPT ![c] = "cancel"] /\ FtpServerLock' = c
          /\ ListeningSock' = Null
      BY <1>2, <2>2 DEF StopListening
    <3>2. caller'[c] = "cancel" /\ c # Null
      BY <3>1 DEF ServerTypes
    <3>3. ServerTypes'
      BY <2>1, <3>1 DEF ServerTypes
    <3>4. LockInv'
      BY <2>1, <3>1, <3>2 DEF LockInv, Inside, ServerTypes
    <3>5. RunningInv'
      BY <2>1, <3>1, <3>2 DEF RunningInv, Running, InLoop, Unlocked
    <3>6. ~Unlocked' /\ ~Created'
      BY <3>1, <3>2 DEF Unlocked, Created
    <3>7. QED
      BY <3>3, <3>4, <3>5, <3>6 DEF SocketInv, LoopInv
  <2>3. CASE ~bIsListening
    <3>1. PICK place \in {"idle", "again"} : caller' = [caller EXCEPT ![c] = place]
      BY <1>2, <2>3 DEF StopListening, Returned
    <3>2. FtpServerLock' = FtpServerLock /\ ListeningSock' = ListeningSock
      BY <1>2, <2>3 DEF StopListening
    <3>3. ServerTypes'
      BY <2>1, <3>1, <3>2 DEF ServerTypes
    <3>4. LockInv'
      BY <2>1, <3>1, <3>2 DEF LockInv, Inside, ServerTypes
    <3>5. RunningInv'
      BY <2>1, <3>2 DEF RunningInv, Running, InLoop, Unlocked, Cancelling
    <3>6. SocketInv' /\ LoopInv'
      BY <2>1, <3>2 DEF SocketInv, LoopInv, InLoop, Unlocked, Created
    <3>7. QED
      BY <3>3, <3>4, <3>5, <3>6
  <2>4. QED
    BY <2>2, <2>3
<1>3. CASE StopCancel(c)
  <2>1. /\ caller[c] = "cancel" /\ FtpServerLock = c /\ FtpServerLock' = c /\ c # Null
    BY <1>3, Holder DEF StopCancel, Inside
  <2>2. /\ at' = at /\ sock' = sock /\ lateEnd' = lateEnd /\ bIsAccepting' = bIsAccepting
        /\ AcceptingThreadID' = AcceptingThreadID /\ bIsListening' = bIsListening
        /\ ListeningSock' = ListeningSock
    BY <1>3 DEF StopCancel
  <2>3. PICK place \in {"join", "stopped"} :
            /\ caller' = [caller EXCEPT ![c] = place]
            /\ place = "stopped" => (bIsAccepting => at[AcceptingThreadID] = "joined")
    BY <1>3 DEF StopCancel
  <2>4. caller'[c] = place
    BY <2>3 DEF ServerTypes
  <2>5. ServerTypes'
    BY <2>2, <2>3, <2>1 DEF ServerTypes
  <2>6. LockInv'
    BY <2>1, <2>3 DEF LockInv, Inside, ServerTypes
  <2>7. \A t \in Acceptors : Running(t) => bIsAccepting /\ AcceptingThreadID = t /\ at[t] # "joined"
    BY <2>1 DEF RunningInv, Running, InLoop, Cancelling
  <2>8. RunningInv'
    BY <2>1, <2>2, <2>3, <2>4, <2>7 DEF RunningInv, Running, InLoop, Unlocked, Cancelling
  <2>9. ~Unlocked' /\ ~Created'
    BY <2>1, <2>3, <2>4 DEF Unlocked, Created
  <2>10. QED
    BY <2>5, <2>6, <2>8, <2>9 DEF SocketInv, LoopInv
<1>4. CASE StopJoin(c)
  <2>1. /\ caller[c] = "join" /\ FtpServerLock = c /\ FtpServerLock' = c /\ c # Null
    BY <1>4, Holder DEF StopJoin, Inside
  <2>2. /\ sock' = sock /\ lateEnd' = lateEnd /\ bIsAccepting' = bIsAccepting
        /\ AcceptingThreadID' = AcceptingThreadID /\ bIsListening' = bIsListening
        /\ ListeningSock' = ListeningSock
    BY <1>4 DEF StopJoin
  <2>3. /\ caller' = [caller EXCEPT ![c] = "stopped"]
        /\ at[AcceptingThreadID] = "done"
        /\ at' = [at EXCEPT ![AcceptingThreadID] = "joined"]
    BY <1>4 DEF StopJoin
  <2>4. caller'[c] = "stopped"
    BY <2>3 DEF ServerTypes
  <2>5. ServerTypes'
    BY <2>2, <2>3, <2>1 DEF ServerTypes
  <2>6. LockInv'
    BY <2>1, <2>3 DEF LockInv, Inside, ServerTypes
  <2>7. \A t \in Acceptors : ~Running(t)
    BY <2>3 DEF RunningInv, Running, InLoop
  <2>8. RunningInv'
    BY <2>3, <2>7 DEF RunningInv, Running, InLoop, ServerTypes
  <2>9. ~Unlocked' /\ ~Created'
    BY <2>1, <2>4 DEF Unlocked, Created
  <2>10. QED
    BY <2>5, <2>6, <2>8, <2>9 DEF SocketInv, LoopInv
<1>5. CASE StopReturn(c)
  <2>1. /\ caller[c] = "stopped" /\ FtpServerLock = c /\ FtpServerLock' = Null /\ c # Null
    BY <1>5 DEF StopReturn
  <2>2. /\ at' = at /\ sock' = sock /\ lateEnd' = lateEnd /\ bIsAccepting' = bIsAccepting
        /\ AcceptingThreadID' = AcceptingThreadID /\ bIsListening' = FALSE
        /\ ListeningSock' = ListeningSock
    BY <1>5 DEF StopReturn
  <2>3. PICK place \in {"idle", "again"} : caller' = [caller EXCEPT ![c] = place]
    BY <1>5 DEF StopReturn, Returned
  <2>4. ServerTypes'
    BY <2>1, <2>2, <2>3 DEF ServerTypes
  <2>5. LockInv'
    BY <2>1, <2>3 DEF LockInv, Inside, ServerTypes
  <2>6. \A t \in Acceptors : ~Running(t)
    BY <2>1 DEF RunningInv
  <2>7. \A t \in Acceptors : ~Running(t)' /\ ~InLoop(t)'
    BY <2>2, <2>6 DEF Running, InLoop
  <2>8. QED
    BY <2>2, <2>4, <2>5, <2>7 DEF RunningInv, SocketInv, LoopInv
<1>6. CASE StartAccepting(c)
  <2>1. /\ FtpServerLock = Null /\ FtpServerLock' = c /\ c # Null /\ ~bIsAccepting /\ bIsListening
        /\ caller' = [caller EXCEPT ![c] = "created"]
    BY <1>6 DEF StartAccepting
  <2>2. /\ sock' = sock /\ lateEnd' = lateEnd /\ bIsAccepting' = bIsAccepting
        /\ bIsListening' = bIsListening /\ ListeningSock' = ListeningSock
    BY <1>6 DEF StartAccepting
  <2>3. PICK t \in Acceptors : /\ at[t] = "none" /\ at' = [at EXCEPT ![t] = "start"]
                               /\ AcceptingThreadID' = t
    BY <1>6 DEF StartAccepting
  <2>4. caller'[c] = "created"
    BY <2>1 DEF ServerTypes
  <2>5. ServerTypes'
    BY <2>1, <2>2, <2>3 DEF ServerTypes
  <2>6. LockInv'
    BY <2>1, <2>4 DEF LockInv, Inside, ServerTypes
  <2>7. \A u \in Acceptors : ~Running(u)
    BY <2>1 DEF RunningInv, Unlocked
  <2>8. \A u \in Acceptors : (Running(u)' \/ InLoop(u)') => u = t /\ at'[u] = "start"
    BY <2>3, <2>7 DEF Running, InLoop, ServerTypes
  <2>9. RunningInv'
    BY <2>1, <2>3, <2>4, <2>8 DEF RunningInv, Unlocked, Cancelling
  <2>10. SocketInv'
    BY <2>1, <2>2 DEF SocketInv, Unlocked
  <2>11. LoopInv'
    BY <2>1, <2>2, <2>8 DEF LoopInv
  <2>12. QED
    BY <2>5, <2>6, <2>9, <2>10, <2>11
<1>7. CASE StartedAccepting(c)
  <2>1. /\ caller[c] = "created" /\ FtpServerLock = c /\ FtpServerLock' = Null /\ c # Null
        /\ caller' = [caller EXCEPT ![c] = "idle"] /\ bIsAccepting' = TRUE
    BY <1>7 DEF StartedAccepting
  <2>2. /\ at' = at /\ sock' = sock /\ lateEnd' = lateEnd
        /\ AcceptingThreadID' = AcceptingThreadID /\ bIsListening' = bIsListening
        /\ ListeningSock' = ListeningSock
    BY <1>7 DEF StartedAccepting
  <2>3. Created
    BY <2>1 DEF Created
  <2>4. ServerTypes'
    BY <2>1, <2>2 DEF ServerTypes
  <2>5. LockInv'
    BY <2>1 DEF LockInv, Inside, ServerTypes
  <2>6. RunningInv'
    BY <2>1, <2>2 DEF RunningInv, Running, InLoop
  <2>7. SocketInv'
    BY <2>2, <2>3 DEF SocketInv
  <2>8. LoopInv'
    BY <2>2, <2>3 DEF LoopInv, InLoop
  <2>9. QED
    BY <2>4, <2>5, <2>6, <2>7, <2>8
<1>8. CASE SetDataPortRange(c)
  BY <1>8, Unread DEF SetDataPortRange, Server
<1>9. QED
  BY <1>1, <1>2, <1>3, <1>4, <1>5, <1>6, <1>7, <1>8 DEF ServerCall, Stop

LEMMA EndStep ==
    ASSUME NEW t \in Acceptors, ServerInv, ActOnCancel(t) \/ EndAccepting(t) \/ EndListening(t)
    PROVE  ServerInv'
<1> USE DEF ServerInv, Walk
<1>1. CASE ActOnCancel(t)
  <2>1. /\ at' = [at EXCEPT ![t] = "done"] /\ sock' = [sock EXCEPT ![t] = Null]
        /\ UNCHANGED <<caller, FtpServerLock, bIsListening, ListeningSock, bIsAccepting,
                       AcceptingThreadID, lateEnd>>
    BY <1>1 DEF ActOnCancel
  <2>2. ServerTypes' /\ LockInv'
    BY <2>1 DEF ServerTypes, LockInv, Inside
  <2>3. \A u \in Acceptors : (Running(u)' => Running(u))
                             /\ (InLoop(u)' => InLoop(u) /\ at'[u] = at[u] /\ sock'[u] = sock[u])
    BY <2>1 DEF Running, InLoop, ServerTypes
  <2>4. RunningInv'
    BY <2>1, <2>3 DEF RunningInv, Unlocked, Cancelling
  <2>5. SocketInv' /\ LoopInv'
    BY <2>1, <2>3 DEF SocketInv, LoopInv, Unlocked, Created
  <2>6. QED
    BY <2>2, <2>4, <2>5
<1>2. CASE EndAccepting(t)
  <2>1. /\ at[t] = "end" /\ at' = [at EXCEPT ![t] = "ending"] /\ bIsAccepting' = FALSE
        /\ UNCHANGED <<caller, FtpServerLock, bIsListening, ListeningSock, AcceptingThreadID,
                       sock, lateEnd>>
    BY <1>2 DEF EndAccepting
  <2>2. ServerTypes' /\ LockInv'
    BY <2>1 DEF ServerTypes, LockInv, Inside
  <2>3. AcceptingThreadID = t
    BY <2>1 DEF RunningInv, Running
  <2>4. \A u \in Acceptors : ~Running(u)' /\ ~InLoop(u)'
    BY <2>1, <2>3 DEF RunningInv, Running, InLoop, ServerTypes
  <2>5. SocketInv'
    BY <2>1 DEF SocketInv, Unlocked, Created
  <2>6. QED
    BY <2>2, <2>4, <2>5 DEF RunningInv, LoopInv
<1>3. CASE EndListening(t)
  <2>1. /\ at[t] = "ending" /\ at' = [at EXCEPT ![t] = "done"] /\ bIsListening' = FALSE
        /\ sock' = [sock EXCEPT ![t] = Null]
        /\ lateEnd' = (lateEnd \/ (bIsListening
                           /\ <<sock[t], t>> # <<ListeningSock, AcceptingThreadID>>))
        /\ UNCHANGED <<caller, FtpServerLock, ListeningSock, bIsAccepting, AcceptingThreadID>>
    BY <1>3 DEF EndListening
  <2>2. ServerTypes' /\ LockInv'
    BY <2>1 DEF ServerTypes, LockInv, Inside
  <2>3. \A u \in Acceptors : /\ Running(u)' => Running(u)
                             /\ InLoop(u)' => InLoop(u) /\ u # t
    BY <2>1 DEF Running, InLoop, ServerTypes
  <2>4. RunningInv'
    BY <2>1, <2>3 DEF RunningInv, Unlocked, Cancelling
  <2>5. SocketInv'
    BY <2>1 DEF SocketInv
  <2>6. LoopInv'
    <3> SUFFICES ASSUME ~lateEnd', (Unlocked \/ Created)', NEW u \in Acceptors, InLoop(u)'
                 PROVE  FALSE
      BY DEF LoopInv
    <3>1. InLoop(u) /\ u # t /\ AcceptingThreadID = u
      BY <2>3 DEF RunningInv, Running
    <3>2. ~lateEnd /\ (Unlocked \/ Created)
      BY <2>1 DEF Unlocked, Created, ServerTypes
    <3>3. bIsListening
      BY <3>1, <3>2 DEF LoopInv
    <3>4. <<sock[t], t>> # <<ListeningSock, AcceptingThreadID>>
      BY <3>1
    <3>5. QED
      BY <2>1, <3>3, <3>4
  <2>7. QED
    BY <2>2, <2>4, <2>5, <2>6
<1>4. QED
  BY <1>1, <1>2, <1>3

LEMMA ServerStep == ServerInv /\ [Next]_vars => ServerInv'
<1> SUFFICES ASSUME ServerInv, [Next]_vars PROVE ServerInv'
  OBVIOUS
<1>1. CASE \E c \in Callers : ServerCall(c)
  BY <1>1, CallStep
<1>2. CASE \E t \in Acceptors : Accepting(t) \/ Redis(t) \/ Accept(t) \/ AcceptFails(t)
  BY <1>2, LoopSteps, LoopStep, EndStep DEF Accepting
<1>3. CASE \E e \in Entries : Session(e) \/ Delete(e)
  BY <1>3, Unread DEF Session, Delete, Pasv, PasvBegins, TryPort, Listen, Connect,
                        ResetDataConnection, Unlink, Server
<1>4. CASE UNCHANGED vars
  BY <1>4, Unread DEF vars, Server
<1>5. QED
  BY <1>1, <1>2, <1>3, <1>4 DEF Next

\* The inductive invariant of the flags, the socket and the accepting threads.
THEOREM ServerInvariance == Spec => []ServerInv
BY InitServer, ServerStep, PTL DEF Spec

\* No accepting thread goes on with a socket that StopListening has closed or
\* StartListening has replaced, and only one accepts at a time, for any number
\* of callers and threads.
THEOREM NoThreadAstray == Spec => []NoStrayAcceptor
<1>1. ServerInv => NoStrayAcceptor
  <2> SUFFICES ASSUME ServerInv, FtpServerLock = Null, ~lateEnd, NEW t \in Acceptors,
                      at[t] \notin {"none", "end", "ending", "done", "joined"}
               PROVE  /\ bIsListening /\ bIsAccepting /\ AcceptingThreadID = t
                      /\ ListeningSock # Null /\ (at[t] # "start" => sock[t] = ListeningSock)
    BY DEF NoStrayAcceptor
  <2>1. InLoop(t)
    BY DEF ServerInv, ServerTypes, InLoop
  <2>2. QED
    BY <2>1 DEF ServerInv, RunningInv, SocketInv, LoopInv, Running, Unlocked
<1>2. QED
  BY <1>1, ServerInvariance, PTL

----------------------------------------------------------------------------
(* The client list stays well formed.  The four pointers are related to    *)
(* the entries by an order of them, the witness of ClientListConsistent.   *)
(* An entry that is half taken out has left the order already; it still    *)
(* knows the place it has left.                                            *)

HIDE DEF calls, listening, accepting, acceptors, list, shells

\* The variables that matter here have their types.
ListTypes ==
    /\ at \in [Acceptors -> {"none", "start", "select", "link", "redis",
                             "delete", "unlinked", "end", "ending", "done", "joined"}]
    /\ client \in [Acceptors -> Maybe(Entries)]
    /\ entry \in [Entries -> {"none", "live", "freed"}]
    /\ shell \in [Entries -> {"none", "read", "bind", "listen", "unlinked"}]
    /\ pFirstClient \in Maybe(Entries) /\ pLastClient \in Maybe(Entries)
    /\ pNextClient \in [Entries -> Maybe(Entries)] /\ pPrevClient \in [Entries -> Maybe(Entries)]
    /\ raced \in BOOLEAN

Working(t) == at[t] \in {"link", "redis", "delete", "unlinked"}

\* An accepting thread has an entry of its own, which has no Shell; a Shell
\* has a live one; a Shell that is deleting its entry has ClientListLock.
OwnerInv ==
    /\ \A t \in Acceptors : Working(t) =>
          client[t] \in Entries /\ entry[client[t]] = "live" /\ shell[client[t]] = "none"
    /\ \A t, u \in Acceptors : Working(t) /\ Working(u) /\ client[t] = client[u] => t = u
    /\ \A e \in Entries : shell[e] # "none" => entry[e] = "live"
    /\ \A e \in Entries : shell[e] = "unlinked" => ClientListLock = e

\* The entries that are half taken out of the list.
Leaves(e) == shell[e] = "unlinked" \/ \E t \in Acceptors : at[t] = "unlinked" /\ client[t] = e
Leaving == {e \in Entries : Leaves(e)}

\* The entry at a place of an order, Null before the first and behind the last.
Place(o, n, i) == IF i \in 1..n THEN o[i] ELSE Null

\* o is the order of the n entries that are in the list.
Order(o, n) ==
    /\ \A i, j \in 1..n : o[i] = o[j] => i = j
    /\ \A e \in Entries : (\E i \in 1..n : o[i] = e) <=> e \in Linked /\ e \notin Leaving
    /\ \A i \in 1..n : /\ pNextClient[o[i]] = Place(o, n, i + 1)
                       /\ pPrevClient[o[i]] = Place(o, n, i - 1)
    /\ Leaving = {} => pFirstClient = Place(o, n, 1) /\ pLastClient = Place(o, n, n)

\* e has left the order at k, and the ends of the list may still be e.
Left(o, n, e, k) ==
    /\ pPrevClient[e] = Place(o, n, k - 1) /\ pNextClient[e] = Place(o, n, k)
    /\ pFirstClient = IF k = 1 THEN e ELSE Place(o, n, 1)
    /\ pLastClient = IF k = n + 1 THEN e ELSE Place(o, n, n)

Ordered ==
    \E n \in Nat : \E o \in [1..n -> Entries] :
        Order(o, n) /\ \A e \in Leaving : \E k \in 1..(n + 1) : Left(o, n, e, k)

\* The list; nothing is known of it once it was changed by two at a time.
ListInv ==
    ~raced =>
        /\ \A e, f \in Leaving : e = f
        /\ \A e \in Entries : e \notin Linked => pNextClient[e] = Null /\ pPrevClient[e] = Null
        /\ Ordered

ClientListInv == ListTypes /\ OwnerInv /\ ListInv

----------------------------------------------------------------------------
(* What the invariant says about the list between two updates.             *)

LEMMA Consistent == ClientListInv => ClientListConsistent
<1> SUFFICES ASSUME ClientListInv, Unlinking = {}, ~raced
             PROVE  \E order \in [1..Cardinality(Linked) -> Linked] :
                        /\ {order[i] : i \in 1..Cardinality(Linked)} = Linked
                        /\ pFirstClient = Place(order, Cardinality(Linked), 1)
                        /\ pLastClient = Place(order, Cardinality(Linked), Cardinality(Linked))
                        /\ \A i \in 1..Cardinality(Linked) :
                              /\ pNextClient[order[i]] = Place(order, Cardinality(Linked), i + 1)
                              /\ pPrevClient[order[i]] = Place(order, Cardinality(Linked), i - 1)
  BY DEF ClientListConsistent, Place
<1>1. Leaving = {}
  BY DEF Leaving, Leaves, Unlinking, Deleting
<1>2. PICK n \in Nat : \E o \in [1..n -> Entries] : Order(o, n)
  BY DEF ClientListInv, ListInv, Ordered
<1> PICK o \in [1..n -> Entries] : Order(o, n)
  BY <1>2
<1>3. o \in [1..n -> Linked] /\ {o[i] : i \in 1..n} = Linked
  BY <1>1, <1>2 DEF Order, Linked
<1>4. o \in Bijection(1..n, Linked)
  BY <1>2, <1>3 DEF Order, Bijection, Injection, Surjection, IsInjective
<1>5. Cardinality(Linked) = n
  BY <1>4, FS_CountingElements DEF ExistsBijection
<1>6. /\ pFirstClient = Place(o, n, 1) /\ pLastClient = Place(o, n, n)
      /\ \A i \in 1..n : /\ pNextClient[o[i]] = Place(o, n, i + 1)
                         /\ pPrevClient[o[i]] = Place(o, n, i - 1)
  BY <1>1 DEF Order
<1>7. QED
  BY <1>3, <1>5, <1>6
----------------------------------------------------------------------------
(* The four ways in which the list changes.                                *)

\* Null is no entry.
LEMMA NullIsNone == Null \notin Entries
BY NullAssumption

\* AddClient.
LEMMA Appends ==
    ASSUME ListTypes, ListInv, NEW e \in Entries, e \notin Linked, AppendClient(e),
           Linked' = Linked \cup {e}, Leaving' = {},
           ~raced' => ~raced /\ Leaving = {}
    PROVE  ListInv'
<1> SUFFICES ASSUME ~raced' PROVE ListInv'
  BY DEF ListInv
<1>1. ~raced /\ Leaving = {}
  OBVIOUS
<1>2. PICK n \in Nat : \E o \in [1..n -> Entries] : Order(o, n)
  BY <1>1 DEF ListInv, Ordered
<1> PICK o \in [1..n -> Entries] : Order(o, n)
  BY <1>2
<1> DEFINE q == [i \in 1..(n + 1) |-> IF i = n + 1 THEN e ELSE o[i]]
<1>3. q \in [1..(n + 1) -> Entries] /\ q[n + 1] = e /\ \A i \in 1..n : q[i] = o[i]
  OBVIOUS
<1>4. \A f \in Entries : (\E i \in 1..n : o[i] = f) <=> f \in Linked
  BY <1>1 DEF Order
<1>5. \A i, j \in 1..n : o[i] = o[j] => i = j
  BY DEF Order
<1>6. pFirstClient = Place(o, n, 1) /\ pLastClient = Place(o, n, n)
  BY <1>1 DEF Order
<1>7. pNextClient[e] = Null /\ pPrevClient[e] = Null
  BY <1>1 DEF ListInv
<1> HIDE DEF q
<1>8. \A i, j \in 1..(n + 1) : q[i] = q[j] => i = j
  BY <1>3, <1>4, <1>5
<1>9. \A f \in Entries : (\E i \in 1..(n + 1) : q[i] = f) <=> f \in Linked' /\ f \notin Leaving'
  BY <1>3, <1>4
<1>10. pFirstClient' = Place(q, n + 1, 1) /\ pLastClient' = Place(q, n + 1, n + 1)
  BY <1>3, <1>6, NullIsNone DEF AppendClient, Place
<1>11. \A i \in 1..(n + 1) : /\ pNextClient'[q[i]] = Place(q, n + 1, i + 1)
                             /\ pPrevClient'[q[i]] = Place(q, n + 1, i - 1)
  <2> SUFFICES ASSUME NEW i \in 1..(n + 1)
               PROVE  /\ pNextClient'[q[i]] = Place(q, n + 1, i + 1)
                      /\ pPrevClient'[q[i]] = Place(q, n + 1, i - 1)
    OBVIOUS
  <2>1. CASE i = n + 1
    BY <2>1, <1>3, <1>4, <1>6, <1>7, NullIsNone DEF AppendClient, Place, ListTypes
  <2>2. CASE i \in 1..n
    <3>1. pNextClient[o[i]] = Place(o, n, i + 1) /\ pPrevClient[o[i]] = Place(o, n, i - 1)
      BY <2>2 DEF Order
    <3>2. o[i] \in Entries /\ o[i] # e /\ pLastClient = o[n] /\ o[n] \in Entries
      BY <2>2, <1>4, <1>6 DEF Place
    <3>3. pNextClient' = [pNextClient EXCEPT ![o[n]] = e]
          /\ pPrevClient' = [pPrevClient EXCEPT ![e] = o[n]]
      BY <3>2, NullIsNone DEF AppendClient
    <3>4. pPrevClient'[o[i]] = Place(o, n, i - 1)
      BY <3>1, <3>2, <3>3 DEF ListTypes
    <3>5. Place(o, n, i - 1) = Place(q, n + 1, i - 1)
      BY <2>2, <1>3 DEF Place
    <3>6. CASE i = n
      BY <3>2, <3>3, <3>4, <3>5, <3>6, <1>3 DEF Place, ListTypes
    <3>7. CASE i # n
      <4>1. o[i] # o[n]
        BY <3>7, <2>2, <1>5
      <4>2. pNextClient'[o[i]] = Place(o, n, i + 1)
        BY <4>1, <3>1, <3>2, <3>3 DEF ListTypes
      <4>3. Place(o, n, i + 1) = Place(q, n + 1, i + 1)
        BY <3>7, <2>2, <1>3 DEF Place
      <4>4. QED
        BY <4>2, <4>3, <3>4, <3>5, <2>2, <1>3
    <3>8. QED
      BY <3>6, <3>7
  <2>3. QED
    BY <2>1, <2>2
<1>12. Order(q, n + 1)'
  BY <1>8, <1>9, <1>10, <1>11 DEF Order, Place
<1>13. Ordered'
  BY <1>12, <1>3 DEF Ordered
<1>14. \A f \in Entries : f \notin Linked' => pNextClient'[f] = Null /\ pPrevClient'[f] = Null
  <2> SUFFICES ASSUME NEW f \in Entries, f \notin Linked, f # e
               PROVE  pNextClient'[f] = Null /\ pPrevClient'[f] = Null
    OBVIOUS
  <2>1. pNextClient[f] = Null /\ pPrevClient[f] = Null
    BY <1>1 DEF ListInv
  <2>2. pLastClient # f
    BY <1>4, <1>6, NullIsNone DEF Place
  <2>3. QED
    BY <2>1, <2>2 DEF AppendClient, ListTypes
<1>15. QED
  BY <1>13, <1>14 DEF ListInv

\* The neighbours of an entry are joined.
LEMMA Unlinks ==
    ASSUME ListTypes, ListInv, NEW e \in Entries, e \in Linked, UnlinkNeighbours(e),
           UNCHANGED <<pFirstClient, pLastClient>>, Linked' = Linked,
           ~raced' => ~raced /\ Leaving = {} /\ Leaving' = {e}
    PROVE  ListInv'
<1> SUFFICES ASSUME ~raced' PROVE ListInv'
  BY DEF ListInv
<1>1. ~raced /\ Leaving = {} /\ Leaving' = {e}
  OBVIOUS
<1>2. PICK n \in Nat : \E o \in [1..n -> Entries] : Order(o, n)
  BY <1>1 DEF ListInv, Ordered
<1> PICK o \in [1..n -> Entries] : Order(o, n)
  BY <1>2
<1>3. PICK k \in 1..n : o[k] = e
  BY <1>1 DEF Order
<1> DEFINE q == [i \in 1..(n - 1) |-> IF i < k THEN o[i] ELSE o[i + 1]]
<1>4. /\ n - 1 \in Nat /\ q \in [1..(n - 1) -> Entries]
      /\ \A i \in 1..(n - 1) : q[i] = IF i < k THEN o[i] ELSE o[i + 1]
  OBVIOUS
<1>5. \A f \in Entries : (\E i \in 1..n : o[i] = f) <=> f \in Linked
  BY <1>1 DEF Order
<1>6. \A i, j \in 1..n : o[i] = o[j] => i = j
  BY DEF Order
<1>7. pFirstClient = Place(o, n, 1) /\ pLastClient = Place(o, n, n)
  BY <1>1 DEF Order
<1> HIDE DEF q
<1>8. pPrevClient[e] = Place(q, n - 1, k - 1) /\ pNextClient[e] = Place(q, n - 1, k)
  <2>1. pPrevClient[e] = Place(o, n, k - 1) /\ pNextClient[e] = Place(o, n, k + 1)
    BY <1>3 DEF Order
  <2>2. QED
    BY <2>1, <1>4 DEF Place
<1>9. \A i, j \in 1..(n - 1) : q[i] = q[j] => i = j
  <2> SUFFICES ASSUME NEW i \in 1..(n - 1), NEW j \in 1..(n - 1), q[i] = q[j] PROVE i = j
    OBVIOUS
  <2>1. \A x \in 1..(n - 1) : x \in 1..n /\ x + 1 \in 1..n
    OBVIOUS
  <2>2. QED
    BY <2>1, <1>4, <1>6
<1>10. \A f \in Entries : (\E i \in 1..(n - 1) : q[i] = f) <=> f \in Linked' /\ f \notin Leaving'
  <2> SUFFICES ASSUME NEW f \in Entries
               PROVE  (\E i \in 1..(n - 1) : q[i] = f) <=> f \in Linked /\ f # e
    BY <1>1
  <2>1. ASSUME NEW i \in 1..(n - 1), q[i] = f PROVE f \in Linked /\ f # e
    <3>1. PICK j \in 1..n : q[i] = o[j] /\ j # k
      BY <1>4
    <3>2. QED
      BY <3>1, <2>1, <1>3, <1>5, <1>6
  <2>2. ASSUME f \in Linked, f # e PROVE \E i \in 1..(n - 1) : q[i] = f
    <3>1. PICK j \in 1..n : o[j] = f /\ j # k
      BY <2>2, <1>3, <1>5
    <3>2. CASE j < k
      BY <3>1, <3>2, <1>4
    <3>3. CASE j > k
      <4>1. j - 1 \in 1..(n - 1) /\ ~(j - 1 < k) /\ (j - 1) + 1 = j
        BY <3>3
      <4>2. q[j - 1] = f
        BY <4>1, <3>1, <1>4
      <4>3. QED
        BY <4>1, <4>2
    <3>4. QED
      BY <3>1, <3>2, <3>3
  <2>3. QED
    BY <2>1, <2>2
<1>11. \A i \in 1..(n - 1) : /\ pNextClient'[q[i]] = Place(q, n - 1, i + 1)
                             /\ pPrevClient'[q[i]] = Place(q, n - 1, i - 1)
  <2> SUFFICES ASSUME NEW i \in 1..(n - 1)
               PROVE  /\ pNextClient'[q[i]] = Place(q, n - 1, i + 1)
                      /\ pPrevClient'[q[i]] = Place(q, n - 1, i - 1)
    OBVIOUS
  <2>1. /\ q[i] \in Entries /\ q[i] # Null
        /\ q[i] = Place(q, n - 1, k - 1) <=> i = k - 1
        /\ q[i] = Place(q, n - 1, k) <=> i = k
    BY <1>4, <1>9, NullIsNone DEF Place
  <2>2. /\ pNextClient'[q[i]] = IF i = k - 1 THEN Place(q, n - 1, k) ELSE pNextClient[q[i]]
        /\ pPrevClient'[q[i]] = IF i = k THEN Place(q, n - 1, k - 1) ELSE pPrevClient[q[i]]
    BY <2>1, <1>8 DEF UnlinkNeighbours
  <2>3. CASE i < k
    <3>1. i \in 1..n /\ q[i] = o[i]
      BY <2>3, <1>4
    <3>2. pNextClient[q[i]] = Place(o, n, i + 1) /\ pPrevClient[q[i]] = Place(o, n, i - 1)
      BY <3>1 DEF Order
    <3>3. Place(o, n, i - 1) = Place(q, n - 1, i - 1)
      BY <2>3, <1>4 DEF Place
    <3>4. i # k - 1 => Place(o, n, i + 1) = Place(q, n - 1, i + 1)
      BY <2>3, <1>4 DEF Place
    <3>5. i = k - 1 => Place(q, n - 1, k) = Place(q, n - 1, i + 1)
      OBVIOUS
    <3>6. QED
      BY <2>2, <2>3, <3>2, <3>3, <3>4, <3>5
  <2>4. CASE ~(i < k)
    <3>1. i + 1 \in 1..n /\ q[i] = o[i + 1]
      BY <2>4, <1>4
    <3>2. pNextClient[q[i]] = Place(o, n, (i + 1) + 1) /\ pPrevClient[q[i]] = Place(o, n, (i + 1) - 1)
      BY <3>1 DEF Order
    <3>3. Place(o, n, (i + 1) + 1) = Place(q, n - 1, i + 1)
      BY <2>4, <1>4 DEF Place
    <3>4. i # k => Place(o, n, (i + 1) - 1) = Place(q, n - 1, i - 1)
      BY <2>4, <1>4 DEF Place
    <3>5. QED
      BY <2>2, <2>4, <3>2, <3>3, <3>4
  <2>5. QED
    BY <2>3, <2>4
<1>12. Order(q, n - 1)'
  BY <1>1, <1>9, <1>10, <1>11 DEF Order, Place
<1>13. Left(q, n - 1, e, k)'
  <2>1. pPrevClient'[e] = Place(q, n - 1, k - 1) /\ pNextClient'[e] = Place(q, n - 1, k)
    <3>1. pPrevClient[e] # e /\ pNextClient[e] # e
      BY <1>3, <1>8, <1>4, <1>10, <1>1, NullIsNone DEF Place
    <3>2. QED
      BY <3>1, <1>8 DEF UnlinkNeighbours
  <2>2. pFirstClient = IF k = 1 THEN e ELSE Place(q, n - 1, 1)
    BY <1>3, <1>4, <1>7 DEF Place
  <2>3. pLastClient = IF k = (n - 1) + 1 THEN e ELSE Place(q, n - 1, n - 1)
    BY <1>3, <1>4, <1>7 DEF Place
  <2>4. QED
    BY <2>1, <2>2, <2>3 DEF Left, Place
<1>14. Ordered'
  <2>1. k \in 1..((n - 1) + 1)
    OBVIOUS
  <2>2. QED
    BY <2>1, <1>1, <1>4, <1>12, <1>13 DEF Ordered
<1>15. \A f \in Entries : f \notin Linked' => pNextClient'[f] = Null /\ pPrevClient'[f] = Null
  <2> SUFFICES ASSUME NEW f \in Entries, f \notin Linked
               PROVE  pNextClient'[f] = Null /\ pPrevClient'[f] = Null
    OBVIOUS
  <2>1. pNextClient[f] = Null /\ pPrevClient[f] = Null
    BY <1>1 DEF ListInv
  <2>2. pPrevClient[e] # f /\ pNextClient[e] # f
    BY <1>4, <1>8, <1>10, NullIsNone DEF Place
  <2>3. QED
    BY <2>1, <2>2 DEF UnlinkNeighbours
<1>16. QED
  BY <1>1, <1>14, <1>15 DEF ListInv

\* The ends of the list, and the entry itself.
LEMMA Ends ==
    ASSUME ListTypes, ListInv, NEW e \in Entries, e \in Leaving, UnlinkEnds(e),
           Linked' = Linked \ {e}, raced' = raced, ~raced => Leaving' = {}
    PROVE  ListInv'
<1> SUFFICES ASSUME ~raced PROVE ListInv'
  BY DEF ListInv
<1>1. Leaving = {e} /\ Leaving' = {}
  BY DEF ListInv, Leaving
<1>2. PICK n \in Nat : \E o \in [1..n -> Entries] :
        Order(o, n) /\ \A f \in Leaving : \E k \in 1..(n + 1) : Left(o, n, f, k)
  BY DEF ListInv, Ordered
<1>3. PICK o \in [1..n -> Entries] :
        Order(o, n) /\ \A f \in Leaving : \E k \in 1..(n + 1) : Left(o, n, f, k)
  BY <1>2
<1>4. PICK k \in 1..(n + 1) : Left(o, n, e, k)
  BY <1>3
<1>5. \A i \in 1..n : o[i] # e
  BY <1>3 DEF Order
<1>6. \A i : Place(o, n, i) # e
  BY <1>5, NullIsNone DEF Place
<1>7. pFirstClient' = Place(o, n, 1) /\ pLastClient' = Place(o, n, n)
  <2>1. CASE k = 1
    BY <2>1, <1>4, <1>6 DEF UnlinkEnds, Left
  <2>2. CASE k # 1
    BY <2>2, <1>4, <1>6 DEF UnlinkEnds, Left
  <2>3. QED
    BY <2>1, <2>2
<1>8. \A f \in Entries : f # e => /\ pNextClient'[f] = pNextClient[f]
                                 /\ pPrevClient'[f] = pPrevClient[f]
  BY DEF UnlinkEnds, ListTypes
<1>9. Order(o, n)'
  <2>1. \A f \in Entries : (\E i \in 1..n : o[i] = f) <=> f \in Linked' /\ f \notin Leaving'
    BY <1>1, <1>3 DEF Order
  <2>2. \A i \in 1..n : /\ pNextClient'[o[i]] = Place(o, n, i + 1)
                        /\ pPrevClient'[o[i]] = Place(o, n, i - 1)
    BY <1>3, <1>5, <1>8 DEF Order
  <2>3. \A i, j \in 1..n : o[i] = o[j] => i = j
    BY <1>3 DEF Order
  <2>4. QED
    BY <1>7, <2>1, <2>2, <2>3 DEF Order, Place
<1>10. Ordered'
  BY <1>1, <1>9 DEF Ordered
<1>11. \A f \in Entries : f \notin Linked' => pNextClient'[f] = Null /\ pPrevClient'[f] = Null
  BY <1>8 DEF ListInv, UnlinkEnds, ListTypes
<1>12. QED
  BY <1>1, <1>10, <1>11 DEF ListInv

\* Everything else leaves the list as it is.
LEMMA Stays ==
    ASSUME ListInv, UNCHANGED <<links, raced>>, Linked' = Linked, Leaving' = Leaving
    PROVE  ListInv'
<1>1. \A n, o : Order(o, n)' <=> Order(o, n)
  BY DEF Order, Place
<1>2. \A n, o, e, k : Left(o, n, e, k)' <=> Left(o, n, e, k)
  BY DEF Left, Place
<1>3. Ordered' <=> Ordered
  BY <1>1, <1>2 DEF Ordered
<1>4. QED
  BY <1>3 DEF ListInv
----------------------------------------------------------------------------
(* The steps.                                                              *)

\* The initial list is empty.
LEMMA InitList == Init => ClientListInv
<1> SUFFICES ASSUME Init PROVE ClientListInv
  OBVIOUS
<1>1. ListTypes
  BY DEF Init, ListTypes, Maybe
<1>2. OwnerInv
  BY DEF Init, OwnerInv, Working
<1>3. Linked = {} /\ Leaving = {}
  BY DEF Init, Linked, Leaving, Leaves
<1>4. \A o : Order(o, 0)
  BY <1>3 DEF Init, Order, Place
<1>5. [i \in 1..0 |-> CHOOSE e \in Entries : TRUE] \in [1..0 -> Entries]
  OBVIOUS
<1>6. Ordered
  BY <1>3, <1>4, <1>5 DEF Ordered
<1>7. ListInv
  BY <1>3, <1>6 DEF ListInv, Init
<1>8. QED
  BY <1>1, <1>2, <1>7 DEF ClientListInv

\* Who is in the list and who is leaving it depends on these alone.
LEMMA Unseen ==
    ASSUME UNCHANGED entry,
           \A e \in Entries : shell'[e] = "unlinked" <=> shell[e] = "unlinked",
           \A t \in Acceptors :
              at[t] \in {"link", "unlinked"} \/ at'[t] \in {"link", "unlinked"} =>
                 at'[t] = at[t] /\ client'[t] = client[t]
    PROVE  Linked' = Linked /\ Leaving' = Leaving
<1>1. Linked' = Linked
  BY DEF Linked
<1>2. Leaving' = Leaving
  BY DEF Leaving, Leaves
<1>3. QED
  BY <1>1, <1>2

\* Where a Shell is while its session lasts.
Serving == {"read", "bind", "listen"}

\* A step that the list does not see: no thread that has an entry moves, and
\* no session begins or ends.
Offstage ==
    /\ UNCHANGED <<client, entry, links, raced, ClientListLock>>
    /\ \A e \in Entries : shell'[e] = shell[e] \/ (shell[e] \in Serving /\ shell'[e] \in Serving)
    /\ ListTypes'
    /\ \A t \in Acceptors : at'[t] = at[t] \/ (~Working(t) /\ ~Working(t)')

LEMMA OffstageStep == ASSUME ClientListInv, Offstage PROVE ClientListInv'
<1>1. OwnerInv'
  BY DEF ClientListInv, OwnerInv, Offstage, Working, Serving
<1>2. Linked' = Linked /\ Leaving' = Leaving
  BY Unseen DEF Offstage, Working, Serving
<1>3. ListInv'
  BY <1>2, Stays DEF ClientListInv, Offstage
<1>4. QED
  BY <1>1, <1>3 DEF ClientListInv, Offstage

LEMMA ServerCallIsOffstage ==
    ASSUME ClientListInv, NEW c \in Callers, ServerCall(c) PROVE Offstage
<1> USE DEF ClientListInv, ListTypes, Offstage, Working, list, shells, acceptors
<1>1. CASE StartListening(c) \/ StopListening(c) \/ StopCancel(c) \/ StopReturn(c)
  BY <1>1 DEF StartListening, StopListening, StopCancel, StopReturn
<1>2. CASE StopJoin(c)
  BY <1>2 DEF StopJoin
<1>3. CASE StartAccepting(c)
  BY <1>3 DEF StartAccepting
<1>4. CASE StartedAccepting(c) \/ SetDataPortRange(c)
  BY <1>4 DEF StartedAccepting, SetDataPortRange
<1>5. QED
  BY <1>1, <1>2, <1>3, <1>4 DEF ServerCall, Stop

LEMMA AcceptingIsOffstage ==
    ASSUME ClientListInv, NEW t \in Acceptors,
           AcceptingBegins(t) \/ AcceptFails(t) \/ EndAccepting(t) \/ EndListening(t)
    PROVE  Offstage
<1> USE DEF ClientListInv, ListTypes, Offstage, Working, list, shells, Walk
<1>1. CASE AcceptingBegins(t)
  BY <1>1 DEF AcceptingBegins
<1>2. CASE AcceptFails(t)
  BY <1>2 DEF AcceptFails
<1>3. CASE EndAccepting(t)
  BY <1>3 DEF EndAccepting
<1>4. CASE EndListening(t)
  BY <1>4 DEF EndListening
<1>5. QED
  BY <1>1, <1>2, <1>3, <1>4

\* The thread gives its entry away, or goes on to delete it.
LEMMA RedisStep ==
    ASSUME ClientListInv, NEW t \in Acceptors, Redis(t) \/ ActOnCancel(t)
    PROVE  ClientListInv'
<1> USE DEF ClientListInv
<1>1. /\ at[t] \in {"select", "redis", "delete"}
      /\ at' \in [Acceptors -> {"none", "start", "select", "link", "redis",
                                 "delete", "unlinked", "end", "ending", "done", "joined"}]
      /\ \A u \in Acceptors \ {t} : at'[u] = at[u] /\ client'[u] = client[u]
      /\ \/ at'[t] \in {"select", "done"} /\ client' = [client EXCEPT ![t] = Null]
         \/ at[t] = "redis" /\ at'[t] = "delete" /\ client' = client
      /\ UNCHANGED <<entry, links, raced, ClientListLock>>
      /\ \/ shell' = shell
         \/ /\ at[t] = "redis" /\ at'[t] = "select"
            /\ shell' = [shell EXCEPT ![client[t]] = "read"]
  BY DEF Redis, ActOnCancel, AddClientFails, CreateShell, CreateShellFails, Walk, list, shells,
         ListTypes
<1>2. ListTypes'
  BY <1>1 DEF ListTypes, Maybe
<1>3. \A u \in Acceptors : Working(u)' => Working(u) /\ client'[u] = client[u]
  BY <1>1 DEF Working
<1>4. shell' = shell \/ (Working(t) /\ ~Working(t)' /\ shell' = [shell EXCEPT ![client[t]] = "read"])
  BY <1>1 DEF Working
<1>5. OwnerInv'
  BY <1>1, <1>3, <1>4 DEF OwnerInv, ListTypes
<1>6. \A e \in Entries : shell'[e] = "unlinked" <=> shell[e] = "unlinked"
  BY <1>4 DEF OwnerInv, ListTypes
<1>7. Linked' = Linked /\ Leaving' = Leaving
  BY <1>1, <1>6, Unseen
<1>8. ListInv'
  BY <1>1, <1>7, Stays
<1>9. QED
  BY <1>2, <1>5, <1>8

\* A new entry, which is not in the list yet.
LEMMA AcceptStep ==
    ASSUME ClientListInv, NEW t \in Acceptors, Accept(t) PROVE ClientListInv'
<1> USE DEF ClientListInv
<1>1. PICK e \in Entries :
        /\ entry[e] = "none"
        /\ entry' = [entry EXCEPT ![e] = "live"]
        /\ client' = [client EXCEPT ![t] = e]
  BY DEF Accept
<1>2. at[t] = "select" /\ at' = [at EXCEPT ![t] = "link"] /\ UNCHANGED <<shell, links, raced, ClientListLock>>
  BY DEF Accept, Walk, shells
<1>3. ListTypes'
  BY <1>1, <1>2 DEF ListTypes, Maybe
<1>4. OwnerInv'
  BY <1>1, <1>2 DEF OwnerInv, ListTypes, Working
<1>5. Linked' = Linked
  BY <1>1, <1>2 DEF Linked, ListTypes
<1>6. Leaving' = Leaving
  BY <1>1, <1>2 DEF Leaving, Leaves, ListTypes
<1>7. ListInv'
  BY <1>2, <1>5, <1>6, Stays
<1>8. QED
  BY <1>3, <1>4, <1>7

\* Nobody is leaving while ClientListLock is free and no thread deletes.
LEMMA NobodyLeaves ==
    ASSUME OwnerInv, ClientListLock = Null, Deleting = {} PROVE Leaving = {}
BY NullIsNone DEF OwnerInv, Deleting, Leaving, Leaves

LEMMA AddClientStep ==
    ASSUME ClientListInv, NEW t \in Acceptors, AddClient(t) PROVE ClientListInv'
<1> USE DEF ClientListInv
<1>1. /\ at[t] = "link" /\ at' = [at EXCEPT ![t] = "redis"] /\ ClientListLock = Null
      /\ AppendClient(client[t]) /\ raced' = (raced \/ Deleting # {})
      /\ UNCHANGED <<client, entry, ClientListLock, shell>>
  BY DEF AddClient, Walk, Update, shells
<1>2. client[t] \in Entries /\ entry[client[t]] = "live" /\ shell[client[t]] = "none"
  BY <1>1 DEF OwnerInv, Working
<1>3. ListTypes'
  BY <1>1, <1>2 DEF ListTypes, AppendClient, Maybe
<1>4. OwnerInv'
  BY <1>1 DEF OwnerInv, ListTypes, Working
<1>5. client[t] \notin Linked
  BY <1>1, <1>2 DEF Linked
<1>6. \A u \in Acceptors : at[u] = "link" /\ client[u] = client[t] => u = t
  BY <1>1 DEF OwnerInv, Working
<1>7. Linked' = Linked \cup {client[t]}
  BY <1>1, <1>2, <1>6 DEF Linked, ListTypes
<1>8. Leaving' = Leaving
  BY <1>1 DEF Leaving, Leaves, ListTypes
<1>9. ~raced' => ~raced /\ Leaving = {}
  BY <1>1, NobodyLeaves
<1>10. ListInv'
  <2>1. CASE raced'
    BY <2>1 DEF ListInv
  <2>2. CASE ~raced'
    BY <2>2, <1>1, <1>2, <1>5, <1>7, <1>8, <1>9, Appends
  <2>3. QED
    BY <2>1, <2>2
<1>11. QED
  BY <1>3, <1>4, <1>10

LEMMA DeleteUnlinkStep ==
    ASSUME ClientListInv, NEW t \in Acceptors, DeleteUnlink(t) PROVE ClientListInv'
<1> USE DEF ClientListInv
<1>1. /\ at[t] = "delete" /\ at' = [at EXCEPT ![t] = "unlinked"]
      /\ UnlinkNeighbours(client[t]) /\ raced' = (raced \/ Unlinking # {})
      /\ UNCHANGED <<client, entry, ClientListLock, shell, pFirstClient, pLastClient>>
  BY DEF DeleteUnlink, Walk, shells
<1>2. client[t] \in Entries /\ entry[client[t]] = "live" /\ shell[client[t]] = "none"
  BY <1>1 DEF OwnerInv, Working
<1>3. ListTypes'
  BY <1>1, <1>2 DEF ListTypes, UnlinkNeighbours, Maybe
<1>4. OwnerInv'
  BY <1>1 DEF OwnerInv, ListTypes, Working
<1>5. \A u \in Acceptors : at[u] = "link" => client[u] # client[t]
  BY <1>1 DEF OwnerInv, Working
<1>6. client[t] \in Linked
  BY <1>2, <1>5 DEF Linked
<1>7. Linked' = Linked
  BY <1>1 DEF Linked, ListTypes
<1>8. Unlinking = {} => Leaving = {} /\ Leaving' = {client[t]}
  BY <1>1, <1>2 DEF Leaving, Leaves, Unlinking, Deleting, ListTypes
<1>9. ListInv'
  BY <1>1, <1>2, <1>6, <1>7, <1>8, Unlinks
<1>10. QED
  BY <1>3, <1>4, <1>9

LEMMA DeleteEndsStep ==
    ASSUME ClientListInv, NEW t \in Acceptors, DeleteEnds(t) PROVE ClientListInv'
<1> USE DEF ClientListInv
<1>1. /\ at[t] = "unlinked" /\ at' = [at EXCEPT ![t] = "select"]
      /\ UnlinkEnds(client[t]) /\ client' = [client EXCEPT ![t] = Null]
      /\ UNCHANGED <<raced, ClientListLock, shell>>
  BY DEF DeleteEnds, Walk, shells
<1>2. client[t] \in Entries /\ entry[client[t]] = "live" /\ shell[client[t]] = "none"
  BY <1>1 DEF OwnerInv, Working
<1>3. ListTypes'
  BY <1>1, <1>2 DEF ListTypes, UnlinkEnds, Maybe
<1>4. entry' = [entry EXCEPT ![client[t]] = "freed"]
  BY <1>1 DEF UnlinkEnds
<1>5. OwnerInv'
  BY <1>1, <1>2, <1>4 DEF OwnerInv, ListTypes, Working
<1>6. client[t] \in Leaving
  BY <1>1, <1>2 DEF Leaving, Leaves
<1>7. Linked' = Linked \ {client[t]}
  BY <1>1, <1>2, <1>4 DEF Linked, ListTypes
<1>8. ~raced => Leaving' = {}
  <2> SUFFICES ASSUME ~raced, NEW e \in Entries, Leaves(e)' PROVE FALSE
    BY DEF Leaving
  <2>1. Leaves(e) /\ e # client[t]
    BY <1>1, <1>2 DEF Leaves, ListTypes, OwnerInv, Working
  <2>2. QED
    BY <2>1, <1>6 DEF ListInv, Leaving
<1>9. ListInv'
  BY <1>1, <1>2, <1>6, <1>7, <1>8, Ends
<1>10. QED
  BY <1>3, <1>5, <1>9

LEMMA UnlinkStep ==
    ASSUME ClientListInv, NEW e \in Entries, Unlink(e) PROVE ClientListInv'
<1> USE DEF ClientListInv
<1>1. /\ shell[e] = "read" /\ shell' = [shell EXCEPT ![e] = "unlinked"]
      /\ ClientListLock = Null /\ ClientListLock' = e
      /\ UnlinkNeighbours(e) /\ raced' = (raced \/ Deleting # {})
      /\ UNCHANGED <<client, entry, at, pFirstClient, pLastClient>>
  BY DEF Unlink, ShellStep, Update, acceptors
<1>2. ListTypes'
  BY <1>1 DEF ListTypes, UnlinkNeighbours, Maybe
<1>3. OwnerInv'
  BY <1>1, NullIsNone DEF OwnerInv, ListTypes, Working
<1>4. e \in Linked
  BY <1>1 DEF OwnerInv, Linked, Working
<1>5. Linked' = Linked
  BY <1>1 DEF Linked
<1>6. Deleting = {} => Leaving = {} /\ Leaving' = {e}
  <2> SUFFICES ASSUME Deleting = {} PROVE Leaving = {} /\ Leaving' = {e}
    OBVIOUS
  <2>1. Leaving = {}
    BY <1>1, NobodyLeaves
  <2>2. QED
    BY <2>1, <1>1 DEF Leaving, Leaves, Deleting, ListTypes
<1>7. ListInv'
  BY <1>1, <1>4, <1>5, <1>6, Unlinks
<1>8. QED
  BY <1>2, <1>3, <1>7

LEMMA DeleteStep ==
    ASSUME ClientListInv, NEW e \in Entries, Delete(e) PROVE ClientListInv'
<1> USE DEF ClientListInv
<1>1. /\ shell[e] = "unlinked" /\ shell' = [shell EXCEPT ![e] = "none"]
      /\ ClientListLock' = Null /\ UnlinkEnds(e)
      /\ UNCHANGED <<client, at, raced>>
  BY DEF Delete, ShellStep, acceptors
<1>2. ListTypes'
  BY <1>1 DEF ListTypes, UnlinkEnds, Maybe
<1>3. entry' = [entry EXCEPT ![e] = "freed"]
  BY <1>1 DEF UnlinkEnds
<1>4. \A f \in Entries : shell'[f] # "unlinked"
  BY <1>1 DEF OwnerInv, ListTypes
<1>5. OwnerInv'
  BY <1>1, <1>3, <1>4 DEF OwnerInv, ListTypes, Working
<1>6. e \in Leaving
  BY <1>1 DEF Leaving, Leaves
<1>7. Linked' = Linked \ {e}
  BY <1>1, <1>3 DEF Linked, ListTypes
<1>8. ~raced => Leaving' = {}
  <2> SUFFICES ASSUME ~raced, NEW f \in Entries, Leaves(f)' PROVE FALSE
    BY DEF Leaving
  <2>1. PICK t \in Acceptors : at[t] = "unlinked" /\ client[t] = f
    BY <1>1, <1>4 DEF Leaves
  <2>2. f # e
    BY <2>1, <1>1 DEF OwnerInv, Working
  <2>3. f \in Leaving
    BY <2>1 DEF Leaving, Leaves
  <2>4. QED
    BY <2>2, <2>3, <1>6 DEF ListInv
<1>9. ListInv'
  BY <1>1, <1>6, <1>7, <1>8, Ends
<1>10. QED
  BY <1>2, <1>5, <1>9

LEMMA ListStep == ClientListInv /\ [Next]_vars => ClientListInv'
<1> SUFFICES ASSUME ClientListInv, [Next]_vars PROVE ClientListInv'
  OBVIOUS
<1>1. CASE \E c \in Callers : ServerCall(c)
  BY <1>1, ServerCallIsOffstage, OffstageStep
<1>2. ASSUME NEW t \in Acceptors, Accepting(t) \/ Redis(t) \/ Accept(t) \/ AcceptFails(t)
      PROVE  ClientListInv'
  BY <1>2, AcceptingIsOffstage, OffstageStep, RedisStep, AcceptStep, AddClientStep,
     DeleteUnlinkStep, DeleteEndsStep DEF Accepting
<1>3. ASSUME NEW e \in Entries, Session(e) \/ Delete(e) PROVE ClientListInv'
  <2>1. CASE Pasv(e) \/ Connect(e) \/ ResetDataConnection(e)
    <3>1. UNCHANGED <<at, client, entry, links, raced, ClientListLock>>
      BY <2>1 DEF Pasv, PasvBegins, TryPort, Listen, Connect, ResetDataConnection, list, acceptors
    <3>2. \/ UNCHANGED shell
          \/ \E to \in Serving : shell[e] \in Serving /\ shell' = [shell EXCEPT ![e] = to]
      BY <2>1 DEF Pasv, PasvBegins, TryPort, Listen, Connect, ResetDataConnection, ShellStep, Serving
    <3>3. Offstage
      BY <3>1, <3>2 DEF Offstage, ClientListInv, ListTypes, Serving
    <3>4. QED
      BY <3>3, OffstageStep
  <2>2. QED
    BY <1>3, <2>1, UnlinkStep, DeleteStep DEF Session
<1>4. CASE UNCHANGED vars
  <2>1. Offstage
    BY <1>4 DEF vars, list, acceptors, shells, Offstage, ClientListInv, ListTypes
  <2>2. QED
    BY <2>1, OffstageStep
<1>5. QED
  BY <1>1, <1>2, <1>3, <1>4 DEF Next

----------------------------------------------------------------------------
(* The theorems.                                                           *)

\* The pointers of the client list follow an order of the entries, also
\* between the two steps of taking one out.
THEOREM ListInvariance == Spec => []ClientListInv
BY InitList, ListStep, PTL DEF Spec

\* AddClient and ~CClientEntry keep the client list well formed, as long as no
\* accepting thread has deleted an entry while another thread changed it.
THEOREM ListConsistent == Spec => []ClientListConsistent
BY ListInvariance, Consistent, PTL

----------------------------------------------------------------------------
(* What the types of the rest need.                                        *)

\* The types that ServerInv and ClientListInv leave open.
RestInv ==
    /\ port \in [Callers -> Maybe(Ports)]
    /\ open \subseteq Ports /\ ListeningSock \in Maybe(open)
    /\ AcceptingThreadID \in Maybe(Acceptors) /\ cancelled \subseteq Acceptors
    /\ bIsAccepting \/ Created => AcceptingThreadID \in Acceptors
    /\ client \in [Acceptors -> Maybe(Entries)]
    /\ \A t \in Acceptors : ~Working(t) => client[t] = Null
    /\ DataPortRange \in Ranges
    /\ ClientListLock \in Maybe(Entries)

LEMMA InitRest == ASSUME Init PROVE RestInv
<1>1. \A t \in Acceptors : client[t] = Null
  BY DEF Init
<1>2. ~bIsAccepting /\ ~Created
  BY DEF Init, Created
<1>3. QED
  BY <1>1, <1>2 DEF Init, RestInv, Maybe

\* A call keeps the thread that StartAccepting has created.
LEMMA CallCreated ==
    ASSUME ServerInv, RestInv, NEW c \in Callers, ServerCall(c)
    PROVE  /\ AcceptingThreadID' \in Maybe(Acceptors)
           /\ bIsAccepting' \/ Created' => AcceptingThreadID' \in Acceptors
<1> USE DEF ServerInv, ServerTypes, RestInv, Maybe, Call, Enter, Leave, calls, listening, accepting,
            acceptors
<1>1. CASE StartListening(c)
  BY <1>1 DEF StartListening, Created
<1>2. CASE StopListening(c)
  BY <1>2 DEF StopListening, Created
<1>3. CASE StopCancel(c) \/ StopJoin(c)
  <2>1. FtpServerLock = c /\ FtpServerLock' = c
    BY <1>3, Holder DEF StopCancel, StopJoin, Inside
  <2>2. caller'[c] # "created"
    BY <1>3 DEF StopCancel, StopJoin
  <2>3. AcceptingThreadID' = AcceptingThreadID /\ bIsAccepting' = bIsAccepting
    BY <1>3 DEF StopCancel, StopJoin
  <2>4. QED
    BY <2>1, <2>2, <2>3 DEF Created
<1>4. CASE StopReturn(c)
  BY <1>4 DEF StopReturn, Created
<1>5. CASE StartAccepting(c)
  BY <1>5 DEF StartAccepting
<1>6. CASE StartedAccepting(c)
  <2>1. Created
    BY <1>6 DEF StartedAccepting, Created
  <2>2. AcceptingThreadID' = AcceptingThreadID
    BY <1>6 DEF StartedAccepting
  <2>3. QED
    BY <2>1, <2>2
<1>7. CASE SetDataPortRange(c)
  BY <1>7 DEF SetDataPortRange, Created
<1>8. QED
  BY <1>1, <1>2, <1>3, <1>4, <1>5, <1>6, <1>7 DEF ServerCall, Stop

\* And the rest.
LEMMA CallRest ==
    ASSUME ServerInv, RestInv, NEW c \in Callers, ServerCall(c) PROVE RestInv'
<1>1. /\ AcceptingThreadID' \in Maybe(Acceptors)
      /\ bIsAccepting' \/ Created' => AcceptingThreadID' \in Acceptors
  BY CallCreated
<1>2. UNCHANGED <<client, ClientListLock>>
  BY DEF ServerCall, Stop, StartListening, StopListening, StopCancel, StopJoin, StopReturn,
         StartAccepting, StartedAccepting, SetDataPortRange, acceptors, list
<1>3. DataPortRange' \in Ranges
  BY DEF ServerCall, Stop, StartListening, StopListening, StopCancel, StopJoin, StopReturn,
         StartAccepting, StartedAccepting, SetDataPortRange, RestInv
<1>4. port' \in [Callers -> Maybe(Ports)]
  BY DEF ServerCall, Stop, StartListening, StopListening, StopCancel, StopJoin, StopReturn,
         StartAccepting, StartedAccepting, SetDataPortRange, RestInv, calls, Maybe
<1>5. open' \subseteq Ports /\ ListeningSock' \in Maybe(open)'
  BY DEF ServerCall, Stop, StartListening, StopListening, StopCancel, StopJoin, StopReturn,
         StartAccepting, StartedAccepting, SetDataPortRange, RestInv, listening, Maybe
<1>6. cancelled' \subseteq Acceptors
  <2>1. UNCHANGED cancelled \/ cancelled' = {} \/ (bIsAccepting /\ cancelled' = cancelled \cup {AcceptingThreadID})
    BY DEF ServerCall, Stop, StartListening, StopListening, StopCancel, StopJoin, StopReturn,
           StartAccepting, StartedAccepting, SetDataPortRange, acceptors
  <2>2. QED
    BY <2>1 DEF RestInv
<1>7. ASSUME NEW t \in Acceptors, ~Working(t)' PROVE ~Working(t)
  BY <1>7 DEF ServerCall, Stop, StartListening, StopListening, StopCancel, StopJoin, StopReturn,
              StartAccepting, StartedAccepting, SetDataPortRange, acceptors, Working, ServerInv, ServerTypes
<1>8. QED
  BY <1>1, <1>2, <1>3, <1>4, <1>5, <1>6, <1>7 DEF RestInv, Maybe

\* An accepting thread has an entry while it works on it.
LEMMA ThreadRest ==
    ASSUME ServerInv, RestInv, NEW t \in Acceptors,
           Accepting(t) \/ Redis(t) \/ Accept(t) \/ AcceptFails(t)
    PROVE  RestInv'
<1> USE DEF Walk
<1>1. UNCHANGED <<port, open, ListeningSock, AcceptingThreadID, cancelled, FtpServerLock, caller,
                  DataPortRange, ClientListLock>>
  BY DEF Accepting, Redis, AcceptingBegins, ActOnCancel, AddClient, DeleteUnlink, DeleteEnds,
         EndAccepting, EndListening, AddClientFails, CreateShell, CreateShellFails, Accept, AcceptFails,
         calls, listening, accepting, acceptors, list
<1>2. bIsAccepting' => bIsAccepting
  BY DEF Accepting, Redis, AcceptingBegins, ActOnCancel, AddClient, DeleteUnlink, DeleteEnds,
         EndAccepting, EndListening, AddClientFails, CreateShell, CreateShellFails, Accept, AcceptFails,
         accepting
<1>3. PICK place, c :
          /\ at' = [at EXCEPT ![t] = place] /\ client' = [client EXCEPT ![t] = c]
          /\ c \in Maybe(Entries)
          /\ place \notin {"link", "redis", "delete", "unlinked"} => c = Null
  <2> USE DEF RestInv, ServerInv, ServerTypes, Working, Maybe
  <2>1. ASSUME AcceptingBegins(t) \/ AddClient(t) \/ CreateShellFails(t) \/ DeleteUnlink(t)
               \/ AcceptFails(t) \/ EndAccepting(t) \/ EndListening(t)
        PROVE  /\ \E place : at' = [at EXCEPT ![t] = place] /\ (place \notin {"link", "redis", "delete", "unlinked"} => ~Working(t))
               /\ client' = client
    BY <2>1 DEF AcceptingBegins, AddClient, CreateShellFails, DeleteUnlink, AcceptFails, EndAccepting,
                EndListening
  <2>2. client = [client EXCEPT ![t] = client[t]]
    OBVIOUS
  <2>3. ASSUME AcceptingBegins(t) \/ AddClient(t) \/ CreateShellFails(t) \/ DeleteUnlink(t)
               \/ AcceptFails(t) \/ EndAccepting(t) \/ EndListening(t)
        PROVE  \E place, c :
                  /\ at' = [at EXCEPT ![t] = place] /\ client' = [client EXCEPT ![t] = c]
                  /\ c \in Maybe(Entries)
                  /\ place \notin {"link", "redis", "delete", "unlinked"} => c = Null
    BY <2>1, <2>2, <2>3
  <2>4. ASSUME ActOnCancel(t) \/ AddClientFails(t) \/ CreateShell(t) \/ DeleteEnds(t)
        PROVE  \E place : at' = [at EXCEPT ![t] = place] /\ client' = [client EXCEPT ![t] = Null]
    BY <2>4 DEF ActOnCancel, AddClientFails, CreateShell, DeleteEnds
  <2>5. ASSUME Accept(t)
        PROVE  \E e \in Entries : at' = [at EXCEPT ![t] = "link"] /\ client' = [client EXCEPT ![t] = e]
    BY <2>5 DEF Accept
  <2>6. QED
    BY <2>3, <2>4, <2>5 DEF Accepting, Redis
<1>4. client' \in [Acceptors -> Maybe(Entries)]
  BY <1>3 DEF RestInv
<1>5. ASSUME NEW u \in Acceptors, ~Working(u)' PROVE client'[u] = Null
  BY <1>3, <1>5 DEF RestInv, ServerInv, ServerTypes, Working
<1>6. Created' = Created
  BY <1>1 DEF Created
<1>7. QED
  BY <1>1, <1>2, <1>4, <1>5, <1>6 DEF RestInv, Maybe

\* A session leaves the server alone, but for ClientListLock.
LEMMA SessionRest ==
    ASSUME RestInv, NEW e \in Entries, Session(e) \/ Delete(e) PROVE RestInv'
<1> USE DEF Session, Delete, Pasv, PasvBegins, TryPort, Listen, Connect, ResetDataConnection, Unlink
<1>1. UNCHANGED <<port, open, ListeningSock, AcceptingThreadID, cancelled, bIsAccepting, FtpServerLock,
                  caller, client, at, DataPortRange>>
  BY DEF calls, listening, accepting, acceptors
<1>2. ClientListLock' \in Maybe(Entries)
  BY DEF list, RestInv, Maybe
<1>3. QED
  BY <1>1, <1>2 DEF RestInv, Created, Working, Maybe

LEMMA RestStep == ASSUME ServerInv, RestInv, [Next]_vars PROVE RestInv'
<1>1. CASE UNCHANGED vars
  BY <1>1 DEF vars, calls, listening, accepting, acceptors, list, RestInv, Created, Working, Maybe
<1>2. QED
  BY <1>1, CallRest, ThreadRest, SessionRest DEF Next

----------------------------------------------------------------------------
(* The data ports.                                                         *)

\* Their types, with a search exactly while a Shell binds.
PortTypes ==
    /\ eDataConnection \in [Entries -> {"NONE", "PASV"}]
    /\ DataSock \in [Entries -> {"none", "open", "listening", "connected"}]
    /\ usDataPort \in [Entries -> 0..MaxPort] /\ search \in [Entries -> Searches \cup {Null}]
    /\ \A e \in Entries : IF shell[e] = "bind" THEN search[e] \in Searches ELSE search[e] = Null

\* A client is told a port once its socket listens, and has been told none
\* while PASV looks for one.
ToldInv ==
    \A e \in Entries :
        /\ eDataConnection[e] = "PASV" => DataSock[e] \in {"listening", "connected"}
        /\ shell[e] \in {"bind", "listen"} => DataSock[e] = "open"

\* Of the sockets bound to a port at most one listens, and no program beside.
ListenInv == \A e \in Entries : DataSock[e] = "listening" => ~Occupied(e, usDataPort[e])

PortInv == PortTypes /\ ToldInv /\ ListenInv

LEMMA PortIsNat == MaxPort \in Nat /\ 0 \in 0..MaxPort
  BY DEF MaxPort

LEMMA InitPort == Init => PortInv
BY DEF Init, PortInv, PortTypes, ToldInv, ListenInv, MaxPort

\* A step of another kind, or one that ends a session.
LEMMA PortUnread ==
    ASSUME PortInv, UNCHANGED dataports,
           \A e \in Entries : shell'[e] = shell[e] \/ {shell[e], shell'[e]} \cap {"bind", "listen"} = {}
    PROVE  PortInv'
<1>1. PortTypes'
  BY DEF PortInv, PortTypes, dataports
<1>2. ToldInv'
  BY DEF PortInv, ToldInv, dataports
<1>3. ListenInv'
  BY DEF PortInv, ListenInv, Occupied, dataports
<1>4. QED
  BY <1>1, <1>2, <1>3 DEF PortInv

\* The ports that PASV begins with, and the one it goes on to.
LEMMA SearchBegins ==
    ASSUME NEW r \in Ranges, NEW first \in r[1]..(r[1] + r[2] - 1)
    PROVE  [usFirstTry |-> first, usTriedPort |-> first, last |-> r[1] + r[2]] \in Searches
<1>1. r[1] \in 1..MaxPort /\ r[2] \in 1..MaxPort /\ r[1] + r[2] <= MaxPort /\ MaxPort \in Nat
  BY RangesAssumption, PortIsNat
<1>2. QED
  BY <1>1 DEF Searches

LEMMA SearchGoesOn ==
    ASSUME NEW try \in Searches
    PROVE  LET next == IF try.usTriedPort - 1 < try.usFirstTry THEN try.last
                       ELSE try.usTriedPort - 1 IN
           [try EXCEPT !.usTriedPort = next] \in Searches
<1> DEFINE next == IF try.usTriedPort - 1 < try.usFirstTry THEN try.last ELSE try.usTriedPort - 1
<1>1. try \in [usFirstTry : 1..MaxPort, usTriedPort : 1..MaxPort, last : 1..MaxPort]
      /\ try.usFirstTry <= try.usTriedPort /\ try.usTriedPort <= try.last
  BY DEF Searches
<1>2. next \in 1..MaxPort /\ try.usFirstTry <= next /\ next <= try.last
  BY <1>1, PortIsNat
<1> DEFINE then == [try EXCEPT !.usTriedPort = next]
<1> HIDE DEF next
<1>3. /\ then \in [usFirstTry : 1..MaxPort, usTriedPort : 1..MaxPort, last : 1..MaxPort]
      /\ then.usFirstTry = try.usFirstTry /\ then.usTriedPort = next /\ then.last = try.last
  BY <1>1, <1>2
<1> HIDE DEF then
<1>4. then \in Searches
  BY <1>2, <1>3 DEF Searches
<1>5. QED
  BY <1>4 DEF then, next

LEMMA PasvBeginsStep ==
    ASSUME PortInv, ListTypes, DataPortRange \in Ranges, NEW e \in Entries, PasvBegins(e)
    PROVE  PortInv'
<1>1. PICK first \in DataPortRange[1]..(DataPortRange[1] + DataPortRange[2] - 1) :
          search' = [search EXCEPT ![e] = [usFirstTry |-> first, usTriedPort |-> first,
                                           last |-> DataPortRange[1] + DataPortRange[2]]]
  BY DEF PasvBegins
<1>2. PICK s \in Searches : search' = [search EXCEPT ![e] = s]
  BY <1>1, SearchBegins
<1>3. /\ shell[e] = "read" /\ shell' = [shell EXCEPT ![e] = "bind"]
      /\ eDataConnection' = [eDataConnection EXCEPT ![e] = "NONE"]
      /\ DataSock' = [DataSock EXCEPT ![e] = "open"]
      /\ usDataPort' = [usDataPort EXCEPT ![e] = 0]
  BY DEF PasvBegins, ShellStep
<1>4. PortTypes'
  <2>1. \A x \in Entries : IF shell'[x] = "bind" THEN search'[x] \in Searches ELSE search'[x] = Null
    BY <1>2, <1>3 DEF PortInv, PortTypes, ListTypes
  <2>2. QED
    BY <2>1, <1>2, <1>3, PortIsNat DEF PortInv, PortTypes
<1>5. ToldInv'
  BY <1>3 DEF PortInv, PortTypes, ToldInv, ListTypes
<1>6. ListenInv'
  BY <1>3 DEF PortInv, PortTypes, ListenInv, Occupied
<1>7. QED
  BY <1>4, <1>5, <1>6 DEF PortInv

LEMMA TryPortStep ==
    ASSUME PortInv, ListTypes, NEW e \in Entries, TryPort(e) PROVE PortInv'
<1>1. shell[e] = "bind" /\ search[e] \in Searches /\ DataSock[e] = "open"
  BY DEF TryPort, PortInv, PortTypes, ToldInv
<1>2. UNCHANGED <<eDataConnection, DataSock>>
  BY DEF TryPort
<1>3. PICK to \in {"read", "bind", "listen"}, p \in 0..MaxPort :
        /\ shell' = [shell EXCEPT ![e] = to]
        /\ usDataPort' = [usDataPort EXCEPT ![e] = p]
        /\ to # "bind" => search' = [search EXCEPT ![e] = Null]
        /\ to = "bind" => \E s \in Searches : search' = [search EXCEPT ![e] = s]
  <2> DEFINE try == search[e]
             next == IF try.usTriedPort - 1 < try.usFirstTry THEN try.last
                     ELSE try.usTriedPort - 1
  <2>1. shell = [shell EXCEPT ![e] = "bind"] /\ usDataPort = [usDataPort EXCEPT ![e] = usDataPort[e]]
    BY <1>1 DEF ListTypes, PortInv, PortTypes
  <2>2. usDataPort[e] \in 0..MaxPort /\ try.usTriedPort \in 0..MaxPort
    BY <1>1, PortIsNat DEF PortInv, PortTypes, Searches
  <2>3. [try EXCEPT !.usTriedPort = next] \in Searches
    BY <1>1, SearchGoesOn
  <2>4. \/ /\ shell' = [shell EXCEPT ![e] = "listen"]
           /\ usDataPort' = [usDataPort EXCEPT ![e] = try.usTriedPort]
           /\ search' = [search EXCEPT ![e] = Null]
        \/ /\ search' = [search EXCEPT ![e] = [try EXCEPT !.usTriedPort = next]]
           /\ UNCHANGED <<shell, usDataPort>>
        \/ /\ shell' = [shell EXCEPT ![e] = "read"]
           /\ search' = [search EXCEPT ![e] = Null]
           /\ UNCHANGED usDataPort
    BY DEF TryPort, ShellStep
  <2> HIDE DEF try, next
  <2>5. QED
    BY <2>1, <2>2, <2>3, <2>4
<1>4. PortTypes'
  <2>1. \A x \in Entries : IF shell'[x] = "bind" THEN search'[x] \in Searches ELSE search'[x] = Null
    BY <1>3 DEF PortInv, PortTypes, ListTypes
  <2>2. QED
    BY <2>1, <1>2, <1>3 DEF PortInv, PortTypes
<1>5. ToldInv'
  BY <1>1, <1>2, <1>3 DEF PortInv, ToldInv, ListTypes
<1>6. ListenInv'
  <2>1. \A x \in Entries : DataSock[x] = "listening" => usDataPort'[x] = usDataPort[x]
    BY <1>1, <1>3 DEF PortInv, PortTypes
  <2>2. QED
    BY <2>1, <1>2 DEF PortInv, ListenInv, Occupied
<1>7. QED
  BY <1>4, <1>5, <1>6 DEF PortInv

LEMMA ListenStep ==
    ASSUME PortInv, ListTypes, NEW e \in Entries, Listen(e) PROVE PortInv'
<1>1. /\ shell[e] = "listen" /\ shell' = [shell EXCEPT ![e] = "read"]
      /\ UNCHANGED <<usDataPort, search>>
  BY DEF Listen, ShellStep
<1>2. CASE Occupied(e, usDataPort[e])
  <2>1. UNCHANGED <<eDataConnection, DataSock>>
    BY <1>2 DEF Listen
  <2>2. PortTypes'
    BY <1>1, <2>1 DEF PortInv, PortTypes, ListTypes
  <2>3. ToldInv'
    BY <1>1, <2>1 DEF PortInv, ToldInv, ListTypes
  <2>4. ListenInv'
    BY <1>1, <2>1 DEF PortInv, ListenInv, Occupied
  <2>5. QED
    BY <2>2, <2>3, <2>4 DEF PortInv
<1>3. CASE ~Occupied(e, usDataPort[e])
  <2>1. /\ eDataConnection' = [eDataConnection EXCEPT ![e] = "PASV"]
        /\ DataSock' = [DataSock EXCEPT ![e] = "listening"]
    BY <1>3 DEF Listen
  <2>2. PortTypes'
    BY <1>1, <2>1 DEF PortInv, PortTypes, ListTypes
  <2>3. ToldInv'
    BY <1>1, <2>1 DEF PortInv, PortTypes, ToldInv, ListTypes
  <2>4. ListenInv'
    <3>1. \A x \in Entries : DataSock'[x] = "listening" <=> x = e \/ DataSock[x] = "listening"
      BY <2>1 DEF PortInv, PortTypes
    <3>2. QED
      BY <3>1, <1>1, <1>3 DEF PortInv, ListenInv, Occupied
  <2>5. QED
    BY <2>2, <2>3, <2>4 DEF PortInv
<1>4. QED
  BY <1>2, <1>3

\* The client comes, the data connection is closed, or the session ends.
LEMMA CloseStep ==
    ASSUME PortInv, ListTypes, NEW e \in Entries, Connect(e) \/ ResetDataConnection(e) \/ Delete(e)
    PROVE  PortInv'
<1>1. PICK d \in {"none", "connected"}, c \in {"NONE", "PASV"}, p \in 0..MaxPort :
        /\ DataSock' = [DataSock EXCEPT ![e] = d]
        /\ eDataConnection' = [eDataConnection EXCEPT ![e] = c]
        /\ usDataPort' = [usDataPort EXCEPT ![e] = p]
        /\ c = "PASV" => d = "connected"
  <2>1. usDataPort = [usDataPort EXCEPT ![e] = usDataPort[e]] /\ usDataPort[e] \in 0..MaxPort
    BY DEF PortInv, PortTypes
  <2>2. eDataConnection = [eDataConnection EXCEPT ![e] = eDataConnection[e]]
        /\ eDataConnection[e] \in {"NONE", "PASV"}
    BY DEF PortInv, PortTypes
  <2>3. 0 \in 0..MaxPort
    BY PortIsNat
  <2>4. CASE Connect(e)
    BY <2>1, <2>2, <2>4 DEF Connect
  <2>5. CASE ResetDataConnection(e) \/ Delete(e)
    BY <2>3, <2>5 DEF ResetDataConnection, Delete
  <2>6. QED
    BY <2>4, <2>5
<1>2. UNCHANGED search
  BY DEF Connect, ResetDataConnection, Delete
<1>3. shell[e] \in {"read", "unlinked"}
      /\ (UNCHANGED shell \/ shell' = [shell EXCEPT ![e] = "none"])
  BY DEF Connect, ResetDataConnection, Delete, ShellStep
<1>4. PortTypes'
  <2>1. \A x \in Entries : IF shell'[x] = "bind" THEN search'[x] \in Searches ELSE search'[x] = Null
    BY <1>2, <1>3 DEF PortInv, PortTypes, ListTypes
  <2>2. QED
    BY <2>1, <1>1, <1>2 DEF PortInv, PortTypes
<1>5. ToldInv'
  BY <1>1, <1>3 DEF PortInv, PortTypes, ToldInv, ListTypes
<1>6. ListenInv'
  <2>1. \A x \in Entries : DataSock'[x] = "listening" =>
            DataSock[x] = "listening" /\ usDataPort'[x] = usDataPort[x]
    BY <1>1 DEF PortInv, PortTypes
  <2>2. QED
    BY <2>1 DEF PortInv, ListenInv, Occupied
<1>7. QED
  BY <1>4, <1>5, <1>6 DEF PortInv

LEMMA PortStep ==
    ASSUME ClientListInv, RestInv, PortInv, [Next]_vars PROVE PortInv'
<1> USE DEF ClientListInv
<1>1. ASSUME NEW c \in Callers, ServerCall(c) PROVE UNCHANGED shells
  BY <1>1 DEF ServerCall, Stop, StartListening, StopListening, StopCancel, StopJoin, StopReturn,
              StartAccepting, StartedAccepting, SetDataPortRange
<1>2. ASSUME NEW t \in Acceptors, Accepting(t) \/ Redis(t) \/ Accept(t) \/ AcceptFails(t), ~CreateShell(t)
      PROVE  UNCHANGED shells
  BY <1>2 DEF Accepting, Redis, AcceptingBegins, ActOnCancel, AddClient, DeleteUnlink, DeleteEnds,
              EndAccepting, EndListening, AddClientFails, CreateShellFails, Accept, AcceptFails
<1>3. ASSUME NEW t \in Acceptors, CreateShell(t) PROVE PortInv'
  <2>1. client[t] \in Entries /\ shell[client[t]] = "none"
    BY <1>3 DEF CreateShell, Walk, OwnerInv, Working
  <2>2. UNCHANGED dataports /\ shell' = [shell EXCEPT ![client[t]] = "read"]
    BY <1>3 DEF CreateShell
  <2>3. QED
    BY <2>1, <2>2, PortUnread DEF ListTypes
<1>4. ASSUME NEW e \in Entries, Unlink(e) PROVE PortInv'
  <2>1. UNCHANGED dataports /\ shell[e] = "read" /\ shell' = [shell EXCEPT ![e] = "unlinked"]
    BY <1>4 DEF Unlink, ShellStep
  <2>2. QED
    BY <2>1, PortUnread DEF ListTypes
<1>5. ASSUME UNCHANGED shells PROVE PortInv'
  BY <1>5, PortUnread DEF shells
<1>6. CASE UNCHANGED vars
  BY <1>5, <1>6 DEF vars
<1>7. ASSUME NEW e \in Entries, Session(e) \/ Delete(e) PROVE PortInv'
  BY <1>4, <1>7, PasvBeginsStep, TryPortStep, ListenStep, CloseStep DEF Session, Pasv, RestInv
<1>8. QED
  BY <1>1, <1>2, <1>3, <1>5, <1>6, <1>7 DEF Next

----------------------------------------------------------------------------
(* The theorems about the data ports and the types.                        *)

LEMMA RestInvariance == Spec => []RestInv
<1>1. Init => RestInv
  BY InitRest
<1>2. RestInv /\ ServerInv /\ [Next]_vars => RestInv'
  BY RestStep
<1>3. QED
  BY <1>1, <1>2, ServerInvariance, PTL DEF Spec

\* The inductive invariant of the data ports: the first socket whose listen
\* succeeds has the port, however many have been bound to it.
THEOREM PortInvariance == Spec => []PortInv
<1>1. ClientListInv /\ RestInv /\ PortInv /\ [Next]_vars => PortInv'
  BY PortStep
<1>2. QED
  BY <1>1, InitPort, ListInvariance, RestInvariance, PTL DEF Spec

\* A client that has been told a port is waited for on it, and by nobody else,
\* for any number of clients, all ranges and whatever other programs have.
THEOREM PortPromised == Spec => []DataPortPromised
<1>1. PortInv => DataPortPromised
  BY DEF PortInv, ToldInv, ListenInv, DataPortPromised
<1>2. QED
  BY <1>1, PortInvariance, PTL

\* Every variable of the server has its type, for any callers, threads, clients
\* and ranges of data ports; an accepting thread has an entry exactly while it
\* works on it, and a Shell a search exactly while it binds.
THEOREM TypeCorrect == Spec => []TypeOK
<1>1. ServerInv /\ ClientListInv /\ RestInv /\ PortInv => TypeOK
  <2> SUFFICES ASSUME ServerInv, ClientListInv, RestInv, PortInv PROVE TypeOK
    OBVIOUS
  <2>1. ServerTypes /\ ListTypes /\ OwnerInv /\ PortTypes
    BY DEF ServerInv, ClientListInv, PortInv
  <2>2. \A t \in Acceptors : IF at[t] \in {"link", "redis", "delete", "unlinked"}
                             THEN client[t] \in Entries ELSE client[t] = Null
    BY <2>1 DEF RestInv, OwnerInv, Working
  <2>3. QED
    BY <2>1, <2>2 DEF TypeOK, RestInv, ServerTypes, ListTypes, PortTypes, Maybe
<1>2. QED
  BY <1>1, ServerInvariance, ListInvariance, RestInvariance, PortInvariance, PTL

=============================================================================
