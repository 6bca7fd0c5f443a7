-------------------------- MODULE MCClientSession --------------------------
(* ClientSession on a small instance.                                       *)
EXTENDS ClientSession, TLC

\* Clients are interchangeable, and so are transfer threads.
ClientSymmetry == Permutations(Clients) \cup Permutations(Threads)

\* What a step can still read: cont and target only within
\* ResetDataConnection, nothing of an entry that has been freed, and of a
\* thread that has ended whether it can be joined.  staleHandle is only
\* written.
LiveEntry(c) ==
    IF entry[c] = "freed" THEN <<>>
    ELSE <<eStatus[c], eDataConnection[c], DataSock[c], bIsCtrlCanalOpen[c],
           TransferThreadID[c], armed[c],
           IF shell[c] \in {"reset", "read", "cancel", "join", "relock"} THEN cont[c] ELSE "cmd",
           IF shell[c] \in {"cancel", "join"} THEN target[c] ELSE NoThread>>

LiveThread(t) ==
    IF thread[t] = "done" THEN <<detached[t]>> ELSE <<owner[t], cancelled[t], detached[t]>>

LiveState ==
    <<entry, shell, thread, ClientListLock, ClientLock,
      [c \in Clients |-> LiveEntry(c)], [t \in Threads |-> LiveThread(t)]>>

\* Bound: one of the sessions sends PORT, RETR and ABOR only, where ABOR finds
\* no thread to cancel; its transfer and its end hold ClientListLock meanwhile.
Bystander == CHOOSE c \in Clients : TRUE
FewCommands ==
    /\ eDataConnection[Bystander] # "PASV"
    /\ shell[Bystander] \notin {"pasv", "read", "spawnList", "open"}

=============================================================================
