--------------------------- MODULE SlaveTransfer ---------------------------
(***************************************************************************)
(* The transfers between the metaserver and the slaves: PRET, PASV, PORT,  *)
(* RETR, STOR, APPE and ABOR of CFtpServer.cpp, and the handler of the     *)
(* thrift calls in slave_servicesHandler.hpp.                              *)
(*                                                                         *)
(* A passive transfer takes three calls to a slave, InitPasv (PASV),       *)
(* OpenPasv (RETR, STOR) and the transfer itself, tied together by a       *)
(* transaction id, under which the slave keeps its data socket.  An active *)
(* one takes a single call.  The socket itself is left out: what happens to *)
(* it is in the answers.  Each call has a thread of the slave's pool.  A    *)
(* slave notices neither ABOR nor the end of a session: the call goes on,  *)
(* with nobody waiting for it.  A slave may restart at any time; it keeps  *)
(* its files, and forgets its sockets and calls.                           *)
(*                                                                         *)
(* The names are entries of one directory, and an operation on them is one *)
(* step: RedisVfs has the steps of the lookups.  Every peer has one        *)
(* transfer at a time: ClientSession has what happens otherwise, and why a *)
(* transfer is over when ABOR answers.                                     *)
(***************************************************************************)
EXTENDS Integers, Sequences, FiniteSets

CONSTANTS
    Sessions,      \* the control connections
    Populations,   \* the peers that the sessions may have
    Commands,      \* bound: those of RETR, STOR and APPE that peers send
    Names,         \* the paths of the files
    Stored,        \* those that exist when the metaserver starts
    Slaves,        \* pFtpServer->Slaves
    NoSlave,       \* a slave_info that no lookup has filled
    Threads,       \* bound: the calls that the slaves have at a time, running
                   \* or waiting for a thread of the pool
    Idle,          \* the place of a call that nobody uses
    MaxFid,        \* bounds: the largest fid,
    MaxTrans       \* and the largest transaction id

ASSUME CommandsAssumption == Commands \subseteq {"RETR", "STOR", "APPE"} /\ "RETR" \in Commands
\* An orderly peer heeds the replies, and sends PRET, PASV and the transfer in
\* this order; with "none" nothing comes over the connection.
PeerKinds == {"orderly", "any", "none"}
ASSUME PopulationsAssumption == Populations \subseteq [Sessions -> PeerKinds]
ASSUME NamesAssumption == Names # {}
ASSUME SlavesAssumption == NoSlave \notin Slaves
ASSUME BoundsAssumption == MaxFid \in Nat /\ MaxTrans \in Nat
ASSUME StoredAssumption ==
    Stored \subseteq Names /\ IsFiniteSet(Stored) /\ Cardinality(Stored) <= MaxFid

NoFid == -1
NoTrans == -1
Fids == 1..MaxFid
Transactions == 1..MaxTrans

VARIABLES
    peer,        \* the kind of peer that each session has
    fid_counter, transaction_counter,  \* of redis
    entry,       \* the fid that a name leads to, or NoFid
    slave_info,  \* stat:<fid>: the slave that stores the file, or NoSlave
    at,          \* what a session is doing: "shell" while it is WAITING
    conn,        \* eDataConnection
    pret,        \* nPRET_CMD
    pretFid,     \* llPRET_fid
    trans,       \* llPRET_trans_id
    slaveInfo,   \* SlaveInfo
    told,        \* how far an orderly peer has come: the command it may send
    cmd, name,   \* the transfer's command and szPath
    fid, slave,  \* the transfer thread's fid and slave
    call,        \* the calls that the slaves have
    file         \* the slave's files

redis == <<fid_counter, transaction_counter, entry, slave_info>>
session == <<conn, pret, pretFid, trans, slaveInfo, told>>
transfer == <<cmd, name, fid, slave>>
slaves == <<call, file>>
vars == <<peer, redis, at, session, transfer, slaves>>

Nothing == <<>>          \* what an orderly peer has been told: nothing yet,
Ported == <<"PORT">>     \* 200 to PORT, or 200 to PRET and then 227 to PASV
Blocked == {"init", "open"}              \* Shell waits for the call
Waiting == Blocked \cup {"transfer"}     \* so does the transfer thread

\* The files of earlier runs: redis and the slaves keep them.
InitFiles ==
    /\ fid_counter = Cardinality(Stored)
    /\ entry \in [Names -> 1..fid_counter \cup {NoFid}]
    /\ \A n \in Names : entry[n] # NoFid <=> n \in Stored
    /\ \A n, m \in Stored : entry[n] = entry[m] => n = m
    /\ slave_info \in [Fids -> Slaves \cup {NoSlave}]
    /\ \A f \in Fids : slave_info[f] # NoSlave <=> f \in 1..fid_counter
    /\ file = [v \in Slaves |-> [f \in Fids |-> slave_info[f] = v]]

Init ==
    /\ peer \in Populations
    /\ InitFiles
    /\ transaction_counter = 0
    /\ at = [s \in Sessions |-> "shell"]
    /\ conn = [s \in Sessions |-> "NONE"]
    /\ pret = [s \in Sessions |-> "NONE"]
    /\ pretFid = [s \in Sessions |-> NoFid]
    /\ trans = [s \in Sessions |-> NoTrans]
    /\ slaveInfo = [s \in Sessions |-> NoSlave]
    /\ told = [s \in Sessions |-> Nothing]
    /\ cmd = [s \in Sessions |-> "RETR"]
    /\ name = [s \in Sessions |-> CHOOSE n \in Names : TRUE]
    /\ fid = [s \in Sessions |-> NoFid]
    /\ slave = [s \in Sessions |-> NoSlave]
    /\ call = [w \in Threads |-> Idle]

----------------------------------------------------------------------------
(* The calls, as the metaserver sees them.                                 *)

\* The transfer is over: ResetDataConnection.
Finish(s) ==
    /\ at' = [at EXCEPT ![s] = "shell"]
    /\ conn' = [conn EXCEPT ![s] = "NONE"]
    /\ told' = [told EXCEPT ![s] = Nothing]
    /\ fid' = [fid EXCEPT ![s] = NoFid]
    /\ slave' = [slave EXCEPT ![s] = NoSlave]
    /\ cmd' = [cmd EXCEPT ![s] = "RETR"]
    /\ UNCHANGED <<pret, pretFid, trans, slaveInfo, name>>

\* A client's call to v, or an open() that throws.
Call(s, v, op, t, f) ==
    /\ \/ /\ v \in Slaves
          /\ \E w \in Threads :
                /\ call[w] = Idle
                /\ call' = [call EXCEPT ![w] = [slave |-> v, op |-> op, origin |-> s,
                                  trans |-> t, fid |-> f, waited |-> TRUE]]
       \/ UNCHANGED call
    /\ UNCHANGED file

\* Nobody waits any longer for the calls of s.
Abandon(s) ==
    /\ call' = [w \in Threads |->
            IF call[w] # Idle /\ call[w].origin = s THEN [call[w] EXCEPT !.waited = FALSE]
            ELSE call[w]]
    /\ UNCHANGED file

\* The connection to the slave fails before the answer: a TException.
CallFails(s) ==
    /\ at[s] \in Waiting
    /\ \/ at[s] = "transfer" /\ Finish(s)
       \/ /\ at[s] \in Blocked
          /\ at' = [at EXCEPT ![s] = "shell"]
          /\ told' = [told EXCEPT ![s] = Nothing]
          /\ UNCHANGED <<conn, pret, pretFid, trans, slaveInfo, transfer>>
    /\ Abandon(s)
    /\ UNCHANGED redis

----------------------------------------------------------------------------
(* The commands of Shell.                                                  *)

Orderly(s) == peer[s] = "orderly"
Heeds(s, condition) == Orderly(s) => condition
ReadsCommands(s) == at[s] \notin Blocked

\* PORT, or 501 to an address that is not the peer's.
Port(s) ==
    /\ at[s] = "shell"
    /\ \/ /\ conn' = [conn EXCEPT ![s] = "PORT"]
          /\ told' = [told EXCEPT ![s] = IF Orderly(s) THEN Ported ELSE Nothing]
       \/ /\ conn' = [conn EXCEPT ![s] = "NONE"]
          /\ told' = [told EXCEPT ![s] = Nothing]
    /\ UNCHANGED <<redis, at, pret, pretFid, trans, slaveInfo, transfer, slaves>>

\* PRET of a file that does not exist keeps the fid of the one before.
Pret(s, command, n) ==
    LET found == entry[n] # NoFid
        lookup == command \in {"RETR", "APPE"} IN
    /\ ReadsCommands(s) /\ Heeds(s, at[s] = "shell")
    /\ pret' = [pret EXCEPT ![s] = command]
    /\ pretFid' = IF lookup /\ found THEN [pretFid EXCEPT ![s] = entry[n]] ELSE pretFid
    /\ told' = [told EXCEPT ![s] =
            IF command = "NONE" \/ (lookup /\ ~found) \/ ~Orderly(s) THEN Nothing
            ELSE <<command, n>>]
    /\ UNCHANGED <<redis, at, conn, trans, slaveInfo, transfer, slaves>>

\* PASV without PRET listens on a socket of the metaserver.
PasvLocal(s) ==
    /\ at[s] = "shell" /\ pret[s] = "NONE" /\ ~Orderly(s)
    /\ conn' \in {[conn EXCEPT ![s] = "NONE"], [conn EXCEPT ![s] = "PASV"]}
    /\ UNCHANGED <<redis, at, pret, pretFid, trans, slaveInfo, told, transfer, slaves>>

SlaveOf(f) == IF f \in Fids THEN slave_info[f] ELSE NoSlave

\* The slave of the file that PRET named, or any for a new one.
PasvSlaves(s) ==
    IF pret[s] = "STOR" THEN (IF Slaves = {} THEN {NoSlave} ELSE Slaves)
    ELSE {SlaveOf(pretFid[s])}

\* Mutant: the transaction id is the counter's value before the INCR.
OldTransaction(s) == transaction_counter

\* Mutant: a session keeps the transaction id that it has.
KeptTransaction(s) ==
    IF trans[s] = NoTrans THEN transaction_counter + 1 ELSE trans[s]

\* get_new_transaction_id, for session s.
NewTransaction(s) == transaction_counter + 1

Pasv(s) ==
    /\ at[s] = "shell" /\ pret[s] # "NONE" /\ transaction_counter < MaxTrans
    /\ Heeds(s, told[s] \in Commands \X Names)
    /\ \E v \in PasvSlaves(s) :
        /\ slaveInfo' = [slaveInfo EXCEPT ![s] = v]
        /\ Call(s, v, "init", NewTransaction(s), NoFid)
    /\ transaction_counter' = transaction_counter + 1
    /\ trans' = [trans EXCEPT ![s] = NewTransaction(s)]
    /\ at' = [at EXCEPT ![s] = "init"]
    /\ UNCHANGED <<fid_counter, entry, slave_info, conn, pret, pretFid, told, transfer>>

\* What an orderly peer knows when it sends RETR, STOR or APPE.
Prepared(s, command, n) ==
    told[s] \in {Ported, <<command, n, "PASV">>}

\* RETR, STOR or APPE: Shell calls OpenPasv, or starts the thread at once.
Transfer(s, command, n) ==
    /\ at[s] = "shell" /\ Heeds(s, Prepared(s, command, n))
    /\ command = "RETR" => entry[n] # NoFid
    /\ cmd' = [cmd EXCEPT ![s] = command]
    /\ name' = [name EXCEPT ![s] = n]
    /\ \/ /\ conn[s] = "PASV"
          /\ Call(s, slaveInfo[s], "open", trans[s], NoFid)
          /\ at' = [at EXCEPT ![s] = "open"]
       \/ /\ conn[s] # "PASV"
          /\ at' = [at EXCEPT ![s] = "start"]
          /\ UNCHANGED slaves
    /\ UNCHANGED <<redis, session, fid, slave>>

\* DELE: the slave keeps the data.
Delete(s, n) ==
    /\ ReadsCommands(s) /\ entry[n] # NoFid
    /\ entry' = [entry EXCEPT ![n] = NoFid]
    /\ slave_info' = [slave_info EXCEPT ![entry[n]] = NoSlave]
    /\ UNCHANGED <<fid_counter, transaction_counter, at, session, transfer, slaves>>

\* ABOR of a transfer: ResetDataConnection cancels and joins the thread.
Abor(s) ==
    /\ at[s] \notin Blocked \cup {"shell"}
    /\ Finish(s)
    /\ Abandon(s)
    /\ UNCHANGED redis

\* The session ends, and another one begins.
Leave(s) ==
    /\ at[s] = "shell"
    /\ conn' = [conn EXCEPT ![s] = "NONE"]
    /\ pret' = [pret EXCEPT ![s] = "NONE"]
    /\ pretFid' = [pretFid EXCEPT ![s] = NoFid]
    /\ trans' = [trans EXCEPT ![s] = NoTrans]
    /\ slaveInfo' = [slaveInfo EXCEPT ![s] = NoSlave]
    /\ told' = [told EXCEPT ![s] = Nothing]
    /\ UNCHANGED <<redis, at, transfer, slaves>>

----------------------------------------------------------------------------
(* StoreThread and RetrieveThread.                                         *)

\* pthread_create fails.
NoThread(s) ==
    /\ at[s] = "start"
    /\ Finish(s)
    /\ UNCHANGED <<redis, slaves>>

\* Mutant: APPE appends to the file that PRET named.
AppendFid(s) == IF cmd[s] = "APPE" /\ pretFid[s] # NoFid THEN pretFid[s] ELSE fid_counter + 1
NewFid(s) == fid_counter + 1

\* StoreThread begins with get_new_fid, whatever the command.
Allocate(s) ==
    /\ at[s] = "start" /\ cmd[s] # "RETR" /\ fid_counter < MaxFid
    /\ fid_counter' = fid_counter + 1
    /\ fid' = [fid EXCEPT ![s] = NewFid(s)]
    /\ at' = [at EXCEPT ![s] = "call"]
    /\ UNCHANGED <<transaction_counter, entry, slave_info, session, cmd, name, slave, slaves>>

\* RetrieveThread begins with lookup_fid.
Find(s) ==
    /\ at[s] = "start" /\ cmd[s] = "RETR"
    /\ fid' = [fid EXCEPT ![s] = entry[name[s]]]
    /\ at' = [at EXCEPT ![s] = "call"]
    /\ UNCHANGED <<redis, session, cmd, name, slave, slaves>>

\* Active: a new file goes to any slave; that of a file that is looked up by
\* its path again.
ActiveCall(s) ==
    /\ at[s] = "call" /\ conn[s] = "PORT" /\ fid[s] # NoFid /\ Slaves # {}
    /\ transaction_counter < MaxTrans
    /\ \E v \in IF cmd[s] = "RETR" THEN {SlaveOf(entry[name[s]])} ELSE Slaves :
        /\ slave' = [slave EXCEPT ![s] = v]
        /\ Call(s, v, IF cmd[s] = "RETR" THEN "activeRetrieve" ELSE "activeStore",
                NewTransaction(s), fid[s])
    /\ transaction_counter' = transaction_counter + 1
    /\ at' = [at EXCEPT ![s] = "transfer"]
    /\ UNCHANGED <<fid_counter, entry, slave_info, session, cmd, name, fid>>

\* Mutant: the fid of PRET is not compared.
AnnouncedCommand(s) ==
    IF cmd[s] = "RETR" THEN pret[s] = "RETR" ELSE pret[s] \in {"STOR", "APPE"}

\* Passive: the command must be the one that PRET announced, and the file.
Announced(s) ==
    IF cmd[s] = "RETR" THEN pret[s] = "RETR" /\ pretFid[s] = fid[s]
    ELSE pret[s] \in {"STOR", "APPE"}

PassiveCall(s) ==
    /\ at[s] = "call" /\ conn[s] = "PASV" /\ Announced(s)
    /\ slave' = [slave EXCEPT ![s] = slaveInfo[s]]
    /\ Call(s, slaveInfo[s], IF cmd[s] = "RETR" THEN "retrieve" ELSE "store", trans[s], fid[s])
    /\ at' = [at EXCEPT ![s] = "transfer"]
    /\ UNCHANGED <<redis, session, cmd, name, fid>>

NoCall(s) ==
    /\ at[s] = "call"
    /\ \/ conn[s] = "NONE"
       \/ conn[s] = "PORT" /\ (fid[s] = NoFid \/ Slaves = {})
       \/ conn[s] = "PASV" /\ ~Announced(s)
    /\ Finish(s)
    /\ UNCHANGED <<redis, slaves>>

\* save_new_file.
Save(s) ==
    /\ at[s] = "save"
    /\ entry' = [entry EXCEPT ![name[s]] = fid[s]]
    /\ slave_info' = [slave_info EXCEPT ![fid[s]] = slave[s]]
    /\ Finish(s)
    /\ UNCHANGED <<fid_counter, transaction_counter, slaves>>

----------------------------------------------------------------------------
(* The slaves.                                                             *)

Works(w, ops) == call[w] # Idle /\ call[w].op \in ops

\* The thread is free again, and the caller, if it still waits, goes on,
Return(w, point) ==
    /\ call' = [call EXCEPT ![w] = Idle]
    /\ at' = IF call[w].waited THEN [at EXCEPT ![call[w].origin] = point] ELSE at
    /\ UNCHANGED <<redis, transfer>>

\* or its transfer is over.
ReturnFinish(w) ==
    /\ call' = [call EXCEPT ![w] = Idle]
    /\ IF call[w].waited THEN Finish(call[w].origin) ELSE UNCHANGED <<at, session, transfer>>
    /\ UNCHANGED redis

\* What the peer of the call's session has been told.
Tell(w, words) ==
    IF call[w].waited /\ Orderly(call[w].origin)
    THEN [told EXCEPT ![call[w].origin] = words] ELSE told

\* The answer is 227, or 451 if there is no socket or no port: Shell goes on
\* in the same way.
InitPasvDataConnection(w) ==
    /\ Works(w, {"init"})
    /\ \/ told' = Tell(w, Append(told[call[w].origin], "PASV"))
       \/ told' = Tell(w, Nothing)
    /\ conn' = IF call[w].waited THEN [conn EXCEPT ![call[w].origin] = "PASV"] ELSE conn
    /\ Return(w, "shell")
    /\ UNCHANGED <<pret, pretFid, trans, slaveInfo, file>>

\* The peer connects, or nobody does in ten seconds: Shell starts the thread
\* all the same.
OpenPasvDataConnection(w) ==
    /\ Works(w, {"open"})
    /\ Return(w, "start")
    /\ UNCHANGED <<session, file>>

\* Retrieve sends the file, if there is one and a peer to send it to.
Retrieve(w) ==
    /\ Works(w, {"retrieve", "activeRetrieve"})
    /\ ReturnFinish(w)
    /\ UNCHANGED file

\* Store opens the file, after OpenActiveDataConnection if PORT was the
\* command; of a passive socket it does not ask whether a peer is there.
StoreOpens(w) ==
    /\ Works(w, {"store", "activeStore"})
    /\ file' = [file EXCEPT ![call[w].slave][call[w].fid] = TRUE]
    /\ call' = [call EXCEPT ![w].op = "receive"]
    /\ UNCHANGED <<redis, at, session, transfer>>

\* Mutant: the size is not looked at.
StoreFailsUnnoticed(w) ==
    /\ Works(w, {"store", "activeStore"})
    /\ Return(w, "save")
    /\ UNCHANGED <<session, file>>

\* 550, or 425 of an active store: there is no file, and the size is -1.
StoreFails(w) ==
    /\ Works(w, {"store", "activeStore"})
    /\ ReturnFinish(w)
    /\ UNCHANGED file

\* The data has been written, up to its end or to an error: the file has a
\* size.
Received(w) ==
    /\ Works(w, {"receive"})
    /\ Return(w, "save")
    /\ UNCHANGED <<session, file>>

\* The process of the slave dies, and is started again.
Crash(v) ==
    /\ call' = [w \in Threads |-> IF call[w] # Idle /\ call[w].slave = v THEN Idle ELSE call[w]]
    /\ UNCHANGED <<redis, at, session, transfer, file>>

----------------------------------------------------------------------------
Command(s) ==
    \/ Port(s) \/ PasvLocal(s) \/ Pasv(s) \/ Abor(s) \/ Leave(s)
    \/ \E n \in Names : \/ \E command \in Commands \cup {"NONE"} : Pret(s, command, n)
                        \/ \E command \in Commands : Transfer(s, command, n)
                        \/ Delete(s, n)

Thread(s) ==
    \/ NoThread(s) \/ Allocate(s) \/ Find(s) \/ ActiveCall(s) \/ PassiveCall(s) \/ NoCall(s)
    \/ Save(s)

Serve(w) ==
    \/ InitPasvDataConnection(w) \/ OpenPasvDataConnection(w) \/ Retrieve(w)
    \/ StoreOpens(w) \/ StoreFails(w) \/ Received(w)

Next ==
    /\ \/ \E s \in Sessions : peer[s] # "none" /\ Command(s)
       \/ \E s \in Sessions : Thread(s) \/ CallFails(s)
       \/ \E w \in Threads : Serve(w)
       \/ \E v \in Slaves : Crash(v)
    /\ UNCHANGED peer

Spec == Init /\ [][Next]_vars

----------------------------------------------------------------------------
(* Type correctness.                                                       *)

Points == {"shell", "start", "call", "save"} \cup Waiting
Ops == {"init", "open", "activeStore", "activeRetrieve", "store", "receive", "retrieve"}
Calls == [slave : Slaves, op : Ops, origin : Sessions, trans : Transactions,
          fid : Fids \cup {NoFid}, waited : BOOLEAN]

ASSUME IdleAssumption == Idle \notin Calls

\* Every variable has its type; a slave is never called with the transaction
\* id of a session that has not had one.
TypeOK ==
    /\ peer \in [Sessions -> PeerKinds]
    /\ fid_counter \in 0..MaxFid /\ transaction_counter \in 0..MaxTrans
    /\ entry \in [Names -> Fids \cup {NoFid}]
    /\ slave_info \in [Fids -> Slaves \cup {NoSlave}]
    /\ at \in [Sessions -> Points]
    /\ conn \in [Sessions -> {"NONE", "PORT", "PASV"}]
    /\ pret \in [Sessions -> Commands \cup {"NONE"}]
    /\ pretFid \in [Sessions -> Fids \cup {NoFid}]
    /\ trans \in [Sessions -> Transactions \cup {NoTrans}]
    /\ slaveInfo \in [Sessions -> Slaves \cup {NoSlave}]
    /\ told \in [Sessions -> Seq(Commands \cup Names \cup {"PORT", "PASV"})]
    /\ cmd \in [Sessions -> Commands] /\ name \in [Sessions -> Names]
    /\ fid \in [Sessions -> Fids \cup {NoFid}]
    /\ slave \in [Sessions -> Slaves \cup {NoSlave}]
    /\ call \in [Threads -> Calls \cup {Idle}]
    /\ file \in [Slaves -> [Fids -> BOOLEAN]]

----------------------------------------------------------------------------
(* Safety.                                                                 *)

\* Two calls that a slave has at the same time never share a transaction, and
\* with it a data socket, unless they are of one session whose peer mixes PASV
\* with and without PRET: neither a call that ABOR has left behind nor that of
\* another session disturbs a transfer.
TransactionsNotShared ==
    \A i, j \in Threads :
        /\ i # j /\ call[i] # Idle /\ call[j] # Idle
        /\ call[i].slave = call[j].slave /\ call[i].trans = call[j].trans
        => call[i].origin = call[j].origin /\ ~Orderly(call[i].origin)

\* A name leads to a file that its slave has: an upload is linked only if the
\* slave has stored something, whatever fails or is aborted, and restarts lose
\* no file.
LinkedFilesStored ==
    \A n \in Names : entry[n] # NoFid =>
        LET v == slave_info[entry[n]] IN v \in Slaves /\ file[v][entry[n]]

\* No slave writes to a file that a name leads to: neither a later STOR or
\* APPE nor an upload that goes on after its ABOR or after a lost answer.
LinkedFilesNotWritten ==
    \A w \in Threads, n \in Names :
        Works(w, {"activeStore", "store", "receive"}) => call[w].fid # entry[n]

\* A passive RETR asks the slave of PASV for a file that this slave has, even
\* if another session deletes or replaces the file between PRET and RETR.
PassiveRetrieveRouted ==
    \A w \in Threads :
        Works(w, {"retrieve"}) /\ Orderly(call[w].origin) =>
            call[w].fid \in Fids /\ file[call[w].slave][call[w].fid]

=============================================================================
