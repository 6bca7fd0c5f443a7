------------------------ MODULE SlaveTransferProofs ------------------------
(***************************************************************************)
(* Proofs about SlaveTransfer, for any number of sessions, names, slaves    *)
(* and calls, and for any mixture of peers.                                *)
(*                                                                         *)
(* Three facts, each resting on the ones before it, and all on the types:  *)
(* a fid has one writer, who is also the only one to link it (UploadInv);  *)
(* a transaction belongs to one session (TransInv); and what PRET has       *)
(* found stays on the slave that PASV has called (RouteInv).                *)
(***************************************************************************)
EXTENDS SlaveTransfer, FiniteSetTheorems, SequenceTheorems, TLAPS

USE DEF NoFid, NoTrans, redis, session, transfer, slaves

\* A session that has a slave has a transaction.
HeldOK == \A s \in Sessions : slaveInfo[s] \in Slaves => trans[s] # NoTrans

\* The words that a peer has been told are sequences.
Words == Commands \cup Names \cup {"PORT", "PASV"}

LEMMA ToldType ==
    /\ Nothing \in Seq(Words) /\ Ported \in Seq(Words)
    /\ \A command \in Commands, n \in Names : <<command, n>> \in Seq(Words)
    /\ \A words \in Seq(Words) : Append(words, "PASV") \in Seq(Words)
<1>1. "PASV" \in Words /\ "PORT" \in Words
  BY DEF Words
<1>2. Nothing \in Seq(Words)
  BY DEF Nothing
<1>3. Ported \in Seq(Words)
  BY <1>1 DEF Ported
<1>4. \A command \in Commands, n \in Names : <<command, n>> \in Seq(Words)
  BY DEF Words
<1>5. \A words \in Seq(Words) : Append(words, "PASV") \in Seq(Words)
  BY <1>1, AppendProperties
<1>6. QED
  BY <1>2, <1>3, <1>4, <1>5

\* The files that the metaserver starts with.
LEMMA InitType == Init => TypeOK /\ HeldOK
<1> SUFFICES ASSUME Init PROVE TypeOK /\ HeldOK
  OBVIOUS
<1>1. Cardinality(Stored) \in 0..MaxFid
  BY StoredAssumption, BoundsAssumption, FS_CardinalityType
<1>2. (CHOOSE n \in Names : TRUE) \in Names
  BY NamesAssumption
<1>3. 1..fid_counter \subseteq Fids
  BY <1>1, BoundsAssumption DEF Init, InitFiles, Fids
<1>4. entry \in [Names -> Fids \cup {NoFid}]
  BY <1>3 DEF Init, InitFiles
<1>5. Nothing \in Seq(Words)
  BY ToldType
<1>6. transaction_counter \in 0..MaxTrans
  BY BoundsAssumption DEF Init
<1>7. /\ peer \in [Sessions -> PeerKinds]
      /\ told \in [Sessions -> Seq(Words)]
      /\ fid_counter \in 0..MaxFid
  BY <1>1, <1>5, PopulationsAssumption DEF Init, InitFiles
<1>8. /\ file \in [Slaves -> [Fids -> BOOLEAN]]
      /\ slave_info \in [Fids -> Slaves \cup {NoSlave}]
      /\ call \in [Threads -> Calls \cup {Idle}]
  BY DEF Init, InitFiles
<1>9. /\ name \in [Sessions -> Names]
      /\ cmd \in [Sessions -> Commands]
  BY <1>2, CommandsAssumption DEF Init
<1>10. HeldOK
  BY SlavesAssumption DEF Init, HeldOK
<1>11. /\ at \in [Sessions -> Points]
       /\ conn \in [Sessions -> {"NONE", "PORT", "PASV"}]
       /\ pret \in [Sessions -> Commands \cup {"NONE"}]
       /\ pretFid \in [Sessions -> Fids \cup {NoFid}]
       /\ trans \in [Sessions -> Transactions \cup {NoTrans}]
       /\ slaveInfo \in [Sessions -> Slaves \cup {NoSlave}]
       /\ fid \in [Sessions -> Fids \cup {NoFid}]
       /\ slave \in [Sessions -> Slaves \cup {NoSlave}]
  BY DEF Init, Points
<1>12. QED
  BY <1>4, <1>6, <1>7, <1>8, <1>9, <1>10, <1>11 DEF TypeOK, Words

\* A call has its type when its arguments have.
LEMMA CallType ==
    ASSUME TypeOK, NEW s \in Sessions, NEW v, NEW op \in Ops, NEW t, NEW f \in Fids \cup {NoFid},
           v \in Slaves => t \in Transactions, Call(s, v, op, t, f)
    PROVE  call' \in [Threads -> Calls \cup {Idle}] /\ file' = file
<1>1. call \in [Threads -> Calls \cup {Idle}]
  BY DEF TypeOK
<1>2. CASE UNCHANGED call
  BY <1>1, <1>2 DEF Call
<1>3. ASSUME v \in Slaves, NEW w \in Threads,
             call' = [call EXCEPT ![w] = [slave |-> v, op |-> op, origin |-> s,
                                  trans |-> t, fid |-> f, waited |-> TRUE]]
      PROVE  call' \in [Threads -> Calls \cup {Idle}]
  <2>1. [slave |-> v, op |-> op, origin |-> s, trans |-> t, fid |-> f, waited |-> TRUE] \in Calls
    BY <1>3 DEF Calls
  <2>2. QED
    BY <1>1, <1>3, <2>1
<1>4. QED
  BY <1>2, <1>3 DEF Call

\* So have the calls that are abandoned.
LEMMA AbandonType ==
    ASSUME TypeOK, NEW s \in Sessions, Abandon(s)
    PROVE  call' \in [Threads -> Calls \cup {Idle}] /\ file' = file
<1>1. \A w \in Threads : call[w] \in Calls \cup {Idle}
  BY DEF TypeOK
<1>2. ASSUME NEW w \in Threads, call[w] # Idle
      PROVE  [call[w] EXCEPT !.waited = FALSE] \in Calls
  BY <1>1, <1>2 DEF Calls
<1>3. QED
  BY <1>1, <1>2 DEF Abandon

\* ResetDataConnection leaves a session in a state of its types.
LEMMA FinishType ==
    ASSUME TypeOK, HeldOK, NEW s \in Sessions, Finish(s),
           UNCHANGED <<peer, redis>>, call' \in [Threads -> Calls \cup {Idle}],
           file' = file
    PROVE  (TypeOK /\ HeldOK)'
<1>1. Nothing \in Seq(Words)
  BY ToldType
<1>2. told' \in [Sessions -> Seq(Words)]
  BY <1>1 DEF TypeOK, Finish, Words
<1>3. QED
  BY <1>2, CommandsAssumption DEF TypeOK, HeldOK, Finish, Points, Words

\* The commands of Shell keep the types.
LEMMA CommandType ==
    ASSUME TypeOK, HeldOK, NEW s \in Sessions, Command(s), UNCHANGED peer
    PROVE  (TypeOK /\ HeldOK)'
<1> USE ToldType DEF Words
<1>1. CASE Port(s)
  <2>1. told' \in [Sessions -> Seq(Words)]
    BY <1>1 DEF Port, TypeOK
  <2>2. conn' \in [Sessions -> {"NONE", "PORT", "PASV"}]
    BY <1>1 DEF Port, TypeOK
  <2>3. QED
    BY <1>1, <2>1, <2>2 DEF Port, TypeOK, HeldOK
<1>2. CASE PasvLocal(s)
  BY <1>2 DEF PasvLocal, TypeOK, HeldOK
<1>3. CASE Pasv(s)
  <2>1. PICK v \in PasvSlaves(s) :
            /\ slaveInfo' = [slaveInfo EXCEPT ![s] = v]
            /\ Call(s, v, "init", NewTransaction(s), NoFid)
    BY <1>3 DEF Pasv
  <2>2. v \in Slaves \cup {NoSlave}
    BY DEF PasvSlaves, SlaveOf, TypeOK
  <2>3. NewTransaction(s) \in Transactions /\ transaction_counter + 1 \in 0..MaxTrans
    BY <1>3, BoundsAssumption DEF Pasv, NewTransaction, TypeOK, Transactions
  <2>4. call' \in [Threads -> Calls \cup {Idle}] /\ file' = file
    BY <2>1, <2>3, CallType DEF Ops
  <2>5. trans' \in [Sessions -> Transactions \cup {NoTrans}] /\ HeldOK'
    BY <1>3, <2>3 DEF Pasv, TypeOK, HeldOK, Transactions
  <2>6. QED
    BY <1>3, <2>1, <2>2, <2>3, <2>4, <2>5 DEF Pasv, TypeOK, Points, Waiting, Blocked
<1>4. CASE Abor(s)
  BY <1>4, AbandonType, FinishType DEF Abor
<1>5. CASE Leave(s)
  BY <1>5, SlavesAssumption DEF Leave, TypeOK, HeldOK
<1>6. ASSUME NEW n \in Names, NEW command \in Commands \cup {"NONE"}, Pret(s, command, n)
      PROVE  (TypeOK /\ HeldOK)'
  <2>1. told' \in [Sessions -> Seq(Words)]
    BY <1>6 DEF Pret, TypeOK
  <2>2. pretFid' \in [Sessions -> Fids \cup {NoFid}]
    BY <1>6 DEF Pret, TypeOK
  <2>3. QED
    BY <1>6, <2>1, <2>2 DEF Pret, TypeOK, HeldOK
<1>7. ASSUME NEW n \in Names, NEW command \in Commands, Transfer(s, command, n)
      PROVE  (TypeOK /\ HeldOK)'
  <2>1. slaveInfo[s] \in Slaves => trans[s] \in Transactions
    BY DEF HeldOK, TypeOK
  <2>2. call' \in [Threads -> Calls \cup {Idle}] /\ file' = file
    <3>1. CASE Call(s, slaveInfo[s], "open", trans[s], NoFid)
      BY <2>1, <3>1, CallType DEF Ops
    <3>2. CASE UNCHANGED slaves
      BY <3>2 DEF TypeOK
    <3>3. QED
      BY <1>7, <3>1, <3>2 DEF Transfer
  <2>3. at' \in [Sessions -> Points]
    BY <1>7 DEF Transfer, TypeOK, Points, Waiting, Blocked
  <2>4. QED
    BY <1>7, <2>2, <2>3 DEF Transfer, TypeOK, HeldOK
<1>8. ASSUME NEW n \in Names, Delete(s, n) PROVE (TypeOK /\ HeldOK)'
  BY <1>8 DEF Delete, TypeOK, HeldOK
<1>9. QED
  BY <1>1, <1>2, <1>3, <1>4, <1>5, <1>6, <1>7, <1>8 DEF Command

\* The transfer threads keep the types.
LEMMA ThreadType ==
    ASSUME TypeOK, HeldOK, NEW s \in Sessions, Thread(s), UNCHANGED peer
    PROVE  (TypeOK /\ HeldOK)'
<1>1. CASE NoThread(s)
  BY <1>1, FinishType DEF NoThread, TypeOK
<1>2. CASE Allocate(s)
  <2>1. fid_counter + 1 \in Fids /\ fid_counter + 1 \in 0..MaxFid
    BY <1>2, BoundsAssumption DEF Allocate, TypeOK, Fids
  <2>2. QED
    BY <1>2, <2>1 DEF Allocate, NewFid, TypeOK, HeldOK, Points
<1>3. CASE Find(s)
  BY <1>3 DEF Find, TypeOK, HeldOK, Points
<1>4. CASE ActiveCall(s)
  <2>1. PICK v \in IF cmd[s] = "RETR" THEN {SlaveOf(entry[name[s]])} ELSE Slaves :
            /\ slave' = [slave EXCEPT ![s] = v]
            /\ Call(s, v, IF cmd[s] = "RETR" THEN "activeRetrieve" ELSE "activeStore",
                    NewTransaction(s), fid[s])
    BY <1>4 DEF ActiveCall
  <2>2. v \in Slaves \cup {NoSlave}
    BY DEF SlaveOf, TypeOK
  <2>3. NewTransaction(s) \in Transactions /\ transaction_counter + 1 \in 0..MaxTrans
    BY <1>4, BoundsAssumption DEF ActiveCall, NewTransaction, TypeOK, Transactions
  <2>4. fid[s] \in Fids \cup {NoFid}
        /\ (IF cmd[s] = "RETR" THEN "activeRetrieve" ELSE "activeStore") \in Ops
    BY DEF TypeOK, Ops
  <2>5. call' \in [Threads -> Calls \cup {Idle}] /\ file' = file
    BY <2>1, <2>3, <2>4, CallType
  <2>6. QED
    BY <1>4, <2>1, <2>2, <2>3, <2>5 DEF ActiveCall, TypeOK, HeldOK, Points, Waiting
<1>5. CASE PassiveCall(s)
  <2>1. slaveInfo[s] \in Slaves => trans[s] \in Transactions
    BY DEF HeldOK, TypeOK
  <2>2. fid[s] \in Fids \cup {NoFid}
        /\ (IF cmd[s] = "RETR" THEN "retrieve" ELSE "store") \in Ops
    BY DEF TypeOK, Ops
  <2>3. Call(s, slaveInfo[s], IF cmd[s] = "RETR" THEN "retrieve" ELSE "store", trans[s], fid[s])
    BY <1>5 DEF PassiveCall
  <2>4. call' \in [Threads -> Calls \cup {Idle}] /\ file' = file
    BY <2>1, <2>2, <2>3, CallType
  <2>5. QED
    BY <1>5, <2>4 DEF PassiveCall, TypeOK, HeldOK, Points, Waiting
<1>6. CASE NoCall(s)
  BY <1>6, FinishType DEF NoCall, TypeOK
<1>7. CASE Save(s)
  <2>1. /\ entry' \in [Names -> Fids \cup {NoFid}]
        /\ slave_info' \in [Fids -> Slaves \cup {NoSlave}]
    BY <1>7 DEF Save, TypeOK
  <2>2. Nothing \in Seq(Words)
    BY ToldType
  <2>3. told' \in [Sessions -> Seq(Words)]
    BY <1>7, <2>2 DEF Save, Finish, TypeOK, Words
  <2>4. QED
    BY <1>7, <2>1, <2>3, CommandsAssumption DEF Save, Finish, TypeOK, HeldOK, Points, Words
<1>8. QED
  BY <1>1, <1>2, <1>3, <1>4, <1>5, <1>6, <1>7 DEF Thread

\* The slaves, and what happens to a call, keep the types.
LEMMA ServeType ==
    ASSUME TypeOK, HeldOK, NEW w \in Threads, Serve(w), UNCHANGED peer
    PROVE  (TypeOK /\ HeldOK)'
<1> DEFINE s == call[w].origin
<1>1. call[w] \in Calls
  BY DEF Serve, InitPasvDataConnection, OpenPasvDataConnection, Retrieve, StoreOpens,
         StoreFails, Received, Works, TypeOK
<1>2. s \in Sessions
  BY <1>1 DEF Calls
<1>3. ASSUME NEW point \in Points, Return(w, point)
      PROVE  /\ call' \in [Threads -> Calls \cup {Idle}] /\ at' \in [Sessions -> Points]
             /\ UNCHANGED <<redis, transfer>>
  BY <1>2, <1>3 DEF Return, TypeOK
<1>4. ASSUME ReturnFinish(w), UNCHANGED file PROVE (TypeOK /\ HeldOK)'
  <2>1. call' \in [Threads -> Calls \cup {Idle}] /\ UNCHANGED redis
    BY <1>4 DEF ReturnFinish, TypeOK
  <2>2. CASE Finish(s)
    BY <1>2, <1>4, <2>1, <2>2, FinishType
  <2>3. CASE UNCHANGED <<at, session, transfer>>
    BY <1>4, <2>1, <2>3 DEF TypeOK, HeldOK
  <2>4. QED
    BY <1>4, <2>2, <2>3 DEF ReturnFinish
<1>5. CASE InitPasvDataConnection(w)
  <2>1. told' \in [Sessions -> Seq(Words)]
    <3>1. told[s] \in Seq(Words) /\ told \in [Sessions -> Seq(Words)]
      BY <1>2 DEF TypeOK, Words
    <3>2. Append(told[s], "PASV") \in Seq(Words) /\ Nothing \in Seq(Words)
      BY <3>1, ToldType
    <3>3. QED
      BY <1>5, <3>1, <3>2 DEF InitPasvDataConnection, Tell
  <2>2. "shell" \in Points
    BY DEF Points
  <2>3. conn' \in [Sessions -> {"NONE", "PORT", "PASV"}]
    BY <1>2, <1>5 DEF InitPasvDataConnection, TypeOK
  <2>4. /\ call' \in [Threads -> Calls \cup {Idle}] /\ at' \in [Sessions -> Points]
        /\ UNCHANGED <<redis, transfer>>
    BY <1>3, <1>5, <2>2 DEF InitPasvDataConnection
  <2>5. QED
    BY <1>5, <2>1, <2>3, <2>4 DEF InitPasvDataConnection, TypeOK, HeldOK, Words
<1>6. CASE OpenPasvDataConnection(w)
  <2>1. "start" \in Points
    BY DEF Points
  <2>2. QED
    BY <1>3, <1>6, <2>1 DEF OpenPasvDataConnection, TypeOK, HeldOK
<1>7. CASE Retrieve(w)
  BY <1>4, <1>7 DEF Retrieve
<1>8. CASE StoreOpens(w)
  <2>1. [call[w] EXCEPT !.op = "receive"] \in Calls
    BY <1>1 DEF Calls, Ops
  <2>2. call' = [call EXCEPT ![w] = [call[w] EXCEPT !.op = "receive"]]
    BY <1>8 DEF StoreOpens
  <2>3. call' \in [Threads -> Calls \cup {Idle}]
    BY <2>1, <2>2 DEF TypeOK
  <2>4. file' \in [Slaves -> [Fids -> BOOLEAN]]
    BY <1>8 DEF StoreOpens, TypeOK
  <2>5. QED
    BY <1>8, <2>3, <2>4 DEF StoreOpens, TypeOK, HeldOK
<1>9. CASE StoreFails(w)
  BY <1>4, <1>9 DEF StoreFails
<1>10. CASE Received(w)
  <2>1. "save" \in Points
    BY DEF Points
  <2>2. QED
    BY <1>3, <1>10, <2>1 DEF Received, TypeOK, HeldOK
<1>11. QED
  BY <1>5, <1>6, <1>7, <1>8, <1>9, <1>10 DEF Serve

\* Calls that fail and slaves that restart keep the types.
LEMMA FailureType ==
    ASSUME TypeOK, HeldOK, UNCHANGED peer,
           (\E s \in Sessions : CallFails(s)) \/ (\E v \in Slaves : Crash(v))
    PROVE  (TypeOK /\ HeldOK)'
<1>1. ASSUME NEW s \in Sessions, CallFails(s) PROVE (TypeOK /\ HeldOK)'
  <2>1. call' \in [Threads -> Calls \cup {Idle}] /\ file' = file
    BY <1>1, AbandonType DEF CallFails
  <2>2. CASE Finish(s)
    BY <1>1, <2>1, <2>2, FinishType DEF CallFails
  <2>3. CASE at' = [at EXCEPT ![s] = "shell"] /\ told' = [told EXCEPT ![s] = Nothing]
             /\ UNCHANGED <<conn, pret, pretFid, trans, slaveInfo, transfer>>
    <3>1. Nothing \in Seq(Words)
      BY ToldType
    <3>2. told' \in [Sessions -> Seq(Words)] /\ at' \in [Sessions -> Points]
      BY <2>3, <3>1 DEF TypeOK, Points, Words
    <3>3. QED
      BY <1>1, <2>1, <2>3, <3>2 DEF CallFails, TypeOK, HeldOK, Words
  <2>4. QED
    BY <1>1, <2>2, <2>3 DEF CallFails
<1>2. ASSUME NEW v \in Slaves, Crash(v) PROVE (TypeOK /\ HeldOK)'
  BY <1>2 DEF Crash, TypeOK, HeldOK
<1>3. QED
  BY <1>1, <1>2

LEMMA TypeStep == TypeOK /\ HeldOK /\ [Next]_vars => (TypeOK /\ HeldOK)'
<1> SUFFICES ASSUME TypeOK, HeldOK, [Next]_vars PROVE (TypeOK /\ HeldOK)'
  OBVIOUS
<1>1. CASE UNCHANGED vars
  BY <1>1 DEF vars, TypeOK, HeldOK
<1>2. CASE Next
  BY <1>2, CommandType, ThreadType, ServeType, FailureType DEF Next
<1>3. QED
  BY <1>1, <1>2

\* Every variable keeps its type, whatever the peers send and the slaves do.
THEOREM TypeCorrect == Spec => []TypeOK
<1>1. Spec => [](TypeOK /\ HeldOK)
  BY InitType, TypeStep, PTL DEF Spec
<1>2. QED
  BY <1>1, PTL

----------------------------------------------------------------------------
(* Uploads.  A fid is handed out once, so that a session that uploads and   *)
(* the call that it waits for are the only ones to have it, and no name     *)
(* leads to it before save_new_file; what ABOR or a lost answer leaves      *)
(* behind writes to a fid that nobody will ever save.                       *)

\* A session whose StoreThread has a fid, and a call that writes a file.
Uploading(s) == cmd[s] # "RETR" /\ fid[s] # NoFid
Writing == {"activeStore", "store", "receive"}
Writes(w) == Works(w, Writing)
Waited(w) == call[w] # Idle /\ call[w].waited

\* What a session has at each point: no fid before its transfer thread runs, a
\* fid when an upload calls its slave, a stored file when it is to be saved.
PointsOK ==
    \A s \in Sessions :
        /\ at[s] \in {"shell", "start", "init", "open"} => fid[s] = NoFid
        /\ at[s] = "call" /\ cmd[s] # "RETR" => fid[s] # NoFid
        /\ at[s] = "save" =>
              Uploading(s) /\ slave[s] \in Slaves /\ file[slave[s]][fid[s]]

\* A linked fid is not new, belongs to one name, and redis knows its slave.
LinksOK ==
    \A n \in Names : entry[n] # NoFid =>
        /\ entry[n] <= fid_counter
        /\ slave_info[entry[n]] \in Slaves
        /\ \A m \in Names : entry[m] = entry[n] => m = n

\* A slave that redis knows for a fid has the file.
StoredOK == \A f \in Fids : slave_info[f] \in Slaves => file[slave_info[f]][f]

\* The fid of an upload is its own, and no name leads to it.
UploadsOK ==
    \A s \in Sessions : Uploading(s) =>
        /\ fid[s] <= fid_counter
        /\ \A n \in Names : entry[n] # fid[s]
        /\ \A r \in Sessions : Uploading(r) /\ fid[r] = fid[s] => r = s

\* No name leads to the fid of a call that writes; nor does an upload have it,
\* if nobody waits for the call.
WritesOK ==
    \A w \in Threads : Writes(w) =>
        /\ call[w].fid \in Fids /\ call[w].fid <= fid_counter
        /\ \A n \in Names : entry[n] # call[w].fid
        /\ \A s \in Sessions : Uploading(s) /\ fid[s] = call[w].fid => call[w].waited
        /\ call[w].op = "receive" => file[call[w].slave][call[w].fid]

\* A session waits for one call, at the point that belongs to it.
PointOf(op) == IF op \in Blocked THEN op ELSE "transfer"
WaitsOK ==
    /\ \A w \in Threads : Waited(w) =>
        /\ at[call[w].origin] = PointOf(call[w].op)
        /\ Writes(w) => /\ Uploading(call[w].origin)
                        /\ fid[call[w].origin] = call[w].fid
                        /\ slave[call[w].origin] = call[w].slave
    /\ \A w, x \in Threads :
        Waited(w) /\ Waited(x) /\ call[w].origin = call[x].origin => w = x

UploadInv == PointsOK /\ LinksOK /\ StoredOK /\ UploadsOK /\ WritesOK /\ WaitsOK

LEMMA UploadInit == Init => UploadInv
<1> SUFFICES ASSUME Init PROVE UploadInv
  OBVIOUS
<1>1. TypeOK
  BY InitType
<1>2. PointsOK /\ UploadsOK /\ WritesOK /\ WaitsOK
  BY CommandsAssumption DEF Init, PointsOK, UploadsOK, WritesOK, WaitsOK, Uploading, Writes,
     Works, Waited
<1>3. LinksOK
  <2> SUFFICES ASSUME NEW n \in Names, entry[n] # NoFid
               PROVE  /\ entry[n] <= fid_counter
                      /\ slave_info[entry[n]] \in Slaves
                      /\ \A m \in Names : entry[m] = entry[n] => m = n
    BY DEF LinksOK
  <2>1. entry[n] \in 1..fid_counter /\ entry[n] \in Fids
    BY <1>1 DEF Init, InitFiles, TypeOK
  <2>2. slave_info[entry[n]] \in Slaves
    BY <1>1, <2>1 DEF Init, InitFiles, TypeOK
  <2>3. n \in Stored /\ \A m \in Names : entry[m] = entry[n] => m \in Stored
    BY <2>1 DEF Init, InitFiles
  <2>4. QED
    BY <1>1, <2>1, <2>2, <2>3 DEF Init, InitFiles, TypeOK
<1>4. StoredOK
  BY DEF Init, InitFiles, StoredOK
<1>5. QED
  BY <1>2, <1>3, <1>4 DEF UploadInv

\* Nothing that the invariant speaks of changes.
LEMMA UploadQuiet ==
    ASSUME UploadInv, UNCHANGED <<fid_counter, entry, slave_info, at, cmd, fid, slave, slaves>>
    PROVE  UploadInv'
  BY DEF UploadInv, PointsOK, LinksOK, StoredOK, UploadsOK, WritesOK, WaitsOK, Uploading, Writes,
         Works, Waited

\* The calls that are left when s no longer waits for any.
LeftBy(s) ==
    \A w \in Threads : call'[w] # Idle =>
        /\ call[w] # Idle
        /\ call'[w].slave = call[w].slave /\ call'[w].op = call[w].op
        /\ call'[w].origin = call[w].origin /\ call'[w].fid = call[w].fid
        /\ call'[w].trans = call[w].trans
        /\ call'[w].waited <=> call[w].waited /\ call[w].origin # s

\* A session gives up its fid and the calls that it waits for.
LEMMA UploadEnds ==
    ASSUME TypeOK, TypeOK', UploadInv, NEW s \in Sessions, LeftBy(s), UNCHANGED <<redis, file>>,
           at' = [at EXCEPT ![s] = "shell"], fid' = [fid EXCEPT ![s] = NoFid],
           \A r \in Sessions \ {s} : cmd'[r] = cmd[r] /\ slave'[r] = slave[r]
    PROVE  UploadInv'
<1> USE DEF UploadInv
<1>1. \A r \in Sessions :
        IF r = s THEN at'[r] = "shell" /\ ~Uploading(r)' /\ fid'[r] = NoFid
        ELSE /\ at'[r] = at[r] /\ Uploading(r)' = Uploading(r)
             /\ fid'[r] = fid[r] /\ slave'[r] = slave[r] /\ cmd'[r] = cmd[r]
  BY DEF TypeOK, Uploading
<1>2. PointsOK'
  BY <1>1 DEF PointsOK
<1>3. LinksOK' /\ StoredOK'
  BY DEF LinksOK, StoredOK
<1>4. UploadsOK'
  BY <1>1 DEF UploadsOK
<1>5. \A w \in Threads : call[w] # Idle => call[w].origin \in Sessions
  BY DEF TypeOK, Calls
<1>6. \A w \in Threads : /\ Writes(w)' => Writes(w)
                         /\ Waited(w)' => Waited(w) /\ call[w].origin # s /\ call'[w] # Idle
  BY DEF LeftBy, Writes, Works, Waited
<1>7. WritesOK'
  <2> SUFFICES ASSUME NEW w \in Threads, Writes(w)'
               PROVE  /\ call'[w].fid \in Fids /\ call'[w].fid <= fid_counter'
                      /\ \A n \in Names : entry'[n] # call'[w].fid
                      /\ \A r \in Sessions : Uploading(r)' /\ fid'[r] = call'[w].fid => call'[w].waited
                      /\ call'[w].op = "receive" => file'[call'[w].slave][call'[w].fid]
    BY DEF WritesOK
  <2>1. /\ Writes(w) /\ call[w] # Idle /\ call'[w] # Idle
        /\ call'[w].slave = call[w].slave /\ call'[w].op = call[w].op
        /\ call'[w].origin = call[w].origin /\ call'[w].fid = call[w].fid
        /\ call'[w].waited <=> call[w].waited /\ call[w].origin # s
    BY <1>6 DEF LeftBy, Writes, Works
  <2>2. ASSUME NEW r \in Sessions, Uploading(r)', fid'[r] = call'[w].fid PROVE call'[w].waited
    <3>1. r # s /\ Uploading(r) /\ fid[r] = call[w].fid
      BY <1>1, <2>1, <2>2
    <3>2. call[w].waited
      BY <2>1, <3>1 DEF WritesOK
    <3>3. Uploading(call[w].origin) /\ fid[call[w].origin] = call[w].fid
      BY <2>1, <3>2 DEF WaitsOK, Waited
    <3>4. call[w].origin = r
      BY <1>5, <2>1, <3>1, <3>3 DEF UploadsOK
    <3>5. QED
      BY <2>1, <3>1, <3>2, <3>4
  <2>3. QED
    BY <2>1, <2>2 DEF WritesOK
<1>8. WaitsOK'
  BY <1>1, <1>5, <1>6 DEF WaitsOK, LeftBy, PointOf
<1>9. QED
  BY <1>2, <1>3, <1>4, <1>7, <1>8

\* A session goes on to wait for a call, which may have failed already.
LEMMA UploadCalls ==
    ASSUME TypeOK, TypeOK', UploadInv, NEW s \in Sessions, NEW v, NEW op \in Ops \ {"receive"},
           NEW t, Call(s, v, op, t, fid[s]), UNCHANGED <<fid_counter, entry, slave_info, fid>>,
           at' = [at EXCEPT ![s] = PointOf(op)],
           \A r \in Sessions \ {s} : cmd'[r] = cmd[r] /\ slave'[r] = slave[r],
           IF op \in Blocked THEN at[s] = "shell"
           ELSE at[s] = "call" /\ cmd'[s] = cmd[s] /\ slave'[s] = v,
           op \in Writing => cmd[s] # "RETR"
    PROVE  UploadInv'
<1> USE DEF UploadInv
<1>1. \A r \in Sessions :
        /\ Uploading(r)' = Uploading(r) /\ fid'[r] = fid[r]
        /\ r # s => at'[r] = at[r] /\ slave'[r] = slave[r] /\ cmd'[r] = cmd[r]
  BY DEF TypeOK, Uploading, PointsOK
<1>2. file' = file /\ at'[s] = PointOf(op)
  BY DEF Call, TypeOK
<1>3. PointsOK'
  BY <1>1, <1>2 DEF PointsOK, PointOf, Blocked
<1>4. LinksOK' /\ StoredOK' /\ UploadsOK'
  BY <1>1, <1>2 DEF LinksOK, StoredOK, UploadsOK
<1>5. \A w \in Threads : Waited(w) => call[w].origin # s
  BY DEF WaitsOK, Waited, PointOf, Blocked
<1>6. CASE UNCHANGED call
  <2>1. WritesOK'
    BY <1>1, <1>2, <1>6 DEF WritesOK, Writes, Works
  <2>2. \A w \in Threads : call[w] # Idle => call[w].origin \in Sessions
    BY DEF TypeOK, Calls
  <2>3. WaitsOK'
    BY <1>1, <1>2, <1>5, <1>6, <2>2 DEF WaitsOK, Writes, Works, Waited
  <2>4. QED
    BY <1>3, <1>4, <2>1, <2>3
<1>7. ASSUME NEW z \in Threads, v \in Slaves, call[z] = Idle,
             call' = [call EXCEPT ![z] = [slave |-> v, op |-> op, origin |-> s,
                              trans |-> t, fid |-> fid[s], waited |-> TRUE]]
      PROVE  UploadInv'
  <2>1. /\ \A w \in Threads \ {z} : call'[w] = call[w]
        /\ call'[z] = [slave |-> v, op |-> op, origin |-> s,
                       trans |-> t, fid |-> fid[s], waited |-> TRUE]
    BY <1>7 DEF TypeOK
  <2>2. call'[z] # Idle => Waited(z)'
    BY <2>1 DEF Waited
  <2>3. \A w \in Threads \ {z} : Writes(w)' = Writes(w) /\ Waited(w)' = Waited(w)
    BY <2>1 DEF Writes, Works, Waited
  <2>4. Writes(z)' => op \in Writing /\ Uploading(s) /\ fid[s] \in Fids
    BY <2>1 DEF Writes, Works, Writing, Blocked, PointsOK, Uploading, TypeOK
  <2>5. WritesOK'
    <3>1. ASSUME NEW w \in Threads \ {z}, Writes(w)'
          PROVE  /\ call'[w].fid \in Fids /\ call'[w].fid <= fid_counter'
                 /\ \A n \in Names : entry'[n] # call'[w].fid
                 /\ \A r \in Sessions : Uploading(r)' /\ fid'[r] = call'[w].fid => call'[w].waited
                 /\ call'[w].op = "receive" => file'[call'[w].slave][call'[w].fid]
      BY <1>1, <1>2, <2>1, <2>3, <3>1 DEF WritesOK
    <3>2. ASSUME Writes(z)'
          PROVE  /\ call'[z].fid \in Fids /\ call'[z].fid <= fid_counter'
                 /\ \A n \in Names : entry'[n] # call'[z].fid
                 /\ \A r \in Sessions : Uploading(r)' /\ fid'[r] = call'[z].fid => call'[z].waited
                 /\ call'[z].op # "receive"
      BY <2>1, <2>4, <3>2 DEF UploadsOK
    <3>3. QED
      BY <3>1, <3>2 DEF WritesOK
  <2>6. \A w \in Threads \ {z} : call[w] # Idle => call[w].origin \in Sessions
    BY DEF TypeOK, Calls
  <2>7. \A w \in Threads : Waited(w)' =>
          /\ at'[call'[w].origin] = PointOf(call'[w].op)
          /\ Writes(w)' => /\ Uploading(call[w].origin)'
                           /\ fid'[call'[w].origin] = call'[w].fid
                           /\ slave'[call'[w].origin] = call'[w].slave
    <3>1. ASSUME NEW w \in Threads \ {z}, Waited(w)'
          PROVE  /\ at'[call'[w].origin] = PointOf(call'[w].op)
                 /\ Writes(w)' => /\ Uploading(call[w].origin)'
                                  /\ fid'[call'[w].origin] = call'[w].fid
                                  /\ slave'[call'[w].origin] = call'[w].slave
      <4>1. /\ Waited(w) /\ call'[w] = call[w] /\ Writes(w)' = Writes(w)
            /\ call[w].origin \in Sessions \ {s}
        BY <1>5, <2>1, <2>3, <2>6, <3>1 DEF Waited
      <4>2. QED
        BY <1>1, <4>1 DEF WaitsOK
    <3>2. /\ at'[call'[z].origin] = PointOf(call'[z].op)
          /\ Writes(z)' => /\ Uploading(call[z].origin)'
                           /\ fid'[call'[z].origin] = call'[z].fid
                           /\ slave'[call'[z].origin] = call'[z].slave
      BY <1>1, <1>2, <2>1, <2>4 DEF Writing, Blocked
    <3>3. QED
      BY <3>1, <3>2
  <2>8. WaitsOK'
    BY <1>5, <2>1, <2>3, <2>7 DEF WaitsOK
  <2>9. QED
    BY <1>3, <1>4, <2>5, <2>8
<1>8. QED
  BY <1>6, <1>7 DEF Call

\* The commands of Shell.
LEMMA UploadCommand ==
    ASSUME TypeOK, TypeOK', UploadInv, NEW s \in Sessions, Command(s)
    PROVE  UploadInv'
<1>1. CASE Port(s) \/ PasvLocal(s) \/ Leave(s)
  BY <1>1, UploadQuiet DEF Port, PasvLocal, Leave
<1>2. CASE Pasv(s)
  <2>1. PICK v : Call(s, v, "init", NewTransaction(s), NoFid)
    BY <1>2 DEF Pasv
  <2>2. /\ fid[s] = NoFid /\ "init" \in Ops \ {"receive"} /\ "init" \in Blocked
        /\ "init" \notin Writing /\ PointOf("init") = "init"
    BY <1>2 DEF Pasv, UploadInv, PointsOK, Ops, Blocked, Writing, PointOf
  <2>3. Call(s, v, "init", NewTransaction(s), fid[s])
    BY <2>1, <2>2
  <2>4. /\ at' = [at EXCEPT ![s] = PointOf("init")] /\ at[s] = "shell"
        /\ UNCHANGED <<fid_counter, entry, slave_info, cmd, slave, fid>>
    BY <1>2, <2>2 DEF Pasv
  <2>5. QED
    BY <2>2, <2>3, <2>4, UploadCalls
<1>3. CASE Abor(s)
  <2>1. LeftBy(s)
    BY <1>3 DEF Abor, Abandon, LeftBy, TypeOK, Calls
  <2>2. QED
    BY <1>3, <2>1, UploadEnds DEF Abor, Abandon, Finish, TypeOK
<1>4. ASSUME NEW n \in Names, NEW command \in Commands \cup {"NONE"}, Pret(s, command, n)
      PROVE  UploadInv'
  BY <1>4, UploadQuiet DEF Pret
<1>5. ASSUME NEW n \in Names, NEW command \in Commands, Transfer(s, command, n)
      PROVE  UploadInv'
  <2>1. at[s] = "shell" /\ fid[s] = NoFid
    BY <1>5 DEF Transfer, UploadInv, PointsOK
  <2>2. CASE Call(s, slaveInfo[s], "open", trans[s], NoFid) /\ at' = [at EXCEPT ![s] = "open"]
    <3>1. /\ "open" \in Ops \ {"receive"} /\ "open" \in Blocked
          /\ "open" \notin Writing /\ PointOf("open") = "open"
      BY DEF Ops, Blocked, Writing, PointOf
    <3>2. \A r \in Sessions \ {s} : cmd'[r] = cmd[r] /\ slave'[r] = slave[r]
      BY <1>5 DEF Transfer, TypeOK
    <3>3. Call(s, slaveInfo[s], "open", trans[s], fid[s])
      BY <2>1, <2>2
    <3>4. at' = [at EXCEPT ![s] = PointOf("open")]
          /\ UNCHANGED <<fid_counter, entry, slave_info, fid>>
      BY <1>5, <2>2, <3>1 DEF Transfer
    <3>5. QED
      BY <2>1, <3>1, <3>2, <3>3, <3>4, UploadCalls
  <2>3. CASE at' = [at EXCEPT ![s] = "start"] /\ UNCHANGED slaves
    <3>1. \A r \in Sessions : Uploading(r)' = Uploading(r) /\ (r # s => cmd'[r] = cmd[r])
      BY <1>5, <2>1 DEF Transfer, TypeOK, Uploading
    <3>2. PointsOK'
      BY <1>5, <2>1, <2>3, <3>1 DEF Transfer, TypeOK, UploadInv, PointsOK
    <3>3. LinksOK' /\ StoredOK' /\ UploadsOK' /\ WritesOK'
      BY <1>5, <2>3, <3>1 DEF Transfer, UploadInv, LinksOK, StoredOK, UploadsOK, WritesOK, Writes, Works
    <3>4. \A w \in Threads : Waited(w) => call[w].origin \in Sessions \ {s}
      BY <2>1 DEF UploadInv, WaitsOK, Waited, PointOf, Blocked, TypeOK, Calls
    <3>5. WaitsOK'
      BY <1>5, <2>3, <3>1, <3>4 DEF Transfer, TypeOK, UploadInv, WaitsOK, Waited, Writes, Works
    <3>6. QED
      BY <3>2, <3>3, <3>5 DEF UploadInv
  <2>4. QED
    BY <1>5, <2>2, <2>3 DEF Transfer
<1>6. ASSUME NEW n \in Names, Delete(s, n) PROVE UploadInv'
  <2>1. /\ entry[n] # NoFid /\ entry' = [entry EXCEPT ![n] = NoFid]
        /\ slave_info' = [slave_info EXCEPT ![entry[n]] = NoSlave]
    BY <1>6 DEF Delete
  <2>2. /\ UNCHANGED <<fid_counter, at, cmd, fid, slave, call, file>>
    BY <1>6 DEF Delete
  <2>3. LinksOK'
    BY <2>1, <2>2 DEF UploadInv, LinksOK, TypeOK
  <2>4. StoredOK'
    BY <2>1, <2>2, SlavesAssumption DEF UploadInv, StoredOK, TypeOK
  <2>5. UploadsOK' /\ WritesOK'
    <3>1. \A m \in Names : entry'[m] = entry[m] \/ entry'[m] = NoFid
      BY <2>1 DEF TypeOK
    <3>2. NoFid \notin Fids
      BY DEF Fids
    <3>3. UploadsOK'
      BY <2>2, <3>1 DEF UploadInv, UploadsOK, Uploading
    <3>4. WritesOK'
      BY <2>2, <3>1, <3>2 DEF UploadInv, WritesOK, Writes, Works, Uploading
    <3>5. QED
      BY <3>3, <3>4
  <2>6. PointsOK' /\ WaitsOK'
    BY <2>2 DEF UploadInv, PointsOK, WaitsOK, Waited, Writes, Works, Uploading
  <2>7. QED
    BY <2>3, <2>4, <2>5, <2>6 DEF UploadInv
<1>7. QED
  BY <1>1, <1>2, <1>3, <1>4, <1>5, <1>6 DEF Command

\* A session that is not at a call waits for none.
LEMMA NotWaiting ==
    ASSUME TypeOK, UploadInv, NEW s \in Sessions, at[s] \notin Waiting
    PROVE  /\ \A w \in Threads : Waited(w) => call[w].origin \in Sessions \ {s}
           /\ UNCHANGED call => LeftBy(s)
<1>1. \A w \in Threads : Waited(w) => call[w].origin \in Sessions \ {s}
  BY DEF UploadInv, WaitsOK, Waited, PointOf, Waiting, Blocked, TypeOK, Calls
<1>2. \A w \in Threads : call[w] # Idle => call[w].waited \in BOOLEAN
  BY DEF TypeOK, Calls
<1>3. ASSUME UNCHANGED call PROVE LeftBy(s)
  BY <1>1, <1>2, <1>3 DEF LeftBy, Waited
<1>4. QED
  BY <1>1, <1>3

\* The transfer threads.
LEMMA UploadThread ==
    ASSUME TypeOK, TypeOK', UploadInv, NEW s \in Sessions, Thread(s)
    PROVE  UploadInv'
<1>1. CASE NoThread(s) \/ NoCall(s)
  <2>1. at[s] \notin Waiting /\ Finish(s) /\ UNCHANGED <<redis, slaves>>
    BY <1>1 DEF NoThread, NoCall, Waiting, Blocked
  <2>2. LeftBy(s)
    BY <2>1, NotWaiting
  <2>3. QED
    BY <2>1, <2>2, UploadEnds DEF Finish, TypeOK
<1>2. CASE Allocate(s)
  <2>1. \A w \in Threads : Waited(w) => call[w].origin \in Sessions \ {s}
    BY <1>2, NotWaiting DEF Allocate, Waiting, Blocked
  <2>2. /\ fid_counter' = fid_counter + 1 /\ fid_counter \in Nat
        /\ cmd[s] # "RETR" /\ fid'[s] = fid_counter' /\ at'[s] = "call"
        /\ \A r \in Sessions \ {s} : fid'[r] = fid[r] /\ at'[r] = at[r]
        /\ UNCHANGED <<entry, slave_info, cmd, slave, call, file>>
    BY <1>2 DEF Allocate, NewFid, TypeOK
  <2>3. /\ \A n \in Names : entry[n] \in Int /\ entry[n] <= fid_counter
        /\ \A r \in Sessions : fid[r] \in Int /\ (Uploading(r) => fid[r] <= fid_counter)
        /\ \A w \in Threads : Writes(w) => call[w].fid \in Int /\ call[w].fid <= fid_counter
    BY <2>2 DEF UploadInv, LinksOK, UploadsOK, WritesOK, TypeOK, Fids
  <2>4. \A r \in Sessions \ {s} : Uploading(r)' = Uploading(r)
    BY <2>2 DEF Uploading
  <2>5. Uploading(s)'
    BY <2>2 DEF Uploading
  <2>6. PointsOK'
    BY <2>2, <2>4 DEF UploadInv, PointsOK
  <2>7. LinksOK' /\ StoredOK'
    BY <2>2, <2>3 DEF UploadInv, LinksOK, StoredOK
  <2>8. UploadsOK'
    BY <2>2, <2>3, <2>4 DEF UploadInv, UploadsOK
  <2>9. WritesOK'
    <3>1. \A w \in Threads : Writes(w)' = Writes(w) /\ call'[w] = call[w]
      BY <2>2 DEF Writes, Works
    <3>2. \A w \in Threads : Writes(w) => fid'[s] # call[w].fid /\ call[w].fid <= fid_counter'
      BY <2>2, <2>3
    <3>3. QED
      BY <2>2, <2>4, <3>1, <3>2 DEF UploadInv, WritesOK
  <2>10. WaitsOK'
    BY <2>1, <2>2, <2>4 DEF UploadInv, WaitsOK, Waited, Writes, Works
  <2>11. QED
    BY <2>6, <2>7, <2>8, <2>9, <2>10 DEF UploadInv
<1>3. CASE Find(s)
  <2>1. \A w \in Threads : Waited(w) => call[w].origin \in Sessions \ {s}
    BY <1>3, NotWaiting DEF Find, Waiting, Blocked
  <2>2. /\ cmd[s] = "RETR" /\ at'[s] = "call"
        /\ \A r \in Sessions \ {s} : fid'[r] = fid[r] /\ at'[r] = at[r]
        /\ UNCHANGED <<fid_counter, entry, slave_info, cmd, slave, call, file>>
    BY <1>3 DEF Find, TypeOK
  <2>3. ~Uploading(s) /\ \A r \in Sessions : Uploading(r)' = Uploading(r)
    BY <2>2 DEF Uploading
  <2>4. PointsOK' /\ LinksOK' /\ StoredOK'
    BY <2>2, <2>3 DEF UploadInv, PointsOK, LinksOK, StoredOK
  <2>5. UploadsOK' /\ WritesOK'
    BY <2>2, <2>3 DEF UploadInv, UploadsOK, WritesOK, Writes, Works
  <2>6. WaitsOK'
    BY <2>1, <2>2, <2>3 DEF UploadInv, WaitsOK, Waited, Writes, Works
  <2>7. QED
    BY <2>4, <2>5, <2>6 DEF UploadInv
<1>4. CASE ActiveCall(s)
  <2> DEFINE op == IF cmd[s] = "RETR" THEN "activeRetrieve" ELSE "activeStore"
  <2>1. PICK v : slave' = [slave EXCEPT ![s] = v] /\ Call(s, v, op, NewTransaction(s), fid[s])
    BY <1>4 DEF ActiveCall
  <2>2. /\ op \in Ops \ {"receive"} /\ op \notin Blocked /\ PointOf(op) = "transfer"
        /\ op \in Writing => cmd[s] # "RETR"
    BY DEF Ops, Blocked, Writing, PointOf
  <2>3. /\ at[s] = "call" /\ at' = [at EXCEPT ![s] = PointOf(op)]
        /\ UNCHANGED <<fid_counter, entry, slave_info, cmd, fid>>
    BY <1>4, <2>2 DEF ActiveCall
  <2>4. slave'[s] = v /\ \A r \in Sessions \ {s} : slave'[r] = slave[r]
    BY <2>1 DEF TypeOK
  <2> HIDE DEF op
  <2>5. QED
    BY <2>1, <2>2, <2>3, <2>4, UploadCalls
<1>5. CASE PassiveCall(s)
  <2> DEFINE op == IF cmd[s] = "RETR" THEN "retrieve" ELSE "store"
  <2>1. slave' = [slave EXCEPT ![s] = slaveInfo[s]] /\ Call(s, slaveInfo[s], op, trans[s], fid[s])
    BY <1>5 DEF PassiveCall
  <2>2. /\ op \in Ops \ {"receive"} /\ op \notin Blocked /\ PointOf(op) = "transfer"
        /\ op \in Writing => cmd[s] # "RETR"
    BY DEF Ops, Blocked, Writing, PointOf
  <2>3. /\ at[s] = "call" /\ at' = [at EXCEPT ![s] = PointOf(op)]
        /\ UNCHANGED <<fid_counter, entry, slave_info, cmd, fid>>
    BY <1>5, <2>2 DEF PassiveCall
  <2>4. slave'[s] = slaveInfo[s] /\ \A r \in Sessions \ {s} : slave'[r] = slave[r]
    BY <2>1 DEF TypeOK
  <2> HIDE DEF op
  <2>5. QED
    BY <2>1, <2>2, <2>3, <2>4, UploadCalls
<1>6. CASE Save(s)
  <2>1. \A w \in Threads : Waited(w) => call[w].origin \in Sessions \ {s}
    BY <1>6, NotWaiting DEF Save, Waiting, Blocked
  <2>2. Uploading(s) /\ slave[s] \in Slaves /\ file[slave[s]][fid[s]] /\ fid[s] \in Fids
    BY <1>6 DEF Save, UploadInv, PointsOK, Uploading, TypeOK
  <2>3. /\ entry'[name[s]] = fid[s] /\ name[s] \in Names
        /\ \A n \in Names : n # name[s] => entry'[n] = entry[n]
        /\ slave_info'[fid[s]] = slave[s]
        /\ \A f \in Fids : f # fid[s] => slave_info'[f] = slave_info[f]
        /\ UNCHANGED <<fid_counter, call, file>>
    BY <1>6, <2>2 DEF Save, TypeOK
  <2>4. /\ at'[s] = "shell" /\ fid'[s] = NoFid
        /\ \A r \in Sessions \ {s} :
              /\ fid'[r] = fid[r] /\ at'[r] = at[r] /\ slave'[r] = slave[r]
              /\ Uploading(r)' = Uploading(r)
        /\ ~Uploading(s)'
    BY <1>6 DEF Save, Finish, TypeOK, Uploading
  <2>5. \A r \in Sessions \ {s} : cmd'[r] = cmd[r]
    BY <1>6 DEF Save, Finish, TypeOK
  <2>6. PointsOK'
    BY <2>3, <2>4, <2>5 DEF UploadInv, PointsOK
  <2>7. \A n \in Names : entry[n] # fid[s]
    BY <2>2 DEF UploadInv, UploadsOK
  <2>8. LinksOK'
    <3>1. fid[s] <= fid_counter
      BY <2>2 DEF UploadInv, UploadsOK
    <3>2. \A n \in Names : entry[n] \in Fids \cup {NoFid}
      BY DEF TypeOK
    <3>3. QED
      BY <2>2, <2>3, <2>7, <3>1, <3>2 DEF UploadInv, LinksOK
  <2>9. StoredOK'
    BY <2>2, <2>3 DEF UploadInv, StoredOK
  <2>10. UploadsOK'
    <3>1. \A r \in Sessions \ {s} : Uploading(r) => fid[r] # fid[s]
      BY <2>2 DEF UploadInv, UploadsOK
    <3>2. QED
      BY <2>3, <2>4, <3>1 DEF UploadInv, UploadsOK
  <2>11. WritesOK'
    <3>1. ASSUME NEW w \in Threads, Writes(w) PROVE call[w].fid # fid[s]
      <4>1. call[w].fid = fid[s] => call[w].waited
        BY <2>2, <3>1 DEF UploadInv, WritesOK
      <4>2. ASSUME Waited(w) PROVE call[w].fid # fid[s]
        BY <2>1, <2>2, <3>1, <4>2 DEF UploadInv, WaitsOK, UploadsOK
      <4>3. QED
        BY <3>1, <4>1, <4>2 DEF Waited, Writes, Works
    <3>2. \A w \in Threads : Writes(w)' = Writes(w)
      BY <2>3 DEF Writes, Works
    <3>3. QED
      BY <2>3, <2>4, <3>1, <3>2 DEF UploadInv, WritesOK
  <2>12. WaitsOK'
    BY <2>1, <2>3, <2>4 DEF UploadInv, WaitsOK, Waited, Writes, Works
  <2>13. QED
    BY <2>6, <2>8, <2>9, <2>10, <2>11, <2>12 DEF UploadInv
<1>7. QED
  BY <1>1, <1>2, <1>3, <1>4, <1>5, <1>6 DEF Thread

\* Calls end that nobody waits for, or whose answer is lost.
LEMMA UploadDrops ==
    ASSUME UploadInv, \A w \in Threads : call'[w] # Idle => call'[w] = call[w],
           UNCHANGED <<fid_counter, entry, slave_info, at, cmd, fid, slave, file>>
    PROVE  UploadInv'
<1>1. PointsOK' /\ LinksOK' /\ StoredOK' /\ UploadsOK'
  BY DEF UploadInv, PointsOK, LinksOK, StoredOK, UploadsOK, Uploading
<1>2. \A w \in Threads : /\ Writes(w)' => Writes(w) /\ call'[w] = call[w]
                         /\ Waited(w)' => Waited(w) /\ call'[w] = call[w]
  BY DEF Writes, Works, Waited
<1>3. \A s \in Sessions : Uploading(s)' = Uploading(s)
  BY DEF Uploading
<1>4. WritesOK'
  BY <1>2, <1>3 DEF UploadInv, WritesOK
<1>5. WaitsOK'
  <2>1. ASSUME NEW w \in Threads, Waited(w)'
        PROVE  /\ at[call[w].origin] = PointOf(call[w].op)
               /\ Writes(w)' => /\ Uploading(call[w].origin)'
                                /\ fid[call[w].origin] = call[w].fid
                                /\ slave[call[w].origin] = call[w].slave
    BY <1>2, <2>1 DEF UploadInv, WaitsOK, Uploading
  <2>2. QED
    BY <1>2, <2>1 DEF UploadInv, WaitsOK, Uploading
<1>6. QED
  BY <1>1, <1>4, <1>5 DEF UploadInv

\* An answer takes a session from one point to the next.
LEMMA UploadReturns ==
    ASSUME TypeOK, UploadInv, NEW w \in Threads, call[w] # Idle, NEW point \in {"shell", "start", "save"},
           Return(w, point), UNCHANGED file,
           IF point = "save" THEN call[w].op = "receive" ELSE call[w].op \in Blocked
    PROVE  UploadInv'
<1> DEFINE s == call[w].origin
<1>1. s \in Sessions /\ call[w].waited \in BOOLEAN
  BY DEF TypeOK, Calls
<1>2. /\ call'[w] = Idle /\ \A x \in Threads \ {w} : call'[x] = call[x]
      /\ UNCHANGED <<fid_counter, entry, slave_info, cmd, fid, slave, file>>
  BY DEF Return, TypeOK
<1>3. CASE ~call[w].waited
  BY <1>2, <1>3, UploadDrops DEF Return
<1>4. CASE call[w].waited
  <2>1. at'[s] = point /\ \A r \in Sessions \ {s} : at'[r] = at[r]
    BY <1>1, <1>4 DEF Return, TypeOK
  <2>2. \A x \in Threads \ {w} : Waited(x) => call[x].origin \in Sessions \ {s}
    BY <1>4 DEF UploadInv, WaitsOK, Waited, TypeOK, Calls
  <2>3. \A r \in Sessions : Uploading(r)' = Uploading(r)
    BY <1>2 DEF Uploading
  <2>4. \A x \in Threads : /\ Writes(x)' => Writes(x) /\ x # w
                           /\ Waited(x)' => Waited(x) /\ x # w
    BY <1>2 DEF Writes, Works, Waited
  <2>5. IF point = "save"
        THEN Uploading(s) /\ slave[s] \in Slaves /\ file[slave[s]][fid[s]]
        ELSE fid[s] = NoFid
    <3>1. CASE point = "save"
      <4>1. Writes(w) /\ Waited(w) /\ call[w].slave \in Slaves
        BY <1>4, <3>1 DEF Writes, Works, Writing, Waited, TypeOK, Calls
      <4>2. QED
        BY <3>1, <4>1 DEF UploadInv, WaitsOK, WritesOK
    <3>2. CASE point # "save"
      BY <1>1, <1>4, <3>2 DEF UploadInv, WaitsOK, PointsOK, Waited, PointOf, Blocked
    <3>3. QED
      BY <3>1, <3>2
  <2>6. PointsOK'
    BY <1>2, <2>1, <2>3, <2>5 DEF UploadInv, PointsOK
  <2>7. LinksOK' /\ StoredOK' /\ UploadsOK'
    BY <1>2, <2>3 DEF UploadInv, LinksOK, StoredOK, UploadsOK
  <2>8. WritesOK'
    BY <1>2, <2>3, <2>4 DEF UploadInv, WritesOK
  <2>9. WaitsOK'
    <3>1. \A x \in Threads : Waited(x)' => /\ Waited(x) /\ call'[x] = call[x] /\ Writes(x)' = Writes(x)
                                           /\ call[x].origin \in Sessions \ {s}
      BY <1>2, <2>2, <2>4 DEF Writes, Works
    <3>2. ASSUME NEW x \in Threads, Waited(x)'
          PROVE  /\ at'[call[x].origin] = PointOf(call[x].op)
                 /\ Writes(x)' => /\ Uploading(call[x].origin)'
                                  /\ fid'[call[x].origin] = call[x].fid
                                  /\ slave'[call[x].origin] = call[x].slave
      BY <1>2, <2>1, <2>3, <3>1, <3>2 DEF UploadInv, WaitsOK
    <3>3. QED
      BY <1>2, <3>1, <3>2 DEF UploadInv, WaitsOK, Uploading
  <2>10. QED
    BY <2>6, <2>7, <2>8, <2>9 DEF UploadInv
<1>5. QED
  BY <1>1, <1>3, <1>4

\* The answer that ends a transfer.
LEMMA UploadReturnFinish ==
    ASSUME TypeOK, TypeOK', UploadInv, NEW w \in Threads, call[w] # Idle, ReturnFinish(w),
           UNCHANGED file
    PROVE  UploadInv'
<1> DEFINE s == call[w].origin
<1>1. s \in Sessions /\ \A x \in Threads : call[x] # Idle => call[x].waited \in BOOLEAN
  BY DEF TypeOK, Calls
<1>2. /\ call'[w] = Idle /\ \A x \in Threads \ {w} : call'[x] = call[x]
      /\ UNCHANGED <<fid_counter, entry, slave_info, transaction_counter>>
  BY DEF ReturnFinish, TypeOK
<1>3. CASE ~call[w].waited
  BY <1>2, <1>3, UploadDrops DEF ReturnFinish
<1>4. CASE call[w].waited
  <2>1. LeftBy(s)
    BY <1>1, <1>2, <1>4 DEF LeftBy, UploadInv, WaitsOK, Waited
  <2>2. Finish(s)
    BY <1>4 DEF ReturnFinish
  <2>3. /\ at' = [at EXCEPT ![s] = "shell"] /\ fid' = [fid EXCEPT ![s] = NoFid]
        /\ \A r \in Sessions \ {s} : cmd'[r] = cmd[r] /\ slave'[r] = slave[r]
    BY <2>2 DEF Finish, TypeOK
  <2> HIDE DEF s
  <2>4. QED
    BY <1>1, <1>2, <2>1, <2>3, UploadEnds
<1>5. QED
  BY <1>1, <1>3, <1>4

\* The slaves.
LEMMA UploadServe ==
    ASSUME TypeOK, TypeOK', UploadInv, NEW w \in Threads, Serve(w)
    PROVE  UploadInv'
<1>1. CASE InitPasvDataConnection(w)
  BY <1>1, UploadReturns DEF InitPasvDataConnection, Works, Blocked
<1>2. CASE OpenPasvDataConnection(w)
  BY <1>2, UploadReturns DEF OpenPasvDataConnection, Works, Blocked
<1>3. CASE Received(w)
  BY <1>3, UploadReturns DEF Received, Works, Blocked
<1>4. CASE Retrieve(w) \/ StoreFails(w)
  BY <1>4, UploadReturnFinish DEF Retrieve, StoreFails, Works
<1>5. CASE StoreOpens(w)
  <2>1. call[w] # Idle /\ call[w].op \in {"store", "activeStore"} /\ call[w] \in Calls
    BY <1>5 DEF StoreOpens, Works, TypeOK
  <2>2. /\ call'[w] = [call[w] EXCEPT !.op = "receive"]
        /\ \A x \in Threads \ {w} : call'[x] = call[x]
        /\ UNCHANGED <<fid_counter, entry, slave_info, at, cmd, fid, slave>>
    BY <1>5 DEF StoreOpens, TypeOK
  <2>3. /\ call'[w] \in Calls /\ call'[w] # Idle /\ call'[w].op = "receive"
        /\ call'[w].slave = call[w].slave /\ call'[w].origin = call[w].origin
        /\ call'[w].fid = call[w].fid /\ call'[w].waited = call[w].waited
    BY <2>1, <2>2, IdleAssumption DEF Calls, Ops
  <2>4. /\ \A v \in Slaves, f \in Fids : file[v][f] => file'[v][f]
        /\ call[w].fid \in Fids => file'[call[w].slave][call[w].fid]
    BY <1>5, <2>1 DEF StoreOpens, TypeOK, Calls
  <2>5. /\ \A x \in Threads : Writes(x)' = Writes(x) /\ Waited(x)' = Waited(x)
        /\ \A s \in Sessions : Uploading(s)' = Uploading(s)
        /\ Writes(w)
    BY <2>1, <2>2, <2>3 DEF Writes, Works, Writing, Waited, Uploading
  <2>6. PointsOK'
    <3>1. \A s \in Sessions : fid[s] \in Fids \cup {NoFid}
      BY DEF TypeOK
    <3>2. QED
      BY <2>2, <2>4, <2>5, <3>1 DEF UploadInv, PointsOK, Uploading
  <2>7. LinksOK' /\ StoredOK' /\ UploadsOK'
    BY <2>2, <2>4, <2>5 DEF UploadInv, LinksOK, StoredOK, UploadsOK
  <2>8. WritesOK'
    <3>1. \A x \in Threads \ {w} : Writes(x) => call[x].slave \in Slaves
      BY DEF Writes, Works, TypeOK, Calls
    <3>2. ASSUME NEW x \in Threads \ {w}, Writes(x)'
          PROVE  /\ call'[x].fid \in Fids /\ call'[x].fid <= fid_counter'
                 /\ \A n \in Names : entry'[n] # call'[x].fid
                 /\ \A s \in Sessions : Uploading(s)' /\ fid'[s] = call'[x].fid => call'[x].waited
                 /\ call'[x].op = "receive" => file'[call'[x].slave][call'[x].fid]
      BY <2>2, <2>4, <2>5, <3>1, <3>2 DEF UploadInv, WritesOK
    <3>3. /\ call'[w].fid \in Fids /\ call'[w].fid <= fid_counter'
          /\ \A n \in Names : entry'[n] # call'[w].fid
          /\ \A s \in Sessions : Uploading(s)' /\ fid'[s] = call'[w].fid => call'[w].waited
          /\ file'[call'[w].slave][call'[w].fid]
      BY <2>2, <2>3, <2>4, <2>5 DEF UploadInv, WritesOK
    <3>4. QED
      BY <3>2, <3>3 DEF WritesOK
  <2>9. WaitsOK'
    <3>1. \A x \in Threads : /\ call'[x].origin = call[x].origin /\ call'[x].fid = call[x].fid
                             /\ call'[x].slave = call[x].slave
      BY <2>2, <2>3
    <3>2. \A x \in Threads : PointOf(call'[x].op) = PointOf(call[x].op)
      BY <2>1, <2>2, <2>3 DEF PointOf, Blocked
    <3>3. ASSUME NEW x \in Threads, Waited(x)'
          PROVE  /\ at'[call'[x].origin] = PointOf(call'[x].op)
                 /\ Writes(x)' => /\ Uploading(call[x].origin)'
                                  /\ fid'[call'[x].origin] = call'[x].fid
                                  /\ slave'[call'[x].origin] = call'[x].slave
      BY <2>2, <2>5, <3>1, <3>2, <3>3 DEF UploadInv, WaitsOK, Uploading
    <3>4. QED
      BY <2>5, <3>1, <3>3 DEF UploadInv, WaitsOK, Uploading
  <2>10. QED
    BY <2>6, <2>7, <2>8, <2>9 DEF UploadInv
<1>6. QED
  BY <1>1, <1>2, <1>3, <1>4, <1>5 DEF Serve

LEMMA UploadStep == TypeOK /\ HeldOK /\ UploadInv /\ [Next]_vars => UploadInv'
<1> SUFFICES ASSUME TypeOK, HeldOK, UploadInv, [Next]_vars PROVE UploadInv'
  OBVIOUS
<1>1. TypeOK'
  BY TypeStep
<1>2. CASE UNCHANGED vars
  BY <1>2, UploadQuiet DEF vars
<1>3. ASSUME NEW s \in Sessions, CallFails(s) PROVE UploadInv'
  <2>1. LeftBy(s) /\ UNCHANGED <<redis, file>>
    BY <1>3 DEF CallFails, Abandon, LeftBy, TypeOK, Calls
  <2>2. CASE Finish(s)
    BY <1>1, <2>1, <2>2, UploadEnds DEF Finish, TypeOK
  <2>3. CASE at[s] \in Blocked /\ at' = [at EXCEPT ![s] = "shell"] /\ UNCHANGED transfer
    <3>1. fid' = [fid EXCEPT ![s] = NoFid]
      BY <2>3 DEF UploadInv, PointsOK, Blocked, TypeOK
    <3>2. QED
      BY <1>1, <2>1, <2>3, <3>1, UploadEnds
  <2>4. QED
    BY <1>3, <2>2, <2>3 DEF CallFails
<1>4. ASSUME NEW v \in Slaves, Crash(v) PROVE UploadInv'
  <2>1. \A w \in Threads : call'[w] # Idle => call'[w] = call[w]
    BY <1>4 DEF Crash
  <2>2. QED
    BY <1>4, <2>1, UploadDrops DEF Crash
<1>5. CASE Next
  BY <1>1, <1>3, <1>4, <1>5, UploadCommand, UploadThread, UploadServe DEF Next
<1>6. QED
  BY <1>2, <1>5

LEMMA UploadInvariant == Spec => [](TypeOK /\ HeldOK /\ UploadInv)
<1>1. Init => TypeOK /\ HeldOK /\ UploadInv
  BY InitType, UploadInit
<1>2. TypeOK /\ HeldOK /\ UploadInv /\ [Next]_vars => (TypeOK /\ HeldOK /\ UploadInv)'
  BY TypeStep, UploadStep
<1>3. QED
  BY <1>1, <1>2, PTL DEF Spec

\* A name leads to a file that its slave has.
THEOREM LinkedStored == Spec => []LinkedFilesStored
<1>1. TypeOK /\ UploadInv => LinkedFilesStored
  BY DEF TypeOK, UploadInv, LinksOK, StoredOK, LinkedFilesStored
<1>2. QED
  BY <1>1, UploadInvariant, PTL

\* No slave writes to a file that a name leads to.
THEOREM LinkedNotWritten == Spec => []LinkedFilesNotWritten
<1>1. UploadInv => LinkedFilesNotWritten
  BY DEF UploadInv, WritesOK, Writes, Writing, LinkedFilesNotWritten
<1>2. QED
  BY <1>1, UploadInvariant, PTL

----------------------------------------------------------------------------
(* Transactions.  An id is handed out once, to one session; an orderly peer *)
(* makes the session use it for one call after the other.                   *)

\* No two sessions have the same transaction, nor do a session and a call of
\* another one; two calls have the same one only if the peer is not orderly.
TransOK ==
    /\ \A s \in Sessions : trans[s] <= transaction_counter
    /\ \A s, r \in Sessions : trans[s] # NoTrans /\ trans[s] = trans[r] => s = r
    /\ \A w \in Threads : call[w] # Idle =>
        /\ call[w].trans <= transaction_counter
        /\ \A s \in Sessions : trans[s] = call[w].trans => s = call[w].origin
        /\ call[w].waited /\ call[w].op \in Blocked => call[w].trans = trans[call[w].origin]
    /\ \A w, x \in Threads :
        /\ w # x /\ call[w] # Idle /\ call[x] # Idle /\ call[w].trans = call[x].trans
        => call[w].origin = call[x].origin /\ ~Orderly(call[w].origin)

\* No call has the transaction of s.
Free(s) == \A w \in Threads : call[w] # Idle => call[w].trans # trans[s]

\* A peer that knows of PASV (three words) goes on with a free transaction.
ToldOK(s) ==
    /\ told[s] = Ported => conn[s] = "PORT"
    /\ at[s] = "open" => Len(told[s]) = 3 /\ conn[s] = "PASV"
    /\ at[s] \in {"start", "call"} => told[s] = Ported \/ Len(told[s]) = 3
    /\ at[s] \in {"shell", "start", "call"} /\ Len(told[s]) = 3 =>
          conn[s] = "PASV" /\ Free(s)

TransInv == TransOK /\ \A s \in Sessions : Orderly(s) => ToldOK(s)

\* How many words a peer has been told.
LEMMA ShortLengths == Len(Nothing) = 0 /\ Nothing # Ported /\ Len(Ported) = 1
<1>1. Len(Nothing) = 0 /\ Len(Ported) = 1
  BY DEF Nothing, Ported
<1>2. QED
  BY <1>1

LEMMA PretLengths ==
    ASSUME NEW command \in Commands, NEW n \in Names
    PROVE  /\ Len(<<command, n>>) = 2 /\ <<command, n>> # Ported
           /\ Len(<<command, n, "PASV">>) = 3
<1>1. Len(<<command, n>>) = 2 /\ Len(<<command, n, "PASV">>) = 3
  OBVIOUS
<1>2. QED
  BY <1>1, ShortLengths

LEMMA PairLength == ASSUME NEW words \in Commands \X Names PROVE Len(words) = 2
<1>1. PICK command \in Commands, n \in Names : words = <<command, n>>
  OBVIOUS
<1>2. QED
  BY <1>1, PretLengths

LEMMA AppendLength ==
    ASSUME NEW words \in Seq(Words)
    PROVE  /\ Len(Append(words, "PASV")) = Len(words) + 1 /\ Len(words) \in Nat
           /\ Append(words, "PASV") # Ported
<1>1. "PASV" \in Words
  BY DEF Words
<1>2. /\ Len(Append(words, "PASV")) = Len(words) + 1
      /\ Append(words, "PASV")[Len(words) + 1] = "PASV"
  BY <1>1, AppendProperties
<1>3. Ported[1] = "PORT" /\ Len(words) \in Nat
  BY LenProperties DEF Ported
<1>4. QED
  BY <1>2, <1>3, ShortLengths

LEMMA TransInit == Init => TransInv
<1> SUFFICES ASSUME Init PROVE TransInv
  OBVIOUS
<1>1. TransOK
  BY DEF Init, TransOK
<1>2. ASSUME NEW s \in Sessions PROVE ToldOK(s)
  BY ShortLengths DEF Init, ToldOK
<1>3. QED
  BY <1>1, <1>2 DEF TransInv

\* No call begins and no session gets another transaction.
Keeps ==
    /\ UNCHANGED <<peer, trans, transaction_counter>>
    /\ \A w \in Threads : call'[w] # Idle =>
        /\ call[w] # Idle
        /\ call'[w].trans = call[w].trans /\ call'[w].origin = call[w].origin
        /\ call'[w].op = call[w].op \/ call'[w].op \notin Blocked
        /\ call'[w].waited => call[w].waited

LEMMA TransKeeps ==
    ASSUME TransOK, Keeps
    PROVE  TransOK' /\ \A s \in Sessions : Free(s) => Free(s)'
<1>1. \A s \in Sessions : Orderly(s)' = Orderly(s)
  BY DEF Keeps, Orderly
<1>2. \A w \in Threads : call'[w] # Idle /\ ~Orderly(call[w].origin) => ~Orderly(call[w].origin)'
  BY DEF Keeps, Orderly
<1>3. \A w \in Threads : call'[w] # Idle =>
        /\ call'[w].trans <= transaction_counter'
        /\ \A s \in Sessions : trans'[s] = call'[w].trans => s = call'[w].origin
        /\ call'[w].waited /\ call'[w].op \in Blocked => call'[w].trans = trans'[call'[w].origin]
  BY DEF Keeps, TransOK
<1>4. \A w, x \in Threads :
        /\ w # x /\ call'[w] # Idle /\ call'[x] # Idle /\ call'[w].trans = call'[x].trans
        => call'[w].origin = call'[x].origin /\ ~Orderly(call[w].origin)
           /\ call'[w].origin = call[w].origin
  BY DEF Keeps, TransOK
<1>5. TransOK'
  BY <1>2, <1>3, <1>4 DEF Keeps, TransOK, Orderly
<1>6. QED
  BY <1>5 DEF Keeps, Free

\* What a step of s leaves to the other sessions.
Alone(s) ==
    /\ UNCHANGED peer
    /\ \A r \in Sessions \ {s} :
        told'[r] = told[r] /\ conn'[r] = conn[r] /\ at'[r] = at[r] /\ trans'[r] = trans[r]
    /\ \A w \in Threads : call'[w] # Idle =>
        \/ call'[w].origin = s
        \/ call[w] # Idle /\ call'[w].trans = call[w].trans

LEMMA TransOthers ==
    ASSUME TransInv, TransOK', NEW s \in Sessions, Alone(s), Orderly(s)' => ToldOK(s)'
    PROVE  TransInv'
<1>1. ASSUME NEW r \in Sessions \ {s}, Orderly(r)' PROVE ToldOK(r)'
  <2>1. Orderly(r) /\ ToldOK(r)
    BY <1>1 DEF TransInv, Alone, Orderly
  <2>2. Free(r) => Free(r)'
    BY <1>1 DEF Alone, Free, TransOK
  <2>3. QED
    BY <1>1, <2>1, <2>2 DEF Alone, ToldOK
<1>2. QED
  BY <1>1 DEF TransInv

\* A call begins: with a new transaction, or with that of its session.
LEMMA TransCalls ==
    ASSUME TypeOK, TypeOK', TransOK, UNCHANGED peer, NEW s \in Sessions, NEW v, NEW op \in Ops,
           NEW t, NEW f, v \in Slaves => t \in Transactions, Call(s, v, op, t, f),
           op \in Blocked => trans'[s] = t,
           \A w \in Threads : call[w] # Idle /\ call[w].waited => call[w].origin # s,
           \/ /\ t = transaction_counter + 1 /\ transaction_counter' = t
              /\ trans' = trans \/ trans' = [trans EXCEPT ![s] = t]
           \/ /\ t = trans[s] /\ UNCHANGED <<trans, transaction_counter>>
              /\ Orderly(s) => Free(s)
    PROVE  TransOK'
<1>1. /\ transaction_counter \in Nat /\ transaction_counter <= transaction_counter'
      /\ \A r \in Sessions : trans[r] \in Int /\ trans'[r] \in Int
      /\ \A w \in Threads : call[w] # Idle => call[w].trans \in Int /\ call[w].origin \in Sessions
  BY DEF TypeOK, Calls, Transactions
<1>2. \A r \in Sessions : trans'[r] = trans[r] \/ (r = s /\ trans'[r] = transaction_counter'
                                                   /\ transaction_counter' = transaction_counter + 1)
  BY DEF TypeOK
<1>3. /\ \A r \in Sessions : trans'[r] <= transaction_counter'
      /\ \A r, q \in Sessions : trans'[r] # NoTrans /\ trans'[r] = trans'[q] => r = q
  BY <1>1, <1>2 DEF TransOK
<1>4. \A w \in Threads : call[w] # Idle =>
        /\ call[w].trans <= transaction_counter'
        /\ \A r \in Sessions : trans'[r] = call[w].trans => r = call[w].origin
        /\ call[w].waited /\ call[w].op \in Blocked => call[w].trans = trans'[call[w].origin]
  <2>1. ASSUME NEW w \in Threads, call[w] # Idle
        PROVE  /\ call[w].trans <= transaction_counter'
               /\ \A r \in Sessions : trans'[r] = call[w].trans => r = call[w].origin
    BY <1>1, <1>2, <2>1 DEF TransOK
  <2>2. ASSUME NEW w \in Threads, call[w] # Idle, call[w].waited, call[w].op \in Blocked
        PROVE  call[w].trans = trans'[call[w].origin]
    <3>1. call[w].origin \in Sessions \ {s} /\ call[w].trans = trans[call[w].origin]
      BY <1>1, <2>2 DEF TransOK
    <3>2. QED
      BY <1>2, <3>1
  <2>3. QED
    BY <2>1, <2>2
<1>5. \A r \in Sessions : Orderly(r)' = Orderly(r)
  BY DEF Orderly
<1>6. CASE UNCHANGED call
  BY <1>1, <1>3, <1>4, <1>5, <1>6 DEF TransOK
<1>7. ASSUME NEW z \in Threads, v \in Slaves, call[z] = Idle,
             call' = [call EXCEPT ![z] = [slave |-> v, op |-> op, origin |-> s,
                              trans |-> t, fid |-> f, waited |-> TRUE]]
      PROVE  TransOK'
  <2>1. /\ \A w \in Threads \ {z} : call'[w] = call[w]
        /\ call'[z].trans = t /\ call'[z].origin = s /\ call'[z].op = op /\ t \in Transactions
    BY <1>7 DEF TypeOK
  <2>2. /\ call'[z].trans <= transaction_counter'
        /\ \A r \in Sessions : trans'[r] = call'[z].trans => r = call'[z].origin
        /\ call'[z].op \in Blocked => call'[z].trans = trans'[call'[z].origin]
    BY <1>1, <1>2, <2>1 DEF TransOK, Transactions
  <2>3. ASSUME NEW w \in Threads \ {z}, call[w] # Idle, call[w].trans = t
        PROVE  call[w].origin = s /\ ~Orderly(s)
    BY <1>1, <2>3 DEF TransOK, Free
  <2>4. ASSUME NEW w \in Threads, NEW x \in Threads, w # x, call'[w] # Idle, call'[x] # Idle,
               call'[w].trans = call'[x].trans
        PROVE  call'[w].origin = call'[x].origin /\ ~Orderly(call'[w].origin)
               /\ call'[w].origin \in Sessions
    <3>1. CASE w # z /\ x # z
      BY <1>1, <2>1, <2>4, <3>1 DEF TransOK
    <3>2. CASE w = z \/ x = z
      BY <2>1, <2>3, <2>4, <3>2
    <3>3. QED
      BY <3>1, <3>2
  <2>5. \A w \in Threads : call'[w] # Idle =>
          /\ call'[w].trans <= transaction_counter'
          /\ \A r \in Sessions : trans'[r] = call'[w].trans => r = call'[w].origin
          /\ call'[w].waited /\ call'[w].op \in Blocked => call'[w].trans = trans'[call'[w].origin]
    BY <1>4, <2>1, <2>2
  <2>6. QED
    BY <1>3, <2>4, <2>5 DEF TransOK, Orderly
<1>8. QED
  BY <1>6, <1>7 DEF Call

\* No call begins, and only s goes on.
LEMMA TransQuiet ==
    ASSUME TransInv, Keeps, NEW s \in Sessions, Orderly(s) => ToldOK(s)',
           \A r \in Sessions \ {s} : told'[r] = told[r] /\ conn'[r] = conn[r] /\ at'[r] = at[r]
    PROVE  TransInv'
<1>1. TransOK'
  BY TransKeeps DEF TransInv
<1>2. Alone(s)
  BY DEF Keeps, Alone
<1>3. Orderly(s)' = Orderly(s)
  BY DEF Keeps, Orderly
<1>4. QED
  BY <1>1, <1>2, <1>3, TransOthers

\* A new call is one of s.
LEMMA CallOrigin ==
    ASSUME TypeOK, NEW s, NEW v, NEW op, NEW t, NEW f, Call(s, v, op, t, f)
    PROVE  \A w \in Threads : call'[w] # Idle =>
              \/ call'[w].origin = s
              \/ call[w] # Idle /\ call'[w].trans = call[w].trans
<1>1. CASE UNCHANGED call
  BY <1>1
<1>2. ASSUME NEW z \in Threads,
             call' = [call EXCEPT ![z] = [slave |-> v, op |-> op, origin |-> s,
                              trans |-> t, fid |-> f, waited |-> TRUE]]
      PROVE  /\ call'[z].origin = s
             /\ \A w \in Threads \ {z} : call'[w] = call[w]
  BY <1>2 DEF TypeOK
<1>3. QED
  BY <1>1, <1>2 DEF Call

\* The commands of Shell: at its prompt, a session waits for no call.
LEMMA TransCommand ==
    ASSUME TypeOK, TypeOK', HeldOK, UploadInv, TransInv, NEW s \in Sessions, Command(s),
           UNCHANGED peer
    PROVE  TransInv'
<1>1. Orderly(s)' = Orderly(s) /\ (Orderly(s) => ToldOK(s)) /\ TransOK
  BY DEF Orderly, TransInv
<1>2. ASSUME Keeps,
             \A r \in Sessions \ {s} : told'[r] = told[r] /\ conn'[r] = conn[r] /\ at'[r] = at[r],
             Orderly(s) => ToldOK(s)'
      PROVE  TransInv'
  BY <1>2, TransQuiet
<1>3. UNCHANGED <<slaves, trans, transaction_counter>> => Keeps
  BY DEF Keeps
<1>4. Keeps /\ Free(s) => Free(s)'
  BY <1>1, TransKeeps
<1>5. CASE Port(s)
  <2>1. /\ at[s] = "shell" /\ at' = at /\ UNCHANGED <<slaves, trans, transaction_counter>>
        /\ \A r \in Sessions \ {s} : told'[r] = told[r] /\ conn'[r] = conn[r]
    BY <1>5 DEF Port, TypeOK
  <2>2. Orderly(s) => \/ told'[s] = Ported /\ conn'[s] = "PORT"
                      \/ told'[s] = Nothing
    BY <1>5 DEF Port, TypeOK
  <2>3. Orderly(s) => Len(told'[s]) # 3 /\ (told'[s] = Ported => conn'[s] = "PORT")
    BY <2>2, ShortLengths
  <2>4. Orderly(s) => ToldOK(s)'
    BY <2>1, <2>3 DEF ToldOK
  <2>5. QED
    BY <1>2, <1>3, <2>1, <2>4
<1>6. CASE PasvLocal(s)
  <2>1. /\ ~Orderly(s) /\ at' = at /\ UNCHANGED <<slaves, trans, transaction_counter, told>>
        /\ \A r \in Sessions \ {s} : conn'[r] = conn[r]
    BY <1>6 DEF PasvLocal, TypeOK
  <2>2. QED
    BY <1>2, <1>3, <2>1
<1>7. CASE Pasv(s)
  <2>1. PICK v : Call(s, v, "init", transaction_counter + 1, NoFid)
    BY <1>7 DEF Pasv, NewTransaction
  <2>2. /\ at[s] = "shell" /\ transaction_counter + 1 \in Transactions
        /\ transaction_counter' = transaction_counter + 1
        /\ trans' = [trans EXCEPT ![s] = transaction_counter + 1]
    BY <1>7, BoundsAssumption DEF Pasv, NewTransaction, TypeOK, Transactions
  <2>3. trans'[s] = transaction_counter + 1
    BY <2>2 DEF TypeOK
  <2>4. \A w \in Threads : call[w] # Idle /\ call[w].waited => call[w].origin # s
    BY <2>2, NotWaiting DEF Waited, Waiting, Blocked
  <2>5. TransOK'
    <3>1. "init" \in Ops
      BY DEF Ops
    <3>2. QED
      BY <1>1, <2>1, <2>2, <2>3, <2>4, <3>1, TransCalls
  <2>6. told' = told /\ conn' = conn /\ at' = [at EXCEPT ![s] = "init"]
    BY <1>7 DEF Pasv
  <2>7. at'[s] = "init" /\ (Orderly(s) => told'[s] # Ported)
    <3>1. ASSUME Orderly(s) PROVE Len(told[s]) = 2
      <4>1. told[s] \in Commands \X Names
        BY <1>7, <3>1 DEF Pasv, Heeds
      <4>2. QED
        BY <4>1, PairLength, Zenon
    <3>2. at'[s] = "init"
      BY <2>6 DEF TypeOK
    <3>3. Orderly(s) => told[s] # Ported
      BY <3>1, ShortLengths
    <3>4. QED
      BY <2>6, <3>2, <3>3
  <2>8. Orderly(s) => ToldOK(s)'
    BY <2>7 DEF ToldOK
  <2>9. Alone(s)
    <3>1. \A r \in Sessions \ {s} :
            told'[r] = told[r] /\ conn'[r] = conn[r] /\ at'[r] = at[r] /\ trans'[r] = trans[r]
      BY <2>2, <2>6 DEF TypeOK
    <3>2. \A w \in Threads : call'[w] # Idle => \/ call'[w].origin = s
                                                \/ call[w] # Idle /\ call'[w].trans = call[w].trans
      BY <2>1, CallOrigin
    <3>3. QED
      BY <3>1, <3>2 DEF Alone
  <2>10. QED
    BY <1>1, <2>5, <2>8, <2>9, TransOthers
<1>8. CASE Abor(s)
  <2>1. Keeps
    BY <1>8 DEF Abor, Abandon, Finish, Keeps, TypeOK, Calls
  <2>2. /\ told'[s] = Nothing /\ at'[s] = "shell"
        /\ \A r \in Sessions \ {s} : told'[r] = told[r] /\ conn'[r] = conn[r] /\ at'[r] = at[r]
    BY <1>8 DEF Abor, Finish, TypeOK
  <2>3. ToldOK(s)'
    BY <2>2, ShortLengths DEF ToldOK
  <2>4. QED
    BY <1>2, <2>1, <2>2, <2>3
<1>9. CASE Leave(s)
  <2>1. /\ trans' = [trans EXCEPT ![s] = NoTrans]
        /\ UNCHANGED <<at, call, transaction_counter>>
        /\ told'[s] = Nothing /\ at[s] = "shell"
        /\ \A r \in Sessions \ {s} : told'[r] = told[r] /\ conn'[r] = conn[r]
    BY <1>9 DEF Leave, TypeOK
  <2>2. trans'[s] = NoTrans /\ \A r \in Sessions \ {s} : trans'[r] = trans[r]
    BY <2>1 DEF TypeOK
  <2>3. /\ transaction_counter \in Nat
        /\ \A w \in Threads : call[w] # Idle => call[w].trans \in Transactions
    BY DEF TypeOK, Calls
  <2>4. \A w \in Threads : call[w] # Idle =>
          /\ call[w].trans # NoTrans
          /\ call[w].waited /\ call[w].op \in Blocked => call[w].origin \in Sessions \ {s}
    BY <2>1, <2>3, NotWaiting DEF Waited, Waiting, Blocked, Transactions
  <2>5. TransOK'
    <3>1. \A q, r \in Sessions : trans'[q] # NoTrans /\ trans'[q] = trans'[r] => q = r
      BY <1>1, <2>2 DEF TransOK
    <3>2. \A r \in Sessions : trans'[r] <= transaction_counter'
      BY <1>1, <2>1, <2>2, <2>3 DEF TransOK
    <3>3. \A w \in Threads : call'[w] # Idle =>
            /\ call'[w].trans <= transaction_counter'
            /\ \A r \in Sessions : trans'[r] = call'[w].trans => r = call'[w].origin
            /\ call'[w].waited /\ call'[w].op \in Blocked => call'[w].trans = trans'[call'[w].origin]
      BY <1>1, <2>1, <2>2, <2>4 DEF TransOK
    <3>4. \A w, x \in Threads :
            /\ w # x /\ call'[w] # Idle /\ call'[x] # Idle /\ call'[w].trans = call'[x].trans
            => call'[w].origin = call'[x].origin /\ ~Orderly(call[w].origin)'
      BY <1>1, <2>1 DEF TransOK, Orderly
    <3>5. QED
      BY <2>1, <3>1, <3>2, <3>3, <3>4 DEF TransOK, Orderly
  <2>6. ToldOK(s)'
    BY <2>1, ShortLengths DEF ToldOK
  <2>7. Alone(s)
    BY <2>1, <2>2 DEF Alone
  <2>8. QED
    BY <1>1, <2>5, <2>6, <2>7, TransOthers
<1>10. ASSUME NEW n \in Names, NEW command \in Commands \cup {"NONE"}, Pret(s, command, n)
       PROVE  TransInv'
  <2>1. /\ UNCHANGED <<slaves, trans, transaction_counter, at, conn>>
        /\ \A r \in Sessions \ {s} : told'[r] = told[r]
        /\ Orderly(s) => at[s] = "shell"
        /\ \/ told'[s] = Nothing
           \/ command \in Commands /\ told'[s] = <<command, n>>
    BY <1>10 DEF Pret, Heeds, TypeOK
  <2>2. told'[s] # Ported /\ Len(told'[s]) # 3
    BY <2>1, ShortLengths, PretLengths
  <2>3. Orderly(s) => ToldOK(s)'
    BY <2>1, <2>2 DEF ToldOK
  <2>4. QED
    BY <1>2, <1>3, <2>1, <2>3
<1>11. ASSUME NEW n \in Names, NEW command \in Commands, Transfer(s, command, n)
       PROVE  TransInv'
  <2>1. /\ UNCHANGED <<trans, transaction_counter, conn, told>> /\ at[s] = "shell"
        /\ \A r \in Sessions \ {s} : at'[r] = at[r]
        /\ Orderly(s) => told[s] = Ported \/ Len(told[s]) = 3
    BY <1>11, PretLengths DEF Transfer, Heeds, Prepared, TypeOK
  <2>2. CASE conn[s] # "PASV" /\ UNCHANGED slaves /\ at' = [at EXCEPT ![s] = "start"]
    <3>1. at'[s] = "start"
      BY <2>2 DEF TypeOK
    <3>2. Orderly(s) => ToldOK(s)'
      BY <1>1, <2>1, <2>2, <3>1 DEF ToldOK
    <3>3. QED
      BY <1>2, <1>3, <2>1, <2>2, <3>2
  <2>3. CASE conn[s] = "PASV" /\ Call(s, slaveInfo[s], "open", trans[s], NoFid)
             /\ at' = [at EXCEPT ![s] = "open"]
    <3>1. slaveInfo[s] \in Slaves => trans[s] \in Transactions
      BY DEF HeldOK, TypeOK
    <3>2. Orderly(s) => Len(told[s]) = 3 /\ Free(s)
      BY <1>1, <2>1, <2>3 DEF ToldOK
    <3>3. \A w \in Threads : call[w] # Idle /\ call[w].waited => call[w].origin # s
      BY <2>1, NotWaiting DEF Waited, Waiting, Blocked
    <3>4. TransOK'
      BY <1>1, <2>1, <2>3, <3>1, <3>2, <3>3, TransCalls DEF Ops
    <3>5. at'[s] = "open"
      BY <2>3 DEF TypeOK
    <3>6. Orderly(s) => ToldOK(s)'
      BY <1>1, <2>1, <2>3, <3>2, <3>5 DEF ToldOK
    <3>7. Alone(s)
      <4>1. \A w \in Threads : call'[w] # Idle => \/ call'[w].origin = s
                                                  \/ call[w] # Idle /\ call'[w].trans = call[w].trans
        BY <2>3, CallOrigin
      <4>2. QED
        BY <2>1, <4>1 DEF Alone
    <3>8. QED
      BY <1>1, <3>4, <3>6, <3>7, TransOthers
  <2>4. QED
    BY <1>11, <2>2, <2>3 DEF Transfer
<1>12. ASSUME NEW n \in Names, Delete(s, n) PROVE TransInv'
  <2>1. UNCHANGED <<slaves, trans, transaction_counter, at, conn, told>>
    BY <1>12 DEF Delete
  <2>2. Orderly(s) => ToldOK(s)'
    BY <1>1, <1>3, <1>4, <2>1 DEF ToldOK
  <2>3. QED
    BY <1>2, <1>3, <2>1, <2>2
<1>13. QED
  BY <1>5, <1>6, <1>7, <1>8, <1>9, <1>10, <1>11, <1>12 DEF Command

\* The transfer is over, and with it what the peer has been told.
LEMMA TransFinish ==
    ASSUME TypeOK, TransInv, Keeps, NEW s \in Sessions, Finish(s)
    PROVE  TransInv'
<1>1. /\ told'[s] = Nothing /\ at'[s] = "shell"
      /\ \A r \in Sessions \ {s} : told'[r] = told[r] /\ conn'[r] = conn[r] /\ at'[r] = at[r]
  BY DEF Finish, TypeOK
<1>2. ToldOK(s)'
  BY <1>1, ShortLengths DEF ToldOK
<1>3. QED
  BY <1>1, <1>2, TransQuiet

\* The transfer threads.
LEMMA TransThread ==
    ASSUME TypeOK, TypeOK', HeldOK, UploadInv, TransInv, NEW s \in Sessions, Thread(s),
           UNCHANGED peer
    PROVE  TransInv'
<1>1. Orderly(s)' = Orderly(s) /\ (Orderly(s) => ToldOK(s)) /\ TransOK
  BY DEF Orderly, TransInv
<1>2. UNCHANGED <<slaves, trans, transaction_counter>> => Keeps
  BY DEF Keeps
<1>3. CASE NoThread(s) \/ NoCall(s) \/ Save(s)
  <2>1. Keeps /\ Finish(s)
    BY <1>2, <1>3 DEF NoThread, NoCall, Save, Finish
  <2>2. QED
    BY <2>1, TransFinish
<1>4. CASE Allocate(s) \/ Find(s)
  <2>1. /\ at[s] = "start" /\ at' = [at EXCEPT ![s] = "call"]
        /\ UNCHANGED <<slaves, trans, transaction_counter, told, conn>>
    BY <1>4 DEF Allocate, Find
  <2>2. at'[s] = "call" /\ \A r \in Sessions \ {s} : at'[r] = at[r]
    BY <2>1 DEF TypeOK
  <2>3. Free(s) => Free(s)'
    BY <2>1 DEF Free
  <2>4. Orderly(s) => ToldOK(s)'
    BY <1>1, <2>1, <2>2, <2>3 DEF ToldOK
  <2>5. QED
    BY <1>2, <2>1, <2>2, <2>4, TransQuiet
<1>5. CASE ActiveCall(s)
  <2> DEFINE op == IF cmd[s] = "RETR" THEN "activeRetrieve" ELSE "activeStore"
  <2>1. PICK v : Call(s, v, op, transaction_counter + 1, fid[s])
    BY <1>5 DEF ActiveCall, NewTransaction
  <2>2. /\ at[s] = "call" /\ at' = [at EXCEPT ![s] = "transfer"]
        /\ transaction_counter' = transaction_counter + 1 /\ UNCHANGED <<trans, told, conn>>
        /\ transaction_counter + 1 \in Transactions
    BY <1>5, BoundsAssumption DEF ActiveCall, TypeOK, Transactions
  <2>3. \A w \in Threads : call[w] # Idle /\ call[w].waited => call[w].origin # s
    BY <2>2, NotWaiting DEF Waited, Waiting, Blocked
  <2>4. op \in Ops /\ op \notin Blocked
    BY DEF Ops, Blocked
  <2> HIDE DEF op
  <2>5. TransOK'
    BY <1>1, <2>1, <2>2, <2>3, <2>4, TransCalls
  <2>6. at'[s] = "transfer" /\ \A r \in Sessions \ {s} : at'[r] = at[r]
    BY <2>2 DEF TypeOK
  <2>7. Orderly(s) => ToldOK(s)'
    BY <1>1, <2>2, <2>6 DEF ToldOK
  <2>8. Alone(s)
    BY <2>1, <2>2, <2>6, CallOrigin DEF Alone
  <2>9. QED
    BY <1>1, <2>5, <2>7, <2>8, TransOthers
<1>6. CASE PassiveCall(s)
  <2> DEFINE op == IF cmd[s] = "RETR" THEN "retrieve" ELSE "store"
  <2>1. Call(s, slaveInfo[s], op, trans[s], fid[s])
    BY <1>6 DEF PassiveCall
  <2>2. /\ at[s] = "call" /\ at' = [at EXCEPT ![s] = "transfer"] /\ conn[s] = "PASV"
        /\ UNCHANGED <<trans, transaction_counter, told, conn>>
    BY <1>6 DEF PassiveCall
  <2>3. slaveInfo[s] \in Slaves => trans[s] \in Transactions
    BY DEF HeldOK, TypeOK
  <2>4. \A w \in Threads : call[w] # Idle /\ call[w].waited => call[w].origin # s
    BY <2>2, NotWaiting DEF Waited, Waiting, Blocked
  <2>5. op \in Ops /\ op \notin Blocked
    BY DEF Ops, Blocked
  <2> HIDE DEF op
  <2>6. Orderly(s) => Free(s)
    BY <1>1, <2>2 DEF ToldOK
  <2>7. TransOK'
    BY <1>1, <2>1, <2>2, <2>3, <2>4, <2>5, <2>6, TransCalls
  <2>8. at'[s] = "transfer" /\ \A r \in Sessions \ {s} : at'[r] = at[r]
    BY <2>2 DEF TypeOK
  <2>9. Orderly(s) => ToldOK(s)'
    BY <1>1, <2>2, <2>8 DEF ToldOK
  <2>10. Alone(s)
    BY <2>1, <2>2, <2>8, CallOrigin DEF Alone
  <2>11. QED
    BY <1>1, <2>7, <2>9, <2>10, TransOthers
<1>7. QED
  BY <1>3, <1>4, <1>5, <1>6 DEF Thread

\* Only calls end.
LEMMA TransDrops ==
    ASSUME TransInv, Keeps, UNCHANGED <<told, conn, at>>
    PROVE  TransInv'
<1>1. TransOK' /\ \A s \in Sessions : Free(s) => Free(s)'
  BY TransKeeps DEF TransInv
<1>2. QED
  BY <1>1 DEF TransInv, Keeps, ToldOK, Orderly

\* The slaves.
LEMMA TransServe ==
    ASSUME TypeOK, TypeOK', UploadInv, TransInv, NEW w \in Threads, Serve(w), UNCHANGED peer
    PROVE  TransInv'
<1>0. call[w] # Idle /\ call[w] \in Calls /\ call[w].origin \in Sessions
  BY DEF Serve, InitPasvDataConnection, OpenPasvDataConnection, Retrieve, StoreOpens,
         StoreFails, Received, Works, TypeOK, Calls
<1>1. PICK s \in Sessions : s = call[w].origin /\ call[w] # Idle /\ call[w] \in Calls
  BY <1>0
<1>2. Orderly(s)' = Orderly(s) /\ (Orderly(s) => ToldOK(s)) /\ TransOK
  BY <1>1 DEF Orderly, TransInv
<1>3. ASSUME call' = [call EXCEPT ![w] = Idle], UNCHANGED <<trans, transaction_counter>>
      PROVE  Keeps
  BY <1>3 DEF Keeps, TypeOK
<1>4. CASE StoreOpens(w)
  <2>1. /\ call'[w] = [call[w] EXCEPT !.op = "receive"]
        /\ \A x \in Threads \ {w} : call'[x] = call[x]
        /\ UNCHANGED <<told, conn, at, trans, transaction_counter>>
    BY <1>4 DEF StoreOpens, TypeOK
  <2>2. /\ call'[w].op = "receive" /\ call'[w].trans = call[w].trans
        /\ call'[w].origin = call[w].origin /\ call'[w].waited = call[w].waited
    BY <1>1, <2>1 DEF Calls, Ops
  <2>3. Keeps
    BY <1>1, <2>1, <2>2 DEF Keeps, Blocked
  <2>4. QED
    BY <2>1, <2>3, TransDrops
<1>5. CASE Retrieve(w) \/ StoreFails(w)
  <2>1. /\ call' = [call EXCEPT ![w] = Idle] /\ UNCHANGED transaction_counter
        /\ Finish(s) \/ UNCHANGED <<at, session, transfer>>
    BY <1>1, <1>5 DEF Retrieve, StoreFails, ReturnFinish
  <2>2. UNCHANGED trans
    BY <2>1 DEF Finish
  <2>3. Keeps
    BY <1>3, <2>1, <2>2
  <2>4. QED
    BY <1>1, <2>1, <2>3, TransFinish, TransDrops
<1>6. ASSUME ~call[w].waited,
             InitPasvDataConnection(w) \/ OpenPasvDataConnection(w) \/ Received(w)
      PROVE  TransInv'
  <2>1. /\ call' = [call EXCEPT ![w] = Idle]
        /\ UNCHANGED <<told, conn, at, trans, transaction_counter>>
    BY <1>6 DEF InitPasvDataConnection, OpenPasvDataConnection, Received, Return, Tell
  <2>2. QED
    BY <1>3, <2>1, TransDrops
<1>7. ASSUME call[w].waited, Works(w, Blocked), Orderly(s), call' = [call EXCEPT ![w] = Idle],
             UNCHANGED trans
      PROVE  Free(s)'
  <2>1. call[w].trans = trans[s]
    BY <1>1, <1>2, <1>7 DEF TransOK, Works
  <2>2. \A x \in Threads \ {w} : call[x] # Idle => call[x].trans # trans[s]
    BY <1>1, <1>2, <1>7, <2>1 DEF TransOK
  <2>3. QED
    BY <1>7, <2>2 DEF Free, TypeOK
<1>8. ASSUME call[w].waited, InitPasvDataConnection(w) PROVE TransInv'
  <2>1. /\ call' = [call EXCEPT ![w] = Idle] /\ at' = [at EXCEPT ![s] = "shell"]
        /\ conn' = [conn EXCEPT ![s] = "PASV"] /\ UNCHANGED <<trans, transaction_counter>>
        /\ Works(w, Blocked)
    BY <1>1, <1>8 DEF InitPasvDataConnection, Return, Works, Blocked
  <2>2. /\ \A r \in Sessions \ {s} : told'[r] = told[r] /\ conn'[r] = conn[r] /\ at'[r] = at[r]
        /\ conn'[s] = "PASV" /\ at'[s] = "shell"
    BY <1>1, <1>8, <2>1 DEF InitPasvDataConnection, Tell, TypeOK
  <2>3. Orderly(s) => told'[s] \in {Nothing, Append(told[s], "PASV")}
    BY <1>1, <1>8 DEF InitPasvDataConnection, Tell, TypeOK
  <2>4. Orderly(s) => told'[s] # Ported
    <3>1. told[s] \in Seq(Words)
      BY <1>1 DEF TypeOK, Words
    <3>2. Append(told[s], "PASV") # Ported
      BY <3>1, AppendLength
    <3>3. QED
      BY <2>3, <3>2, ShortLengths
  <2>5. Orderly(s) => ToldOK(s)'
    BY <1>7, <1>8, <2>1, <2>2, <2>4 DEF ToldOK
  <2>6. Keeps
    BY <1>3, <2>1
  <2>7. QED
    BY <1>1, <2>2, <2>5, <2>6, TransQuiet
<1>9. ASSUME call[w].waited, OpenPasvDataConnection(w) PROVE TransInv'
  <2>1. /\ call' = [call EXCEPT ![w] = Idle] /\ at' = [at EXCEPT ![s] = "start"]
        /\ UNCHANGED <<trans, transaction_counter, told, conn>>
        /\ Works(w, Blocked) /\ call[w].op = "open"
    BY <1>1, <1>9 DEF OpenPasvDataConnection, Return, Works, Blocked
  <2>2. at'[s] = "start" /\ \A r \in Sessions \ {s} : at'[r] = at[r]
    BY <1>1, <2>1 DEF TypeOK
  <2>3. at[s] = "open"
    BY <1>1, <1>9, <2>1 DEF UploadInv, WaitsOK, Waited, PointOf, Blocked
  <2>4. Orderly(s) => Len(told[s]) = 3 /\ conn[s] = "PASV"
    BY <1>2, <2>3 DEF ToldOK
  <2>5. Orderly(s) => ToldOK(s)'
    BY <1>2, <1>7, <1>9, <2>1, <2>2, <2>4 DEF ToldOK
  <2>6. Keeps
    BY <1>3, <2>1
  <2>7. QED
    BY <1>1, <2>1, <2>2, <2>5, <2>6, TransQuiet
<1>10. ASSUME call[w].waited, Received(w) PROVE TransInv'
  <2>1. /\ call' = [call EXCEPT ![w] = Idle] /\ at' = [at EXCEPT ![s] = "save"]
        /\ UNCHANGED <<trans, transaction_counter, told, conn>>
    BY <1>1, <1>10 DEF Received, Return
  <2>2. at'[s] = "save" /\ \A r \in Sessions \ {s} : at'[r] = at[r]
    BY <1>1, <2>1 DEF TypeOK
  <2>3. Orderly(s) => ToldOK(s)'
    BY <1>2, <2>1, <2>2 DEF ToldOK
  <2>4. Keeps
    BY <1>3, <2>1
  <2>5. QED
    BY <1>1, <2>1, <2>2, <2>3, <2>4, TransQuiet
<1>11. QED
  BY <1>4, <1>5, <1>6, <1>8, <1>9, <1>10 DEF Serve

LEMMA TransStep ==
    TypeOK /\ HeldOK /\ UploadInv /\ TransInv /\ [Next]_vars => TransInv'
<1> SUFFICES ASSUME TypeOK, HeldOK, UploadInv, TransInv, [Next]_vars PROVE TransInv'
  OBVIOUS
<1>1. TypeOK'
  BY TypeStep
<1>2. CASE UNCHANGED vars
  BY <1>2, TransDrops DEF vars, Keeps
<1>3. ASSUME NEW s \in Sessions, CallFails(s), UNCHANGED peer PROVE TransInv'
  <2>1. Keeps
    BY <1>3 DEF CallFails, Abandon, Finish, Keeps, TypeOK, Calls
  <2>2. CASE Finish(s)
    BY <2>1, <2>2, TransFinish
  <2>3. CASE /\ at' = [at EXCEPT ![s] = "shell"] /\ told' = [told EXCEPT ![s] = Nothing]
             /\ UNCHANGED conn
    <3>1. /\ told'[s] = Nothing /\ at'[s] = "shell"
          /\ \A r \in Sessions \ {s} : told'[r] = told[r] /\ at'[r] = at[r]
      BY <2>3 DEF TypeOK
    <3>2. ToldOK(s)'
      BY <3>1, ShortLengths DEF ToldOK
    <3>3. QED
      BY <2>1, <2>3, <3>1, <3>2, TransQuiet
  <2>4. QED
    BY <1>3, <2>2, <2>3 DEF CallFails
<1>4. ASSUME NEW v \in Slaves, Crash(v), UNCHANGED peer PROVE TransInv'
  <2>1. Keeps
    BY <1>4 DEF Crash, Keeps
  <2>2. QED
    BY <1>4, <2>1, TransDrops DEF Crash
<1>5. CASE Next
  BY <1>1, <1>3, <1>4, <1>5, TransCommand, TransThread, TransServe DEF Next
<1>6. QED
  BY <1>2, <1>5

LEMMA TransInvariant == Spec => [](TypeOK /\ HeldOK /\ UploadInv /\ TransInv)
<1>1. Init => TypeOK /\ HeldOK /\ UploadInv /\ TransInv
  BY InitType, UploadInit, TransInit
<1>2. TypeOK /\ HeldOK /\ UploadInv /\ TransInv /\ [Next]_vars
        => (TypeOK /\ HeldOK /\ UploadInv /\ TransInv)'
  BY TypeStep, UploadStep, TransStep
<1>3. QED
  BY <1>1, <1>2, PTL DEF Spec

\* Two calls share a transaction only if they are of one session, whose peer
\* is not orderly.
THEOREM TransactionsDistinct == Spec => []TransactionsNotShared
<1>1. TransInv => TransactionsNotShared
  BY DEF TransInv, TransOK, TransactionsNotShared
<1>2. QED
  BY <1>1, TransInvariant, PTL

----------------------------------------------------------------------------
(* Passive RETR.  What PRET has found stays on the slave that PASV has     *)
(* called: no file goes away.                                              *)

\* Once told of its PRET RETR, an orderly peer's session has the fid; from
\* PASV on, its slave has the file.
RouteOK(s) ==
    pret[s] = "RETR" =>
        /\ Len(told[s]) >= 2 => pretFid[s] \in Fids
        /\ Len(told[s]) = 3 \/ at[s] = "init" =>
              /\ Len(told[s]) >= 2
              /\ slaveInfo[s] \in Slaves => file[slaveInfo[s]][pretFid[s]]

RouteInv == PassiveRetrieveRouted /\ \A s \in Sessions : Orderly(s) => RouteOK(s)

LEMMA RouteInit == Init => RouteInv
<1> SUFFICES ASSUME Init PROVE RouteInv
  OBVIOUS
<1>1. PassiveRetrieveRouted
  BY DEF Init, PassiveRetrieveRouted, Works
<1>2. ASSUME NEW s \in Sessions PROVE RouteOK(s)
  BY ShortLengths DEF Init, RouteOK
<1>3. QED
  BY <1>1, <1>2 DEF RouteInv

\* No file goes away.
Grows == \A v \in Slaves, f \in Fids : file[v][f] => file'[v][f]

\* A call to read a file is one that was there before, or reads a file that its
\* slave has.
Routed ==
    \A w \in Threads : Works(w, {"retrieve"})' /\ Orderly(call'[w].origin) =>
        \/ /\ Works(w, {"retrieve"}) /\ call'[w].origin = call[w].origin
           /\ call'[w].fid = call[w].fid /\ call'[w].slave = call[w].slave
        \/ call'[w].fid \in Fids /\ file'[call'[w].slave][call'[w].fid]

\* Only s goes on.
LEMMA RouteStepOf ==
    ASSUME TypeOK, RouteInv, UNCHANGED peer, Grows, Routed, NEW s \in Sessions,
           Orderly(s) => RouteOK(s)',
           \A r \in Sessions \ {s} :
               /\ pret'[r] = pret[r] /\ pretFid'[r] = pretFid[r] /\ told'[r] = told[r]
               /\ slaveInfo'[r] = slaveInfo[r] /\ at'[r] = at[r]
    PROVE  RouteInv'
<1>1. \A w \in Threads : call[w] # Idle => call[w].slave \in Slaves
  BY DEF TypeOK, Calls
<1>2. PassiveRetrieveRouted'
  <2> SUFFICES ASSUME NEW w \in Threads, Works(w, {"retrieve"})', Orderly(call'[w].origin)
               PROVE  call'[w].fid \in Fids /\ file'[call'[w].slave][call'[w].fid]
    BY DEF PassiveRetrieveRouted, Orderly
  <2>1. CASE call'[w].fid \in Fids /\ file'[call'[w].slave][call'[w].fid]
    BY <2>1
  <2>2. CASE /\ Works(w, {"retrieve"}) /\ call'[w].origin = call[w].origin
             /\ call'[w].fid = call[w].fid /\ call'[w].slave = call[w].slave
    <3>1. call[w].fid \in Fids /\ file[call[w].slave][call[w].fid]
      BY <2>2 DEF RouteInv, PassiveRetrieveRouted
    <3>2. QED
      BY <1>1, <2>2, <3>1 DEF Grows, Works
  <2>3. QED
    BY <2>1, <2>2 DEF Routed
<1>3. ASSUME NEW r \in Sessions, Orderly(r)' PROVE RouteOK(r)'
  <2>1. Orderly(r) /\ RouteOK(r)
    BY <1>3 DEF RouteInv, Orderly
  <2>2. CASE r # s
    BY <2>1, <2>2 DEF RouteOK, Grows
  <2>3. QED
    BY <2>1, <2>2
<1>4. QED
  BY <1>2, <1>3 DEF RouteInv

\* No call to read a file begins.
NoneReads ==
    \A w \in Threads : Works(w, {"retrieve"})' =>
        /\ Works(w, {"retrieve"}) /\ call'[w].origin = call[w].origin
        /\ call'[w].fid = call[w].fid /\ call'[w].slave = call[w].slave

LEMMA CallReads ==
    ASSUME TypeOK, NEW s, NEW v, NEW op, NEW t, NEW f, Call(s, v, op, t, f), op # "retrieve"
    PROVE  NoneReads
<1>1. CASE UNCHANGED call
  BY <1>1 DEF NoneReads, Works
<1>2. ASSUME NEW z \in Threads,
             call' = [call EXCEPT ![z] = [slave |-> v, op |-> op, origin |-> s,
                              trans |-> t, fid |-> f, waited |-> TRUE]]
      PROVE  NoneReads
  <2>1. /\ call'[z].op = op
        /\ \A w \in Threads \ {z} : call'[w] = call[w]
    BY <1>2 DEF TypeOK
  <2>2. QED
    BY <2>1 DEF NoneReads, Works
<1>3. QED
  BY <1>1, <1>2 DEF Call

\* The transfer is over: the peer has been told of nothing.
LEMMA RouteFinish ==
    ASSUME TypeOK, RouteInv, UNCHANGED <<peer, file>>, NoneReads, NEW s \in Sessions, Finish(s)
    PROVE  RouteInv'
<1>1. /\ told'[s] = Nothing /\ at'[s] = "shell"
      /\ \A r \in Sessions \ {s} : told'[r] = told[r] /\ at'[r] = at[r]
      /\ UNCHANGED <<pret, pretFid, slaveInfo>>
  BY DEF Finish, TypeOK
<1>2. RouteOK(s)'
  BY <1>1, ShortLengths DEF RouteOK
<1>3. Grows /\ Routed
  BY DEF Grows, Routed, NoneReads
<1>4. QED
  BY <1>1, <1>2, <1>3, RouteStepOf

\* A session goes on, but not to a call of InitPasv.
LEMMA RouteGoesOn ==
    ASSUME TypeOK, RouteInv, UNCHANGED <<peer, pret, pretFid, slaveInfo, told>>, Grows, Routed,
           NEW s \in Sessions, NEW point \in Points \ {"init"},
           at' = at \/ at' = [at EXCEPT ![s] = point]
    PROVE  RouteInv'
<1>1. /\ \A r \in Sessions \ {s} : at'[r] = at[r]
      /\ at'[s] = "init" => at[s] = "init"
  BY DEF TypeOK
<1>2. Orderly(s) => RouteOK(s)'
  BY <1>1 DEF RouteInv, RouteOK, Grows
<1>3. QED
  BY <1>1, <1>2, RouteStepOf

\* The commands of Shell.
LEMMA RouteCommand ==
    ASSUME TypeOK, TypeOK', UploadInv, RouteInv, NEW s \in Sessions, Command(s), UNCHANGED peer
    PROVE  RouteInv'
<1>1. Orderly(s) => RouteOK(s)
  BY DEF RouteInv
<1>2. UNCHANGED call => NoneReads
  BY DEF NoneReads, Works
<1>3. UNCHANGED file => Grows
  BY DEF Grows
<1>4. NoneReads => Routed
  BY DEF NoneReads, Routed
<1>5. CASE Port(s)
  <2>1. /\ at'[s] = "shell" /\ UNCHANGED <<call, file, at, pret, pretFid, slaveInfo>>
        /\ \A r \in Sessions \ {s} : told'[r] = told[r]
        /\ told'[s] = Ported \/ told'[s] = Nothing
    BY <1>5 DEF Port, TypeOK
  <2>2. Len(told'[s]) = 0 \/ Len(told'[s]) = 1
    BY <2>1, ShortLengths
  <2>3. ~(Len(told'[s]) >= 2) /\ Len(told'[s]) # 3
    <3>1. ASSUME NEW k \in {0, 1} PROVE ~(k >= 2) /\ k # 3
      OBVIOUS
    <3>2. QED
      BY <2>2, <3>1, Zenon
  <2>4. at'[s] # "init"
    BY <2>1
  <2>5. RouteOK(s)'
    BY <2>3, <2>4 DEF RouteOK
  <2>6. QED
    BY <1>2, <1>3, <1>4, <2>1, <2>5, RouteStepOf
<1>6. CASE PasvLocal(s)
  <2>1. ~Orderly(s) /\ UNCHANGED <<slaves, at, pret, pretFid, slaveInfo, told>>
    BY <1>6 DEF PasvLocal
  <2>2. QED
    BY <1>2, <1>3, <1>4, <2>1, RouteStepOf
<1>7. CASE Pasv(s)
  <2>1. PICK v \in PasvSlaves(s) : /\ slaveInfo' = [slaveInfo EXCEPT ![s] = v]
                                   /\ Call(s, v, "init", NewTransaction(s), NoFid)
    BY <1>7 DEF Pasv
  <2>2. UNCHANGED <<file, pret, pretFid, told>> /\ at' = [at EXCEPT ![s] = "init"]
    BY <1>7, <2>1 DEF Pasv, Call
  <2>3. NoneReads
    BY <2>1, CallReads
  <2>4. Orderly(s) => Len(told[s]) = 2
    <3>1. ASSUME Orderly(s) PROVE told[s] \in Commands \X Names
      BY <1>7, <3>1 DEF Pasv, Heeds
    <3>2. QED
      BY <3>1, PairLength, Zenon
  <2>5. Orderly(s) => RouteOK(s)'
    <3>1. slaveInfo'[s] = v
      BY <2>1 DEF TypeOK
    <3>2. ASSUME Orderly(s), pret[s] = "RETR"
          PROVE  pretFid[s] \in Fids /\ (v \in Slaves => file[v][pretFid[s]])
      <4>1. pretFid[s] \in Fids
        BY <1>1, <2>4, <3>2 DEF RouteOK
      <4>2. v = slave_info[pretFid[s]]
        BY <3>2, <4>1 DEF PasvSlaves, SlaveOf
      <4>3. QED
        BY <4>1, <4>2 DEF UploadInv, StoredOK
    <3>3. ASSUME Orderly(s), pret'[s] = "RETR"
          PROVE  /\ Len(told'[s]) >= 2 /\ pretFid'[s] \in Fids
                 /\ slaveInfo'[s] \in Slaves => file'[slaveInfo'[s]][pretFid'[s]]
      <4>1. /\ pret[s] = "RETR" /\ pretFid'[s] = pretFid[s]
            /\ file' = file /\ told'[s] = told[s]
        BY <2>2, <3>3
      <4>2. Len(told'[s]) >= 2
        BY <2>4, <3>3, <4>1
      <4>3. pretFid[s] \in Fids /\ (v \in Slaves => file[v][pretFid[s]])
        BY <3>2, <3>3, <4>1
      <4>4. QED
        BY <3>1, <4>1, <4>2, <4>3
    <3>4. QED
      BY <3>3 DEF RouteOK
  <2>6. \A r \in Sessions \ {s} : slaveInfo'[r] = slaveInfo[r] /\ at'[r] = at[r]
    BY <2>1, <2>2 DEF TypeOK
  <2>7. QED
    BY <1>3, <1>4, <2>2, <2>3, <2>5, <2>6, RouteStepOf
<1>8. CASE Abor(s)
  <2>1. NoneReads /\ UNCHANGED file
    BY <1>8 DEF Abor, Abandon, NoneReads, Works, TypeOK, Calls
  <2>2. QED
    BY <1>8, <2>1, RouteFinish DEF Abor
<1>9. CASE Leave(s)
  <2>1. /\ at[s] = "shell" /\ UNCHANGED <<slaves, at>> /\ told'[s] = Nothing
        /\ \A r \in Sessions \ {s} :
              /\ pret'[r] = pret[r] /\ pretFid'[r] = pretFid[r]
              /\ told'[r] = told[r] /\ slaveInfo'[r] = slaveInfo[r]
    BY <1>9 DEF Leave, TypeOK
  <2>2. RouteOK(s)'
    BY <2>1, ShortLengths DEF RouteOK
  <2>3. QED
    BY <1>2, <1>3, <1>4, <2>1, <2>2, RouteStepOf
<1>10. ASSUME NEW n \in Names, NEW command \in Commands \cup {"NONE"}, Pret(s, command, n)
       PROVE  RouteInv'
  <2>1. /\ UNCHANGED <<slaves, at, slaveInfo>>
        /\ \A r \in Sessions \ {s} :
              pret'[r] = pret[r] /\ pretFid'[r] = pretFid[r] /\ told'[r] = told[r]
        /\ Orderly(s) => at[s] = "shell"
        /\ pret'[s] = command
    BY <1>10 DEF Pret, Heeds, TypeOK
  <2>2. \/ told'[s] = Nothing
        \/ /\ command \in Commands /\ told'[s] = <<command, n>>
           /\ command = "RETR" => pretFid'[s] \in Fids
    BY <1>10 DEF Pret, TypeOK
  <2>3. Len(told'[s]) = 0 \/ (Len(told'[s]) = 2 /\ (command = "RETR" => pretFid'[s] \in Fids))
    BY <2>2, ShortLengths, PretLengths
  <2>4. Orderly(s) => RouteOK(s)'
    BY <2>1, <2>3 DEF RouteOK
  <2>5. QED
    BY <1>2, <1>3, <1>4, <2>1, <2>4, RouteStepOf
<1>11. ASSUME NEW n \in Names, NEW command \in Commands, Transfer(s, command, n)
       PROVE  RouteInv'
  <2>1. NoneReads /\ UNCHANGED file
    <3>1. ASSUME Call(s, slaveInfo[s], "open", trans[s], NoFid) PROVE NoneReads /\ UNCHANGED file
      <4>1. NoneReads
        BY <3>1, CallReads
      <4>2. QED
        BY <3>1, <4>1 DEF Call
    <3>2. ASSUME call' = call, file' = file PROVE NoneReads /\ UNCHANGED file
      BY <1>2, <3>2
    <3>3. Call(s, slaveInfo[s], "open", trans[s], NoFid) \/ (call' = call /\ file' = file)
      BY <1>11 DEF Transfer
    <3>4. QED
      BY <3>1, <3>2, <3>3
  <2>2. UNCHANGED <<pret, pretFid, slaveInfo, told>>
        /\ \E point \in {"open", "start"} : at' = [at EXCEPT ![s] = point]
    BY <1>11 DEF Transfer
  <2>3. {"open", "start"} \subseteq Points \ {"init"}
    BY DEF Points, Waiting, Blocked
  <2>4. QED
    BY <1>3, <1>4, <2>1, <2>2, <2>3, RouteGoesOn
<1>12. ASSUME NEW n \in Names, Delete(s, n) PROVE RouteInv'
  <2>1. UNCHANGED <<slaves, at, pret, pretFid, slaveInfo, told>> /\ "shell" \in Points \ {"init"}
    BY <1>12 DEF Delete, Points
  <2>2. QED
    BY <1>2, <1>3, <1>4, <2>1, RouteGoesOn
<1>13. QED
  BY <1>5, <1>6, <1>7, <1>8, <1>9, <1>10, <1>11, <1>12 DEF Command

\* The transfer threads.
LEMMA RouteThread ==
    ASSUME TypeOK, TypeOK', TransInv, RouteInv, NEW s \in Sessions, Thread(s), UNCHANGED peer
    PROVE  RouteInv'
<1>1. UNCHANGED slaves => NoneReads /\ Grows
  BY DEF NoneReads, Works, Grows
<1>2. NoneReads => Routed
  BY DEF NoneReads, Routed
<1>3. {"call", "transfer"} \subseteq Points \ {"init"}
  BY DEF Points, Waiting
<1>4. CASE NoThread(s) \/ NoCall(s) \/ Save(s)
  <2>1. Finish(s) /\ UNCHANGED slaves
    BY <1>4 DEF NoThread, NoCall, Save
  <2>2. QED
    BY <1>1, <2>1, RouteFinish
<1>5. CASE Allocate(s) \/ Find(s)
  <2>1. /\ at' = [at EXCEPT ![s] = "call"]
        /\ UNCHANGED <<slaves, pret, pretFid, slaveInfo, told>>
    BY <1>5 DEF Allocate, Find
  <2>2. QED
    BY <1>1, <1>2, <1>3, <2>1, RouteGoesOn
<1>6. CASE ActiveCall(s)
  <2> DEFINE op == IF cmd[s] = "RETR" THEN "activeRetrieve" ELSE "activeStore"
  <2>1. PICK v : Call(s, v, op, NewTransaction(s), fid[s])
    BY <1>6 DEF ActiveCall
  <2>2. op # "retrieve"
    OBVIOUS
  <2> HIDE DEF op
  <2>3. NoneReads /\ UNCHANGED file
    BY <2>1, <2>2, CallReads DEF Call
  <2>4. at' = [at EXCEPT ![s] = "transfer"] /\ UNCHANGED <<pret, pretFid, slaveInfo, told>>
    BY <1>6 DEF ActiveCall
  <2>5. QED
    BY <1>2, <1>3, <2>3, <2>4, RouteGoesOn DEF Grows
<1>7. CASE PassiveCall(s)
  <2> DEFINE op == IF cmd[s] = "RETR" THEN "retrieve" ELSE "store"
  <2>1. Call(s, slaveInfo[s], op, trans[s], fid[s])
    BY <1>7 DEF PassiveCall
  <2>2. /\ at[s] = "call" /\ conn[s] = "PASV" /\ Announced(s)
        /\ at' = [at EXCEPT ![s] = "transfer"] /\ UNCHANGED <<pret, pretFid, slaveInfo, told>>
    BY <1>7 DEF PassiveCall
  <2>3. UNCHANGED file
    BY <2>1 DEF Call
  <2>4. Routed
    <3>1. CASE op # "retrieve"
      <4> HIDE DEF op
      <4>1. QED
        BY <1>2, <2>1, <3>1, CallReads
    <3>2. CASE op = "retrieve" /\ Orderly(s) /\ slaveInfo[s] \in Slaves
      <4>1. cmd[s] = "RETR"
        BY <3>2
      <4>2. pret[s] = "RETR" /\ pretFid[s] = fid[s]
        BY <2>2, <4>1 DEF Announced
      <4>3. Len(told[s]) = 3
        BY <2>2, <3>2 DEF TransInv, ToldOK
      <4>4. fid[s] \in Fids /\ file[slaveInfo[s]][fid[s]]
        BY <3>2, <4>2, <4>3 DEF RouteInv, RouteOK
      <4>5. \A w \in Threads : call'[w] = call[w] \/ /\ call'[w].slave = slaveInfo[s]
                                                     /\ call'[w].fid = fid[s]
        <5>1. CASE UNCHANGED call
          BY <5>1
        <5>2. ASSUME NEW z \in Threads,
                     call' = [call EXCEPT ![z] = [slave |-> slaveInfo[s], op |-> op, origin |-> s,
                                      trans |-> trans[s], fid |-> fid[s], waited |-> TRUE]]
              PROVE  /\ call'[z].slave = slaveInfo[s] /\ call'[z].fid = fid[s]
                     /\ \A w \in Threads \ {z} : call'[w] = call[w]
          BY <5>2 DEF TypeOK
        <5> HIDE DEF op
        <5>3. QED
          BY <2>1, <5>1, <5>2 DEF Call
      <4>6. QED
        BY <2>3, <4>4, <4>5 DEF Routed, Works
    <3>3. CASE ~Orderly(s) \/ slaveInfo[s] \notin Slaves
      <4> HIDE DEF op
      <4>1. CASE UNCHANGED call
        BY <4>1 DEF Routed, Works
      <4>2. ASSUME NEW z \in Threads, slaveInfo[s] \in Slaves,
                   call' = [call EXCEPT ![z] = [slave |-> slaveInfo[s], op |-> op, origin |-> s,
                                    trans |-> trans[s], fid |-> fid[s], waited |-> TRUE]]
            PROVE  call'[z].origin = s /\ \A w \in Threads \ {z} : call'[w] = call[w]
        BY <4>2 DEF TypeOK
      <4>3. QED
        BY <2>1, <3>3, <4>1, <4>2 DEF Routed, Works, Call
    <3>4. QED
      BY <3>1, <3>2, <3>3
  <2>5. QED
    BY <1>3, <2>2, <2>3, <2>4, RouteGoesOn DEF Grows
<1>8. QED
  BY <1>4, <1>5, <1>6, <1>7 DEF Thread

\* The slaves.
LEMMA RouteServe ==
    ASSUME TypeOK, TypeOK', UploadInv, RouteInv, NEW w \in Threads, Serve(w), UNCHANGED peer
    PROVE  RouteInv'
<1>0. call[w] # Idle /\ call[w] \in Calls /\ call[w].origin \in Sessions
  BY DEF Serve, InitPasvDataConnection, OpenPasvDataConnection, Retrieve, StoreOpens,
         StoreFails, Received, Works, TypeOK, Calls
<1>1. PICK s \in Sessions : s = call[w].origin /\ call[w] # Idle /\ call[w] \in Calls
  BY <1>0
<1>2. Orderly(s) => RouteOK(s)
  BY DEF RouteInv
<1>3. ASSUME call' = [call EXCEPT ![w] = Idle] PROVE NoneReads
  BY <1>3 DEF NoneReads, Works, TypeOK
<1>4. NoneReads => Routed
  BY DEF NoneReads, Routed
<1>5. {"shell", "start", "save"} \subseteq Points \ {"init"}
  BY DEF Points
<1>6. UNCHANGED file => Grows
  BY DEF Grows
<1>7. CASE StoreOpens(w)
  <2>1. /\ call'[w] = [call[w] EXCEPT !.op = "receive"]
        /\ \A x \in Threads \ {w} : call'[x] = call[x]
        /\ UNCHANGED <<at, pret, pretFid, slaveInfo, told>>
    BY <1>7 DEF StoreOpens, TypeOK
  <2>2. call'[w].op = "receive"
    BY <1>1, <2>1 DEF Calls
  <2>3. NoneReads
    BY <2>1, <2>2 DEF NoneReads, Works
  <2>4. Grows
    BY <1>7 DEF StoreOpens, Grows, TypeOK
  <2>5. QED
    BY <1>4, <1>5, <2>1, <2>3, <2>4, RouteGoesOn
<1>8. CASE Retrieve(w) \/ StoreFails(w)
  <2>1. /\ call' = [call EXCEPT ![w] = Idle] /\ file' = file
        /\ Finish(s) \/ UNCHANGED <<at, session, transfer>>
    BY <1>1, <1>8 DEF Retrieve, StoreFails, ReturnFinish
  <2>2. NoneReads
    BY <1>3, <2>1
  <2>3. CASE Finish(s)
    BY <2>1, <2>2, <2>3, RouteFinish
  <2>4. CASE UNCHANGED <<at, session, transfer>>
    BY <1>4, <1>5, <1>6, <2>1, <2>2, <2>4, RouteGoesOn
  <2>5. QED
    BY <2>1, <2>3, <2>4
<1>9. CASE OpenPasvDataConnection(w) \/ Received(w)
  <2>1. /\ call' = [call EXCEPT ![w] = Idle] /\ file' = file
        /\ UNCHANGED <<pret, pretFid, slaveInfo, told>>
        /\ \/ at' = at
           \/ \E point \in {"start", "save"} : at' = [at EXCEPT ![s] = point]
    BY <1>1, <1>9 DEF OpenPasvDataConnection, Received, Return
  <2>2. NoneReads
    BY <1>3, <2>1
  <2>3. QED
    BY <1>4, <1>5, <1>6, <2>1, <2>2, RouteGoesOn
<1>10. CASE InitPasvDataConnection(w)
  <2>1. /\ call' = [call EXCEPT ![w] = Idle] /\ file' = file
        /\ UNCHANGED <<pret, pretFid, slaveInfo>> /\ call[w].op = "init"
    BY <1>10 DEF InitPasvDataConnection, Return, Works
  <2>2. NoneReads
    BY <1>3, <2>1
  <2>3. CASE ~call[w].waited
    <3>1. UNCHANGED <<told, at>>
      BY <1>10, <2>3 DEF InitPasvDataConnection, Return, Tell
    <3>2. QED
      BY <1>4, <1>5, <1>6, <2>1, <2>2, <3>1, RouteGoesOn
  <2>4. CASE call[w].waited
    <3>1. at[s] = "init"
      BY <1>1, <2>1, <2>4 DEF UploadInv, WaitsOK, Waited, PointOf, Blocked
    <3>2. /\ at' = [at EXCEPT ![s] = "shell"]
          /\ told' = told \/ \E words \in {Nothing, Append(told[s], "PASV")} :
                                told' = [told EXCEPT ![s] = words]
      BY <1>1, <1>10, <2>4 DEF InitPasvDataConnection, Return, Tell
    <3>3. Orderly(s) => told' = [told EXCEPT ![s] = Nothing]
                        \/ told' = [told EXCEPT ![s] = Append(told[s], "PASV")]
      BY <1>1, <1>10, <2>4 DEF InitPasvDataConnection, Tell
    <3>4. at'[s] = "shell" /\ \A r \in Sessions \ {s} : at'[r] = at[r] /\ told'[r] = told[r]
      BY <3>2 DEF TypeOK
    <3>5. Orderly(s) => told'[s] = Nothing \/ told'[s] = Append(told[s], "PASV")
      BY <3>3 DEF TypeOK
    <3>6. told[s] \in Seq(Words)
      BY DEF TypeOK, Words
    <3>7. Orderly(s) => Len(told'[s]) = 0 \/ (Len(told'[s]) = Len(told[s]) + 1 /\ Len(told[s]) \in Nat)
      BY <3>5, <3>6, ShortLengths, AppendLength
    <3>8. ASSUME Orderly(s), pret'[s] = "RETR"
          PROVE  /\ Len(told'[s]) >= 2 => pretFid'[s] \in Fids
                 /\ Len(told'[s]) = 3 \/ at'[s] = "init" =>
                       /\ Len(told'[s]) >= 2
                       /\ slaveInfo'[s] \in Slaves => file'[slaveInfo'[s]][pretFid'[s]]
      <4>1. /\ pretFid'[s] = pretFid[s] /\ slaveInfo'[s] = slaveInfo[s] /\ file' = file
            /\ pret[s] = "RETR"
        BY <2>1, <3>8
      <4>2. /\ Len(told[s]) >= 2 /\ pretFid[s] \in Fids
            /\ slaveInfo[s] \in Slaves => file[slaveInfo[s]][pretFid[s]]
        BY <1>2, <3>1, <3>8, <4>1 DEF RouteOK
      <4>3. Len(told'[s]) = 3 => Len(told'[s]) >= 2
        <5>1. ASSUME NEW k, k = 3 PROVE k >= 2
          BY <5>1
        <5>2. QED
          BY <5>1, Zenon
      <4>4. QED
        BY <3>4, <4>1, <4>2, <4>3
    <3>9. Orderly(s) => RouteOK(s)'
      BY <3>8 DEF RouteOK
    <3>10. QED
      BY <1>4, <1>6, <2>1, <2>2, <3>4, <3>9, RouteStepOf
  <2>5. QED
    BY <2>3, <2>4
<1>11. QED
  BY <1>7, <1>8, <1>9, <1>10 DEF Serve

LEMMA RouteStep ==
    TypeOK /\ HeldOK /\ UploadInv /\ TransInv /\ RouteInv /\ [Next]_vars => RouteInv'
<1> SUFFICES ASSUME TypeOK, HeldOK, UploadInv, TransInv, RouteInv, [Next]_vars PROVE RouteInv'
  OBVIOUS
<1>1. TypeOK'
  BY TypeStep
<1>2. CASE UNCHANGED vars
  BY <1>2 DEF vars, RouteInv, RouteOK, PassiveRetrieveRouted, Works, Orderly
<1>3. ASSUME NEW s \in Sessions, CallFails(s), UNCHANGED peer PROVE RouteInv'
  <2>1. NoneReads /\ UNCHANGED file
    BY <1>3 DEF CallFails, Abandon, NoneReads, Works, TypeOK, Calls
  <2>2. CASE Finish(s)
    BY <1>3, <2>1, <2>2, RouteFinish
  <2>3. CASE /\ at' = [at EXCEPT ![s] = "shell"] /\ told' = [told EXCEPT ![s] = Nothing]
             /\ UNCHANGED <<pret, pretFid, slaveInfo>>
    <3>1. /\ told'[s] = Nothing /\ at'[s] = "shell"
          /\ \A r \in Sessions \ {s} : told'[r] = told[r] /\ at'[r] = at[r]
      BY <2>3 DEF TypeOK
    <3>2. RouteOK(s)'
      BY <3>1, ShortLengths DEF RouteOK
    <3>3. Grows /\ Routed
      BY <2>1 DEF Grows, Routed, NoneReads
    <3>4. QED
      BY <1>3, <2>3, <3>1, <3>2, <3>3, RouteStepOf
  <2>4. QED
    BY <1>3, <2>2, <2>3 DEF CallFails
<1>4. ASSUME NEW v \in Slaves, Crash(v), UNCHANGED peer PROVE RouteInv'
  <2>1. NoneReads /\ Grows /\ UNCHANGED <<at, pret, pretFid, slaveInfo, told>>
    BY <1>4 DEF Crash, NoneReads, Works, Grows
  <2>2. Routed
    BY <2>1 DEF NoneReads, Routed
  <2>3. PassiveRetrieveRouted'
    BY <1>4, <2>1 DEF Crash, NoneReads, RouteInv, PassiveRetrieveRouted, Orderly
  <2>4. \A s \in Sessions : Orderly(s)' => RouteOK(s)'
    BY <1>4, <2>1 DEF Crash, RouteInv, RouteOK, Orderly
  <2>5. QED
    BY <2>3, <2>4 DEF RouteInv
<1>5. CASE Next
  BY <1>1, <1>3, <1>4, <1>5, RouteCommand, RouteThread, RouteServe DEF Next
<1>6. QED
  BY <1>2, <1>5

\* A passive RETR asks the slave that PASV has called for a file that it has.
THEOREM RetrieveRouted == Spec => []PassiveRetrieveRouted
<1> DEFINE IInv == TypeOK /\ HeldOK /\ UploadInv /\ TransInv /\ RouteInv
<1>1. Init => IInv
  BY InitType, UploadInit, TransInit, RouteInit
<1>2. IInv /\ [Next]_vars => IInv'
  BY TypeStep, UploadStep, TransStep, RouteStep
<1>3. IInv => PassiveRetrieveRouted
  BY DEF RouteInv
<1> HIDE DEF IInv
<1>4. QED
  BY <1>1, <1>2, <1>3, PTL DEF Spec

=============================================================================
