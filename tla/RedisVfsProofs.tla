--------------------------- MODULE RedisVfsProofs ---------------------------
(***************************************************************************)
(* Proofs about RedisVfs, for any number of clients, names and paths.      *)
(*                                                                         *)
(* What a client knows is stale, but never about the future: no fid above  *)
(* fid_counter is in redis or in a client's hands (CounterInv).  A fid that *)
(* INCR returns is therefore new, and it stays unseen until its client's   *)
(* EXEC, since a lookup only finds fids that an entry names (CreatingInv). *)
(* The theorems about a single client come after those about all numbers.  *)
(***************************************************************************)
EXTENDS RedisVfs, SequenceTheorems, NaturalRecursion, TLAPS

\* The points of an operation at which its variables are known.
PointInv ==
    \A c \in Clients :
        /\ at[c] = "exists" => cmd[c] \in {"MKD", "RMD", "DELE", "RNFR", "RETR"}
        /\ at[c] \in {"incr", "store"} => cmd[c] \in {"MKD", "STOR"}
        /\ at[c] = "newparent" => cmd[c] = "RNTO" /\ oldparent[c] \in Fids
        /\ at[c] \in {"store", "parent", "newparent", "slave"} => fid[c] \in Fids
        /\ cmd[c] = "RNTO" => from[c] # NoPath

\* Nothing names or holds a fid that fid_counter has not reached.
CounterInv ==
    /\ \A f \in Fids : f > fid_counter => stat[f] = "none" /\ Missing(f)
    /\ \A f \in Fids, n \in Entries : dirent[f][n] <= fid_counter
    /\ \A c \in Clients :
        cur[c] <= fid_counter /\ fid[c] <= fid_counter /\ oldparent[c] <= fid_counter

\* NewFidUnseen, of a fid that is not the root's, and that the client's own
\* lookup of the parent does not reach either.
CreatingInv ==
    \A c \in Clients : Creating(c) =>
        /\ fid[c] # 0 /\ cur[c] # fid[c] /\ oldparent[c] # fid[c]
        /\ stat[fid[c]] = "none" /\ Missing(fid[c])
        /\ \A f \in Fids, n \in Entries : dirent[f][n] # fid[c]
        /\ \A d \in Clients : d # c =>
            cur[d] # fid[c] /\ fid[d] # fid[c] /\ oldparent[d] # fid[c]

\* The field that keeps a directory's hash alive, and the root's.
Keeper(f) == IF f = 0 THEN Seed ELSE Placeholder

\* A directory keeps it, unless an EXEC has overwritten or deleted it because
\* a peer named it.
DirectoryInv ==
    \A f \in Fids : stat[f] = "dir" /\ f \notin touched => dirent[f][Keeper(f)] # Absent

IInv == TypeOK /\ PointInv /\ CounterInv /\ CreatingInv /\ DirectoryInv

----------------------------------------------------------------------------
(* Paths.                                                                  *)

\* The last component of a path is a name, or that of the root's path.
LEMMA EntryType == ASSUME NEW p \in Seq(Names) PROVE EntryOf(p) \in Names \cup {NoName}
<1>1. CASE p = <<>>
  BY <1>1 DEF EntryOf
<1>2. CASE p # <<>>
  BY <1>2 DEF EntryOf
<1>3. QED
  BY <1>1, <1>2

\* The path of the parent directory is a path.
LEMMA ParentType == ASSUME NEW p \in Seq(Names) PROVE ParentOf(p) \in Seq(Names)
<1>1. CASE p = <<>>
  BY <1>1 DEF ParentOf
<1>2. CASE p # <<>>
  <2>1. Len(p) - 1 \in 0..Len(p)
    BY <1>2, EmptySeq, LenProperties
  <2>2. SubSeq(p, 1, Len(p) - 1) \in Seq(Names)
    BY <2>1, SubSeqProperties
  <2>3. QED
    BY <1>2, <2>2 DEF ParentOf
<1>3. QED
  BY <1>1, <1>2

\* What the types of a client's paths say of their parts.
PartsOK(c) ==
    /\ <<>> \in Seq(Names) /\ 0 \in Fids
    /\ ParentOf(path[c]) \in Seq(Names)
    /\ EntryOf(path[c]) \in Names \cup {NoName}
    /\ from[c] # NoPath => /\ from[c] \in Seq(Names)
                           /\ ParentOf(from[c]) \in Seq(Names)
                           /\ EntryOf(from[c]) \in Names \cup {NoName}
    /\ rest[c] # <<>> => Head(rest[c]) \in Names /\ Tail(rest[c]) \in Seq(Names)

\* The paths a client holds have parents that are paths, and entries that are
\* names.
LEMMA Parts == ASSUME TypeOK, NEW c \in Clients PROVE PartsOK(c)
<1>1. /\ path[c] \in Seq(Names) /\ rest[c] \in Seq(Names)
      /\ from[c] # NoPath => from[c] \in Seq(Names)
  BY DEF TypeOK
<1>2. rest[c] # <<>> => Head(rest[c]) \in Names /\ Tail(rest[c]) \in Seq(Names)
  BY <1>1, HeadTailProperties
<1>3. 0 \in Fids
  BY MaxFidAssumption DEF Fids
<1>4. <<>> \in Seq(Names)
  BY EmptySeq
<1>5. ParentOf(path[c]) \in Seq(Names) /\ EntryOf(path[c]) \in Names \cup {NoName}
  BY <1>1, ParentType, EntryType
<1>6. from[c] # NoPath =>
        ParentOf(from[c]) \in Seq(Names) /\ EntryOf(from[c]) \in Names \cup {NoName}
  BY <1>1, ParentType, EntryType
<1>7. QED
  BY <1>1, <1>2, <1>3, <1>4, <1>5, <1>6 DEF PartsOK

\* A path that a command is given is a sequence of names.
LEMMA PathType == ASSUME NEW p \in Paths PROVE p \in Seq(Names)
  BY PathsAssumption DEF Paths

----------------------------------------------------------------------------
(* The kinds of steps, each with one effect: what the invariant needs to   *)
(* know of the disjuncts of the actions.                                   *)

USE DEF NoFid, Absent, Lookups, redis

\* A command begins with a lookup.
Begins(c) ==
    /\ \/ \E command \in {"MKD", "RMD", "DELE", "RNFR", "RETR"} :
            /\ cmd' = [cmd EXCEPT ![c] = command]
            /\ at' = [at EXCEPT ![c] = "exists"]
       \/ /\ from[c] # NoPath
          /\ cmd' = [cmd EXCEPT ![c] = "RNTO"] /\ at' = [at EXCEPT ![c] = "target"]
    /\ \E p \in Seq(Names) : path' = [path EXCEPT ![c] = p]
    /\ cur' = [cur EXCEPT ![c] = 0]
    /\ \E p \in Seq(Names) : rest' = [rest EXCEPT ![c] = p]
    /\ UNCHANGED <<redis, from, fid, oldparent>>

\* STOR begins.
Stores(c) ==
    /\ cmd' = [cmd EXCEPT ![c] = "STOR"] /\ at' = [at EXCEPT ![c] = "incr"]
    /\ \E p \in Seq(Names) : path' = [path EXCEPT ![c] = p]
    /\ UNCHANGED <<redis, from, cur, rest, fid, oldparent>>

\* A lookup finds the fid of a token, or the value of a placeholder.
Finds(c) ==
    \E f \in Fids \cup {NoFid}, n \in Names :
        /\ f = dirent[cur[c]][n] /\ cur[c] \in Fids
        /\ cur' = [cur EXCEPT ![c] = f]
        /\ \E p \in Seq(Names) : rest' = [rest EXCEPT ![c] = p]
        /\ UNCHANGED <<redis, at, cmd, path, from, fid, oldparent>>

\* A lookup does not.
Misses(c) ==
    /\ cur' = [cur EXCEPT ![c] = NoFid]
    /\ rest' = [rest EXCEPT ![c] = <<>>]
    /\ UNCHANGED <<redis, at, cmd, path, from, fid, oldparent>>

\* MKD finds that the name is free.
Free(c) ==
    /\ at[c] = "exists" /\ cmd[c] = "MKD"
    /\ at' = [at EXCEPT ![c] = "incr"]
    /\ UNCHANGED <<redis, cmd, path, from, cur, rest, fid, oldparent>>

\* A new lookup begins, of an operation that keeps its fid.
Looks(c) ==
    /\ at[c] \in {"exists", "store"}
    /\ at' = [at EXCEPT ![c] = IF at[c] = "store" THEN "parent" ELSE "target"]
    /\ cur' = [cur EXCEPT ![c] = 0]
    /\ \E p \in Seq(Names) : rest' = [rest EXCEPT ![c] = p]
    /\ UNCHANGED <<redis, cmd, path, from, fid, oldparent>>

\* A new lookup begins, of an operation whose fid the last one found.
Holds(c) ==
    /\ cur[c] \in Fids
    /\ \/ cmd[c] \in {"RMD", "DELE", "RNTO"} /\ at' = [at EXCEPT ![c] = "parent"]
       \/ cmd[c] = "RETR" /\ at' = [at EXCEPT ![c] = "slave"]
    /\ fid' = [fid EXCEPT ![c] = cur[c]]
    /\ cur' = [cur EXCEPT ![c] = 0]
    /\ \E p \in Seq(Names) : rest' = [rest EXCEPT ![c] = p]
    /\ UNCHANGED <<redis, cmd, path, from, oldparent>>

\* rename keeps the fid of the old parent.
HoldsParent(c) ==
    /\ at[c] = "parent" /\ cmd[c] = "RNTO" /\ cur[c] \in Fids
    /\ at' = [at EXCEPT ![c] = "newparent"]
    /\ oldparent' = [oldparent EXCEPT ![c] = cur[c]]
    /\ cur' = [cur EXCEPT ![c] = 0]
    /\ \E p \in Seq(Names) : rest' = [rest EXCEPT ![c] = p]
    /\ UNCHANGED <<redis, cmd, path, from, fid>>

\* The counter is incremented.
Counts(c) ==
    /\ at[c] = "incr" /\ fid_counter + 1 \in Fids
    /\ fid_counter' = fid_counter + 1
    /\ fid' = [fid EXCEPT ![c] = fid_counter + 1]
    /\ \/ /\ cmd[c] = "MKD" /\ at' = [at EXCEPT ![c] = "parent"]
          /\ cur' = [cur EXCEPT ![c] = 0]
          /\ \E p \in Seq(Names) : rest' = [rest EXCEPT ![c] = p]
       \/ /\ cmd[c] = "STOR" /\ at' = [at EXCEPT ![c] = "store"]
          /\ UNCHANGED <<cur, rest>>
    /\ UNCHANGED <<stat, dirent, touched, cmd, path, from, oldparent>>

\* The operation is over, and redis is as it was.
Ends(c) ==
    /\ Done(c)
    /\ \E p \in Seq(Names) \cup {NoPath} : from' = [from EXCEPT ![c] = p]
    /\ UNCHANGED redis

\* mkdir or save_new_file link a new fid.
Links(c, type) ==
    /\ Creating(c) /\ cur[c] \in Fids /\ fid[c] \in Fids
    /\ \E name \in Names \cup {NoName} :
        /\ dirent' = [f \in Fids |-> [n \in Entries |->
              IF type = "dir" /\ f = fid[c] /\ n = Placeholder THEN NoFid
              ELSE IF f = cur[c] /\ n = name THEN fid[c] ELSE dirent[f][n]]]
        /\ touched' = touched \cup Touched(cur[c], name)
    /\ stat' = [stat EXCEPT ![fid[c]] = type]
    /\ Done(c)
    /\ UNCHANGED <<fid_counter, from>>

\* rmdir or remove unlink a fid.
Unlinks(c) ==
    /\ cur[c] \in Fids /\ fid[c] \in Fids
    /\ \E name \in Names \cup {NoName} :
        /\ dirent' = [f \in Fids |-> [n \in Entries |->
              IF f = cur[c] /\ n = name THEN Absent ELSE dirent[f][n]]]
        /\ touched' = touched \cup Touched(cur[c], name)
    /\ stat' = [stat EXCEPT ![fid[c]] = "none"]
    /\ Done(c)
    /\ UNCHANGED <<fid_counter, from>>

\* rename moves an entry.
Moves(c) ==
    /\ at[c] = "newparent" /\ {cur[c], oldparent[c], fid[c]} \subseteq Fids
    /\ \E old, new \in Names \cup {NoName} :
        /\ dirent' = [f \in Fids |-> [n \in Entries |->
              IF f = cur[c] /\ n = new THEN fid[c]
              ELSE IF f = oldparent[c] /\ n = old THEN Absent ELSE dirent[f][n]]]
        /\ touched' = touched \cup Touched(oldparent[c], old) \cup Touched(cur[c], new)
    /\ from' = [from EXCEPT ![c] = NoPath]
    /\ Done(c)
    /\ UNCHANGED <<fid_counter, stat>>

Kind(c) ==
    \/ Begins(c) \/ Stores(c) \/ Finds(c) \/ Misses(c) \/ Free(c) \/ Looks(c)
    \/ Holds(c) \/ HoldsParent(c) \/ Counts(c) \/ Ends(c) \/ Links(c, "dir")
    \/ Links(c, "file") \/ Unlinks(c) \/ Moves(c)

\* A token is looked for in a hash that exists.
LEMMA WalkFrom == ASSUME TypeOK, NEW c \in Clients, ~Missing(cur[c]) PROVE cur[c] \in Fids
BY DEF TypeOK, Missing

\* Every step is of one of the kinds.
LEMMA Kinds == ASSUME IInv, [Next]_vars PROVE UNCHANGED vars \/ \E c \in Clients : Kind(c)
<1> SUFFICES ASSUME NEW c \in Clients, Command(c) \/ Operation(c) \/ Stored(c)
             PROVE  UNCHANGED vars \/ Kind(c)
  BY DEF Next
<1>0. PartsOK(c) /\ TypeOK /\ PointInv /\ CreatingInv
  BY Parts DEF IInv
<1> USE <1>0 DEF PartsOK
<1>f. cur[c] # NoFid => cur[c] \in Fids
  BY DEF TypeOK
<1>d. ASSUME Done(c), UNCHANGED redis, UNCHANGED from PROVE Ends(c)
  <2>1. from = [from EXCEPT ![c] = from[c]] /\ from[c] \in Seq(Names) \cup {NoPath}
    BY DEF TypeOK
  <2>2. QED
    BY <1>d, <2>1 DEF Ends
<1>1. ASSUME NEW p \in Paths, NEW command \in {"MKD", "RMD", "DELE", "RNFR", "RETR"},
             Begin(c, command, p)
      PROVE  Begins(c)
  BY <1>1, PathType DEF Begin, Begins, LookUp
<1>2. ASSUME NEW p \in Paths, BeginRnto(c, p) PROVE Begins(c)
  BY <1>2, PathType DEF BeginRnto, Begins, LookUp
<1>3. ASSUME NEW p \in Paths, BeginStor(c, p) PROVE Stores(c)
  BY <1>3, PathType DEF BeginStor, Stores
<1>4. ASSUME Walk(c) PROVE Finds(c) \/ Misses(c)
  <2> DEFINE next == dirent[cur[c]][Head(rest[c])]
  <2>1. cur[c] \in Fids /\ Head(rest[c]) \in Names /\ Tail(rest[c]) \in Seq(Names)
    BY <1>4, WalkFrom, Zenon DEF Walk, Looking
  <2>2. next \in Fids \cup {NoFid, Absent}
    BY <2>1 DEF TypeOK, Entries
  <2>3. CASE next # Absent
    <3> HIDE DEF next
    <3>1. next \in Fids \cup {NoFid}
      BY <2>2, <2>3
    <3>2. cur' = [cur EXCEPT ![c] = next] /\ rest' = [rest EXCEPT ![c] = Tail(rest[c])]
      BY <1>4, <2>3 DEF Walk, next
    <3>3. QED
      BY <1>4, <2>1, <3>1, <3>2 DEF Walk, Finds, next
  <2>4. CASE next = Absent
    BY <1>4, <2>4 DEF Walk, Misses
  <2>5. QED
    BY <2>3, <2>4
<1>5. ASSUME Spin(c) PROVE UNCHANGED vars
  BY <1>5 DEF Spin
<1>6. ASSUME Exists(c) PROVE Free(c) \/ Looks(c) \/ Ends(c)
  <2>1. CASE cmd[c] = "MKD" /\ at' = [at EXCEPT ![c] = "incr"]
             /\ UNCHANGED <<from, cmd, path, cur, rest, fid, oldparent>>
    BY <1>6, <2>1 DEF Exists, Returned, Free
  <2>2. CASE LookUp(c, "target", path[c]) /\ UNCHANGED <<from, cmd, path, fid, oldparent>>
    <3>1. path[c] \in Seq(Names)
      BY DEF TypeOK
    <3>2. QED
      BY <1>6, <2>2, <3>1 DEF Exists, Returned, Looks, LookUp
  <2>3. CASE from' = [from EXCEPT ![c] = path[c]] /\ Done(c)
    <3>1. path[c] \in Seq(Names)
      BY DEF TypeOK
    <3>2. QED
      BY <1>6, <2>3, <3>1 DEF Exists, Ends
  <2>4. CASE Done(c) /\ UNCHANGED from
    BY <1>6, <2>4, <1>d DEF Exists
  <2>5. QED
    BY <1>6, <2>1, <2>2, <2>3, <2>4 DEF Exists
<1>7. ASSUME Fails(c) PROVE Ends(c)
  <2>1. CASE from' = from
    BY <1>7, <2>1, <1>d DEF Fails
  <2>2. CASE from' = [from EXCEPT ![c] = NoPath]
    BY <1>7, <2>2 DEF Fails, Ends
  <2>3. QED
    BY <1>7, <2>1, <2>2 DEF Fails
<1>8. ASSUME Incr(c) PROVE Counts(c)
  <2>1. fid_counter + 1 \in Fids
    BY <1>8, MaxFidAssumption DEF Incr, TypeOK, Fids
  <2>2. QED
    BY <1>8, <2>1 DEF Incr, Counts, LookUp
<1>9. ASSUME Target(c) PROVE Holds(c) \/ Ends(c)
  <2>1. CASE Done(c)
    BY <1>9, <2>1, <1>d DEF Target
  <2>2. CASE fid' = [fid EXCEPT ![c] = cur[c]] /\ UNCHANGED <<cmd, path, oldparent>>
             /\ LookUp(c, "parent", ParentOf(IF cmd[c] = "RNTO" THEN from[c] ELSE path[c]))
    <3>1. ParentOf(IF cmd[c] = "RNTO" THEN from[c] ELSE path[c]) \in Seq(Names)
      BY DEF PointInv
    <3>2. QED
      BY <1>9, <1>f, <2>2, <3>1 DEF Target, Holds, LookUp
  <2>3. QED
    BY <1>9, <2>1, <2>2 DEF Target
<1>a. EntryOf(path[c]) \in Entries /\ EntryOf(path[c]) \in Names \cup {NoName}
  BY DEF Entries
<1>10. ASSUME MkdirExec(c) PROVE Links(c, "dir")
  <2>1. cur[c] \in Fids /\ fid[c] \in Fids /\ Creating(c)
    BY <1>10, <1>f DEF MkdirExec, Returned, PointInv, Creating
  <2>2. cur[c] # fid[c]
    BY <2>1 DEF CreatingInv
  <2>3. dirent' = [f \in Fids |-> [n \in Entries |->
            IF "dir" = "dir" /\ f = fid[c] /\ n = Placeholder THEN NoFid
            ELSE IF f = cur[c] /\ n = EntryOf(path[c]) THEN fid[c] ELSE dirent[f][n]]]
    BY <1>10, <1>a, <2>1, <2>2 DEF MkdirExec, TypeOK, Entries
  <2>4. QED
    BY <1>10, <1>a, <2>1, <2>3, Zenon DEF MkdirExec, Links
<1>11. ASSUME SaveExec(c) PROVE Links(c, "file")
  <2>1. cur[c] \in Fids /\ fid[c] \in Fids /\ Creating(c)
    BY <1>11, <1>f DEF SaveExec, Returned, PointInv, Creating
  <2>3. dirent' = [f \in Fids |-> [n \in Entries |->
            IF "file" = "dir" /\ f = fid[c] /\ n = Placeholder THEN NoFid
            ELSE IF f = cur[c] /\ n = EntryOf(path[c]) THEN fid[c] ELSE dirent[f][n]]]
    BY <1>11, <1>a, <2>1 DEF SaveExec, TypeOK
  <2>4. QED
    BY <1>11, <1>a, <2>1, <2>3, Zenon DEF SaveExec, Links
<1>12. ASSUME RemoveExec(c) PROVE Unlinks(c)
  <2>1. cur[c] \in Fids /\ fid[c] \in Fids
    BY <1>12, <1>f DEF RemoveExec, Returned, PointInv
  <2>3. dirent' = [f \in Fids |-> [n \in Entries |->
            IF f = cur[c] /\ n = EntryOf(path[c]) THEN Absent ELSE dirent[f][n]]]
    BY <1>12, <1>a, <2>1 DEF RemoveExec, TypeOK
  <2>4. QED
    BY <1>12, <2>1, <2>3 DEF RemoveExec, Unlinks
<1>13. ASSUME OldParent(c) PROVE HoldsParent(c)
  <2>1. ParentOf(from[c]) \in Seq(Names)
    BY <1>13 DEF OldParent, PointInv
  <2>2. QED
    BY <1>13, <1>f, <2>1 DEF OldParent, Returned, HoldsParent, LookUp
<1>14. ASSUME RenameExec(c) PROVE Moves(c)
  <2>1. {cur[c], oldparent[c], fid[c]} \subseteq Fids /\ cmd[c] = "RNTO"
    BY <1>14, <1>f DEF RenameExec, Returned, PointInv
  <2>2. EntryOf(from[c]) \in Entries /\ EntryOf(from[c]) \in Names \cup {NoName}
    BY <2>1 DEF PointInv, Entries
  <2>3. dirent' = [f \in Fids |-> [n \in Entries |->
            IF f = cur[c] /\ n = EntryOf(path[c]) THEN fid[c]
            ELSE IF f = oldparent[c] /\ n = EntryOf(from[c]) THEN Absent ELSE dirent[f][n]]]
    BY <1>14, <1>a, <2>1, <2>2 DEF RenameExec, TypeOK
  <2>4. QED
    BY <1>14, <2>1, <2>2, <2>3 DEF RenameExec, Returned, Moves
<1>15. ASSUME RetrieveFid(c) PROVE Holds(c)
  <2>1. path[c] \in Seq(Names)
    BY DEF TypeOK
  <2>2. QED
    BY <1>15, <1>f, <2>1 DEF RetrieveFid, Holds, LookUp
<1>16. ASSUME RetrieveSlave(c) PROVE Ends(c)
  BY <1>16, <1>d DEF RetrieveSlave
<1>17. ASSUME Stored(c) PROVE Looks(c) \/ Ends(c)
  <2>1. CASE Done(c)
    BY <1>17, <2>1, <1>d DEF Stored
  <2>2. CASE LookUp(c, "parent", ParentOf(path[c])) /\ UNCHANGED <<cmd, path, fid, oldparent>>
    BY <1>17, <2>2 DEF Stored, Looks, LookUp
  <2>3. QED
    BY <1>17, <2>1, <2>2 DEF Stored
<1>18. QED
  BY <1>1, <1>2, <1>3, <1>4, <1>5, <1>6, <1>7, <1>8, <1>9, <1>10, <1>11, <1>12,
     <1>13, <1>14, <1>15, <1>16, <1>17
     DEF Command, Operation, Kind

----------------------------------------------------------------------------
(* The invariant.                                                          *)

\* Every step keeps every variable within its type.
LEMMA TypeStep == ASSUME IInv, [Next]_vars PROVE TypeOK'
<1> USE MaxFidAssumption, EmptySeq
<1> USE DEF IInv, TypeOK, PointInv, Commands, Fids
<1>1. ASSUME NEW c \in Clients, Begins(c) PROVE TypeOK'
  <2>1. PICK p \in Seq(Names) : rest' = [rest EXCEPT ![c] = p]
    BY <1>1 DEF Begins
  <2>2. CASE \E command \in {"MKD", "RMD", "DELE", "RNFR", "RETR"} :
               /\ cmd' = [cmd EXCEPT ![c] = command]
               /\ at' = [at EXCEPT ![c] = "exists"]
    BY <1>1, <2>1, <2>2 DEF Begins
  <2>3. CASE /\ from[c] # NoPath
             /\ cmd' = [cmd EXCEPT ![c] = "RNTO"] /\ at' = [at EXCEPT ![c] = "target"]
    BY <1>1, <2>1, <2>3 DEF Begins
  <2>4. QED
    BY <1>1, <2>2, <2>3 DEF Begins
<1>2. ASSUME NEW c \in Clients, Stores(c) PROVE TypeOK'
  BY <1>2 DEF Stores
<1>3. ASSUME NEW c \in Clients, Finds(c) PROVE TypeOK'
  BY <1>3 DEF Finds
<1>4. ASSUME NEW c \in Clients, Misses(c) PROVE TypeOK'
  BY <1>4 DEF Misses
<1>5. ASSUME NEW c \in Clients, Free(c) PROVE TypeOK'
  BY <1>5 DEF Free
<1>6. ASSUME NEW c \in Clients, Looks(c) PROVE TypeOK'
  BY <1>6 DEF Looks
<1>7. ASSUME NEW c \in Clients, Holds(c) PROVE TypeOK'
  <2>1. PICK p \in Seq(Names) : rest' = [rest EXCEPT ![c] = p]
    BY <1>7 DEF Holds
  <2>2. CASE cmd[c] \in {"RMD", "DELE", "RNTO"} /\ at' = [at EXCEPT ![c] = "parent"]
    BY <1>7, <2>1, <2>2 DEF Holds
  <2>3. CASE cmd[c] = "RETR" /\ at' = [at EXCEPT ![c] = "slave"]
    BY <1>7, <2>1, <2>3 DEF Holds
  <2>4. QED
    BY <1>7, <2>2, <2>3 DEF Holds
<1>8. ASSUME NEW c \in Clients, HoldsParent(c) PROVE TypeOK'
  BY <1>8 DEF HoldsParent
<1>9. ASSUME NEW c \in Clients, Counts(c) PROVE TypeOK'
  <2>1. fid_counter' \in Fids /\ fid' \in [Clients -> Fids \cup {NoFid}]
    BY <1>9 DEF Counts
  <2>2. /\ at' \in [Clients -> Lookups \cup {"idle", "incr", "store"}]
        /\ cur' \in [Clients -> Fids \cup {NoFid}]
        /\ rest' \in [Clients -> Seq(Names)]
    <3>1. CASE cmd[c] = "MKD"
      <4>1. 0 \in Fids
        OBVIOUS
      <4>2. PICK p \in Seq(Names) : rest' = [rest EXCEPT ![c] = p]
        BY <1>9, <3>1 DEF Counts
      <4>3. at' = [at EXCEPT ![c] = "parent"] /\ cur' = [cur EXCEPT ![c] = 0]
        BY <1>9, <3>1 DEF Counts
      <4>4. QED
        BY <4>1, <4>2, <4>3
    <3>2. CASE cmd[c] = "STOR"
      BY <1>9, <3>2 DEF Counts
    <3>3. QED
      BY <1>9, <3>1, <3>2 DEF Counts
  <2>3. QED
    BY <1>9, <2>1, <2>2 DEF Counts
<1>10. ASSUME NEW c \in Clients, Ends(c) PROVE TypeOK'
  BY <1>10 DEF Ends, Done
<1>11. ASSUME NEW c \in Clients, NEW type \in {"dir", "file"}, Links(c, type)
       PROVE  TypeOK'
  <2>1. PICK name \in Names \cup {NoName} :
          /\ touched' = touched \cup Touched(cur[c], name)
          /\ dirent' = [f \in Fids |-> [n \in Entries |->
                IF type = "dir" /\ f = fid[c] /\ n = Placeholder THEN NoFid
                ELSE IF f = cur[c] /\ n = name THEN fid[c] ELSE dirent[f][n]]]
    BY <1>11 DEF Links
  <2>2. cur[c] \in Fids /\ fid[c] \in Fids
    BY <1>11 DEF Links
  <2>3. dirent' \in [Fids -> [Entries -> Fids \cup {NoFid, Absent}]]
    BY <2>1, <2>2
  <2>4. touched' \subseteq Fids
    BY <2>1, <2>2 DEF Touched
  <2>5. QED
    BY <1>11, <2>3, <2>4 DEF Links, Done
<1>12. ASSUME NEW c \in Clients, Unlinks(c) PROVE TypeOK'
  <2>1. PICK name \in Names \cup {NoName} :
          /\ touched' = touched \cup Touched(cur[c], name)
          /\ dirent' = [f \in Fids |-> [n \in Entries |->
                IF f = cur[c] /\ n = name THEN Absent ELSE dirent[f][n]]]
    BY <1>12 DEF Unlinks
  <2>2. dirent' \in [Fids -> [Entries -> Fids \cup {NoFid, Absent}]]
    BY <1>12, <2>1 DEF Unlinks
  <2>3. touched' \subseteq Fids
    BY <1>12, <2>1 DEF Unlinks, Touched
  <2>4. QED
    BY <1>12, <2>2, <2>3 DEF Unlinks, Done
<1>13. ASSUME NEW c \in Clients, Moves(c) PROVE TypeOK'
  <2>1. PICK old \in Names \cup {NoName}, new \in Names \cup {NoName} :
          /\ touched' = touched \cup Touched(oldparent[c], old) \cup Touched(cur[c], new)
          /\ dirent' = [f \in Fids |-> [n \in Entries |->
                IF f = cur[c] /\ n = new THEN fid[c]
                ELSE IF f = oldparent[c] /\ n = old THEN Absent ELSE dirent[f][n]]]
    BY <1>13 DEF Moves
  <2>2. cur[c] \in Fids /\ fid[c] \in Fids /\ oldparent[c] \in Fids
    BY <1>13 DEF Moves
  <2>3. dirent' \in [Fids -> [Entries -> Fids \cup {NoFid, Absent}]]
    BY <2>1, <2>2
  <2>4. touched' \subseteq Fids
    BY <2>1, <2>2 DEF Touched
  <2>5. QED
    BY <1>13, <2>3, <2>4 DEF Moves, Done
<1>14. CASE UNCHANGED vars
  BY <1>14 DEF vars
<1> HIDE DEF IInv, TypeOK, PointInv, Commands, Fids
<1>15. QED
  BY Kinds, <1>1, <1>2, <1>3, <1>4, <1>5, <1>6, <1>7, <1>8, <1>9, <1>10, <1>11,
     <1>12, <1>13, <1>14 DEF Kind

\* An operation reaches its points with its variables set.
LEMMA PointStep == ASSUME IInv, TypeOK', [Next]_vars PROVE PointInv'
<1> USE MaxFidAssumption
<1> USE DEF IInv, TypeOK, PointInv, Commands, Fids
<1>1. ASSUME NEW c \in Clients, Begins(c) PROVE PointInv'
  <2>1. PICK p \in Seq(Names) : rest' = [rest EXCEPT ![c] = p]
    BY <1>1 DEF Begins
  <2>2. CASE \E command \in {"MKD", "RMD", "DELE", "RNFR", "RETR"} :
               /\ cmd' = [cmd EXCEPT ![c] = command]
               /\ at' = [at EXCEPT ![c] = "exists"]
    BY <1>1, <2>1, <2>2 DEF Begins
  <2>3. CASE /\ from[c] # NoPath
             /\ cmd' = [cmd EXCEPT ![c] = "RNTO"] /\ at' = [at EXCEPT ![c] = "target"]
    BY <1>1, <2>1, <2>3 DEF Begins
  <2>4. QED
    BY <1>1, <2>2, <2>3 DEF Begins
<1>2. ASSUME NEW c \in Clients, Stores(c) PROVE PointInv'
  BY <1>2 DEF Stores
<1>3. ASSUME NEW c \in Clients, Finds(c) PROVE PointInv'
  BY <1>3 DEF Finds
<1>4. ASSUME NEW c \in Clients, Misses(c) PROVE PointInv'
  BY <1>4 DEF Misses
<1>5. ASSUME NEW c \in Clients, Free(c) PROVE PointInv'
  BY <1>5 DEF Free
<1>6. ASSUME NEW c \in Clients, Looks(c) PROVE PointInv'
  BY <1>6 DEF Looks
<1>7. ASSUME NEW c \in Clients, Holds(c) PROVE PointInv'
  <2>1. PICK p \in Seq(Names) : rest' = [rest EXCEPT ![c] = p]
    BY <1>7 DEF Holds
  <2>2. CASE cmd[c] \in {"RMD", "DELE", "RNTO"} /\ at' = [at EXCEPT ![c] = "parent"]
    BY <1>7, <2>1, <2>2 DEF Holds
  <2>3. CASE cmd[c] = "RETR" /\ at' = [at EXCEPT ![c] = "slave"]
    BY <1>7, <2>1, <2>3 DEF Holds
  <2>4. QED
    BY <1>7, <2>2, <2>3 DEF Holds
<1>8. ASSUME NEW c \in Clients, HoldsParent(c) PROVE PointInv'
  BY <1>8 DEF HoldsParent
<1>9. ASSUME NEW c \in Clients, Counts(c) PROVE PointInv'
  <2>1. CASE cmd[c] = "MKD"
    <3>1. PICK p \in Seq(Names) : rest' = [rest EXCEPT ![c] = p]
      BY <1>9, <2>1 DEF Counts
    <3>2. QED
      BY <1>9, <2>1, <3>1 DEF Counts
  <2>2. CASE cmd[c] = "STOR"
    BY <1>9, <2>2 DEF Counts
  <2>3. QED
    BY <1>9, <2>1, <2>2 DEF Counts
<1>10. ASSUME NEW c \in Clients, Ends(c) PROVE PointInv'
  BY <1>10 DEF Ends, Done
<1>11. ASSUME NEW c \in Clients, NEW type \in {"dir", "file"}, Links(c, type)
       PROVE  PointInv'
  BY <1>11 DEF Links, Done
<1>12. ASSUME NEW c \in Clients, Unlinks(c) PROVE PointInv'
  BY <1>12 DEF Unlinks, Done
<1>13. ASSUME NEW c \in Clients, Moves(c) PROVE PointInv'
  BY <1>13 DEF Moves, Done
<1>14. CASE UNCHANGED vars
  BY <1>14 DEF vars
<1> HIDE DEF IInv, TypeOK, PointInv, Commands, Fids
<1>15. QED
  BY Kinds, <1>1, <1>2, <1>3, <1>4, <1>5, <1>6, <1>7, <1>8, <1>9, <1>10, <1>11,
     <1>12, <1>13, <1>14 DEF Kind

\* INCR is the only way to a larger fid.
LEMMA CounterStep == ASSUME IInv, TypeOK', [Next]_vars PROVE CounterInv'
<1> USE MaxFidAssumption
<1> USE DEF IInv, TypeOK, CounterInv, CreatingInv, Missing, Entries, Fids
<1>1. ASSUME NEW c \in Clients, Begins(c) PROVE CounterInv'
  BY <1>1 DEF Begins
<1>2. ASSUME NEW c \in Clients, Stores(c) PROVE CounterInv'
  BY <1>2 DEF Stores
<1>3. ASSUME NEW c \in Clients, Finds(c) PROVE CounterInv'
  BY <1>3 DEF Finds
<1>4. ASSUME NEW c \in Clients, Misses(c) PROVE CounterInv'
  BY <1>4 DEF Misses
<1>5. ASSUME NEW c \in Clients, Free(c) PROVE CounterInv'
  BY <1>5 DEF Free
<1>6. ASSUME NEW c \in Clients, Looks(c) PROVE CounterInv'
  BY <1>6 DEF Looks
<1>7. ASSUME NEW c \in Clients, Holds(c) PROVE CounterInv'
  BY <1>7 DEF Holds
<1>8. ASSUME NEW c \in Clients, HoldsParent(c) PROVE CounterInv'
  BY <1>8 DEF HoldsParent
<1>9. ASSUME NEW c \in Clients, Counts(c) PROVE CounterInv'
  <2>1. /\ fid_counter \in Int /\ fid_counter >= 0 /\ fid_counter' = fid_counter + 1
        /\ UNCHANGED <<stat, dirent, oldparent>>
        /\ fid' = [fid EXCEPT ![c] = fid_counter + 1]
    BY <1>9 DEF Counts
  <2>2. cur' = cur \/ cur' = [cur EXCEPT ![c] = 0]
    BY <1>9 DEF Counts
  <2>3. \A f \in Fids : f > fid_counter' => stat'[f] = "none" /\ Missing(f)'
    BY <2>1
  <2>4. \A f \in Fids, n \in Entries : dirent'[f][n] <= fid_counter'
    <3>1. \A f \in Fids, n \in Entries : dirent[f][n] \in Int /\ dirent[f][n] <= fid_counter
      OBVIOUS
    <3>2. QED
      BY <2>1, <3>1
  <2>5. \A d \in Clients : /\ cur'[d] <= fid_counter' /\ fid'[d] <= fid_counter'
                           /\ oldparent'[d] <= fid_counter'
    <3>1. \A d \in Clients : /\ cur[d] \in Int /\ fid[d] \in Int /\ oldparent[d] \in Int
                             /\ cur[d] <= fid_counter /\ fid[d] <= fid_counter
                             /\ oldparent[d] <= fid_counter
      OBVIOUS
    <3>2. QED
      BY <2>1, <2>2, <3>1
  <2>6. QED
    BY <2>3, <2>4, <2>5
<1>10. ASSUME NEW c \in Clients, Ends(c) PROVE CounterInv'
  BY <1>10 DEF Ends, Done
<1>11. ASSUME NEW c \in Clients, NEW type \in {"dir", "file"}, Links(c, type)
       PROVE  CounterInv'
  BY <1>11 DEF Links, Done
<1>12. ASSUME NEW c \in Clients, Unlinks(c) PROVE CounterInv'
  BY <1>12 DEF Unlinks, Done
<1>13. ASSUME NEW c \in Clients, Moves(c) PROVE CounterInv'
  BY <1>13 DEF Moves, Done
<1>14. CASE UNCHANGED vars
  BY <1>14 DEF vars
<1> HIDE DEF IInv, TypeOK, CounterInv, CreatingInv, Missing, Entries, Fids
<1>15. QED
  BY Kinds, <1>1, <1>2, <1>3, <1>4, <1>5, <1>6, <1>7, <1>8, <1>9, <1>10, <1>11,
     <1>12, <1>13, <1>14 DEF Kind

\* Only the EXEC of the client that a fid was given to links it.
LEMMA CreatingStep == ASSUME IInv, TypeOK', [Next]_vars PROVE CreatingInv'
<1> USE MaxFidAssumption
<1> USE DEF IInv, TypeOK, PointInv, CounterInv, CreatingInv, Creating, Missing, Entries, Fids
<1>1. ASSUME NEW c \in Clients, Begins(c) PROVE CreatingInv'
  BY <1>1 DEF Begins
<1>2. ASSUME NEW c \in Clients, Stores(c) PROVE CreatingInv'
  BY <1>2 DEF Stores
<1>3. ASSUME NEW c \in Clients, Finds(c) PROVE CreatingInv'
  BY <1>3 DEF Finds
<1>4. ASSUME NEW c \in Clients, Misses(c) PROVE CreatingInv'
  BY <1>4 DEF Misses
<1>5. ASSUME NEW c \in Clients, Free(c) PROVE CreatingInv'
  BY <1>5 DEF Free
<1>6. ASSUME NEW c \in Clients, Looks(c) PROVE CreatingInv'
  BY <1>6 DEF Looks
<1>7. ASSUME NEW c \in Clients, Holds(c) PROVE CreatingInv'
  BY <1>7 DEF Holds
<1>8. ASSUME NEW c \in Clients, HoldsParent(c) PROVE CreatingInv'
  BY <1>8 DEF HoldsParent
<1>9. ASSUME NEW c \in Clients, Counts(c) PROVE CreatingInv'
  <2>1. CASE cmd[c] = "MKD"
    <3>1. PICK p \in Seq(Names) : rest' = [rest EXCEPT ![c] = p]
      BY <1>9, <2>1 DEF Counts
    <3>2. QED
      BY <1>9, <2>1, <3>1 DEF Counts
  <2>2. CASE cmd[c] = "STOR"
    BY <1>9, <2>2 DEF Counts
  <2>3. QED
    BY <1>9, <2>1, <2>2 DEF Counts
<1>10. ASSUME NEW c \in Clients, Ends(c) PROVE CreatingInv'
  BY <1>10 DEF Ends, Done
<1>11. ASSUME NEW c \in Clients, NEW type \in {"dir", "file"}, Links(c, type)
       PROVE  CreatingInv'
  BY <1>11 DEF Links, Done
<1>12. ASSUME NEW c \in Clients, Unlinks(c) PROVE CreatingInv'
  BY <1>12 DEF Unlinks, Done
<1>13. ASSUME NEW c \in Clients, Moves(c) PROVE CreatingInv'
  BY <1>13 DEF Moves, Done
<1>14. CASE UNCHANGED vars
  BY <1>14 DEF vars
<1> HIDE DEF IInv, TypeOK, PointInv, CounterInv, CreatingInv, Creating, Missing, Entries, Fids
<1>15. QED
  BY Kinds, <1>1, <1>2, <1>3, <1>4, <1>5, <1>6, <1>7, <1>8, <1>9, <1>10, <1>11,
     <1>12, <1>13, <1>14 DEF Kind

\* An EXEC overwrites or deletes a placeholder only where a peer named it, and
\* mkdir adds one with the directory.
LEMMA DirectoryStep == ASSUME IInv, TypeOK', [Next]_vars PROVE DirectoryInv'
<1> USE MaxFidAssumption
<1> USE DEF IInv, TypeOK, CreatingInv, DirectoryInv, Keeper, Touched, Entries, Fids
<1>1. ASSUME NEW c \in Clients, Begins(c) PROVE DirectoryInv'
  BY <1>1 DEF Begins
<1>2. ASSUME NEW c \in Clients, Stores(c) PROVE DirectoryInv'
  BY <1>2 DEF Stores
<1>3. ASSUME NEW c \in Clients, Finds(c) PROVE DirectoryInv'
  BY <1>3 DEF Finds
<1>4. ASSUME NEW c \in Clients, Misses(c) PROVE DirectoryInv'
  BY <1>4 DEF Misses
<1>5. ASSUME NEW c \in Clients, Free(c) PROVE DirectoryInv'
  BY <1>5 DEF Free
<1>6. ASSUME NEW c \in Clients, Looks(c) PROVE DirectoryInv'
  BY <1>6 DEF Looks
<1>7. ASSUME NEW c \in Clients, Holds(c) PROVE DirectoryInv'
  BY <1>7 DEF Holds
<1>8. ASSUME NEW c \in Clients, HoldsParent(c) PROVE DirectoryInv'
  BY <1>8 DEF HoldsParent
<1>9. ASSUME NEW c \in Clients, Counts(c) PROVE DirectoryInv'
  BY <1>9 DEF Counts
<1>10. ASSUME NEW c \in Clients, Ends(c) PROVE DirectoryInv'
  BY <1>10 DEF Ends, Done
<1>11. ASSUME NEW c \in Clients, NEW type \in {"dir", "file"}, Links(c, type)
       PROVE  DirectoryInv'
  BY <1>11 DEF Links, Done
<1>12. ASSUME NEW c \in Clients, Unlinks(c) PROVE DirectoryInv'
  BY <1>12 DEF Unlinks, Done
<1>13. ASSUME NEW c \in Clients, Moves(c) PROVE DirectoryInv'
  BY <1>13 DEF Moves, Done
<1>14. CASE UNCHANGED vars
  BY <1>14 DEF vars
<1> HIDE DEF IInv, TypeOK, CreatingInv, DirectoryInv, Keeper, Touched, Entries, Fids
<1>15. QED
  BY Kinds, <1>1, <1>2, <1>3, <1>4, <1>5, <1>6, <1>7, <1>8, <1>9, <1>10, <1>11,
     <1>12, <1>13, <1>14 DEF Kind

----------------------------------------------------------------------------
(* The theorems.                                                           *)

\* The seed of the database satisfies the invariant.
LEMMA InitIInv == Init => IInv
<1> SUFFICES ASSUME Init PROVE IInv
  OBVIOUS
<1>1. 0 \in Fids /\ <<>> \in Seq(Names) /\ Placeholder \in Entries /\ Seed \in Entries
  BY MaxFidAssumption, EmptySeq DEF Fids, Entries
<1>2. TypeOK
  BY <1>1 DEF Init, TypeOK, Commands
<1>3. PointInv /\ CreatingInv
  BY <1>1 DEF Init, PointInv, CreatingInv, Creating
<1>4. CounterInv
  BY <1>1, MaxFidAssumption DEF Init, CounterInv, Missing, Fids
<1>5. DirectoryInv
  BY <1>1 DEF Init, DirectoryInv, Keeper, Entries
<1>6. QED
  BY <1>2, <1>3, <1>4, <1>5 DEF IInv

\* The strengthening of the safety properties is inductive.
THEOREM Invariance == Spec => []IInv
<1>1. IInv /\ [Next]_vars => IInv'
  <2> SUFFICES ASSUME IInv, [Next]_vars PROVE IInv'
    OBVIOUS
  <2>1. TypeOK'
    BY TypeStep
  <2>2. QED
    BY <2>1, PointStep, CounterStep, CreatingStep, DirectoryStep DEF IInv
<1>2. QED
  BY InitIInv, <1>1, PTL DEF Spec

\* The types of redis's values and of what the clients hold.
THEOREM TypeCorrect == Spec => []TypeOK
<1>1. IInv => TypeOK
  BY DEF IInv
<1>2. QED
  BY <1>1, Invariance, PTL

\* get_new_fid never gives out a fid that anything in redis, or any client's
\* stale lookup, refers to, and no one gets hold of it before its EXEC.
THEOREM FreshFids == Spec => []NewFidUnseen
<1>1. IInv => NewFidUnseen
  BY DEF IInv, CreatingInv, NewFidUnseen
<1>2. QED
  BY <1>1, Invariance, PTL

\* lookup_fid loops only below a placeholder, in a file, in an object deleted
\* meanwhile or in a directory whose placeholder a peer has named.
THEOREM LookupsLeaveDirectories == Spec => []NeverSpinsInDirectory
<1>1. IInv => NeverSpinsInDirectory
  <2> SUFFICES ASSUME IInv, NEW c \in Clients, Spins(c), ~Astray(c) PROVE FALSE
    BY DEF NeverSpinsInDirectory
  <2>1. cur[c] \in Fids /\ stat[cur[c]] = "dir" /\ cur[c] \notin touched
    BY DEF IInv, TypeOK, Astray
  <2>2. Keeper(cur[c]) \in Entries
    BY DEF Keeper, Entries
  <2>3. dirent[cur[c]][Keeper(cur[c])] # Absent
    BY <2>1 DEF IInv, DirectoryInv
  <2>4. QED
    BY <2>1, <2>2, <2>3 DEF Missing, Spins, Fids
<1>2. QED
  BY <1>1, Invariance, PTL

\* No command, on whatever stale lookup, turns a file into a directory or a
\* directory into a file.
THEOREM TypesAreStable == Spec => StatNeverRetyped
<1>1. IInv /\ [Next]_vars =>
        [\A f \in Fids : stat[f] # "none" => stat'[f] \in {stat[f], "none"}]_vars
  <2> SUFFICES ASSUME IInv, [Next]_vars, NEW f \in Fids, stat[f] # "none"
               PROVE stat'[f] \in {stat[f], "none"}
    OBVIOUS
  <2>1. ASSUME NEW c \in Clients, NEW type \in {"dir", "file"}, Links(c, type)
        PROVE  stat'[f] \in {stat[f], "none"}
    BY <2>1 DEF IInv, TypeOK, CreatingInv, Links
  <2>2. ASSUME NEW c \in Clients, Unlinks(c) PROVE stat'[f] \in {stat[f], "none"}
    BY <2>2 DEF IInv, TypeOK, Unlinks
  <2>3. CASE UNCHANGED stat
    BY <2>3
  <2>4. QED
    BY <2>1, <2>2, <2>3, Kinds DEF Kind, vars, Begins, Stores, Finds, Misses, Free, Looks,
       Holds, HoldsParent, Counts, Ends, Moves
<1>2. QED
  BY <1>1, Invariance, PTL DEF Spec, StatNeverRetyped

----------------------------------------------------------------------------
(* A single client, whose paths are not the root's.                        *)
(*                                                                         *)
(* Every operation looks its path up two or three times.  With no other    *)
(* client the later lookups go the way of the first (WayInv): what they    *)
(* find is the object that the first one found and the directory whose     *)
(* entry names it.  Each EXEC therefore removes the one entry of the       *)
(* object it deletes or renames (LinkInv), and does to the tree what the   *)
(* command does in AtomicVfs: what the operation knows of its path since   *)
(* the first lookup (KnownInv) is still so.                                *)

OneClient == (\A c, d \in Clients : c = d) /\ <<>> \notin Paths

\* The path whose object the operation is about.
Object(c) == IF cmd[c] = "RNTO" THEN from[c] ELSE path[c]

\* w is the way that the first k names of path p take from the root of the
\* tree d.
Leads(d, w, p, k) ==
    /\ w \in [0..Len(p) -> Fids] /\ w[0] = 0
    /\ \A i \in 1..k : w[i] = d[w[i-1]][p[i]]

\* A lookup that has reached f, with the names r left, is at step k of the
\* way, and is to go on to step m.
OnWay(f, r, w, p, k, m) ==
    /\ f = w[k] /\ Len(r) = m - k
    /\ \A i \in 1..(m - k) : r[i] = p[k+i]

PathInv ==
    \A c \in Clients :
        /\ at[c] # "idle" => path[c] # <<>>
        /\ from[c] # <<>>
        /\ at[c] = "slave" => cmd[c] = "RETR"

\* What the lookups of the client find.
TargetWay(c, p) ==
    \E w : \E k \in 0..Len(p) :
        Leads(dirent, w, p, k) /\ OnWay(cur[c], rest[c], w, p, k, Len(p))
ParentWay(c, p) ==
    \E w : \E k \in 0..(Len(p) - 1) :
        /\ Leads(dirent, w, p, Len(p)) /\ w[Len(p)] = fid[c]
        /\ OnWay(cur[c], rest[c], w, p, k, Len(p) - 1)
        /\ at[c] = "newparent" => oldparent[c] = w[Len(p) - 1]
SlaveWay(c, p) ==
    \E w : \E k \in 0..Len(p) :
        /\ Leads(dirent, w, p, Len(p)) /\ w[Len(p)] = fid[c]
        /\ OnWay(cur[c], rest[c], w, p, k, Len(p))

Way(c) ==
    /\ at[c] = "target" /\ cur[c] # NoFid => TargetWay(c, Object(c))
    /\ at[c] \in {"parent", "newparent"} /\ cmd[c] \in {"RMD", "DELE", "RNTO"} =>
          ParentWay(c, Object(c))
    /\ at[c] = "slave" => SlaveWay(c, Object(c))

WayInv == \A c \in Clients : Way(c)

\* The tree: every entry that names an object is the only one, and the object
\* exists; none names the root.
LinkInv ==
    /\ NoDanglingEntry /\ SingleLink
    /\ \A f \in Fids, n \in Entries : dirent[f][n] # 0

----------------------------------------------------------------------------
(* Paths and ways.                                                         *)

\* A path that is not the root's is its parent's and one name more.
LEMMA ParentParts ==
    ASSUME NEW p \in Seq(Names), p # <<>>
    PROVE  /\ Len(p) \in Nat \ {0} /\ EntryOf(p) = p[Len(p)] /\ EntryOf(p) \in Names
           /\ ParentOf(p) \in Seq(Names) /\ Len(ParentOf(p)) = Len(p) - 1
           /\ \A i \in 1..(Len(p) - 1) : ParentOf(p)[i] = p[i]
<1>1. Len(p) \in Nat \ {0}
  BY EmptySeq, LenProperties
<1>2. ParentOf(p) = SubSeq(p, 1, Len(p) - 1) /\ EntryOf(p) = p[Len(p)]
  BY DEF ParentOf, EntryOf
<1>3. p[Len(p)] \in Names
  BY <1>1, ElementOfSeq
<1>4. ASSUME NEW q, q = SubSeq(p, 1, Len(p) - 1)
      PROVE  q \in Seq(Names) /\ Len(q) = Len(p) - 1 /\ \A i \in 1..(Len(p) - 1) : q[i] = p[i]
  <2>1. \A i \in 1..(Len(p) - 1) : p[i] \in Names
    BY <1>1, ElementOfSeq
  <2>2. /\ q \in Seq(Names)
        /\ Len(q) = IF 1 <= Len(p) - 1 THEN (Len(p) - 1) - 1 + 1 ELSE 0
        /\ \A i \in 1..((Len(p) - 1) - 1 + 1) : q[i] = p[1+i-1]
    BY <1>1, <1>4, <2>1, SubSeqProperties
  <2>3. Len(q) = Len(p) - 1
    <3>1. \A n \in Nat \ {0} : n - 1 = IF 1 <= n - 1 THEN (n - 1) - 1 + 1 ELSE 0
      OBVIOUS
    <3>2. QED
      BY <1>1, <2>2, <3>1, Zenon
  <2>4. ASSUME NEW i \in 1..(Len(p) - 1) PROVE q[i] = p[i]
    <3>1. i \in 1..((Len(p) - 1) - 1 + 1) /\ 1 + i - 1 = i
      BY <1>1
    <3>2. QED
      BY <2>2, <3>1
  <2>5. QED
    BY <2>2, <2>3, <2>4
<1>5. QED
  BY <1>1, <1>2, <1>3, <1>4

\* The path an operation is about is a path, and not the root's.
LEMMA ObjectType ==
    ASSUME IInv, PathInv, NEW c \in Clients, at[c] # "idle"
    PROVE  Object(c) \in Seq(Names) /\ Object(c) # <<>>
BY DEF IInv, TypeOK, PointInv, PathInv, Object

\* A lookup of the path that a way is of begins at its first step.
LEMMA WayBegins ==
    ASSUME NEW p \in Seq(Names), NEW q \in Seq(Names), NEW m \in 0..Len(p), Len(q) = m,
           \A i \in 1..m : q[i] = p[i], NEW w, w[0] = 0
    PROVE  0 \in 0..m /\ OnWay(0, q, w, p, 0, m)
<1>1. Len(p) \in Nat /\ m \in Nat
  BY LenProperties
<1>2. \A i \in 1..(m - 0) : q[i] = p[0+i]
  BY <1>1
<1>3. QED
  BY <1>1, <1>2 DEF OnWay

\* A way with no step yet.
LEMMA NoWay ==
    ASSUME NEW d, NEW p \in Seq(Names)
    PROVE  \E w : \E k \in 0..Len(p) : Leads(d, w, p, k) /\ OnWay(0, p, w, p, k, Len(p))
<1> DEFINE w == [i \in 0..Len(p) |-> 0]
<1>1. Len(p) \in Nat /\ Len(p) \in 0..Len(p) /\ 0 \in Fids
  BY LenProperties, MaxFidAssumption DEF Fids
<1>2. w \in [0..Len(p) -> Fids] /\ w[0] = 0
  BY <1>1
<1>3. 0 \in 0..Len(p) /\ OnWay(0, p, w, p, 0, Len(p))
  BY <1>1, <1>2, WayBegins
<1>4. Leads(d, w, p, 0)
  BY <1>2 DEF Leads
<1>5. QED
  BY <1>3, <1>4

\* One token of a lookup.
LEMMA WayGoesOn ==
    ASSUME NEW r \in Seq(Names), NEW f, NEW w, NEW p \in Seq(Names), NEW m \in 0..Len(p),
           NEW k \in 0..m, OnWay(f, r, w, p, k, m), r # <<>>
    PROVE  /\ k + 1 \in 0..m /\ Head(r) = p[k+1]
           /\ OnWay(w[k+1], Tail(r), w, p, k + 1, m)
<1>1. Len(p) \in Nat
  BY LenProperties
<1>2. /\ Len(r) \in Nat \ {0} /\ Head(r) = r[1]
      /\ Len(Tail(r)) = Len(r) - 1
      /\ \A i \in 1..(Len(r) - 1) : Tail(r)[i] = r[i+1]
  BY <1>1, EmptySeq, LenProperties, HeadTailProperties
<1>3. Len(r) = m - k /\ \A i \in 1..(m - k) : r[i] = p[k+i]
  BY DEF OnWay
<1>4. k \in Nat /\ m \in Nat /\ k < m
  BY <1>1, <1>2, <1>3
<1>5. Head(r) = p[k+1]
  BY <1>2, <1>3, <1>4
<1>6. \A i \in 1..(m - (k+1)) : Tail(r)[i] = p[k+1+i]
  <2> SUFFICES ASSUME NEW i \in 1..(m - (k+1)) PROVE Tail(r)[i] = p[k+1+i]
    OBVIOUS
  <2>1. i \in 1..(Len(r) - 1) /\ i + 1 \in 1..(m - k) /\ k + (i + 1) = k + 1 + i
    BY <1>3, <1>4
  <2>2. QED
    BY <1>2, <1>3, <2>1
<1>7. k + 1 \in 0..m /\ Len(Tail(r)) = m - (k+1)
  BY <1>2, <1>3, <1>4
<1>8. QED
  BY <1>1, <1>5, <1>6, <1>7 DEF OnWay

----------------------------------------------------------------------------
(* The way of the lookups.                                                 *)

\* One token of a lookup on its way: the way goes on,
LEMMA WalkWay ==
    ASSUME IInv, NEW c \in Clients, Walk(c), NEW p \in Seq(Names), TargetWay(c, p), cur'[c] # NoFid
    PROVE  TargetWay(c, p)'
<1>1. /\ rest[c] # <<>> /\ cur[c] \in Fids /\ dirent' = dirent
      /\ cur \in [Clients -> Fids \cup {NoFid}] /\ rest \in [Clients -> Seq(Names)]
  BY WalkFrom DEF Walk, Looking, IInv, TypeOK
<1>2. Len(p) \in Nat
  BY LenProperties
<1> DEFINE next == dirent[cur[c]][Head(rest[c])]
<1>3. next # Absent /\ cur'[c] = next /\ rest'[c] = Tail(rest[c])
  BY <1>1 DEF Walk
<1>4. next \in Fids
  <2>1. Head(rest[c]) \in Names
    BY <1>1, HeadTailProperties
  <2>2. next \in Fids \cup {NoFid, Absent}
    BY <1>1, <2>1 DEF IInv, TypeOK, Entries
  <2>3. QED
    BY <1>3, <2>2
<1>5. PICK w : \E k \in 0..Len(p) : Leads(dirent, w, p, k) /\ OnWay(cur[c], rest[c], w, p, k, Len(p))
  BY DEF TargetWay
<1>6. PICK k \in 0..Len(p) : Leads(dirent, w, p, k) /\ OnWay(cur[c], rest[c], w, p, k, Len(p))
  BY <1>5
<1>7. k + 1 \in 0..Len(p) /\ Head(rest[c]) = p[k+1] /\ cur[c] = w[k]
  BY <1>1, <1>2, <1>6, WayGoesOn DEF OnWay
<1> DEFINE v == [w EXCEPT ![k+1] = next]
<1>8. OnWay(cur[c], rest[c], v, p, k, Len(p)) /\ v[k+1] = next
  BY <1>2, <1>6, <1>7 DEF OnWay, Leads
<1>9. OnWay(next, Tail(rest[c]), v, p, k + 1, Len(p))
  <2> HIDE DEF v, next
  <2>1. OnWay(v[k+1], Tail(rest[c]), v, p, k + 1, Len(p))
    BY <1>1, <1>2, <1>6, <1>8, WayGoesOn
  <2>2. QED
    BY <1>8, <2>1
<1>10. Leads(dirent, v, p, k + 1)
  <2>1. v \in [0..Len(p) -> Fids] /\ v[0] = 0
    BY <1>2, <1>4, <1>6, <1>7 DEF Leads
  <2>2. ASSUME NEW i \in 1..(k+1) PROVE v[i] = dirent[v[i-1]][p[i]]
    <3>1. CASE i = k + 1
      BY <1>2, <1>6, <1>7, <3>1 DEF Leads
    <3>2. CASE i # k + 1
      <4>1. i \in 1..k /\ i - 1 \in 0..Len(p) /\ i \in 0..Len(p) /\ i - 1 # k + 1
        BY <1>2, <1>6, <3>2
      <4>2. QED
        BY <1>6, <3>2, <4>1 DEF Leads
    <3>3. QED
      BY <3>1, <3>2
  <2>3. QED
    BY <2>1, <2>2 DEF Leads
<1>11. QED
  BY <1>1, <1>3, <1>7, <1>9, <1>10 DEF TargetWay

\* A lookup of path p in the tree d finds no object, or finds f.
Lost(d, p) == \E w : \E k \in 1..Len(p) :
                 Leads(d, w, p, k - 1) /\ d[w[k-1]][p[k]] \in {Absent, NoFid}
Found(d, p, f) == \E w : Leads(d, w, p, Len(p)) /\ w[Len(p)] = f

\* or it ends there.
LEMMA WalkLost ==
    ASSUME IInv, NEW c \in Clients, Walk(c), NEW p \in Seq(Names), TargetWay(c, p), cur'[c] = NoFid
    PROVE  Lost(dirent, p)
<1>1. /\ rest[c] # <<>> /\ cur[c] \in Fids
      /\ cur \in [Clients -> Fids \cup {NoFid}] /\ rest[c] \in Seq(Names)
  BY WalkFrom DEF Walk, Looking, IInv, TypeOK
<1>2. Len(p) \in Nat
  BY LenProperties
<1>3. Head(rest[c]) \in Names
  BY <1>1, HeadTailProperties
<1>4. dirent[cur[c]][Head(rest[c])] \in {Absent, NoFid}
  BY <1>1, <1>3 DEF Walk
<1>5. PICK w : \E k \in 0..Len(p) : Leads(dirent, w, p, k) /\ OnWay(cur[c], rest[c], w, p, k, Len(p))
  BY DEF TargetWay
<1>6. PICK k \in 0..Len(p) : Leads(dirent, w, p, k) /\ OnWay(cur[c], rest[c], w, p, k, Len(p))
  BY <1>5
<1>7. k + 1 \in 0..Len(p) /\ Head(rest[c]) = p[k+1] /\ cur[c] = w[k]
  BY <1>1, <1>2, <1>6, WayGoesOn DEF OnWay
<1>8. k + 1 \in 1..Len(p) /\ (k + 1) - 1 = k
  BY <1>2, <1>6, <1>7
<1>9. Leads(dirent, w, p, (k + 1) - 1) /\ dirent[w[(k + 1) - 1]][p[k+1]] \in {Absent, NoFid}
  BY <1>4, <1>6, <1>7, <1>8
<1>10. QED
  BY <1>8, <1>9 DEF Lost

\* A lookup that has returned has found the object.
LEMMA WayEnds ==
    ASSUME NEW c \in Clients, NEW p \in Seq(Names), TargetWay(c, p), rest[c] = <<>>
    PROVE  Found(dirent, p, cur[c])
<1>1. PICK w : \E k \in 0..Len(p) : Leads(dirent, w, p, k) /\ OnWay(cur[c], <<>>, w, p, k, Len(p))
  BY DEF TargetWay
<1>2. PICK k \in 0..Len(p) : Leads(dirent, w, p, k) /\ OnWay(cur[c], <<>>, w, p, k, Len(p))
  BY <1>1
<1>3. k = Len(p)
  <2>1. Len(p) \in Nat /\ 0 = Len(p) - k
    BY <1>2, LenProperties, EmptySeq DEF OnWay
  <2>2. QED
    BY <2>1
<1>4. QED
  BY <1>2, <1>3 DEF OnWay, Found

\* No command is given the root's path.
LEMMA PathStep == ASSUME OneClient, IInv, PathInv, [Next]_vars PROVE PathInv'
<1> USE DEF IInv, TypeOK, PointInv, PathInv
<1>0. <<>> # NoPath
  BY DEF NoPath
<1>1. ASSUME NEW c \in Clients, NEW p \in Paths, NEW command, Begin(c, command, p) PROVE PathInv'
  BY <1>1 DEF Begin, LookUp, OneClient
<1>2. ASSUME NEW c \in Clients, NEW p \in Paths, BeginRnto(c, p) PROVE PathInv'
  BY <1>2 DEF BeginRnto, LookUp, OneClient
<1>3. ASSUME NEW c \in Clients, NEW p \in Paths, BeginStor(c, p) PROVE PathInv'
  BY <1>3 DEF BeginStor, OneClient
<1>4. ASSUME NEW c \in Clients, Walk(c) PROVE PathInv'
  BY <1>4 DEF Walk
<1>5. ASSUME NEW c \in Clients, Exists(c) PROVE PathInv'
  BY <1>5 DEF Exists, Returned, LookUp, Done
<1>6. ASSUME NEW c \in Clients, Fails(c) PROVE PathInv'
  BY <1>0, <1>6 DEF Fails, Returned, Done
<1>7. ASSUME NEW c \in Clients, Incr(c) PROVE PathInv'
  BY <1>7 DEF Incr, LookUp
<1>8. ASSUME NEW c \in Clients, Target(c) PROVE PathInv'
  BY <1>8 DEF Target, Returned, LookUp, Done
<1>9. ASSUME NEW c \in Clients, MkdirExec(c) \/ SaveExec(c) \/ RemoveExec(c) PROVE PathInv'
  <2>1. /\ UNCHANGED from
        /\ at' = [at EXCEPT ![c] = "idle"] /\ cmd' = [cmd EXCEPT ![c] = "none"]
        /\ path' = [path EXCEPT ![c] = <<>>]
    BY <1>9 DEF MkdirExec, SaveExec, RemoveExec, Done
  <2>2. at'[c] = "idle" /\ \A d \in Clients \ {c} : at'[d] = at[d] /\ path'[d] = path[d] /\ cmd'[d] = cmd[d]
    BY <2>1
  <2>3. QED
    BY <2>1, <2>2
<1>10. ASSUME NEW c \in Clients, OldParent(c) PROVE PathInv'
  BY <1>10 DEF OldParent, Returned, LookUp
<1>11. ASSUME NEW c \in Clients, RenameExec(c) PROVE PathInv'
  BY <1>0, <1>11 DEF RenameExec, Done
<1>12. ASSUME NEW c \in Clients, RetrieveFid(c) PROVE PathInv'
  BY <1>12 DEF RetrieveFid, Returned, LookUp
<1>13. ASSUME NEW c \in Clients, RetrieveSlave(c) PROVE PathInv'
  BY <1>13 DEF RetrieveSlave, Done
<1>14. ASSUME NEW c \in Clients, Stored(c) PROVE PathInv'
  BY <1>14 DEF Stored, LookUp, Done
<1>15. CASE UNCHANGED vars
  BY <1>15 DEF vars
<1>16. QED
  BY <1>1, <1>2, <1>3, <1>4, <1>5, <1>6, <1>7, <1>8, <1>9, <1>10, <1>11, <1>12,
     <1>13, <1>14, <1>15
     DEF Next, Command, Operation, Spin

\* The lookups of an operation go the same way, as nobody else changes the
\* tree meanwhile.
LEMMA WayStep ==
    ASSUME OneClient, IInv, PathInv, WayInv, IInv', PathInv', [Next]_vars PROVE WayInv'
<1> SUFFICES ASSUME NEW c \in Clients,
                    Command(c) \/ Operation(c) \/ Stored(c) \/ UNCHANGED vars
             PROVE  Way(c)'
  BY DEF OneClient, WayInv, Next
<1>0. /\ at \in [Clients -> Lookups \cup {"idle", "incr", "store"}]
      /\ path[c] \in Seq(Names) /\ rest[c] \in Seq(Names) /\ <<>> \in Seq(Names)
      /\ cmd \in [Clients -> Commands] /\ path \in [Clients -> Seq(Names)]
      /\ fid \in [Clients -> Fids \cup {NoFid}] /\ cur \in [Clients -> Fids \cup {NoFid}]
      /\ rest \in [Clients -> Seq(Names)] /\ oldparent \in [Clients -> Fids \cup {NoFid}]
  BY EmptySeq DEF IInv, TypeOK
<1>1. Way(c)
  BY DEF WayInv
<1>2. at[c] # "idle" => Object(c) \in Seq(Names) /\ Object(c) # <<>>
  BY ObjectType
<1>3. ASSUME at'[c] \in {"idle", "incr", "store", "exists"} PROVE Way(c)'
  BY <1>3 DEF Way
<1>4. ASSUME NEW p \in Paths, NEW command, Begin(c, command, p) PROVE Way(c)'
  BY <1>0, <1>3, <1>4 DEF Begin, LookUp
<1>5. ASSUME NEW p \in Paths, BeginRnto(c, p) PROVE Way(c)'
  <2>1. PICK q \in Seq(Names) : q = from[c]
    BY <1>5 DEF BeginRnto, IInv, TypeOK
  <2>2. /\ at'[c] = "target" /\ cur'[c] = 0 /\ rest'[c] = q /\ Object(c)' = q
    BY <1>0, <1>5, <2>1 DEF BeginRnto, LookUp, Object
  <2>3. TargetWay(c, q)'
    BY <2>2, NoWay DEF TargetWay
  <2>4. QED
    BY <2>2, <2>3 DEF Way
<1>6. ASSUME NEW p \in Paths, BeginStor(c, p) PROVE Way(c)'
  BY <1>0, <1>3, <1>6 DEF BeginStor
\* The path of the operation under way, and where its last lookup has come.
<1>p. ASSUME at[c] # "idle"
      PROVE  \E p \in Seq(Names) : p # <<>> /\ p = Object(c)
  BY <1>2, <1>p
<1>7. ASSUME Walk(c) PROVE Way(c)'
  <2>1. /\ at[c] # "idle" /\ rest[c] # <<>> /\ cur[c] \in Fids /\ dirent' = dirent
        /\ UNCHANGED <<at, cmd, path, from, fid, oldparent>>
    BY <1>7, WalkFrom DEF Walk, Looking, IInv
  <2>2. PICK p \in Seq(Names) : p # <<>> /\ p = Object(c) /\ p = Object(c)'
    BY <1>p, <2>1 DEF Object
  <2>3. Len(p) \in Nat \ {0}
    BY <2>2, ParentParts
  <2> DEFINE next == dirent[cur[c]][Head(rest[c])]
  <2>4. /\ next # Absent => cur'[c] = next /\ rest'[c] = Tail(rest[c])
        /\ next = Absent => cur'[c] = NoFid
    BY <1>0, <1>7 DEF Walk
  <2>6. CASE at[c] = "target"
    <3>1. TargetWay(c, p)
      BY <1>1, <2>1, <2>2, <2>6, MaxFidAssumption DEF Way, Fids
    <3>2. cur'[c] # NoFid => TargetWay(c, p)'
      BY <1>7, <3>1, WalkWay
    <3>3. QED
      BY <2>1, <2>2, <2>6, <3>2 DEF Way
  <2>7. CASE at[c] \in {"parent", "newparent"} /\ cmd[c] \in {"RMD", "DELE", "RNTO"}
    <3>0. PICK w : \E k \in 0..(Len(p) - 1) :
            /\ Leads(dirent, w, p, Len(p)) /\ w[Len(p)] = fid[c]
            /\ OnWay(cur[c], rest[c], w, p, k, Len(p) - 1)
            /\ at[c] = "newparent" => oldparent[c] = w[Len(p) - 1]
      BY <1>1, <2>2, <2>7 DEF Way, ParentWay
    <3>1. PICK k \in 0..(Len(p) - 1) :
            /\ Leads(dirent, w, p, Len(p)) /\ w[Len(p)] = fid[c]
            /\ OnWay(cur[c], rest[c], w, p, k, Len(p) - 1)
            /\ at[c] = "newparent" => oldparent[c] = w[Len(p) - 1]
      BY <3>0
    <3>2. Len(p) - 1 \in 0..Len(p)
      BY <2>3
    <3>3. /\ k + 1 \in 0..(Len(p) - 1) /\ Head(rest[c]) = p[k+1] /\ cur[c] = w[k]
          /\ OnWay(w[k+1], Tail(rest[c]), w, p, k + 1, Len(p) - 1)
      BY <1>0, <2>1, <3>1, <3>2, WayGoesOn DEF OnWay
    <3>4. next = w[k+1] /\ next \in Fids
      <4>1. k + 1 \in 1..Len(p) /\ (k + 1) - 1 = k /\ k + 1 \in 0..Len(p)
        BY <2>3, <3>1, <3>3
      <4>2. QED
        BY <3>1, <3>3, <4>1 DEF Leads
    <3>5. cur'[c] = w[k+1] /\ rest'[c] = Tail(rest[c])
      BY <2>4, <3>4 DEF Fids
    <3>6. ParentWay(c, p)'
      BY <2>1, <3>1, <3>3, <3>5 DEF ParentWay
    <3>7. QED
      BY <2>1, <2>2, <2>7, <3>6 DEF Way
  <2>8. CASE at[c] = "slave"
    <3>0. PICK w : \E k \in 0..Len(p) :
            /\ Leads(dirent, w, p, Len(p)) /\ w[Len(p)] = fid[c]
            /\ OnWay(cur[c], rest[c], w, p, k, Len(p))
      BY <1>1, <2>2, <2>8 DEF Way, SlaveWay
    <3>1. PICK k \in 0..Len(p) :
            /\ Leads(dirent, w, p, Len(p)) /\ w[Len(p)] = fid[c]
            /\ OnWay(cur[c], rest[c], w, p, k, Len(p))
      BY <3>0
    <3>2. /\ k + 1 \in 0..Len(p) /\ Head(rest[c]) = p[k+1] /\ cur[c] = w[k]
          /\ OnWay(w[k+1], Tail(rest[c]), w, p, k + 1, Len(p))
      BY <1>0, <2>1, <2>3, <3>1, WayGoesOn DEF OnWay
    <3>3. next = w[k+1] /\ next \in Fids
      <4>1. k + 1 \in 1..Len(p) /\ (k + 1) - 1 = k
        BY <2>3, <3>1, <3>2
      <4>2. QED
        BY <3>1, <3>2, <4>1 DEF Leads
    <3>4. cur'[c] = w[k+1] /\ rest'[c] = Tail(rest[c])
      BY <2>4, <3>3 DEF Fids
    <3>5. SlaveWay(c, p)'
      BY <2>1, <3>1, <3>2, <3>4 DEF SlaveWay
    <3>6. QED
      BY <2>1, <2>2, <2>8, <3>5 DEF Way
  <2>9. QED
    BY <2>1, <2>6, <2>7, <2>8 DEF Way
<1>8. ASSUME UNCHANGED vars PROVE Way(c)'
  BY <1>1, <1>8 DEF vars, Way, TargetWay, ParentWay, SlaveWay, Object
<1>9. ASSUME Exists(c) PROVE Way(c)'
  <2>1. CASE LookUp(c, "target", path[c]) /\ UNCHANGED <<cmd, path, from, fid, oldparent>>
             /\ cmd[c] \in {"RMD", "DELE", "RETR"}
    <3>1. PICK p \in Seq(Names) : p = path[c]
      BY <1>0
    <3>2. at'[c] = "target" /\ cur'[c] = 0 /\ rest'[c] = p /\ Object(c)' = p
      BY <1>0, <2>1, <3>1 DEF LookUp, Object
    <3>3. TargetWay(c, p)'
      BY <3>2, NoWay DEF TargetWay
    <3>4. QED
      BY <3>2, <3>3 DEF Way
  <2>2. CASE at'[c] \in {"idle", "incr"}
    BY <1>3, <2>2
  <2>3. QED
    BY <1>0, <1>9, <2>1, <2>2 DEF Exists, Done
<1>10. ASSUME \/ Fails(c) \/ MkdirExec(c) \/ SaveExec(c) \/ RemoveExec(c) \/ RenameExec(c)
              \/ RetrieveSlave(c)
       PROVE  Way(c)'
  BY <1>0, <1>3, <1>10 DEF Fails, MkdirExec, SaveExec, RemoveExec, RenameExec, RetrieveSlave, Done
<1>11. ASSUME Incr(c) PROVE Way(c)'
  BY <1>0, <1>3, <1>11 DEF Incr, LookUp, Way
<1>12. ASSUME Stored(c) PROVE Way(c)'
  <2>1. cmd[c] \in {"MKD", "STOR"}
    BY <1>12 DEF Stored, IInv, PointInv
  <2>2. QED
    BY <1>0, <1>3, <1>12, <2>1 DEF Stored, LookUp, Done, Way
\* Where the first lookup has come when it returns.
<1>13. ASSUME Returned(c, "target"), cur[c] # NoFid
       PROVE  \E p \in Seq(Names) : p # <<>> /\ p = Object(c)
                  /\ \E w : Leads(dirent, w, p, Len(p)) /\ w[Len(p)] = cur[c]
  <2>1. PICK p \in Seq(Names) : p # <<>> /\ p = Object(c)
    BY <1>p, <1>13 DEF Returned
  <2>2. TargetWay(c, p) /\ rest[c] = <<>>
    BY <1>1, <1>13, <2>1 DEF Way, Returned
  <2>3. QED
    BY <2>1, <2>2, WayEnds DEF Found
<1>14. ASSUME Target(c) PROVE Way(c)'
  <2> SUFFICES ASSUME fid' = [fid EXCEPT ![c] = cur[c]], UNCHANGED <<cmd, path, oldparent>>,
                      LookUp(c, "parent", ParentOf(IF cmd[c] = "RNTO" THEN from[c] ELSE path[c]))
               PROVE  Way(c)'
    BY <1>0, <1>3, <1>14 DEF Target, Done
  <2>1. /\ at[c] # "idle" /\ cur[c] # NoFid /\ dirent' = dirent /\ from' = from
        /\ at'[c] = "parent" /\ cur'[c] = 0 /\ fid'[c] = cur[c] /\ cmd'[c] = cmd[c]
        /\ rest'[c] = ParentOf(Object(c)) /\ Object(c)' = Object(c)
    BY <1>0, <1>14 DEF Target, Returned, LookUp, Object
  <2>2. PICK p \in Seq(Names) : p # <<>> /\ p = Object(c)
             /\ \E w : Leads(dirent, w, p, Len(p)) /\ w[Len(p)] = cur[c]
    BY <1>13, <1>14 DEF Target
  <2>3. PICK w : Leads(dirent, w, p, Len(p)) /\ w[Len(p)] = cur[c]
    BY <2>2
  <2>4. PICK q \in Seq(Names) : q = ParentOf(p)
    BY <2>2, ParentParts
  <2>5. /\ Len(p) \in Nat \ {0} /\ Len(q) = Len(p) - 1
        /\ \A i \in 1..(Len(p) - 1) : q[i] = p[i]
    BY <2>2, <2>4, ParentParts
  <2>6. 0 \in 0..(Len(p) - 1) /\ OnWay(0, q, w, p, 0, Len(p) - 1)
    <3>1. Len(p) - 1 \in 0..Len(p) /\ w[0] = 0
      BY <2>3, <2>5 DEF Leads
    <3>2. QED
      BY <2>5, <3>1, WayBegins
  <2>7. ParentWay(c, p)'
    BY <2>1, <2>2, <2>3, <2>4, <2>6 DEF ParentWay
  <2>8. QED
    BY <2>1, <2>2, <2>7 DEF Way
<1>15. ASSUME OldParent(c) PROVE Way(c)'
  <2>1. /\ at[c] = "parent" /\ cmd[c] = "RNTO" /\ rest[c] = <<>> /\ dirent' = dirent
        /\ at'[c] = "newparent" /\ cur'[c] = 0 /\ fid'[c] = fid[c] /\ cmd'[c] = cmd[c]
        /\ oldparent'[c] = cur[c] /\ rest'[c] = ParentOf(Object(c)) /\ Object(c)' = Object(c)
    BY <1>0, <1>15 DEF OldParent, Returned, LookUp, Object
  <2>2. PICK p \in Seq(Names) : p # <<>> /\ p = Object(c)
    BY <1>p, <2>1
  <2>3. PICK w : \E k \in 0..(Len(p) - 1) :
            /\ Leads(dirent, w, p, Len(p)) /\ w[Len(p)] = fid[c]
            /\ OnWay(cur[c], <<>>, w, p, k, Len(p) - 1)
    BY <1>1, <2>1, <2>2 DEF Way, ParentWay
  <2>4. PICK q \in Seq(Names) : q = ParentOf(p)
    BY <2>2, ParentParts
  <2>5. /\ Len(p) \in Nat \ {0} /\ Len(q) = Len(p) - 1
        /\ \A i \in 1..(Len(p) - 1) : q[i] = p[i]
    BY <2>2, <2>4, ParentParts
  <2>6. cur[c] = w[Len(p) - 1]
    BY <2>3, <2>5, EmptySeq DEF OnWay
  <2>7. 0 \in 0..(Len(p) - 1) /\ OnWay(0, q, w, p, 0, Len(p) - 1)
    <3>1. Len(p) - 1 \in 0..Len(p) /\ w[0] = 0
      BY <2>3, <2>5 DEF Leads
    <3>2. QED
      BY <2>5, <3>1, WayBegins
  <2>8. ParentWay(c, p)'
    BY <2>1, <2>2, <2>3, <2>4, <2>6, <2>7 DEF ParentWay
  <2>9. QED
    BY <2>1, <2>2, <2>8 DEF Way
<1>16. ASSUME RetrieveFid(c) PROVE Way(c)'
  <2>1. /\ at[c] # "idle" /\ cur[c] # NoFid /\ dirent' = dirent
        /\ at'[c] = "slave" /\ cur'[c] = 0 /\ fid'[c] = cur[c]
        /\ rest'[c] = Object(c) /\ Object(c)' = Object(c)
    BY <1>0, <1>16 DEF RetrieveFid, Returned, LookUp, Object
  <2>2. PICK p \in Seq(Names) : p # <<>> /\ p = Object(c)
             /\ \E w : Leads(dirent, w, p, Len(p)) /\ w[Len(p)] = cur[c]
    BY <1>13, <1>16 DEF RetrieveFid
  <2>3. PICK w : Leads(dirent, w, p, Len(p)) /\ w[Len(p)] = cur[c]
    BY <2>2
  <2>4. 0 \in 0..Len(p) /\ OnWay(0, p, w, p, 0, Len(p))
    <3>1. Len(p) \in 0..Len(p) /\ w[0] = 0
      BY <2>3, LenProperties DEF Leads
    <3>2. QED
      BY <3>1, WayBegins
  <2>5. SlaveWay(c, p)'
    BY <2>1, <2>2, <2>3, <2>4 DEF SlaveWay
  <2>6. QED
    BY <2>1, <2>2, <2>5 DEF Way
<1>17. QED
  BY <1>4, <1>5, <1>6, <1>7, <1>8, <1>9, <1>10, <1>11, <1>12, <1>14, <1>15, <1>16
     DEF Command, Operation, Spin

----------------------------------------------------------------------------
(* The tree.                                                               *)

\* When an operation has looked its parent directory up, it holds the object
\* that the directory's entry names.
LEMMA EntryFound ==
    ASSUME IInv, PathInv, WayInv, NEW c \in Clients, at[c] \in {"parent", "newparent"},
           cmd[c] \in {"RMD", "DELE", "RNTO"}, rest[c] = <<>>
    PROVE  /\ EntryOf(Object(c)) \in Names
           /\ dirent[cur[c]][EntryOf(Object(c))] = fid[c]
           /\ at[c] = "newparent" => oldparent[c] = cur[c]
<1>1. PICK p \in Seq(Names) : p # <<>> /\ p = Object(c)
  BY ObjectType
<1>2. Len(p) \in Nat \ {0} /\ EntryOf(p) = p[Len(p)] /\ EntryOf(p) \in Names
  BY <1>1, ParentParts
<1>3. PICK w : \E k \in 0..(Len(p) - 1) :
          /\ Leads(dirent, w, p, Len(p)) /\ w[Len(p)] = fid[c]
          /\ OnWay(cur[c], <<>>, w, p, k, Len(p) - 1)
          /\ at[c] = "newparent" => oldparent[c] = w[Len(p) - 1]
  BY <1>1 DEF WayInv, Way, ParentWay
<1>4. cur[c] = w[Len(p) - 1]
  <2>1. PICK k \in 0..(Len(p) - 1) : cur[c] = w[k] /\ 0 = (Len(p) - 1) - k
    BY <1>3, EmptySeq DEF OnWay
  <2>2. k = Len(p) - 1
    BY <1>2, <2>1
  <2>3. QED
    BY <2>1, <2>2
<1>5. w[Len(p)] = dirent[w[Len(p) - 1]][p[Len(p)]]
  BY <1>2, <1>3 DEF Leads
<1>6. QED
  BY <1>1, <1>2, <1>3, <1>4, <1>5

\* An EXEC links a new object or one it has just unlinked, and unlinks the one
\* whose stat it deletes.
LEMMA LinkStep ==
    ASSUME OneClient, IInv, PathInv, WayInv, LinkInv, TypeOK', [Next]_vars PROVE LinkInv'
<1> USE MaxFidAssumption
<1> USE DEF LinkInv, NoDanglingEntry, SingleLink
<1>0. TypeOK /\ PointInv /\ CreatingInv
  BY DEF IInv
<1>1. ASSUME NEW c \in Clients, MkdirExec(c) \/ SaveExec(c) PROVE LinkInv'
  <2> DEFINE name == EntryOf(path[c])
  <2>1. name \in Entries /\ Placeholder \in Entries
    BY <1>0, Parts DEF PartsOK, Entries
  <2>2. cur[c] \in Fids /\ Creating(c)
    BY <1>0, <1>1 DEF MkdirExec, SaveExec, Returned, TypeOK, Creating
  <2>3. /\ fid[c] \in Fids /\ fid[c] # 0
        /\ \A f \in Fids, n \in Entries : dirent[f][n] # fid[c]
    BY <1>0, <1>1 , <2>2 DEF CreatingInv, PointInv, Creating
  <2> HIDE DEF name
  <2>4. /\ \/ dirent' = [dirent EXCEPT ![cur[c]][name] = fid[c]]
           \/ dirent' = [dirent EXCEPT ![cur[c]][name] = fid[c], ![fid[c]][Placeholder] = NoFid]
        /\ stat' = [stat EXCEPT ![fid[c]] = "dir"] \/ stat' = [stat EXCEPT ![fid[c]] = "file"]
    BY <1>1 DEF MkdirExec, SaveExec, name
  <2>5. \A f \in Fids, n \in Entries :
            \/ f = cur[c] /\ n = name /\ dirent'[f][n] = fid[c]
            \/ dirent'[f][n] = NoFid
            \/ ~(f = cur[c] /\ n = name) /\ dirent'[f][n] = dirent[f][n]
    BY <1>0, <2>1, <2>2, <2>3, <2>4 DEF TypeOK
  <2>6. \A f \in Fids : stat'[f] = stat[f] \/ stat'[f] # "none"
    BY <1>0, <2>3, <2>4 DEF TypeOK
  <2>7. stat'[fid[c]] # "none"
    BY <1>0, <2>3, <2>4 DEF TypeOK
  <2>8. NoFid \notin Fids
    BY DEF Fids
  <2>9. NoDanglingEntry'
    BY <2>5, <2>6, <2>7, <2>8
  <2>10. SingleLink'
    BY <2>3, <2>5, <2>8
  <2>11. \A f \in Fids, n \in Entries : dirent'[f][n] # 0
    BY <2>3, <2>5
  <2>12. QED
    BY <2>9, <2>10, <2>11
<1>2. ASSUME NEW c \in Clients, RemoveExec(c) PROVE LinkInv'
  <2> DEFINE name == EntryOf(path[c])
  <2>1. /\ cur[c] \in Fids /\ fid[c] \in Fids /\ name \in Entries /\ dirent[cur[c]][name] = fid[c]
    <3>1. cur[c] \in Fids /\ fid[c] \in Fids
      BY <1>0, <1>2 DEF RemoveExec, Returned, TypeOK, PointInv
    <3>2. name \in Names /\ dirent[cur[c]][name] = fid[c]
      BY <1>2, EntryFound DEF RemoveExec, Returned, Object
    <3>3. QED
      BY <3>1, <3>2 DEF Entries
  <2> HIDE DEF name
  <2>2. /\ dirent' = [dirent EXCEPT ![cur[c]][name] = Absent]
        /\ stat' = [stat EXCEPT ![fid[c]] = "none"]
    BY <1>2 DEF RemoveExec, name
  <2>3. \A f \in Fids, n \in Entries :
            dirent'[f][n] = IF f = cur[c] /\ n = name THEN Absent ELSE dirent[f][n]
    BY <1>0, <2>1, <2>2 DEF TypeOK
  <2>4. \A f \in Fids : stat'[f] = IF f = fid[c] THEN "none" ELSE stat[f]
    BY <1>0, <2>1, <2>2 DEF TypeOK
  <2>5. Absent \notin Fids /\ Absent # 0
    BY DEF Absent, Fids
  <2>6. SingleLink'
    BY <1>0, <2>1, <2>3, <2>5
  <2>7. NoDanglingEntry'
    BY <1>0, <2>1, <2>3, <2>4, <2>5
  <2>8. \A f \in Fids, n \in Entries : dirent'[f][n] # 0
    BY <1>0, <2>3, <2>5
  <2>9. QED
    BY <2>6, <2>7, <2>8
<1>3. ASSUME NEW c \in Clients, RenameExec(c) PROVE LinkInv'
  <2> DEFINE old == EntryOf(from[c])
             new == EntryOf(path[c])
  <2>1. /\ cur[c] \in Fids /\ fid[c] \in Fids /\ oldparent[c] = cur[c]
        /\ old \in Entries /\ new \in Entries /\ dirent[cur[c]][old] = fid[c]
    <3>1. cur[c] \in Fids /\ fid[c] \in Fids /\ cmd[c] = "RNTO"
      BY <1>0, <1>3 DEF RenameExec, Returned, TypeOK, PointInv
    <3>2. oldparent[c] = cur[c] /\ old \in Names /\ dirent[cur[c]][old] = fid[c]
      BY <1>3, <3>1, EntryFound DEF RenameExec, Returned, Object
    <3>3. new \in Names \cup {NoName}
      BY <1>0, Parts DEF PartsOK
    <3>4. QED
      BY <3>1, <3>2, <3>3 DEF Entries
  <2> HIDE DEF old, new
  <2>2. /\ dirent' = [[dirent EXCEPT ![cur[c]][old] = Absent] EXCEPT ![cur[c]][new] = fid[c]]
        /\ stat' = stat
    BY <1>3, <2>1 DEF RenameExec, old, new
  <2>3. \A f \in Fids, n \in Entries :
            dirent'[f][n] = IF f = cur[c] /\ n = new THEN fid[c]
                            ELSE IF f = cur[c] /\ n = old THEN Absent ELSE dirent[f][n]
    BY <1>0, <2>1, <2>2 DEF TypeOK
  <2>4. Absent \notin Fids
    BY DEF Fids
  <2>5. stat[fid[c]] # "none"
    BY <2>1
  <2>6. ASSUME NEW f \in Fids, NEW n \in Entries, dirent'[f][n] \in Fids
        PROVE  stat'[dirent'[f][n]] # "none"
    <3>1. CASE f = cur[c] /\ n = new
      <4>1. dirent'[f][n] = fid[c]
        BY <2>3, <3>1
      <4>2. stat' = stat
        BY <2>2
      <4>3. QED
        BY <2>5, <4>1, <4>2
    <3>2. CASE ~(f = cur[c] /\ n = new)
      <4>1. dirent'[f][n] = dirent[f][n]
        BY <2>3, <2>4, <2>6, <3>2
      <4>2. QED
        BY <2>2, <2>6, <4>1
    <3>3. QED
      BY <3>1, <3>2
  <2>7. SingleLink'
    BY <2>1, <2>3, <2>4
  <2>8. \A f \in Fids, n \in Entries : dirent'[f][n] # 0
    BY <2>1, <2>3
  <2>9. QED
    BY <2>6, <2>7, <2>8
<1>4. ASSUME UNCHANGED <<stat, dirent>> PROVE LinkInv'
  BY <1>4
<1>5. QED
  <2>1. SUFFICES ASSUME NEW c \in Clients, Command(c) \/ Operation(c) \/ Stored(c),
                        ~(MkdirExec(c) \/ SaveExec(c) \/ RemoveExec(c) \/ RenameExec(c))
                 PROVE  UNCHANGED <<stat, dirent>>
    BY <1>1, <1>2, <1>3, <1>4 DEF Next, vars
  <2>2. ASSUME Command(c) PROVE UNCHANGED <<stat, dirent>>
    BY <2>2 DEF Command, Begin, BeginRnto, BeginStor
  <2>3. ASSUME Operation(c) PROVE UNCHANGED <<stat, dirent>>
    BY <2>1, <2>3 DEF Operation, Walk, Spin, Exists, Fails, Incr, Target, OldParent, RetrieveFid,
                      RetrieveSlave, vars
  <2>4. QED
    BY <2>1, <2>2, <2>3 DEF Stored

----------------------------------------------------------------------------
(* The theorems.                                                           *)

OneInv == PathInv /\ WayInv /\ LinkInv

\* The strengthening for a single client is inductive.
THEOREM OneInvariance == ASSUME OneClient PROVE Spec => []OneInv
<1>1. Init => OneInv
  <2> SUFFICES ASSUME Init PROVE OneInv
    OBVIOUS
  <2>1. PathInv /\ WayInv
    BY DEF Init, PathInv, WayInv, Way, NoPath
  <2>2. \A f \in Fids, n \in Entries : dirent[f][n] \in {NoFid, Absent}
    BY DEF Init
  <2>3. LinkInv
    BY <2>2, MaxFidAssumption DEF LinkInv, NoDanglingEntry, SingleLink, Fids
  <2>4. QED
    BY <2>1, <2>3 DEF OneInv
<1>2. IInv /\ OneInv /\ [Next]_vars /\ IInv' => OneInv'
  <2> SUFFICES ASSUME IInv, PathInv, WayInv, LinkInv, [Next]_vars, IInv'
               PROVE  PathInv' /\ WayInv' /\ LinkInv'
    BY DEF OneInv
  <2>1. PathInv'
    BY PathStep
  <2>2. WayInv'
    BY <2>1, WayStep
  <2>3. LinkInv'
    BY LinkStep DEF IInv
  <2>4. QED
    BY <2>1, <2>2, <2>3
<1>3. QED
  BY <1>1, <1>2, Invariance, PTL DEF Spec

\* With a single client no entry of a directory is left without its object.
THEOREM NothingDangles == ASSUME OneClient PROVE Spec => []NoDanglingEntry
<1>1. OneInv => NoDanglingEntry
  BY DEF OneInv, LinkInv
<1>2. QED
  BY <1>1, OneInvariance, PTL

\* With a single client every object has one name.
THEOREM OneName == ASSUME OneClient PROVE Spec => []SingleLink
<1>1. OneInv => SingleLink
  BY DEF OneInv, LinkInv
<1>2. QED
  BY <1>1, OneInvariance, PTL

\* With a single client RETR's two lookups find the same file.
THEOREM SlaveFound == ASSUME OneClient PROVE Spec => []SlaveOfSameFile
<1>1. IInv /\ OneInv => SlaveOfSameFile
  <2> SUFFICES ASSUME IInv, OneInv, NEW c \in Clients, Returned(c, "slave") PROVE cur[c] = fid[c]
    BY DEF SlaveOfSameFile
  <2>1. PICK p \in Seq(Names) : p # <<>> /\ p = Object(c)
    BY ObjectType DEF OneInv, Returned
  <2>2. PICK w : \E k \in 0..Len(p) :
            w[Len(p)] = fid[c] /\ OnWay(cur[c], <<>>, w, p, k, Len(p))
    BY <2>1 DEF OneInv, WayInv, Way, SlaveWay, Returned
  <2>3. QED
    BY <2>1, <2>2, LenProperties, EmptySeq DEF OnWay
<1>2. QED
  BY <1>1, Invariance, OneInvariance, PTL

----------------------------------------------------------------------------
(* The commands are atomic: what an EXEC does to the tree is what the       *)
(* command would do at that instant.  AtomicVfs resolves a path by a        *)
(* recursive function, which finds what a way leads to.                    *)

Trees == [Fids -> [Entries -> Fids \cup {NoFid, Absent}]]

\* What one step of that function gives, and that r is it, for the path p in
\* the tree d.
Reached(d, p, r, i) ==
    IF i = 0 THEN 0
    ELSE IF r[i-1] = NoFid \/ d[r[i-1]][p[i]] = Absent THEN NoFid
    ELSE d[r[i-1]][p[i]]

Reaches(d, p, r) == r = [i \in 0..Len(p) |-> Reached(d, p, r, i)]

\* There is one.
LEMMA ReachExists ==
    ASSUME NEW d \in Trees, NEW p \in Seq(Names)
    PROVE  \E r : Reaches(d, p, r)
<1> DEFINE n == Len(p)
           S == Fids \cup {NoFid}
           Next1(x) == IF x[1] = NoFid \/ d[x[1]][p[x[2]]] = Absent THEN NoFid ELSE d[x[1]][p[x[2]]]
<1>1. n \in Nat /\ 0 \in S
  BY LenProperties, MaxFidAssumption DEF Fids
<1>2. \A i \in 1..n : p[i] \in Names
  BY <1>1, ElementOfSeq
<1>3. ASSUME NEW x \in S \X (1..n) PROVE Next1(x) \in S
  <2>1. x[1] \in S /\ x[2] \in 1..n /\ p[x[2]] \in Entries
    BY <1>2 DEF Entries
  <2>2. CASE x[1] = NoFid
    BY <2>2
  <2>3. CASE x[1] # NoFid
    <3>1. x[1] \in Fids
      BY <2>1, <2>3
    <3>2. d[x[1]][p[x[2]]] \in Fids \cup {NoFid, Absent}
      BY <2>1, <3>1 DEF Trees
    <3>3. QED
      BY <3>2
  <2>4. QED
    BY <2>2, <2>3
<1> DEFINE step == [x \in S \X (1..n) |-> Next1(x)]
<1>4. step \in Steps(S, n)
  <2> HIDE DEF Next1, S, n
  <2>1. QED
    BY <1>3 DEF Steps
<1>5. PICK r : r \in Defined(S, n, 0, step)
  <2> HIDE DEF step, S, n
  <2>1. QED
    BY <1>1, <1>4, BoundedRecursion
<1>6. r \in [0..n -> S] /\ r[0] = 0 /\ \A i \in 1..n : r[i] = step[<<r[i-1], i>>]
  <2> HIDE DEF step, S, n
  <2>1. QED
    BY <1>5 DEF Defined
<1>7. ASSUME NEW i \in 1..n
      PROVE  r[i] = IF r[i-1] = NoFid \/ d[r[i-1]][p[i]] = Absent THEN NoFid ELSE d[r[i-1]][p[i]]
  <2>1. i - 1 \in 0..n
    BY <1>1
  <2>2. <<r[i-1], i>> \in S \X (1..n)
    BY <1>6, <2>1
  <2>3. r[i] = Next1(<<r[i-1], i>>)
    <3> HIDE DEF Next1, S, n
    <3>1. QED
      BY <1>6, <2>2
  <2>4. QED
    BY <2>3
<1>8. r = [i \in 0..n |-> r[i]]
  BY <1>6
<1>9. \A i \in 0..n : i = 0 \/ i \in 1..n
  BY <1>1
<1>10. Reaches(d, p, r)
  BY <1>6, <1>7, <1>8, <1>9 DEF Reaches, Reached
<1>11. QED
  BY <1>10

\* It goes along every way.
LEMMA ReachesWay ==
    ASSUME NEW d, NEW p \in Seq(Names), NEW r, Reaches(d, p, r),
           NEW w, NEW k \in 0..Len(p), Leads(d, w, p, k)
    PROVE  \A i \in 0..k : r[i] = w[i]
<1>1. Len(p) \in Nat /\ k \in Nat
  BY LenProperties
<1> DEFINE S == {i \in 0..k : r[i] = w[i]}
<1>2. 0 \in S
  BY <1>1 DEF Reaches, Reached, Leads
<1>3. ASSUME NEW i \in 1..k, i - 1 \in S PROVE i \in S
  <2>1. i \in 0..Len(p) /\ i - 1 \in 0..Len(p) /\ i # 0
    BY <1>1
  <2>2. r[i-1] = w[i-1] /\ w[i-1] \in Fids /\ w[i] \in Fids /\ w[i] = d[w[i-1]][p[i]]
    BY <1>3, <2>1 DEF Leads
  <2>3. w[i-1] # NoFid /\ w[i] # Absent
    BY <2>2 DEF Fids
  <2>4. r[i] = IF r[i-1] = NoFid \/ d[r[i-1]][p[i]] = Absent THEN NoFid ELSE d[r[i-1]][p[i]]
    BY <2>1 DEF Reaches, Reached
  <2>5. QED
    BY <2>1, <2>2, <2>3, <2>4
<1>4. \A i \in 0..k : i \in S
  <2> HIDE DEF S
  <2>1. QED
    BY <1>1, <1>2, <1>3, BoundedInduction
<1>5. QED
  BY <1>4

\* Where a way ends that leads nowhere, it stays.
LEMMA ReachesLost ==
    ASSUME NEW d, NEW p \in Seq(Names), NEW r, Reaches(d, p, r), Lost(d, p)
    PROVE  r[Len(p)] = NoFid
<1>1. PICK w : \E k \in 1..Len(p) :
        Leads(d, w, p, k - 1) /\ d[w[k-1]][p[k]] \in {Absent, NoFid}
  BY DEF Lost
<1>2. PICK k \in 1..Len(p) : Leads(d, w, p, k - 1) /\ d[w[k-1]][p[k]] \in {Absent, NoFid}
  BY <1>1
<1>3. Len(p) \in Nat /\ k \in Nat /\ k >= 1 /\ k <= Len(p) /\ k - 1 \in 0..Len(p) /\ k \in 0..Len(p) /\ k # 0
  BY LenProperties
<1>4. ASSUME NEW i \in 1..Len(p)
      PROVE  r[i] = IF r[i-1] = NoFid \/ d[r[i-1]][p[i]] = Absent THEN NoFid ELSE d[r[i-1]][p[i]]
  <2>1. i \in 0..Len(p) /\ i - 1 \in 0..Len(p) /\ i # 0
    BY <1>3
  <2>2. QED
    BY <2>1 DEF Reaches, Reached
<1>w. ASSUME NEW m \in 0..Len(p), Leads(d, w, p, m) PROVE r[m] = w[m]
  <2>1. \A i \in 0..m : r[i] = w[i]
    BY <1>w, ReachesWay
  <2>2. m \in 0..m
    BY <1>3
  <2>3. QED
    BY <2>1, <2>2
<1>5. r[k] = NoFid
  <2>0. PICK m \in 0..Len(p) : m = k - 1
    BY <1>3
  <2>1. Leads(d, w, p, m)
    BY <1>2, <2>0
  <2>2. r[m] = w[m]
    BY <1>w, <2>1
  <2>3. QED
    BY <1>2, <1>4, <2>0, <2>2
<1> DEFINE S == {i \in Nat : k + i <= Len(p) => r[k+i] = NoFid}
<1>6. 0 \in S
  BY <1>3, <1>5
<1>7. ASSUME NEW i \in Nat, i \in S PROVE i + 1 \in S
  <2>1. CASE k + (i + 1) <= Len(p)
    <3>1. k + (i + 1) \in 1..Len(p) /\ (k + (i + 1)) - 1 = k + i /\ k + i <= Len(p)
      BY <1>3, <2>1
    <3>2. r[k+i] = NoFid
      BY <1>7, <3>1
    <3>3. r[k+(i+1)] = NoFid
      BY <1>4, <3>1, <3>2
    <3>4. QED
      BY <3>3
  <2>2. CASE ~(k + (i + 1) <= Len(p))
    BY <2>2
  <2>3. QED
    BY <2>1, <2>2
<1>8. \A i \in Nat : i \in S
  <2> HIDE DEF S
  <2>1. QED
    BY <1>6, <1>7, SetInduction
<1>9. Len(p) - k \in Nat /\ k + (Len(p) - k) = Len(p)
  BY <1>3
<1>10. QED
  BY <1>3, <1>8, <1>9

USE DEF Vfs!NoFid, Vfs!Absent

LEMMA ResolveReaches ==
    ASSUME dirent \in Trees, NEW p \in Seq(Names)
    PROVE  \E r : Reaches(dirent, p, r) /\ Vfs!Resolve(p) = r[Len(p)]
<1>1. PICK d : d = dirent
  OBVIOUS
<1>2. PICK g : Reaches(dirent, p, g)
  BY <1>1, ReachExists
<1> DEFINE reach == CHOOSE r : r = [i \in 0..Len(p) |-> Reached(dirent, p, r, i)]
<1>3. Reaches(dirent, p, reach)
  BY <1>2 DEF Reaches
<1>4. Vfs!Resolve(p) = reach[Len(p)]
  BY Zenon DEF Vfs!Resolve, Reached
<1> HIDE DEF reach
<1>5. QED
  BY <1>3, <1>4

\* What a lookup finds is what the path resolves to,
LEMMA ResolveFound ==
    ASSUME dirent \in Trees, NEW p \in Seq(Names), NEW f, Found(dirent, p, f)
    PROVE  Vfs!Resolve(p) = f
<1>1. PICK r : Reaches(dirent, p, r) /\ Vfs!Resolve(p) = r[Len(p)]
  BY ResolveReaches
<1>2. PICK d : d = dirent
  OBVIOUS
<1>3. PICK w : Leads(d, w, p, Len(p)) /\ w[Len(p)] = f
  BY <1>2 DEF Found
<1>4. Len(p) \in 0..Len(p)
  BY LenProperties
<1>5. Reaches(d, p, r)
  BY <1>1, <1>2
<1>6. r[Len(p)] = w[Len(p)]
  <2>1. PICK m \in 0..Len(p) : m = Len(p)
    BY <1>4
  <2>2. Leads(d, w, p, m)
    BY <1>3, <2>1
  <2>3. \A i \in 0..m : r[i] = w[i]
    BY <1>5, <2>2, ReachesWay
  <2>4. QED
    BY <1>4, <2>1, <2>3
<1>7. QED
  BY <1>1, <1>3, <1>6

\* and it finds nothing if the path resolves to nothing.
LEMMA ResolveLost ==
    ASSUME dirent \in Trees, NEW p \in Seq(Names), Lost(dirent, p)
    PROVE  Vfs!Resolve(p) = NoFid
<1>1. PICK r : Reaches(dirent, p, r) /\ Vfs!Resolve(p) = r[Len(p)]
  BY ResolveReaches
<1>2. PICK d : d = dirent
  OBVIOUS
<1>3. r[Len(p)] = NoFid
  BY <1>1, <1>2, ReachesLost
<1>4. QED
  BY <1>1, <1>3

\* The object of a path that is found is an entry of the parent's.
LEMMA FoundParent ==
    ASSUME NEW d, NEW p \in Seq(Names), p # <<>>, NEW w, Leads(d, w, p, Len(p))
    PROVE  Found(d, ParentOf(p), w[Len(p) - 1])
<1>1. PICK q \in Seq(Names) : q = ParentOf(p)
  BY ParentParts
<1>2. /\ Len(p) \in Nat \ {0} /\ Len(q) = Len(p) - 1
      /\ \A i \in 1..(Len(p) - 1) : q[i] = p[i]
  BY <1>1, ParentParts
<1> DEFINE v == [i \in 0..Len(q) |-> w[i]]
<1>3. v \in [0..Len(q) -> Fids] /\ v[0] = 0 /\ v[Len(q)] = w[Len(p) - 1]
  BY <1>2 DEF Leads
<1>4. ASSUME NEW i \in 1..Len(q) PROVE v[i] = d[v[i-1]][q[i]]
  <2>1. i \in 1..Len(p) /\ i \in 0..Len(q) /\ i - 1 \in 0..Len(q) /\ q[i] = p[i]
    BY <1>2
  <2>2. QED
    BY <2>1 DEF Leads
<1>5. Leads(d, v, q, Len(q))
  BY <1>3, <1>4 DEF Leads
<1>6. QED
  BY <1>1, <1>3, <1>5 DEF Found

\* What an operation holds when it has looked its parent directory up.
LEMMA ParentFound ==
    ASSUME IInv, PathInv, WayInv, NEW c \in Clients, at[c] \in {"parent", "newparent"},
           cmd[c] \in {"RMD", "DELE", "RNTO"}, rest[c] = <<>>
    PROVE  /\ Found(dirent, Object(c), fid[c])
           /\ Found(dirent, ParentOf(Object(c)), cur[c])
<1>1. PICK p \in Seq(Names) : p # <<>> /\ p = Object(c)
  BY ObjectType
<1>2. Len(p) \in Nat \ {0}
  BY <1>1, ParentParts
<1>3. PICK w : \E k \in 0..(Len(p) - 1) :
          /\ Leads(dirent, w, p, Len(p)) /\ w[Len(p)] = fid[c]
          /\ OnWay(cur[c], <<>>, w, p, k, Len(p) - 1)
  BY <1>1 DEF WayInv, Way, ParentWay
<1>4. cur[c] = w[Len(p) - 1]
  <2>1. PICK k \in 0..(Len(p) - 1) : cur[c] = w[k] /\ 0 = (Len(p) - 1) - k
    BY <1>3, EmptySeq DEF OnWay
  <2>2. k = Len(p) - 1
    BY <1>2, <2>1
  <2>3. QED
    BY <2>1, <2>2
<1>5. PICK d : d = dirent
  OBVIOUS
<1>6. Found(d, p, fid[c]) /\ Found(d, ParentOf(p), w[Len(p) - 1])
  BY <1>1, <1>3, <1>5, FoundParent DEF Found
<1>7. QED
  BY <1>1, <1>4, <1>5, <1>6

\* No entry leads to an object without a stat.
LEMMA FoundExists ==
    ASSUME TypeOK, NoDanglingEntry, NEW p \in Seq(Names), p # <<>>, NEW f, Found(dirent, p, f)
    PROVE  f \in Fids /\ stat[f] # "none"
<1>1. PICK w : Leads(dirent, w, p, Len(p)) /\ w[Len(p)] = f
  BY DEF Found
<1>2. Len(p) \in Nat \ {0} /\ p[Len(p)] \in Names
  BY ParentParts
<1>3. /\ w[Len(p)] \in Fids /\ w[Len(p) - 1] \in Fids
      /\ w[Len(p)] = dirent[w[Len(p) - 1]][p[Len(p)]]
  BY <1>1, <1>2 DEF Leads
<1>4. QED
  BY <1>1, <1>2, <1>3 DEF NoDanglingEntry, Entries

\* What an operation knows of the path it was given: MKD, that there is no such
\* object; DELE, that it is a file; RMD, that it has no entries.
Known(c) ==
    /\ at[c] = "exists" =>
          IF cur[c] = NoFid THEN Lost(dirent, path[c]) ELSE TargetWay(c, path[c])
    /\ cmd[c] = "MKD" /\ at[c] \in {"incr", "store", "parent"} => Lost(dirent, path[c])
    /\ cmd[c] \in {"MKD", "STOR"} /\ at[c] = "parent" /\ cur[c] # NoFid =>
          TargetWay(c, ParentOf(path[c]))
    /\ cmd[c] = "DELE" /\ at[c] = "target" =>
          \E f \in Fids : stat[f] = "file" /\ Found(dirent, path[c], f)
    /\ cmd[c] \in {"RMD", "DELE"} /\ at[c] = "parent" => stat[fid[c]] = "file" \/ Missing(fid[c])

KnownInv == \A c \in Clients : Known(c)

\* The paths are those that the commands are given.
GivenInv ==
    \A c \in Clients : (at[c] # "idle" => path[c] \in Paths) /\ from[c] \in Paths \cup {NoPath}

LEMMA GivenStep == ASSUME TypeOK, GivenInv, [Next]_vars PROVE GivenInv'
<1> USE DEF TypeOK, GivenInv
<1>1. ASSUME NEW c \in Clients, Command(c) PROVE GivenInv'
  BY <1>1 DEF Command, Begin, BeginRnto, BeginStor, LookUp
<1>2. ASSUME NEW c \in Clients, Walk(c) PROVE GivenInv'
  BY <1>2 DEF Walk
<1>3. ASSUME NEW c \in Clients, Exists(c) PROVE GivenInv'
  BY <1>3 DEF Exists, Returned, LookUp, Done
<1>4. ASSUME NEW c \in Clients, Fails(c) PROVE GivenInv'
  BY <1>4 DEF Fails, Returned, Done
<1>5. ASSUME NEW c \in Clients, Incr(c) PROVE GivenInv'
  BY <1>5 DEF Incr, LookUp
<1>6. ASSUME NEW c \in Clients, Target(c) PROVE GivenInv'
  BY <1>6 DEF Target, Returned, LookUp, Done
<1>7. ASSUME NEW c \in Clients, MkdirExec(c) \/ SaveExec(c) \/ RemoveExec(c) \/ RetrieveSlave(c)
      PROVE  GivenInv'
  BY <1>7 DEF MkdirExec, SaveExec, RemoveExec, RetrieveSlave, Done
<1>8. ASSUME NEW c \in Clients, OldParent(c) \/ RetrieveFid(c) PROVE GivenInv'
  BY <1>8 DEF OldParent, RetrieveFid, Returned, LookUp
<1>9. ASSUME NEW c \in Clients, RenameExec(c) PROVE GivenInv'
  BY <1>9 DEF RenameExec, Done
<1>10. ASSUME NEW c \in Clients, Stored(c) PROVE GivenInv'
  BY <1>10 DEF Stored, LookUp, Done
<1>11. CASE UNCHANGED vars
  BY <1>11 DEF vars
<1>12. QED
  BY <1>1, <1>2, <1>3, <1>4, <1>5, <1>6, <1>7, <1>8, <1>9, <1>10, <1>11 DEF Next, Operation, Spin

\* An operation goes on to know it, as nobody else changes the tree meanwhile.
LEMMA KnownStep ==
    ASSUME OneClient, IInv, PathInv, WayInv, LinkInv, KnownInv, [Next]_vars
    PROVE  KnownInv'
<1> SUFFICES ASSUME NEW c \in Clients,
                    Command(c) \/ Operation(c) \/ Stored(c) \/ UNCHANGED vars
             PROVE  Known(c)'
  BY DEF OneClient, KnownInv, Next
<1>0. /\ at \in [Clients -> Lookups \cup {"idle", "incr", "store"}]
      /\ path[c] \in Seq(Names) /\ rest[c] \in Seq(Names) /\ ParentOf(path[c]) \in Seq(Names)
      /\ cmd \in [Clients -> Commands] /\ path \in [Clients -> Seq(Names)]
      /\ fid \in [Clients -> Fids \cup {NoFid}] /\ cur \in [Clients -> Fids \cup {NoFid}]
      /\ rest \in [Clients -> Seq(Names)] /\ dirent \in Trees
  BY ParentType DEF IInv, TypeOK, Trees
<1>1. Known(c)
  BY DEF KnownInv
<1>2. at[c] # "idle" => path[c] # <<>>
  BY DEF PathInv
<1>p. PICK p \in Seq(Names) : p = path[c]
  BY <1>0
<1>q. PICK q \in Seq(Names) : q = ParentOf(path[c])
  BY <1>0
<1>3. ASSUME at'[c] \in {"idle", "newparent", "slave"} PROVE Known(c)'
  BY <1>3 DEF Known
<1>4. ASSUME NEW x \in Paths, NEW command, Begin(c, command, x) PROVE Known(c)'
  <2>1. x \in Seq(Names)
    BY PathType
  <2>2. at'[c] = "exists" /\ cur'[c] = 0 /\ rest'[c] = x /\ path'[c] = x
    BY <1>0, <1>4 DEF Begin, LookUp
  <2>3. TargetWay(c, x)'
    BY <2>1, <2>2, NoWay DEF TargetWay
  <2>4. QED
    BY <2>2, <2>3 DEF Known
<1>5. ASSUME NEW x \in Paths, BeginRnto(c, x) PROVE Known(c)'
  BY <1>0, <1>5 DEF BeginRnto, LookUp, Known
<1>6. ASSUME NEW x \in Paths, BeginStor(c, x) PROVE Known(c)'
  BY <1>0, <1>6 DEF BeginStor, Known
<1>7. ASSUME Walk(c) PROVE Known(c)'
  <2>1. /\ at[c] \in Lookups /\ cur[c] \in Fids /\ cur[c] # NoFid
        /\ UNCHANGED <<stat, dirent, at, cmd, path, fid>>
    BY <1>7, WalkFrom DEF Walk, Looking, IInv, Fids
  <2>2. CASE at[c] = "exists"
    <3>1. TargetWay(c, p)
      BY <1>1, <1>p, <2>1, <2>2 DEF Known
    <3>2. IF cur'[c] = NoFid THEN Lost(dirent, p) ELSE TargetWay(c, p)'
      BY <1>7, <3>1, WalkWay, WalkLost
    <3>3. QED
      BY <1>p, <2>1, <2>2, <3>2 DEF Known
  <2>3. CASE at[c] = "parent" /\ cmd[c] \in {"MKD", "STOR"}
    <3>1. TargetWay(c, q)
      BY <1>1, <1>q, <2>1, <2>3 DEF Known
    <3>2. cur'[c] # NoFid => TargetWay(c, q)'
      BY <1>7, <3>1, WalkWay
    <3>3. ParentOf(path'[c]) = q
      BY <1>q, <2>1
    <3>4. QED
      BY <1>1, <2>1, <2>3, <3>2, <3>3 DEF Known
  <2>4. CASE at[c] = "target"
    BY <1>1, <2>1, <2>4 DEF Known
  <2>5. CASE at[c] = "parent" /\ cmd[c] \notin {"MKD", "STOR"}
    BY <1>1, <2>1, <2>5 DEF Known, Missing
  <2>6. QED
    BY <1>3, <2>1, <2>2, <2>3, <2>4, <2>5
<1>8. ASSUME UNCHANGED vars PROVE Known(c)'
  BY <1>1, <1>8 DEF vars, Known, TargetWay, Missing
\* What the first lookup of a path has found when it returns.
<1>9. ASSUME at[c] \in {"exists", "target"}, rest[c] = <<>>, TargetWay(c, p), at[c] # "idle"
      PROVE  Found(dirent, p, cur[c]) /\ cur[c] \in Fids /\ stat[cur[c]] # "none"
  <2>1. Found(dirent, p, cur[c])
    BY <1>9, WayEnds
  <2>2. QED
    BY <1>2, <1>9, <1>p, <2>1, FoundExists DEF IInv, LinkInv
<1>10. ASSUME Exists(c) PROVE Known(c)'
  <2>1. at[c] = "exists" /\ rest[c] = <<>> /\ UNCHANGED <<stat, dirent>>
    BY <1>10 DEF Exists, Returned
  <2>2. CASE at'[c] = "idle"
    BY <1>3, <2>2
  <2>3. CASE at'[c] = "incr" /\ UNCHANGED <<cmd, path>> /\ cmd[c] = "MKD"
             /\ (cur[c] = NoFid \/ stat[cur[c]] = "none")
    <3>1. cur[c] = NoFid
      BY <1>1, <1>9, <1>p, <2>1, <2>3 DEF Known
    <3>2. QED
      BY <1>1, <2>1, <2>3, <3>1 DEF Known
  <2>4. CASE at'[c] = "target" /\ UNCHANGED <<cmd, path>> /\ (cmd[c] # "DELE" \/ (cur[c] # NoFid /\ stat[cur[c]] = "file"))
    <3>1. ASSUME cmd[c] = "DELE" PROVE \E f \in Fids : stat[f] = "file" /\ Found(dirent, p, f)
      BY <1>1, <1>9, <1>p, <2>1, <2>4, <3>1 DEF Known
    <3>2. QED
      BY <1>p, <2>1, <2>4, <3>1 DEF Known
  <2>5. QED
    BY <1>0, <1>10, <2>2, <2>3, <2>4 DEF Exists, LookUp, Done
<1>11. ASSUME \/ Fails(c) \/ MkdirExec(c) \/ SaveExec(c) \/ RemoveExec(c) \/ RenameExec(c)
              \/ RetrieveSlave(c) \/ OldParent(c) \/ RetrieveFid(c)
       PROVE  Known(c)'
  BY <1>0, <1>3, <1>11 DEF Fails, MkdirExec, SaveExec, RemoveExec, RenameExec, RetrieveSlave,
                           OldParent, RetrieveFid, LookUp, Done
\* The parent's lookup begins.
<1>12. ASSUME at'[c] = "parent", cur'[c] = 0, rest'[c] = q, dirent' = dirent,
              UNCHANGED <<cmd, path>>, at[c] \in {"incr", "store"}, cmd[c] \in {"MKD", "STOR"}
       PROVE  Known(c)'
  <2>1. TargetWay(c, q)'
    BY <1>12, NoWay DEF TargetWay
  <2>2. ParentOf(path'[c]) = q
    BY <1>q, <1>12
  <2>3. QED
    BY <1>1, <1>12, <2>1, <2>2 DEF Known
<1>13. ASSUME Incr(c) PROVE Known(c)'
  <2>1. CASE cmd[c] = "MKD"
    BY <1>0, <1>12, <1>13, <1>q, <2>1 DEF Incr, LookUp
  <2>2. CASE cmd[c] = "STOR"
    BY <1>0, <1>13, <2>2 DEF Incr, Known
  <2>3. QED
    BY <1>13, <2>1, <2>2 DEF Incr
<1>14. ASSUME Stored(c) PROVE Known(c)'
  <2>1. at[c] = "store" /\ cmd[c] \in {"MKD", "STOR"} /\ dirent' = dirent
    BY <1>14 DEF Stored, IInv, PointInv
  <2>2. CASE Done(c)
    BY <1>0, <1>3, <2>2 DEF Done
  <2>3. CASE LookUp(c, "parent", ParentOf(path[c])) /\ UNCHANGED <<cmd, path, fid, oldparent>>
    BY <1>0, <1>12, <1>q, <2>1, <2>3 DEF LookUp
  <2>4. QED
    BY <1>14, <2>2, <2>3 DEF Stored
<1>15. ASSUME Target(c) PROVE Known(c)'
  <2>1. at[c] = "target" /\ rest[c] = <<>> /\ cur[c] # NoFid /\ UNCHANGED <<stat, dirent>>
    BY <1>15 DEF Target, Returned
  <2>2. CASE Done(c)
    BY <1>0, <1>3, <2>2 DEF Done
  <2>3. CASE /\ cmd[c] = "RMD" => Missing(cur[c])
             /\ fid' = [fid EXCEPT ![c] = cur[c]] /\ UNCHANGED <<cmd, path>>
             /\ at' = [at EXCEPT ![c] = "parent"]
    <3>1. at'[c] = "parent" /\ fid'[c] = cur[c] /\ cmd'[c] = cmd[c] /\ cmd[c] \in {"RMD", "DELE", "RNTO"}
      BY <1>0, <1>15, <2>3 DEF Target
    <3>2. CASE cmd[c] = "DELE"
      <4>1. PICK f \in Fids : stat[f] = "file" /\ Found(dirent, p, f)
        BY <1>1, <1>p, <2>1, <3>2 DEF Known
      <4>2. TargetWay(c, p)
        BY <1>p, <2>1, <3>2 DEF WayInv, Way, Object
      <4>3. Found(dirent, p, cur[c])
        BY <1>9, <2>1, <4>2
      <4>4. f = cur[c]
        BY <1>0, <4>1, <4>3, ResolveFound
      <4>5. QED
        BY <2>1, <3>1, <3>2, <4>1, <4>4 DEF Known
    <3>3. CASE cmd[c] = "RMD"
      BY <2>1, <2>3, <3>1, <3>3 DEF Known, Missing
    <3>4. CASE cmd[c] = "RNTO"
      BY <3>1, <3>4 DEF Known
    <3>5. QED
      BY <3>1, <3>2, <3>3, <3>4
  <2>4. QED
    BY <1>15, <2>2, <2>3 DEF Target, LookUp
<1>16. QED
  BY <1>4, <1>5, <1>6, <1>7, <1>8, <1>10, <1>11, <1>13, <1>14, <1>15
     DEF Command, Operation, Spin

\* Every EXEC is one of the operations of AtomicVfs.
LEMMA AtomicStep ==
    ASSUME IInv, PathInv, WayInv, GivenInv, KnownInv, [Next]_vars
    PROVE  Vfs!Next \/ UNCHANGED <<stat, dirent>>
<1>0. /\ TypeOK /\ PointInv /\ CreatingInv /\ dirent \in Trees
      /\ \A p : Vfs!ParentOf(p) = ParentOf(p) /\ Vfs!EntryOf(p) = EntryOf(p)
      /\ Vfs!Fids = Fids /\ Vfs!Entries = Entries
  BY DEF IInv, TypeOK, Trees, Vfs!ParentOf, Vfs!EntryOf, ParentOf, EntryOf, Vfs!Fids, Fids, Vfs!Entries,
         Entries
\* A fid that has been given out is unused, and the parent is where the lookup says.
<1>1. ASSUME NEW c \in Clients, at[c] = "parent", cmd[c] \in {"MKD", "STOR"}, rest[c] = <<>>, cur[c] # NoFid
      PROVE  /\ path[c] \in Paths /\ fid[c] \in Fids /\ Vfs!Unused(fid[c])
             /\ Vfs!Resolve(Vfs!ParentOf(path[c])) = cur[c]
             /\ cmd[c] = "MKD" => Vfs!Resolve(path[c]) = NoFid
  <2>1. path[c] \in Paths /\ path[c] \in Seq(Names) /\ ParentOf(path[c]) \in Seq(Names)
    BY <1>0, <1>1, ParentType DEF GivenInv, TypeOK
  <2>2. Vfs!Unused(fid[c]) /\ fid[c] \in Fids
    <3>1. Creating(c) /\ fid[c] \in Fids
      BY <1>0, <1>1 DEF PointInv, Creating
    <3>2. /\ stat[fid[c]] = "none" /\ Missing(fid[c])
          /\ \A f \in Fids, n \in Entries : dirent[f][n] # fid[c]
      BY <1>0, <3>1 DEF CreatingInv
    <3>3. fid[c] # NoFid
      BY <3>1 DEF Fids
    <3>4. QED
      BY <1>0, <3>1, <3>2, <3>3 DEF Vfs!Unused, Missing
  <2>3. PICK q \in Seq(Names) : q = ParentOf(path[c])
    BY <2>1
  <2>4. Found(dirent, q, cur[c])
    BY <1>1, <2>3, WayEnds DEF KnownInv, Known
  <2>5. Vfs!Resolve(q) = cur[c]
    BY <1>0, <2>4, ResolveFound
  <2>6. PICK p \in Seq(Names) : p = path[c]
    BY <2>1
  <2>7. cmd[c] = "MKD" => Vfs!Resolve(p) = NoFid
    <3>1. cmd[c] = "MKD" => Lost(dirent, p)
      BY <1>1, <2>6 DEF KnownInv, Known
    <3>2. QED
      BY <1>0, <3>1, ResolveLost
  <2>8. QED
    BY <1>0, <2>1, <2>2, <2>3, <2>5, <2>6, <2>7
<1>2. ASSUME NEW c \in Clients, MkdirExec(c) PROVE Vfs!Mkdir(path[c]) /\ path[c] \in Paths
  BY <1>0, <1>1, <1>2 DEF MkdirExec, Returned, Vfs!Mkdir
<1>3. ASSUME NEW c \in Clients, SaveExec(c) PROVE Vfs!Save(path[c]) /\ path[c] \in Paths
  BY <1>0, <1>1, <1>3 DEF SaveExec, Returned, Vfs!Save
\* The object and its parent are where the lookups say.
<1>4. ASSUME NEW c \in Clients, at[c] \in {"parent", "newparent"}, cmd[c] \in {"RMD", "DELE", "RNTO"},
             rest[c] = <<>>
      PROVE  /\ Object(c) \in Paths /\ fid[c] \in Fids /\ Vfs!Resolve(Object(c)) = fid[c]
             /\ Vfs!Resolve(Vfs!ParentOf(Object(c))) = cur[c]
  <2>1. PICK p \in Seq(Names) : p # <<>> /\ p = Object(c)
    BY <1>4, ObjectType
  <2>2. PICK q \in Seq(Names) : q = ParentOf(p)
    BY <2>1, ParentType
  <2>3. Found(dirent, p, fid[c]) /\ Found(dirent, q, cur[c])
    BY <1>4, <2>1, <2>2, ParentFound
  <2>4. Vfs!Resolve(p) = fid[c] /\ Vfs!Resolve(q) = cur[c]
    BY <1>0, <2>3, ResolveFound
  <2>5. Object(c) \in Paths /\ fid[c] \in Fids
    BY <1>0, <1>4 DEF GivenInv, PointInv, Object
  <2>6. QED
    BY <1>0, <2>1, <2>2, <2>4, <2>5
<1>5. ASSUME NEW c \in Clients, RemoveExec(c) PROVE Vfs!Remove(path[c]) /\ path[c] \in Paths
  <2>1. /\ path[c] \in Paths /\ fid[c] \in Fids /\ Vfs!Resolve(path[c]) = fid[c]
        /\ Vfs!Resolve(Vfs!ParentOf(path[c])) = cur[c]
    BY <1>4, <1>5 DEF RemoveExec, Returned, Object
  <2>2. stat[fid[c]] = "file" \/ Missing(fid[c])
    BY <1>5 DEF RemoveExec, Returned, KnownInv, Known
  <2>3. fid[c] # NoFid
    BY <2>1 DEF Fids
  <2>4. QED
    BY <1>0, <1>5, <2>1, <2>2, <2>3 DEF RemoveExec, Vfs!Remove, Missing
<1>6. ASSUME NEW c \in Clients, RenameExec(c)
      PROVE  Vfs!Rename(from[c], path[c]) /\ from[c] \in Paths /\ path[c] \in Paths
  <2>1. at[c] = "newparent" /\ rest[c] = <<>> /\ cmd[c] = "RNTO"
    BY <1>0, <1>6 DEF RenameExec, Returned, PointInv
  <2>2. /\ from[c] \in Paths /\ fid[c] \in Fids /\ Vfs!Resolve(from[c]) = fid[c]
        /\ Vfs!Resolve(Vfs!ParentOf(from[c])) = cur[c]
    BY <1>4, <2>1 DEF Object
  <2>3. path[c] \in Paths
    BY <2>1 DEF GivenInv
  <2>4. oldparent[c] = cur[c]
    BY <2>1, EntryFound
  <2>5. fid[c] # NoFid
    BY <2>2 DEF Fids
  <2>6. QED
    BY <1>0, <1>6, <2>2, <2>3, <2>4, <2>5 DEF RenameExec, Vfs!Rename
<1>7. ASSUME NEW c \in Clients, Command(c) PROVE UNCHANGED <<stat, dirent>>
  BY <1>7 DEF Command, Begin, BeginRnto, BeginStor
<1>8. ASSUME NEW c \in Clients,
             \/ Walk(c) \/ Spin(c) \/ Exists(c) \/ Fails(c) \/ Incr(c) \/ Target(c) \/ OldParent(c)
             \/ RetrieveFid(c) \/ RetrieveSlave(c) \/ Stored(c)
      PROVE  UNCHANGED <<stat, dirent>>
  BY <1>8 DEF Walk, Spin, Exists, Fails, Incr, Target, OldParent, RetrieveFid, RetrieveSlave, Stored, vars
<1>9. QED
  BY <1>2, <1>3, <1>5, <1>6, <1>7, <1>8 DEF Next, Operation, vars, Vfs!Next

\* With a single client the commands are atomic: MKD, STOR, RMD, DELE and RNTO do to
\* the tree, in their EXEC, what the command would do with its paths resolved at that
\* instant, although each path was looked up in several steps before it.
THEOREM Atomic == ASSUME OneClient PROVE Spec => RefinesAtomicVfs
<1>1. Init => GivenInv /\ KnownInv
  BY DEF Init, GivenInv, KnownInv, Known
<1>2. IInv /\ OneInv /\ GivenInv /\ KnownInv /\ [Next]_vars => GivenInv' /\ KnownInv'
  BY GivenStep, KnownStep DEF IInv, OneInv
<1>3. Init => Vfs!Init
  BY DEF Init, Vfs!Init, Vfs!Fids, Vfs!Entries, Fids, Entries
<1>4. IInv /\ OneInv /\ GivenInv /\ KnownInv /\ [Next]_vars => [Vfs!Next]_<<stat, dirent>>
  BY AtomicStep DEF OneInv
<1>5. QED
  BY <1>1, <1>2, <1>3, <1>4, Invariance, OneInvariance, PTL DEF Spec, RefinesAtomicVfs, Vfs!Spec

=============================================================================
