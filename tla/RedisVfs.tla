------------------------------ MODULE RedisVfs ------------------------------
(***************************************************************************)
(* The virtual file system of redis_classes.hpp, as the commands MKD, RMD, *)
(* DELE, RNFR, RNTO, STOR and RETR of CFtpServer.cpp use it.               *)
(*                                                                         *)
(* Redis holds the whole tree: fid_counter, and for each file identifier a *)
(* hash dirent:<fid> of names to fids and a hash stat:<fid>.  A hash with  *)
(* no field does not exist.  mkdir gives a directory a field .placeholder  *)
(* of value -1; the seed of the database gives the root one named .foo.    *)
(* Both are names like any other: a peer may send paths that contain them. *)
(*                                                                         *)
(* One action per redis command: every client (each has a connection of    *)
(* its own) looks paths up one HGETALL at a time, and only MULTI...EXEC is *)
(* atomic.  Nothing is watched, so what a lookup found may be stale when   *)
(* the EXEC comes.  A connection carries one operation at a time.          *)
(***************************************************************************)
EXTENDS Integers, Sequences, FiniteSets

CONSTANTS
    Clients,      \* the redis connections
    Names,        \* the names in the peers' paths
    Placeholder,  \* .placeholder, the field that keeps a directory's hash alive,
    Seed,         \* and .foo, which does so for the root
    NoName,       \* the empty string: the last component of the root's path
    DirPaths,     \* the paths that MKD is given, and
    FilePaths,    \* those that STOR is given; <<>> is the root
    MaxFid        \* bound: the largest value of fid_counter

ASSUME MaxFidAssumption == MaxFid \in Nat
ASSUME NamesAssumption == NoName \notin Names \cup {Placeholder, Seed}
ASSUME PathsAssumption == DirPaths \cup FilePaths \subseteq Seq(Names)

NoFid == -1     \* lookup_fid's failure, and the value of the two fields
Absent == -2    \* the hash has no such field
Fids == 0..MaxFid
Entries == Names \cup {Placeholder, Seed, NoName}
Paths == DirPaths \cup FilePaths
NoPath == <<NoName>>    \* szRenameFromPath is empty

VARIABLES
    fid_counter,  \* the last fid given out
    stat,         \* stat:<fid>: "none", or the type in st_mode
    dirent,       \* dirent:<fid>: the fid of each entry, NoFid or Absent
    touched,      \* history: the directories whose own placeholder an EXEC has
                  \* overwritten or deleted, because a peer named it
    at,           \* each client's position in its operation
    cmd,          \* the operation
    path,         \* its path
    from,         \* szRenameFromPath
    cur,          \* lookup_fid: the fid reached so far, or its result
    rest,         \* lookup_fid: the tokens left
    fid,          \* the fid the operation found or allocated
    oldparent     \* rename's oldparent_fid

redis == <<fid_counter, stat, dirent, touched>>
vars == <<redis, at, cmd, path, from, cur, rest, fid, oldparent>>

Commands == {"none", "MKD", "RMD", "DELE", "RNFR", "RNTO", "STOR", "RETR"}
Lookups == {"exists", "target", "parent", "newparent", "slave"}

Init ==
    /\ fid_counter = 0
    /\ stat = [f \in Fids |-> IF f = 0 THEN "dir" ELSE "none"]
    /\ dirent = [f \in Fids |-> [n \in Entries |->
                    IF f = 0 /\ n = Seed THEN NoFid ELSE Absent]]
    /\ touched = {}
    /\ at = [c \in Clients |-> "idle"]
    /\ cmd = [c \in Clients |-> "none"]
    /\ path = [c \in Clients |-> <<>>]
    /\ from = [c \in Clients |-> NoPath]
    /\ cur = [c \in Clients |-> 0]
    /\ rest = [c \in Clients |-> <<>>]
    /\ fid = [c \in Clients |-> NoFid]
    /\ oldparent = [c \in Clients |-> NoFid]

\* spath.substr up to and from the last "/".
ParentOf(p) == IF p = <<>> THEN p ELSE SubSeq(p, 1, Len(p) - 1)
EntryOf(p) == IF p = <<>> THEN NoName ELSE p[Len(p)]

\* The hash does not exist; -1 is printed as 4294967295, which is no fid.
Missing(f) == \A n \in Entries : f # NoFid => dirent[f][n] = Absent

\* What an EXEC that writes entry n of directory f adds to touched.
Touched(f, n) == IF n = (IF f = 0 THEN Seed ELSE Placeholder) THEN {f} ELSE {}

----------------------------------------------------------------------------
(* lookup_fid.                                                             *)

\* lookup_fid(p) starts; its result is for the point of the operation.
LookUp(c, point, p) ==
    /\ at' = [at EXCEPT ![c] = point]
    /\ cur' = [cur EXCEPT ![c] = 0]
    /\ rest' = [rest EXCEPT ![c] = p]

Looking(c) == at[c] \in Lookups /\ rest[c] # <<>>
Returned(c, point) == at[c] = point /\ rest[c] = <<>>

\* Mutant: the token is not searched for in the map.
WalkUnchecked(c) ==
    /\ Looking(c) /\ ~Missing(cur[c])
    /\ cur' = [cur EXCEPT ![c] = dirent[cur[c]][Head(rest[c])]]
    /\ rest' = [rest EXCEPT ![c] = Tail(rest[c])]
    /\ UNCHANGED <<redis, at, cmd, path, from, fid, oldparent>>

\* One token of the path: HGETALL of the directory reached so far.
Walk(c) ==
    /\ Looking(c) /\ ~Missing(cur[c])
    /\ LET next == dirent[cur[c]][Head(rest[c])] IN
       \/ /\ next # Absent
          /\ cur' = [cur EXCEPT ![c] = next]
          /\ rest' = [rest EXCEPT ![c] = Tail(rest[c])]
       \/ /\ next = Absent
          /\ cur' = [cur EXCEPT ![c] = NoFid]
          /\ rest' = [rest EXCEPT ![c] = <<>>]
    /\ UNCHANGED <<redis, at, cmd, path, from, fid, oldparent>>

\* A hash that does not exist (a file's, or one behind a placeholder) consumes
\* no token: the loop reads it again.
Spins(c) == Looking(c) /\ Missing(cur[c])
Spin(c) == Spins(c) /\ UNCHANGED vars

----------------------------------------------------------------------------
(* The commands of Shell.                                                  *)

\* The operation is over, and its local variables are gone.
Done(c) ==
    /\ at' = [at EXCEPT ![c] = "idle"]
    /\ cmd' = [cmd EXCEPT ![c] = "none"]
    /\ path' = [path EXCEPT ![c] = <<>>]
    /\ cur' = [cur EXCEPT ![c] = 0]
    /\ rest' = [rest EXCEPT ![c] = <<>>]
    /\ fid' = [fid EXCEPT ![c] = NoFid]
    /\ oldparent' = [oldparent EXCEPT ![c] = NoFid]

\* All but STOR and RNTO begin with redis_vfs::stat of the path.
Begin(c, command, p) ==
    /\ at[c] = "idle"
    /\ cmd' = [cmd EXCEPT ![c] = command]
    /\ path' = [path EXCEPT ![c] = p]
    /\ LookUp(c, "exists", p)
    /\ UNCHANGED <<redis, from, fid, oldparent>>

\* RNTO before any RNFR looks up an empty string, which is undefined.
BeginRnto(c, p) ==
    /\ at[c] = "idle" /\ from[c] # NoPath
    /\ cmd' = [cmd EXCEPT ![c] = "RNTO"]
    /\ path' = [path EXCEPT ![c] = p]
    /\ LookUp(c, "target", from[c])
    /\ UNCHANGED <<redis, from, fid, oldparent>>

BeginStor(c, p) ==
    /\ at[c] = "idle"
    /\ cmd' = [cmd EXCEPT ![c] = "STOR"]
    /\ path' = [path EXCEPT ![c] = p]
    /\ at' = [at EXCEPT ![c] = "incr"]
    /\ UNCHANGED <<redis, from, cur, rest, fid, oldparent>>

\* HGETALL stat:<fid>; then the command goes on, or answers 550.
Exists(c) ==
    LET type == IF cur[c] = NoFid THEN "none" ELSE stat[cur[c]] IN
    /\ Returned(c, "exists")
    /\ \/ /\ cmd[c] = "MKD" /\ type = "none"
          /\ at' = [at EXCEPT ![c] = "incr"]
          /\ UNCHANGED <<from, cmd, path, cur, rest, fid, oldparent>>
       \/ /\ \/ cmd[c] = "RMD" /\ type # "none"
             \/ cmd[c] \in {"DELE", "RETR"} /\ type = "file"
          /\ LookUp(c, "target", path[c])
          /\ UNCHANGED <<from, cmd, path, fid, oldparent>>
       \/ /\ cmd[c] = "RNFR" /\ type # "none"
          /\ from' = [from EXCEPT ![c] = path[c]]
          /\ Done(c)
       \/ /\ \/ cmd[c] = "MKD" /\ type # "none"
             \/ cmd[c] \in {"RMD", "RNFR"} /\ type = "none"
             \/ cmd[c] \in {"DELE", "RETR"} /\ type # "file"
          /\ Done(c)
          /\ UNCHANGED from
    /\ UNCHANGED redis

\* A lookup of the operation fails; RNTO forgets the path of RNFR.
Fails(c) ==
    /\ \E point \in Lookups \ {"exists"} : Returned(c, point)
    /\ cur[c] = NoFid
    /\ Done(c)
    /\ from' = IF cmd[c] = "RNTO" THEN [from EXCEPT ![c] = NoPath] ELSE from
    /\ UNCHANGED redis

----------------------------------------------------------------------------
(* The operations of redis_vfs.                                            *)

\* Mutant: the counter's value before the increment is used.
IncrOffByOne(c) ==
    /\ at[c] = "incr" /\ fid_counter < MaxFid
    /\ fid_counter' = fid_counter + 1
    /\ fid' = [fid EXCEPT ![c] = fid_counter]
    /\ \/ cmd[c] = "MKD" /\ LookUp(c, "parent", ParentOf(path[c]))
       \/ /\ cmd[c] = "STOR"
          /\ at' = [at EXCEPT ![c] = "store"]
          /\ UNCHANGED <<cur, rest>>
    /\ UNCHANGED <<stat, dirent, touched, cmd, path, from, oldparent>>

\* get_new_fid: of mkdir, or of StoreThread before it calls the slave.
Incr(c) ==
    /\ at[c] = "incr" /\ fid_counter < MaxFid
    /\ fid_counter' = fid_counter + 1
    /\ fid' = [fid EXCEPT ![c] = fid_counter + 1]
    /\ \/ cmd[c] = "MKD" /\ LookUp(c, "parent", ParentOf(path[c]))
       \/ /\ cmd[c] = "STOR"
          /\ at' = [at EXCEPT ![c] = "store"]
          /\ UNCHANGED <<cur, rest>>
    /\ UNCHANGED <<stat, dirent, touched, cmd, path, from, oldparent>>

\* The slave has stored the data under the new fid, or has not.
Stored(c) ==
    /\ at[c] = "store"
    /\ \/ /\ LookUp(c, "parent", ParentOf(path[c]))
          /\ UNCHANGED <<cmd, path, fid, oldparent>>
       \/ Done(c)
    /\ UNCHANGED <<redis, from>>

\* Mutant: HLEN is not tested.
TargetNonEmpty(c) ==
    /\ Returned(c, "target") /\ cur[c] # NoFid /\ cmd[c] \in {"RMD", "DELE", "RNTO"}
    /\ fid' = [fid EXCEPT ![c] = cur[c]]
    /\ LookUp(c, "parent", ParentOf(IF cmd[c] = "RNTO" THEN from[c] ELSE path[c]))
    /\ UNCHANGED <<redis, cmd, path, from, oldparent>>

\* The operation knows the fid of its object and looks the parent up; rmdir
\* first asks HLEN whether the hash is empty.
Target(c) ==
    /\ Returned(c, "target") /\ cur[c] # NoFid /\ cmd[c] \in {"RMD", "DELE", "RNTO"}
    /\ \/ /\ cmd[c] = "RMD" => Missing(cur[c])
          /\ fid' = [fid EXCEPT ![c] = cur[c]]
          /\ LookUp(c, "parent", ParentOf(IF cmd[c] = "RNTO" THEN from[c] ELSE path[c]))
          /\ UNCHANGED <<cmd, path, oldparent>>
       \/ /\ cmd[c] = "RMD" /\ ~Missing(cur[c])
          /\ Done(c)
    /\ UNCHANGED <<redis, from>>

\* Mutant: the new directory gets no placeholder.
MkdirExecNoPlaceholder(c) ==
    /\ Returned(c, "parent") /\ cur[c] # NoFid /\ cmd[c] = "MKD"
    /\ stat' = [stat EXCEPT ![fid[c]] = "dir"]
    /\ dirent' = [dirent EXCEPT ![cur[c]][EntryOf(path[c])] = fid[c]]
    /\ touched' = touched \cup Touched(cur[c], EntryOf(path[c]))
    /\ Done(c)
    /\ UNCHANGED <<fid_counter, from>>

\* mkdir: stat, the entry in the parent and the placeholder, in one EXEC.
MkdirExec(c) ==
    /\ Returned(c, "parent") /\ cur[c] # NoFid /\ cmd[c] = "MKD"
    /\ stat' = [stat EXCEPT ![fid[c]] = "dir"]
    /\ dirent' = [dirent EXCEPT ![cur[c]][EntryOf(path[c])] = fid[c],
                                ![fid[c]][Placeholder] = NoFid]
    /\ touched' = touched \cup Touched(cur[c], EntryOf(path[c]))
    /\ Done(c)
    /\ UNCHANGED <<fid_counter, from>>

\* save_new_file: an entry that exists is overwritten, the old stat is kept.
SaveExec(c) ==
    /\ Returned(c, "parent") /\ cur[c] # NoFid /\ cmd[c] = "STOR"
    /\ stat' = [stat EXCEPT ![fid[c]] = "file"]
    /\ dirent' = [dirent EXCEPT ![cur[c]][EntryOf(path[c])] = fid[c]]
    /\ touched' = touched \cup Touched(cur[c], EntryOf(path[c]))
    /\ Done(c)
    /\ UNCHANGED <<fid_counter, from>>

\* Mutant: the entry is kept.
RemoveExecKeepsEntry(c) ==
    /\ Returned(c, "parent") /\ cur[c] # NoFid /\ cmd[c] \in {"RMD", "DELE"}
    /\ stat' = [stat EXCEPT ![fid[c]] = "none"]
    /\ Done(c)
    /\ UNCHANGED <<fid_counter, dirent, touched, from>>

\* rmdir and remove; rmdir's "DEL diren:<fid>" names no key.
RemoveExec(c) ==
    /\ Returned(c, "parent") /\ cur[c] # NoFid /\ cmd[c] \in {"RMD", "DELE"}
    /\ stat' = [stat EXCEPT ![fid[c]] = "none"]
    /\ dirent' = [dirent EXCEPT ![cur[c]][EntryOf(path[c])] = Absent]
    /\ touched' = touched \cup Touched(cur[c], EntryOf(path[c]))
    /\ Done(c)
    /\ UNCHANGED <<fid_counter, from>>

\* rename: oldparent_fid is found; newparent_fid is looked up with the old
\* parent's path again.
OldParent(c) ==
    /\ Returned(c, "parent") /\ cur[c] # NoFid /\ cmd[c] = "RNTO"
    /\ oldparent' = [oldparent EXCEPT ![c] = cur[c]]
    /\ LookUp(c, "newparent", ParentOf(from[c]))
    /\ UNCHANGED <<redis, cmd, path, from, fid>>

\* Mutant: the old entry is kept.
RenameExecLinks(c) ==
    /\ Returned(c, "newparent") /\ cur[c] # NoFid
    /\ dirent' = [dirent EXCEPT ![cur[c]][EntryOf(path[c])] = fid[c]]
    /\ touched' = touched \cup Touched(cur[c], EntryOf(path[c]))
    /\ from' = [from EXCEPT ![c] = NoPath]
    /\ Done(c)
    /\ UNCHANGED <<fid_counter, stat>>

RenameExec(c) ==
    /\ Returned(c, "newparent") /\ cur[c] # NoFid
    /\ dirent' = [[dirent EXCEPT ![oldparent[c]][EntryOf(from[c])] = Absent]
                          EXCEPT ![cur[c]][EntryOf(path[c])] = fid[c]]
    /\ touched' = touched \cup Touched(oldparent[c], EntryOf(from[c]))
                          \cup Touched(cur[c], EntryOf(path[c]))
    /\ from' = [from EXCEPT ![c] = NoPath]
    /\ Done(c)
    /\ UNCHANGED <<fid_counter, stat>>

\* Mutant: the slave is that of the directory.
RetrieveFidOfParent(c) ==
    /\ Returned(c, "target") /\ cur[c] # NoFid /\ cmd[c] = "RETR"
    /\ fid' = [fid EXCEPT ![c] = cur[c]]
    /\ LookUp(c, "slave", ParentOf(path[c]))
    /\ UNCHANGED <<redis, cmd, path, from, oldparent>>

\* RetrieveThread: the fid is looked up, then the slave, by the path again.
RetrieveFid(c) ==
    /\ Returned(c, "target") /\ cur[c] # NoFid /\ cmd[c] = "RETR"
    /\ fid' = [fid EXCEPT ![c] = cur[c]]
    /\ LookUp(c, "slave", path[c])
    /\ UNCHANGED <<redis, cmd, path, from, oldparent>>

RetrieveSlave(c) ==
    /\ Returned(c, "slave") /\ cur[c] # NoFid
    /\ Done(c)
    /\ UNCHANGED <<redis, from>>

----------------------------------------------------------------------------
Operation(c) ==
    \/ Walk(c) \/ Spin(c) \/ Exists(c) \/ Fails(c) \/ Incr(c) \/ Target(c)
    \/ MkdirExec(c) \/ SaveExec(c) \/ RemoveExec(c) \/ OldParent(c) \/ RenameExec(c)
    \/ RetrieveFid(c) \/ RetrieveSlave(c)

\* Bound: a command that may need a new fid begins only if one will be left.
Room ==
    LET pending == {c \in Clients : at[c] = "incr" \/ (at[c] = "exists" /\ cmd[c] = "MKD")}
    IN fid_counter + Cardinality(pending) < MaxFid

Command(c) ==
    \E p \in Paths :
        \/ p \in DirPaths /\ Room /\ Begin(c, "MKD", p)
        \/ \E command \in {"RMD", "DELE", "RNFR", "RETR"} : Begin(c, command, p)
        \/ BeginRnto(c, p)
        \/ p \in FilePaths /\ Room /\ BeginStor(c, p)

Next == \E c \in Clients : Command(c) \/ Operation(c) \/ Stored(c)

Spec == Init /\ [][Next]_vars

\* The server keeps running the operations; the slaves need not answer.
FairSpec == Spec /\ \A c \in Clients : WF_vars(Operation(c))

----------------------------------------------------------------------------
(* Type correctness.                                                       *)

\* Every variable has its type, and a path that is being walked is a path.
TypeOK ==
    /\ fid_counter \in Fids
    /\ stat \in [Fids -> {"none", "dir", "file"}]
    /\ dirent \in [Fids -> [Entries -> Fids \cup {NoFid, Absent}]] /\ touched \subseteq Fids
    /\ at \in [Clients -> Lookups \cup {"idle", "incr", "store"}]
    /\ cmd \in [Clients -> Commands]
    /\ path \in [Clients -> Seq(Names)]
    /\ from \in [Clients -> Seq(Names) \cup {NoPath}]
    /\ cur \in [Clients -> Fids \cup {NoFid}]
    /\ rest \in [Clients -> Seq(Names)]
    /\ fid \in [Clients -> Fids \cup {NoFid}]
    /\ oldparent \in [Clients -> Fids \cup {NoFid}]

----------------------------------------------------------------------------
(* Safety, for any number of clients.                                      *)

\* The client has allocated a fid and not yet committed it.
Creating(c) == at[c] = "store" \/ (at[c] = "parent" /\ cmd[c] \in {"MKD", "STOR"})

\* A fid that get_new_fid gave out is the client's alone until its EXEC: no
\* entry names it, it has no stat and no entries, and no other client holds
\* it, not even from a lookup that has gone stale.
NewFidUnseen ==
    \A c \in Clients : Creating(c) =>
        /\ stat[fid[c]] = "none" /\ Missing(fid[c])
        /\ \A f \in Fids, n \in Entries : dirent[f][n] # fid[c]
        /\ \A d \in Clients \ {c} : fid[c] \notin {cur[d], fid[d], oldparent[d]}

\* However stale its lookups, a command never turns a directory into a file
\* or a file into a directory: an EXEC at most deletes the stat of an object.
StatNeverRetyped ==
    [][\A f \in Fids : stat[f] # "none" => stat'[f] \in {stat[f], "none"}]_vars

\* A path leads below a placeholder, a file or an object deleted meanwhile, or
\* through a directory whose placeholder was named by a peer.
Astray(c) == cur[c] = NoFid \/ stat[cur[c]] # "dir" \/ cur[c] \in touched

\* lookup_fid loops for ever on such paths only: a directory whose placeholder
\* was left alone has a hash, whatever stale lookups the commands act on.
NeverSpinsInDirectory == \A c \in Clients : Spins(c) => Astray(c)

----------------------------------------------------------------------------
(* Safety, for one client.                                                 *)

Vfs == INSTANCE AtomicVfs

\* Every entry of a directory names an object that exists.
NoDanglingEntry ==
    \A f \in Fids, n \in Entries : dirent[f][n] \in Fids => stat[dirent[f][n]] # "none"

\* No object has two names, so that deleting a name may delete the object.
SingleLink ==
    \A f, g \in Fids, m, n \in Entries :
        dirent[f][m] \in Fids /\ dirent[f][m] = dirent[g][n] => f = g /\ m = n

\* RETR asks the slave for the very file whose stat names that slave, although
\* the two come from different lookups.
SlaveOfSameFile ==
    \A c \in Clients : Returned(c, "slave") => cur[c] = fid[c]

\* The commands of a single client are atomic: its EXECs, based on lookups
\* made earlier, do what the operation would do to the tree at that instant.
RefinesAtomicVfs == Vfs!Spec

----------------------------------------------------------------------------
(* What the comments of redis_classes.hpp say.                             *)

\* rmdir, "check for empty dirent": RMD deletes a directory that is empty.
EmptyDirectoryRemoved ==
    [][\A c \in Clients :
        Returned(c, "target") /\ cmd[c] = "RMD" /\ cur[c] \in Fids \ {0}
            /\ stat[cur[c]] = "dir" /\ (\A n \in Entries : dirent[cur[c]][n] \notin Fids)
        => at'[c] # "idle"]_vars

\* rename, "add new entry": the entry is added to the parent of the new path.
RenamesIntoNewParent ==
    \A c \in Clients : Returned(c, "newparent") /\ cur[c] # NoFid =>
        cur[c] = Vfs!Resolve(ParentOf(path[c]))

----------------------------------------------------------------------------
(* Liveness.                                                               *)

\* Every command ends, or waits for a slave, whatever the other clients do
\* to the tree meanwhile; the only exception is lookup_fid of a path that goes
\* astray, which loops for ever.
CommandsEnd ==
    \A c \in Clients :
        []<>(at[c] \in {"idle", "store"}) \/ <>[](Spins(c) /\ Astray(c))

=============================================================================
