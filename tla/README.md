# A TLA+ development of clusterftpd

clusterftpd is a distributed FTP server in C++.  A *metaserver* speaks FTP on
the control connections and keeps a virtual file system in redis; the bytes of
the files lie on *slaves*, which the metaserver calls over thrift and which open
the data connections to the peers themselves.  This directory holds TLA+
specifications of its core, the configurations that TLC checks them with, and
proofs that TLAPS checks.

`PROJECT.json` relates each definition to the lines it models, each property to
a mutation of the code that breaks it, and lists the hazards the properties are
for.  Paths below are relative to `src/src/`.

## The system

| Component | State | Operations | Interacts through |
|---|---|---|---|
| Client session (`CFtpServer/CFtpServer.cpp`: `Shell`, `ListThread`, `RetrieveThread`, `StoreThread`, `ResetDataConnection`) | one `CClientEntry` per control connection: `eStatus`, `eDataConnection`, `DataSock`, `CurrentTransfer.TransferThreadID`, `bIsCtrlCanalOpen`, `ClientLock` | the FTP commands, the start, cancellation and end of a transfer thread, the end of the session | a Shell thread and a transfer thread share the entry; `ClientListLock` joins all sessions |
| Virtual file system (`redis_classes.hpp`: `redis_vfs`) | redis: `fid_counter`, `dirent:<fid>`, `stat:<fid>` | `mkdir`, `rmdir`, `remove`, `rename`, `get_new_fid`, `save_new_file`, `lookup_fid`, `lookup_slave_info`, `stat`, `opendir` | every session has a redis connection, used by its Shell and its transfer thread |
| Transfers (`CFtpServer.cpp`: PRET, PASV, PORT, RETR, STOR; `slaveserver-cpp/slave_servicesHandler.hpp`) | per session `nPRET_CMD`, `llPRET_fid`, `llPRET_trans_id`, `SlaveInfo`; redis `transaction_counter`; per slave `mDataSock` and the files | `InitPasvDataConnection`, `OpenPasvDataConnection`, the four transfer calls | thrift calls, each on a connection of its own |
| Listening and accepting (`StartListening`, `StopListening`, `StartAcceptingEx`, `AddClient`) | `ListeningSock`, `bIsListening`, `bIsAccepting`, the list of clients and its count | start, stop, accept | `FtpServerLock`, `ClientListLock`, a thread that is cancelled |
| User accounts (`USER`, `PASS`, `AddUser`, `DeleteUser`, `SearchUserFromLogin`) | the list of `CUserEntry`, their counters; redis `username:<login>` | login, logout, deletion | `UserListLock`, the sessions' `pUser` |
| Control channel (`ReceiveLine`, `ParseLine`) | the buffer and its three counters, `tTimeoutTime` | receive, split, time out | the peer |
| Paths (`BuildPath`, `BuildVirtualPath`, `SimplifyPath`) | none | a pure algorithm on C strings | every command with a path |
| Choice of data ports | `DataPortRange` | two copies of one loop | PASV, `InitPasvDataConnection` |
| Listings (`ListThread`, `CEnumFileInfo`, `AddToListBuffer`, `opendir`, `readdir`) | the copied directory, a buffer | fill the buffer, send it when full | the data connection, `eStatus` and the clock of the session |
| Configuration, logging, thrift stubs, MODE Z, WIN32 | - | formatting, start-up, generated or uncompiled code | - |

### Where it is hard

* **Ownership of a session's entry.**  Two threads use it, and the last one
  deletes it.  Which one that is, each reads from a flag the other writes.
* **Cancellation.**  ABOR ends a transfer with `pthread_cancel`, wherever the
  thread happens to be: at a lock, in `close`, or already at its end, with the
  handle in another state than when it was read.
* **Lock order and lock loss.**  The end of a session takes `ClientListLock` and
  then `ClientLock`; so does the end of a transfer, which ABOR may be waiting for.
* **Replies overtake state.**  A transfer sends its `226` before it resets the
  session: the next command may run between the two, or between the two writes
  of the reset.
* **Stale lookups.**  A path is resolved one `HGETALL` at a time and the result
  used in a `MULTI`/`EXEC` that watches nothing.
* **Lookup loops.**  `lookup_fid` repeats a read that finds nothing.
* **Calls that nobody waits for.**  A slave hears neither of ABOR nor of the end
  of a session, and goes on under an old fid and transaction id.
* **Two copies of an account.**  Each login has a `CUserEntry` of its own, made
  from redis; a running upload reads the session's, which USER replaces.
* **Flags without a lock.**  The accepting thread ends by clearing two flags that
  the callers of the server set and test under `FtpServerLock`.
* **Three counters, one buffer.**  `ReceiveLine` keeps the rest of a segment, a
  line that has begun and a line that is flushed in one buffer.
* **Strings edited in place.**  `SimplifyPath` cuts segments out and starts again.
* **Three calls, one transfer.**  PASV, RETR's `OpenPasv` and the transfer itself
  rely on a fid, a slave and a transaction that were looked up at different
  times; a slave may restart in between.

### What makes each component correct

* Session: the entry is freed once, after its last use; an ended session is
  freed; one transfer at a time; ABOR stops the transfer and returns; no lock is
  lost; an acknowledged PORT or PASV holds until it is used.
* Virtual file system: a new fid is nobody else's; files stay files and
  directories stay directories; lookups end; for one client the commands are
  atomic and the tree a tree.
* Transfers: two calls never share a data socket; a name leads to a file that
  its slave has; that file is never written again; a passive RETR asks a slave
  that has the file.
* Listening and accepting: the list of clients stays well formed under its two
  locks; no accepting thread goes on with a socket that is no longer the server's.
* Accounts: an operation is one that the session's account may do, on its paths,
  whatever was sent before, also as another user; wrong passwords are bounded;
  an upload keeps its owner; the lock of all logins is released.
* Control channel: lines arrive as they were sent, however they are segmented;
  a session is timed out when it is quiet, and not before.
* Paths: `..` never leads out of the user's directory, and each path means what
  its names mean.
* Data ports: a client is told a port of the range, and its own session listens
  there, whoever else looks for one at the same time.
* Listings: whole lines, in order, however they fill the buffer.

## Modules

### ClientSession

One `CClientEntry` per element of `Clients`, its Shell, and transfer threads
from `Threads`.  A step goes from one point where another thread can interleave
to the next: taking a lock, a cancellation point, a blocking call, a read without
a lock.  `shell[c]` and `thread[t]` are program counters, the other variables
bear the names of the fields.

| Model | Code |
|---|---|
| `Accept` | `AddClient` and the start of `Shell` |
| `CmdPortOrPasv`, `Port`, `Pasv`, `CmdPasvSlave`, `InitPasvReturn` | PORT, PASV with and without PRET |
| `CmdList`, `OpenDataConnection`, `CmdTransfer`, `OpenPasvReturn`, `Spawn`, `SpawnFails` | LIST/NLST/STAT, RETR/STOR/APPE/STOU up to `pthread_create` |
| `CmdAbor`, `ResetEnter`, `ReadTransferThreadID`, `CancelTransfer`, `JoinTransfer`, `ResetLeave` | ABOR and `ResetDataConnection(true)`; the lock is released around cancel and join, and the handle read three times |
| `CmdQuit`, `ExitEnterList` ... `ExitLeaveList` | the end of `Shell`, by QUIT or when the channel ends |
| `FinishWork`, `ActOnCancel`, `TailEnterList` ... `TailLeaveList` | the transfer, and the end of each of the three transfer threads with `ResetDataConnection(false)` |

`TailReset` and `TailClear` are two steps because `eStatus` and `eDataConnection`
are read without a lock: a peer that already has its `226` can be served between
the two writes.

What the peers do matters, and is the constant `Peer`.  RETR and STOR do not
look at `eStatus`, so that a peer that does not wait ("overlapping") can have two
transfers; "orderly" peers send RETR and STOR only after an acknowledged PORT or
PASV, "strict" ones LIST and NLST too.  An orderly peer may ABOR or leave at any
point.

A `pthread_t` that is dead when Shell uses it is undefined behaviour.  It is
reachable even with orderly peers, when a transfer ends by itself while ABOR has
the lock released; `staleHandle` records it, and the call is taken to fail.  That
the session survives then is what `AborStopsTransfer` and `AborReturns` say.

`EntryLifetime` is the abstract specification: a reference-counted object.
`RefinesLifetime` says that the flags implement it, with `Holders(c)`, the
threads that may still touch the entry, as the mapping.

### RedisVfs

Redis as three variables, and one action per redis command of each client.  An
operation is a sequence of lookups (`LookUp`, `Walk`), each of which reads one
directory per step, and a transaction (`MkdirExec`, `SaveExec`, `RemoveExec`,
`RenameExec`).  `Spin` is `lookup_fid`'s loop at a hash that does not exist.
STOU and APPE are STOR as far as the tree is concerned.

Every directory has a field of its own that is no entry, `.placeholder`, or
`.foo` in the root, which keeps its hash from vanishing.  No code forbids a peer
these names: STOR overwrites the field, and DELE takes it away, or deletes
`dirent:0` with `.foo`, after which every lookup of every session loops.  The
history variable `touched` has the directories whose field an `EXEC` has named;
what `NeverSpinsInDirectory` and `CommandsEnd` say of the other directories does
not depend on the peers (`Astray`).

Left out: renaming the root, RNTO without RNFR (undefined behaviour in the
code), and the replies of two operations of one session that use its redis
connection at once, which the code does not keep apart.

`AtomicVfs` is the abstract specification: each command resolves its paths and
changes the tree in one step.

### SlaveTransfer

Sessions as the transfers see them, and the calls that the slaves have.
`at[s]` tells what the session waits for; `call[w]` is a call with its
transaction, fid, session, and whether anybody still waits for it.

| Model | Code |
|---|---|
| `Port`, `Pret`, `PasvLocal`, `Pasv`, `Transfer`, `Delete`, `Abor`, `Leave` | the commands of `Shell` |
| `NoThread`, `Allocate`, `Find`, `ActiveCall`, `PassiveCall`, `NoCall`, `Save` | `StoreThread` and `RetrieveThread` |
| `InitPasvDataConnection`, `OpenPasvDataConnection`, `Retrieve`, `StoreOpens`, `StoreFails`, `Received` | the handler of the slave |
| `CallFails`, `Crash` | a `TException`; a restart of the slave |

What the peers do is again a constant: `Populations` is a set of functions from
sessions to "orderly", "any" and "none", one of which `Init` chooses as the
variable `peer`.  An orderly peer sends PRET, PASV and the transfer in this order,
one transfer after the other; "any" sends any command at any time; "none" sends
nothing.  The two properties of stored files hold for all of them, those of
transactions and of routing for orderly ones.

A call and its answer may be lost, separately.  The data socket is not a
variable: what may happen to it is in the outcomes of the calls.  The names are
those of one directory, and lookups are atomic here (RedisVfs has their steps).
That a transfer is over when ABOR answers, on which `Abor` relies, is
ClientSession's `AborStopsTransfer`, proved there.

### Paths, CommandLine and UserAccounts

`Paths` has `SimplifyPath`, `BuildVirtualPath` and `BuildPath` on sequences of
characters, loop by loop as the code edits them in place (`Repeat` is a `while`
whose every turn shortens the path), with the sizes of their buffers.  Beside
them stands what a path means: `Place` walks over its names, one directory after
the other.  `Resolves` compares the two.  CDUP appends "/.." to the working directory
with `strncat`, whose array has room for it up to `MAX_PATH` - 3 characters;
`Parent` has room for it always.  `CommandLine` is `ParseLine`, with its
switches as they are (XMMD is RMD, XPWD is nothing).

`UserAccounts` has the commands of a session that need no data connection, the
accounts in redis, which an administrator changes at any time, and an upload that
runs beside Shell.

| Model | Code |
|---|---|
| `User`, `SearchUser`, `UserReply` | USER: `LogOut`; `SearchUserFromLogin` under `UserListLock`; the answer, sent with the lock held |
| `Pass`, `CheckPassword`, `PassReply` | PASS, with its tries |
| `Cwd` ... `Other`, `End` | the commands with a path, their privileges, and the end of Shell |
| `SaveFile` | `StoreThread` reads `pUser` for `save_new_file` |
| `ChangeAccount`, `AddUser`, `DeleteUser` | the account in redis; the list at `pFirstUser` |

`call[s]` is what the last command has asked of `redis_vfs`; what redis does with
it is in RedisVfs.  The counter of logins is in each session's own entry, so that
it never exceeds one, and `DeleteUser` compares pointers that are never equal:
both as in the code.

### ControlChannel and Listing

`ControlChannel` is `ReceiveLine`, one character of the scan per step, with
`select` and its timeout, as the Shell calls it.  The peer may send any segment
that fits the buffer.  `Listing` extends it with `ListThread`, which shares
`eStatus` and the clock with Shell: `FindFirst`, `FindNext` and `Entry` are
`CEnumFileInfo` over the directory that `opendir` has copied, `AddToListBuffer`
and `Flush` fill and send the buffer (the line of NLST is the name alone, without
CRLF, CFtpServer.cpp:2873), `EndOfList` and `ResetTimeout` are two steps
because Shell may look at the clock between them.

### FtpServer

The `CFtpServer` object: callers of `StartListening`, `StopListening`,
`StartAccepting` and `SetDataPortRange`, the accepting threads, the list of
clients as its four pointers, and as much of the Shells as reads or changes
these.  A listening socket is the port it is bound to.  The clients come to one
address of the host, where their data ports meet.

| Model | Code |
|---|---|
| `StartListening`, `StopListening`, `StopCancel`, `StopJoin`, `StopReturn` | the calls of these names; `StartListening` calls `StopListening` first, without the lock |
| `StartAccepting`, `StartedAccepting` | `pthread_create`, and `bIsAccepting = true` after it |
| `AcceptingBegins`, `Accept`, `AddClient`, `AddClientFails`, `CreateShell`, `CreateShellFails`, `DeleteUnlink`, `DeleteEnds` | the loop of `StartAcceptingEx` |
| `AcceptFails`, `EndAccepting`, `EndListening`, `ActOnCancel` | its end, and its cancellation |
| `PasvBegins`, `TryPort`, `Listen` | PASV: `socket` and the first port, a turn of the loop with its `bind`, `listen` |
| `Connect`, `ResetDataConnection`, `Unlink`, `Delete` | the client comes; the rest of the Shells |

`bind` fails where another socket listens, but not where one is only bound
(`SO_REUSEADDR`), so that two sessions may come to `listen` with one port, of which
the second fails: it gets no reply, and its socket stays (`Occupied`).

Deleting an entry takes two steps, its neighbours and then the ends of the list,
because the accepting thread does it without `ClientListLock` when it cannot
create a Shell.  Two variables record where the code gives no guarantee: `raced`,
that such a deletion, without the lock, met another change of the list, and `lateEnd`, that an ended
accepting thread cleared the flag of a later call.

## Runs

| Run | Module, cfg | Shows |
|---|---|---|
| `session` | MCClientSession | two orderly sessions, two transfer threads: entry never used after its deletion, one transfer at a time, `ResetDataConnection(false)` resets the thread that calls it, no lock lost, ABOR stops the transfer, PORT and PASV never cancel anything; ClientSession implements EntryLifetime |
| `session_strict` | MCClientSessionStrict | an acknowledged data connection survives the tail of the transfer before it; an ended session is freed; ABOR returns |
| `session_self` | MCClientSessionSelf | *violation*, see findings |
| `vfs` | MCRedisVfs | two clients, any commands, one of them on `.placeholder` too: types, new fids unseen, no loop at a directory whose placeholder nobody named, no object changes its type, every other command ends |
| `vfs_one` | MCRedisVfsOne | one client: no dangling entry, one name per object, the slave is that of the file, RedisVfs implements AtomicVfs |
| `vfs_rmdir`, `vfs_rename` | MCRedisVfsRmdir, MCRedisVfsRename | *violations*, see findings |
| `slaves` | MCSlaveTransfer | two orderly peers on one name, or one that sends anything; two slaves: no shared transaction, linked files are stored and not written again, passive RETR is routed to a slave that has the file |
| `accounts` | MCUserAccounts | USER, PASS and commands in any order, also during an upload: operations are allowed and below the start directory, logins are as named, wrong passwords bounded, uploads keep their owner, the lock is released; every path of `Asked` is resolved as its names mean, from every working directory |
| `control` | MCListing | lines as sent, listings whole, timeouts for quiet sessions only, select ends |
| `accept` | MCFtpServer | the client list is well formed, no stray accepting thread; of the sessions that have bound one port, the one that is told it listens there alone |
| `accept_range` | MCFtpServerRange | *violation*, see findings |

### Bounds

* ClientSession: two clients are needed for one to hold `ClientListLock` against
  the other; a third adds only another holder.  Two threads let a session start
  a transfer while the one before is in its tail; with orderly peers no third
  can be under way.  What no step reads again is kept out of the fingerprint
  (`LiveState`): the fields of an entry that has been freed, `target` and `cont`
  outside `ResetDataConnection`, the owner of a thread that has ended.  No
  property but the types reads them either, so that two states with one fingerprint satisfy the
  same properties and have the same steps.  In `session_strict`, which has liveness, `FewCommands`
  leaves one of the two sessions everything that strict peers send, and the other
  no more than PORT, RETR and an ABOR that finds no thread: the argument is about the
  transfer and the end of one session, and about another one that holds
  `ClientListLock` meanwhile.  The liveness is checked for strict peers: an orderly
  one may in addition send LIST between the two writes of a tail's reset, which adds
  a way to start a transfer and none to end one or a session.
* RedisVfs: two clients are one stale lookup and one change; with `MaxFid` 2 both
  create an object, or one deletes what the other is looking up and creates it
  again.  One name at two depths makes a name
  change between file and directory and lets paths go through it.  One of the
  clients names `.placeholder` below it, and a path through that, while the other
  names an ordinary entry there (`PlaceholderNamed`).  `vfs_one`
  has two names at two levels and the two paths with `.placeholder`, so that
  renames have somewhere to go, and four fids.  The field of the root, `.foo`, which is
  another `.placeholder`, is named in the proofs only.
* SlaveTransfer: two slaves to route wrongly to, two calls for one left behind
  and one that is new, two transactions for the same reason, two fids for a file
  and the one that replaces it.  One file exists at the start, as after an
  earlier run, so that the bounds are spent on what happens to it.
  A peer that sends anything is alone, which leaves it the calls and slaves.
  The fields of a session that PRET, PASV and PORT overwrite before
  anything reads them are kept out of the fingerprint (`LiveState`).
  `CommandsApart` keeps orderly peers to PASV and STOR, and the other one to APPE
  for its uploads, which differs from STOR only in what PRET looks up; the
  proofs have all of them.
* UserAccounts: one session, since two meet only at `UserListLock`, and a USER
  that left it locked would block the next USER of the same session too.  One
  account with a password that may be disabled, and one without: all outcomes of
  USER and PASS.  Two tries of three.  Buffers of eight characters let paths be
  cut at every place; `Asked` are 18 paths, one for each form that `SimplifyPath`
  distinguishes and for its ends, from every working directory and start directory.
  No command reads the list of users, which therefore changes only while nobody
  is logged in (`ListApart`).
* Listing: a buffer of four characters holds an empty line, whole lines, two lines
  at once and lines that are too long, in all segments; while a listing runs, at
  most three characters are in it (`ListingApart`).  Three entries of two
  units fill a listing buffer of three at both parities.  The timeouts are one and
  two seconds, so that they are told apart.
* FtpServer: two callers, for a call between the steps of another; two accepting
  threads, for the one after a failure; three clients, for a middle of the list,
  and, before they come, two that send PASV, for one port that both want
  (`PortsApart`): the list and the data ports have `FtpServerLock` in common alone.
  Once one of these two has connected the server goes on accepting and the range
  changes.  Of a range of one port that port is busy, and of one of two ports the one
  beyond, for the ends of the scan; a client that listens on another makes it fail.
  A run ends when both `raced` and `lateEnd` have happened (`Promised`), after
  which no property says anything.

Symmetry is used for clients, threads, sessions, slaves and calls, and only where
the specification does not tell them apart and no liveness property is checked.
`control` disables the deadlock check, because its session ends and nothing comes
after it, and so does `session_self`, whose overlapping peer uses up the threads.  Elsewhere a server with nothing to do still takes commands, and `Idle`
marks the end of ClientSession, whose clients come once.

### Fairness

* `FairSpec` of ClientSession: weak fairness of each Shell's own steps and of the
  ends of the transfer threads, which the operating system schedules.  Peers
  need not send, slaves need not answer; `EndedSessionFreed` therefore assumes
  that no transfer blocks for ever, `AborReturns` does not.  `ClientListLock` is
  modelled without fairness of its own: a lock held is released in a bounded
  number of such steps, and the clients are finitely many and come once, so that
  nobody is overtaken for ever.
* `FairSpec` of RedisVfs: weak fairness of the steps of an operation that has
  begun.  A STOR waits for its slave without it.
* `FairSpec` of UserAccounts: weak fairness of the steps of USER and PASS after
  the command has been read.  They wait for redis, for the lock and for the peer
  to take a reply; a peer that does not read its replies stops them, and all
  other logins with them (CFtpServer.cpp:886).
* `FairSpec` of Listing: weak fairness of Shell, of ListThread and of the clock.
  The peer need not send anything; the sends of ListThread end.
* SlaveTransfer and FtpServer have none: their properties are of safety.

## Findings

1. `session_self`: `ResetDataConnection(false)` at the end of a transfer thread,
   "do not wait sync on self", resets whatever `TransferThreadID` names, which is
   a second transfer's thread when the peer has not waited: RETR and STOR do not
   check `eStatus`.  The second transfer goes on in a session that is WAITING.
2. `vfs_rmdir`: `rmdir` tests "for empty dirent" by a length of 0, but every
   directory has a placeholder field: RMD never removes a directory.
3. `vfs_rename`: `rename` adds the new entry to the *old* parent, although it has
   computed the path of the new one.
4. `accept_range`: PASV gives out the port `usStart + usLen`.  CFtpServer.h:207 says
   that `usLen` is "the Number of Ports, including the First", and CFtpServer.cpp:67
   that 100 and 900 are the "TCP Ports [100;999]".  The loop goes there as soon as
   the port it begins with is taken.

## Proofs

TLAPS proves, for every value of the constants, from the assumptions that the
modules state about them.  A theorem that needs more says so as its premise: the
kind of peers (`Orderly`, strict), `OneClient`.  The premises are what the runs
have, too.  Of the assumptions, one restricts what an administrator does:
`StartDirectoriesAssumption`, that a start directory is an absolute path without
"..", "." and slashes too many, and leaves room in the buffer of `BuildPath`.
Longer ones by one character are those of which a cut path leads to the parent.

**ClientSessionProofs** (any sets of clients and threads; for the safety theorems
`Orderly`, that is, peers that do not overlap transfers).  `TypeCorrect` needs no
such premise: it says of any peers that a thread between Enter and Leave of
`ClientListLock` holds it (`ListSections`).  The other properties are not inductive, and follow from `IInv`:
`LockInv` (who holds a lock is at a point that guards it, and the reverse),
`ThreadInv` (a thread that uses an entry uses a live one), `TransferInv` (a
thread in its transfer is the one that `TransferThreadID` names, and the session
is not WAITING), `HandleInv` (the handles that Shell has read are of its own
threads, and none is missed), `ShellInv` (Shell has a live entry, and at which
points no transfer is under way), `TailInv` (after the end of Shell, the ending
transfer is the only one).  Theorems: `UseAfterFreeFreedom`,
`TransfersSerialised`, `ResetIsSelf`, `LocksSurviveCancel`, `AborStops`.

A session of strict peers needs more: `StrictInv` says that a thread between the
two writes of `ResetDataConnection(false)` is alone in its session, and that no
command has got past it (`AcknowledgedHolds`).  `PortCancelsNothing` follows from
`ShellInv`.

For the refinement `HolderInv` says that a session which
is not WAITING has a transfer, but for the points at which Shell has just failed to
create one or is in ABOR, and that the control channel is open while Shell uses its
entry.  With it and `IInv` each action of ClientSession is an action of
EntryLifetime under the mapping `Holders`, or leaves it alone, and the initial
states agree: `ImplementsLifetime`.

**RedisVfsProofs** (any number of clients, names and paths).  What a client knows
may be stale but is never of the future: `CounterInv` says that no fid above
`fid_counter` is in redis or in a client's hands.  A fid from `INCR` is therefore
new, and stays unseen until its client's `EXEC`, because lookups only find what
an entry names (`CreatingInv`).  `DirectoryInv` keeps the field that a directory was made with, unless a peer has
named it (`touched`), `PointInv` tells which variables are known where.  The lemma `Kinds`
divides the steps of `Next` into fourteen kinds of change, and each part of the
invariant is proved for each kind.  Theorems: `TypeCorrect`, `FreshFids`,
`LookupsLeaveDirectories`, `TypesAreStable`.  Peers may use any names.

The second half is about one client, with any names, paths and fids, and no
command of the root itself.  An operation resolves a path two or three times, and nothing
changes in between.  The first lookup leaves a way, one fid for each name of the
path (`Leads`), of which `WayInv` says that it is still in `dirent`; the later one
goes along this way, since a directory has one entry of a name.  So the entry
that a transaction removes names the object it deletes.  `LinkInv` says that every
object has one name and the root none.  Theorems: `NothingDangles`, `OneName`,
`SlaveFound`.

`Atomic` is the refinement: RedisVfs implements AtomicVfs.  There, a path is
resolved by a recursive function, which gives what the end of a way gives
(`Reaches`, by induction over the way), also if it leads nowhere.  `KnownInv` says
that what an operation has learned from its first lookup (for MKD, that there is no such
object, for DELE, that it is a file, for RMD, that it is empty) still holds
when it comes to its transaction, `GivenInv` that it is about the paths it was given.  Each
`EXEC` is then the step of AtomicVfs with the command's name; every other step
leaves the tree as it was.

**SlaveTransferProofs** (any numbers of sessions, slaves, calls, fids and names).
`UploadInv` gives the two properties of stored files for any peers: `PointsOK` and
`LinksOK` say that the fids of entries, of the sessions and of the calls were
given out and that a fid is one upload's; `UploadsOK` ties the fid of a session
that waits for its slave to its call, `StoredOK` says that an upload which was
answered with a size is on the slave, `WritesOK` and `WaitsOK` that a call nobody
waits for has a fid that is no longer to be linked.  `TransInv` adds, for orderly
peers, that a transaction id above the ones in use is new and that a slave was
told it only by its session (`ToldOK`); `RouteInv` that what PRET found stays on
that slave.  Theorems: `TypeCorrect`, `LinkedStored`, `LinkedNotWritten`,
`TransactionsDistinct`, `RetrieveRouted`.

**FtpServerProofs** (any numbers of callers, accepting threads, clients and
ports).  `LockInv` says that the caller inside `StopListening` or `StartAccepting`
is the one that `FtpServerLock` names.  `RunningInv` says that a thread which has not
left its loop is `AcceptingThreadID`, that `bIsAccepting` is true then unless a
caller is about to set it, and that the caller with the lock has not just joined it.
`SocketInv` and `LoopInv` relate the flags to the socket: a thread in its loop has
the server's.  The exception is `lateEnd`, the race that is described below.
Theorem: `NoThreadAstray`.

For the list of clients, `ClientListInv` relates the four pointers to an
order of the entries, the witness of `ClientListConsistent`: `Order` says that the
pointers follow it and that it has each entry of the list once, `Left` what an
entry that is half taken out still knows of its place.  `OwnerInv` says that an
accepting thread has an entry of its own, and that a Shell which is deleting one
has `ClientListLock`.  AddClient appends to the order, the two steps of
`~CClientEntry` shorten it and correct the ends.  Nothing is claimed after `raced`.
Theorem: `ListConsistent`.

For the data ports, `ListenInv` says that of the sockets bound to a port at most one
listens, and no other program beside, and `ToldInv` that a client is told a port
only when its own does and that a Shell which looks for one has closed the last.
Theorem: `PortPromised`.  `RestInv` adds what `TypeCorrect` needs beyond these.

**ListingProofs** (any buffer, timeouts, directories, hidden and long names, any
peer).  `LineInv` ties the three counters of `ReceiveLine` to the history: with
the line that is being scanned as the line begun, the characters that are still in
the buffer call for exactly the lines and 500s that are owed to the peer and not
given yet.  `Called`, which says what characters call for, is a fold; the proofs go
one character at a time.  `ListInv` says that what has been sent and what is in the listing
buffer are together the lines of the entries that readdir has taken, and what is
left of the copied directory are the others; `QuietInv` that the clock of Shell
never runs ahead of the time that the channel has been quiet, but for a
transfer.  Theorems: `TypeCorrect`, `LinesCorrect`, `ListingCorrect`,
`TimeoutCorrect`.

**PathsProofs** (all paths, any characters and any `MAX_PATH`).  A reading is what a
walk over a path has at one of its characters: the place so far, and the name that
has begun (`ReadAll`).  Reading a path is reading its halves (`ReadConcat`), so
that what is cut between two places with the same reading changes nothing after
it (`CutReading`): the second of two slashes, "./" behind a slash, "/.." with
the name before it.  `RepeatProperties` is induction over the turns of a loop: what
each turn preserves holds at the end, and no turn is left to do, since each
shortens the path.  After the first loops a path is `Tidy`, after that
over "/.." it is `Settled`, and a settled path is spelled as its place is
(`Spelled`, `Canonical`).  That is `SimplifyPathFollowsNames`: for every absolute path,
`SimplifyPath` is the path of the place that its names lead to.  A path that is
cut after its third character still leads down (`PathCutOff`, `WalkCutOff`); only
a cut to "/.." would not, and the premise on start directories leaves the virtual
path four characters of the buffer.  With this `BuildPathResolves` is `Resolves` for all start
directories, working directories and arguments.  `ParentDropsName` is CDUP.

**NaturalRecursion** has what these proofs need of numbers: induction over a set
instead of a predicate, also up to a bound, and that functions defined by
recursion exist, with a function in the place of the step.  The library's
theorems, which take an operator, cannot be used.

**UserAccountsProofs** (any sessions, accounts and command lines).  Where a session
is in USER or PASS tells whose its `pUser` is (`NamedInv`); a wrong password is one
of the tries that PASS has counted before (`TriesInv`); only USER makes a session
with an upload one that is no longer logged in (`UploadInv`).  Theorems:
`LoggedInAs`, `PasswordsBounded`, `UploadOwned`.

The working directory of a session is always the path of a place (`WorkingDirs`):
CWD sets it to what `BuildVirtualPath` returns, CDUP to a parent, a logout to the
root (`WorkingDirsClosed`, `PathOfAccount`).  `AllowedInv` says this, and that `pUser`
is a copy of an account that was in redis, with one login counted or none, that a
path of RNFR is there only while its session stays logged in, and has been checked
for its user, and that an operation has the privilege that its command has looked for.
Theorems: `TypeCorrect`, `OperationsAllowed`, and `PathsAlwaysResolved`, which is
`BuildPathResolves` for each state that a session comes to.

Only model-checked is liveness (`EndedSessionFreed`, `AborReturns`, `CommandsEnd`,
`LockReleased`, `SelectEnds`), which is out of the prover's reach; every invariant and
every other property of a passing run is proved.  The four violations are runs of TLC.

## Where the code and its comments differ

Beside the findings, these were met while modelling.  The models do what the code
does; no property says what the comment says.

* `max_logins` is compared with the counter of an entry that this login alone has
  (CFtpServer.cpp:940): the maximum of CFtpServer.h:807 is never reached.
* `DeleteUser` disconnects no client, for the same reason (CFtpServer.h:602).
* `IsAccepting` (CFtpServer.h:181) stays true after `StopListening`, which cancels
  the thread that would clear the flag: no later `StartAccepting` does anything,
  and a second `StopListening` cancels a thread that has been joined.
* After an error of `accept` the socket stays bound: `StartListening` on the same
  port fails.
* PASV never tries the ports of the range below its first: 451, "No more data port
  available", may come while they are free (CFtpServer.cpp:1228).  When `listen` fails,
  PASV has no reply.
* The address in PORT is compared with the client's when FXP is enabled, and not when
  it is disabled (CFtpServer.cpp:1125 against CFtpServer.h:299).
* `SetTransferBufferSize` does not enforce the minimum of CFtpServer.h:324.
* A session that is logged in and sends PASS gets `230`, and then `530`.
* XPWD is not recognised; XMMD is RMD.
* The end of a line that is too long, with letters of it and more behind it in the
  same segment, leaves `ReceiveLine` at the wrong place (CFtpServer.cpp:1939).
* USER during an upload changes the owner of the file, or leaves `StoreThread`
  with a null `pUser` (CFtpServer.cpp:2510, 2556).
* A listing ends without a word at an entry whose path is too long
  (CFtpServer.cpp:2971), and `226` follows a send that has failed.

## What is left

1. **FileSize**: the 32-bit conversions of `stat`, REST and APPE, and the offset at
   which a slave writes; with it, whether an upload that resumes is complete.
2. **Redis replies**: a connection's pending replies under cancellation, composed
   with RedisVfs.  hiredis leaves undefined what two threads on one connection do.
3. ClientSession composed with SlaveTransfer, so that `Abor` is the join itself.

## Not modelled

PORT's address and the data port that the server binds its end to; the argument of
PRET, which `sscanf` copies into two arrays without a bound (CFtpServer.cpp:1149);
the text of replies and listings, logging and configuration files (no state that
the program depends on); MODE Z and the WIN32 branches (not compiled); thrift's
generated stubs (SlaveTransfer has a call and its answer); contents, sizes,
owners and times of files; `uiNumberOfClient`, which only `GetNumberOfClient`
reads; the destructor of CFtpServer; the setters of a `CUserEntry` that no login
ever finds.
