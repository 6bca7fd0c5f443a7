---------------------------- MODULE UserAccounts ----------------------------
(***************************************************************************)
(* Accounts, logins and privileges in CFtpServer.cpp: the commands of Shell *)
(* that need no data connection, with the paths that they hand to          *)
(* redis_vfs, and the list of users of AddUser and DeleteUser.              *)
(*                                                                         *)
(* An account is a hash of redis that an administrator may change at any   *)
(* time.  SearchUserFromLogin copies it into a new CUserEntry, which the   *)
(* session keeps until its next USER; a running upload reads the session's *)
(* entry when it saves its file.  Shell answers USER and PASS while it     *)
(* holds UserListLock.                                                     *)
(*                                                                         *)
(* RedisVfs has what redis_vfs does with the paths, ClientSession the      *)
(* threads of a session and its end.  The privileges are a set, and a user *)
(* id is the login it belongs to.  Logins, passwords and paths are sequences *)
(* of characters, as in Paths.                                             *)
(***************************************************************************)
EXTENDS Paths, CommandLine

CONSTANTS
    Sessions,          \* the control connections
    Logins,            \* the names that an account can have
    Accounts,          \* bound: what the administrator stores for each login
    NoAccount,         \* username:<login> does not exist
    NoUser,            \* a null pUser
    MaxPasswordTries,  \* uiMaxPasswordTries; 0 if there is no limit
    TriesBound,        \* bounds: of nPasswordTries,
    Words,             \* the first words of the command lines,
    Args,              \* their arguments,
    Dirs,              \* the paths of the directories,
    Asked              \* and the arguments that PathsResolved looks at

ASSUME TriesAssumption == MaxPasswordTries \in Nat /\ TriesBound \in Nat

\* username:<login> of redis, and the copy of it for a session.
Account == [password : Path, enabled : BOOLEAN, max_logins : Nat, privileges : SUBSET STRING,
            start_directory : Path]
CUserEntry == [login : Path, clients : Nat, password : Path, enabled : BOOLEAN,
               max_logins : Nat, privileges : SUBSET STRING, start_directory : Path]

ASSUME LoginsAssumption == Logins \subseteq Path
ASSUME AccountsAssumption == \A l \in Logins : Accounts[l] \subseteq Account
ASSUME ArgumentsAssumption ==
    Args \subseteq Path \cup {NoPath} /\ Asked \subseteq Path \cup {NoPath} /\ NoPath \notin Dirs

\* A start directory is an absolute path that has no "..", "." or slash too many,
\* and leaves room for a slash and a character in the buffer of BuildPath.
ASSUME StartDirectoriesAssumption ==
    \A l \in Logins : \A record \in Accounts[l] :
        LET start == record.start_directory IN
        start = PathTo(Place(<<>>, start)) /\ Len(start) <= MAX_PATH - 2
ASSUME NoUserAssumption == NoUser \notin CUserEntry

\* What redis can have.
Stored == {f \in [Logins -> {NoAccount} \cup UNION {Accounts[l] : l \in Logins}] :
              \A l \in Logins : f[l] \in Accounts[l] \cup {NoAccount}}

Free == "free"  \* the owner of a lock that nobody holds
NoCall == <<>>
NoUpload == <<>>
NoPassword == <<>>
NoRename == <<>>  \* szRenameFromPath without RNFR

VARIABLES
    account,       \* redis: username:<login>
    UserListLock,  \* the session that holds it, or Free
    users,         \* the list that begins at pFirstUser: the logins in it
    at,            \* where Shell is
    arg,           \* pszCmdArg, while USER or PASS waits for the lock
    logged,        \* bIsLogged
    user,          \* pUser: the CUserEntry, or NoUser
    tries,         \* nPasswordTries
    cwd,           \* szWorkingDir
    renameFrom,    \* szRenameFromPath
    upload,        \* the transfer thread that runs StoreThread: for whom it was
                   \* started, and whether the peer has sent USER since
    call,          \* what the last command has asked of redis_vfs or a slave
    named,         \* history: the argument of the last USER that had one,
    failures       \* and how many PASS have been answered 530

conversation == <<at, arg, UserListLock>>
login == <<logged, user, tries>>
history == <<named, failures>>
vars == <<account, users, conversation, login, cwd, renameFrom, upload, call, history>>

Init ==
    /\ account \in Stored
    /\ UserListLock = Free
    /\ users = {}
    /\ at = [s \in Sessions |-> "read"]
    /\ arg = [s \in Sessions |-> NoPath]
    /\ logged = [s \in Sessions |-> FALSE]
    /\ user = [s \in Sessions |-> NoUser]
    /\ tries = [s \in Sessions |-> 0]
    /\ cwd = [s \in Sessions |-> Slash]
    /\ renameFrom = [s \in Sessions |-> NoRename]
    /\ upload = [s \in Sessions |-> NoUpload]
    /\ call = [s \in Sessions |-> NoCall]
    /\ named = [s \in Sessions |-> NoPath]
    /\ failures = [s \in Sessions |-> 0]

----------------------------------------------------------------------------
(* USER and PASS.                                                          *)

\* Mutant: the path of RNFR is kept.
LogOutKeepsRename(s) ==
    /\ logged' = [logged EXCEPT ![s] = FALSE]
    /\ user' = [user EXCEPT ![s] = NoUser]
    /\ cwd' = [cwd EXCEPT ![s] = Slash]
    /\ UNCHANGED renameFrom

LogOut(s) ==
    /\ logged' = [logged EXCEPT ![s] = FALSE]
    /\ user' = [user EXCEPT ![s] = NoUser]
    /\ cwd' = [cwd EXCEPT ![s] = Slash]
    /\ renameFrom' = [renameFrom EXCEPT ![s] = NoRename]

\* ++uiNumberOfClient of an entry that nobody else has.
LogIn(s, entry) ==
    /\ logged' = [logged EXCEPT ![s] = TRUE]
    /\ user' = [user EXCEPT ![s] = [entry EXCEPT !.clients = @ + 1]]

\* A session that is not logged in keeps its working directory and pUser.
User(s, a) ==
    /\ IF logged[s] THEN LogOut(s) ELSE UNCHANGED <<logged, user, cwd, renameFrom>>
    /\ upload' = [upload EXCEPT ![s] = IF @ = NoUpload THEN @ ELSE [@ EXCEPT !.user_sent = TRUE]]
    /\ at' = [at EXCEPT ![s] = IF a = NoPath THEN "read" ELSE "user"]
    /\ arg' = [arg EXCEPT ![s] = a]
    /\ named' = [named EXCEPT ![s] = IF a = NoPath THEN @ ELSE a]
    /\ call' = [call EXCEPT ![s] = NoCall]
    /\ UNCHANGED <<account, users, UserListLock, tries, failures>>

Lock(s) == UserListLock = Free /\ UserListLock' = s
Unlock(s) == UserListLock = s /\ UserListLock' = Free

CopyOf(l, record) ==
    [login |-> l, clients |-> 0, password |-> record.password, enabled |-> record.enabled,
     max_logins |-> record.max_logins, privileges |-> record.privileges,
     start_directory |-> record.start_directory]

\* SearchUserFromLogin: a new CUserEntry, or NULL.
Found(l) == IF l \in Logins /\ account[l] # NoAccount THEN CopyOf(l, account[l]) ELSE NoUser

\* Mutant: pUser is kept if there is no such account.
SearchUserKeeps(s) ==
    LET entry == IF Found(arg[s]) = NoUser THEN user[s] ELSE Found(arg[s]) IN
    /\ at[s] = "user" /\ Lock(s)
    /\ IF entry # NoUser /\ entry.enabled /\ entry.password = NoPassword
       THEN LogIn(s, entry)
       ELSE user' = [user EXCEPT ![s] = entry] /\ UNCHANGED logged
    /\ at' = [at EXCEPT ![s] = "reply"]
    /\ arg' = [arg EXCEPT ![s] = NoPath]
    /\ UNCHANGED <<account, users, tries, cwd, renameFrom, upload, call, history>>

\* An account without a password is logged in at once.  The entry is NULL if
\* redis cannot be reached.
SearchUser(s) ==
    /\ at[s] = "user" /\ Lock(s)
    /\ \E entry \in {Found(arg[s]), NoUser} :
        IF entry # NoUser /\ entry.enabled /\ entry.password = NoPassword
        THEN LogIn(s, entry)
        ELSE user' = [user EXCEPT ![s] = entry] /\ UNCHANGED logged
    /\ at' = [at EXCEPT ![s] = "reply"]
    /\ arg' = [arg EXCEPT ![s] = NoPath]
    /\ UNCHANGED <<account, users, tries, cwd, renameFrom, upload, call, history>>

\* The answer to USER has been sent.
UserReply(s) ==
    /\ at[s] = "reply" /\ Unlock(s)
    /\ at' = [at EXCEPT ![s] = "read"]
    /\ UNCHANGED <<account, users, arg, login, cwd, renameFrom, upload, call, history>>

\* Mutant: one try too many.
TooManyTriesOffByOne(n) == MaxPasswordTries # 0 /\ n > MaxPasswordTries
TooManyTries(n) == MaxPasswordTries # 0 /\ n >= MaxPasswordTries

\* A session that is logged in gets 230, and then is disconnected or gets 530
\* all the same.
Pass(s, a) ==
    /\ tries[s] < TriesBound
    /\ tries' = [tries EXCEPT ![s] = @ + 1]
    /\ IF logged[s]
       THEN /\ at' = [at EXCEPT ![s] = IF TooManyTries(tries'[s]) THEN "closed" ELSE "read"]
            /\ UNCHANGED arg
       ELSE /\ at' = [at EXCEPT ![s] = "pass"]
            /\ arg' = [arg EXCEPT ![s] = a]
    /\ call' = [call EXCEPT ![s] = NoCall]
    /\ UNCHANGED <<account, users, UserListLock, logged, user, cwd, renameFrom, upload, history>>

Accepts(entry, password) ==
    /\ entry # NoUser /\ entry.enabled
    /\ entry.password \in {password, NoPassword}
    /\ entry.max_logins = 0 \/ entry.clients < entry.max_logins

CheckPassword(s) ==
    /\ at[s] = "pass" /\ Lock(s)
    /\ IF Accepts(user[s], arg[s]) THEN LogIn(s, user[s]) ELSE UNCHANGED <<logged, user>>
    /\ at' = [at EXCEPT ![s] = "checked"]
    /\ arg' = [arg EXCEPT ![s] = NoPath]
    /\ UNCHANGED <<account, users, tries, cwd, renameFrom, upload, call, history>>

\* Mutant: the lock is kept when the session is disconnected.
PassReplyLocked(s) ==
    /\ at[s] = "checked" /\ UserListLock = s
    /\ UserListLock' = IF ~logged[s] /\ TooManyTries(tries[s]) THEN s ELSE Free
    /\ at' = [at EXCEPT ![s] = IF ~logged[s] /\ TooManyTries(tries[s]) THEN "closed" ELSE "read"]
    /\ failures' = [failures EXCEPT ![s] = IF logged[s] THEN @ ELSE @ + 1]
    /\ UNCHANGED <<account, users, arg, login, cwd, renameFrom, upload, call, named>>

PassReply(s) ==
    /\ at[s] = "checked" /\ Unlock(s)
    /\ at' = [at EXCEPT ![s] = IF ~logged[s] /\ TooManyTries(tries[s]) THEN "closed" ELSE "read"]
    /\ failures' = [failures EXCEPT ![s] = IF logged[s] THEN @ ELSE @ + 1]
    /\ UNCHANGED <<account, users, arg, login, cwd, renameFrom, upload, call, named>>

----------------------------------------------------------------------------
(* The commands of a session that is logged in.                            *)

CheckPrivileges(s, privilege) ==
    logged[s] /\ user[s] # NoUser /\ privilege \in user[s].privileges

PathOf(s, a) == BuildPath(user[s].start_directory, cwd[s], a)

\* What s asks of redis_vfs, and that nothing but its paths changes.
Asks(s, what) ==
    /\ call' = [call EXCEPT ![s] = what]
    /\ UNCHANGED <<account, users, conversation, login, history>>

\* Mutant: the argument becomes the working directory as it is.
CwdAsAsked(s, a) ==
    /\ IF a # NoPath /\ PathOf(s, a) \in Dirs THEN cwd' = [cwd EXCEPT ![s] = a] ELSE UNCHANGED cwd
    /\ Asks(s, NoCall)
    /\ UNCHANGED <<renameFrom, upload>>

\* redis_vfs::stat of a path that exists, a directory, or does not.
Cwd(s, a) ==
    /\ IF a # NoPath /\ PathOf(s, a) \in Dirs
       THEN cwd' = [cwd EXCEPT ![s] = BuildVirtualPath(cwd[s], a)]
       ELSE UNCHANGED cwd
    /\ Asks(s, NoCall)
    /\ UNCHANGED <<renameFrom, upload>>

Cdup(s) ==
    /\ cwd' = [cwd EXCEPT ![s] = Parent(cwd[s])]
    /\ Asks(s, NoCall)
    /\ UNCHANGED <<renameFrom, upload>>

Rnfr(s, a) ==
    /\ IF CheckPrivileges(s, "DELETEFILE") /\ a # NoPath /\ PathOf(s, a) # NoPath
       THEN renameFrom' \in {renameFrom, [renameFrom EXCEPT ![s] = PathOf(s, a)]}
       ELSE UNCHANGED renameFrom
    /\ Asks(s, NoCall)
    /\ UNCHANGED <<cwd, upload>>

\* No privilege is asked for; szRenameFromPath, an array, is never null.
Rnto(s, a) ==
    /\ IF a = NoPath THEN Asks(s, NoCall) /\ UNCHANGED renameFrom
       ELSE /\ Asks(s, IF PathOf(s, a) = NoPath THEN NoCall
                       ELSE [op |-> "rename", path |-> PathOf(s, a), from |-> renameFrom[s]])
            /\ renameFrom' = [renameFrom EXCEPT ![s] = NoRename]
    /\ UNCHANGED <<cwd, upload>>

\* What redis has at the path decides whether the operation is asked for.
MayAsk(s, op, path) ==
    /\ \E what \in {NoCall} \cup (IF path = NoPath THEN {} ELSE {[op |-> op, path |-> path]}) :
        Asks(s, what)
    /\ UNCHANGED <<cwd, renameFrom, upload>>

Refused(s) == Asks(s, NoCall) /\ UNCHANGED <<cwd, renameFrom, upload>>

Dele(s, a) ==
    IF CheckPrivileges(s, "DELETEFILE") /\ a # NoPath
    THEN MayAsk(s, "remove", PathOf(s, a)) ELSE Refused(s)

Mkd(s, a) ==
    IF CheckPrivileges(s, "CREATEDIR") /\ a # NoPath
    THEN MayAsk(s, "mkdir", PathOf(s, a)) ELSE Refused(s)

Rmd(s, a) ==
    IF CheckPrivileges(s, "DELETEDIR") /\ a # NoPath
    THEN MayAsk(s, "rmdir", PathOf(s, a)) ELSE Refused(s)

\* SIZE, and MDTM like it, need no privilege.
Size(s, a) == IF a # NoPath THEN MayAsk(s, "stat", PathOf(s, a)) ELSE Refused(s)

\* LIST and NLST, and STAT with an argument; none is the working directory.
List(s, a) ==
    IF CheckPrivileges(s, "LIST") /\ upload[s] = NoUpload
    THEN MayAsk(s, "list", PathOf(s, a)) ELSE Refused(s)

Retr(s, a) ==
    IF CheckPrivileges(s, "READFILE") /\ a # NoPath
    THEN MayAsk(s, "retrieve", PathOf(s, a)) ELSE Refused(s)

\* STOR and APPE begin an upload, if the data connection can be opened.
Stor(s, a) ==
    /\ IF CheckPrivileges(s, "WRITEFILE") /\ a # NoPath /\ PathOf(s, a) # NoPath
            /\ upload[s] = NoUpload
       THEN upload' \in {upload, [upload EXCEPT ![s] =
                               [user |-> user[s], user_sent |-> FALSE]]}
            /\ Asks(s, IF upload' = upload THEN NoCall
                       ELSE [op |-> "store", path |-> PathOf(s, a)])
       ELSE UNCHANGED upload /\ Asks(s, NoCall)
    /\ UNCHANGED <<cwd, renameFrom>>

\* NOOP, TYPE, PWD and the like, and a line that is no command.
Other(s) == Refused(s)

\* Mutant: QUIT logs out.
EndLogsOut(s) ==
    /\ at' = [at EXCEPT ![s] = "closed"]
    /\ call' = [call EXCEPT ![s] = NoCall]
    /\ LogOut(s)
    /\ UNCHANGED <<account, users, arg, UserListLock, tries, upload, history>>

\* Shell ends, by QUIT or because the peer is gone; pUser stays.
End(s) ==
    /\ at' = [at EXCEPT ![s] = "closed"]
    /\ call' = [call EXCEPT ![s] = NoCall]
    /\ UNCHANGED <<account, users, arg, UserListLock, login, cwd, renameFrom, upload, history>>

Command(s, command, a) ==
    \/ command = "USER" /\ User(s, a)
    \/ command = "PASS" /\ Pass(s, a)
    \/ command = "QUIT" /\ End(s)
    \/ logged[s] /\ command = "CWD" /\ Cwd(s, a)
    \/ logged[s] /\ command = "CDUP" /\ Cdup(s)
    \/ logged[s] /\ command = "RNFR" /\ Rnfr(s, a)
    \/ logged[s] /\ command = "RNTO" /\ Rnto(s, a)
    \/ logged[s] /\ command = "DELE" /\ Dele(s, a)
    \/ logged[s] /\ command = "MKD" /\ Mkd(s, a)
    \/ logged[s] /\ command = "RMD" /\ Rmd(s, a)
    \/ logged[s] /\ command \in {"SIZE", "MDTM"} /\ Size(s, a)
    \/ logged[s] /\ command \in {"LIST", "NLST", "STAT"} /\ List(s, a)
    \/ logged[s] /\ command = "RETR" /\ Retr(s, a)
    \/ logged[s] /\ command \in {"STOR", "APPE"} /\ Stor(s, a)
    \/ /\ command \notin {"USER", "PASS", "QUIT"}
       /\ \/ ~logged[s]
          \/ command \notin {"CWD", "CDUP", "RNFR", "RNTO", "STOR", "APPE", "DELE", "MKD", "RMD",
                            "SIZE", "MDTM", "LIST", "NLST", "STAT", "RETR"}
       /\ Other(s)

Shell(s) ==
    /\ at[s] = "read"
    /\ \/ \E word \in Words : LET command == ParseLine(word) IN
            \E a \in Args : Command(s, command, a)
       \/ End(s)

----------------------------------------------------------------------------
(* The transfer thread, other connections and the administrator.           *)

\* StoreThread: the slave has stored the data, and save_new_file gets the uid
\* of pUser (a null pointer then ends the process); or there is no data.
SaveFile(s) ==
    /\ upload[s] # NoUpload
    /\ upload' = [upload EXCEPT ![s] = NoUpload]
    /\ UNCHANGED <<account, users, conversation, login, cwd, renameFrom, call, history>>

\* The entry of a session that has ended is deleted; a new client connects.
Connect(s) ==
    /\ at[s] = "closed" /\ upload[s] = NoUpload
    /\ at' = [at EXCEPT ![s] = "read"]
    /\ logged' = [logged EXCEPT ![s] = FALSE]
    /\ user' = [user EXCEPT ![s] = NoUser]
    /\ tries' = [tries EXCEPT ![s] = 0]
    /\ cwd' = [cwd EXCEPT ![s] = Slash]
    /\ renameFrom' = [renameFrom EXCEPT ![s] = NoRename]
    /\ call' = [call EXCEPT ![s] = NoCall]
    /\ named' = [named EXCEPT ![s] = NoPath]
    /\ failures' = [failures EXCEPT ![s] = 0]
    /\ UNCHANGED <<account, users, arg, UserListLock, upload>>

ChangeAccount(l) ==
    /\ \E record \in Accounts[l] \cup {NoAccount} : account' = [account EXCEPT ![l] = record]
    /\ UNCHANGED <<users, conversation, login, cwd, renameFrom, upload, call, history>>

\* AddUser looks for the login in redis only, and no login ever finds the
\* entry that it makes.  Bound: one user in the list.
AddUser(l) ==
    /\ UserListLock = Free /\ account[l] = NoAccount /\ users = {}
    /\ users' = users \cup {l}
    /\ UNCHANGED <<account, conversation, login, cwd, renameFrom, upload, call, history>>

\* DeleteUser compares every pUser with an entry of the list: none is one.
DeleteUser(l) ==
    /\ UserListLock = Free /\ l \in users
    /\ users' = users \ {l}
    /\ UNCHANGED <<account, conversation, login, cwd, renameFrom, upload, call, history>>

----------------------------------------------------------------------------
Login(s) == SearchUser(s) \/ UserReply(s) \/ CheckPassword(s) \/ PassReply(s)

Next ==
    \/ \E s \in Sessions : Shell(s) \/ Login(s) \/ SaveFile(s) \/ Connect(s)
    \/ \E l \in Logins : ChangeAccount(l) \/ AddUser(l) \/ DeleteUser(l)

Spec == Init /\ [][Next]_vars

\* Redis answers, and peers read their replies: a session that waits for
\* neither the lock nor its peer goes on.
FairSpec == Spec /\ \A s \in Sessions : WF_vars(Login(s))

----------------------------------------------------------------------------
(* Type correctness.                                                       *)

\* The privilege that an operation needs.
Needed == [op \in {"rename", "remove", "mkdir", "rmdir", "store", "list", "retrieve"} |->
    CASE op \in {"rename", "remove"} -> "DELETEFILE"
      [] op = "mkdir" -> "CREATEDIR"
      [] op = "rmdir" -> "DELETEDIR"
      [] op = "store" -> "WRITEFILE"
      [] op = "list" -> "LIST"
      [] op = "retrieve" -> "READFILE"]

Entry(user_entry) ==
    /\ user_entry.login \in Logins /\ user_entry.clients \in 0..1
    /\ \E record \in Accounts[user_entry.login] :
        [user_entry EXCEPT !.clients = 0] = CopyOf(user_entry.login, record)

\* Every variable has its type; szWorkingDir is an absolute path without "..".
TypeOK ==
    /\ account \in Stored
    /\ UserListLock \in Sessions \cup {Free} /\ users \subseteq Logins
    /\ at \in [Sessions -> {"read", "user", "reply", "pass", "checked", "closed"}]
    /\ arg \in [Sessions -> Args \cup {NoPath}] /\ named \in [Sessions -> Args \cup {NoPath}]
    /\ logged \in [Sessions -> BOOLEAN]
    /\ \A s \in Sessions :
        /\ user[s] = NoUser \/ Entry(user[s])
        /\ tries[s] \in 0..TriesBound /\ failures[s] \in 0..tries[s]
        /\ StartsWith(cwd[s], Slash) /\ cwd[s] = PathTo(Place(<<>>, cwd[s]))
        /\ upload[s] = NoUpload \/ Entry(upload[s].user)
        /\ call[s] = NoCall \/ call[s].op \in {"stat"} \cup DOMAIN Needed

----------------------------------------------------------------------------
(* Safety.                                                                 *)

\* Whatever the peer has sent before, also as another user, the operation that
\* its command makes is one that its account may do, and on paths of that
\* account.  RNTO, which checks nothing itself, renames a path that RNFR has
\* checked for the same login, or none.
OperationAllowed ==
    \A s \in Sessions :
        call[s] # NoCall =>
            /\ logged[s]
            /\ Below(call[s].path, user[s].start_directory)
            /\ call[s].op = "rename" =>
                call[s].from = NoRename \/ Below(call[s].from, user[s].start_directory)
            /\ call[s].op # "stat" /\ (call[s].op = "rename" => call[s].from # NoRename) =>
                Needed[call[s].op] \in user[s].privileges

\* Every path that a command can name is resolved as it should be: what
\* SimplifyPath makes of "..", "." and slashes, wherever the session is and
\* whatever the start directory of its user, also where the buffer ends.
PathsResolved ==
    \A s \in Sessions : logged[s] =>
        \A asked \in Asked :
            Resolves(Place(<<>>, user[s].start_directory), Place(<<>>, cwd[s]), asked)

\* A session is logged in as the account that its last USER has named, which
\* was enabled then, even if earlier ones named others.
LoggedInAsNamed ==
    \A s \in Sessions : logged[s] =>
        user[s] # NoUser /\ user[s].login = named[s] /\ user[s].enabled

\* The peer gets no further PASS after MaxPasswordTries wrong ones, however
\* they are mixed with USER and with logins that succeed.
WrongPasswordsBounded ==
    MaxPasswordTries # 0 =>
        \A s \in Sessions : at[s] # "closed" => failures[s] < MaxPasswordTries

\* The file of an upload belongs to the user whose privilege STOR has checked,
\* and StoreThread finds a user, whatever the session does meanwhile, its end
\* included, unless its peer sends USER.
UploadKeepsOwner ==
    \A s \in Sessions :
        upload[s] # NoUpload /\ ~upload[s].user_sent => user[s] = upload[s].user

----------------------------------------------------------------------------
(* Liveness.                                                               *)

\* No session keeps the lock that all logins need.
LockReleased == \A s \in Sessions : UserListLock = s ~> UserListLock # s

=============================================================================
