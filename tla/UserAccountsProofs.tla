------------------------- MODULE UserAccountsProofs -------------------------
(***************************************************************************)
(* Proofs about UserAccounts, for any number of sessions, any accounts and  *)
(* any command lines.                                                      *)
(*                                                                         *)
(* What a session is in the middle of (at) tells what its pUser is: of the *)
(* login that USER has named, or nobody's; and a session that is not logged *)
(* in has no upload but one that USER has interrupted.  An operation has    *)
(* the privilege that its command checked, as long as no USER takes it back.*)
(***************************************************************************)
EXTENDS UserAccounts, PathsProofs

USE DEF conversation, login, history

\* A running upload.
Uploads == [user : CUserEntry, user_sent : BOOLEAN]

\* The variables that matter here have their types.
SessionTypes ==
    /\ at \in [Sessions -> {"read", "user", "reply", "pass", "checked", "closed"}]
    /\ account \in [Logins -> Account \cup {NoAccount}]
    /\ logged \in [Sessions -> BOOLEAN]
    /\ user \in [Sessions -> CUserEntry \cup {NoUser}]
    /\ tries \in [Sessions -> Nat] /\ failures \in [Sessions -> Nat]
    /\ upload \in [Sessions -> Uploads \cup {NoUpload}]
    /\ DOMAIN arg = Sessions /\ DOMAIN named = Sessions

\* pUser is that of the login that the last USER has named, or NULL; while
\* USER waits for the lock, it may still be that of the one before.
NamedInv(s) ==
    /\ logged[s] => at[s] \notin {"user", "pass"} /\ user[s] # NoUser /\ user[s].enabled
    /\ at[s] = "user" => arg[s] = named[s]
    /\ at[s] # "user" /\ user[s] # NoUser => user[s].login = named[s]

\* Each wrong password is one of the tries, and PASS counts its own before it
\* is checked.
TriesInv(s) ==
    /\ failures[s] <= tries[s]
    /\ at[s] \in {"pass", "checked"} => failures[s] < tries[s]
    /\ MaxPasswordTries # 0 /\ at[s] # "closed" => failures[s] < MaxPasswordTries

\* USER is the only way to be no longer logged in.
UploadInv(s) ==
    upload[s] # NoUpload /\ ~upload[s].user_sent => logged[s] /\ user[s] = upload[s].user

SessionInv(s) == NamedInv(s) /\ TriesInv(s) /\ UploadInv(s)
AccountsInv == SessionTypes /\ \A s \in Sessions : SessionInv(s)

LEMMA InitAccounts == Init => AccountsInv
<1> SUFFICES ASSUME Init PROVE AccountsInv
  OBVIOUS
<1>1. account \in [Logins -> Account \cup {NoAccount}]
  BY AccountsAssumption DEF Init, Stored, Account
<1>2. SessionTypes
  <2>1. /\ at \in [Sessions -> {"read", "user", "reply", "pass", "checked", "closed"}]
        /\ logged \in [Sessions -> BOOLEAN]
        /\ user \in [Sessions -> CUserEntry \cup {NoUser}]
    BY DEF Init
  <2>2. tries \in [Sessions -> Nat] /\ failures \in [Sessions -> Nat]
    BY DEF Init
  <2>3. upload \in [Sessions -> Uploads \cup {NoUpload}]
    BY DEF Init
  <2>4. DOMAIN arg = Sessions /\ DOMAIN named = Sessions
    BY DEF Init
  <2>5. QED
    BY <1>1, <2>1, <2>2, <2>3, <2>4 DEF SessionTypes
<1>3. ASSUME NEW s \in Sessions PROVE SessionInv(s)
  <2>1. /\ at[s] = "read" /\ ~logged[s] /\ user[s] = NoUser
        /\ upload[s] = NoUpload /\ tries[s] = 0 /\ failures[s] = 0
    BY DEF Init
  <2>2. NamedInv(s) /\ UploadInv(s)
    BY <2>1 DEF NamedInv, UploadInv
  <2>3. TriesInv(s)
    BY <2>1, TriesAssumption DEF TriesInv
  <2>4. QED
    BY <2>2, <2>3 DEF SessionInv
<1>4. QED
  BY <1>2, <1>3 DEF AccountsInv

\* What AccountsInv reads of a session.
Same(t) ==
    /\ at'[t] = at[t] /\ arg'[t] = arg[t] /\ named'[t] = named[t]
    /\ logged'[t] = logged[t] /\ user'[t] = user[t] /\ upload'[t] = upload[t]
    /\ tries'[t] = tries[t] /\ failures'[t] = failures[t]

\* A step of one session leaves the others alone.
LEMMA Alone ==
    ASSUME AccountsInv, SessionTypes', NEW s \in Sessions, SessionInv(s)',
           \A t \in Sessions \ {s} : Same(t)
    PROVE  AccountsInv'
<1>1. \A t \in Sessions \ {s} : SessionInv(t)'
  BY DEF AccountsInv, SessionInv, NamedInv, TriesInv, UploadInv, Same
<1>2. QED
  BY <1>1 DEF AccountsInv

LEMMA Unread ==
    AccountsInv /\ UNCHANGED <<account, at, arg, named, logged, user, upload, tries, failures>>
    => AccountsInv'
BY DEF AccountsInv, SessionTypes, SessionInv, NamedInv, TriesInv, UploadInv

\* SearchUserFromLogin returns a new entry with what redis has.
LEMMA FoundEntry ==
    ASSUME SessionTypes, NEW l, Found(l) # NoUser
    PROVE  Found(l) \in CUserEntry /\ Found(l).login = l
<1>1. l \in Logins /\ account[l] # NoAccount /\ Found(l) = CopyOf(l, account[l])
  BY DEF Found
<1>2. account[l] \in Account
  BY <1>1 DEF SessionTypes
<1>3. QED
  BY <1>1, <1>2, LoginsAssumption DEF CUserEntry, Account, CopyOf

\* LogIn counts the login and changes nothing else in the entry.
LEMMA Counted ==
    ASSUME NEW entry \in CUserEntry
    PROVE  LET new == [entry EXCEPT !.clients = @ + 1] IN
           /\ new \in CUserEntry /\ new # NoUser
           /\ new.login = entry.login /\ new.enabled = entry.enabled
BY NoUserAssumption DEF CUserEntry

----------------------------------------------------------------------------
\* A command that leaves the login and the upload as they are.
LEMMA Plainly ==
    ASSUME AccountsInv, NEW s \in Sessions, NEW command, NEW a,
           \/ Cwd(s, a) \/ Cdup(s) \/ Rnfr(s, a) \/ Rnto(s, a) \/ Dele(s, a) \/ Mkd(s, a)
           \/ Rmd(s, a) \/ Size(s, a) \/ List(s, a) \/ Retr(s, a) \/ Other(s)
    PROVE  AccountsInv'
BY Unread DEF Cwd, Cdup, Rnfr, Rnto, Dele, Mkd, Rmd, Size, List, Retr, Other, MayAsk, Refused, Asks

LEMMA UserStep ==
    ASSUME AccountsInv, NEW s \in Sessions, NEW a, at[s] = "read", User(s, a) PROVE AccountsInv'
<1> USE DEF AccountsInv
<1>1. /\ account' = account /\ tries' = tries /\ failures' = failures
      /\ at' = [at EXCEPT ![s] = IF a = NoPath THEN "read" ELSE "user"]
      /\ arg' = [arg EXCEPT ![s] = a]
      /\ named' = [named EXCEPT ![s] = IF a = NoPath THEN @ ELSE a]
      /\ upload' = [upload EXCEPT ![s] =
                       IF @ = NoUpload THEN @ ELSE [@ EXCEPT !.user_sent = TRUE]]
  BY DEF User
<1>2. \/ logged[s] /\ logged' = [logged EXCEPT ![s] = FALSE] /\ user' = [user EXCEPT ![s] = NoUser]
      \/ ~logged[s] /\ logged' = logged /\ user' = user
  BY DEF User, LogOut
<1>3. upload'[s] = NoUpload \/ (upload'[s] \in Uploads /\ upload'[s].user_sent)
  BY <1>1 DEF SessionTypes, Uploads
<1>4. SessionTypes'
  <2>1. upload' \in [Sessions -> Uploads \cup {NoUpload}]
    BY <1>1, <1>3 DEF SessionTypes
  <2>2. QED
    BY <1>1, <1>2, <2>1 DEF SessionTypes
<1>5. NamedInv(s)'
  BY <1>1, <1>2 DEF SessionTypes, SessionInv, NamedInv
<1>6. TriesInv(s)' /\ UploadInv(s)'
  BY <1>1, <1>3 DEF SessionTypes, SessionInv, TriesInv, UploadInv
<1>7. \A t \in Sessions \ {s} : Same(t)
  BY <1>1, <1>2 DEF Same, SessionTypes
<1>8. QED
  BY <1>4, <1>5, <1>6, <1>7, Alone DEF SessionInv

LEMMA PassStep ==
    ASSUME AccountsInv, NEW s \in Sessions, NEW a, at[s] = "read", Pass(s, a) PROVE AccountsInv'
<1> USE DEF AccountsInv
<1>1. /\ account' = account /\ failures' = failures /\ logged' = logged /\ user' = user
      /\ named' = named /\ upload' = upload
      /\ tries' = [tries EXCEPT ![s] = @ + 1]
  BY DEF Pass
<1>2. PICK place \in {"closed", "read", "pass"} :
        /\ at' = [at EXCEPT ![s] = place]
        /\ place = "pass" => ~logged[s]
  BY DEF Pass
<1>3. arg' = arg \/ arg' = [arg EXCEPT ![s] = a]
  BY DEF Pass
<1>4. SessionTypes'
  BY <1>1, <1>2, <1>3 DEF SessionTypes
<1>5. NamedInv(s)'
  BY <1>1, <1>2 DEF SessionTypes, SessionInv, NamedInv
<1>6. TriesInv(s)' /\ UploadInv(s)'
  BY <1>1, <1>2 DEF SessionTypes, SessionInv, TriesInv, UploadInv
<1>7. \A t \in Sessions \ {s} : Same(t)
  BY <1>1, <1>2, <1>3 DEF Same, SessionTypes
<1>8. QED
  BY <1>4, <1>5, <1>6, <1>7, Alone DEF SessionInv

LEMMA StorStep ==
    ASSUME AccountsInv, NEW s \in Sessions, NEW a, at[s] = "read", logged[s], Stor(s, a)
    PROVE  AccountsInv'
<1> USE DEF AccountsInv
<1>1. UNCHANGED <<account, at, arg, named, logged, user, tries, failures>>
  BY DEF Stor, Asks
<1>2. \/ upload' = upload
      \/ upload' = [upload EXCEPT ![s] = [user |-> user[s], user_sent |-> FALSE]]
  BY DEF Stor
<1>3. user[s] \in CUserEntry
  BY DEF SessionTypes, SessionInv, NamedInv
<1>4. SessionTypes'
  <2>1. [user |-> user[s], user_sent |-> FALSE] \in Uploads
    BY <1>3 DEF Uploads
  <2>2. upload' \in [Sessions -> Uploads \cup {NoUpload}]
    BY <1>2, <2>1 DEF SessionTypes
  <2>3. QED
    BY <1>1, <2>2 DEF SessionTypes
<1>5. NamedInv(s)' /\ TriesInv(s)'
  BY <1>1 DEF SessionInv, NamedInv, TriesInv
<1>6. UploadInv(s)'
  BY <1>1, <1>2 DEF SessionTypes, SessionInv, UploadInv
<1>7. \A t \in Sessions \ {s} : Same(t)
  BY <1>1, <1>2 DEF Same, SessionTypes
<1>8. QED
  BY <1>4, <1>5, <1>6, <1>7, Alone DEF SessionInv

LEMMA CloseStep ==
    ASSUME AccountsInv, NEW s \in Sessions, End(s), at[s] = "read" PROVE AccountsInv'
<1> USE DEF AccountsInv
<1>1. /\ UNCHANGED <<account, arg, named, logged, user, upload, tries, failures>>
      /\ at' = [at EXCEPT ![s] = "closed"]
  BY DEF End
<1>2. SessionTypes' /\ SessionInv(s)'
  BY <1>1 DEF SessionTypes, SessionInv, NamedInv, TriesInv, UploadInv
<1>3. QED
  BY <1>1, <1>2, Alone DEF Same, SessionTypes

LEMMA ShellStep == ASSUME AccountsInv, NEW s \in Sessions, Shell(s) PROVE AccountsInv'
<1>1. CASE End(s)
  BY <1>1, CloseStep DEF Shell
<1>2. ASSUME NEW command, NEW a, Command(s, command, a) PROVE AccountsInv'
  <2>1. at[s] = "read"
    BY DEF Shell
  <2>2. QED
    BY <1>2, <2>1, UserStep, PassStep, StorStep, CloseStep, Plainly DEF Command
<1>3. QED
  BY <1>1, <1>2 DEF Shell

----------------------------------------------------------------------------
LEMMA SearchStep == ASSUME AccountsInv, NEW s \in Sessions, SearchUser(s) PROVE AccountsInv'
<1> USE DEF AccountsInv
<1>1. /\ UNCHANGED <<account, tries, upload, named, failures>>
      /\ at[s] = "user" /\ at' = [at EXCEPT ![s] = "reply"]
      /\ arg' = [arg EXCEPT ![s] = NoPath]
  BY DEF SearchUser
<1>2. PICK entry \in {Found(arg[s]), NoUser} :
        IF entry # NoUser /\ entry.enabled /\ entry.password = NoPassword
        THEN LogIn(s, entry)
        ELSE user' = [user EXCEPT ![s] = entry] /\ UNCHANGED logged
  BY DEF SearchUser
<1>3. entry # NoUser => entry \in CUserEntry /\ entry.login = named[s]
  BY <1>1, <1>2, FoundEntry DEF SessionInv, NamedInv
<1>4. PICK new \in CUserEntry \cup {NoUser} :
        /\ user' = [user EXCEPT ![s] = new]
        /\ new # NoUser => new.login = named[s]
        /\ \/ logged' = logged
           \/ logged' = [logged EXCEPT ![s] = TRUE] /\ new # NoUser /\ new.enabled
  <2>1. CASE entry # NoUser /\ entry.enabled /\ entry.password = NoPassword
    <3>1. entry \in CUserEntry
      BY <1>3, <2>1
    <3>2. QED
      BY <1>2, <1>3, <2>1, <3>1, Counted DEF LogIn
  <2>2. CASE ~(entry # NoUser /\ entry.enabled /\ entry.password = NoPassword)
    BY <1>2, <1>3, <2>2
  <2>3. QED
    BY <2>1, <2>2
<1>5. ~logged[s] /\ (upload[s] # NoUpload => upload[s].user_sent)
  BY <1>1 DEF SessionInv, NamedInv, UploadInv
<1>6. SessionTypes'
  BY <1>1, <1>4 DEF SessionTypes
<1>7. NamedInv(s)'
  BY <1>1, <1>4, <1>5 DEF NamedInv, SessionTypes
<1>8. TriesInv(s)' /\ UploadInv(s)'
  BY <1>1, <1>5 DEF SessionInv, TriesInv, UploadInv, SessionTypes
<1>9. \A t \in Sessions \ {s} : Same(t)
  BY <1>1, <1>4 DEF Same, SessionTypes
<1>10. QED
  BY <1>6, <1>7, <1>8, <1>9, Alone DEF SessionInv

LEMMA CheckStep == ASSUME AccountsInv, NEW s \in Sessions, CheckPassword(s) PROVE AccountsInv'
<1> USE DEF AccountsInv
<1>1. /\ UNCHANGED <<account, tries, upload, named, failures>>
      /\ at[s] = "pass" /\ at' = [at EXCEPT ![s] = "checked"]
      /\ arg' = [arg EXCEPT ![s] = NoPath]
  BY DEF CheckPassword
<1>2. ~logged[s] /\ (upload[s] # NoUpload => upload[s].user_sent)
  BY <1>1 DEF SessionInv, NamedInv, UploadInv
<1>3. \/ logged' = logged /\ user' = user
      \/ \E new \in CUserEntry :
            /\ logged' = [logged EXCEPT ![s] = TRUE]
            /\ user' = [user EXCEPT ![s] = new]
            /\ new # NoUser /\ new.enabled /\ new.login = named[s]
  <2>1. CASE Accepts(user[s], arg[s])
    <3>1. user[s] \in CUserEntry /\ user[s] # NoUser /\ user[s].enabled
      BY <2>1 DEF Accepts, SessionTypes
    <3>2. user[s].login = named[s]
      BY <1>1, <3>1 DEF SessionInv, NamedInv
    <3>3. LogIn(s, user[s])
      BY <2>1 DEF CheckPassword
    <3>4. QED
      BY <3>1, <3>2, <3>3, Counted DEF LogIn
  <2>2. CASE ~Accepts(user[s], arg[s])
    BY <2>2 DEF CheckPassword
  <2>3. QED
    BY <2>1, <2>2
<1>4. SessionTypes'
  <2>1. logged' \in [Sessions -> BOOLEAN] /\ user' \in [Sessions -> CUserEntry \cup {NoUser}]
    BY <1>3 DEF SessionTypes
  <2>2. /\ at' \in [Sessions -> {"read", "user", "reply", "pass", "checked", "closed"}]
        /\ DOMAIN arg' = Sessions
    BY <1>1 DEF SessionTypes
  <2>3. QED
    BY <1>1, <2>1, <2>2 DEF SessionTypes
<1>5. NamedInv(s)'
  <2>1. at'[s] = "checked" /\ named'[s] = named[s]
    BY <1>1 DEF SessionTypes
  <2>2. (logged'[s] = logged[s] /\ user'[s] = user[s])
        \/ (user'[s] # NoUser /\ user'[s].enabled /\ user'[s].login = named[s])
    BY <1>3 DEF SessionTypes
  <2>3. user[s] # NoUser => user[s].login = named[s]
    BY <1>1 DEF SessionInv, NamedInv
  <2>4. QED
    BY <1>2, <2>1, <2>2, <2>3 DEF NamedInv
<1>6. TriesInv(s)' /\ UploadInv(s)'
  BY <1>1, <1>2 DEF SessionInv, TriesInv, UploadInv, SessionTypes
<1>7. \A t \in Sessions \ {s} : Same(t)
  BY <1>1, <1>3 DEF Same, SessionTypes
<1>8. QED
  BY <1>4, <1>5, <1>6, <1>7, Alone DEF SessionInv

LEMMA ReplyStep ==
    ASSUME AccountsInv, NEW s \in Sessions, UserReply(s) \/ PassReply(s) PROVE AccountsInv'
<1> USE DEF AccountsInv
<1>1. CASE UserReply(s)
  <2>1. /\ UNCHANGED <<account, arg, named, logged, user, upload, tries, failures>>
        /\ at[s] = "reply" /\ at' = [at EXCEPT ![s] = "read"]
    BY <1>1 DEF UserReply
  <2>2. SessionTypes' /\ SessionInv(s)'
    BY <2>1 DEF SessionTypes, SessionInv, NamedInv, TriesInv, UploadInv
  <2>3. QED
    BY <2>1, <2>2, Alone DEF Same, SessionTypes
<1>2. CASE PassReply(s)
  <2>1. /\ UNCHANGED <<account, arg, named, logged, user, upload, tries>>
        /\ at[s] = "checked"
        /\ at' = [at EXCEPT ![s] =
                     IF ~logged[s] /\ TooManyTries(tries[s]) THEN "closed" ELSE "read"]
        /\ failures' = [failures EXCEPT ![s] = IF logged[s] THEN @ ELSE @ + 1]
    BY <1>2 DEF PassReply
  <2>2. SessionTypes'
    BY <2>1 DEF SessionTypes
  <2>3. TriesInv(s)'
    BY <2>1, TriesAssumption DEF SessionTypes, SessionInv, TriesInv, TooManyTries
  <2>4. NamedInv(s)' /\ UploadInv(s)'
    BY <2>1 DEF SessionTypes, SessionInv, NamedInv, UploadInv
  <2>5. QED
    BY <2>1, <2>2, <2>3, <2>4, Alone DEF Same, SessionTypes, SessionInv
<1>3. QED
  BY <1>1, <1>2

LEMMA SaveStep ==
    ASSUME AccountsInv, NEW s \in Sessions, SaveFile(s) PROVE AccountsInv'
<1> USE DEF AccountsInv
<1>1. /\ UNCHANGED <<account, at, arg, named, logged, user, tries, failures>>
      /\ upload' = [upload EXCEPT ![s] = NoUpload]
  BY DEF SaveFile
<1>2. SessionTypes' /\ SessionInv(s)'
  BY <1>1 DEF SessionTypes, SessionInv, NamedInv, TriesInv, UploadInv
<1>3. QED
  BY <1>1, <1>2, Alone DEF Same, SessionTypes

LEMMA ConnectStep ==
    ASSUME AccountsInv, NEW s \in Sessions, Connect(s) PROVE AccountsInv'
<1> USE DEF AccountsInv
<1>1. /\ account' = account /\ arg' = arg /\ upload' = upload /\ upload[s] = NoUpload
      /\ at' = [at EXCEPT ![s] = "read"]
      /\ logged' = [logged EXCEPT ![s] = FALSE]
      /\ user' = [user EXCEPT ![s] = NoUser]
      /\ tries' = [tries EXCEPT ![s] = 0]
      /\ named' = [named EXCEPT ![s] = NoPath]
      /\ failures' = [failures EXCEPT ![s] = 0]
  BY DEF Connect
<1>2. SessionTypes'
  BY <1>1 DEF SessionTypes
<1>3. SessionInv(s)'
  BY <1>1, TriesAssumption DEF SessionTypes, SessionInv, NamedInv, TriesInv, UploadInv
<1>4. QED
  BY <1>1, <1>2, <1>3, Alone DEF Same, SessionTypes

LEMMA AdministratorStep ==
    ASSUME AccountsInv, NEW l \in Logins, ChangeAccount(l) \/ AddUser(l) \/ DeleteUser(l)
    PROVE  AccountsInv'
<1> USE DEF AccountsInv
<1>1. UNCHANGED <<at, arg, named, logged, user, upload, tries, failures>>
  BY DEF ChangeAccount, AddUser, DeleteUser
<1>2. account' \in [Logins -> Account \cup {NoAccount}]
  BY AccountsAssumption DEF ChangeAccount, AddUser, DeleteUser, SessionTypes, Account
<1>3. SessionTypes'
  BY <1>1, <1>2 DEF SessionTypes
<1>4. \A s \in Sessions : SessionInv(s)'
  BY <1>1 DEF SessionInv, NamedInv, TriesInv, UploadInv
<1>5. QED
  BY <1>3, <1>4

LEMMA AccountsStep == AccountsInv /\ [Next]_vars => AccountsInv'
<1> SUFFICES ASSUME AccountsInv, [Next]_vars PROVE AccountsInv'
  OBVIOUS
<1>1. ASSUME NEW s \in Sessions, Shell(s) \/ Login(s) \/ SaveFile(s) \/ Connect(s)
      PROVE  AccountsInv'
  BY <1>1, ShellStep, SearchStep, CheckStep, ReplyStep, SaveStep, ConnectStep DEF Login
<1>2. ASSUME NEW l \in Logins, ChangeAccount(l) \/ AddUser(l) \/ DeleteUser(l)
      PROVE  AccountsInv'
  BY <1>2, AdministratorStep
<1>3. CASE UNCHANGED vars
  BY <1>3, Unread DEF vars
<1>4. QED
  BY <1>1, <1>2, <1>3 DEF Next

----------------------------------------------------------------------------
\* The inductive invariant of logins, tries and uploads.
THEOREM AccountsInvariance == Spec => []AccountsInv
BY InitAccounts, AccountsStep, PTL DEF Spec

\* A session that is logged in is so as the account that its last USER has
\* named, which was enabled then.
THEOREM LoggedInAs == Spec => []LoggedInAsNamed
<1>1. AccountsInv => LoggedInAsNamed
  BY DEF AccountsInv, SessionInv, NamedInv, LoggedInAsNamed
<1>2. QED
  BY <1>1, AccountsInvariance, PTL

\* No peer gets beyond MaxPasswordTries wrong passwords, for any maximum.
THEOREM PasswordsBounded == Spec => []WrongPasswordsBounded
<1>1. AccountsInv => WrongPasswordsBounded
  BY DEF AccountsInv, SessionInv, TriesInv, WrongPasswordsBounded
<1>2. QED
  BY <1>1, AccountsInvariance, PTL

\* An upload whose peer sends no USER finds the user that STOR has checked.
THEOREM UploadOwned == Spec => []UploadKeepsOwner
<1>1. AccountsInv => UploadKeepsOwner
  BY DEF AccountsInv, SessionInv, UploadInv, UploadKeepsOwner
<1>2. QED
  BY <1>1, AccountsInvariance, PTL

----------------------------------------------------------------------------
(* What a command asks for, and types.                                     *)

\* szWorkingDir is the path of a place.
WorkingDirs == {PathTo(place) : place \in Places}

\* CDUP leads out of no working directory.
LEMMA WorkingDirsClosed ==
    /\ Slash \in WorkingDirs
    /\ \A w \in WorkingDirs :
        /\ Place(<<>>, w) \in Places /\ w = PathTo(Place(<<>>, w))
        /\ StartsWith(w, Slash) /\ Parent(w) \in WorkingDirs
<1>1. Slash \in WorkingDirs
  <2>1. <<>> \in Places /\ PathTo(<<>>) = Slash
    BY NameTypes DEF PathTo
  <2>2. QED
    BY <2>1 DEF WorkingDirs
<1>2. ASSUME NEW w \in WorkingDirs
      PROVE  /\ Place(<<>>, w) \in Places /\ w = PathTo(Place(<<>>, w))
             /\ StartsWith(w, Slash) /\ Parent(w) \in WorkingDirs
  <2>1. PICK place \in Places : w = PathTo(place)
    BY DEF WorkingDirs
  <2>2. Place(<<>>, w) = place /\ StartsWith(w, Slash)
    BY <2>1, PlaceOfPath
  <2>3. PICK up \in Places : Parent(w) = PathTo(up)
    BY <2>1, ParentDropsName
  <2>4. QED
    BY <2>1, <2>2, <2>3 DEF WorkingDirs
<1>3. QED
  BY <1>1, <1>2

\* A start directory is the path of a place, and BuildPath resolves all paths
\* below it.
LEMMA StartDirectories ==
    ASSUME NEW l \in Logins, NEW record \in Accounts[l]
    PROVE  LET start == record.start_directory IN
           /\ Place(<<>>, start) \in Places /\ start = PathTo(Place(<<>>, start))
           /\ \A place \in Places, asked \in Path \cup {NoPath} :
                Resolves(Place(<<>>, start), place, asked)
<1> DEFINE start == record.start_directory
<1>1. start \in Path
  BY AccountsAssumption DEF Account
<1>2. start = PathTo(Place(<<>>, start)) /\ Len(start) <= MAX_PATH - 2
  BY StartDirectoriesAssumption
<1>3. Place(<<>>, start) \in Places
  BY <1>1, PlaceType, NameTypes
<1> HIDE DEF start
<1>4. Len(PathTo(Place(<<>>, start))) <= MAX_PATH - 2
  BY <1>2
<1>5. \A place \in Places, asked \in Path \cup {NoPath} :
        Resolves(Place(<<>>, start), place, asked)
  BY <1>3, <1>4, BuildPathResolves
<1>6. QED
  BY <1>2, <1>3, <1>5 DEF start

\* No argument leads BuildPath out of a start directory, or CWD out of the
\* working directories.
LEMMA PathOfAccount ==
    ASSUME NEW l \in Logins, NEW record \in Accounts[l], NEW w \in WorkingDirs, NEW a \in Args
    PROVE  LET path == BuildPath(record.start_directory, w, a) IN
           /\ path = NoPath \/ Below(path, record.start_directory)
           /\ path \in Dirs => BuildVirtualPath(w, a) \in WorkingDirs
<1> DEFINE start == record.start_directory
           path == BuildPath(start, w, a)
<1>1. PICK place \in Places : w = PathTo(place)
  BY DEF WorkingDirs
<1>2. a \in Path \cup {NoPath} /\ NoPath \notin Dirs
  BY ArgumentsAssumption
<1>3. start = PathTo(Place(<<>>, start)) /\ Resolves(Place(<<>>, start), place, a)
  BY <1>2, StartDirectories
<1>4. path = NoPath \/ Below(path, start)
  BY <1>1, <1>3 DEF Resolves
<1>5. ASSUME path # NoPath PROVE BuildVirtualPath(w, a) \in WorkingDirs
  <2>1. BuildVirtualPath(w, a) # NoPath
    BY <1>5 DEF BuildPath
  <2>2. PICK t \in Places : BuildVirtualPath(w, a) = Fits(PathTo(t))
    BY <1>1, <1>2, BuildVirtualPathFinds
  <2>3. PathTo(t) \in Path
    BY PathToProperties, NameTypes
  <2>4. Fits(PathTo(t)) = PathTo(t)
    BY <2>1, <2>2, <2>3, NoPathProperties
  <2>5. QED
    BY <2>2, <2>4 DEF WorkingDirs
<1>6. QED
  BY <1>2, <1>4, <1>5

\* The account that a session uses is a copy of one that redis had.
EntryInv(s) ==
    /\ user[s] = NoUser \/ Entry(user[s])
    /\ ~logged[s] /\ user[s] # NoUser => user[s].clients = 0
    /\ upload[s] = NoUpload \/ Entry(upload[s].user)

\* RNFR has checked the path that it leaves for RNTO, for the same login.
RenameInv(s) ==
    renameFrom[s] # NoRename =>
        /\ logged[s]
        /\ Below(renameFrom[s], user[s].start_directory)
        /\ "DELETEFILE" \in user[s].privileges

\* What OperationAllowed says of a call.
Allowed(s, what) ==
    /\ what.op \in {"stat"} \cup DOMAIN Needed
    /\ logged[s]
    /\ Below(what.path, user[s].start_directory)
    /\ what.op = "rename" => what.from = NoRename \/ Below(what.from, user[s].start_directory)
    /\ what.op # "stat" /\ (what.op = "rename" => what.from # NoRename) =>
        Needed[what.op] \in user[s].privileges

CallInv(s) == call[s] # NoCall => Allowed(s, call[s])

\* The variables that AccountsInv does not read have their types.
OtherTypes ==
    /\ account \in Stored
    /\ UserListLock \in Sessions \cup {Free} /\ users \subseteq Logins
    /\ arg \in [Sessions -> Args \cup {NoPath}] /\ named \in [Sessions -> Args \cup {NoPath}]
    /\ tries \in [Sessions -> 0..TriesBound]
    /\ cwd \in [Sessions -> WorkingDirs]
    /\ DOMAIN renameFrom = Sessions /\ DOMAIN call = Sessions

AllowedInv ==
    OtherTypes /\ \A s \in Sessions : EntryInv(s) /\ RenameInv(s) /\ CallInv(s)

\* The operations and their privileges.
LEMMA NeededValues ==
    /\ DOMAIN Needed =
        {"rename", "remove", "mkdir", "rmdir", "store", "list", "retrieve"}
    /\ Needed["rename"] = "DELETEFILE" /\ Needed["remove"] = "DELETEFILE"
    /\ Needed["mkdir"] = "CREATEDIR" /\ Needed["rmdir"] = "DELETEDIR"
    /\ Needed["store"] = "WRITEFILE" /\ Needed["list"] = "LIST"
    /\ Needed["retrieve"] = "READFILE"
BY DEF Needed

LEMMA InitAllowed == Init => AllowedInv
<1> SUFFICES ASSUME Init PROVE AllowedInv
  OBVIOUS
<1>1. OtherTypes
  <2>1. Slash \in WorkingDirs
    BY WorkingDirsClosed
  <2>2. QED
    BY <2>1, TriesAssumption DEF Init, OtherTypes
<1>2. \A s \in Sessions : EntryInv(s) /\ RenameInv(s) /\ CallInv(s)
  BY DEF Init, EntryInv, RenameInv, CallInv
<1>3. QED
  BY <1>1, <1>2 DEF AllowedInv

\* What AllowedInv reads of a session.
SameCall(t) ==
    /\ logged'[t] = logged[t] /\ user'[t] = user[t] /\ upload'[t] = upload[t]
    /\ renameFrom'[t] = renameFrom[t] /\ call'[t] = call[t]

LEMMA CallAlone ==
    ASSUME AllowedInv, OtherTypes', NEW s \in Sessions,
           EntryInv(s)', RenameInv(s)', CallInv(s)',
           \A t \in Sessions \ {s} : SameCall(t)
    PROVE  AllowedInv'
<1>1. \A t \in Sessions \ {s} : (EntryInv(t) /\ RenameInv(t) /\ CallInv(t))'
  BY DEF AllowedInv, EntryInv, RenameInv, CallInv, Allowed, SameCall
<1>2. QED
  BY <1>1 DEF AllowedInv

\* The start directory of a session is that of an account.
LEMMA StartOfAccount ==
    ASSUME AccountsInv, NEW s \in Sessions, EntryInv(s), logged[s]
    PROVE  \E l \in Logins : \E record \in Accounts[l] :
               user[s].start_directory = record.start_directory
<1>1. user[s] \in CUserEntry /\ Entry(user[s])
  BY DEF AccountsInv, SessionTypes, SessionInv, NamedInv, EntryInv
<1>2. PICK record \in Accounts[user[s].login] :
        [user[s] EXCEPT !.clients = 0] = CopyOf(user[s].login, record)
  BY <1>1 DEF Entry
<1>3. [user[s] EXCEPT !.clients = 0].start_directory = user[s].start_directory
  BY <1>1 DEF CUserEntry
<1>4. CopyOf(user[s].login, record).start_directory = record.start_directory
  BY DEF CopyOf
<1>5. QED
  BY <1>1, <1>2, <1>3, <1>4 DEF Entry

\* BuildPath and BuildVirtualPath for a session that is logged in.
LEMMA PathConfined ==
    ASSUME AccountsInv, AllowedInv, NEW s \in Sessions, logged[s], NEW a \in Args
    PROVE  /\ PathOf(s, a) # NoPath => Below(PathOf(s, a), user[s].start_directory)
           /\ PathOf(s, a) \in Dirs => BuildVirtualPath(cwd[s], a) \in WorkingDirs
<1>1. PICK l \in Logins : \E record \in Accounts[l] :
        user[s].start_directory = record.start_directory
  BY StartOfAccount DEF AllowedInv
<1>2. cwd[s] \in WorkingDirs
  BY DEF AllowedInv, OtherTypes
<1>3. PICK record \in Accounts[l] : user[s].start_directory = record.start_directory
  BY <1>1
<1>4. PathOf(s, a) = BuildPath(record.start_directory, cwd[s], a)
  BY <1>3 DEF PathOf
<1>5. QED
  BY <1>2, <1>3, <1>4, PathOfAccount

----------------------------------------------------------------------------
\* A command that leaves all but its call as it was.
LEMMA AsksAllowed ==
    ASSUME AllowedInv, NEW s \in Sessions, NEW what, Asks(s, what),
           what # NoCall => Allowed(s, what), UNCHANGED <<cwd, renameFrom, upload>>
    PROVE  AllowedInv'
<1>1. /\ UNCHANGED <<account, users, UserListLock, at, arg, logged, user, tries, named, failures>>
      /\ call' = [call EXCEPT ![s] = what]
  BY DEF Asks
<1>2. OtherTypes'
  BY <1>1 DEF AllowedInv, OtherTypes
<1>3. EntryInv(s)' /\ RenameInv(s)'
  BY <1>1 DEF AllowedInv, EntryInv, RenameInv
<1>4. CallInv(s)'
  <2>1. call'[s] = what
    BY <1>1 DEF AllowedInv, OtherTypes
  <2>2. QED
    BY <1>1, <2>1 DEF CallInv, Allowed
<1>5. \A t \in Sessions \ {s} : SameCall(t)
  BY <1>1 DEF SameCall, AllowedInv, OtherTypes
<1>6. QED
  BY <1>2, <1>3, <1>4, <1>5, CallAlone

\* The call of an operation whose privilege has been checked.
LEMMA MayAskAllowed ==
    ASSUME AccountsInv, AllowedInv, NEW s \in Sessions, logged[s],
           NEW a \in Args, NEW op, op = "stat" \/ (op \in DOMAIN Needed /\ op # "rename"
                                                /\ Needed[op] \in user[s].privileges),
           MayAsk(s, op, PathOf(s, a))
    PROVE  AllowedInv'
<1>1. PICK what \in {NoCall} \cup (IF PathOf(s, a) = NoPath THEN {}
                                  ELSE {[op |-> op, path |-> PathOf(s, a)]}) :
        Asks(s, what)
  BY DEF MayAsk
<1>2. UNCHANGED <<cwd, renameFrom, upload>>
  BY DEF MayAsk
<1>3. ASSUME what # NoCall PROVE Allowed(s, what)
  <2>1. PathOf(s, a) # NoPath /\ what = [op |-> op, path |-> PathOf(s, a)]
    BY <1>1, <1>3
  <2>2. Below(PathOf(s, a), user[s].start_directory)
    BY <2>1, PathConfined
  <2>3. what.op = op /\ what.path = PathOf(s, a)
    BY <2>1
  <2>4. QED
    BY <2>2, <2>3 DEF Allowed
<1>4. QED
  BY <1>1, <1>2, <1>3, AsksAllowed

LEMMA RefusedAllowed ==
    ASSUME AllowedInv, NEW s \in Sessions, Refused(s) PROVE AllowedInv'
BY AsksAllowed DEF Refused

\* The commands that check their privilege and ask for one operation.
LEMMA CheckedAllowed ==
    ASSUME AccountsInv, AllowedInv, NEW s \in Sessions, logged[s],
           NEW a \in Args,
           \/ Dele(s, a) \/ Mkd(s, a) \/ Rmd(s, a) \/ Size(s, a) \/ List(s, a) \/ Retr(s, a)
    PROVE  AllowedInv'
<1>1. CASE Refused(s)
  BY <1>1, RefusedAllowed
<1>2. CASE MayAsk(s, "stat", PathOf(s, a))
  BY <1>2, MayAskAllowed
<1>3. ASSUME NEW op, op \in DOMAIN Needed, op # "rename", CheckPrivileges(s, Needed[op]),
             MayAsk(s, op, PathOf(s, a))
      PROVE  AllowedInv'
  BY <1>3, MayAskAllowed DEF CheckPrivileges
<1>4. QED
  <2>1. CASE Dele(s, a)
    BY <2>1, <1>1, <1>3, NeededValues DEF Dele
  <2>2. CASE Mkd(s, a)
    BY <2>2, <1>1, <1>3, NeededValues DEF Mkd
  <2>3. CASE Rmd(s, a)
    BY <2>3, <1>1, <1>3, NeededValues DEF Rmd
  <2>4. CASE Size(s, a)
    BY <2>4, <1>1, <1>2 DEF Size
  <2>5. CASE List(s, a)
    BY <2>5, <1>1, <1>3, NeededValues DEF List
  <2>6. CASE Retr(s, a)
    BY <2>6, <1>1, <1>3, NeededValues DEF Retr
  <2>7. QED
    BY <2>1, <2>2, <2>3, <2>4, <2>5, <2>6

\* CWD and CDUP stay in the working directories.
LEMMA CwdAllowed ==
    ASSUME AccountsInv, AllowedInv, NEW s \in Sessions, logged[s],
           NEW a \in Args, Cwd(s, a) \/ Cdup(s)
    PROVE  AllowedInv'
<1>1. /\ UNCHANGED <<account, users, UserListLock, at, arg, logged, user, tries, named, failures>>
      /\ UNCHANGED <<renameFrom, upload>> /\ call' = [call EXCEPT ![s] = NoCall]
  BY DEF Cwd, Cdup, Asks
<1>2. cwd \in [Sessions -> WorkingDirs]
  BY DEF AllowedInv, OtherTypes
<1>3. cwd' \in [Sessions -> WorkingDirs]
  <2>1. CASE Cwd(s, a)
    BY <1>2, <2>1, PathConfined DEF Cwd
  <2>2. CASE Cdup(s)
    BY <1>2, <2>2, WorkingDirsClosed DEF Cdup
  <2>3. QED
    BY <2>1, <2>2
<1>4. OtherTypes'
  BY <1>1, <1>3 DEF AllowedInv, OtherTypes
<1>5. EntryInv(s)' /\ RenameInv(s)' /\ CallInv(s)'
  BY <1>1 DEF AllowedInv, OtherTypes, EntryInv, RenameInv, CallInv
<1>6. \A t \in Sessions \ {s} : SameCall(t)
  BY <1>1 DEF SameCall, AllowedInv, OtherTypes
<1>7. QED
  BY <1>4, <1>5, <1>6, CallAlone

LEMMA RnfrAllowed ==
    ASSUME AccountsInv, AllowedInv, NEW s \in Sessions, logged[s],
           NEW a \in Args, Rnfr(s, a)
    PROVE  AllowedInv'
<1>1. /\ UNCHANGED <<account, users, UserListLock, at, arg, logged, user, tries, named, failures>>
      /\ UNCHANGED <<cwd, upload>> /\ call' = [call EXCEPT ![s] = NoCall]
  BY DEF Rnfr, Asks
<1>2. \/ renameFrom' = renameFrom
      \/ /\ CheckPrivileges(s, "DELETEFILE") /\ PathOf(s, a) # NoPath
         /\ renameFrom' = [renameFrom EXCEPT ![s] = PathOf(s, a)]
  BY DEF Rnfr
<1>3. OtherTypes'
  BY <1>1, <1>2 DEF AllowedInv, OtherTypes
<1>4. EntryInv(s)' /\ CallInv(s)'
  BY <1>1 DEF AllowedInv, OtherTypes, EntryInv, CallInv
<1>5. RenameInv(s)'
  <2>1. CASE renameFrom' = renameFrom
    BY <1>1, <2>1 DEF AllowedInv, RenameInv
  <2>2. CASE renameFrom' # renameFrom
    <3>1. renameFrom'[s] = PathOf(s, a)
      BY <1>2, <2>2 DEF AllowedInv, OtherTypes
    <3>2. Below(PathOf(s, a), user[s].start_directory)
      BY <1>2, <2>2, PathConfined
    <3>3. "DELETEFILE" \in user[s].privileges
      BY <1>2, <2>2 DEF CheckPrivileges
    <3>4. QED
      BY <1>1, <3>1, <3>2, <3>3 DEF RenameInv
  <2>3. QED
    BY <2>1, <2>2
<1>6. \A t \in Sessions \ {s} : SameCall(t)
  BY <1>1, <1>2 DEF SameCall, AllowedInv, OtherTypes
<1>7. QED
  BY <1>3, <1>4, <1>5, <1>6, CallAlone

\* RNTO asks for no privilege: RNFR has, unless it has left no path.
LEMMA RntoAllowed ==
    ASSUME AccountsInv, AllowedInv, NEW s \in Sessions, logged[s],
           NEW a \in Args, Rnto(s, a)
    PROVE  AllowedInv'
<1>1. PICK what :
        /\ call' = [call EXCEPT ![s] = what]
        /\ what # NoCall =>
            /\ PathOf(s, a) # NoPath
            /\ what = [op |-> "rename", path |-> PathOf(s, a), from |-> renameFrom[s]]
  BY DEF Rnto, Asks
<1>2. /\ UNCHANGED <<account, users, UserListLock, at, arg, logged, user, tries, named, failures>>
      /\ UNCHANGED <<cwd, upload>>
      /\ renameFrom' = renameFrom \/ renameFrom' = [renameFrom EXCEPT ![s] = NoRename]
  BY DEF Rnto, Asks
<1>3. OtherTypes'
  BY <1>1, <1>2 DEF AllowedInv, OtherTypes
<1>4. EntryInv(s)' /\ RenameInv(s)'
  BY <1>2 DEF AllowedInv, OtherTypes, EntryInv, RenameInv
<1>5. ASSUME what # NoCall PROVE Allowed(s, what)
  <2>1. /\ what.op = "rename" /\ what.path = PathOf(s, a) /\ what.from = renameFrom[s]
        /\ Below(PathOf(s, a), user[s].start_directory)
    BY <1>1, <1>5, PathConfined
  <2>2. RenameInv(s)
    BY DEF AllowedInv
  <2>3. QED
    BY <2>1, <2>2, NeededValues DEF Allowed, RenameInv
<1>6. CallInv(s)'
  <2>1. call'[s] = what
    BY <1>1 DEF AllowedInv, OtherTypes
  <2>2. QED
    BY <1>2, <1>5, <2>1 DEF CallInv, Allowed
<1>7. \A t \in Sessions \ {s} : SameCall(t)
  BY <1>1, <1>2 DEF SameCall, AllowedInv, OtherTypes
<1>8. QED
  BY <1>3, <1>4, <1>6, <1>7, CallAlone

LEMMA StorAllowed ==
    ASSUME AccountsInv, AllowedInv, NEW s \in Sessions, logged[s],
           NEW a \in Args, Stor(s, a)
    PROVE  AllowedInv'
<1>1. CASE Asks(s, NoCall) /\ UNCHANGED <<cwd, renameFrom, upload>>
  BY <1>1, AsksAllowed
<1>2. CASE /\ CheckPrivileges(s, "WRITEFILE") /\ PathOf(s, a) # NoPath
           /\ upload' = [upload EXCEPT ![s] = [user |-> user[s], user_sent |-> FALSE]]
           /\ Asks(s, [op |-> "store", path |-> PathOf(s, a)])
           /\ UNCHANGED <<cwd, renameFrom>>
  <2> DEFINE what == [op |-> "store", path |-> PathOf(s, a)]
  <2>1. /\ UNCHANGED <<account, users, UserListLock, at, arg, logged, user, tries, named, failures>>
        /\ call' = [call EXCEPT ![s] = what]
    BY <1>2 DEF Asks
  <2>2. Allowed(s, what)
    <3>1. Below(PathOf(s, a), user[s].start_directory)
      BY <1>2, PathConfined
    <3>2. what.op = "store" /\ what.path = PathOf(s, a)
      OBVIOUS
    <3>3. "WRITEFILE" \in user[s].privileges
      BY <1>2 DEF CheckPrivileges
    <3>4. QED
      BY <3>1, <3>2, <3>3, NeededValues DEF Allowed
  <2>3. OtherTypes'
    BY <1>2, <2>1 DEF AllowedInv, OtherTypes
  <2>4. CallInv(s)'
    <3>1. call'[s] = what
      BY <2>1 DEF AllowedInv, OtherTypes
    <3>2. QED
      BY <2>1, <2>2, <3>1 DEF CallInv, Allowed
  <2>5. EntryInv(s)' /\ RenameInv(s)'
    <3>1. user[s] # NoUser /\ Entry(user[s])
      BY <1>2 DEF CheckPrivileges, AllowedInv, EntryInv
    <3>2. upload'[s].user = user[s]
      BY <1>2 DEF AccountsInv, SessionTypes
    <3>3. QED
      BY <1>2, <2>1, <3>1, <3>2 DEF AllowedInv, EntryInv, RenameInv
  <2>6. \A t \in Sessions \ {s} : SameCall(t)
    BY <1>2, <2>1 DEF SameCall, AllowedInv, OtherTypes, AccountsInv, SessionTypes
  <2>7. QED
    BY <2>3, <2>4, <2>5, <2>6, CallAlone
<1>3. QED
  BY <1>1, <1>2 DEF Stor

\* A copy of an account as SearchUserFromLogin makes it, and with its login
\* counted.
LEMMA CountedEntry ==
    ASSUME NEW entry \in CUserEntry, Entry(entry), entry.clients = 0
    PROVE  Entry([entry EXCEPT !.clients = @ + 1])
<1> DEFINE new == [entry EXCEPT !.clients = @ + 1]
<1>1. new.login = entry.login /\ new.clients = 1
  BY DEF CUserEntry
<1>2. [new EXCEPT !.clients = 0] = [entry EXCEPT !.clients = 0]
  BY DEF CUserEntry
<1>3. QED
  BY <1>1, <1>2 DEF Entry

LEMMA FoundIsCopy ==
    ASSUME AccountsInv, account \in Stored, NEW l, Found(l) # NoUser
    PROVE  Entry(Found(l)) /\ Found(l).clients = 0
<1>1. l \in Logins /\ account[l] # NoAccount /\ Found(l) = CopyOf(l, account[l])
  BY DEF Found
<1>2. account[l] \in Accounts[l]
  BY <1>1 DEF Stored
<1>3. Found(l).login = l /\ Found(l).clients = 0
  BY <1>1 DEF CopyOf
<1>4. [Found(l) EXCEPT !.clients = 0] = CopyOf(l, account[l])
  BY <1>1 DEF CopyOf
<1>5. QED
  BY <1>1, <1>2, <1>3, <1>4 DEF Entry

----------------------------------------------------------------------------
\* Steps that take the call back, or leave the sessions alone.
LEMMA UserAllowed ==
    ASSUME AccountsInv, AllowedInv, NEW s \in Sessions, NEW a \in Args,
           User(s, a)
    PROVE  AllowedInv'
<1>1. /\ UNCHANGED <<account, users, UserListLock, tries, failures>>
      /\ call' = [call EXCEPT ![s] = NoCall]
      /\ arg' = [arg EXCEPT ![s] = a]
      /\ named' = [named EXCEPT ![s] = IF a = NoPath THEN @ ELSE a]
      /\ upload' = [upload EXCEPT ![s] =
                       IF @ = NoUpload THEN @ ELSE [@ EXCEPT !.user_sent = TRUE]]
  BY DEF User
<1>2. \/ /\ logged' = [logged EXCEPT ![s] = FALSE] /\ user' = [user EXCEPT ![s] = NoUser]
         /\ cwd' = [cwd EXCEPT ![s] = Slash]
         /\ renameFrom' = [renameFrom EXCEPT ![s] = NoRename]
      \/ ~logged[s] /\ UNCHANGED <<logged, user, cwd, renameFrom>>
  BY DEF User, LogOut
<1>3. OtherTypes'
  <2>1. Slash \in WorkingDirs
    BY WorkingDirsClosed
  <2>2. cwd' \in [Sessions -> WorkingDirs] /\ DOMAIN renameFrom' = Sessions
    BY <1>2, <2>1 DEF AllowedInv, OtherTypes
  <2>3. QED
    BY <1>1, <2>2 DEF AllowedInv, OtherTypes
<1>4. EntryInv(s)'
  <2>1. upload[s] = NoUpload \/ (upload[s] \in Uploads /\ Entry(upload[s].user))
    BY DEF AllowedInv, EntryInv, AccountsInv, SessionTypes
  <2>2. upload'[s] = NoUpload \/ upload'[s].user = upload[s].user
    BY <1>1, <2>1 DEF AccountsInv, SessionTypes, Uploads
  <2>3. CASE upload[s] = NoUpload
    BY <1>1, <1>2, <2>3 DEF AllowedInv, EntryInv, AccountsInv, SessionTypes
  <2>4. CASE upload[s] # NoUpload
    BY <1>2, <2>1, <2>2, <2>4 DEF AllowedInv, EntryInv, AccountsInv, SessionTypes
  <2>5. QED
    BY <2>3, <2>4
<1>5. RenameInv(s)' /\ CallInv(s)'
  BY <1>1, <1>2 DEF AllowedInv, OtherTypes, RenameInv, CallInv, AccountsInv, SessionTypes
<1>6. \A t \in Sessions \ {s} : SameCall(t)
  BY <1>1, <1>2 DEF SameCall, AllowedInv, OtherTypes, AccountsInv, SessionTypes
<1>7. QED
  BY <1>3, <1>4, <1>5, <1>6, CallAlone

LEMMA PassAllowed ==
    ASSUME AccountsInv, AllowedInv, NEW s \in Sessions, NEW a \in Args, Pass(s, a)
    PROVE  AllowedInv'
<1>1. /\ UNCHANGED <<account, users, UserListLock, logged, user, cwd, renameFrom, upload, named>>
      /\ call' = [call EXCEPT ![s] = NoCall]
      /\ tries[s] < TriesBound /\ tries' = [tries EXCEPT ![s] = @ + 1]
      /\ arg' = arg \/ arg' = [arg EXCEPT ![s] = a]
  BY DEF Pass
<1>2. tries' \in [Sessions -> 0..TriesBound]
  BY <1>1, TriesAssumption DEF AllowedInv, OtherTypes
<1>3. OtherTypes'
  BY <1>1, <1>2 DEF AllowedInv, OtherTypes
<1>4. EntryInv(s)' /\ RenameInv(s)' /\ CallInv(s)'
  BY <1>1 DEF AllowedInv, OtherTypes, EntryInv, RenameInv, CallInv
<1>5. \A t \in Sessions \ {s} : SameCall(t)
  BY <1>1 DEF SameCall, AllowedInv, OtherTypes
<1>6. QED
  BY <1>3, <1>4, <1>5, CallAlone

LEMMA EndAllowed ==
    ASSUME AccountsInv, AllowedInv, NEW s \in Sessions, End(s) PROVE AllowedInv'
<1>1. /\ UNCHANGED <<account, users, UserListLock, arg, logged, user, tries, cwd, renameFrom>>
      /\ UNCHANGED <<upload, named>> /\ call' = [call EXCEPT ![s] = NoCall]
  BY DEF End
<1>2. OtherTypes'
  BY <1>1 DEF AllowedInv, OtherTypes
<1>3. EntryInv(s)' /\ RenameInv(s)' /\ CallInv(s)'
  BY <1>1 DEF AllowedInv, OtherTypes, EntryInv, RenameInv, CallInv
<1>4. \A t \in Sessions \ {s} : SameCall(t)
  BY <1>1 DEF SameCall, AllowedInv, OtherTypes
<1>5. QED
  BY <1>2, <1>3, <1>4, CallAlone

LEMMA ShellAllowed ==
    ASSUME AccountsInv, AllowedInv, NEW s \in Sessions, Shell(s)
    PROVE  AllowedInv'
<1>1. CASE End(s)
  BY <1>1, EndAllowed
<1>2. ASSUME NEW command, NEW a \in Args, Command(s, command, a) PROVE AllowedInv'
  <2>1. CASE User(s, a) \/ Pass(s, a) \/ End(s) \/ Other(s)
    BY <2>1, UserAllowed, PassAllowed, EndAllowed, RefusedAllowed DEF Other
  <2>2. CASE logged[s] /\ (Cwd(s, a) \/ Cdup(s) \/ Rnfr(s, a) \/ Rnto(s, a) \/ Stor(s, a))
    BY <2>2, CwdAllowed, RnfrAllowed, RntoAllowed, StorAllowed
  <2>3. CASE logged[s] /\ (Dele(s, a) \/ Mkd(s, a) \/ Rmd(s, a) \/ Size(s, a) \/ List(s, a)
                           \/ Retr(s, a))
    BY <2>3, CheckedAllowed
  <2>4. QED
    BY <1>2, <2>1, <2>2, <2>3 DEF Command
<1>3. QED
  BY <1>1, <1>2 DEF Shell

\* A session that logs in, or looks for its account, has no call and no path
\* of RNFR.
LEMMA LoginAllowed ==
    ASSUME AccountsInv, AllowedInv, NEW s \in Sessions,
           SearchUser(s) \/ CheckPassword(s)
    PROVE  AllowedInv'
<1>1. /\ UNCHANGED <<account, users, tries, cwd, renameFrom, upload, call, named>>
      /\ UserListLock' = s /\ arg' = [arg EXCEPT ![s] = NoPath]
  BY DEF SearchUser, CheckPassword, Lock
<1>2. ~logged[s] /\ renameFrom[s] = NoRename /\ call[s] = NoCall
  BY DEF SearchUser, CheckPassword, AccountsInv, SessionInv, NamedInv, AllowedInv, RenameInv,
         CallInv, Allowed
<1>3. PICK new :
        /\ user' = [user EXCEPT ![s] = new]
        /\ new = NoUser \/ Entry(new)
        /\ \/ logged' = logged /\ (new # NoUser => new.clients = 0)
           \/ logged' = [logged EXCEPT ![s] = TRUE]
  <2>1. CASE SearchUser(s)
    <3>1. PICK entry \in {Found(arg[s]), NoUser} :
            IF entry # NoUser /\ entry.enabled /\ entry.password = NoPassword
            THEN LogIn(s, entry)
            ELSE user' = [user EXCEPT ![s] = entry] /\ UNCHANGED logged
      BY <2>1 DEF SearchUser
    <3>2. entry # NoUser => entry \in CUserEntry /\ Entry(entry) /\ entry.clients = 0
      BY <3>1, FoundEntry, FoundIsCopy DEF AllowedInv, OtherTypes, AccountsInv
    <3>3. CASE entry # NoUser /\ LogIn(s, entry)
      BY <3>2, <3>3, CountedEntry DEF LogIn
    <3>4. CASE user' = [user EXCEPT ![s] = entry] /\ UNCHANGED logged
      BY <3>2, <3>4
    <3>5. QED
      BY <3>1, <3>3, <3>4
  <2>2. CASE CheckPassword(s)
    <3>1. user[s] # NoUser =>
            user[s] \in CUserEntry /\ Entry(user[s]) /\ user[s].clients = 0
      BY <1>2 DEF AccountsInv, SessionTypes, AllowedInv, EntryInv
    <3>2. CASE user[s] # NoUser /\ LogIn(s, user[s])
      BY <3>1, <3>2, CountedEntry DEF LogIn
    <3>3. CASE UNCHANGED <<logged, user>>
      <4>1. user' = [user EXCEPT ![s] = user[s]]
        BY <3>3 DEF AccountsInv, SessionTypes
      <4>2. QED
        BY <3>1, <3>3, <4>1
    <3>4. QED
      BY <2>2, <3>2, <3>3 DEF CheckPassword, Accepts
  <2>3. QED
    BY <2>1, <2>2
<1>4. OtherTypes'
  BY <1>1 DEF AllowedInv, OtherTypes
<1>5. EntryInv(s)'
  <2>1. user'[s] = new /\ (~logged'[s] /\ new # NoUser => new.clients = 0)
    BY <1>3 DEF AccountsInv, SessionTypes
  <2>2. QED
    BY <1>1, <1>2, <1>3, <2>1 DEF AllowedInv, EntryInv
<1>6. RenameInv(s)' /\ CallInv(s)'
  BY <1>1, <1>2 DEF RenameInv, CallInv
<1>7. \A t \in Sessions \ {s} : SameCall(t)
  BY <1>1, <1>3 DEF SameCall, AccountsInv, SessionTypes
<1>8. QED
  BY <1>4, <1>5, <1>6, <1>7, CallAlone

LEMMA ConnectAllowed ==
    ASSUME AccountsInv, AllowedInv, NEW s \in Sessions, Connect(s)
    PROVE  AllowedInv'
<1>1. /\ UNCHANGED <<account, users, UserListLock, arg, upload>> /\ upload[s] = NoUpload
      /\ logged' = [logged EXCEPT ![s] = FALSE] /\ user' = [user EXCEPT ![s] = NoUser]
      /\ tries' = [tries EXCEPT ![s] = 0] /\ named' = [named EXCEPT ![s] = NoPath]
      /\ cwd' = [cwd EXCEPT ![s] = Slash]
      /\ renameFrom' = [renameFrom EXCEPT ![s] = NoRename]
      /\ call' = [call EXCEPT ![s] = NoCall]
  BY DEF Connect
<1>2. OtherTypes'
  <2>1. Slash \in WorkingDirs /\ 0 \in 0..TriesBound
    BY TriesAssumption, WorkingDirsClosed
  <2>2. QED
    BY <1>1, <2>1 DEF AllowedInv, OtherTypes
<1>3. EntryInv(s)' /\ RenameInv(s)' /\ CallInv(s)'
  BY <1>1 DEF AllowedInv, OtherTypes, EntryInv, RenameInv, CallInv, AccountsInv, SessionTypes
<1>4. \A t \in Sessions \ {s} : SameCall(t)
  BY <1>1 DEF SameCall, AllowedInv, OtherTypes, AccountsInv, SessionTypes
<1>5. QED
  BY <1>2, <1>3, <1>4, CallAlone

\* Steps of the lock, of an upload and of the administrator.
LEMMA QuietAllowed ==
    ASSUME AccountsInv, AllowedInv, OtherTypes',
           UNCHANGED <<logged, user, renameFrom, call>>,
           \A s \in Sessions : upload'[s] = upload[s] \/ upload'[s] = NoUpload
    PROVE  AllowedInv'
BY DEF AllowedInv, EntryInv, RenameInv, CallInv, Allowed

LEMMA RestAllowed ==
    ASSUME AccountsInv, AllowedInv,
           \/ \E s \in Sessions : UserReply(s) \/ PassReply(s) \/ SaveFile(s)
           \/ \E l \in Logins : ChangeAccount(l) \/ AddUser(l) \/ DeleteUser(l)
           \/ UNCHANGED vars
    PROVE  AllowedInv'
<1>1. UNCHANGED <<logged, user, renameFrom, call, cwd, tries, arg, named>>
  BY DEF UserReply, PassReply, SaveFile, ChangeAccount, AddUser, DeleteUser, vars
<1>2. \A s \in Sessions : upload'[s] = upload[s] \/ upload'[s] = NoUpload
  BY DEF UserReply, PassReply, SaveFile, ChangeAccount, AddUser, DeleteUser, vars, AccountsInv,
         SessionTypes
<1>3. UserListLock' \in {UserListLock, Free}
  BY DEF UserReply, PassReply, SaveFile, ChangeAccount, AddUser, DeleteUser, vars, Unlock
<1>4. account' \in Stored
  <2>1. CASE \E l \in Logins : ChangeAccount(l)
    <3>1. PICK l \in Logins : \E record \in Accounts[l] \cup {NoAccount} :
            account' = [account EXCEPT ![l] = record]
      BY <2>1 DEF ChangeAccount
    <3>2. PICK record \in Accounts[l] \cup {NoAccount} :
            account' = [account EXCEPT ![l] = record]
      BY <3>1
    <3>3. account \in Stored
      BY DEF AllowedInv, OtherTypes
    <3>4. record \in {NoAccount} \cup UNION {Accounts[k] : k \in Logins}
      <4>1. Accounts[l] \in {Accounts[k] : k \in Logins}
        OBVIOUS
      <4>2. Accounts[l] \subseteq UNION {Accounts[k] : k \in Logins}
        BY <4>1
      <4>3. QED
        BY <4>2
    <3>5. QED
      BY <3>2, <3>3, <3>4 DEF Stored
  <2>2. CASE account' = account
    BY <2>2 DEF AllowedInv, OtherTypes
  <2>3. QED
    BY <2>1, <2>2 DEF UserReply, PassReply, SaveFile, AddUser, DeleteUser, vars
<1>5. users' \subseteq Logins
  BY DEF UserReply, PassReply, SaveFile, ChangeAccount, AddUser, DeleteUser, vars, AllowedInv,
         OtherTypes
<1>6. OtherTypes'
  BY <1>1, <1>3, <1>4, <1>5 DEF AllowedInv, OtherTypes
<1>7. QED
  BY <1>1, <1>2, <1>6, QuietAllowed

LEMMA AllowedStep ==
    AccountsInv /\ AllowedInv /\ [Next]_vars => AllowedInv'
<1> SUFFICES ASSUME AccountsInv, AllowedInv, [Next]_vars PROVE AllowedInv'
  OBVIOUS
<1>1. ASSUME NEW s \in Sessions, Shell(s) \/ SearchUser(s) \/ CheckPassword(s) \/ Connect(s)
      PROVE  AllowedInv'
  BY <1>1, ShellAllowed, LoginAllowed, ConnectAllowed
<1>2. QED
  BY <1>1, RestAllowed DEF Next, Login

----------------------------------------------------------------------------
\* The inductive invariant of calls, with that of logins.
LEMMA AllowedInvariance == Spec => []AllowedInv
<1>1. Init => AllowedInv
  BY InitAllowed
<1>2. AccountsInv /\ AllowedInv /\ [Next]_vars => AllowedInv'
  BY AllowedStep
<1>3. QED
  BY <1>1, <1>2, AccountsInvariance, PTL DEF Spec

\* Types, for all accounts and command lines; szWorkingDir always is an absolute
\* path without "..".
THEOREM TypeCorrect == Spec => []TypeOK
<1>1. AccountsInv /\ AllowedInv => TypeOK
  <2> SUFFICES ASSUME AccountsInv, AllowedInv PROVE TypeOK
    OBVIOUS
  <2>1. ASSUME NEW s \in Sessions
        PROVE  /\ user[s] = NoUser \/ Entry(user[s])
               /\ tries[s] \in 0..TriesBound /\ failures[s] \in 0..tries[s]
               /\ StartsWith(cwd[s], Slash) /\ cwd[s] = PathTo(Place(<<>>, cwd[s]))
               /\ upload[s] = NoUpload \/ Entry(upload[s].user)
               /\ call[s] = NoCall \/ call[s].op \in {"stat"} \cup DOMAIN Needed
    <3>1. cwd[s] \in WorkingDirs /\ tries[s] \in 0..TriesBound
      BY DEF AllowedInv, OtherTypes
    <3>2. failures[s] \in 0..tries[s]
      BY DEF AccountsInv, SessionTypes, SessionInv, TriesInv
    <3>3. StartsWith(cwd[s], Slash) /\ cwd[s] = PathTo(Place(<<>>, cwd[s]))
      BY <3>1, WorkingDirsClosed
    <3>4. /\ user[s] = NoUser \/ Entry(user[s])
          /\ upload[s] = NoUpload \/ Entry(upload[s].user)
          /\ call[s] = NoCall \/ call[s].op \in {"stat"} \cup DOMAIN Needed
      BY DEF AllowedInv, EntryInv, CallInv, Allowed
    <3>5. QED
      BY <3>1, <3>2, <3>3, <3>4
  <2>2. QED
    BY <2>1 DEF TypeOK, AllowedInv, OtherTypes, AccountsInv, SessionTypes
<1>2. QED
  BY <1>1, AccountsInvariance, AllowedInvariance, PTL

\* Every operation is one that the account of the session may do, below its
\* start directory, whatever was sent before and however accounts change.
THEOREM OperationsAllowed == Spec => []OperationAllowed
<1>1. AllowedInv => OperationAllowed
  BY DEF AllowedInv, CallInv, Allowed, OperationAllowed
<1>2. QED
  BY <1>1, AllowedInvariance, PTL

\* BuildPath gives redis what the argument of a command means in the working
\* directory, and never leads out of the start directory of the account, for
\* all arguments, wherever the commands of the session have led it.
THEOREM PathsAlwaysResolved == Spec => []PathsResolved
<1>1. AccountsInv /\ AllowedInv => PathsResolved
  <2> SUFFICES ASSUME AccountsInv, AllowedInv, NEW s \in Sessions, logged[s], NEW asked \in Asked
               PROVE  Resolves(Place(<<>>, user[s].start_directory), Place(<<>>, cwd[s]), asked)
    BY DEF PathsResolved
  <2>1. PICK l \in Logins : \E record \in Accounts[l] :
          user[s].start_directory = record.start_directory
    BY StartOfAccount DEF AllowedInv
  <2>2. PICK record \in Accounts[l] : user[s].start_directory = record.start_directory
    BY <2>1
  <2>3. cwd[s] \in WorkingDirs
    BY DEF AllowedInv, OtherTypes
  <2>4. Place(<<>>, cwd[s]) \in Places /\ asked \in Path \cup {NoPath}
    BY <2>3, WorkingDirsClosed, ArgumentsAssumption
  <2>5. QED
    BY <2>2, <2>4, StartDirectories
<1>2. QED
  BY <1>1, AccountsInvariance, AllowedInvariance, PTL

=============================================================================
