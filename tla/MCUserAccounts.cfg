\* One session, two accounts that change; the buffers of paths hold eight characters.
SPECIFICATION FairSpec
CONSTANTS
    Characters <- Letters
    MAX_PATH = 8
    Sessions = {s1}
    Logins <- TwoLogins
    Accounts <- TwoAccounts
    NoAccount = NoAccount
    NoUser = NoUser
    MaxPasswordTries = 2
    TriesBound = 3
    Words <- SomeWords
    Args <- SomeArgs
    Dirs <- SomeDirs
    Asked <- SomeAsked
CONSTRAINT ListApart
INVARIANTS
    TypeOK
    PathsResolved
    OperationAllowed
    LoggedInAsNamed
    WrongPasswordsBounded
    UploadKeepsOwner
PROPERTY LockReleased
