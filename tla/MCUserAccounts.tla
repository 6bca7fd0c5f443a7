--------------------------- MODULE MCUserAccounts ---------------------------
(* UserAccounts with an administrator and a guest.                          *)
EXTENDS UserAccounts

\* The characters of a string.
Text(s) == [i \in 1..Len(s) |-> SubSeq(s, i, i)]
Texts(strings) == {Text(s) : s \in strings}

Letters == {"/", ".", "a", "b", "h", "x", "\\"}
TwoLogins == Texts({"a", "b"})

Admin == [password |-> Text("b"), enabled |-> TRUE, max_logins |-> 1,
          privileges |-> {"READFILE", "WRITEFILE", "DELETEFILE"}, start_directory |-> Text("/")]
Guest == [password |-> <<>>, enabled |-> TRUE, max_logins |-> 0,
          privileges |-> {"LIST", "CREATEDIR"}, start_directory |-> Text("/h")]
Disabled == [Admin EXCEPT !.enabled = FALSE]
TwoAccounts == Text("a") :> {Admin, Disabled} @@ Text("b") :> {Guest}

SomeWords == {"USER", "pass", "XMMD", "CWD", "xcup", "RNFR", "RNTO", "MKD", "DELE", "STOR", "RETR",
              "LIST", "SIZE", "QUIT", "XPWD"}
SomeArgs == {NoPath} \cup Texts({"a", "b", "../x"})
SomeDirs == Texts({"/a", "/h/a"})

SomeAsked ==
    {NoPath, <<>>} \cup Texts(
        {"/", "..", "/..", "a/..", "./a", "...", "..a", "//a", "../..", "/a/.", "a/../..",
         "/a/../b/", "aa/.../b", ".\\..\\a", "bbbbbb", "/bbbbbb/.."})

\* Nobody reads the list of users: it changes while nobody is logged in.
ListApart == users = {} \/ \A s \in Sessions : ~logged[s] /\ at[s] = "read"

=============================================================================
