---------------------------- MODULE CommandLine ----------------------------
(***************************************************************************)
(* ParseLine of CFtpServer.cpp: from the first word of a command line to a  *)
(* command.  X forms stand for the command they are a form of, as in Shell. *)
(***************************************************************************)
EXTENDS Naturals, Sequences, TLC

Lower == "abcdefghijklmnopqrstuvwxyz"
Upper == "ABCDEFGHIJKLMNOPQRSTUVWXYZ"

\* The word in capitals.
toupper[word \in STRING] ==
    LET c == SubSeq(word, 1, 1)
        places == {i \in 1..26 : SubSeq(Lower, i, i) = c}
        C == IF places = {} THEN c ELSE LET i == CHOOSE j \in places : TRUE IN SubSeq(Upper, i, i)
    IN  IF word = "" THEN "" ELSE C \o toupper[SubSeq(word, 2, Len(word))]

\* The commands that the switches compare letter by letter.
Plain ==
    {"ABOR", "ALLO", "APPE", "CDUP", "CLNT", "CWD", "DELE", "FEAT", "HELP", "LIST", "MDTM",
     "MKD", "MODE", "NLST", "NOOP", "OPTS", "PASV", "PASS", "PORT", "PWD", "PRET", "QUIT",
     "REST", "RETR", "RMD", "RNFR", "RNTO", "SITE", "SIZE", "STAT", "STOR", "STOU", "STRU",
     "SYST", "TYPE", "USER"}

\* 'X': the cases 'M' and 'R' have no break, and 'P' compares with "PW".
Extended ==
    "XCUP" :> "CDUP" @@ "XCWD" :> "CWD" @@ "XMKD" :> "MKD"
    @@ [word \in {"XMMD", "XRMD"} |-> "RMD"]
    @@ [word \in {"XMPW", "XRPW", "XPPW"} |-> "PWD"]

ParseLine(word) ==
    LET command == toupper[word] IN
    IF command \in Plain THEN command
    ELSE IF command \in DOMAIN Extended THEN Extended[command]
    ELSE "NONE"

=============================================================================
