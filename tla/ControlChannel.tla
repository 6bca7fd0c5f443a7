--------------------------- MODULE ControlChannel ---------------------------
(***************************************************************************)
(* The control channel of a session of CFtpServer.cpp: ReceiveLine, which   *)
(* cuts what it receives into command lines and closes the channel of a     *)
(* session that is idle for too long, as Shell calls it.                    *)
(*                                                                         *)
(* The peer may send anything, in segments of any length.  UserAccounts has *)
(* what the commands do; here they log in or out, which sets the clock, or  *)
(* start a transfer, which Listing has.                                     *)
(***************************************************************************)
EXTENDS Naturals, Sequences, SequencesExt

CONSTANTS
    Letters,               \* what a line can consist of
    EOL,                   \* '\r', '\n' or a zero
    MAX_COMMAND_LINE_LEN,
    NoLoginTimeout,        \* in seconds, or 0 for none
    NoTransferTimeout

ASSUME ChannelAssumption ==
    /\ EOL \notin Letters
    /\ MAX_COMMAND_LINE_LEN \in Nat \ {0}
    /\ NoLoginTimeout \in Nat /\ NoTransferTimeout \in Nat

Character == Letters \cup {EOL}

\* Bound: no clock counts beyond the timeouts.
Long == IF NoLoginTimeout > NoTransferTimeout THEN NoLoginTimeout ELSE NoTransferTimeout
After(seconds) == IF seconds < Long THEN seconds + 1 ELSE Long

Forever == Long + 1   \* select gets no timeout
TooLong == "500"      \* "500 Command line is too long !"

VARIABLES
    at,         \* where Shell is: "shell", or in ReceiveLine: "scan", "select"; "closed"
    sCmdBuffer, \* what of it has been received; the rest is not read
    recvd,      \* iCmdRecvdLen
    remaining,  \* nRemainingCharToParse
    next,       \* psNextCmd, as an index, or 0
    flush,      \* bFlushNextLine
    logged,     \* bIsLogged
    elapsed,    \* the seconds since tTimeoutTime
    left,       \* of the timeout of select
    timedOut,   \* "421 Timeout" has been sent
    eStatus,    \* WAITING or LISTING
    unfinished, \* history: the line that the peer has begun,
    owed,       \* what its last segment calls for: lines and TooLong,
    given,      \* what Shell has made of it,
    slipped,    \* whether a flush has ended inside the buffer, and what it has left
                \* there is not over yet,
    quiet       \* and the seconds without a transfer, since the login

buffer == <<sCmdBuffer, recvd, remaining, next, flush>>
clock == <<elapsed, left, quiet>>
promise == <<unfinished, owed, given, slipped>>
session == <<logged, timedOut, eStatus>>
channel == <<at, buffer, clock, promise, session>>

\* Shell has called ReceiveLine for the first time.
ChannelInit ==
    /\ at = "scan"
    /\ sCmdBuffer = <<>> /\ recvd = 0 /\ remaining = 0 /\ next = 0 /\ flush = FALSE
    /\ logged = FALSE /\ timedOut = FALSE /\ eStatus = "WAITING"
    /\ elapsed = 0 /\ left = Forever /\ quiet = 0
    /\ unfinished = <<>> /\ owed = <<>> /\ given = <<>> /\ slipped = FALSE

----------------------------------------------------------------------------
(* ReceiveLine.                                                            *)

\* What is left of the last segment comes first.
ReceiveLine ==
    /\ sCmdBuffer' = IF next # 0 /\ remaining > 0
                     THEN SubSeq(sCmdBuffer, next, next + remaining - 1) ELSE <<>>
    /\ next' = IF remaining > 0 THEN 0 ELSE next
    /\ recvd' = 0
    /\ flush' = FALSE
    /\ at' = "scan"
    /\ UNCHANGED remaining

\* A letter of a line.
Letter ==
    /\ at = "scan" /\ remaining > 0 /\ sCmdBuffer[recvd + 1] # EOL
    /\ remaining' = remaining - 1
    /\ recvd' = recvd + 1
    /\ UNCHANGED <<at, sCmdBuffer, next, flush, clock, promise, session>>

\* The end of a line, which Shell gets.
Line ==
    /\ at = "scan" /\ remaining > 0 /\ sCmdBuffer[recvd + 1] = EOL
    /\ recvd > 0 /\ ~flush
    /\ remaining' = remaining - 1
    /\ given' = Append(given, SubSeq(sCmdBuffer, 1, recvd))
    /\ next' = recvd + 2
    /\ at' = "shell"
    /\ UNCHANGED <<sCmdBuffer, recvd, flush, clock, unfinished, owed, slipped, session>>

\* An empty line, or the end of one that was too long.  The scan goes on at
\* the beginning of the buffer then, where the rest is only if recvd was 0.
EmptyLine ==
    /\ at = "scan" /\ remaining > 0 /\ sCmdBuffer[recvd + 1] = EOL
    /\ recvd = 0 \/ flush
    /\ remaining' = remaining - 1
    /\ sCmdBuffer' = SubSeq(sCmdBuffer, 1, recvd)
                     \o SubSeq(sCmdBuffer, recvd + 2, recvd + 1 + remaining')
    /\ recvd' = IF flush THEN 0 ELSE recvd
    /\ flush' = FALSE
    /\ slipped' = (slipped \/ (recvd > 0 /\ remaining' > 0))
    /\ UNCHANGED <<at, next, clock, unfinished, owed, given, session>>

\* The timeout of select, as the clock is.
Wait ==
    LET timeout == IF logged THEN NoTransferTimeout ELSE NoLoginTimeout IN
    IF timeout = 0 THEN Forever
    ELSE IF elapsed < timeout THEN timeout - elapsed ELSE 0

Full == recvd >= MAX_COMMAND_LINE_LEN

\* Mutant: each full buffer of a line gets a 500.
LineTooLongAgain ==
    /\ at = "scan" /\ remaining = 0 /\ Full
    /\ given' = Append(given, TooLong)
    /\ recvd' = 0 /\ sCmdBuffer' = <<>> /\ flush' = TRUE
    /\ UNCHANGED <<at, remaining, next, clock, unfinished, owed, slipped, session>>

\* The line fills the buffer: it is answered once, and flushed.
LineTooLong ==
    /\ at = "scan" /\ remaining = 0 /\ Full
    /\ given' = IF flush THEN given ELSE Append(given, TooLong)
    /\ recvd' = 0 /\ sCmdBuffer' = <<>> /\ flush' = TRUE
    /\ UNCHANGED <<at, remaining, next, clock, unfinished, owed, slipped, session>>

\* Everything has been scanned; recv overwrites what is beyond the line.
Prepare ==
    /\ at = "scan" /\ remaining = 0 /\ ~Full
    /\ left' = Wait
    /\ at' = "select"
    /\ owed' = <<>> /\ given' = <<>>
    /\ slipped' = (slipped /\ (recvd > 0 \/ flush \/ unfinished # <<>>))
    /\ sCmdBuffer' = SubSeq(sCmdBuffer, 1, recvd)
    /\ UNCHANGED <<recvd, remaining, next, flush, elapsed, quiet, unfinished, session>>

\* What a peer that has begun a line calls for with the character c.
Calls(state, c) ==
    LET line == Append(state.line, c) IN
    IF c = EOL
    THEN [line |-> <<>>,
          owed |-> IF Len(state.line) \in 1..(MAX_COMMAND_LINE_LEN - 1)
                   THEN Append(state.owed, state.line) ELSE state.owed]
    ELSE IF Len(state.line) = MAX_COMMAND_LINE_LEN THEN state
    ELSE [line |-> line,
          owed |-> IF Len(line) = MAX_COMMAND_LINE_LEN
                   THEN Append(state.owed, TooLong) ELSE state.owed]

\* And with the segment data, character by character.
Called(state, data) ==
    LET after[i \in 0..Len(data)] == IF i = 0 THEN state ELSE Calls(after[i-1], data[i])
    IN  after[Len(data)]

\* Mutant: a line that has begun is not taken into account.
RoomOfAll == MAX_COMMAND_LINE_LEN
Room == MAX_COMMAND_LINE_LEN - recvd

\* recv returns the next segment.
Recv ==
    /\ at = "select"
    /\ \E data \in BoundedSeq(Character, Room) \ {<<>>} :
        LET calls == Called([line |-> unfinished, owed |-> <<>>], data) IN
        /\ sCmdBuffer' = sCmdBuffer \o data
        /\ remaining' = remaining + Len(data)
        /\ unfinished' = calls.line /\ owed' = calls.owed
    /\ at' = "scan"
    /\ UNCHANGED <<recvd, next, flush, clock, given, slipped, session>>

\* The peer has closed the channel, or the socket has failed.
PeerLeaves ==
    /\ at = "select"
    /\ at' = "closed"
    /\ UNCHANGED <<buffer, clock, promise, session>>

\* Mutant: the timeout of the login is forgotten.
IdleLoggedIn == eStatus = "WAITING" /\ NoTransferTimeout # 0 /\ elapsed >= NoTransferTimeout

\* Without a login, what select has waited is enough.
Idle ==
    \/ ~logged /\ NoLoginTimeout # 0
    \/ eStatus = "WAITING" /\ NoTransferTimeout # 0 /\ elapsed >= NoTransferTimeout

\* select returns without a character.
SelectEmpty ==
    /\ at = "select" /\ left = 0
    /\ IF Idle
       THEN timedOut' = TRUE /\ at' = "closed" /\ UNCHANGED left
       ELSE left' = Wait /\ UNCHANGED <<timedOut, at>>
    /\ UNCHANGED <<buffer, elapsed, quiet, promise, logged, eStatus>>

\* A second passes; select has to return when its timeout is over.  Bound: only
\* then does Shell wait for a second.
Tick ==
    /\ at = "select" /\ left # 0
    /\ elapsed' = After(elapsed)
    /\ left' = IF left = Forever THEN left ELSE left - 1
    /\ quiet' = IF eStatus = "WAITING" THEN After(quiet) ELSE 0
    /\ UNCHANGED <<at, buffer, promise, session>>

----------------------------------------------------------------------------
(* Shell, between two lines.                                               *)

\* PASS logs in and resets the timeout; USER logs out and does not.
LogIn ==
    /\ at = "shell" /\ ~logged /\ ReceiveLine
    /\ logged' = TRUE
    /\ elapsed' = 0 /\ quiet' = 0
    /\ UNCHANGED <<left, promise, timedOut, eStatus>>

LogOut ==
    /\ at = "shell" /\ logged /\ ReceiveLine
    /\ logged' = FALSE
    /\ UNCHANGED <<clock, promise, timedOut, eStatus>>

\* A command that changes nothing here.
OtherCommand ==
    /\ at = "shell" /\ ReceiveLine
    /\ UNCHANGED <<clock, promise, session>>

Quit ==
    /\ at = "shell"
    /\ at' = "closed"
    /\ UNCHANGED <<buffer, clock, promise, session>>

----------------------------------------------------------------------------
\* Nothing is read or written outside the buffer.
BufferOK ==
    /\ at \in {"shell", "scan", "select", "closed"}
    /\ sCmdBuffer \in Seq(Character) /\ Len(sCmdBuffer) <= MAX_COMMAND_LINE_LEN
    /\ recvd \in 0..MAX_COMMAND_LINE_LEN /\ remaining \in 0..MAX_COMMAND_LINE_LEN
    /\ at = "scan" => recvd + remaining <= Len(sCmdBuffer)
    /\ at = "select" => remaining = 0 /\ Len(sCmdBuffer) = recvd /\ ~Full
    /\ next \in 0..MAX_COMMAND_LINE_LEN + 1 /\ flush \in BOOLEAN
    /\ at = "shell" /\ remaining > 0 => next # 0 /\ next + remaining - 1 <= Len(sCmdBuffer)
    /\ logged \in BOOLEAN /\ timedOut \in BOOLEAN
    /\ elapsed \in 0..Long /\ quiet \in 0..Long /\ left \in 0..Forever

\* However the peer's lines are cut into segments, Shell gets them one by one
\* and unchanged, and one 500 for each that is too long.  When the end of one
\* that is too long comes in one segment with letters of it before and with
\* anything behind, the '\n' of its "\r\n" included, the lines are right again
\* after the next that has come whole.
LinesAsSent ==
    ~slipped => IsPrefix(given, owed) /\ (at = "scan" /\ remaining = 0 /\ ~Full => given = owed)

\* Shell does not wait for a silent peer for ever, if there are timeouts and
\* its transfers end.
SelectEnds == at = "select" ~> at # "select"

=============================================================================
