------------------------------ MODULE Listing ------------------------------
(***************************************************************************)
(* LIST, NLST and STAT of CFtpServer.cpp: ListThread with CEnumFileInfo and *)
(* AddToListBuffer, beside the Shell of ControlChannel.  They share eStatus *)
(* and the clock.                                                           *)
(*                                                                         *)
(* Left out: how a line looks (GetFileListLine); a line is LineLen units    *)
(* long.  The data connection and the end of the thread by ABOR are in      *)
(* ClientSession.                                                           *)
(***************************************************************************)
EXTENDS ControlChannel

CONSTANTS
    Names,         \* what an entry of a directory can be called
    Listings,      \* bound: what a directory can hold: sequences of names
    Hidden,        \* the names that begin with a dot
    TooLongNames,  \* those with which the path is longer than MAX_PATH
    LineLen,       \* the length of a line,
    BufferSize     \* and of the buffer

Itself == "itself"  \* the name of what is listed, not of an entry

ASSUME ListingAssumption ==
    /\ Listings \subseteq Seq(Names) /\ Itself \notin Hidden \cup TooLongNames
    /\ LineLen \in Nat \ {0} /\ BufferSize \in Nat /\ LineLen <= BufferSize

VARIABLES
    thread,   \* where ListThread is; "none" if there is none
    opt_a,    \* pTransfer->opt_a
    vdp,      \* the name that is listed, and those that readdir has yet to return
    pBuffer,  \* what AddToListBuffer holds: <<name, unit>> of lines
    wire,     \* what has been sent,
    broken,   \* history: whether a send has failed,
    names     \* and what opendir has found

listing == <<opt_a, vdp, pBuffer, wire, broken, names>>
vars == <<channel, thread, listing>>

Init ==
    /\ ChannelInit
    /\ thread = "none" /\ opt_a = FALSE /\ broken = FALSE
    /\ vdp = <<>> /\ pBuffer = <<>> /\ wire = <<>> /\ names = <<>>

----------------------------------------------------------------------------
GetFileListLine(name) == [i \in 1..LineLen |-> <<name, i>>]

\* The lines for the first k entries, one after the other, the hidden ones left out.
Lines(entries, all) ==
    LET lines[k \in 0..Len(entries)] ==
            IF k = 0 THEN <<>>
            ELSE IF entries[k] \in Hidden /\ ~all THEN lines[k-1]
            ELSE lines[k-1] \o GetFileListLine(entries[k])
    IN  lines

\* Shell starts a ListThread, for a directory, or for a file or with -d.
List ==
    /\ at = "shell" /\ logged /\ eStatus = "WAITING" /\ thread = "none" /\ ReceiveLine
    /\ eStatus' = "LISTING"
    /\ opt_a' \in BOOLEAN
    /\ thread' \in {"opendir", "itself"}
    /\ UNCHANGED <<clock, promise, logged, timedOut, vdp, pBuffer, wire, broken, names>>

ListItself ==
    /\ thread = "itself"
    /\ names' = <<Itself>>
    /\ \/ wire' = GetFileListLine(Itself) /\ UNCHANGED broken
       \/ broken' = TRUE /\ UNCHANGED wire
    /\ thread' = "reply"
    /\ UNCHANGED <<channel, opt_a, vdp, pBuffer>>

\* redis_vfs::opendir copies the directory; readdir removes an entry of the copy.
opendir == names' \in Listings /\ vdp' = names'
readdir == vdp' = Tail(vdp)

\* Without an entry, or if the path of the first is too long, there is no
\* listing.
FindFirst ==
    /\ thread = "opendir"
    /\ opendir
    /\ thread' = IF names' = <<>> \/ Head(names') \in TooLongNames THEN "reply" ELSE "line"
    /\ UNCHANGED <<channel, opt_a, pBuffer, wire, broken>>

\* As much of the line as fits the buffer.
Copied(line) ==
    LET room == BufferSize - Len(pBuffer) IN IF Len(line) <= room THEN Len(line) ELSE room

\* Mutant: what does not fit the buffer is lost.
RestCut(line) == <<>>
Rest(line) == SubSeq(line, Copied(line) + 1, Len(line))

\* The buffer is sent when it is full; the rest of the line begins the next.
AddToListBuffer(line) ==
    LET filled == pBuffer \o SubSeq(line, 1, Copied(line)) IN
    \/ /\ Len(filled) < BufferSize
       /\ pBuffer' = filled /\ thread' = "next"
       /\ UNCHANGED <<wire, broken>>
    \/ /\ Len(filled) = BufferSize
       /\ wire' = wire \o filled /\ pBuffer' = Rest(line) /\ thread' = "next"
       /\ UNCHANGED broken
    \/ /\ Len(filled) = BufferSize
       /\ broken' = TRUE /\ pBuffer' = filled /\ thread' = "flush"
       /\ UNCHANGED wire

Entry ==
    /\ thread = "line"
    /\ IF Head(vdp) \in Hidden /\ ~opt_a
       THEN thread' = "next" /\ UNCHANGED <<pBuffer, wire, broken>>
       ELSE AddToListBuffer(GetFileListLine(Head(vdp)))
    /\ UNCHANGED <<channel, opt_a, vdp, names>>

\* An entry that is gone by now is listed all the same, as an empty file.
FindNext ==
    /\ thread = "next"
    /\ readdir
    /\ thread' = IF vdp' = <<>> \/ Head(vdp') \in TooLongNames THEN "flush" ELSE "line"
    /\ UNCHANGED <<channel, opt_a, pBuffer, wire, broken, names>>

Flush ==
    /\ thread = "flush"
    /\ \/ wire' = wire \o pBuffer /\ UNCHANGED broken
       \/ broken' = TRUE /\ UNCHANGED wire
    /\ pBuffer' = <<>>
    /\ thread' = "reply"
    /\ UNCHANGED <<channel, opt_a, vdp, names>>

\* "226 Transfer complete.", whatever has been sent; ResetDataConnection.
EndOfList ==
    /\ thread = "reply"
    /\ eStatus' = "WAITING"
    /\ quiet' = 0
    /\ thread' = "reset"
    /\ opt_a' = FALSE /\ broken' = FALSE
    /\ vdp' = <<>> /\ pBuffer' = <<>> /\ wire' = <<>> /\ names' = <<>>
    /\ UNCHANGED <<at, buffer, elapsed, left, promise, logged, timedOut>>

\* Mutant: the transfer counts as idle time.
KeepTimeout ==
    /\ thread = "reset"
    /\ thread' = "none"
    /\ UNCHANGED <<channel, listing>>

ResetTimeout ==
    /\ thread = "reset"
    /\ elapsed' = 0
    /\ thread' = "none"
    /\ UNCHANGED <<at, buffer, left, quiet, promise, session, listing>>

----------------------------------------------------------------------------
Shell ==
    \/ /\ \/ Letter \/ Line \/ EmptyLine \/ LineTooLong \/ Prepare \/ SelectEmpty
          \/ LogIn \/ LogOut \/ OtherCommand \/ Quit
       /\ UNCHANGED <<thread, listing>>
    \/ List

Peer == (Recv \/ PeerLeaves) /\ UNCHANGED <<thread, listing>>
Time == Tick /\ UNCHANGED <<thread, listing>>

ListThread ==
    \/ ListItself \/ FindFirst \/ Entry \/ FindNext \/ Flush \/ EndOfList \/ ResetTimeout

Next == Shell \/ Peer \/ Time \/ ListThread

Spec == Init /\ [][Next]_vars

\* Shell and ListThread run, and the clock does; the peer need not do anything.
FairSpec == Spec /\ WF_vars(Shell) /\ WF_vars(Time) /\ WF_vars(ListThread)

----------------------------------------------------------------------------
\* Every variable has its type, and Shell reads and writes within sCmdBuffer.
TypeOK ==
    /\ BufferOK
    /\ eStatus \in {"WAITING", "LISTING"}
    /\ thread \in {"none", "opendir", "itself", "line", "next", "flush", "reply", "reset"}
    /\ thread \in {"none", "reset"} <=> eStatus = "WAITING"
    /\ thread \in {"line", "next"} => vdp # <<>> /\ IsSuffix(vdp, names)
    /\ Len(pBuffer) <= BufferSize

\* A listing is the lines of the entries that opendir has found, whole and in
\* order, without the hidden ones and up to the first whose path is too long,
\* however they fill the buffer, unless the connection breaks.
ListingWhole ==
    LET long == {k \in DOMAIN names : names[k] \in TooLongNames}
        last == IF long = {} THEN Len(names) ELSE (CHOOSE k \in long : \A j \in long : k <= j) - 1 IN
    thread = "reply" /\ ~broken => wire = Lines(names, opt_a)[last]

\* A session that is logged in is timed out when it has been without a transfer
\* for as long as it may.  Only between the end of a transfer and ResetTimeout
\* may Shell still see the clock of before.
TimedOutWhenQuiet ==
    [][timedOut' /\ ~timedOut /\ logged /\ thread # "reset" => quiet >= NoTransferTimeout]_vars

=============================================================================
