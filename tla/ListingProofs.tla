--------------------------- MODULE ListingProofs ---------------------------
(***************************************************************************)
(* Proofs about ControlChannel and Listing, for any buffers, timeouts and  *)
(* directories, and a peer that sends anything.                            *)
(*                                                                         *)
(* The lines are right because of LineInv: with the line that ReceiveLine   *)
(* is scanning as the line begun, what it has not scanned yet calls for     *)
(* what is owed beyond what is given.  The listing is because of ListInv:   *)
(* what has been sent and the buffer are the lines of the names that        *)
(* readdir has taken.  A timeout comes when it may because the clock of     *)
(* Shell never runs ahead of the quiet time (QuietInv).                     *)
(***************************************************************************)
EXTENDS Listing, NaturalRecursion, SequenceTheorems

USE DEF vars, listing, channel, buffer, clock, promise, session
USE ChannelAssumption, ListingAssumption

----------------------------------------------------------------------------
(* Types.                                                                  *)

Answers == Seq(Character) \cup {TooLong}
Listable == Names \cup {Itself}
Units == Listable \X Nat

\* What the history says of the peer and of Shell.
PromiseOK ==
    /\ unfinished \in Seq(Character) /\ Len(unfinished) <= MAX_COMMAND_LINE_LEN
    /\ owed \in Seq(Answers) /\ given \in Seq(Answers) /\ slipped \in BOOLEAN

ThreadOK ==
    /\ eStatus \in {"WAITING", "LISTING"}
    /\ thread \in {"none", "opendir", "itself", "line", "next", "flush", "reply", "reset"}
    /\ thread \in {"none", "reset"} <=> eStatus = "WAITING"
    /\ opt_a \in BOOLEAN /\ broken \in BOOLEAN
    /\ names \in Seq(Listable) /\ vdp \in Seq(Listable)
    /\ pBuffer \in Seq(Units) /\ Len(pBuffer) <= BufferSize /\ wire \in Seq(Units)

\* What is scanned is in the buffer; select is called with a line begun in it,
\* and Shell has a line and what has come behind it.
ScanOK ==
    /\ at \in {"shell", "scan", "select", "closed"}
    /\ sCmdBuffer \in Seq(Character) /\ Len(sCmdBuffer) <= MAX_COMMAND_LINE_LEN
    /\ recvd \in Nat /\ remaining \in Nat /\ next \in Nat /\ flush \in BOOLEAN
    /\ next <= MAX_COMMAND_LINE_LEN + 1
    /\ recvd <= MAX_COMMAND_LINE_LEN /\ remaining <= MAX_COMMAND_LINE_LEN
    /\ at = "scan" => recvd + remaining <= Len(sCmdBuffer)
    /\ at = "select" => remaining = 0 /\ Len(sCmdBuffer) = recvd /\ ~Full
    /\ at = "shell" =>
          next = recvd + 2 /\ next + remaining - 1 <= Len(sCmdBuffer) /\ ~Full /\ ~flush

ClockOK ==
    /\ logged \in BOOLEAN /\ timedOut \in BOOLEAN
    /\ elapsed \in 0..Long /\ quiet \in 0..Long /\ left \in 0..Forever

----------------------------------------------------------------------------
(* The listing.                                                            *)

\* How many of the names readdir has taken.
Read == Len(names) - Len(vdp)

\* The listing ends after the first k entries.
Ends(k) ==
    /\ \A i \in 1..k : names[i] \notin TooLongNames
    /\ k < Len(names) => names[k+1] \in TooLongNames

Listed(k) == Lines(names, opt_a)[k]

\* vdp is what is left of the names, and the lines of those before are in the
\* buffer or sent.
ListInv ==
    /\ thread \in {"none", "opendir", "itself", "reset"} =>
          ~broken /\ names = <<>> /\ vdp = <<>> /\ pBuffer = <<>> /\ wire = <<>>
    /\ thread \in {"line", "next"} =>
          /\ vdp # <<>> /\ Len(vdp) <= Len(names)
          /\ \A i \in 1..Len(vdp) : vdp[i] = names[Read + i]
          /\ \A i \in 1..(Read + 1) : names[i] \notin TooLongNames
          /\ Len(pBuffer) < BufferSize /\ ~broken
    /\ thread = "line" => wire \o pBuffer = Listed(Read)
    /\ thread = "next" => wire \o pBuffer = Listed(Read + 1)
    /\ thread = "flush" /\ ~broken =>
          \E k \in 0..Len(names) : Ends(k) /\ wire \o pBuffer = Listed(k)
    /\ thread = "reply" /\ ~broken =>
          \E k \in 0..Len(names) : Ends(k) /\ wire = Listed(k)

\* The clock runs with the quiet time as long as nothing is transferred.
QuietInv == logged /\ thread = "none" => quiet >= elapsed

----------------------------------------------------------------------------
(* The lines.                                                              *)

\* What the peer has called for with the line l begun, when Shell has given g:
\* a line that has just filled the buffer is not answered yet.
Answered == IF at # "shell" /\ Full /\ ~flush THEN Append(given, TooLong) ELSE given

\* What has been received and not been scanned.
Pending ==
    IF at = "shell" THEN SubSeq(sCmdBuffer, recvd + 2, recvd + 1 + remaining)
    ELSE SubSeq(sCmdBuffer, recvd + 1, recvd + remaining)

\* The line that is scanned is l.
Scanned(l) ==
    /\ l \in Seq(Character) /\ Len(l) <= MAX_COMMAND_LINE_LEN
    /\ IF flush THEN Len(l) = MAX_COMMAND_LINE_LEN
       ELSE l = IF at = "shell" THEN <<>> ELSE SubSeq(sCmdBuffer, 1, recvd)

\* What is scanned and what is not give what the peer calls for.
Right(l) ==
    /\ Scanned(l)
    /\ Called([line |-> l, owed |-> Answered], Pending) = [line |-> unfinished, owed |-> owed]

\* Nothing is given while select waits; the lines are right while nothing slips.
LineInv ==
    /\ at = "select" => given = <<>>
    /\ ~slipped =>
          IF at = "closed" THEN IsPrefix(given, owed)
          ELSE \E l \in Seq(Character) : Right(l)

----------------------------------------------------------------------------
(* Sequences.                                                              *)

\* A part of a sequence.
LEMMA Cut ==
    ASSUME NEW S, NEW s \in Seq(S), NEW m \in Nat \ {0}, NEW n \in Nat, n <= Len(s)
    PROVE  /\ SubSeq(s, m, n) \in Seq(S)
           /\ Len(SubSeq(s, m, n)) = IF m <= n THEN n - m + 1 ELSE 0
           /\ \A i \in 1..(n - m + 1) : SubSeq(s, m, n)[i] = s[m + i - 1]
<1>1. Len(s) \in Nat
  BY LenProperties
<1>2. \A i \in m..n : s[i] \in S
  BY <1>1, ElementOfSeq
<1>3. QED
  BY <1>2, SubSeqProperties

----------------------------------------------------------------------------
(* Type correctness.                                                       *)

\* Recv takes no more than there is room for.
LEMMA Segment ==
    ASSUME ScanOK, at = "select", NEW data \in BoundedSeq(Character, Room) \ {<<>>}
    PROVE  /\ data \in Seq(Character) /\ Len(data) \in Nat \ {0}
           /\ Len(data) + recvd <= MAX_COMMAND_LINE_LEN
<1>1. Room \in Nat /\ recvd \in Nat /\ recvd + Room = MAX_COMMAND_LINE_LEN
  BY DEF ScanOK, Room
<1>2. PICK m \in 0..Room : data \in [1..m -> Character]
  BY <1>1 DEF BoundedSeq, SeqOf
<1>3. m \in Nat /\ m <= Room
  BY <1>1
<1>4. data \in Seq(Character) /\ Len(data) = m
  <2>1. data \in Seq(Character)
    BY <1>2, <1>3, SeqDef
  <2>2. DOMAIN data = 1..m /\ DOMAIN data = 1..Len(data) /\ Len(data) \in Nat
    BY <1>2, <2>1, LenProperties
  <2>3. QED
    BY <1>3, <2>1, <2>2
<1>5. Len(data) # 0
  <2>1. data # <<>>
    OBVIOUS
  <2>2. QED
    BY <1>4, <2>1, EmptySeq
<1>6. QED
  BY <1>1, <1>3, <1>4, <1>5

\* Shell scans and reads within sCmdBuffer.
LEMMA ScanStep == ASSUME ScanOK, [Next]_vars PROVE ScanOK'
<1> USE DEF ScanOK, Full
<1>0. Len(sCmdBuffer) \in Nat
  BY LenProperties
<1>r. ASSUME ReceiveLine, at = "shell" PROVE ScanOK'
  <2>1. SubSeq(sCmdBuffer, next, next + remaining - 1) \in Seq(Character)
        /\ Len(SubSeq(sCmdBuffer, next, next + remaining - 1)) = remaining
    <3>1. next \in Nat \ {0} /\ next + remaining - 1 \in Nat
      BY <1>r
    <3>2. QED
      BY <1>r, <3>1, Cut
  <2>2. <<>> \in Seq(Character) /\ Len(<<>>) = 0
    BY EmptySeq
  <2>3. sCmdBuffer' \in Seq(Character) /\ Len(sCmdBuffer') = remaining
    <3>1. CASE remaining > 0
      <4>1. sCmdBuffer' = SubSeq(sCmdBuffer, next, next + remaining - 1)
        BY <1>r, <3>1 DEF ReceiveLine
      <4>2. QED
        BY <2>1, <4>1
    <3>2. CASE ~ (remaining > 0)
      <4>1. sCmdBuffer' = <<>> /\ remaining = 0
        BY <1>r, <3>2 DEF ReceiveLine
      <4>2. QED
        BY <2>2, <4>1
    <3>3. QED
      BY <3>1, <3>2
  <2>4. at' = "scan" /\ recvd' = 0 /\ remaining' = remaining /\ next' \in {0, next}
    BY <1>r DEF ReceiveLine
  <2>5. flush' \in BOOLEAN
    BY <1>r, Zenon DEF ReceiveLine
  <2>6. next' <= MAX_COMMAND_LINE_LEN + 1
    BY <2>4
  <2>7. recvd' <= MAX_COMMAND_LINE_LEN /\ remaining' <= MAX_COMMAND_LINE_LEN
    BY <2>4
  <2>8. Len(sCmdBuffer') <= MAX_COMMAND_LINE_LEN
    BY <2>3, <2>4
  <2>9. recvd' + remaining' <= Len(sCmdBuffer')
    BY <2>3, <2>4
  <2>10. QED
    BY <2>3, <2>4, <2>5, <2>6, <2>7, <2>8, <2>9
<1>1. ASSUME Letter PROVE ScanOK'
  BY <1>0, <1>1 DEF Letter
<1>2. ASSUME Line PROVE ScanOK'
  BY <1>0, <1>2 DEF Line
<1>3. ASSUME EmptyLine PROVE ScanOK'
  <2>1. remaining' = remaining - 1 /\ remaining' \in Nat /\ recvd + 1 + remaining' <= Len(sCmdBuffer)
    BY <1>0, <1>3 DEF EmptyLine
  <2> DEFINE a == SubSeq(sCmdBuffer, 1, recvd)
             b == SubSeq(sCmdBuffer, recvd + 2, recvd + 1 + remaining')
  <2>2. a \in Seq(Character) /\ Len(a) = recvd
    <3>1. recvd \in Nat /\ recvd <= Len(sCmdBuffer)
      BY <1>0, <2>1
    <3>2. QED
      BY <3>1, Cut
  <2>3. b \in Seq(Character) /\ Len(b) = remaining'
    <3>1. recvd + 2 \in Nat \ {0} /\ recvd + 1 + remaining' \in Nat
      BY <2>1
    <3>2. b \in Seq(Character) /\ Len(b) = IF recvd + 2 <= recvd + 1 + remaining'
                                          THEN (recvd + 1 + remaining') - (recvd + 2) + 1 ELSE 0
      BY <2>1, <3>1, Cut
    <3>3. QED
      BY <2>1, <3>2
  <2>4. a \o b \in Seq(Character) /\ Len(a \o b) = recvd + remaining'
    BY <2>2, <2>3, ConcatProperties
  <2>5. sCmdBuffer' = a \o b /\ recvd' \in {0, recvd} /\ at = "scan" /\ UNCHANGED <<at, next>>
    BY <1>3 DEF EmptyLine
  <2>0. flush' \in BOOLEAN
    BY <1>3, Zenon DEF EmptyLine
  <2> HIDE DEF a, b
  <2>6. Len(sCmdBuffer') = recvd + remaining' /\ sCmdBuffer' \in Seq(Character)
    BY <2>4, <2>5
  <2>7. recvd' \in Nat /\ recvd' <= recvd
    BY <2>5
  <2>8. at' = "scan" /\ next' = next
    BY <2>5
  <2>9. recvd + remaining' <= MAX_COMMAND_LINE_LEN /\ remaining' <= MAX_COMMAND_LINE_LEN
    BY <1>0, <2>1
  <2>10. recvd' + remaining' <= Len(sCmdBuffer')
    <3>1. recvd \in Nat /\ remaining' \in Nat
      BY <2>1
    <3>2. \A x, y, z \in Nat : x <= y => x + z <= y + z
      OBVIOUS
    <3>3. QED
      BY <2>6, <2>7, <3>1, <3>2, Zenon
  <2>11. Len(sCmdBuffer') <= MAX_COMMAND_LINE_LEN
    BY <2>6, <2>9
  <2>12. next' \in Nat /\ next' <= MAX_COMMAND_LINE_LEN + 1 /\ recvd' <= MAX_COMMAND_LINE_LEN
    BY <2>7, <2>8
  <2>13. QED
    BY <2>0, <2>1, <2>6, <2>7, <2>8, <2>9, <2>10, <2>11, <2>12
<1>4. ASSUME LineTooLong PROVE ScanOK'
  BY <1>0, <1>4, EmptySeq DEF LineTooLong
<1>5. ASSUME Prepare PROVE ScanOK'
  <2>1. SubSeq(sCmdBuffer, 1, recvd) \in Seq(Character) /\ Len(SubSeq(sCmdBuffer, 1, recvd)) = recvd
    <3>1. recvd \in Nat /\ recvd <= Len(sCmdBuffer)
      BY <1>0, <1>5 DEF Prepare
    <3>2. QED
      BY <3>1, Cut
  <2>2. QED
    BY <1>5, <2>1 DEF Prepare
<1>6. ASSUME Recv PROVE ScanOK'
  <2>1. PICK data \in BoundedSeq(Character, Room) \ {<<>>} :
            sCmdBuffer' = sCmdBuffer \o data /\ remaining' = remaining + Len(data)
    BY <1>6 DEF Recv
  <2>2. at = "select" /\ at' = "scan" /\ UNCHANGED <<recvd, next, flush>>
    BY <1>6 DEF Recv
  <2>3. /\ data \in Seq(Character) /\ Len(data) \in Nat \ {0}
        /\ Len(data) + recvd <= MAX_COMMAND_LINE_LEN
    BY <2>2, Segment
  <2>4. sCmdBuffer \o data \in Seq(Character) /\ Len(sCmdBuffer \o data) = Len(sCmdBuffer) + Len(data)
    BY <2>3, ConcatProperties
  <2>5. QED
    BY <1>0, <2>1, <2>2, <2>3, <2>4
<1>7. ASSUME SelectEmpty \/ PeerLeaves \/ Tick PROVE ScanOK'
  BY <1>7 DEF SelectEmpty, PeerLeaves, Tick
<1>8. ASSUME LogIn \/ LogOut \/ OtherCommand \/ List PROVE ScanOK'
  BY <1>r, <1>8 DEF LogIn, LogOut, OtherCommand, List
<1>9. ASSUME Quit PROVE ScanOK'
  BY <1>9 DEF Quit
<1>10. ASSUME ListThread PROVE ScanOK'
  BY <1>10 DEF ListThread, ListItself, FindFirst, Entry, FindNext, Flush, EndOfList, ResetTimeout
<1>11. ASSUME UNCHANGED vars PROVE ScanOK'
  BY <1>11
<1>12. QED
  BY <1>1, <1>2, <1>3, <1>4, <1>5, <1>6, <1>7, <1>8, <1>9, <1>10, <1>11 DEF Next, Shell, Peer, Time

\* The clocks stay within their bounds.
LEMMA ClockStep == ASSUME ClockOK, [Next]_vars PROVE ClockOK'
<1>0. Long \in Nat /\ Forever \in Nat /\ Forever = Long + 1
      /\ NoTransferTimeout <= Long /\ NoLoginTimeout <= Long
  BY DEF Long, Forever
<1>1. Wait \in 0..Forever
  BY <1>0 DEF Wait, ClockOK
<1>2. \A s \in 0..Long : After(s) \in 0..Long
  BY <1>0 DEF After
<1>3. ASSUME Letter \/ Line \/ EmptyLine \/ LineTooLong \/ Prepare \/ SelectEmpty PROVE ClockOK'
  BY <1>0, <1>1, <1>3 DEF ClockOK, Letter, Line, EmptyLine, LineTooLong, Prepare, SelectEmpty
<1>4. ASSUME LogIn \/ LogOut \/ OtherCommand \/ Quit \/ List PROVE ClockOK'
  <2>1. logged' \in BOOLEAN /\ UNCHANGED <<timedOut, left>>
    BY <1>4, Zenon DEF ClockOK, LogIn, LogOut, OtherCommand, Quit, List
  <2>2. elapsed' \in {0, elapsed} /\ quiet' \in {0, quiet}
    BY <1>4 DEF LogIn, LogOut, OtherCommand, Quit, List
  <2>3. QED
    BY <1>0, <2>1, <2>2 DEF ClockOK
<1>r. ASSUME Recv \/ PeerLeaves PROVE ClockOK'
  <2>1. UNCHANGED <<clock, session>>
    BY <1>r DEF Recv, PeerLeaves
  <2>2. QED
    BY <2>1 DEF ClockOK
<1>5. ASSUME Tick PROVE ClockOK'
  BY <1>0, <1>2, <1>5 DEF ClockOK, Tick
<1>6. ASSUME ListThread PROVE ClockOK'
  BY <1>0, <1>6 DEF ClockOK, ListThread, ListItself, FindFirst, Entry, FindNext, Flush, EndOfList, ResetTimeout
<1>7. ASSUME UNCHANGED vars PROVE ClockOK'
  BY <1>7 DEF ClockOK
<1>8. QED
  BY <1>3, <1>4, <1>r, <1>5, <1>6, <1>7 DEF Next, Shell, Peer, Time

----------------------------------------------------------------------------
(* The lines of a listing.                                                 *)

\* A line of an entry.
LEMMA LineType ==
    ASSUME NEW name \in Listable
    PROVE  GetFileListLine(name) \in Seq(Units) /\ Len(GetFileListLine(name)) = LineLen
<1> DEFINE line == [i \in 1..LineLen |-> <<name, i>>]
<1>1. \A i \in 1..LineLen : <<name, i>> \in Units
  <2>1. \A S : \A s \in S, i \in 1..LineLen : <<s, i>> \in S \X Nat
    OBVIOUS
  <2>2. QED
    BY <2>1, Zenon DEF Units
<1>2. line \in [1..LineLen -> Units]
  BY <1>1
<1> HIDE DEF line
<1>3. line \in Seq(Units)
  BY <1>2, SeqDef
<1>4. Len(line) = LineLen
  BY <1>2, <1>3, LenProperties
<1>5. QED
  BY <1>3, <1>4 DEF GetFileListLine, line

\* The lines of the first k entries are those of the first k - 1 and the line
\* of the next.
LEMMA LinesProperties ==
    ASSUME NEW entries \in Seq(Listable), NEW all
    PROVE  /\ Lines(entries, all)[0] = <<>>
           /\ \A k \in 1..Len(entries) :
                  Lines(entries, all)[k] =
                      IF entries[k] \in Hidden /\ ~all THEN Lines(entries, all)[k-1]
                      ELSE Lines(entries, all)[k-1] \o GetFileListLine(entries[k])
           /\ \A k \in 0..Len(entries) : Lines(entries, all)[k] \in Seq(Units)
<1> DEFINE n == Len(entries)
           Grown(s, k) == IF entries[k] \in Hidden /\ ~all THEN s
                          ELSE s \o GetFileListLine(entries[k])
           step == [x \in Seq(Units) \X (1..n) |-> Grown(x[1], x[2])]
<1>1. n \in Nat
  BY LenProperties
<1>2. \A s \in Seq(Units), k \in 1..n : Grown(s, k) \in Seq(Units)
  BY ElementOfSeq, LineType, ConcatProperties
<1>3. step \in Steps(Seq(Units), n)
  <2> HIDE DEF n, Grown
  <2>1. QED
    BY <1>2 DEF Steps
<1>4. <<>> \in Seq(Units)
  BY EmptySeq
<1>5. PICK f \in [0..n -> Seq(Units)] :
          f[0] = <<>> /\ \A i \in 1..n : f[i] = step[<<f[i-1], i>>]
  <2> HIDE DEF n, step
  <2>1. Defined(Seq(Units), n, <<>>, step) # {}
    BY <1>1, <1>3, <1>4, BoundedRecursion
  <2>2. QED
    BY <2>1 DEF Defined
<1>6. \A i \in 1..n : f[i] = Grown(f[i-1], i)
  <2> HIDE DEF n, Grown
  <2>1. \A i \in 1..n : f[i-1] \in Seq(Units)
    BY <1>1, <1>5
  <2>2. QED
    BY <1>1, <1>5, <2>1
<1>7. f = [k \in 0..n |-> IF k = 0 THEN <<>> ELSE Grown(f[k-1], k)]
  <2> HIDE DEF n, Grown
  <2>1. QED
    BY <1>1, <1>5, <1>6
<1> DEFINE L == Lines(entries, all)
<1>8. L = [k \in 0..n |-> IF k = 0 THEN <<>> ELSE Grown(L[k-1], k)]
  BY <1>7, Zenon DEF Lines
<1>9. L[0] = <<>> /\ \A k \in 1..n : L[k] = Grown(L[k-1], k)
  <2> HIDE DEF n, Grown, L
  <2>1. QED
    BY <1>1, <1>8
<1>10. \A k \in 0..n : L[k] \in Seq(Units)
  <2> HIDE DEF n, Grown, L
  <2> DEFINE T == {k \in 0..n : L[k] \in Seq(Units)}
  <2>1. 0 \in T
    <3>1. L[0] \in Seq(Units)
      BY <1>4, <1>9, Zenon
    <3>2. QED
      BY <1>1, <3>1
  <2>2. ASSUME NEW k \in 1..n, k - 1 \in T PROVE k \in T
    <3>1. L[k] \in Seq(Units)
      BY <1>2, <1>9, <2>2, Zenon
    <3>2. QED
      BY <1>1, <3>1
  <2>3. \A k \in 0..n : k \in T
    <3> HIDE DEF T
    <3>1. QED
      BY <1>1, <2>1, <2>2, BoundedInduction
  <2>4. QED
    BY <2>3
<1>11. QED
  BY <1>9, <1>10

\* What a line adds to the buffer, and what it leaves.
LEMMA Added ==
    ASSUME pBuffer \in Seq(Units), Len(pBuffer) < BufferSize,
           NEW line \in Seq(Units), Len(line) = LineLen, NEW filled,
           filled = pBuffer \o SubSeq(line, 1, Copied(line))
    PROVE  /\ filled \in Seq(Units) /\ Len(filled) <= BufferSize
           /\ Rest(line) \in Seq(Units) /\ Len(Rest(line)) < BufferSize
           /\ filled \o Rest(line) = pBuffer \o line
           /\ Len(filled) < BufferSize => filled = pBuffer \o line
<1>1. Len(pBuffer) \in Nat /\ Copied(line) \in 1..LineLen
      /\ Copied(line) <= BufferSize - Len(pBuffer)
      /\ (Copied(line) < BufferSize - Len(pBuffer) => Copied(line) = LineLen)
  BY LenProperties DEF Copied
<1> DEFINE k == Copied(line)
           a == SubSeq(line, 1, k)
           b == SubSeq(line, k + 1, LineLen)
<1>2. a \in Seq(Units) /\ Len(a) = k
  <2>1. k \in Nat /\ 1 <= k /\ k <= Len(line)
    BY <1>1
  <2>2. QED
    BY <2>1, Cut
<1>3. b \in Seq(Units) /\ Len(b) = LineLen - k
  <2>1. k + 1 \in Nat \ {0} /\ LineLen \in Nat /\ LineLen <= Len(line) /\ k <= LineLen
    BY <1>1
  <2> HIDE DEF k
  <2>2. b \in Seq(Units) /\ Len(b) = IF k + 1 <= LineLen THEN LineLen - (k + 1) + 1 ELSE 0
    BY <2>1, Cut
  <2>3. LineLen - k = IF k + 1 <= LineLen THEN LineLen - (k + 1) + 1 ELSE 0
    BY <1>1, <2>1 DEF k
  <2>4. QED
    BY <2>2, <2>3, Zenon
<1>4. a \o b = line
  <2>1. 1 \in 1..(Len(line) + 1) /\ k \in (1 - 1)..Len(line) /\ LineLen \in k..Len(line)
    BY <1>1
  <2>2. a \o b = SubSeq(line, 1, LineLen)
    BY <2>1, ConcatAdjacentSubSeq
  <2>3. QED
    BY <2>2, SubSeqFull
<1>5. Rest(line) = b /\ filled = pBuffer \o a
  BY DEF Rest
<1> HIDE DEF a, b, k
<1>6. filled \in Seq(Units) /\ Len(filled) = Len(pBuffer) + k
  BY <1>2, <1>5, ConcatProperties
<1>7. filled \o b = pBuffer \o line
  <2>1. \A s, t, u \in Seq(Units) : (s \o t) \o u = s \o (t \o u)
    BY ConcatAssociative, SMTT(90)
  <2>2. (pBuffer \o a) \o b = pBuffer \o (a \o b)
    BY <1>2, <1>3, <2>1, Zenon
  <2>3. QED
    BY <1>4, <1>5, <2>2, Zenon
<1>8. ASSUME Len(filled) < BufferSize PROVE filled = pBuffer \o line
  <2>1. Len(b) = 0
    BY <1>1, <1>3, <1>6, <1>8 DEF k
  <2>2. b = <<>>
    BY <1>3, <2>1, EmptySeq
  <2>3. QED
    BY <1>6, <1>7, <2>2, ConcatEmptySeq
<1>9. Len(filled) <= BufferSize /\ Len(b) < BufferSize
  BY <1>1, <1>3, <1>6 DEF k
<1>10. QED
  BY <1>3, <1>5, <1>6, <1>7, <1>8, <1>9, Zenon

----------------------------------------------------------------------------
(* The steps of a listing.                                                 *)

\* Steps that do not concern the listing.
LEMMA ListingKept ==
    ASSUME ThreadOK, ListInv, UNCHANGED <<thread, listing, eStatus>> PROVE ThreadOK' /\ ListInv'
BY DEF ThreadOK, ListInv, Read, Ends, Listed

\* Shell starts the thread.
LEMMA ListStarts == ASSUME ThreadOK, ListInv, List PROVE ThreadOK' /\ ListInv'
<1>1. /\ thread = "none" /\ eStatus' = "LISTING" /\ thread' \in {"opendir", "itself"}
      /\ UNCHANGED <<vdp, pBuffer, wire, broken, names>>
  BY DEF List
<1>2. opt_a' \in BOOLEAN
  BY DEF List
<1>3. ThreadOK'
  BY <1>1, <1>2 DEF ThreadOK
<1>4. ListInv'
  BY <1>1 DEF ListInv
<1>5. QED
  BY <1>3, <1>4

\* What is listed is a file, or a directory itself.
LEMMA ListsItself == ASSUME ThreadOK, ListInv, ListItself PROVE ThreadOK' /\ ListInv'
<1>1. /\ thread = "itself" /\ thread' = "reply" /\ names' = <<Itself>>
      /\ UNCHANGED <<eStatus, opt_a, vdp, pBuffer>>
      /\ \/ wire' = GetFileListLine(Itself) /\ UNCHANGED broken
         \/ broken' = TRUE /\ UNCHANGED wire
  BY DEF ListItself
<1>2. Itself \in Listable /\ <<Itself>> \in Seq(Listable) /\ Len(<<Itself>>) = 1
  <2>1. \A S : \A x \in S : <<x>> \in Seq(S) /\ Len(<<x>>) = 1
    OBVIOUS
  <2>2. QED
    BY <2>1, Zenon DEF Listable
<1>3. PICK entries \in Seq(Listable) : entries = <<Itself>>
  BY <1>2
<1>4. Len(entries) = 1 /\ entries[1] = Itself
  BY <1>2, <1>3
<1>5. GetFileListLine(Itself) \in Seq(Units)
  BY <1>2, LineType
<1>6. ThreadOK'
  <2>1. wire' \in Seq(Units) /\ broken' \in BOOLEAN
    BY <1>1, <1>5, Zenon DEF ThreadOK
  <2>2. names' \in Seq(Listable)
    BY <1>1, <1>3
  <2>3. QED
    BY <1>1, <2>1, <2>2 DEF ThreadOK
<1>7. ASSUME ~broken' PROVE wire' = GetFileListLine(Itself)
  BY <1>1, <1>7
<1>8. Lines(entries, opt_a)[1] = GetFileListLine(Itself)
  <2>1. 1 \in 1..Len(entries) /\ 1 - 1 = 0
    BY <1>4
  <2>2. Lines(entries, opt_a)[0] = <<>>
    BY LinesProperties
  <2>3. Lines(entries, opt_a)[1] = Lines(entries, opt_a)[0] \o GetFileListLine(Itself)
    <3>1. Itself \notin Hidden
      OBVIOUS
    <3>2. Lines(entries, opt_a)[1] =
              IF entries[1] \in Hidden /\ ~opt_a THEN Lines(entries, opt_a)[1-1]
              ELSE Lines(entries, opt_a)[1-1] \o GetFileListLine(entries[1])
      BY <2>1, LinesProperties
    <3>3. QED
      BY <1>4, <2>1, <3>1, <3>2
  <2>4. QED
    BY <1>5, <2>2, <2>3, ConcatEmptySeq
<1>9. Ends(1)' /\ 1 \in 0..Len(names')
  BY <1>1, <1>3, <1>4 DEF Ends
<1>10. ASSUME ~broken' PROVE wire' = Listed(1)'
  BY <1>1, <1>3, <1>7, <1>8, <1>10 DEF Listed
<1>11. ListInv'
  BY <1>1, <1>9, <1>10 DEF ListInv
<1>12. QED
  BY <1>6, <1>11

\* opendir copies the names of the directory.
LEMMA FindsFirst == ASSUME ThreadOK, ListInv, FindFirst PROVE ThreadOK' /\ ListInv'
<1>1. /\ thread = "opendir" /\ names' \in Listings /\ vdp' = names'
      /\ thread' = IF names' = <<>> \/ Head(names') \in TooLongNames THEN "reply" ELSE "line"
      /\ UNCHANGED <<eStatus, opt_a, pBuffer, wire, broken>>
  BY DEF FindFirst, opendir
<1>2. PICK entries \in Seq(Listable) : entries = names'
  <2>1. names' \in Seq(Names) /\ Names \subseteq Listable
    BY <1>1 DEF Listable
  <2>2. QED
    BY <2>1, SeqMonotonic
<1>3. Len(entries) \in Nat /\ (entries # <<>> => Len(entries) # 0 /\ Head(entries) = entries[1])
  BY LenProperties, EmptySeq
<1>4. ThreadOK'
  BY <1>1, <1>2 DEF ThreadOK
<1>5. pBuffer = <<>> /\ wire = <<>> /\ ~broken
  BY <1>1 DEF ListInv
<1>6. Listed(0)' = <<>>
  BY <1>2, LinesProperties DEF Listed
<1>7. <<>> \o <<>> = <<>>
  BY EmptySeq, ConcatEmptySeq
<1>8. CASE names' = <<>> \/ Head(names') \in TooLongNames
  <2>1. Ends(0)' /\ 0 \in 0..Len(names')
    BY <1>2, <1>3, <1>8, EmptySeq DEF Ends
  <2>2. thread' = "reply" /\ wire' = Listed(0)'
    BY <1>1, <1>5, <1>6, <1>8
  <2>3. ListInv'
    BY <2>1, <2>2 DEF ListInv
  <2>4. QED
    BY <1>4, <2>3
<1>9. CASE ~ (names' = <<>> \/ Head(names') \in TooLongNames)
  <2>1. thread' = "line" /\ pBuffer' = <<>> /\ wire' = <<>> /\ ~broken'
    BY <1>1, <1>5, <1>9
  <2>2. Read' = 0
    BY <1>1, <1>2, <1>3 DEF Read
  <2>3. wire' \o pBuffer' = Listed(Read)'
    BY <1>6, <1>7, <2>1, <2>2 DEF Listed
  <2>4. Len(pBuffer') < BufferSize
    BY <2>1, EmptySeq
  <2>5. \A i \in 1..Len(vdp') : vdp'[i] = names'[Read' + i]
    BY <1>1, <1>2, <1>3, <2>2
  <2>6. \A i \in 1..(Read' + 1) : names'[i] \notin TooLongNames
    BY <1>2, <1>3, <1>9, <2>2
  <2>7. vdp' # <<>> /\ Len(vdp') <= Len(names')
    BY <1>1, <1>2, <1>3, <1>9
  <2>8. ListInv'
    BY <2>1, <2>3, <2>4, <2>5, <2>6, <2>7 DEF ListInv
  <2>9. QED
    BY <1>4, <2>8
<1>10. QED
  BY <1>8, <1>9

\* The line of an entry goes to the buffer, which may fill it and be sent.
LEMMA EntryListed == ASSUME ThreadOK, ListInv, Entry PROVE ThreadOK' /\ ListInv'
<1>1. /\ thread = "line" /\ UNCHANGED <<eStatus, opt_a, vdp, names>>
      /\ IF Head(vdp) \in Hidden /\ ~opt_a
         THEN thread' = "next" /\ UNCHANGED <<pBuffer, wire, broken>>
         ELSE AddToListBuffer(GetFileListLine(Head(vdp)))
  BY DEF Entry
<1>2. /\ vdp # <<>> /\ Len(vdp) <= Len(names) /\ ~broken /\ Len(pBuffer) < BufferSize
      /\ \A i \in 1..Len(vdp) : vdp[i] = names[Read + i]
      /\ \A i \in 1..(Read + 1) : names[i] \notin TooLongNames
      /\ wire \o pBuffer = Listed(Read)
  BY <1>1 DEF ListInv
<1>3. /\ names \in Seq(Listable) /\ vdp \in Seq(Listable) /\ pBuffer \in Seq(Units)
      /\ wire \in Seq(Units)
  BY DEF ThreadOK
<1>4. Len(vdp) \in Nat \ {0} /\ Len(names) \in Nat /\ Head(vdp) = vdp[1] /\ vdp[1] \in Listable
  BY <1>2, <1>3, LenProperties, EmptySeq, ElementOfSeq
<1>5. Read \in Nat /\ Read + 1 \in 1..Len(names) /\ (Read + 1) - 1 = Read
  BY <1>2, <1>4 DEF Read
<1>6. Head(vdp) = names[Read + 1]
  BY <1>2, <1>4
<1>7. Listed(Read + 1) = IF Head(vdp) \in Hidden /\ ~opt_a THEN Listed(Read)
                         ELSE Listed(Read) \o GetFileListLine(Head(vdp))
  <2>1. Listed(Read + 1) = IF names[Read + 1] \in Hidden /\ ~opt_a THEN Listed((Read + 1) - 1)
                           ELSE Listed((Read + 1) - 1) \o GetFileListLine(names[Read + 1])
    <3> HIDE DEF Read
    <3>1. QED
      BY <1>3, <1>5, LinesProperties DEF Listed
  <2>2. QED
    BY <1>5, <1>6, <2>1
<1>8. Read' = Read /\ Listed(Read)' = Listed(Read) /\ Listed(Read + 1)' = Listed(Read + 1)
  BY <1>1 DEF Read, Listed
\* What holds in each case when the lines are right.
<1>9. ASSUME thread' = "next", ~broken', pBuffer' \in Seq(Units), Len(pBuffer') < BufferSize,
             wire' \in Seq(Units), wire' \o pBuffer' = Listed(Read + 1), broken' \in BOOLEAN
      PROVE  ThreadOK' /\ ListInv'
  <2>1. ThreadOK'
    BY <1>1, <1>9, LenProperties DEF ThreadOK
  <2>2. wire' \o pBuffer' = Listed(Read + 1)'
    BY <1>8, <1>9
  <2>3. /\ vdp' # <<>> /\ Len(vdp') <= Len(names')
        /\ \A i \in 1..Len(vdp') : vdp'[i] = names'[Read' + i]
        /\ \A i \in 1..(Read' + 1) : names'[i] \notin TooLongNames
    BY <1>1, <1>2, <1>8
  <2>4. ListInv'
    BY <1>9, <2>2, <2>3 DEF ListInv
  <2>5. QED
    BY <2>1, <2>4
<1>10. CASE Head(vdp) \in Hidden /\ ~opt_a
  <2>1. thread' = "next" /\ UNCHANGED <<pBuffer, wire, broken>>
    BY <1>1, <1>10
  <2>2. Listed(Read + 1) = Listed(Read)
    BY <1>7, <1>10
  <2>3. broken' \in BOOLEAN
    BY <2>1, Zenon DEF ThreadOK
  <2>4. QED
    BY <1>2, <1>3, <1>9, <2>1, <2>2, <2>3
<1>11. CASE ~ (Head(vdp) \in Hidden /\ ~opt_a)
  <2> DEFINE line == GetFileListLine(Head(vdp))
             filled == pBuffer \o SubSeq(line, 1, Copied(line))
  <2>1. line \in Seq(Units) /\ Len(line) = LineLen
    BY <1>4, LineType
  <2>2. AddToListBuffer(line)
    BY <1>1, <1>11
  <2>3. \/ /\ Len(filled) < BufferSize
           /\ pBuffer' = filled /\ thread' = "next"
           /\ UNCHANGED <<wire, broken>>
        \/ /\ Len(filled) = BufferSize
           /\ wire' = wire \o filled /\ pBuffer' = Rest(line) /\ thread' = "next"
           /\ UNCHANGED broken
        \/ /\ Len(filled) = BufferSize
           /\ broken' = TRUE /\ pBuffer' = filled /\ thread' = "flush"
           /\ UNCHANGED wire
    <3> HIDE DEF line
    <3>1. QED
      BY <2>2 DEF AddToListBuffer
  <2>4. Listed(Read + 1) = (wire \o pBuffer) \o line
    BY <1>2, <1>7, <1>11
  <2> HIDE DEF line
  <2>5. /\ filled \in Seq(Units) /\ Len(filled) <= BufferSize
        /\ Rest(line) \in Seq(Units) /\ Len(Rest(line)) < BufferSize
        /\ filled \o Rest(line) = pBuffer \o line
        /\ Len(filled) < BufferSize => filled = pBuffer \o line
    <3> HIDE DEF filled
    <3>1. filled = pBuffer \o SubSeq(line, 1, Copied(line))
      BY DEF filled
    <3>2. QED
      BY <1>2, <1>3, <2>1, <3>1, Added
  <2> HIDE DEF filled
  <2>6. /\ (wire \o pBuffer) \o line = wire \o (pBuffer \o line)
        /\ wire \o (filled \o Rest(line)) = (wire \o filled) \o Rest(line)
        /\ wire \o filled \in Seq(Units)
    <3>1. \A s, t, u \in Seq(Units) : (s \o t) \o u = s \o (t \o u)
      BY ConcatAssociative, SMTT(90)
    <3>2. (wire \o pBuffer) \o line = wire \o (pBuffer \o line)
      BY <1>3, <2>1, <3>1, Zenon
    <3>3. wire \o (filled \o Rest(line)) = (wire \o filled) \o Rest(line)
      BY <1>3, <2>5, <3>1, Zenon
    <3>4. wire \o filled \in Seq(Units)
      BY <1>3, <2>5, ConcatProperties
    <3>5. QED
      BY <3>2, <3>3, <3>4, Zenon
  <2>7. CASE Len(filled) < BufferSize /\ pBuffer' = filled /\ thread' = "next"
             /\ UNCHANGED <<wire, broken>>
    <3>1. wire' \o pBuffer' = Listed(Read + 1)
      BY <2>4, <2>5, <2>6, <2>7
    <3>2. broken' \in BOOLEAN
      BY <2>7, Zenon DEF ThreadOK
    <3>3. QED
      BY <1>2, <1>3, <1>9, <2>5, <2>7, <3>1, <3>2
  <2>8. CASE wire' = wire \o filled /\ pBuffer' = Rest(line) /\ thread' = "next" /\ UNCHANGED broken
    <3>1. wire' \o pBuffer' = Listed(Read + 1)
      BY <2>4, <2>5, <2>6, <2>8
    <3>2. broken' \in BOOLEAN
      BY <2>8, Zenon DEF ThreadOK
    <3>3. wire' \in Seq(Units) /\ pBuffer' \in Seq(Units) /\ Len(pBuffer') < BufferSize /\ ~broken'
      BY <1>2, <2>5, <2>6, <2>8
    <3>4. QED
      BY <1>9, <2>8, <3>1, <3>2, <3>3
  <2>9. CASE broken' = TRUE /\ pBuffer' = filled /\ thread' = "flush" /\ UNCHANGED wire
    <3>1. broken' \in BOOLEAN
      BY <2>9, Zenon
    <3>2. ThreadOK'
      BY <1>1, <1>3, <2>5, <2>9, <3>1 DEF ThreadOK
    <3>3. ListInv'
      BY <2>9 DEF ListInv
    <3>4. QED
      BY <3>2, <3>3
  <2>10. QED
    BY <2>3, <2>7, <2>8, <2>9
<1>12. QED
  BY <1>10, <1>11

\* readdir takes the next name, or the listing ends there.
LEMMA FindsNext == ASSUME ThreadOK, ListInv, FindNext PROVE ThreadOK' /\ ListInv'
<1>1. /\ thread = "next" /\ vdp' = Tail(vdp)
      /\ thread' = IF vdp' = <<>> \/ Head(vdp') \in TooLongNames THEN "flush" ELSE "line"
      /\ UNCHANGED <<eStatus, opt_a, pBuffer, wire, broken, names>>
  BY DEF FindNext, readdir
<1>2. /\ vdp # <<>> /\ Len(vdp) <= Len(names) /\ ~broken /\ Len(pBuffer) < BufferSize
      /\ \A i \in 1..Len(vdp) : vdp[i] = names[Read + i]
      /\ \A i \in 1..(Read + 1) : names[i] \notin TooLongNames
      /\ wire \o pBuffer = Listed(Read + 1)
  BY <1>1 DEF ListInv
<1>3. names \in Seq(Listable) /\ vdp \in Seq(Listable)
  BY DEF ThreadOK
<1>4. /\ Len(vdp) \in Nat \ {0} /\ Len(names) \in Nat
      /\ vdp' \in Seq(Listable) /\ Len(vdp') = Len(vdp) - 1
      /\ \A i \in 1..Len(vdp') : vdp'[i] = vdp[i+1]
  BY <1>1, <1>2, <1>3, LenProperties, EmptySeq, HeadTailProperties
<1>5. PICK r \in Nat : r = Read
  <2>1. Read \in Nat
    BY <1>2, <1>4 DEF Read
  <2>2. QED
    BY <2>1
<1>6. Read' = r + 1 /\ Len(names) = r + Len(vdp) /\ Len(names') = (r + 1) + Len(vdp')
  BY <1>1, <1>4, <1>5 DEF Read
<1> HIDE DEF Read
<1>7. ThreadOK'
  BY <1>1, <1>4 DEF ThreadOK
<1>8. wire' \o pBuffer' = Listed(r + 1)'
  BY <1>1, <1>2, <1>5 DEF Listed
<1>9. \A i \in 1..Len(vdp') : vdp'[i] = names'[(r + 1) + i]
  <2> SUFFICES ASSUME NEW i \in 1..Len(vdp') PROVE vdp'[i] = names[(r + 1) + i]
    BY <1>1
  <2>1. i + 1 \in 1..Len(vdp) /\ r + (i + 1) = (r + 1) + i
    BY <1>4
  <2>2. vdp[i + 1] = names[r + (i + 1)]
    BY <1>2, <1>5, <2>1, Zenon
  <2>3. QED
    BY <1>4, <2>1, <2>2
<1>10. vdp' # <<>> => Len(vdp') # 0 /\ Head(vdp') = names'[(r + 1) + 1]
  <2>1. ASSUME vdp' # <<>> PROVE Len(vdp') \in Nat \ {0} /\ Head(vdp') = vdp'[1]
    BY <1>4, <2>1, EmptySeq
  <2>2. ASSUME vdp' # <<>> PROVE 1 \in 1..Len(vdp')
    BY <2>1, <2>2
  <2>3. QED
    BY <1>9, <2>1, <2>2
<1>11. \A i \in 1..(r + 1) : names'[i] \notin TooLongNames
  BY <1>1, <1>2, <1>5
<1>12. CASE vdp' = <<>> \/ Head(vdp') \in TooLongNames
  <2>1. r + 1 \in 0..Len(names')
    BY <1>1, <1>4, <1>6
  <2>2. ASSUME r + 1 < Len(names') PROVE names'[(r + 1) + 1] \in TooLongNames
    <3>1. Len(vdp') # 0
      BY <1>4, <1>6, <2>2
    <3>2. vdp' # <<>>
      BY <3>1, EmptySeq
    <3>3. QED
      BY <1>10, <1>12, <3>2
  <2>3. Ends(r + 1)'
    BY <1>11, <2>2 DEF Ends
  <2>4. thread' = "flush"
    BY <1>1, <1>12
  <2>5. ListInv'
    BY <1>8, <2>1, <2>3, <2>4 DEF ListInv
  <2>6. QED
    BY <1>7, <2>5
<1>13. CASE ~ (vdp' = <<>> \/ Head(vdp') \in TooLongNames)
  <2>1. thread' = "line" /\ ~broken' /\ Len(pBuffer') < BufferSize
    BY <1>1, <1>2, <1>13
  <2>2. vdp' # <<>> /\ Len(vdp') <= Len(names')
    BY <1>4, <1>6, <1>13
  <2>3. \A i \in 1..(Read' + 1) : names'[i] \notin TooLongNames
    <3>1. \A i \in 1..((r + 1) + 1) : i = (r + 1) + 1 \/ i \in 1..(r + 1)
      OBVIOUS
    <3>2. QED
      BY <1>6, <1>10, <1>11, <1>13, <3>1
  <2>4. \A i \in 1..Len(vdp') : vdp'[i] = names'[Read' + i]
    BY <1>6, <1>9
  <2>5. wire' \o pBuffer' = Listed(Read)'
    BY <1>6, <1>8
  <2>6. ListInv'
    BY <2>1, <2>2, <2>3, <2>4, <2>5 DEF ListInv
  <2>7. QED
    BY <1>7, <2>6
<1>14. QED
  BY <1>12, <1>13

\* What is left in the buffer is sent.
LEMMA Flushes == ASSUME ThreadOK, ListInv, Flush PROVE ThreadOK' /\ ListInv'
<1>1. /\ thread = "flush" /\ thread' = "reply" /\ pBuffer' = <<>>
      /\ \/ wire' = wire \o pBuffer /\ UNCHANGED broken
         \/ broken' = TRUE /\ UNCHANGED wire
      /\ UNCHANGED <<eStatus, opt_a, vdp, names>>
  BY DEF Flush
<1>2. broken' \in BOOLEAN
  BY <1>1, Zenon DEF ThreadOK
<1>3. wire' \in Seq(Units)
  <2>1. wire \in Seq(Units) /\ pBuffer \in Seq(Units)
    BY DEF ThreadOK
  <2>2. wire \o pBuffer \in Seq(Units)
    BY <2>1, ConcatProperties
  <2>3. QED
    BY <1>1, <2>1, <2>2, Zenon
<1>4. pBuffer' \in Seq(Units) /\ Len(pBuffer') <= BufferSize
  BY <1>1, EmptySeq
<1>5. ThreadOK'
  BY <1>1, <1>2, <1>3, <1>4 DEF ThreadOK
<1>6. ASSUME ~broken' PROVE \E k \in 0..Len(names') : Ends(k)' /\ wire' = Listed(k)'
  <2>1. ~broken /\ wire' = wire \o pBuffer
    BY <1>1, <1>6
  <2>2. PICK k \in 0..Len(names) : Ends(k) /\ wire \o pBuffer = Listed(k)
    BY <1>1, <2>1 DEF ListInv
  <2>3. QED
    BY <1>1, <2>1, <2>2 DEF Ends, Listed
<1>7. ListInv'
  BY <1>1, <1>6 DEF ListInv
<1>8. QED
  BY <1>5, <1>7

\* The thread ends, and nothing of the listing is left.
LEMMA ListEnds == ASSUME ThreadOK, ListInv, EndOfList \/ ResetTimeout PROVE ThreadOK' /\ ListInv'
<1>1. CASE EndOfList
  <2>1. /\ thread' = "reset" /\ eStatus' = "WAITING"
        /\ vdp' = <<>> /\ pBuffer' = <<>> /\ wire' = <<>> /\ names' = <<>>
    BY <1>1 DEF EndOfList
  <2>2. opt_a' \in BOOLEAN /\ broken' \in BOOLEAN /\ ~broken'
    BY <1>1, Zenon DEF EndOfList
  <2>3. QED
    BY <2>1, <2>2, EmptySeq DEF ThreadOK, ListInv
<1>2. CASE ResetTimeout
  <2>1. thread = "reset" /\ thread' = "none" /\ UNCHANGED <<eStatus, listing>>
    BY <1>2 DEF ResetTimeout
  <2>2. QED
    BY <2>1 DEF ThreadOK, ListInv
<1>3. QED
  BY <1>1, <1>2

\* Every step keeps the listing.
LEMMA ListStep == ASSUME ThreadOK, ListInv, [Next]_vars PROVE ThreadOK' /\ ListInv'
<1>1. ASSUME Letter \/ Line \/ EmptyLine \/ LineTooLong \/ Prepare \/ SelectEmpty \/ LogIn \/ LogOut
             \/ OtherCommand \/ Quit \/ Recv \/ PeerLeaves \/ Tick
      PROVE  UNCHANGED eStatus
  BY <1>1 DEF Letter, Line, EmptyLine, LineTooLong, Prepare, SelectEmpty, LogIn, LogOut,
              OtherCommand, Quit, Recv, PeerLeaves, Tick
<1>2. \/ List \/ ListItself \/ FindFirst \/ Entry \/ FindNext \/ Flush \/ EndOfList \/ ResetTimeout
      \/ UNCHANGED <<thread, listing, eStatus>>
  BY <1>1 DEF Next, Shell, Peer, Time, ListThread
<1>3. QED
  BY <1>2, ListStarts, ListsItself, FindsFirst, EntryListed, FindsNext, Flushes, ListEnds, ListingKept

----------------------------------------------------------------------------
(* The clock.                                                              *)

\* Every step keeps the clock and the quiet time together: LogIn and the end of
\* a transfer set both to zero, or the clock again.
LEMMA QuietStep == ASSUME ClockOK, ThreadOK, QuietInv, [Next]_vars PROVE QuietInv'
<1>1. \A x, y \in Nat : x <= y => After(x) <= After(y)
  <2>1. Long \in Nat
    BY DEF Long
  <2>2. QED
    BY <2>1 DEF After
<1>2. elapsed \in Nat /\ quiet \in Nat
  <2>1. Long \in Nat
    BY DEF Long
  <2>2. QED
    BY <2>1 DEF ClockOK
<1>3. ASSUME Tick, UNCHANGED thread PROVE QuietInv'
  <2>1. /\ UNCHANGED <<logged, eStatus>> /\ elapsed' = After(elapsed)
        /\ quiet' = IF eStatus = "WAITING" THEN After(quiet) ELSE 0
    BY <1>3 DEF Tick
  <2>2. thread = "none" => eStatus = "WAITING"
    BY DEF ThreadOK
  <2>3. QED
    BY <1>1, <1>2, <1>3, <2>1, <2>2 DEF QuietInv
<1>4. ASSUME LogIn \/ LogOut PROVE QuietInv'
  BY <1>4 DEF QuietInv, LogIn, LogOut
<1>5. ASSUME Letter \/ Line \/ EmptyLine \/ LineTooLong \/ Prepare \/ SelectEmpty \/ OtherCommand
             \/ Quit \/ Recv \/ PeerLeaves,
             UNCHANGED thread
      PROVE  QuietInv'
  <2>1. UNCHANGED <<logged, elapsed, quiet>>
    BY <1>5 DEF Letter, Line, EmptyLine, LineTooLong, Prepare, SelectEmpty, OtherCommand,
                Quit, Recv, PeerLeaves
  <2>2. QED
    BY <1>5, <2>1 DEF QuietInv
<1>6. ASSUME List \/ ListItself \/ FindFirst \/ Entry \/ FindNext \/ Flush \/ EndOfList PROVE QuietInv'
  <2>1. thread' # "none"
    BY <1>6 DEF List, ListItself, FindFirst, Entry, AddToListBuffer, FindNext, Flush, EndOfList
  <2>2. QED
    BY <2>1 DEF QuietInv
<1>7. ASSUME ResetTimeout PROVE QuietInv'
  BY <1>2, <1>7 DEF ResetTimeout, QuietInv
<1>8. ASSUME UNCHANGED vars PROVE QuietInv'
  BY <1>8 DEF QuietInv
<1>9. QED
  BY <1>3, <1>4, <1>5, <1>6, <1>7, <1>8 DEF Next, Shell, Peer, Time, ListThread

----------------------------------------------------------------------------
(* What the peer calls for.                                                *)

\* What Called goes through.
States == [line : {l \in Seq(Character) : Len(l) <= MAX_COMMAND_LINE_LEN}, owed : Seq(Answers)]

\* A character of the peer.
LEMMA CallsType ==
    ASSUME NEW st \in States, NEW c \in Character
    PROVE  /\ Calls(st, c) \in States
           /\ Calls(st, c).owed = st.owed
              \/ \E a \in Answers : Calls(st, c).owed = Append(st.owed, a)
<1> DEFINE line == Append(st.line, c)
<1>1. /\ st.line \in Seq(Character) /\ Len(st.line) <= MAX_COMMAND_LINE_LEN
      /\ st.owed \in Seq(Answers) /\ Len(st.line) \in Nat
  BY LenProperties DEF States
<1>2. line \in Seq(Character) /\ Len(line) = Len(st.line) + 1
  BY <1>1, AppendProperties
<1>3. st.line \in Answers /\ TooLong \in Answers
  BY <1>1 DEF Answers
<1>4. Append(st.owed, st.line) \in Seq(Answers) /\ Append(st.owed, TooLong) \in Seq(Answers)
  BY <1>1, <1>3, AppendProperties
<1>5. CASE c = EOL
  <2>1. Calls(st, c) = [line |-> <<>>, owed |-> IF Len(st.line) \in 1..(MAX_COMMAND_LINE_LEN - 1)
                                             THEN Append(st.owed, st.line) ELSE st.owed]
    BY <1>5 DEF Calls
  <2>2. <<>> \in Seq(Character) /\ Len(<<>>) <= MAX_COMMAND_LINE_LEN
    BY EmptySeq
  <2>3. QED
    BY <1>1, <1>3, <1>4, <2>1, <2>2 DEF States
<1>6. CASE c # EOL /\ Len(st.line) = MAX_COMMAND_LINE_LEN
  BY <1>6 DEF Calls
<1>7. CASE c # EOL /\ Len(st.line) # MAX_COMMAND_LINE_LEN
  <2>1. Calls(st, c) = [line |-> line, owed |-> IF Len(line) = MAX_COMMAND_LINE_LEN
                                             THEN Append(st.owed, TooLong) ELSE st.owed]
    BY <1>7 DEF Calls
  <2>2. Len(line) <= MAX_COMMAND_LINE_LEN
    BY <1>1, <1>2, <1>7
  <2> HIDE DEF line
  <2>3. QED
    BY <1>1, <1>2, <1>3, <1>4, <2>1, <2>2 DEF States
<1>8. QED
  BY <1>5, <1>6, <1>7

\* What a prefix is, item by item.
LEMMA PrefixMeans ==
    ASSUME NEW S, NEW s \in Seq(S), NEW t \in Seq(S)
    PROVE  IsPrefix(s, t) <=> Len(s) <= Len(t) /\ \A i \in 1..Len(s) : s[i] = t[i]
<1> DEFINE cut == SubSeq(t, 1, Len(s))
<1>1. Len(s) \in Nat /\ Len(t) \in Nat /\ SubSeq(s, 1, Len(s)) = s
  BY LenProperties, SubSeqFull
<1>2. ASSUME Len(s) <= Len(t)
      PROVE  cut \in Seq(S) /\ Len(cut) = Len(s) /\ \A i \in 1..Len(s) : cut[i] = t[i]
  <2>1. /\ cut \in Seq(S) /\ Len(cut) = IF 1 <= Len(s) THEN Len(s) - 1 + 1 ELSE 0
        /\ \A i \in 1..(Len(s) - 1 + 1) : cut[i] = t[1 + i - 1]
    BY <1>1, <1>2, Cut
  <2> HIDE DEF cut
  <2>2. QED
    BY <1>1, <2>1
<1> HIDE DEF cut
<1>3. IsPrefix(s, t) <=> Len(s) <= Len(t) /\ s = cut
  BY <1>1 DEF IsPrefix, cut
<1>4. ASSUME Len(s) <= Len(t), \A i \in 1..Len(s) : s[i] = t[i] PROVE s = cut
  BY <1>1, <1>2, <1>4, SeqEqual
<1>5. QED
  BY <1>1, <1>2, <1>3, <1>4

\* A sequence is a prefix of itself and of what is appended to it, and the
\* prefix of a prefix is one.
LEMMA PrefixOrder ==
    ASSUME NEW S
    PROVE  /\ \A s \in Seq(S) : IsPrefix(s, s) /\ IsPrefix(<<>>, s)
           /\ \A s \in Seq(S), a \in S : IsPrefix(s, Append(s, a))
           /\ \A s, t, u \in Seq(S) : IsPrefix(s, t) /\ IsPrefix(t, u) => IsPrefix(s, u)
<1>1. \A s \in Seq(S) : IsPrefix(s, s)
  <2>1. \A s \in Seq(S) : Len(s) \in Nat
    BY LenProperties
  <2>2. QED
    BY <2>1, PrefixMeans
<1>2. ASSUME NEW s \in Seq(S) PROVE IsPrefix(<<>>, s)
  <2>1. PICK e \in Seq(S) : e = <<>> /\ Len(e) = 0
    BY EmptySeq
  <2>2. Len(s) \in Nat
    BY LenProperties
  <2>3. Len(e) <= Len(s) /\ \A i \in 1..Len(e) : e[i] = s[i]
    BY <2>1, <2>2
  <2>4. IsPrefix(e, s)
    BY <2>3, PrefixMeans
  <2>5. QED
    BY <2>1, <2>4
<1>3. ASSUME NEW s \in Seq(S), NEW a \in S PROVE IsPrefix(s, Append(s, a))
  <2>1. PICK t \in Seq(S) : t = Append(s, a)
    BY AppendProperties
  <2>2. Len(s) \in Nat /\ Len(t) = Len(s) + 1 /\ \A i \in 1..Len(s) : t[i] = s[i]
    BY <2>1, AppendProperties, LenProperties
  <2>3. IsPrefix(s, t)
    BY <2>2, PrefixMeans
  <2>4. QED
    BY <2>1, <2>3
<1>4. ASSUME NEW s \in Seq(S), NEW t \in Seq(S), NEW u \in Seq(S), IsPrefix(s, t), IsPrefix(t, u)
      PROVE  IsPrefix(s, u)
  BY <1>4, LenProperties, PrefixMeans
<1>5. QED
  BY <1>1, <1>2, <1>3, <1>4

\* What the characters of a segment call for, one after the other.
Goes(st, data, after) ==
    /\ after \in [0..Len(data) -> States]
    /\ after[0] = st /\ \A i \in 1..Len(data) : after[i] = Calls(after[i-1], data[i])

\* Called is defined.
LEMMA CalledDefined ==
    ASSUME NEW st \in States, NEW data \in Seq(Character)
    PROVE  \E after : Goes(st, data, after) /\ Called(st, data) = after[Len(data)]
<1> DEFINE n == Len(data)
           step == [x \in States \X (1..n) |-> Calls(x[1], data[x[2]])]
<1>1. n \in Nat /\ \A i \in 1..n : data[i] \in Character
  BY LenProperties, ElementOfSeq
<1>2. step \in Steps(States, n)
  <2> HIDE DEF n
  <2>1. QED
    BY <1>1, CallsType DEF Steps
<1>3. PICK f \in [0..n -> States] : f[0] = st /\ \A i \in 1..n : f[i] = step[<<f[i-1], i>>]
  <2> HIDE DEF n, step
  <2>1. Defined(States, n, st, step) # {}
    BY <1>1, <1>2, BoundedRecursion
  <2>2. QED
    BY <2>1 DEF Defined
<1>4. \A i \in 1..n : f[i] = Calls(f[i-1], data[i])
  <2> HIDE DEF n
  <2>1. \A i \in 1..n : f[i-1] \in States
    BY <1>1, <1>3
  <2>2. QED
    BY <1>1, <1>3, <2>1
<1>5. f = [i \in 0..n |-> IF i = 0 THEN st ELSE Calls(f[i-1], data[i])]
  <2> HIDE DEF n
  <2>1. QED
    BY <1>1, <1>3, <1>4
<1> DEFINE g == CHOOSE a : a = [i \in 0..n |-> IF i = 0 THEN st ELSE Calls(a[i-1], data[i])]
<1>6. g = [i \in 0..n |-> IF i = 0 THEN st ELSE Calls(g[i-1], data[i])]
  BY <1>5, Zenon
<1>7. Called(st, data) = g[n]
  BY Zenon DEF Called
<1>8. g[0] = st /\ \A i \in 1..n : g[i] = Calls(g[i-1], data[i])
  <2> HIDE DEF n, g
  <2>1. QED
    BY <1>1, <1>6
<1>9. \A i \in 0..n : g[i] \in States
  <2> HIDE DEF n, g
  <2> DEFINE T == {i \in 0..n : g[i] \in States}
  <2>1. 0 \in T
    BY <1>1, <1>8
  <2>2. ASSUME NEW i \in 1..n, i - 1 \in T PROVE i \in T
    <3>1. g[i] \in States
      BY <1>1, <1>8, <2>2, CallsType
    <3>2. QED
      BY <1>1, <3>1
  <2>3. \A i \in 0..n : i \in T
    <3> HIDE DEF T
    <3>1. QED
      BY <1>1, <2>1, <2>2, BoundedInduction
  <2>4. QED
    BY <2>3
<1>10. g \in [0..n -> States]
  <2> HIDE DEF n, g
  <2>1. QED
    BY <1>6, <1>9, Zenon
<1>11. Goes(st, data, g)
  BY <1>8, <1>10 DEF Goes
<1>12. QED
  BY <1>7, <1>11

\* What a segment calls for: nothing without a character, more than was owed,
\* and with the first character what the rest calls for after it.
LEMMA CalledProperties ==
    ASSUME NEW st \in States, NEW data \in Seq(Character)
    PROVE  /\ Called(st, data) \in States
           /\ IsPrefix(st.owed, Called(st, data).owed)
           /\ data = <<>> => Called(st, data) = st
           /\ data # <<>> => Called(st, data) = Called(Calls(st, Head(data)), Tail(data))
<1>1. PICK after : Goes(st, data, after) /\ Called(st, data) = after[Len(data)]
  BY CalledDefined
<1> DEFINE n == Len(data)
<1>2. /\ n \in Nat /\ after \in [0..n -> States]
      /\ after[0] = st /\ \A i \in 1..n : after[i] = Calls(after[i-1], data[i])
      /\ \A i \in 1..n : data[i] \in Character
  BY <1>1, LenProperties, ElementOfSeq DEF Goes
<1>3. \A x \in States : x.owed \in Seq(Answers)
  BY DEF States
<1>4. Called(st, data) \in States
  BY <1>1, <1>2
<1>5. IsPrefix(st.owed, Called(st, data).owed)
  <2> HIDE DEF n
  <2> DEFINE T == {i \in 0..n : IsPrefix(st.owed, after[i].owed)}
  <2>1. 0 \in T
    BY <1>2, <1>3, PrefixOrder
  <2>2. ASSUME NEW i \in 1..n, i - 1 \in T PROVE i \in T
    <3>1. i - 1 \in 0..n /\ i \in 0..n
      BY <1>2
    <3>2. PICK b \in States : b = after[i-1]
      BY <1>2, <3>1
    <3>3. after[i] = Calls(b, data[i]) /\ data[i] \in Character
      BY <1>2, <3>2
    <3>4. IsPrefix(b.owed, Calls(b, data[i]).owed) /\ Calls(b, data[i]) \in States
      <4>1. /\ Calls(b, data[i]) \in States
            /\ \/ Calls(b, data[i]).owed = b.owed
               \/ \E a \in Answers : Calls(b, data[i]).owed = Append(b.owed, a)
        BY <3>3, CallsType
      <4>2. QED
        BY <1>3, <4>1, PrefixOrder
    <3>5. IsPrefix(st.owed, b.owed)
      BY <2>2, <3>2
    <3>6. IsPrefix(st.owed, after[i].owed)
      BY <1>3, <3>3, <3>4, <3>5, PrefixOrder
    <3>7. QED
      BY <3>1, <3>6
  <2>3. \A i \in 0..n : i \in T
    <3> HIDE DEF T
    <3>1. QED
      BY <1>2, <2>1, <2>2, BoundedInduction
  <2>4. n \in 0..n
    BY <1>2
  <2>5. QED
    BY <1>1, <2>3, <2>4 DEF n
<1>6. data = <<>> => Called(st, data) = st
  BY <1>1, <1>2, EmptySeq
<1>7. ASSUME data # <<>> PROVE Called(st, data) = Called(Calls(st, Head(data)), Tail(data))
  <2>1. /\ n \in Nat \ {0} /\ Head(data) = data[1] /\ data[1] \in Character
        /\ Tail(data) \in Seq(Character) /\ Len(Tail(data)) = n - 1
        /\ \A i \in 1..(n - 1) : Tail(data)[i] = data[i+1]
    BY <1>2, <1>7, EmptySeq, HeadTailProperties
  <2>2. PICK first \in States : first = Calls(st, Head(data))
    BY <2>1, CallsType
  <2>3. PICK rest : Goes(first, Tail(data), rest) /\ Called(first, Tail(data)) = rest[n - 1]
    BY <2>1, CalledDefined
  <2>4. rest[0] = first /\ \A i \in 1..(n - 1) : rest[i] = Calls(rest[i-1], data[i+1])
    BY <2>1, <2>3 DEF Goes
  <2> HIDE DEF n
  <2> DEFINE T == {i \in 0..(n - 1) : rest[i] = after[i+1]}
  <2>5. 0 \in T
    <3>1. 1 \in 1..n /\ 0 \in 0..(n - 1) /\ 1 - 1 = 0 /\ 0 + 1 = 1
      BY <2>1
    <3>2. after[1] = Calls(after[0], data[1])
      BY <1>2, <3>1
    <3>3. QED
      BY <1>2, <2>1, <2>2, <2>4, <3>1, <3>2
  <2>6. ASSUME NEW i \in 1..(n - 1), i - 1 \in T PROVE i \in T
    <3>1. i \in 0..(n - 1) /\ i + 1 \in 1..n /\ (i + 1) - 1 = i /\ (i - 1) + 1 = i
      BY <2>1
    <3>2. after[i+1] = Calls(after[i], data[i+1])
      BY <1>2, <3>1
    <3>3. rest[i-1] = after[i]
      BY <2>6, <3>1
    <3>4. QED
      BY <2>4, <3>1, <3>2, <3>3
  <2>7. \A i \in 0..(n - 1) : i \in T
    <3>1. n - 1 \in Nat
      BY <2>1
    <3> HIDE DEF T
    <3>2. QED
      BY <2>5, <2>6, <3>1, BoundedInduction
  <2>8. n - 1 \in 0..(n - 1) /\ (n - 1) + 1 = n
    BY <2>1
  <2>9. rest[n-1] = after[n]
    BY <2>7, <2>8
  <2>10. QED
    BY <1>1, <2>2, <2>3, <2>9 DEF n
<1>8. QED
  BY <1>4, <1>5, <1>6, <1>7

----------------------------------------------------------------------------
(* The lines of a session.                                                 *)

\* What is scanned is a state of Called.
LEMMA ScannedState ==
    ASSUME PromiseOK, NEW l, Scanned(l)
    PROVE  /\ Answered \in Seq(Answers)
           /\ [line |-> l, owed |-> Answered] \in States
<1>1. TooLong \in Answers
  BY DEF Answers
<1>2. Answered \in Seq(Answers)
  BY <1>1, AppendProperties DEF PromiseOK, Answered
<1>3. l \in Seq(Character) /\ Len(l) <= MAX_COMMAND_LINE_LEN
  BY DEF Scanned
<1>4. QED
  BY <1>2, <1>3 DEF States

\* What has not been scanned.
LEMMA PendingType ==
    ASSUME ScanOK
    PROVE  /\ at \in {"scan", "select", "shell"} => Pending \in Seq(Character) /\ Len(Pending) = remaining
           /\ at \in {"scan", "select"} /\ remaining = 0 => Pending = <<>>
<1>1. /\ sCmdBuffer \in Seq(Character) /\ Len(sCmdBuffer) \in Nat /\ recvd \in Nat /\ remaining \in Nat
      /\ at = "scan" => recvd + remaining <= Len(sCmdBuffer)
      /\ at = "select" => remaining = 0 /\ Len(sCmdBuffer) = recvd
      /\ at = "shell" => recvd + 1 + remaining <= Len(sCmdBuffer)
  BY LenProperties DEF ScanOK
<1>2. ASSUME NEW k \in Nat \ {0}, k + remaining - 1 <= Len(sCmdBuffer)
      PROVE  /\ SubSeq(sCmdBuffer, k, k + remaining - 1) \in Seq(Character)
             /\ Len(SubSeq(sCmdBuffer, k, k + remaining - 1)) = remaining
  <2>1. k + remaining - 1 \in Nat
    BY <1>1
  <2>2. QED
    BY <1>1, <1>2, <2>1, Cut
<1>3. ASSUME at = "shell" PROVE Pending \in Seq(Character) /\ Len(Pending) = remaining
  <2>1. recvd + 2 \in Nat \ {0} /\ (recvd + 2) + remaining - 1 = recvd + 1 + remaining
    BY <1>1
  <2>2. QED
    BY <1>1, <1>2, <1>3, <2>1 DEF Pending
<1>4. ASSUME at \in {"scan", "select"} PROVE Pending \in Seq(Character) /\ Len(Pending) = remaining
  <2>1. recvd + 1 \in Nat \ {0} /\ (recvd + 1) + remaining - 1 = recvd + remaining
    BY <1>1
  <2>2. QED
    BY <1>1, <1>2, <1>4, <2>1 DEF Pending
<1>5. ASSUME at \in {"scan", "select"}, remaining = 0 PROVE Pending = <<>>
  BY <1>4, <1>5, EmptySeq
<1>6. QED
  BY <1>3, <1>4, <1>5

\* The next character is scanned.
LEMMA Taken ==
    ASSUME ScanOK, PromiseOK, at = "scan", remaining > 0, NEW l, Right(l)
    PROVE  /\ sCmdBuffer[recvd + 1] \in Character /\ recvd < MAX_COMMAND_LINE_LEN
           /\ l \in Seq(Character)
           /\ [line |-> l, owed |-> given] \in States
           /\ IF flush THEN Len(l) = MAX_COMMAND_LINE_LEN
              ELSE l = SubSeq(sCmdBuffer, 1, recvd) /\ Len(l) = recvd
           /\ Called(Calls([line |-> l, owed |-> given], sCmdBuffer[recvd + 1]),
                     SubSeq(sCmdBuffer, recvd + 2, recvd + remaining))
                 = [line |-> unfinished, owed |-> owed]
<1>1. /\ sCmdBuffer \in Seq(Character) /\ recvd \in Nat /\ remaining \in Nat /\ Len(sCmdBuffer) \in Nat
      /\ recvd + remaining <= Len(sCmdBuffer) /\ Len(sCmdBuffer) <= MAX_COMMAND_LINE_LEN
  BY LenProperties DEF ScanOK
<1>2. recvd + 1 \in 1..Len(sCmdBuffer) /\ recvd + remaining \in (recvd + 1)..Len(sCmdBuffer)
      /\ recvd < MAX_COMMAND_LINE_LEN
  BY <1>1
<1>3. sCmdBuffer[recvd + 1] \in Character
  BY <1>1, <1>2, ElementOfSeq
<1>4. Answered = given
  BY <1>1, <1>2 DEF Answered, Full
<1>5. Scanned(l) /\ l \in Seq(Character) /\ [line |-> l, owed |-> given] \in States
  BY <1>4, ScannedState DEF Right, Scanned
<1>6. ASSUME ~flush PROVE l = SubSeq(sCmdBuffer, 1, recvd) /\ Len(l) = recvd
  <2>1. l = SubSeq(sCmdBuffer, 1, recvd)
    BY <1>5, <1>6 DEF Scanned
  <2>2. recvd <= Len(sCmdBuffer)
    BY <1>1
  <2>3. QED
    BY <1>1, <2>1, <2>2, Cut
<1>7. /\ Pending \in Seq(Character) /\ Pending # <<>>
      /\ Head(Pending) = sCmdBuffer[recvd + 1]
      /\ Tail(Pending) = SubSeq(sCmdBuffer, recvd + 2, recvd + remaining)
  <2>1. Pending \in Seq(Character) /\ Len(Pending) = remaining
    BY PendingType
  <2>2. Pending = SubSeq(sCmdBuffer, recvd + 1, recvd + remaining)
    BY DEF Pending
  <2>3. /\ Head(SubSeq(sCmdBuffer, recvd + 1, recvd + remaining)) = sCmdBuffer[recvd + 1]
        /\ Tail(SubSeq(sCmdBuffer, recvd + 1, recvd + remaining))
              = SubSeq(sCmdBuffer, recvd + 1 + 1, recvd + remaining)
    BY <1>1, <1>2, HeadTailOfSubSeq
  <2>4. recvd + 1 + 1 = recvd + 2
    BY <1>1
  <2>5. Pending # <<>>
    BY <1>1, <2>1, EmptySeq
  <2>6. QED
    BY <2>1, <2>2, <2>3, <2>4, <2>5, Zenon
<1>8. Called([line |-> l, owed |-> given], Pending) = [line |-> unfinished, owed |-> owed]
  BY <1>4 DEF Right
<1>9. Called([line |-> l, owed |-> given], Pending)
        = Called(Calls([line |-> l, owed |-> given], Head(Pending)), Tail(Pending))
  BY <1>5, <1>7, CalledProperties
<1>10. flush => Len(l) = MAX_COMMAND_LINE_LEN
  BY <1>5 DEF Scanned
<1>11. QED
  BY <1>2, <1>3, <1>5, <1>6, <1>7, <1>8, <1>9, <1>10

\* A letter.
LEMMA LetterStep == ASSUME ScanOK, PromiseOK, LineInv, Letter PROVE LineInv'
<1>1. /\ at = "scan" /\ at' = "scan" /\ remaining > 0 /\ sCmdBuffer[recvd + 1] # EOL
      /\ remaining' = remaining - 1 /\ recvd' = recvd + 1
      /\ UNCHANGED <<sCmdBuffer, flush, given, owed, unfinished, slipped>>
  BY DEF Letter
<1>2. SUFFICES ASSUME ~slipped PROVE \E m \in Seq(Character) : Right(m)'
  BY <1>1 DEF LineInv
<1>3. PICK l \in Seq(Character) : Right(l)
  BY <1>1, <1>2 DEF LineInv
<1> DEFINE c == sCmdBuffer[recvd + 1]
           rest == SubSeq(sCmdBuffer, recvd + 2, recvd + remaining)
           st == [line |-> l, owed |-> given]
<1>4. /\ c \in Character /\ recvd < MAX_COMMAND_LINE_LEN /\ st \in States
      /\ IF flush THEN Len(l) = MAX_COMMAND_LINE_LEN
         ELSE l = SubSeq(sCmdBuffer, 1, recvd) /\ Len(l) = recvd
      /\ Called(Calls(st, c), rest) = [line |-> unfinished, owed |-> owed]
  BY <1>1, <1>3, Taken
<1>5. recvd \in Nat /\ remaining \in Nat /\ sCmdBuffer \in Seq(Character) /\ Len(sCmdBuffer) \in Nat
      /\ recvd + remaining <= Len(sCmdBuffer)
  BY <1>1, LenProperties DEF ScanOK
<1>6. Pending' = rest
  <2>1. (recvd + 1) + 1 = recvd + 2 /\ (recvd + 1) + (remaining - 1) = recvd + remaining
    BY <1>5
  <2>2. QED
    BY <1>1, <2>1 DEF Pending
<1>7. CASE flush
  <2>1. Calls(st, c) = st
    BY <1>1, <1>4, <1>7 DEF Calls
  <2>2. Answered' = given
    BY <1>1, <1>7 DEF Answered
  <2>3. Scanned(l)'
    BY <1>1, <1>4, <1>7 DEF Scanned
  <2>4. Right(l)'
    BY <1>1, <1>4, <1>6, <2>1, <2>2, <2>3 DEF Right
  <2>5. QED
    BY <2>4
<1>8. CASE ~flush
  <2>1. PICK m \in Seq(Character) : m = Append(l, c)
    BY <1>4, AppendProperties
  <2>2. Len(m) = recvd + 1
    BY <1>4, <1>8, <2>1, AppendProperties
  <2>3. m = SubSeq(sCmdBuffer, 1, recvd + 1)
    <3>1. recvd + 1 \in Nat /\ recvd + 1 <= Len(sCmdBuffer) /\ recvd <= Len(sCmdBuffer)
      BY <1>1, <1>5
    <3>2. /\ SubSeq(sCmdBuffer, 1, recvd + 1) \in Seq(Character)
          /\ Len(SubSeq(sCmdBuffer, 1, recvd + 1)) = recvd + 1
          /\ \A i \in 1..((recvd + 1) - 1 + 1) : SubSeq(sCmdBuffer, 1, recvd + 1)[i] = sCmdBuffer[1 + i - 1]
      BY <1>5, <3>1, Cut
    <3>3. \A i \in 1..(recvd - 1 + 1) : SubSeq(sCmdBuffer, 1, recvd)[i] = sCmdBuffer[1 + i - 1]
      BY <1>5, <3>1, Cut
    <3>4. \A i \in 1..recvd : l[i] = sCmdBuffer[i]
      BY <1>4, <1>5, <1>8, <3>3
    <3>5. \A i \in 1..(recvd + 1) : SubSeq(sCmdBuffer, 1, recvd + 1)[i] = sCmdBuffer[i]
      BY <1>5, <3>2
    <3>6. \A i \in 1..(recvd + 1) : m[i] = sCmdBuffer[i]
      BY <1>3, <1>4, <1>5, <1>8, <2>1, <3>4, AppendProperties
    <3>7. QED
      BY <2>2, <3>2, <3>5, <3>6, SeqEqual
  <2>4. Calls(st, c) = [line |-> m, owed |-> IF recvd + 1 = MAX_COMMAND_LINE_LEN
                                          THEN Append(given, TooLong) ELSE given]
    <3> HIDE DEF c
    <3>1. Len(st.line) # MAX_COMMAND_LINE_LEN /\ c # EOL /\ Append(st.line, c) = m /\ st.owed = given
      BY <1>1, <1>4, <1>5, <1>8, <2>1 DEF c
    <3>2. QED
      BY <2>2, <3>1 DEF Calls
  <2>5. Answered' = IF recvd + 1 = MAX_COMMAND_LINE_LEN THEN Append(given, TooLong) ELSE given
    BY <1>1, <1>4, <1>5, <1>8 DEF Answered, Full
  <2>6. Scanned(m)'
    BY <1>1, <1>4, <1>5, <1>8, <2>2, <2>3 DEF Scanned
  <2>7. Right(m)'
    <3> HIDE DEF rest, c, st
    <3>1. QED
      BY <1>1, <1>4, <1>6, <2>4, <2>5, <2>6 DEF Right
  <2>8. QED
    BY <2>7
<1>9. QED
  BY <1>7, <1>8

\* The end of a line that Shell gets.
LEMMA LineStep == ASSUME ScanOK, PromiseOK, LineInv, Line PROVE LineInv'
<1>1. /\ at = "scan" /\ at' = "shell" /\ remaining > 0 /\ sCmdBuffer[recvd + 1] = EOL
      /\ recvd > 0 /\ ~flush /\ remaining' = remaining - 1
      /\ given' = Append(given, SubSeq(sCmdBuffer, 1, recvd))
      /\ UNCHANGED <<sCmdBuffer, recvd, flush, owed, unfinished, slipped>>
  BY DEF Line
<1>2. SUFFICES ASSUME ~slipped PROVE Right(<<>>)'
  <2>1. <<>> \in Seq(Character)
    BY EmptySeq
  <2>2. QED
    BY <1>1, <2>1 DEF LineInv
<1>3. PICK l \in Seq(Character) : Right(l)
  BY <1>1, <1>2 DEF LineInv
<1> DEFINE rest == SubSeq(sCmdBuffer, recvd + 2, recvd + remaining)
           st == [line |-> l, owed |-> given]
<1>4. /\ recvd < MAX_COMMAND_LINE_LEN /\ l = SubSeq(sCmdBuffer, 1, recvd) /\ Len(l) = recvd
      /\ Called(Calls(st, EOL), rest) = [line |-> unfinished, owed |-> owed]
  BY <1>1, <1>3, Taken
<1>5. recvd \in Nat /\ remaining \in Nat
  BY DEF ScanOK
<1>6. Calls(st, EOL) = [line |-> <<>>, owed |-> given']
  <2>1. Len(st.line) \in 1..(MAX_COMMAND_LINE_LEN - 1) /\ st.line = l /\ st.owed = given
    BY <1>1, <1>4, <1>5
  <2> HIDE DEF st
  <2>2. QED
    BY <1>1, <1>4, <2>1 DEF Calls
<1>7. Pending' = rest
  <2>1. recvd + 1 + (remaining - 1) = recvd + remaining
    BY <1>5
  <2>2. QED
    BY <1>1, <2>1 DEF Pending
<1>8. Answered' = given'
  BY <1>1 DEF Answered
<1>9. Scanned(<<>>)'
  BY <1>1, EmptySeq DEF Scanned
<1>10. QED
  <2> HIDE DEF rest, st
  <2>1. QED
    BY <1>1, <1>4, <1>6, <1>7, <1>8, <1>9 DEF Right

\* An empty line, or the end of one that has been flushed.
LEMMA EmptyLineStep == ASSUME ScanOK, PromiseOK, LineInv, EmptyLine PROVE LineInv'
<1>1. /\ at = "scan" /\ at' = "scan" /\ remaining > 0 /\ sCmdBuffer[recvd + 1] = EOL
      /\ recvd = 0 \/ flush
      /\ remaining' = remaining - 1
      /\ sCmdBuffer' = SubSeq(sCmdBuffer, 1, recvd)
                       \o SubSeq(sCmdBuffer, recvd + 2, recvd + 1 + remaining')
      /\ slipped' = (slipped \/ (recvd > 0 /\ remaining' > 0))
      /\ UNCHANGED <<given, owed, unfinished>>
  BY DEF EmptyLine
<1>2. recvd' = IF flush THEN 0 ELSE recvd
  BY DEF EmptyLine
<1>3. ~flush'
  BY DEF EmptyLine
<1>4. SUFFICES ASSUME ~slipped, ~ (recvd > 0 /\ remaining' > 0) PROVE Right(<<>>)'
  <2>1. <<>> \in Seq(Character)
    BY EmptySeq
  <2>2. QED
    BY <1>1, <2>1 DEF LineInv
<1>5. PICK l \in Seq(Character) : Right(l)
  BY <1>1, <1>4 DEF LineInv
<1> DEFINE rest == SubSeq(sCmdBuffer, recvd + 2, recvd + remaining)
           st == [line |-> l, owed |-> given]
<1>6. /\ recvd < MAX_COMMAND_LINE_LEN
      /\ IF flush THEN Len(l) = MAX_COMMAND_LINE_LEN
         ELSE l = SubSeq(sCmdBuffer, 1, recvd) /\ Len(l) = recvd
      /\ Called(Calls(st, EOL), rest) = [line |-> unfinished, owed |-> owed]
  BY <1>1, <1>5, Taken
<1>7. /\ recvd \in Nat /\ remaining \in Nat /\ sCmdBuffer \in Seq(Character) /\ Len(sCmdBuffer) \in Nat
      /\ recvd + remaining <= Len(sCmdBuffer)
  BY <1>1, LenProperties DEF ScanOK
<1>8. recvd' = 0 /\ remaining' \in Nat
  BY <1>1, <1>2, <1>7
<1>9. Calls(st, EOL) = [line |-> <<>>, owed |-> given]
  <2>1. Len(st.line) \notin 1..(MAX_COMMAND_LINE_LEN - 1) /\ st.owed = given
    BY <1>1, <1>6
  <2> HIDE DEF st
  <2>2. QED
    BY <2>1 DEF Calls
<1>10. rest \in Seq(Character) /\ Len(rest) = remaining'
  <2>1. recvd + 2 \in Nat \ {0} /\ recvd + remaining \in Nat
        /\ (IF recvd + 2 <= recvd + remaining THEN (recvd + remaining) - (recvd + 2) + 1 ELSE 0)
              = remaining - 1
    BY <1>1, <1>7
  <2>2. QED
    BY <1>1, <1>7, <2>1, Cut
<1>11. Pending' = rest
  <2>1. Pending' = SubSeq(sCmdBuffer', 0 + 1, 0 + remaining')
    BY <1>1, <1>8 DEF Pending
  <2>2. CASE recvd = 0
    <3>1. SubSeq(sCmdBuffer, 1, 0) = <<>>
      BY SubSeqEmpty
    <3>2. recvd + 1 + remaining' = recvd + remaining
      BY <1>1, <1>7
    <3>3. sCmdBuffer' = SubSeq(sCmdBuffer, 1, 0) \o rest
      BY <1>1, <2>2, <3>2
    <3>4. sCmdBuffer' = rest
      BY <1>10, <3>1, <3>3, ConcatEmptySeq, Zenon
    <3>5. SubSeq(rest, 1, remaining') = rest
      BY <1>10, SubSeqFull
    <3>6. 0 + 1 = 1 /\ 0 + remaining' = remaining'
      <4>1. 0 + 1 = 1 /\ \A k \in Nat : 0 + k = k
        OBVIOUS
      <4>2. QED
        BY <1>8, <4>1, Zenon
    <3> HIDE DEF rest
    <3>7. QED
      BY <2>1, <3>4, <3>5, <3>6
  <2>3. CASE recvd # 0
    <3>1. remaining' = 0
      BY <1>4, <1>7, <1>8, <2>3
    <3>2. Pending' = <<>>
      BY <2>1, <3>1, SubSeqEmpty
    <3>3. rest = <<>>
      BY <1>10, <3>1, EmptySeq
    <3>4. QED
      BY <3>2, <3>3
  <2>4. QED
    BY <2>2, <2>3
<1>12. Answered' = given
  BY <1>1, <1>8 DEF Answered, Full
<1>13. Scanned(<<>>)'
  <2>1. SubSeq(sCmdBuffer', 1, 0) = <<>>
    BY SubSeqEmpty
  <2>2. QED
    BY <1>1, <1>3, <1>8, <2>1, EmptySeq DEF Scanned
<1>14. QED
  <2> HIDE DEF rest, st
  <2>1. QED
    BY <1>1, <1>6, <1>9, <1>11, <1>12, <1>13 DEF Right

\* Without anything left to scan, what has been scanned is what is called for.
LEMMA AllScanned ==
    ASSUME ScanOK, PromiseOK, at \in {"scan", "select"}, remaining = 0, NEW l, Right(l)
    PROVE  l = unfinished /\ Answered = owed
<1>1. Pending = <<>> /\ Pending \in Seq(Character)
  BY PendingType
<1>2. [line |-> l, owed |-> Answered] \in States
  BY ScannedState DEF Right
<1>3. Called([line |-> l, owed |-> Answered], Pending) = [line |-> l, owed |-> Answered]
  BY <1>1, <1>2, CalledProperties
<1>4. [line |-> l, owed |-> Answered] = [line |-> unfinished, owed |-> owed]
  BY <1>3 DEF Right
<1>5. [line |-> l, owed |-> Answered].line = [line |-> unfinished, owed |-> owed].line
      /\ [line |-> l, owed |-> Answered].owed = [line |-> unfinished, owed |-> owed].owed
  BY <1>4
<1>6. QED
  BY <1>5

\* A state is what it has called for, when nothing is left to scan.
LEMMA NothingPending ==
    ASSUME NEW l, NEW o, [line |-> l, owed |-> o] \in States
    PROVE  Called([line |-> l, owed |-> o], <<>>) = [line |-> l, owed |-> o]
<1>1. <<>> \in Seq(Character)
  BY EmptySeq
<1>2. QED
  BY <1>1, CalledProperties

\* A line that fills the buffer.
LEMMA LineTooLongStep == ASSUME ScanOK, PromiseOK, LineInv, LineTooLong PROVE LineInv'
<1>1. /\ at = "scan" /\ at' = "scan" /\ remaining = 0 /\ remaining' = 0 /\ Full
      /\ given' = IF flush THEN given ELSE Append(given, TooLong)
      /\ recvd' = 0 /\ sCmdBuffer' = <<>>
      /\ UNCHANGED <<owed, unfinished, slipped>>
  BY DEF LineTooLong
<1>2. flush'
  BY DEF LineTooLong
<1>3. SUFFICES ASSUME ~slipped PROVE \E l \in Seq(Character) : Right(l)'
  BY <1>1 DEF LineInv
<1>4. PICK l \in Seq(Character) : Right(l)
  BY <1>1, <1>3 DEF LineInv
<1>5. l = unfinished /\ Answered = owed
  BY <1>1, <1>4, AllScanned
<1>6. Answered = given'
  BY <1>1 DEF Answered
<1>7. Answered' = given'
  BY <1>2 DEF Answered
<1>8. Len(l) = MAX_COMMAND_LINE_LEN
  <2>1. Scanned(l)
    BY <1>4 DEF Right
  <2>2. CASE flush
    BY <2>1, <2>2 DEF Scanned
  <2>3. CASE ~flush
    <3>1. l = SubSeq(sCmdBuffer, 1, recvd)
      BY <1>1, <2>1, <2>3 DEF Scanned
    <3>2. recvd \in Nat /\ recvd = MAX_COMMAND_LINE_LEN /\ recvd <= Len(sCmdBuffer)
          /\ sCmdBuffer \in Seq(Character)
      BY <1>1, LenProperties DEF ScanOK, Full
    <3>3. QED
      BY <3>1, <3>2, Cut
  <2>4. QED
    BY <2>2, <2>3
<1>9. Scanned(l)'
  BY <1>1, <1>2, <1>4, <1>8 DEF Scanned
<1>10. Pending' = <<>>
  <2>1. Pending' = SubSeq(sCmdBuffer', 0 + 1, 0 + 0)
    BY <1>1 DEF Pending
  <2>2. QED
    BY <2>1, SubSeqEmpty
<1>11. [line |-> l, owed |-> owed] \in States
  BY <1>4, <1>8 DEF States, PromiseOK
<1>12. Called([line |-> l, owed |-> owed], <<>>) = [line |-> l, owed |-> owed]
  BY <1>11, NothingPending
<1>13. Right(l)'
  BY <1>1, <1>5, <1>6, <1>7, <1>9, <1>10, <1>12 DEF Right
<1>14. QED
  BY <1>13

\* recv is prepared for.
LEMMA PrepareStep == ASSUME ScanOK, PromiseOK, LineInv, Prepare PROVE LineInv'
<1>1. /\ at = "scan" /\ at' = "select" /\ remaining = 0 /\ remaining' = 0 /\ ~Full
      /\ owed' = <<>> /\ given' = <<>>
      /\ slipped' = (slipped /\ (recvd > 0 \/ flush \/ unfinished # <<>>))
      /\ sCmdBuffer' = SubSeq(sCmdBuffer, 1, recvd)
      /\ UNCHANGED <<recvd, flush, unfinished>>
  BY DEF Prepare
<1>2. /\ sCmdBuffer \in Seq(Character) /\ recvd \in Nat /\ recvd <= Len(sCmdBuffer)
      /\ sCmdBuffer' \in Seq(Character) /\ Len(sCmdBuffer') = recvd
  <2>1. sCmdBuffer \in Seq(Character) /\ recvd \in Nat /\ recvd <= Len(sCmdBuffer)
    BY <1>1, LenProperties DEF ScanOK
  <2>2. QED
    BY <1>1, <2>1, Cut
<1>3. SUFFICES ASSUME ~slipped' PROVE Right(unfinished)'
  BY <1>1, <1>3 DEF LineInv, PromiseOK
<1>4. unfinished \in Seq(Character) /\ Len(unfinished) <= MAX_COMMAND_LINE_LEN
  BY DEF PromiseOK
<1>5. Scanned(unfinished)'
  <2>1. SubSeq(sCmdBuffer', 1, recvd) = sCmdBuffer'
    BY <1>2, SubSeqFull
  <2>2. CASE slipped
    <3>1. recvd = 0 /\ ~flush /\ unfinished = <<>>
      <4>1. ~ (recvd > 0 \/ flush \/ unfinished # <<>>)
        BY <1>1, <1>3, <2>2, Zenon
      <4>2. QED
        BY <1>2, <4>1
    <3>2. sCmdBuffer' = <<>>
      BY <1>2, <3>1, EmptySeq
    <3>3. QED
      BY <1>1, <1>4, <2>1, <3>1, <3>2 DEF Scanned
  <2>3. CASE ~slipped
    <3>1. PICK l \in Seq(Character) : Right(l)
      BY <1>1, <2>3 DEF LineInv
    <3>2. Scanned(unfinished)
      BY <1>1, <3>1, AllScanned DEF Right
    <3>3. QED
      BY <1>1, <2>1, <3>2 DEF Scanned
  <2>4. QED
    BY <2>2, <2>3
<1>6. Answered' = <<>>
  BY <1>1 DEF Answered, Full
<1>7. Pending' = <<>>
  <2>1. Pending' = SubSeq(sCmdBuffer', recvd + 1, recvd + 0) /\ recvd + 0 < recvd + 1
    BY <1>1, <1>2 DEF Pending
  <2>2. QED
    BY <1>2, <2>1, SubSeqEmpty
<1>8. [line |-> unfinished, owed |-> <<>>] \in States
  BY <1>4, EmptySeq DEF States
<1>9. Called([line |-> unfinished, owed |-> <<>>], <<>>) = [line |-> unfinished, owed |-> <<>>]
  BY <1>8, NothingPending
<1>10. QED
  BY <1>1, <1>5, <1>6, <1>7, <1>9 DEF Right

\* A segment is received.
LEMMA RecvStep == ASSUME ScanOK, PromiseOK, LineInv, Recv PROVE LineInv' /\ PromiseOK'
<1>1. /\ at = "select" /\ at' = "scan"
      /\ UNCHANGED <<recvd, flush, given, slipped>>
  BY DEF Recv
<1>2. PICK data \in BoundedSeq(Character, Room) \ {<<>>} :
          /\ sCmdBuffer' = sCmdBuffer \o data
          /\ remaining' = remaining + Len(data)
          /\ unfinished' = Called([line |-> unfinished, owed |-> <<>>], data).line
          /\ owed' = Called([line |-> unfinished, owed |-> <<>>], data).owed
  BY DEF Recv
<1>3. data \in Seq(Character) /\ Len(data) \in Nat \ {0} /\ data # <<>>
  BY <1>1, Segment
<1>4. /\ given = <<>> /\ recvd \in Nat /\ remaining = 0 /\ Len(sCmdBuffer) = recvd
      /\ sCmdBuffer \in Seq(Character) /\ ~Full
  BY <1>1 DEF LineInv, ScanOK
<1>5. PICK calls : calls = Called([line |-> unfinished, owed |-> <<>>], data)
  OBVIOUS
<1>6. calls \in States
  <2>1. [line |-> unfinished, owed |-> <<>>] \in States
    BY EmptySeq DEF States, PromiseOK
  <2>2. QED
    BY <1>3, <1>5, <2>1, CalledProperties
<1>7. calls = [line |-> unfinished', owed |-> owed']
  <2>1. calls = [line |-> calls.line, owed |-> calls.owed]
    BY <1>6 DEF States
  <2>2. QED
    BY <1>2, <1>5, <2>1, Zenon
<1>8. PromiseOK'
  <2>1. calls.line \in Seq(Character) /\ Len(calls.line) <= MAX_COMMAND_LINE_LEN
        /\ calls.owed \in Seq(Answers)
    BY <1>6 DEF States
  <2>2. unfinished' = calls.line /\ owed' = calls.owed
    BY <1>2, <1>5
  <2>3. slipped' \in BOOLEAN /\ given' \in Seq(Answers)
    BY <1>1, Zenon DEF PromiseOK
  <2>4. QED
    BY <2>1, <2>2, <2>3, Zenon DEF PromiseOK
<1>9. ASSUME ~slipped PROVE \E l \in Seq(Character) : Right(l)'
  <2>1. PICK l \in Seq(Character) : Right(l)
    BY <1>1, <1>9 DEF LineInv
  <2>2. l = unfinished
    BY <1>1, <1>4, <2>1, AllScanned
  <2>3. Scanned(unfinished)
    BY <2>1, <2>2 DEF Right
  <2>4. /\ Len(data) \in Nat /\ sCmdBuffer' = sCmdBuffer \o data /\ sCmdBuffer' \in Seq(Character)
        /\ Len(sCmdBuffer') = recvd + Len(data)
        /\ \A i \in 1..(recvd + Len(data)) :
              sCmdBuffer'[i] = IF i <= recvd THEN sCmdBuffer[i] ELSE data[i - recvd]
    BY <1>2, <1>3, <1>4, ConcatProperties
  <2>5. SubSeq(sCmdBuffer', 1, recvd) = SubSeq(sCmdBuffer, 1, recvd)
    <3>1. CASE recvd = 0
      BY <3>1, SubSeqEmpty
    <3>2. CASE recvd # 0
      <4>1. 1 \in 1..Len(sCmdBuffer) /\ recvd \in 1..Len(sCmdBuffer)
        BY <1>4, <3>2
      <4>2. QED
        BY <1>3, <1>4, <2>4, <4>1, SubSeqOfConcat1
    <3>3. QED
      BY <3>1, <3>2
  <2>6. Pending' = data
    <3>1. Pending' = SubSeq(sCmdBuffer', recvd + 1, recvd + Len(data))
      BY <1>1, <1>2, <1>4 DEF Pending
    <3>2. recvd + 1 \in (Len(sCmdBuffer) + 1)..(Len(sCmdBuffer) + Len(data))
          /\ recvd + Len(data) \in (Len(sCmdBuffer) + 1)..(Len(sCmdBuffer) + Len(data))
      BY <1>3, <1>4
    <3>3. SubSeq(sCmdBuffer \o data, recvd + 1, recvd + Len(data))
            = SubSeq(data, recvd + 1 - Len(sCmdBuffer), recvd + Len(data) - Len(sCmdBuffer))
      BY <1>3, <1>4, <3>2, SubSeqOfConcat2
    <3>4. recvd + 1 - Len(sCmdBuffer) = 1 /\ recvd + Len(data) - Len(sCmdBuffer) = Len(data)
      BY <1>3, <1>4
    <3>5. SubSeq(data, 1, Len(data)) = data
      BY <1>3, SubSeqFull
    <3>6. QED
      BY <2>4, <3>1, <3>3, <3>4, <3>5, Zenon
  <2>7. Answered' = <<>>
    BY <1>1, <1>4 DEF Answered, Full
  <2>8. Right(l)'
    <3>1. Scanned(l)'
      BY <1>1, <2>2, <2>3, <2>5 DEF Scanned
    <3>2. Called([line |-> l, owed |-> Answered'], Pending') = [line |-> unfinished', owed |-> owed']
      BY <1>5, <1>7, <2>2, <2>6, <2>7
    <3>3. QED
      BY <3>1, <3>2 DEF Right
  <2>9. QED
    BY <2>8
<1>10. QED
  BY <1>1, <1>8, <1>9 DEF LineInv

\* Shell calls ReceiveLine again.
LEMMA ReceiveLineStep ==
    ASSUME ScanOK, PromiseOK, LineInv, at = "shell", ReceiveLine, UNCHANGED promise
    PROVE  LineInv'
<1>1. /\ at' = "scan" /\ recvd' = 0 /\ remaining' = remaining
      /\ sCmdBuffer' = IF next # 0 /\ remaining > 0
                       THEN SubSeq(sCmdBuffer, next, next + remaining - 1) ELSE <<>>
      /\ UNCHANGED <<given, owed, unfinished, slipped>>
  BY DEF ReceiveLine
<1>2. ~flush'
  BY DEF ReceiveLine
<1>3. SUFFICES ASSUME ~slipped PROVE Right(<<>>)'
  <2>1. <<>> \in Seq(Character)
    BY EmptySeq
  <2>2. at' = "scan" /\ slipped' = slipped
    BY <1>1
  <2>3. LineInv' <=> (~slipped => \E l \in Seq(Character) : Right(l)')
    BY <2>2 DEF LineInv
  <2>4. QED
    BY <2>1, <2>3
<1>4. PICK l \in Seq(Character) : Right(l)
  BY <1>3 DEF LineInv
<1>5. /\ remaining \in Nat /\ recvd \in Nat /\ next = recvd + 2 /\ ~flush
      /\ Pending \in Seq(Character) /\ Len(Pending) = remaining
  BY PendingType DEF ScanOK
<1>6. l = <<>>
  BY <1>4, <1>5 DEF Right, Scanned
<1>7. sCmdBuffer' = Pending
  <2>1. CASE remaining > 0
    <3>1. sCmdBuffer' = SubSeq(sCmdBuffer, next, next + remaining - 1)
          /\ next + remaining - 1 = recvd + 1 + remaining
      BY <1>1, <1>5, <2>1
    <3>2. QED
      BY <1>5, <3>1 DEF Pending
  <2>2. CASE ~ (remaining > 0)
    <3>1. sCmdBuffer' = <<>> /\ Len(Pending) = 0
      BY <1>1, <1>5, <2>2
    <3>2. QED
      BY <1>5, <3>1, EmptySeq
  <2>3. QED
    BY <2>1, <2>2
<1>8. Pending' = Pending
  <2>1. Pending' = SubSeq(sCmdBuffer', 1, remaining)
    <3>1. 0 + 1 = 1 /\ 0 + remaining = remaining
      BY <1>5
    <3>2. QED
      BY <1>1, <3>1 DEF Pending
  <2>2. SubSeq(Pending, 1, remaining) = Pending
    BY <1>5, SubSeqFull
  <2>3. QED
    BY <1>7, <2>1, <2>2
<1>9. Answered' = given /\ Answered = given
  BY <1>1 DEF Answered, Full
<1>10. Scanned(<<>>)'
  <2>1. SubSeq(sCmdBuffer', 1, 0) = <<>>
    BY SubSeqEmpty
  <2>2. QED
    BY <1>1, <1>2, <2>1, EmptySeq DEF Scanned
<1>11. QED
  BY <1>1, <1>4, <1>6, <1>8, <1>9, <1>10 DEF Right

\* Shell has given no more than what is called for, and is about to.
LEMMA GivenIsOwed ==
    ASSUME ScanOK, PromiseOK, NEW l, Right(l), at # "closed"
    PROVE  IsPrefix(Answered, owed) /\ IsPrefix(given, owed)
<1>1. [line |-> l, owed |-> Answered] \in States /\ Answered \in Seq(Answers)
  BY ScannedState DEF Right
<1>2. at \in {"scan", "select", "shell"}
  BY DEF ScanOK
<1>3. Pending \in Seq(Character)
  BY <1>2, PendingType
<1>4. IsPrefix([line |-> l, owed |-> Answered].owed,
               Called([line |-> l, owed |-> Answered], Pending).owed)
  BY <1>1, <1>3, CalledProperties
<1>5. IsPrefix(Answered, owed)
  <2>1. [line |-> l, owed |-> Answered].owed = Answered
        /\ [line |-> unfinished, owed |-> owed].owed = owed
    OBVIOUS
  <2>2. QED
    BY <1>4, <2>1 DEF Right
<1>6. IsPrefix(given, Answered)
  <2>1. given \in Seq(Answers) /\ TooLong \in Answers
    BY DEF PromiseOK, Answers
  <2>2. QED
    BY <2>1, PrefixOrder DEF Answered
<1>7. given \in Seq(Answers) /\ owed \in Seq(Answers)
  BY DEF PromiseOK
<1>8. IsPrefix(given, owed)
  BY <1>1, <1>5, <1>6, <1>7, PrefixOrder
<1>9. QED
  BY <1>5, <1>8

\* Shell leaves, or the peer, or the time is over.
LEMMA ClosedStep ==
    ASSUME ScanOK, PromiseOK, LineInv, at # "closed", at' = "closed", UNCHANGED promise
    PROVE  LineInv'
<1>1. UNCHANGED <<given, owed, unfinished, slipped>>
  OBVIOUS
<1>2. ASSUME ~slipped PROVE IsPrefix(given, owed)
  <2>1. PICK l \in Seq(Character) : Right(l)
    BY <1>2 DEF LineInv
  <2>2. QED
    BY <2>1, GivenIsOwed
<1>3. QED
  BY <1>1, <1>2 DEF LineInv

\* A step that does not concern the channel.
LEMMA ChannelKept ==
    ASSUME LineInv, UNCHANGED <<at, buffer, promise>>
    PROVE  LineInv'
BY DEF LineInv, Right, Scanned, Answered, Pending, Full

\* Every step keeps the lines right.
LEMMA LinesStep == ASSUME ScanOK, PromiseOK, LineInv, [Next]_vars PROVE LineInv' /\ PromiseOK'
<1>1. ASSUME Letter \/ EmptyLine \/ Line \/ LineTooLong \/ Prepare PROVE LineInv'
  BY <1>1, LetterStep, EmptyLineStep, LineStep, LineTooLongStep, PrepareStep
<1>2. ASSUME Letter \/ EmptyLine PROVE PromiseOK'
  <2>1. UNCHANGED <<unfinished, owed, given>>
    BY <1>2 DEF Letter, EmptyLine
  <2>2. slipped' \in BOOLEAN
    BY <1>2, Zenon DEF Letter, EmptyLine, PromiseOK
  <2>3. QED
    BY <2>1, <2>2 DEF PromiseOK
<1>3. ASSUME Line PROVE PromiseOK'
  <2>1. recvd \in Nat /\ recvd <= Len(sCmdBuffer) /\ sCmdBuffer \in Seq(Character)
    BY <1>3, LenProperties DEF Line, ScanOK
  <2>2. SubSeq(sCmdBuffer, 1, recvd) \in Answers
    BY <2>1, Cut DEF Answers
  <2>3. given' = Append(given, SubSeq(sCmdBuffer, 1, recvd)) /\ UNCHANGED <<unfinished, owed, slipped>>
    BY <1>3 DEF Line
  <2>4. given' \in Seq(Answers)
    BY <2>2, <2>3, AppendProperties DEF PromiseOK
  <2>5. QED
    BY <2>3, <2>4 DEF PromiseOK
<1>4. ASSUME LineTooLong PROVE PromiseOK'
  <2>1. given' = given \/ given' = Append(given, TooLong)
    BY <1>4 DEF LineTooLong
  <2>2. UNCHANGED <<unfinished, owed, slipped>>
    BY <1>4 DEF LineTooLong
  <2>3. TooLong \in Answers
    BY DEF Answers
  <2>4. given' \in Seq(Answers)
    BY <2>1, <2>3, AppendProperties DEF PromiseOK
  <2>5. QED
    BY <2>2, <2>4 DEF PromiseOK
<1>5. ASSUME Prepare PROVE PromiseOK'
  <2>1. unfinished' = unfinished /\ owed' = <<>> /\ given' = <<>>
    BY <1>5 DEF Prepare
  <2>2. slipped' \in BOOLEAN
    BY <1>5, Zenon DEF Prepare
  <2>3. QED
    BY <2>1, <2>2, EmptySeq DEF PromiseOK
<1>6. ASSUME Recv PROVE LineInv' /\ PromiseOK'
  BY <1>6, RecvStep
<1>7. ASSUME LogIn \/ LogOut \/ OtherCommand \/ List PROVE LineInv' /\ PromiseOK'
  <2>1. at = "shell" /\ ReceiveLine /\ UNCHANGED promise
    BY <1>7 DEF LogIn, LogOut, OtherCommand, List
  <2>2. QED
    BY <2>1, ReceiveLineStep DEF PromiseOK
<1>8. ASSUME SelectEmpty \/ PeerLeaves \/ Quit PROVE LineInv' /\ PromiseOK'
  <2>1. UNCHANGED promise
    BY <1>8 DEF SelectEmpty, PeerLeaves, Quit
  <2>2. at # "closed" /\ (at' = "closed" \/ UNCHANGED <<at, buffer>>)
    BY <1>8 DEF SelectEmpty, PeerLeaves, Quit
  <2>3. QED
    BY <2>1, <2>2, ClosedStep, ChannelKept DEF PromiseOK
<1>9. ASSUME Tick \/ ListThread \/ UNCHANGED vars PROVE LineInv' /\ PromiseOK'
  <2>1. UNCHANGED <<at, buffer, promise>>
    BY <1>9 DEF Tick, ListThread, ListItself, FindFirst, Entry, FindNext, Flush, EndOfList, ResetTimeout
  <2>2. QED
    BY <2>1, ChannelKept DEF PromiseOK
<1>10. QED
  BY <1>1, <1>2, <1>3, <1>4, <1>5, <1>6, <1>7, <1>8, <1>9 DEF Next, Shell, Peer, Time

----------------------------------------------------------------------------
(* The theorems.                                                           *)

\* All of it.
SessionInv ==
    /\ ScanOK /\ ClockOK /\ PromiseOK /\ ThreadOK
    /\ ListInv /\ QuietInv /\ LineInv

\* A session begins with nothing received, called for or listed.
LEMMA InitInv == ASSUME Init PROVE SessionInv
<1>1. /\ at = "scan" /\ sCmdBuffer = <<>> /\ recvd = 0 /\ remaining = 0 /\ next = 0
      /\ timedOut = FALSE /\ eStatus = "WAITING" /\ logged = FALSE
      /\ elapsed = 0 /\ left = Forever /\ quiet = 0
      /\ unfinished = <<>> /\ owed = <<>> /\ given = <<>>
      /\ thread = "none" /\ vdp = <<>> /\ pBuffer = <<>> /\ wire = <<>> /\ names = <<>>
  BY DEF Init, ChannelInit
<1>2. /\ flush \in BOOLEAN /\ slipped \in BOOLEAN /\ opt_a \in BOOLEAN /\ broken \in BOOLEAN
      /\ ~flush /\ ~broken
  BY DEF Init, ChannelInit
<1>3. Long \in Nat /\ Forever = Long + 1
  BY DEF Long, Forever
<1>4. \A S : <<>> \in Seq(S) /\ Len(<<>>) = 0
  BY EmptySeq
<1>5. ScanOK
  BY <1>1, <1>2, <1>4 DEF ScanOK
<1>6. ClockOK /\ QuietInv
  <2>1. logged \in BOOLEAN /\ timedOut \in BOOLEAN /\ ~logged
    BY <1>1, Zenon
  <2>2. QED
    BY <1>1, <1>3, <2>1 DEF ClockOK, QuietInv
<1>7. PromiseOK
  BY <1>1, <1>2, <1>4 DEF PromiseOK
<1>8. ThreadOK /\ ListInv
  BY <1>1, <1>2, <1>4 DEF ThreadOK, ListInv
<1>9. Right(<<>>)
  <2>1. Scanned(<<>>)
    <3>1. SubSeq(<<>>, 1, 0) = <<>>
      BY SubSeqEmpty
    <3>2. QED
      BY <1>1, <1>2, <1>4, <3>1 DEF Scanned
  <2>2. Pending = <<>>
    BY <1>1, <1>5, PendingType
  <2>3. Answered = <<>>
    BY <1>1 DEF Answered, Full
  <2>4. [line |-> <<>>, owed |-> <<>>] \in States
    BY <1>4 DEF States
  <2>5. Called([line |-> <<>>, owed |-> <<>>], <<>>) = [line |-> <<>>, owed |-> <<>>]
    BY <2>4, NothingPending
  <2>6. QED
    BY <1>1, <2>1, <2>2, <2>3, <2>5 DEF Right
<1>10. LineInv
  BY <1>1, <1>4, <1>9 DEF LineInv
<1>11. QED
  BY <1>5, <1>6, <1>7, <1>8, <1>10 DEF SessionInv

\* The session keeps it.
LEMMA Invariance == Spec => []SessionInv
<1>1. Init => SessionInv
  BY InitInv
<1>2. SessionInv /\ [Next]_vars => SessionInv'
  BY ScanStep, ClockStep, ListStep, QuietStep, LinesStep DEF SessionInv
<1>3. QED
  BY <1>1, <1>2, PTL DEF Spec

\* Every variable has its type, whatever the buffers, the timeouts and the
\* directories are: Shell reads and writes within sCmdBuffer, with the line that
\* it has, and readdir returns the names that are left.
THEOREM TypeCorrect == Spec => []TypeOK
<1>1. SessionInv => BufferOK
  <2> SUFFICES ASSUME SessionInv PROVE BufferOK
    OBVIOUS
  <2>1. ScanOK /\ ClockOK
    BY DEF SessionInv
  <2>2. at = "shell" /\ remaining > 0 => next # 0 /\ next + remaining - 1 <= Len(sCmdBuffer)
    BY <2>1 DEF ScanOK
  <2>3. next \in 0..(MAX_COMMAND_LINE_LEN + 1) /\ recvd \in 0..MAX_COMMAND_LINE_LEN
        /\ remaining \in 0..MAX_COMMAND_LINE_LEN
    BY <2>1 DEF ScanOK
  <2>4. QED
    BY <2>1, <2>2, <2>3 DEF BufferOK, ScanOK, ClockOK
<1>2. SessionInv /\ thread \in {"line", "next"} => vdp # <<>> /\ IsSuffix(vdp, names)
  <2> SUFFICES ASSUME SessionInv, thread \in {"line", "next"} PROVE IsSuffix(vdp, names)
    BY DEF SessionInv, ListInv
  <2> DEFINE a == Reverse(vdp)
             b == Reverse(names)
             n == Len(names)
             k == Len(vdp)
  <2>1. /\ n \in Nat /\ k \in Nat /\ k <= n
        /\ \A i \in 1..k : vdp[i] = names[(n - k) + i] /\ vdp[i] \in Listable
        /\ \A i \in 1..n : names[i] \in Listable
    BY LenProperties, ElementOfSeq DEF SessionInv, ListInv, ThreadOK, Read
  <2>2. a = [i \in 1..k |-> vdp[(k - i) + 1]] /\ b = [i \in 1..n |-> names[(n - i) + 1]]
    BY DEF Reverse
  <2> HIDE DEF a, b, n, k
  <2>3. a \in Seq(Listable) /\ Len(a) = k
    <3>1. \A i \in 1..k : vdp[(k - i) + 1] \in Listable
      BY <2>1
    <3>2. a \in [1..k -> Listable]
      BY <2>2, <3>1
    <3>3. a \in Seq(Listable)
      BY <2>1, <3>2, SeqDef
    <3>4. QED
      BY <2>1, <3>2, <3>3, LenProperties
  <2>4. b \in Seq(Listable) /\ Len(b) = n
    <3>1. \A i \in 1..n : names[(n - i) + 1] \in Listable
      BY <2>1
    <3>2. b \in [1..n -> Listable]
      BY <2>2, <3>1
    <3>3. b \in Seq(Listable)
      BY <2>1, <3>2, SeqDef
    <3>4. QED
      BY <2>1, <3>2, <3>3, LenProperties
  <2>5. ASSUME NEW i \in 1..k PROVE a[i] = b[i]
    <3>1. (k - i) + 1 \in 1..k /\ (n - k) + ((k - i) + 1) = (n - i) + 1 /\ i \in 1..n
      BY <2>1
    <3>2. vdp[(k - i) + 1] = names[(n - i) + 1]
      BY <2>1, <3>1
    <3>3. QED
      BY <2>2, <3>1, <3>2
  <2>6. IsPrefix(a, b)
    BY <2>1, <2>3, <2>4, <2>5, PrefixMeans
  <2>7. QED
    BY <2>6 DEF IsSuffix, a, b
<1>3. SessionInv => TypeOK
  BY <1>1, <1>2 DEF SessionInv, ThreadOK, TypeOK
<1>4. QED
  BY <1>3, Invariance, PTL

\* Shell gets the lines that the peer has sent, and one 500 for each that is
\* too long, whatever they are and however they are cut into segments.
THEOREM LinesCorrect == Spec => []LinesAsSent
<1>1. SessionInv => LinesAsSent
  <2> SUFFICES ASSUME SessionInv, ~slipped
               PROVE  /\ IsPrefix(given, owed)
                      /\ at = "scan" /\ remaining = 0 /\ ~Full => given = owed
    BY DEF LinesAsSent
  <2>1. ScanOK /\ PromiseOK /\ LineInv
    BY DEF SessionInv
  <2>2. CASE at = "closed"
    BY <2>1, <2>2 DEF LineInv
  <2>3. CASE at # "closed"
    <3>1. PICK l \in Seq(Character) : Right(l)
      BY <2>1, <2>3 DEF LineInv
    <3>2. IsPrefix(given, owed)
      BY <2>1, <2>3, <3>1, GivenIsOwed
    <3>3. ASSUME at = "scan", remaining = 0, ~Full PROVE given = owed
      BY <2>1, <3>1, <3>3, AllScanned DEF Answered
    <3>4. QED
      BY <3>2, <3>3
  <2>4. QED
    BY <2>2, <2>3
<1>2. QED
  BY <1>1, Invariance, PTL

\* A listing has the lines of the entries that opendir has found, whole and in
\* order, whatever the directory holds and however long a line and the buffer are.
THEOREM ListingCorrect == Spec => []ListingWhole
<1>1. SessionInv => ListingWhole
  <2> DEFINE long == {k \in DOMAIN names : names[k] \in TooLongNames}
             last == IF long = {} THEN Len(names)
                     ELSE (CHOOSE k \in long : \A j \in long : k <= j) - 1
  <2> SUFFICES ASSUME SessionInv, thread = "reply", ~broken PROVE wire = Lines(names, opt_a)[last]
    BY DEF ListingWhole
  <2>1. PICK k \in 0..Len(names) : Ends(k) /\ wire = Listed(k)
    BY DEF SessionInv, ListInv
  <2>2. DOMAIN names = 1..Len(names) /\ Len(names) \in Nat
    BY LenProperties DEF SessionInv, ThreadOK
  <2>3. \A j \in long : j \in Nat /\ j > k
    BY <2>1, <2>2 DEF Ends
  <2>4. CASE long = {}
    <3>1. ~ (k < Len(names))
      <4>1. ASSUME k < Len(names) PROVE k + 1 \in long
        BY <2>1, <2>2, <4>1 DEF Ends
      <4>2. QED
        BY <2>4, <4>1
    <3>2. last = Len(names)
      BY <2>4
    <3> HIDE DEF last, long
    <3>3. last = k
      <4>1. \A m, n \in Nat : m \in 0..n /\ ~ (m < n) => n = m
        OBVIOUS
      <4>2. k \in Nat
        BY <2>2
      <4>3. QED
        BY <2>2, <3>1, <3>2, <4>1, <4>2, Zenon
    <3>4. QED
      BY <2>1, <3>3 DEF Listed
  <2>5. CASE long # {}
    <3>1. k + 1 \in long
      <4>1. k < Len(names)
        BY <2>2, <2>3, <2>5
      <4>2. QED
        BY <2>1, <2>2, <4>1 DEF Ends
    <3> DEFINE first == CHOOSE m \in long : \A j \in long : m <= j
    <3>2. \A j \in long : k + 1 <= j
      BY <2>1, <2>3
    <3> HIDE DEF long
    <3>3. first \in long /\ \A j \in long : first <= j
      BY <3>1, <3>2
    <3> HIDE DEF first
    <3>4. first = k + 1
      BY <2>1, <2>3, <3>1, <3>2, <3>3
    <3>5. last = first - 1
      BY <2>5 DEF first
    <3> HIDE DEF last
    <3>6. last = k
      BY <2>1, <3>4, <3>5
    <3>7. QED
      BY <2>1, <3>6 DEF Listed
  <2>6. QED
    BY <2>4, <2>5
<1>2. QED
  BY <1>1, Invariance, PTL

\* A session that is logged in is timed out only after NoTransferTimeout without a
\* transfer, however long the timeouts are.
THEOREM TimeoutCorrect == Spec => TimedOutWhenQuiet
<1>1. ASSUME SessionInv, [Next]_vars, timedOut', ~timedOut, logged, thread # "reset"
      PROVE  quiet >= NoTransferTimeout
  <2>1. ASSUME ~SelectEmpty PROVE UNCHANGED timedOut
    BY <1>1, <2>1 DEF Next, Shell, Peer, Time, ListThread, Letter, Line, EmptyLine, LineTooLong,
        Prepare, LogIn, LogOut, OtherCommand, Quit, List, Recv, PeerLeaves, Tick,
        ListItself, FindFirst, Entry, FindNext, Flush, EndOfList, ResetTimeout
  <2>2. SelectEmpty
    BY <1>1, <2>1
  <2>3. Idle
    BY <1>1, <2>2 DEF SelectEmpty
  <2>4. eStatus = "WAITING" /\ elapsed >= NoTransferTimeout
    BY <1>1, <2>3 DEF Idle
  <2>5. thread = "none"
    BY <1>1, <2>4 DEF SessionInv, ThreadOK
  <2>6. quiet >= elapsed
    BY <1>1, <2>5 DEF SessionInv, QuietInv
  <2>7. quiet \in Int /\ elapsed \in Int
    BY <1>1 DEF SessionInv, ClockOK
  <2>8. QED
    BY <2>4, <2>6, <2>7
<1>2. QED
  BY <1>1, Invariance, PTL DEF Spec, TimedOutWhenQuiet

=============================================================================
