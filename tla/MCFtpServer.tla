---------------------------- MODULE MCFtpServer ----------------------------
(* FtpServer with small ranges of data ports.                               *)
EXTENDS FtpServer, TLC

TwoRanges == {<<1, 1>>, <<4, 2>>}

\* Bound: the clients that send PASV come only when no other client has
\* connected.  When one has, the server goes on accepting, and the callers do
\* nothing but change the range of the data ports.
PortsApart ==
    \/ DataPortRange = <<1, 1>> /\ \A e \in Passive : entry[e] = "none"
    \/ /\ \A e \in Entries \ Passive : entry[e] = "none"
       /\ \A c \in Callers : caller[c] = "idle"
       /\ \A t \in Acceptors : at[t] \in {"none", "start", "select", "link", "redis"}

\* When both of these have happened, nothing is promised any more.
Promised == ~(lateEnd /\ raced)

AllSymmetry ==
    Permutations(Callers) \cup Permutations(Acceptors) \cup Permutations(Ports)
    \cup Permutations(Entries \ Passive) \cup Permutations(Passive)

=============================================================================
