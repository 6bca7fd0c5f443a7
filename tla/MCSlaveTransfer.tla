-------------------------- MODULE MCSlaveTransfer --------------------------
(* SlaveTransfer with two slaves, for two sessions with orderly peers, or   *)
(* one whose peer sends any command at any time.                            *)
EXTENDS SlaveTransfer, TLC

PopulationsValue ==
    {[s \in Sessions |-> "orderly"]}
    \cup {[s \in Sessions |-> IF s = t THEN "any" ELSE "none"] : t \in Sessions}

\* Bound: the orderly peers use PASV and STOR; the other one also uses PORT, and
\* stores with APPE, whatever its PRET has announced.
CommandsApart ==
    \A s \in Sessions :
        IF Orderly(s) THEN conn[s] # "PORT" /\ "APPE" \notin {pret[s], cmd[s]}
        ELSE cmd[s] # "STOR"

AllSymmetry == Permutations(Slaves) \cup Permutations(Threads) \cup Permutations(Sessions)

\* What an orderly peer's earlier transfer has left in its session is
\* overwritten by PRET and PASV before anything reads it.
Live(s) ==
    IF Orderly(s) /\ told[s] = Nothing THEN <<>>
    ELSE <<conn[s], pret[s], pretFid[s], trans[s], slaveInfo[s]>>
LiveState == <<peer, redis, at, [s \in Sessions |-> Live(s)], told, transfer, slaves>>
=============================================================================
