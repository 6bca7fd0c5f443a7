--------------------------- MODULE EntryLifetime ---------------------------
(***************************************************************************)
(* What the end of Shell and the end of the transfer threads promise        *)
(* together about a CClientEntry: it behaves as if it were reference        *)
(* counted.  Shell and every transfer thread hold the entry; it is deleted  *)
(* in the step in which the last of them lets it go, neither before nor     *)
(* later, and nobody takes hold of an entry that Shell has let go.          *)
(***************************************************************************)
CONSTANTS
    Clients,  \* the sessions; each one also stands for its Shell thread
    Threads   \* the transfer threads

VARIABLES
    state,    \* "none", "live" or "freed", of each session's entry
    holders   \* the threads that hold it: the Shell of c is c itself

Init ==
    /\ state = [c \in Clients |-> "none"]
    /\ holders = [c \in Clients |-> {}]

Connect(c) ==
    /\ state[c] = "none"
    /\ state' = [state EXCEPT ![c] = "live"]
    /\ holders' = [holders EXCEPT ![c] = {c}]

\* A transfer thread is handed the entry, by Shell, which holds it.
Hold(c, t) ==
    /\ c \in holders[c]
    /\ t \notin holders[c]
    /\ holders' = [holders EXCEPT ![c] = @ \cup {t}]
    /\ UNCHANGED state

\* A thread lets the entry go; the last one deletes it.
Release(c, h) ==
    /\ h \in holders[c]
    /\ holders' = [holders EXCEPT ![c] = @ \ {h}]
    /\ state' = IF holders'[c] = {} THEN [state EXCEPT ![c] = "freed"] ELSE state

Next ==
    \E c \in Clients :
        \/ Connect(c)
        \/ \E t \in Threads : Hold(c, t)
        \/ \E h \in Threads \cup {c} : Release(c, h)

Spec == Init /\ [][Next]_<<state, holders>>

=============================================================================
