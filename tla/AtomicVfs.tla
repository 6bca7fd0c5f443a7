----------------------------- MODULE AtomicVfs -----------------------------
(***************************************************************************)
(* The virtual file system that one client at a time sees: every command   *)
(* resolves its paths and updates the tree in a single step.  Rename gives *)
(* the object a new name in the directory it is in.                        *)
(***************************************************************************)
EXTENDS Integers, Sequences

CONSTANTS
    Names, Placeholder, Seed,    \* names; what keeps a directory, and the root
    NoName,                      \* the name that no path contains
    Paths,                       \* the paths; <<>> is the root
    MaxFid                       \* file identifiers are 0..MaxFid; 0 is the root

NoFid == -1
Absent == -2
Fids == 0..MaxFid
Entries == Names \cup {Placeholder, Seed, NoName}

VARIABLES
    stat,    \* "none", "dir" or "file", for each identifier
    dirent   \* what each entry of each directory names

ParentOf(p) == IF p = <<>> THEN p ELSE SubSeq(p, 1, Len(p) - 1)
EntryOf(p) == IF p = <<>> THEN NoName ELSE p[Len(p)]

\* The identifier of the object at path p, or NoFid.
Resolve(p) ==
    LET reach[i \in 0..Len(p)] ==
            IF i = 0 THEN 0
            ELSE IF reach[i-1] = NoFid \/ dirent[reach[i-1]][p[i]] = Absent THEN NoFid
            ELSE dirent[reach[i-1]][p[i]]
    IN reach[Len(p)]

Unused(f) ==
    /\ stat[f] = "none"
    /\ \A n \in Entries : dirent[f][n] = Absent
    /\ \A g \in Fids, n \in Entries : dirent[g][n] # f

Init ==
    /\ stat = [f \in Fids |-> IF f = 0 THEN "dir" ELSE "none"]
    /\ dirent = [f \in Fids |-> [n \in Entries |->
                    IF f = 0 /\ n = Seed THEN NoFid ELSE Absent]]

Mkdir(p) ==
    /\ Resolve(p) = NoFid /\ Resolve(ParentOf(p)) # NoFid
    /\ \E f \in Fids :
        /\ Unused(f)
        /\ stat' = [stat EXCEPT ![f] = "dir"]
        /\ dirent' = [dirent EXCEPT ![Resolve(ParentOf(p))][EntryOf(p)] = f,
                                    ![f][Placeholder] = NoFid]

\* A new file; whatever had this name is not reached any more.
Save(p) ==
    /\ Resolve(ParentOf(p)) # NoFid
    /\ \E f \in Fids :
        /\ Unused(f)
        /\ stat' = [stat EXCEPT ![f] = "file"]
        /\ dirent' = [dirent EXCEPT ![Resolve(ParentOf(p))][EntryOf(p)] = f]

\* A file, or an object with no entry at all.
Remove(p) ==
    LET f == Resolve(p) IN
    /\ f # NoFid
    /\ stat[f] = "file" \/ \A n \in Entries : dirent[f][n] = Absent
    /\ stat' = [stat EXCEPT ![f] = "none"]
    /\ dirent' = [dirent EXCEPT ![Resolve(ParentOf(p))][EntryOf(p)] = Absent]

Rename(p, q) ==
    LET dir == Resolve(ParentOf(p)) IN
    /\ Resolve(p) # NoFid
    /\ dirent' = [[dirent EXCEPT ![dir][EntryOf(p)] = Absent]
                          EXCEPT ![dir][EntryOf(q)] = Resolve(p)]
    /\ UNCHANGED stat

Next == \E p \in Paths : Mkdir(p) \/ Save(p) \/ Remove(p) \/ \E q \in Paths : Rename(p, q)

Spec == Init /\ [][Next]_<<stat, dirent>>

=============================================================================
