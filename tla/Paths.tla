------------------------------- MODULE Paths -------------------------------
(***************************************************************************)
(* The paths of CFtpServer.cpp: SimplifyPath, BuildVirtualPath and         *)
(* BuildPath, on C strings, which are sequences of characters here.        *)
(*                                                                         *)
(* Left out: the drive letters of SimplifyPath, for no path of a session   *)
(* has one (it begins with '/'), and the failures of new.                  *)
(***************************************************************************)
EXTENDS Naturals, Sequences

CONSTANTS
    Characters,  \* what paths are made of
    MAX_PATH     \* of limits.h

Path == Seq(Characters)
Slash == <<"/">>
Dot == <<".">>
DotDot == <<".", ".">>

NoPath == <<"(null)">>  \* a null char*

ASSUME CharactersAssumption == {"/", ".", "\\"} \subseteq Characters /\ "(null)" \notin Characters
ASSUME MaxPathAssumption == MAX_PATH \in Nat \ {0}

\* s is what p has from place i on.
At(p, i, s) == i + Len(s) - 1 <= Len(p) /\ \A k \in 1..Len(s) : p[i + k - 1] = s[k]
StartsWith(p, s) == At(p, 1, s)
EndsWith(p, s) == Len(s) <= Len(p) /\ At(p, Len(p) - Len(s) + 1, s)
Prefix(p, n) == SubSeq(p, 1, IF n > Len(p) THEN Len(p) ELSE n)

\* memmove of what follows the k characters at place i over them.
Cut(p, i, k) == Prefix(p, i - 1) \o SubSeq(p, i + k, Len(p))

\* The first or the last of some places, or 0.
First(places) == IF places = {} THEN 0 ELSE CHOOSE j \in places : \A k \in places : j <= k
Last(places) == IF places = {} THEN 0 ELSE CHOOSE j \in places : \A k \in places : j >= k

strstr(p, s) == First({i \in 1..Len(p) : At(p, i, s)})

\* snprintf into a buffer of MAX_PATH + 4 characters.
Printed(p) == Prefix(p, MAX_PATH + 3)

----------------------------------------------------------------------------
(* SimplifyPath.                                                           *)

\* What the turns of a loop make of p.  A turn makes the path shorter or leaves
\* it as it is, so that there are no more turns than characters.
Repeat(turn, p) ==
    LET after[n \in 0..Len(p)] == IF n = 0 THEN p ELSE turn[after[n - 1]]
    IN  after[Len(p)]

\* Every '\' becomes a '/'.
Slashes(p) == [i \in 1..Len(p) |-> IF p[i] = "\\" THEN "/" ELSE p[i]]

\* As long as there is an s, its first k characters go.
Squeeze(p, s, k) ==
    Repeat([q \in Path |-> IF strstr(q, s) = 0 THEN q ELSE Cut(q, strstr(q, s), k)], p)

Leading(p) ==
    LET q == IF StartsWith(p, <<".", "/">>) THEN Cut(p, 1, 1) ELSE p
    IN  IF StartsWith(q, <<".", ".", "/">>) THEN Cut(q, 1, 2) ELSE q

TrailingDot(p) == IF EndsWith(p, <<"/", ".">>) THEN Prefix(p, Len(p) - 1) ELSE p

\* The last '/' before place i, or 0.
SlashBefore(p, i) == Last({j \in 1..(i - 1) : p[j] = "/"})

\* Mutant: the name before ".." stays.
UpKeepsName(p, i) == IF i + 3 <= Len(p) THEN Cut(p, i, 3) ELSE Prefix(p, IF i = 1 THEN 1 ELSE i - 1)

\* The "/.." at place i goes, with the name before it if there is one.
Up(p, i) ==
    LET b == IF i = 1 THEN 1 ELSE SlashBefore(p, i)
        inside == i + 3 <= Len(p)
    IN  IF b = 0 THEN (IF inside THEN Cut(p, i, 3) ELSE Prefix(p, i))
        ELSE IF b = 1 /\ ~inside THEN Prefix(p, 1)
        ELSE Cut(p, b, i + 3 - b)

\* Where p has a name ".."; "/..." and "/..a" are others.
Ups(p) == {i \in 1..Len(p) : At(p, i, <<"/", ".", ".">>) /\ (i + 3 <= Len(p) => p[i + 3] = "/")}

\* The loop over "/..", which begins again after each.
DotDots(p) == Repeat([q \in Path |-> IF Ups(q) = {} THEN q ELSE Up(q, First(Ups(q)))], p)

TrailingSlash(p) ==
    IF EndsWith(p, Slash) /\ (StartsWith(p, Slash) => Len(p) > 1)
    THEN Prefix(p, Len(p) - 1) ELSE p

SimplifyPath(p) ==
    LET clean == TrailingDot(Leading(Squeeze(Squeeze(Slashes(p), <<"/", "/">>, 1), <<"/", ".", "/">>, 2)))
        q == TrailingSlash(DotDots(clean))
    IN  IF p = <<>> THEN p ELSE IF q \in {<<>>, DotDot, Dot} THEN Slash ELSE q

----------------------------------------------------------------------------
(* BuildVirtualPath and BuildPath.                                         *)

Fits(p) == IF Len(p) <= MAX_PATH THEN p ELSE NoPath

\* In the working directory cwd, for the argument that the peer sent.
BuildVirtualPath(cwd, asked) ==
    IF asked = NoPath THEN Fits(cwd)
    ELSE IF StartsWith(asked, Slash) THEN Fits(SimplifyPath(asked))
    ELSE Fits(SimplifyPath(Printed(cwd \o Slash \o asked)))

\* start is the user's start directory.
BuildPath(start, cwd, asked) ==
    LET virtual == BuildVirtualPath(cwd, asked) IN
    IF virtual = NoPath THEN NoPath ELSE Fits(SimplifyPath(Printed(start \o Slash \o virtual)))

\* CDUP: strncat, then SimplifyPath.
Parent(cwd) == SimplifyPath(cwd \o <<"/", ".", ".">>)

----------------------------------------------------------------------------
(* What a path means: the names on the way from the root.                  *)

\* A name is not empty and has no slash, and "." and ".." are none.
Names == Seq(Characters \ {"/", "\\"}) \ {<<>>, Dot, DotDot}
Places == Seq(Names)

\* Where a name leads to: "" and "." stay and ".." goes up.
Step(place, name) ==
    CASE name \in {<<>>, Dot} -> place
      [] name = DotDot -> SubSeq(place, 1, Len(place) - 1)
      [] OTHER -> Append(place, name)

\* Reading a path character by character: where its names have led to so far,
\* and the name that has begun.
Read(reading, c) ==
    IF c = "/" THEN [place |-> Step(reading.place, reading.name), name |-> <<>>]
    ELSE [reading EXCEPT !.name = Append(@, c)]
ReadAll(reading, p) ==
    LET after[i \in 0..Len(p)] == IF i = 0 THEN reading ELSE Read(after[i - 1], p[i])
    IN  after[Len(p)]
Walk(place, p) ==
    LET end == ReadAll([place |-> place, name |-> <<>>], p) IN Step(end.place, end.name)

\* Where asked leads to from the directory at place.
Place(place, asked) ==
    IF asked = NoPath THEN place
    ELSE Walk(IF StartsWith(asked, Slash) THEN <<>> ELSE place, Slashes(asked))

\* The names, with a slash before each.
Joined(place) ==
    LET path[i \in 0..Len(place)] == IF i = 0 THEN <<>> ELSE path[i - 1] \o Slash \o place[i]
    IN  path[Len(place)]
PathTo(place) == IF place = <<>> THEN Slash ELSE Joined(place)

Below(path, dir) == path = dir \/ StartsWith(path, IF dir = Slash THEN dir ELSE dir \o Slash)

\* BuildPath gives redis the path below the start directory that asked means
\* in the working directory, unless one of its buffers cuts a path.  What is
\* left of a path that has been cut may be that of another file, which is
\* still below the start directory.
Resolves(start, place, asked) ==
    LET path == BuildPath(PathTo(start), PathTo(place), asked)
        there == Place(place, asked) IN
    /\ path = NoPath \/ Below(path, PathTo(start))
    /\ /\ \/ asked = NoPath \/ StartsWith(asked, Slash)
          \/ Len(PathTo(place)) + 1 + Len(asked) <= MAX_PATH + 3
       /\ Len(PathTo(start)) + 1 + Len(PathTo(there)) <= MAX_PATH + 3
       => path = Fits(PathTo(start \o there))

=============================================================================
