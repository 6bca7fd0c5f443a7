---------------------------- MODULE PathsProofs ----------------------------
(***************************************************************************)
(* Proofs about Paths, for all paths: BuildPath finds what its argument     *)
(* means.                                                                  *)
(***************************************************************************)
EXTENDS Paths, NaturalRecursion, SequenceTheorems

\* The characters of a name, and those of a path after Slashes.
NameCharacters == Characters \ {"/", "\\"}
Clean == Seq(Characters \ {"\\"})
Readings == [place : Places, name : Seq(NameCharacters)]

----------------------------------------------------------------------------
(* Reading a path.                                                         *)

LEMMA NameTypes ==
    /\ <<>> \in Seq(NameCharacters) /\ Dot \in Clean /\ DotDot \in Clean /\ Slash \in Clean
    /\ Clean \subseteq Path /\ Names \subseteq Seq(NameCharacters) /\ Seq(NameCharacters) \subseteq Clean
    /\ <<>> \in Places /\ <<>> \in Clean
<1>1. NameCharacters \subseteq Characters \ {"\\"} /\ Characters \ {"\\"} \subseteq Characters
  BY DEF NameCharacters
<1>2. Clean \subseteq Path
  BY <1>1, SeqMonotonic DEF Clean, Path
<1>3. Seq(NameCharacters) \subseteq Clean
  BY <1>1, SeqMonotonic DEF Clean
<1>4. Dot \in Clean /\ DotDot \in Clean /\ Slash \in Clean
  BY CharactersAssumption DEF Clean, Dot, DotDot, Slash
<1>5. Names \subseteq Seq(NameCharacters)
  BY DEF Names, NameCharacters
<1>6. <<>> \in Seq(NameCharacters) /\ <<>> \in Clean /\ <<>> \in Places
  BY EmptySeq DEF Clean, Places
<1>7. QED
  BY <1>2, <1>3, <1>4, <1>5, <1>6

LEMMA StepCases ==
    ASSUME NEW place, NEW name
    PROVE  /\ name \in {<<>>, Dot} => Step(place, name) = place
           /\ name = DotDot => Step(place, name) = SubSeq(place, 1, Len(place) - 1)
           /\ name \notin {<<>>, Dot, DotDot} => Step(place, name) = Append(place, name)
<1>1. DotDot # <<>> /\ DotDot # Dot /\ Dot # <<>>
  BY DEF DotDot, Dot
<1>2. QED
  BY <1>1 DEF Step

LEMMA StepType ==
    ASSUME NEW place \in Places, NEW name \in Seq(NameCharacters) PROVE Step(place, name) \in Places
<1>1. CASE name \in {<<>>, Dot}
  BY <1>1, StepCases
<1>2. CASE name = DotDot
  <2>1. Step(place, name) = SubSeq(place, 1, Len(place) - 1)
    BY <1>2, StepCases
  <2>2. Len(place) \in Nat /\ \A i \in 1..Len(place) - 1 : place[i] \in Names
    BY LenProperties, ElementOfSeq DEF Places
  <2>3. Len(place) - 1 \in Int /\ SubSeq(place, 1, Len(place) - 1) \in Seq(Names)
    BY <2>2, SubSeqProperties
  <2>4. QED
    BY <2>1, <2>3 DEF Places
<1>3. CASE name \notin {<<>>, Dot, DotDot}
  <2>1. Step(place, name) = Append(place, name) /\ name \in Names
    BY <1>3, StepCases DEF Names, NameCharacters
  <2>2. QED
    BY <2>1, AppendProperties DEF Places
<1>4. QED
  BY <1>1, <1>2, <1>3

LEMMA ReadType ==
    ASSUME NEW reading \in Readings, NEW c \in Characters \ {"\\"}
    PROVE  Read(reading, c) \in Readings
<1>1. reading.place \in Places /\ reading.name \in Seq(NameCharacters)
  BY DEF Readings
<1>2. CASE c = "/"
  BY <1>1, <1>2, StepType, NameTypes DEF Read, Readings
<1>3. CASE c # "/"
  <2>1. c \in NameCharacters
    BY <1>3 DEF NameCharacters
  <2>2. Append(reading.name, c) \in Seq(NameCharacters)
    BY <1>1, <2>1, AppendProperties
  <2>3. QED
    BY <1>1, <1>3, <2>2 DEF Read, Readings
<1>4. QED
  BY <1>2, <1>3

\* The readings after each character.
Reads(reading, p, after) ==
    /\ after \in [0..Len(p) -> Readings]
    /\ after[0] = reading /\ \A i \in 1..Len(p) : after[i] = Read(after[i-1], p[i])

\* ReadAll is defined.
LEMMA ReadAllDefined ==
    ASSUME NEW reading \in Readings, NEW p \in Clean
    PROVE  \E after : Reads(reading, p, after) /\ ReadAll(reading, p) = after[Len(p)]
<1> DEFINE n == Len(p)
           step == [x \in Readings \X (1..n) |-> Read(x[1], p[x[2]])]
<1>1. n \in Nat /\ \A i \in 1..n : p[i] \in Characters \ {"\\"}
  BY LenProperties, ElementOfSeq DEF Clean
<1>2. step \in Steps(Readings, n)
  <2> HIDE DEF n
  <2>1. QED
    BY <1>1, ReadType DEF Steps
<1>3. PICK f \in [0..n -> Readings] :
        f[0] = reading /\ \A i \in 1..n : f[i] = step[<<f[i-1], i>>]
  <2> HIDE DEF n, step
  <2>1. Defined(Readings, n, reading, step) # {}
    BY <1>1, <1>2, BoundedRecursion
  <2>2. QED
    BY <2>1 DEF Defined
<1>4. \A i \in 1..n : f[i] = Read(f[i-1], p[i])
  <2> HIDE DEF n
  <2>1. \A i \in 1..n : f[i-1] \in Readings
    BY <1>1, <1>3
  <2>2. QED
    BY <1>1, <1>3, <2>1
<1>5. f = [i \in 0..n |-> IF i = 0 THEN reading ELSE Read(f[i-1], p[i])]
  <2> HIDE DEF n
  <2>1. QED
    BY <1>1, <1>3, <1>4
<1> DEFINE g == CHOOSE a : a = [i \in 0..n |-> IF i = 0 THEN reading ELSE Read(a[i-1], p[i])]
<1>6. g = [i \in 0..n |-> IF i = 0 THEN reading ELSE Read(g[i-1], p[i])]
  BY <1>5, Zenon
<1>7. ReadAll(reading, p) = g[n]
  BY Zenon DEF ReadAll
<1>8. g[0] = reading /\ \A i \in 1..n : g[i] = Read(g[i-1], p[i])
  <2> HIDE DEF n, g
  <2>1. QED
    BY <1>1, <1>6
<1>9. \A i \in 0..n : g[i] \in Readings
  <2> HIDE DEF n, g
  <2> DEFINE T == {i \in 0..n : g[i] \in Readings}
  <2>1. 0 \in T
    BY <1>1, <1>8
  <2>2. ASSUME NEW i \in 1..n, i - 1 \in T PROVE i \in T
    <3>1. g[i] \in Readings
      BY <1>1, <1>8, <2>2, ReadType
    <3>2. QED
      BY <1>1, <3>1
  <2>3. \A i \in 0..n : i \in T
    <3> HIDE DEF T
    <3>1. QED
      BY <1>1, <2>1, <2>2, BoundedInduction
  <2>4. QED
    BY <2>3
<1>10. g \in [0..n -> Readings]
  <2> HIDE DEF n, g
  <2>1. QED
    BY <1>6, <1>9, Zenon
<1>11. Reads(reading, p, g)
  BY <1>8, <1>10 DEF Reads
<1>12. QED
  BY <1>7, <1>11

\* There is one way to read a path.
LEMMA ReadsUnique ==
    ASSUME NEW p, NEW f, NEW g, NEW n \in Nat, f[0] = g[0], \A i \in 1..n : f[i] = Read(f[i-1], p[i]),
           \A i \in 1..n : g[i] = Read(g[i-1], p[i])
    PROVE  \A i \in 0..n : f[i] = g[i]
<1> DEFINE T == {i \in 0..n : f[i] = g[i]}
<1>1. 0 \in T
  OBVIOUS
<1>2. ASSUME NEW i \in 1..n, i - 1 \in T PROVE i \in T
  BY <1>2
<1>3. \A i \in 0..n : i \in T
  <2> HIDE DEF T
  <2>1. QED
    BY <1>1, <1>2, BoundedInduction
<1>4. QED
  BY <1>3

LEMMA ReadAllType ==
    ASSUME NEW reading \in Readings, NEW p \in Clean PROVE ReadAll(reading, p) \in Readings
<1>1. PICK after : Reads(reading, p, after) /\ ReadAll(reading, p) = after[Len(p)]
  BY ReadAllDefined
<1>2. Len(p) \in Nat
  BY LenProperties DEF Clean
<1>3. after \in [0..Len(p) -> Readings] /\ Len(p) \in 0..Len(p)
  BY <1>1, <1>2 DEF Reads
<1>4. QED
  BY <1>1, <1>3

LEMMA ReadNothing == ASSUME NEW reading \in Readings PROVE ReadAll(reading, <<>>) = reading
<1>1. PICK after : Reads(reading, <<>>, after) /\ ReadAll(reading, <<>>) = after[Len(<<>>)]
  BY ReadAllDefined, NameTypes
<1>2. QED
  BY <1>1 DEF Reads

LEMMA ReadAppend ==
    ASSUME NEW reading \in Readings, NEW p \in Clean, NEW c \in Characters \ {"\\"}
    PROVE  /\ Append(p, c) \in Clean
           /\ ReadAll(reading, Append(p, c)) = Read(ReadAll(reading, p), c)
<1> DEFINE q == Append(p, c)
<1>1. /\ q \in Clean /\ Len(p) \in Nat /\ Len(q) = Len(p) + 1
      /\ q[Len(p) + 1] = c /\ \A i \in 1..Len(p) : q[i] = p[i]
  BY AppendProperties, LenProperties DEF Clean
<1> HIDE DEF q
<1>2. PICK f : Reads(reading, p, f) /\ ReadAll(reading, p) = f[Len(p)]
  BY ReadAllDefined
<1>3. PICK g : Reads(reading, q, g) /\ ReadAll(reading, q) = g[Len(q)]
  BY <1>1, ReadAllDefined
<1>4. /\ f[0] = g[0] /\ \A i \in 1..Len(p) : f[i] = Read(f[i-1], p[i])
      /\ \A i \in 1..Len(p) : g[i] = Read(g[i-1], p[i])
      /\ g[Len(p) + 1] = Read(g[Len(p)], c)
  BY <1>1, <1>2, <1>3 DEF Reads
<1>5. f[Len(p)] = g[Len(p)]
  <2> DEFINE n == Len(p)
  <2>1. n \in Nat /\ n \in 0..n
    BY <1>1
  <2>2. /\ f[0] = g[0] /\ \A i \in 1..n : f[i] = Read(f[i-1], p[i])
        /\ \A i \in 1..n : g[i] = Read(g[i-1], p[i])
    BY <1>4
  <2>3. \A i \in 0..n : f[i] = g[i]
    <3> HIDE DEF n
    <3>1. QED
      BY <2>1, <2>2, ReadsUnique
  <2>4. QED
    BY <2>1, <2>3
<1>6. QED
  BY <1>1, <1>2, <1>3, <1>4, <1>5 DEF q

\* A path is read part by part.
LEMMA ReadConcat ==
    ASSUME NEW reading \in Readings, NEW p \in Clean, NEW q \in Clean
    PROVE  /\ p \o q \in Clean
           /\ ReadAll(reading, p \o q) = ReadAll(ReadAll(reading, p), q)
<1> DEFINE Good(r) == ReadAll(reading, p \o r) = ReadAll(ReadAll(reading, p), r)
           T == {n \in Nat : \A r \in Clean : Len(r) = n => Good(r)}
<1>1. \A r \in Clean : p \o r \in Clean /\ Len(r) \in Nat
  BY ConcatProperties, LenProperties DEF Clean
<1>2. 0 \in T
  <2>1. ASSUME NEW r \in Clean, Len(r) = 0 PROVE Good(r)
    <3>1. r = <<>> /\ p \o r = p
      BY <2>1, EmptySeq, ConcatEmptySeq DEF Clean
    <3>2. QED
      BY <3>1, ReadNothing, ReadAllType
  <2>2. QED
    BY <2>1
<1>3. ASSUME NEW n \in Nat, n \in T PROVE n + 1 \in T
  <2>1. ASSUME NEW r \in Clean, Len(r) = n + 1 PROVE Good(r)
    <3>1. r # <<>>
      BY <1>3, <2>1, EmptySeq
    <3>2. PICK s \in Clean, c \in Characters \ {"\\"} : r = Append(s, c)
      BY <3>1, SequenceEmptyOrAppend DEF Clean
    <3>3. Len(s) = n
      BY <1>1, <2>1, <3>2, AppendProperties DEF Clean
    <3>4. Good(s)
      BY <1>3, <3>3
    <3>5. p \o r = Append(p \o s, c)
      <4>1. r = s \o <<c>> /\ <<c>> \in Clean
        BY <3>2, AppendIsConcat DEF Clean
      <4>2. p \o r = (p \o s) \o <<c>>
        BY <4>1, ConcatAssociative DEF Clean
      <4>3. QED
        BY <1>1, <4>2, AppendIsConcat DEF Clean
    <3>6. ReadAll(reading, p \o r) = Read(ReadAll(reading, p \o s), c)
      BY <1>1, <3>5, ReadAppend
    <3>7. ReadAll(ReadAll(reading, p), r) = Read(ReadAll(ReadAll(reading, p), s), c)
      BY <3>2, ReadAppend, ReadAllType
    <3>8. QED
      BY <3>4, <3>6, <3>7
  <2>2. QED
    BY <2>1
<1>4. \A n \in Nat : n \in T
  <2> HIDE DEF T
  <2>1. QED
    BY <1>2, <1>3, SetInduction
<1>5. QED
  BY <1>1, <1>4

LEMMA ReadOne ==
    ASSUME NEW reading \in Readings, NEW c \in Characters \ {"\\"}
    PROVE  <<c>> \in Clean /\ ReadAll(reading, <<c>>) = Read(reading, c)
<1>1. <<c>> = Append(<<>>, c)
  <2>1. Append(<<>>, c) = <<>> \o <<c>> /\ <<c>> \in Seq({c})
    BY AppendIsConcat, EmptySeq
  <2>2. QED
    BY <2>1, ConcatEmptySeq
<1>2. <<>> \in Clean
  BY NameTypes
<1>3. Append(<<>>, c) \in Clean /\ ReadAll(reading, Append(<<>>, c)) = Read(ReadAll(reading, <<>>), c)
  BY <1>2, ReadAppend
<1>4. ReadAll(reading, <<>>) = reading
  BY ReadNothing
<1>5. QED
  BY <1>1, <1>3, <1>4

----------------------------------------------------------------------------
(* Parts of a path, and what is left of one when a part has been cut out.  *)

LEMMA PrefixProperties ==
    ASSUME NEW p \in Clean, NEW n \in 0..Len(p)
    PROVE  /\ Prefix(p, n) = SubSeq(p, 1, n) /\ Prefix(p, n) \in Clean /\ Len(Prefix(p, n)) = n
           /\ \A j \in 1..n : Prefix(p, n)[j] = p[j]
<1>1. Len(p) \in Nat /\ \A i \in 1..Len(p) : p[i] \in Characters \ {"\\"}
  BY LenProperties, ElementOfSeq DEF Clean
<1>2. Prefix(p, n) = SubSeq(p, 1, n)
  BY <1>1 DEF Prefix
<1>3. /\ SubSeq(p, 1, n) \in Seq(Characters \ {"\\"}) /\ Len(SubSeq(p, 1, n)) = n
      /\ \A j \in 1..n : SubSeq(p, 1, n)[j] = p[j]
  <2>1. \A i \in 1..n : p[i] \in Characters \ {"\\"}
    BY <1>1
  <2>2. /\ SubSeq(p, 1, n) \in Seq(Characters \ {"\\"})
        /\ Len(SubSeq(p, 1, n)) = IF 1 <= n THEN n - 1 + 1 ELSE 0
        /\ \A j \in 1..(n - 1 + 1) : SubSeq(p, 1, n)[j] = p[1 + j - 1]
    BY <1>1, <2>1, SubSeqProperties
  <2>3. QED
    BY <2>2
<1>4. QED
  BY <1>2, <1>3 DEF Clean

LEMMA RestProperties ==
    ASSUME NEW p \in Clean, NEW n \in 1..(Len(p) + 1)
    PROVE  /\ SubSeq(p, n, Len(p)) \in Clean /\ Len(SubSeq(p, n, Len(p))) = Len(p) + 1 - n
           /\ \A j \in 1..(Len(p) + 1 - n) : SubSeq(p, n, Len(p))[j] = p[n + j - 1]
<1>1. Len(p) \in Nat /\ \A i \in 1..Len(p) : p[i] \in Characters \ {"\\"}
  BY LenProperties, ElementOfSeq DEF Clean
<1>2. \A i \in n..Len(p) : p[i] \in Characters \ {"\\"}
  BY <1>1
<1>3. /\ SubSeq(p, n, Len(p)) \in Seq(Characters \ {"\\"})
      /\ Len(SubSeq(p, n, Len(p))) = IF n <= Len(p) THEN Len(p) - n + 1 ELSE 0
      /\ \A j \in 1..(Len(p) - n + 1) : SubSeq(p, n, Len(p))[j] = p[n + j - 1]
  BY <1>1, <1>2, SubSeqProperties
<1>4. QED
  BY <1>1, <1>3 DEF Clean

\* Two sequences with the same elements.
LEMMA SamePath ==
    ASSUME NEW p \in Clean, NEW q \in Clean, Len(p) = Len(q), \A i \in 1..Len(p) : p[i] = q[i]
    PROVE  p = q
BY SeqEqual DEF Clean

LEMMA ConcatPath ==
    ASSUME NEW p \in Clean, NEW q \in Clean
    PROVE  /\ p \o q \in Clean /\ Len(p \o q) = Len(p) + Len(q)
           /\ \A i \in 1..(Len(p) + Len(q)) :
                (p \o q)[i] = IF i <= Len(p) THEN p[i] ELSE q[i - Len(p)]
BY ConcatProperties DEF Clean

LEMMA LenPath == ASSUME NEW p \in Clean PROVE Len(p) \in Nat /\ \A i \in 1..Len(p) : p[i] \in Characters \ {"\\"}
BY LenProperties, ElementOfSeq DEF Clean

LEMMA CutProperties ==
    ASSUME NEW p \in Clean, NEW i \in 1..Len(p), NEW k \in 0..(Len(p) - i + 1)
    PROVE  /\ Cut(p, i, k) \in Clean /\ Len(Cut(p, i, k)) = Len(p) - k
           /\ \A j \in 1..(Len(p) - k) : Cut(p, i, k)[j] = IF j < i THEN p[j] ELSE p[j + k]
<1>1. Len(p) \in Nat /\ i - 1 \in 0..Len(p) /\ i + k \in 1..(Len(p) + 1)
  BY LenPath
<1> DEFINE head == Prefix(p, i - 1)
           tail == SubSeq(p, i + k, Len(p))
<1>2. /\ head \in Clean /\ Len(head) = i - 1 /\ \A j \in 1..(i - 1) : head[j] = p[j]
  BY <1>1, PrefixProperties
<1>3. /\ tail \in Clean /\ Len(tail) = Len(p) + 1 - (i + k)
      /\ \A j \in 1..(Len(p) + 1 - (i + k)) : tail[j] = p[i + k + j - 1]
  BY <1>1, RestProperties
<1>4. Cut(p, i, k) = head \o tail
  BY DEF Cut
<1> HIDE DEF head, tail
<1>5. /\ head \o tail \in Clean /\ Len(head \o tail) = Len(p) - k
      /\ \A j \in 1..(Len(p) - k) : (head \o tail)[j] = IF j <= i - 1 THEN head[j] ELSE tail[j - (i - 1)]
  <2>1. Len(head) + Len(tail) = Len(p) - k
    BY <1>1, <1>2, <1>3
  <2>2. QED
    BY <1>2, <1>3, <2>1, ConcatPath
<1>6. ASSUME NEW j \in 1..(Len(p) - k) PROVE Cut(p, i, k)[j] = IF j < i THEN p[j] ELSE p[j + k]
  <2>1. CASE j < i
    <3>1. j \in 1..(i - 1)
      BY <1>1, <2>1
    <3>2. QED
      BY <1>2, <1>4, <1>5, <2>1, <3>1
  <2>2. CASE ~(j < i)
    <3>1. /\ j - (i - 1) \in 1..(Len(p) + 1 - (i + k)) /\ ~(j <= i - 1)
          /\ i + k + (j - (i - 1)) - 1 = j + k
      BY <1>1, <2>2
    <3>2. QED
      BY <1>3, <1>4, <1>5, <2>2, <3>1
  <2>3. QED
    BY <2>1, <2>2
<1>7. QED
  BY <1>4, <1>5, <1>6

----------------------------------------------------------------------------
(* Loops.                                                                  *)

\* What a turn keeps, the loop keeps; and no further turn would change what it
\* ends with.
LEMMA RepeatProperties ==
    ASSUME NEW S \in SUBSET Clean, NEW p \in S, NEW turn,
           \A q \in S : turn[q] \in S /\ (turn[q] = q \/ Len(turn[q]) < Len(q))
    PROVE  Repeat(turn, p) \in S /\ turn[Repeat(turn, p)] = Repeat(turn, p)
<1> DEFINE n == Len(p)
           step == [x \in S \X (1..n) |-> turn[x[1]]]
<1>1. n \in Nat /\ \A q \in S : Len(q) \in Nat
  BY LenPath
<1>2. step \in Steps(S, n)
  <2> HIDE DEF n
  <2>1. QED
    BY DEF Steps
<1>3. PICK f \in [0..n -> S] : f[0] = p /\ \A i \in 1..n : f[i] = step[<<f[i-1], i>>]
  <2> HIDE DEF n, step
  <2>1. Defined(S, n, p, step) # {}
    BY <1>1, <1>2, BoundedRecursion
  <2>2. QED
    BY <2>1 DEF Defined
<1>4. \A i \in 1..n : f[i] = turn[f[i-1]]
  <2> HIDE DEF n
  <2>1. \A i \in 1..n : f[i-1] \in S
    BY <1>1, <1>3
  <2>2. QED
    BY <1>1, <1>3, <2>1
<1>5. f = [i \in 0..n |-> IF i = 0 THEN p ELSE turn[f[i-1]]]
  <2> HIDE DEF n
  <2>1. QED
    BY <1>1, <1>3, <1>4
<1> DEFINE g == CHOOSE a : a = [i \in 0..n |-> IF i = 0 THEN p ELSE turn[a[i-1]]]
<1>6. g = [i \in 0..n |-> IF i = 0 THEN p ELSE turn[g[i-1]]]
  BY <1>5, Zenon
<1>7. Repeat(turn, p) = g[n]
  BY Zenon DEF Repeat
<1> HIDE DEF n, step, g
<1>8. g[0] = p /\ \A i \in 1..n : g[i] = turn[g[i-1]]
  <2>1. \A i \in 0..n : g[i] = IF i = 0 THEN p ELSE turn[g[i-1]]
    BY <1>6, Zenon
  <2>2. QED
    BY <1>1, <2>1
<1> DEFINE Rests(q) == turn[q] = q
           T == {i \in 0..n : g[i] \in S /\ (Rests(g[i]) \/ Len(g[i]) <= n - i)}
<1>9. 0 \in T
  BY <1>1, <1>8 DEF n
<1>10. ASSUME NEW i \in 1..n, i - 1 \in T PROVE i \in T
  <2>1. /\ g[i] = turn[g[i-1]] /\ g[i-1] \in S /\ g[i] \in S
        /\ Rests(g[i-1]) \/ Len(g[i]) < Len(g[i-1])
    BY <1>8, <1>10
  <2>2. CASE Rests(g[i-1])
    BY <2>1, <2>2
  <2>3. CASE ~Rests(g[i-1])
    <3>1. Len(g[i-1]) <= n - (i - 1) /\ Len(g[i]) < Len(g[i-1])
      BY <1>10, <2>1, <2>3
    <3>2. Len(g[i]) <= n - i
      BY <1>1, <2>1, <3>1
    <3>3. QED
      BY <2>1, <3>2
  <2>4. QED
    BY <2>2, <2>3
<1>11. n \in T
  <2> HIDE DEF T
  <2>1. \A i \in 0..n : i \in T
    BY <1>1, <1>9, <1>10, BoundedInduction
  <2>2. QED
    BY <1>1, <2>1
<1>12. g[n] \in S /\ (Rests(g[n]) \/ Len(g[n]) <= 0)
  BY <1>1, <1>11
<1>13. Rests(g[n])
  BY <1>1, <1>12
<1>14. QED
  BY <1>7, <1>12, <1>13

----------------------------------------------------------------------------
(* Places in a path.                                                       *)

\* The least and the greatest of some numbers.
LEMMA FirstProperties ==
    ASSUME NEW S \in SUBSET Nat, S # {} PROVE First(S) \in S /\ \A k \in S : First(S) <= k
<1>1. PICK x \in S : \A y \in S : ~(<<y, x>> \in Less)
  BY LessWellFounded, WFMin
<1>2. \A k \in S : x <= k
  <2> SUFFICES ASSUME NEW k \in S PROVE x <= k
    OBVIOUS
  <2>1. k \in Nat /\ x \in Nat /\ <<k, x>> \notin Less
    BY <1>1
  <2>2. <<k, x>> \in Less <=> k < x
    BY <2>1 DEF Less
  <2>3. QED
    BY <2>1, <2>2
<1>3. First(S) = CHOOSE j \in S : \A k \in S : j <= k
  BY DEF First
<1>4. QED
  BY <1>2, <1>3

LEMMA LastProperties ==
    ASSUME NEW n \in Nat, NEW S \in SUBSET (0..n), S # {}
    PROVE  Last(S) \in S /\ \A k \in S : Last(S) >= k
<1> DEFINE T == {n - j : j \in S}
<1>1. T \in SUBSET Nat /\ T # {}
  <2>1. PICK j : j \in S
    OBVIOUS
  <2>2. n - j \in T
    BY <2>1
  <2>3. \A k \in S : n - k \in Nat
    OBVIOUS
  <2>4. QED
    BY <2>2, <2>3
<1>2. PICK x \in T : \A y \in T : ~(<<y, x>> \in Less)
  <2> HIDE DEF T
  <2>1. QED
    BY <1>1, LessWellFounded, WFMin
<1>3. PICK j \in S : x = n - j
  BY <1>2
<1>4. \A k \in S : j >= k
  <2> SUFFICES ASSUME NEW k \in S PROVE j >= k
    OBVIOUS
  <2>1. n - k \in T /\ k \in Int /\ j \in Int /\ n \in Int
    OBVIOUS
  <2>2. n - k \in Nat /\ n - j \in Nat /\ <<n - k, n - j>> \notin Less
    BY <1>1, <1>2, <1>3, <2>1
  <2> HIDE DEF T
  <2>3. ~(n - k < n - j)
    BY <2>2 DEF Less
  <2>4. QED
    BY <2>1, <2>3
<1>5. Last(S) = CHOOSE i \in S : \A k \in S : i >= k
  BY DEF Last
<1>6. QED
  BY <1>4, <1>5

\* What At says of two and of three characters.
LEMMA AtTwo ==
    ASSUME NEW p, NEW i \in Nat, NEW a, NEW b
    PROVE  At(p, i, <<a, b>>) <=> i + 1 <= Len(p) /\ p[i] = a /\ p[i+1] = b
<1> DEFINE s == <<a, b>>
<1>1. Len(s) = 2 /\ s[1] = a /\ s[2] = b /\ i + 2 - 1 = i + 1
  OBVIOUS
<1> HIDE DEF s
<1>2. At(p, i, s) <=> i + 1 <= Len(p) /\ \A k \in 1..2 : p[i + k - 1] = s[k]
  BY <1>1 DEF At
<1>3. (\A k \in 1..2 : p[i + k - 1] = s[k]) <=> p[i] = s[1] /\ p[i+1] = s[2]
  <2>1. \A k \in 1..2 : k = 1 \/ k = 2
    OBVIOUS
  <2>2. i + 1 - 1 = i /\ i + 2 - 1 = i + 1 /\ 1 \in 1..2 /\ 2 \in 1..2
    OBVIOUS
  <2>3. QED
    BY <2>1, <2>2
<1>4. QED
  BY <1>1, <1>2, <1>3 DEF s

LEMMA AtThree ==
    ASSUME NEW p, NEW i \in Nat, NEW a, NEW b, NEW c
    PROVE  At(p, i, <<a, b, c>>) <=> i + 2 <= Len(p) /\ p[i] = a /\ p[i+1] = b /\ p[i+2] = c
<1> DEFINE s == <<a, b, c>>
<1>1. Len(s) = 3 /\ s[1] = a /\ s[2] = b /\ s[3] = c /\ i + 3 - 1 = i + 2
  OBVIOUS
<1> HIDE DEF s
<1>2. At(p, i, s) <=> i + 2 <= Len(p) /\ \A k \in 1..3 : p[i + k - 1] = s[k]
  BY <1>1 DEF At
<1>3. (\A k \in 1..3 : p[i + k - 1] = s[k]) <=> p[i] = s[1] /\ p[i+1] = s[2] /\ p[i+2] = s[3]
  <2>1. \A k \in 1..3 : k = 1 \/ k = 2 \/ k = 3
    OBVIOUS
  <2>2. /\ i + 1 - 1 = i /\ i + 2 - 1 = i + 1 /\ i + 3 - 1 = i + 2
        /\ 1 \in 1..3 /\ 2 \in 1..3 /\ 3 \in 1..3
    OBVIOUS
  <2>3. QED
    BY <2>1, <2>2
<1>4. QED
  BY <1>1, <1>2, <1>3 DEF s

\* strstr finds a place, or there is none.
LEMMA strstrProperties ==
    ASSUME NEW p \in Clean, NEW s
    PROVE  /\ strstr(p, s) # 0 => strstr(p, s) \in 1..Len(p) /\ At(p, strstr(p, s), s)
           /\ strstr(p, s) = 0 => \A i \in 1..Len(p) : ~At(p, i, s)
<1> DEFINE places == {i \in 1..Len(p) : At(p, i, s)}
<1>1. places \in SUBSET Nat /\ 0 \notin places
  BY LenPath
<1>2. strstr(p, s) = First(places)
  BY DEF strstr
<1>3. CASE places = {}
  <2>1. strstr(p, s) = 0
    BY <1>2, <1>3 DEF First
  <2>2. QED
    BY <1>3, <2>1
<1>4. CASE places # {}
  <2> HIDE DEF places
  <2>1. strstr(p, s) \in places
    BY <1>1, <1>2, <1>4, FirstProperties
  <2>2. strstr(p, s) # 0
    BY <1>1, <2>1
  <2>3. QED
    BY <2>1, <2>2 DEF places
<1>5. QED
  BY <1>3, <1>4

----------------------------------------------------------------------------
(* What is kept when a slash and all that follows up to the next is cut.   *)

\* A path from the root.
Rooted(p) == Len(p) >= 1 /\ p[1] = "/"

\* No "//", no "/./" and no "/." at the end.
NoDouble(p) == \A i \in 1..Len(p) : ~(i + 1 <= Len(p) /\ p[i] = "/" /\ p[i+1] = "/")
NoDot(p) == \A i \in 1..Len(p) : ~(i + 2 <= Len(p) /\ p[i] = "/" /\ p[i+1] = "." /\ p[i+2] = "/")
NoDotEnd(p) == ~(Len(p) >= 2 /\ p[Len(p) - 1] = "/" /\ p[Len(p)] = ".")

LEMMA CutBetween ==
    ASSUME NEW p \in Clean, NEW i \in 1..Len(p), NEW k \in 1..(Len(p) - i), p[i] = "/", p[i + k] = "/"
    PROVE  LET q == Cut(p, i, k) IN
           /\ q \in Clean /\ Len(q) = Len(p) - k
           /\ \A j \in 1..Len(q) : q[j] = IF j <= i THEN p[j] ELSE p[j + k]
           /\ Rooted(p) => Rooted(q)
           /\ NoDouble(p) => NoDouble(q)
           /\ NoDot(p) => NoDot(q)
           /\ NoDotEnd(p) => NoDotEnd(q)
<1> DEFINE q == Cut(p, i, k)
<1>1. Len(p) \in Nat /\ k \in 0..(Len(p) - i + 1)
  BY LenPath
<1>2. q \in Clean /\ Len(q) = Len(p) - k
  BY <1>1, CutProperties
<1>3. \A j \in 1..(Len(p) - k) : q[j] = IF j < i THEN p[j] ELSE p[j + k]
  BY <1>1, CutProperties
<1> HIDE DEF q
<1>4. \A j \in 1..Len(q) : q[j] = IF j <= i THEN p[j] ELSE p[j + k]
  BY <1>1, <1>2, <1>3
<1>5. /\ Len(q) \in Nat /\ i <= Len(q) /\ q[i] = "/"
      /\ \A j \in 1..i : q[j] = p[j]
      /\ \A j \in i..Len(q) : q[j] = p[j + k]
  BY <1>1, <1>2, <1>3, <1>4
<1>6. Rooted(p) => Rooted(q)
  BY <1>1, <1>5 DEF Rooted
<1>7. ASSUME NoDouble(p) PROVE NoDouble(q)
  <2> SUFFICES ASSUME NEW j \in 1..Len(q), j + 1 <= Len(q), q[j] = "/", q[j+1] = "/" PROVE FALSE
    BY DEF NoDouble
  <2>1. CASE j + 1 <= i
    <3>1. j \in 1..i /\ j + 1 \in 1..i /\ j \in 1..Len(p) /\ j + 1 <= Len(p)
      BY <1>1, <1>2, <1>5, <2>1
    <3>2. p[j] = "/" /\ p[j+1] = "/"
      BY <1>5, <3>1
    <3>3. QED
      BY <1>7, <3>1, <3>2 DEF NoDouble
  <2>2. CASE i <= j
    <3>1. /\ j \in i..Len(q) /\ j + 1 \in i..Len(q) /\ (j + 1) + k = (j + k) + 1
          /\ j + k \in 1..Len(p) /\ (j + k) + 1 <= Len(p)
      BY <1>1, <1>2, <1>5, <2>2
    <3>2. p[j + k] = "/" /\ p[(j + k) + 1] = "/"
      BY <1>5, <3>1
    <3>3. QED
      BY <1>7, <3>1, <3>2 DEF NoDouble
  <2>3. QED
    BY <2>1, <2>2
<1>8. ASSUME NoDot(p) PROVE NoDot(q)
  <2> SUFFICES ASSUME NEW j \in 1..Len(q), j + 2 <= Len(q), q[j] = "/", q[j+1] = ".", q[j+2] = "/"
               PROVE  FALSE
    BY DEF NoDot
  <2>1. CASE j + 2 <= i
    <3>1. /\ j \in 1..i /\ j + 1 \in 1..i /\ j + 2 \in 1..i
          /\ j \in 1..Len(p) /\ j + 2 <= Len(p)
      BY <1>1, <1>2, <1>5, <2>1
    <3>2. p[j] = "/" /\ p[j+1] = "." /\ p[j+2] = "/"
      BY <1>5, <3>1
    <3>3. QED
      BY <1>8, <3>1, <3>2 DEF NoDot
  <2>2. CASE i <= j
    <3>1. /\ j \in i..Len(q) /\ j + 1 \in i..Len(q) /\ j + 2 \in i..Len(q)
          /\ (j + 1) + k = (j + k) + 1 /\ (j + 2) + k = (j + k) + 2
          /\ j + k \in 1..Len(p) /\ (j + k) + 2 <= Len(p)
      BY <1>1, <1>2, <1>5, <2>2
    <3>2. p[j + k] = "/" /\ p[(j + k) + 1] = "." /\ p[(j + k) + 2] = "/"
      BY <1>5, <3>1
    <3>3. QED
      BY <1>8, <3>1, <3>2 DEF NoDot
  <2>3. CASE i = j + 1
    BY <1>5, <2>3
  <2>4. QED
    BY <2>1, <2>2, <2>3
<1>9. ASSUME NoDotEnd(p) PROVE NoDotEnd(q)
  <2> SUFFICES ASSUME Len(q) >= 2, q[Len(q) - 1] = "/", q[Len(q)] = "." PROVE FALSE
    BY DEF NoDotEnd
  <2>1. CASE i <= Len(q) - 1
    <3>1. /\ Len(q) - 1 \in i..Len(q) /\ Len(q) \in i..Len(q) /\ Len(p) >= 2
          /\ Len(q) + k = Len(p) /\ (Len(q) - 1) + k = Len(p) - 1
      BY <1>1, <1>2, <1>5, <2>1
    <3>2. q[Len(q) - 1] = p[(Len(q) - 1) + k] /\ q[Len(q)] = p[Len(q) + k]
      BY <1>5, <3>1
    <3>3. p[Len(p) - 1] = "/" /\ p[Len(p)] = "."
      BY <3>1, <3>2
    <3>4. QED
      BY <1>9, <3>1, <3>3 DEF NoDotEnd
  <2>2. CASE i = Len(q)
    BY <1>5, <2>2
  <2>3. QED
    BY <1>5, <2>1, <2>2
<1>10. QED
  BY <1>2, <1>4, <1>6, <1>7, <1>8, <1>9 DEF q

----------------------------------------------------------------------------
(* What a path means.                                                      *)

Root == [place |-> <<>>, name |-> <<>>]
Means(p) == Walk(<<>>, p)

\* What a reading comes to when the path ends.
Ends(reading) == Step(reading.place, reading.name)

LEMMA MeansType ==
    /\ Root \in Readings
    /\ \A p \in Clean : Means(p) = Ends(ReadAll(Root, p)) /\ Means(p) \in Places
<1>1. Root \in Readings
  BY NameTypes DEF Root, Readings
<1>2. ASSUME NEW p \in Clean PROVE Means(p) = Ends(ReadAll(Root, p)) /\ Means(p) \in Places
  <2>1. Means(p) = Ends(ReadAll(Root, p))
    BY DEF Means, Walk, Ends, Root
  <2>2. ReadAll(Root, p) \in Readings
    BY <1>1, ReadAllType
  <2>3. QED
    BY <2>1, <2>2, StepType DEF Ends, Readings
<1>3. QED
  BY <1>1, <1>2

\* A path is what is before a place, and what follows.
LEMMA Halves ==
    ASSUME NEW p \in Clean, NEW i \in 0..Len(p)
    PROVE  /\ Prefix(p, i) \in Clean /\ SubSeq(p, i + 1, Len(p)) \in Clean
           /\ p = Prefix(p, i) \o SubSeq(p, i + 1, Len(p))
<1>1. Len(p) \in Nat /\ i + 1 \in 1..(Len(p) + 1) /\ 1 \in 1..(Len(p) + 1) /\ i \in (1 - 1)..Len(p) /\ Len(p) \in i..Len(p)
  BY LenPath
<1>2. Prefix(p, i) \in Clean /\ SubSeq(p, i + 1, Len(p)) \in Clean /\ Prefix(p, i) = SubSeq(p, 1, i)
  BY <1>1, PrefixProperties, RestProperties
<1>3. SubSeq(p, 1, i) \o SubSeq(p, i + 1, Len(p)) = SubSeq(p, 1, Len(p))
  BY <1>1, ConcatAdjacentSubSeq DEF Clean
<1>4. SubSeq(p, 1, Len(p)) = p
  BY SubSeqFull DEF Clean
<1>5. QED
  BY <1>2, <1>3, <1>4

\* The last character of a part.
LEMMA PrefixAppend ==
    ASSUME NEW p \in Clean, NEW i \in 1..Len(p)
    PROVE  Prefix(p, i - 1) \in Clean /\ Prefix(p, i) = Append(Prefix(p, i - 1), p[i])
<1>1. Len(p) \in Nat /\ i \in 0..Len(p) /\ i - 1 \in 0..Len(p) /\ p[i] \in Characters \ {"\\"}
  BY LenPath
<1> DEFINE q == Prefix(p, i - 1)
           r == Prefix(p, i)
           t == Append(q, p[i])
<1>2. /\ q \in Clean /\ Len(q) = i - 1 /\ \A j \in 1..(i - 1) : q[j] = p[j]
      /\ r \in Clean /\ Len(r) = i /\ \A j \in 1..i : r[j] = p[j]
  BY <1>1, PrefixProperties
<1> HIDE DEF q, r
<1>3. t \in Clean /\ Len(t) = Len(q) + 1 /\ t[Len(q) + 1] = p[i] /\ \A j \in 1..Len(q) : t[j] = q[j]
  BY <1>1, <1>2, AppendProperties DEF Clean
<1> HIDE DEF t
<1>4. \A j \in 1..i : r[j] = t[j]
  BY <1>1, <1>2, <1>3
<1>5. Len(r) = Len(t)
  BY <1>1, <1>2, <1>3
<1>6. r = t
  BY <1>2, <1>3, <1>4, <1>5, SamePath
<1>7. QED
  BY <1>2, <1>6 DEF q, r, t

\* After a slash a name begins, where the names before have led to.
LEMMA ReadSlash ==
    ASSUME NEW reading \in Readings, NEW p \in Clean
    PROVE  /\ Append(p, "/") \in Clean
           /\ ReadAll(reading, Append(p, "/")) = [place |-> Ends(ReadAll(reading, p)), name |-> <<>>]
<1>1. "/" \in Characters \ {"\\"}
  BY CharactersAssumption
<1>2. QED
  BY <1>1, ReadAppend DEF Read, Ends

LEMMA EndsFresh == ASSUME NEW place PROVE Ends([place |-> place, name |-> <<>>]) = place
BY StepCases DEF Ends

\* A name is read as it is.
LEMMA ReadName ==
    ASSUME NEW place \in Places, NEW name \in Seq(NameCharacters)
    PROVE  ReadAll([place |-> place, name |-> <<>>], name) = [place |-> place, name |-> name]
<1> DEFINE u == [place |-> place, name |-> <<>>]
           Good(r) == ReadAll(u, r) = [place |-> place, name |-> r]
           T == {n \in Nat : \A r \in Seq(NameCharacters) : Len(r) = n => Good(r)}
<1>1. u \in Readings
  BY NameTypes DEF Readings
<1>2. 0 \in T
  <2>1. ASSUME NEW r \in Seq(NameCharacters), Len(r) = 0 PROVE Good(r)
    <3>1. r = <<>>
      BY <2>1, EmptySeq
    <3>2. QED
      BY <1>1, <3>1, ReadNothing
  <2>2. QED
    BY <2>1
<1>3. ASSUME NEW n \in Nat, n \in T PROVE n + 1 \in T
  <2>1. ASSUME NEW r \in Seq(NameCharacters), Len(r) = n + 1 PROVE Good(r)
    <3>1. r # <<>>
      BY <1>3, <2>1, EmptySeq
    <3>2. PICK s \in Seq(NameCharacters), c \in NameCharacters : r = Append(s, c)
      BY <3>1, SequenceEmptyOrAppend
    <3>3. Len(s) = n
      <4>1. Len(s) \in Nat /\ Len(r) = Len(s) + 1
        BY <3>2, AppendProperties, LenProperties
      <4>2. QED
        BY <2>1, <4>1
    <3>4. Good(s)
      BY <1>3, <3>3
    <3>5. s \in Clean /\ c \in Characters \ {"\\"} /\ c # "/"
      BY NameTypes DEF NameCharacters
    <3>6. ReadAll(u, r) = Read(ReadAll(u, s), c)
      BY <1>1, <3>2, <3>5, ReadAppend
    <3>7. Read([place |-> place, name |-> s], c) = [place |-> place, name |-> Append(s, c)]
      BY <3>5 DEF Read
    <3>8. QED
      BY <3>2, <3>4, <3>6, <3>7
  <2>2. QED
    BY <2>1
<1>4. \A n \in Nat : n \in T
  <2> HIDE DEF T
  <2>1. QED
    BY <1>2, <1>3, SetInduction
<1>5. QED
  BY <1>4, LenProperties

\* Cutting what leads back to where it begins does not change the reading.
LEMMA CutReading ==
    ASSUME NEW reading \in Readings, NEW p \in Clean, NEW i \in 1..Len(p), NEW k \in 1..(Len(p) - i),
           p[i] = "/", p[i + k] = "/",
           ReadAll(reading, Prefix(p, i + k)) = ReadAll(reading, Prefix(p, i))
    PROVE  ReadAll(reading, Cut(p, i, k)) = ReadAll(reading, p)
<1>1. Len(p) \in Nat /\ i \in 0..Len(p) /\ i + k \in 0..Len(p)
  BY LenPath
<1> DEFINE q == Cut(p, i, k)
           rest == SubSeq(p, i + k + 1, Len(p))
<1>2. q \in Clean /\ Len(q) = Len(p) - k /\ \A j \in 1..Len(q) : q[j] = IF j <= i THEN p[j] ELSE p[j + k]
  BY CutBetween
<1>3. /\ Prefix(p, i) \in Clean /\ Prefix(p, i + k) \in Clean /\ rest \in Clean
      /\ p = Prefix(p, i + k) \o rest
  BY <1>1, Halves
<1>4. /\ Len(Prefix(p, i)) = i /\ \A j \in 1..i : Prefix(p, i)[j] = p[j]
      /\ Len(rest) = Len(p) - (i + k)
      /\ \A j \in 1..(Len(p) - (i + k)) : rest[j] = p[i + k + j]
  <2>1. i + k + 1 \in 1..(Len(p) + 1)
    BY <1>1
  <2>2. /\ Len(rest) = Len(p) + 1 - (i + k + 1)
        /\ \A j \in 1..(Len(p) + 1 - (i + k + 1)) : rest[j] = p[(i + k + 1) + j - 1]
    BY <2>1, RestProperties
  <2>3. QED
    BY <1>1, <2>2, PrefixProperties
<1> DEFINE head == Prefix(p, i)
<1> HIDE DEF q, rest, head
<1>5. q = head \o rest
  <2>1. head \in Clean /\ Len(head) = i /\ \A j \in 1..i : head[j] = p[j]
    BY <1>3, <1>4 DEF head
  <2>2. /\ head \o rest \in Clean /\ Len(head \o rest) = i + (Len(p) - (i + k))
        /\ \A j \in 1..(i + (Len(p) - (i + k))) :
              (head \o rest)[j] = IF j <= i THEN head[j] ELSE rest[j - i]
    <3>1. Len(head) + Len(rest) = i + (Len(p) - (i + k)) /\ rest \in Clean
      BY <1>3, <1>4, <2>1
    <3>2. /\ head \o rest \in Clean /\ Len(head \o rest) = Len(head) + Len(rest)
          /\ \A j \in 1..(Len(head) + Len(rest)) :
                (head \o rest)[j] = IF j <= Len(head) THEN head[j] ELSE rest[j - Len(head)]
      BY <2>1, <3>1, ConcatPath
    <3>3. QED
      BY <2>1, <3>1, <3>2
  <2>3. Len(q) = Len(head \o rest)
    BY <1>1, <1>2, <2>2
  <2>4. ASSUME NEW j \in 1..Len(q) PROVE q[j] = (head \o rest)[j]
    <3>1. j \in 1..(i + (Len(p) - (i + k)))
      BY <1>1, <1>2
    <3>2. CASE j <= i
      BY <1>2, <2>1, <2>2, <3>1, <3>2
    <3>3. CASE ~(j <= i)
      <4>1. j - i \in 1..(Len(p) - (i + k)) /\ i + k + (j - i) = j + k
        BY <1>1, <3>1, <3>3
      <4>2. QED
        BY <1>2, <1>4, <2>2, <3>1, <3>3, <4>1
    <3>4. QED
      BY <3>2, <3>3
  <2>5. QED
    BY <1>2, <2>2, <2>3, <2>4, SamePath
<1>6. ReadAll(reading, q) = ReadAll(ReadAll(reading, head), rest)
  BY <1>3, <1>5, ReadConcat DEF head
<1>7. ReadAll(reading, p) = ReadAll(ReadAll(reading, Prefix(p, i + k)), rest)
  <2> DEFINE long == Prefix(p, i + k)
  <2>1. long \in Clean /\ rest \in Clean /\ p = long \o rest
    BY <1>3
  <2> HIDE DEF long
  <2>2. ReadAll(reading, long \o rest) = ReadAll(ReadAll(reading, long), rest)
    BY <2>1, ReadConcat
  <2>3. QED
    BY <2>1, <2>2 DEF long
<1>8. QED
  BY <1>6, <1>7 DEF q, head

----------------------------------------------------------------------------
(* "//", "/./" and "/." at the end.                                        *)

\* Once a slash is read, a name begins.
LEMMA AfterSlash ==
    ASSUME NEW p \in Clean, NEW i \in 1..Len(p), p[i] = "/"
    PROVE  \E place \in Places :
              /\ ReadAll(Root, Prefix(p, i)) = [place |-> place, name |-> <<>>]
              /\ place = Ends(ReadAll(Root, Prefix(p, i - 1)))
<1> DEFINE q == Prefix(p, i - 1)
<1>1. q \in Clean /\ Prefix(p, i) = Append(q, "/")
  BY PrefixAppend
<1> HIDE DEF q
<1>2. ReadAll(Root, q) \in Readings /\ Ends(ReadAll(Root, q)) \in Places
  BY <1>1, MeansType, ReadAllType, StepType DEF Ends, Readings
<1>3. ReadAll(Root, Prefix(p, i)) = [place |-> Ends(ReadAll(Root, q)), name |-> <<>>]
  BY <1>1, MeansType, ReadSlash
<1>4. QED
  BY <1>2, <1>3 DEF q

\* What each turn of Squeeze keeps is kept, and it ends without an s.
LEMMA SqueezeProperties ==
    ASSUME NEW s, NEW k, NEW S \in SUBSET Clean, NEW p \in S,
           \A q \in S : strstr(q, s) # 0 =>
               Cut(q, strstr(q, s), k) \in S /\ Len(Cut(q, strstr(q, s), k)) < Len(q)
    PROVE  Squeeze(p, s, k) \in S /\ strstr(Squeeze(p, s, k), s) = 0
<1> DEFINE turn == [q \in Path |-> IF strstr(q, s) = 0 THEN q ELSE Cut(q, strstr(q, s), k)]
<1>1. ASSUME NEW q \in S
      PROVE  /\ turn[q] \in S /\ (turn[q] = q \/ Len(turn[q]) < Len(q))
             /\ turn[q] = q => strstr(q, s) = 0
  <2>1. turn[q] = IF strstr(q, s) = 0 THEN q ELSE Cut(q, strstr(q, s), k)
    BY NameTypes
  <2>2. Len(q) \in Nat
    BY LenPath
  <2> HIDE DEF turn
  <2>3. QED
    BY <2>1, <2>2
<1>2. Squeeze(p, s, k) = Repeat(turn, p)
  BY DEF Squeeze
<1> HIDE DEF turn
<1>3. Repeat(turn, p) \in S /\ turn[Repeat(turn, p)] = Repeat(turn, p)
  BY <1>1, RepeatProperties
<1>4. QED
  BY <1>1, <1>2, <1>3

LEMMA DoubleSlashes ==
    ASSUME NEW p \in Clean, Rooted(p)
    PROVE  LET q == Squeeze(p, <<"/", "/">>, 1) IN
           q \in Clean /\ Rooted(q) /\ NoDouble(q) /\ Means(q) = Means(p)
<1> DEFINE S == {q \in Clean : Rooted(q) /\ ReadAll(Root, q) = ReadAll(Root, p)}
           s == <<"/", "/">>
<1>1. ASSUME NEW q \in S, strstr(q, s) # 0
      PROVE  Cut(q, strstr(q, s), 1) \in S /\ Len(Cut(q, strstr(q, s), 1)) < Len(q)
  <2> DEFINE i == strstr(q, s)
  <2>1. q \in Clean /\ Len(q) \in Nat
    BY LenPath
  <2>2. i \in 1..Len(q) /\ At(q, i, s)
    BY <1>1, <2>1, strstrProperties
  <2> HIDE DEF i
  <2>3. i + 1 <= Len(q) /\ q[i] = "/" /\ q[i+1] = "/"
    BY <2>1, <2>2, AtTwo
  <2>4. 1 \in 1..(Len(q) - i) /\ i + 1 \in 1..Len(q) /\ (i + 1) - 1 = i
    BY <2>1, <2>2, <2>3
  <2>5. PICK a \in Places : ReadAll(Root, Prefix(q, i)) = [place |-> a, name |-> <<>>]
    BY <2>1, <2>2, <2>3, AfterSlash
  <2>6. ReadAll(Root, Prefix(q, i + 1)) = [place |-> Ends(ReadAll(Root, Prefix(q, i))), name |-> <<>>]
    <3>1. \E b \in Places : /\ ReadAll(Root, Prefix(q, i + 1)) = [place |-> b, name |-> <<>>]
                            /\ b = Ends(ReadAll(Root, Prefix(q, (i + 1) - 1)))
      BY <2>1, <2>3, <2>4, AfterSlash
    <3>2. QED
      BY <2>4, <3>1
  <2>7. ReadAll(Root, Prefix(q, i + 1)) = ReadAll(Root, Prefix(q, i))
    BY <2>5, <2>6, EndsFresh
  <2>8. ReadAll(Root, Cut(q, i, 1)) = ReadAll(Root, q)
    BY <2>1, <2>2, <2>3, <2>4, <2>7, CutReading, MeansType
  <2>9. /\ Cut(q, i, 1) \in Clean /\ Len(Cut(q, i, 1)) = Len(q) - 1
        /\ Rooted(q) => Rooted(Cut(q, i, 1))
    BY <2>1, <2>2, <2>3, <2>4, CutBetween
  <2>10. QED
    BY <2>1, <2>8, <2>9 DEF i
<1> DEFINE r == Squeeze(p, s, 1)
<1>2. r \in S /\ strstr(r, s) = 0
  <2>1. S \in SUBSET Clean /\ p \in S
    OBVIOUS
  <2> HIDE DEF S, s
  <2>2. QED
    BY <1>1, <2>1, SqueezeProperties
<1>3. r \in Clean /\ Rooted(r) /\ Means(r) = Means(p)
  BY <1>2, MeansType
<1> HIDE DEF r
<1>4. NoDouble(r)
  <2>1. Len(r) \in Nat /\ \A i \in 1..Len(r) : ~At(r, i, s)
    BY <1>2, <1>3, strstrProperties, LenPath
  <2>2. \A i \in 1..Len(r) : ~(i + 1 <= Len(r) /\ r[i] = "/" /\ r[i+1] = "/")
    BY <2>1, AtTwo
  <2>3. QED
    BY <2>2 DEF NoDouble
<1>5. QED
  BY <1>3, <1>4 DEF r

LEMMA DotsBetween ==
    ASSUME NEW p \in Clean, Rooted(p), NoDouble(p)
    PROVE  LET q == Squeeze(p, <<"/", ".", "/">>, 2) IN
           q \in Clean /\ Rooted(q) /\ NoDouble(q) /\ NoDot(q) /\ Means(q) = Means(p)
<1> DEFINE S == {q \in Clean : Rooted(q) /\ NoDouble(q) /\ ReadAll(Root, q) = ReadAll(Root, p)}
           s == <<"/", ".", "/">>
<1>1. ASSUME NEW q \in S, strstr(q, s) # 0
      PROVE  Cut(q, strstr(q, s), 2) \in S /\ Len(Cut(q, strstr(q, s), 2)) < Len(q)
  <2> DEFINE i == strstr(q, s)
  <2>1. q \in Clean /\ Len(q) \in Nat
    BY LenPath
  <2>2. i \in 1..Len(q) /\ At(q, i, s)
    BY <1>1, <2>1, strstrProperties
  <2> HIDE DEF i
  <2>3. i + 2 <= Len(q) /\ q[i] = "/" /\ q[i+1] = "." /\ q[i+2] = "/"
    <3>1. i \in Nat /\ At(q, i, <<"/", ".", "/">>)
      BY <2>1, <2>2
    <3>2. QED
      BY <3>1, AtThree
  <2>4. /\ 2 \in 1..(Len(q) - i) /\ i + 1 \in 1..Len(q) /\ (i + 1) - 1 = i
        /\ i + 2 \in 1..Len(q) /\ (i + 2) - 1 = i + 1
    BY <2>1, <2>2, <2>3
  <2>5. PICK a \in Places : ReadAll(Root, Prefix(q, i)) = [place |-> a, name |-> <<>>]
    BY <2>1, <2>2, <2>3, AfterSlash
  <2>6. ReadAll(Root, Prefix(q, i + 1)) = [place |-> a, name |-> Dot]
    <3>1. Prefix(q, i) \in Clean /\ Prefix(q, i + 1) = Append(Prefix(q, i), ".")
      BY <2>1, <2>3, <2>4, PrefixAppend
    <3>2. ReadAll(Root, Prefix(q, i + 1)) = Read(ReadAll(Root, Prefix(q, i)), ".")
      <4>1. "." \in Characters \ {"\\"}
        BY CharactersAssumption
      <4>2. ReadAll(Root, Append(Prefix(q, i), ".")) = Read(ReadAll(Root, Prefix(q, i)), ".")
        <5>1. Prefix(q, i) \in Clean /\ Root \in Readings
          BY <3>1, MeansType
        <5>2. QED
          BY <4>1, <5>1, ReadAppend
      <4>3. QED
        BY <3>1, <4>2
    <3>3. Append(<<>>, ".") = Dot
      BY DEF Dot
    <3>4. QED
      BY <2>5, <3>2, <3>3 DEF Read
  <2>7. ReadAll(Root, Prefix(q, i + 2)) = [place |-> a, name |-> <<>>]
    <3>1. \E b \in Places : /\ ReadAll(Root, Prefix(q, i + 2)) = [place |-> b, name |-> <<>>]
                            /\ b = Ends(ReadAll(Root, Prefix(q, (i + 2) - 1)))
      BY <2>1, <2>3, <2>4, AfterSlash
    <3>2. Ends([place |-> a, name |-> Dot]) = a
      BY StepCases DEF Ends
    <3>3. QED
      BY <2>4, <2>6, <3>1, <3>2
  <2>8. ReadAll(Root, Cut(q, i, 2)) = ReadAll(Root, q)
    BY <2>1, <2>2, <2>3, <2>4, <2>5, <2>7, CutReading, MeansType
  <2>9. /\ Cut(q, i, 2) \in Clean /\ Len(Cut(q, i, 2)) = Len(q) - 2
        /\ Rooted(q) => Rooted(Cut(q, i, 2))
        /\ NoDouble(q) => NoDouble(Cut(q, i, 2))
    BY <2>1, <2>2, <2>3, <2>4, CutBetween
  <2>10. QED
    BY <2>1, <2>8, <2>9 DEF i
<1> DEFINE r == Squeeze(p, s, 2)
<1>2. r \in S /\ strstr(r, s) = 0
  <2>1. S \in SUBSET Clean /\ p \in S
    OBVIOUS
  <2> HIDE DEF S, s
  <2>2. QED
    BY <1>1, <2>1, SqueezeProperties
<1>3. r \in Clean /\ Rooted(r) /\ NoDouble(r) /\ Means(r) = Means(p)
  BY <1>2, MeansType
<1> HIDE DEF r
<1>4. NoDot(r)
  <2>1. Len(r) \in Nat /\ \A i \in 1..Len(r) : ~At(r, i, s)
    BY <1>2, <1>3, strstrProperties, LenPath
  <2>2. \A i \in 1..Len(r) : ~(i + 2 <= Len(r) /\ r[i] = "/" /\ r[i+1] = "." /\ r[i+2] = "/")
    BY <2>1, AtThree
  <2>3. QED
    BY <2>2 DEF NoDot
<1>5. QED
  BY <1>3, <1>4 DEF r

Tidy(p) == Rooted(p) /\ NoDouble(p) /\ NoDot(p) /\ NoDotEnd(p)

LEMMA PrefixKeeps ==
    ASSUME NEW p \in Clean, NEW n \in 1..Len(p)
    PROVE  /\ Rooted(p) => Rooted(Prefix(p, n))
           /\ NoDouble(p) => NoDouble(Prefix(p, n))
           /\ NoDot(p) => NoDot(Prefix(p, n))
<1> DEFINE q == Prefix(p, n)
<1>1. Len(p) \in Nat /\ n \in 0..Len(p)
  BY LenPath
<1>2. Len(q) = n /\ \A j \in 1..n : q[j] = p[j]
  BY <1>1, PrefixProperties
<1> HIDE DEF q
<1>3. Rooted(p) => Rooted(q)
  BY <1>1, <1>2 DEF Rooted
<1>4. NoDouble(p) => NoDouble(q)
  BY <1>1, <1>2 DEF NoDouble
<1>5. NoDot(p) => NoDot(q)
  BY <1>1, <1>2 DEF NoDot
<1>6. QED
  BY <1>3, <1>4, <1>5 DEF q

LEMMA PrefixAll == ASSUME NEW p \in Clean PROVE Prefix(p, Len(p)) = p
<1>1. Prefix(p, Len(p)) = SubSeq(p, 1, Len(p))
  BY LenPath, PrefixProperties
<1>2. QED
  BY <1>1, SubSeqFull DEF Clean

\* Up to the next slash, what follows a slash is the name that is read.
LEMMA NameAfterSlash ==
    ASSUME NEW p \in Clean, NEW i \in 1..Len(p), NEW j \in i..Len(p), NEW place \in Places,
           ReadAll(Root, Prefix(p, i)) = [place |-> place, name |-> <<>>],
           \A k \in (i + 1)..j : p[k] # "/"
    PROVE  LET name == SubSeq(p, i + 1, j) IN
           /\ name \in Seq(NameCharacters) /\ Len(name) = j - i
           /\ \A k \in 1..(j - i) : name[k] = p[i + k]
           /\ ReadAll(Root, Prefix(p, j)) = [place |-> place, name |-> name]
<1> DEFINE name == SubSeq(p, i + 1, j)
<1>1. /\ Len(p) \in Nat /\ i \in 0..Len(p) /\ j \in 0..Len(p)
      /\ \A k \in 1..Len(p) : p[k] \in Characters \ {"\\"}
  BY LenPath
<1>2. \A k \in (i + 1)..j : p[k] \in NameCharacters
  BY <1>1 DEF NameCharacters
<1>3. name \in Seq(NameCharacters) /\ Len(name) = j - i /\ \A k \in 1..(j - i) : name[k] = p[i + k]
  <2>1. /\ name \in Seq(NameCharacters)
        /\ Len(name) = IF i + 1 <= j THEN j - (i + 1) + 1 ELSE 0
        /\ \A k \in 1..(j - (i + 1) + 1) : name[k] = p[i + 1 + k - 1]
    BY <1>1, <1>2, SubSeqProperties
  <2> HIDE DEF name
  <2>2. QED
    BY <1>1, <2>1
<1>4. Prefix(p, j) = Prefix(p, i) \o name /\ Prefix(p, i) \in Clean
  <2>1. SubSeq(p, 1, i) \o SubSeq(p, i + 1, j) = SubSeq(p, 1, j)
    <3>1. 1 \in 1..(Len(p) + 1) /\ i \in (1 - 1)..Len(p) /\ j \in i..Len(p)
      BY <1>1
    <3>2. QED
      BY <3>1, ConcatAdjacentSubSeq DEF Clean
  <2>2. Prefix(p, j) = SubSeq(p, 1, j) /\ Prefix(p, i) = SubSeq(p, 1, i) /\ Prefix(p, i) \in Clean
    BY <1>1, PrefixProperties
  <2>3. QED
    BY <2>1, <2>2
<1> DEFINE head == Prefix(p, i)
<1> HIDE DEF name, head
<1>5. name \in Clean /\ head \in Clean /\ Root \in Readings
  BY <1>3, <1>4, NameTypes, MeansType DEF head
<1>6. ReadAll(Root, head \o name) = ReadAll(ReadAll(Root, head), name)
  BY <1>5, ReadConcat
<1>7. ReadAll([place |-> place, name |-> <<>>], name) = [place |-> place, name |-> name]
  BY <1>3, ReadName
<1>8. ReadAll(Root, Prefix(p, j)) = [place |-> place, name |-> name]
  BY <1>4, <1>6, <1>7 DEF head
<1>9. QED
  BY <1>3, <1>8 DEF name

LEMMA DotAtEnd ==
    ASSUME NEW p \in Clean, Rooted(p), NoDouble(p), NoDot(p)
    PROVE  LET q == TrailingDot(p) IN q \in Clean /\ Tidy(q) /\ Means(q) = Means(p)
<1>1. Len(p) \in Nat
  BY LenPath
<1>2. EndsWith(p, <<"/", ".">>) <=> Len(p) >= 2 /\ p[Len(p) - 1] = "/" /\ p[Len(p)] = "."
  <2>1. Len(<<"/", ".">>) = 2
    OBVIOUS
  <2>2. EndsWith(p, <<"/", ".">>) <=> 2 <= Len(p) /\ At(p, Len(p) - 1, <<"/", ".">>)
    <3>1. Len(p) - 2 + 1 = Len(p) - 1
      BY <1>1
    <3>2. QED
      BY <2>1, <3>1 DEF EndsWith
  <2>3. 2 <= Len(p) => Len(p) - 1 \in Nat /\ Len(p) - 1 + 1 = Len(p)
    BY <1>1
  <2>4. 2 <= Len(p) => (At(p, Len(p) - 1, <<"/", ".">>) <=> p[Len(p) - 1] = "/" /\ p[Len(p)] = ".")
    BY <1>1, <2>3, AtTwo
  <2>5. QED
    BY <1>1, <2>2, <2>4
<1>3. CASE EndsWith(p, <<"/", ".">>)
  <2> DEFINE i == Len(p) - 1
             q == Prefix(p, i)
  <2>1. TrailingDot(p) = q
    BY <1>3 DEF TrailingDot
  <2>2. i \in 1..Len(p) /\ i \in 0..Len(p) /\ p[i] = "/" /\ p[i+1] = "." /\ i + 1 = Len(p)
    BY <1>1, <1>2, <1>3
  <2> HIDE DEF i
  <2>3. q \in Clean /\ Len(q) = i /\ q[i] = "/"
    <3>1. i \in 1..i
      BY <2>2
    <3>2. QED
      BY <2>2, <3>1, PrefixProperties
  <2>4. Rooted(q) /\ NoDouble(q) /\ NoDot(q)
    BY <2>2, PrefixKeeps
  <2>5. NoDotEnd(q)
    BY <2>3 DEF NoDotEnd
  <2>6. PICK a \in Places : ReadAll(Root, q) = [place |-> a, name |-> <<>>]
    BY <2>2, AfterSlash
  <2>7. Means(q) = a
    BY <2>3, <2>6, MeansType, EndsFresh
  <2>8. ReadAll(Root, p) = [place |-> a, name |-> Dot]
    <3> DEFINE j == i + 1
               n == SubSeq(p, i + 1, j)
    <3>1. j \in i..Len(p) /\ j \in 1..Len(p) /\ j - i = 1 /\ \A k \in (i + 1)..j : p[k] # "/"
      BY <1>1, <2>2
    <3> HIDE DEF j
    <3>2. /\ n \in Seq(NameCharacters) /\ Len(n) = j - i /\ \A k \in 1..(j - i) : n[k] = p[i + k]
          /\ ReadAll(Root, Prefix(p, j)) = [place |-> a, name |-> n]
      BY <2>2, <2>6, <3>1, NameAfterSlash
    <3> HIDE DEF n
    <3>3. Len(n) = 1 /\ n[1] = "." /\ Len(Dot) = 1 /\ Dot[1] = "."
      BY <2>2, <3>1, <3>2 DEF Dot
    <3>4. n = Dot
      BY <3>2, <3>3, NameTypes, SamePath
    <3>5. Prefix(p, j) = p
      BY <2>2, PrefixAll DEF j
    <3>6. QED
      BY <3>2, <3>4, <3>5
  <2>9. Means(p) = a
    BY <2>8, MeansType, StepCases DEF Ends
  <2>10. QED
    BY <2>1, <2>3, <2>4, <2>5, <2>7, <2>9 DEF Tidy
<1>4. CASE ~EndsWith(p, <<"/", ".">>)
  <2>1. TrailingDot(p) = p
    BY <1>4 DEF TrailingDot
  <2>2. NoDotEnd(p)
    BY <1>2, <1>4 DEF NoDotEnd
  <2>3. QED
    BY <2>1, <2>2 DEF Tidy
<1>5. QED
  BY <1>3, <1>4

----------------------------------------------------------------------------
(* "/..".                                                                  *)

LEMMA UpsProperties ==
    ASSUME NEW p \in Clean, NEW i \in 1..Len(p)
    PROVE  i \in Ups(p) <=> /\ i + 2 <= Len(p) /\ p[i] = "/" /\ p[i+1] = "." /\ p[i+2] = "."
                            /\ i + 3 <= Len(p) => p[i+3] = "/"
<1>1. i \in Nat
  BY LenPath
<1>2. At(p, i, <<"/", ".", ".">>) <=> i + 2 <= Len(p) /\ p[i] = "/" /\ p[i+1] = "." /\ p[i+2] = "."
  BY <1>1, AtThree
<1>3. QED
  BY <1>2 DEF Ups

\* The first slash leads to the root.
LEMMA FirstSlash == ASSUME NEW p \in Clean, Rooted(p) PROVE ReadAll(Root, Prefix(p, 1)) = Root
<1>1. Len(p) \in Nat /\ 1 \in 1..Len(p) /\ 0 \in 0..Len(p) /\ 1 - 1 = 0 /\ p[1] = "/"
  BY LenPath DEF Rooted
<1>2. \E place \in Places : /\ ReadAll(Root, Prefix(p, 1)) = [place |-> place, name |-> <<>>]
                            /\ place = Ends(ReadAll(Root, Prefix(p, 1 - 1)))
  BY <1>1, AfterSlash
<1>3. Prefix(p, 0) = <<>>
  <2>1. Prefix(p, 0) \in Clean /\ Len(Prefix(p, 0)) = 0
    BY <1>1, PrefixProperties
  <2>2. QED
    BY <2>1, EmptySeq DEF Clean
<1>4. Ends(ReadAll(Root, <<>>)) = <<>>
  BY MeansType, ReadNothing, EndsFresh DEF Root
<1>5. QED
  BY <1>1, <1>2, <1>3, <1>4 DEF Root

\* After ".." the last name is gone.
LEMMA UpReading ==
    ASSUME NEW p \in Clean, NEW i \in 1..Len(p), i + 2 <= Len(p), p[i] = "/", p[i+1] = ".", p[i+2] = ".",
           NEW a \in Places, ReadAll(Root, Prefix(p, i)) = [place |-> a, name |-> <<>>]
    PROVE  LET up == SubSeq(a, 1, Len(a) - 1) IN
           /\ i + 2 = Len(p) => Means(p) = up
           /\ i + 3 <= Len(p) /\ p[i+3] = "/" =>
                ReadAll(Root, Prefix(p, i + 3)) = [place |-> up, name |-> <<>>]
<1> DEFINE j == i + 2
           n == SubSeq(p, i + 1, j)
           up == SubSeq(a, 1, Len(a) - 1)
<1>1. /\ Len(p) \in Nat /\ j \in i..Len(p) /\ j \in 1..Len(p) /\ j - i = 2
      /\ p[j] = "." /\ \A k \in (i + 1)..j : p[k] # "/"
  <2>1. Len(p) \in Nat /\ \A k \in (i + 1)..(i + 2) : k = i + 1 \/ k = i + 2
    BY LenPath
  <2>2. QED
    BY <2>1
<1>2. j + 1 = i + 3 /\ i + 2 = j
  OBVIOUS
<1> HIDE DEF j
<1>3. /\ n \in Seq(NameCharacters) /\ Len(n) = j - i /\ \A k \in 1..(j - i) : n[k] = p[i + k]
      /\ ReadAll(Root, Prefix(p, j)) = [place |-> a, name |-> n]
  BY <1>1, NameAfterSlash
<1> HIDE DEF n
<1>4. n = DotDot
  <2>1. Len(n) = 2 /\ n[1] = "." /\ n[2] = "."
    BY <1>1, <1>2, <1>3
  <2>2. Len(DotDot) = 2 /\ DotDot[1] = "." /\ DotDot[2] = "."
    BY DEF DotDot
  <2>3. \A k \in 1..2 : k = 1 \/ k = 2
    OBVIOUS
  <2>4. QED
    BY <1>3, <2>1, <2>2, <2>3, NameTypes, SamePath
<1>5. Ends([place |-> a, name |-> DotDot]) = up
  BY StepCases DEF Ends
<1> HIDE DEF up
<1>6. ASSUME j = Len(p) PROVE Means(p) = up
  <2>1. Prefix(p, j) = p
    BY <1>6, PrefixAll
  <2>2. QED
    BY <1>3, <1>4, <1>5, <2>1, MeansType
<1>7. ASSUME j + 1 <= Len(p), p[j+1] = "/"
      PROVE  ReadAll(Root, Prefix(p, j + 1)) = [place |-> up, name |-> <<>>]
  <2> DEFINE k == j + 1
  <2>1. k \in 1..Len(p) /\ k - 1 = j /\ p[k] = "/"
    BY <1>1, <1>7
  <2> HIDE DEF k
  <2>2. \E b \in Places : /\ ReadAll(Root, Prefix(p, k)) = [place |-> b, name |-> <<>>]
                          /\ b = Ends(ReadAll(Root, Prefix(p, k - 1)))
    BY <2>1, AfterSlash
  <2>3. QED
    BY <1>3, <1>4, <1>5, <2>1, <2>2 DEF k
<1>8. QED
  BY <1>2, <1>6, <1>7 DEF up

LEMMA SlashBeforeProperties ==
    ASSUME NEW p \in Clean, Rooted(p), NEW i \in 2..Len(p)
    PROVE  /\ SlashBefore(p, i) \in 1..(i - 1) /\ p[SlashBefore(p, i)] = "/"
           /\ \A k \in (SlashBefore(p, i) + 1)..(i - 1) : p[k] # "/"
<1> DEFINE S == {j \in 1..(i - 1) : p[j] = "/"}
<1>1. Len(p) \in Nat
  BY LenPath
<1>2. 1 \in S /\ i \in Nat /\ S \in SUBSET (0..i)
  BY <1>1 DEF Rooted
<1>3. SlashBefore(p, i) = Last(S)
  BY DEF SlashBefore
<1>4. Last(S) \in S /\ \A k \in S : Last(S) >= k
  <2> HIDE DEF S
  <2>1. QED
    BY <1>2, LastProperties
<1> DEFINE b == SlashBefore(p, i)
<1>5. b \in 1..(i - 1) /\ p[b] = "/" /\ \A k \in S : b >= k
  BY <1>3, <1>4
<1> HIDE DEF b
<1>6. ASSUME NEW k \in (b + 1)..(i - 1) PROVE p[k] # "/"
  <2>1. k \in 1..(i - 1) /\ ~(b >= k)
    BY <1>5
  <2>2. QED
    BY <1>5, <2>1
<1>7. QED
  BY <1>5, <1>6 DEF b

\* A short part of a tidy path is tidy, unless it ends with "/.".
LEMMA PrefixTidy ==
    ASSUME NEW p \in Clean, Tidy(p), NEW n \in 1..Len(p), n < Len(p) => p[n + 1] = "/" \/ n = 1
    PROVE  /\ Prefix(p, n) \in Clean /\ Tidy(Prefix(p, n)) /\ Len(Prefix(p, n)) = n
<1> DEFINE q == Prefix(p, n)
<1>1. Len(p) \in Nat /\ n \in 0..Len(p)
  BY LenPath
<1>2. q \in Clean /\ Len(q) = n /\ \A j \in 1..n : q[j] = p[j]
  BY <1>1, PrefixProperties
<1>3. Rooted(q) /\ NoDouble(q) /\ NoDot(q)
  BY PrefixKeeps DEF Tidy
<1> HIDE DEF q
<1>4. NoDotEnd(q)
  <2> SUFFICES ASSUME n >= 2, q[n - 1] = "/", q[n] = "." PROVE FALSE
    BY <1>2 DEF NoDotEnd
  <2>1. n - 1 \in 1..Len(p) /\ (n - 1) + 1 = n /\ (n - 1) + 2 = n + 1 /\ p[n - 1] = "/" /\ p[n] = "."
    BY <1>1, <1>2
  <2>2. CASE n < Len(p)
    <3>1. (n - 1) + 2 <= Len(p) /\ p[n + 1] = "/"
      BY <1>1, <2>1, <2>2
    <3>2. QED
      BY <2>1, <3>1 DEF Tidy, NoDot
  <2>3. CASE n = Len(p)
    BY <2>1, <2>3 DEF Tidy, NoDotEnd
  <2>4. QED
    BY <1>1, <2>2, <2>3
<1>5. QED
  BY <1>2, <1>3, <1>4 DEF q, Tidy

\* The name before the first "/.." is a name.
LEMMA NameBefore ==
    ASSUME NEW p \in Clean, Tidy(p), Ups(p) # {}, First(Ups(p)) # 1
    PROVE  LET i == First(Ups(p))
               b == SlashBefore(p, i) IN
           \E c \in Places, n \in Names :
              /\ ReadAll(Root, Prefix(p, b)) = [place |-> c, name |-> <<>>]
              /\ ReadAll(Root, Prefix(p, i)) = [place |-> Append(c, n), name |-> <<>>]
<1> DEFINE i == First(Ups(p))
           b == SlashBefore(p, i)
           j == i - 1
           n == SubSeq(p, b + 1, j)
<1>1. Len(p) \in Nat /\ Ups(p) \in SUBSET Nat /\ Ups(p) \in SUBSET (1..Len(p)) /\ Rooted(p)
  BY LenPath DEF Ups, Tidy
<1>2. i \in Ups(p) /\ \A k \in Ups(p) : i <= k
  BY <1>1, FirstProperties
<1>3. i # 1
  OBVIOUS
<1> HIDE DEF i
<1>4. i \in 1..Len(p) /\ i \in 2..Len(p) /\ p[i] = "/"
  BY <1>1, <1>2, <1>3, UpsProperties
<1>5. b \in 1..(i - 1) /\ p[b] = "/" /\ \A k \in (b + 1)..(i - 1) : p[k] # "/"
  BY <1>1, <1>4, SlashBeforeProperties
<1> HIDE DEF b
<1>6. /\ j \in b..Len(p) /\ j \in 1..Len(p) /\ b \in 1..Len(p) /\ \A k \in (b + 1)..j : p[k] # "/"
      /\ j + 1 = i /\ b < i
  BY <1>1, <1>4, <1>5
<1>7. PICK c \in Places : ReadAll(Root, Prefix(p, b)) = [place |-> c, name |-> <<>>]
  BY <1>5, <1>6, AfterSlash
<1> HIDE DEF j
<1>8. /\ n \in Seq(NameCharacters) /\ Len(n) = j - b /\ \A k \in 1..(j - b) : n[k] = p[b + k]
      /\ ReadAll(Root, Prefix(p, j)) = [place |-> c, name |-> n]
  BY <1>5, <1>6, <1>7, NameAfterSlash
<1> HIDE DEF n
<1>9. n # <<>>
  <2> SUFFICES ASSUME n = <<>> PROVE FALSE
    OBVIOUS
  <2>1. j - b = 0
    BY <1>8
  <2>2. b + 1 = i /\ b + 1 <= Len(p) /\ p[b + 1] = "/"
    BY <1>1, <1>4, <1>6, <2>1
  <2>3. QED
    BY <1>5, <1>6, <2>2 DEF Tidy, NoDouble
<1>10. n # Dot
  <2> SUFFICES ASSUME n = Dot PROVE FALSE
    OBVIOUS
  <2>1. j - b = 1 /\ n[1] = "."
    BY <1>8 DEF Dot
  <2>2. b + 2 = i /\ b + 2 <= Len(p) /\ p[b + 1] = "." /\ p[b + 2] = "/"
    BY <1>1, <1>4, <1>6, <1>8, <2>1
  <2>3. QED
    BY <1>5, <1>6, <2>2 DEF Tidy, NoDot
<1>11. n # DotDot
  <2> SUFFICES ASSUME n = DotDot PROVE FALSE
    OBVIOUS
  <2>1. j - b = 2 /\ n[1] = "." /\ n[2] = "."
    BY <1>8 DEF DotDot
  <2>2. b + 3 = i /\ b + 3 <= Len(p) /\ b + 2 <= Len(p) /\ p[b + 1] = "." /\ p[b + 2] = "." /\ p[b + 3] = "/"
    BY <1>1, <1>4, <1>6, <1>8, <2>1
  <2>3. b \in Ups(p)
    BY <1>5, <1>6, <2>2, UpsProperties
  <2>4. QED
    BY <1>2, <1>4, <1>6, <2>3
<1>12. n \in Names
  BY <1>8, <1>9, <1>10, <1>11 DEF Names, NameCharacters
<1>13. Ends([place |-> c, name |-> n]) = Append(c, n)
  BY <1>9, <1>10, <1>11, StepCases DEF Ends
<1>14. ReadAll(Root, Prefix(p, i)) = [place |-> Append(c, n), name |-> <<>>]
  <2>1. \E d \in Places : /\ ReadAll(Root, Prefix(p, i)) = [place |-> d, name |-> <<>>]
                          /\ d = Ends(ReadAll(Root, Prefix(p, i - 1)))
    BY <1>4, AfterSlash
  <2>2. QED
    BY <1>8, <1>13, <2>1 DEF j
<1>15. QED
  BY <1>7, <1>12, <1>14 DEF i, b

\* A name that is added and dropped.
LEMMA DropLast ==
    ASSUME NEW c \in Places, NEW n \in Names
    PROVE  SubSeq(Append(c, n), 1, Len(Append(c, n)) - 1) = c
<1> DEFINE u == Append(c, n)
           v == SubSeq(u, 1, Len(c))
<1>1. /\ u \in Seq(Names) /\ Len(u) = Len(c) + 1 /\ Len(c) \in Nat
      /\ \A m \in 1..Len(c) : u[m] = c[m] /\ c[m] \in Names
  BY AppendProperties, LenProperties, ElementOfSeq DEF Places
<1> HIDE DEF u
<1>2. /\ v \in Seq(Names) /\ Len(v) = (IF 1 <= Len(c) THEN Len(c) - 1 + 1 ELSE 0)
      /\ \A m \in 1..(Len(c) - 1 + 1) : v[m] = u[1 + m - 1]
  <2>1. \A m \in 1..Len(c) : u[m] \in Names
    BY <1>1
  <2>2. QED
    BY <1>1, <2>1, SubSeqProperties
<1> HIDE DEF v
<1>3. Len(v) = Len(c) /\ \A m \in 1..Len(c) : v[m] = u[m]
  BY <1>1, <1>2
<1>4. v = c
  BY <1>1, <1>2, <1>3, SeqEqual DEF Places
<1>5. Len(u) - 1 = Len(c)
  BY <1>1
<1>6. QED
  BY <1>4, <1>5 DEF u, v

LEMMA UpTidy ==
    ASSUME NEW p \in Clean, Tidy(p), Ups(p) # {}
    PROVE  LET q == Up(p, First(Ups(p))) IN
           q \in Clean /\ Tidy(q) /\ Means(q) = Means(p) /\ Len(q) < Len(p)
<1> DEFINE i == First(Ups(p))
           q == Up(p, i)
<1>1. Len(p) \in Nat /\ Ups(p) \in SUBSET Nat /\ Ups(p) \in SUBSET (1..Len(p)) /\ Rooted(p)
  BY LenPath DEF Ups, Tidy
<1>2. i \in Ups(p)
  BY <1>1, FirstProperties
<1>3. /\ i \in 1..Len(p) /\ i + 2 <= Len(p) /\ p[i] = "/" /\ p[i+1] = "." /\ p[i+2] = "."
      /\ i + 3 <= Len(p) => p[i+3] = "/"
  BY <1>1, <1>2, UpsProperties
<1>4. i + 3 <= Len(p) \/ i + 2 = Len(p)
  BY <1>1, <1>3
<1>5. CASE i = 1
  <2>1. ReadAll(Root, Prefix(p, 1)) = [place |-> <<>>, name |-> <<>>] /\ <<>> \in Places
    BY <1>1, FirstSlash, NameTypes DEF Root
  <2>2. SubSeq(<<>>, 1, Len(<<>>) - 1) = <<>>
    OBVIOUS
  <2>3. 1 \in 1..Len(p) /\ p[1] = "/" /\ p[1+1] = "." /\ p[1+2] = "." /\ 1 + 2 <= Len(p)
    BY <1>3, <1>5
  <2>4. /\ 1 + 2 = Len(p) => Means(p) = <<>>
        /\ 1 + 3 <= Len(p) /\ p[1+3] = "/" =>
                ReadAll(Root, Prefix(p, 1 + 3)) = [place |-> <<>>, name |-> <<>>]
    BY <2>1, <2>2, <2>3, UpReading
  <2>5. CASE 4 <= Len(p)
    <3>1. q = Cut(p, 1, 3)
      <4>1. q = Cut(p, 1, 1 + 3 - 1)
        BY <1>5, <2>5 DEF Up
      <4>2. QED
        BY <4>1
    <3>2. 3 \in 1..(Len(p) - 1) /\ p[1 + 3] = "/" /\ 1 + 3 <= Len(p)
      BY <1>1, <1>3, <1>5, <2>5
    <3>3. ReadAll(Root, Prefix(p, 1 + 3)) = ReadAll(Root, Prefix(p, 1))
      BY <2>1, <2>4, <3>2
    <3>4. ReadAll(Root, Cut(p, 1, 3)) = ReadAll(Root, p)
      BY <2>3, <3>2, <3>3, CutReading, MeansType
    <3>5. Cut(p, 1, 3) \in Clean /\ Len(Cut(p, 1, 3)) = Len(p) - 3 /\ Tidy(Cut(p, 1, 3))
      BY <2>3, <3>2, CutBetween DEF Tidy
    <3>6. QED
      BY <1>1, <3>1, <3>4, <3>5, MeansType
  <2>6. CASE ~(4 <= Len(p))
    <3>1. q = Prefix(p, 1) /\ Len(p) = 3
      <4>1. Len(p) = 3 /\ ~(1 + 3 <= Len(p))
        BY <1>1, <1>3, <1>5, <2>6
      <4>2. q = Up(p, 1)
        BY <1>5
      <4> HIDE DEF q, i
      <4>3. QED
        BY <4>1, <4>2 DEF Up
    <3>2. q \in Clean /\ Tidy(q) /\ Len(q) = 1
      BY <2>3, <3>1, PrefixTidy
    <3>3. Means(q) = <<>>
      BY <2>1, <3>1, <3>2, MeansType, EndsFresh
    <3>4. QED
      BY <2>4, <3>1, <3>2, <3>3
  <2>7. QED
    BY <2>5, <2>6
<1>6. CASE i # 1
  <2> DEFINE b == SlashBefore(p, i)
             k == i + 3 - b
  <2>1. PICK c \in Places, n \in Names :
              /\ ReadAll(Root, Prefix(p, b)) = [place |-> c, name |-> <<>>]
              /\ ReadAll(Root, Prefix(p, i)) = [place |-> Append(c, n), name |-> <<>>]
    BY <1>6, NameBefore
  <2>2. b \in 1..(i - 1) /\ p[b] = "/"
    <3>1. i \in 2..Len(p)
      BY <1>1, <1>3, <1>6
    <3> HIDE DEF i
    <3>2. QED
      BY <1>1, <3>1, SlashBeforeProperties
  <2>3. Append(c, n) \in Places /\ SubSeq(Append(c, n), 1, Len(Append(c, n)) - 1) = c
    BY DropLast, AppendProperties DEF Places
  <2>4. /\ i + 2 = Len(p) => Means(p) = c
        /\ i + 3 <= Len(p) /\ p[i+3] = "/" => ReadAll(Root, Prefix(p, i + 3)) = [place |-> c, name |-> <<>>]
    <3> HIDE DEF i
    <3>1. QED
      BY <1>3, <2>1, <2>3, UpReading
  <2>5. q = (IF b = 0 THEN (IF i + 3 <= Len(p) THEN Cut(p, i, 3) ELSE Prefix(p, i))
             ELSE IF b = 1 /\ ~(i + 3 <= Len(p)) THEN Prefix(p, 1) ELSE Cut(p, b, k))
    BY <1>6 DEF Up
  <2> HIDE DEF i, b, q
  <2>6. b # 0 /\ b \in 1..Len(p) /\ b \in Nat
    BY <1>1, <1>3, <2>2
  <2>7. CASE i + 3 <= Len(p)
    <3>1. q = Cut(p, b, k)
      BY <2>5, <2>6, <2>7
    <3>2. k \in 1..(Len(p) - b) /\ b + k = i + 3 /\ k \in Nat /\ k > 0
      BY <1>1, <1>3, <2>2, <2>6, <2>7
    <3> HIDE DEF k
    <3>3. ReadAll(Root, Prefix(p, b + k)) = ReadAll(Root, Prefix(p, b)) /\ p[b + k] = "/"
      BY <1>3, <2>1, <2>4, <2>7, <3>2
    <3>4. ReadAll(Root, Cut(p, b, k)) = ReadAll(Root, p)
      BY <2>2, <2>6, <3>2, <3>3, CutReading, MeansType
    <3>5. Cut(p, b, k) \in Clean /\ Len(Cut(p, b, k)) = Len(p) - k /\ Tidy(Cut(p, b, k))
      BY <2>2, <2>6, <3>2, <3>3, CutBetween DEF Tidy
    <3>6. QED
      BY <1>1, <3>1, <3>2, <3>4, <3>5, MeansType DEF q, i
  <2>8. CASE i + 2 = Len(p) /\ b = 1
    <3>1. q = Prefix(p, 1)
      <4>1. ~(i + 3 <= Len(p)) /\ b = 1
        BY <1>1, <1>3, <2>8
      <4>2. QED
        BY <2>5, <2>6, <4>1
    <3>2. q \in Clean /\ Tidy(q) /\ Len(q) = 1
      <4>1. 1 \in 1..Len(p)
        BY <2>6, <2>8
      <4>2. QED
        BY <3>1, <4>1, PrefixTidy
    <3>3. Means(q) = c
      BY <2>1, <2>8, <3>1, <3>2, MeansType, EndsFresh
    <3>4. QED
      BY <1>1, <1>3, <2>4, <2>8, <3>2, <3>3 DEF q, i
  <2>9. CASE i + 2 = Len(p) /\ b # 1
    <3>1. q = Cut(p, b, k) /\ b + k = Len(p) + 1 /\ b - 1 \in 1..Len(p) /\ (b - 1) + 1 = b
      BY <1>1, <1>3, <2>2, <2>5, <2>6, <2>9
    <3> DEFINE r == Prefix(p, b - 1)
    <3>2. r \in Clean /\ Tidy(r) /\ Len(r) = b - 1
      BY <2>2, <3>1, PrefixTidy
    <3>3. q = r
      <4>1. q = r \o SubSeq(p, Len(p) + 1, Len(p))
        BY <3>1 DEF Cut
      <4>2. SubSeq(p, Len(p) + 1, Len(p)) = <<>>
        BY <1>1, SubSeqEmpty
      <4> HIDE DEF r
      <4>3. r \o <<>> = r
        BY <3>2, ConcatEmptySeq DEF Clean
      <4>4. QED
        BY <4>1, <4>2, <4>3
    <3>4. ReadAll(Root, Prefix(p, b)) = [place |-> Ends(ReadAll(Root, r)), name |-> <<>>]
      <4>1. \E d \in Places : /\ ReadAll(Root, Prefix(p, b)) = [place |-> d, name |-> <<>>]
                              /\ d = Ends(ReadAll(Root, Prefix(p, b - 1)))
        BY <2>2, <2>6, AfterSlash
      <4>2. QED
        BY <4>1
    <3> HIDE DEF r
    <3>5. Means(r) = c
      BY <2>1, <3>2, <3>4, MeansType
    <3>6. Len(q) < Len(p)
      BY <1>1, <2>6, <3>2, <3>3
    <3>7. QED
      BY <2>4, <2>9, <3>2, <3>3, <3>5, <3>6 DEF q, i
  <2>10. QED
    BY <1>4, <2>7, <2>8, <2>9 DEF i, q
<1>7. QED
  BY <1>5, <1>6

LEMMA NoUps ==
    ASSUME NEW p \in Clean, Tidy(p)
    PROVE  LET q == DotDots(p) IN
           q \in Clean /\ Tidy(q) /\ Ups(q) = {} /\ Means(q) = Means(p)
<1> DEFINE turn == [q \in Path |-> IF Ups(q) = {} THEN q ELSE Up(q, First(Ups(q)))]
           S == {q \in Clean : Tidy(q) /\ Means(q) = Means(p)}
<1>1. ASSUME NEW q \in S
      PROVE  /\ turn[q] \in S /\ (turn[q] = q \/ Len(turn[q]) < Len(q))
             /\ turn[q] = q => Ups(q) = {}
  <2>1. turn[q] = IF Ups(q) = {} THEN q ELSE Up(q, First(Ups(q)))
    BY NameTypes
  <2> HIDE DEF turn
  <2>2. CASE Ups(q) = {}
    BY <2>1, <2>2
  <2>3. CASE Ups(q) # {}
    <3>1. /\ turn[q] \in Clean /\ Tidy(turn[q]) /\ Means(turn[q]) = Means(q)
          /\ Len(turn[q]) < Len(q)
      BY <2>1, <2>3, UpTidy
    <3>2. Len(q) \in Nat
      BY LenPath
    <3>3. QED
      BY <3>1, <3>2
  <2>4. QED
    BY <2>2, <2>3
<1>2. DotDots(p) = Repeat(turn, p)
  BY DEF DotDots
<1>3. S \in SUBSET Clean /\ p \in S
  OBVIOUS
<1> HIDE DEF turn, S
<1>4. Repeat(turn, p) \in S /\ turn[Repeat(turn, p)] = Repeat(turn, p)
  BY <1>1, <1>3, RepeatProperties
<1>5. QED
  BY <1>1, <1>2, <1>4 DEF S

----------------------------------------------------------------------------
(* The path to a place.                                                    *)

Joins(place, path) ==
    /\ path \in [0..Len(place) -> Clean]
    /\ path[0] = <<>> /\ \A i \in 1..Len(place) : path[i] = path[i-1] \o Slash \o place[i]

\* With one more name.
LEMMA JoinType ==
    ASSUME NEW p \in Clean, NEW n \in Clean
    PROVE  /\ p \o Slash \in Clean /\ p \o Slash \o n \in Clean
           /\ Len(p \o Slash) = Len(p) + 1 /\ Len(p \o Slash \o n) = Len(p) + 1 + Len(n)
           /\ p \o Slash = Append(p, "/") /\ p \o Slash \o n = Append(p, "/") \o n
<1>1. p \o Slash \in Clean /\ Len(p \o Slash) = Len(p) + Len(Slash) /\ Len(Slash) = 1
  BY NameTypes, ConcatPath DEF Slash
<1>2. /\ (p \o Slash) \o n \in Clean /\ Len((p \o Slash) \o n) = Len(p \o Slash) + Len(n)
  BY <1>1, ConcatPath
<1>3. p \o Slash = Append(p, "/")
  <2>1. "/" \in Characters \ {"\\"}
    BY CharactersAssumption
  <2>2. QED
    BY <2>1, AppendIsConcat DEF Clean, Slash
<1>4. QED
  BY <1>1, <1>2, <1>3

\* Joined is defined.
LEMMA JoinedDefined ==
    ASSUME NEW place \in Places
    PROVE  \E path : Joins(place, path) /\ Joined(place) = path[Len(place)]
<1> DEFINE n == Len(place)
           step == [x \in Clean \X (1..n) |-> x[1] \o Slash \o place[x[2]]]
<1>1. n \in Nat /\ \A i \in 1..n : place[i] \in Clean
  BY LenProperties, ElementOfSeq, NameTypes DEF Places
<1>2. step \in Steps(Clean, n)
  <2> HIDE DEF n
  <2>1. QED
    BY <1>1, JoinType DEF Steps
<1>3. PICK f \in [0..n -> Clean] :
        f[0] = <<>> /\ \A i \in 1..n : f[i] = step[<<f[i-1], i>>]
  <2> HIDE DEF n, step
  <2>1. Defined(Clean, n, <<>>, step) # {}
    BY <1>1, <1>2, BoundedRecursion, NameTypes
  <2>2. QED
    BY <2>1 DEF Defined
<1>4. \A i \in 1..n : f[i] = f[i-1] \o Slash \o place[i]
  <2> HIDE DEF n
  <2>1. \A i \in 1..n : f[i-1] \in Clean
    BY <1>1, <1>3
  <2>2. QED
    BY <1>1, <1>3, <2>1
<1>5. f = [i \in 0..n |-> IF i = 0 THEN <<>> ELSE f[i-1] \o Slash \o place[i]]
  <2> HIDE DEF n
  <2>1. QED
    BY <1>1, <1>3, <1>4
<1> DEFINE g == CHOOSE a : a = [i \in 0..n |-> IF i = 0 THEN <<>> ELSE a[i-1] \o Slash \o place[i]]
<1>6. g = [i \in 0..n |-> IF i = 0 THEN <<>> ELSE g[i-1] \o Slash \o place[i]]
  BY <1>5, Zenon
<1>7. Joined(place) = g[n]
  BY Zenon DEF Joined
<1>8. g[0] = <<>> /\ \A i \in 1..n : g[i] = g[i-1] \o Slash \o place[i]
  <2> HIDE DEF n, g
  <2>1. QED
    BY <1>1, <1>6
<1>9. \A i \in 0..n : g[i] \in Clean
  <2> HIDE DEF n, g
  <2> DEFINE T == {i \in 0..n : g[i] \in Clean}
  <2>1. 0 \in T
    BY <1>1, <1>8, NameTypes
  <2>2. ASSUME NEW i \in 1..n, i - 1 \in T PROVE i \in T
    <3>1. g[i-1] \in Clean /\ place[i] \in Clean /\ g[i] = g[i-1] \o Slash \o place[i]
      BY <1>1, <1>8, <2>2
    <3>2. g[i] \in Clean
      BY <3>1, JoinType
    <3>3. QED
      BY <1>1, <3>2
  <2>3. \A i \in 0..n : i \in T
    <3> HIDE DEF T
    <3>1. QED
      BY <1>1, <2>1, <2>2, BoundedInduction
  <2>4. QED
    BY <2>3
<1>10. g \in [0..n -> Clean]
  <2> HIDE DEF n, g
  <2>1. QED
    BY <1>6, <1>9, Zenon
<1>11. Joins(place, g)
  BY <1>8, <1>10 DEF Joins
<1>12. QED
  BY <1>7, <1>11

LEMMA JoinedProperties ==
    /\ Joined(<<>>) = <<>>
    /\ \A place \in Places : Joined(place) \in Clean
    /\ \A place \in Places, n \in Names :
          /\ Append(place, n) \in Places
          /\ Joined(Append(place, n)) = Joined(place) \o Slash \o n
<1>1. ASSUME NEW place \in Places PROVE Joined(place) \in Clean /\ (place = <<>> => Joined(place) = <<>>)
  <2>1. PICK path : Joins(place, path) /\ Joined(place) = path[Len(place)]
    BY JoinedDefined
  <2>2. Len(place) \in Nat /\ Len(place) \in 0..Len(place)
    BY LenProperties DEF Places
  <2>3. path[Len(place)] \in Clean /\ path[0] = <<>>
    BY <2>1, <2>2 DEF Joins
  <2>4. place = <<>> => Len(place) = 0
    OBVIOUS
  <2>5. QED
    BY <2>1, <2>3, <2>4
<1>2. ASSUME NEW place \in Places, NEW n \in Names
      PROVE  Append(place, n) \in Places /\ Joined(Append(place, n)) = Joined(place) \o Slash \o n
  <2> DEFINE long == Append(place, n)
             k == Len(place)
  <2>1. /\ long \in Places /\ k \in Nat /\ Len(long) = k + 1
        /\ long[k + 1] = n /\ \A i \in 1..k : long[i] = place[i]
    BY AppendProperties, LenProperties DEF Places
  <2> HIDE DEF long
  <2>2. PICK f : Joins(place, f) /\ Joined(place) = f[k]
    BY JoinedDefined
  <2>3. PICK g : Joins(long, g) /\ Joined(long) = g[Len(long)]
    BY <2>1, JoinedDefined
  <2> HIDE DEF k
  <2>4. f[0] = <<>> /\ \A i \in 1..k : f[i] = f[i-1] \o Slash \o place[i]
    BY <2>2 DEF Joins, k
  <2>5. /\ g[0] = <<>> /\ \A i \in 1..k : g[i] = g[i-1] \o Slash \o place[i]
        /\ g[k + 1] = g[k] \o Slash \o n
    <3>1. g[0] = <<>> /\ \A i \in 1..(k + 1) : g[i] = g[i-1] \o Slash \o long[i]
      BY <2>1, <2>3 DEF Joins
    <3>2. k + 1 \in 1..(k + 1) /\ (k + 1) - 1 = k /\ \A i \in 1..k : i \in 1..(k + 1)
      BY <2>1
    <3>3. QED
      BY <2>1, <3>1, <3>2
  <2> DEFINE T == {i \in 0..k : f[i] = g[i]}
  <2>6. 0 \in T
    BY <2>1, <2>4, <2>5
  <2>7. ASSUME NEW i \in 1..k, i - 1 \in T PROVE i \in T
    <3>1. f[i-1] = g[i-1] /\ f[i] = f[i-1] \o Slash \o place[i] /\ g[i] = g[i-1] \o Slash \o place[i]
      BY <2>4, <2>5, <2>7
    <3>2. f[i] = g[i]
      BY <3>1, Zenon
    <3>3. QED
      BY <2>1, <3>2
  <2>8. \A i \in 0..k : i \in T
    <3> HIDE DEF T
    <3>1. QED
      BY <2>1, <2>6, <2>7, BoundedInduction
  <2>9. f[k] = g[k]
    BY <2>1, <2>8
  <2>10. QED
    BY <2>1, <2>2, <2>3, <2>5, <2>9 DEF long
<1>3. QED
  BY <1>1, <1>2, NameTypes

\* A path that names no name to drop.
Settled(p) == Tidy(p) /\ Ups(p) = {}

\* How a path ends that ends with "", "." or "..".
LEMMA NameAtEnd ==
    ASSUME NEW p \in Clean, NEW j \in 1..Len(p), NEW q \in Clean, NEW n \in Seq(NameCharacters),
           Prefix(p, j) = q \o Slash \o n
    PROVE  /\ j = Len(q) + 1 + Len(n) /\ p[Len(q) + 1] = "/"
           /\ \A m \in 1..Len(n) : p[Len(q) + 1 + m] = n[m]
           /\ n = <<>> => p[j] = "/"
           /\ n = Dot => j >= 2 /\ p[j - 1] = "/" /\ p[j] = "."
           /\ n = DotDot => j >= 3 /\ p[j - 2] = "/" /\ p[j - 1] = "." /\ p[j] = "."
<1> DEFINE r == Append(q, "/")
           k == Len(q)
           l == Len(n)
<1>1. Len(p) \in Nat /\ k \in Nat /\ l \in Nat /\ n \in Clean
  BY LenPath, NameTypes
<1>2. /\ r \in Clean /\ Len(r) = k + 1 /\ r[k + 1] = "/" /\ Prefix(p, j) = r \o n
  <2>1. r \in Clean /\ q \o Slash \o n = r \o n
    BY <1>1, JoinType
  <2>2. Len(r) = k + 1 /\ r[k + 1] = "/"
    BY AppendProperties DEF Clean
  <2>3. QED
    BY <2>1, <2>2
<1> HIDE DEF r
<1>3. /\ Len(r \o n) = k + 1 + l
      /\ \A i \in 1..(k + 1 + l) : (r \o n)[i] = IF i <= k + 1 THEN r[i] ELSE n[i - (k + 1)]
  <2>1. /\ Len(r \o n) = Len(r) + Len(n)
        /\ \A i \in 1..(Len(r) + Len(n)) : (r \o n)[i] = IF i <= Len(r) THEN r[i] ELSE n[i - Len(r)]
    BY <1>1, <1>2, ConcatPath
  <2>2. QED
    BY <1>2, <2>1
<1>4. Len(Prefix(p, j)) = j /\ \A i \in 1..j : Prefix(p, j)[i] = p[i]
  <2>1. j \in 0..Len(p)
    BY <1>1
  <2>2. QED
    BY <2>1, PrefixProperties
<1> HIDE DEF k, l
<1>5. j = k + 1 + l /\ \A i \in 1..j : p[i] = IF i <= k + 1 THEN r[i] ELSE n[i - (k + 1)]
  BY <1>2, <1>3, <1>4
<1>6. p[k + 1] = "/"
  BY <1>1, <1>2, <1>5
<1>7. ASSUME NEW m \in 1..l PROVE p[k + 1 + m] = n[m]
  <2>1. k + 1 + m \in 1..j /\ ~(k + 1 + m <= k + 1) /\ (k + 1 + m) - (k + 1) = m
    BY <1>1, <1>5
  <2>2. QED
    BY <1>5, <2>1
<1>8. n = <<>> => p[j] = "/"
  BY <1>1, <1>5, <1>6 DEF l
<1>9. n = Dot => j >= 2 /\ p[j - 1] = "/" /\ p[j] = "."
  <2> SUFFICES ASSUME n = Dot PROVE j >= 2 /\ p[j - 1] = "/" /\ p[j] = "."
    OBVIOUS
  <2>1. l = 1 /\ n[1] = "."
    BY DEF Dot, l
  <2>2. j - 1 = k + 1 /\ j = k + 1 + 1 /\ j >= 2
    BY <1>1, <1>5, <2>1
  <2>3. 1 \in 1..l
    BY <2>1
  <2>4. p[k + 1 + 1] = n[1]
    BY <1>7, <2>3
  <2>5. QED
    BY <1>6, <2>1, <2>2, <2>4
<1>10. n = DotDot => j >= 3 /\ p[j - 2] = "/" /\ p[j - 1] = "." /\ p[j] = "."
  <2> SUFFICES ASSUME n = DotDot PROVE j >= 3 /\ p[j - 2] = "/" /\ p[j - 1] = "." /\ p[j] = "."
    OBVIOUS
  <2>1. l = 2 /\ n[1] = "." /\ n[2] = "."
    BY DEF DotDot, l
  <2>2. j - 2 = k + 1 /\ j - 1 = k + 1 + 1 /\ j = k + 1 + 2 /\ j >= 3
    BY <1>1, <1>5, <2>1
  <2>3. 1 \in 1..l /\ 2 \in 1..l
    BY <2>1
  <2>4. p[k + 1 + 1] = n[1] /\ p[k + 1 + 2] = n[2]
    BY <1>7, <2>3
  <2>5. QED
    BY <1>6, <2>1, <2>2, <2>4
<1>11. QED
  BY <1>5, <1>6, <1>7, <1>8, <1>9, <1>10 DEF k, l

\* A settled path is what has been read of it.
LEMMA Spelled ==
    ASSUME NEW p \in Clean, Settled(p), NEW j \in 1..Len(p)
    PROVE  LET r == ReadAll(Root, Prefix(p, j)) IN
           r \in Readings /\ Prefix(p, j) = Joined(r.place) \o Slash \o r.name
<1> DEFINE r(i) == ReadAll(Root, Prefix(p, i))
           Good(i) == Prefix(p, i) = Joined(r(i).place) \o Slash \o r(i).name
           T == {i \in 0..Len(p) : i = 0 \/ Good(i)}
<1>1. Len(p) \in Nat /\ Rooted(p) /\ NoDouble(p) /\ NoDot(p)
  BY LenPath DEF Settled, Tidy
<1>2. ASSUME NEW i \in 0..Len(p) PROVE r(i) \in Readings /\ r(i).place \in Places /\ r(i).name \in Seq(NameCharacters)
  <2>1. Prefix(p, i) \in Clean
    BY PrefixProperties
  <2>2. r(i) \in Readings
    BY <2>1, ReadAllType, MeansType
  <2> HIDE DEF r
  <2>3. QED
    BY <2>2 DEF Readings
<1>3. 0 \in T
  BY <1>1
<1>4. Good(1)
  <2>1. r(1).place = <<>> /\ r(1).name = <<>>
    BY <1>1, FirstSlash DEF Root
  <2>2. <<>> \o Slash \o <<>> = Slash
    BY DEF Slash
  <2>3. Prefix(p, 1) = Slash
    <3>1. /\ Prefix(p, 1) \in Clean /\ Len(Prefix(p, 1)) = 1 /\ Prefix(p, 1)[1] = "/"
      <4>1. 1 \in 0..Len(p) /\ p[1] = "/" /\ 1 \in 1..1
        BY <1>1 DEF Rooted
      <4>2. QED
        BY <4>1, PrefixProperties
    <3>2. Len(Slash) = 1 /\ Slash[1] = "/" /\ \A m \in 1..1 : m = 1
      BY DEF Slash
    <3>3. QED
      BY <3>1, <3>2, SamePath, NameTypes
  <2> HIDE DEF r
  <2>4. QED
    BY <2>1, <2>2, <2>3, JoinedProperties
<1>5. ASSUME NEW i \in 1..Len(p), i = 1 \/ Good(i - 1) PROVE Good(i)
  <2>1. CASE i = 1
    <3> HIDE DEF Good
    <3>1. QED
      BY <1>4, <2>1
  <2>2. CASE i # 1
    <3> DEFINE k == i - 1
               place == r(k).place
               name == r(k).name
               q == Joined(place)
    <3>1. k \in 1..Len(p) /\ k \in 0..Len(p) /\ k # 0 /\ k + 1 = i /\ Good(k)
      <4>1. k \in 1..Len(p) /\ k \in 0..Len(p) /\ k # 0 /\ k + 1 = i
        BY <1>1, <2>2
      <4> HIDE DEF Good
      <4>2. QED
        BY <1>5, <2>2, <4>1
    <3>2. place \in Places /\ name \in Seq(NameCharacters) /\ q \in Clean /\ Prefix(p, k) \in Clean /\ r(k) \in Readings
      BY <1>2, <3>1, JoinedProperties, PrefixProperties
    <3>3. Prefix(p, k) = q \o Slash \o name
      BY <3>1
    <3>4. Prefix(p, i) = Append(Prefix(p, k), p[i]) /\ p[i] \in Characters \ {"\\"}
      BY LenPath, PrefixAppend
    <3>5. r(i) = Read(r(k), p[i])
      <4> DEFINE u == Prefix(p, k)
      <4>1. u \in Clean /\ p[i] \in Characters \ {"\\"} /\ Root \in Readings /\ Prefix(p, i) = Append(u, p[i])
        BY <3>2, <3>4, MeansType
      <4> HIDE DEF u
      <4>2. ReadAll(Root, Append(u, p[i])) = Read(ReadAll(Root, u), p[i])
        BY <4>1, ReadAppend
      <4>3. QED
        BY <4>1, <4>2 DEF u
    <3> DEFINE v == q \o Slash
    <3>6. v \in Clean /\ name \in Clean
      BY <3>2, JoinType, NameTypes
    <3>7. CASE p[i] # "/"
      <4>1. r(i).place = place /\ r(i).name = Append(name, p[i])
        <5> HIDE DEF r
        <5>1. QED
          BY <3>2, <3>5, <3>7 DEF Read, Readings
      <4>2. Append(v \o name, p[i]) = v \o Append(name, p[i])
        <5> DEFINE c == p[i]
        <5>1. c \in Characters \ {"\\"} /\ <<c>> \in Clean
          BY <3>4, ReadOne, MeansType
        <5> HIDE DEF c, v, name
        <5>2. Append(v \o name, c) = (v \o name) \o <<c>> /\ Append(name, c) = name \o <<c>>
          <6>1. v \o name \in Clean
            BY <3>6, ConcatPath
          <6>2. QED
            BY <3>6, <5>1, <6>1, AppendIsConcat DEF Clean
        <5>3. (v \o name) \o <<c>> = v \o (name \o <<c>>)
          BY <3>6, <5>1, ConcatAssociative DEF Clean
        <5>4. QED
          BY <5>2, <5>3 DEF c
      <4>3. Prefix(p, i) = v \o Append(name, p[i])
        BY <3>3, <3>4, <4>2
      <4> HIDE DEF r, place, name
      <4>4. QED
        BY <4>1, <4>3
    <3>8. CASE p[i] = "/"
      <4>1. k <= Len(p) - 1 /\ k - 1 + 1 = k /\ k - 1 + 2 = i /\ k - 2 + 1 = k - 1 /\ k - 2 + 2 = k /\ k - 2 + 3 = i
        BY <1>1, <3>1
      <4>2. /\ name = <<>> => p[k] = "/"
            /\ name = Dot => k >= 2 /\ p[k - 1] = "/" /\ p[k] = "."
            /\ name = DotDot => k >= 3 /\ p[k - 2] = "/" /\ p[k - 1] = "." /\ p[k] = "."
        <5> HIDE DEF place, name, q, k
        <5>1. QED
          BY <3>1, <3>2, <3>3, NameAtEnd
      <4> HIDE DEF k
      <4>3. name # <<>>
        <5> SUFFICES ASSUME name = <<>> PROVE FALSE
          OBVIOUS
        <5>1. p[k] = "/" /\ p[k+1] = "/" /\ k + 1 <= Len(p)
          BY <3>1, <3>8, <4>2
        <5>2. QED
          BY <1>1, <3>1, <5>1 DEF NoDouble
      <4>4. name # Dot
        <5> SUFFICES ASSUME name = Dot PROVE FALSE
          OBVIOUS
        <5>1. k >= 2 /\ p[k - 1] = "/" /\ p[k] = "."
          BY <4>2
        <5>2. k - 1 \in 1..Len(p) /\ (k - 1) + 2 <= Len(p) /\ p[(k - 1) + 1] = "." /\ p[(k - 1) + 2] = "/"
          BY <1>1, <3>1, <3>8, <4>1, <5>1
        <5>3. QED
          BY <1>1, <5>1, <5>2 DEF NoDot
      <4>5. name # DotDot
        <5> SUFFICES ASSUME name = DotDot PROVE FALSE
          OBVIOUS
        <5>1. k >= 3 /\ p[k - 2] = "/" /\ p[k - 1] = "." /\ p[k] = "."
          BY <4>2
        <5>2. /\ k - 2 \in 1..Len(p) /\ (k - 2) + 2 <= Len(p) /\ p[(k - 2) + 1] = "." /\ p[(k - 2) + 2] = "."
              /\ p[(k - 2) + 3] = "/"
          BY <1>1, <3>1, <3>8, <4>1, <5>1
        <5>3. k - 2 \in Ups(p)
          BY <5>1, <5>2, UpsProperties
        <5>4. QED
          BY <5>3 DEF Settled
      <4>6. name \in Names
        BY <3>2, <4>3, <4>4, <4>5 DEF Names, NameCharacters
      <4>7. Step(place, name) = Append(place, name)
        BY <4>3, <4>4, <4>5, StepCases
      <4>8. r(i).place = Append(place, name) /\ r(i).name = <<>>
        <5> HIDE DEF r
        <5>1. r(i) = [place |-> Step(place, name), name |-> <<>>]
          BY <3>5, <3>8 DEF Read
        <5>2. QED
          BY <4>7, <5>1
      <4>9. Joined(Append(place, name)) = v \o name
        BY <3>2, <4>6, JoinedProperties
      <4>10. Append(v \o name, "/") = v \o name \o Slash \o <<>>
        <5> DEFINE w == v \o name
        <5>1. w \in Clean
          BY <3>6, ConcatPath
        <5> HIDE DEF w
        <5>2. w \o Slash = Append(w, "/") /\ w \o Slash \in Clean
          BY <5>1, JoinType, NameTypes
        <5>3. (w \o Slash) \o <<>> = w \o Slash
          BY <5>2, ConcatEmptySeq DEF Clean
        <5>4. QED
          BY <5>2, <5>3 DEF w
      <4>11. QED
        <5>1. Prefix(p, i) = Append(v \o name, "/")
          BY <3>3, <3>4, <3>8
        <5> HIDE DEF r, place, name
        <5>2. QED
          BY <4>8, <4>9, <4>10, <5>1
    <3>9. QED
      BY <3>7, <3>8
  <2>3. QED
    BY <2>1, <2>2
<1>6. \A i \in 0..Len(p) : i \in T
  <2> HIDE DEF Good
  <2>1. \A i \in 1..Len(p) : i - 1 \in T => i \in T
    <3> SUFFICES ASSUME NEW i \in 1..Len(p), i - 1 \in T PROVE i \in T
      OBVIOUS
    <3>1. i = 1 \/ Good(i - 1)
      BY <1>1
    <3>2. Good(i)
      BY <1>5, <3>1
    <3>3. QED
      BY <1>1, <3>2
  <2> HIDE DEF T
  <2>2. QED
    BY <1>1, <1>3, <2>1, BoundedInduction
<1>7. j \in 0..Len(p) /\ j # 0
  BY <1>1
<1>8. QED
  BY <1>2, <1>6, <1>7

\* The path to a place is not empty, and begins with a slash.
LEMMA PathToProperties ==
    ASSUME NEW place \in Places
    PROVE  /\ PathTo(place) \in Clean /\ Rooted(PathTo(place))
           /\ place # <<>> => \E c \in Places, n \in Names :
                /\ place = Append(c, n) /\ Joined(place) = Joined(c) \o Slash \o n
<1>1. CASE place = <<>>
  BY <1>1, NameTypes DEF PathTo, Slash, Rooted
<1>2. CASE place # <<>>
  <2>1. PICK c \in Places, n \in Names : place = Append(c, n)
    BY <1>2, SequenceEmptyOrAppend DEF Places
  <2>2. Joined(place) = Joined(c) \o Slash \o n /\ Joined(place) \in Clean /\ PathTo(place) = Joined(place)
    BY <1>2, <2>1, JoinedProperties DEF PathTo
  <2> DEFINE T == {m \in Nat : \A x \in Places : Len(x) = m /\ x # <<>> => Rooted(Joined(x))}
  <2>3. 0 \in T
    BY EmptySeq DEF Places
  <2>4. ASSUME NEW m \in Nat, m \in T PROVE m + 1 \in T
    <3> SUFFICES ASSUME NEW x \in Places, Len(x) = m + 1, x # <<>> PROVE Rooted(Joined(x))
      OBVIOUS
    <3>1. PICK d \in Places, k \in Names : x = Append(d, k)
      BY SequenceEmptyOrAppend DEF Places
    <3>2. Len(d) = m
      BY <3>1, AppendProperties, LenProperties DEF Places
    <3> DEFINE q == Joined(d)
               u == Append(q, "/")
    <3>3. q \in Clean /\ k \in Clean /\ Joined(x) = q \o Slash \o k
      BY <3>1, JoinedProperties, NameTypes
    <3>4. Joined(x) = u \o k /\ u \in Clean /\ Len(u) = Len(q) + 1
      BY <3>3, JoinType, AppendProperties DEF Clean
    <3>5. Len(q) \in Nat /\ Len(k) \in Nat /\ u[1] = IF Len(q) = 0 THEN "/" ELSE q[1]
      <4>1. Len(q) \in Nat /\ Len(k) \in Nat
        BY <3>3, LenPath
      <4>2. \A i \in 1..Len(q) : u[i] = q[i]
        BY <3>3, AppendProperties DEF Clean
      <4>3. u[Len(q) + 1] = "/"
        BY <3>3, AppendProperties DEF Clean
      <4> HIDE DEF q, u
      <4>4. QED
        BY <4>1, <4>2, <4>3
    <3>6. Len(q) # 0 => q[1] = "/"
      <4> SUFFICES ASSUME Len(q) # 0 PROVE q[1] = "/"
        OBVIOUS
      <4>1. d # <<>>
        BY JoinedProperties
      <4>2. Rooted(q)
        BY <2>4, <3>2, <4>1
      <4>3. QED
        BY <4>2 DEF Rooted
    <3> HIDE DEF q, u
    <3>7. Len(u \o k) = Len(u) + Len(k) /\ (u \o k)[1] = u[1]
      <4>1. 1 \in 1..(Len(u) + Len(k)) /\ 1 <= Len(u)
        BY <3>4, <3>5
      <4>2. QED
        BY <3>3, <3>4, <4>1, ConcatPath
    <3>8. QED
      BY <3>4, <3>5, <3>6, <3>7 DEF Rooted
  <2>5. \A m \in Nat : m \in T
    <3> HIDE DEF T
    <3>1. QED
      BY <2>3, <2>4, SetInduction
  <2>6. Rooted(Joined(place))
    <3>1. Len(place) \in Nat
      BY LenProperties DEF Places
    <3>2. QED
      BY <1>2, <2>5, <3>1
  <2>7. QED
    BY <2>1, <2>2, <2>6
<1>3. QED
  BY <1>1, <1>2

LEMMA EndsWithSlash ==
    ASSUME NEW p \in Clean PROVE EndsWith(p, Slash) <=> Len(p) >= 1 /\ p[Len(p)] = "/"
<1>1. Len(p) \in Nat /\ Len(Slash) = 1 /\ Slash[1] = "/" /\ \A k \in 1..1 : k = 1
  BY LenPath DEF Slash
<1> DEFINE i == Len(p) - Len(Slash) + 1
<1>2. i = Len(p) /\ i + 1 - 1 = Len(p) /\ i + Len(Slash) - 1 = Len(p)
  BY <1>1
<1> HIDE DEF i
<1>3. At(p, i, Slash) <=> p[Len(p)] = "/"
  BY <1>1, <1>2 DEF At
<1>4. QED
  BY <1>1, <1>3 DEF EndsWith, i

LEMMA StartsWithSlash ==
    ASSUME NEW p, Len(p) \in Nat PROVE StartsWith(p, Slash) <=> Rooted(p)
<1>1. Len(Slash) = 1 /\ Slash[1] = "/" /\ (\A k \in 1..1 : k = 1) /\ 1 + 1 - 1 = 1
  BY DEF Slash
<1>2. At(p, 1, Slash) <=> Len(p) >= 1 /\ p[1] = "/"
  BY <1>1 DEF At
<1>3. QED
  BY <1>2 DEF StartsWith, Rooted

LEMMA Canonical ==
    ASSUME NEW p \in Clean, Settled(p) PROVE TrailingSlash(p) = PathTo(Means(p))
<1> DEFINE r == ReadAll(Root, p)
           q == Joined(r.place)
           name == r.name
           l == Len(p)
<1>1. l \in Nat /\ l \in 1..l /\ Rooted(p) /\ p \in Clean
  BY LenPath DEF Settled, Tidy, Rooted
<1>2. r \in Readings /\ p = q \o Slash \o name /\ Prefix(p, l) = q \o Slash \o name
  BY <1>1, PrefixAll, Spelled
<1>3. r.place \in Places /\ name \in Seq(NameCharacters) /\ q \in Clean /\ Means(p) = Step(r.place, name)
  BY <1>2, JoinedProperties, MeansType DEF Readings, Ends
<1>4. StartsWith(p, Slash)
  BY <1>1, StartsWithSlash
<1>5. TrailingSlash(p) = IF p[l] = "/" /\ l > 1 THEN Prefix(p, l - 1) ELSE p
  <2>1. EndsWith(p, Slash) <=> p[l] = "/"
    BY <1>1, EndsWithSlash
  <2>2. QED
    BY <1>4, <2>1 DEF TrailingSlash
<1> HIDE DEF r, q, name, l
<1>6. /\ l = Len(q) + 1 + Len(name) /\ p[Len(q) + 1] = "/"
      /\ \A m \in 1..Len(name) : p[Len(q) + 1 + m] = name[m]
      /\ name = <<>> => p[l] = "/"
      /\ name = Dot => l >= 2 /\ p[l - 1] = "/" /\ p[l] = "."
      /\ name = DotDot => l >= 3 /\ p[l - 2] = "/" /\ p[l - 1] = "." /\ p[l] = "."
  <2>1. l \in 1..Len(p)
    BY <1>1 DEF l
  <2>2. Prefix(p, l) = q \o Slash \o name
    BY <1>2
  <2>3. q \in Clean /\ name \in Seq(NameCharacters)
    BY <1>3
  <2>4. QED
    BY <2>1, <2>2, <2>3, NameAtEnd, SMTT(30)
<1>7. name # Dot
  BY <1>6 DEF Settled, Tidy, NoDotEnd, l
<1>8. name # DotDot
  <2> SUFFICES ASSUME name = DotDot PROVE FALSE
    OBVIOUS
  <2>1. l >= 3 /\ p[l - 2] = "/" /\ p[l - 1] = "." /\ p[l] = "."
    BY <1>6
  <2>2. l - 2 \in 1..Len(p) /\ (l - 2) + 2 <= Len(p) /\ (l - 2) + 1 = l - 1 /\ (l - 2) + 2 = l /\ ~((l - 2) + 3 <= Len(p))
    BY <1>1, <2>1 DEF l
  <2>3. l - 2 \in Ups(p)
    BY <2>1, <2>2, UpsProperties
  <2>4. QED
    BY <2>3 DEF Settled
<1>9. CASE name = <<>>
  <2>1. Means(p) = r.place
    BY <1>3, <1>9, StepCases
  <2>2. p = Append(q, "/") /\ p = q \o Slash
    <3>1. q \o Slash \in Clean /\ q \o Slash = Append(q, "/")
      BY <1>3, JoinType, NameTypes
    <3>2. (q \o Slash) \o <<>> = q \o Slash
      BY <3>1, ConcatEmptySeq DEF Clean
    <3>3. QED
      BY <1>2, <1>9, <3>1, <3>2
  <2>3. Len(q) \in Nat /\ l = Len(q) + 1 /\ p[l] = "/"
    <3>1. Len(q) \in Nat /\ Len(<<>>) = 0
      BY <1>3, LenPath
    <3>2. QED
      BY <1>6, <1>9, <3>1
  <2>4. CASE r.place = <<>>
    <3>1. q = <<>>
      BY <2>4, JoinedProperties DEF q
    <3>2. p = Slash /\ l = 1
      <4>1. <<>> \o Slash = Slash /\ Len(<<>>) = 0
        BY DEF Slash
      <4>2. QED
        BY <2>2, <2>3, <3>1, <4>1
    <3>3. QED
      BY <1>5, <2>1, <2>4, <3>2 DEF PathTo
  <2>5. CASE r.place # <<>>
    <3>1. Len(q) >= 1
      BY <1>3, <2>5, PathToProperties DEF PathTo, Rooted, q
    <3>2. Prefix(p, l - 1) = q
      <4>1. l - 1 \in 0..Len(p) /\ l - 1 = Len(q)
        BY <1>1, <2>3 DEF l
      <4>2. /\ Prefix(p, l - 1) \in Clean /\ Len(Prefix(p, l - 1)) = l - 1
            /\ \A j \in 1..(l - 1) : Prefix(p, l - 1)[j] = p[j]
        BY <4>1, PrefixProperties
      <4>3. \A j \in 1..Len(q) : p[j] = q[j]
        BY <1>3, <2>2, AppendProperties DEF Clean
      <4> DEFINE u == Prefix(p, l - 1)
      <4> HIDE DEF u
      <4>4. u \in Clean /\ Len(u) = Len(q) /\ \A j \in 1..Len(u) : u[j] = q[j]
        BY <4>1, <4>2, <4>3 DEF u
      <4>5. u = q
        BY <1>3, <4>4, SamePath
      <4>6. QED
        BY <4>5 DEF u
    <3>3. l > 1
      BY <2>3, <3>1
    <3>4. QED
      BY <1>5, <2>1, <2>3, <2>5, <3>2, <3>3 DEF PathTo, q
  <2>6. QED
    BY <2>4, <2>5
<1>10. CASE name # <<>>
  <2>1. name \in Names
    BY <1>3, <1>7, <1>8, <1>10 DEF Names, NameCharacters
  <2>2. Means(p) = Append(r.place, name)
    BY <1>3, <1>7, <1>8, <1>10, StepCases
  <2>3. PathTo(Means(p)) = p
    <3>1. Joined(Append(r.place, name)) = q \o Slash \o name
      BY <1>3, <2>1, JoinedProperties DEF q
    <3>2. Append(r.place, name) # <<>>
      BY <1>3, <2>1, AppendProperties DEF Places
    <3>3. QED
      BY <1>2, <2>2, <3>1, <3>2 DEF PathTo
  <2>4. p[l] # "/"
    <3>1. Len(name) \in Nat /\ Len(name) # 0 /\ \A m \in 1..Len(name) : name[m] \in NameCharacters
      BY <1>3, <1>10, LenProperties, EmptySeq, ElementOfSeq
    <3>2. Len(name) \in 1..Len(name)
      BY <3>1
    <3>3. p[l] = name[Len(name)]
      BY <1>6, <3>2
    <3>4. QED
      BY <3>1, <3>2, <3>3 DEF NameCharacters
  <2>5. QED
    BY <1>5, <2>3, <2>4
<1>11. QED
  BY <1>9, <1>10

----------------------------------------------------------------------------
(* SimplifyPath.                                                           *)

LEMMA SlashesProperties ==
    ASSUME NEW p \in Path
    PROVE  /\ Slashes(p) \in Clean /\ Len(Slashes(p)) = Len(p) /\ Len(p) \in Nat
           /\ \A i \in 1..Len(p) : Slashes(p)[i] = IF p[i] = "\\" THEN "/" ELSE p[i]
           /\ p \in Clean => Slashes(p) = p
<1>1. Len(p) \in Nat /\ \A i \in 1..Len(p) : p[i] \in Characters
  BY LenProperties, ElementOfSeq DEF Path
<1>2. \A i \in 1..Len(p) : (IF p[i] = "\\" THEN "/" ELSE p[i]) \in Characters \ {"\\"}
  BY <1>1, CharactersAssumption
<1>3. Slashes(p) \in [1..Len(p) -> Characters \ {"\\"}]
  BY <1>2 DEF Slashes
<1>4. Slashes(p) \in Clean /\ Len(Slashes(p)) = Len(p)
  BY <1>1, <1>3, SeqDef, LenProperties DEF Clean
<1>5. \A i \in 1..Len(p) : Slashes(p)[i] = IF p[i] = "\\" THEN "/" ELSE p[i]
  BY DEF Slashes
<1>6. ASSUME p \in Clean PROVE Slashes(p) = p
  <2>1. \A i \in 1..Len(p) : p[i] # "\\"
    BY <1>6, LenPath
  <2>2. QED
    BY <1>4, <1>5, <1>6, <2>1, SamePath
<1>7. QED
  BY <1>1, <1>4, <1>5, <1>6

LEMMA RootedSlashes == ASSUME NEW p \in Path, Rooted(p) PROVE Rooted(Slashes(p))
<1>1. Len(Slashes(p)) = Len(p) /\ Slashes(p)[1] = IF p[1] = "\\" THEN "/" ELSE p[1]
  BY SlashesProperties DEF Rooted
<1>2. QED
  BY <1>1 DEF Rooted

LEMMA LeadingRooted == ASSUME NEW p \in Clean, Rooted(p) PROVE Leading(p) = p
<1>1. ~StartsWith(p, <<".", "/">>)
  BY AtTwo DEF StartsWith, Rooted
<1>2. ~StartsWith(p, <<".", ".", "/">>)
  BY AtThree DEF StartsWith, Rooted
<1>3. QED
  BY <1>1, <1>2 DEF Leading

\* SimplifyPath makes of an absolute path the path of the directory or file
\* that its names lead to from the root.
THEOREM SimplifyPathFollowsNames ==
    \A p \in Path : StartsWith(p, Slash) => SimplifyPath(p) = PathTo(Walk(<<>>, Slashes(p)))
<1> SUFFICES ASSUME NEW p \in Path, StartsWith(p, Slash)
             PROVE  SimplifyPath(p) = PathTo(Means(Slashes(p)))
  BY DEF Means
<1> DEFINE s == Slashes(p)
           s1 == Squeeze(s, <<"/", "/">>, 1)
           s2 == Squeeze(s1, <<"/", ".", "/">>, 2)
           s3 == TrailingDot(s2)
           s4 == DotDots(s3)
           q == TrailingSlash(s4)
<1>1. s \in Clean /\ Rooted(s) /\ p # <<>>
  <2>1. Len(p) \in Nat
    BY SlashesProperties
  <2>2. Rooted(p)
    BY <2>1, StartsWithSlash
  <2>3. QED
    BY <2>2, SlashesProperties, RootedSlashes DEF Rooted
<1>2. s1 \in Clean /\ Rooted(s1) /\ NoDouble(s1) /\ Means(s1) = Means(s)
  <2> HIDE DEF s
  <2>1. QED
    BY <1>1, DoubleSlashes
<1> HIDE DEF s1
<1>3. s2 \in Clean /\ Rooted(s2) /\ NoDouble(s2) /\ NoDot(s2) /\ Means(s2) = Means(s1)
  BY <1>2, DotsBetween
<1> HIDE DEF s2
<1>4. s3 \in Clean /\ Tidy(s3) /\ Means(s3) = Means(s2)
  BY <1>3, DotAtEnd
<1> HIDE DEF s3
<1>5. s4 \in Clean /\ Settled(s4) /\ Means(s4) = Means(s3)
  BY <1>4, NoUps DEF Settled
<1> HIDE DEF s4
<1>6. q = PathTo(Means(s)) /\ Means(s) \in Places
  <2>1. q = PathTo(Means(s4))
    BY <1>5, Canonical
  <2>2. QED
    BY <1>1, <1>2, <1>3, <1>4, <1>5, <2>1, MeansType
<1>7. q \notin {<<>>, DotDot, Dot}
  <2>1. Len(q) >= 1 /\ q[1] = "/"
    BY <1>6, PathToProperties DEF Rooted
  <2>2. DotDot[1] = "." /\ Dot[1] = "." /\ Len(<<>>) = 0
    BY DEF DotDot, Dot
  <2> HIDE DEF q
  <2>3. q # <<>> /\ q # DotDot /\ q # Dot
    BY <2>1, <2>2
  <2>4. QED
    BY <2>3
<1>8. Leading(s2) = s2
  BY <1>3, LeadingRooted
<1>9. SimplifyPath(p) = q
  <2> DEFINE u == TrailingSlash(DotDots(TrailingDot(Leading(Squeeze(Squeeze(Slashes(p), <<"/", "/">>, 1), <<"/", ".", "/">>, 2)))))
  <2>1. u = q
    BY <1>8 DEF s1, s2, s3, s4
  <2>2. SimplifyPath(p) = IF p = <<>> THEN p ELSE IF u \in {<<>>, DotDot, Dot} THEN Slash ELSE u
    BY DEF SimplifyPath
  <2> HIDE DEF u, q
  <2>3. QED
    BY <1>1, <1>7, <2>1, <2>2
<1>10. QED
  BY <1>6, <1>9

----------------------------------------------------------------------------
(* BuildVirtualPath and BuildPath.                                         *)

LEMMA ConcatPlaces ==
    ASSUME NEW x \in Places, NEW y \in Places
    PROVE  /\ x \o y \in Places /\ x \o <<>> = x /\ <<>> \o x = x /\ Len(x \o y) = Len(x) + Len(y)
           /\ \A n \in Names : Append(y, n) \in Places /\ x \o Append(y, n) = Append(x \o y, n)
<1>1. x \o y \in Places /\ x \o <<>> = x /\ <<>> \o x = x /\ Len(x \o y) = Len(x) + Len(y)
  BY ConcatProperties, ConcatEmptySeq DEF Places
<1>2. ASSUME NEW n \in Names PROVE Append(y, n) \in Places /\ x \o Append(y, n) = Append(x \o y, n)
  <2>1. <<n>> \in Seq(Names)
    OBVIOUS
  <2>2. Append(y, n) = y \o <<n>> /\ Append(x \o y, n) = (x \o y) \o <<n>>
    BY <1>1, AppendIsConcat DEF Places
  <2>3. x \o (y \o <<n>>) = (x \o y) \o <<n>>
    BY <2>1, ConcatAssociative DEF Places
  <2>4. QED
    BY <2>2, <2>3, AppendProperties DEF Places
<1>3. QED
  BY <1>1, <1>2

LEMMA PlaceInduction ==
    ASSUME NEW S, <<>> \in S, \A c \in Places, n \in Names : c \in S => Append(c, n) \in S
    PROVE  Places \subseteq S
<1> DEFINE T == {m \in Nat : \A x \in Places : Len(x) = m => x \in S}
<1>1. 0 \in T
  BY EmptySeq DEF Places
<1>2. ASSUME NEW m \in Nat, m \in T PROVE m + 1 \in T
  <2> SUFFICES ASSUME NEW x \in Places, Len(x) = m + 1 PROVE x \in S
    OBVIOUS
  <2>1. x # <<>>
    BY EmptySeq
  <2>2. PICK c \in Places, n \in Names : x = Append(c, n)
    BY <2>1, SequenceEmptyOrAppend DEF Places
  <2>3. Len(c) = m
    <3>1. Len(x) = Len(c) + 1 /\ Len(c) \in Nat
      BY <2>2, AppendProperties, LenProperties DEF Places
    <3>2. QED
      BY <3>1
  <2>4. QED
    BY <1>2, <2>2, <2>3
<1>3. \A m \in Nat : m \in T
  <2> HIDE DEF T
  <2>1. QED
    BY <1>1, <1>2, SetInduction
<1>4. QED
  BY <1>3, LenProperties DEF Places

LEMMA JoinedConcat ==
    ASSUME NEW x \in Places, NEW y \in Places PROVE Joined(x \o y) = Joined(x) \o Joined(y)
<1> DEFINE S == {z \in Places : Joined(x \o z) = Joined(x) \o Joined(z)}
<1>1. <<>> \in S
  BY NameTypes, ConcatPlaces, JoinedProperties, ConcatEmptySeq DEF Clean
<1>2. ASSUME NEW c \in Places, NEW n \in Names, c \in S PROVE Append(c, n) \in S
  <2> DEFINE a == Joined(x)
             b == Joined(c)
  <2>1. a \in Clean /\ b \in Clean /\ Slash \in Clean /\ n \in Clean /\ x \o c \in Places
    BY JoinedProperties, NameTypes, ConcatPlaces
  <2>2. Joined(Append(c, n)) = b \o Slash \o n /\ Append(c, n) \in Places
    BY JoinedProperties
  <2>3. Joined(x \o Append(c, n)) = (a \o b) \o Slash \o n
    <3>1. x \o Append(c, n) = Append(x \o c, n)
      BY ConcatPlaces
    <3>2. Joined(Append(x \o c, n)) = Joined(x \o c) \o Slash \o n
      BY <2>1, JoinedProperties
    <3>3. Joined(x \o c) = a \o b
      BY <1>2
    <3>4. QED
      BY <3>1, <3>2, <3>3
  <2> HIDE DEF a, b
  <2>4. (a \o b) \o Slash = a \o (b \o Slash) /\ b \o Slash \in Clean
    BY <2>1, ConcatAssociative, ConcatPath DEF Clean
  <2>5. (a \o (b \o Slash)) \o n = a \o ((b \o Slash) \o n)
    <3> DEFINE d == b \o Slash
    <3>1. d \in Clean
      BY <2>4
    <3> HIDE DEF d
    <3>2. (a \o d) \o n = a \o (d \o n)
      BY <2>1, <3>1, ConcatAssociative DEF Clean
    <3>3. QED
      BY <3>2 DEF d
  <2>6. QED
    BY <2>2, <2>3, <2>4, <2>5 DEF a, b
<1>3. Places \subseteq S
  <2> HIDE DEF S
  <2>1. QED
    BY <1>1, <1>2, PlaceInduction
<1>4. QED
  BY <1>3

Fresh(place) == [place |-> place, name |-> <<>>]

LEMMA FreshType == ASSUME NEW place \in Places PROVE Fresh(place) \in Readings
BY NameTypes DEF Fresh, Readings

\* The path to a place leads there, from where one is.
LEMMA ReadFrom ==
    ASSUME NEW base \in Places, NEW c \in Places, NEW n \in Seq(NameCharacters)
    PROVE  ReadAll(Fresh(base), Joined(c) \o Slash \o n) = [place |-> base \o c, name |-> n]
<1> DEFINE S == {x \in Places : ReadAll(Fresh(base), Joined(x) \o Slash) = Fresh(base \o x)}
<1>1. <<>> \in S
  <2>1. Joined(<<>>) \o Slash = Slash
    <3>1. <<>> \o Slash = Slash
      BY DEF Slash
    <3>2. QED
      BY <3>1, JoinedProperties
  <2>2. ReadAll(Fresh(base), Slash) = Read(Fresh(base), "/")
    <3>1. "/" \in Characters \ {"\\"}
      BY CharactersAssumption
    <3>2. QED
      BY <3>1, FreshType, ReadOne DEF Slash
  <2>3. Read(Fresh(base), "/") = Fresh(base)
    BY StepCases DEF Read, Fresh
  <2>4. QED
    BY <2>1, <2>2, <2>3, NameTypes, ConcatPlaces
<1>2. ASSUME NEW x \in Places, NEW k \in Names, x \in S PROVE Append(x, k) \in S
  <2> DEFINE p == Joined(x) \o Slash
             q == p \o k
  <2>1. p \in Clean /\ k \in Clean /\ q \in Clean /\ k \in Seq(NameCharacters)
    BY JoinedProperties, NameTypes, JoinType
  <2>2. Joined(Append(x, k)) = q /\ Append(x, k) \in Places
    BY JoinedProperties
  <2>3. ReadAll(Fresh(base), p) = Fresh(base \o x) /\ base \o x \in Places
    BY <1>2, ConcatPlaces
  <2> HIDE DEF p
  <2>4. ReadAll(Fresh(base), q) = [place |-> base \o x, name |-> k]
    <3>1. ReadAll(Fresh(base), q) = ReadAll(ReadAll(Fresh(base), p), k)
      BY <2>1, FreshType, ReadConcat
    <3>2. QED
      BY <2>1, <2>3, <3>1, ReadName DEF Fresh
  <2>5. Ends([place |-> base \o x, name |-> k]) = Append(base \o x, k)
    BY StepCases DEF Ends, Names
  <2> HIDE DEF q
  <2>6. q \o Slash = Append(q, "/")
    BY <2>1, JoinType
  <2>7. ReadAll(Fresh(base), q \o Slash) = Fresh(Append(base \o x, k))
    <3>1. ReadAll(Fresh(base), Append(q, "/")) = [place |-> Ends(ReadAll(Fresh(base), q)), name |-> <<>>]
      BY <2>1, FreshType, ReadSlash
    <3>2. Ends(ReadAll(Fresh(base), q)) = Append(base \o x, k)
      BY <2>4, <2>5
    <3>3. QED
      BY <2>6, <3>1, <3>2 DEF Fresh
  <2>8. base \o Append(x, k) = Append(base \o x, k)
    BY ConcatPlaces
  <2>9. QED
    BY <2>2, <2>7, <2>8
<1>3. Places \subseteq S
  <2> HIDE DEF S
  <2>1. QED
    BY <1>1, <1>2, PlaceInduction
<1> DEFINE p == Joined(c) \o Slash
<1>4. ReadAll(Fresh(base), p) = Fresh(base \o c) /\ base \o c \in Places
  BY <1>3, ConcatPlaces
<1>5. p \in Clean /\ n \in Clean
  BY JoinedProperties, NameTypes, JoinType
<1> HIDE DEF p
<1>6. ReadAll(Fresh(base), p \o n) = ReadAll(Fresh(base \o c), n)
  BY <1>4, <1>5, FreshType, ReadConcat
<1>7. ReadAll(Fresh(base \o c), n) = [place |-> base \o c, name |-> n]
  BY <1>4, ReadName DEF Fresh
<1>8. QED
  BY <1>6, <1>7 DEF p

\* The same, with a slash in between.
LEMMA ReadAfter ==
    ASSUME NEW start \in Places, NEW p \in Clean
    PROVE  /\ PathTo(start) \o Slash \o p \in Clean /\ Rooted(PathTo(start) \o Slash \o p)
           /\ ReadAll(Root, PathTo(start) \o Slash \o p) = ReadAll(Fresh(start), p)
<1> DEFINE s == PathTo(start)
           q == s \o Slash
<1>1. s \in Clean /\ Rooted(s) /\ Root = Fresh(<<>>) /\ Fresh(<<>>) \in Readings /\ <<>> \in Places
  BY PathToProperties, NameTypes, FreshType DEF Root, Fresh
<1>2. q \in Clean /\ q \o p \in Clean /\ q = Append(s, "/") /\ Len(q) = Len(s) + 1
  BY <1>1, JoinType
<1>3. ReadAll(Root, q) = Fresh(start)
  <2>1. CASE start = <<>>
    <3>1. s = Slash
      BY <2>1 DEF PathTo
    <3>2. ReadAll(Root, Slash) = Fresh(<<>>)
      <4>1. ReadAll(Root, Slash) = Read(Root, "/") /\ "/" \in Characters \ {"\\"}
        BY <1>1, CharactersAssumption, ReadOne DEF Slash
      <4>2. QED
        BY <4>1, StepCases DEF Read, Root, Fresh
    <3>3. ReadAll(Root, Append(s, "/")) = Fresh(Ends(ReadAll(Root, s)))
      BY <1>1, ReadSlash DEF Fresh
    <3>4. Ends(Fresh(<<>>)) = <<>>
      BY EndsFresh DEF Fresh
    <3>5. QED
      BY <1>2, <2>1, <3>1, <3>2, <3>3, <3>4
  <2>2. CASE start # <<>>
    <3>1. s = Joined(start)
      BY <2>2 DEF PathTo
    <3>2. q \o <<>> = q
      BY <1>2, ConcatEmptySeq DEF Clean
    <3>3. ReadAll(Fresh(<<>>), Joined(start) \o Slash \o <<>>) = [place |-> <<>> \o start, name |-> <<>>]
      BY <1>1, NameTypes, ReadFrom
    <3>4. <<>> \o start = start
      BY ConcatPlaces
    <3>5. QED
      BY <1>1, <3>1, <3>2, <3>3, <3>4 DEF Fresh
  <2>3. QED
    BY <2>1, <2>2
<1> HIDE DEF s
<1>4. Rooted(q \o p)
  <2>1. Len(s) \in Nat /\ Len(s) >= 1 /\ s[1] = "/" /\ Len(p) \in Nat
    BY <1>1, LenPath DEF Rooted
  <2>2. q[1] = "/"
    BY <1>1, <1>2, <2>1, AppendProperties DEF Clean
  <2> HIDE DEF q
  <2>3. Len(q \o p) = Len(q) + Len(p) /\ (q \o p)[1] = q[1]
    <3>1. 1 \in 1..(Len(q) + Len(p)) /\ 1 <= Len(q)
      BY <1>2, <2>1
    <3>2. QED
      BY <1>2, <3>1, ConcatPath
  <2>4. QED
    BY <1>2, <2>1, <2>2, <2>3 DEF Rooted
<1> HIDE DEF q
<1>5. ReadAll(Root, q \o p) = ReadAll(Fresh(start), p)
  BY <1>1, <1>2, <1>3, ReadConcat
<1>6. QED
  BY <1>2, <1>4, <1>5 DEF q, s

LEMMA WalkType ==
    ASSUME NEW place \in Places, NEW p \in Clean
    PROVE  Walk(place, p) \in Places /\ Walk(place, p) = Ends(ReadAll(Fresh(place), p))
<1>1. Walk(place, p) = Ends(ReadAll(Fresh(place), p))
  BY DEF Walk, Ends, Fresh
<1>2. ReadAll(Fresh(place), p) \in Readings
  BY FreshType, ReadAllType
<1>3. QED
  BY <1>1, <1>2, StepType DEF Ends, Readings

LEMMA PlaceType ==
    ASSUME NEW place \in Places, NEW asked \in Path \cup {NoPath} PROVE Place(place, asked) \in Places
<1>1. CASE asked = NoPath
  BY <1>1 DEF Place
<1>2. CASE asked # NoPath
  <2>1. Slashes(asked) \in Clean
    BY <1>2, SlashesProperties
  <2>2. QED
    BY <1>2, <2>1, WalkType, NameTypes DEF Place
<1>3. QED
  BY <1>1, <1>2

\* A path in a directory, before SimplifyPath.
LEMMA InDirectory ==
    ASSUME NEW start \in Places, NEW p \in Path
    PROVE  LET long == PathTo(start) \o Slash \o p IN
           /\ long \in Path /\ StartsWith(long, Slash)
           /\ Len(long) = Len(PathTo(start)) + 1 + Len(p)
           /\ Slashes(long) = PathTo(start) \o Slash \o Slashes(p)
<1> DEFINE s == PathTo(start)
           q == s \o Slash
           long == q \o p
           other == q \o Slashes(p)
<1>1. s \in Clean /\ Rooted(s) /\ Len(s) \in Nat /\ Len(s) >= 1 /\ s[1] = "/"
  BY PathToProperties, LenPath DEF Rooted
<1>2. q \in Clean /\ q = Append(s, "/") /\ Len(q) = Len(s) + 1
  BY <1>1, NameTypes, JoinType
<1>3. q[1] = "/"
  BY <1>1, <1>2, AppendProperties DEF Clean
<1> HIDE DEF s, q
<1>4. q \in Path /\ Len(p) \in Nat /\ Slashes(p) \in Clean /\ Len(Slashes(p)) = Len(p)
  BY <1>2, NameTypes, SlashesProperties
<1>5. /\ long \in Path /\ Len(long) = Len(q) + Len(p)
      /\ \A i \in 1..(Len(q) + Len(p)) : long[i] = IF i <= Len(q) THEN q[i] ELSE p[i - Len(q)]
  BY <1>4, ConcatProperties DEF Path
<1>6. /\ other \in Clean /\ Len(other) = Len(q) + Len(p)
      /\ \A i \in 1..(Len(q) + Len(p)) : other[i] = IF i <= Len(q) THEN q[i] ELSE Slashes(p)[i - Len(q)]
  <2> DEFINE t == Slashes(p)
  <2>1. t \in Clean /\ Len(t) = Len(p)
    BY <1>4
  <2> HIDE DEF t
  <2>2. /\ q \o t \in Clean /\ Len(q \o t) = Len(q) + Len(t)
        /\ \A i \in 1..(Len(q) + Len(t)) : (q \o t)[i] = IF i <= Len(q) THEN q[i] ELSE t[i - Len(q)]
    BY <1>2, <2>1, ConcatPath
  <2>3. QED
    BY <2>1, <2>2 DEF t
<1> HIDE DEF long, other
<1>7. Slashes(long) = other
  <2>1. /\ Slashes(long) \in Clean /\ Len(Slashes(long)) = Len(long)
        /\ \A i \in 1..Len(long) : Slashes(long)[i] = IF long[i] = "\\" THEN "/" ELSE long[i]
    BY <1>5, SlashesProperties
  <2>2. ASSUME NEW i \in 1..Len(long) PROVE Slashes(long)[i] = other[i]
    <3>1. CASE i <= Len(q)
      <4>1. i \in 1..Len(q) /\ Len(q) \in Nat
        BY <1>1, <1>2, <3>1
      <4>2. long[i] = q[i] /\ other[i] = q[i] /\ q[i] # "\\"
        BY <1>2, <1>5, <1>6, <3>1, <4>1, LenPath
      <4>3. QED
        BY <2>1, <4>2
    <3>2. CASE ~(i <= Len(q))
      <4> DEFINE j == i - Len(q)
      <4>1. j \in 1..Len(p)
        BY <1>1, <1>2, <1>4, <1>5, <3>2
      <4>2. long[i] = p[j] /\ other[i] = Slashes(p)[j]
        BY <1>5, <1>6, <3>2
      <4> HIDE DEF j
      <4>3. Slashes(p)[j] = IF p[j] = "\\" THEN "/" ELSE p[j]
        BY <4>1, SlashesProperties
      <4>4. QED
        BY <2>1, <4>2, <4>3
    <3>3. QED
      BY <3>1, <3>2
  <2>3. QED
    BY <1>5, <1>6, <2>1, <2>2, SamePath
<1>8. StartsWith(long, Slash)
  <2>1. 1 \in 1..(Len(q) + Len(p)) /\ 1 <= Len(q) /\ Len(long) \in Nat /\ Len(long) >= 1
    BY <1>1, <1>2, <1>4, <1>5
  <2>2. long[1] = "/"
    BY <1>3, <1>5, <2>1
  <2>3. QED
    BY <2>1, <2>2, StartsWithSlash DEF Rooted
<1>9. QED
  BY <1>2, <1>5, <1>7, <1>8 DEF long, other, q, s

\* SimplifyPath of a path in a directory.
LEMMA SimplifyAfter ==
    ASSUME NEW start \in Places, NEW p \in Path
    PROVE  SimplifyPath(PathTo(start) \o Slash \o p) = PathTo(Walk(start, Slashes(p)))
<1> DEFINE long == PathTo(start) \o Slash \o p
           s == Slashes(p)
<1>1. s \in Clean
  BY SlashesProperties
<1>2. long \in Path /\ StartsWith(long, Slash) /\ Slashes(long) = PathTo(start) \o Slash \o s
  BY InDirectory
<1> HIDE DEF long, s
<1>3. SimplifyPath(long) = PathTo(Means(Slashes(long)))
  BY <1>2, SimplifyPathFollowsNames DEF Means
<1>4. ReadAll(Root, Slashes(long)) = ReadAll(Fresh(start), s) /\ Slashes(long) \in Clean
  BY <1>1, <1>2, ReadAfter
<1>5. Means(Slashes(long)) = Walk(start, s)
  BY <1>1, <1>4, MeansType, WalkType
<1>6. QED
  BY <1>3, <1>5 DEF long, s

LEMMA PrefixConcat ==
    ASSUME NEW q \in Clean, NEW p \in Clean, NEW l \in 0..Len(p)
    PROVE  Prefix(q \o p, Len(q) + l) = q \o Prefix(p, l)
<1> DEFINE long == q \o p
           n == Prefix(p, l)
           k == Len(q) + l
<1>1. /\ Len(q) \in Nat /\ Len(p) \in Nat /\ long \in Clean /\ Len(long) = Len(q) + Len(p)
      /\ \A i \in 1..(Len(q) + Len(p)) : long[i] = IF i <= Len(q) THEN q[i] ELSE p[i - Len(q)]
  BY ConcatPath, LenPath
<1>2. n \in Clean /\ Len(n) = l /\ \A j \in 1..l : n[j] = p[j]
  BY PrefixProperties
<1> HIDE DEF long, n
<1>3. k \in 0..Len(long)
  BY <1>1
<1>4. /\ Prefix(long, k) \in Clean /\ Len(Prefix(long, k)) = k
      /\ \A j \in 1..k : Prefix(long, k)[j] = long[j]
  BY <1>1, <1>3, PrefixProperties
<1>5. /\ q \o n \in Clean /\ Len(q \o n) = k
      /\ \A i \in 1..k : (q \o n)[i] = IF i <= Len(q) THEN q[i] ELSE n[i - Len(q)]
  <2>1. /\ q \o n \in Clean /\ Len(q \o n) = Len(q) + Len(n)
        /\ \A i \in 1..(Len(q) + Len(n)) : (q \o n)[i] = IF i <= Len(q) THEN q[i] ELSE n[i - Len(q)]
    BY <1>2, ConcatPath
  <2>2. QED
    BY <1>2, <2>1
<1>6. ASSUME NEW j \in 1..k PROVE Prefix(long, k)[j] = (q \o n)[j]
  <2>1. j \in 1..(Len(q) + Len(p)) /\ (~(j <= Len(q)) => j - Len(q) \in 1..l)
    BY <1>1
  <2>2. Prefix(long, k)[j] = IF j <= Len(q) THEN q[j] ELSE p[j - Len(q)]
    BY <1>1, <1>4, <2>1
  <2>3. QED
    BY <1>2, <1>5, <2>1, <2>2
<1>7. Prefix(long, k) = q \o n
  BY <1>4, <1>5, <1>6, SamePath
<1>8. QED
  BY <1>7 DEF long, n

\* What is left of the path to a place when it is cut off.
LEMMA PathCutOff ==
    ASSUME NEW place \in Places, NEW m \in 1..Len(PathTo(place))
    PROVE  \E c \in Places, n \in Seq(NameCharacters) : Prefix(PathTo(place), m) = Joined(c) \o Slash \o n
<1> DEFINE Some(p) == \E c \in Places, n \in Seq(NameCharacters) : p = Joined(c) \o Slash \o n
           S == {x \in Places : \A k \in 1..Len(Joined(x)) : Some(Prefix(Joined(x), k))}
<1>1. <<>> \in S
  <2>1. Joined(<<>>) = <<>> /\ Len(<<>>) = 0 /\ <<>> \in Places
    BY JoinedProperties, NameTypes
  <2> HIDE DEF Some
  <2>2. QED
    BY <2>1
<1>2. ASSUME NEW x \in Places, NEW name \in Names, x \in S PROVE Append(x, name) \in S
  <2> DEFINE a == Joined(x)
             q == a \o Slash
             long == q \o name
  <2>1. a \in Clean /\ q \in Clean /\ long \in Clean /\ name \in Clean /\ name \in Seq(NameCharacters) /\ Len(q) = Len(a) + 1
        /\ Len(a) \in Nat /\ Len(name) \in Nat /\ Len(long) = Len(q) + Len(name)
    BY JoinedProperties, NameTypes, JoinType, ConcatPath, LenPath
  <2>2. Joined(Append(x, name)) = long /\ Append(x, name) \in Places
    BY JoinedProperties
  <2>3. \A i \in 1..Len(a) : q[i] = a[i]
    <3>1. q = Append(a, "/")
      BY <2>1, JoinType
    <3>2. QED
      BY <2>1, <3>1, AppendProperties DEF Clean
  <2>4. \A i \in 1..Len(long) : long[i] = IF i <= Len(q) THEN q[i] ELSE name[i - Len(q)]
    BY <2>1, ConcatPath
  <2>5. \A k \in 1..Len(a) : Some(Prefix(a, k))
    BY <1>2
  <2> SUFFICES ASSUME NEW k \in 1..Len(long) PROVE Some(Prefix(long, k))
    BY <2>2
  <2> HIDE DEF a, q, long, Some
  <2>6. k \in 0..Len(long) /\ Prefix(long, k) \in Clean /\ Len(Prefix(long, k)) = k /\ \A j \in 1..k : Prefix(long, k)[j] = long[j]
    <3>1. k \in 0..Len(long)
      BY <2>1
    <3>2. QED
      BY <2>1, <3>1, PrefixProperties
  <2>7. CASE k <= Len(a)
    <3>1. k \in 0..Len(a) /\ k \in 1..Len(a)
      BY <2>1, <2>7
    <3>2. Prefix(a, k) \in Clean /\ Len(Prefix(a, k)) = k /\ \A j \in 1..k : Prefix(a, k)[j] = a[j]
      BY <2>1, <3>1, PrefixProperties
    <3>3. ASSUME NEW j \in 1..k PROVE Prefix(long, k)[j] = Prefix(a, k)[j]
      <4>1. j \in 1..Len(a) /\ j \in 1..Len(long) /\ j <= Len(q)
        BY <2>1, <3>1
      <4>2. QED
        BY <2>3, <2>4, <2>6, <3>2, <4>1
    <3>4. Prefix(long, k) = Prefix(a, k)
      BY <2>6, <3>2, <3>3, SamePath
    <3>5. QED
      BY <2>5, <3>1, <3>4
  <2>8. CASE ~(k <= Len(a))
    <3> DEFINE l == k - Len(q)
               n == Prefix(name, l)
    <3>1. l \in 0..Len(name) /\ k = Len(q) + l
      BY <2>1, <2>8
    <3> HIDE DEF l
    <3>2. n = SubSeq(name, 1, l) /\ n \in Clean /\ Len(n) = l /\ \A j \in 1..l : n[j] = name[j]
      BY <2>1, <3>1, PrefixProperties
    <3>3. n \in Seq(NameCharacters)
      <4>1. \A i \in 1..l : name[i] \in NameCharacters
        BY <2>1, <3>1, ElementOfSeq
      <4>2. SubSeq(name, 1, l) \in Seq(NameCharacters)
        BY <2>1, <3>1, <4>1, SubSeqProperties
      <4>3. QED
        BY <3>2, <4>2
    <3> HIDE DEF n
    <3>4. Prefix(long, k) = q \o n
      BY <2>1, <3>1, PrefixConcat DEF long, n
    <3>5. QED
      BY <3>3, <3>4 DEF Some, q, a
  <2>9. QED
    BY <2>7, <2>8
<1>3. Places \subseteq S
  <2> HIDE DEF S
  <2>1. QED
    BY <1>1, <1>2, PlaceInduction
<1>4. CASE place = <<>>
  <2>1. PathTo(place) = Slash /\ m = 1 /\ Len(Slash) = 1
    BY <1>4 DEF PathTo, Slash
  <2>2. Prefix(Slash, 1) = Slash
    BY <2>1, NameTypes, PrefixAll
  <2>3. Joined(<<>>) \o Slash \o <<>> = Slash
    <3>1. <<>> \o Slash \o <<>> = Slash
      BY DEF Slash
    <3>2. QED
      BY <3>1, JoinedProperties
  <2>4. QED
    BY <2>1, <2>2, <2>3, NameTypes
<1>5. CASE place # <<>>
  BY <1>3, <1>5 DEF PathTo
<1>6. QED
  BY <1>4, <1>5

\* A path that is cut off after its third character still leads down.
LEMMA WalkCutOff ==
    ASSUME NEW start \in Places, NEW place \in Places, NEW m \in 4..Len(PathTo(place))
    PROVE  \E x \in Places : Walk(start, Prefix(PathTo(place), m)) = start \o x
<1> DEFINE p == Prefix(PathTo(place), m)
<1>1. m \in 1..Len(PathTo(place)) /\ m \in 0..Len(PathTo(place)) /\ PathTo(place) \in Clean
  BY PathToProperties
<1>2. PICK c \in Places, n \in Seq(NameCharacters) : p = Joined(c) \o Slash \o n
  BY <1>1, PathCutOff
<1>3. p \in Clean /\ Len(p) = m
  BY <1>1, PrefixProperties
<1> HIDE DEF p
<1>4. Walk(start, p) = Step(start \o c, n) /\ start \o c \in Places
  <2>1. ReadAll(Fresh(start), p) = [place |-> start \o c, name |-> n]
    BY <1>2, ReadFrom
  <2>2. Walk(start, p) = Ends(ReadAll(Fresh(start), p))
    BY <1>3, WalkType
  <2>3. start \o c \in Places
    BY ConcatPlaces
  <2>4. QED
    BY <2>1, <2>2, <2>3 DEF Ends
<1>5. CASE n \in {<<>>, Dot}
  <2>1. Step(start \o c, n) = start \o c
    BY <1>5, StepCases
  <2>2. QED
    BY <1>4, <2>1 DEF p
<1>6. CASE n = DotDot
  <2>1. c # <<>>
    <3> SUFFICES ASSUME c = <<>> PROVE FALSE
      OBVIOUS
    <3>1. p = <<>> \o Slash \o DotDot
      BY <1>2, <1>6, JoinedProperties
    <3>2. Len(<<>> \o Slash \o DotDot) = 3
      BY DEF Slash, DotDot
    <3>3. QED
      BY <1>3, <3>1, <3>2
  <2>2. PICK d \in Places, k \in Names : c = Append(d, k)
    BY <2>1, SequenceEmptyOrAppend DEF Places
  <2>3. start \o c = Append(start \o d, k) /\ start \o d \in Places
    BY <2>2, ConcatPlaces
  <2>4. Step(start \o c, n) = SubSeq(start \o c, 1, Len(start \o c) - 1)
    BY <1>6, StepCases
  <2>5. Step(start \o c, n) = start \o d
    BY <2>3, <2>4, DropLast
  <2>6. QED
    BY <1>4, <2>5 DEF p
<1>7. CASE n \notin {<<>>, Dot, DotDot}
  <2>1. n \in Names
    BY <1>7 DEF Names, NameCharacters
  <2>2. Step(start \o c, n) = start \o Append(c, n) /\ Append(c, n) \in Places
    <3>1. Step(start \o c, n) = Append(start \o c, n)
      BY <1>7, StepCases
    <3>2. Append(c, n) \in Places /\ start \o Append(c, n) = Append(start \o c, n)
      BY <2>1, ConcatPlaces
    <3>3. QED
      BY <3>1, <3>2
  <2>3. QED
    BY <1>4, <2>2 DEF p
<1>8. QED
  BY <1>5, <1>6, <1>7

\* The whole path leads to its place.
LEMMA WalkWhole ==
    ASSUME NEW start \in Places, NEW place \in Places
    PROVE  Walk(start, PathTo(place)) = start \o place
<1>1. CASE place = <<>>
  <2>1. PathTo(place) = Joined(<<>>) \o Slash \o <<>>
    <3>1. <<>> \o Slash \o <<>> = Slash
      BY DEF Slash
    <3>2. QED
      BY <1>1, <3>1, JoinedProperties DEF PathTo
  <2>2. ReadAll(Fresh(start), PathTo(place)) = [place |-> start \o <<>>, name |-> <<>>]
    BY <2>1, NameTypes, ReadFrom
  <2>3. Walk(start, PathTo(place)) = Ends(ReadAll(Fresh(start), PathTo(place)))
    BY PathToProperties, WalkType
  <2>4. QED
    BY <1>1, <2>2, <2>3, EndsFresh
<1>2. CASE place # <<>>
  <2>1. PICK c \in Places, n \in Names : place = Append(c, n) /\ Joined(place) = Joined(c) \o Slash \o n
    BY <1>2, PathToProperties
  <2>2. n \in Seq(NameCharacters) /\ n \notin {<<>>, Dot, DotDot} /\ PathTo(place) = Joined(c) \o Slash \o n
    BY <1>2, <2>1, NameTypes DEF Names, PathTo
  <2>3. ReadAll(Fresh(start), PathTo(place)) = [place |-> start \o c, name |-> n]
    BY <2>2, ReadFrom
  <2>4. Walk(start, PathTo(place)) = Ends(ReadAll(Fresh(start), PathTo(place)))
    BY PathToProperties, WalkType
  <2>5. Ends([place |-> start \o c, name |-> n]) = Append(start \o c, n)
    BY <2>2, StepCases DEF Ends
  <2>6. start \o place = Append(start \o c, n)
    BY <2>1, ConcatPlaces
  <2>7. QED
    BY <2>3, <2>4, <2>5, <2>6
<1>3. QED
  BY <1>1, <1>2

LEMMA StartsWithConcat ==
    ASSUME NEW a \in Clean, NEW b \in Clean, Rooted(b) PROVE StartsWith(a \o b, a \o Slash)
<1> DEFINE p == a \o b
           s == a \o Slash
<1>1. Len(a) \in Nat /\ Len(b) \in Nat /\ Len(b) >= 1 /\ b[1] = "/"
  BY LenPath DEF Rooted
<1>2. /\ Len(p) = Len(a) + Len(b)
      /\ \A i \in 1..(Len(a) + Len(b)) : p[i] = IF i <= Len(a) THEN a[i] ELSE b[i - Len(a)]
  BY ConcatPath
<1>3. s = Append(a, "/") /\ Len(s) = Len(a) + 1
  BY NameTypes, JoinType
<1>4. s[Len(a) + 1] = "/" /\ \A i \in 1..Len(a) : s[i] = a[i]
  BY <1>3, AppendProperties, CharactersAssumption DEF Clean
<1> HIDE DEF p, s
<1>5. ASSUME NEW k \in 1..Len(s) PROVE p[1 + k - 1] = s[k]
  <2>1. 1 + k - 1 = k /\ k \in 1..(Len(a) + Len(b)) /\ (k <= Len(a) \/ k = Len(a) + 1)
    BY <1>1, <1>3
  <2>2. CASE k <= Len(a)
    <3>1. k \in 1..Len(a)
      BY <1>1, <2>2
    <3>2. QED
      BY <1>2, <1>4, <2>1, <2>2, <3>1
  <2>3. CASE k = Len(a) + 1
    <3>1. ~(k <= Len(a)) /\ k - Len(a) = 1
      BY <1>1, <2>3
    <3>2. QED
      BY <1>1, <1>2, <1>4, <2>1, <2>3, <3>1
  <2>4. QED
    BY <2>1, <2>2, <2>3
<1>6. 1 + Len(s) - 1 <= Len(p)
  BY <1>1, <1>2, <1>3
<1>7. QED
  BY <1>5, <1>6 DEF StartsWith, At, p, s

\* The path to a place below start is below that of start, and not shorter
\* than what is below.
LEMMA BelowStart ==
    ASSUME NEW start \in Places, NEW x \in Places
    PROVE  Below(PathTo(start \o x), PathTo(start)) /\ Len(PathTo(start \o x)) >= Len(PathTo(x))
<1> DEFINE p == PathTo(start \o x)
           dir == PathTo(start)
<1>1. start \o x \in Places /\ p \in Clean /\ Rooted(p) /\ dir \in Clean /\ Rooted(dir)
  BY ConcatPlaces, PathToProperties
<1>2. CASE start = <<>>
  <2>1. dir = Slash /\ start \o x = x
    BY <1>2, ConcatPlaces DEF PathTo
  <2>2. StartsWith(p, Slash) /\ Len(p) \in Nat
    BY <1>1, StartsWithSlash, LenPath
  <2>3. QED
    BY <2>1, <2>2 DEF Below
<1>3. CASE start # <<>>
  <2>1. dir = Joined(start)
    BY <1>3 DEF PathTo
  <2>2. dir # Slash
    <3>1. PICK c \in Places, n \in Names : Joined(start) = Joined(c) \o Slash \o n
      BY <1>3, PathToProperties
    <3>2. Joined(c) \in Clean /\ n \in Clean /\ Len(n) # 0 /\ Len(n) \in Nat /\ Len(Joined(c)) \in Nat
      <4>1. Joined(c) \in Clean /\ n \in Clean /\ n # <<>>
        BY JoinedProperties, NameTypes DEF Names
      <4>2. QED
        BY <4>1, LenPath, EmptySeq DEF Clean
    <3>3. Len(Joined(start)) = Len(Joined(c)) + 1 + Len(n)
      BY <3>1, <3>2, JoinType
    <3>4. Len(Slash) = 1
      BY DEF Slash
    <3>5. Len(Joined(start)) # 1
      BY <3>2, <3>3
    <3>6. QED
      BY <2>1, <3>4, <3>5
  <2>3. Len(start) \in Nat /\ Len(start) # 0 /\ Len(x) \in Nat /\ Len(start \o x) = Len(start) + Len(x)
    BY <1>3, EmptySeq, LenProperties, ConcatPlaces DEF Places
  <2>4. p = Joined(start \o x)
    <3>1. start \o x # <<>>
      <4> DEFINE y == start \o x
      <4>1. Len(y) # 0
        BY <2>3
      <4> HIDE DEF y
      <4>2. y # <<>>
        BY <4>1
      <4>3. QED
        BY <4>2 DEF y
    <3>2. QED
      BY <3>1 DEF PathTo
  <2>5. p = dir \o Joined(x) /\ Joined(x) \in Clean
    BY <2>1, <2>4, JoinedConcat, JoinedProperties
  <2>6. CASE x = <<>>
    <3>1. p = dir
      BY <2>1, <2>4, <2>6, ConcatPlaces
    <3>2. Len(PathTo(x)) = 1 /\ Len(p) >= 1
      BY <1>1, <2>6 DEF PathTo, Slash, Rooted
    <3>3. QED
      BY <3>1, <3>2 DEF Below
  <2>7. CASE x # <<>>
    <3>1. PathTo(x) = Joined(x) /\ Rooted(Joined(x))
      BY <2>7, PathToProperties DEF PathTo
    <3>2. StartsWith(p, dir \o Slash)
      BY <1>1, <2>5, <3>1, StartsWithConcat
    <3>3. Len(p) >= Len(PathTo(x))
      <4>1. Len(p) = Len(dir) + Len(Joined(x)) /\ Len(dir) \in Nat /\ Len(Joined(x)) \in Nat
        BY <1>1, <2>5, ConcatPath, LenPath
      <4>2. QED
        BY <3>1, <4>1
    <3>4. QED
      BY <2>2, <3>2, <3>3 DEF Below
  <2>8. QED
    BY <2>6, <2>7
<1>4. QED
  BY <1>2, <1>3

LEMMA NoPathProperties ==
    /\ NoPath \notin Path
    /\ \A p \in Path : Fits(p) = IF Len(p) <= MAX_PATH THEN p ELSE NoPath
<1>1. NoPath \notin Path
  <2> SUFFICES ASSUME NoPath \in Path PROVE FALSE
    OBVIOUS
  <2>1. Len(NoPath) = 1 /\ NoPath[1] = "(null)"
    BY DEF NoPath
  <2>2. NoPath[1] \in Characters
    BY <2>1, ElementOfSeq DEF Path
  <2>3. QED
    BY <2>1, <2>2, CharactersAssumption
<1>2. QED
  BY <1>1 DEF Fits

LEMMA PrintedProperties ==
    ASSUME NEW p \in Path, StartsWith(p, Slash)
    PROVE  /\ Printed(p) \in Path /\ StartsWith(Printed(p), Slash)
           /\ Len(p) <= MAX_PATH + 3 => Printed(p) = p
<1> DEFINE n == IF MAX_PATH + 3 > Len(p) THEN Len(p) ELSE MAX_PATH + 3
<1>1. Len(p) \in Nat /\ Rooted(p) /\ \A i \in 1..Len(p) : p[i] \in Characters
  BY LenProperties, ElementOfSeq, StartsWithSlash DEF Path
<1>2. n \in 1..Len(p) /\ (Len(p) <= MAX_PATH + 3 => n = Len(p))
  BY <1>1, MaxPathAssumption DEF Rooted
<1>3. Printed(p) = SubSeq(p, 1, n)
  BY DEF Printed, Prefix
<1> HIDE DEF n
<1>4. /\ SubSeq(p, 1, n) \in Path /\ Len(SubSeq(p, 1, n)) = n /\ SubSeq(p, 1, n)[1] = p[1]
  <2>1. \A i \in 1..n : p[i] \in Characters
    BY <1>1, <1>2
  <2>2. /\ SubSeq(p, 1, n) \in Seq(Characters)
        /\ Len(SubSeq(p, 1, n)) = IF 1 <= n THEN n - 1 + 1 ELSE 0
        /\ \A i \in 1..(n - 1 + 1) : SubSeq(p, 1, n)[i] = p[1 + i - 1]
    BY <1>2, <2>1, SubSeqProperties
  <2>3. 1 \in 1..(n - 1 + 1) /\ 1 + 1 - 1 = 1
    BY <1>2
  <2>4. QED
    BY <1>2, <2>2, <2>3 DEF Path
<1>5. StartsWith(Printed(p), Slash)
  <2>1. Len(Printed(p)) \in Nat /\ Len(Printed(p)) >= 1 /\ Printed(p)[1] = "/"
    BY <1>1, <1>2, <1>3, <1>4 DEF Rooted
  <2>2. QED
    BY <2>1, StartsWithSlash DEF Rooted
<1>6. ASSUME Len(p) <= MAX_PATH + 3 PROVE Printed(p) = p
  BY <1>2, <1>3, <1>6, SubSeqFull DEF Path
<1>7. QED
  BY <1>3, <1>4, <1>5, <1>6

\* BuildVirtualPath makes an absolute path, that of what asked leads to unless
\* the buffer cuts it off.
LEMMA BuildVirtualPathFinds ==
    ASSUME NEW place \in Places, NEW asked \in Path \cup {NoPath}
    PROVE  \E t \in Places :
              /\ BuildVirtualPath(PathTo(place), asked) = Fits(PathTo(t))
              /\ asked = NoPath \/ StartsWith(asked, Slash)
                 \/ Len(PathTo(place)) + 1 + Len(asked) <= MAX_PATH + 3
                 => t = Place(place, asked)
<1> DEFINE cwd == PathTo(place)
           long == cwd \o Slash \o asked
<1>1. CASE asked = NoPath
  BY <1>1 DEF BuildVirtualPath, Place
<1>2. CASE asked # NoPath /\ StartsWith(asked, Slash)
  <2>1. Slashes(asked) \in Clean /\ asked \in Path
    BY <1>2, SlashesProperties
  <2>2. Place(place, asked) = Walk(<<>>, Slashes(asked)) /\ Place(place, asked) \in Places
    BY <1>2, <2>1, WalkType, NameTypes DEF Place
  <2>3. SimplifyPath(asked) = PathTo(Place(place, asked))
    BY <1>2, <2>1, <2>2, SimplifyPathFollowsNames
  <2>4. BuildVirtualPath(cwd, asked) = Fits(SimplifyPath(asked))
    BY <1>2 DEF BuildVirtualPath
  <2>5. QED
    BY <2>2, <2>3, <2>4
<1>3. CASE asked # NoPath /\ ~StartsWith(asked, Slash)
  <2>1. Slashes(asked) \in Clean /\ asked \in Path
    BY <1>3, SlashesProperties
  <2>2. long \in Path /\ StartsWith(long, Slash) /\ Len(long) = Len(cwd) + 1 + Len(asked)
    BY <2>1, InDirectory
  <2>3. BuildVirtualPath(cwd, asked) = Fits(SimplifyPath(Printed(long)))
    BY <1>3 DEF BuildVirtualPath
  <2>4. CASE Len(cwd) + 1 + Len(asked) <= MAX_PATH + 3
    <3>1. Printed(long) = long
      BY <2>2, <2>4, PrintedProperties
    <3>2. SimplifyPath(long) = PathTo(Walk(place, Slashes(asked)))
      BY <2>1, SimplifyAfter
    <3>3. Place(place, asked) = Walk(place, Slashes(asked)) /\ Place(place, asked) \in Places
      BY <1>3, <2>1, WalkType DEF Place
    <3> HIDE DEF long, cwd
    <3>4. QED
      BY <2>3, <3>1, <3>2, <3>3 DEF cwd
  <2>5. CASE ~(Len(cwd) + 1 + Len(asked) <= MAX_PATH + 3)
    <3> DEFINE q == Printed(long)
               t == Walk(<<>>, Slashes(q))
    <3>1. q \in Path /\ StartsWith(q, Slash)
      <4> HIDE DEF long
      <4>1. QED
        BY <2>2, PrintedProperties
    <3> HIDE DEF q
    <3>2. SimplifyPath(q) = PathTo(t) /\ t \in Places
      BY <3>1, SimplifyPathFollowsNames, SlashesProperties, WalkType, NameTypes
    <3> HIDE DEF t
    <3>3. BuildVirtualPath(cwd, asked) = Fits(PathTo(t))
      BY <2>3, <3>2 DEF q
    <3>4. QED
      BY <1>3, <2>5, <3>2, <3>3
  <2>6. QED
    BY <2>4, <2>5
<1>4. QED
  BY <1>1, <1>2, <1>3

\* BuildPath finds what its argument means, below the start directory.
THEOREM BuildPathResolves ==
    ASSUME NEW start \in Places, NEW place \in Places, NEW asked \in Path \cup {NoPath},
           Len(PathTo(start)) <= MAX_PATH - 2
    PROVE  Resolves(start, place, asked)
<1> DEFINE dir == PathTo(start)
           cwd == PathTo(place)
           there == Place(place, asked)
           virtual == BuildVirtualPath(cwd, asked)
           path == BuildPath(dir, cwd, asked)
           uncut == asked = NoPath \/ StartsWith(asked, Slash) \/ Len(cwd) + 1 + Len(asked) <= MAX_PATH + 3
<1>1. PICK t \in Places : virtual = Fits(PathTo(t)) /\ (uncut => t = there)
  BY BuildVirtualPathFinds
<1>2. there \in Places /\ dir \in Clean /\ Len(dir) \in Nat
  BY PlaceType, PathToProperties, LenPath
<1>3. \A x \in Places : PathTo(x) \in Clean /\ PathTo(x) \in Path /\ Len(PathTo(x)) \in Nat /\ start \o x \in Places
  BY PathToProperties, NameTypes, LenPath, ConcatPlaces
<1>4. path = IF virtual = NoPath THEN NoPath ELSE Fits(SimplifyPath(Printed(dir \o Slash \o virtual)))
  BY DEF BuildPath
<1>5. Resolves(start, place, asked) <=>
        /\ path = NoPath \/ Below(path, dir)
        /\ uncut /\ Len(dir) + 1 + Len(PathTo(there)) <= MAX_PATH + 3 => path = Fits(PathTo(start \o there))
  BY DEF Resolves
<1> HIDE DEF path, virtual, uncut, there, cwd
<1>6. \A x \in Places : Fits(PathTo(start \o x)) = NoPath \/ Below(Fits(PathTo(start \o x)), dir)
  BY <1>3, BelowStart, NoPathProperties
<1>7. CASE virtual = NoPath
  <2>1. Len(PathTo(t)) > MAX_PATH
    <3>1. PathTo(t) # NoPath /\ Fits(PathTo(t)) = IF Len(PathTo(t)) <= MAX_PATH THEN PathTo(t) ELSE NoPath
      BY <1>3, NoPathProperties
    <3>2. ~(Len(PathTo(t)) <= MAX_PATH)
      BY <1>1, <1>7, <3>1
    <3>3. QED
      BY <1>3, <3>2, MaxPathAssumption
  <2>2. Fits(PathTo(start \o t)) = NoPath
    <3>1. Len(PathTo(start \o t)) >= Len(PathTo(t)) /\ PathTo(start \o t) \in Path
      BY <1>3, BelowStart
    <3>2. ~(Len(PathTo(start \o t)) <= MAX_PATH)
      BY <1>3, <2>1, <3>1, MaxPathAssumption
    <3>3. QED
      BY <3>1, <3>2, NoPathProperties
  <2>3. QED
    BY <1>1, <1>4, <1>5, <1>7, <2>2
<1>8. CASE virtual # NoPath
  <2> DEFINE p == PathTo(t)
             long == dir \o Slash \o p
  <2>1. virtual = p /\ p \in Clean /\ p \in Path /\ Len(p) \in Nat
    BY <1>1, <1>3, <1>8, NoPathProperties
  <2>2. long \in Path /\ StartsWith(long, Slash) /\ Len(long) = Len(dir) + 1 + Len(p)
    BY <2>1, InDirectory
  <2>3. path = Fits(SimplifyPath(Printed(long)))
    BY <1>4, <1>8, <2>1
  <2>4. CASE Len(dir) + 1 + Len(p) <= MAX_PATH + 3
    <3>1. Printed(long) = long
      BY <2>2, <2>4, PrintedProperties
    <3>2. SimplifyPath(long) = PathTo(Walk(start, Slashes(p)))
      BY <2>1, SimplifyAfter
    <3>3. Walk(start, Slashes(p)) = start \o t
      BY <2>1, SlashesProperties, WalkWhole
    <3>4. path = Fits(PathTo(start \o t))
      <4> HIDE DEF long, p
      <4>1. QED
        BY <2>3, <3>1, <3>2, <3>3
    <3>5. QED
      BY <1>1, <1>5, <1>6, <3>4
  <2>5. CASE ~(Len(dir) + 1 + Len(p) <= MAX_PATH + 3)
    <3> DEFINE m == MAX_PATH + 3 - Len(dir) - 1
               q == dir \o Slash
    <3>1. m \in 4..Len(p) /\ m \in 0..Len(p) /\ Len(dir) + 1 + m = MAX_PATH + 3
      BY <1>2, <2>1, <2>5, MaxPathAssumption
    <3>2. q \in Clean /\ Len(q) = Len(dir) + 1
      BY <1>2, NameTypes, JoinType
    <3> HIDE DEF m, q, p, dir
    <3>3. Prefix(q \o p, Len(q) + m) = q \o Prefix(p, m) /\ Prefix(p, m) \in Clean
      BY <2>1, <3>1, <3>2, PrefixConcat, PrefixProperties
    <3>4. Printed(long) = q \o Prefix(p, m)
      BY <3>1, <3>2, <3>3 DEF Printed, q
    <3>5. SimplifyPath(q \o Prefix(p, m)) = PathTo(Walk(start, Prefix(p, m)))
      <4>1. Prefix(p, m) \in Path /\ Slashes(Prefix(p, m)) = Prefix(p, m)
        BY <3>3, NameTypes, SlashesProperties
      <4>2. QED
        BY <4>1, SimplifyAfter DEF q, dir
    <3>6. PICK x \in Places : Walk(start, Prefix(p, m)) = start \o x
      BY <3>1, WalkCutOff DEF p
    <3>7. path = Fits(PathTo(start \o x))
      BY <2>3, <3>4, <3>5, <3>6
    <3>8. ~(uncut /\ Len(dir) + 1 + Len(PathTo(there)) <= MAX_PATH + 3)
      BY <1>1, <2>5 DEF p
    <3>9. QED
      BY <1>5, <1>6, <3>7, <3>8
  <2>6. QED
    BY <2>4, <2>5
<1>9. QED
  BY <1>7, <1>8

\* CDUP drops the last name of the working directory.
THEOREM ParentDropsName ==
    ASSUME NEW place \in Places
    PROVE  LET up == SubSeq(place, 1, Len(place) - 1) IN
           up \in Places /\ Parent(PathTo(place)) = PathTo(up)
<1> DEFINE up == SubSeq(place, 1, Len(place) - 1)
           cwd == PathTo(place)
<1>1. DotDot \in Path /\ DotDot \in Clean /\ Slash \in Clean /\ cwd \in Clean /\ Slashes(DotDot) = DotDot
  BY NameTypes, PathToProperties, SlashesProperties
<1>2. cwd \o <<"/", ".", ".">> = cwd \o Slash \o DotDot
  <2>1. <<"/", ".", ".">> = Slash \o DotDot
    BY DEF Slash, DotDot
  <2>2. cwd \o (Slash \o DotDot) = (cwd \o Slash) \o DotDot
    BY <1>1, ConcatAssociative DEF Clean
  <2>3. QED
    BY <2>1, <2>2
<1>3. Parent(cwd) = PathTo(Walk(place, DotDot))
  BY <1>1, <1>2, SimplifyAfter DEF Parent
<1>4. Walk(place, DotDot) = up /\ up \in Places
  <2>1. DotDot \in Seq(NameCharacters)
    <3>1. "." \in NameCharacters
      BY CharactersAssumption DEF NameCharacters
    <3>2. QED
      BY <3>1 DEF DotDot
  <2>2. ReadAll(Fresh(place), DotDot) = [place |-> place, name |-> DotDot]
    BY <2>1, ReadName DEF Fresh
  <2>3. Walk(place, DotDot) = Ends(ReadAll(Fresh(place), DotDot)) /\ Walk(place, DotDot) \in Places
    BY <1>1, WalkType
  <2>4. Ends([place |-> place, name |-> DotDot]) = up
    BY StepCases DEF Ends
  <2>5. QED
    BY <2>2, <2>3, <2>4
<1>5. QED
  BY <1>3, <1>4

\* The paths to the places are the absolute paths that mean themselves.
LEMMA PlaceOfPath ==
    ASSUME NEW place \in Places
    PROVE  Place(<<>>, PathTo(place)) = place /\ StartsWith(PathTo(place), Slash)
<1>1. PathTo(place) \in Clean /\ PathTo(place) \in Path /\ Rooted(PathTo(place)) /\ Len(PathTo(place)) \in Nat
  BY PathToProperties, NameTypes, LenPath
<1>2. StartsWith(PathTo(place), Slash) /\ PathTo(place) # NoPath
  BY <1>1, StartsWithSlash, NoPathProperties
<1>3. Place(<<>>, PathTo(place)) = Walk(<<>>, PathTo(place))
  BY <1>1, <1>2, SlashesProperties DEF Place
<1>4. Walk(<<>>, PathTo(place)) = <<>> \o place /\ <<>> \o place = place
  BY NameTypes, WalkWhole, ConcatPlaces
<1>5. QED
  BY <1>2, <1>3, <1>4

=============================================================================
