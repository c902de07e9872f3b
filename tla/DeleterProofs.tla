---- MODULE DeleterProofs ----
(***************************************************************************)
(* Theorems about delete_files, for every file system, every plan of any    *)
(* length, every set of dirty files, and whatever the user, sudo and the    *)
(* operating system say: what a deletion removes, what it leaves, and what  *)
(* it reports.                                                              *)
(***************************************************************************)
EXTENDS AlgorithmsProofs

\* A path of names
Path == Seq(STRING)

\* A sequence with one more element
LEMMA AppendOne ==
  ASSUME NEW S, NEW q \in Seq(S), NEW name \in S
  PROVE  /\ Append(q, name) \in Seq(S) /\ Append(q, name) # <<>>
         /\ Len(Append(q, name)) = Len(q) + 1 /\ Len(q) \in Nat
         /\ \A i \in 1..Len(q) : Append(q, name)[i] = q[i]
         /\ Append(q, name)[Len(q) + 1] = name
<1>1. Append(q, name) \in Seq(S)
  OBVIOUS
<1>2. Len(Append(q, name)) = Len(q) + 1 /\ Len(q) \in Nat
  OBVIOUS
<1>3. Append(q, name) # <<>>
  BY AppendProperties
<1>4. \A i \in 1..Len(q) : Append(q, name)[i] = q[i]
  OBVIOUS
<1>5. Append(q, name)[Len(q) + 1] = name
  OBVIOUS
<1> QED BY <1>1, <1>2, <1>3, <1>4, <1>5

\* A path with one more name
LEMMA AppendToPath ==
  ASSUME NEW q \in Path, NEW name \in STRING
  PROVE  /\ Append(q, name) \in Path /\ Append(q, name) # <<>>
         /\ Len(Append(q, name)) = Len(q) + 1 /\ Len(q) \in Nat
         /\ \A i \in 1..Len(q) : Append(q, name)[i] = q[i]
         /\ Append(q, name)[Len(q) + 1] = name
BY AppendOne, Zenon DEF Path

\* What two paths have in common up to some length
LEMMA SameStart ==
  ASSUME NEW p \in Path, NEW q \in Path, NEW n \in Nat, n <= Len(p), n <= Len(q),
         \A i \in 1..n : p[i] = q[i]
  PROVE  SubSeq(p, 1, n) = SubSeq(q, 1, n) /\ SubSeq(p, 1, n) \in Path /\ Len(SubSeq(p, 1, n)) = n
<1>1. /\ p \in Seq(STRING) /\ q \in Seq(STRING) /\ Len(p) \in Nat /\ Len(q) \in Nat
      /\ \A i \in 1..Len(p) : p[i] \in STRING
      /\ \A i \in 1..Len(q) : q[i] \in STRING
  BY LenProperties, ElementOfSeq DEF Path
<1>2. /\ SubSeq(p, 1, n) \in Seq(STRING) /\ Len(SubSeq(p, 1, n)) = n
      /\ \A i \in 1..n : SubSeq(p, 1, n)[i] = p[i]
  <2>1. \A i \in 1..n : p[i] \in STRING
    BY <1>1
  <2>2. /\ SubSeq(p, 1, n) \in Seq(STRING)
        /\ Len(SubSeq(p, 1, n)) = IF 1 <= n THEN n - 1 + 1 ELSE 0
        /\ \A i \in 1..(n - 1 + 1) : SubSeq(p, 1, n)[i] = p[1 + i - 1]
    BY <2>1, SubSeqProperties
  <2> QED BY <2>2
<1>3. /\ SubSeq(q, 1, n) \in Seq(STRING) /\ Len(SubSeq(q, 1, n)) = n
      /\ \A i \in 1..n : SubSeq(q, 1, n)[i] = q[i]
  <2>1. \A i \in 1..n : q[i] \in STRING
    BY <1>1
  <2>2. /\ SubSeq(q, 1, n) \in Seq(STRING)
        /\ Len(SubSeq(q, 1, n)) = IF 1 <= n THEN n - 1 + 1 ELSE 0
        /\ \A i \in 1..(n - 1 + 1) : SubSeq(q, 1, n)[i] = q[1 + i - 1]
    BY <2>1, SubSeqProperties
  <2> QED BY <2>2
<1> DEFINE a == SubSeq(p, 1, n)
           b == SubSeq(q, 1, n)
<1>4. /\ a \in Seq(STRING) /\ b \in Seq(STRING) /\ Len(a) = Len(b)
      /\ \A i \in 1..Len(a) : a[i] = b[i]
  BY <1>2, <1>3
<1> HIDE DEF a, b
<1>5. a = b
  BY <1>4, SeqEqual
<1> QED BY <1>2, <1>5 DEF a, b, Path

\* All of a path
LEMMA WholePath ==
  ASSUME NEW q \in Path
  PROVE  SubSeq(q, 1, Len(q)) = q /\ Len(q) \in Nat
<1>1. q \in Seq(STRING)
  BY DEF Path
<1> QED BY <1>1, SubSeqFull, LenProperties

\* Taking a name off a path, and putting it back
LEMMA FrontOfAppend ==
  ASSUME NEW q \in Path, NEW name \in STRING
  PROVE  Front(Append(q, name)) = q /\ Last(Append(q, name)) = name
<1> DEFINE n == Append(q, name)
<1>1. /\ n \in Path /\ Len(n) = Len(q) + 1 /\ Len(q) \in Nat
      /\ \A i \in 1..Len(q) : n[i] = q[i]
      /\ n[Len(q) + 1] = name
  BY AppendToPath
<1> HIDE DEF n
<1>2. SubSeq(n, 1, Len(q)) = SubSeq(q, 1, Len(q))
  BY <1>1, SameStart
<1>3. SubSeq(n, 1, Len(q)) = q
  BY <1>2, WholePath
<1>4. Len(n) - 1 = Len(q)
  BY <1>1
<1>5. Front(n) = q /\ Last(n) = name
  BY <1>1, <1>3, <1>4 DEF Front, Last
<1> QED BY <1>5 DEF n

\* A path that has names has a last one.
LEMMA FrontOfPath ==
  ASSUME NEW q \in Path, q # <<>>
  PROVE  /\ Front(q) \in Path /\ Len(Front(q)) = Len(q) - 1 /\ Last(q) \in STRING
         /\ Len(q) \in Nat \ {0} /\ q = Append(Front(q), Last(q))
<1>1. PICK p \in Path, name \in STRING : q = Append(p, name)
  <2>1. q \in Seq(STRING)
    BY DEF Path
  <2>2. \E p \in Seq(STRING), name \in STRING : q = Append(p, name)
    BY <2>1, SequenceEmptyOrAppend
  <2> QED BY <2>2 DEF Path
<1>2. Front(q) = p /\ Last(q) = name /\ Len(q) = Len(p) + 1 /\ Len(p) \in Nat
  BY <1>1, FrontOfAppend, AppendToPath
<1>3. Len(Front(q)) = Len(q) - 1 /\ Len(q) \in Nat \ {0}
  BY <1>2
<1>4. q = Append(Front(q), Last(q))
  BY <1>1, <1>2
<1> QED BY <1>1, <1>2, <1>3, <1>4

\* A prefix is shorter than the path, or is the path.
LEMMA PrefixLength ==
  ASSUME NEW p \in Path, NEW q \in Path, IsPrefix(p, q)
  PROVE  Len(p) <= Len(q) /\ (Len(p) = Len(q) => p = q)
<1>1. Len(p) <= Len(q) /\ SubSeq(p, 1, Len(p)) = SubSeq(q, 1, Len(p))
  BY DEF IsPrefix
<1>2. SubSeq(p, 1, Len(p)) = p /\ SubSeq(q, 1, Len(q)) = q
  BY WholePath
<1> QED BY <1>1, <1>2

\* A path is a prefix of itself ...
LEMMA PrefixSelf ==
  ASSUME NEW q \in Path
  PROVE  IsPrefix(q, q)
BY WholePath DEF IsPrefix

\* ... and the prefixes of a longer path are the path itself and its prefixes.
LEMMA PrefixNext ==
  ASSUME NEW p \in Path, NEW q \in Path, NEW name \in STRING
  PROVE  /\ IsPrefix(p, q) => IsPrefix(p, Append(q, name))
         /\ IsPrefix(p, Append(q, name)) => p = Append(q, name) \/ IsPrefix(p, q)
<1> DEFINE n == Append(q, name)
<1>1. /\ n \in Path /\ Len(n) = Len(q) + 1 /\ Len(q) \in Nat
      /\ \A i \in 1..Len(q) : n[i] = q[i]
  BY AppendToPath
<1>2. Len(p) \in Nat
  BY WholePath
<1> HIDE DEF n
<1>3. ASSUME Len(p) <= Len(q) PROVE SubSeq(n, 1, Len(p)) = SubSeq(q, 1, Len(p))
  BY <1>1, <1>2, <1>3, SameStart
<1>4. ASSUME IsPrefix(p, q) PROVE IsPrefix(p, n)
  BY <1>1, <1>2, <1>3, <1>4 DEF IsPrefix
<1>5. ASSUME IsPrefix(p, n), p # n PROVE IsPrefix(p, q)
  <2>1. Len(p) <= Len(n) /\ Len(p) # Len(n)
    BY <1>1, <1>5, PrefixLength
  <2>2. Len(p) <= Len(q)
    BY <1>1, <1>2, <2>1
  <2> QED BY <1>3, <1>5, <2>2 DEF IsPrefix
<1> QED BY <1>4, <1>5 DEF n

\* A file system, as to its types
IsMap(fs) == fs \in [Places -> Node]

\* One name further leads to a path.
LEMMA EnterType ==
  ASSUME NEW fs, IsMap(fs), NEW q \in Path, NEW name \in STRING
  PROVE  Enter(fs, q, name) \in Path
<1>1. CASE name = ".."
  <2>1. q = <<>> \/ Front(q) \in Path
    BY FrontOfPath
  <2> QED BY <1>1, <2>1 DEF Enter
<1>2. CASE name # ".."
  <2>1. Append(q, name) \in Path
    BY AppendToPath
  <2>2. At(fs, Append(q, name)).kind = "link" => fs[Append(q, name)].to \in Path
    <3>1. Append(q, name) \notin Places => At(fs, Append(q, name)).kind = "none"
      BY DEF At, NoNode
    <3>2. \A p \in Places : fs[p].kind = "link" => fs[p].to \in Places
      <4>1. \A p \in Places : fs[p] \in Node
        BY DEF IsMap
      <4>2. \A n \in Node : n.kind = "link" => n.to \in Places
        BY DEF Node
      <4> QED BY <4>1, <4>2
    <3> QED BY <3>1, <3>2, PlacesAssumption DEF At, Path
  <2> QED BY <1>2, <2>1, <2>2 DEF Enter
<1> QED BY <1>1, <1>2

\* The recursion of Resolve
Goes(to, fs, place) ==
  to = [i \in 0..Len(place) |-> IF i = 0 THEN <<>> ELSE Enter(fs, to[i - 1], place[i])]

\* Resolve is well-defined: there is a function that is what its recursion says.
LEMMA ResolveDefined ==
  ASSUME NEW fs, IsMap(fs), NEW place \in Path
  PROVE  \E to : /\ Goes(to, fs, place) /\ to \in [0..Len(place) -> Path]
                 /\ Resolve(fs, place) = to[Len(place)]
<1>0. Len(place) \in Nat /\ \A i \in 1..Len(place) : place[i] \in STRING
  BY LenProperties, ElementOfSeq DEF Path
<1> DEFINE n == Len(place)
           step == [i \in 1..n |-> [q \in Path |-> Enter(fs, q, place[i])]]
<1>1. Steps(step, n, Path)
  BY <1>0, EnterType DEF Steps
<1>2. <<>> \in Path
  BY EmptySeq DEF Path
<1>3. PICK f : Loops(f, step, n, Path, <<>>)
  <2> HIDE DEF step
  <2> QED BY <1>0, <1>1, <1>2, LoopDefined
<1>4. f \in [0..n -> Path] /\ f[0] = <<>>
  BY <1>3 DEF Loops
<1>5. ASSUME NEW i \in 0..n PROVE f[i] = IF i = 0 THEN <<>> ELSE Enter(fs, f[i - 1], place[i])
  <2>1. CASE i = 0
    BY <1>4, <2>1
  <2>2. CASE i # 0
    <3>1. i \in 1..n /\ f[i - 1] \in Path
      BY <1>0, <1>4, <2>2
    <3>2. f[i] = step[i][f[i - 1]]
      BY <1>3, <3>1 DEF Loops
    <3> HIDE DEF n
    <3> QED BY <2>2, <3>1, <3>2
  <2> QED BY <2>1, <2>2
<1>6. Goes(f, fs, place)
  <2>1. f = [i \in 0..n |-> f[i]]
    BY <1>4
  <2> QED BY <1>5, <2>1 DEF Goes
<1> DEFINE to == CHOOSE g : Goes(g, fs, place)
<1>7. Goes(to, fs, place)
  BY <1>6
<1>8. Resolve(fs, place) = to[n]
  BY DEF Resolve, Goes
<1> HIDE DEF to
<1>9. to \in [0..n -> Path]
  <2> DEFINE Typed == {i \in 0..n : to[i] \in Path}
  <2>1. 0 \in Typed
    BY <1>0, <1>2, <1>7 DEF Goes
  <2>2. ASSUME NEW i \in 0..n, i \in Typed, i < n PROVE i + 1 \in Typed
    <3>1. i + 1 \in 1..n /\ i + 1 \in 0..n /\ i + 1 # 0 /\ (i + 1) - 1 = i
      BY <1>0, <2>2
    <3>2. to[i + 1] = Enter(fs, to[i], place[i + 1])
      BY <1>7, <3>1 DEF Goes
    <3>3. to[i] \in Path /\ place[i + 1] \in STRING
      BY <1>0, <2>2, <3>1
    <3>4. to[i + 1] \in Path
      BY <3>2, <3>3, EnterType
    <3> QED BY <3>1, <3>4
  <2>3. 0..n \subseteq Typed
    <3> HIDE DEF Typed
    <3>1. \A i \in 0..n : i \in Typed /\ i < n => i + 1 \in Typed
      BY <2>2
    <3> QED BY <1>0, <2>1, <3>1, Stepwise
  <2>4. \A i \in 0..n : to[i] \in Path
    BY <2>3
  <2>5. to = [i \in 0..n |-> to[i]]
    BY <1>7 DEF Goes
  <2> QED BY <2>4, <2>5
<1> QED BY <1>7, <1>8, <1>9

\* A path resolves to a path.
LEMMA ResolveType ==
  ASSUME NEW fs, IsMap(fs), NEW place \in Path
  PROVE  Resolve(fs, place) \in Path
<1>1. Len(place) \in Nat
  BY WholePath
<1> QED BY <1>1, ResolveDefined

\* A path is resolved name by name.
LEMMA ResolveNothing ==
  ASSUME NEW fs, IsMap(fs)
  PROVE  Resolve(fs, <<>>) = <<>>
<1>1. <<>> \in Path /\ Len(<<>>) = 0
  BY EmptySeq DEF Path
<1>2. PICK to : Goes(to, fs, <<>>) /\ Resolve(fs, <<>>) = to[Len(<<>>)]
  BY <1>1, ResolveDefined
<1> QED BY <1>1, <1>2 DEF Goes

\* ... and so is a path with one more name.
LEMMA ResolveNext ==
  ASSUME NEW fs, IsMap(fs), NEW place \in Path, NEW name \in STRING
  PROVE  Resolve(fs, Append(place, name)) = Enter(fs, Resolve(fs, place), name)
<1> DEFINE n == Len(place)
           longer == Append(place, name)
<1>1. /\ longer \in Path /\ Len(longer) = n + 1 /\ n \in Nat
      /\ \A i \in 1..n : longer[i] = place[i]
      /\ longer[n + 1] = name
  BY AppendToPath
<1> HIDE DEF longer, n
<1>2. PICK f : Goes(f, fs, place) /\ Resolve(fs, place) = f[n]
  BY ResolveDefined DEF n
<1>3. PICK g : Goes(g, fs, longer) /\ Resolve(fs, longer) = g[n + 1]
  <2>1. \E g : Goes(g, fs, longer) /\ Resolve(fs, longer) = g[Len(longer)]
    BY <1>1, ResolveDefined
  <2> QED BY <1>1, <2>1
<1>4. /\ \A i \in 0..n : f[i] = IF i = 0 THEN <<>> ELSE Enter(fs, f[i - 1], place[i])
      /\ \A i \in 0..(n + 1) : g[i] = IF i = 0 THEN <<>> ELSE Enter(fs, g[i - 1], longer[i])
  BY <1>1, <1>2, <1>3 DEF Goes, n
<1> DEFINE Same == {i \in 0..n : f[i] = g[i]}
<1>5. 0 \in Same
  BY <1>1, <1>4
<1>6. ASSUME NEW i \in 0..n, i \in Same, i < n PROVE i + 1 \in Same
  <2>1. i + 1 \in 1..n /\ i + 1 \in 0..n /\ i + 1 \in 0..(n + 1) /\ i + 1 # 0 /\ (i + 1) - 1 = i
    BY <1>1, <1>6
  <2>2. f[i + 1] = Enter(fs, f[i], place[i + 1]) /\ g[i + 1] = Enter(fs, g[i], longer[i + 1])
    BY <1>4, <2>1
  <2> QED BY <1>1, <1>6, <2>1, <2>2
<1>7. n \in Same
  <2> HIDE DEF Same
  <2>1. \A i \in 0..n : i \in Same /\ i < n => i + 1 \in Same
    BY <1>6
  <2>2. 0..n \subseteq Same
    BY <1>1, <1>5, <2>1, Stepwise
  <2> QED BY <1>1, <2>2
<1>8. g[n + 1] = Enter(fs, g[n], longer[n + 1])
  <2>1. n + 1 \in 0..(n + 1) /\ n + 1 # 0 /\ (n + 1) - 1 = n
    BY <1>1
  <2> QED BY <1>4, <2>1
<1> QED BY <1>1, <1>2, <1>3, <1>7, <1>8 DEF longer

\* The first names of a path in the worktree, where they lead, and the place of
\* the last of them, which no link has been followed from.
Way(path, k) == SubSeq(Root \o path, 1, Len(Root) + k)
Reach(fs, path, k) == Resolve(fs, Way(path, k))
Tip(fs, path, k) == Append(Reach(fs, path, k - 1), path[k])

\* The root and the places are paths.
LEMMA RootIsPath == Root \in Path /\ Len(Root) \in Nat /\ \A q \in Places : q \in Path
<1>1. Root \in Path /\ \A q \in Places : q \in Path
  BY PlacesAssumption DEF Path
<1> QED BY <1>1, WholePath

\* The place of a path of the worktree
LEMMA WholeWay ==
  ASSUME NEW path \in Path
  PROVE  /\ Root \o path \in Path /\ Len(Root \o path) = Len(Root) + Len(path)
         /\ Len(path) \in Nat /\ \A i \in 1..Len(path) : path[i] \in STRING
         /\ \A i \in 1..Len(Root) : (Root \o path)[i] = Root[i]
         /\ \A i \in 1..Len(path) : (Root \o path)[Len(Root) + i] = path[i]
<1>1. path \in Seq(STRING) /\ Root \in Seq(STRING)
  BY RootIsPath DEF Path
<1>2. Len(path) \in Nat /\ \A i \in 1..Len(path) : path[i] \in STRING
  BY <1>1, LenProperties, ElementOfSeq
<1> DEFINE place == Root \o path
<1>3. /\ place \in Seq(STRING) /\ Len(place) = Len(Root) + Len(path)
      /\ \A i \in 1..(Len(Root) + Len(path)) :
           place[i] = IF i <= Len(Root) THEN Root[i] ELSE path[i - Len(Root)]
  BY <1>1, ConcatProperties
<1> HIDE DEF place
<1>4. \A i \in 1..Len(Root) : place[i] = Root[i]
  BY <1>2, <1>3, RootIsPath
<1>5. ASSUME NEW i \in 1..Len(path) PROVE place[Len(Root) + i] = path[i]
  <2>1. /\ Len(Root) + i \in 1..(Len(Root) + Len(path))
        /\ ~(Len(Root) + i <= Len(Root)) /\ (Len(Root) + i) - Len(Root) = i
    BY <1>2, RootIsPath
  <2> QED BY <1>3, <2>1
<1> QED BY <1>2, <1>3, <1>4, <1>5 DEF place, Path

\* No names of the path are the root, all of them are its place.
LEMMA WayEnds ==
  ASSUME NEW path \in Path
  PROVE  Way(path, 0) = Root /\ Way(path, Len(path)) = Root \o path
<1> DEFINE place == Root \o path
<1>1. /\ place \in Path /\ Len(place) = Len(Root) + Len(path) /\ Len(path) \in Nat
      /\ \A i \in 1..Len(Root) : place[i] = Root[i]
  BY WholeWay
<1> HIDE DEF place
<1>2. SubSeq(place, 1, Len(Root)) = SubSeq(Root, 1, Len(Root))
  BY <1>1, RootIsPath, SameStart
<1>3. SubSeq(place, 1, Len(Root)) = Root /\ SubSeq(place, 1, Len(place)) = place
  BY <1>1, <1>2, RootIsPath, WholePath
<1>4. Len(Root) + 0 = Len(Root)
  BY RootIsPath
<1> QED BY <1>1, <1>3, <1>4 DEF place, Way

\* The first names of a path are a path ...
LEMMA WayType ==
  ASSUME NEW path \in Path, NEW k \in 0..Len(path)
  PROVE  Way(path, k) \in Path /\ Len(Way(path, k)) = Len(Root) + k
<1> DEFINE place == Root \o path
<1>1. place \in Path /\ Len(place) = Len(Root) + Len(path) /\ Len(path) \in Nat
  BY WholeWay
<1>2. Len(Root) + k \in Nat /\ Len(Root) + k <= Len(place)
  BY <1>1, RootIsPath
<1> HIDE DEF place
<1>3. SubSeq(place, 1, Len(Root) + k) \in Path /\ Len(SubSeq(place, 1, Len(Root) + k)) = Len(Root) + k
  BY <1>1, <1>2, SameStart
<1> QED BY <1>3 DEF place, Way

\* ... which grows name by name.
LEMMA WayNext ==
  ASSUME NEW path \in Path, NEW k \in 1..Len(path)
  PROVE  /\ Way(path, k) = Append(Way(path, k - 1), path[k])
         /\ Way(path, k - 1) \in Path /\ path[k] \in STRING
<1> DEFINE place == Root \o path
           way == Way(path, k)
<1>1. /\ place \in Path /\ Len(place) = Len(Root) + Len(path) /\ Len(path) \in Nat
      /\ place[Len(Root) + k] = path[k] /\ path[k] \in STRING
  BY WholeWay
<1>2. way \in Path /\ Len(way) = Len(Root) + k
  BY WayType
<1>3. Way(path, k - 1) \in Path
  <2>1. k - 1 \in 0..Len(path)
    BY <1>1
  <2> QED BY <2>1, WayType
<1>4. \A i \in 1..(Len(Root) + k) : way[i] = place[i]
  <2>1. \A i \in 1..(Len(Root) + k) : place[i] \in STRING
    <3>1. \A i \in 1..Len(place) : place[i] \in STRING
      <4>1. place \in Seq(STRING)
        BY <1>1 DEF Path
      <4> HIDE DEF place
      <4> QED BY <4>1, ElementOfSeq
    <3> HIDE DEF place
    <3> QED BY <1>1, <3>1, RootIsPath
  <2> HIDE DEF place
  <2>2. \A i \in 1..(Len(Root) + k - 1 + 1) : SubSeq(place, 1, Len(Root) + k)[i] = place[1 + i - 1]
    <3>1. Len(Root) + k \in Int
      BY RootIsPath
    <3> QED BY <2>1, <3>1, SubSeqProperties
  <2>3. way = SubSeq(place, 1, Len(Root) + k)
    BY DEF Way, place
  <2> HIDE DEF way
  <2> QED BY <2>2, <2>3, RootIsPath
<1> HIDE DEF place, way
<1>5. way # <<>>
  BY <1>2, RootIsPath
<1>6. way = Append(Front(way), Last(way))
  BY <1>2, <1>5, FrontOfPath
<1>7. Last(way) = path[k]
  BY <1>1, <1>2, <1>4, RootIsPath DEF Last
<1>8. Front(way) = Way(path, k - 1)
  <2>1. Front(way) = SubSeq(way, 1, Len(Root) + (k - 1))
    <3>1. Len(way) - 1 = Len(Root) + (k - 1)
      BY <1>2, RootIsPath
    <3> QED BY <3>1 DEF Front
  <2>2. SubSeq(way, 1, Len(Root) + (k - 1)) = SubSeq(place, 1, Len(Root) + (k - 1))
    <3>1. /\ Len(Root) + (k - 1) \in Nat /\ Len(Root) + (k - 1) <= Len(way)
          /\ Len(Root) + (k - 1) <= Len(place)
          /\ \A i \in 1..(Len(Root) + (k - 1)) : way[i] = place[i]
      BY <1>1, <1>2, <1>4, RootIsPath
    <3> QED BY <1>1, <1>2, <3>1, SameStart
  <2> QED BY <2>1, <2>2 DEF Way, place
<1> QED BY <1>1, <1>3, <1>6, <1>7, <1>8 DEF way

\* Where they lead is a path ...
LEMMA ReachType ==
  ASSUME NEW fs, IsMap(fs), NEW path \in Path, NEW k \in 0..Len(path)
  PROVE  Reach(fs, path, k) \in Path
<1>1. Way(path, k) \in Path
  BY WayType
<1> QED BY <1>1, ResolveType DEF Reach

\* ... and so is where one name more leads.
LEMMA ReachNext ==
  ASSUME NEW fs, IsMap(fs), NEW path \in Path, NEW k \in 1..Len(path)
  PROVE  /\ Reach(fs, path, k) = Enter(fs, Reach(fs, path, k - 1), path[k])
         /\ Reach(fs, path, k) \in Path /\ Reach(fs, path, k - 1) \in Path
         /\ path[k] \in STRING /\ Tip(fs, path, k) \in Path
<1>1. /\ Way(path, k) = Append(Way(path, k - 1), path[k])
      /\ Way(path, k - 1) \in Path /\ path[k] \in STRING
  BY WayNext
<1>2. Resolve(fs, Append(Way(path, k - 1), path[k])) = Enter(fs, Resolve(fs, Way(path, k - 1)), path[k])
  BY <1>1, ResolveNext
<1>3. k \in 0..Len(path) /\ k - 1 \in 0..Len(path)
  BY WholeWay
<1>4. Reach(fs, path, k) \in Path /\ Reach(fs, path, k - 1) \in Path
  BY <1>3, ReachType
<1>5. Tip(fs, path, k) \in Path
  BY <1>1, <1>4, AppendToPath DEF Tip
<1> QED BY <1>1, <1>2, <1>4, <1>5 DEF Reach

\* The place that is unlinked or removed for a part of the path
LEMMA LeafIsTip ==
  ASSUME NEW fs, IsMap(fs), NEW path \in Path, NEW k \in 1..Len(path)
  PROVE  Leaf(fs, Way(path, k)) = Tip(fs, path, k)
<1>1. /\ Way(path, k) = Append(Way(path, k - 1), path[k])
      /\ Way(path, k - 1) \in Path /\ path[k] \in STRING
  BY WayNext
<1>2. Front(Way(path, k)) = Way(path, k - 1) /\ Last(Way(path, k)) = path[k]
  BY <1>1, FrontOfAppend
<1> QED BY <1>2 DEF Leaf, Tip, Reach

\* The place of a name is in where the names before it lead, unless it goes up, and
\* a link is followed from it.
LEMMA TipParts ==
  ASSUME NEW fs, IsMap(fs), NEW path \in Path, NEW k \in 1..Len(path)
  PROVE  /\ Front(Tip(fs, path, k)) = Reach(fs, path, k - 1)
         /\ Tip(fs, path, k) # <<>>
         /\ path[k] = ".." => Tip(fs, path, k) \notin Places
         /\ path[k] # ".." =>
              Reach(fs, path, k) = IF At(fs, Tip(fs, path, k)).kind = "link"
                                   THEN fs[Tip(fs, path, k)].to ELSE Tip(fs, path, k)
<1>1. /\ Reach(fs, path, k) = Enter(fs, Reach(fs, path, k - 1), path[k])
      /\ Reach(fs, path, k - 1) \in Path /\ path[k] \in STRING /\ Tip(fs, path, k) \in Path
  BY ReachNext
<1> DEFINE r == Reach(fs, path, k - 1)
           tip == Tip(fs, path, k)
<1>2. Front(tip) = r /\ Last(tip) = path[k] /\ tip # <<>>
  BY <1>1, FrontOfAppend, AppendToPath DEF Tip
<1>3. ASSUME path[k] = ".." PROVE tip \notin Places
  <2>1. Len(tip) \in Nat \ {0}
    BY <1>1, <1>2, FrontOfPath
  <2>2. ".." \in Range(tip)
    <3>1. DOMAIN tip = 1..Len(tip)
      BY <1>1, LenProperties DEF Path
    <3>2. Len(tip) \in DOMAIN tip /\ tip[Len(tip)] = ".."
      BY <1>2, <1>3, <2>1, <3>1 DEF Last
    <3> HIDE DEF tip
    <3> QED BY <3>2 DEF Range
  <2> QED BY <2>2, PlacesAssumption
<1>4. ASSUME path[k] # ".." PROVE Reach(fs, path, k) = IF At(fs, tip).kind = "link" THEN fs[tip].to ELSE tip
  BY <1>1, <1>4 DEF Enter, Tip
<1> QED BY <1>2, <1>3, <1>4

\* A file system of which the root is a directory, as are the parents of what there is.
Grounded(fs) ==
  /\ IsMap(fs) /\ fs[Root].kind = "dir"
  /\ \A q \in Places : q # <<>> /\ fs[q].kind # "none" => fs[Front(q)].kind = "dir"

\* g is fs with something removed.
Fewer(g, fs) == \A q \in Places : g[q] = fs[q] \/ g[q] = NoNode

\* A link of fs is missing in g; some link of fs leads above the place.
LinkGone(fs, g) == \E q \in Places : fs[q].kind = "link" /\ g[q] # fs[q]
BelowLink(fs, place) == \E q \in Places : fs[q].kind = "link" /\ IsPrefix(fs[q].to, place)

\* Links are to places.
LEMMA LinkTargets ==
  ASSUME NEW fs, IsMap(fs), NEW q \in Places, fs[q].kind = "link"
  PROVE  fs[q].to \in Places /\ fs[q].to \in Path
<1>1. fs[q] \in Node
  BY DEF IsMap
<1>2. fs[q].to \in Places
  BY <1>1 DEF Node
<1> QED BY <1>2, RootIsPath

\* No link is on the way to a directory.
LEMMA DirectoriesResolve ==
  ASSUME NEW fs, Grounded(fs)
  PROVE  \A q \in Places : fs[q].kind = "dir" => Resolve(fs, q) = q
<1> DEFINE Odd == {q \in Places : fs[q].kind = "dir" /\ Resolve(fs, q) # q}
           T == {Len(q) : q \in Odd}
<1> SUFFICES ASSUME Odd # {} PROVE FALSE
  OBVIOUS
<1>0. IsMap(fs)
  BY DEF Grounded
<1>1. PICK q \in Odd : \A p \in Odd : Len(q) <= Len(p)
  <2>1. T \subseteq Nat /\ T # {}
    BY RootIsPath, WholePath
  <2>2. PICK n \in T : \A m \in T : n <= m
    <3> HIDE DEF T
    <3> QED BY <2>1, LeastNumber
  <2> QED BY <2>2
<1>2. q \in Path /\ q # <<>>
  BY <1>0, RootIsPath, ResolveNothing
<1>3. /\ Front(q) \in Path /\ Len(Front(q)) = Len(q) - 1 /\ Last(q) \in STRING
      /\ Len(q) \in Nat \ {0} /\ q = Append(Front(q), Last(q))
  BY <1>2, FrontOfPath
<1>4. Front(q) \in Places /\ fs[Front(q)].kind = "dir"
  BY <1>2, PlacesAssumption DEF Grounded
<1>5. Resolve(fs, Front(q)) = Front(q)
  <2>1. ~(Len(q) <= Len(Front(q)))
    BY <1>3
  <2>2. Front(q) \notin Odd
    BY <1>1, <2>1
  <2> QED BY <1>4, <2>2
<1>6. Resolve(fs, q) = Enter(fs, Front(q), Last(q))
  <2>1. Resolve(fs, Append(Front(q), Last(q))) = Enter(fs, Resolve(fs, Front(q)), Last(q))
    BY <1>0, <1>3, ResolveNext
  <2> QED BY <1>3, <1>5, <2>1
<1>7. Last(q) # ".."
  <2>1. Last(q) \in Range(q)
    <3>1. DOMAIN q = 1..Len(q)
      BY <1>2, LenProperties DEF Path
    <3> QED BY <1>3, <3>1 DEF Last, Range
  <2> QED BY <2>1, PlacesAssumption
<1>8. At(fs, q).kind # "link"
  BY DEF At
<1> QED BY <1>1, <1>3, <1>6, <1>7, <1>8 DEF Enter

\* No links lead from the root elsewhere.
LEMMA ReachRoot ==
  ASSUME NEW fs, Grounded(fs), NEW path \in Path
  PROVE  Reach(fs, path, 0) = Root
<1>1. Way(path, 0) = Root
  BY WayEnds
<1>2. Root \in Places /\ fs[Root].kind = "dir"
  BY PlacesAssumption DEF Grounded
<1>3. Resolve(fs, Root) = Root
  BY <1>2, DirectoriesResolve
<1> QED BY <1>1, <1>3 DEF Reach

\* A path that goes up does not come back by names.
LEMMA GoesUp ==
  ASSUME NEW fs, Grounded(fs), NEW path \in Path, Leads(path),
         NEW k \in 1..Len(path), path[k] = ".."
  PROVE  Len(Reach(fs, path, k)) <= Len(Root)
<1> DEFINE Up == {m \in 0..k : Len(Reach(fs, path, m)) <= Len(Root)}
<1>0. IsMap(fs) /\ Len(path) \in Nat
  BY WholeWay DEF Grounded
<1>1. 0 \in Up
  BY <1>0, ReachRoot, RootIsPath
<1>2. ASSUME NEW m \in 0..k, m \in Up, m < k PROVE m + 1 \in Up
  <2>1. m + 1 \in 1..Len(path) /\ (m + 1) - 1 = m /\ m + 1 \in 0..k /\ m + 1 \in 1..k
    BY <1>0, <1>2
  <2>2. path[m + 1] = ".."
    BY <2>1 DEF Leads
  <2>3. /\ Reach(fs, path, m + 1) = Enter(fs, Reach(fs, path, m), path[m + 1])
        /\ Reach(fs, path, m) \in Path
    <3>1. \A i \in 1..Len(path) :
            /\ Reach(fs, path, i) = Enter(fs, Reach(fs, path, i - 1), path[i])
            /\ Reach(fs, path, i - 1) \in Path
      BY <1>0, ReachNext
    <3>2. /\ Reach(fs, path, m + 1) = Enter(fs, Reach(fs, path, (m + 1) - 1), path[m + 1])
          /\ Reach(fs, path, (m + 1) - 1) \in Path
      BY <2>1, <3>1
    <3> QED BY <2>1, <3>2
  <2>4. Len(Reach(fs, path, m + 1)) <= Len(Reach(fs, path, m))
    <3> DEFINE r == Reach(fs, path, m)
    <3>1. CASE r = <<>>
      BY <2>2, <2>3, <3>1, WholePath DEF Enter
    <3>2. CASE r # <<>>
      <4>1. Len(Front(r)) = Len(r) - 1 /\ Len(r) \in Nat
        BY <2>3, <3>2, FrontOfPath
      <4>2. Reach(fs, path, m + 1) = Front(r)
        BY <2>2, <2>3, <3>2 DEF Enter
      <4> QED BY <4>1, <4>2
    <3> QED BY <3>1, <3>2
  <2>5. Len(Reach(fs, path, m)) \in Nat
    BY <2>3, WholePath
  <2>6. Len(Reach(fs, path, m)) <= Len(Root)
    BY <1>2
  <2>7. Len(Reach(fs, path, m + 1)) \in Nat
    <3>1. m + 1 \in 0..Len(path)
      BY <2>1, <1>0
    <3>2. \A i \in 0..Len(path) : Reach(fs, path, i) \in Path
      BY <1>0, ReachType
    <3> QED BY <3>1, <3>2, WholePath
  <2>8. Len(Reach(fs, path, m + 1)) <= Len(Root)
    BY <2>4, <2>5, <2>6, <2>7, RootIsPath
  <2> QED BY <2>1, <2>8
<1>3. k \in Up
  <2> HIDE DEF Up
  <2>1. \A m \in 0..k : m \in Up /\ m < k => m + 1 \in Up
    BY <1>2
  <2>2. k \in Nat
    BY <1>0
  <2>3. 0..k \subseteq Up
    BY <1>1, <2>1, <2>2, Stepwise
  <2> QED BY <2>2, <2>3
<1> QED BY <1>3

\* What is beyond a place where there is nothing is nothing either.
LEMMA NothingBelow ==
  ASSUME NEW fs, Grounded(fs), NEW q \in Path, NEW name \in STRING, At(fs, q).kind = "none"
  PROVE  At(fs, Append(q, name)).kind = "none"
<1> DEFINE next == Append(q, name)
<1>1. Front(next) = q /\ next # <<>>
  BY FrontOfAppend, AppendToPath
<1>2. ASSUME next \in Places, fs[next].kind # "none" PROVE FALSE
  <2>1. q \in Places /\ fs[q].kind = "dir"
    <3> HIDE DEF next
    <3> QED BY <1>1, <1>2, PlacesAssumption DEF Grounded
  <2> QED BY <2>1 DEF At
<1>3. NoNode.kind = "none"
  BY DEF NoNode
<1> QED BY <1>2, <1>3 DEF At

\* Once a link on the way is gone, the path leads to nothing.
Astray(f, g, path, k) ==
  /\ k # 0 /\ path[k] # ".." /\ At(g, Reach(g, path, k)).kind = "none"
  /\ LinkGone(f, g) /\ BelowLink(f, Reach(f, path, k))

\* What is at a place stays there or is removed.
LEMMA FewerAt ==
  ASSUME NEW f, NEW g, Fewer(g, f), NEW q
  PROVE  At(g, q) = At(f, q) \/ At(g, q).kind = "none"
BY DEF Fewer, At, NoNode

\* When files are removed one name more leads where it led, or astray.
LEMMA OneNameMore ==
  ASSUME NEW f, NEW g, Grounded(f), Grounded(g), Fewer(g, f),
         NEW path \in Path, Leads(path), NEW k \in 1..Len(path),
         Reach(g, path, k - 1) = Reach(f, path, k - 1) \/ Astray(f, g, path, k - 1)
  PROVE  Reach(g, path, k) = Reach(f, path, k) \/ Astray(f, g, path, k)
<1>0. IsMap(f) /\ IsMap(g) /\ Len(path) \in Nat
  BY WholeWay DEF Grounded
<1>1. /\ Reach(f, path, k) = Enter(f, Reach(f, path, k - 1), path[k])
      /\ Reach(f, path, k) \in Path /\ Reach(f, path, k - 1) \in Path
      /\ path[k] \in STRING /\ Tip(f, path, k) \in Path
  BY <1>0, ReachNext
<1>2. /\ Reach(g, path, k) = Enter(g, Reach(g, path, k - 1), path[k])
      /\ Reach(g, path, k) \in Path /\ Reach(g, path, k - 1) \in Path
      /\ Tip(g, path, k) \in Path
  BY <1>0, ReachNext
<1> DEFINE a == Tip(f, path, k)
           b == Tip(g, path, k)
<1>3. path[k] # ".." => Reach(f, path, k) = IF At(f, a).kind = "link" THEN f[a].to ELSE a
  BY <1>0, TipParts
<1>4. path[k] # ".." => Reach(g, path, k) = IF At(g, b).kind = "link" THEN g[b].to ELSE b
  BY <1>0, TipParts
<1>5. CASE Reach(g, path, k - 1) = Reach(f, path, k - 1)
  <2>1. CASE path[k] = ".."
    BY <1>1, <1>2, <1>5, <2>1 DEF Enter
  <2>2. CASE path[k] # ".." /\ At(g, b) = At(f, a)
    <3>1. a = b
      BY <1>5 DEF Tip
    <3>2. At(f, a).kind = "link" => f[a] = g[b]
      BY <2>2, <3>1 DEF At, NoNode
    <3> HIDE DEF a, b
    <3> QED BY <1>3, <1>4, <2>2, <3>1, <3>2
  <2>3. CASE path[k] # ".." /\ At(g, b) # At(f, a)
    <3>1. a = b
      BY <1>5 DEF Tip
    <3>2. At(g, a).kind = "none"
      BY <2>3, <3>1, FewerAt
    <3>3. CASE At(f, a).kind = "link"
      <4>1. a \in Places /\ f[a].kind = "link"
        BY <3>3 DEF At, NoNode
      <4>2. g[a] # f[a]
        BY <3>2, <4>1 DEF At
      <4>3. LinkGone(f, g)
        BY <4>1, <4>2 DEF LinkGone
      <4>4. Reach(f, path, k) = f[a].to /\ f[a].to \in Path
        BY <1>0, <1>3, <2>3, <3>3, <4>1, LinkTargets
      <4>5. IsPrefix(f[a].to, Reach(f, path, k))
        BY <4>4, PrefixSelf
      <4>6. BelowLink(f, Reach(f, path, k))
        BY <4>1, <4>5 DEF BelowLink
      <4>7. At(g, Reach(g, path, k)).kind = "none"
        BY <1>4, <2>3, <3>1, <3>2
      <4>8. k # 0
        BY <1>0
      <4> QED BY <2>3, <4>3, <4>6, <4>7, <4>8 DEF Astray
    <3>4. CASE At(f, a).kind # "link"
      <4>1. Reach(f, path, k) = a /\ Reach(g, path, k) = b
        BY <1>3, <1>4, <2>3, <3>1, <3>2, <3>4
      <4> QED BY <3>1, <4>1
    <3> QED BY <3>3, <3>4
  <2> QED BY <2>1, <2>2, <2>3
<1>6. CASE Astray(f, g, path, k - 1)
  <2>1. k - 1 \in 1..Len(path) /\ k # 0
    BY <1>0, <1>6 DEF Astray
  <2>2. path[k] # ".."
    BY <1>0, <1>6, <2>1 DEF Astray, Leads
  <2>3. At(g, b).kind = "none"
    <3>1. At(g, Reach(g, path, k - 1)).kind = "none"
      BY <1>6 DEF Astray
    <3> QED BY <1>1, <1>2, <3>1, NothingBelow DEF Tip
  <2>4. At(g, Reach(g, path, k)).kind = "none"
    BY <1>4, <2>2, <2>3
  <2>5. BelowLink(f, Reach(f, path, k))
    <3>1. CASE At(f, a).kind = "link"
      <4>1. a \in Places /\ f[a].kind = "link"
        BY <3>1 DEF At, NoNode
      <4>2. Reach(f, path, k) = f[a].to /\ f[a].to \in Path
        BY <1>0, <1>3, <2>2, <3>1, <4>1, LinkTargets
      <4>3. IsPrefix(f[a].to, Reach(f, path, k))
        BY <4>2, PrefixSelf
      <4> QED BY <4>1, <4>3 DEF BelowLink
    <3>2. CASE At(f, a).kind # "link"
      <4>1. Reach(f, path, k) = Append(Reach(f, path, k - 1), path[k])
        BY <1>3, <2>2, <3>2 DEF Tip
      <4>2. PICK q \in Places : f[q].kind = "link" /\ IsPrefix(f[q].to, Reach(f, path, k - 1))
        BY <1>6 DEF Astray, BelowLink
      <4>3. f[q].to \in Path
        BY <1>0, <4>2, LinkTargets
      <4>4. IsPrefix(f[q].to, Append(Reach(f, path, k - 1), path[k]))
        BY <1>1, <4>2, <4>3, PrefixNext
      <4> QED BY <4>1, <4>2, <4>4 DEF BelowLink
    <3> QED BY <3>1, <3>2
  <2>6. LinkGone(f, g)
    BY <1>6 DEF Astray
  <2> QED BY <2>1, <2>2, <2>4, <2>5, <2>6 DEF Astray
<1> QED BY <1>5, <1>6

\* When files are removed a path leads where it led, or to nothing.
LEMMA ReachStays ==
  ASSUME NEW f, NEW g, Grounded(f), Grounded(g), Fewer(g, f),
         NEW path \in Path, Leads(path), NEW k \in 0..Len(path)
  PROVE  Reach(g, path, k) = Reach(f, path, k) \/ Astray(f, g, path, k)
<1> DEFINE Same == {m \in 0..Len(path) : Reach(g, path, m) = Reach(f, path, m) \/ Astray(f, g, path, m)}
<1>1. Len(path) \in Nat
  BY WholeWay
<1>2. 0 \in Same
  BY <1>1, ReachRoot
<1>3. ASSUME NEW m \in 0..Len(path), m \in Same, m < Len(path) PROVE m + 1 \in Same
  <2>1. m + 1 \in 1..Len(path) /\ (m + 1) - 1 = m /\ m + 1 \in 0..Len(path)
    BY <1>1, <1>3
  <2>2. \A i \in 1..Len(path) :
          Reach(g, path, i - 1) = Reach(f, path, i - 1) \/ Astray(f, g, path, i - 1)
            => Reach(g, path, i) = Reach(f, path, i) \/ Astray(f, g, path, i)
    BY OneNameMore
  <2>3. Reach(g, path, (m + 1) - 1) = Reach(f, path, (m + 1) - 1) \/ Astray(f, g, path, (m + 1) - 1)
    BY <1>3, <2>1
  <2> QED BY <2>1, <2>2, <2>3
<1>4. 0..Len(path) \subseteq Same
  <2> HIDE DEF Same
  <2>1. \A m \in 0..Len(path) : m \in Same /\ m < Len(path) => m + 1 \in Same
    BY <1>3
  <2> QED BY <1>1, <1>2, <2>1, Stepwise
<1> QED BY <1>4

\* The place of a name is what it was, or there is nothing.
LEMMA TipStays ==
  ASSUME NEW f, NEW g, Grounded(f), Grounded(g), Fewer(g, f),
         NEW path \in Path, Leads(path), NEW k \in 1..Len(path)
  PROVE  Tip(g, path, k) = Tip(f, path, k) \/ At(g, Tip(g, path, k)).kind = "none"
<1>1. k - 1 \in 0..Len(path)
  BY WholeWay
<1>2. Reach(g, path, k - 1) = Reach(f, path, k - 1) \/ Astray(f, g, path, k - 1)
  BY <1>1, ReachStays
<1>3. ASSUME Astray(f, g, path, k - 1) PROVE At(g, Tip(g, path, k)).kind = "none"
  <2>1. At(g, Reach(g, path, k - 1)).kind = "none"
    BY <1>3 DEF Astray
  <2>2. IsMap(g)
    BY DEF Grounded
  <2>3. Reach(g, path, k - 1) \in Path /\ path[k] \in STRING
    BY <2>2, ReachNext
  <2> QED BY <2>1, <2>3, NothingBelow DEF Tip
<1> QED BY <1>2, <1>3 DEF Tip

\* What g lacks of f
Gone(f, g) == {q \in Places : g[q] # f[q]}

\* One entry less
LEMMA WithoutParts ==
  ASSUME NEW fs, IsMap(fs), NEW place \in Places
  PROVE  /\ IsMap(Without(fs, place)) /\ Fewer(Without(fs, place), fs)
         /\ Without(fs, place)[place] = NoNode
         /\ \A q \in Places : q # place => Without(fs, place)[q] = fs[q]
<1>1. NoNode \in Node
  BY DEF NoNode, Node
<1>2. Without(fs, place) \in [Places -> Node]
  BY <1>1 DEF Without, IsMap
<1> QED BY <1>2 DEF Without, IsMap, Fewer

\* What has nothing in it can be removed.
LEMMA RemovalKeepsGrounded ==
  ASSUME NEW fs, Grounded(fs), NEW place \in Places, place # Root,
         \A q \in Places : q # <<>> /\ Front(q) = place => fs[q].kind = "none"
  PROVE  Grounded(Without(fs, place))
<1> DEFINE g == Without(fs, place)
<1>1. /\ IsMap(g) /\ g[place] = NoNode /\ \A q \in Places : q # place => g[q] = fs[q]
  BY WithoutParts DEF Grounded
<1> HIDE DEF g
<1>2. g[Root].kind = "dir"
  BY <1>1, PlacesAssumption DEF Grounded
<1>3. ASSUME NEW q \in Places, q # <<>>, g[q].kind # "none" PROVE g[Front(q)].kind = "dir"
  <2>1. q # place /\ fs[q].kind # "none"
    BY <1>1, <1>3 DEF NoNode
  <2>2. fs[Front(q)].kind = "dir" /\ Front(q) # place /\ Front(q) \in Places
    BY <1>3, <2>1, PlacesAssumption DEF Grounded
  <2> QED BY <1>1, <2>2
<1> QED BY <1>1, <1>2, <1>3 DEF Grounded, g

\* A file or a link can be removed.
LEMMA LeafCanGo ==
  ASSUME NEW fs, Grounded(fs), NEW leaf \in Places, fs[leaf].kind \in {"file", "link"}
  PROVE  Grounded(Without(fs, leaf)) /\ leaf # Root
<1>1. leaf # Root
  BY DEF Grounded
<1>2. ASSUME NEW q \in Places, q # <<>>, Front(q) = leaf PROVE fs[q].kind = "none"
  BY <1>2 DEF Grounded
<1> QED BY <1>1, <1>2, RemovalKeepsGrounded

\* A file below the root keeps the root from being empty.
LEMMA RootNotEmpty ==
  ASSUME NEW fs, Grounded(fs), NEW f \in Places, IsStrictPrefix(Root, f), fs[f].kind # "none"
  PROVE  EntriesOf(fs, Root) # {}
<1> DEFINE Below == {q \in Places : IsStrictPrefix(Root, q) /\ fs[q].kind # "none"}
           T == {Len(q) : q \in Below}
<1>1. PICK q \in Below : \A p \in Below : Len(q) <= Len(p)
  <2>1. T \subseteq Nat /\ T # {}
    BY RootIsPath, WholePath
  <2>2. PICK n \in T : \A m \in T : n <= m
    <3> HIDE DEF T
    <3> QED BY <2>1, LeastNumber
  <2> QED BY <2>2
<1>2. q \in Path /\ IsPrefix(Root, q) /\ q # Root
  BY RootIsPath DEF IsStrictPrefix
<1>3. q # <<>>
  <2>1. Len(Root) <= Len(q) /\ (Len(Root) = Len(q) => Root = q)
    BY <1>2, RootIsPath, PrefixLength
  <2>2. Len(<<>>) = 0
    BY EmptySeq
  <2> QED BY <1>2, <2>1, <2>2, RootIsPath
<1>4. /\ Front(q) \in Path /\ Len(Front(q)) = Len(q) - 1 /\ Last(q) \in STRING
      /\ Len(q) \in Nat \ {0} /\ q = Append(Front(q), Last(q))
  BY <1>2, <1>3, FrontOfPath
<1>5. IsPrefix(Root, Front(q))
  <2>1. IsPrefix(Root, Append(Front(q), Last(q)))
    BY <1>2, <1>4
  <2>2. Root = Append(Front(q), Last(q)) \/ IsPrefix(Root, Front(q))
    BY <1>4, <2>1, RootIsPath, PrefixNext
  <2> QED BY <1>2, <1>4, <2>2
<1>6. Front(q) \in Places /\ fs[Front(q)].kind = "dir"
  BY <1>3, PlacesAssumption DEF Grounded
<1>7. Front(q) = Root
  <2>1. Front(q) # Root => Front(q) \in Below
    BY <1>5, <1>6 DEF IsStrictPrefix
  <2>2. ~(Len(q) <= Len(Front(q)))
    BY <1>4
  <2> QED BY <1>1, <2>1, <2>2
<1>8. q \in EntriesOf(fs, Root)
  BY <1>3, <1>7 DEF EntriesOf
<1> QED BY <1>8

\* What is above a prefix is a prefix.
LEMMA PrefixFront ==
  ASSUME NEW p \in Path, NEW q \in Path, IsPrefix(p, q), p # <<>>
  PROVE  IsPrefix(Front(p), q)
<1>1. /\ Front(p) \in Path /\ Len(Front(p)) = Len(p) - 1 /\ Len(p) \in Nat \ {0}
  BY FrontOfPath
<1>2. Len(p) <= Len(q) /\ SubSeq(p, 1, Len(p)) = SubSeq(q, 1, Len(p))
  BY DEF IsPrefix
<1>3. Len(q) \in Nat /\ SubSeq(p, 1, Len(p)) = p
  BY WholePath
<1>4. SubSeq(Front(p), 1, Len(Front(p))) = Front(p)
  BY <1>1, WholePath
<1>5. \A i \in 1..(Len(p) - 1) : p[i] = q[i]
  <2>1. \A i \in 1..Len(q) : q[i] \in STRING
    <3>1. q \in Seq(STRING)
      BY DEF Path
    <3> QED BY <3>1, ElementOfSeq
  <2>2. \A i \in 1..Len(p) : q[i] \in STRING
    BY <1>1, <1>2, <1>3, <2>1
  <2>3. \A i \in 1..(Len(p) - 1 + 1) : SubSeq(q, 1, Len(p))[i] = q[1 + i - 1]
    <3>1. Len(p) \in Int /\ 1 \in Int
      BY <1>1
    <3> QED BY <2>2, <3>1, SubSeqProperties
  <2> QED BY <1>1, <1>2, <1>3, <2>3
<1>6. SubSeq(p, 1, Len(p) - 1) = SubSeq(q, 1, Len(p) - 1)
  <2>1. Len(p) - 1 \in Nat /\ Len(p) - 1 <= Len(p) /\ Len(p) - 1 <= Len(q)
    BY <1>1, <1>2, <1>3
  <2> QED BY <1>5, <2>1, SameStart
<1> QED BY <1>1, <1>2, <1>3, <1>4, <1>6 DEF IsPrefix, Front

\* The parent of what is inside the root, but the root itself, is inside it.
LEMMA FrontInside ==
  ASSUME NEW q \in Path, Inside(q), q # Root
  PROVE  q # <<>> /\ Inside(Front(q))
<1>1. q # <<>>
  <2>1. Len(Root) <= Len(q) /\ (Len(Root) = Len(q) => Root = q)
    BY RootIsPath, PrefixLength DEF Inside
  <2>2. Len(<<>>) = 0
    BY EmptySeq
  <2> QED BY <2>1, <2>2, RootIsPath
<1>2. /\ Front(q) \in Path /\ Last(q) \in STRING /\ q = Append(Front(q), Last(q))
  BY <1>1, FrontOfPath
<1>3. IsPrefix(Root, Append(Front(q), Last(q)))
  BY <1>2 DEF Inside
<1>4. Root = Append(Front(q), Last(q)) \/ IsPrefix(Root, Front(q))
  BY <1>2, <1>3, RootIsPath, PrefixNext
<1> QED BY <1>1, <1>2, <1>4 DEF Inside

\* What holds when a file is unlinked: it is below the root, as is another file.
Removing(f, path) ==
  /\ Grounded(f) /\ path \in Path /\ Len(path) \in Nat \ {0} /\ Leads(path)
  /\ Tip(f, path, Len(path)) \in Places /\ Inside(Tip(f, path, Len(path)))
  /\ f[Tip(f, path, Len(path))].kind \in {"file", "link"}
  /\ \E x \in Places : /\ IsStrictPrefix(Root, x) /\ f[x].kind = "file"
                       /\ x # Tip(f, path, Len(path))

\* Of f only the leaf and directories above it are gone.
Cleared(f, g, leaf) ==
  /\ Grounded(g) /\ Fewer(g, f) /\ leaf \in Gone(f, g)
  /\ \A q \in Gone(f, g) : /\ Inside(q) /\ q # Root /\ IsPrefix(q, leaf)
                           /\ q # leaf => f[q].kind = "dir"

\* r is the topmost of what is gone, which is a part of one path.
Topmost(f, g, r) ==
  /\ r \in Gone(f, g)
  /\ \A q \in Gone(f, g) : Len(r) <= Len(q) /\ (q = r \/ Front(q) \in Gone(f, g))

\* Why a directory is not pruned
Kept(f, g, world, d) ==
  \/ d = Root \/ EntriesOf(g, d) # {} \/ d \in world.protected
  \/ \E q \in Places : f[q].kind = "link" /\ f[q].to = d
  \/ LinkGone(f, g) /\ BelowLink(f, d)

\* Above the topmost that is gone there is a directory still, inside the root.
LEMMA AboveTopmost ==
  ASSUME NEW f, NEW path, Removing(f, path), NEW g, Cleared(f, g, Tip(f, path, Len(path))),
         NEW r, Topmost(f, g, r)
  PROVE  /\ r \in Places /\ r \in Path /\ r # <<>> /\ f[r].kind # "none"
         /\ Front(r) \in Places /\ Front(r) \in Path /\ Inside(Front(r))
         /\ Front(r) \notin Gone(f, g) /\ f[Front(r)].kind = "dir" /\ g[Front(r)] = f[Front(r)]
         /\ Len(Front(r)) = Len(r) - 1 /\ Len(r) \in Nat \ {0}
<1>1. r \in Places /\ r \in Path /\ Inside(r) /\ r # Root
  BY RootIsPath DEF Topmost, Cleared, Gone
<1>2. r # <<>> /\ Inside(Front(r))
  BY <1>1, FrontInside
<1>3. f[r].kind # "none"
  BY <1>1 DEF Topmost, Cleared, Removing
<1>4. Front(r) \in Places /\ f[Front(r)].kind = "dir"
  BY <1>1, <1>2, <1>3, PlacesAssumption DEF Removing, Grounded
<1>5. Front(r) \in Path /\ Len(Front(r)) = Len(r) - 1 /\ Len(r) \in Nat \ {0}
  BY <1>1, <1>2, FrontOfPath
<1>6. Front(r) \notin Gone(f, g)
  <2>1. ~(Len(r) <= Len(Front(r)))
    BY <1>5
  <2> QED BY <2>1 DEF Topmost
<1>7. g[Front(r)] = f[Front(r)]
  BY <1>4, <1>6 DEF Gone
<1> QED BY <1>1, <1>2, <1>3, <1>4, <1>5, <1>6, <1>7

\* If a directory that the path leads to is not pruned, there is a reason.
LEMMA StopsForAReason ==
  ASSUME NEW f, NEW path, Removing(f, path), NEW g, Cleared(f, g, Tip(f, path, Len(path))),
         NEW world, NEW r, Topmost(f, g, r), NEW m \in 1..Len(path),
         Front(r) = Reach(f, path, m), ~Prunes(world, g, Tip(g, path, m))
  PROVE  Kept(f, g, world, Front(r))
<1> DEFINE d == Front(r)
           a == Tip(f, path, m)
<1>0. /\ Grounded(f) /\ Grounded(g) /\ Fewer(g, f) /\ IsMap(f) /\ path \in Path /\ Leads(path)
      /\ Len(path) \in Nat
  BY DEF Removing, Cleared, Grounded
<1>1. d \in Places /\ d \in Path /\ Inside(d) /\ g[d].kind = "dir"
  BY AboveTopmost
<1>2. /\ path[m] # ".." => Reach(f, path, m) = IF At(f, a).kind = "link" THEN f[a].to ELSE a
      /\ Reach(f, path, m - 1) \in Path /\ path[m] \in STRING
  BY <1>0, TipParts, ReachNext
<1>3. CASE path[m] = ".."
  <2>1. Len(Reach(f, path, m)) <= Len(Root)
    BY <1>0, <1>3, GoesUp
  <2>2. Len(Root) <= Len(d) /\ (Len(Root) = Len(d) => Root = d) /\ Len(d) \in Nat
    BY <1>1, RootIsPath, PrefixLength, WholePath DEF Inside
  <2>3. Len(d) <= Len(Root)
    BY <2>1
  <2>4. d = Root
    <3> HIDE DEF d
    <3> QED BY <2>2, <2>3, RootIsPath
  <2> QED BY <2>4 DEF Kept
<1>4. CASE path[m] # ".." /\ At(f, a).kind = "link"
  <2>1. a \in Places /\ f[a].kind = "link" /\ f[a].to = d
    BY <1>2, <1>4 DEF At, NoNode
  <2> QED BY <2>1 DEF Kept
<1>5. CASE path[m] # ".." /\ At(f, a).kind # "link"
  <2>1. d = a
    BY <1>2, <1>5
  <2>2. m - 1 \in 0..Len(path)
    BY <1>0
  <2>3. Reach(g, path, m - 1) = Reach(f, path, m - 1) \/ Astray(f, g, path, m - 1)
    BY <1>0, <2>2, ReachStays
  <2>4. CASE Reach(g, path, m - 1) = Reach(f, path, m - 1)
    <3>1. Tip(g, path, m) = d
      BY <2>1, <2>4 DEF Tip
    <3>2. EntriesOf(g, d) # {} \/ d \in world.protected
      BY <1>1, <3>1 DEF Prunes, At
    <3> QED BY <3>2 DEF Kept
  <2>5. CASE Astray(f, g, path, m - 1)
    <3>1. PICK q \in Places : f[q].kind = "link" /\ IsPrefix(f[q].to, Reach(f, path, m - 1))
      BY <2>5 DEF Astray, BelowLink
    <3>2. f[q].to \in Path
      BY <1>0, <3>1, LinkTargets
    <3>3. IsPrefix(f[q].to, d)
      <4>1. IsPrefix(f[q].to, Append(Reach(f, path, m - 1), path[m]))
        BY <1>2, <3>1, <3>2, PrefixNext
      <4> QED BY <2>1, <4>1 DEF Tip
    <3>4. LinkGone(f, g) /\ BelowLink(f, d)
      BY <2>5, <3>1, <3>3 DEF Astray, BelowLink
    <3> QED BY <3>4 DEF Kept
  <2> QED BY <2>3, <2>4, <2>5
<1> QED BY <1>3, <1>4, <1>5

\* What is pruned next is the parent of what was removed last.
LEMMA PrunesTheParent ==
  ASSUME NEW f, NEW path, Removing(f, path), NEW g, Cleared(f, g, Tip(f, path, Len(path))),
         NEW world, NEW r, Topmost(f, g, r), NEW m \in 1..Len(path),
         Front(r) = Reach(f, path, m), Prunes(world, g, Tip(g, path, m))
  PROVE  /\ Tip(g, path, m) = Front(r) /\ Tip(g, path, m) # <<>>
         /\ Front(Front(r)) = Reach(f, path, m - 1)
<1> DEFINE d == Tip(g, path, m)
<1>0. /\ Grounded(f) /\ Grounded(g) /\ Fewer(g, f) /\ IsMap(g) /\ path \in Path /\ Leads(path)
      /\ Len(path) \in Nat
  BY DEF Removing, Cleared, Grounded
<1>1. d \in Places /\ g[d].kind = "dir"
  BY DEF Prunes, At, NoNode
<1>2. /\ Front(d) = Reach(g, path, m - 1) /\ d # <<>>
      /\ path[m] = ".." => d \notin Places
      /\ path[m] # ".." => Reach(g, path, m) = IF At(g, d).kind = "link" THEN g[d].to ELSE d
  BY <1>0, TipParts
<1>3. Reach(g, path, m) = d
  BY <1>1, <1>2 DEF At
<1>4. d = Front(r)
  <2>1. m \in 0..Len(path)
    BY <1>0
  <2>2. Reach(g, path, m) = Reach(f, path, m) \/ Astray(f, g, path, m)
    BY <1>0, <2>1, ReachStays
  <2>3. ~Astray(f, g, path, m)
    BY <1>1, <1>3 DEF Astray, At
  <2> QED BY <1>3, <2>2, <2>3
<1>5. Front(d) = Reach(f, path, m - 1)
  <2>1. m - 1 \in 0..Len(path)
    BY <1>0
  <2>2. Reach(g, path, m - 1) = Reach(f, path, m - 1) \/ Astray(f, g, path, m - 1)
    BY <1>0, <2>1, ReachStays
  <2>3. Front(d) \in Places /\ g[Front(d)].kind = "dir"
    BY <1>0, <1>1, <1>2, PlacesAssumption DEF Grounded
  <2>4. ~Astray(f, g, path, m - 1)
    BY <1>2, <2>3 DEF Astray, At
  <2> QED BY <1>2, <2>2, <2>4
<1> QED BY <1>2, <1>4, <1>5

\* When the parent is pruned it is the topmost of what is gone.
LEMMA PrunedParent ==
  ASSUME NEW f, NEW path, Removing(f, path), NEW g, Cleared(f, g, Tip(f, path, Len(path))),
         NEW r, Topmost(f, g, r), EntriesOf(g, Front(r)) = {}
  PROVE  /\ Cleared(f, Without(g, Front(r)), Tip(f, path, Len(path)))
         /\ Topmost(f, Without(g, Front(r)), Front(r))
<1> DEFINE d == Front(r)
           h == Without(g, d)
           leaf == Tip(f, path, Len(path))
<1>0. /\ Grounded(f) /\ Grounded(g) /\ IsMap(g) /\ Fewer(g, f) /\ leaf \in Gone(f, g)
      /\ \A q \in Gone(f, g) : /\ Inside(q) /\ q # Root /\ IsPrefix(q, leaf)
                               /\ q # leaf => f[q].kind = "dir"
  BY DEF Removing, Cleared, Grounded
<1>1. /\ r \in Places /\ r \in Path /\ r # <<>>
      /\ d \in Places /\ d \in Path /\ Inside(d)
      /\ d \notin Gone(f, g) /\ f[d].kind = "dir" /\ g[d] = f[d]
      /\ Len(d) = Len(r) - 1 /\ Len(r) \in Nat \ {0}
  BY AboveTopmost
<1>2. leaf \in Path
  BY RootIsPath DEF Removing
<1>3. d # Root
  <2>1. PICK x \in Places : IsStrictPrefix(Root, x) /\ f[x].kind = "file" /\ x # leaf
    BY DEF Removing
  <2>2. x \notin Gone(f, g)
    BY <1>0, <2>1
  <2>3. g[x].kind # "none"
    BY <2>1, <2>2 DEF Gone
  <2>4. EntriesOf(g, Root) # {}
    BY <1>0, <2>1, <2>3, RootNotEmpty
  <2> QED BY <2>4
<1>4. /\ IsMap(h) /\ h[d] = NoNode /\ \A q \in Places : q # d => h[q] = g[q]
  BY <1>0, <1>1, WithoutParts
<1>5. Grounded(h)
  <2>1. \A q \in Places : q # <<>> /\ Front(q) = d => g[q].kind = "none"
    BY DEF EntriesOf
  <2> QED BY <1>0, <1>1, <1>3, <2>1, RemovalKeepsGrounded
<1> HIDE DEF h, d, leaf
<1>6. Gone(f, h) = Gone(f, g) \cup {d}
  <2>1. h[d] # f[d]
    BY <1>1, <1>4 DEF NoNode
  <2> QED BY <1>1, <1>4, <2>1 DEF Gone
<1>7. Fewer(h, f)
  BY <1>0, <1>4 DEF Fewer
<1>8. IsPrefix(d, leaf)
  <2>1. IsPrefix(r, leaf)
    BY <1>0 DEF Topmost
  <2> QED BY <1>1, <1>2, <2>1, PrefixFront DEF d
<1>9. Cleared(f, h, leaf)
  BY <1>0, <1>1, <1>3, <1>5, <1>6, <1>7, <1>8 DEF Cleared
<1>10. Topmost(f, h, d)
  <2>1. ASSUME NEW q \in Gone(f, g) PROVE Len(d) <= Len(q) /\ Front(q) \in Gone(f, h)
    <3>1. Len(r) <= Len(q) /\ (q = r \/ Front(q) \in Gone(f, g)) /\ Len(q) \in Nat
      BY RootIsPath, WholePath DEF Topmost, Gone
    <3> QED BY <1>1, <1>6, <3>1 DEF d
  <2>2. Len(d) <= Len(d)
    BY <1>1
  <2> QED BY <1>6, <2>1, <2>2 DEF Topmost
<1> QED BY <1>9, <1>10 DEF h, d, leaf

\* One directory further up
PruneState == [fs: [Places -> Node], stop: BOOLEAN]
Higher(world, place, h, below) ==
  LET d == Leaf(below.fs, SubSeq(place, 1, Len(place) - h))
  IN IF below.stop \/ ~Prunes(world, below.fs, d) THEN [below EXCEPT !.stop = TRUE]
     ELSE [below EXCEPT !.fs = Without(@, d)]
Climbs(c, world, fs, place) ==
  c = [h \in 0..(Len(place) - Len(Root) - 1) |->
         IF h = 0 THEN [fs |-> fs, stop |-> FALSE] ELSE Higher(world, place, h, c[h - 1])]

\* A step up either stops or removes a directory.
LEMMA HigherParts ==
  ASSUME NEW world, NEW place, NEW h, NEW below \in PruneState
  PROVE  LET d == Leaf(below.fs, SubSeq(place, 1, Len(place) - h))
             above == Higher(world, place, h, below)
         IN /\ above \in PruneState
            /\ below.stop \/ ~Prunes(world, below.fs, d) => above.stop /\ above.fs = below.fs
            /\ ~below.stop /\ Prunes(world, below.fs, d) =>
                 ~above.stop /\ above.fs = Without(below.fs, d) /\ d \in Places
<1> DEFINE d == Leaf(below.fs, SubSeq(place, 1, Len(place) - h))
           above == Higher(world, place, h, below)
<1>1. below.fs \in [Places -> Node] /\ below.stop \in BOOLEAN /\ below = [fs |-> below.fs, stop |-> below.stop]
  BY DEF PruneState
<1> HIDE DEF d
<1>2. CASE below.stop \/ ~Prunes(world, below.fs, d)
  <2>1. above = [below EXCEPT !.stop = TRUE]
    BY <1>2 DEF Higher, d
  <2> HIDE DEF above
  <2>2. above = [fs |-> below.fs, stop |-> TRUE]
    BY <1>1, <2>1
  <2>3. above \in PruneState /\ above.stop /\ above.fs = below.fs
    BY <1>1, <2>2 DEF PruneState
  <2> QED BY <1>2, <2>3 DEF above, d
<1>3. CASE ~below.stop /\ Prunes(world, below.fs, d)
  <2>1. above = [below EXCEPT !.fs = Without(below.fs, d)]
    BY <1>3 DEF Higher, d
  <2> HIDE DEF above
  <2>2. above = [fs |-> Without(below.fs, d), stop |-> below.stop]
    BY <1>1, <2>1
  <2>3. d \in Places
    BY <1>3 DEF Prunes, At, NoNode
  <2>4. Without(below.fs, d) \in [Places -> Node]
    BY <1>1, <2>3, WithoutParts DEF IsMap
  <2>5. above \in PruneState /\ ~above.stop /\ above.fs = Without(below.fs, d)
    BY <1>1, <1>3, <2>2, <2>4 DEF PruneState
  <2> QED BY <1>3, <2>3, <2>5 DEF above, d
<1> QED BY <1>2, <1>3

\* Prune is well-defined: there is a function that is what its recursion says.
LEMMA PruneDefined ==
  ASSUME NEW world, NEW fs, IsMap(fs), NEW place, Len(place) - Len(Root) - 1 \in Nat
  PROVE  \E c : /\ Climbs(c, world, fs, place)
                /\ Prune(world, fs, place) = c[Len(place) - Len(Root) - 1].fs
<1> DEFINE top == Len(place) - Len(Root) - 1
           step == [h \in 1..top |-> [below \in PruneState |-> Higher(world, place, h, below)]]
           base == [fs |-> fs, stop |-> FALSE]
<1>1. Steps(step, top, PruneState)
  <2>1. \A h \in 1..top : \A below \in PruneState : Higher(world, place, h, below) \in PruneState
    BY HigherParts
  <2> QED BY <2>1 DEF Steps
<1>2. base \in PruneState
  BY DEF PruneState, IsMap
<1>3. PICK f : Loops(f, step, top, PruneState, base)
  <2> HIDE DEF step, base
  <2> QED BY <1>1, <1>2, LoopDefined
<1>4. f \in [0..top -> PruneState] /\ f[0] = base
  BY <1>3 DEF Loops
<1>5. ASSUME NEW h \in 0..top PROVE f[h] = IF h = 0 THEN base ELSE Higher(world, place, h, f[h - 1])
  <2>1. CASE h # 0
    <3>1. h \in 1..top /\ f[h - 1] \in PruneState
      <4> HIDE DEF base
      <4> QED BY <1>4, <2>1
    <3>2. f[h] = step[h][f[h - 1]]
      <4> HIDE DEF step, base
      <4> QED BY <1>3, <3>1 DEF Loops
    <3> HIDE DEF top, base
    <3> QED BY <2>1, <3>1, <3>2
  <2>2. CASE h = 0
    BY <1>4, <2>2
  <2> QED BY <2>1, <2>2
<1>6. Climbs(f, world, fs, place)
  <2>1. f = [h \in 0..top |-> f[h]]
    BY <1>4
  <2> QED BY <1>5, <2>1 DEF Climbs
<1> DEFINE c == CHOOSE g : Climbs(g, world, fs, place)
<1>7. Climbs(c, world, fs, place)
  BY <1>6
<1>8. Prune(world, fs, place) = c[top].fs
  BY DEF Prune, Climbs, Higher
<1> QED BY <1>7, <1>8

\* What holds on the way up
Climbed(f, path, world, b, h) ==
  /\ b \in PruneState /\ Cleared(f, b.fs, Tip(f, path, Len(path)))
  /\ \E r : /\ Topmost(f, b.fs, r)
            /\ ~b.stop => Front(r) = Reach(f, path, Len(path) - h - 1)
            /\ b.stop => Kept(f, b.fs, world, Front(r))

\* It holds when the file has been unlinked ...
LEMMA ClimbBegins ==
  ASSUME NEW f, NEW path, Removing(f, path), NEW world
  PROVE  Climbed(f, path, world, [fs |-> Without(f, Tip(f, path, Len(path))), stop |-> FALSE], 0)
<1> DEFINE leaf == Tip(f, path, Len(path))
           g == Without(f, leaf)
           b == [fs |-> g, stop |-> FALSE]
<1>0. /\ Grounded(f) /\ IsMap(f) /\ leaf \in Places /\ Inside(leaf)
      /\ f[leaf].kind \in {"file", "link"} /\ leaf \in Path
      /\ path \in Path /\ Len(path) \in 1..Len(path)
  BY RootIsPath DEF Removing, Grounded
<1>1. /\ IsMap(g) /\ Fewer(g, f) /\ g[leaf] = NoNode
      /\ \A q \in Places : q # leaf => g[q] = f[q]
  BY <1>0, WithoutParts
<1>2. Grounded(g) /\ leaf # Root
  BY <1>0, LeafCanGo
<1>3. Front(leaf) = Reach(f, path, Len(path) - 1)
  BY <1>0, TipParts
<1>4. b \in PruneState
  BY <1>1 DEF PruneState, IsMap
<1> HIDE DEF leaf, g
<1>5. Gone(f, g) = {leaf}
  BY <1>0, <1>1 DEF Gone, NoNode
<1>6. IsPrefix(leaf, leaf)
  BY <1>0, PrefixSelf
<1>7. Cleared(f, g, leaf)
  BY <1>0, <1>1, <1>2, <1>5, <1>6 DEF Cleared
<1>8. Topmost(f, g, leaf)
  <2>1. Len(leaf) <= Len(leaf)
    BY <1>0, WholePath
  <2> QED BY <1>5, <2>1 DEF Topmost
<1>9. Front(leaf) = Reach(f, path, Len(path) - 0 - 1)
  BY <1>0, <1>3
<1>10. b.fs = g /\ ~b.stop
  OBVIOUS
<1> HIDE DEF b
<1>11. Climbed(f, path, world, b, 0)
  BY <1>4, <1>7, <1>8, <1>9, <1>10 DEF Climbed, leaf
<1> QED BY <1>11 DEF b, g, leaf

\* ... and one directory further up.
LEMMA ClimbGoesOn ==
  ASSUME NEW f, NEW path, Removing(f, path), NEW world, NEW h \in 1..(Len(path) - 1),
         NEW b, Climbed(f, path, world, b, h - 1)
  PROVE  Climbed(f, path, world, Higher(world, Root \o path, h, b), h)
<1> DEFINE place == Root \o path
           m == Len(path) - h
           d == Leaf(b.fs, SubSeq(place, 1, Len(place) - h))
           above == Higher(world, place, h, b)
           leaf == Tip(f, path, Len(path))
<1>0. path \in Path /\ Len(path) \in Nat \ {0} /\ m \in 1..Len(path) /\ Len(path) - (h - 1) - 1 = m
  BY DEF Removing
<1>1. b \in PruneState /\ Cleared(f, b.fs, leaf) /\ Grounded(b.fs) /\ IsMap(b.fs)
  BY DEF Climbed, Cleared, Grounded
<1>2. PICK r : /\ Topmost(f, b.fs, r)
               /\ ~b.stop => Front(r) = Reach(f, path, m)
               /\ b.stop => Kept(f, b.fs, world, Front(r))
  BY <1>0 DEF Climbed
<1>3. d = Tip(b.fs, path, m)
  <2>1. Len(place) = Len(Root) + Len(path)
    BY <1>0, WholeWay
  <2>2. Len(place) - h = Len(Root) + m
    <3> HIDE DEF place
    <3> QED BY <1>0, <2>1, RootIsPath
  <2>3. SubSeq(place, 1, Len(place) - h) = Way(path, m)
    BY <2>2 DEF Way
  <2>4. Leaf(b.fs, Way(path, m)) = Tip(b.fs, path, m)
    <3> HIDE DEF m
    <3> QED BY <1>0, <1>1, LeafIsTip
  <2> QED BY <2>3, <2>4
<1>4. /\ above \in PruneState
      /\ b.stop \/ ~Prunes(world, b.fs, d) => above.stop /\ above.fs = b.fs
      /\ ~b.stop /\ Prunes(world, b.fs, d) => ~above.stop /\ above.fs = Without(b.fs, d)
  BY <1>1, HigherParts
<1> HIDE DEF d, above, leaf, m
<1>5. CASE b.stop
  BY <1>1, <1>2, <1>4, <1>5 DEF Climbed, above, leaf
<1>6. CASE ~b.stop /\ ~Prunes(world, b.fs, d)
  <2>1. Kept(f, b.fs, world, Front(r))
    BY <1>0, <1>1, <1>2, <1>3, <1>6, StopsForAReason DEF leaf
  <2>2. above.stop /\ above.fs = b.fs
    BY <1>4, <1>6
  <2> QED BY <1>1, <1>2, <1>4, <2>1, <2>2 DEF Climbed, above, leaf
<1>7. CASE ~b.stop /\ Prunes(world, b.fs, d)
  <2>1. d = Front(r) /\ Front(Front(r)) = Reach(f, path, m - 1)
    BY <1>0, <1>1, <1>2, <1>3, <1>7, PrunesTheParent DEF leaf
  <2>2. EntriesOf(b.fs, Front(r)) = {}
    BY <1>7, <2>1 DEF Prunes
  <2>3. Cleared(f, Without(b.fs, Front(r)), leaf) /\ Topmost(f, Without(b.fs, Front(r)), Front(r))
    BY <1>1, <1>2, <2>2, PrunedParent DEF leaf
  <2>4. ~above.stop /\ above.fs = Without(b.fs, Front(r))
    BY <1>4, <1>7, <2>1
  <2>5. Len(path) - h - 1 = m - 1
    BY <1>0 DEF m
  <2>6. /\ Topmost(f, above.fs, Front(r)) /\ Cleared(f, above.fs, leaf)
        /\ Front(Front(r)) = Reach(f, path, Len(path) - h - 1)
    BY <2>1, <2>3, <2>4, <2>5
  <2> QED BY <1>4, <2>4, <2>6 DEF Climbed, above, leaf
<1> QED BY <1>5, <1>6, <1>7

\* What a deletion with its pruning comes to
LEMMA PruneResult ==
  ASSUME NEW f, NEW path, Removing(f, path), NEW world
  PROVE  LET leaf == Tip(f, path, Len(path))
             g == Prune(world, Without(f, leaf), Root \o path)
         IN /\ Cleared(f, g, leaf)
            /\ \A q \in Gone(f, g) : Front(q) \in Gone(f, g) \/ Kept(f, g, world, Front(q))
<1> DEFINE leaf == Tip(f, path, Len(path))
           fs == Without(f, leaf)
           place == Root \o path
           top == Len(path) - 1
           g == Prune(world, fs, place)
<1>0. /\ Grounded(f) /\ IsMap(f) /\ path \in Path /\ Len(path) \in Nat \ {0} /\ leaf \in Places
      /\ Len(place) - Len(Root) - 1 = top /\ top \in Nat
  BY RootIsPath, WholeWay DEF Removing, Grounded
<1>1. IsMap(fs)
  BY <1>0, WithoutParts
<1>2. PICK c : Climbs(c, world, fs, place) /\ g = c[top].fs
  <2>1. \E c : /\ Climbs(c, world, fs, place)
               /\ Prune(world, fs, place) = c[Len(place) - Len(Root) - 1].fs
    <3> HIDE DEF fs, place
    <3> QED BY <1>0, <1>1, PruneDefined
  <2> QED BY <1>0, <2>1
<1> HIDE DEF g
<1> DEFINE base == [fs |-> fs, stop |-> FALSE]
<1>3. \A h \in 0..top : c[h] = IF h = 0 THEN base ELSE Higher(world, place, h, c[h - 1])
  <2>1. c = [h \in 0..(Len(place) - Len(Root) - 1) |->
               IF h = 0 THEN base ELSE Higher(world, place, h, c[h - 1])]
    BY <1>2 DEF Climbs
  <2>2. c = [h \in 0..top |-> IF h = 0 THEN base ELSE Higher(world, place, h, c[h - 1])]
    <3> HIDE DEF place, base, fs, top
    <3> QED BY <1>0, <2>1
  <2> HIDE DEF place, base, fs, top
  <2> QED BY <2>2
<1> DEFINE Done == {h \in 0..top : Climbed(f, path, world, c[h], h)}
<1>4. 0 \in Done
  <2>1. Climbed(f, path, world, base, 0)
    BY ClimbBegins
  <2>2. c[0] = base
    <3> HIDE DEF place, base, fs, top
    <3> QED BY <1>0, <1>3
  <2> HIDE DEF place, base, fs
  <2> QED BY <1>0, <2>1, <2>2
<1>5. ASSUME NEW h \in 0..top, h \in Done, h < top PROVE h + 1 \in Done
  <2>1. h + 1 \in 1..(Len(path) - 1) /\ (h + 1) - 1 = h /\ h + 1 \in 0..top /\ h + 1 # 0
    BY <1>0, <1>5
  <2>2. c[h + 1] = Higher(world, place, h + 1, c[h])
    <3> HIDE DEF place, base, fs, top
    <3> QED BY <1>3, <2>1
  <2>3. Climbed(f, path, world, c[h], (h + 1) - 1)
    BY <1>5, <2>1
  <2>4. Climbed(f, path, world, Higher(world, place, h + 1, c[h]), h + 1)
    BY <2>1, <2>3, ClimbGoesOn
  <2> QED BY <2>1, <2>2, <2>4
<1>6. Climbed(f, path, world, c[top], top)
  <2> HIDE DEF Done
  <2>1. \A h \in 0..top : h \in Done /\ h < top => h + 1 \in Done
    BY <1>5
  <2>2. 0..top \subseteq Done
    <3> HIDE DEF top
    <3> QED BY <1>0, <1>4, <2>1, Stepwise
  <2>3. top \in Done
    BY <1>0, <2>2
  <2> QED BY <2>3 DEF Done
<1>7. PICK r : /\ Topmost(f, g, r)
               /\ ~c[top].stop => Front(r) = Reach(f, path, Len(path) - top - 1)
               /\ c[top].stop => Kept(f, g, world, Front(r))
  <2> HIDE DEF top
  <2> QED BY <1>2, <1>6 DEF Climbed
<1>8. Kept(f, g, world, Front(r))
  <2>1. CASE ~c[top].stop
    <3>1. Front(r) = Reach(f, path, 0)
      <4>1. Len(path) - top - 1 = 0
        BY <1>0
      <4> QED BY <1>7, <2>1, <4>1
    <3>2. Front(r) = Root
      BY <1>0, <3>1, ReachRoot
    <3> QED BY <3>2 DEF Kept
  <2>2. CASE c[top].stop
    BY <1>7, <2>2
  <2> QED BY <2>1, <2>2
<1>9. Cleared(f, g, leaf)
  <2> HIDE DEF top
  <2> QED BY <1>2, <1>6 DEF Climbed
<1>10. \A q \in Gone(f, g) : Front(q) \in Gone(f, g) \/ Kept(f, g, world, Front(q))
  BY <1>7, <1>8 DEF Topmost
<1> QED BY <1>9, <1>10 DEF g

\* A path of a plan
Listable(path) == path \in Path /\ Len(path) \in Nat \ {0} /\ Leads(path)

\* The place of a path and where it leads, by its names
LEMMA LeafOfPath ==
  ASSUME NEW fs, Grounded(fs), NEW path, Listable(path)
  PROVE  /\ Leaf(fs, Root \o path) = Tip(fs, path, Len(path))
         /\ Resolve(fs, Root \o path) = Reach(fs, path, Len(path))
         /\ Len(path) \in 1..Len(path) /\ path \in Path /\ Leads(path) /\ IsMap(fs)
<1>1. /\ Len(path) \in 1..Len(path) /\ path \in Path /\ Leads(path) /\ IsMap(fs)
  BY DEF Listable, Grounded
<1>2. Way(path, Len(path)) = Root \o path
  BY <1>1, WayEnds
<1>3. Leaf(fs, Way(path, Len(path))) = Tip(fs, path, Len(path))
  BY <1>1, LeafIsTip
<1> QED BY <1>1, <1>2, <1>3 DEF Reach

\* Removing more removes what either removed.
LEMMA FewerStill ==
  ASSUME NEW fs, NEW f, NEW g, Fewer(f, fs), Fewer(g, f)
  PROVE  /\ Fewer(g, fs) /\ Gone(fs, g) = Gone(fs, f) \cup Gone(f, g)
         /\ \A q \in Gone(f, g) : f[q] = fs[q] /\ g[q] = NoNode
<1>1. ASSUME NEW q \in Places
      PROVE  /\ g[q] = fs[q] \/ g[q] = NoNode
             /\ g[q] # fs[q] <=> f[q] # fs[q] \/ g[q] # f[q]
             /\ g[q] # f[q] => f[q] = fs[q] /\ g[q] = NoNode
  BY DEF Fewer
<1> QED BY <1>1 DEF Fewer, Gone

\* What a path does not lead to it does not lead to later.
LEMMA NothingStays ==
  ASSUME NEW f, NEW g, Grounded(f), Grounded(g), Fewer(g, f), NEW path, Listable(path),
         At(g, Leaf(f, Root \o path)).kind = "none"
  PROVE  At(g, Leaf(g, Root \o path)).kind = "none"
<1>1. /\ Leaf(f, Root \o path) = Tip(f, path, Len(path))
      /\ Leaf(g, Root \o path) = Tip(g, path, Len(path))
      /\ Len(path) \in 1..Len(path) /\ path \in Path /\ Leads(path)
  BY LeafOfPath
<1>2. \/ Tip(g, path, Len(path)) = Tip(f, path, Len(path))
      \/ At(g, Tip(g, path, Len(path))).kind = "none"
  BY <1>1, TipStays
<1> QED BY <1>1, <1>2

\* Where nothing exists there is not even a link.
LEMMA AbsentIsNothing ==
  ASSUME NEW f, Grounded(f), NEW path, Listable(path), ~Exists(f, Root \o path)
  PROVE  At(f, Leaf(f, Root \o path)).kind = "none"
<1> DEFINE leaf == Tip(f, path, Len(path))
<1>1. /\ Leaf(f, Root \o path) = leaf
      /\ Resolve(f, Root \o path) = Reach(f, path, Len(path))
      /\ Len(path) \in 1..Len(path) /\ path \in Path /\ IsMap(f)
  BY LeafOfPath
<1>2. At(f, leaf).kind # "link" /\ At(f, Reach(f, path, Len(path))).kind = "none"
  BY <1>1 DEF Exists
<1>3. CASE path[Len(path)] = ".."
  <2>1. leaf \notin Places
    BY <1>1, <1>3, TipParts
  <2> QED BY <1>1, <2>1 DEF At, NoNode
<1>4. CASE path[Len(path)] # ".."
  <2>1. Reach(f, path, Len(path)) = IF At(f, leaf).kind = "link" THEN f[leaf].to ELSE leaf
    BY <1>1, <1>4, TipParts
  <2> QED BY <1>1, <1>2, <2>1
<1> QED BY <1>3, <1>4

\* What is unlinked is inside the root, if links outside lead nowhere inside.
LEMMA SafeLeafInside ==
  ASSUME NEW f, Grounded(f), NEW path, Listable(path), Safe(f, path),
         NEW world, Unlinks(world, f, Leaf(f, Root \o path)),
         \A q \in Places : f[q].kind = "link" /\ ~Inside(q) => ~Inside(f[q].to)
  PROVE  LET leaf == Tip(f, path, Len(path))
         IN leaf \in Places /\ f[leaf].kind \in {"file", "link"} /\ Inside(leaf)
<1> DEFINE leaf == Tip(f, path, Len(path))
<1>1. /\ Leaf(f, Root \o path) = leaf
      /\ Resolve(f, Root \o path) = Reach(f, path, Len(path))
      /\ Len(path) \in 1..Len(path) /\ path \in Path /\ IsMap(f)
  BY LeafOfPath
<1>2. leaf \in Places /\ f[leaf].kind \in {"file", "link"}
  BY <1>1 DEF Unlinks, At, NoNode
<1>3. path[Len(path)] # ".."
  BY <1>1, <1>2, TipParts
<1>4. Reach(f, path, Len(path)) = IF At(f, leaf).kind = "link" THEN f[leaf].to ELSE leaf
  BY <1>1, <1>3, TipParts
<1>5. Inside(Reach(f, path, Len(path)))
  BY <1>1 DEF Safe
<1> HIDE DEF leaf
<1>6. CASE f[leaf].kind = "link"
  <2>1. Inside(f[leaf].to)
    BY <1>2, <1>4, <1>5, <1>6 DEF At
  <2>2. Inside(leaf)
    BY <1>2, <1>6, <2>1
  <2> QED BY <1>2, <2>2 DEF leaf
<1>7. CASE f[leaf].kind = "file"
  <2>1. Inside(leaf)
    BY <1>2, <1>4, <1>5, <1>7 DEF At
  <2> QED BY <1>2, <2>1 DEF leaf
<1> QED BY <1>2, <1>6, <1>7

\* The outcomes that are reported
Outcomes == {"path-traversal", "dest-modified", "absent", "deleted", "not-permitted"}

\* What DeleteOne does with a path, of which the file is at place: it raises, or
\* adds an outcome, or also removes a file.
Handled(one, f, outcomes, path, dirty, world, place, leaf) ==
  \/ one = Deleting(f, outcomes, TRUE)
  \/ \E o \in Outcomes : /\ one = Deleting(f, Append(outcomes, o), FALSE)
                         /\ o \in {"deleted", "absent"} => ~Exists(f, place)
  \/ /\ Safe(f, path) /\ path \notin dirty /\ Unlinks(world, f, leaf)
     /\ one = Deleting(Prune(world, Without(f, leaf), place), Append(outcomes, "deleted"), FALSE)

\* _delete_one raises, or adds an outcome, or also removes a file and prunes.
LEMMA DeleteOneCases ==
  ASSUME NEW f, NEW outcomes, NEW path, NEW dirty, NEW world,
         NEW place, place = Root \o path, NEW leaf, leaf = Leaf(f, place),
         NEW one, one = DeleteOne(Deleting(f, outcomes, FALSE), path, dirty, world)
  PROVE  Handled(one, f, outcomes, path, dirty, world, place, leaf)
<1> DEFINE state == Deleting(f, outcomes, FALSE)
           With(g, o) == Deleting(g, Append(outcomes, o), FALSE)
<1>1. state.fs = f /\ state.outcomes = outcomes
  BY DEF Deleting
<1>5. one = IF ~Safe(f, path) THEN With(f, "path-traversal")
            ELSE IF path \in dirty THEN With(f, "dest-modified")
            ELSE IF ~Exists(f, place) THEN With(f, "absent")
            ELSE IF Raises(world, f, leaf) THEN Deleting(f, outcomes, TRUE)
            ELSE IF Unlinks(world, f, leaf) THEN With(Prune(world, Without(f, leaf), place), "deleted")
            ELSE With(f, "not-permitted")
  BY <1>1 DEF DeleteOne
<1> HIDE DEF state
<1>6. CASE ~Safe(f, path)
  <2>1. one = Deleting(f, Append(outcomes, "path-traversal"), FALSE)
    BY <1>5, <1>6
  <2>2. \E o \in Outcomes : /\ one = Deleting(f, Append(outcomes, o), FALSE)
                            /\ o \in {"deleted", "absent"} => ~Exists(f, place)
    <3>1. "path-traversal" \in Outcomes /\ ("path-traversal" \in {"deleted", "absent"} => ~Exists(f, place))
      BY <1>6 DEF Outcomes
    <3> QED BY <2>1, <3>1
  <2> QED BY <2>2 DEF Handled
<1>7. CASE Safe(f, path) /\ path \in dirty
  <2>1. one = Deleting(f, Append(outcomes, "dest-modified"), FALSE)
    BY <1>5, <1>7
  <2>2. \E o \in Outcomes : /\ one = Deleting(f, Append(outcomes, o), FALSE)
                            /\ o \in {"deleted", "absent"} => ~Exists(f, place)
    <3>1. "dest-modified" \in Outcomes /\ ("dest-modified" \in {"deleted", "absent"} => ~Exists(f, place))
      BY <1>7 DEF Outcomes
    <3> QED BY <2>1, <3>1
  <2> QED BY <2>2 DEF Handled
<1>8. CASE Safe(f, path) /\ path \notin dirty /\ ~Exists(f, place)
  <2>1. one = Deleting(f, Append(outcomes, "absent"), FALSE)
    BY <1>5, <1>8
  <2>2. \E o \in Outcomes : /\ one = Deleting(f, Append(outcomes, o), FALSE)
                            /\ o \in {"deleted", "absent"} => ~Exists(f, place)
    <3>1. "absent" \in Outcomes /\ ("absent" \in {"deleted", "absent"} => ~Exists(f, place))
      BY <1>8 DEF Outcomes
    <3> QED BY <2>1, <3>1
  <2> QED BY <2>2 DEF Handled
<1>9. CASE Safe(f, path) /\ path \notin dirty /\ Exists(f, place) /\ Raises(world, f, leaf)
  <2>1. one = Deleting(f, outcomes, TRUE)
    BY <1>5, <1>9
  <2> QED BY <2>1 DEF Handled
<1>10. CASE /\ Safe(f, path) /\ path \notin dirty /\ Exists(f, place) /\ ~Raises(world, f, leaf)
            /\ Unlinks(world, f, leaf)
  <2>1. one = Deleting(Prune(world, Without(f, leaf), place), Append(outcomes, "deleted"), FALSE)
    BY <1>5, <1>10
  <2> QED BY <1>10, <2>1 DEF Handled
<1>11. CASE /\ Safe(f, path) /\ path \notin dirty /\ Exists(f, place) /\ ~Raises(world, f, leaf)
            /\ ~Unlinks(world, f, leaf)
  <2>1. one = Deleting(f, Append(outcomes, "not-permitted"), FALSE)
    BY <1>5, <1>11
  <2>2. \E o \in Outcomes : /\ one = Deleting(f, Append(outcomes, o), FALSE)
                            /\ o \in {"deleted", "absent"} => ~Exists(f, place)
    <3>1. "not-permitted" \in Outcomes /\ ("not-permitted" \in {"deleted", "absent"} => ~Exists(f, place))
      BY <1>11 DEF Outcomes
    <3> QED BY <2>1, <3>1
  <2> QED BY <2>2 DEF Handled
<1> QED BY <1>6, <1>7, <1>8, <1>9, <1>10, <1>11

----
\* What is gone was listed, clean and reported, or has lost a file.
OnlyListedGone(fs, g, paths, dirty, outcomes) ==
  \A q \in Gone(fs, g) :
    /\ Inside(q) /\ q # Root
    /\ IF fs[q].kind = "dir"
       THEN \E p \in Gone(fs, g) : IsStrictPrefix(q, p) /\ fs[p].kind # "dir"
       ELSE \E j \in 1..Len(outcomes) : /\ outcomes[j] = "deleted" /\ paths[j] \notin dirty
                                        /\ q = Leaf(fs, Root \o paths[j])

\* What is reported to be gone is gone.
ReportedGone(g, paths, outcomes) ==
  \A j \in 1..Len(outcomes) :
    outcomes[j] \in {"deleted", "absent"} => At(g, Leaf(g, Root \o paths[j])).kind = "none"

\* A directory that has been emptied is gone, protected, or where links lead.
WhereLinksLead(fs, g, d) ==
  \E q \in Places : /\ fs[q].kind = "link"
                    /\ fs[q].to = d \/ (IsPrefix(fs[q].to, d) /\ LinkGone(fs, g))
EmptiedGone(fs, g, world) ==
  \A d \in Places :
    IsStrictPrefix(Root, d) /\ EntriesOf(fs, d) # {} =>
      \/ EntriesOf(g, d) # {} \/ g[d].kind = "none"
      \/ d \in world.protected \/ WhereLinksLead(fs, g, d)

\* The invariant of the loop of delete_files
Underway(fs, paths, dirty, world, g, outcomes) ==
  /\ Grounded(g) /\ Fewer(g, fs) /\ outcomes \in Seq(Outcomes)
  /\ OnlyListedGone(fs, g, paths, dirty, outcomes)
  /\ ReportedGone(g, paths, outcomes) /\ EmptiedGone(fs, g, world)

\* What a deletion takes for granted, in the words of this module
LEMMA PlanParts ==
  ASSUME NEW fs, NEW paths, IsDeletion(fs, paths)
  PROVE  /\ Grounded(fs) /\ Len(paths) \in Nat
         /\ \A i \in 1..Len(paths) : Listable(paths[i])
         /\ \A q \in Places : fs[q].kind = "link" /\ ~Inside(q) => ~Inside(fs[q].to)
         /\ \E x \in Places : /\ IsStrictPrefix(Root, x) /\ fs[x].kind = "file"
                              /\ \A i \in 1..Len(paths) : Leaf(fs, Root \o paths[i]) # x
<1>1. Grounded(fs)
  BY DEF IsDeletion, IsFileSystem, Grounded, IsMap
<1>2. /\ paths \in Seq(Seq(STRING) \ {<<>>}) /\ \A i \in DOMAIN paths : Leads(paths[i])
      /\ \A q \in Places : fs[q].kind = "link" /\ ~Inside(q) => ~Inside(fs[q].to)
      /\ \E x \in Places : /\ IsStrictPrefix(Root, x) /\ fs[x].kind = "file"
                           /\ \A i \in DOMAIN paths : Leaf(fs, Root \o paths[i]) # x
  BY DEF IsDeletion
<1> DEFINE Texts == Seq(STRING) \ {<<>>}
<1>3. Len(paths) \in Nat /\ DOMAIN paths = 1..Len(paths) /\ \A i \in 1..Len(paths) : paths[i] \in Texts
  <2>1. paths \in Seq(Texts)
    BY <1>2
  <2> HIDE DEF Texts
  <2> QED BY <2>1, LenProperties, ElementOfSeq
<1>4. ASSUME NEW i \in 1..Len(paths) PROVE Listable(paths[i])
  <2>1. paths[i] \in Path /\ paths[i] # <<>> /\ Leads(paths[i])
    BY <1>2, <1>3 DEF Path
  <2>2. Len(paths[i]) \in Nat \ {0}
    BY <2>1, FrontOfPath
  <2> QED BY <2>1, <2>2 DEF Listable
<1> QED BY <1>1, <1>2, <1>3, <1>4

\* One more outcome
LEMMA OneOutcomeMore ==
  ASSUME NEW outcomes \in Seq(Outcomes), NEW o \in Outcomes
  PROVE  /\ Append(outcomes, o) \in Seq(Outcomes)
         /\ Len(Append(outcomes, o)) = Len(outcomes) + 1 /\ Len(outcomes) \in Nat
         /\ \A j \in 1..Len(outcomes) : Append(outcomes, o)[j] = outcomes[j]
         /\ Append(outcomes, o)[Len(outcomes) + 1] = o
<1> HIDE DEF Outcomes
<1> QED BY AppendOne

\* The invariant holds before the first path ...
LEMMA DeletionBegins ==
  ASSUME NEW fs, NEW paths, NEW dirty, NEW world, IsDeletion(fs, paths)
  PROVE  Underway(fs, paths, dirty, world, fs, <<>>)
<1>1. Grounded(fs)
  BY PlanParts
<1>2. Fewer(fs, fs) /\ Gone(fs, fs) = {}
  BY DEF Fewer, Gone
<1>3. <<>> \in Seq(Outcomes) /\ Len(<<>>) = 0
  BY EmptySeq
<1>4. OnlyListedGone(fs, fs, paths, dirty, <<>>)
  BY <1>2 DEF OnlyListedGone
<1>5. ReportedGone(fs, paths, <<>>)
  BY <1>3 DEF ReportedGone
<1>6. EmptiedGone(fs, fs, world)
  BY DEF EmptiedGone
<1> QED BY <1>1, <1>2, <1>3, <1>4, <1>5, <1>6 DEF Underway

\* ... and after a path of which nothing is removed ...
LEMMA OutcomeOnly ==
  ASSUME NEW fs, NEW paths, NEW dirty, NEW world, IsDeletion(fs, paths),
         NEW i \in 1..Len(paths), NEW g, NEW outcomes,
         Underway(fs, paths, dirty, world, g, outcomes), Len(outcomes) + 1 = i,
         NEW o \in Outcomes,
         o \in {"deleted", "absent"} => ~Exists(g, Root \o paths[i])
  PROVE  Underway(fs, paths, dirty, world, g, Append(outcomes, o))
<1> DEFINE longer == Append(outcomes, o)
<1>1. /\ Grounded(g) /\ Fewer(g, fs) /\ outcomes \in Seq(Outcomes) /\ Len(outcomes) + 1 = i
      /\ OnlyListedGone(fs, g, paths, dirty, outcomes)
      /\ ReportedGone(g, paths, outcomes) /\ EmptiedGone(fs, g, world)
  BY DEF Underway
<1>2. Len(paths) \in Nat /\ Listable(paths[i])
  BY PlanParts
<1>3. /\ longer \in Seq(Outcomes) /\ Len(longer) = i
      /\ \A j \in 1..Len(outcomes) : longer[j] = outcomes[j]
      /\ longer[i] = o
  <2>1. /\ longer \in Seq(Outcomes) /\ Len(longer) = Len(outcomes) + 1
        /\ \A j \in 1..Len(outcomes) : longer[j] = outcomes[j]
        /\ longer[Len(outcomes) + 1] = o
    BY <1>1, OneOutcomeMore
  <2>2. Len(outcomes) + 1 = i
    BY <1>1, <1>2
  <2> QED BY <2>1, <2>2
<1> HIDE DEF longer
<1>4. 1..Len(outcomes) \subseteq 1..Len(longer) /\ \A j \in 1..Len(longer) : j \in 1..Len(outcomes) \/ j = i
  BY <1>1, <1>2, <1>3
<1>5. OnlyListedGone(fs, g, paths, dirty, longer)
  <2>1. \A q : (\E j \in 1..Len(outcomes) : /\ outcomes[j] = "deleted" /\ paths[j] \notin dirty
                                            /\ q = Leaf(fs, Root \o paths[j]))
             => (\E j \in 1..Len(longer) : /\ longer[j] = "deleted" /\ paths[j] \notin dirty
                                           /\ q = Leaf(fs, Root \o paths[j]))
    BY <1>3, <1>4
  <2> QED BY <1>1, <2>1 DEF OnlyListedGone
<1>6. ReportedGone(g, paths, longer)
  <2>1. o \in {"deleted", "absent"} => At(g, Leaf(g, Root \o paths[i])).kind = "none"
    BY <1>1, <1>2, AbsentIsNothing
  <2>2. ASSUME NEW j \in 1..Len(longer), longer[j] \in {"deleted", "absent"}
        PROVE  At(g, Leaf(g, Root \o paths[j])).kind = "none"
    <3>1. CASE j \in 1..Len(outcomes)
      BY <1>1, <1>3, <2>2, <3>1 DEF ReportedGone
    <3>2. CASE j = i
      BY <1>3, <2>1, <2>2, <3>2
    <3> QED BY <1>4, <3>1, <3>2
  <2> QED BY <2>2 DEF ReportedGone
<1> QED BY <1>1, <1>3, <1>5, <1>6 DEF Underway, longer

\* A file that is unlinked is listed, inside the root, and not the only one there.
LEMMA RemovingListed ==
  ASSUME NEW fs, NEW paths, NEW dirty, NEW world, IsDeletion(fs, paths),
         NEW i \in 1..Len(paths), NEW path, path = paths[i], NEW g, NEW outcomes,
         Grounded(g), Fewer(g, fs), Len(outcomes) \in 0..Len(paths),
         OnlyListedGone(fs, g, paths, dirty, outcomes),
         Safe(g, path), Unlinks(world, g, Leaf(g, Root \o path))
  PROVE  Removing(g, path)
<1> DEFINE leaf == Tip(g, path, Len(path))
<1>1. /\ Grounded(g) /\ Fewer(g, fs) /\ Len(outcomes) \in 0..Len(paths)
      /\ OnlyListedGone(fs, g, paths, dirty, outcomes)
  OBVIOUS
<1>2. Grounded(fs) /\ Len(paths) \in Nat /\ Listable(path)
  BY PlanParts
<1>3. /\ Leaf(g, Root \o path) = leaf /\ Leaf(fs, Root \o path) = Tip(fs, path, Len(path))
      /\ Len(path) \in 1..Len(path) /\ path \in Path /\ Leads(path)
  BY <1>1, <1>2, LeafOfPath
<1>4. \A q \in Places : g[q].kind = "link" /\ ~Inside(q) => ~Inside(g[q].to)
  <2>1. \A q \in Places : fs[q].kind = "link" /\ ~Inside(q) => ~Inside(fs[q].to)
    BY PlanParts
  <2> QED BY <1>1, <2>1 DEF Fewer, NoNode
<1>5. leaf \in Places /\ g[leaf].kind \in {"file", "link"} /\ Inside(leaf)
  BY <1>1, <1>2, <1>4, SafeLeafInside
<1>6. leaf = Tip(fs, path, Len(path))
  <2>1. leaf = Tip(fs, path, Len(path)) \/ At(g, leaf).kind = "none"
    BY <1>1, <1>2, <1>3, TipStays
  <2> QED BY <1>5, <2>1 DEF At
<1>7. PICK x \in Places : /\ IsStrictPrefix(Root, x) /\ fs[x].kind = "file"
                          /\ \A j \in 1..Len(paths) : Leaf(fs, Root \o paths[j]) # x
  BY PlanParts
<1>8. g[x].kind = "file"
  <2>1. ASSUME x \in Gone(fs, g) PROVE FALSE
    <3>1. PICK j \in 1..Len(outcomes) : x = Leaf(fs, Root \o paths[j])
      BY <1>1, <1>7, <2>1 DEF OnlyListedGone
    <3>2. j \in 1..Len(paths)
      BY <1>1, <1>2
    <3> QED BY <1>7, <3>1, <3>2
  <2> QED BY <1>7, <2>1 DEF Gone
<1>9. x # leaf
  BY <1>3, <1>6, <1>7
<1> HIDE DEF leaf
<1>10. Removing(g, path)
  BY <1>1, <1>2, <1>5, <1>7, <1>8, <1>9 DEF Removing, Listable, leaf
<1> QED BY <1>3, <1>6, <1>10 DEF leaf

\* What was emptied before is still accounted for, and so is what is emptied now.
LEMMA EmptiedStays ==
  ASSUME NEW fs, NEW f, NEW g, NEW world, Fewer(f, fs), Fewer(g, f), EmptiedGone(fs, f, world),
         \A q \in Gone(f, g) : Front(q) \in Gone(f, g) \/ Kept(f, g, world, Front(q))
  PROVE  EmptiedGone(fs, g, world)
<1> SUFFICES ASSUME NEW d \in Places, IsStrictPrefix(Root, d), EntriesOf(fs, d) # {},
                    EntriesOf(g, d) = {}, g[d].kind # "none", d \notin world.protected
             PROVE  WhereLinksLead(fs, g, d)
  BY DEF EmptiedGone
<1>1. ASSUME NEW q \in Places, f[q].kind = "link" PROVE fs[q] = f[q]
  BY <1>1 DEF Fewer, NoNode
<1>2. ASSUME LinkGone(fs, f) PROVE LinkGone(fs, g)
  <2>1. PICK q \in Places : fs[q].kind = "link" /\ f[q] # fs[q]
    BY <1>2 DEF LinkGone
  <2>2. f[q] = NoNode /\ g[q] = NoNode
    BY <2>1 DEF Fewer
  <2> QED BY <2>1, <2>2 DEF LinkGone
<1>3. ASSUME LinkGone(f, g) PROVE LinkGone(fs, g)
  <2>1. PICK q \in Places : f[q].kind = "link" /\ g[q] # f[q]
    BY <1>3 DEF LinkGone
  <2> QED BY <1>1, <2>1 DEF LinkGone
<1>4. d \notin Gone(f, g) /\ f[d].kind # "none"
  <2>1. g[d] = f[d]
    BY DEF Fewer, NoNode
  <2> QED BY <2>1 DEF Gone
<1>5. CASE EntriesOf(f, d) = {}
  <2>1. WhereLinksLead(fs, f, d)
    BY <1>4, <1>5 DEF EmptiedGone
  <2>2. PICK q \in Places : /\ fs[q].kind = "link"
                            /\ fs[q].to = d \/ (IsPrefix(fs[q].to, d) /\ LinkGone(fs, f))
    BY <2>1 DEF WhereLinksLead
  <2> QED BY <1>2, <2>2 DEF WhereLinksLead
<1>6. CASE EntriesOf(f, d) # {}
  <2>1. PICK q \in Places : q # <<>> /\ Front(q) = d /\ f[q].kind # "none" /\ g[q].kind = "none"
    BY <1>6 DEF EntriesOf
  <2>2. q \in Gone(f, g)
    BY <2>1 DEF Gone
  <2>3. Kept(f, g, world, d)
    BY <1>4, <2>1, <2>2
  <2>4. \/ \E t \in Places : f[t].kind = "link" /\ f[t].to = d
        \/ LinkGone(f, g) /\ BelowLink(f, d)
    BY <2>3 DEF Kept, IsStrictPrefix
  <2>5. CASE \E t \in Places : f[t].kind = "link" /\ f[t].to = d
    BY <1>1, <2>5 DEF WhereLinksLead
  <2>6. CASE LinkGone(f, g) /\ BelowLink(f, d)
    <3>1. PICK t \in Places : f[t].kind = "link" /\ IsPrefix(f[t].to, d)
      BY <2>6 DEF BelowLink
    <3>2. fs[t].kind = "link" /\ IsPrefix(fs[t].to, d) /\ LinkGone(fs, g)
      BY <1>1, <1>3, <2>6, <3>1
    <3> QED BY <3>2 DEF WhereLinksLead
  <2> QED BY <2>4, <2>5, <2>6
<1> QED BY <1>5, <1>6

\* ... and after one of which the file is.
LEMMA FileRemoved ==
  ASSUME NEW fs, NEW paths, NEW dirty, NEW world, IsDeletion(fs, paths),
         NEW i \in 1..Len(paths), NEW path, path = paths[i], NEW f, NEW outcomes,
         Underway(fs, paths, dirty, world, f, outcomes), Len(outcomes) + 1 = i,
         Safe(f, path), Unlinks(world, f, Leaf(f, Root \o path)), path \notin dirty
  PROVE  Underway(fs, paths, dirty, world,
                  Prune(world, Without(f, Leaf(f, Root \o path)), Root \o path),
                  Append(outcomes, "deleted"))
<1> DEFINE leaf == Tip(f, path, Len(path))
           g == Prune(world, Without(f, leaf), Root \o path)
           longer == Append(outcomes, "deleted")
<1>1. /\ Grounded(f) /\ Fewer(f, fs) /\ outcomes \in Seq(Outcomes) /\ Len(outcomes) + 1 = i
      /\ OnlyListedGone(fs, f, paths, dirty, outcomes)
      /\ ReportedGone(f, paths, outcomes) /\ EmptiedGone(fs, f, world)
  BY DEF Underway
<1>2. Len(paths) \in Nat /\ \A j \in 1..Len(paths) : Listable(paths[j])
  BY PlanParts
<1>3. Removing(f, path) /\ Leaf(fs, Root \o path) = leaf /\ Leaf(f, Root \o path) = leaf
  <2>1. Len(outcomes) \in 0..Len(paths)
    BY <1>1, <1>2
  <2> HIDE DEF leaf
  <2>2. /\ path = paths[i] /\ Safe(f, path) /\ Unlinks(world, f, Leaf(f, Root \o path))
        /\ Grounded(f) /\ Fewer(f, fs) /\ OnlyListedGone(fs, f, paths, dirty, outcomes)
    BY <1>1
  <2>3. Removing(f, path)
    BY <2>1, <2>2, RemovingListed
  <2>4. Listable(path) /\ Grounded(fs)
    BY <1>2, PlanParts
  <2>5. /\ Leaf(f, Root \o path) = Tip(f, path, Len(path))
        /\ Leaf(fs, Root \o path) = Tip(fs, path, Len(path))
        /\ Len(path) \in 1..Len(path) /\ path \in Path /\ Leads(path)
    BY <1>1, <2>4, LeafOfPath
  <2>6. Tip(f, path, Len(path)) = Tip(fs, path, Len(path)) \/ At(f, Tip(f, path, Len(path))).kind = "none"
    BY <1>1, <2>4, <2>5, TipStays
  <2>7. At(f, Tip(f, path, Len(path))).kind # "none"
    BY <2>3 DEF Removing, At
  <2> QED BY <2>3, <2>5, <2>6, <2>7 DEF leaf
<1>4. /\ Cleared(f, g, leaf)
      /\ \A q \in Gone(f, g) : Front(q) \in Gone(f, g) \/ Kept(f, g, world, Front(q))
  BY <1>3, PruneResult
<1>5. /\ longer \in Seq(Outcomes) /\ Len(longer) = i
      /\ \A j \in 1..Len(outcomes) : longer[j] = outcomes[j]
      /\ longer[i] = "deleted"
  <2>1. "deleted" \in Outcomes
    BY DEF Outcomes
  <2>2. /\ longer \in Seq(Outcomes) /\ Len(longer) = Len(outcomes) + 1
        /\ \A j \in 1..Len(outcomes) : longer[j] = outcomes[j]
        /\ longer[Len(outcomes) + 1] = "deleted"
    BY <1>1, <2>1, OneOutcomeMore
  <2>3. Len(outcomes) + 1 = i
    BY <1>1, <1>2
  <2> QED BY <2>2, <2>3
<1>6. f[leaf].kind \in {"file", "link"} /\ leaf \in Gone(f, g)
  BY <1>3, <1>4 DEF Removing, Cleared
<1> HIDE DEF g, leaf, longer
<1>7. /\ Grounded(g) /\ Fewer(g, f)
      /\ \A q \in Gone(f, g) : /\ Inside(q) /\ q # Root /\ IsPrefix(q, leaf)
                               /\ q # leaf => f[q].kind = "dir"
  BY <1>4 DEF Cleared
<1>8. /\ Fewer(g, fs) /\ Gone(fs, g) = Gone(fs, f) \cup Gone(f, g)
      /\ \A q \in Gone(f, g) : f[q] = fs[q] /\ g[q] = NoNode
  BY <1>1, <1>7, FewerStill
<1>9. 1..Len(outcomes) \subseteq 1..Len(longer) /\ i \in 1..Len(longer)
      /\ \A j \in 1..Len(longer) : j \in 1..Len(outcomes) \/ j = i
  BY <1>1, <1>2, <1>5
<1>10. OnlyListedGone(fs, g, paths, dirty, longer)
  <2>1. ASSUME NEW q \in Gone(fs, f)
        PROVE  /\ Inside(q) /\ q # Root
               /\ IF fs[q].kind = "dir"
                  THEN \E p \in Gone(fs, g) : IsStrictPrefix(q, p) /\ fs[p].kind # "dir"
                  ELSE \E j \in 1..Len(longer) : /\ longer[j] = "deleted" /\ paths[j] \notin dirty
                                                 /\ q = Leaf(fs, Root \o paths[j])
    <3>1. Inside(q) /\ q # Root
      BY <1>1 DEF OnlyListedGone
    <3>2. fs[q].kind = "dir" => \E p \in Gone(fs, g) : IsStrictPrefix(q, p) /\ fs[p].kind # "dir"
      BY <1>1, <1>8 DEF OnlyListedGone
    <3>3. fs[q].kind # "dir" =>
            \E j \in 1..Len(longer) : /\ longer[j] = "deleted" /\ paths[j] \notin dirty
                                      /\ q = Leaf(fs, Root \o paths[j])
      BY <1>1, <1>5, <1>9 DEF OnlyListedGone
    <3> QED BY <3>1, <3>2, <3>3
  <2>2. ASSUME NEW q \in Gone(f, g)
        PROVE  /\ Inside(q) /\ q # Root
               /\ IF fs[q].kind = "dir"
                  THEN \E p \in Gone(fs, g) : IsStrictPrefix(q, p) /\ fs[p].kind # "dir"
                  ELSE \E j \in 1..Len(longer) : /\ longer[j] = "deleted" /\ paths[j] \notin dirty
                                                 /\ q = Leaf(fs, Root \o paths[j])
    <3>1. CASE q = leaf
      BY <1>3, <1>5, <1>6, <1>7, <1>8, <1>9, <3>1
    <3>2. CASE q # leaf
      <4>1. leaf \in Gone(fs, g) /\ fs[leaf].kind # "dir" /\ IsStrictPrefix(q, leaf) /\ fs[q].kind = "dir"
        BY <1>6, <1>7, <1>8, <3>2 DEF IsStrictPrefix
      <4> QED BY <1>7, <4>1
    <3> QED BY <3>1, <3>2
  <2> QED BY <1>8, <2>1, <2>2 DEF OnlyListedGone
<1>11. ReportedGone(g, paths, longer)
  <2> SUFFICES ASSUME NEW j \in 1..Len(longer), longer[j] \in {"deleted", "absent"}
               PROVE  At(g, Leaf(g, Root \o paths[j])).kind = "none"
    BY DEF ReportedGone
  <2>1. Listable(paths[j])
    BY <1>2, <1>5
  <2>2. At(g, Leaf(f, Root \o paths[j])).kind = "none"
    <3>1. CASE j \in 1..Len(outcomes)
      <4>1. At(f, Leaf(f, Root \o paths[j])).kind = "none"
        BY <1>1, <1>5, <3>1 DEF ReportedGone
      <4> QED BY <1>7, <4>1, FewerAt
    <3>2. CASE j = i
      <4>1. Leaf(f, Root \o paths[j]) = leaf
        BY <1>3, <3>2
      <4> QED BY <1>6, <1>8, <4>1 DEF At, NoNode
    <3> QED BY <1>9, <3>1, <3>2
  <2> QED BY <1>1, <1>7, <2>1, <2>2, NothingStays
<1>12. EmptiedGone(fs, g, world)
  BY <1>1, <1>4, <1>7, EmptiedStays
<1>13. Underway(fs, paths, dirty, world, g, longer)
  BY <1>5, <1>7, <1>8, <1>10, <1>11, <1>12 DEF Underway
<1> QED BY <1>3, <1>13 DEF g, longer

\* delete_files after the first n paths
AfterOne(s, paths, i, dirty, world) ==
  IF s.raised THEN s ELSE DeleteOne(s, paths[i], dirty, world)
Deletes(a, fs, paths, dirty, world, n) ==
  a = [i \in 0..n |-> IF i = 0 THEN Deleting(fs, <<>>, FALSE)
                      ELSE AfterOne(a[i - 1], paths, i, dirty, world)]

\* The loop goes on for one path more ...
LEMMA OnePathMore ==
  ASSUME NEW fs, NEW paths, NEW dirty, NEW world, NEW n \in Nat, NEW a,
         Deletes(a, fs, paths, dirty, world, n)
  PROVE  \E b : Deletes(b, fs, paths, dirty, world, n + 1)
<1> DEFINE first == Deleting(fs, <<>>, FALSE)
           next == AfterOne(a[n], paths, n + 1, dirty, world)
           b == [i \in 0..(n + 1) |-> IF i = n + 1 THEN next ELSE a[i]]
<1>1. \A i \in 0..n : a[i] = IF i = 0 THEN first ELSE AfterOne(a[i - 1], paths, i, dirty, world)
  <2>1. a = [i \in 0..n |-> IF i = 0 THEN first ELSE AfterOne(a[i - 1], paths, i, dirty, world)]
    BY DEF Deletes
  <2> HIDE DEF first
  <2> QED BY <2>1
<1> HIDE DEF first, next
<1>2. \A i \in 0..(n + 1) : b[i] = IF i = n + 1 THEN next ELSE a[i]
  OBVIOUS
<1>3. b = [i \in 0..(n + 1) |-> b[i]]
  OBVIOUS
<1> HIDE DEF b
<1>4. ASSUME NEW i \in 0..(n + 1)
      PROVE  b[i] = IF i = 0 THEN first ELSE AfterOne(b[i - 1], paths, i, dirty, world)
  <2>1. CASE i = n + 1
    <3>1. i - 1 = n /\ n \in 0..(n + 1) /\ n # n + 1 /\ i # 0
      BY <2>1
    <3>2. b[i] = next /\ b[n] = a[n]
      BY <1>2, <2>1, <3>1
    <3> QED BY <2>1, <3>1, <3>2 DEF next
  <2>2. CASE i # n + 1 /\ i # 0
    <3>1. i \in 0..n /\ i - 1 \in 0..(n + 1) /\ i - 1 # n + 1
      BY <2>2
    <3>2. b[i] = a[i] /\ b[i - 1] = a[i - 1]
      BY <1>2, <2>2, <3>1
    <3> QED BY <1>1, <2>2, <3>1, <3>2
  <2>3. CASE i = 0
    <3>1. 0 \in 0..n /\ 0 # n + 1
      OBVIOUS
    <3>2. b[i] = a[i] /\ a[0] = first
      BY <1>1, <1>2, <2>3, <3>1
    <3> QED BY <2>3, <3>2
  <2> QED BY <2>1, <2>2, <2>3
<1>5. Deletes(b, fs, paths, dirty, world, n + 1)
  BY <1>3, <1>4 DEF Deletes, first
<1> QED BY <1>5

\* ... so that it is defined for any number of paths.
LEMMA DeletesDefined ==
  ASSUME NEW fs, NEW paths, NEW dirty, NEW world, NEW n \in Nat
  PROVE  \E a : Deletes(a, fs, paths, dirty, world, n)
<1> DEFINE Done == {m \in 0..n : \E a : Deletes(a, fs, paths, dirty, world, m)}
<1>1. 0 \in Done
  <2> DEFINE a == [i \in 0..0 |-> Deleting(fs, <<>>, FALSE)]
  <2>1. Deletes(a, fs, paths, dirty, world, 0)
    <3> DEFINE first == Deleting(fs, <<>>, FALSE)
    <3>1. \A i \in 0..0 : i = 0
      OBVIOUS
    <3> HIDE DEF first
    <3> QED BY <3>1 DEF Deletes, first
  <2> HIDE DEF a
  <2> QED BY <2>1
<1>2. ASSUME NEW m \in 0..n, m \in Done, m < n PROVE m + 1 \in Done
  <2>1. m \in Nat /\ m + 1 \in 0..n
    BY <1>2
  <2>2. \E b : Deletes(b, fs, paths, dirty, world, m + 1)
    BY <1>2, <2>1, OnePathMore
  <2> QED BY <2>1, <2>2
<1>3. n \in Done
  <2> HIDE DEF Done
  <2>1. \A m \in 0..n : m \in Done /\ m < n => m + 1 \in Done
    BY <1>2
  <2>2. 0..n \subseteq Done
    BY <1>1, <2>1, Stepwise
  <2> QED BY <2>2
<1> QED BY <1>3

\* What holds after i paths
InLoop(s, fs, paths, dirty, world, i) ==
  \E g, outcomes :
    /\ Underway(fs, paths, dirty, world, g, outcomes) /\ Len(outcomes) <= i
    /\ \/ s = Deleting(g, outcomes, TRUE)
       \/ s = Deleting(g, outcomes, FALSE) /\ Len(outcomes) = i

\* One path more, whatever became of it
LEMMA LoopGoesOn ==
  ASSUME NEW fs, NEW paths, NEW dirty, NEW world, IsDeletion(fs, paths),
         NEW i \in 1..Len(paths), NEW s, InLoop(s, fs, paths, dirty, world, i - 1)
  PROVE  InLoop(AfterOne(s, paths, i, dirty, world), fs, paths, dirty, world, i)
<1>1. PICK g, outcomes :
        /\ Underway(fs, paths, dirty, world, g, outcomes) /\ Len(outcomes) <= i - 1
        /\ \/ s = Deleting(g, outcomes, TRUE)
           \/ s = Deleting(g, outcomes, FALSE) /\ Len(outcomes) = i - 1
  BY DEF InLoop
<1>2. outcomes \in Seq(Outcomes) /\ Len(outcomes) \in Nat /\ i \in Nat
  <2>1. outcomes \in Seq(Outcomes)
    BY <1>1 DEF Underway
  <2>2. Len(paths) \in Nat
    BY PlanParts
  <2> HIDE DEF Outcomes
  <2> QED BY <2>1, <2>2, LenProperties
<1>4. Len(outcomes) <= i
  BY <1>1, <1>2
<1>5. CASE s = Deleting(g, outcomes, TRUE)
  <2>1. AfterOne(s, paths, i, dirty, world) = Deleting(g, outcomes, TRUE)
    BY <1>5 DEF AfterOne, Deleting
  <2> QED BY <1>1, <1>4, <2>1 DEF InLoop
<1>6. CASE s = Deleting(g, outcomes, FALSE) /\ Len(outcomes) = i - 1
  <2> DEFINE path == paths[i]
             place == Root \o path
             leaf == Leaf(g, place)
             one == DeleteOne(Deleting(g, outcomes, FALSE), path, dirty, world)
             after == Prune(world, Without(g, leaf), place)
  <2>1. AfterOne(s, paths, i, dirty, world) = one
    BY <1>6 DEF AfterOne, Deleting
  <2>2. Len(outcomes) + 1 = i
    BY <1>1, <1>2, <1>6
  <2>3. \A o \in Outcomes : Len(Append(outcomes, o)) = i
    BY <1>2, <2>2, OneOutcomeMore
  <2>4. \/ one = Deleting(g, outcomes, TRUE)
        \/ \E o \in Outcomes : /\ one = Deleting(g, Append(outcomes, o), FALSE)
                               /\ o \in {"deleted", "absent"} => ~Exists(g, place)
        \/ /\ Safe(g, path) /\ path \notin dirty /\ Unlinks(world, g, leaf)
           /\ one = Deleting(after, Append(outcomes, "deleted"), FALSE)
    <3>1. /\ place = Root \o path /\ leaf = Leaf(g, place)
          /\ one = DeleteOne(Deleting(g, outcomes, FALSE), path, dirty, world)
      OBVIOUS
    <3> HIDE DEF path, place, leaf, one
    <3>2. Handled(one, g, outcomes, path, dirty, world, place, leaf)
      BY ONLY <3>1, DeleteOneCases
    <3> QED BY <3>2 DEF Handled
  <2>5. path = paths[i]
    OBVIOUS
  <2> HIDE DEF one, path
  <2>6. CASE one = Deleting(g, outcomes, TRUE)
    BY <1>1, <1>4, <2>1, <2>6 DEF InLoop
  <2>7. CASE \E o \in Outcomes : /\ one = Deleting(g, Append(outcomes, o), FALSE)
                                 /\ o \in {"deleted", "absent"} => ~Exists(g, place)
    <3>1. PICK o \in Outcomes : /\ one = Deleting(g, Append(outcomes, o), FALSE)
                                /\ o \in {"deleted", "absent"} => ~Exists(g, place)
      BY <2>7
    <3>2. Underway(fs, paths, dirty, world, g, Append(outcomes, o))
      BY <1>1, <2>2, <3>1, OutcomeOnly DEF path
    <3>3. i <= i
      BY <1>2
    <3> QED BY <2>1, <2>3, <3>1, <3>2, <3>3 DEF InLoop
  <2>8. CASE /\ Safe(g, path) /\ path \notin dirty /\ Unlinks(world, g, leaf)
             /\ one = Deleting(after, Append(outcomes, "deleted"), FALSE)
    <3>1. Underway(fs, paths, dirty, world, after, Append(outcomes, "deleted"))
      BY <1>1, <2>2, <2>5, <2>8, FileRemoved
    <3>2. Len(Append(outcomes, "deleted")) = i
      BY <2>3 DEF Outcomes
    <3>3. i <= i
      BY <1>2
    <3> QED BY <2>1, <2>8, <3>1, <3>2, <3>3 DEF InLoop
  <2> QED BY <2>4, <2>6, <2>7, <2>8
<1> QED BY <1>1, <1>5, <1>6

\* What holds at the end of delete_files
LEMMA DeletionResult ==
  ASSUME NEW fs, NEW paths, NEW dirty, NEW world, IsDeletion(fs, paths)
  PROVE  InLoop(DeleteFiles(fs, paths, dirty, world), fs, paths, dirty, world, Len(paths))
<1> DEFINE n == Len(paths)
           after == CHOOSE a : Deletes(a, fs, paths, dirty, world, n)
<1>1. n \in Nat
  BY PlanParts
<1>2. Deletes(after, fs, paths, dirty, world, n)
  BY <1>1, DeletesDefined
<1>3. DeleteFiles(fs, paths, dirty, world) = after[n]
  BY DEF DeleteFiles, Deletes, AfterOne
<1> HIDE DEF after
<1>4. \A i \in 0..n : after[i] = IF i = 0 THEN Deleting(fs, <<>>, FALSE)
                                 ELSE AfterOne(after[i - 1], paths, i, dirty, world)
  <2> DEFINE first == Deleting(fs, <<>>, FALSE)
  <2>1. after = [i \in 0..n |-> IF i = 0 THEN first ELSE AfterOne(after[i - 1], paths, i, dirty, world)]
    BY <1>2 DEF Deletes
  <2> HIDE DEF first, n
  <2>2. \A i \in 0..n : after[i] = IF i = 0 THEN first ELSE AfterOne(after[i - 1], paths, i, dirty, world)
    BY <2>1
  <2> QED BY <2>2 DEF first
<1> DEFINE Done == {i \in 0..n : InLoop(after[i], fs, paths, dirty, world, i)}
<1>5. 0 \in Done
  <2>1. Underway(fs, paths, dirty, world, fs, <<>>)
    BY DeletionBegins
  <2>2. Len(<<>>) = 0
    BY EmptySeq
  <2>3. InLoop(Deleting(fs, <<>>, FALSE), fs, paths, dirty, world, 0)
    <3> DEFINE none == <<>>
    <3>1. Underway(fs, paths, dirty, world, fs, none) /\ Len(none) = 0 /\ Len(none) <= 0
      BY <2>1, <2>2
    <3> HIDE DEF none
    <3>2. InLoop(Deleting(fs, none, FALSE), fs, paths, dirty, world, 0)
      BY <3>1 DEF InLoop
    <3> QED BY <3>2 DEF none
  <2>4. after[0] = Deleting(fs, <<>>, FALSE)
    <3> DEFINE first == Deleting(fs, <<>>, FALSE)
    <3>1. \A i \in 0..n : after[i] = IF i = 0 THEN first ELSE AfterOne(after[i - 1], paths, i, dirty, world)
      BY <1>4
    <3>2. 0 \in 0..n
      BY <1>1
    <3> HIDE DEF first, n
    <3>3. after[0] = first
      BY <3>1, <3>2
    <3> QED BY <3>3 DEF first
  <2>5. InLoop(after[0], fs, paths, dirty, world, 0)
    BY <2>3, <2>4
  <2> HIDE DEF n
  <2> QED BY <1>1, <2>5
<1>6. ASSUME NEW i \in 0..n, i \in Done, i < n PROVE i + 1 \in Done
  <2>1. i + 1 \in 1..Len(paths) /\ (i + 1) - 1 = i /\ i + 1 \in 0..n /\ i + 1 # 0
    BY <1>1, <1>6
  <2>2. after[i + 1] = AfterOne(after[i], paths, i + 1, dirty, world)
    BY <1>4, <2>1
  <2>3. InLoop(after[i], fs, paths, dirty, world, (i + 1) - 1)
    BY <1>6, <2>1
  <2>4. InLoop(AfterOne(after[i], paths, i + 1, dirty, world), fs, paths, dirty, world, i + 1)
    BY <2>1, <2>3, LoopGoesOn
  <2> QED BY <2>1, <2>2, <2>4
<1>7. n \in Done
  <2> HIDE DEF Done
  <2>1. \A i \in 0..n : i \in Done /\ i < n => i + 1 \in Done
    BY <1>6
  <2>2. 0..n \subseteq Done
    <3> HIDE DEF n
    <3> QED BY <1>1, <1>5, <2>1, Stepwise
  <2> QED BY <1>1, <2>2
<1> QED BY <1>3, <1>7

\* The deletions are of plans in the worktree.
DeletionType == input.of = "deletion" => IsDeletion(input.fs, input.paths)

\* The deletions that are handed in are such plans.
LEMMA DeletionInputType == Spec => []DeletionType
<1>1. Init => DeletionType
  <2>1. input \in Heads \cup Streams \cup Listings \cup Trees \cup Searches => input.of # "deletion"
    BY DEF Heads, Streams, Listings, Trees, Searches
  <2>2. input \in Deletions => DeletionType
    BY InputsAssumption DEF DeletionType
  <2> QED BY <2>1, <2>2 DEF Init, DeletionType
<1>2. DeletionType /\ [Next]_input => DeletionType'
  BY DEF Next, DeletionType
<1> QED BY <1>1, <1>2, PTL DEF Spec

\* Whatever the links, the plan, the permissions and sudo do, each file that is
\* gone was listed, clean, inside the root and reported, and each directory that
\* is gone has lost a file.
THEOREM DeletionsKeepToThePlan == Spec => []DeletesListedOnly
<1>1. ASSUME NEW fs, NEW paths, NEW dirty, NEW world, IsDeletion(fs, paths)
      PROVE  OnlyListedDeleted(fs, paths, dirty, world)
  <2> DEFINE end == DeleteFiles(fs, paths, dirty, world)
  <2>0. InLoop(end, fs, paths, dirty, world, Len(paths))
    BY <1>1, DeletionResult
  <2>1. PICK g, outcomes :
          /\ Underway(fs, paths, dirty, world, g, outcomes)
          /\ \/ end = Deleting(g, outcomes, TRUE)
             \/ end = Deleting(g, outcomes, FALSE) /\ Len(outcomes) = Len(paths)
    <3> HIDE DEF end
    <3> QED BY <2>0 DEF InLoop
  <2>2. end.fs = g /\ end.outcomes = outcomes
    <3> HIDE DEF end
    <3> QED BY <2>1 DEF Deleting
  <2>3. OnlyListedGone(fs, g, paths, dirty, outcomes) /\ outcomes \in Seq(Outcomes)
    BY <2>1 DEF Underway
  <2>4. DOMAIN outcomes = 1..Len(outcomes)
    <3> HIDE DEF Outcomes
    <3> QED BY <2>3, LenProperties
  <2> HIDE DEF end
  <2>5. {q \in Places : end.fs[q] # fs[q]} = Gone(fs, g)
    BY <2>2 DEF Gone
  <2>6. \A q \in Gone(fs, g) :
          /\ Inside(q) /\ q # Root
          /\ IF fs[q].kind = "dir"
             THEN \E p \in Gone(fs, g) : IsStrictPrefix(q, p) /\ fs[p].kind # "dir"
             ELSE \E i \in DOMAIN end.outcomes :
                    /\ end.outcomes[i] = "deleted" /\ paths[i] \notin dirty
                    /\ q = Leaf(fs, Root \o paths[i])
    BY <2>2, <2>3, <2>4 DEF OnlyListedGone
  <2> QED BY <2>5, <2>6 DEF OnlyListedDeleted, end
<1>2. DeletionType => DeletesListedOnly
  BY <1>1 DEF DeletionType, DeletesListedOnly
<1> QED BY <1>2, DeletionInputType, PTL

\* Unless sudo fails each path has its outcome; what is reported deleted or absent
\* is gone in the end, although later deletions change where links lead; and of
\* the directories that were emptied only those are left that are protected or
\* that links lead to.
THEOREM DeletionReportsAreTrue == Spec => []DeleterReports
<1>1. ASSUME NEW fs, NEW paths, NEW dirty, NEW world, IsDeletion(fs, paths)
      PROVE  ReportIsTrue(fs, paths, dirty, world)
  <2> DEFINE end == DeleteFiles(fs, paths, dirty, world)
             links == {q \in Places : fs[q].kind = "link"}
  <2>0. InLoop(end, fs, paths, dirty, world, Len(paths))
    BY <1>1, DeletionResult
  <2>1. PICK g, outcomes :
          /\ Underway(fs, paths, dirty, world, g, outcomes)
          /\ \/ end = Deleting(g, outcomes, TRUE)
             \/ end = Deleting(g, outcomes, FALSE) /\ Len(outcomes) = Len(paths)
    <3> HIDE DEF end
    <3> QED BY <2>0 DEF InLoop
  <2>2. /\ end.fs = g /\ end.outcomes = outcomes
        /\ end.raised = TRUE \/ Len(outcomes) = Len(paths)
    <3> HIDE DEF end
    <3> QED BY <2>1 DEF Deleting
  <2>3. /\ ReportedGone(g, paths, outcomes) /\ EmptiedGone(fs, g, world)
        /\ outcomes \in Seq(Outcomes)
    BY <2>1 DEF Underway
  <2>4. DOMAIN outcomes = 1..Len(outcomes)
    <3> HIDE DEF Outcomes
    <3> QED BY <2>3, LenProperties
  <2> HIDE DEF end
  <2>5. end.raised \/ Len(end.outcomes) = Len(paths)
    BY <2>1, <2>2
  <2>6. \A i \in DOMAIN end.outcomes :
          end.outcomes[i] \in {"deleted", "absent"} =>
            At(end.fs, Leaf(end.fs, Root \o paths[i])).kind = "none"
    BY <2>2, <2>3, <2>4 DEF ReportedGone
  <2>7. ASSUME NEW d \in Places, WhereLinksLead(fs, g, d)
        PROVE  \E q \in links : \/ fs[q].to = d
                                \/ /\ IsPrefix(fs[q].to, d)
                                   /\ \E p \in links : end.fs[p] # fs[p]
    BY <2>2, <2>7 DEF WhereLinksLead, LinkGone
  <2> HIDE DEF links
  <2>8. \A d \in Places :
          IsStrictPrefix(Root, d) /\ EntriesOf(fs, d) # {} =>
            \/ EntriesOf(end.fs, d) # {} \/ end.fs[d].kind = "none" \/ d \in world.protected
            \/ \E q \in links : \/ fs[q].to = d
                                \/ /\ IsPrefix(fs[q].to, d)
                                   /\ \E p \in links : end.fs[p] # fs[p]
    BY <2>2, <2>3, <2>7 DEF EmptiedGone
  <2> QED BY <2>5, <2>6, <2>8 DEF ReportIsTrue, end, links
<1>2. DeletionType => DeleterReports
  BY <1>1 DEF DeletionType, DeleterReports
<1> QED BY <1>2, DeletionInputType, PTL
====
