---- MODULE AlgorithmsProofs ----
(***************************************************************************)
(* Theorems about the algorithms, for inputs of every size.  What a         *)
(* recursive function gives for all numbers is proved from its least        *)
(* counterexample.                                                          *)
(***************************************************************************)
EXTENDS Algorithms, SequenceTheorems, WellFoundedInduction, TLAPS

\* Every set of numbers that is not empty has a least one.
LEMMA LeastNumber ==
  ASSUME NEW T, T \subseteq Nat, T # {}
  PROVE  \E n \in T : \A m \in T : n <= m
<1> DEFINE R == {pair \in Nat \X Nat : pair[1] < pair[2]}
<1>1. OpToRel(<, Nat) = R
  BY DEF OpToRel
<1>2. IsWellFoundedOn(R, Nat)
  BY <1>1, NatLessThanWellFounded
<1>3. PICK n \in T : \A m \in T : <<m, n>> \notin R
  BY <1>2, WFMin
<1>4. ASSUME NEW m \in T PROVE n <= m
  <2>1. m \in Nat /\ n \in Nat /\ <<m, n>> \in Nat \X Nat
    OBVIOUS
  <2>2. ~(m < n)
    BY <2>1, <1>3
  <2> QED BY <2>1, <2>2
<1> QED BY <1>4

\* A set of numbers that holds 0, and with each number the next, up to n, holds
\* all of them up to n.
LEMMA Stepwise ==
  ASSUME NEW n \in Nat, NEW T, 0 \in T,
         \A m \in 0..n : m \in T /\ m < n => m + 1 \in T
  PROVE  0..n \subseteq T
<1> DEFINE Missing == 0..n \ T
<1> SUFFICES ASSUME Missing # {} PROVE FALSE
  OBVIOUS
<1>1. PICK m \in Missing : \A k \in Missing : m <= k
  <2>1. Missing \subseteq Nat
    OBVIOUS
  <2> QED BY <2>1, LeastNumber
<1>2. m \in 1..n
  BY <1>1
<1>3. m - 1 \in 0..n /\ m - 1 \in T /\ m - 1 < n /\ (m - 1) + 1 = m
  <2>1. m - 1 \in 0..n /\ ~(m <= m - 1)
    BY <1>2
  <2>2. m - 1 \notin Missing
    BY <1>1, <2>1
  <2> QED BY <1>2, <2>1, <2>2
<1> QED BY <1>3, <1>1

\* The steps of a loop over states in S, and what a loop does.
Steps(step, n, S) == step \in [1..n -> [S -> S]]
Loops(f, step, n, S, base) ==
  f \in [0..n -> S] /\ f[0] = base /\ \A i \in 1..n : f[i] = step[i][f[i - 1]]

\* A loop of n steps over states in S is defined.
LEMMA LoopDefined ==
  ASSUME NEW n \in Nat, NEW S, NEW base \in S, NEW step, Steps(step, n, S)
  PROVE  \E f : Loops(f, step, n, S, base)
<1> DEFINE Done == {m \in 0..n : \E f : Loops(f, step, m, S, base)}
<1> USE DEF Steps
<1>1. 0 \in Done
  <2> DEFINE g == [i \in 0..0 |-> base]
  <2>1. Loops(g, step, 0, S, base)
    BY DEF Loops
  <2> HIDE DEF g
  <2> QED BY <2>1
<1>2. ASSUME NEW m \in 0..n, m \in Done, m < n PROVE m + 1 \in Done
  <2>1. PICK f : Loops(f, step, m, S, base)
    BY <1>2
  <2> DEFINE g == [i \in 0..(m + 1) |-> IF i = m + 1 THEN step[m + 1][f[m]] ELSE f[i]]
  <2>2. step[m + 1][f[m]] \in S
    BY <2>1, <1>2 DEF Loops
  <2>3. g \in [0..(m + 1) -> S] /\ g[0] = base
    BY <2>1, <2>2 DEF Loops
  <2>4. ASSUME NEW i \in 1..(m + 1) PROVE g[i] = step[i][g[i - 1]]
    <3>1. g[i - 1] = f[i - 1]
      OBVIOUS
    <3>2. CASE i = m + 1
      <4>1. g[i] = step[m + 1][f[m]] /\ i - 1 = m
        BY <3>2
      <4> HIDE DEF g
      <4> QED BY <3>1, <3>2, <4>1
    <3>3. CASE i # m + 1
      <4>1. i \in 1..m /\ g[i] = f[i]
        BY <3>3
      <4> HIDE DEF g
      <4> QED BY <3>1, <4>1, <2>1 DEF Loops
    <3> QED BY <3>2, <3>3
  <2>5. Loops(g, step, m + 1, S, base)
    <3> HIDE DEF g
    <3> QED BY <2>3, <2>4 DEF Loops
  <2> QED BY <2>5, <1>2
<1>3. n \in Done
  <2> HIDE DEF Done
  <2>1. \A m \in 0..n : m \in Done /\ m < n => m + 1 \in Done
    BY <1>2
  <2>2. 0..n \subseteq Done
    BY <1>1, <2>1, Stepwise
  <2> QED BY <2>2
<1> QED BY <1>3

----
\* f gives the ancestors of the first n commits.
Reaches(f, parents, n) == f = [c \in 1..n |-> {c} \cup UNION {f[p] : p \in parents[c]}]

\* The ancestors of one commit more follow from those of the commits before it.
LEMMA OneCommitMore ==
  ASSUME NEW parents \in Histories, NEW n \in Nat, n + 1 <= MaxCommits, NEW f,
         Reaches(f, parents, n)
  PROVE  \E g : Reaches(g, parents, n + 1)
<1> DEFINE g == [c \in 1..(n + 1) |-> {c} \cup UNION {f[p] : p \in parents[c]}]
<1>1. ASSUME NEW c \in 1..(n + 1) PROVE \A p \in parents[c] : p \in 1..n
  BY CommitsAssumption DEF Histories, Commits
<1>2. ASSUME NEW c \in 1..n PROVE g[c] = f[c]
  <2>1. c \in 1..(n + 1) /\ g[c] = {c} \cup UNION {f[p] : p \in parents[c]}
    OBVIOUS
  <2>2. f[c] = {c} \cup UNION {f[p] : p \in parents[c]}
    BY DEF Reaches
  <2> QED BY <2>1, <2>2
<1>3. ASSUME NEW c \in 1..(n + 1)
      PROVE  UNION {f[p] : p \in parents[c]} = UNION {g[p] : p \in parents[c]}
  <2>1. \A p \in parents[c] : f[p] = g[p]
    BY <1>1, <1>2
  <2> HIDE DEF g
  <2> QED BY <2>1
<1>4. g = [c \in 1..(n + 1) |-> {c} \cup UNION {g[p] : p \in parents[c]}]
  BY <1>3
<1> QED BY <1>4 DEF Reaches

\* So the recursive function of the ancestors is what its definition says.
LEMMA AncestorsDefined ==
  ASSUME NEW parents \in Histories
  PROVE  Reaches(Ancestors(parents), parents, MaxCommits)
<1> DEFINE Undefined == {n \in 0..MaxCommits : ~\E f : Reaches(f, parents, n)}
<1>1. 0 \notin Undefined
  <2>1. Reaches([c \in 1..0 |-> {}], parents, 0)
    BY DEF Reaches
  <2> QED BY <2>1
<1>2. Undefined = {}
  <2> SUFFICES ASSUME Undefined # {} PROVE FALSE
    OBVIOUS
  <2>1. Undefined \subseteq Nat
    BY CommitsAssumption
  <2>2. PICK n \in Undefined : \A m \in Undefined : n <= m
    BY <2>1, LeastNumber
  <2>3. n - 1 \in 0..MaxCommits /\ n - 1 \notin Undefined /\ n - 1 \in Nat
    BY <2>1, <2>2, <1>1, CommitsAssumption
  <2>4. PICK f : Reaches(f, parents, n - 1)
    BY <2>3
  <2>5. \E g : Reaches(g, parents, (n - 1) + 1)
    BY <2>1, <2>3, <2>4, OneCommitMore, CommitsAssumption
  <2> QED BY <2>1, <2>2, <2>5
<1>3. \E f : Reaches(f, parents, MaxCommits)
  BY <1>2, CommitsAssumption
<1> QED BY <1>3 DEF Ancestors, Reaches, Commits

\* A commit is its own ancestor, and has no later one.
LEMMA AncestorsAreEarlier ==
  ASSUME NEW parents \in Histories
  PROVE  \A c \in Commits : c \in Ancestors(parents)[c] /\ Ancestors(parents)[c] \subseteq 1..c
<1> DEFINE reach == Ancestors(parents)
           Wrong == {c \in Commits : ~(reach[c] \subseteq 1..c)}
<1>1. \A c \in Commits : reach[c] = {c} \cup UNION {reach[p] : p \in parents[c]}
  BY AncestorsDefined DEF Reaches, Commits
<1>2. Wrong = {}
  <2> SUFFICES ASSUME Wrong # {} PROVE FALSE
    OBVIOUS
  <2>1. Wrong \subseteq Nat
    BY DEF Commits
  <2>2. PICK c \in Wrong : \A b \in Wrong : c <= b
    BY <2>1, LeastNumber
  <2>3. ASSUME NEW p \in parents[c] PROVE reach[p] \subseteq 1..c
    <3>1. p \in Commits /\ p < c
      BY CommitsAssumption DEF Histories, Commits
    <3>2. reach[p] \subseteq 1..p
      BY <2>2, <3>1 DEF Commits
    <3> QED BY <3>1, <3>2 DEF Commits
  <2>4. reach[c] \subseteq 1..c
    BY <1>1, <2>3 DEF Commits
  <2> QED BY <2>4
<1> QED BY <1>1, <1>2

----
\* The heads of two clones are commits.
LEMMA HeadsAreCommits ==
  ASSUME NEW parents, NEW clones \in Clones(parents), NEW s \in Sides
  PROVE  clones.head[s] \in Commits /\ Other(s) \in Sides /\ Other(Other(s)) = s
BY DEF Clones, Sides, Other

\* A repository that knows both commits answers, and never that it cannot tell.
LEMMA KnownIsAnswered ==
  ASSUME NEW reach, NEW known, NEW a, NEW b, {a, b} \subseteq known
  PROVE  /\ FromCommand(reach, known, a, b) = FromCommand(reach, {a, b}, a, b)
         /\ FromCommand(reach, known, a, b) # NoRelation
BY NoRelationAssumption DEF FromCommand

\* What a repository that knows both commits sees, if there is one.
Seen(reach, clones, from) ==
  LET source == clones.head[from]
      dest == clones.head[Other(from)]
  IN IF source = dest THEN "same"
     ELSE IF \E s \in Sides : {source, dest} \subseteq clones.known[s]
          THEN FromCommand(reach, {source, dest}, source, dest)
     ELSE "different"

\* This is the relation that is reported: what else the two clones know has no
\* bearing on it, nor which of them runs the command.
LEMMA RelationIsSeen ==
  ASSUME NEW reach, NEW clones, NEW runner \in Sides, NEW from
  PROVE  Relation(reach, clones, runner, from) = Seen(reach, clones, from)
<1> DEFINE source == clones.head[from]
           dest == clones.head[Other(from)]
           on(s) == FromCommand(reach, clones.known[s], source, dest)
           seen == FromCommand(reach, {source, dest}, source, dest)
<1>1. \A s : {source, dest} \subseteq clones.known[s] => on(s) = seen /\ on(s) # NoRelation
  BY KnownIsAnswered
<1>2. \A s : ~({source, dest} \subseteq clones.known[s]) => on(s) = NoRelation
  BY DEF FromCommand
<1>3. \A s \in Sides : s = runner \/ s = Other(runner)
  BY DEF Sides, Other
<1>4. Other(runner) \in Sides
  BY DEF Sides, Other
<1>5. Relation(reach, clones, runner, from) =
        IF source = dest THEN "same"
        ELSE IF on(runner) # NoRelation THEN on(runner)
        ELSE IF on(Other(runner)) # NoRelation THEN on(Other(runner)) ELSE "different"
  BY DEF Relation
<1> HIDE DEF on, seen, source, dest
<1>6. Relation(reach, clones, runner, from) =
        IF source = dest THEN "same"
        ELSE IF \E s \in Sides : {source, dest} \subseteq clones.known[s] THEN seen ELSE "different"
  BY <1>1, <1>2, <1>3, <1>4, <1>5
<1> QED BY <1>6 DEF seen, source, dest, Seen

\* The other direction has the relation reversed: of two commits at most one is
\* an ancestor of the other.
LEMMA DirectionsReverse ==
  ASSUME NEW parents \in Histories, NEW a \in Commits, NEW b \in Commits, a # b
  PROVE  LET reach == Ancestors(parents)
         IN FromCommand(reach, {b, a}, b, a) = Reversed(FromCommand(reach, {a, b}, a, b))
<1> DEFINE reach == Ancestors(parents)
<1>1. ~(a \in reach[b] /\ b \in reach[a])
  BY AncestorsAreEarlier DEF Commits
<1>2. HaveMergeBase(reach, a, b) <=> HaveMergeBase(reach, b, a)
  BY DEF HaveMergeBase
<1> HIDE DEF reach
<1>3. FromCommand(reach, {b, a}, b, a) = Reversed(FromCommand(reach, {a, b}, a, b))
  BY <1>1, <1>2 DEF FromCommand, IsAncestor, Reversed
<1> QED BY <1>3 DEF reach

\* The heads that are compared are those of two clones of one history.
HeadsType ==
  input.of = "heads" => input.parents \in Histories /\ input.clones \in Clones(input.parents)

\* The input of a run does not change.
LEMMA InputType == Spec => []HeadsType
<1>1. Init => HeadsType
  <2>1. input \in Heads => HeadsType
    BY DEF Heads, HeadsType
  <2>2. input \in Streams \cup Listings => input.of # "heads"
    BY DEF Streams, Listings
  <2>3. input \in Trees \cup Searches => input.of # "heads"
    BY DEF Trees, Searches
  <2>4. input \in Deletions => input.of # "heads"
    BY InputsAssumption
  <2> QED BY <2>1, <2>2, <2>3, <2>4 DEF Init, HeadsType
<1>2. HeadsType /\ [Next]_input => HeadsType'
  BY DEF Next, HeadsType
<1> QED BY <1>1, <1>2, PTL DEF Spec

\* For histories of any size and whatever parts of them the two clones know,
\* one relation is reported on both sides and in both directions.
THEOREM RelationsAgree == Spec => []HeadsAgree
<1>1. ASSUME NEW parents \in Histories, NEW clones \in Clones(parents)
      PROVE  SidesAgree(parents, clones)
  <2> DEFINE reach == Ancestors(parents)
  <2> SUFFICES ASSUME NEW from \in Sides, NEW one \in Sides, NEW two \in Sides
               PROVE  /\ Relation(reach, clones, one, from) = Relation(reach, clones, two, from)
                      /\ Relation(reach, clones, one, Other(from)) =
                           Reversed(Relation(reach, clones, one, from))
    BY DEF SidesAgree
  <2> DEFINE a == clones.head[from]
             b == clones.head[Other(from)]
             told == \E s \in Sides : {a, b} \subseteq clones.known[s]
  <2>1. Other(from) \in Sides /\ Other(Other(from)) = from /\ a \in Commits /\ b \in Commits
    BY HeadsAreCommits
  <2>2. \A runner \in Sides : Relation(reach, clones, runner, from) =
          IF a = b THEN "same" ELSE IF told THEN FromCommand(reach, {a, b}, a, b) ELSE "different"
    <3>1. \A runner \in Sides : Relation(reach, clones, runner, from) = Seen(reach, clones, from)
      BY RelationIsSeen
    <3> QED BY <3>1 DEF Seen
  <2>3. Relation(reach, clones, one, Other(from)) =
          IF b = a THEN "same" ELSE IF told THEN FromCommand(reach, {b, a}, b, a) ELSE "different"
    <3>1. \A s : {b, a} \subseteq clones.known[s] <=> {a, b} \subseteq clones.known[s]
      OBVIOUS
    <3>2. Relation(reach, clones, one, Other(from)) = Seen(reach, clones, Other(from))
      BY RelationIsSeen
    <3> QED BY <2>1, <3>1, <3>2 DEF Seen
  <2>4. a # b => FromCommand(reach, {b, a}, b, a) = Reversed(FromCommand(reach, {a, b}, a, b))
    BY <2>1, DirectionsReverse
  <2> HIDE DEF reach, a, b, told
  <2> QED BY <2>2, <2>3, <2>4 DEF Reversed
<1>2. HeadsType => HeadsAgree
  BY <1>1 DEF HeadsType, HeadsAgree
<1> QED BY <1>2, InputType, PTL

\* What is reported is true of the whole history, of which each clone knows but
\* a part.
THEOREM ClaimsAreTrue == Spec => []HeadClaims
<1>1. ASSUME NEW parents \in Histories, NEW clones \in Clones(parents)
      PROVE  ClaimIsTrue(parents, clones)
  <2> DEFINE reach == Ancestors(parents)
  <2> SUFFICES ASSUME NEW runner \in Sides, NEW from \in Sides
               PROVE  LET source == clones.head[from]
                          dest == clones.head[Other(from)]
                          claim == Relation(reach, clones, runner, from)
                          told == \E s \in Sides : {source, dest} \subseteq clones.known[s]
                      IN /\ claim = "same" <=> source = dest
                         /\ claim = "source_ahead" => dest \in reach[source] \ {source}
                         /\ claim = "destination_ahead" => source \in reach[dest] \ {dest}
                         /\ claim = "diverged" =>
                              /\ reach[source] \cap reach[dest] # {}
                              /\ source \notin reach[dest] /\ dest \notin reach[source]
                         /\ claim = "different" => ~told \/ reach[source] \cap reach[dest] = {}
    BY DEF ClaimIsTrue
  <2> DEFINE a == clones.head[from]
             b == clones.head[Other(from)]
             told == \E s \in Sides : {a, b} \subseteq clones.known[s]
             claim == Relation(reach, clones, runner, from)
  <2>1. claim = IF a = b THEN "same"
                ELSE IF told THEN FromCommand(reach, {a, b}, a, b) ELSE "different"
    <3>1. claim = Seen(reach, clones, from)
      BY RelationIsSeen
    <3> QED BY <3>1 DEF Seen
  <2> HIDE DEF reach, a, b, told, claim
  <2>2. /\ claim = "same" <=> a = b
        /\ claim = "source_ahead" => b \in reach[a] \ {a}
        /\ claim = "destination_ahead" => a \in reach[b] \ {b}
        /\ claim = "diverged" => reach[a] \cap reach[b] # {} /\ a \notin reach[b] /\ b \notin reach[a]
        /\ claim = "different" => ~told \/ reach[a] \cap reach[b] = {}
    BY <2>1 DEF FromCommand, IsAncestor, HaveMergeBase
  <2> QED BY <2>2 DEF a, b, told, claim
<1>2. HeadsType => HeadClaims
  BY <1>1 DEF HeadsType, HeadClaims
<1> QED BY <1>2, InputType, PTL

----
\* s \o t, in a form that the provers do not take apart
Join(s, t) == s \o t

\* What the lemmas need to know of a set of sequences.
IsText(Q) == /\ <<>> \in Q
             /\ \A a, b \in Q : Join(a, b) \in Q /\ Join(<<>>, a) = a /\ Join(a, <<>>) = a
             /\ \A a, b, c \in Q : Join(Join(a, b), c) = Join(a, Join(b, c))

\* f concatenates the first pieces, one after the other.
Pieces(pieces, n, Q) == pieces \in [1..n -> Q] /\ Len(pieces) = n
Concats(f, pieces, n, Q) ==
  f \in [0..n -> Q] /\ f[0] = <<>> /\ \A i \in 1..n : f[i] = Join(f[i - 1], pieces[i])

\* The concatenation of a sequence of pieces is what its definition says.
LEMMA FlatDefined ==
  ASSUME NEW Q, IsText(Q), NEW n \in Nat, NEW pieces, Pieces(pieces, n, Q)
  PROVE  \E f : Concats(f, pieces, n, Q) /\ FlattenSeq(pieces) = f[n]
<1> USE DEF Pieces
<1> DEFINE step == [i \in 1..n |-> [s \in Q |-> Join(s, pieces[i])]]
<1>1. n \in Nat /\ \A i \in 1..n : pieces[i] \in Q
  OBVIOUS
<1>2. step \in [1..n -> [Q -> Q]] /\ <<>> \in Q
  BY DEF IsText
<1>3. PICK f : Loops(f, step, n, Q, <<>>)
  <2>1. Steps(step, n, Q)
    BY <1>2 DEF Steps
  <2> HIDE DEF step
  <2> QED BY <1>2, <2>1, LoopDefined
<1>4. ASSUME NEW i \in 1..n PROVE f[i] = Join(f[i - 1], pieces[i])
  <2>1. f[i - 1] \in Q
    BY <1>3 DEF Loops
  <2>2. f[i] = step[i][f[i - 1]]
    BY <1>3 DEF Loops
  <2> QED BY <2>1, <2>2
<1>5. f[0] = <<>> /\ f \in [0..n -> Q]
  BY <1>3 DEF Loops
<1>6. Concats(f, pieces, n, Q)
  BY <1>4, <1>5 DEF Concats
<1>7. FlattenSeq(pieces) = f[n]
  <2>1. CASE n = 0
    <3>1. pieces = <<>>
      BY <2>1
    <3> QED BY <2>1, <3>1, <1>5 DEF FlattenSeq
  <2>2. CASE n # 0
    <3> DEFINE Flattens(g) == g = [i \in 1..n |-> IF i = 1 THEN pieces[i] ELSE Join(g[i - 1], pieces[i])]
               short == [i \in 1..n |-> f[i]]
    <3>1. short[1] = pieces[1]
      <4>1. f[1] = Join(f[0], pieces[1]) /\ pieces[1] \in Q /\ 1 \in 1..n
        BY <1>4, <1>1, <2>2
      <4> QED BY <4>1, <1>5 DEF IsText
    <3>2. \A i \in 2..n : short[i] = Join(short[i - 1], pieces[i])
      BY <1>4
    <3>3. Flattens(short)
      <4>1. short = [i \in 1..n |-> short[i]]
        OBVIOUS
      <4> HIDE DEF short
      <4>2. \A i \in 1..n : short[i] = IF i = 1 THEN pieces[i] ELSE Join(short[i - 1], pieces[i])
        BY <3>1, <3>2
      <4> QED BY <4>1, <4>2
    <3> DEFINE flatten == CHOOSE g : Flattens(g)
    <3>4. Flattens(flatten)
      <4> HIDE DEF Flattens
      <4> QED BY <3>3
    <3>5. FlattenSeq(pieces) = flatten[n]
      BY <2>2 DEF FlattenSeq, Join
    <3> HIDE DEF flatten
    <3> DEFINE Same == {i \in 0..n : i # 0 => flatten[i] = f[i]}
    <3>6. 0 \in Same
      BY <1>1
    <3>7. ASSUME NEW i \in 0..n, i \in Same, i < n PROVE i + 1 \in Same
      <4>1. i + 1 \in 1..n /\ i + 1 - 1 = i
        BY <3>7
      <4>2. f[i + 1] = Join(f[i], pieces[i + 1])
        BY <4>1, <1>4
      <4>3. CASE i = 0
        <5>1. f[1] = pieces[1] /\ flatten[1] = pieces[1]
          BY <4>1, <4>2, <4>3, <3>4, <1>5, <1>1 DEF IsText
        <5>2. i + 1 = 1
          BY <4>3
        <5> QED BY <5>1, <5>2, <4>1
      <4>4. CASE i # 0
        <5>1. flatten[i + 1] = Join(flatten[i], pieces[i + 1])
          BY <4>1, <4>4, <3>4
        <5> QED BY <5>1, <4>1, <4>2, <4>4, <3>7
      <4> QED BY <4>3, <4>4
    <3>8. n \in Same
      <4> HIDE DEF Same
      <4>1. \A i \in 0..n : i \in Same /\ i < n => i + 1 \in Same
        BY <3>7
      <4>2. 0..n \subseteq Same
        BY <1>1, <3>6, <4>1, Stepwise
      <4> QED BY <4>2, <1>1
    <3> QED BY <3>5, <3>8, <2>2
  <2> QED BY <2>1, <2>2
<1> QED BY <1>5, <1>6, <1>7

\* The first piece comes first, and then all the others.
LEMMA FlatCons ==
  ASSUME NEW Q, IsText(Q), NEW n \in Nat, NEW piece \in Q,
         NEW pieces, Pieces(pieces, n, Q), NEW all, Pieces(all, n + 1, Q),
         all[1] = piece, \A i \in 1..n : all[i + 1] = pieces[i]
  PROVE  /\ FlattenSeq(pieces) \in Q
         /\ FlattenSeq(all) = Join(piece, FlattenSeq(pieces))
<1>1. PICK f : Concats(f, pieces, n, Q) /\ FlattenSeq(pieces) = f[n]
  BY FlatDefined
<1>2. PICK g : Concats(g, all, n + 1, Q) /\ FlattenSeq(all) = g[n + 1]
  BY FlatDefined
<1>3. /\ n \in Nat /\ \A i \in 1..n : pieces[i] \in Q
      /\ f \in [0..n -> Q] /\ g \in [0..(n + 1) -> Q]
  BY <1>1, <1>2 DEF Pieces, Concats
<1>4. f[0] = <<>> /\ \A i \in 1..n : f[i] = Join(f[i - 1], pieces[i])
  BY <1>1, <1>3 DEF Concats
<1>5. g[0] = <<>> /\ \A i \in 1..(n + 1) : g[i] = Join(g[i - 1], all[i])
  BY <1>2, <1>3 DEF Concats
<1> DEFINE Same == {i \in 0..n : g[i + 1] = Join(piece, f[i])}
<1>6. 0 \in Same
  <2>1. g[1] = Join(g[0], piece)
    BY <1>3, <1>5
  <2> QED BY <2>1, <1>3, <1>4, <1>5 DEF IsText
<1>7. ASSUME NEW i \in 0..n, i \in Same, i < n PROVE i + 1 \in Same
  <2>1. i + 1 \in 1..n /\ i + 1 + 1 \in 1..(n + 1) /\ i + 1 - 1 = i /\ i + 1 + 1 - 1 = i + 1
    BY <1>7, <1>3
  <2>2. g[i + 1 + 1] = Join(g[i + 1], pieces[i + 1])
    BY <2>1, <1>5
  <2>3. f[i + 1] = Join(f[i], pieces[i + 1])
    BY <2>1, <1>4
  <2>4. f[i] \in Q /\ pieces[i + 1] \in Q
    BY <2>1, <1>3
  <2>5. Join(Join(piece, f[i]), pieces[i + 1]) = Join(piece, Join(f[i], pieces[i + 1]))
    <3>1. \A a, b, c \in Q : Join(Join(a, b), c) = Join(a, Join(b, c))
      BY DEF IsText
    <3> QED BY <2>4, <3>1
  <2> QED BY <1>7, <2>1, <2>2, <2>3, <2>5
<1>8. n \in Same
  <2> HIDE DEF Same
  <2>1. \A i \in 0..n : i \in Same /\ i < n => i + 1 \in Same
    BY <1>7
  <2>2. 0..n \subseteq Same
    BY <1>3, <1>6, <2>1, Stepwise
  <2> QED BY <2>2, <1>3
<1> QED BY <1>1, <1>2, <1>3, <1>8

\* The codes of an entry with an old path have R or C in the first column: git
\* has it in the second column only for a file added with intent-to-add.
FirstColumnOnly == \A xy \in Codes : xy[2] \notin {"R", "C"}

\* What the parser makes of the tokens from i on, if f is what it makes of those
\* further on.
ParseStep(f, tokens, i) ==
  IF i > Len(tokens) THEN Parsed(<<>>)
  ELSE IF tokens[i] = EmptyToken THEN f[i + 1]
  ELSE IF ~IsEntry(tokens[i]) THEN Malformed
  ELSE LET two == Renamed(tokens[i].xy)
           rest == f[IF two THEN i + 2 ELSE i + 1]
           record == [xy |-> tokens[i].xy, name |-> tokens[i].name,
                      orig |-> IF two THEN tokens[i + 1] ELSE NoOrig]
       IN IF two /\ Unpaired(tokens, i) THEN Malformed
          ELSE IF rest.ok THEN Parsed(<<record>> \o rest.records) ELSE Malformed

\* It depends on nothing else.
LEMMA ParseLooksAhead ==
  ASSUME NEW tokens \in Seq(Token), NEW i \in 1..Len(tokens), NEW f, NEW g,
         \A j \in (i + 1)..(Len(tokens) + 1) : f[j] = g[j]
  PROVE  ParseStep(f, tokens, i) = ParseStep(g, tokens, i)
<1>1. f[i + 1] = g[i + 1]
  OBVIOUS
<1>2. i # Len(tokens) => f[i + 2] = g[i + 2]
  OBVIOUS
<1> QED BY <1>1, <1>2 DEF ParseStep, Unpaired

\* f is the recursive function of the parser on a stream.
Parses(f, tokens) == f = [i \in 1..(Len(tokens) + 1) |-> ParseStep(f, tokens, i)]

\* It is what its definition says.
LEMMA ParseDefined ==
  ASSUME NEW tokens \in Seq(Token)
  PROVE  \E f : Parses(f, tokens) /\ Parse(tokens) = f[1]
<1> DEFINE n == Len(tokens)
           Ends(f, k) == f = [i \in (n + 1 - k)..(n + 1) |-> ParseStep(f, tokens, i)]
           Done == {k \in 0..n : \E f : Ends(f, k)}
<1>0. n \in Nat
  OBVIOUS
<1> HIDE DEF n
<1>1. 0 \in Done
  <2> DEFINE f == [i \in (n + 1)..(n + 1) |-> Parsed(<<>>)]
  <2>1. \A g : \A i \in (n + 1)..(n + 1) : ParseStep(g, tokens, i) = Parsed(<<>>)
    BY <1>0 DEF ParseStep, n
  <2>2. f = [i \in (n + 1)..(n + 1) |-> ParseStep(f, tokens, i)]
    BY <2>1
  <2>3. Ends(f, 0)
    BY <2>2, <1>0
  <2> HIDE DEF Ends, f
  <2> QED BY <2>3, <1>0
<1>2. ASSUME NEW k \in 0..n, k \in Done, k < n PROVE k + 1 \in Done
  <2>1. PICK f : Ends(f, k)
    BY <1>2
  <2> DEFINE i0 == n - k
             g == [i \in i0..(n + 1) |-> IF i = i0 THEN ParseStep(f, tokens, i0) ELSE f[i]]
  <2>2. i0 \in 1..n /\ n + 1 - k = i0 + 1 /\ n + 1 - (k + 1) = i0
    BY <1>0, <1>2
  <2>3. \A j \in (i0 + 1)..(n + 1) : f[j] = g[j]
    BY <2>2, <1>0
  <2>4. ASSUME NEW i \in i0..(n + 1) PROVE g[i] = ParseStep(g, tokens, i)
    <3>1. g[i] = ParseStep(f, tokens, i)
      <4>1. CASE i = i0
        BY <4>1
      <4>2. CASE i # i0
        <5>1. i \in (i0 + 1)..(n + 1)
          BY <4>2, <2>2, <1>0
        <5>2. f[i] = ParseStep(f, tokens, i)
          BY <5>1, <2>1, <2>2
        <5> QED BY <5>1, <5>2, <2>3
      <4> QED BY <4>1, <4>2
    <3> HIDE DEF g
    <3>2. CASE i = n + 1
      BY <3>1, <3>2, <1>0 DEF ParseStep, n
    <3>3. CASE i # n + 1
      <4>1. i \in 1..n /\ i0 <= i
        BY <3>3, <2>2, <1>0
      <4> HIDE DEF i0
      <4>2. ASSUME NEW j \in (i + 1)..(n + 1) PROVE f[j] = g[j]
        <5>1. j \in (i0 + 1)..(n + 1)
          BY <4>1, <2>2, <1>0
        <5> QED BY <5>1, <2>3
      <4>3. ParseStep(f, tokens, i) = ParseStep(g, tokens, i)
        BY <4>1, <4>2, ParseLooksAhead DEF n
      <4> QED BY <3>1, <4>3
    <3> QED BY <3>2, <3>3
  <2>5. Ends(g, k + 1)
    <3>1. g = [i \in i0..(n + 1) |-> g[i]]
      OBVIOUS
    <3> HIDE DEF g
    <3>2. g = [i \in i0..(n + 1) |-> ParseStep(g, tokens, i)]
      BY <3>1, <2>4
    <3> QED BY <3>2, <2>2
  <2> HIDE DEF Ends, g
  <2> QED BY <2>5, <1>2, <1>0
<1>3. n \in Done
  <2> HIDE DEF Done
  <2>1. \A k \in 0..n : k \in Done /\ k < n => k + 1 \in Done
    BY <1>2
  <2>2. 0..n \subseteq Done
    BY <1>0, <1>1, <2>1, Stepwise
  <2> QED BY <2>2, <1>0
<1>4. \E f : Parses(f, tokens)
  <2>1. PICK f : Ends(f, n)
    BY <1>3
  <2>2. n + 1 - n = 1
    BY <1>0
  <2>3. Parses(f, tokens)
    BY <2>1, <2>2 DEF Parses, n
  <2> QED BY <2>3
<1> QED BY <1>4 DEF Parse, ParseStep, Parses

\* Streams of tokens can be joined.
LEMMA StreamsJoin == IsText(Seq(Token))
<1>1. ASSUME NEW a \in Seq(Token), NEW b \in Seq(Token)
      PROVE  Join(a, b) \in Seq(Token) /\ Join(<<>>, a) = a /\ Join(a, <<>>) = a
  BY ConcatProperties, ConcatEmptySeq DEF Join
<1>2. ASSUME NEW a \in Seq(Token), NEW b \in Seq(Token), NEW c \in Seq(Token)
      PROVE  Join(Join(a, b), c) = Join(a, Join(b, c))
  BY ConcatAssociative DEF Join
<1> QED BY <1>1, <1>2, EmptySeq DEF IsText

\* What git writes for one entry is one token or two.
LEMMA WrittenType ==
  ASSUME NEW r \in Record
  PROVE  /\ Written(r) \in Seq(Token)
         /\ [xy |-> r.xy, name |-> r.name] \in Token \ {EmptyToken}
<1>1. [xy |-> r.xy, name |-> r.name] \in Token /\ r.orig \in Token
  BY DEF Record, Token
<1>2. [xy |-> r.xy, name |-> r.name] # EmptyToken
  BY CodesAssumption DEF Record, EmptyToken
<1>3. Written(r) \in Seq(Token)
  BY <1>1 DEF Written
<1> QED BY <1>1, <1>2, <1>3

\* A sequence with one element more in front.
LEMMA ConsProperties ==
  ASSUME NEW S, NEW e \in S, NEW s \in Seq(S)
  PROVE  /\ Cons(e, s) \in Seq(S) /\ Len(Cons(e, s)) = Len(s) + 1 /\ Cons(e, s)[1] = e
         /\ \A i \in 1..Len(s) : Cons(e, s)[i + 1] = s[i]
<1>1. <<e>> \in Seq(S) /\ Len(<<e>>) = 1 /\ Len(s) \in Nat
  OBVIOUS
<1>2. /\ <<e>> \o s \in Seq(S) /\ Len(<<e>> \o s) = Len(s) + 1
      /\ \A i \in 1..(1 + Len(s)) : (<<e>> \o s)[i] = IF i <= 1 THEN <<e>>[1] ELSE s[i - 1]
  BY <1>1, ConcatProperties
<1>3. (<<e>> \o s)[1] = e
  BY <1>1, <1>2
<1>4. ASSUME NEW i \in 1..Len(s) PROVE (<<e>> \o s)[i + 1] = s[i]
  <2>1. i + 1 \in 1..(1 + Len(s)) /\ ~(i + 1 <= 1) /\ i + 1 - 1 = i
    BY <1>1
  <2> QED BY <1>2, <2>1
<1> QED BY <1>2, <1>3, <1>4 DEF Cons

\* one says which tokens are written for each element of D.
Writes(one, D) == one \in [D -> Seq(Token)]
Flat(one, seq) == FlattenSeq([i \in DOMAIN seq |-> one[seq[i]]])

\* What is written for the elements of a sequence is what is written for the
\* first and then for the others.
LEMMA MapCons ==
  ASSUME NEW D, NEW one, Writes(one, D), NEW e \in D, NEW s \in Seq(D)
  PROVE  Flat(one, s) \in Seq(Token) /\ Flat(one, Cons(e, s)) = Join(one[e], Flat(one, s))
<1> USE DEF Writes
<1> DEFINE n == Len(s)
           pieces == [i \in DOMAIN s |-> one[s[i]]]
           all == [i \in DOMAIN Cons(e, s) |-> one[Cons(e, s)[i]]]
<1>1. n \in Nat /\ DOMAIN s = 1..n /\ \A i \in 1..n : s[i] \in D
  OBVIOUS
<1>2. Pieces(pieces, n, Seq(Token))
  <2>1. pieces \in [1..n -> Seq(Token)]
    BY <1>1
  <2> QED BY <1>1, <2>1 DEF Pieces
<1>3. /\ DOMAIN Cons(e, s) = 1..(n + 1) /\ Cons(e, s)[1] = e
      /\ \A i \in 1..n : Cons(e, s)[i + 1] = s[i]
      /\ \A i \in 1..(n + 1) : Cons(e, s)[i] \in D
  <2> DEFINE c == Cons(e, s)
  <2>1. c \in Seq(D) /\ Len(c) = n + 1 /\ c[1] = e /\ \A i \in 1..n : c[i + 1] = s[i]
    BY ConsProperties
  <2> HIDE DEF c
  <2>2. c \in [1..(n + 1) -> D]
    BY <2>1, LenProperties
  <2> QED BY <2>1, <2>2 DEF c
<1>4. Pieces(all, n + 1, Seq(Token)) /\ all[1] = one[e]
  <2>1. all \in [1..(n + 1) -> Seq(Token)]
    BY <1>3
  <2>2. Len(all) = n + 1 /\ 1 \in 1..(n + 1)
    BY <1>1, <2>1
  <2> QED BY <1>3, <2>1, <2>2 DEF Pieces
<1>5. \A i \in 1..n : all[i + 1] = pieces[i]
  BY <1>1, <1>3
<1> HIDE DEF pieces, all, n
<1>6. FlattenSeq(pieces) \in Seq(Token) /\ FlattenSeq(all) = Join(one[e], FlattenSeq(pieces))
  <2>1. one[e] \in Seq(Token)
    OBVIOUS
  <2> QED BY <1>1, <1>2, <1>4, <1>5, <2>1, StreamsJoin, FlatCons
<1> QED BY <1>6 DEF pieces, all, Flat

\* The tokens of a listing are those of its first entry and then the others'.
LEMMA EncodeCons ==
  ASSUME NEW r \in Record, NEW rs \in Seq(Record)
  PROVE  /\ Encode(rs) \in Seq(Token)
         /\ Encode(Cons(r, rs)) = Join(Written(r), Encode(rs))
<1> DEFINE one == [q \in Record |-> Written(q)]
<1>1. one \in [Record -> Seq(Token)] /\ one[r] = Written(r)
  BY WrittenType
<1>2. ASSUME NEW seq \in Seq(Record) PROVE Encode(seq) = Flat(one, seq)
  <2>1. [i \in DOMAIN seq |-> Written(seq[i])] = [i \in DOMAIN seq |-> one[seq[i]]]
    OBVIOUS
  <2> QED BY <2>1 DEF Encode, Flat
<1>3. Cons(r, rs) \in Seq(Record)
  BY ConsProperties
<1>4. Flat(one, rs) \in Seq(Token) /\ Flat(one, Cons(r, rs)) = Join(one[r], Flat(one, rs))
  <2>1. Writes(one, Record)
    BY <1>1 DEF Writes
  <2> HIDE DEF one
  <2> QED BY <2>1, MapCons
<1> HIDE DEF one
<1> QED BY <1>1, <1>2, <1>3, <1>4

\* The tokens of a stream that are not empty are the first, if it is not, and
\* then the others.
LEMMA NonEmptyCons ==
  ASSUME NEW t \in Token, NEW ts \in Seq(Token)
  PROVE  /\ NonEmpty(ts) \in Seq(Token)
         /\ NonEmpty(Cons(t, ts)) = Join(IF t = EmptyToken THEN <<>> ELSE <<t>>, NonEmpty(ts))
<1> DEFINE one == [q \in Token |-> IF q = EmptyToken THEN <<>> ELSE <<q>>]
<1>1. one \in [Token -> Seq(Token)] /\ one[t] = IF t = EmptyToken THEN <<>> ELSE <<t>>
  OBVIOUS
<1>2. ASSUME NEW seq \in Seq(Token) PROVE NonEmpty(seq) = Flat(one, seq)
  <2>1. [i \in DOMAIN seq |-> IF seq[i] = EmptyToken THEN <<>> ELSE <<seq[i]>>] =
          [i \in DOMAIN seq |-> one[seq[i]]]
    OBVIOUS
  <2> QED BY <2>1 DEF NonEmpty, Flat
<1>3. Cons(t, ts) \in Seq(Token)
  BY ConsProperties
<1>4. Flat(one, ts) \in Seq(Token) /\ Flat(one, Cons(t, ts)) = Join(one[t], Flat(one, ts))
  <2>1. Writes(one, Token)
    BY <1>1 DEF Writes
  <2> HIDE DEF one
  <2> QED BY <2>1, MapCons
<1> HIDE DEF one
<1> QED BY <1>1, <1>2, <1>3, <1>4

\* The second element is the first of what was there before.
LEMMA SecondOfCons ==
  ASSUME NEW S, NEW e \in S, NEW s \in Seq(S), s # <<>>
  PROVE  Cons(e, s)[2] = s[1]
<1> DEFINE all == Cons(e, s)
<1>1. \A i \in 1..Len(s) : all[i + 1] = s[i]
  BY ConsProperties
<1>2. 1 \in 1..Len(s) /\ 1 + 1 = 2
  OBVIOUS
<1> HIDE DEF all
<1>3. all[2] = s[1]
  BY <1>1, <1>2
<1> QED BY <1>3 DEF all

\* What is parsed from a token on does not depend on the tokens before it.
LEMMA ParseShifts ==
  ASSUME NEW t \in Token, NEW ts \in Seq(Token), NEW f, NEW g,
         Parses(f, ts), Parses(g, Cons(t, ts))
  PROVE  \A i \in 1..(Len(ts) + 1) : g[i + 1] = f[i]
<1> DEFINE n == Len(ts)
           all == Cons(t, ts)
           Same == {k \in 0..n : g[n + 1 - k + 1] = f[n + 1 - k]}
<1>1. n \in Nat /\ all \in Seq(Token) /\ Len(all) = n + 1 /\ \A i \in 1..n : all[i + 1] = ts[i]
  <2>1. n \in Nat
    OBVIOUS
  <2>2. all \in Seq(Token) /\ Len(all) = n + 1 /\ \A i \in 1..n : all[i + 1] = ts[i]
    BY ConsProperties
  <2> HIDE DEF n, all
  <2> QED BY <2>1, <2>2
<1>2. \A i \in 1..(n + 1) : f[i] = ParseStep(f, ts, i) /\ g[i + 1] = ParseStep(g, all, i + 1)
  <2>1. f = [i \in 1..(n + 1) |-> ParseStep(f, ts, i)]
    BY DEF Parses
  <2>2. g = [i \in 1..(n + 1 + 1) |-> ParseStep(g, all, i)]
    BY <1>1 DEF Parses
  <2>3. ASSUME NEW i \in 1..(n + 1) PROVE i + 1 \in 1..(n + 1 + 1)
    BY <1>1
  <2> HIDE DEF n, all
  <2> QED BY <2>1, <2>2, <2>3
<1> HIDE DEF all
<1>3. ASSUME NEW i \in 1..n, g[i + 1 + 1] = f[i + 1], i # n => g[i + 2 + 1] = f[i + 2]
      PROVE  ParseStep(f, ts, i) = ParseStep(g, all, i + 1)
  <2>1. /\ ~(i > Len(ts)) /\ ~(i + 1 > Len(all)) /\ all[i + 1] = ts[i]
        /\ i + 1 = Len(all) <=> i = Len(ts)
        /\ i # Len(ts) => all[i + 1 + 1] = ts[i + 1]
        /\ i + 1 + 2 = i + 2 + 1
    BY <1>1
  <2>2. Unpaired(all, i + 1) <=> Unpaired(ts, i)
    BY <2>1 DEF Unpaired
  <2>3. i = n => Unpaired(ts, i)
    BY DEF Unpaired
  <2>4. CASE i = n
    BY <2>1, <2>2, <2>3, <2>4, <1>3 DEF ParseStep
  <2>5. CASE i # n
    BY <2>1, <2>2, <2>5, <1>3 DEF ParseStep
  <2> QED BY <2>4, <2>5
<1>4. ASSUME NEW k \in 0..n, \A j \in 0..n : j < k => j \in Same PROVE k \in Same
  <2> DEFINE i == n + 1 - k
  <2>1. i \in 1..(n + 1)
    BY <1>1
  <2>2. CASE k = 0
    <3>1. ParseStep(f, ts, i) = Parsed(<<>>) /\ ParseStep(g, all, i + 1) = Parsed(<<>>)
      BY <2>2, <1>1 DEF ParseStep
    <3> QED BY <3>1, <2>1, <1>2
  <2>3. CASE k # 0
    <3>1. i \in 1..n /\ k - 1 \in 0..n /\ k - 1 < k /\ n + 1 - (k - 1) = i + 1
      BY <2>3, <1>1
    <3>2. g[i + 1 + 1] = f[i + 1]
      <4>1. k - 1 \in Same
        BY <3>1, <1>4
      <4> QED BY <3>1, <4>1
    <3>3. ASSUME i # n PROVE g[i + 2 + 1] = f[i + 2]
      <4>1. k - 2 \in 0..n /\ k - 2 < k /\ n + 1 - (k - 2) = i + 2
        BY <2>3, <3>3, <1>1
      <4>2. k - 2 \in Same
        BY <4>1, <1>4
      <4> QED BY <4>1, <4>2
    <3> HIDE DEF i
    <3>4. g[i + 1] = f[i]
      BY <3>1, <3>2, <3>3, <2>1, <1>2, <1>3
    <3> QED BY <3>4 DEF i
  <2> QED BY <2>2, <2>3
<1>5. 0..n \subseteq Same
  <2> HIDE DEF Same, n
  <2> DEFINE Others == 0..n \ Same
  <2> SUFFICES ASSUME Others # {} PROVE FALSE
    OBVIOUS
  <2>1. PICK k \in Others : \A j \in Others : k <= j
    <3>1. Others \subseteq Nat
      OBVIOUS
    <3> QED BY <3>1, LeastNumber
  <2>2. \A j \in 0..n : j < k => j \in Same
    BY <2>1
  <2> QED BY <2>2, <1>4
<1>6. ASSUME NEW i \in 1..(n + 1) PROVE g[i + 1] = f[i]
  <2>1. n + 1 - i \in 0..n /\ n + 1 - (n + 1 - i) = i
    BY <1>1
  <2> QED BY <2>1, <1>5
<1> QED BY <1>6

\* An entry in front of what else is parsed.
Add(record, result) ==
  IF result.ok THEN Parsed(Cons(record, result.records)) ELSE Malformed

EntryOf(t, orig) == [xy |-> t.xy, name |-> t.name, orig |-> orig]

\* Nothing is parsed from an empty stream, and from another its first token
\* and then what follows.
LEMMA ParseCons ==
  ASSUME NEW t \in Token, NEW ts \in Seq(Token)
  PROVE  /\ Parse(<<>>) = Parsed(<<>>)
         /\ t = EmptyToken => Parse(Cons(t, ts)) = Parse(ts)
         /\ t # EmptyToken /\ ~IsEntry(t) => Parse(Cons(t, ts)) = Malformed
         /\ IsEntry(t) /\ ~Renamed(t.xy) => Parse(Cons(t, ts)) = Add(EntryOf(t, NoOrig), Parse(ts))
         /\ IsEntry(t) /\ Renamed(t.xy) /\ (ts = <<>> \/ ts[1] = EmptyToken) =>
              Parse(Cons(t, ts)) = Malformed
<1> DEFINE n == Len(ts)
           all == Cons(t, ts)
<1>1. n \in Nat /\ all \in Seq(Token) /\ Len(all) = n + 1 /\ all[1] = t
      /\ (ts # <<>> => all[2] = ts[1]) /\ (ts = <<>> <=> n = 0)
  <2>1. all \in Seq(Token) /\ Len(all) = n + 1 /\ all[1] = t
    BY ConsProperties
  <2>2. n \in Nat /\ (ts = <<>> <=> n = 0) /\ (ts # <<>> => all[2] = ts[1])
    BY SecondOfCons
  <2> QED BY <2>1, <2>2
<1>2. PICK f : Parses(f, ts) /\ Parse(ts) = f[1]
  BY ParseDefined
<1>3. PICK g : Parses(g, all) /\ Parse(all) = g[1]
  BY <1>1, ParseDefined
<1>4. g[2] = f[1]
  <2>1. \A i \in 1..(n + 1) : g[i + 1] = f[i]
    BY <1>2, <1>3, ParseShifts
  <2>2. 1 \in 1..(n + 1) /\ 1 + 1 = 2
    BY <1>1
  <2> QED BY <2>1, <2>2
<1>5. g[1] = ParseStep(g, all, 1)
  <2>1. g = [i \in 1..(Len(all) + 1) |-> ParseStep(g, all, i)]
    BY <1>3 DEF Parses
  <2>2. 1 \in 1..(Len(all) + 1)
    BY <1>1
  <2> HIDE DEF all
  <2> QED BY <2>1, <2>2
<1>6. Parse(<<>>) = Parsed(<<>>)
  <2>1. PICK h : Parses(h, <<>>) /\ Parse(<<>>) = h[1]
    BY EmptySeq, ParseDefined
  <2>2. h = [i \in 1..(0 + 1) |-> ParseStep(h, <<>>, i)] /\ ParseStep(h, <<>>, 1) = Parsed(<<>>)
    BY <2>1, EmptySeq DEF Parses, ParseStep
  <2>3. h[1] = Parsed(<<>>)
    BY <2>2
  <2> QED BY <2>1, <2>3
<1>7. Unpaired(all, 1) <=> ts = <<>> \/ ts[1] = EmptyToken
  BY <1>1 DEF Unpaired
<1>8. ~(1 > Len(all)) /\ 1 + 1 = 2
  BY <1>1
<1> HIDE DEF all, n
<1>9. ~IsEntry(EmptyToken)
  BY DEF IsEntry, EmptyToken
<1>10. t = EmptyToken => Parse(all) = Parse(ts)
  BY <1>1, <1>2, <1>3, <1>4, <1>5, <1>8 DEF ParseStep
<1>11. t # EmptyToken /\ ~IsEntry(t) => Parse(all) = Malformed
  BY <1>1, <1>3, <1>5, <1>8 DEF ParseStep
<1>12. IsEntry(t) /\ ~Renamed(t.xy) => Parse(all) = Add(EntryOf(t, NoOrig), Parse(ts))
  BY <1>1, <1>2, <1>3, <1>4, <1>5, <1>8, <1>9 DEF ParseStep, Add, EntryOf, Cons
<1>13. IsEntry(t) /\ Renamed(t.xy) /\ (ts = <<>> \/ ts[1] = EmptyToken) => Parse(all) = Malformed
  BY <1>1, <1>3, <1>5, <1>7, <1>8, <1>9 DEF ParseStep
<1> QED BY <1>6, <1>10, <1>11, <1>12, <1>13 DEF all

\* A rename is parsed from two tokens.
LEMMA ParsePair ==
  ASSUME NEW t \in Token, NEW o \in Token, o # EmptyToken, NEW ts \in Seq(Token),
         IsEntry(t), Renamed(t.xy)
  PROVE  Parse(Cons(t, Cons(o, ts))) = Add(EntryOf(t, o), Parse(ts))
<1> DEFINE n == Len(ts)
           rest == Cons(o, ts)
           all == Cons(t, rest)
<1>1. n \in Nat /\ rest \in Seq(Token) /\ Len(rest) = n + 1 /\ rest[1] = o
  BY ConsProperties
<1>2. all \in Seq(Token) /\ Len(all) = n + 2 /\ all[1] = t /\ all[2] = o
  <2> HIDE DEF rest, n
  <2>1. all \in Seq(Token) /\ Len(all) = Len(rest) + 1 /\ all[1] = t /\ all[2] = rest[1]
    <3>1. rest # <<>>
      BY <1>1
    <3>2. all[2] = rest[1]
      BY <1>1, <3>1, SecondOfCons
    <3>3. all \in Seq(Token) /\ Len(all) = Len(rest) + 1 /\ all[1] = t
      BY <1>1, ConsProperties
    <3> QED BY <3>2, <3>3
  <2> HIDE DEF all
  <2> QED BY <1>1, <2>1
<1>3. PICK f : Parses(f, ts) /\ Parse(ts) = f[1]
  BY ParseDefined
<1>4. PICK h : Parses(h, rest)
  BY <1>1, ParseDefined
<1>5. PICK g : Parses(g, all) /\ Parse(all) = g[1]
  BY <1>2, ParseDefined
<1>6. g[3] = f[1]
  <2>1. \A i \in 1..(n + 1) : h[i + 1] = f[i]
    BY <1>3, <1>4, ParseShifts
  <2> HIDE DEF rest
  <2>2. \A i \in 1..(Len(rest) + 1) : g[i + 1] = h[i]
    BY <1>1, <1>4, <1>5, ParseShifts
  <2>3. 1 \in 1..(n + 1) /\ 2 \in 1..(Len(rest) + 1) /\ 1 + 1 = 2 /\ 2 + 1 = 3
    BY <1>1
  <2> QED BY <2>1, <2>2, <2>3
<1> HIDE DEF rest, n, all
<1>7. g[1] = ParseStep(g, all, 1)
  <2>1. g = [i \in 1..(Len(all) + 1) |-> ParseStep(g, all, i)]
    BY <1>5 DEF Parses
  <2>2. 1 \in 1..(Len(all) + 1)
    BY <1>1, <1>2
  <2> QED BY <2>1, <2>2
<1>8. ~Unpaired(all, 1) /\ ~(1 > Len(all)) /\ 1 + 1 = 2 /\ 1 + 2 = 3
  BY <1>1, <1>2 DEF Unpaired
<1>9. t # EmptyToken
  BY DEF IsEntry, EmptyToken
<1>10. Parse(all) = Add(EntryOf(t, o), Parse(ts))
  BY <1>2, <1>3, <1>5, <1>6, <1>7, <1>8, <1>9 DEF ParseStep, Add, EntryOf, Cons
<1> QED BY <1>10 DEF all, rest

\* A sequence that is not empty has a first element and others after it.
LEMMA IsCons ==
  ASSUME NEW S, NEW s \in Seq(S), s # <<>>
  PROVE  \E e \in S : \E rest \in Seq(S) : s = Cons(e, rest) /\ Len(rest) + 1 = Len(s)
<1>1. Head(s) \in S /\ Tail(s) \in Seq(S) /\ Len(Tail(s)) = Len(s) - 1 /\ Len(s) \in Nat
  BY HeadTailProperties
<1>2. s = <<Head(s)>> \o Tail(s)
  BY HeadTailProperties
<1>3. s = Cons(Head(s), Tail(s)) /\ Len(Tail(s)) + 1 = Len(s)
  BY <1>1, <1>2 DEF Cons
<1> QED BY <1>1, <1>3

\* The tokens of an entry in front of others.
LEMMA WrittenFirst ==
  ASSUME NEW r \in Record, NEW ts \in Seq(Token)
  PROVE  LET entry == [xy |-> r.xy, name |-> r.name]
         IN Join(Written(r), ts) = IF r.orig = NoOrig THEN Cons(entry, ts)
                                   ELSE Cons(entry, Cons(r.orig, ts))
<1> DEFINE entry == [xy |-> r.xy, name |-> r.name]
<1>1. entry \in Token /\ r.orig \in Token
  BY WrittenType DEF Record
<1> HIDE DEF entry
<1>2. <<entry>> \o (<<r.orig>> \o ts) = <<entry, r.orig>> \o ts
  <2>1. (<<entry>> \o <<r.orig>>) \o ts = <<entry>> \o (<<r.orig>> \o ts)
    BY <1>1, ConcatAssociative
  <2>2. <<entry>> \o <<r.orig>> = <<entry, r.orig>>
    <3> DEFINE a == <<entry>> \o <<r.orig>>
               b == <<entry, r.orig>>
    <3>1. a \in Seq(Token) /\ Len(a) = 2 /\ a[1] = entry /\ a[2] = r.orig
      BY <1>1
    <3>2. b \in Seq(Token) /\ Len(b) = 2 /\ b[1] = entry /\ b[2] = r.orig
      BY <1>1
    <3> HIDE DEF a, b
    <3>3. \A i \in 1..Len(a) : a[i] = b[i]
      BY <3>1, <3>2
    <3>4. a = b
      BY <3>1, <3>2, <3>3, SeqEqual
    <3> QED BY <3>4 DEF a, b
  <2> QED BY <2>1, <2>2
<1>3. Written(r) = IF r.orig = NoOrig THEN <<entry>> ELSE <<entry, r.orig>>
  BY DEF Written, entry
<1> QED BY <1>2, <1>3 DEF Join, Cons, entry

\* A listing is a first entry with an old path if its code says so, and a
\* listing.
LEMMA ListingCons ==
  ASSUME NEW r \in Record, NEW rs \in Seq(Record), FirstColumnOnly
  PROVE  IsListing(Cons(r, rs)) <=> IsListing(rs) /\ (r.orig # NoOrig <=> Renamed(r.xy))
<1> DEFINE all == Cons(r, rs)
           n == Len(rs)
           fits(q) == (q.orig # NoOrig) = GivesOldPath(q.xy)
<1>1. n \in Nat /\ DOMAIN rs = 1..n
  OBVIOUS
<1>2. DOMAIN all = 1..(n + 1) /\ all[1] = r
  <2>1. all \in Seq(Record) /\ Len(all) = n + 1 /\ all[1] = r
    BY ConsProperties
  <2> HIDE DEF all
  <2> QED BY <2>1
<1>3. \A i \in 1..n : all[i + 1] = rs[i]
  BY ConsProperties
<1> HIDE DEF all, n
<1>4. (\A i \in 1..(n + 1) : fits(all[i])) <=> fits(r) /\ \A i \in 1..n : fits(rs[i])
  <2> HIDE DEF fits
  <2>1. ASSUME \A i \in 1..(n + 1) : fits(all[i]) PROVE fits(r) /\ \A i \in 1..n : fits(rs[i])
    <3>1. ASSUME NEW i \in 1..n PROVE fits(rs[i])
      <4>1. i + 1 \in 1..(n + 1) /\ fits(all[i + 1])
        BY <1>1, <2>1
      <4> QED BY <4>1, <1>3
    <3> QED BY <3>1, <2>1, <1>1, <1>2
  <2>2. ASSUME fits(r) /\ \A i \in 1..n : fits(rs[i]), NEW i \in 1..(n + 1) PROVE fits(all[i])
    <3>1. CASE i = 1
      BY <3>1, <2>2, <1>2
    <3>2. CASE i # 1
      <4>1. i - 1 \in 1..n /\ (i - 1) + 1 = i
        BY <3>2, <1>1
      <4>2. all[(i - 1) + 1] = rs[i - 1]
        BY <4>1, <1>3
      <4> QED BY <4>1, <4>2, <2>2
    <3> QED BY <3>1, <3>2
  <2> QED BY <2>1, <2>2
<1>5. fits(r) <=> (r.orig # NoOrig <=> Renamed(r.xy))
  <2>1. r.xy[2] \notin {"R", "C"}
    BY DEF FirstColumnOnly, Record
  <2>2. GivesOldPath(r.xy) <=> Renamed(r.xy)
    BY <2>1 DEF GivesOldPath, Renamed
  <2>3. GivesOldPath(r.xy) \in BOOLEAN
    BY DEF GivesOldPath
  <2> QED BY <2>2, <2>3
<1>6. IsListing(rs) <=> \A i \in 1..n : fits(rs[i])
  BY <1>1 DEF IsListing
<1>7. IsListing(all) <=> \A i \in 1..(n + 1) : fits(all[i])
  BY <1>2 DEF IsListing
<1> HIDE DEF fits
<1> QED BY <1>4, <1>5, <1>6, <1>7 DEF all

\* Of the tokens of an entry in front of others, the parser makes the entry and
\* what it makes of the others.
LEMMA WrittenIsParsed ==
  ASSUME NEW r \in Record, NEW ts \in Seq(Token), r.orig # NoOrig <=> Renamed(r.xy)
  PROVE  Parse(Join(Written(r), ts)) = Add(r, Parse(ts))
<1> DEFINE entry == [xy |-> r.xy, name |-> r.name]
<1>1. entry \in Token /\ entry # EmptyToken /\ r.orig \in Token
  BY WrittenType DEF Record
<1>2. IsEntry(entry) /\ entry.xy = r.xy
  BY CodesAssumption DEF IsEntry, Record
<1>3. EntryOf(entry, r.orig) = r
  BY DEF EntryOf, Record
<1> HIDE DEF entry
<1>4. CASE r.orig = NoOrig
  <2>1. Join(Written(r), ts) = Cons(entry, ts)
    BY <1>4, WrittenFirst DEF entry
  <2> QED BY <2>1, <1>1, <1>2, <1>3, <1>4, ParseCons
<1>5. CASE r.orig # NoOrig
  <2>1. Join(Written(r), ts) = Cons(entry, Cons(r.orig, ts))
    BY <1>5, WrittenFirst DEF entry
  <2>2. r.orig # EmptyToken /\ Renamed(entry.xy)
    BY <1>2, <1>5 DEF NoOrig
  <2>3. Parse(Cons(entry, Cons(r.orig, ts))) = Add(EntryOf(entry, r.orig), Parse(ts))
    BY <1>1, <1>2, <2>2, ParsePair
  <2> QED BY <2>1, <2>3, <1>3
<1> QED BY <1>4, <1>5

\* A listing is read back.
LEMMA ListingReadBack ==
  ASSUME FirstColumnOnly, NEW records \in Seq(Record)
  PROVE  ParseReadsBack(records)
<1> DEFINE Back(rs) == Parse(Join(Encode(rs), <<EmptyToken>>)) = Parsed(rs)
           Wrong == {n \in Nat : \E rs \in Seq(Record) : Len(rs) = n /\ IsListing(rs) /\ ~Back(rs)}
<1>1. EmptyToken \in Token /\ <<EmptyToken>> \in Seq(Token)
  BY DEF Token, EmptyToken
<1>2. Wrong = {}
  <2> SUFFICES ASSUME Wrong # {} PROVE FALSE
    OBVIOUS
  <2>1. PICK n \in Wrong : \A m \in Wrong : n <= m
    <3>1. Wrong \subseteq Nat
      OBVIOUS
    <3> HIDE DEF Wrong
    <3> QED BY <3>1, LeastNumber
  <2>2. PICK rs \in Seq(Record) : Len(rs) = n /\ IsListing(rs) /\ ~Back(rs)
    BY <2>1
  <2>3. CASE rs = <<>>
    <3>1. Encode(rs) = <<>>
      BY <2>3 DEF Encode, FlattenSeq
    <3>2. Join(<<>>, <<EmptyToken>>) = Cons(EmptyToken, <<>>)
      BY <1>1 DEF Join, Cons
    <3>3. Parse(Cons(EmptyToken, <<>>)) = Parsed(<<>>)
      BY <1>1, EmptySeq, ParseCons
    <3> QED BY <3>1, <3>2, <3>3, <2>2, <2>3
  <2>4. CASE rs # <<>>
    <3>1. PICK r \in Record, rest \in Seq(Record) : rs = Cons(r, rest) /\ Len(rest) + 1 = Len(rs)
      BY <2>4, IsCons
    <3>2. IsListing(rest) /\ (r.orig # NoOrig <=> Renamed(r.xy))
      BY <3>1, <2>2, ListingCons
    <3>3. Back(rest)
      <4>1. Len(rest) \in Nat /\ ~(n <= Len(rest))
        BY <3>1, <2>2
      <4> HIDE DEF Back
      <4>2. Len(rest) \notin Wrong
        <5> HIDE DEF Wrong
        <5> QED BY <4>1, <2>1
      <4> QED BY <4>1, <4>2, <3>2
    <3>4. Join(Encode(rs), <<EmptyToken>>) = Join(Written(r), Join(Encode(rest), <<EmptyToken>>))
      <4>1. Encode(rest) \in Seq(Token) /\ Encode(rs) = Join(Written(r), Encode(rest))
        BY <3>1, EncodeCons
      <4>2. Written(r) \in Seq(Token)
        BY WrittenType
      <4>3. \A a, b, c \in Seq(Token) : Join(Join(a, b), c) = Join(a, Join(b, c))
        BY StreamsJoin DEF IsText
      <4> DEFINE Q == Seq(Token)
      <4> HIDE DEF Q
      <4>4. /\ Encode(rest) \in Q /\ Written(r) \in Q /\ <<EmptyToken>> \in Q
            /\ \A a, b, c \in Q : Join(Join(a, b), c) = Join(a, Join(b, c))
        BY <4>1, <4>2, <4>3, <1>1 DEF Q
      <4> QED BY <4>1, <4>4
    <3>5. Join(Encode(rest), <<EmptyToken>>) \in Seq(Token)
      <4>1. Encode(rest) \in Seq(Token)
        BY <3>1, EncodeCons
      <4> QED BY <4>1, <1>1, StreamsJoin DEF IsText
    <3>6. Parse(Join(Encode(rs), <<EmptyToken>>)) = Add(r, Parsed(rest))
      <4>1. Parse(Join(Written(r), Join(Encode(rest), <<EmptyToken>>))) =
              Add(r, Parse(Join(Encode(rest), <<EmptyToken>>)))
        BY <3>2, <3>5, WrittenIsParsed
      <4> QED BY <4>1, <3>3, <3>4
    <3>7. Add(r, Parsed(rest)) = Parsed(rs)
      BY <3>1 DEF Add, Parsed
    <3> QED BY <3>6, <3>7, <2>2
  <2> QED BY <2>3, <2>4
<1>3. IsListing(records) => Back(records)
  <2>1. Len(records) \in Nat
    OBVIOUS
  <2> HIDE DEF Back
  <2> QED BY <2>1, <1>2
<1> QED BY <1>3 DEF ParseReadsBack, Join

\* A result accounts for a stream.
Accounts(result, ts) ==
  result.ok => /\ result.records \in Seq(Record) /\ IsListing(result.records)
               /\ Encode(result.records) = NonEmpty(ts)

\* So does a result with one entry more, for a stream with its tokens in front.
LEMMA AddAccounts ==
  ASSUME FirstColumnOnly, NEW r \in Record, r.orig # NoOrig <=> Renamed(r.xy),
         NEW ts, NEW rest, NEW result, Accounts(result, rest),
         NonEmpty(ts) = Join(Written(r), NonEmpty(rest))
  PROVE  Accounts(Add(r, result), ts)
<1>1. CASE ~result.ok
  BY <1>1 DEF Accounts, Add, Malformed
<1>2. CASE result.ok
  <2> DEFINE rs == result.records
             all == Cons(r, rs)
  <2>1. rs \in Seq(Record) /\ IsListing(rs) /\ Encode(rs) = NonEmpty(rest)
    BY <1>2 DEF Accounts
  <2> HIDE DEF rs
  <2>2. all \in Seq(Record) /\ IsListing(all)
    BY <2>1, ConsProperties, ListingCons
  <2>3. Encode(all) = NonEmpty(ts)
    BY <2>1, EncodeCons
  <2>4. Add(r, result).records = all
    BY <1>2 DEF Add, Parsed, rs
  <2> QED BY <2>2, <2>3, <2>4 DEF Accounts
<1> QED BY <1>1, <1>2

\* A stream that is parsed is accounted for.
LEMMA StreamAccountedFor ==
  ASSUME FirstColumnOnly, NEW tokens \in Seq(Token)
  PROVE  ParseIsExact(tokens)
<1> DEFINE Wrong == {n \in Nat : \E ts \in Seq(Token) : Len(ts) = n /\ ~Accounts(Parse(ts), ts)}
<1>1. Wrong = {}
  <2> SUFFICES ASSUME Wrong # {} PROVE FALSE
    OBVIOUS
  <2>1. PICK n \in Wrong : \A m \in Wrong : n <= m
    <3>1. Wrong \subseteq Nat
      OBVIOUS
    <3> HIDE DEF Wrong
    <3> QED BY <3>1, LeastNumber
  <2>2. PICK ts \in Seq(Token) : Len(ts) = n /\ ~Accounts(Parse(ts), ts)
    BY <2>1
  <2>3. ASSUME NEW rest \in Seq(Token), Len(rest) < n PROVE Accounts(Parse(rest), rest)
    <3>1. Len(rest) \in Nat /\ ~(n <= Len(rest))
      BY <2>2, <2>3
    <3>2. Len(rest) \notin Wrong
      <4> HIDE DEF Wrong
      <4> QED BY <3>1, <2>1
    <3> QED BY <3>1, <3>2
  <2> HIDE DEF Wrong
  <2>4. CASE ts = <<>>
    <3>1. Encode(<<>>) = <<>> /\ NonEmpty(<<>>) = <<>>
      BY DEF Encode, NonEmpty, FlattenSeq
    <3>2. Parse(ts) = Parsed(<<>>)
      BY <2>4, <2>2, ParseCons DEF Token, EmptyToken
    <3>3. <<>> \in Seq(Record) /\ IsListing(<<>>)
      BY DEF IsListing
    <3> QED BY <3>1, <3>2, <3>3, <2>2, <2>4 DEF Accounts, Parsed
  <2>5. CASE ts # <<>>
    <3>1. PICK t \in Token, rest \in Seq(Token) : ts = Cons(t, rest) /\ Len(rest) + 1 = Len(ts)
      BY <2>5, IsCons
    <3>2. Accounts(Parse(rest), rest) /\ NonEmpty(rest) \in Seq(Token)
      <4>1. Len(rest) \in Nat /\ Len(rest) < n
        BY <3>1, <2>2
      <4> QED BY <4>1, <2>3, NonEmptyCons DEF Token, EmptyToken
    <3>3. NonEmpty(ts) = Join(IF t = EmptyToken THEN <<>> ELSE <<t>>, NonEmpty(rest))
      BY <3>1, NonEmptyCons
    <3>4. t # EmptyToken => NonEmpty(ts) = Cons(t, NonEmpty(rest))
      BY <3>3 DEF Join, Cons
    <3>5. CASE t = EmptyToken
      <4>1. NonEmpty(ts) = NonEmpty(rest)
        BY <3>2, <3>3, <3>5, StreamsJoin DEF IsText
      <4>2. Parse(ts) = Parse(rest)
        BY <3>1, <3>5, ParseCons
      <4> QED BY <4>1, <4>2, <3>2, <2>2 DEF Accounts
    <3>6. CASE t # EmptyToken /\ ~IsEntry(t)
      <4>1. Parse(ts) = Malformed
        BY <3>1, <3>6, ParseCons
      <4> QED BY <4>1, <2>2 DEF Accounts, Malformed
    <3>7. CASE IsEntry(t) /\ ~Renamed(t.xy)
      <4> DEFINE r == EntryOf(t, NoOrig)
      <4>1. r \in Record /\ (r.orig # NoOrig <=> Renamed(r.xy)) /\ t # EmptyToken
        BY <3>7 DEF EntryOf, Record, Token, NoOrig, EmptyToken, IsEntry
      <4>2. [xy |-> r.xy, name |-> r.name] = t
        BY DEF EntryOf, Token, EmptyToken
      <4>3. Join(Written(r), NonEmpty(rest)) = Cons(t, NonEmpty(rest))
        BY <4>1, <4>2, <3>2, WrittenFirst DEF EntryOf
      <4>4. Parse(ts) = Add(r, Parse(rest))
        BY <3>1, <3>7, ParseCons
      <4> HIDE DEF r
      <4>5. Accounts(Add(r, Parse(rest)), ts)
        BY <4>1, <4>3, <3>2, <3>4, AddAccounts
      <4> QED BY <4>4, <4>5, <2>2
    <3>8. CASE IsEntry(t) /\ Renamed(t.xy) /\ (rest = <<>> \/ rest[1] = EmptyToken)
      <4>1. Parse(ts) = Malformed
        BY <3>1, <3>8, ParseCons
      <4> QED BY <4>1, <2>2 DEF Accounts, Malformed
    <3>9. CASE IsEntry(t) /\ Renamed(t.xy) /\ ~(rest = <<>> \/ rest[1] = EmptyToken)
      <4>1. PICK o \in Token, others \in Seq(Token) :
                   rest = Cons(o, others) /\ Len(others) + 1 = Len(rest)
        BY <3>9, IsCons
      <4>2. o # EmptyToken
        <5>1. rest[1] = o
          BY <4>1, ConsProperties
        <5> QED BY <5>1, <3>9
      <4>3. Accounts(Parse(others), others) /\ NonEmpty(others) \in Seq(Token)
        <5>1. Len(others) \in Nat /\ Len(others) < n
          BY <4>1, <3>1, <2>2
        <5> QED BY <5>1, <2>3, NonEmptyCons DEF Token, EmptyToken
      <4>4. NonEmpty(rest) = Cons(o, NonEmpty(others))
        <5>1. NonEmpty(rest) = Join(IF o = EmptyToken THEN <<>> ELSE <<o>>, NonEmpty(others))
          BY <4>1, NonEmptyCons
        <5> QED BY <5>1, <4>2 DEF Join, Cons
      <4> DEFINE r == EntryOf(t, o)
      <4>5. r \in Record /\ (r.orig # NoOrig <=> Renamed(r.xy)) /\ t # EmptyToken
        BY <3>9, <4>2 DEF EntryOf, Record, Token, NoOrig, EmptyToken, IsEntry
      <4>6. [xy |-> r.xy, name |-> r.name] = t /\ r.orig = o
        BY DEF EntryOf, Token, EmptyToken
      <4>7. Join(Written(r), NonEmpty(others)) = Cons(t, Cons(o, NonEmpty(others)))
        BY <4>2, <4>3, <4>5, <4>6, WrittenFirst DEF NoOrig
      <4>8. Parse(ts) = Add(r, Parse(others))
        BY <3>1, <3>9, <4>1, <4>2, ParsePair
      <4> HIDE DEF r
      <4>9. Accounts(Add(r, Parse(others)), ts)
        BY <4>3, <4>4, <4>5, <4>7, <3>4, AddAccounts
      <4> QED BY <4>8, <4>9, <2>2
    <3>10. ~IsEntry(EmptyToken)
      BY DEF IsEntry, EmptyToken
    <3> QED BY <3>5, <3>6, <3>7, <3>8, <3>9, <3>10
  <2> QED BY <2>4, <2>5
<1>2. Accounts(Parse(tokens), tokens)
  <2>1. Len(tokens) \in Nat
    OBVIOUS
  <2> QED BY <2>1, <1>1
<1> QED BY <1>2 DEF ParseIsExact, Accounts

\* Streams are sequences of tokens, and listings of records.
ParserType ==
  /\ input.of = "stream" => input.tokens \in Seq(Token)
  /\ input.of = "listing" => input.records \in Seq(Record)

LEMMA ParserInputType == Spec => []ParserType
<1>1. Init => ParserType
  <2>1. input \in Streams => input.tokens \in Seq(Token) /\ input.of = "stream"
    BY InputsAssumption, SeqDef DEF Streams, Seqs
  <2>2. input \in Listings => input.records \in Seq(Record) /\ input.of = "listing"
    BY InputsAssumption, SeqDef DEF Listings, Seqs
  <2>3. input \in Heads \cup Trees \cup Searches => input.of \notin {"stream", "listing"}
    BY DEF Heads, Trees, Searches
  <2>4. input \in Deletions => input.of \notin {"stream", "listing"}
    BY InputsAssumption
  <2> QED BY <2>1, <2>2, <2>3, <2>4 DEF Init, ParserType
<1>2. ParserType /\ [Next]_input => ParserType'
  BY DEF Next, ParserType
<1> QED BY <1>1, <1>2, PTL DEF Spec

\* If git writes old paths for codes with R or C in the first column only, a
\* stream that the parser accepts, of any length, is accounted for token by
\* token, and what it makes of it is a listing.
THEOREM StreamsAccountedFor ==
  ASSUME FirstColumnOnly
  PROVE  Spec => []ParserExact
<1>1. ParserType => ParserExact
  BY StreamAccountedFor DEF ParserType, ParserExact
<1> QED BY <1>1, ParserInputType, PTL

\* Likewise any listing that git writes is read back as it is.
THEOREM ListingsReadBack ==
  ASSUME FirstColumnOnly
  PROVE  Spec => []ParserReadsBack
<1>1. ParserType => ParserReadsBack
  BY ListingReadBack DEF ParserType, ParserReadsBack
<1> QED BY <1>1, ParserInputType, PTL
====
