---- MODULE SearchProofs ----
(***************************************************************************)
(* Theorems about the bounded search for a clone, for directory trees,      *)
(* depths and limits of any size.                                           *)
(***************************************************************************)
EXTENDS AlgorithmsProofs, FiniteSetTheorems

\* Every parent comes before its entries.
IsTree(parent) == parent \in [Entries -> 0..MaxEntries] /\ \A e \in Entries : parent[e] < e

\* What is computed from the roots of a tree down: for a root from base, for
\* another entry from what its parent has.
DownSteps(base, step, S) == base \in [Entries -> S] /\ step \in [Entries -> [S -> S]]
GoesDown(f, parent, base, step, S, n) ==
  /\ f \in [1..n -> S]
  /\ \A e \in 1..n : f[e] = IF parent[e] = 0 THEN base[e] ELSE step[e][f[parent[e]]]

\* Parents come first, so this is defined.
LEMMA DownDefined ==
  ASSUME NEW parent, IsTree(parent), NEW S, NEW base, NEW step, DownSteps(base, step, S)
  PROVE  \E f : GoesDown(f, parent, base, step, S, MaxEntries)
<1> DEFINE Done == {n \in 0..MaxEntries : \E f : GoesDown(f, parent, base, step, S, n)}
<1>0. MaxEntries \in Nat /\ Entries = 1..MaxEntries
  BY BoundsAssumption DEF Entries
<1>1. 0 \in Done
  <2> DEFINE g == [e \in 1..0 |-> {}]
  <2>1. GoesDown(g, parent, base, step, S, 0)
    BY DEF GoesDown
  <2> HIDE DEF g
  <2> QED BY <2>1, <1>0
<1>2. ASSUME NEW n \in 0..MaxEntries, n \in Done, n < MaxEntries PROVE n + 1 \in Done
  <2>1. PICK f : GoesDown(f, parent, base, step, S, n)
    BY <1>2
  <2> DEFINE last == n + 1
             new == IF parent[last] = 0 THEN base[last] ELSE step[last][f[parent[last]]]
             g == [e \in 1..last |-> IF e = last THEN new ELSE f[e]]
  <2>2. last \in Entries /\ parent[last] \in 0..n
    BY <1>0, <1>2 DEF IsTree
  <2>3. new \in S
    BY <2>1, <2>2 DEF GoesDown, DownSteps
  <2>4. g \in [1..last -> S]
    <3> HIDE DEF new
    <3> QED BY <2>1, <2>3 DEF GoesDown
  <2>5. \A e \in 1..n : g[e] = f[e]
    OBVIOUS
  <2>6. g[last] = IF parent[last] = 0 THEN base[last] ELSE step[last][g[parent[last]]]
    <3>1. g[last] = new
      BY <1>2
    <3>2. parent[last] # 0 => g[parent[last]] = f[parent[last]]
      BY <2>2, <2>5
    <3> HIDE DEF g
    <3> QED BY <3>1, <3>2
  <2>7. ASSUME NEW e \in 1..n
        PROVE  g[e] = IF parent[e] = 0 THEN base[e] ELSE step[e][g[parent[e]]]
    <3>1. parent[e] \in 0..n /\ (parent[e] # 0 => parent[e] \in 1..n)
      BY <1>0, <1>2 DEF IsTree
    <3>2. f[e] = IF parent[e] = 0 THEN base[e] ELSE step[e][f[parent[e]]]
      BY <2>1 DEF GoesDown
    <3> HIDE DEF g
    <3> QED BY <2>5, <3>1, <3>2
  <2>8. GoesDown(g, parent, base, step, S, n + 1)
    <3>1. \A e \in 1..last : e \in 1..n \/ e = last
      BY <1>2
    <3> HIDE DEF g
    <3> QED BY <2>4, <2>6, <2>7, <3>1 DEF GoesDown
  <2> HIDE DEF g
  <2> QED BY <2>8, <1>0, <1>2
<1>3. MaxEntries \in Done
  <2> HIDE DEF Done
  <2>1. \A n \in 0..MaxEntries : n \in Done /\ n < MaxEntries => n + 1 \in Done
    BY <1>2
  <2>2. 0..MaxEntries \subseteq Done
    BY <1>0, <1>1, <2>1, Stepwise
  <2> QED BY <2>2, <1>0
<1> QED BY <1>3

----
\* up gives the entries on the way to the root, depth their number without the
\* entry, and open tells whether a walk gets into the entry.
Ups(up, parent) ==
  up = [e \in Entries |-> {e} \cup IF parent[e] = 0 THEN {} ELSE up[parent[e]]]
Depths(depth, parent) ==
  depth = [e \in Entries |-> IF parent[e] = 0 THEN 0 ELSE depth[parent[e]] + 1]
Opens(open, parent, entry) ==
  open = [e \in Entries |-> IF parent[e] = 0 THEN entry[e].kind \in {"dir", "repo"}
                            ELSE entry[e].kind = "dir" /\ open[parent[e]]]

\* There are sets of entries above, ...
LEMMA UpDefined ==
  ASSUME NEW parent, IsTree(parent)
  PROVE  \E up : Ups(up, parent)
<1> DEFINE S == SUBSET Entries
           base == [e \in Entries |-> {e}]
           step == [e \in Entries |-> [s \in S |-> {e} \cup s]]
<1>1. DownSteps(base, step, S)
  BY DEF DownSteps
<1>2. PICK f : GoesDown(f, parent, base, step, S, MaxEntries)
  <2> HIDE DEF S, base, step
  <2> QED BY <1>1, DownDefined
<1>3. f \in [Entries -> S]
  BY <1>2 DEF GoesDown, Entries
<1>4. ASSUME NEW e \in Entries
      PROVE  f[e] = {e} \cup IF parent[e] = 0 THEN {} ELSE f[parent[e]]
  <2>1. f[e] = IF parent[e] = 0 THEN base[e] ELSE step[e][f[parent[e]]]
    BY <1>2 DEF GoesDown, Entries
  <2>2. parent[e] # 0 => f[parent[e]] \in S
    <3>1. parent[e] # 0 => parent[e] \in Entries
      BY BoundsAssumption DEF IsTree, Entries
    <3> HIDE DEF S
    <3> QED BY <1>3, <3>1
  <2> QED BY <2>1, <2>2
<1>5. f = [e \in Entries |-> {e} \cup IF parent[e] = 0 THEN {} ELSE f[parent[e]]]
  <2>1. f = [e \in Entries |-> f[e]]
    BY <1>3
  <2> HIDE DEF S
  <2> QED BY <2>1, <1>4
<1> QED BY <1>5 DEF Ups

\* There are numbers of entries above, ...
LEMMA DepthDefined ==
  ASSUME NEW parent, IsTree(parent)
  PROVE  \E depth : Depths(depth, parent) /\ depth \in [Entries -> Nat]
<1> DEFINE base == [e \in Entries |-> 0]
           step == [e \in Entries |-> [s \in Nat |-> s + 1]]
<1>1. DownSteps(base, step, Nat)
  BY DEF DownSteps
<1>2. PICK f : GoesDown(f, parent, base, step, Nat, MaxEntries)
  <2> HIDE DEF base, step
  <2> QED BY <1>1, DownDefined
<1>3. f \in [Entries -> Nat]
  BY <1>2 DEF GoesDown, Entries
<1>4. ASSUME NEW e \in Entries
      PROVE  f[e] = IF parent[e] = 0 THEN 0 ELSE f[parent[e]] + 1
  <2>1. f[e] = IF parent[e] = 0 THEN base[e] ELSE step[e][f[parent[e]]]
    BY <1>2 DEF GoesDown, Entries
  <2>2. parent[e] # 0 => f[parent[e]] \in Nat
    <3>1. parent[e] # 0 => parent[e] \in Entries
      BY BoundsAssumption DEF IsTree, Entries
    <3> QED BY <1>3, <3>1
  <2> QED BY <2>1, <2>2
<1>5. f = [e \in Entries |-> IF parent[e] = 0 THEN 0 ELSE f[parent[e]] + 1]
  <2>1. f = [e \in Entries |-> f[e]]
    BY <1>3
  <2> QED BY <2>1, <1>4
<1> QED BY <1>3, <1>5 DEF Depths

\* ... and the entries that a walk gets into.
LEMMA OpenDefined ==
  ASSUME NEW parent, IsTree(parent), NEW entry
  PROVE  \E open : Opens(open, parent, entry)
<1> DEFINE base == [e \in Entries |-> entry[e].kind \in {"dir", "repo"}]
           step == [e \in Entries |-> [s \in BOOLEAN |-> entry[e].kind = "dir" /\ s]]
<1>1. DownSteps(base, step, BOOLEAN)
  BY DEF DownSteps
<1>2. PICK f : GoesDown(f, parent, base, step, BOOLEAN, MaxEntries)
  <2> HIDE DEF base, step
  <2> QED BY <1>1, DownDefined
<1>3. f \in [Entries -> BOOLEAN]
  BY <1>2 DEF GoesDown, Entries
<1>4. ASSUME NEW e \in Entries
      PROVE  f[e] = IF parent[e] = 0 THEN entry[e].kind \in {"dir", "repo"}
                    ELSE entry[e].kind = "dir" /\ f[parent[e]]
  <2>1. f[e] = IF parent[e] = 0 THEN base[e] ELSE step[e][f[parent[e]]]
    BY <1>2 DEF GoesDown, Entries
  <2>2. parent[e] # 0 => f[parent[e]] \in BOOLEAN
    <3>1. parent[e] # 0 => parent[e] \in Entries
      BY BoundsAssumption DEF IsTree, Entries
    <3> QED BY <1>3, <3>1
  <2> QED BY <2>1, <2>2
<1>5. f = [e \in Entries |-> IF parent[e] = 0 THEN entry[e].kind \in {"dir", "repo"}
                             ELSE entry[e].kind = "dir" /\ f[parent[e]]]
  <2>1. f = [e \in Entries |-> f[e]]
    BY <1>3
  <2> QED BY <2>1, <1>4
<1> QED BY <1>5 DEF Opens

\* What the entries of a tree have above them.
LEMMA UpsProperties ==
  ASSUME NEW parent, IsTree(parent), NEW up, Ups(up, parent)
  PROVE  /\ \A e \in Entries : e \in up[e] /\ up[e] \subseteq 1..e
         /\ \A b \in Entries : \A a \in up[b] : a \in Entries /\ up[a] \subseteq up[b]
         /\ \A b \in Entries : \A a \in up[b] :
              a # b => parent[b] \in Entries /\ a \in up[parent[b]]
<1>0. MaxEntries \in Nat /\ Entries = 1..MaxEntries
  BY BoundsAssumption DEF Entries
<1>1. \A e \in Entries : up[e] = {e} \cup IF parent[e] = 0 THEN {} ELSE up[parent[e]]
  BY DEF Ups
<1>2. \A e \in Entries : parent[e] # 0 => parent[e] \in Entries /\ parent[e] < e
  BY <1>0 DEF IsTree
<1> DEFINE Fine(b) == /\ up[b] \subseteq 1..b
                      /\ \A a \in up[b] : up[a] \subseteq up[b]
           Wrong == {b \in Entries : ~Fine(b)}
<1>3. Wrong = {}
  <2> SUFFICES ASSUME Wrong # {} PROVE FALSE
    OBVIOUS
  <2>1. PICK b \in Wrong : \A c \in Wrong : b <= c
    <3>1. Wrong \subseteq Nat
      BY <1>0
    <3> HIDE DEF Wrong
    <3> QED BY <3>1, LeastNumber
  <2>2. CASE parent[b] = 0
    <3>1. up[b] = {b}
      BY <1>1, <2>2
    <3>2. Fine(b)
      BY <3>1, <1>0
    <3> QED BY <3>2
  <2>3. CASE parent[b] # 0
    <3>1. parent[b] \in Entries /\ parent[b] < b /\ up[b] = {b} \cup up[parent[b]]
      BY <1>1, <1>2, <2>3
    <3>2. Fine(parent[b])
      <4> HIDE DEF Fine
      <4> QED BY <1>0, <2>1, <3>1
    <3>3. up[b] \subseteq 1..b
      BY <3>1, <3>2, <1>0
    <3>4. ASSUME NEW a \in up[b] PROVE up[a] \subseteq up[b]
      BY <3>1, <3>2
    <3>5. Fine(b)
      BY <3>3, <3>4
    <3> QED BY <3>5
  <2> QED BY <2>2, <2>3
<1>4. \A b \in Entries : up[b] \subseteq 1..b /\ \A a \in up[b] : up[a] \subseteq up[b]
  BY <1>3
<1>5. \A b \in Entries : \A a \in up[b] : a \in Entries
  BY <1>4, <1>0
<1>6. \A b \in Entries : \A a \in up[b] : a # b => parent[b] \in Entries /\ a \in up[parent[b]]
  BY <1>1, <1>2
<1> QED BY <1>1, <1>4, <1>5, <1>6

Above(parent) == CHOOSE up : Ups(up, parent)
Depth(parent) == CHOOSE depth : Depths(depth, parent)
Open(parent, entry) == CHOOSE open : Opens(open, parent, entry)

\* In a forest as a full walk numbers it, what is below an entry follows it
\* without a gap.
LEMMA NoGap ==
  ASSUME NEW parent \in Forests
  PROVE  /\ IsTree(parent) /\ Ups(Above(parent), parent)
         /\ \A x \in Entries : \A c \in Above(parent)[x] : \A y \in c..x : c \in Above(parent)[y]
<1>0. MaxEntries \in Nat /\ Entries = 1..MaxEntries
  BY BoundsAssumption DEF Entries
<1>1. IsTree(parent)
  BY DEF Forests, IsTree
<1> DEFINE up == Above(parent)
<1>2. Ups(up, parent)
  BY <1>1, UpDefined DEF Above
<1>3. \A e \in Entries \ {1} : parent[e] \in up[e - 1] \cup {0}
  BY DEF Forests, Ups, Above
<1> HIDE DEF up
<1>4. ASSUME NEW x \in Entries, NEW c \in up[x], c # x
      PROVE  x - 1 \in Entries /\ c \in up[x - 1]
  <2>1. c \in 1..x /\ parent[x] \in Entries /\ c \in up[parent[x]]
    BY <1>1, <1>2, <1>4, UpsProperties
  <2>2. x # 1 /\ x - 1 \in Entries
    BY <1>0, <1>4, <2>1
  <2>3. parent[x] \in up[x - 1]
    BY <1>0, <1>3, <2>1, <2>2
  <2>4. up[parent[x]] \subseteq up[x - 1]
    BY <1>1, <1>2, <2>2, <2>3, UpsProperties
  <2> QED BY <2>1, <2>2, <2>4
<1>5. ASSUME NEW x \in Entries, NEW c \in up[x], NEW y \in c..x PROVE c \in up[y]
  <2> DEFINE Kept == {k \in 0..(x - c) : c \in up[x - k]}
  <2>1. c \in 1..x
    BY <1>1, <1>2, UpsProperties
  <2>2. 0 \in Kept /\ x - c \in Nat
    BY <1>0, <2>1
  <2>3. ASSUME NEW k \in 0..(x - c), k \in Kept, k < x - c PROVE k + 1 \in Kept
    <3>1. x - k \in Entries /\ c # x - k /\ c \in up[x - k] /\ (x - k) - 1 = x - (k + 1)
      BY <1>0, <2>1, <2>3
    <3>2. c \in up[(x - k) - 1]
      BY <3>1, <1>4
    <3>3. c \in up[x - (k + 1)]
      BY <3>1, <3>2
    <3>4. k + 1 \in 0..(x - c)
      BY <2>3, <2>2
    <3> QED BY <3>3, <3>4
  <2>4. 0..(x - c) \subseteq Kept
    <3> HIDE DEF Kept
    <3>1. \A k \in 0..(x - c) : k \in Kept /\ k < x - c => k + 1 \in Kept
      BY <2>3
    <3> QED BY <2>2, <3>1, Stepwise
  <2>5. x - y \in 0..(x - c) /\ x - (x - y) = y
    BY <1>0, <2>1
  <2> QED BY <2>4, <2>5
<1>6. \A x \in Entries : \A c \in up[x] : \A y \in c..x : c \in up[y]
  BY <1>5
<1> QED BY <1>1, <1>2, <1>6 DEF up

\* Below an entry is deeper, and a walk gets there only through open entries.
LEMMA BelowProperties ==
  ASSUME NEW parent \in Forests, NEW entry
  PROVE  \A x \in Entries : \A a \in Above(parent)[x] :
           /\ Depth(parent)[a] \in Nat /\ Depth(parent)[a] <= Depth(parent)[x]
           /\ Open(parent, entry)[x] => Open(parent, entry)[a]
           /\ a # x => Depth(parent)[a] < Depth(parent)[x]
<1> DEFINE up == Above(parent)
           depth == Depth(parent)
           open == Open(parent, entry)
<1>0. MaxEntries \in Nat /\ Entries = 1..MaxEntries
  BY BoundsAssumption DEF Entries
<1>t. IsTree(parent) /\ Ups(up, parent)
  BY NoGap
<1>u. Depths(depth, parent) /\ Opens(open, parent, entry)
  BY <1>t, DepthDefined, OpenDefined DEF Depth, Open
<1> HIDE DEF up, depth, open
<1>1. \A x \in Entries : depth[x] = IF parent[x] = 0 THEN 0 ELSE depth[parent[x]] + 1
  BY <1>u DEF Depths
<1>2. \A x \in Entries : parent[x] # 0 => (open[x] => open[parent[x]])
  BY <1>u DEF Opens
<1> DEFINE Fine(x) == /\ depth[x] \in Nat
                      /\ \A a \in up[x] : /\ depth[a] \in Nat /\ depth[a] <= depth[x]
                                          /\ (open[x] => open[a])
                                          /\ a # x => depth[a] < depth[x]
           Wrong == {x \in Entries : ~Fine(x)}
<1>3. Wrong = {}
  <2> SUFFICES ASSUME Wrong # {} PROVE FALSE
    OBVIOUS
  <2>1. PICK x \in Wrong : \A c \in Wrong : x <= c
    <3>1. Wrong \subseteq Nat
      BY <1>0
    <3> HIDE DEF Wrong
    <3> QED BY <3>1, LeastNumber
  <2>2. CASE parent[x] = 0
    <3>1. up[x] = {x} /\ depth[x] = 0
      BY <2>2, <1>1, <1>t DEF Ups
    <3>2. Fine(x)
      BY <3>1
    <3> QED BY <3>2
  <2>3. CASE parent[x] # 0
    <3>1. parent[x] \in Entries /\ parent[x] < x
      BY <1>0, <1>t, <2>3 DEF IsTree
    <3>2. Fine(parent[x])
      <4> HIDE DEF Fine
      <4> QED BY <1>0, <2>1, <3>1
    <3>3. up[x] = {x} \cup up[parent[x]]
      BY <2>3, <1>t DEF Ups
    <3>4. depth[x] = depth[parent[x]] + 1 /\ depth[parent[x]] \in Nat /\ (open[x] => open[parent[x]])
      BY <1>1, <1>2, <2>3, <3>2
    <3>5. ASSUME NEW a \in up[x]
          PROVE  /\ depth[a] \in Nat /\ depth[a] <= depth[x] /\ (open[x] => open[a])
                 /\ a # x => depth[a] < depth[x]
      <4>1. CASE a = x
        BY <3>4, <4>1
      <4>2. CASE a # x
        <5>1. a \in up[parent[x]]
          BY <3>3, <4>2
        <5>2. depth[a] \in Nat /\ depth[a] <= depth[parent[x]] /\ (open[parent[x]] => open[a])
          BY <3>2, <5>1
        <5> QED BY <3>4, <5>2
      <4> QED BY <4>1, <4>2
    <3>6. Fine(x)
      BY <3>4, <3>5
    <3> QED BY <3>6
  <2> QED BY <2>2, <2>3
<1> QED BY <1>3 DEF up, depth, open

\* What a walk gives, and whether an entry matches.
Reasons == {None, "remote_url", "root_commits"}
Results == [root: Entries \cup {None}, by: Reasons, checked: 0..MaxCandidates]

FirstOf(X, m) == {x \in X : x <= m}

\* r is what a search of the repositories X, in order, gives if c others have been
\* looked at before: it has looked at X as far as m.
Finds(r, c, X, match) ==
  \E m \in X \cup {0} :
    /\ r.checked = c + Cardinality(FirstOf(X, m))
    /\ \A x \in FirstOf(X, m) : x # m => match[x] = None
    /\ IF r.root = None
       THEN /\ r.by = None /\ (m \in X => match[m] = None)
            /\ FirstOf(X, m) = X \/ r.checked = MaxCandidates
       ELSE r.root = m /\ m \in X /\ r.by = match[m] /\ r.by # None

\* Counting is safe: there are finitely many entries.
LEMMA FirstProperties ==
  ASSUME NEW X, X \subseteq Entries, NEW m \in Nat
  PROVE  /\ IsFiniteSet(X) /\ IsFiniteSet(FirstOf(X, m)) /\ FirstOf(X, m) \subseteq X
         /\ Cardinality(X) \in Nat /\ Cardinality(FirstOf(X, m)) \in Nat
         /\ Cardinality(FirstOf(X, m)) <= Cardinality(X)
<1>1. IsFiniteSet(Entries)
  <2>1. IsFiniteSet(1..MaxEntries)
    BY BoundsAssumption, FS_Interval
  <2> QED BY <2>1 DEF Entries
<1>2. IsFiniteSet(X)
  BY <1>1, FS_Subset
<1>3. FirstOf(X, m) \subseteq X
  BY DEF FirstOf
<1>4. IsFiniteSet(FirstOf(X, m)) /\ Cardinality(FirstOf(X, m)) <= Cardinality(X)
  BY <1>2, <1>3, FS_Subset
<1>5. Cardinality(X) \in Nat
  BY <1>2, FS_CardinalityType
<1>6. Cardinality(FirstOf(X, m)) \in Nat
  BY <1>4, FS_CardinalityType
<1> QED BY <1>2, <1>3, <1>4, <1>5, <1>6

\* Nothing is looked at where there is nothing.
LEMMA NothingFound ==
  ASSUME NEW c \in 0..MaxCandidates, NEW match
  PROVE  Missed(c) \in Results /\ Finds(Missed(c), c, {}, match)
<1>1. FirstOf({}, 0) = {} /\ Cardinality({}) = 0
  BY FS_EmptySet DEF FirstOf
<1>2. Missed(c) \in Results
  BY DEF Missed, Walked, Results, Reasons
<1>3. Missed(c).checked = c /\ Missed(c).root = None /\ Missed(c).by = None
  BY DEF Missed, Walked
<1>4. c + Cardinality(FirstOf({}, 0)) = c
  BY <1>1
<1> QED BY <1>1, <1>2, <1>3, <1>4 DEF Finds

\* One repository
LEMMA OneFound ==
  ASSUME NEW c \in 0..MaxCandidates, c < MaxCandidates, NEW e \in Entries,
         NEW match, match[e] \in Reasons, NEW r,
         r = Walked(IF match[e] = None THEN None ELSE e, match[e], c + 1)
  PROVE  r \in Results /\ Finds(r, c, {e}, match)
<1>0. MaxCandidates \in Nat /\ e \in Nat /\ e # 0
  BY BoundsAssumption DEF Entries
<1>1. FirstOf({e}, e) = {e} /\ Cardinality({e}) = 1
  <2>1. Cardinality({e}) = 1
    BY FS_Singleton
  <2>2. FirstOf({e}, e) = {e}
    BY <1>0 DEF FirstOf
  <2> QED BY <2>1, <2>2
<1>2. r \in Results
  BY <1>0 DEF Results, Walked
<1>3. r.root = (IF match[e] = None THEN None ELSE e) /\ r.by = match[e] /\ r.checked = c + 1
  BY DEF Walked
<1>4. e # None
  BY <1>0, NoneAssumption
<1>5. r.checked = c + Cardinality(FirstOf({e}, e))
  BY <1>1, <1>3
<1> QED BY <1>1, <1>2, <1>3, <1>4, <1>5 DEF Finds

\* A search of X and then of Y, unless it has ended, is one of both if X comes
\* before Y.
LEMMA FindsBoth ==
  ASSUME NEW c \in 0..MaxCandidates, NEW X, X \subseteq Entries, NEW Y, Y \subseteq Entries,
         \A x \in X : \A y \in Y : x < y, NEW match,
         NEW r \in Results, Finds(r, c, X, match), NEW s \in Results,
         IF Ended(r) THEN s = r ELSE Finds(s, r.checked, Y, match)
  PROVE  Finds(s, c, X \cup Y, match)
<1>0. MaxCandidates \in Nat /\ \A e \in Entries : e \in Nat /\ e # 0
  BY BoundsAssumption DEF Entries
<1>1. PICK m \in X \cup {0} :
        /\ r.checked = c + Cardinality(FirstOf(X, m))
        /\ \A x \in FirstOf(X, m) : x # m => match[x] = None
        /\ IF r.root = None
           THEN /\ r.by = None /\ (m \in X => match[m] = None)
                /\ FirstOf(X, m) = X \/ r.checked = MaxCandidates
           ELSE r.root = m /\ m \in X /\ r.by = match[m] /\ r.by # None
  BY DEF Finds
<1>2. m \in Nat /\ FirstOf(X \cup Y, m) = FirstOf(X, m)
  BY <1>0 DEF FirstOf
<1>3. CASE Ended(r) /\ (r.root # None \/ r.checked = MaxCandidates)
  <2>1. s = r
    BY <1>3
  <2>2. m \in (X \cup Y) \cup {0}
    OBVIOUS
  <2>3. r.root = None => (m \in X \cup Y => m \in X)
    BY <1>0
  <2> QED BY <1>1, <1>2, <1>3, <2>1, <2>2, <2>3 DEF Finds
<1>4. CASE ~Ended(r)
  <2>1. r.root = None /\ FirstOf(X, m) = X
    BY <1>1, <1>4, <1>0 DEF Ended
  <2>2. PICK n \in Y \cup {0} :
          /\ s.checked = r.checked + Cardinality(FirstOf(Y, n))
          /\ \A x \in FirstOf(Y, n) : x # n => match[x] = None
          /\ IF s.root = None
             THEN /\ s.by = None /\ (n \in Y => match[n] = None)
                  /\ FirstOf(Y, n) = Y \/ s.checked = MaxCandidates
             ELSE s.root = n /\ n \in Y /\ s.by = match[n] /\ s.by # None
    BY <1>4 DEF Finds
  <2>3. \A x \in X : match[x] = None
    BY <1>1, <2>1
  <2>4. CASE n \in Y
    <3>1. n \in Nat /\ FirstOf(X \cup Y, n) = X \cup FirstOf(Y, n) /\ X \cap FirstOf(Y, n) = {}
      BY <1>0, <2>4 DEF FirstOf
    <3>2. Cardinality(X \cup FirstOf(Y, n)) = Cardinality(X) + Cardinality(FirstOf(Y, n))
      <4>1. IsFiniteSet(X) /\ IsFiniteSet(FirstOf(Y, n))
        BY <3>1, FirstProperties
      <4>2. Cardinality(X) \in Nat /\ Cardinality(FirstOf(Y, n)) \in Nat
        BY <3>1, FirstProperties
      <4>3. Cardinality(X \cap FirstOf(Y, n)) = 0
        BY <3>1, FS_EmptySet
      <4>4. Cardinality(X \cup FirstOf(Y, n))
              = Cardinality(X) + Cardinality(FirstOf(Y, n)) - Cardinality(X \cap FirstOf(Y, n))
        BY <4>1, FS_Union
      <4> QED BY <4>2, <4>3, <4>4
    <3>3. s.checked = c + Cardinality(FirstOf(X \cup Y, n))
      <4>1. Cardinality(X) \in Nat /\ Cardinality(FirstOf(Y, n)) \in Nat
        BY <3>1, FirstProperties
      <4>2. Cardinality(FirstOf(X \cup Y, n)) = Cardinality(X) + Cardinality(FirstOf(Y, n))
        BY <3>1, <3>2
      <4>3. r.checked = c + Cardinality(X)
        BY <1>1, <2>1
      <4>4. s.checked = r.checked + Cardinality(FirstOf(Y, n))
        BY <2>2
      <4> QED BY <4>1, <4>2, <4>3, <4>4
    <3>4. \A x \in FirstOf(X \cup Y, n) : x # n => match[x] = None
      BY <2>2, <2>3, <3>1
    <3>5. FirstOf(Y, n) = Y => FirstOf(X \cup Y, n) = X \cup Y
      BY <3>1
    <3> QED BY <2>2, <2>4, <3>3, <3>4, <3>5 DEF Finds
  <2>5. CASE n = 0
    <3>1. FirstOf(Y, n) = {} /\ n \notin Y
      <4>1. \A y \in Y : y \in Nat /\ y # 0
        BY <1>0
      <4>2. \A y \in Y : ~(y <= n)
        BY <2>5, <4>1
      <4> QED BY <2>5, <4>1, <4>2 DEF FirstOf
    <3>2. s.root = None /\ s.by = None /\ (Y = {} \/ s.checked = MaxCandidates)
      BY <2>2, <3>1
    <3>3. s.checked = r.checked
      BY <2>2, <3>1, FS_EmptySet DEF Results
    <3>4. s.checked = c + Cardinality(FirstOf(X \cup Y, m))
      BY <1>1, <1>2, <3>3
    <3>5. m \in X \cup Y => match[m] = None
      BY <1>0, <1>1, <2>3
    <3>6. FirstOf(X \cup Y, m) = X \cup Y \/ s.checked = MaxCandidates
      BY <1>2, <2>1, <3>2
    <3>7. \A x \in FirstOf(X \cup Y, m) : x # m => match[x] = None
      BY <1>1, <1>2
    <3>8. m \in (X \cup Y) \cup {0}
      OBVIOUS
    <3> QED BY <3>2, <3>4, <3>5, <3>6, <3>7, <3>8 DEF Finds
  <2> QED BY <2>4, <2>5
<1>5. Ended(r) => r.root # None \/ r.checked = MaxCandidates
  BY <1>0 DEF Ended, Results
<1> QED BY <1>3, <1>4, <1>5

\* What the entry e adds to a walk of d, next being the walks one level down.
Pass(parent, entry, peer, next, depth, d, e, r) ==
  IF parent[e] # d \/ Ended(r) THEN r
  ELSE CheckEntry(entry, peer, e, depth, r, next[e][r.checked])

Looks(look, parent, entry, peer, next, depth, d, c) ==
  look = [e \in 0..MaxEntries |->
            IF e = 0 THEN Missed(c)
            ELSE IF parent[e] # d \/ Ended(look[e - 1]) THEN look[e - 1]
            ELSE CheckEntry(entry, peer, e, depth, look[e - 1], next[e][look[e - 1].checked])]

Look(parent, entry, peer, next, depth, d, c) ==
  CHOOSE look : Looks(look, parent, entry, peer, next, depth, d, c)

\* The walks of a level
IsLevel(next) == next \in [Entries -> [0..MaxCandidates -> Results]]
Level(parent, entry, peer, next, depth) ==
  [d \in Entries |-> [c \in 0..MaxCandidates |->
     Look(parent, entry, peer, next, depth, d, c)[MaxEntries]]]
Walks(walk, parent, entry, peer) ==
  walk = [depth \in 0..MaxDepth |-> Level(parent, entry, peer, walk[depth + 1], depth)]

\* The walks of the model are these.
LEMMA WalkIsChosen ==
  ASSUME NEW parent, NEW entry, NEW peer
  PROVE  WalkDir(parent, entry, peer) = CHOOSE walk : Walks(walk, parent, entry, peer)
BY DEF WalkDir, Walks, Level, Look, Looks

\* An entry that matches does so for a reason.
LEMMA CheckType ==
  ASSUME NEW any, NEW peer
  PROVE  CheckRepo(any, peer) \in Reasons
BY DEF CheckRepo, MatchIdentity, Reasons

\* Each entry leaves a result, with no count beyond the limit.
LEMMA PassType ==
  ASSUME NEW parent, NEW entry, NEW peer, NEW next, NEW depth, NEW d, NEW e \in Entries,
         NEW r \in Results, depth < MaxDepth => IsLevel(next)
  PROVE  Pass(parent, entry, peer, next, depth, d, e, r) \in Results
<1>0. MaxCandidates \in Nat /\ r.checked \in 0..MaxCandidates
  BY BoundsAssumption DEF Results
<1>1. CASE parent[e] # d \/ Ended(r)
  BY <1>1 DEF Pass
<1>2. CASE ~(parent[e] # d \/ Ended(r))
  <2>1. Pass(parent, entry, peer, next, depth, d, e, r)
          = CheckEntry(entry, peer, e, depth, r, next[e][r.checked])
    BY <1>2 DEF Pass
  <2>2. CASE entry[e].kind = "repo"
    <3>1. r.checked + 1 \in 0..MaxCandidates
      BY <1>0, <1>2 DEF Ended
    <3>2. CheckRepo(entry[e], peer) \in Reasons
      BY CheckType
    <3> QED BY <2>1, <2>2, <3>1, <3>2 DEF CheckEntry, Walked, Results
  <2>3. CASE entry[e].kind # "repo" /\ entry[e].kind = "dir" /\ depth < MaxDepth
    <3>1. next[e][r.checked] \in Results
      BY <1>0, <2>3 DEF IsLevel
    <3>2. CheckEntry(entry, peer, e, depth, r, next[e][r.checked])
            = [next[e][r.checked] EXCEPT !.checked = next[e][r.checked].checked]
      BY <2>3 DEF CheckEntry, NewCount
    <3>3. CheckEntry(entry, peer, e, depth, r, next[e][r.checked]) = next[e][r.checked]
      BY <3>1, <3>2 DEF Results
    <3> QED BY <2>1, <3>1, <3>3
  <2>4. CASE entry[e].kind # "repo" /\ ~(entry[e].kind = "dir" /\ depth < MaxDepth)
    BY <2>1, <2>4 DEF CheckEntry
  <2> QED BY <2>2, <2>3, <2>4
<1> QED BY <1>1, <1>2

\* A walk goes from entry to entry.
LEMMA LooksPass ==
  ASSUME NEW parent, NEW entry, NEW peer, NEW next, NEW depth, NEW d, NEW c, NEW look,
         Looks(look, parent, entry, peer, next, depth, d, c)
  PROVE  /\ look = [e \in 0..MaxEntries |-> look[e]] /\ look[0] = Missed(c)
         /\ \A e \in Entries : look[e] = Pass(parent, entry, peer, next, depth, d, e, look[e - 1])
<1>0. MaxEntries \in Nat /\ Entries = 1..MaxEntries
  BY BoundsAssumption DEF Entries
<1>1. look = [e \in 0..MaxEntries |-> look[e]] /\ look[0] = Missed(c)
  BY <1>0 DEF Looks
<1>2. ASSUME NEW e \in Entries
      PROVE  look[e] = Pass(parent, entry, peer, next, depth, d, e, look[e - 1])
  <2>1. e \in 0..MaxEntries /\ e # 0
    BY <1>0
  <2>2. look[e] = IF e = 0 THEN Missed(c)
                  ELSE IF parent[e] # d \/ Ended(look[e - 1]) THEN look[e - 1]
                  ELSE CheckEntry(entry, peer, e, depth, look[e - 1], next[e][look[e - 1].checked])
    BY <2>1 DEF Looks
  <2> QED BY <2>1, <2>2 DEF Pass
<1> QED BY <1>1, <1>2

\* So a walk of one directory has results throughout.
LEMMA LookType ==
  ASSUME NEW parent, NEW entry, NEW peer, NEW next, NEW depth, NEW d,
         NEW c \in 0..MaxCandidates, depth < MaxDepth => IsLevel(next), NEW look,
         Looks(look, parent, entry, peer, next, depth, d, c)
  PROVE  \A e \in 0..MaxEntries : look[e] \in Results
<1>0. MaxEntries \in Nat /\ Entries = 1..MaxEntries
  BY BoundsAssumption DEF Entries
<1> DEFINE Typed == {e \in 0..MaxEntries : look[e] \in Results}
<1>1. 0 \in Typed
  BY <1>0, LooksPass, NothingFound
<1>2. ASSUME NEW e \in 0..MaxEntries, e \in Typed, e < MaxEntries PROVE e + 1 \in Typed
  <2>1. e + 1 \in Entries /\ (e + 1) - 1 = e
    BY <1>0, <1>2
  <2>2. look[e + 1] = Pass(parent, entry, peer, next, depth, d, e + 1, look[e])
    BY <2>1, LooksPass
  <2>3. look[e] \in Results
    BY <1>2
  <2>4. look[e + 1] \in Results
    BY <2>1, <2>2, <2>3, PassType
  <2> QED BY <2>1, <2>4, <1>0
<1>3. 0..MaxEntries \subseteq Typed
  <2> HIDE DEF Typed
  <2>1. \A e \in 0..MaxEntries : e \in Typed /\ e < MaxEntries => e + 1 \in Typed
    BY <1>2
  <2> QED BY <1>0, <1>1, <2>1, Stepwise
<1> QED BY <1>3

\* The walk of one directory is defined.
LEMMA LookDefined ==
  ASSUME NEW parent, NEW entry, NEW peer, NEW next, NEW depth, NEW d,
         NEW c \in 0..MaxCandidates, depth < MaxDepth => IsLevel(next)
  PROVE  Looks(Look(parent, entry, peer, next, depth, d, c),
               parent, entry, peer, next, depth, d, c)
<1>0. MaxEntries \in Nat /\ Entries = 1..MaxEntries
  BY BoundsAssumption DEF Entries
<1> DEFINE step == [e \in 1..MaxEntries |-> [r \in Results |->
                      Pass(parent, entry, peer, next, depth, d, e, r)]]
<1>1. Steps(step, MaxEntries, Results)
  <2>1. \A e \in 1..MaxEntries : \A r \in Results :
          Pass(parent, entry, peer, next, depth, d, e, r) \in Results
    BY <1>0, PassType
  <2> QED BY <2>1 DEF Steps
<1>2. Missed(c) \in Results
  BY NothingFound
<1>3. PICK f : Loops(f, step, MaxEntries, Results, Missed(c))
  <2> HIDE DEF step
  <2> QED BY <1>0, <1>1, <1>2, LoopDefined
<1>4. f \in [0..MaxEntries -> Results] /\ f[0] = Missed(c)
  BY <1>3 DEF Loops
<1>5. ASSUME NEW e \in 1..MaxEntries
      PROVE  f[e] = Pass(parent, entry, peer, next, depth, d, e, f[e - 1])
  <2>1. f[e] = step[e][f[e - 1]]
    BY <1>3 DEF Loops
  <2>2. f[e - 1] \in Results
    BY <1>0, <1>4
  <2> QED BY <2>1, <2>2
<1>6. ASSUME NEW e \in 0..MaxEntries
      PROVE  f[e] = IF e = 0 THEN Missed(c)
                    ELSE IF parent[e] # d \/ Ended(f[e - 1]) THEN f[e - 1]
                    ELSE CheckEntry(entry, peer, e, depth, f[e - 1], next[e][f[e - 1].checked])
  <2>1. e = 0 \/ e \in 1..MaxEntries
    BY <1>0
  <2>2. CASE e = 0
    BY <2>2, <1>4
  <2>3. CASE e \in 1..MaxEntries
    <3>1. e # 0
      BY <2>3
    <3> QED BY <2>3, <3>1, <1>5 DEF Pass
  <2> QED BY <2>1, <2>2, <2>3
<1>7. f = [e \in 0..MaxEntries |-> f[e]]
  BY <1>4
<1>8. Looks(f, parent, entry, peer, next, depth, d, c)
  <2> HIDE DEF step
  <2> QED BY <1>6, <1>7 DEF Looks
<1> QED BY <1>8 DEF Look

\* So are the walks of a level if those of the level below are.
LEMMA LevelType ==
  ASSUME NEW parent, NEW entry, NEW peer, NEW next, NEW depth, depth < MaxDepth => IsLevel(next)
  PROVE  IsLevel(Level(parent, entry, peer, next, depth))
<1>1. ASSUME NEW d \in Entries, NEW c \in 0..MaxCandidates
      PROVE  Look(parent, entry, peer, next, depth, d, c)[MaxEntries] \in Results
  <2>1. Looks(Look(parent, entry, peer, next, depth, d, c),
              parent, entry, peer, next, depth, d, c)
    BY LookDefined
  <2>2. MaxEntries \in 0..MaxEntries
    BY BoundsAssumption
  <2> QED BY <2>1, <2>2, LookType
<1> QED BY <1>1 DEF Level, IsLevel

\* At the last level a walk does not depend on what is below.
LEMMA LastLevel ==
  ASSUME NEW parent, NEW entry, NEW peer, NEW next, NEW other
  PROVE  Level(parent, entry, peer, next, MaxDepth) = Level(parent, entry, peer, other, MaxDepth)
<1>0. MaxEntries \in Nat /\ Entries = 1..MaxEntries /\ ~(MaxDepth < MaxDepth)
  BY BoundsAssumption DEF Entries
<1>1. ASSUME NEW d \in Entries, NEW c \in 0..MaxCandidates
      PROVE  Look(parent, entry, peer, next, MaxDepth, d, c)[MaxEntries]
               = Look(parent, entry, peer, other, MaxDepth, d, c)[MaxEntries]
  <2> DEFINE f == Look(parent, entry, peer, next, MaxDepth, d, c)
             g == Look(parent, entry, peer, other, MaxDepth, d, c)
             Same == {e \in 0..MaxEntries : f[e] = g[e]}
  <2>1. /\ Looks(f, parent, entry, peer, next, MaxDepth, d, c)
        /\ Looks(g, parent, entry, peer, other, MaxDepth, d, c)
    BY <1>0, LookDefined
  <2> HIDE DEF f, g
  <2>2. 0 \in Same
    BY <1>0, <2>1, LooksPass
  <2>3. ASSUME NEW e \in 0..MaxEntries, e \in Same, e < MaxEntries PROVE e + 1 \in Same
    <3>1. e + 1 \in Entries /\ (e + 1) - 1 = e
      BY <1>0, <2>3
    <3>2. /\ f[e + 1] = Pass(parent, entry, peer, next, MaxDepth, d, e + 1, f[e])
          /\ g[e + 1] = Pass(parent, entry, peer, other, MaxDepth, d, e + 1, g[e])
      BY <2>1, <3>1, LooksPass
    <3>3. f[e] = g[e]
      BY <2>3
    <3>4. f[e + 1] = g[e + 1]
      BY <1>0, <3>2, <3>3 DEF Pass, CheckEntry
    <3> QED BY <1>0, <3>1, <3>4
  <2>4. 0..MaxEntries \subseteq Same
    <3> HIDE DEF Same
    <3>1. \A e \in 0..MaxEntries : e \in Same /\ e < MaxEntries => e + 1 \in Same
      BY <2>3
    <3> QED BY <1>0, <2>2, <3>1, Stepwise
  <2>5. f[MaxEntries] = g[MaxEntries]
    BY <1>0, <2>4
  <2> QED BY <2>5 DEF f, g
<1> QED BY <1>1 DEF Level

\* Level by level from the last one up, all walks are defined.
LEMMA WalkDefined ==
  ASSUME NEW parent, NEW entry, NEW peer
  PROVE  Walks(WalkDir(parent, entry, peer), parent, entry, peer)
<1>0. MaxDepth \in Nat
  BY BoundsAssumption
<1> DEFINE S == [Entries -> [0..MaxCandidates -> Results]]
           Up(next, depth) == Level(parent, entry, peer, next, depth)
           step == [i \in 1..(MaxDepth + 1) |-> [next \in S |-> Up(next, MaxDepth + 1 - i)]]
           none == [d \in Entries |-> [c \in 0..MaxCandidates |-> Missed(c)]]
<1>1. ASSUME NEW next \in S, NEW depth PROVE Up(next, depth) \in S
  <2>1. IsLevel(next)
    BY DEF IsLevel
  <2>2. IsLevel(Up(next, depth))
    BY <2>1, LevelType
  <2> QED BY <2>2 DEF IsLevel
<1>2. none \in S
  <2>1. \A c \in 0..MaxCandidates : Missed(c) \in Results
    BY NothingFound
  <2> QED BY <2>1
<1> HIDE DEF S, none
<1>3. Steps(step, MaxDepth + 1, S)
  <2> HIDE DEF Up
  <2>1. \A i \in 1..(MaxDepth + 1) : \A next \in S : Up(next, MaxDepth + 1 - i) \in S
    BY <1>1
  <2> QED BY <2>1 DEF Steps
<1>4. PICK f : Loops(f, step, MaxDepth + 1, S, none)
  <2> HIDE DEF step
  <2> QED BY <1>0, <1>2, <1>3, LoopDefined
<1>5. ASSUME NEW i \in 1..(MaxDepth + 1) PROVE f[i - 1] \in S /\ f[i] = Up(f[i - 1], MaxDepth + 1 - i)
  <2> HIDE DEF Up
  <2>1. f[i - 1] \in S
    BY <1>0, <1>4 DEF Loops
  <2>2. f[i] = step[i][f[i - 1]]
    BY <1>4 DEF Loops
  <2> QED BY <2>1, <2>2
<1> DEFINE walk == [depth \in 0..MaxDepth |-> f[MaxDepth + 1 - depth]]
<1>6. ASSUME NEW depth \in 0..MaxDepth PROVE walk[depth] = Up(walk[depth + 1], depth)
  <2>1. /\ MaxDepth + 1 - depth \in 1..(MaxDepth + 1)
        /\ (MaxDepth + 1 - depth) - 1 = MaxDepth - depth
        /\ MaxDepth + 1 - (MaxDepth + 1 - depth) = depth
    BY <1>0
  <2>2. f[MaxDepth + 1 - depth] = Up(f[MaxDepth - depth], depth)
    <3> HIDE DEF Up
    <3> QED BY <2>1, <1>5
  <2>3. CASE depth = MaxDepth
    <3>1. Up(f[MaxDepth - depth], depth) = Up(walk[depth + 1], depth)
      <4> HIDE DEF walk
      <4> QED BY <2>3, LastLevel
    <3> HIDE DEF Up
    <3> QED BY <2>2, <3>1
  <2>4. CASE depth # MaxDepth
    <3>1. depth + 1 \in 0..MaxDepth /\ MaxDepth + 1 - (depth + 1) = MaxDepth - depth
      BY <1>0, <2>4
    <3>2. walk[depth + 1] = f[MaxDepth - depth]
      BY <3>1
    <3> HIDE DEF Up
    <3> QED BY <2>2, <3>2
  <2> QED BY <2>3, <2>4
<1>7. Walks(walk, parent, entry, peer)
  <2>1. walk = [depth \in 0..MaxDepth |-> walk[depth]]
    OBVIOUS
  <2> HIDE DEF walk
  <2> QED BY <1>6, <2>1 DEF Walks
<1> HIDE DEF walk
<1>8. \E w : Walks(w, parent, entry, peer)
  BY <1>7
<1> QED BY <1>8, WalkIsChosen

\* They give results at every level.
LEMMA WalkType ==
  ASSUME NEW parent, NEW entry, NEW peer, NEW walk, Walks(walk, parent, entry, peer)
  PROVE  \A depth \in 0..MaxDepth :
           /\ IsLevel(walk[depth])
           /\ walk[depth] = Level(parent, entry, peer, walk[depth + 1], depth)
<1>0. MaxDepth \in Nat
  BY BoundsAssumption
<1>1. \A depth \in 0..MaxDepth : walk[depth] = Level(parent, entry, peer, walk[depth + 1], depth)
  BY DEF Walks
<1> DEFINE Typed == {n \in 0..MaxDepth : IsLevel(walk[MaxDepth - n])}
<1>2. 0 \in Typed
  <2>1. IsLevel(Level(parent, entry, peer, walk[MaxDepth + 1], MaxDepth))
    BY <1>0, LevelType
  <2> QED BY <1>0, <1>1, <2>1
<1>3. ASSUME NEW n \in 0..MaxDepth, n \in Typed, n < MaxDepth PROVE n + 1 \in Typed
  <2>1. MaxDepth - (n + 1) \in 0..MaxDepth /\ (MaxDepth - (n + 1)) + 1 = MaxDepth - n /\ n + 1 \in 0..MaxDepth
    BY <1>0, <1>3
  <2>2. IsLevel(walk[MaxDepth - n])
    BY <1>3
  <2>3. IsLevel(Level(parent, entry, peer, walk[MaxDepth - n], MaxDepth - (n + 1)))
    BY <2>2, LevelType
  <2>4. walk[MaxDepth - (n + 1)] = Level(parent, entry, peer, walk[MaxDepth - n], MaxDepth - (n + 1))
    BY <1>1, <2>1
  <2> QED BY <2>1, <2>3, <2>4
<1>4. 0..MaxDepth \subseteq Typed
  <2> HIDE DEF Typed
  <2>1. \A n \in 0..MaxDepth : n \in Typed /\ n < MaxDepth => n + 1 \in Typed
    BY <1>3
  <2> QED BY <1>0, <1>2, <2>1, Stepwise
<1>5. ASSUME NEW depth \in 0..MaxDepth PROVE IsLevel(walk[depth])
  <2>1. MaxDepth - depth \in 0..MaxDepth /\ MaxDepth - (MaxDepth - depth) = depth
    BY <1>0
  <2>2. IsLevel(walk[MaxDepth - (MaxDepth - depth)])
    BY <1>4, <2>1
  <2> QED BY <2>1, <2>2
<1> QED BY <1>1, <1>5

\* The reachable repositories that are or are below e, below d, and below the
\* entries of d up to e; the search directories are the entries of 0.
Sub(parent, entry, e) == {x \in Reachable(parent, entry) : e \in Above(parent)[x]}
Under(parent, entry, d) == Sub(parent, entry, d) \ {d}
Upto(parent, entry, d, e) ==
  {x \in Reachable(parent, entry) : \E a \in 1..e : parent[a] = d /\ a \in Above(parent)[x]}

\* The reachable repositories, in terms of depth and openness.
LEMMA ReachableIs ==
  ASSUME NEW parent, NEW entry
  PROVE  /\ Reachable(parent, entry) \subseteq Entries
         /\ \A x \in Entries : x \in Reachable(parent, entry) <=>
              /\ parent[x] # 0 /\ entry[x].kind = "repo"
              /\ Depth(parent)[x] <= MaxDepth + 1 /\ Open(parent, entry)[parent[x]]
BY DEF Reachable, Depth, Depths, Open, Opens

\* What a walk looks at between two entries is what the second one adds, and
\* comes after what it has looked at before.
LEMMA UptoNext ==
  ASSUME NEW parent \in Forests, NEW entry, NEW d \in 0..MaxEntries, NEW e \in Entries
  PROVE  /\ parent[e] # d => Upto(parent, entry, d, e) = Upto(parent, entry, d, e - 1)
         /\ parent[e] = d =>
              /\ Upto(parent, entry, d, e) = Upto(parent, entry, d, e - 1) \cup Sub(parent, entry, e)
              /\ \A x \in Upto(parent, entry, d, e - 1) : \A y \in Sub(parent, entry, e) : x < y
<1>0. MaxEntries \in Nat /\ Entries = 1..MaxEntries
  BY BoundsAssumption DEF Entries
<1>1. 1..e = 1..(e - 1) \cup {e}
  BY <1>0
<1>2. parent[e] # d => Upto(parent, entry, d, e) = Upto(parent, entry, d, e - 1)
  BY <1>1 DEF Upto
<1>3. parent[e] = d =>
        Upto(parent, entry, d, e) = Upto(parent, entry, d, e - 1) \cup Sub(parent, entry, e)
  BY <1>1 DEF Upto, Sub
<1>4. ASSUME parent[e] = d, NEW x \in Upto(parent, entry, d, e - 1), NEW y \in Sub(parent, entry, e)
      PROVE  x < y
  <2> DEFINE up == Above(parent)
  <2>1. IsTree(parent) /\ Ups(up, parent)
    BY NoGap
  <2>2. PICK a \in 1..(e - 1) : parent[a] = d /\ a \in up[x]
    BY <1>4 DEF Upto
  <2>3. x \in Entries /\ y \in Entries /\ e \in up[y]
    BY <1>4, ReachableIs DEF Upto, Sub
  <2>4. e <= y
    <3> HIDE DEF up
    <3>1. e \in 1..y
      BY <2>1, <2>3, UpsProperties
    <3> QED BY <1>0, <2>3, <3>1
  <2>5. ASSUME x >= e PROVE FALSE
    <3>1. e \in a..x /\ a \in Entries /\ a # e
      BY <1>0, <2>2, <2>3, <2>5
    <3>2. a \in up[e]
      BY <2>2, <2>3, <3>1, NoGap
    <3> HIDE DEF up
    <3>3. parent[e] \in Entries /\ a \in up[parent[e]]
      BY <2>1, <3>1, <3>2, UpsProperties
    <3>4. a \in up[parent[a]] /\ parent[a] \in Entries
      BY <1>4, <2>2, <3>3
    <3>5. a \in 1..parent[a]
      BY <2>1, <3>4, UpsProperties
    <3>6. parent[a] < a
      BY <2>1, <3>1 DEF IsTree
    <3> QED BY <1>0, <3>1, <3>4, <3>5, <3>6
  <2> QED BY <1>0, <2>3, <2>4, <2>5
<1> QED BY <1>2, <1>3, <1>4

\* In the end a walk has looked at all there is below.
LEMMA UptoAll ==
  ASSUME NEW parent \in Forests, NEW entry
  PROVE  /\ \A d \in 0..MaxEntries : Upto(parent, entry, d, 0) = {}
         /\ \A d \in Entries : Upto(parent, entry, d, MaxEntries) = Under(parent, entry, d)
         /\ Upto(parent, entry, 0, MaxEntries) = Reachable(parent, entry)
<1> DEFINE up == Above(parent)
<1>0. MaxEntries \in Nat /\ Entries = 1..MaxEntries
  BY BoundsAssumption DEF Entries
<1>t. IsTree(parent) /\ Ups(up, parent)
  BY NoGap
<1>1. \A d \in 0..MaxEntries : Upto(parent, entry, d, 0) = {}
  BY DEF Upto
<1>2. ASSUME NEW x \in Entries
      PROVE  /\ \E a \in up[x] : parent[a] = 0
             /\ \A d \in up[x] : d # x => \E a \in up[x] : parent[a] = d
  <2> DEFINE Fine(b) == /\ \E a \in up[b] : parent[a] = 0
                        /\ \A d \in up[b] : d # b => \E a \in up[b] : parent[a] = d
             Wrong == {b \in Entries : ~Fine(b)}
  <2> SUFFICES ASSUME Wrong # {} PROVE FALSE
    OBVIOUS
  <2> HIDE DEF up
  <2>1. PICK b \in Wrong : \A c \in Wrong : b <= c
    <3>1. Wrong \subseteq Nat
      BY <1>0
    <3> HIDE DEF Wrong
    <3> QED BY <3>1, LeastNumber
  <2>2. CASE parent[b] = 0
    <3>1. up[b] = {b}
      BY <2>2, <1>t DEF Ups
    <3>2. Fine(b)
      BY <2>2, <3>1
    <3> QED BY <3>2
  <2>3. CASE parent[b] # 0
    <3>1. parent[b] \in Entries /\ parent[b] < b
      BY <1>0, <1>t, <2>3 DEF IsTree
    <3>2. Fine(parent[b])
      <4> HIDE DEF Fine
      <4> QED BY <1>0, <2>1, <3>1
    <3>3. up[b] = {b} \cup up[parent[b]]
      BY <2>3, <1>t DEF Ups
    <3>4. Fine(b)
      BY <3>2, <3>3
    <3> QED BY <3>4
  <2> QED BY <2>2, <2>3
<1>3. \A x \in Reachable(parent, entry) : x \in Entries /\ \A a \in up[x] : a \in 1..MaxEntries
  <2>1. \A x \in Reachable(parent, entry) : x \in Entries
    BY ReachableIs
  <2> HIDE DEF up
  <2>2. \A x \in Entries : \A a \in up[x] : a \in Entries
    BY <1>t, UpsProperties
  <2> QED BY <1>0, <2>1, <2>2
<1>4. Upto(parent, entry, 0, MaxEntries) = Reachable(parent, entry)
  BY <1>2, <1>3 DEF Upto
<1>5. ASSUME NEW d \in Entries PROVE Upto(parent, entry, d, MaxEntries) = Under(parent, entry, d)
  <2>1. ASSUME NEW x \in Under(parent, entry, d) PROVE x \in Upto(parent, entry, d, MaxEntries)
    <3>1. x \in Reachable(parent, entry) /\ d \in up[x] /\ d # x
      BY <2>1 DEF Under, Sub
    <3>2. PICK a \in up[x] : parent[a] = d
      BY <1>2, <1>3, <3>1
    <3> QED BY <1>3, <3>1, <3>2 DEF Upto
  <2>2. ASSUME NEW x \in Upto(parent, entry, d, MaxEntries) PROVE x \in Under(parent, entry, d)
    <3>1. PICK a \in 1..MaxEntries : parent[a] = d /\ a \in up[x]
      BY <2>2 DEF Upto
    <3>2. x \in Reachable(parent, entry) /\ x \in Entries /\ a \in Entries
      BY <1>0, <1>3, <2>2 DEF Upto
    <3> HIDE DEF up
    <3>3. up[a] = {a} \cup up[d] /\ d \in up[d] /\ up[d] \subseteq 1..d /\ d < a
      <4>1. d # 0
        BY <1>0
      <4>2. up[a] = {a} \cup up[d]
        BY <4>1, <3>1, <3>2, <1>t DEF Ups
      <4>3. d \in up[d] /\ up[d] \subseteq 1..d
        BY <1>t, UpsProperties
      <4> QED BY <4>2, <4>3, <3>1, <3>2, <1>t DEF IsTree
    <3>4. up[a] \subseteq up[x] /\ a \in 1..x
      BY <1>t, <3>1, <3>2, UpsProperties
    <3>5. d \in up[x] /\ d # x
      BY <1>0, <3>2, <3>3, <3>4
    <3> QED BY <3>2, <3>5 DEF Under, Sub, up
  <2> QED BY <2>1, <2>2
<1> QED BY <1>1, <1>4, <1>5

\* What an entry adds to the walk of an open directory d
LEMMA SubIs ==
  ASSUME NEW parent \in Forests, NEW entry, NEW e \in Entries, parent[e] # 0,
         Open(parent, entry)[parent[e]], Depth(parent)[parent[e]] <= MaxDepth
  PROVE  /\ entry[e].kind = "repo" => Sub(parent, entry, e) = {e}
         /\ entry[e].kind = "dir" /\ Depth(parent)[parent[e]] < MaxDepth =>
              /\ Sub(parent, entry, e) = Under(parent, entry, e)
              /\ Open(parent, entry)[e] /\ Depth(parent)[e] = Depth(parent)[parent[e]] + 1
         /\ entry[e].kind # "repo" /\ ~(entry[e].kind = "dir" /\ Depth(parent)[parent[e]] < MaxDepth) =>
              Sub(parent, entry, e) = {}
<1> DEFINE up == Above(parent)
           depth == Depth(parent)
           open == Open(parent, entry)
           R == Reachable(parent, entry)
<1>0. MaxEntries \in Nat /\ Entries = 1..MaxEntries /\ MaxDepth \in Nat
  BY BoundsAssumption DEF Entries
<1>1. IsTree(parent) /\ Ups(up, parent) /\ Depths(depth, parent) /\ Opens(open, parent, entry)
  BY NoGap, DepthDefined, OpenDefined DEF Depth, Open
<1>2. \A x \in Entries : \A a \in up[x] :
        /\ depth[a] \in Nat /\ depth[a] <= depth[x] /\ (open[x] => open[a])
        /\ a # x => depth[a] < depth[x]
  BY BelowProperties
<1>3. \A x \in R : /\ x \in Entries /\ parent[x] # 0 /\ entry[x].kind = "repo"
                   /\ depth[x] <= MaxDepth + 1 /\ open[parent[x]]
  BY ReachableIs
<1>4. e \in R <=> entry[e].kind = "repo" /\ depth[e] <= MaxDepth + 1
  BY ReachableIs
<1> HIDE DEF up, depth, open, R
<1>5. \A x \in Entries : x \in up[x] /\ \A a \in up[x] : a # x => parent[x] \in Entries /\ a \in up[parent[x]]
  BY <1>1, UpsProperties
<1>6. parent[e] \in Entries /\ depth[e] = depth[parent[e]] + 1 /\ (open[e] <=> entry[e].kind = "dir")
  <2>1. parent[e] \in Entries
    BY <1>0, <1>1 DEF IsTree
  <2>2. depth[e] = depth[parent[e]] + 1
    BY <1>1 DEF Depths
  <2>3. open[e] <=> entry[e].kind = "dir" /\ open[parent[e]]
    BY <1>1 DEF Opens
  <2> QED BY <2>1, <2>2, <2>3 DEF open
<1>7. depth[parent[e]] \in Nat /\ depth[parent[e]] <= MaxDepth
  BY <1>2, <1>5, <1>6 DEF depth
<1>8. ASSUME NEW x \in R, e \in up[x], x # e PROVE open[e] /\ depth[e] < depth[x] /\ x \in Entries
  <2>1. x \in Entries /\ parent[x] \in Entries /\ e \in up[parent[x]] /\ open[parent[x]]
    BY <1>3, <1>5, <1>8
  <2> QED BY <2>1, <1>2, <1>8
<1>9. Sub(parent, entry, e) = {x \in R : e \in up[x]}
  BY DEF Sub, R, up
<1>10. ASSUME entry[e].kind = "repo" PROVE Sub(parent, entry, e) = {e}
  <2>1. ~open[e]
    BY <1>6, <1>10
  <2>2. e \in R
    BY <1>0, <1>4, <1>6, <1>7, <1>10
  <2> QED BY <1>5, <1>8, <1>9, <2>1, <2>2
<1>11. ASSUME entry[e].kind = "dir", depth[parent[e]] < MaxDepth
       PROVE  Sub(parent, entry, e) = Under(parent, entry, e) /\ open[e]
  <2>1. e \notin R
    BY <1>4, <1>11
  <2>2. e \notin Sub(parent, entry, e)
    BY <1>9, <2>1
  <2> QED BY <2>2, <1>6, <1>11 DEF Under
<1>12. ASSUME entry[e].kind # "repo", ~(entry[e].kind = "dir" /\ depth[parent[e]] < MaxDepth)
       PROVE  Sub(parent, entry, e) = {}
  <2>1. e \notin R
    BY <1>4, <1>12
  <2>2. ASSUME NEW x \in R, e \in up[x] PROVE FALSE
    <3>1. open[e] /\ depth[e] < depth[x] /\ x \in Entries
      BY <1>8, <2>1, <2>2
    <3>2. entry[e].kind = "dir" /\ depth[parent[e]] = MaxDepth
      BY <1>0, <1>6, <1>7, <1>12, <3>1
    <3>3. depth[x] \in Nat /\ depth[x] <= MaxDepth + 1 /\ depth[e] = MaxDepth + 1
      BY <1>2, <1>3, <1>5, <1>6, <3>1, <3>2
    <3> QED BY <1>0, <3>1, <3>3
  <2> QED BY <1>9, <2>2
<1> QED BY <1>6, <1>10, <1>11, <1>12 DEF depth, open

Match(entry, peer) == [e \in Entries |-> CheckRepo(entry[e], peer)]

\* The walks one level down find what is below their directories.
FindBelow(parent, entry, peer, next, depth) ==
  /\ IsLevel(next)
  /\ \A e \in Entries : \A c \in 0..MaxCandidates :
       Depth(parent)[e] = depth /\ Open(parent, entry)[e] =>
         Finds(next[e][c], c, Under(parent, entry, e), Match(entry, peer))

\* An entry of an open directory adds what is below it.
LEMMA PassFinds ==
  ASSUME NEW parent \in Forests, NEW entry, NEW peer, NEW next, NEW e \in Entries,
         parent[e] # 0, NEW depth \in 0..MaxDepth, depth = Depth(parent)[parent[e]],
         Open(parent, entry)[parent[e]],
         depth < MaxDepth => FindBelow(parent, entry, peer, next, depth + 1),
         NEW r \in Results, ~Ended(r), r.by = None, NEW s,
         s = Pass(parent, entry, peer, next, depth, parent[e], e, r)
  PROVE  Finds(s, r.checked, Sub(parent, entry, e), Match(entry, peer))
<1>0. MaxCandidates \in Nat /\ MaxDepth \in Nat
  BY BoundsAssumption
<1>1. r.checked \in 0..MaxCandidates /\ r.checked < MaxCandidates /\ r.root = None
  BY <1>0 DEF Results, Ended
<1>2. r = Missed(r.checked)
  BY <1>1 DEF Results, Missed, Walked
<1>3. s = CheckEntry(entry, peer, e, depth, r, next[e][r.checked])
  BY DEF Pass
<1>4. CASE entry[e].kind = "repo"
  <2> DEFINE by == CheckRepo(entry[e], peer)
  <2>1. Sub(parent, entry, e) = {e}
    BY <1>4, SubIs
  <2>2. s = Walked(IF by = None THEN None ELSE e, by, r.checked + 1)
    BY <1>3, <1>4 DEF CheckEntry
  <2>3. Match(entry, peer)[e] = by /\ by \in Reasons
    BY CheckType DEF Match
  <2> HIDE DEF by
  <2>4. Finds(s, r.checked, {e}, Match(entry, peer))
    BY <1>1, <2>2, <2>3, OneFound
  <2> QED BY <2>1, <2>4
<1>5. CASE entry[e].kind = "dir" /\ depth < MaxDepth
  <2>1. Sub(parent, entry, e) = Under(parent, entry, e)
    BY <1>5, SubIs
  <2>2. Open(parent, entry)[e] /\ Depth(parent)[e] = depth + 1
    BY <1>5, SubIs
  <2>3. IsLevel(next) /\ Finds(next[e][r.checked], r.checked, Under(parent, entry, e), Match(entry, peer))
    BY <1>1, <1>5, <2>2 DEF FindBelow
  <2>4. next[e][r.checked] \in Results
    BY <1>1, <2>3 DEF IsLevel
  <2>5. s = [next[e][r.checked] EXCEPT !.checked = next[e][r.checked].checked]
    BY <1>3, <1>5 DEF CheckEntry, NewCount
  <2>6. s = next[e][r.checked]
    BY <2>4, <2>5 DEF Results
  <2> QED BY <2>1, <2>3, <2>6
<1>6. CASE entry[e].kind # "repo" /\ ~(entry[e].kind = "dir" /\ depth < MaxDepth)
  <2>1. Sub(parent, entry, e) = {}
    BY <1>6, SubIs
  <2>2. s = Missed(r.checked)
    BY <1>2, <1>3, <1>6 DEF CheckEntry
  <2>3. Finds(Missed(r.checked), r.checked, {}, Match(entry, peer))
    BY <1>1, NothingFound
  <2> QED BY <2>1, <2>2, <2>3
<1> QED BY <1>4, <1>5, <1>6

\* A walk that goes on has found no match.
LEMMA MissHasNoReason ==
  ASSUME NEW r, NEW c, NEW X, NEW match, Finds(r, c, X, match), ~Ended(r)
  PROVE  r.by = None
BY DEF Finds, Ended

\* A walk of an open directory finds what is below it.
LEMMA LookFinds ==
  ASSUME NEW parent \in Forests, NEW entry, NEW peer, NEW next, NEW depth \in 0..MaxDepth,
         NEW d \in Entries, depth = Depth(parent)[d], Open(parent, entry)[d],
         depth < MaxDepth => FindBelow(parent, entry, peer, next, depth + 1),
         NEW c \in 0..MaxCandidates, NEW look, Looks(look, parent, entry, peer, next, depth, d, c)
  PROVE  Finds(look[MaxEntries], c, Under(parent, entry, d), Match(entry, peer))
<1>0. MaxEntries \in Nat /\ Entries = 1..MaxEntries
  BY BoundsAssumption DEF Entries
<1> DEFINE match == Match(entry, peer)
           Found(e) == Finds(look[e], c, Upto(parent, entry, d, e), match)
           Good == {e \in 0..MaxEntries : Found(e)}
<1> HIDE DEF match
<1>1. \A e \in 0..MaxEntries : look[e] \in Results
  <2>1. depth < MaxDepth => IsLevel(next)
    BY DEF FindBelow
  <2> QED BY <2>1, LookType
<1>2. 0 \in Good
  <2>1. Upto(parent, entry, d, 0) = {}
    <3>1. d \in 0..MaxEntries
      BY <1>0
    <3> QED BY <3>1, UptoAll
  <2>2. look[0] = Missed(c)
    BY LooksPass
  <2>3. Finds(Missed(c), c, {}, match)
    BY NothingFound
  <2>4. Found(0)
    BY <2>1, <2>2, <2>3
  <2> HIDE DEF Found
  <2> QED BY <1>0, <2>4
<1>3. ASSUME NEW e \in 0..MaxEntries, e \in Good, e < MaxEntries PROVE e + 1 \in Good
  <2> DEFINE f == e + 1
             r == look[e]
             s == look[f]
  <2>1. f \in Entries /\ f - 1 = e /\ d \in 0..MaxEntries
    BY <1>0, <1>3
  <2>2. s = Pass(parent, entry, peer, next, depth, d, f, r)
    <3> HIDE DEF f
    <3> QED BY <2>1, LooksPass
  <2>3. r \in Results /\ s \in Results
    BY <1>0, <1>1, <2>1
  <2>4. Finds(r, c, Upto(parent, entry, d, e), match)
    BY <1>3
  <2>5. f \in 0..MaxEntries
    BY <1>0, <2>1
  <2> HIDE DEF f, r, s
  <2>6. CASE parent[f] # d
    <3>1. s = r
      BY <2>2, <2>6 DEF Pass
    <3>2. Upto(parent, entry, d, f) = Upto(parent, entry, d, e)
      BY <2>1, <2>6, UptoNext
    <3>3. Found(f)
      BY <2>4, <3>1, <3>2 DEF s
    <3> QED BY <2>5, <3>3 DEF f
  <2>7. CASE parent[f] = d
    <3> DEFINE X == Upto(parent, entry, d, e)
               Y == Sub(parent, entry, f)
    <3>1. Upto(parent, entry, d, f) = X \cup Y /\ \A x \in X : \A y \in Y : x < y
      BY <2>1, <2>7, UptoNext
    <3>2. X \subseteq Entries /\ Y \subseteq Entries
      BY ReachableIs DEF Upto, Sub
    <3>3. Ended(r) => s = r
      BY <2>2 DEF Pass
    <3>4. ~Ended(r) => Finds(s, r.checked, Y, match)
      <4> SUFFICES ASSUME ~Ended(r) PROVE Finds(s, r.checked, Y, match)
        OBVIOUS
      <4>1. r.by = None
        BY <2>4, MissHasNoReason
      <4>2. parent[f] # 0
        BY <1>0, <2>7
      <4> HIDE DEF Y
      <4>3. Finds(s, r.checked, Sub(parent, entry, f), Match(entry, peer))
        BY <2>1, <2>2, <2>3, <2>7, <4>1, <4>2, PassFinds
      <4> QED BY <4>3 DEF Y, match
    <3>5. Finds(r, c, X, match)
      BY <2>4
    <3> HIDE DEF X, Y
    <3>6. Finds(s, c, X \cup Y, match)
      BY <2>3, <3>1, <3>2, <3>3, <3>4, <3>5, FindsBoth
    <3>7. Found(f)
      BY <3>1, <3>6 DEF s
    <3> QED BY <2>5, <3>7 DEF f
  <2> QED BY <2>6, <2>7
<1>4. 0..MaxEntries \subseteq Good
  <2> HIDE DEF Good
  <2>1. \A e \in 0..MaxEntries : e \in Good /\ e < MaxEntries => e + 1 \in Good
    BY <1>3
  <2> QED BY <1>0, <1>2, <2>1, Stepwise
<1>5. Upto(parent, entry, d, MaxEntries) = Under(parent, entry, d)
  BY UptoAll
<1>6. MaxEntries \in Good
  BY <1>0, <1>4
<1>7. Finds(look[MaxEntries], c, Upto(parent, entry, d, MaxEntries), match)
  BY <1>6
<1> QED BY <1>5, <1>7 DEF match

\* From the last level up, every walk finds what is below its directory.
LEMMA WalksFind ==
  ASSUME NEW parent \in Forests, NEW entry, NEW peer, NEW walk, Walks(walk, parent, entry, peer)
  PROVE  FindBelow(parent, entry, peer, walk[0], 0)
<1>0. MaxDepth \in Nat
  BY BoundsAssumption
<1> DEFINE Good == {n \in 0..MaxDepth : FindBelow(parent, entry, peer, walk[MaxDepth - n], MaxDepth - n)}
<1>1. ASSUME NEW depth \in 0..MaxDepth,
             depth < MaxDepth => FindBelow(parent, entry, peer, walk[depth + 1], depth + 1)
      PROVE  FindBelow(parent, entry, peer, walk[depth], depth)
  <2>1. IsLevel(walk[depth]) /\ walk[depth] = Level(parent, entry, peer, walk[depth + 1], depth)
    BY WalkType
  <2>2. ASSUME NEW d \in Entries, NEW c \in 0..MaxCandidates,
               Depth(parent)[d] = depth, Open(parent, entry)[d]
        PROVE  Finds(walk[depth][d][c], c, Under(parent, entry, d), Match(entry, peer))
    <3> DEFINE look == Look(parent, entry, peer, walk[depth + 1], depth, d, c)
    <3>1. depth < MaxDepth => IsLevel(walk[depth + 1])
      BY <1>1 DEF FindBelow
    <3>2. Looks(look, parent, entry, peer, walk[depth + 1], depth, d, c)
      BY <3>1, LookDefined
    <3>3. walk[depth][d][c] = look[MaxEntries]
      BY <2>1 DEF Level
    <3> HIDE DEF look
    <3>4. Finds(look[MaxEntries], c, Under(parent, entry, d), Match(entry, peer))
      BY <1>1, <2>2, <3>2, LookFinds
    <3> QED BY <3>3, <3>4
  <2> QED BY <2>1, <2>2 DEF FindBelow
<1>2. 0 \in Good
  <2>1. MaxDepth \in 0..MaxDepth /\ ~(MaxDepth < MaxDepth) /\ MaxDepth - 0 = MaxDepth
    BY <1>0
  <2>2. FindBelow(parent, entry, peer, walk[MaxDepth], MaxDepth)
    BY <1>1, <2>1
  <2> QED BY <1>0, <2>1, <2>2
<1>3. ASSUME NEW n \in 0..MaxDepth, n \in Good, n < MaxDepth PROVE n + 1 \in Good
  <2>1. MaxDepth - (n + 1) \in 0..MaxDepth /\ (MaxDepth - (n + 1)) + 1 = MaxDepth - n /\ n + 1 \in 0..MaxDepth
    BY <1>0, <1>3
  <2>2. FindBelow(parent, entry, peer, walk[MaxDepth - n], MaxDepth - n)
    BY <1>3
  <2>3. FindBelow(parent, entry, peer, walk[MaxDepth - (n + 1)], MaxDepth - (n + 1))
    BY <1>1, <2>1, <2>2
  <2> QED BY <2>1, <2>3
<1>4. 0..MaxDepth \subseteq Good
  <2> HIDE DEF Good
  <2>1. \A n \in 0..MaxDepth : n \in Good /\ n < MaxDepth => n + 1 \in Good
    BY <1>3
  <2> QED BY <1>0, <1>2, <2>1, Stepwise
<1>5. FindBelow(parent, entry, peer, walk[MaxDepth - MaxDepth], MaxDepth - MaxDepth)
  BY <1>0, <1>4
<1>6. MaxDepth - MaxDepth = 0
  BY <1>0
<1> QED BY <1>5, <1>6

\* What is below a search directory is walked if it is a directory.
LEMMA SubOfRoot ==
  ASSUME NEW parent \in Forests, NEW entry, NEW d \in Entries, parent[d] = 0
  PROVE  /\ entry[d].kind \in {"dir", "repo"} =>
              /\ Sub(parent, entry, d) = Under(parent, entry, d)
              /\ Open(parent, entry)[d] /\ Depth(parent)[d] = 0
         /\ entry[d].kind \notin {"dir", "repo"} => Sub(parent, entry, d) = {}
<1> DEFINE up == Above(parent)
           depth == Depth(parent)
           open == Open(parent, entry)
<1>1. IsTree(parent) /\ Ups(up, parent) /\ Depths(depth, parent) /\ Opens(open, parent, entry)
  BY NoGap, DepthDefined, OpenDefined DEF Depth, Open
<1>2. \A x \in Entries : \A a \in up[x] : open[x] => open[a]
  BY BelowProperties
<1>3. \A x \in Reachable(parent, entry) : x \in Entries /\ parent[x] # 0 /\ open[parent[x]]
  BY ReachableIs
<1> HIDE DEF up, depth, open
<1>4. \A x \in Entries : \A a \in up[x] : a # x => parent[x] \in Entries /\ a \in up[parent[x]]
  BY <1>1, UpsProperties
<1>5. depth[d] = 0 /\ (open[d] <=> entry[d].kind \in {"dir", "repo"})
  <2>1. depth[d] = 0
    BY <1>1 DEF Depths
  <2>2. open[d] <=> entry[d].kind \in {"dir", "repo"}
    BY <1>1 DEF Opens
  <2> QED BY <2>1, <2>2
<1>6. d \notin Sub(parent, entry, d)
  BY <1>3 DEF Sub
<1>7. ASSUME NEW x \in Sub(parent, entry, d) PROVE open[d]
  <2>1. x \in Reachable(parent, entry) /\ d \in up[x] /\ d # x
    BY <1>6, <1>7 DEF Sub, up
  <2>2. x \in Entries /\ parent[x] \in Entries /\ d \in up[parent[x]] /\ open[parent[x]]
    BY <2>1, <1>3, <1>4
  <2> QED BY <2>2, <1>2
<1>8. Sub(parent, entry, d) = Under(parent, entry, d)
  BY <1>6 DEF Under
<1> QED BY <1>5, <1>7, <1>8 DEF depth, open

Scans(search, parent, entry, walk) ==
  search = [d \in 0..MaxEntries |->
              IF d = 0 THEN Missed(0)
              ELSE IF parent[d] # 0 \/ Ended(search[d - 1]) \/ entry[d].kind \notin {"dir", "repo"}
                THEN search[d - 1]
              ELSE walk[0][d][search[d - 1].checked]]

\* The scan over the search directories is defined, and gives results.
LEMMA ScanDefined ==
  ASSUME NEW parent, NEW entry, NEW peer
  PROVE  \E search : /\ Scans(search, parent, entry, WalkDir(parent, entry, peer))
                     /\ search \in [0..MaxEntries -> Results]
                     /\ Scan(parent, entry, peer) = search[MaxEntries]
<1>0. MaxEntries \in Nat /\ MaxCandidates \in Nat /\ MaxDepth \in Nat /\ Entries = 1..MaxEntries
  BY BoundsAssumption DEF Entries
<1> DEFINE walk == WalkDir(parent, entry, peer)
           Step(d, r) == IF parent[d] # 0 \/ Ended(r) \/ entry[d].kind \notin {"dir", "repo"}
                         THEN r ELSE walk[0][d][r.checked]
           step == [d \in 1..MaxEntries |-> [r \in Results |-> Step(d, r)]]
<1>1. IsLevel(walk[0])
  <2>1. 0 \in 0..MaxDepth
    BY <1>0
  <2>2. Walks(walk, parent, entry, peer)
    BY WalkDefined
  <2> HIDE DEF walk
  <2> QED BY <2>1, <2>2, WalkType
<1> HIDE DEF walk
<1>2. ASSUME NEW d \in 1..MaxEntries, NEW r \in Results PROVE Step(d, r) \in Results
  <2>1. d \in Entries /\ r.checked \in 0..MaxCandidates
    BY <1>0 DEF Results
  <2>2. walk[0][d][r.checked] \in Results
    BY <1>1, <2>1 DEF IsLevel
  <2> QED BY <2>2
<1>3. Steps(step, MaxEntries, Results)
  <2> HIDE DEF Step
  <2> QED BY <1>2 DEF Steps
<1>4. Missed(0) \in Results
  BY <1>0, NothingFound
<1>5. PICK f : Loops(f, step, MaxEntries, Results, Missed(0))
  <2> HIDE DEF step
  <2> QED BY <1>0, <1>3, <1>4, LoopDefined
<1>6. f \in [0..MaxEntries -> Results] /\ f[0] = Missed(0)
  BY <1>5 DEF Loops
<1>7. ASSUME NEW d \in 0..MaxEntries
      PROVE  f[d] = IF d = 0 THEN Missed(0)
                    ELSE IF parent[d] # 0 \/ Ended(f[d - 1]) \/ entry[d].kind \notin {"dir", "repo"}
                      THEN f[d - 1]
                    ELSE walk[0][d][f[d - 1].checked]
  <2>1. CASE d = 0
    BY <2>1, <1>6
  <2>2. CASE d # 0
    <3>1. d \in 1..MaxEntries /\ f[d - 1] \in Results
      BY <1>0, <1>6, <2>2
    <3>2. f[d] = step[d][f[d - 1]]
      BY <3>1, <1>5 DEF Loops
    <3>3. f[d] = Step(d, f[d - 1])
      <4> HIDE DEF Step
      <4> QED BY <3>1, <3>2
    <3> QED BY <2>2, <3>3
  <2> QED BY <2>1, <2>2
<1>8. Scans(f, parent, entry, walk)
  <2>1. f = [d \in 0..MaxEntries |-> f[d]]
    BY <1>6
  <2> HIDE DEF step
  <2> QED BY <1>7, <2>1 DEF Scans
<1> DEFINE chosen == CHOOSE search : Scans(search, parent, entry, walk)
<1>9. Scans(chosen, parent, entry, walk) /\ Scan(parent, entry, peer) = chosen[MaxEntries]
  <2>1. Scans(chosen, parent, entry, walk)
    BY <1>8
  <2>2. Scan(parent, entry, peer) = chosen[MaxEntries]
    BY DEF Scan, Scans, walk
  <2> QED BY <2>1, <2>2
<1> HIDE DEF chosen
<1>10. chosen = [d \in 0..MaxEntries |-> chosen[d]] /\ chosen[0] = Missed(0)
  BY <1>0, <1>9 DEF Scans
<1>11. \A d \in 0..MaxEntries : chosen[d] \in Results
  <2> DEFINE Typed == {d \in 0..MaxEntries : chosen[d] \in Results}
  <2>1. 0 \in Typed
    BY <1>0, <1>4, <1>10
  <2>2. ASSUME NEW d \in 0..MaxEntries, d \in Typed, d < MaxEntries PROVE d + 1 \in Typed
    <3>1. d + 1 \in 1..MaxEntries /\ d + 1 \in 0..MaxEntries /\ (d + 1) - 1 = d /\ d + 1 # 0
      BY <1>0, <2>2
    <3>2. chosen[d + 1] = Step(d + 1, chosen[d])
      BY <1>9, <3>1 DEF Scans
    <3>3. chosen[d] \in Results
      BY <2>2
    <3>4. chosen[d + 1] \in Results
      <4> HIDE DEF Step
      <4> QED BY <1>2, <3>1, <3>2, <3>3
    <3> QED BY <3>1, <3>4
  <2>3. 0..MaxEntries \subseteq Typed
    <3> HIDE DEF Typed
    <3>1. \A d \in 0..MaxEntries : d \in Typed /\ d < MaxEntries => d + 1 \in Typed
      BY <2>2
    <3> QED BY <1>0, <2>1, <3>1, Stepwise
  <2> QED BY <2>3
<1>12. chosen \in [0..MaxEntries -> Results]
  BY <1>10, <1>11
<1> QED BY <1>9, <1>12 DEF walk

\* The scan finds what there is to be found among all reachable repositories.
LEMMA ScanFinds ==
  ASSUME NEW parent \in Forests, NEW entry, NEW peer
  PROVE  /\ Scan(parent, entry, peer) \in Results
         /\ Finds(Scan(parent, entry, peer), 0, Reachable(parent, entry), Match(entry, peer))
<1>0. MaxEntries \in Nat /\ MaxCandidates \in Nat /\ MaxDepth \in Nat /\ Entries = 1..MaxEntries
  BY BoundsAssumption DEF Entries
<1> DEFINE walk == WalkDir(parent, entry, peer)
           match == Match(entry, peer)
<1>1. PICK search : /\ Scans(search, parent, entry, walk)
                    /\ search \in [0..MaxEntries -> Results]
                    /\ Scan(parent, entry, peer) = search[MaxEntries]
  BY ScanDefined
<1>2. FindBelow(parent, entry, peer, walk[0], 0)
  <2>1. Walks(walk, parent, entry, peer)
    BY WalkDefined
  <2> HIDE DEF walk
  <2> QED BY <2>1, WalksFind
<1> HIDE DEF walk, match
<1> DEFINE Found(d) == Finds(search[d], 0, Upto(parent, entry, 0, d), match)
           Good == {d \in 0..MaxEntries : Found(d)}
<1>3. 0 \in Good
  <2>1. Upto(parent, entry, 0, 0) = {}
    BY <1>0, UptoAll
  <2>2. search[0] = Missed(0)
    BY <1>0, <1>1 DEF Scans
  <2>3. Finds(Missed(0), 0, {}, match)
    BY <1>0, NothingFound
  <2>4. Found(0)
    BY <2>1, <2>2, <2>3
  <2> HIDE DEF Found
  <2> QED BY <1>0, <2>4
<1>4. ASSUME NEW e \in 0..MaxEntries, e \in Good, e < MaxEntries PROVE e + 1 \in Good
  <2> DEFINE f == e + 1
             r == search[e]
             s == search[f]
             X == Upto(parent, entry, 0, e)
             Y == Sub(parent, entry, f)
  <2>1. f \in Entries /\ f - 1 = e /\ f \in 0..MaxEntries /\ f # 0 /\ 0 \in 0..MaxEntries
    BY <1>0, <1>4
  <2>2. s = IF parent[f] # 0 \/ Ended(r) \/ entry[f].kind \notin {"dir", "repo"}
            THEN r ELSE walk[0][f][r.checked]
    <3> HIDE DEF f
    <3> QED BY <1>1, <2>1 DEF Scans
  <2>3. r \in Results /\ s \in Results
    BY <1>1, <2>1
  <2>4. Finds(r, 0, X, match)
    BY <1>4
  <2> HIDE DEF f, r, s
  <2>5. CASE parent[f] # 0
    <3>1. s = r
      BY <2>2, <2>5
    <3>2. Upto(parent, entry, 0, f) = X
      BY <2>1, <2>5, UptoNext
    <3>3. Found(f)
      BY <2>4, <3>1, <3>2 DEF s
    <3> QED BY <2>1, <3>3 DEF f
  <2>6. CASE parent[f] = 0
    <3>1. Upto(parent, entry, 0, f) = X \cup Y /\ \A x \in X : \A y \in Y : x < y
      <4>1. X = Upto(parent, entry, 0, f - 1)
        BY <2>1
      <4> HIDE DEF X, Y
      <4>2. /\ Upto(parent, entry, 0, f) = Upto(parent, entry, 0, f - 1) \cup Sub(parent, entry, f)
            /\ \A x \in Upto(parent, entry, 0, f - 1) : \A y \in Sub(parent, entry, f) : x < y
        <5>1. \A d \in 0..MaxEntries : parent[f] = d =>
                /\ Upto(parent, entry, d, f) = Upto(parent, entry, d, f - 1) \cup Sub(parent, entry, f)
                /\ \A x \in Upto(parent, entry, d, f - 1) : \A y \in Sub(parent, entry, f) : x < y
          BY <2>1, UptoNext
        <5> QED BY <2>1, <2>6, <5>1
      <4> QED BY <4>1, <4>2 DEF Y
    <3>2. X \subseteq Entries /\ Y \subseteq Entries
      BY ReachableIs DEF Upto, Sub
    <3>3. Ended(r) => s = r
      BY <2>2
    <3>4. ASSUME ~Ended(r) PROVE Finds(s, r.checked, Y, match)
      <4>1. r.checked \in 0..MaxCandidates
        BY <2>3 DEF Results
      <4>2. CASE entry[f].kind \in {"dir", "repo"}
        <5>1. Y = Under(parent, entry, f) /\ Open(parent, entry)[f] /\ Depth(parent)[f] = 0
          BY <2>1, <2>6, <4>2, SubOfRoot
        <5>2. s = walk[0][f][r.checked]
          BY <2>2, <2>6, <3>4, <4>2
        <5>3. Finds(walk[0][f][r.checked], r.checked, Under(parent, entry, f), match)
          BY <1>2, <2>1, <4>1, <5>1 DEF FindBelow, match
        <5> HIDE DEF Y
        <5> QED BY <5>1, <5>2, <5>3
      <4>3. CASE entry[f].kind \notin {"dir", "repo"}
        <5>1. Y = {}
          BY <2>1, <2>6, <4>3, SubOfRoot
        <5>2. r.by = None /\ r.root = None
          BY <2>4, <3>4, MissHasNoReason DEF Ended
        <5>3. s = Missed(r.checked)
          BY <2>2, <2>3, <4>3, <5>2 DEF Results, Missed, Walked
        <5>4. Finds(Missed(r.checked), r.checked, {}, match)
          BY <4>1, NothingFound
        <5> HIDE DEF Y
        <5> QED BY <5>1, <5>3, <5>4
      <4> QED BY <4>2, <4>3
    <3> HIDE DEF X, Y
    <3>5. 0 \in 0..MaxCandidates
      BY <1>0
    <3>6. Finds(s, 0, X \cup Y, match)
      BY <2>3, <2>4, <3>1, <3>2, <3>3, <3>4, <3>5, FindsBoth
    <3>7. Found(f)
      BY <3>1, <3>6 DEF s
    <3> QED BY <2>1, <3>7 DEF f
  <2> QED BY <2>5, <2>6
<1>5. 0..MaxEntries \subseteq Good
  <2> HIDE DEF Good
  <2>1. \A d \in 0..MaxEntries : d \in Good /\ d < MaxEntries => d + 1 \in Good
    BY <1>4
  <2> QED BY <1>0, <1>3, <2>1, Stepwise
<1>6. MaxEntries \in Good
  BY <1>0, <1>5
<1>7. Finds(search[MaxEntries], 0, Upto(parent, entry, 0, MaxEntries), match)
  BY <1>6
<1>8. Upto(parent, entry, 0, MaxEntries) = Reachable(parent, entry)
  BY UptoAll
<1>9. search[MaxEntries] \in Results
  BY <1>0, <1>1
<1> QED BY <1>1, <1>7, <1>8, <1>9 DEF match

\* Counting further counts one more at least.
LEMMA FirstOfMore ==
  ASSUME NEW X, X \subseteq Entries, NEW m \in Nat, NEW x \in X, m < x
  PROVE  Cardinality(FirstOf(X, m)) + 1 <= Cardinality(FirstOf(X, x))
<1>0. x \in Nat
  BY BoundsAssumption DEF Entries
<1>1. IsFiniteSet(FirstOf(X, m)) /\ IsFiniteSet(FirstOf(X, x))
  BY <1>0, FirstProperties
<1>2. x \notin FirstOf(X, m)
  BY <1>0 DEF FirstOf
<1>3. IsFiniteSet(FirstOf(X, m) \cup {x}) /\ Cardinality(FirstOf(X, m) \cup {x}) = Cardinality(FirstOf(X, m)) + 1
  BY <1>1, <1>2, FS_AddElement
<1>4. FirstOf(X, m) \cup {x} \subseteq FirstOf(X, x)
  <2>1. \A y \in X : y <= m => y <= x
    BY <1>0, BoundsAssumption DEF Entries
  <2>2. x <= x
    BY <1>0
  <2> QED BY <2>1, <2>2 DEF FirstOf
<1>5. Cardinality(FirstOf(X, m) \cup {x}) <= Cardinality(FirstOf(X, x))
  BY <1>1, <1>4, FS_Subset
<1> QED BY <1>3, <1>5

\* Counting up to a repository counts no more than counting further.
LEMMA FirstOfFewer ==
  ASSUME NEW X, X \subseteq Entries, NEW m \in Nat, NEW x \in X, x <= m
  PROVE  Cardinality(FirstOf(X, x)) <= Cardinality(FirstOf(X, m))
<1>0. x \in Nat /\ \A y \in X : y \in Nat
  BY BoundsAssumption DEF Entries
<1>1. IsFiniteSet(FirstOf(X, m))
  BY FirstProperties
<1>2. FirstOf(X, x) \subseteq FirstOf(X, m)
  <2>1. \A y \in X : y <= x => y <= m
    BY <1>0
  <2> QED BY <2>1 DEF FirstOf
<1> QED BY <1>1, <1>2, FS_Subset

\* A result that is found among all reachable repositories is the first match,
\* within the limit, and has counted no other.
LEMMA ScanIsFirst ==
  ASSUME NEW parent \in Forests, NEW entry, NEW peer
  PROVE  ScanFindsFirst(parent, entry, peer)
<1> DEFINE R == Reachable(parent, entry)
           match == Match(entry, peer)
           scan == Scan(parent, entry, peer)
           place(e) == Cardinality({d \in R : d <= e})
           looked == {e \in R : place(e) <= MaxCandidates}
           hits == {e \in looked : CheckRepo(entry[e], peer) # None}
<1>0. MaxEntries \in Nat /\ MaxCandidates \in Nat /\ Entries = 1..MaxEntries /\ R \subseteq Entries
  BY BoundsAssumption, ReachableIs DEF Entries
<1>1. scan \in Results /\ Finds(scan, 0, R, match)
  BY ScanFinds
<1>2. \A e \in R : match[e] = CheckRepo(entry[e], peer) /\ e \in Nat /\ e # 0
  BY <1>0 DEF Match
<1>3. \A e : place(e) = Cardinality(FirstOf(R, e))
  BY DEF FirstOf
<1> SUFFICES IF hits = {} THEN scan = Missed(Cardinality(looked))
             ELSE scan = Walked(Min(hits), CheckRepo(entry[Min(hits)], peer), place(Min(hits)))
  BY DEF ScanFindsFirst
<1> HIDE DEF R, match, scan, place
<1>4. PICK m \in R \cup {0} :
        /\ scan.checked = 0 + Cardinality(FirstOf(R, m))
        /\ \A x \in FirstOf(R, m) : x # m => match[x] = None
        /\ IF scan.root = None
           THEN /\ scan.by = None /\ (m \in R => match[m] = None)
                /\ FirstOf(R, m) = R \/ scan.checked = MaxCandidates
           ELSE scan.root = m /\ m \in R /\ scan.by = match[m] /\ scan.by # None
  BY <1>1 DEF Finds
<1>5. /\ scan = Walked(scan.root, scan.by, scan.checked) /\ scan.checked \in 0..MaxCandidates
      /\ m \in Nat /\ Cardinality(FirstOf(R, m)) \in Nat
  <2>1. m \in Nat
    BY <1>2
  <2>2. Cardinality(FirstOf(R, m)) \in Nat
    BY <1>0, <2>1, FirstProperties
  <2> QED BY <1>1, <2>1, <2>2 DEF Results, Walked
<1>6. scan.checked = Cardinality(FirstOf(R, m)) /\ Cardinality(FirstOf(R, m)) <= MaxCandidates
  BY <1>0, <1>4, <1>5
<1>7. \A x \in R : x <= m => x \in looked
  <2> SUFFICES ASSUME NEW x \in R, x <= m PROVE x \in looked
    OBVIOUS
  <2>1. Cardinality(FirstOf(R, x)) <= Cardinality(FirstOf(R, m)) /\ Cardinality(FirstOf(R, x)) \in Nat
    BY <1>0, <1>2, <1>5, FirstOfFewer, FirstProperties
  <2> QED BY <1>0, <1>3, <1>5, <1>6, <2>1
<1>8. CASE scan.root # None
  <2>1. m \in R /\ scan.by = match[m] /\ scan.by # None /\ scan.root = m
    BY <1>4, <1>8
  <2>2. m \in hits
    BY <1>2, <1>5, <1>7, <2>1
  <2>3. \A x \in hits : m <= x
    <3> SUFFICES ASSUME NEW x \in hits, ~(m <= x) PROVE FALSE
      OBVIOUS
    <3>1. x \in R /\ match[x] # None /\ x # m /\ x <= m
      <4>1. x \in R /\ match[x] # None /\ x \in Nat
        BY <1>2
      <4> QED BY <1>5, <4>1
    <3>2. x \in FirstOf(R, m)
      BY <3>1 DEF FirstOf
    <3> QED BY <1>4, <3>1, <3>2
  <2>4. Min(hits) = m
    <3>1. \A x \in hits : x \in Nat
      BY <1>2
    <3> HIDE DEF hits
    <3>2. \A y \in hits : (\A x \in hits : y <= x) => y = m
      BY <1>5, <2>2, <2>3, <3>1
    <3>3. Min(hits) \in hits /\ \A x \in hits : Min(hits) <= x
      BY <2>2, <2>3 DEF Min
    <3> QED BY <3>2, <3>3
  <2>5. scan = Walked(m, match[m], Cardinality(FirstOf(R, m)))
    BY <1>5, <1>6, <2>1
  <2> QED BY <1>2, <1>3, <2>1, <2>2, <2>4, <2>5
<1>9. CASE scan.root = None
  <2>1. FirstOf(R, m) \subseteq looked /\ \A x \in FirstOf(R, m) : match[x] = None
    BY <1>4, <1>7, <1>9 DEF FirstOf
  <2>2. looked \subseteq FirstOf(R, m)
    <3>1. CASE FirstOf(R, m) = R
      BY <3>1
    <3>2. CASE Cardinality(FirstOf(R, m)) = MaxCandidates
      <4> SUFFICES ASSUME NEW x \in looked, x \notin FirstOf(R, m) PROVE FALSE
        OBVIOUS
      <4>1. x \in R /\ m < x
        BY <1>2, <1>5 DEF FirstOf
      <4>2. Cardinality(FirstOf(R, m)) + 1 <= Cardinality(FirstOf(R, x)) /\ Cardinality(FirstOf(R, x)) \in Nat
        BY <1>0, <1>2, <1>5, <4>1, FirstOfMore, FirstProperties
      <4>3. Cardinality(FirstOf(R, x)) <= MaxCandidates
        BY <1>3
      <4> QED BY <1>0, <3>2, <4>2, <4>3
    <3> QED BY <1>4, <1>6, <1>9, <3>1, <3>2
  <2>3. looked = FirstOf(R, m)
    BY <2>1, <2>2
  <2>4. hits = {}
    BY <1>2, <2>1, <2>3
  <2>5. scan = Walked(None, None, Cardinality(FirstOf(R, m)))
    BY <1>4, <1>5, <1>6, <1>9
  <2>6. scan = Missed(Cardinality(looked))
    BY <2>3, <2>5 DEF Missed
  <2> QED BY <2>4, <2>6
<1> QED BY <1>8, <1>9

\* The trees are forests.
TreeType == input.of = "tree" => input.parent \in Forests

\* The trees that are handed in are such forests.
LEMMA TreeInputType == Spec => []TreeType
<1>1. Init => TreeType
  <2>1. input \in Trees => TreeType
    BY DEF Trees, TreeType
  <2>2. input \in Heads \cup Streams \cup Listings \cup Searches => input.of # "tree"
    BY DEF Heads, Streams, Listings, Searches
  <2>3. input \in Deletions => input.of # "tree"
    BY InputsAssumption
  <2> QED BY <2>1, <2>2, <2>3 DEF Init, TreeType
<1>2. TreeType /\ [Next]_input => TreeType'
  BY DEF Next, TreeType
<1> QED BY <1>1, <1>2, PTL DEF Spec

\* The bounded search of directory trees of any size, under any limits of depth
\* and of candidates, finds the first match and examines nothing beyond it.
THEOREM SearchesFindFirst == Spec => []SearchFindsFirst
<1>1. TreeType => SearchFindsFirst
  BY ScanIsFirst DEF TreeType, SearchFindsFirst
<1> QED BY <1>1, TreeInputType, PTL

\* What matches from one side does so from the other, for the same reason.
LEMMA MatchIsMutual ==
  ASSUME NEW entry, NEW peer, CheckRepo(entry, peer) # None
  PROVE  MatchIdentity(peer, entry.id) = CheckRepo(entry, peer)
BY DEF CheckRepo, MatchIdentity

\* A clone is located only if it matches, wherever it is found.
LEMMA LocatedMatches ==
  ASSUME NEW parent \in Forests, NEW entry, NEW peer, NEW cached, NEW cwd
  PROVE  LocatedIsAccepted(parent, entry, peer, cached, cwd)
<1> DEFINE At0(place) == IF place = None THEN None
                         ELSE IF place.native THEN CheckRepo(place.entry, peer) ELSE None
           scan == Scan(parent, entry, peer)
           result == Locate(parent, entry, peer, cached, cwd)
<1> SUFFICES ASSUME result.by # None PROVE MatchIdentity(peer, result.entry.id) = result.by
  BY DEF LocatedIsAccepted
<1>1. result = IF At0(cached) # None THEN [entry |-> cached.entry, by |-> At0(cached)]
               ELSE IF At0(cwd) # None THEN [entry |-> cwd.entry, by |-> At0(cwd)]
               ELSE [entry |-> IF scan.root = None THEN None ELSE entry[scan.root], by |-> scan.by]
  BY DEF Locate
<1>2. \A place : At0(place) # None => At0(place) = CheckRepo(place.entry, peer)
  OBVIOUS
<1>3. scan.by # None => /\ scan.root # None /\ scan.root \in Entries
                        /\ scan.by = CheckRepo(entry[scan.root], peer)
  <2>1. Finds(scan, 0, Reachable(parent, entry), Match(entry, peer))
    BY ScanFinds
  <2>2. Reachable(parent, entry) \subseteq Entries
    BY ReachableIs
  <2> HIDE DEF scan
  <2>3. scan.by # None => /\ scan.root # None /\ scan.root \in Reachable(parent, entry)
                          /\ scan.by = Match(entry, peer)[scan.root]
    BY <2>1 DEF Finds
  <2> QED BY <2>2, <2>3 DEF Match
<1> HIDE DEF At0, scan, result
<1>4. CASE At0(cached) # None
  <2>1. result.entry = cached.entry /\ result.by = At0(cached)
    BY <1>1, <1>4
  <2> QED BY <1>2, <1>4, <2>1, MatchIsMutual
<1>5. CASE At0(cached) = None /\ At0(cwd) # None
  <2>1. result.entry = cwd.entry /\ result.by = At0(cwd)
    BY <1>1, <1>5
  <2> QED BY <1>2, <1>5, <2>1, MatchIsMutual
<1>6. CASE At0(cached) = None /\ At0(cwd) = None
  <2>1. result.by = scan.by
    BY <1>1, <1>6
  <2>2. result.entry = entry[scan.root]
    BY <1>1, <1>3, <1>6, <2>1
  <2> QED BY <1>3, <2>1, <2>2, MatchIsMutual
<1> QED BY <1>4, <1>5, <1>6

\* One directory that holds all else is a forest.
LEMMA OneDirectory == [e \in Entries |-> IF e = 1 THEN 0 ELSE 1] \in Forests
<1> DEFINE parent == [e \in Entries |-> IF e = 1 THEN 0 ELSE 1]
<1>0. MaxEntries \in Nat /\ Entries = 1..MaxEntries
  BY BoundsAssumption DEF Entries
<1>1. parent \in [Entries -> 0..MaxEntries] /\ \A e \in Entries : parent[e] < e
  <2>1. \A e \in Entries : (IF e = 1 THEN 0 ELSE 1) \in 0..MaxEntries /\ (IF e = 1 THEN 0 ELSE 1) < e
    BY <1>0
  <2> QED BY <2>1
<1>2. Ups(Above(parent), parent)
  <2>1. IsTree(parent)
    BY <1>1 DEF IsTree
  <2> HIDE DEF parent
  <2> QED BY <2>1, UpDefined DEF Above
<1>3. \A e \in Entries \ {1} : parent[e] \in Above(parent)[e - 1] \cup {0}
  <2> SUFFICES ASSUME NEW e \in Entries \ {1} PROVE 1 \in Above(parent)[e - 1] /\ parent[e] = 1
    OBVIOUS
  <2>1. e - 1 \in Entries /\ 1 \in Entries
    BY <1>0
  <2>2. \A x \in Entries : x = 1 \/ parent[x] = 1
    OBVIOUS
  <2>3. parent[e] = 1
    OBVIOUS
  <2> HIDE DEF parent
  <2>4. \A x \in Entries : Above(parent)[x] = {x} \cup IF parent[x] = 0 THEN {} ELSE Above(parent)[parent[x]]
    BY <1>2 DEF Ups
  <2>5. 1 \in Above(parent)[1]
    BY <2>1, <2>4
  <2>6. 1 \in Above(parent)[e - 1]
    BY <2>1, <2>2, <2>4, <2>5
  <2> QED BY <2>3, <2>6
<1> HIDE DEF parent
<1>4. parent \in Forests
  BY <1>1, <1>3 DEF Forests, Above, Ups
<1> QED BY <1>4 DEF parent

\* Whatever the identities are and wherever a clone is located, connect finds
\* from its side that they match, and for the same reason.
THEOREM LocatedAreAccepted == Spec => []LocateAccepted
<1>1. LocateAccepted
  BY OneDirectory, LocatedMatches DEF LocateAccepted
<1> QED BY <1>1, PTL
====
