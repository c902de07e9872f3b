---- MODULE AlgorithmsMC ----
(***************************************************************************)
(* The algorithms of wdsync over bounded inputs.                            *)
(***************************************************************************)
EXTENDS Algorithms

SomeIdentities == {[url |-> "u", roots |-> {"r1"}], [url |-> None, roots |-> {"r1"}],
                   [url |-> "v", roots |-> {"r1", "r2"}]}
OnePeer == [url |-> "u", roots |-> {"r1"}]
SomeCodes == {<<" ", "M">>, <<"R", " ">>, <<"C", "M">>}
\* With a rename that git finds in the worktree, after `git add --intent-to-add`
RenameCodes == {<<" ", "M">>, <<" ", "R">>}

\* A worktree r with d/x, d/e/y and l, each of them a file, a link, or missing,
\* a file g that is never listed, and a file outside
AFile == [kind |-> "file", to |-> <<>>]
ADir == [kind |-> "dir", to |-> <<>>]
LinkTo(place) == [kind |-> "link", to |-> place]
D == <<"r", "d">>
X == <<"r", "d", "x">>
E == <<"r", "d", "e">>
Y == <<"r", "d", "e", "y">>
L == <<"r", "l">>
G == <<"r", "g">>
Outside == <<"o", "x">>
AllPlaces == {<<>>, <<"r">>, D, X, E, Y, L, G, <<"o">>, Outside}
TheRoot == <<"r">>
Worktree(x, e, y, l) ==
  [q \in Places |-> CASE q = X -> x [] q = E -> e [] q = Y -> y [] q = L -> l
                      [] q \in {G, Outside} -> AFile [] OTHER -> ADir]
Worktrees ==
  {fs \in {Worktree(x, e, y, l) : x \in {NoNode, AFile}, e \in {NoNode, ADir},
             y \in {NoNode, AFile, LinkTo(Outside)},
             l \in {NoNode, AFile, ADir, LinkTo(<<"o">>), LinkTo(D), LinkTo(E), LinkTo(X)}} :
     IsFileSystem(fs)}
Plans == {p \in Seqs({<<"d", "x">>, <<"d", "e", "y">>, <<"l">>, <<"l", "x">>, <<"l", "y">>,
                      <<"l", "e", "y">>, <<"..", "o", "x">>}, 2) : \A i, j \in DOMAIN p : p[i] = p[j] => i = j}
\* A link that leads back to the root may be passed on the way to itself.
Loops == {Worktree(x, NoNode, NoNode, l) : x \in {LinkTo(TheRoot), LinkTo(L)}, l \in {ADir, NoNode}}
LoopPlans == Seqs({<<"d", "x">>, <<"d", "x", "d", "x">>}, 2)

SomeWorlds == [protected: SUBSET {X, E}, windows: {FALSE}, confirmed: BOOLEAN, sudo: BOOLEAN]
              \cup [protected: {{X}}, windows: {TRUE}, confirmed: {TRUE}, sudo: {TRUE}]
SomeDeletions ==
  LET Of(trees, plans) == [of: {"deletion"}, fs: trees, paths: plans,
                           dirty: {{}, {<<"d", "x">>}}, world: SomeWorlds]
  IN Of(Worktrees, Plans) \cup Of(Loops, LoopPlans)
====
