---- MODULE HeadRelation ----
(***************************************************************************)
(* How a sync judges the HEADs of the two repositories.  Each repository    *)
(* knows the commits it has made or fetched, and all their ancestors; git   *)
(* answers there about no others.  The command asks the repository on its   *)
(* own side first, then the peer.                                           *)
(***************************************************************************)
EXTENDS Naturals

CONSTANTS
  MaxCommits,  \* commits are 1..MaxCommits, each after its parents
  NoRelation   \* None: the repository cannot tell

ASSUME CommitsAssumption == MaxCommits \in Nat
ASSUME NoRelationAssumption ==
  NoRelation \notin {"same", "source_ahead", "destination_ahead", "diverged", "different"}

Commits == 1..MaxCommits
Sides == {"wsl", "win"}
Other(s) == IF s = "wsl" THEN "win" ELSE "wsl"

\* The history of the project: every commit has at most two parents.
Histories ==
  {parents \in [Commits -> SUBSET Commits] :
     \A c \in Commits : parents[c] \subseteq 1..(c - 1)
                        /\ \A a, b, d \in parents[c] : a = b \/ a = d \/ b = d}

Ancestors(parents) ==
  LET reach[c \in Commits] == {c} \cup UNION {reach[p] : p \in parents[c]} IN reach

\* Two clones: what each knows, and where its HEAD is.
Clones(parents) ==
  LET reach == Ancestors(parents)
      closed == {S \in SUBSET Commits : \A c \in S : reach[c] \subseteq S}
  IN {k \in [known: [Sides -> closed], head: [Sides -> Commits]] :
        \A s \in Sides : k.head[s] \in k.known[s]}

----
\* Mutant: the arguments are swapped.
IsDescendant(reach, older, newer) == newer \in reach[older]

\* git merge-base: with --is-ancestor, and without
IsAncestor(reach, older, newer) == older \in reach[newer]
HaveMergeBase(reach, a, b) == reach[a] \cap reach[b] # {}

\* determine_head_relation_from_command
FromCommand(reach, known, source, dest) ==
  IF ~({source, dest} \subseteq known) THEN NoRelation
  ELSE IF IsAncestor(reach, source, dest) THEN "destination_ahead"
  ELSE IF IsAncestor(reach, dest, source) THEN "source_ahead"
  ELSE IF HaveMergeBase(reach, source, dest) THEN "diverged" ELSE "different"

\* Mutant: the peer is not asked.
LocalRelation(reach, clones, runner, from) ==
  LET source == clones.head[from]  dest == clones.head[Other(from)]
      here == FromCommand(reach, clones.known[runner], source, dest)
  IN IF source = dest THEN "same" ELSE IF here # NoRelation THEN here ELSE "different"

\* determine_head_relation in a command on side runner that syncs from a side;
\* _handle_compare_heads answers "different" where the peer cannot tell either.
Relation(reach, clones, runner, from) ==
  LET source == clones.head[from]
      dest == clones.head[Other(from)]
      on(side) == FromCommand(reach, clones.known[side], source, dest)
  IN IF source = dest THEN "same"
     ELSE IF on(runner) # NoRelation THEN on(runner)
     ELSE IF on(Other(runner)) # NoRelation THEN on(Other(runner)) ELSE "different"

----
Reversed(relation) ==
  CASE relation = "source_ahead" -> "destination_ahead"
    [] relation = "destination_ahead" -> "source_ahead"
    [] OTHER -> relation

\* Whoever runs the command and in whichever direction, one relation is
\* reported, although the two repositories know different commits.
SidesAgree(parents, clones) ==
  LET reach == Ancestors(parents) IN
  \A from, one, two \in Sides :
    /\ Relation(reach, clones, one, from) = Relation(reach, clones, two, from)
    /\ Relation(reach, clones, one, Other(from)) = Reversed(Relation(reach, clones, one, from))

\* A relation that is claimed is the one the whole history has, and "different"
\* means no common ancestor, or that neither repository knows both commits.
ClaimIsTrue(parents, clones) ==
  LET reach == Ancestors(parents) IN
  \A runner, from \in Sides :
    LET source == clones.head[from]
        dest == clones.head[Other(from)]
        claim == Relation(reach, clones, runner, from)
        told == \E s \in Sides : {source, dest} \subseteq clones.known[s]
    IN /\ claim = "same" <=> source = dest
       /\ claim = "source_ahead" => dest \in reach[source] \ {source}
       /\ claim = "destination_ahead" => source \in reach[dest] \ {dest}
       /\ claim = "diverged" =>
            /\ reach[source] \cap reach[dest] # {}
            /\ source \notin reach[dest] /\ dest \notin reach[source]
       /\ claim = "different" => ~told \/ reach[source] \cap reach[dest] = {}
====
