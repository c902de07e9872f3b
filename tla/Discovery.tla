---- MODULE Discovery ----
(***************************************************************************)
(* How the peer finds its clone of a repository: at the root it was last    *)
(* seen, in the working directory, or by a search of the usual project      *)
(* directories, bounded in depth and in the number of repositories looked   *)
(* at.  The search threads the number looked at so far through a recursion. *)
(***************************************************************************)
EXTENDS Naturals, FiniteSetsExt

CONSTANTS
  MaxEntries,    \* entries are 1..MaxEntries, in the order of a full walk
  MaxDepth,      \* max_depth
  MaxCandidates, \* max_candidates
  Identities,    \* the identities of the repositories there may be
  None

ASSUME BoundsAssumption == {MaxEntries, MaxDepth, MaxCandidates} \subseteq Nat
ASSUME NoneAssumption == None \notin Nat \cup {"remote_url", "root_commits"}

Entries == 1..MaxEntries

\* An entry is a readable directory, one that may not be read, a file or
\* nothing, or a repository; one without commits has no identity.
Kind == {"dir", "denied", "file"} \cup {"repo"}
Entry == [kind: Kind \ {"repo"}, id: {None}] \cup [kind: {"repo"}, id: Identities \cup {None}]

\* A forest whose roots, with parent 0, are the search directories.
Forests ==
  LET under(parent) ==
        LET up[e \in Entries] == {e} \cup IF parent[e] = 0 THEN {} ELSE up[parent[e]]
        IN \A e \in Entries \ {1} : parent[e] \in up[e - 1] \cup {0}
  IN {parent \in [Entries -> 0..MaxEntries] : (\A e \in Entries : parent[e] < e) /\ under(parent)}

----
\* Mutant: some of the peer's root commits are enough.
MatchSomeRoots(local, remote) ==
  IF local.url # None /\ remote.url # None /\ local.url = remote.url THEN "remote_url"
  ELSE IF local.roots \subseteq remote.roots THEN "root_commits" ELSE None

\* match_identity; roots is the set of root commits, never empty.
MatchIdentity(local, remote) ==
  IF local.url # None /\ remote.url # None /\ local.url = remote.url THEN "remote_url"
  ELSE IF local.roots = remote.roots THEN "root_commits" ELSE None

\* _check_repo: resolve_identity raises in a repository without commits.
CheckRepo(entry, peer) ==
  IF entry.kind # "repo" \/ entry.id = None THEN None ELSE MatchIdentity(entry.id, peer)

\* The result of a walk: the match, if any, and the repositories looked at.
Walked(root, reason, checked) == [root |-> root, by |-> reason, checked |-> checked]
Missed(checked) == Walked(None, None, checked)

\* Mutant: a subtree forgets what has been counted in it.
KeptCount(before, after) == before
\* checked = result
NewCount(before, after) == after

\* The walk ends with a match or at the limit.
Ended(soFar) == soFar.root # None \/ soFar.checked >= MaxCandidates

\* _check_entry; below is what a walk of the entry gives.
CheckEntry(entry, peer, e, depth, soFar, below) ==
  IF entry[e].kind = "repo" THEN
    LET by == CheckRepo(entry[e], peer)
    IN Walked(IF by = None THEN None ELSE e, by, soFar.checked + 1)
  ELSE IF entry[e].kind = "dir" /\ depth < MaxDepth
    THEN [below EXCEPT !.checked = NewCount(soFar.checked, @)]
  ELSE soFar

\* _walk_dir at each depth, of the directory d: its entries one after the other
WalkDir(parent, entry, peer) ==
  LET walk[depth \in 0..MaxDepth] ==
        [d \in Entries |-> [checked \in 0..MaxCandidates |->
          LET look[e \in 0..MaxEntries] ==
                IF e = 0 THEN Missed(checked)
                ELSE IF parent[e] # d \/ Ended(look[e - 1]) THEN look[e - 1]
                ELSE CheckEntry(entry, peer, e, depth, look[e - 1],
                                walk[depth + 1][e][look[e - 1].checked])
          IN look[MaxEntries]]]
  IN walk

\* _scan_candidates: a search directory is walked even if it is a repository.
Scan(parent, entry, peer) ==
  LET walk == WalkDir(parent, entry, peer)
      search[d \in 0..MaxEntries] ==
        IF d = 0 THEN Missed(0)
        ELSE IF parent[d] # 0 \/ Ended(search[d - 1]) \/ entry[d].kind \notin {"dir", "repo"}
          THEN search[d - 1]
        ELSE walk[0][d][search[d - 1].checked]
  IN search[MaxEntries]

\* locate_matching_repo: cached_root and the repository around the working
\* directory are each a place or None, and count only if native to this side.
Locate(parent, entry, peer, cached, cwd) ==
  LET At(place) == IF place = None THEN None
                   ELSE IF place.native THEN CheckRepo(place.entry, peer) ELSE None
      scan == Scan(parent, entry, peer)
  IN IF At(cached) # None THEN [entry |-> cached.entry, by |-> At(cached)]
     ELSE IF At(cwd) # None THEN [entry |-> cwd.entry, by |-> At(cwd)]
     ELSE [entry |-> IF scan.root = None THEN None ELSE entry[scan.root], by |-> scan.by]

----
\* The repositories the search may look at: below a search directory, within
\* the depth, and reached through readable directories that are no repository.
Reachable(parent, entry) ==
  LET depth[e \in Entries] == IF parent[e] = 0 THEN 0 ELSE depth[parent[e]] + 1
      open[e \in Entries] == IF parent[e] = 0 THEN entry[e].kind \in {"dir", "repo"}
                             ELSE entry[e].kind = "dir" /\ open[parent[e]]
  IN {e \in Entries : /\ parent[e] # 0 /\ entry[e].kind = "repo"
                      /\ depth[e] <= MaxDepth + 1 /\ open[parent[e]]}

\* The search finds the first match among the first MaxCandidates reachable
\* repositories, in the order of the directories and of the names in them, and
\* looks at no repository beyond that.
ScanFindsFirst(parent, entry, peer) ==
  LET reachable == Reachable(parent, entry)
      place(e) == Cardinality({d \in reachable : d <= e})
      looked == {e \in reachable : place(e) <= MaxCandidates}
      hits == {e \in looked : CheckRepo(entry[e], peer) # None}
      scan == Scan(parent, entry, peer)
  IN IF hits = {} THEN scan = Missed(Cardinality(looked))
     ELSE scan = Walked(Min(hits), CheckRepo(entry[Min(hits)], peer), place(Min(hits)))

\* The clone that the peer has located passes the check that connect makes for
\* itself, from the other side, and for the same reason.
LocatedIsAccepted(parent, entry, peer, cached, cwd) ==
  LET result == Locate(parent, entry, peer, cached, cwd)
  IN result.by # None => MatchIdentity(peer, result.entry.id) = result.by
====
