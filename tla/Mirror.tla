---- MODULE Mirror ----
(***************************************************************************)
(* What a sync comes to if nothing disturbs it: the sync rules of README,    *)
(* one step for the whole command, the same for a fetch and for the send of *)
(* the other side that mirrors the same worktree onto the same clone.       *)
(***************************************************************************)
EXTENDS GitRepo

Sides == {"wsl", "win"}
Other(s) == IF s = "wsl" THEN "win" ELSE "wsl"

VARIABLES
  head, index, wt,  \* the two repositories
  tracked,          \* the pair's mirrored paths
  request           \* the sync that has been asked for

Request == [from: Sides, force: BOOLEAN]
NoRequest == [from |-> "none", force |-> FALSE]

Init ==
  /\ \E tree \in Tree : head = [s \in Sides |-> tree]
  /\ index = head /\ wt = head
  /\ tracked = {}
  /\ request = NoRequest

StatusOf(s) == GitStatus(head[s], index[s], wt[s])

\* Paths dirty on both sides, with different content
Conflicting(from) ==
  {p \in Listed(StatusOf(from)) \cap Listed(StatusOf(Other(from))) :
     wt[from][p] # wt[Other(from)][p]}

\* The paths to be copied; git takes one that is staged and then deleted for
\* changed, and there is nothing to copy.
Changed(from) == Listed(StatusOf(from)) \ DeletedIn(StatusOf(from))
Copyable(from) == \A p \in Changed(from) : wt[from][p] # Absent

\* The file that a clean path of the source has in the destination afterwards:
\* what is orphaned goes back to the index or goes away, what the destination
\* has deleted comes back, the rest is not touched.
Reconciled(to, p, orphaned) ==
  LET dst == StatusOf(to) IN
  IF p \in WtDeletedIn(dst) \/ (orphaned /\ p \in DirtyIn(dst) /\ index[to][p] # Absent)
  THEN index[to][p]
  ELSE IF orphaned /\ p \in UntrackedIn(dst) \ DirtyIn(dst) THEN Absent ELSE wt[to][p]

\* The destination's worktree afterwards
Mirrored(from) ==
  LET to == Other(from) IN
  [p \in Paths |->
     IF p \in DeletedIn(StatusOf(from))
     THEN IF p \in DirtyIn(StatusOf(to)) THEN wt[to][p] ELSE Absent
     ELSE IF p \in Changed(from) /\ wt[from][p] # Absent THEN wt[from][p]
     ELSE Reconciled(to, p, p \in tracked \ Listed(StatusOf(from)))]

Ask ==
  /\ request = NoRequest /\ request' \in Request
  /\ UNCHANGED <<head, index, wt, tracked>>

Refuse(from) ==
  /\ request = [from |-> from, force |-> FALSE] /\ request' = NoRequest
  /\ Conflicting(from) # {}
  /\ UNCHANGED <<head, index, wt, tracked>>

\* A sync whose copy fails has changed the worktree and not what is tracked.
Sync(from) ==
  LET to == Other(from) IN
  /\ request.from = from /\ request' = NoRequest
  /\ request.force \/ Conflicting(from) = {}
  /\ wt' = [wt EXCEPT ![to] = Mirrored(from)]
  /\ tracked' =
       IF Copyable(from)
       THEN LiveIn(StatusOf(from)) \cup
              ((tracked \ Listed(StatusOf(from))) \cap Listed(StatusOf(to))')
       ELSE tracked
  /\ UNCHANGED <<head, index>>

\* A user works in one of the repositories.
Work ==
  /\ request = NoRequest
  /\ \E s \in Sides :
       /\ head'[s] = head[s] /\ index'[s] = index[s] /\ wt'[s] = wt[s]
  /\ UNCHANGED <<tracked, request>>

Next == Ask \/ Work \/ \E from \in Sides : Refuse(from) \/ Sync(from)

Spec == Init /\ [][Next]_<<head, index, wt, tracked, request>>
====
