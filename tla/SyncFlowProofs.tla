---- MODULE SyncFlowProofs ----
(***************************************************************************)
(* SyncFlow is well-typed, for every set of paths and of contents, both      *)
(* runners, any number of edits, with or without failures and concurrent    *)
(* work; and lemmas about what its commands compute.                        *)
(***************************************************************************)
EXTENDS SyncFlow, FiniteSetTheorems, TLAPS

\* A status listing has an entry for every path, whatever it is made from.
LEMMA StatusType ==
  ASSUME NEW h, NEW i, NEW w
  PROVE  GitStatus(h, i, w) \in Status
<1>1. \A rs, p : IndexColumn(h, i, rs, p) \in Columns
  BY DEF IndexColumn, Columns
<1>2. \A p : WorktreeColumn(i, w, p) \in Columns
  BY DEF WorktreeColumn, Columns
<1> QED BY <1>1, <1>2 DEF GitStatus, Status, Entry

\* Overlaying a tree on a tree gives a tree ...
LEMMA OverlayType ==
  ASSUME NEW tree \in Tree, NEW from \in Tree, NEW S
  PROVE  Overlay(tree, S, from) \in Tree
BY DEF Overlay, Tree

\* ... that differs from the first only within the overlaid set.
LEMMA OverlayChange ==
  ASSUME NEW tree \in Tree, NEW from, NEW S, NEW p \in Paths,
         Overlay(tree, S, from)[p] # tree[p]
  PROVE  p \in S
BY DEF Overlay

\* Nothing at all is a tree, and no listing is a listing.
LEMMA EmptyTypes == EmptyTree \in Tree /\ EmptyStatus \in Status
BY DEF EmptyTree, Tree, File, EmptyStatus, Status, Entry, NoEntry, Quiet, Columns

\* The process that is not running is well-formed.
LEMMA NoCommandType == NoCommand \in Command
BY EmptyTypes DEF NoCommand, Command, Steps, Directions

\* So is the request that nobody has sent.
LEMMA NoRequestType == NoRequest \in Request
BY DEF NoRequest, Request

\* The path sets that are read off a listing.
LEMMA ListingTypes ==
  ASSUME NEW status \in Status
  PROVE  /\ Listed(status) \subseteq Paths
         /\ LiveIn(status) \subseteq Listed(status)
         /\ DeletedIn(status) \subseteq Listed(status)
         /\ DirtyIn(status) \subseteq Paths
<1>1. Quiet \notin DeletedCodes
  BY DEF Quiet, DeletedCodes
<1>2. ASSUME NEW p \in Paths, p \in LiveIn(status) PROVE p \in Listed(status)
  BY <1>2, Zenon DEF LiveIn, Listed
<1>3. ASSUME NEW p \in Paths, p \in DeletedIn(status) PROVE p \in Listed(status)
  BY <1>1, <1>3 DEF DeletedIn, Listed
<1> QED BY <1>2, <1>3 DEF Listed, LiveIn, DeletedIn, DirtyIn

\* Source and destination of a command are clones.
LEMMA SidesType ==
  ASSUME NEW r \in Sides
  PROVE  Source(r) \in Sides /\ Dest(r) \in Sides /\ Other(r) \in Sides
<1>1. \A s \in Sides : Other(s) \in Sides
  BY DEF Sides, Other
<1>2. Source(r) \in Sides
  BY <1>1 DEF Source
<1> QED BY <1>1, <1>2 DEF Dest

\* Whatever a clone holds, a status of it is a listing.
LEMMA StatusOfType == \A s : StatusOf(s) \in Status
BY StatusType DEF StatusOf

\* A command that moves to a well-formed process state leaves cmd well-formed.
LEMMA BecomeType ==
  ASSUME TypeOK, NEW r \in Sides, NEW c \in Command, Become(r, c)
  PROVE  cmd' \in [Sides -> Command]
BY DEF TypeOK, Become

\* A request left behind names paths that the command planned for.
LEMMA SentType ==
  ASSUME NEW r \in Sides, cmd[r] \in Command
  PROVE  /\ Sent(r) \in Request
         /\ Sent(r).call = "restore" => Sent(r).paths = RestorePaths(cmd[r])
         /\ Sent(r).call \in {"status", "delete"} => Sent(r).paths \subseteq DeletePaths(cmd[r])
         /\ Sent(r).call = "manifest" => Sent(r).paths = cmd[r].next
<1> DEFINE c == cmd[r]
<1>1. /\ RestorePaths(c) \subseteq Paths
      /\ DeletePaths(c) \subseteq Paths
      /\ Doomed(c) \subseteq DeletePaths(c)
      /\ c.next \subseteq Paths
  BY DEF RestorePaths, WtDeletedIn, DirtyIn, DeletePaths, SourceDeleted, DeletedIn,
         OrphanedUntracked, UntrackedIn, Doomed, Command
<1>2. CASE c.pc = "restore"
  BY <1>1, <1>2 DEF Sent, Request
<1>3. CASE c.pc = "peerStatus"
  BY <1>1, <1>3 DEF Sent, Request
<1>4. CASE c.pc = "delete"
  BY <1>1, <1>4 DEF Sent, Request
<1>5. CASE c.pc \notin {"restore", "peerStatus", "delete"}
  BY <1>1, <1>5 DEF Sent, Request
<1> QED BY <1>2, <1>3, <1>4, <1>5

----
\* TypeOK holds of every reachable state: each process keeps well-formed
\* snapshots, and the trees stay total functions.
THEOREM TypeCorrect == Spec => []TypeOK
<1>1. Init => TypeOK
  <2> SUFFICES ASSUME Init PROVE TypeOK
    OBVIOUS
  <2>1. head \in [Sides -> Tree] /\ index = head /\ wt = head
    BY DEF Init
  <2>2. late \in [Sides -> Request]
    BY NoRequestType DEF Init
  <2> QED BY <2>1, <2>2, NoCommandType DEF Init, TypeOK
<1>2. TypeOK /\ [Next]_vars => TypeOK'
  <2> SUFFICES ASSUME TypeOK, [Next]_vars PROVE TypeOK'
    OBVIOUS
  <2>0. ASSUME NEW r \in Sides
        PROVE  /\ Source(r) \in Sides /\ Dest(r) \in Sides /\ Other(r) \in Sides
               /\ cmd[r] \in Command
    BY SidesType DEF TypeOK
  <2>1. ASSUME NEW r \in Sides, Start(r) PROVE TypeOK'
    <3>1. PICK d \in Directions, f \in Forcing :
            Become(r, [NoCommand EXCEPT !.pc = "readSource", !.direction = d, !.force = f])
      BY <2>1 DEF Start
    <3>2. [NoCommand EXCEPT !.pc = "readSource", !.direction = d, !.force = f] \in Command
      BY NoCommandType, ForcingAssumption DEF Command, Steps
    <3> QED BY <2>1, <3>1, <3>2, BecomeType DEF Start, TypeOK, repos
  <2>2. ASSUME NEW r \in Sides, ReadSource(r) PROVE TypeOK'
    <3> DEFINE c == [cmd[r] EXCEPT !.src = StatusOf(Source(r)), !.pc = "readDest"]
    <3>1. cmd[r] \in Command /\ StatusOf(Source(r)) \in Status
      BY <2>0, StatusOfType
    <3>2. c \in Command
      BY <3>1 DEF Command, Steps
    <3> QED BY <2>2, <3>2, BecomeType DEF ReadSource, TypeOK, repos
  <2>3. ASSUME NEW r \in Sides, ReadDest(r) PROVE TypeOK'
    <3>1. cmd[r] \in Command /\ StatusOf(Dest(r)) \in Status
      BY <2>0, StatusOfType
    <3>2. ASSUME NEW pc \in {"readLocal", "printSource"}
          PROVE  [cmd[r] EXCEPT !.dst = StatusOf(Dest(r)), !.pc = pc] \in Command
      BY <3>1 DEF Command, Steps
    <3> QED BY <2>3, <3>2, BecomeType DEF ReadDest, TypeOK, repos
  <2>4. ASSUME NEW r \in Sides, PrintSource(r) PROVE TypeOK'
    <3> DEFINE c == [cmd[r] EXCEPT !.pc = "printDest",
                   !.prints = Overlay(EmptyTree, Overlap(cmd[r]), wt[Source(r)])]
    <3>1. cmd[r] \in Command /\ Overlay(EmptyTree, Overlap(cmd[r]), wt[Source(r)]) \in Tree
      BY <2>0, EmptyTypes, OverlayType DEF TypeOK
    <3>2. c \in Command
      BY <3>1 DEF Command, Steps
    <3> QED BY <2>4, <3>2, BecomeType DEF PrintSource, TypeOK, repos
  <2>5. ASSUME NEW r \in Sides, PrintDest(r) PROVE TypeOK'
    <3> DEFINE conflicts == Conflicts(cmd[r], cmd[r].prints, wt[Dest(r)])
               c == [cmd[r] EXCEPT !.pc = "readLocal", !.prints = EmptyTree,
                      !.conflicts = conflicts]
    <3>1. cmd[r] \in Command /\ conflicts \subseteq Paths
      BY <2>0 DEF Conflicts, Overlap, Listed
    <3> HIDE DEF conflicts
    <3>2. c \in Command
      BY <3>1, EmptyTypes DEF Command, Steps
    <3> USE DEF conflicts
    <3> QED BY <2>5, <3>2, BecomeType DEF PrintDest, TypeOK, repos
  <2>6. ASSUME NEW r \in Sides, ReadLocal(r) PROVE TypeOK'
    <3> DEFINE c == [cmd[r] EXCEPT !.known = manifest[r], !.pc = "readPeer"]
    <3>1. cmd[r] \in Command /\ manifest[r] \in SUBSET Paths
      BY <2>0 DEF TypeOK
    <3>2. c \in Command
      BY <3>1 DEF Command, Steps
    <3> QED BY <2>6, <3>2, BecomeType DEF ReadLocal, TypeOK, repos
  <2>7. ASSUME NEW r \in Sides, ReadPeer(r) PROVE TypeOK'
    <3> DEFINE c == [cmd[r] EXCEPT !.known = @ \cup manifest[Other(r)],
                      !.dirty = DirtyIn(cmd[r].dst), !.pc = "restore"]
    <3>1. /\ cmd[r] \in Command
          /\ DirtyIn(cmd[r].dst) \subseteq Paths
          /\ cmd[r].known \cup manifest[Other(r)] \subseteq Paths
      BY <2>0 DEF DirtyIn, TypeOK, Command
    <3>2. c \in Command
      BY <3>1 DEF Command, Steps
    <3> QED BY <2>7, <3>2, NoCommandType, BecomeType DEF ReadPeer, TypeOK, repos
  <2>8. ASSUME NEW r \in Sides, Restore(r) PROVE TypeOK'
    <3>1. wt' \in [Sides -> Tree]
      BY <2>0, <2>8, OverlayType, EmptyTypes DEF Restore, TypeOK
    <3>2. cmd[r] \in Command
      BY <2>0
    <3>3. ASSUME NEW pc \in {"delete", "peerStatus"}
          PROVE  [cmd[r] EXCEPT !.pc = pc] \in Command
      BY <3>2 DEF Command, Steps
    <3> QED BY <2>8, <3>1, <3>3, BecomeType DEF Restore, TypeOK
  <2>9. ASSUME NEW r \in Sides, PeerStatus(r) PROVE TypeOK'
    <3> DEFINE c == [cmd[r] EXCEPT !.dirty = DirtyIn(StatusOf(Dest(r))), !.pc = "delete"]
    <3>1. cmd[r] \in Command /\ DirtyIn(StatusOf(Dest(r))) \subseteq Paths
      BY <2>0 DEF DirtyIn
    <3>2. c \in Command
      BY <3>1 DEF Command, Steps
    <3> QED BY <2>9, <3>2, BecomeType DEF PeerStatus, TypeOK, repos
  <2>10. ASSUME NEW r \in Sides, Delete(r) PROVE TypeOK'
    <3>1. wt' \in [Sides -> Tree]
      BY <2>0, <2>10, OverlayType, EmptyTypes DEF Delete, TypeOK
    <3>2. cmd[r] \in Command
      BY <2>0
    <3>3. ASSUME NEW pc \in {"copy"}
          PROVE  [cmd[r] EXCEPT !.pc = pc] \in Command
      BY <3>2 DEF Command, Steps
    <3> QED BY <2>10, <3>1, <3>3, BecomeType DEF Delete, TypeOK
  <2>11. ASSUME NEW r \in Sides, Copy(r) PROVE TypeOK'
    <3>1. wt' \in [Sides -> Tree]
      BY <2>0, <2>11, OverlayType, EmptyTypes DEF Copy, TypeOK
    <3>2. cmd[r] \in Command
      BY <2>0
    <3>3. ASSUME NEW pc \in {"readAfter"}
          PROVE  [cmd[r] EXCEPT !.pc = pc] \in Command
      BY <3>2 DEF Command, Steps
    <3> QED BY <2>11, <3>1, <3>3, BecomeType DEF Copy, TypeOK
  <2>12. ASSUME NEW r \in Sides, CopyFails(r) PROVE TypeOK'
    <3>1. wt' \in [Sides -> Tree]
      BY <2>0, <2>12, OverlayType, EmptyTypes DEF CopyFails, TypeOK
    <3> QED BY <2>12, <3>1, NoCommandType, BecomeType DEF CopyFails, TypeOK
  <2>13. ASSUME NEW r \in Sides, ReadAfter(r) PROVE TypeOK'
    <3> DEFINE next == NextManifest(cmd[r], StatusOf(Dest(r)))
               c == [cmd[r] EXCEPT !.next = next, !.pc = "writeLocal"]
    <3>1. cmd[r] \in Command /\ next \subseteq Paths
      BY <2>0 DEF NextManifest, LiveIn, Listed
    <3> HIDE DEF next
    <3>2. c \in Command
      BY <3>1 DEF Command, Steps
    <3> USE DEF next
    <3> QED BY <2>13, <3>2, BecomeType DEF ReadAfter, TypeOK, repos
  <2>14. ASSUME NEW r \in Sides, WriteLocal(r) PROVE TypeOK'
    <3>1. manifest' \in [Sides -> SUBSET Paths]
      BY <2>0, <2>14 DEF WriteLocal, TypeOK, Command
    <3>2. cmd[r] \in Command
      BY <2>0
    <3>3. [cmd[r] EXCEPT !.pc = "writePeer"] \in Command
      BY <3>2 DEF Command, Steps
    <3> QED BY <2>14, <3>1, <3>3, BecomeType DEF WriteLocal, TypeOK, repos
  <2>15. ASSUME NEW r \in Sides, WritePeer(r) PROVE TypeOK'
    <3>1. manifest' \in [Sides -> SUBSET Paths]
      BY <2>0, <2>15 DEF WritePeer, TypeOK, Command
    <3> QED BY <2>15, <3>1, NoCommandType, BecomeType DEF WritePeer, TypeOK, repos
  <2>16. ASSUME NEW r \in Sides, TornWrite(r) PROVE TypeOK'
    <3>1. manifest' \in [Sides -> SUBSET Paths]
      BY <2>0, <2>16 DEF TornWrite, TypeOK
    <3> QED BY <2>16, <3>1, NoCommandType, BecomeType DEF TornWrite, TypeOK, repos
  <2>17. ASSUME NEW r \in Sides, Abort(r) PROVE TypeOK'
    BY <2>17, NoCommandType, BecomeType DEF Abort, TypeOK, repos
  <2>18. ASSUME NEW r \in Sides, Killed(r) PROVE TypeOK'
    <3>1. Sent(r) \in Request
      BY <2>0, SentType
    <3>2. late' \in [Sides -> Request]
      BY <2>18, <3>1 DEF Killed, TypeOK
    <3> QED BY <2>18, <3>2, NoCommandType, BecomeType DEF Killed, TypeOK, repos
  <2>19. ASSUME NEW r \in Sides, Late(r) PROVE TypeOK'
    <3>0. late[r] \in Request /\ Other(r) \in Sides
      BY <2>0 DEF TypeOK
    <3>1. CASE LateRestore(r)
      <4>1. wt' \in [Sides -> Tree]
        BY <3>0, <3>1, OverlayType DEF LateRestore, TypeOK
      <4> QED BY <3>1, <4>1, NoRequestType DEF LateRestore, TypeOK
    <3>2. CASE LateStatus(r)
      <4>1. late' \in [Sides -> Request]
        BY <3>0, <3>2 DEF LateStatus, TypeOK, Request
      <4> QED BY <3>2, <4>1 DEF LateStatus, TypeOK, repos
    <3>3. CASE LateDelete(r)
      <4>1. wt' \in [Sides -> Tree]
        BY <3>0, <3>3, OverlayType, EmptyTypes DEF LateDelete, TypeOK
      <4> QED BY <3>3, <4>1, NoRequestType DEF LateDelete, TypeOK
    <3>4. CASE LateWrite(r)
      <4>1. manifest' \in [Sides -> SUBSET Paths]
        BY <3>0, <3>4 DEF LateWrite, TypeOK, Request
      <4> QED BY <3>4, <4>1, NoRequestType DEF LateWrite, TypeOK, repos
    <3> QED BY <2>19, <3>1, <3>2, <3>3, <3>4 DEF Late
  <2>20. ASSUME NEW s \in Sides, User(s) PROVE TypeOK'
    <3>1. edits' \in Nat
      BY <2>20 DEF User, Edit, GitAdd, GitRmCached, GitRestore, GitCommit, MayEdit, TypeOK
    <3>2. CASE GitCommit(s)
      BY <3>1, <3>2 DEF GitCommit, TypeOK
    <3>3. ASSUME NEW p \in Paths, Edit(s, p) PROVE TypeOK'
      BY <3>1, <3>3 DEF Edit, TypeOK, Tree
    <3>4. ASSUME NEW p \in Paths, GitAdd(s, p) PROVE TypeOK'
      BY <3>1, <3>4 DEF GitAdd, TypeOK, Tree
    <3>5. ASSUME NEW p \in Paths, GitRmCached(s, p) PROVE TypeOK'
      BY <3>1, <3>5 DEF GitRmCached, TypeOK, Tree, File
    <3>6. ASSUME NEW p \in Paths, GitRestore(s, p) PROVE TypeOK'
      BY <3>1, <3>6 DEF GitRestore, TypeOK, Tree
    <3> QED BY <2>20, <3>2, <3>3, <3>4, <3>5, <3>6 DEF User
  <2>21. CASE UNCHANGED vars
    BY <2>21 DEF vars, repos, TypeOK
  <2> QED
    BY <2>1, <2>2, <2>3, <2>4, <2>5, <2>6, <2>7, <2>8, <2>9, <2>10, <2>11, <2>12,
       <2>13, <2>14, <2>15, <2>16, <2>17, <2>18, <2>19, <2>20, <2>21 DEF Next, Step
<1> QED BY <1>1, <1>2, PTL DEF Spec
----
\* What a command plans for its destination is among what it has read: the
\* source listing, the manifests, and what the destination itself has deleted.
LEMMA PlanWithinReads ==
  ASSUME NEW c \in Command
  PROVE  /\ CopyPaths(c) \subseteq Listed(c.src)
         /\ DeletePaths(c) \subseteq Listed(c.src) \cup c.known
         /\ RestorePaths(c) \subseteq c.known \cup WtDeletedIn(c.dst)
         /\ \A after \in Status : NextManifest(c, after) \subseteq Listed(c.src) \cup c.known
<1>1. c.src \in Status
  BY DEF Command
<1>2. DeletedIn(c.src) \subseteq Listed(c.src) /\ LiveIn(c.src) \subseteq Listed(c.src)
  BY <1>1, ListingTypes
<1> QED
  BY <1>2 DEF CopyPaths, DeletePaths, RestorePaths, NextManifest, SourceDeleted,
              OrphanedUntracked, Orphaned

\* A command forgets everything when it ends.
LEMMA NoCommandListsNothing ==
  Listed(NoCommand.src) = {} /\ NoCommand.known = {} /\ NoCommand.next = {}
BY DEF NoCommand, Listed, EmptyStatus, NoEntry

----
\* Of finitely many paths there is a largest matching of renames: git pairs up
\* removed and added paths only.
LEMMA RenamesArePairs ==
  ASSUME NEW h, NEW i
  PROVE  Renames(h, i) \subseteq RenamePairs(h, i)
<1> DEFINE pairs == RenamePairs(h, i)
           Matching(m) == \A a, b \in m : (a[1] = b[1] \/ a[2] = b[2]) => a = b
           matchings == {m \in SUBSET pairs : Matching(m)}
           rests == {pairs \ m : m \in matchings}
<1>1. IsFiniteSet(pairs)
  <2>1. pairs \subseteq Paths \X Paths
    BY DEF RenamePairs
  <2>2. IsFiniteSet(Paths \X Paths)
    BY PathsAssumption, FS_Product
  <2> QED BY <2>1, <2>2, FS_Subset
<1>2. rests \subseteq FiniteSubsetsOf(pairs) /\ rests # {}
  <2>1. {} \in matchings
    OBVIOUS
  <2>2. \A rest \in SUBSET pairs : IsFiniteSet(rest)
    BY <1>1, FS_Subset
  <2>3. rests \subseteq SUBSET pairs
    OBVIOUS
  <2>4. rests # {}
    <3>1. \A m \in matchings : pairs \ m \in rests
      OBVIOUS
    <3> HIDE DEF matchings, rests
    <3> QED BY <2>1, <3>1
  <2>5. rests \subseteq FiniteSubsetsOf(pairs)
    <3> HIDE DEF pairs, rests
    <3> QED BY <2>2, <2>3 DEF FiniteSubsetsOf
  <2> QED BY <2>4, <2>5
<1>3. PICK rest \in rests : \A other \in rests : ~ (<<other, rest>> \in StrictSubsetOrdering(pairs))
  BY <1>2, FS_StrictSubsetOrderingWellFounded, WFMin
<1>4. PICK m \in matchings : rest = pairs \ m
  OBVIOUS
<1>5. ASSUME NEW n \in matchings, m \subseteq n PROVE n = m
  <2>1. ~ (<<pairs \ n, pairs \ m>> \in StrictSubsetOrdering(pairs))
    BY <1>3, <1>4
  <2> QED BY <1>5, <2>1 DEF StrictSubsetOrdering
<1>6. Renames(h, i) \in matchings
  BY <1>5 DEF Renames
<1> QED BY <1>6
====
