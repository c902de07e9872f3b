---- MODULE SyncOutcomeProofs ----
(***************************************************************************)
(* Theorems about SyncOutcome, for every set of paths and of contents, any  *)
(* number of edits and commands of both sides: as long as users do not work *)
(* while a command runs, and the commands of the two sides do not overlap.  *)
(* First what a sync keeps, though its steps may fail; then that a sync     *)
(* that nothing disturbs and in which nothing fails does to its destination *)
(* what README promises, and is a refinement of Mirror.  To repeat it       *)
(* changes nothing.                                                         *)
(***************************************************************************)
EXTENDS SyncOutcome, SyncFlowProofs

\* The commands of the two sides do not overlap.
OneAtATime == \E r \in Sides : cmd[r].pc = "idle"

\* Nobody works while a command runs, and no command is killed in a request.
Calm == ~ConcurrentEdits /\ Lingering = {}

----
\* What an entry of a listing says depends on the file of its own path only.
LEMMA EntryOfPath ==
  ASSUME NEW h, NEW i, NEW v, NEW w, NEW p \in Paths, v[p] = w[p]
  PROVE  GitStatus(h, i, v)[p] = GitStatus(h, i, w)[p]
BY DEF GitStatus, WorktreeColumn

\* Work that is not committed is listed.
LEMMA UnsavedIsListed ==
  ASSUME NEW s, NEW p \in Paths, Unsaved(s, p)
  PROVE  p \in Listed(StatusOf(s))
<1> DEFINE h == head[s]  i == index[s]  w == wt[s]
<1> SUFFICES ASSUME StatusOf(s)[p].xy = Quiet, ~StatusOf(s)[p].new PROVE FALSE
  BY DEF Listed
<1>1. /\ IndexColumn(h, i, Renames(h, i), p) = " " /\ WorktreeColumn(i, w, p) = " "
      /\ i[p] # Absent
  BY DEF StatusOf, GitStatus, Quiet, Unsaved
<1>2. w[p] = i[p]
  BY <1>1 DEF WorktreeColumn
<1>3. h[p] = i[p] \/ \E pair \in Renames(h, i) : pair[1] = p
  BY <1>1 DEF IndexColumn
<1>4. \A pair \in Renames(h, i) : i[pair[1]] = Absent
  BY RenamesArePairs DEF RenamePairs
<1> QED BY <1>1, <1>2, <1>3, <1>4 DEF Unsaved

\* A file that is listed as deleted from the worktree is as it was committed in
\* the index.
LEMMA DeletedIsCommitted ==
  ASSUME NEW s, NEW p \in WtDeletedIn(StatusOf(s))
  PROVE  p \in Paths /\ wt[s][p] = Absent /\ index[s][p] # Absent /\ head[s][p] = index[s][p]
<1> DEFINE h == head[s]  i == index[s]  w == wt[s]
<1>1. /\ p \in Paths
      /\ IndexColumn(h, i, Renames(h, i), p) = " " /\ WorktreeColumn(i, w, p) = "D"
  BY DEF WtDeletedIn, StatusOf, GitStatus
<1>2. i[p] # Absent /\ w[p] = Absent
  BY <1>1 DEF WorktreeColumn
<1>3. h[p] = i[p] \/ \E pair \in Renames(h, i) : pair[1] = p
  BY <1>1 DEF IndexColumn
<1>4. \A pair \in Renames(h, i) : i[pair[1]] = Absent
  BY RenamesArePairs DEF RenamePairs
<1> QED BY <1>1, <1>2, <1>3, <1>4

----
\* History variables record and never constrain.
THEOREM OutcomeRefines == OSpec => Spec
<1>1. OInit => Init
  BY DEF OInit
<1>2. [ONext]_ovars => [Next]_vars
  BY DEF ONext, Next, ovars
<1> QED BY <1>1, <1>2, PTL DEF OSpec, Spec

\* The states of SyncOutcome are well-typed, as those of SyncFlow are.
LEMMA OutcomeTypeCorrect == OSpec => []TypeOK
BY OutcomeRefines, TypeCorrect, PTL

\* The command on r writes one clone and reads the other.
LEMMA TwoClones ==
  ASSUME NEW r \in Sides
  PROVE  /\ Source(r) \in Sides /\ Dest(r) \in Sides /\ Source(r) # Dest(r)
         /\ Other(r) \in Sides /\ Other(r) # r
         /\ \A s \in Sides : s = Source(r) \/ s = Dest(r)
         /\ \A s \in Sides : s = r \/ s = Other(r)
<1>1. Source(r) \in Sides
  BY DEF Source, Other, Sides
<1> QED BY <1>1 DEF Dest, Other, Sides

\* When no request is ever left behind, none is there.
NoLate == \A r \in Sides : late[r] = NoRequest

\* Where no command is killed, no request is left behind.
LEMMA NothingLate ==
  ASSUME Calm
  PROVE  OSpec => []NoLate
<1>1. OInit => NoLate
  BY DEF OInit, Init, NoLate
<1>2. NoLate /\ [ONext]_ovars => NoLate'
  <2> SUFFICES ASSUME NoLate, [ONext]_ovars PROVE NoLate'
    OBVIOUS
  <2>1. ASSUME NEW s \in Sides, Start(s) \/ Step(s) \/ User(s) PROVE late' = late
    BY <2>1 DEF Calm, Start, Step, ReadSource, ReadDest, PrintSource, PrintDest, ReadLocal,
       ReadPeer, Restore, PeerStatus, Delete, Copy, CopyFails, ReadAfter, WriteLocal, WritePeer,
       TornWrite, Abort, Killed, User, Edit, GitAdd, GitRmCached, GitRestore, GitCommit
  <2>2. ASSUME NEW s \in Sides, Late(s) PROVE FALSE
    BY <2>2 DEF NoLate, NoRequest, Late, LateRestore, LateStatus, LateDelete, LateWrite
  <2>3. CASE UNCHANGED ovars
    BY <2>3 DEF ovars, vars, NoLate
  <2> QED BY <2>1, <2>2, <2>3 DEF ONext, NoLate
<1> QED BY <1>1, <1>2, PTL DEF OSpec

----
\* What a command has read, and will use again, is still so: nothing but the
\* command changes its destination, and nothing at all its source.
Fresh(r) ==
  LET c == cmd[r]
      s == Source(r)
      d == Dest(r)
  IN
  /\ c.pc \notin {"idle", "readSource"} => c.src = StatusOf(s)
  /\ c.pc \in {"printSource", "printDest", "readLocal", "readPeer", "restore"} =>
       c.dst = StatusOf(d)
  /\ c.pc \in {"readSource", "readDest"} => c.conflicts = {}
  /\ c.pc = "printDest" => c.prints = Overlay(EmptyTree, Overlap(c), wt[s])
  /\ c.pc \in {"readLocal", "readPeer"} =>
       c.conflicts = {p \in Overlap(c) : wt[s][p] # wt[d][p]}
  /\ c.pc = "writeLocal" => c.next = NextManifest(c, StatusOf(d))

\* Once an unforced command has got past its conflicts, the source has an equal
\* copy of the destination's unsaved work at any path it is to mirror.
NoConflictLeft(r) ==
  cmd[r].pc \in {"restore", "peerStatus", "delete", "copy", "readAfter", "writeLocal"}
    /\ ~cmd[r].force =>
    \A p \in Listed(cmd[r].src) :
      Unsaved(Dest(r), p) => wt[Dest(r)][p] = wt[Source(r)][p]

\* Become moves one process and no other.
LEMMA Became ==
  ASSUME TypeOK, NEW r \in Sides, NEW c, Become(r, c)
  PROVE  cmd'[r] = c /\ \A s \in Sides : s # r => cmd'[s] = cmd[s]
BY DEF TypeOK, Become

\* The steps that read keep the clones as they are.
LEMMA ReadsFresh ==
  ASSUME TypeOK, NEW r \in Sides, Fresh(r),
         \/ ReadSource(r) \/ ReadDest(r) \/ PrintSource(r) \/ PrintDest(r) \/ ReadLocal(r)
  PROVE  Fresh(r)' /\ NoConflictLeft(r)'
<1> DEFINE c == cmd[r]  s == Source(r)  d == Dest(r)
<1>0. c \in Command
  BY DEF TypeOK
<1>1. UNCHANGED repos
  BY DEF ReadSource, ReadDest, PrintSource, PrintDest, ReadLocal
<1>2. \A t : StatusOf(t)' = StatusOf(t)
  BY <1>1 DEF StatusOf, repos
<1>3. ASSUME c'.direction = c.direction
      PROVE  Source(r)' = s /\ Dest(r)' = d /\ wt'[s] = wt[s] /\ wt'[d] = wt[d]
  BY <1>1, <1>3 DEF Source, Dest, repos
<1>4. ASSUME ReadSource(r) PROVE Fresh(r)' /\ NoConflictLeft(r)'
  <2>0. c' = [c EXCEPT !.src = StatusOf(s), !.pc = "readDest"] /\ c.pc = "readSource"
    BY <1>4, Became DEF ReadSource
  <2>1. /\ c'.pc = "readDest" /\ c'.direction = c.direction /\ c'.src = StatusOf(s)
        /\ c'.conflicts = c.conflicts
    BY <1>0, <2>0 DEF Command
  <2> QED BY <1>2, <1>3, <2>0, <2>1 DEF Fresh, NoConflictLeft
<1>5. ASSUME ReadDest(r) PROVE Fresh(r)' /\ NoConflictLeft(r)'
  <2> DEFINE next == IF Listed(c.src) \cap Listed(StatusOf(d)) = {}
                     THEN "readLocal" ELSE "printSource"
  <2>0. c' = [c EXCEPT !.dst = StatusOf(d), !.pc = next] /\ c.pc = "readDest"
    BY <1>5, Became DEF ReadDest
  <2>1. /\ c'.pc = next /\ c'.direction = c.direction
        /\ c'.src = c.src /\ c'.dst = StatusOf(d) /\ c'.conflicts = c.conflicts
    BY <1>0, <2>0 DEF Command
  <2>2. c.conflicts = {} /\ c.src = StatusOf(s)
    BY <2>0 DEF Fresh
  <2>3. c'.pc = "readLocal" => Overlap(c') = {}
    BY <2>1 DEF Overlap
  <2> QED BY <1>2, <1>3, <2>1, <2>2, <2>3 DEF Fresh, NoConflictLeft
<1>6. ASSUME PrintSource(r) PROVE Fresh(r)' /\ NoConflictLeft(r)'
  <2> DEFINE prints == Overlay(EmptyTree, Overlap(c), wt[s])
  <2>0. c' = [c EXCEPT !.pc = "printDest", !.prints = prints] /\ c.pc = "printSource"
    BY <1>6, Became DEF PrintSource
  <2>1. /\ c'.pc = "printDest" /\ c'.direction = c.direction
        /\ c'.src = c.src /\ c'.dst = c.dst /\ c'.prints = prints
    BY <1>0, <2>0 DEF Command
  <2>2. Overlap(c') = Overlap(c)
    BY <2>1 DEF Overlap
  <2> QED BY <1>2, <1>3, <2>0, <2>1, <2>2 DEF Fresh, NoConflictLeft
<1>7. ASSUME PrintDest(r) PROVE Fresh(r)' /\ NoConflictLeft(r)'
  <2> DEFINE found == Conflicts(c, c.prints, wt[d])
  <2>0. /\ c' = [c EXCEPT !.pc = "readLocal", !.prints = EmptyTree, !.conflicts = found]
        /\ c.pc = "printDest"
    BY <1>7, Became DEF PrintDest
  <2>1. /\ c'.pc = "readLocal" /\ c'.direction = c.direction
        /\ c'.src = c.src /\ c'.dst = c.dst /\ c'.conflicts = found
    BY <1>0, <2>0 DEF Command
  <2>2. Overlap(c') = Overlap(c) /\ Overlap(c) \subseteq Paths
    BY <2>1 DEF Overlap, Listed
  <2>3. c.prints = Overlay(EmptyTree, Overlap(c), wt[s])
    BY <2>0 DEF Fresh
  <2>4. \A p \in Overlap(c) : c.prints[p] = wt[s][p]
    BY <2>2, <2>3 DEF Overlay
  <2>5. c'.conflicts = {p \in Overlap(c) : wt[s][p] # wt[d][p]}
    BY <2>1, <2>4 DEF Conflicts
  <2>6. /\ Source(r)' = s /\ Dest(r)' = d /\ wt'[s] = wt[s] /\ wt'[d] = wt[d]
    BY <1>3, <2>1
  <2>7. c'.conflicts = {p \in Overlap(c') : wt'[Source(r)'][p] # wt'[Dest(r)'][p]}
    BY <2>2, <2>5, <2>6
  <2>8. c.src = StatusOf(s) /\ c.dst = StatusOf(d)
    BY <2>0 DEF Fresh
  <2> HIDE DEF found
  <2> QED BY <1>2, <2>1, <2>6, <2>7, <2>8 DEF Fresh, NoConflictLeft
<1>8. ASSUME ReadLocal(r) PROVE Fresh(r)' /\ NoConflictLeft(r)'
  <2>0. c' = [c EXCEPT !.known = manifest[r], !.pc = "readPeer"] /\ c.pc = "readLocal"
    BY <1>8, Became DEF ReadLocal
  <2>1. /\ c'.pc = "readPeer" /\ c'.direction = c.direction
        /\ c'.src = c.src /\ c'.dst = c.dst /\ c'.conflicts = c.conflicts
    BY <1>0, <2>0 DEF Command
  <2>2. Overlap(c') = Overlap(c)
    BY <2>1 DEF Overlap
  <2> QED BY <1>2, <1>3, <2>0, <2>1, <2>2 DEF Fresh, NoConflictLeft
<1> QED BY <1>4, <1>5, <1>6, <1>7, <1>8

\* When no conflict stops an unforced command, none is left.
LEMMA ReadPeerFresh ==
  ASSUME TypeOK, NEW r \in Sides, Fresh(r), ReadPeer(r)
  PROVE  Fresh(r)' /\ NoConflictLeft(r)'
<1> DEFINE c == cmd[r]  s == Source(r)  d == Dest(r)
<1>1. CASE c'.pc = "idle"
  BY <1>1 DEF Fresh, NoConflictLeft
<1>2. CASE /\ c.conflicts = {} \/ c.force
           /\ c' = [c EXCEPT !.known = @ \cup manifest[Other(r)], !.dirty = DirtyIn(c.dst),
                             !.pc = "restore"]
  <2>1. c \in Command
    BY DEF TypeOK
  <2>2. /\ c'.pc = "restore" /\ c'.direction = c.direction /\ c'.force = c.force
        /\ c'.src = c.src /\ c'.dst = c.dst
    BY <1>2, <2>1 DEF Command
  <2>3. c.pc = "readPeer" /\ UNCHANGED repos
    BY DEF ReadPeer
  <2>4. /\ Source(r)' = s /\ Dest(r)' = d /\ \A t : StatusOf(t)' = StatusOf(t)
        /\ \A t, p : Unsaved(t, p)' = Unsaved(t, p)
    BY <2>2, <2>3 DEF Source, Dest, StatusOf, Unsaved, repos
  <2>5. /\ c.src = StatusOf(s) /\ c.dst = StatusOf(d)
        /\ c.conflicts = {p \in Overlap(c) : wt[s][p] # wt[d][p]}
    BY <2>3 DEF Fresh
  <2>6. ASSUME ~c.force, NEW p \in Listed(c.src), Unsaved(d, p)
        PROVE  wt[d][p] = wt[s][p]
    <3>1. p \in Overlap(c)
      BY <2>5, <2>6, UnsavedIsListed DEF Overlap, Listed
    <3> QED BY <1>2, <2>5, <2>6, <3>1
  <2>7. wt' = wt
    BY <2>3 DEF repos
  <2> QED BY <2>2, <2>4, <2>5, <2>6, <2>7 DEF Fresh, NoConflictLeft
<1> QED BY <1>1, <1>2, Became DEF ReadPeer, NoCommand

\* Nor do its writes make one: what is restored at a path that it mirrors is
\* what the destination has committed.
LEMMA WritesFresh ==
  ASSUME TypeOK, NEW r \in Sides, Fresh(r), NoConflictLeft(r),
         Restore(r) \/ PeerStatus(r) \/ Delete(r) \/ Copy(r) \/ ReadAfter(r) \/ WriteLocal(r)
  PROVE  Fresh(r)' /\ NoConflictLeft(r)'
<1> DEFINE c == cmd[r]
<1>0. PICK s \in Sides, d \in Sides : s = Source(r) /\ d = Dest(r) /\ s # d
  BY TwoClones
<1>1. c \in Command
  BY DEF TypeOK
<1>2. /\ c'.direction = c.direction /\ c'.force = c.force /\ c'.src = c.src
      /\ c'.pc \in {"peerStatus", "delete", "copy", "readAfter", "writeLocal", "writePeer"}
      /\ c'.pc = "writeLocal" => wt' = wt /\ c'.next = NextManifest(c', StatusOf(d))
  <2>1. CASE Restore(r)
    <3> DEFINE pc == IF DestIsLocal(r) THEN "delete" ELSE "peerStatus"
    <3>1. c' = [c EXCEPT !.pc = pc]
      BY <2>1, Became DEF Restore
    <3> QED BY <1>1, <3>1 DEF Command
  <2>2. CASE PeerStatus(r)
    <3>1. c' = [c EXCEPT !.dirty = DirtyIn(StatusOf(d)), !.pc = "delete"]
      BY <1>0, <2>2, Became DEF PeerStatus
    <3> QED BY <1>1, <3>1 DEF Command
  <2>3. CASE Delete(r)
    <3>1. c' = [c EXCEPT !.pc = "copy"]
      BY <2>3, Became DEF Delete
    <3> QED BY <1>1, <3>1 DEF Command
  <2>4. CASE Copy(r)
    <3>1. c' = [c EXCEPT !.pc = "readAfter"]
      BY <2>4, Became DEF Copy
    <3> QED BY <1>1, <3>1 DEF Command
  <2>5. CASE ReadAfter(r)
    <3> DEFINE next == NextManifest(c, StatusOf(d))
    <3>1. c' = [c EXCEPT !.next = next, !.pc = "writeLocal"] /\ wt' = wt
      BY <1>0, <2>5, Became DEF ReadAfter, repos
    <3>2. /\ c'.direction = c.direction /\ c'.force = c.force /\ c'.src = c.src
          /\ c'.known = c.known /\ c'.next = next /\ c'.pc = "writeLocal"
      BY <1>1, <3>1 DEF Command
    <3>3. c'.next = NextManifest(c', StatusOf(d))
      BY <3>2 DEF NextManifest, Orphaned
    <3> QED BY <3>1, <3>2, <3>3
  <2>6. CASE WriteLocal(r)
    <3>1. c' = [c EXCEPT !.pc = "writePeer"]
      BY <2>6, Became DEF WriteLocal
    <3> QED BY <1>1, <3>1 DEF Command
  <2> QED BY <2>1, <2>2, <2>3, <2>4, <2>5, <2>6
<1>3. /\ Source(r)' = s /\ Dest(r)' = d /\ UNCHANGED <<head, index>>
      /\ c.pc \in {"restore", "peerStatus", "delete", "copy", "readAfter", "writeLocal"}
  BY <1>0, <1>2 DEF Source, Dest, Restore, PeerStatus, Delete, Copy, ReadAfter, WriteLocal, repos
<1>4. c.src = StatusOf(s)
  BY <1>0, <1>3 DEF Fresh
<1>10. \A p \in Listed(c.src) : p \in Paths
  BY DEF Listed
<1>5. ASSUME StatusOf(s)' = StatusOf(s), wt'[s] = wt[s],
             \A p \in Listed(c.src) :
               Unsaved(d, p)' => \/ wt'[d][p] = wt[d][p]
                                \/ wt'[d][p] = wt[s][p]
      PROVE  Fresh(r)' /\ NoConflictLeft(r)'
  <2>1. c'.pc = "writeLocal" => c'.next = NextManifest(c', StatusOf(d)')
    BY <1>2, <1>3 DEF StatusOf
  <2>3. Fresh(r)'
    BY <1>0, <1>2, <1>3, <1>4, <1>5, <2>1 DEF Fresh
  <2>2. NoConflictLeft(r)'
    BY <1>0, <1>2, <1>3, <1>5 DEF NoConflictLeft, Unsaved
  <2> QED BY <2>2, <2>3
<1>6. CASE PeerStatus(r) \/ ReadAfter(r) \/ WriteLocal(r)
  <2>1. UNCHANGED repos
    BY <1>6 DEF PeerStatus, ReadAfter, WriteLocal
  <2> QED BY <1>0, <1>5, <2>1 DEF repos, StatusOf
<1>7. CASE Restore(r)
  <2>1. PICK done \in PartOf(Restorable(index[d], RestorePaths(c))) :
          wt' = [wt EXCEPT ![d] = Overlay(@, done, index[d])]
    BY <1>0, <1>7 DEF Restore
  <2>5. /\ \A p \in Paths : wt'[d][p] = IF p \in done THEN index[d][p] ELSE wt[d][p]
        /\ wt'[s] = wt[s] /\ StatusOf(s)' = StatusOf(s)
    <3>1. wt'[d] = Overlay(wt[d], done, index[d]) /\ wt'[s] = wt[s]
      BY <1>0, <2>1 DEF TypeOK
    <3> QED BY <1>3, <3>1 DEF Overlay, StatusOf
  <2>2. done \subseteq RestorePaths(c) /\ c.dst = StatusOf(d)
    BY <1>0, <1>7, <2>1 DEF PartOf, Restorable, Restore, Fresh
  <2>3. ASSUME NEW p \in Listed(c.src), p \in done PROVE ~Unsaved(d, p)'
    <3>1. p \in Paths /\ p \notin Orphaned(c)
      BY DEF Listed, Orphaned
    <3>2. p \in WtDeletedIn(StatusOf(d))
      BY <2>2, <2>3, <3>1 DEF RestorePaths
    <3>3. index[d][p] = head[d][p]
      BY <3>2, DeletedIsCommitted
    <3> QED BY <1>3, <2>5, <2>3, <3>1, <3>3 DEF Unsaved
  <2>4. \A p \in Listed(c.src) : p \notin done => wt'[d][p] = wt[d][p]
    BY <1>10, <2>5
  <2> QED BY <1>5, <2>3, <2>4, <2>5
<1>8. CASE Delete(r)
  <2>1. PICK done : wt' = [wt EXCEPT ![d] = Overlay(@, done, EmptyTree)]
    BY <1>0, <1>8 DEF Delete
  <2>2. /\ \A p \in Paths : wt'[d][p] = IF p \in done THEN EmptyTree[p] ELSE wt[d][p]
        /\ wt'[s] = wt[s] /\ StatusOf(s)' = StatusOf(s)
    <3>1. wt'[d] = Overlay(wt[d], done, EmptyTree) /\ wt'[s] = wt[s]
      BY <1>0, <2>1 DEF TypeOK
    <3> QED BY <1>3, <3>1 DEF Overlay, StatusOf
  <2>3. \A p \in Paths : wt'[d][p] = wt[d][p] \/ wt'[d][p] = Absent
    BY <2>2 DEF EmptyTree
  <2> QED BY <1>5, <1>10, <2>2, <2>3 DEF Unsaved
<1>9. CASE Copy(r)
  <2>1. wt' = [wt EXCEPT ![d] = Overlay(@, CopyPaths(c), wt[s])]
    BY <1>0, <1>9 DEF Copy
  <2>2. /\ \A p \in Paths : wt'[d][p] = IF p \in CopyPaths(c) THEN wt[s][p] ELSE wt[d][p]
        /\ wt'[s] = wt[s] /\ StatusOf(s)' = StatusOf(s)
    <3>1. wt'[d] = Overlay(wt[d], CopyPaths(c), wt[s]) /\ wt'[s] = wt[s]
      BY <1>0, <2>1 DEF TypeOK
    <3> QED BY <1>3, <3>1 DEF Overlay, StatusOf
  <2> QED BY <1>5, <1>10, <2>2
<1> QED BY <1>6, <1>7, <1>8, <1>9

\* A step of a command keeps what it has read fresh.
LEMMA StepFresh ==
  ASSUME TypeOK, NEW r \in Sides, Fresh(r), NoConflictLeft(r), Step(r)
  PROVE  Fresh(r)' /\ NoConflictLeft(r)'
<1>1. CASE Become(r, NoCommand)
  <2>1. cmd'[r].pc = "idle"
    BY <1>1, Became DEF NoCommand
  <2> QED BY <2>1 DEF Fresh, NoConflictLeft
<1> QED BY <1>1, ReadsFresh, ReadPeerFresh, WritesFresh
        DEF Step, CopyFails, WritePeer, TornWrite, Abort, Killed

\* Who takes a step: a command that runs, and then no other does, or a user or
\* the start of a command, and then no file changes under a command.
LEMMA WhoSteps ==
  ASSUME Calm, TypeOK, NoLate, OneAtATime, ONext
  PROVE  \/ \E r \in Sides : Start(r) /\ UNCHANGED <<mirrored, settled>>
         \/ \E r \in Sides : /\ Step(r) /\ RecordStep(r)
                             /\ cmd[r].pc # "idle" /\ cmd[Other(r)].pc = "idle"
         \/ \E s \in Sides : /\ User(s) /\ RecordUser
                             /\ UNCHANGED <<cmd, manifest>> /\ \A r \in Sides : cmd[r].pc = "idle"
<1>1. ASSUME NEW s \in Sides, Late(s) PROVE FALSE
  BY <1>1 DEF NoLate, NoRequest, Late, LateRestore, LateStatus, LateDelete, LateWrite
<1>2. ASSUME NEW s \in Sides, User(s)
      PROVE  UNCHANGED <<cmd, manifest>> /\ \A r \in Sides : cmd[r].pc = "idle"
  BY <1>2 DEF Calm, User, MayEdit, Edit, GitAdd, GitRmCached, GitRestore, GitCommit
<1>3. ASSUME NEW r \in Sides, Step(r)
      PROVE  cmd[r].pc # "idle" /\ cmd[Other(r)].pc = "idle"
  <2>1. cmd[r].pc # "idle"
    BY <1>3 DEF Step, ReadSource, ReadDest, PrintSource, PrintDest, ReadLocal, ReadPeer, Restore,
       PeerStatus, Delete, Copy, CopyFails, ReadAfter, WriteLocal, WritePeer, TornWrite, Abort,
       Killed
  <2> QED BY <2>1, TwoClones DEF OneAtATime
<1> QED BY <1>1, <1>2, <1>3 DEF ONext

\* What commands have read is fresh in every reachable state.
AllFresh == \A r \in Sides : Fresh(r) /\ NoConflictLeft(r)

\* As long as users and commands wait for each other, what a command has read of
\* the clones is still so.
LEMMA ReadsStayFresh ==
  ASSUME Calm
  PROVE  OSpec /\ []OneAtATime => []AllFresh
<1>1. OInit => AllFresh
  BY DEF OInit, Init, NoCommand, AllFresh, Fresh, NoConflictLeft
<1>2. TypeOK /\ NoLate /\ OneAtATime /\ AllFresh /\ [ONext]_ovars => AllFresh'
  <2> SUFFICES ASSUME TypeOK, NoLate, OneAtATime, AllFresh, [ONext]_ovars, NEW q \in Sides
               PROVE  Fresh(q)' /\ NoConflictLeft(q)'
    BY DEF AllFresh
  <2>1. ASSUME cmd'[q] = cmd[q], UNCHANGED repos PROVE Fresh(q)' /\ NoConflictLeft(q)'
    <3>1. Fresh(q) /\ NoConflictLeft(q)
      BY DEF AllFresh
    <3> QED BY <2>1, <3>1 DEF repos, Fresh, NoConflictLeft, Source, Dest, StatusOf, Unsaved
  <2>2. ASSUME cmd'[q].pc = "idle" PROVE Fresh(q)' /\ NoConflictLeft(q)'
    BY <2>2 DEF Fresh, NoConflictLeft
  <2>3. ASSUME NEW r \in Sides, Start(r) PROVE Fresh(q)' /\ NoConflictLeft(q)'
    <3>1. PICK d, f : Become(r, [NoCommand EXCEPT !.pc = "readSource", !.direction = d, !.force = f])
      BY <2>3 DEF Start
    <3>2. CASE q = r
      <4>1. cmd'[q] = [NoCommand EXCEPT !.pc = "readSource", !.direction = d, !.force = f]
        BY <3>1, <3>2, Became
      <4>2. cmd'[q].pc = "readSource" /\ cmd'[q].conflicts = {}
        BY <4>1 DEF NoCommand
      <4> QED BY <4>2 DEF Fresh, NoConflictLeft
    <3>3. CASE q # r
      BY <2>1, <2>3, <3>1, <3>3, Became DEF Start
    <3> QED BY <3>2, <3>3
  <2>4. ASSUME NEW r \in Sides, Step(r), cmd[Other(r)].pc = "idle"
        PROVE  Fresh(q)' /\ NoConflictLeft(q)'
    <3>1. CASE q = r
      BY <2>4, <3>1, StepFresh DEF AllFresh
    <3>2. CASE q # r
      <4>1. PICK c : Become(r, c)
        BY <2>4 DEF Step, ReadSource, ReadDest, PrintSource, PrintDest, ReadLocal, ReadPeer,
           Restore, PeerStatus, Delete, Copy, CopyFails, ReadAfter, WriteLocal, WritePeer,
           TornWrite, Abort, Killed
      <4>2. cmd'[q] = cmd[q] /\ q = Other(r)
        BY <3>2, <4>1, Became, TwoClones
      <4> QED BY <2>2, <2>4, <4>2
    <3> QED BY <3>1, <3>2
  <2>5. ASSUME UNCHANGED cmd, \A r \in Sides : cmd[r].pc = "idle"
        PROVE  Fresh(q)' /\ NoConflictLeft(q)'
    BY <2>2, <2>5
  <2>6. CASE UNCHANGED ovars
    BY <2>1, <2>6 DEF ovars, vars, repos
  <2> QED BY <2>3, <2>4, <2>5, <2>6, WhoSteps
<1> QED BY <1>1, <1>2, OutcomeTypeCorrect, NothingLate, PTL DEF OSpec

----
\* What an unforced command writes over is no unsaved work of which the source
\* has no copy, unless the manifests say that the path was mirrored before.
LEMMA StepKeepsUnsaved ==
  ASSUME TypeOK, NEW r \in Sides, Fresh(r), NoConflictLeft(r), Step(r), ~cmd[r].force,
         NEW p \in Paths, Unsaved(Dest(r), p), p \notin Orphaned(cmd[r])
  PROVE  wt[Dest(r)][p] \in {wt'[Dest(r)][p], wt[Source(r)][p]}
<1> DEFINE c == cmd[r]
<1>0. PICK s \in Sides, d \in Sides : s = Source(r) /\ d = Dest(r) /\ s # d
  BY TwoClones
<1>1. CASE wt' = wt
  BY <1>1
<1>2. ASSUME NEW done, NEW from, wt' = [wt EXCEPT ![d] = Overlay(@, done, from)]
      PROVE  wt'[d][p] = IF p \in done THEN from[p] ELSE wt[d][p]
  BY <1>2 DEF TypeOK, Overlay
<1>3. CASE Restore(r)
  <2>1. PICK done \in PartOf(Restorable(index[d], RestorePaths(c))) :
          wt' = [wt EXCEPT ![d] = Overlay(@, done, index[d])]
    BY <1>0, <1>3 DEF Restore
  <2>2. done \subseteq RestorePaths(c) /\ c.dst = StatusOf(d)
    BY <1>0, <1>3, <2>1 DEF PartOf, Restorable, Restore, Fresh
  <2>3. p \notin done
    <3>1. p \notin WtDeletedIn(StatusOf(d))
      BY <1>0, DeletedIsCommitted DEF Unsaved
    <3> QED BY <2>2, <3>1 DEF RestorePaths
  <2> QED BY <1>0, <1>2, <2>1, <2>3
<1>4. ASSUME c.pc \in {"delete", "copy"}, p \in Listed(c.src)
      PROVE  wt[d][p] = wt[s][p]
  BY <1>0, <1>4 DEF NoConflictLeft
<1>5. CASE Delete(r)
  <2>1. PICK done \in PartOf(Doomed(c)) : wt' = [wt EXCEPT ![d] = Overlay(@, done, EmptyTree)]
    BY <1>0, <1>5 DEF Delete
  <2>2. done \subseteq DeletePaths(c) /\ DeletedIn(c.src) \subseteq Listed(c.src)
    <3>1. c.src \in Status
      BY DEF TypeOK, Command
    <3> QED BY <2>1, <3>1, ListingTypes DEF PartOf, Doomed
  <2>3. p \in done => p \in Listed(c.src)
    BY <2>2 DEF DeletePaths, SourceDeleted, OrphanedUntracked
  <2> QED BY <1>0, <1>2, <1>4, <1>5, <2>1, <2>3 DEF Delete
<1>6. CASE Copy(r) \/ CopyFails(r)
  <2>1. PICK done \in SUBSET CopyPaths(c) : wt' = [wt EXCEPT ![d] = Overlay(@, done, wt[s])]
    BY <1>0, <1>6 DEF Copy, CopyFails, PartOf, Present
  <2>2. p \in done => p \in Listed(c.src)
    BY <2>1 DEF CopyPaths
  <2> QED BY <1>0, <1>2, <1>4, <1>6, <2>1, <2>2 DEF Copy, CopyFails
<1> QED BY <1>1, <1>3, <1>5, <1>6 DEF Step, ReadSource, ReadDest, PrintSource, PrintDest,
        ReadLocal, ReadPeer, PeerStatus, ReadAfter, WriteLocal, WritePeer, TornWrite, Abort,
        Killed, repos

\* An unforced sync overwrites or deletes no unsaved work but at paths that the
\* pair has mirrored before, for any paths and contents, whatever fails, and
\* whichever sides the commands run on, one after the other.
THEOREM UnsavedWorkIsKept ==
  ASSUME Calm
  PROVE  OSpec /\ []OneAtATime => UnsavedWorkKept
<1>1. TypeOK /\ NoLate /\ OneAtATime /\ AllFresh /\ [ONext]_ovars =>
        [\A r \in Sides, p \in Paths :
           Writes(r) /\ ~cmd[r].force /\ Unsaved(Dest(r), p) /\ p \notin Orphaned(cmd[r])
             => wt[Dest(r)][p] \in {wt'[Dest(r)][p], wt[Source(r)][p]}]_ovars
  <2> SUFFICES ASSUME TypeOK, NoLate, OneAtATime, AllFresh, ONext,
                      NEW r \in Sides, NEW p \in Paths, Writes(r), ~cmd[r].force,
                      Unsaved(Dest(r), p), p \notin Orphaned(cmd[r])
               PROVE  wt[Dest(r)][p] \in {wt'[Dest(r)][p], wt[Source(r)][p]}
    OBVIOUS
  <2>1. cmd[r].pc # "idle" /\ cmd'[r] # cmd[r]
    BY DEF Writes
  <2>2. ~Start(r)
    BY <2>1 DEF Start
  <2>3. \A q \in Sides : Start(q) => cmd'[r] = cmd[r] \/ q = r
    BY Became DEF Start
  <2>4. Step(r)
    BY <2>1, <2>2, <2>3, WhoSteps, TwoClones
  <2> QED BY <2>4, StepKeepsUnsaved DEF AllFresh
<1> QED BY <1>1, OutcomeTypeCorrect, NothingLate, ReadsStayFresh, PTL DEF OSpec, UnsavedWorkKept

----
\* What a copy has brought to a clone, or from it, is unsaved work there.
MirroredIsUnsaved == \A s \in Sides, p \in Paths : p \in mirrored[s] => Unsaved(s, p)

\* Only unsaved work of the source is ever counted as mirrored.
LEMMA MirroredStaysUnsaved == OSpec => []MirroredIsUnsaved
<1>1. OInit => MirroredIsUnsaved
  BY DEF OInit, MirroredIsUnsaved
<1>2. MirroredIsUnsaved /\ [ONext]_ovars => MirroredIsUnsaved'
  <2> SUFFICES ASSUME MirroredIsUnsaved, [ONext]_ovars PROVE MirroredIsUnsaved'
    OBVIOUS
  <2>1. ASSUME NEW S, Copied(S) PROVE MirroredIsUnsaved'
    BY <2>1 DEF Copied, MirroredIsUnsaved
  <2>2. ASSUME NEW r \in Sides, Start(r), UNCHANGED mirrored PROVE MirroredIsUnsaved'
    BY <2>2 DEF Start, repos, MirroredIsUnsaved, Unsaved
  <2>3. CASE UNCHANGED ovars
    BY <2>3 DEF ovars, vars, MirroredIsUnsaved, Unsaved
  <2> QED BY <2>1, <2>2, <2>3 DEF ONext, RecordStep, RecordLate, RecordUser
<1> QED BY <1>1, <1>2, PTL DEF OSpec

\* A path that a listing has as deleted and not as untracked has no file.
LEMMA DeletedIsAbsent ==
  ASSUME NEW s, NEW p \in DeletedIn(StatusOf(s)), ~StatusOf(s)[p].new
  PROVE  wt[s][p] = Absent
<1> DEFINE h == head[s]  i == index[s]  w == wt[s]
           x == IndexColumn(h, i, Renames(h, i), p)  y == WorktreeColumn(i, w, p)
<1>1. /\ p \in Paths
      /\ <<x, y>> \in DeletedCodes
      /\ i[p] # Absent \/ w[p] = Absent
  BY DEF DeletedIn, StatusOf, GitStatus
<1>2. y = "D" => w[p] = Absent
  BY DEF WorktreeColumn
<1>3. x = "D" => i[p] = Absent
  BY DEF IndexColumn
<1>4. x = "D" \/ y = "D"
  BY <1>1 DEF DeletedCodes
<1> QED BY <1>1, <1>2, <1>3, <1>4

\* An unforced command forgets no file that wdsync has copied as long as the
\* destination holds it uncommitted, whatever has failed before: a path leaves
\* the manifests when it is committed, discarded or removed.
THEOREM ResidueIsRecorded ==
  ASSUME Calm
  PROVE  OSpec /\ []OneAtATime => []ResidueStaysTracked
<1>1. AllFresh /\ MirroredIsUnsaved => ResidueStaysTracked
  <2> SUFFICES ASSUME AllFresh, MirroredIsUnsaved, NEW r \in Sides,
                      cmd[r].pc = "writeLocal", ~cmd[r].force,
                      NEW p \in CopyPaths(cmd[r]) \cup cmd[r].known,
                      p \in mirrored[Dest(r)], p \in Listed(StatusOf(Dest(r)))
               PROVE  p \in cmd[r].next
    BY DEF ResidueStaysTracked
  <2> DEFINE c == cmd[r]  d == Dest(r)
  <2>0. PICK s \in Sides : s = Source(r)
    BY TwoClones
  <2>1. /\ c.src = StatusOf(s) /\ c.next = NextManifest(c, StatusOf(d))
        /\ p \in Listed(c.src) /\ Unsaved(d, p) => wt[d][p] = wt[s][p]
    BY <2>0 DEF AllFresh, Fresh, NoConflictLeft
  <2>2. p \in Paths /\ Unsaved(d, p)
    BY TwoClones DEF MirroredIsUnsaved, Listed
  <2>3. CASE p \notin Listed(c.src)
    BY <2>1, <2>3 DEF CopyPaths, NextManifest, Orphaned
  <2>4. CASE p \in Listed(c.src)
    <3>1. ~(p \in DeletedIn(c.src) /\ ~c.src[p].new)
      BY <2>1, <2>2, <2>4, DeletedIsAbsent DEF Unsaved
    <3>2. p \in LiveIn(c.src)
      BY <2>2, <2>4, <3>1 DEF Listed, LiveIn, DeletedIn
    <3> QED BY <2>1, <3>2 DEF NextManifest
  <2> QED BY <2>3, <2>4
<1> QED BY <1>1, ReadsStayFresh, MirroredStaysUnsaved, PTL

----
\* What a command that has read the manifests knows of them; once it has written
\* its own, the two hold no mirrored file of the destination that it would drop.
Records(r) ==
  LET c == cmd[r]
      both == manifest[r] \cup manifest[Other(r)]
  IN
  /\ c.pc = "readPeer" => c.known = manifest[r]
  /\ c.pc \in {"restore", "peerStatus", "delete", "copy", "readAfter", "writeLocal"} =>
       both \subseteq c.known
  /\ c.pc = "writePeer" /\ ~c.force =>
       \A p \in both : p \in mirrored[Dest(r)] /\ p \in Listed(StatusOf(Dest(r))) => p \in c.next

\* A step of a command keeps that so.
LEMMA StepRecords ==
  ASSUME TypeOK, ResidueStaysTracked, NEW r \in Sides, Records(r), Step(r), RecordStep(r)
  PROVE  Records(r)'
<1> DEFINE c == cmd[r]
<1>0. c \in Command /\ Other(r) \in Sides /\ Other(r) # r
  BY TwoClones DEF TypeOK
<1>1. CASE Become(r, NoCommand)
  <2>1. cmd'[r].pc = "idle"
    BY <1>1, Became DEF NoCommand
  <2> QED BY <2>1 DEF Records
<1>2. CASE ReadSource(r) \/ ReadDest(r) \/ PrintSource(r) \/ PrintDest(r)
  <2>1. c'.pc \in {"readDest", "printSource", "readLocal", "printDest"}
    <3>1. CASE ReadSource(r)
      <4>1. c' = [c EXCEPT !.src = StatusOf(Source(r)), !.pc = "readDest"]
        BY <3>1, Became DEF ReadSource
      <4> QED BY <1>0, <4>1 DEF Command
    <3>2. CASE ReadDest(r)
      <4>1. PICK pc \in {"readLocal", "printSource"} :
              c' = [c EXCEPT !.dst = StatusOf(Dest(r)), !.pc = pc]
        BY <3>2, Became DEF ReadDest
      <4> QED BY <1>0, <4>1 DEF Command
    <3>3. CASE PrintSource(r)
      <4>1. PICK prints : c' = [c EXCEPT !.pc = "printDest", !.prints = prints]
        BY <3>3, Became DEF PrintSource
      <4> QED BY <1>0, <4>1 DEF Command
    <3>4. CASE PrintDest(r)
      <4>1. PICK found :
              c' = [c EXCEPT !.pc = "readLocal", !.prints = EmptyTree, !.conflicts = found]
        BY <3>4, Became DEF PrintDest
      <4> QED BY <1>0, <4>1 DEF Command
    <3> QED BY <1>2, <3>1, <3>2, <3>3, <3>4
  <2> QED BY <2>1 DEF Records
<1>3. CASE ReadLocal(r)
  <2>1. c' = [c EXCEPT !.known = manifest[r], !.pc = "readPeer"] /\ manifest' = manifest
    BY <1>3, Became DEF ReadLocal
  <2>2. c'.pc = "readPeer" /\ c'.known = manifest[r]
    BY <1>0, <2>1 DEF Command
  <2> QED BY <2>1, <2>2 DEF Records
<1>4. CASE ReadPeer(r) /\ ~Become(r, NoCommand)
  <2>1. /\ c' = [c EXCEPT !.known = @ \cup manifest[Other(r)], !.dirty = DirtyIn(c.dst),
                          !.pc = "restore"]
        /\ manifest' = manifest /\ c.pc = "readPeer"
    BY <1>4, Became DEF ReadPeer
  <2>2. c'.pc = "restore" /\ c'.known = c.known \cup manifest[Other(r)]
    BY <1>0, <2>1 DEF Command
  <2>3. c.known = manifest[r]
    BY <2>1 DEF Records
  <2> QED BY <2>1, <2>2, <2>3 DEF Records
<1>5. CASE Restore(r) \/ PeerStatus(r) \/ Delete(r) \/ Copy(r) \/ ReadAfter(r)
  <2> DEFINE Before == {"restore", "peerStatus", "delete", "copy", "readAfter", "writeLocal"}
  <2>1. c.pc \in Before /\ manifest' = manifest
    BY <1>5 DEF Restore, PeerStatus, Delete, Copy, ReadAfter
  <2>2. c'.known = c.known /\ c'.pc \in Before
    <3>1. CASE Restore(r)
      <4>1. PICK pc \in {"delete", "peerStatus"} : c' = [c EXCEPT !.pc = pc]
        BY <3>1, Became DEF Restore
      <4> QED BY <1>0, <4>1 DEF Command
    <3>2. CASE PeerStatus(r)
      <4>1. PICK dirty : c' = [c EXCEPT !.dirty = dirty, !.pc = "delete"]
        BY <3>2, Became DEF PeerStatus
      <4> QED BY <1>0, <4>1 DEF Command
    <3>3. CASE Delete(r) \/ Copy(r)
      <4>1. PICK pc \in {"copy", "readAfter"} : c' = [c EXCEPT !.pc = pc]
        BY <3>3, Became DEF Delete, Copy
      <4> QED BY <1>0, <4>1 DEF Command
    <3>4. CASE ReadAfter(r)
      <4>1. PICK next : c' = [c EXCEPT !.next = next, !.pc = "writeLocal"]
        BY <3>4, Became DEF ReadAfter
      <4> QED BY <1>0, <4>1 DEF Command
    <3> QED BY <1>5, <3>1, <3>2, <3>3, <3>4
  <2> QED BY <2>1, <2>2 DEF Records
<1>6. CASE WriteLocal(r)
  <2>1. /\ c' = [c EXCEPT !.pc = "writePeer"] /\ c.pc = "writeLocal" /\ UNCHANGED repos
        /\ manifest' = [manifest EXCEPT ![r] = c.next]
    BY <1>6, Became DEF WriteLocal
  <2>2. /\ c'.pc = "writePeer" /\ c'.force = c.force /\ c'.next = c.next
        /\ c'.direction = c.direction
    BY <1>0, <2>1 DEF Command
  <2>3. manifest'[r] = c.next /\ manifest'[Other(r)] = manifest[Other(r)]
    BY <1>0, <2>1 DEF TypeOK
  <2>4. Dest(r)' = Dest(r) /\ Listed(StatusOf(Dest(r)))' = Listed(StatusOf(Dest(r)))
    BY <2>1, <2>2 DEF Dest, Source, StatusOf, repos
  <2>5. mirrored'[Dest(r)] \subseteq mirrored[Dest(r)]
    <3>1. CopiedBy(r) = {}
      BY <2>1 DEF CopiedBy
    <3> QED BY <3>1, TwoClones DEF RecordStep, Copied
  <2>6. ASSUME ~c.force, NEW p \in manifest[Other(r)], p \in mirrored[Dest(r)],
               p \in Listed(StatusOf(Dest(r)))
        PROVE  p \in c.next
    <3>1. p \in c.known
      BY <2>1, <2>6 DEF Records
    <3> QED BY <2>1, <2>6, <3>1 DEF ResidueStaysTracked
  <2> QED BY <2>2, <2>3, <2>4, <2>5, <2>6 DEF Records
<1> QED BY <1>1, <1>2, <1>3, <1>4, <1>5, <1>6
        DEF Step, CopyFails, WritePeer, TornWrite, Abort, Killed

AllRecords == \A r \in Sides : Records(r)

\* Records holds of every command while commands do not overlap.
LEMMA RecordsStay ==
  ASSUME Calm
  PROVE  OSpec /\ []OneAtATime => []AllRecords
<1>1. OInit => AllRecords
  BY DEF OInit, Init, NoCommand, AllRecords, Records
<1>2. /\ TypeOK /\ NoLate /\ OneAtATime /\ ResidueStaysTracked /\ AllRecords /\ [ONext]_ovars
      => AllRecords'
  <2> SUFFICES ASSUME TypeOK, NoLate, OneAtATime, ResidueStaysTracked, AllRecords,
                      [ONext]_ovars, NEW q \in Sides
               PROVE  Records(q)'
    BY DEF AllRecords
  <2>1. ASSUME cmd'[q] = cmd[q], UNCHANGED <<repos, manifest, mirrored>> PROVE Records(q)'
    <3>1. Records(q)
      BY DEF AllRecords
    <3> QED BY <2>1, <3>1 DEF repos, Records, Source, Dest, StatusOf
  <2>2. ASSUME cmd'[q].pc \in {"idle", "readSource"} PROVE Records(q)'
    BY <2>2 DEF Records
  <2>3. ASSUME NEW r \in Sides, Start(r), UNCHANGED mirrored PROVE Records(q)'
    <3>1. PICK d, f : Become(r, [NoCommand EXCEPT !.pc = "readSource", !.direction = d, !.force = f])
      BY <2>3 DEF Start
    <3>2. CASE q = r
      <4>1. cmd'[q] = [NoCommand EXCEPT !.pc = "readSource", !.direction = d, !.force = f]
        BY <3>1, <3>2, Became
      <4>2. cmd'[q].pc = "readSource"
        BY <4>1 DEF NoCommand
      <4> QED BY <2>2, <4>2
    <3>3. CASE q # r
      BY <2>1, <2>3, <3>1, <3>3, Became DEF Start
    <3> QED BY <3>2, <3>3
  <2>4. ASSUME NEW r \in Sides, Step(r), RecordStep(r), cmd[Other(r)].pc = "idle"
        PROVE  Records(q)'
    <3>1. CASE q = r
      BY <2>4, <3>1, StepRecords DEF AllRecords
    <3>2. CASE q # r
      <4>1. PICK c : Become(r, c)
        BY <2>4 DEF Step, ReadSource, ReadDest, PrintSource, PrintDest, ReadLocal, ReadPeer,
           Restore, PeerStatus, Delete, Copy, CopyFails, ReadAfter, WriteLocal, WritePeer,
           TornWrite, Abort, Killed
      <4>2. cmd'[q] = cmd[q] /\ q = Other(r)
        BY <3>2, <4>1, Became, TwoClones
      <4> QED BY <2>2, <2>4, <4>2
    <3> QED BY <3>1, <3>2
  <2>5. ASSUME UNCHANGED cmd, \A r \in Sides : cmd[r].pc = "idle" PROVE Records(q)'
    BY <2>2, <2>5
  <2>6. CASE UNCHANGED ovars
    BY <2>1, <2>6 DEF ovars, vars, repos
  <2> QED BY <2>3, <2>4, <2>5, <2>6, WhoSteps
<1> QED BY <1>1, <1>2, OutcomeTypeCorrect, NothingLate, ResidueIsRecorded, PTL DEF OSpec

\* However the commands of the pair fail, between the writes of the two manifests
\* or in the middle of one, an unforced command drops a mirrored path from the
\* last manifest that has it only once it is reconciled.
THEOREM TrackingSurvivesFailures ==
  ASSUME Calm
  PROVE  OSpec /\ []OneAtATime => TrackedUntilReconciled
<1> DEFINE both == manifest["wsl"] \cup manifest["win"]
<1>1. /\ TypeOK /\ NoLate /\ OneAtATime /\ ResidueStaysTracked /\ AllRecords /\ [ONext]_ovars
      => [\A r \in Sides, p \in Paths :
            cmd'[r] # cmd[r] /\ ~cmd[r].force /\ p \in manifest["wsl"] \cup manifest["win"]
              /\ p \in mirrored[Dest(r)] /\ p \in Listed(StatusOf(Dest(r)))
              => p \in cmd[r].next \cup manifest'["wsl"] \cup manifest'["win"]]_ovars
  <2> SUFFICES ASSUME TypeOK, NoLate, OneAtATime, ResidueStaysTracked, AllRecords, ONext,
                      NEW r \in Sides, NEW p \in Paths, cmd'[r] # cmd[r], ~cmd[r].force,
                      p \in both, p \in mirrored[Dest(r)], p \in Listed(StatusOf(Dest(r))),
                      manifest' # manifest
               PROVE  p \in cmd[r].next
    OBVIOUS
  <2>1. Step(r)
    <3>1. \A q \in Sides : ~Start(q)
      BY DEF Start
    <3>2. ASSUME NEW q \in Sides, Step(q), q # r PROVE FALSE
      <4>1. PICK c : Become(q, c)
        BY <3>2 DEF Step, ReadSource, ReadDest, PrintSource, PrintDest, ReadLocal, ReadPeer,
           Restore, PeerStatus, Delete, Copy, CopyFails, ReadAfter, WriteLocal, WritePeer,
           TornWrite, Abort, Killed
      <4> QED BY <3>2, <4>1, Became
    <3> QED BY <3>1, <3>2, WhoSteps
  <2>2. cmd[r].pc \in {"writeLocal", "writePeer"}
    BY <2>1 DEF Step, ReadSource, ReadDest, PrintSource, PrintDest, ReadLocal, ReadPeer, Restore,
       PeerStatus, Delete, Copy, CopyFails, ReadAfter, WriteLocal, WritePeer, TornWrite, Abort,
       Killed
  <2>3. p \in manifest[r] \cup manifest[Other(r)] /\ Records(r)
    BY DEF Sides, Other, AllRecords
  <2>4. CASE cmd[r].pc = "writeLocal"
    <3>1. p \in cmd[r].known
      BY <2>3, <2>4 DEF Records
    <3> QED BY <2>4, <3>1 DEF ResidueStaysTracked
  <2>5. CASE cmd[r].pc = "writePeer"
    BY <2>3, <2>5 DEF Records
  <2> QED BY <2>2, <2>4, <2>5
<1> QED BY <1>1, OutcomeTypeCorrect, NothingLate, ResidueIsRecorded, RecordsStay, PTL
        DEF OSpec, TrackedUntilReconciled

----
\* The commands do not overlap when they are started on one side only.
LEMMA OneRunner ==
  ASSUME NEW r \in Sides, r \notin Runners
  PROVE  OSpec => []OneAtATime
<1> DEFINE Idle == cmd[r].pc = "idle"
<1>1. OInit => Idle
  BY DEF OInit, Init, NoCommand
<1>2. TypeOK /\ Idle /\ [ONext]_ovars => Idle'
  <2> SUFFICES ASSUME TypeOK, Idle, [ONext]_ovars PROVE cmd'[r] = cmd[r]
    OBVIOUS
  <2>1. ASSUME NEW s \in Sides, User(s) \/ Late(s) PROVE cmd' = cmd
    BY <2>1 DEF User, Edit, GitAdd, GitRmCached, GitRestore, GitCommit,
       Late, LateRestore, LateStatus, LateDelete, LateWrite
  <2>2. ASSUME NEW s \in Sides, Start(s) \/ Step(s) PROVE s # r /\ \E c : Become(s, c)
    BY <2>2 DEF Start, Step, ReadSource, ReadDest, PrintSource, PrintDest, ReadLocal, ReadPeer,
       Restore, PeerStatus, Delete, Copy, CopyFails, ReadAfter, WriteLocal, WritePeer,
       TornWrite, Abort, Killed
  <2> QED BY <2>1, <2>2, Became DEF ONext, ovars, vars
<1>3. Idle => OneAtATime
  BY DEF OneAtATime
<1> QED BY <1>1, <1>2, <1>3, OutcomeTypeCorrect, PTL DEF OSpec
----

\* Nothing disturbs a command, and none of its steps fails.
Reliable == Calm /\ ~MayFail

\* The steps before which a command may have changed its destination.
Changes == {"peerStatus", "delete", "copy", "readAfter", "writeLocal", "writePeer"}

----
\* What the command on r makes of the destination that it has found: restores,
\* then deletions, then copies.
Restored(r) ==
  Overlay(before[Dest(r)], Restorable(index[Dest(r)], RestorePaths(cmd[r])), index[Dest(r)])
Swept(r) == Overlay(Restored(r), DeletePaths(cmd[r]) \ DirtyIn(cmd[r].dst), EmptyTree)
Final(r) == Overlay(Swept(r), Present(Source(r), CopyPaths(cmd[r])), wt[Source(r)])

\* What a command knows of the clones and the manifests is what it has found.
Found(r) ==
  LET c == cmd[r]
      s == Source(r)
      d == Dest(r)
  IN
  /\ c.pc = "idle" => ~c.force
  /\ c.pc = "readPeer" => c.known = manifest[r]
  /\ c.pc = "restore" => c.dirty = DirtyIn(c.dst)
  /\ c.pc \in {"restore"} \cup Changes =>
       /\ before[s] = wt[s]
       /\ c.dst = GitStatus(head[d], index[d], before[d])
       /\ c.known = manifest[Other(r)]
       /\ ~c.force => \A p \in Overlap(c) : before[s][p] = before[d][p]

\* What it has done so far is what it has planned.
Done(r) ==
  LET c == cmd[r]
      d == Dest(r)
  IN
  /\ c.pc \in {"peerStatus", "delete"} => wt[d] = Restored(r)
  /\ c.pc = "delete" => c.dirty \cap DeletePaths(c) = DirtyIn(c.dst) \cap DeletePaths(c)
  /\ c.pc = "copy" => wt[d] = Swept(r)
  /\ c.pc \in {"readAfter", "writeLocal", "writePeer"} =>
       wt[d] = Final(r) /\ CopyPaths(c) = Present(Source(r), CopyPaths(c))
  /\ c.pc = "writePeer" => c.next = manifest[r] /\ c.next = NextManifest(c, StatusOf(d))

\* Between commands, and until one changes anything, before is what there is,
\* and the manifests of the two sides are equal.
Settles ==
  /\ ~Changing => before = wt
  /\ (\A r \in Sides : cmd[r].pc # "writePeer") => manifest["wsl"] = manifest["win"]

GoesAsPlanned == Settles /\ \A r \in Sides : Found(r) /\ Done(r)

----
\* While no command runs on the other side, r tells whether one changes files.
LEMMA ChangingIs ==
  ASSUME NEW r \in Sides, cmd[Other(r)].pc = "idle"
  PROVE  Changing <=> cmd[r].pc \in Changes
BY TwoClones DEF Changing, Changes

\* With the other side idle, the step that one command takes decides whether the
\* destination is being written.
LEMMA ChangingBecomes ==
  ASSUME TypeOK, NEW r \in Sides, cmd[Other(r)].pc = "idle", NEW c, Become(r, c)
  PROVE  Changing' <=> c.pc \in Changes
<1>1. cmd'[r] = c /\ cmd'[Other(r)].pc = "idle"
  BY Became, TwoClones
<1> QED BY <1>1, TwoClones DEF Changing, Changes

\* No path is both deleted and restored: a file that the source has deleted is
\* not brought back, and an untracked one has nothing to be restored from.
LEMMA DeletedAreNotRestored ==
  ASSUME NEW r \in Sides, NEW w, cmd[r] \in Command,
         cmd[r].dst = GitStatus(head[Dest(r)], index[Dest(r)], w),
         NEW p \in DeletePaths(cmd[r])
  PROVE  p \notin Restorable(index[Dest(r)], RestorePaths(cmd[r]))
<1> DEFINE c == cmd[r]
<1>1. DeletedIn(c.src) \subseteq Listed(c.src)
  BY ListingTypes DEF Command
<1>2. CASE p \in SourceDeleted(c)
  BY <1>1, <1>2 DEF Restorable, RestorePaths, SourceDeleted, Orphaned
<1>3. CASE p \in OrphanedUntracked(c)
  <2>1. p \in Paths /\ c.dst[p].new
    BY <1>3 DEF OrphanedUntracked, UntrackedIn
  <2>2. c.dst[p].new = (index[Dest(r)][p] = Absent /\ w[p] # Absent)
    BY <2>1 DEF GitStatus
  <2>3. index[Dest(r)][p] = Absent
    BY <2>1, <2>2, Zenon
  <2> QED BY <2>3 DEF Restorable
<1> QED BY <1>2, <1>3 DEF DeletePaths

\* A file that is deleted from the worktree is a local change.
LEMMA DeletedIsDirty ==
  ASSUME NEW status
  PROVE  WtDeletedIn(status) \subseteq DirtyIn(status)
<1>1. Quiet \notin DeletedCodes /\ <<" ", "D">> \in DeletedCodes
  BY DEF Quiet, DeletedCodes
<1> QED BY <1>1 DEF WtDeletedIn, DirtyIn

\* A path that a listing shows as deleted in the worktree is not there, and is in
\* the index.
LEMMA DeletedIsGone ==
  ASSUME NEW h, NEW i, NEW w, NEW p \in WtDeletedIn(GitStatus(h, i, w))
  PROVE  p \in Paths /\ w[p] = Absent /\ i[p] # Absent
<1>1. p \in Paths /\ WorktreeColumn(i, w, p) = "D"
  BY DEF WtDeletedIn, GitStatus
<1> QED BY <1>1 DEF WorktreeColumn

\* No path is both deleted and copied.
LEMMA DeletedAreNotCopied ==
  ASSUME NEW c, NEW p \in DeletePaths(c)
  PROVE  p \notin CopyPaths(c)
BY DEF DeletePaths, CopyPaths, OrphanedUntracked, Orphaned

\* The file that a command leaves at a path.
LEMMA FinalFile ==
  ASSUME NEW r \in Sides, NEW p \in Paths
  PROVE  Final(r)[p] = IF p \in Present(Source(r), CopyPaths(cmd[r])) THEN wt[Source(r)][p]
                       ELSE IF p \in DeletePaths(cmd[r]) \ DirtyIn(cmd[r].dst) THEN Absent
                       ELSE IF p \in Restorable(index[Dest(r)], RestorePaths(cmd[r]))
                       THEN index[Dest(r)][p] ELSE before[Dest(r)][p]
BY DEF Final, Swept, Restored, Overlay, EmptyTree

----
\* The steps that read find things as they are ...
LEMMA ReadsFind ==
  ASSUME TypeOK, NEW r \in Sides, cmd[Other(r)].pc = "idle", GoesAsPlanned,
         before' = IF Changing' THEN before ELSE wt',
         ReadSource(r) \/ ReadDest(r) \/ PrintSource(r) \/ PrintDest(r) \/ ReadLocal(r)
  PROVE  Settles' /\ Found(r)' /\ Done(r)'
<1> DEFINE c == cmd[r]
<1>1. c \in Command
  BY DEF TypeOK
<1>2. /\ c'.pc \in {"readDest", "printSource", "printDest", "readLocal", "readPeer"}
      /\ c'.pc = "readPeer" => c'.known = manifest[r]
      /\ c.pc # "writePeer"
  <2>1. CASE ReadSource(r)
    <3>1. c' = [c EXCEPT !.src = StatusOf(Source(r)), !.pc = "readDest"]
      BY <2>1, Became DEF ReadSource
    <3> QED BY <1>1, <2>1, <3>1 DEF Command, ReadSource
  <2>2. CASE ReadDest(r)
    <3> DEFINE next == IF Listed(c.src) \cap Listed(StatusOf(Dest(r))) = {}
                       THEN "readLocal" ELSE "printSource"
    <3>1. c' = [c EXCEPT !.dst = StatusOf(Dest(r)), !.pc = next]
      BY <2>2, Became DEF ReadDest
    <3> QED BY <1>1, <2>2, <3>1 DEF Command, ReadDest
  <2>3. CASE PrintSource(r)
    <3>1. c' = [c EXCEPT !.pc = "printDest",
                  !.prints = Overlay(EmptyTree, Overlap(c), wt[Source(r)])]
      BY <2>3, Became DEF PrintSource
    <3> QED BY <1>1, <2>3, <3>1 DEF Command, PrintSource
  <2>4. CASE PrintDest(r)
    <3>1. c' = [c EXCEPT !.pc = "readLocal", !.prints = EmptyTree,
                  !.conflicts = Conflicts(c, c.prints, wt[Dest(r)])]
      BY <2>4, Became DEF PrintDest
    <3> QED BY <1>1, <2>4, <3>1 DEF Command, PrintDest
  <2>5. CASE ReadLocal(r)
    <3>1. c' = [c EXCEPT !.known = manifest[r], !.pc = "readPeer"]
      BY <2>5, Became DEF ReadLocal
    <3> QED BY <1>1, <2>5, <3>1 DEF Command, ReadLocal
  <2> QED BY <2>1, <2>2, <2>3, <2>4, <2>5
<1>3. manifest' = manifest
  BY DEF ReadSource, ReadDest, PrintSource, PrintDest, ReadLocal
<1>4. manifest["wsl"] = manifest["win"]
  BY <1>2, TwoClones DEF GoesAsPlanned, Settles
<1>5. c'.pc \notin {"idle", "restore"} \cup Changes
  BY <1>2 DEF Changes
<1>6. Found(r)'
  BY <1>2, <1>3, <1>5 DEF Found
<1>7. Done(r)'
  BY <1>2 DEF Done
<1>8. Settles'
  BY <1>3, <1>4 DEF Settles
<1> QED BY <1>6, <1>7, <1>8

\* ... and the last of them, that the command may go on.
LEMMA ReadPeerFinds ==
  ASSUME TypeOK, NEW r \in Sides, cmd[Other(r)].pc = "idle", GoesAsPlanned, Fresh(r),
         before' = IF Changing' THEN before ELSE wt', ReadPeer(r)
  PROVE  Settles' /\ Found(r)' /\ Done(r)'
<1> DEFINE c == cmd[r]
<1>0. PICK s \in Sides, d \in Sides : s = Source(r) /\ d = Dest(r) /\ s # d
  BY TwoClones
<1>1. c \in Command /\ c.pc = "readPeer" /\ UNCHANGED <<head, index, wt, manifest>>
  BY DEF TypeOK, ReadPeer, repos
<1>2. manifest["wsl"] = manifest["win"] /\ before = wt
  BY <1>1, TwoClones, ChangingIs DEF GoesAsPlanned, Settles, Changes
<1>3. Settles'
  BY <1>1, <1>2 DEF Settles
<1>4. CASE c' = NoCommand
  <2>1. c'.pc = "idle" /\ ~c'.force
    BY <1>4 DEF NoCommand
  <2> QED BY <1>3, <2>1 DEF Found, Done, Changes
<1>5. CASE /\ c.conflicts = {} \/ c.force
           /\ Become(r, [c EXCEPT !.known = @ \cup manifest[Other(r)], !.dirty = DirtyIn(c.dst),
                                  !.pc = "restore"])
  <2>1. c' = [c EXCEPT !.known = c.known \cup manifest[Other(r)], !.dirty = DirtyIn(c.dst),
                       !.pc = "restore"]
    BY <1>5, Became
  <2>2. /\ c'.pc = "restore" /\ c'.direction = c.direction /\ c'.force = c.force
        /\ c'.src = c.src /\ c'.dst = c.dst /\ c'.dirty = DirtyIn(c.dst)
        /\ c'.known = c.known \cup manifest[Other(r)]
    BY <1>1, <2>1 DEF Command
  <2>3. c.known = manifest[r] /\ manifest[r] = manifest[Other(r)]
    BY <1>1, <1>2 DEF GoesAsPlanned, Found, Sides, Other
  <2>4. before' = wt
    BY <1>1, <1>2
  <2>5. Source(r)' = s /\ Dest(r)' = d
    BY <1>0, <2>2 DEF Source, Dest
  <2>6. /\ c.dst = GitStatus(head[d], index[d], wt[d])
        /\ c.conflicts = {p \in Overlap(c) : wt[s][p] # wt[d][p]}
    BY <1>0, <1>1 DEF Fresh, StatusOf
  <2>7. c'.known = manifest'[Other(r)]
    BY <1>1, <2>2, <2>3
  <2>8. ~c'.force => \A p \in Overlap(c') : before'[s][p] = before'[d][p]
    BY <1>5, <2>2, <2>4, <2>6 DEF Overlap
  <2>9. Found(r)'
    BY <1>1, <2>2, <2>4, <2>5, <2>6, <2>7, <2>8 DEF Found
  <2>10. Done(r)'
    BY <2>2 DEF Done
  <2> QED BY <1>3, <2>9, <2>10
<1> QED BY <1>4, <1>5, Became DEF ReadPeer

----
\* The steps that change the destination do what has been planned.
LEMMA WritesAsPlanned ==
  ASSUME Reliable, TypeOK, NEW r \in Sides, cmd[Other(r)].pc = "idle", GoesAsPlanned, Fresh(r),
         before' = IF Changing' THEN before ELSE wt',
         Restore(r) \/ PeerStatus(r) \/ Delete(r) \/ Copy(r) \/ ReadAfter(r) \/ WriteLocal(r)
  PROVE  Settles' /\ Found(r)' /\ Done(r)'
<1> DEFINE c == cmd[r]
<1>0. PICK s \in Sides, d \in Sides : s = Source(r) /\ d = Dest(r) /\ s # d
  BY TwoClones
<1>1. /\ c \in Command /\ UNCHANGED <<head, index>>
      /\ c.pc \in {"restore", "peerStatus", "delete", "copy", "readAfter", "writeLocal"}
  BY DEF TypeOK, Restore, PeerStatus, Delete, Copy, ReadAfter, WriteLocal, repos
<1>2. ASSUME NEW pc \in Changes,
             \/ Become(r, [c EXCEPT !.pc = pc])
             \/ \E dirty : Become(r, [c EXCEPT !.dirty = dirty, !.pc = pc])
             \/ \E next : Become(r, [c EXCEPT !.next = next, !.pc = pc])
      PROVE  /\ c'.direction = c.direction /\ c'.force = c.force /\ c'.pc = pc
             /\ c'.src = c.src /\ c'.dst = c.dst /\ c'.known = c.known
             /\ Changing'
  <2>1. CASE Become(r, [c EXCEPT !.pc = pc])
    <3>1. c' = [c EXCEPT !.pc = pc] /\ (Changing' <=> [c EXCEPT !.pc = pc].pc \in Changes)
      BY <2>1, Became, ChangingBecomes
    <3> QED BY <1>1, <3>1 DEF Command
  <2>2. ASSUME NEW dirty, Become(r, [c EXCEPT !.dirty = dirty, !.pc = pc])
        PROVE  /\ c'.direction = c.direction /\ c'.force = c.force /\ c'.pc = pc
               /\ c'.src = c.src /\ c'.dst = c.dst /\ c'.known = c.known
               /\ Changing'
    <3>1. /\ c' = [c EXCEPT !.dirty = dirty, !.pc = pc]
          /\ Changing' <=> [c EXCEPT !.dirty = dirty, !.pc = pc].pc \in Changes
      BY <2>2, Became, ChangingBecomes
    <3> QED BY <1>1, <3>1 DEF Command
  <2>3. ASSUME NEW next, Become(r, [c EXCEPT !.next = next, !.pc = pc])
        PROVE  /\ c'.direction = c.direction /\ c'.force = c.force /\ c'.pc = pc
               /\ c'.src = c.src /\ c'.dst = c.dst /\ c'.known = c.known
               /\ Changing'
    <3>1. /\ c' = [c EXCEPT !.next = next, !.pc = pc]
          /\ Changing' <=> [c EXCEPT !.next = next, !.pc = pc].pc \in Changes
      BY <2>3, Became, ChangingBecomes
    <3> QED BY <1>1, <3>1 DEF Command
  <2> QED BY <1>2, <2>1, <2>2, <2>3
<1>3. /\ c'.direction = c.direction /\ c'.force = c.force
      /\ c'.src = c.src /\ c'.dst = c.dst /\ c'.known = c.known
      /\ c'.pc \in Changes /\ Changing'
      /\ Restore(r) => c'.pc = IF DestIsLocal(r) THEN "delete" ELSE "peerStatus"
      /\ PeerStatus(r) => c'.pc = "delete"
      /\ Delete(r) => c'.pc = "copy"
      /\ Copy(r) => c'.pc = "readAfter"
      /\ ReadAfter(r) => c'.pc = "writeLocal"
      /\ WriteLocal(r) <=> c'.pc = "writePeer"
  <2>1. CASE Restore(r)
    <3> DEFINE pc == IF DestIsLocal(r) THEN "delete" ELSE "peerStatus"
    <3>1. c.pc = "restore" /\ pc \in Changes /\ Become(r, [c EXCEPT !.pc = pc])
      BY <2>1 DEF Restore, Changes
    <3> QED BY <1>2, <3>1 DEF PeerStatus, Delete, Copy, ReadAfter, WriteLocal
  <2>2. CASE PeerStatus(r)
    <3>1. c.pc = "peerStatus" /\ \E dirty : Become(r, [c EXCEPT !.dirty = dirty, !.pc = "delete"])
      BY <2>2 DEF PeerStatus
    <3> QED BY <1>2, <3>1 DEF Restore, Delete, Copy, ReadAfter, WriteLocal, Changes
  <2>3. CASE Delete(r)
    <3>1. c.pc = "delete" /\ Become(r, [c EXCEPT !.pc = "copy"])
      BY <2>3 DEF Delete
    <3> QED BY <1>2, <3>1 DEF Restore, PeerStatus, Copy, ReadAfter, WriteLocal, Changes
  <2>4. CASE Copy(r)
    <3>1. c.pc = "copy" /\ Become(r, [c EXCEPT !.pc = "readAfter"])
      BY <2>4 DEF Copy
    <3> QED BY <1>2, <3>1 DEF Restore, PeerStatus, Delete, ReadAfter, WriteLocal, Changes
  <2>5. CASE ReadAfter(r)
    <3>1. c.pc = "readAfter" /\ \E next : Become(r, [c EXCEPT !.next = next, !.pc = "writeLocal"])
      BY <2>5 DEF ReadAfter
    <3> QED BY <1>2, <3>1 DEF Restore, PeerStatus, Delete, Copy, WriteLocal, Changes
  <2>6. CASE WriteLocal(r)
    <3>1. c.pc = "writeLocal" /\ Become(r, [c EXCEPT !.pc = "writePeer"])
      BY <2>6 DEF WriteLocal
    <3> QED BY <1>2, <3>1 DEF Restore, PeerStatus, Delete, Copy, ReadAfter, Changes
  <2> QED BY <2>1, <2>2, <2>3, <2>4, <2>5, <2>6
<1>4. /\ before' = before /\ Source(r)' = s /\ Dest(r)' = d
      /\ wt'[s] = wt[s] /\ manifest'[Other(r)] = manifest[Other(r)]
  <2>1. before' = before /\ Source(r)' = s /\ Dest(r)' = d
    BY <1>0, <1>3 DEF Source, Dest
  <2>2. wt'[s] = wt[s]
    <3>1. \E tree : wt' = [wt EXCEPT ![d] = tree] \/ wt' = wt
      BY <1>0 DEF Restore, PeerStatus, Delete, Copy, ReadAfter, WriteLocal, repos
    <3> QED BY <1>0, <3>1 DEF TypeOK
  <2>3. manifest'[Other(r)] = manifest[Other(r)]
    BY TwoClones DEF Restore, PeerStatus, Delete, Copy, ReadAfter, WriteLocal, TypeOK
  <2> QED BY <2>1, <2>2, <2>3
<1>5. /\ ~WriteLocal(r) => manifest' = manifest
      /\ manifest["wsl"] = manifest["win"]
      /\ c.pc = "restore" => before = wt
  <2>1. manifest["wsl"] = manifest["win"]
    BY <1>1, TwoClones DEF GoesAsPlanned, Settles
  <2>2. c.pc = "restore" => before = wt
    BY ChangingIs DEF GoesAsPlanned, Settles, Changes
  <2> QED BY <2>1, <2>2 DEF Restore, PeerStatus, Delete, Copy, ReadAfter
<1>6. Settles'
  BY <1>3, <1>5 DEF Settles
\* What the command knows is still so,
<1>7. /\ c.pc \in {"restore"} \cup Changes /\ Found(r) /\ Done(r)
      /\ c.dst = GitStatus(head[d], index[d], before[d])
  BY <1>0, <1>1 DEF GoesAsPlanned, Found, Changes
<1>8. Found(r)'
  <2>1. Overlap(c') = Overlap(c)
    BY <1>3 DEF Overlap
  <2>2. c'.pc \notin {"idle", "readPeer", "restore"}
    BY <1>3 DEF Changes
  <2> QED BY <1>0, <1>1, <1>3, <1>4, <1>7, <2>1, <2>2 DEF Found
\* and what it has planned is the same.
<1>9. /\ RestorePaths(c') = RestorePaths(c) /\ DeletePaths(c') = DeletePaths(c)
      /\ CopyPaths(c') = CopyPaths(c)
      /\ {p \in CopyPaths(c') : wt'[s][p] # Absent} = Present(s, CopyPaths(c))
  <2>1. Orphaned(c') = Orphaned(c) /\ SourceDeleted(c') = SourceDeleted(c)
    BY <1>3 DEF Orphaned, SourceDeleted
  <2>2. /\ RestorePaths(c') = RestorePaths(c) /\ DeletePaths(c') = DeletePaths(c)
        /\ CopyPaths(c') = CopyPaths(c)
    BY <1>3, <2>1 DEF RestorePaths, DeletePaths, CopyPaths, OrphanedUntracked
  <2> QED BY <1>4, <2>2 DEF Present
<1>10. Restored(r)' = Restored(r) /\ Swept(r)' = Swept(r) /\ Final(r)' = Final(r)
  <2>1. Restored(r)' = Restored(r)
    BY <1>0, <1>1, <1>4, <1>9 DEF Restored
  <2>2. Swept(r)' = Swept(r)
    BY <1>3, <1>9, <2>1 DEF Swept
  <2>3. Final(r) = Overlay(Swept(r), Present(s, CopyPaths(c)), wt[s])
    BY <1>0 DEF Final
  <2>4. Final(r)' = Overlay(Swept(r)', {p \in CopyPaths(c') : wt'[s][p] # Absent}, wt'[s])
    BY <1>4 DEF Final, Present
  <2> QED BY <1>4, <1>9, <2>1, <2>2, <2>3, <2>4
\* With no failure, each step does all of its part.
<1>11. \A S : PartOf(S) = {S}
  BY DEF Reliable, PartOf
<1>12. ASSUME NEW tree, wt' = [wt EXCEPT ![d] = tree] PROVE wt'[d] = tree
  BY <1>12 DEF TypeOK
<1>13. CASE Restore(r)
  <2>1. wt' = [wt EXCEPT ![d] = Overlay(wt[d], Restorable(index[d], RestorePaths(c)), index[d])]
    BY <1>0, <1>11, <1>13 DEF Restore
  <2>2. wt'[d] = Restored(r)'
    BY <1>0, <1>5, <1>10, <1>12, <1>13, <2>1 DEF Restore, Restored
  <2>3. c' = [c EXCEPT !.pc = IF DestIsLocal(r) THEN "delete" ELSE "peerStatus"]
    BY <1>13, Became DEF Restore
  <2>4. c'.dirty = DirtyIn(c'.dst)
    <3>1. c'.dirty = c.dirty
      BY <1>1, <2>3 DEF Command
    <3> QED BY <1>3, <1>7, <1>13, <3>1 DEF Found, Restore
  <2> QED BY <1>6, <1>8, <1>3, <1>4, <1>13, <2>2, <2>4 DEF Done
<1>14. CASE PeerStatus(r)
  <2> DEFINE dirty == DirtyIn(GitStatus(head[d], index[d], wt[d]))
  <2>1. c' = [c EXCEPT !.dirty = dirty, !.pc = "delete"] /\ wt' = wt
    BY <1>0, <1>14, Became DEF PeerStatus, StatusOf, repos
  <2>2. c'.dirty = dirty
    BY <1>1, <2>1 DEF Command
  <2>3. wt[d] = Restored(r)
    BY <1>0, <1>7, <1>14 DEF PeerStatus, Done
  <2>4. ASSUME NEW p \in DeletePaths(c) PROVE p \in dirty <=> p \in DirtyIn(c.dst)
    <3>1. p \notin Restorable(index[d], RestorePaths(c))
      BY <1>0, <1>1, <1>7, DeletedAreNotRestored
    <3>2. p \in Paths
      BY DEF DeletePaths, SourceDeleted, DeletedIn, OrphanedUntracked, UntrackedIn
    <3>3. wt[d][p] = before[d][p]
      BY <1>0, <2>3, <3>1, <3>2 DEF Restored, Overlay
    <3>4. c.dst[p] = GitStatus(head[d], index[d], wt[d])[p]
      BY <1>7, <3>2, <3>3, EntryOfPath
    <3> QED BY <3>2, <3>4 DEF DirtyIn
  <2>5. c'.dirty \cap DeletePaths(c') = DirtyIn(c'.dst) \cap DeletePaths(c')
    BY <1>3, <1>9, <2>2, <2>4
  <2> QED BY <1>6, <1>8, <1>3, <1>4, <1>10, <1>14, <2>1, <2>3, <2>5 DEF Done
<1>15. CASE Delete(r)
  <2>1. wt' = [wt EXCEPT ![d] = Overlay(wt[d], Doomed(c), EmptyTree)]
    BY <1>0, <1>11, <1>15 DEF Delete
  <2>2. /\ wt[d] = Restored(r)
        /\ c.dirty \cap DeletePaths(c) = DirtyIn(c.dst) \cap DeletePaths(c)
    BY <1>0, <1>7, <1>15 DEF Delete, Done
  <2>3. Doomed(c) = DeletePaths(c) \ DirtyIn(c.dst)
    BY <2>2 DEF Doomed
  <2>4. wt'[d] = Swept(r)'
    BY <1>10, <1>12, <2>1, <2>2, <2>3 DEF Swept
  <2> QED BY <1>6, <1>8, <1>3, <1>4, <1>15, <2>4 DEF Done
<1>16. CASE Copy(r)
  <2>1. /\ CopyPaths(c) = Present(s, CopyPaths(c))
        /\ wt' = [wt EXCEPT ![d] = Overlay(wt[d], CopyPaths(c), wt[s])]
    BY <1>0, <1>16 DEF Copy
  <2>2. wt[d] = Swept(r)
    BY <1>0, <1>7, <1>16 DEF Copy, Done
  <2>3. wt'[d] = Final(r)'
    BY <1>0, <1>10, <1>12, <2>1, <2>2 DEF Final
  <2>4. CopyPaths(c') = {p \in CopyPaths(c') : wt'[s][p] # Absent}
    BY <1>9, <2>1
  <2> QED BY <1>6, <1>8, <1>3, <1>4, <1>16, <2>3, <2>4 DEF Done, Present
<1>17. CASE ReadAfter(r) \/ WriteLocal(r)
  <2>1. wt' = wt /\ c.pc \in {"readAfter", "writeLocal"}
    BY <1>17 DEF ReadAfter, WriteLocal, repos
  <2>2. wt[d] = Final(r) /\ CopyPaths(c) = Present(s, CopyPaths(c))
    BY <1>0, <1>7, <2>1 DEF Done
  <2>3. wt'[d] = Final(r)' /\ CopyPaths(c') = {p \in CopyPaths(c') : wt'[s][p] # Absent}
    BY <1>9, <1>10, <2>1, <2>2
  <2>4. ASSUME WriteLocal(r)
        PROVE  c'.next = manifest'[r] /\ c'.next = NextManifest(c', StatusOf(d)')
    <3>1. c' = [c EXCEPT !.pc = "writePeer"] /\ manifest' = [manifest EXCEPT ![r] = c.next]
      BY <2>4, Became DEF WriteLocal
    <3>2. c'.next = c.next /\ manifest'[r] = c.next
      BY <1>1, <3>1 DEF Command, TypeOK
    <3>3. c.next = NextManifest(c, StatusOf(d)) /\ StatusOf(d)' = StatusOf(d)
      BY <1>0, <1>1, <2>1, <2>4 DEF Fresh, WriteLocal, StatusOf
    <3>4. NextManifest(c', StatusOf(d)) = NextManifest(c, StatusOf(d))
      BY <1>3 DEF NextManifest, Orphaned
    <3> QED BY <3>2, <3>3, <3>4
  <2>5. c'.pc = "writePeer" <=> WriteLocal(r)
    BY <1>3
  <2>6. c'.pc \notin {"peerStatus", "delete", "copy"}
    BY <1>3, <1>17
  <2>7. StatusOf(Dest(r))' = StatusOf(d)'
    BY <1>4 DEF StatusOf
  <2> QED BY <1>4, <1>6, <1>8, <2>3, <2>4, <2>5, <2>6, <2>7 DEF Done, Present
<1> QED BY <1>6, <1>8, <1>13, <1>14, <1>15, <1>16, <1>17

\* A step of a command goes as planned; two of them end it.
LEMMA StepAsPlanned ==
  ASSUME Reliable, TypeOK, NEW r \in Sides, cmd[Other(r)].pc = "idle", GoesAsPlanned, Fresh(r),
         before' = IF Changing' THEN before ELSE wt', Step(r)
  PROVE  Settles' /\ Found(r)' /\ Done(r)'
<1>1. CASE CopyFails(r) \/ WritePeer(r)
  <2>1. cmd'[r] = NoCommand
    BY <1>1, Became DEF CopyFails, WritePeer
  <2>2. cmd'[r].pc = "idle" /\ ~cmd'[r].force
    BY <2>1 DEF NoCommand
  <2>3. manifest'["wsl"] = manifest'["win"]
    <3>1. CASE CopyFails(r)
      <4>1. cmd[r].pc = "copy" /\ manifest' = manifest
        BY <3>1 DEF CopyFails
      <4>2. \A q \in Sides : cmd[q].pc # "writePeer"
        BY <4>1, TwoClones
      <4> QED BY <4>1, <4>2 DEF GoesAsPlanned, Settles
    <3>2. CASE WritePeer(r)
      <4>1. manifest' = [manifest EXCEPT ![Other(r)] = cmd[r].next] /\ cmd[r].next = manifest[r]
        BY <3>2 DEF WritePeer, GoesAsPlanned, Done
      <4>2. manifest'[Other(r)] = manifest'[r]
        BY <4>1, TwoClones DEF TypeOK
      <4> QED BY <4>2 DEF Sides, Other
    <3> QED BY <1>1, <3>1, <3>2
  <2> QED BY <2>2, <2>3 DEF Settles, Found, Done, Changes
<1>2. ~TornWrite(r) /\ ~Abort(r) /\ ~Killed(r)
  BY DEF Reliable, Calm, TornWrite, Abort, Killed
<1> QED BY <1>1, <1>2, ReadsFind, ReadPeerFinds, WritesAsPlanned DEF Step

\* Nobody works and nothing fails while a command runs: what it has read, what it
\* has planned and what it has done so far agree, from start to end.
LEMMA CommandsGoAsPlanned ==
  ASSUME Reliable
  PROVE  OSpec /\ []OneAtATime => []GoesAsPlanned
<1>1. OInit => GoesAsPlanned
  <2> SUFFICES ASSUME OInit PROVE GoesAsPlanned
    OBVIOUS
  <2>1. \A r \in Sides : cmd[r].pc = "idle" /\ ~cmd[r].force
    BY DEF OInit, Init, NoCommand
  <2>2. \A r \in Sides : Found(r) /\ Done(r)
    BY <2>1 DEF Found, Done, Changes
  <2>3. before = wt /\ manifest["wsl"] = manifest["win"]
    BY DEF OInit, Init, Sides
  <2> QED BY <2>2, <2>3 DEF GoesAsPlanned, Settles
<1>2. TypeOK /\ NoLate /\ OneAtATime /\ AllFresh /\ GoesAsPlanned /\ OneAtATime'
        /\ [ONext]_ovars => GoesAsPlanned'
  <2> SUFFICES ASSUME TypeOK, NoLate, OneAtATime, AllFresh, GoesAsPlanned, OneAtATime', ONext
               PROVE  GoesAsPlanned'
    <3>1. ASSUME GoesAsPlanned, UNCHANGED ovars PROVE GoesAsPlanned'
      <4>0. UNCHANGED ovars
        BY <3>1
      <4>1. Settles'
        BY <3>1, <4>0 DEF ovars, vars, GoesAsPlanned, Settles, Changing
      <4>2. ASSUME NEW r \in Sides PROVE Found(r)'
        BY <3>1, <4>0, <4>2 DEF ovars, vars, GoesAsPlanned, Found, Source, Dest
      <4>3. ASSUME NEW r \in Sides PROVE Done(r)'
        <5>1. /\ Done(r) /\ UNCHANGED <<head, index, wt, manifest, cmd, before>>
              /\ Source(r)' = Source(r) /\ Dest(r)' = Dest(r)
          BY <3>1, <4>0 DEF ovars, vars, GoesAsPlanned, Source, Dest
        <5>2. /\ Restored(r)' = Restored(r)
              /\ \A S : {p \in S : wt'[Source(r)'][p] # Absent} = Present(Source(r), S)
              /\ StatusOf(Dest(r))' = StatusOf(Dest(r))
          BY <5>1 DEF Restored, Present, StatusOf
        <5>3. Swept(r)' = Swept(r)
          BY <5>1, <5>2 DEF Swept
        <5>4. Final(r)' = Final(r)
          BY <5>1, <5>2, <5>3 DEF Final, Present
        <5> QED BY <5>1, <5>2, <5>3, <5>4 DEF Done, Present
      <4> QED BY <4>1, <4>2, <4>3 DEF GoesAsPlanned
    <3> QED BY <3>1
  <2>1. before' = IF Changing' THEN before ELSE wt'
    BY DEF ONext
  <2>2. ASSUME NEW r \in Sides, Step(r), cmd[Other(r)].pc = "idle" PROVE GoesAsPlanned'
    <3>1. Settles' /\ Found(r)' /\ Done(r)'
      BY <2>1, <2>2, StepAsPlanned DEF AllFresh
    <3>2. PICK c : Become(r, c)
      BY <2>2 DEF Step, ReadSource, ReadDest, PrintSource, PrintDest, ReadLocal, ReadPeer,
         Restore, PeerStatus, Delete, Copy, CopyFails, ReadAfter, WriteLocal, WritePeer,
         TornWrite, Abort, Killed
    <3>3. cmd'[Other(r)] = cmd[Other(r)] /\ Found(Other(r))
      BY <3>2, Became, TwoClones DEF GoesAsPlanned
    <3>4. cmd'[Other(r)].pc = "idle" /\ ~cmd'[Other(r)].force
      BY <2>2, <3>3 DEF Found
    <3>5. Found(Other(r))' /\ Done(Other(r))'
      BY <3>4 DEF Found, Done, Changes
    <3> QED BY <3>1, <3>5, TwoClones DEF GoesAsPlanned
  <2>3. ASSUME NEW s \in Sides, User(s), UNCHANGED <<cmd, manifest>>,
               \A r \in Sides : cmd[r].pc = "idle"
        PROVE  GoesAsPlanned'
    <3>1. \A r \in Sides : cmd'[r].pc = "idle" /\ ~cmd'[r].force
      BY <2>3 DEF GoesAsPlanned, Found
    <3>2. \A r \in Sides : Found(r)' /\ Done(r)'
      BY <3>1 DEF Found, Done, Changes
    <3> QED BY <2>1, <2>3, <3>2 DEF GoesAsPlanned, Settles
  <2>4. ASSUME NEW r \in Sides, Start(r) PROVE GoesAsPlanned'
    <3>1. PICK d, f : Become(r, [NoCommand EXCEPT !.pc = "readSource", !.direction = d, !.force = f])
      BY <2>4 DEF Start
    <3>2. cmd'[r] = [NoCommand EXCEPT !.pc = "readSource", !.direction = d, !.force = f]
      BY <3>1, Became
    <3>3. cmd'[r].pc = "readSource"
      BY <3>2 DEF NoCommand
    <3>4. Found(r)' /\ Done(r)'
      BY <3>3 DEF Found, Done, Changes
    <3>5. ASSUME NEW q \in Sides, q # r PROVE Found(q)' /\ Done(q)'
      <4>1. cmd'[q] = cmd[q] /\ Found(q)
        BY <3>1, <3>5, Became DEF GoesAsPlanned
      <4>2. cmd'[q].pc = "idle"
        BY <3>3, <3>5, TwoClones DEF OneAtATime
      <4> QED BY <4>1, <4>2 DEF Found, Done, Changes
    <3>6. cmd[r].pc = "idle" /\ manifest' = manifest /\ wt' = wt
      BY <2>4 DEF Start, repos
    <3>7. \A q \in Sides : q # r => cmd'[q] = cmd[q] /\ cmd'[q].pc = "idle"
      BY <3>1, <3>3, Became, TwoClones DEF OneAtATime
    <3>8. manifest["wsl"] = manifest["win"]
      BY <3>6, <3>7 DEF GoesAsPlanned, Settles
    <3> QED BY <2>1, <3>4, <3>5, <3>6, <3>8 DEF GoesAsPlanned, Settles
  <2> QED BY <2>2, <2>3, <2>4, WhoSteps DEF Reliable
<1> QED BY <1>1, <1>2, OutcomeTypeCorrect, NothingLate, ReadsStayFresh, PTL DEF OSpec, Reliable

----
\* When a sync is about to record its result, every dirty path of the source has
\* been mirrored, and nothing is listed that neither side had listed.
THEOREM SyncsMirror ==
  ASSUME Reliable
  PROVE  OSpec /\ []OneAtATime => []CompletedSyncMirrors
<1>1. TypeOK /\ AllFresh /\ GoesAsPlanned => CompletedSyncMirrors
  <2> SUFFICES ASSUME TypeOK, AllFresh, GoesAsPlanned, NEW r \in Sides, cmd[r].pc = "writeLocal"
               PROVE  LET c == cmd[r]
                          source == wt[Source(r)]
                          dest == wt[Dest(r)]
                          after == StatusOf(Dest(r))
                      IN /\ \A p \in CopyPaths(c) : dest[p] = source[p]
                         /\ \A p \in DeletePaths(c) :
                              \/ dest[p] = Absent
                              \/ p \in DirtyIn(c.dst) /\ p \notin WtDeletedIn(c.dst)
                         /\ \A p \in Orphaned(c) : p \in Listed(after) => p \in c.next
                         /\ \A p \in Listed(after) : p \in Listed(c.src) \cup Listed(c.dst)
    BY DEF CompletedSyncMirrors
  <2> DEFINE c == cmd[r]
  <2>0. PICK s \in Sides, d \in Sides : s = Source(r) /\ d = Dest(r)
    BY TwoClones
  <2>1. /\ wt[d] = Final(r) /\ CopyPaths(c) = Present(s, CopyPaths(c))
        /\ c.dst = GitStatus(head[d], index[d], before[d])
        /\ c.next = NextManifest(c, StatusOf(d))
        /\ c \in Command
    BY <2>0 DEF GoesAsPlanned, Found, Done, AllFresh, Fresh, TypeOK, Changes
  <2>2. DeletePaths(c) \subseteq Paths /\ CopyPaths(c) \subseteq Paths
    BY DEF DeletePaths, SourceDeleted, DeletedIn, OrphanedUntracked, UntrackedIn, CopyPaths, Listed
  <2>3. ASSUME NEW p \in CopyPaths(c) PROVE wt[d][p] = wt[s][p]
    BY <2>0, <2>1, <2>2, <2>3, FinalFile
  <2>4. ASSUME NEW p \in DeletePaths(c), p \in DirtyIn(c.dst) => p \in WtDeletedIn(c.dst)
        PROVE  wt[d][p] = Absent
    <3>1. /\ p \notin CopyPaths(c)
          /\ p \notin Restorable(index[d], RestorePaths(c))
      BY <2>0, <2>1, DeletedAreNotCopied, DeletedAreNotRestored
    <3>2. CASE p \notin DirtyIn(c.dst)
      BY <2>0, <2>1, <2>2, <3>1, <3>2, FinalFile
    <3>3. CASE p \in WtDeletedIn(c.dst)
      <4>1. p \in DirtyIn(c.dst)
        BY <3>3, DeletedIsDirty
      <4>2. wt[d][p] = before[d][p]
        BY <2>0, <2>1, <2>2, <3>1, <4>1, FinalFile
      <4> QED BY <2>1, <3>3, <4>2, DeletedIsGone
    <3> QED BY <2>4, <3>2, <3>3
  <2>5. ASSUME NEW p \in Paths, p \notin Listed(c.src), p \notin Listed(c.dst)
        PROVE  p \notin Listed(StatusOf(d))
    <3>1. p \notin CopyPaths(c) /\ p \notin DeletePaths(c) /\ p \notin RestorePaths(c)
      <4>1. DeletedIn(c.src) \subseteq Listed(c.src)
        BY <2>1, ListingTypes DEF Command
      <4>2. p \notin UntrackedIn(c.dst) /\ p \notin DirtyIn(c.dst)
        BY <2>5 DEF Listed, UntrackedIn, DirtyIn
      <4>3. p \notin WtDeletedIn(c.dst)
        BY <4>2, DeletedIsDirty
      <4> QED BY <2>5, <4>1, <4>2, <4>3 DEF CopyPaths, DeletePaths, SourceDeleted, OrphanedUntracked,
              RestorePaths
    <3>2. wt[d][p] = before[d][p]
      BY <2>0, <2>1, <3>1, FinalFile DEF Restorable
    <3>3. StatusOf(d)[p] = c.dst[p]
      BY <2>1, <3>2, EntryOfPath DEF StatusOf
    <3> QED BY <2>5, <3>3 DEF Listed
  <2>6. \A p \in Orphaned(c) : p \in Listed(StatusOf(d)) => p \in c.next
    BY <2>1 DEF NextManifest
  <2>7. Listed(StatusOf(d)) \subseteq Paths
    BY DEF Listed
  <2> QED BY <2>0, <2>3, <2>4, <2>5, <2>6, <2>7
<1> QED BY <1>1, OutcomeTypeCorrect, ReadsStayFresh, CommandsGoAsPlanned, PTL DEF Reliable

----
\* What Mirror calls tracked and request.
Tracked == IF cmd["wsl"].pc = "writePeer" THEN manifest["win"] ELSE manifest["wsl"]
Asked ==
  [from |-> IF cmd["wsl"].pc # "idle" THEN Source("wsl")
            ELSE IF cmd["win"].pc # "idle" THEN Source("win") ELSE "none",
   force |-> cmd["wsl"].force \/ cmd["win"].force]

\* Mirror lists and reads a repository as SyncFlow does.
LEMMA SameListings ==
  \A s : /\ Undisturbed!StatusOf(s) = GitStatus(head[s], index[s], before[s])
         /\ Undisturbed!StatusOf(s)' = GitStatus(head'[s], index'[s], before'[s])
BY DEF Undisturbed!StatusOf, Undisturbed!GitStatus, GitStatus, Undisturbed!Renames, Renames,
       Undisturbed!RenamePairs, RenamePairs, Undisturbed!IndexColumn, IndexColumn,
       Undisturbed!WorktreeColumn, WorktreeColumn

\* Mirror reads a listing as SyncFlow does: both take it from GitRepo.
LEMMA SameReadings ==
  ASSUME NEW status
  PROVE  /\ Undisturbed!Listed(status) = Listed(status)
         /\ Undisturbed!DeletedIn(status) = DeletedIn(status)
         /\ Undisturbed!LiveIn(status) = LiveIn(status)
         /\ Undisturbed!DirtyIn(status) = DirtyIn(status)
         /\ Undisturbed!WtDeletedIn(status) = WtDeletedIn(status)
         /\ Undisturbed!UntrackedIn(status) = UntrackedIn(status)
<1> USE DEF Undisturbed!Quiet, Quiet, Undisturbed!DeletedCodes, DeletedCodes
<1>1. Undisturbed!Listed(status) = Listed(status)
  BY Zenon DEF Undisturbed!Listed, Listed
<1>2. Undisturbed!DeletedIn(status) = DeletedIn(status)
  BY Zenon DEF Undisturbed!DeletedIn, DeletedIn
<1>3. Undisturbed!LiveIn(status) = LiveIn(status)
  BY Zenon DEF Undisturbed!LiveIn, LiveIn
<1>4. Undisturbed!DirtyIn(status) = DirtyIn(status)
  BY Zenon DEF Undisturbed!DirtyIn, DirtyIn
<1>5. Undisturbed!WtDeletedIn(status) = WtDeletedIn(status)
  BY Zenon DEF Undisturbed!WtDeletedIn, WtDeletedIn
<1>6. Undisturbed!UntrackedIn(status) = UntrackedIn(status)
  BY Zenon DEF Undisturbed!UntrackedIn, UntrackedIn
<1> QED BY <1>1, <1>2, <1>3, <1>4, <1>5, <1>6

\* Mirror has the clones of SyncFlow.
LEMMA SameSides ==
  Undisturbed!Sides = Sides /\ \A s : Undisturbed!Other(s) = Other(s)
BY DEF Undisturbed!Sides, Sides, Undisturbed!Other, Other

\* Restores, deletions and copies come to the one change that Mirror makes.
LEMMA FinalIsMirrored ==
  ASSUME NEW r \in Sides, NEW s, NEW d, s = Source(r), d = Dest(r), d = Other(s),
         cmd[r] \in Command,
         cmd[r].src = GitStatus(head[s], index[s], before[s]), wt[s] = before[s],
         cmd[r].dst = GitStatus(head[d], index[d], before[d]), cmd[r].known = Tracked
  PROVE  Final(r) = Undisturbed!Mirrored(s)
<1> DEFINE c == cmd[r]
           orphaned(p) == p \in Tracked \ Listed(c.src)
<1>1. ASSUME NEW p \in Paths
      PROVE  Undisturbed!Mirrored(s)[p] =
               IF p \in DeletedIn(c.src)
               THEN IF p \in DirtyIn(c.dst) THEN before[d][p] ELSE Absent
               ELSE IF p \in Listed(c.src) \ DeletedIn(c.src) /\ wt[s][p] # Absent THEN wt[s][p]
               ELSE IF \/ p \in WtDeletedIn(c.dst)
                       \/ orphaned(p) /\ p \in DirtyIn(c.dst) /\ index[d][p] # Absent
               THEN index[d][p]
               ELSE IF orphaned(p) /\ p \in UntrackedIn(c.dst) \ DirtyIn(c.dst) THEN Absent
               ELSE before[d][p]
  BY <1>1, SameListings, SameReadings, SameSides
     DEF Undisturbed!Mirrored, Undisturbed!Changed, Undisturbed!Reconciled, Tracked
<1>2. /\ DeletedIn(c.src) \subseteq Listed(c.src)
      /\ WtDeletedIn(c.dst) \subseteq DirtyIn(c.dst)
  BY ListingTypes, DeletedIsDirty DEF Command
<1>3. /\ \A p \in WtDeletedIn(c.dst) : index[d][p] # Absent
      /\ \A p \in UntrackedIn(c.dst) : index[d][p] = Absent
  <2>1. \A p \in Paths : c.dst[p].new = (index[d][p] = Absent /\ before[d][p] # Absent)
    BY DEF GitStatus
  <2>2. \A p \in UntrackedIn(c.dst) : index[d][p] = Absent
    BY <2>1, Zenon DEF UntrackedIn
  <2> QED BY <2>2, DeletedIsGone
<1>4. ASSUME NEW p \in Paths
      PROVE  Final(r)[p] = Undisturbed!Mirrored(s)[p]
  <2>1. Final(r)[p] = IF p \in Present(s, CopyPaths(c)) THEN wt[s][p]
                      ELSE IF p \in DeletePaths(c) \ DirtyIn(c.dst) THEN Absent
                      ELSE IF p \in Restorable(index[d], RestorePaths(c))
                      THEN index[d][p] ELSE before[d][p]
    BY FinalFile
  <2>2. p \in Present(s, CopyPaths(c)) <=>
          p \in Listed(c.src) \ DeletedIn(c.src) /\ wt[s][p] # Absent
    BY DEF Present, CopyPaths, SourceDeleted
  <2>3. p \in DeletePaths(c) <=>
          p \in DeletedIn(c.src) \/ (orphaned(p) /\ p \in UntrackedIn(c.dst))
    BY DEF DeletePaths, SourceDeleted, OrphanedUntracked, Orphaned
  <2>4. p \in Restorable(index[d], RestorePaths(c)) <=>
          /\ index[d][p] # Absent
          /\ \/ p \in WtDeletedIn(c.dst) \ DeletedIn(c.src)
             \/ p \in DirtyIn(c.dst) /\ orphaned(p)
    BY DEF Restorable, RestorePaths, SourceDeleted, Orphaned
  <2> HIDE DEF orphaned
  <2>5. orphaned(p) => p \notin Listed(c.src)
    BY DEF orphaned
  <2> QED BY <1>1, <1>2, <1>3, <2>1, <2>2, <2>3, <2>4, <2>5
<1>5. \E A, B : /\ Final(r) = [p \in Paths |-> A[p]]
                /\ Undisturbed!Mirrored(s) = [p \in Paths |-> B[p]]
  <2>1. Final(r) = [p \in Paths |-> Final(r)[p]]
    BY DEF Final, Overlay
  <2>2. Undisturbed!Mirrored(s) = [p \in Paths |-> Undisturbed!Mirrored(s)[p]]
    BY DEF Undisturbed!Mirrored
  <2> QED BY <2>1, <2>2
<1> QED BY <1>4, <1>5

----
\* before is a pair of worktrees.
FoundType == before \in [Sides -> Tree]

\* What the history variables hold is well-typed.
LEMMA FoundTypeCorrect == OSpec => []FoundType
<1>1. OInit /\ TypeOK => FoundType
  BY DEF OInit, TypeOK, FoundType
<1>2. TypeOK' /\ FoundType /\ [ONext]_ovars => FoundType'
  BY DEF ONext, ovars, TypeOK, FoundType
<1> QED BY <1>1, <1>2, OutcomeTypeCorrect, PTL DEF OSpec

\* A step after which the command goes on
GoesOn(r) ==
  \/ ReadSource(r) \/ ReadDest(r) \/ PrintSource(r) \/ PrintDest(r) \/ ReadLocal(r)
  \/ (ReadPeer(r) /\ (cmd[r].conflicts = {} \/ cmd[r].force))
  \/ Restore(r) \/ PeerStatus(r) \/ Delete(r) \/ Copy(r) \/ ReadAfter(r) \/ WriteLocal(r)

\* A step after which the command goes on
LEMMA GoingOn ==
  ASSUME TypeOK, NEW r \in Sides, GoesOn(r)
  PROVE  /\ cmd[r].pc # "idle" /\ cmd'[r].pc # "idle" /\ cmd[r].pc # "writePeer"
         /\ cmd'[r].direction = cmd[r].direction /\ cmd'[r].force = cmd[r].force
         /\ cmd'[r].pc \in Changes \/ (cmd[r].pc \notin Changes /\ wt' = wt)
         /\ cmd'[r].pc = "writePeer" <=> WriteLocal(r)
         /\ UNCHANGED <<head, index>> /\ (~WriteLocal(r) => manifest' = manifest)
         /\ \E c : Become(r, c)
<1> DEFINE c == cmd[r]
<1>0. c \in Command /\ UNCHANGED <<head, index>> /\ (~WriteLocal(r) => manifest' = manifest)
  BY DEF TypeOK, GoesOn, ReadSource, ReadDest, PrintSource, PrintDest, ReadLocal, ReadPeer,
     Restore, PeerStatus, Delete, Copy, ReadAfter, WriteLocal, repos
<1>1. CASE ReadSource(r)
  <2>1. Become(r, [c EXCEPT !.src = StatusOf(Source(r)), !.pc = "readDest"])
    BY <1>1 DEF ReadSource
  <2>2. c' = [c EXCEPT !.src = StatusOf(Source(r)), !.pc = "readDest"] /\ c.pc = "readSource"
    BY <1>1, Became DEF ReadSource
  <2> QED BY <1>0, <1>1, <2>1, <2>2 DEF Command, ReadSource, WriteLocal, Changes, repos
<1>2. CASE ReadDest(r)
  <2> DEFINE next == IF Listed(c.src) \cap Listed(StatusOf(Dest(r))) = {}
                     THEN "readLocal" ELSE "printSource"
  <2>1. Become(r, [c EXCEPT !.dst = StatusOf(Dest(r)), !.pc = next])
    BY <1>2 DEF ReadDest
  <2>2. c' = [c EXCEPT !.dst = StatusOf(Dest(r)), !.pc = next] /\ c.pc = "readDest"
    BY <1>2, Became DEF ReadDest
  <2> QED BY <1>0, <1>2, <2>1, <2>2 DEF Command, ReadDest, WriteLocal, Changes, repos
<1>3. CASE PrintSource(r)
  <2> DEFINE prints == Overlay(EmptyTree, Overlap(c), wt[Source(r)])
  <2>1. Become(r, [c EXCEPT !.pc = "printDest", !.prints = prints])
    BY <1>3 DEF PrintSource
  <2>2. c' = [c EXCEPT !.pc = "printDest", !.prints = prints] /\ c.pc = "printSource"
    BY <1>3, Became DEF PrintSource
  <2> QED BY <1>0, <1>3, <2>1, <2>2 DEF Command, PrintSource, WriteLocal, Changes, repos
<1>4. CASE PrintDest(r)
  <2> DEFINE found == Conflicts(c, c.prints, wt[Dest(r)])
  <2>1. Become(r, [c EXCEPT !.pc = "readLocal", !.prints = EmptyTree, !.conflicts = found])
    BY <1>4 DEF PrintDest
  <2>2. /\ c' = [c EXCEPT !.pc = "readLocal", !.prints = EmptyTree, !.conflicts = found]
        /\ c.pc = "printDest"
    BY <1>4, Became DEF PrintDest
  <2> QED BY <1>0, <1>4, <2>1, <2>2 DEF Command, PrintDest, WriteLocal, Changes, repos
<1>5. CASE ReadLocal(r)
  <2>1. Become(r, [c EXCEPT !.known = manifest[r], !.pc = "readPeer"])
    BY <1>5 DEF ReadLocal
  <2>2. c' = [c EXCEPT !.known = manifest[r], !.pc = "readPeer"] /\ c.pc = "readLocal"
    BY <1>5, Became DEF ReadLocal
  <2> QED BY <1>0, <1>5, <2>1, <2>2 DEF Command, ReadLocal, WriteLocal, Changes, repos
<1>6. CASE ReadPeer(r) /\ (c.conflicts = {} \/ c.force)
  <2> DEFINE next == [c EXCEPT !.known = @ \cup manifest[Other(r)], !.dirty = DirtyIn(c.dst),
                               !.pc = "restore"]
  <2>1. Become(r, next)
    BY <1>6 DEF ReadPeer
  <2>2. c' = next /\ c.pc = "readPeer"
    BY <1>6, <2>1, Became DEF ReadPeer
  <2> QED BY <1>0, <1>6, <2>1, <2>2 DEF Command, ReadPeer, WriteLocal, Changes, repos
<1>7. CASE Restore(r)
  <2> DEFINE next == IF DestIsLocal(r) THEN "delete" ELSE "peerStatus"
  <2>1. Become(r, [c EXCEPT !.pc = next])
    BY <1>7 DEF Restore
  <2>2. c' = [c EXCEPT !.pc = next] /\ c.pc = "restore"
    BY <1>7, Became DEF Restore
  <2> QED BY <1>0, <1>7, <2>1, <2>2 DEF Command, Restore, WriteLocal, Changes
<1>8. CASE PeerStatus(r)
  <2> DEFINE dirty == DirtyIn(StatusOf(Dest(r)))
  <2>1. Become(r, [c EXCEPT !.dirty = dirty, !.pc = "delete"])
    BY <1>8 DEF PeerStatus
  <2>2. c' = [c EXCEPT !.dirty = dirty, !.pc = "delete"] /\ c.pc = "peerStatus"
    BY <1>8, Became DEF PeerStatus
  <2> QED BY <1>0, <1>8, <2>1, <2>2 DEF Command, PeerStatus, WriteLocal, Changes
<1>9. CASE Delete(r)
  <2>1. Become(r, [c EXCEPT !.pc = "copy"])
    BY <1>9 DEF Delete
  <2>2. c' = [c EXCEPT !.pc = "copy"] /\ c.pc = "delete"
    BY <1>9, Became DEF Delete
  <2> QED BY <1>0, <1>9, <2>1, <2>2 DEF Command, Delete, WriteLocal, Changes
<1>10. CASE Copy(r)
  <2>1. Become(r, [c EXCEPT !.pc = "readAfter"])
    BY <1>10 DEF Copy
  <2>2. c' = [c EXCEPT !.pc = "readAfter"] /\ c.pc = "copy"
    BY <1>10, Became DEF Copy
  <2> QED BY <1>0, <1>10, <2>1, <2>2 DEF Command, Copy, WriteLocal, Changes
<1>11. CASE ReadAfter(r)
  <2> DEFINE next == NextManifest(c, StatusOf(Dest(r)))
  <2>1. Become(r, [c EXCEPT !.next = next, !.pc = "writeLocal"])
    BY <1>11 DEF ReadAfter
  <2>2. c' = [c EXCEPT !.next = next, !.pc = "writeLocal"] /\ c.pc = "readAfter"
    BY <1>11, Became DEF ReadAfter
  <2> QED BY <1>0, <1>11, <2>1, <2>2 DEF Command, ReadAfter, WriteLocal, Changes
<1>12. CASE WriteLocal(r)
  <2>1. Become(r, [c EXCEPT !.pc = "writePeer"])
    BY <1>12 DEF WriteLocal
  <2>2. c' = [c EXCEPT !.pc = "writePeer"] /\ c.pc = "writeLocal"
    BY <1>12, Became DEF WriteLocal
  <2> QED BY <1>0, <1>12, <2>1, <2>2 DEF Command, WriteLocal, Changes
<1> QED BY <1>1, <1>2, <1>3, <1>4, <1>5, <1>6, <1>7, <1>8, <1>9, <1>10, <1>11, <1>12 DEF GoesOn

----
\* What is asked of Mirror is what the command that runs is to do.
LEMMA AskedIs ==
  ASSUME NEW r \in Sides, cmd[Other(r)].pc = "idle", ~cmd[Other(r)].force,
         cmd[r].force \in BOOLEAN
  PROVE  Asked = [from |-> IF cmd[r].pc = "idle" THEN "none" ELSE Source(r),
                  force |-> cmd[r].force]
<1>1. CASE r = "wsl"
  BY <1>1 DEF Asked, Other
<1>2. CASE r = "win"
  BY <1>2 DEF Asked, Other
<1> QED BY <1>1, <1>2 DEF Sides

\* The last step of a sync, and the step by which it is refused, are the steps
\* of Mirror, ...
LEMMA EndsImplement ==
  ASSUME Reliable, TypeOK, FoundType, NEW r \in Sides, cmd[Other(r)].pc = "idle",
         GoesAsPlanned, Fresh(r), before' = IF Changing' THEN before ELSE wt',
         Become(r, NoCommand), CopyFails(r) \/ WritePeer(r) \/ (ReadPeer(r) /\ ~GoesOn(r))
  PROVE  \E from \in Sides : Undisturbed!Refuse(from) \/ Undisturbed!Sync(from)
<1> DEFINE c == cmd[r]
<1>0. PICK s \in Sides, d \in Sides :
         s = Source(r) /\ d = Dest(r) /\ s # d /\ d = Other(s) /\ \A q \in Sides : q = s \/ q = d
  BY TwoClones DEF Dest
<1>1. /\ c \in Command /\ c.pc \in {"readPeer", "copy", "writePeer"}
      /\ UNCHANGED <<head, index>>
  BY DEF TypeOK, CopyFails, WritePeer, ReadPeer, repos
<1>2. Asked = [from |-> s, force |-> c.force] /\ Asked' = [from |-> "none", force |-> FALSE]
  <2>1. ~cmd[Other(r)].force /\ c.force \in BOOLEAN /\ c.pc # "idle"
    BY <1>1, TwoClones DEF GoesAsPlanned, Found, Command
  <2>2. Asked = [from |-> s, force |-> c.force]
    BY <1>0, <2>1, AskedIs
  <2>3. cmd'[r] = NoCommand /\ cmd'[Other(r)] = cmd[Other(r)]
    BY Became, TwoClones
  <2>4. \A q \in Sides : cmd'[q].pc = "idle" /\ ~cmd'[q].force
    BY <2>1, <2>3, TwoClones DEF NoCommand
  <2> QED BY <2>2, <2>4 DEF Asked, Sides
<1>3. before' = wt'
  <2>1. NoCommand.pc \notin Changes
    BY DEF NoCommand, Changes
  <2> QED BY <2>1, ChangingBecomes
<1>4. c.src = GitStatus(head[s], index[s], before[s]) /\ before[s] = wt[s]
  <2>1. c.src = GitStatus(head[s], index[s], wt[s])
    BY <1>0, <1>1 DEF Fresh, StatusOf
  <2>2. before[s] = wt[s]
    BY <1>0, <1>1, ChangingIs DEF GoesAsPlanned, Settles, Found, Changes
  <2> QED BY <2>1, <2>2
<1>5. Tracked = manifest[Other(r)]
  BY <1>1, TwoClones DEF Tracked, GoesAsPlanned, Settles, Sides, Other
<1>6. c.dst = GitStatus(head[d], index[d], before[d])
  <2>1. CASE c.pc = "readPeer"
    BY <1>0, <2>1, ChangingIs DEF Fresh, StatusOf, GoesAsPlanned, Settles, Changes
  <2>2. CASE c.pc \in {"copy", "writePeer"}
    BY <1>0, <2>2 DEF GoesAsPlanned, Found, Changes
  <2> QED BY <1>1, <2>1, <2>2
<1>7. Undisturbed!Conflicting(s) = {p \in Overlap(c) : before[s][p] # before[d][p]}
  BY <1>0, <1>4, <1>6, SameListings, SameReadings, SameSides
     DEF Undisturbed!Conflicting, Overlap
<1>8. CASE ReadPeer(r) /\ ~GoesOn(r)
  <2>1. c.conflicts # {} /\ ~c.force /\ c.pc = "readPeer" /\ UNCHANGED <<wt, manifest>>
    BY <1>8 DEF GoesOn, ReadPeer, repos
  <2>2. before = wt
    BY <2>1, ChangingIs DEF GoesAsPlanned, Settles, Changes
  <2>3. Undisturbed!Conflicting(s) = c.conflicts
    BY <1>0, <1>7, <2>1, <2>2 DEF Fresh
  <2>4. Tracked' = Tracked
    <3>1. \A q \in Sides : cmd[q].pc # "writePeer" /\ cmd'[q].pc # "writePeer"
      BY <2>1, Became, TwoClones DEF NoCommand
    <3> QED BY <2>1, <3>1 DEF Tracked, Sides
  <2>5. c.force = FALSE
    BY <1>1, <2>1 DEF Command
  <2> QED BY <1>1, <1>2, <1>3, <2>1, <2>2, <2>3, <2>4, <2>5
          DEF Undisturbed!Refuse, Undisturbed!NoRequest, Tracked, Asked
<1>9. CASE CopyFails(r) \/ WritePeer(r)
  <2>1. /\ c.pc \in {"copy", "writePeer"} /\ c.known = Tracked
        /\ ~c.force => \A p \in Overlap(c) : before[s][p] = before[d][p]
    <3>1. c.pc \in {"copy", "writePeer"} /\ Found(r)
      BY <1>9 DEF CopyFails, WritePeer, GoesAsPlanned
    <3> QED BY <1>0, <1>5, <3>1 DEF Found, Changes
  <2>2. Final(r) = Undisturbed!Mirrored(s)
    BY <1>0, <1>1, <1>4, <1>6, <2>1, FinalIsMirrored
  <2>3. c.force \/ Undisturbed!Conflicting(s) = {}
    BY <1>7, <2>1
  <2>4. wt' = [wt EXCEPT ![d] = Final(r)]
    <3>1. CASE CopyFails(r)
      <4>1. wt' = [wt EXCEPT ![d] = Overlay(wt[d], Present(s, CopyPaths(c)), wt[s])]
        BY <1>0, <3>1 DEF CopyFails, PartOf, Reliable
      <4>2. wt[d] = Swept(r)
        BY <1>0, <3>1 DEF CopyFails, GoesAsPlanned, Done
      <4> QED BY <1>0, <4>1, <4>2 DEF Final
    <3>2. CASE WritePeer(r)
      <4>1. wt' = wt /\ wt[d] = Final(r)
        BY <1>0, <3>2 DEF WritePeer, repos, GoesAsPlanned, Done
      <4> QED BY <4>1 DEF TypeOK
    <3> QED BY <1>9, <3>1, <3>2
  <2>5. wt' = [before EXCEPT ![d] = Final(r)]
    <3>1. \A q \in Sides : [wt EXCEPT ![d] = Final(r)][q] = [before EXCEPT ![d] = Final(r)][q]
      BY <1>0, <1>4 DEF TypeOK, FoundType
    <3> QED BY <2>4, <3>1 DEF TypeOK, FoundType
  <2>6. Undisturbed!Copyable(s) <=> CopyPaths(c) = Present(s, CopyPaths(c))
    BY <1>4, SameListings, SameReadings
       DEF Undisturbed!Copyable, Undisturbed!Changed, CopyPaths, SourceDeleted, Present
  <2>7. Tracked' = IF CopyPaths(c) = Present(s, CopyPaths(c))
                   THEN NextManifest(c, GitStatus(head[d], index[d], wt'[d]))
                   ELSE Tracked
    <3>1. \A q \in Sides : cmd'[q].pc # "writePeer"
      BY Became, TwoClones DEF NoCommand
    <3>2. Tracked' = manifest'["wsl"]
      BY <3>1 DEF Tracked, Sides
    <3>3. CASE CopyFails(r)
      <4>1. c.pc = "copy" /\ manifest' = manifest /\ CopyPaths(c) # Present(s, CopyPaths(c))
        BY <1>0, <3>3 DEF CopyFails, Reliable
      <4>2. Tracked = manifest["wsl"]
        BY <4>1, TwoClones DEF Tracked, Sides
      <4> QED BY <3>2, <4>1, <4>2
    <3>4. CASE WritePeer(r)
      <4>1. /\ c.pc = "writePeer" /\ manifest' = [manifest EXCEPT ![Other(r)] = c.next]
            /\ wt' = wt
        BY <3>4 DEF WritePeer, repos
      <4>2. /\ c.next = manifest[r] /\ c.next = NextManifest(c, StatusOf(d))
            /\ CopyPaths(c) = Present(s, CopyPaths(c))
        BY <1>0, <4>1 DEF GoesAsPlanned, Done
      <4>3. manifest'["wsl"] = c.next
        BY <4>1, <4>2, TwoClones DEF TypeOK, Sides
      <4> QED BY <3>2, <4>1, <4>2, <4>3 DEF StatusOf
    <3> QED BY <1>9, <3>3, <3>4
  <2>8. NextManifest(c, GitStatus(head[d], index[d], wt'[d])) =
          Undisturbed!LiveIn(Undisturbed!StatusOf(s)) \cup
            ((Tracked \ Undisturbed!Listed(Undisturbed!StatusOf(s)))
               \cap Undisturbed!Listed(Undisturbed!StatusOf(d))')
    <3>1. Undisturbed!StatusOf(d)' = GitStatus(head[d], index[d], wt'[d])
      BY <1>1, <1>3, SameListings
    <3> QED BY <1>4, <2>1, <3>1, SameListings, SameReadings DEF NextManifest, Orphaned
  <2> QED BY <1>0, <1>1, <1>2, <1>3, <2>2, <2>3, <2>5, <2>6, <2>7, <2>8, SameSides
          DEF Undisturbed!Sync, Undisturbed!NoRequest, Tracked, Asked
<1> QED BY <1>8, <1>9

\* ... and every other step of a command leaves Mirror as it is.
LEMMA OthersStutter ==
  ASSUME TypeOK, NEW r \in Sides, cmd[Other(r)].pc = "idle", GoesAsPlanned,
         before' = IF Changing' THEN before ELSE wt', GoesOn(r)
  PROVE  UNCHANGED <<head, index, before, Tracked, Asked>>
<1> DEFINE c == cmd[r]
<1>1. /\ c.pc # "idle" /\ c'.pc # "idle" /\ c.pc # "writePeer"
      /\ c'.direction = c.direction /\ c'.force = c.force
      /\ c'.pc \in Changes \/ (c.pc \notin Changes /\ wt' = wt)
      /\ c'.pc = "writePeer" <=> WriteLocal(r)
      /\ UNCHANGED <<head, index>> /\ (~WriteLocal(r) => manifest' = manifest)
  BY GoingOn
<1>2. cmd'[Other(r)] = cmd[Other(r)] /\ (Changing' <=> c'.pc \in Changes)
  <2>1. PICK next : Become(r, next)
    BY GoingOn
  <2> QED BY <2>1, Became, TwoClones, ChangingBecomes
<1>3. before' = before
  <2>1. CASE c'.pc \in Changes
    BY <1>2, <2>1
  <2>2. CASE c'.pc \notin Changes
    <3>1. before = wt
      BY <1>1, <2>2, ChangingIs DEF GoesAsPlanned, Settles
    <3> QED BY <1>1, <1>2, <2>2, <3>1
  <2> QED BY <2>1, <2>2
<1>4. manifest["wsl"] = manifest["win"]
  BY <1>1, TwoClones DEF GoesAsPlanned, Settles
<1>5. CASE r = "wsl"
  <2>1. /\ cmd["win"].pc = "idle" /\ cmd'["win"] = cmd["win"] /\ "win" \in Sides
    BY <1>2, <1>5 DEF Other, Sides
  <2>2. Source("wsl")' = Source("wsl")
    BY <1>1, <1>5 DEF Source
  <2>3. Asked' = Asked
    BY <1>1, <1>5, <2>1, <2>2 DEF Asked
  <2>4. Tracked' = Tracked
    <3>1. WriteLocal(r) => manifest'["win"] = manifest["win"]
      BY <1>5, <2>1 DEF WriteLocal, TypeOK
    <3> QED BY <1>1, <1>4, <1>5, <3>1 DEF Tracked
  <2> QED BY <1>1, <1>3, <2>3, <2>4
<1>6. CASE r = "win"
  <2>1. /\ cmd["wsl"].pc = "idle" /\ cmd'["wsl"] = cmd["wsl"] /\ "wsl" \in Sides
    BY <1>2, <1>6 DEF Other, Sides
  <2>2. Source("win")' = Source("win")
    BY <1>1, <1>6 DEF Source
  <2>3. Asked' = Asked
    BY <1>1, <1>6, <2>1, <2>2 DEF Asked
  <2>4. Tracked' = Tracked
    <3>1. WriteLocal(r) => manifest'["wsl"] = manifest["wsl"]
      BY <1>6, <2>1 DEF WriteLocal, TypeOK
    <3> QED BY <1>1, <2>1, <3>1 DEF Tracked
  <2> QED BY <1>1, <1>3, <2>3, <2>4
<1> QED BY <1>5, <1>6 DEF Sides

\* A command that starts asks for a sync; users work while none is asked for.
LEMMA StartAsks ==
  ASSUME TypeOK, OneAtATime, OneAtATime', GoesAsPlanned, NEW r \in Sides, Start(r),
         before' = IF Changing' THEN before ELSE wt'
  PROVE  Undisturbed!Ask
<1>0. PICK d \in Directions, f \in Forcing :
        Become(r, [NoCommand EXCEPT !.pc = "readSource", !.direction = d, !.force = f])
  BY DEF Start
<1>1. cmd'[r] = [NoCommand EXCEPT !.pc = "readSource", !.direction = d, !.force = f]
  BY <1>0, Became
<1>2. cmd'[r].pc = "readSource" /\ cmd'[r].direction = d /\ cmd'[r].force = f
  BY <1>1 DEF NoCommand
<1>3. cmd[r].pc = "idle" /\ UNCHANGED <<head, index, wt, manifest>>
  BY DEF Start, repos
<1>4. cmd'[Other(r)] = cmd[Other(r)] /\ cmd'[Other(r)].pc = "idle"
  BY <1>0, <1>2, Became, TwoClones DEF OneAtATime
<1>5. \A q \in Sides : cmd[q].pc = "idle" /\ ~cmd[q].force /\ cmd'[q].pc \in {"idle", "readSource"}
  BY <1>2, <1>3, <1>4, TwoClones DEF GoesAsPlanned, Found
<1>6. before' = before
  <2>1. ~Changing /\ ~Changing'
    BY <1>5 DEF Changing
  <2> QED BY <1>3, <2>1 DEF GoesAsPlanned, Settles
<1>7. Asked = [from |-> "none", force |-> FALSE] /\ Tracked' = Tracked
  BY <1>3, <1>5 DEF Asked, Tracked, Sides
<1>8. \E from \in Sides : Asked' = [from |-> from, force |-> f]
  <2>1. Source(r)' \in Sides
    BY TwoClones DEF Source, Sides, Other
  <2>2. f \in BOOLEAN
    BY ForcingAssumption
  <2>3. CASE r = "wsl"
    <3>1. cmd'["win"].pc = "idle" /\ ~cmd'["win"].force
      BY <1>4, <1>5, <2>3 DEF Sides, Other
    <3> QED BY <1>2, <2>1, <2>2, <2>3, <3>1 DEF Asked
  <2>4. CASE r = "win"
    <3>1. cmd'["wsl"].pc = "idle" /\ ~cmd'["wsl"].force
      BY <1>4, <1>5, <2>4 DEF Sides, Other
    <3> QED BY <1>2, <2>1, <2>2, <2>4, <3>1 DEF Asked
  <2> QED BY <2>3, <2>4 DEF Sides
<1>9. Asked' \in Undisturbed!Request
  BY <1>8, ForcingAssumption, SameSides DEF Undisturbed!Request
<1> QED BY <1>3, <1>6, <1>7, <1>9 DEF Undisturbed!Ask, Undisturbed!NoRequest, Asked, Tracked

\* What a user does between commands is a step of Mirror.
LEMMA UsersWork ==
  ASSUME TypeOK, GoesAsPlanned, NEW u \in Sides, User(u), UNCHANGED <<cmd, manifest>>,
         \A r \in Sides : cmd[r].pc = "idle", before' = IF Changing' THEN before ELSE wt'
  PROVE  Undisturbed!Work
<1>1. before = wt /\ before' = wt'
  BY DEF Changing, GoesAsPlanned, Settles
<1>2. PICK s \in Sides : s # u
  BY TwoClones
<1>3. head'[s] = head[s] /\ index'[s] = index[s] /\ wt'[s] = wt[s]
  BY <1>2 DEF User, Edit, GitAdd, GitRmCached, GitRestore, GitCommit, TypeOK
<1>4. Asked = [from |-> "none", force |-> FALSE]
  BY DEF GoesAsPlanned, Found, Asked, Sides
<1>5. Asked' = Asked /\ Tracked' = Tracked
  BY DEF Asked, Tracked, Source
<1> QED BY <1>1, <1>2, <1>3, <1>4, <1>5, SameSides
        DEF Undisturbed!Work, Undisturbed!NoRequest, Asked, Tracked

\* A sync that nothing disturbs and in which nothing fails implements Mirror:
\* whichever side runs it, its reads, restores, deletions and copies come to one
\* change of the destination, and of the manifests, as README has it.
THEOREM SyncImplementsMirror ==
  ASSUME Reliable
  PROVE  OSpec /\ []OneAtATime => ImplementsMirror
<1>1. OInit => Undisturbed!Init
  <2> SUFFICES ASSUME OInit PROVE Undisturbed!Init
    OBVIOUS
  <2>1. /\ \A r \in Sides : cmd[r].pc = "idle" /\ ~cmd[r].force
        /\ manifest["wsl"] = {} /\ before = wt
    BY DEF OInit, Init, NoCommand, Sides
  <2>2. Asked = [from |-> "none", force |-> FALSE] /\ Tracked = {}
    BY <2>1 DEF Asked, Tracked, Sides
  <2>3. \E tree \in Undisturbed!Tree : head = [s \in Sides |-> tree]
    BY DEF OInit, Init, Undisturbed!Tree, Tree, Undisturbed!File, File
  <2> QED BY <2>1, <2>2, <2>3, SameSides
          DEF OInit, Init, Undisturbed!Init, Undisturbed!NoRequest, Asked, Tracked
<1>2. TypeOK /\ NoLate /\ OneAtATime /\ AllFresh /\ GoesAsPlanned /\ FoundType /\ OneAtATime'
        /\ [ONext]_ovars => [Undisturbed!Next]_<<head, index, before, Tracked, Asked>>
  <2> SUFFICES ASSUME TypeOK, NoLate, OneAtATime, AllFresh, GoesAsPlanned, FoundType, OneAtATime',
                      [ONext]_ovars
               PROVE  Undisturbed!Next \/ UNCHANGED <<head, index, before, Tracked, Asked>>
    OBVIOUS
  <2>1. CASE UNCHANGED ovars
    BY <2>1 DEF ovars, vars, Tracked, Asked, Source
  <2>2. CASE ONext
    <3>1. before' = IF Changing' THEN before ELSE wt'
      BY <2>2 DEF ONext
    <3>2. ASSUME NEW r \in Sides, Step(r), cmd[Other(r)].pc = "idle"
          PROVE  Undisturbed!Next \/ UNCHANGED <<head, index, before, Tracked, Asked>>
      <4>1. Fresh(r)
        BY DEF AllFresh
      <4>2. CASE GoesOn(r)
        BY <3>1, <3>2, <4>2, OthersStutter
      <4>3. ASSUME ~GoesOn(r)
            PROVE  Become(r, NoCommand) /\ (CopyFails(r) \/ WritePeer(r) \/ ReadPeer(r))
        BY <3>2, <4>3 DEF GoesOn, Step, CopyFails, WritePeer, ReadPeer, TornWrite, Abort, Killed,
           Reliable, Calm
      <4>4. CASE ~GoesOn(r)
        <5>1. \E from \in Sides : Undisturbed!Refuse(from) \/ Undisturbed!Sync(from)
          BY <3>1, <3>2, <4>1, <4>3, <4>4, EndsImplement
        <5> QED BY <5>1, SameSides DEF Undisturbed!Next
      <4> QED BY <4>2, <4>4
    <3>3. ASSUME NEW r \in Sides, Start(r) PROVE Undisturbed!Next
      BY <3>1, <3>3, StartAsks DEF Undisturbed!Next
    <3>4. ASSUME NEW u \in Sides, User(u), UNCHANGED <<cmd, manifest>>,
                 \A r \in Sides : cmd[r].pc = "idle"
          PROVE  Undisturbed!Next
      BY <3>1, <3>4, UsersWork DEF Undisturbed!Next
    <3> QED BY <2>2, <3>2, <3>3, <3>4, WhoSteps DEF Reliable
  <2> QED BY <2>1, <2>2
<1> QED BY <1>1, <1>2, OutcomeTypeCorrect, NothingLate, ReadsStayFresh, FoundTypeCorrect,
           CommandsGoAsPlanned, PTL
        DEF Reliable, OSpec, ImplementsMirror, Undisturbed!Spec, Tracked, Asked

----
\* What a completed sync of the worktree of s leaves behind, and what a repeated
\* one needs: the other side has the dirty files of s; what s has deleted is gone
\* there, or has changed; and what else the manifests hold is either untracked
\* there and guarded, or as it is in the index.
Mirrors(s) ==
  LET d == Other(s)
      src == StatusOf(s)
      dst == StatusOf(d)
      residue == manifest[s] \ Listed(src)
  IN
  /\ manifest[d] = manifest[s]
  /\ manifest[s] = LiveIn(src) \cup (residue \cap Listed(dst))
  /\ \A p \in Listed(src) \ DeletedIn(src) : wt[d][p] = wt[s][p] /\ wt[s][p] # Absent
  /\ \A p \in DeletedIn(src) : /\ wt[d][p] = Absent \/ p \in DirtyIn(dst)
                               /\ src[p].new \/ wt[d][p] = Absent
  /\ WtDeletedIn(dst) \subseteq DeletedIn(src)
  /\ \A p \in residue : /\ p \in UntrackedIn(dst) => p \in DirtyIn(dst)
                        /\ index[d][p] \in {Absent, wt[d][p]}

\* settled names the source of a sync whose result is still there, and a sync
\* that repeats it has changed nothing.
Settled ==
  \A s \in Sides :
    settled = s =>
      /\ Mirrors(s)
      /\ \A r \in Sides : Source(r) = s /\ cmd[r].pc \in Changes => before = wt

----
\* Whether the listing of a path says that it is dirty, untracked or deleted
\* depends on its own file only.
LEMMA SameEntry ==
  ASSUME NEW h, NEW i, NEW v, NEW w, NEW p \in Paths, v[p] = w[p]
  PROVE  /\ p \in DirtyIn(GitStatus(h, i, v)) <=> p \in DirtyIn(GitStatus(h, i, w))
         /\ p \in UntrackedIn(GitStatus(h, i, v)) <=> p \in UntrackedIn(GitStatus(h, i, w))
         /\ p \in WtDeletedIn(GitStatus(h, i, v)) <=> p \in WtDeletedIn(GitStatus(h, i, w))
<1>1. GitStatus(h, i, v)[p] = GitStatus(h, i, w)[p]
  BY EntryOfPath
<1> QED BY <1>1 DEF DirtyIn, UntrackedIn, WtDeletedIn

\* What an untracked, and what a clean path of a listing has in the index.
LEMMA IndexOf ==
  ASSUME NEW h, NEW i, NEW w, NEW p \in Paths
  PROVE  /\ p \in UntrackedIn(GitStatus(h, i, w)) <=> i[p] = Absent /\ w[p] # Absent
         /\ p \notin DirtyIn(GitStatus(h, i, w)) => i[p] = Absent \/ w[p] = i[p]
<1>1. GitStatus(h, i, w)[p].new = (i[p] = Absent /\ w[p] # Absent)
  BY DEF GitStatus
<1>2. p \in UntrackedIn(GitStatus(h, i, w)) <=> i[p] = Absent /\ w[p] # Absent
  BY <1>1, Zenon DEF UntrackedIn
<1>3. ASSUME p \notin DirtyIn(GitStatus(h, i, w)) PROVE i[p] = Absent \/ w[p] = i[p]
  <2>1. WorktreeColumn(i, w, p) = " "
    BY <1>3 DEF DirtyIn, GitStatus, Quiet
  <2> QED BY <2>1 DEF WorktreeColumn
<1> QED BY <1>2, <1>3

\* A completed unforced sync leaves its destination as Mirrors says.
LEMMA CompletedMirrors ==
  ASSUME TypeOK, NEW r \in Sides, NEW s, s = Source(r), Found(r), Done(r), Fresh(r),
         cmd[r].pc = "writePeer", ~cmd[r].force, WritePeer(r)
  PROVE  Mirrors(s)'
<1>0. PICK d \in Sides : d = Dest(r)
  BY TwoClones
<1> DEFINE c == cmd[r]
           dst == StatusOf(d)
           residue == c.next \ Listed(c.src)
<1>1. /\ c \in Command /\ s \in Sides /\ d \in Sides /\ d = Other(s) /\ s # d
      /\ r \in {s, d} /\ Other(r) \in {s, d} /\ r # Other(r)
  BY <1>0, TwoClones DEF TypeOK, Dest
<1>2. /\ before[s] = wt[s] /\ c.dst = GitStatus(head[d], index[d], before[d])
      /\ \A p \in Overlap(c) : before[s][p] = before[d][p]
      /\ wt[d] = Final(r) /\ CopyPaths(c) = Present(s, CopyPaths(c))
      /\ c.next = manifest[r] /\ c.next = NextManifest(c, dst)
      /\ c.src = StatusOf(s)
  BY <1>0 DEF Found, Done, Fresh, Changes
<1>3. /\ UNCHANGED <<head, index, wt>> /\ manifest'[s] = c.next /\ manifest'[d] = c.next
  BY <1>1, <1>2 DEF WritePeer, repos, TypeOK
<1>4. /\ LiveIn(c.src) \subseteq Listed(c.src) /\ DeletedIn(c.src) \subseteq Listed(c.src)
      /\ Listed(c.src) \subseteq Paths /\ c.next \subseteq Paths
  BY <1>1, ListingTypes DEF Command
<1>5. residue \subseteq Orphaned(c)
  BY <1>2, <1>4 DEF NextManifest
<1>6. c.next = LiveIn(c.src) \cup (residue \cap Listed(dst))
  BY <1>2, <1>4 DEF NextManifest, Orphaned
\* The file at each path
<1>7. ASSUME NEW p \in CopyPaths(c) PROVE wt[d][p] = wt[s][p] /\ wt[s][p] # Absent
  <2>1. p \in Paths
    BY <1>4 DEF CopyPaths
  <2> QED BY <1>0, <1>2, <1>7, <2>1, FinalFile DEF Present
<1>8. ASSUME NEW p \in Paths, p \notin CopyPaths(c)
      PROVE  wt[d][p] = IF p \in DeletePaths(c) \ DirtyIn(c.dst) THEN Absent
                        ELSE IF p \in Restorable(index[d], RestorePaths(c))
                        THEN index[d][p] ELSE before[d][p]
  BY <1>0, <1>2, <1>8, FinalFile
<1>9. \A p \in DeletePaths(c) : p \notin Restorable(index[d], RestorePaths(c))
  BY <1>0, <1>1, <1>2, DeletedAreNotRestored
<1>10. ASSUME NEW p \in DeletedIn(c.src)
       PROVE  /\ wt[d][p] = Absent \/ p \in DirtyIn(dst)
              /\ c.src[p].new \/ wt[d][p] = Absent
  <2>1. p \in DeletePaths(c) /\ p \notin CopyPaths(c) /\ p \in Listed(c.src) /\ p \in Paths
    BY <1>4 DEF DeletePaths, SourceDeleted, CopyPaths
  <2>2. wt[d][p] = Absent \/ (p \in DirtyIn(c.dst) /\ wt[d][p] = before[d][p])
    BY <1>8, <1>9, <2>1
  <2>3. ASSUME p \in DirtyIn(c.dst), wt[d][p] = before[d][p] PROVE p \in DirtyIn(dst)
    BY <1>2, <2>1, <2>3, SameEntry DEF StatusOf
  <2>4. ASSUME p \in DirtyIn(c.dst), wt[d][p] = before[d][p], ~c.src[p].new
        PROVE  wt[d][p] = Absent
    <3>1. p \in Overlap(c)
      BY <2>1, <2>4 DEF Overlap, Listed, DirtyIn
    <3>2. wt[s][p] = Absent
      BY <1>2, <2>4, DeletedIsAbsent
    <3> QED BY <1>2, <2>4, <3>1, <3>2
  <2> QED BY <2>2, <2>3, <2>4
<1>11. ASSUME NEW p \in WtDeletedIn(dst) PROVE p \in DeletedIn(c.src)
  <2>1. p \in Paths /\ wt[d][p] = Absent /\ index[d][p] # Absent
    BY DeletedIsGone DEF StatusOf
  <2>2. SUFFICES ASSUME p \notin DeletedIn(c.src) PROVE FALSE
    OBVIOUS
  <2>3. p \notin CopyPaths(c)
    BY <1>7, <2>1
  <2>4. p \notin DeletePaths(c)
    BY <1>2, <2>1, <2>2, IndexOf DEF DeletePaths, SourceDeleted, OrphanedUntracked
  <2>5. p \notin RestorePaths(c) /\ wt[d][p] = before[d][p]
    BY <1>8, <2>1, <2>3, <2>4 DEF Restorable
  <2>6. p \in WtDeletedIn(c.dst)
    BY <1>2, <2>1, <2>5, SameEntry DEF StatusOf
  <2> QED BY <2>2, <2>5, <2>6 DEF RestorePaths, SourceDeleted
<1>12. ASSUME NEW p \in residue
       PROVE  /\ p \in UntrackedIn(dst) => p \in DirtyIn(dst)
              /\ index[d][p] \in {Absent, wt[d][p]}
  <2>1. p \in Orphaned(c) /\ p \notin CopyPaths(c) /\ p \in Paths /\ p \notin SourceDeleted(c)
    BY <1>4, <1>5 DEF CopyPaths, SourceDeleted
  <2>2. CASE index[d][p] = Absent
    <3>1. ASSUME p \in UntrackedIn(dst) PROVE p \in DirtyIn(dst)
      <4>1. wt[d][p] # Absent
        BY <2>1, <3>1, IndexOf DEF StatusOf
      <4>2. wt[d][p] = before[d][p] /\ p \notin DeletePaths(c) \ DirtyIn(c.dst)
        BY <1>8, <2>1, <2>2, <4>1 DEF Restorable
      <4>3. p \in DeletePaths(c)
        BY <1>2, <2>1, <2>2, <4>1, <4>2, IndexOf DEF DeletePaths, OrphanedUntracked
      <4> QED BY <1>2, <2>1, <4>2, <4>3, SameEntry DEF StatusOf
    <3> QED BY <2>2, <3>1
  <2>3. CASE index[d][p] # Absent
    <3>1. p \notin UntrackedIn(dst)
      BY <2>1, <2>3, IndexOf DEF StatusOf
    <3>2. p \notin DeletePaths(c)
      BY <1>2, <2>1, <2>3, IndexOf DEF DeletePaths, OrphanedUntracked
    <3>3. p \in DirtyIn(c.dst) => p \in Restorable(index[d], RestorePaths(c))
      BY <2>1, <2>3 DEF Restorable, RestorePaths
    <3>4. p \notin DirtyIn(c.dst) => before[d][p] = index[d][p]
      BY <1>2, <2>1, <2>3, IndexOf
    <3> QED BY <1>8, <2>1, <3>1, <3>2, <3>3, <3>4
  <2> QED BY <2>2, <2>3
<1>13. CopyPaths(c) = Listed(c.src) \ DeletedIn(c.src)
  BY DEF CopyPaths, SourceDeleted
<1>14. StatusOf(s)' = c.src /\ StatusOf(d)' = dst /\ wt' = wt /\ index' = index
  BY <1>2, <1>3 DEF StatusOf
<1> QED BY <1>1, <1>3, <1>6, <1>7, <1>10, <1>11, <1>12, <1>13, <1>14 DEF Mirrors

----
\* A command that repeats a sync whose result is still there changes nothing.
LEMMA RepeatsNothing ==
  ASSUME Reliable, TypeOK, NEW r \in Sides, cmd[Other(r)].pc = "idle", GoesAsPlanned, Fresh(r),
         Settled, settled = Source(r), Step(r)
  PROVE  UNCHANGED <<wt, manifest>>
<1> DEFINE c == cmd[r]
<1>0. PICK s \in Sides, d \in Sides : s = Source(r) /\ d = Dest(r) /\ s # d /\ d = Other(s)
  BY TwoClones DEF Dest
<1> DEFINE dst == StatusOf(d)
           residue == manifest[s] \ Listed(c.src)
<1>1. /\ c \in Command /\ wt \in [Sides -> Tree] /\ manifest \in [Sides -> SUBSET Paths]
      /\ Mirrors(s) /\ Found(r) /\ Done(r) /\ (c.pc \in Changes => before = wt)
      /\ (c.pc \notin {"idle", "readSource"} => c.src = StatusOf(s))
  BY <1>0 DEF TypeOK, Settled, GoesAsPlanned, Fresh
<1>2. ASSUME c.pc \in {"restore"} \cup Changes
      PROVE  /\ before = wt /\ c.dst = dst /\ c.src = StatusOf(s) /\ Orphaned(c) = residue
             /\ manifest[r] = manifest[s] /\ manifest[Other(r)] = manifest[s]
             /\ Mirrors(s)
  <2>1. before = wt
    BY <1>1, <1>2, ChangingIs DEF GoesAsPlanned, Settles, Changes
  <2>2. c.dst = dst /\ c.known = manifest[Other(r)]
    BY <1>0, <1>1, <1>2, <2>1 DEF Found, StatusOf
  <2>3. c.src = StatusOf(s)
    BY <1>1, <1>2 DEF Changes
  <2>4. manifest[r] = manifest[s] /\ manifest[Other(r)] = manifest[s]
    BY <1>0, <1>1, TwoClones DEF Mirrors
  <2> QED BY <1>1, <2>1, <2>2, <2>3, <2>4 DEF Orphaned
<1>3. ASSUME NEW done \in SUBSET Paths, NEW from, \A p \in done : from[p] = wt[d][p]
      PROVE  [wt EXCEPT ![d] = Overlay(@, done, from)] = wt
  <2>1. Overlay(wt[d], done, from) = wt[d]
    BY <1>1, <1>3 DEF Overlay, Tree
  <2> QED BY <1>1, <2>1
<1>4. ASSUME Restore(r) PROVE UNCHANGED <<wt, manifest>>
  <2> DEFINE done == Restorable(index[d], RestorePaths(c))
  <2>1. c.pc = "restore" /\ wt' = [wt EXCEPT ![d] = Overlay(@, done, index[d])] /\ manifest' = manifest
    BY <1>0, <1>4 DEF Restore, PartOf, Reliable
  <2>2. ASSUME NEW p \in done PROVE p \in Paths /\ index[d][p] = wt[d][p]
    <3>1. p \in RestorePaths(c) /\ index[d][p] # Absent
      BY DEF Restorable
    <3>2. p \notin WtDeletedIn(c.dst) \ SourceDeleted(c)
      BY <1>0, <1>2, <2>1 DEF Mirrors, SourceDeleted
    <3>3. p \in residue /\ p \in DirtyIn(c.dst)
      BY <1>2, <2>1, <3>1, <3>2 DEF RestorePaths
    <3> QED BY <1>0, <1>2, <2>1, <3>1, <3>3 DEF Mirrors, DirtyIn
  <2> HIDE DEF done
  <2> QED BY <1>3, <2>1, <2>2
<1>5. ASSUME Delete(r) PROVE UNCHANGED <<wt, manifest>>
  <2> DEFINE done == Doomed(c)
  <2>1. c.pc = "delete" /\ wt' = [wt EXCEPT ![d] = Overlay(@, done, EmptyTree)] /\ manifest' = manifest
    BY <1>0, <1>5 DEF Delete, PartOf, Reliable
  <2>2. ASSUME NEW p \in done PROVE p \in Paths /\ EmptyTree[p] = wt[d][p]
    <3>1. p \in DeletePaths(c) /\ p \notin DirtyIn(c.dst)
      BY <1>1, <2>1 DEF Doomed, Done
    <3>2. p \in Paths
      BY <3>1 DEF DeletePaths, SourceDeleted, DeletedIn, OrphanedUntracked, UntrackedIn
    <3>3. p \notin OrphanedUntracked(c)
      BY <1>0, <1>2, <2>1, <3>1 DEF OrphanedUntracked, Mirrors, Changes
    <3>4. wt[d][p] = Absent
      BY <1>0, <1>2, <2>1, <3>1, <3>3 DEF DeletePaths, SourceDeleted, Mirrors, Changes
    <3> QED BY <3>2, <3>4 DEF EmptyTree
  <2> HIDE DEF done
  <2> QED BY <1>3, <2>1, <2>2
<1>6. ASSUME Copy(r) \/ CopyFails(r) PROVE UNCHANGED <<wt, manifest>>
  <2>1. /\ c.pc = "copy" /\ manifest' = manifest
        /\ \E done \in SUBSET CopyPaths(c) : wt' = [wt EXCEPT ![d] = Overlay(@, done, wt[s])]
    BY <1>0, <1>6 DEF Copy, CopyFails, PartOf, Reliable, Present
  <2>2. ASSUME NEW p \in CopyPaths(c) PROVE p \in Paths /\ wt[s][p] = wt[d][p]
    BY <1>0, <1>2, <2>1 DEF CopyPaths, SourceDeleted, Listed, Mirrors, Changes
  <2> QED BY <1>3, <2>1, <2>2
<1>7. ASSUME WriteLocal(r) \/ WritePeer(r) PROVE UNCHANGED <<wt, manifest>>
  <2>1. /\ c.pc \in {"writeLocal", "writePeer"} /\ wt' = wt
        /\ \E q \in {r, Other(r)} : manifest' = [manifest EXCEPT ![q] = c.next]
    BY <1>7 DEF WriteLocal, WritePeer, repos
  <2>2. c.next = NextManifest(c, dst)
    BY <1>0, <1>1, <2>1 DEF Done, Fresh
  <2>3. c.next = manifest[s]
    BY <1>0, <1>2, <2>1, <2>2 DEF NextManifest, Mirrors, Changes
  <2> QED BY <1>1, <1>2, <2>1, <2>3, TwoClones DEF Changes
<1>8. ~TornWrite(r) /\ ~Abort(r) /\ ~Killed(r)
  BY DEF Reliable, Calm, TornWrite, Abort, Killed
<1> QED BY <1>4, <1>5, <1>6, <1>7, <1>8 DEF Step, ReadSource, ReadDest, PrintSource, PrintDest,
        ReadLocal, ReadPeer, PeerStatus, ReadAfter, repos

\* Every step of a command either goes on or ends it.
LEMMA GoesOnOrEnds ==
  ASSUME Reliable, NEW r \in Sides, Step(r)
  PROVE  GoesOn(r) \/ Become(r, NoCommand)
BY DEF Reliable, Calm, GoesOn, Step, CopyFails, WritePeer, ReadPeer, TornWrite, Abort, Killed

\* What settled records stays so, until it is reset.
LEMMA SettledKept ==
  ASSUME Reliable, TypeOK, NEW r \in Sides, cmd[Other(r)].pc = "idle", GoesAsPlanned, Fresh(r),
         Settled, Step(r), RecordStep(r), before' = IF Changing' THEN before ELSE wt'
  PROVE  Settled'
<1>0. PICK s \in Sides : s = Source(r)
  BY TwoClones
<1>1. cmd'[Other(r)] = cmd[Other(r)]
  <2>1. PICK c : Become(r, c)
    BY GoesOnOrEnds, GoingOn
  <2> QED BY <2>1, Became, TwoClones
<1>2. CASE Completes(r) /\ ~cmd[r].force
  <2>1. WritePeer(r) /\ cmd[r].pc = "writePeer" /\ settled' = s
    BY <1>0, <1>2 DEF Completes, RecordStep, Step, ReadSource, ReadDest, PrintSource, PrintDest,
       ReadLocal, ReadPeer, Restore, PeerStatus, Delete, Copy, CopyFails, ReadAfter, WriteLocal,
       TornWrite, Abort, Killed, Reliable, Calm
  <2>2. Mirrors(s)'
    BY <1>0, <1>2, <2>1, CompletedMirrors DEF GoesAsPlanned
  <2>3. cmd'[r] = NoCommand
    BY <2>1, Became DEF WritePeer
  <2>4. \A q \in Sides : cmd'[q].pc \notin Changes
    BY <1>1, <2>3, TwoClones DEF NoCommand, Changes
  <2> QED BY <2>1, <2>2, <2>4 DEF Settled
<1>3. ASSUME ~(Completes(r) /\ ~cmd[r].force), NEW t \in Sides, settled' = t
      PROVE  /\ Mirrors(t)'
             /\ \A q \in Sides : Source(q)' = t /\ cmd'[q].pc \in Changes => before' = wt'
  <2>1. settled = t /\ UNCHANGED <<wt, manifest>>
    <3>1. t # "none"
      BY DEF Sides
    <3>2. settled = t /\ (UNCHANGED <<wt, manifest>> \/ settled = Source(r))
      BY <1>3, <3>1 DEF RecordStep
    <3> QED BY <3>2, RepeatsNothing
  <2>2. UNCHANGED <<head, index>>
    BY DEF Step, ReadSource, ReadDest, PrintSource, PrintDest, ReadLocal, ReadPeer, Restore,
       PeerStatus, Delete, Copy, CopyFails, ReadAfter, WriteLocal, WritePeer, TornWrite, Abort,
       Killed, repos
  <2>3. Mirrors(t) /\ (Source(r) = t /\ cmd[r].pc \in Changes => before = wt)
    BY <2>1 DEF Settled
  <2>4. Mirrors(t)'
    <3>1. \A q : StatusOf(q)' = StatusOf(q)
      BY <2>1, <2>2 DEF StatusOf
    <3> QED BY <2>1, <2>2, <2>3, <3>1 DEF Mirrors
  <2>5. ASSUME NEW q \in Sides, Source(q)' = t, cmd'[q].pc \in Changes PROVE before' = wt'
    <3>1. q = r
      BY <1>1, <2>5, TwoClones DEF Changes
    <3>2. GoesOn(r)
      BY <2>5, <3>1, GoesOnOrEnds, Became DEF NoCommand, Changes
    <3>3. cmd'[r].direction = cmd[r].direction
      BY <3>2, GoingOn
    <3>4. Source(r) = t
      BY <2>5, <3>1, <3>3 DEF Source
    <3>5. before = wt
      BY <2>3, <3>4, ChangingIs DEF GoesAsPlanned, Settles
    <3>6. Changing'
      BY <2>5 DEF Changing, Changes
    <3> QED BY <2>1, <3>5, <3>6
  <2> QED BY <2>4, <2>5
<1> QED BY <1>2, <1>3 DEF Settled

\* What a completed sync has settled stays so until somebody changes something.
LEMMA SettledHolds ==
  ASSUME Reliable
  PROVE  OSpec /\ []OneAtATime => []Settled
<1>1. OInit => Settled
  BY DEF OInit, Settled, Sides
<1>2. TypeOK /\ NoLate /\ OneAtATime /\ AllFresh /\ GoesAsPlanned /\ Settled /\ OneAtATime'
        /\ [ONext]_ovars => Settled'
  <2> SUFFICES ASSUME TypeOK, NoLate, OneAtATime, AllFresh, GoesAsPlanned, Settled, OneAtATime',
                      [ONext]_ovars
               PROVE  Settled'
    OBVIOUS
  <2>1. ASSUME UNCHANGED <<head, index, wt, manifest, before, settled>>,
               \A r \in Sides : cmd'[r].pc \in Changes => cmd'[r] = cmd[r]
        PROVE  Settled'
    <3>1. ASSUME NEW s \in Sides, settled' = s
          PROVE  /\ Mirrors(s)'
                 /\ \A r \in Sides : Source(r)' = s /\ cmd'[r].pc \in Changes => before' = wt'
      <4>1. \A q : StatusOf(q)' = StatusOf(q)
        BY <2>1 DEF StatusOf
      <4>2. Mirrors(s)'
        BY <2>1, <3>1, <4>1 DEF Settled, Mirrors
      <4>3. ASSUME NEW r \in Sides, Source(r)' = s, cmd'[r].pc \in Changes PROVE before' = wt'
        <5>1. cmd'[r] = cmd[r]
          BY <2>1, <4>3
        <5>2. Source(r) = s
          BY <4>3, <5>1 DEF Source
        <5> QED BY <2>1, <3>1, <4>3, <5>1, <5>2 DEF Settled
      <4> QED BY <4>2, <4>3
    <3> QED BY <3>1 DEF Settled
  <2>2. CASE UNCHANGED ovars
    BY <2>1, <2>2 DEF ovars, vars
  <2>3. CASE ONext
    <3>1. before' = IF Changing' THEN before ELSE wt'
      BY <2>3 DEF ONext
    <3>2. ASSUME NEW r \in Sides, Start(r), UNCHANGED <<mirrored, settled>> PROVE Settled'
      <4>1. PICK e, f : Become(r, [NoCommand EXCEPT !.pc = "readSource", !.direction = e, !.force = f])
        BY <3>2 DEF Start
      <4>2. cmd'[r] = [NoCommand EXCEPT !.pc = "readSource", !.direction = e, !.force = f]
        BY <4>1, Became
      <4>3. cmd'[r].pc = "readSource" /\ cmd[r].pc = "idle"
        BY <3>2, <4>2 DEF NoCommand, Start
      <4>4. cmd'[Other(r)].pc = "idle" /\ cmd'[Other(r)] = cmd[Other(r)]
        BY <4>1, <4>3, Became, TwoClones DEF OneAtATime
      <4>5. ~Changing /\ ~Changing'
        BY <4>3, <4>4, TwoClones DEF Changing
      <4>6. UNCHANGED <<head, index, wt, manifest, before>>
        BY <3>1, <3>2, <4>5 DEF Start, repos, GoesAsPlanned, Settles
      <4>7. \A q \in Sides : cmd'[q].pc \notin Changes
        BY <4>3, <4>4, TwoClones DEF Changes
      <4> QED BY <2>1, <3>2, <4>6, <4>7
    <3>3. ASSUME NEW r \in Sides, Step(r), RecordStep(r), cmd[Other(r)].pc = "idle"
          PROVE  Settled'
      BY <3>1, <3>3, SettledKept DEF AllFresh
    <3>4. RecordUser => Settled'
      BY DEF RecordUser, Settled, Sides
    <3> QED BY <2>3, <3>2, <3>3, <3>4, WhoSteps DEF Reliable
  <2> QED BY <2>2, <2>3
<1> QED BY <1>1, <1>2, OutcomeTypeCorrect, NothingLate, ReadsStayFresh, CommandsGoAsPlanned, PTL
        DEF Reliable, OSpec

----
\* Repeating a completed sync before anything has changed writes no file, and no
\* manifest: a sync is idempotent.
THEOREM SyncIsIdempotent ==
  ASSUME Reliable
  PROVE  OSpec /\ []OneAtATime => RepeatChangesNothing
<1>1. TypeOK /\ NoLate /\ OneAtATime /\ AllFresh /\ GoesAsPlanned /\ Settled /\ [ONext]_ovars =>
        [\A r \in Sides :
           cmd'[r] # cmd[r] /\ cmd[r].pc # "idle" /\ settled = Source(r)
             => UNCHANGED <<wt, manifest>>]_ovars
  <2> SUFFICES ASSUME TypeOK, NoLate, OneAtATime, AllFresh, GoesAsPlanned, Settled, ONext,
                      NEW r \in Sides, cmd'[r] # cmd[r], cmd[r].pc # "idle", settled = Source(r)
               PROVE  UNCHANGED <<wt, manifest>>
    OBVIOUS
  <2>1. \A q \in Sides : Start(q) => cmd'[r] = cmd[r] \/ q = r
    BY Became DEF Start
  <2>2. Step(r) /\ cmd[Other(r)].pc = "idle"
    <3>1. ~Start(r) /\ Calm
      BY DEF Start, Reliable
    <3> QED BY <2>1, <3>1, WhoSteps, TwoClones
  <2> QED BY <2>2, RepeatsNothing DEF AllFresh
<1> QED BY <1>1, OutcomeTypeCorrect, NothingLate, ReadsStayFresh, CommandsGoAsPlanned,
           SettledHolds, PTL DEF Reliable, OSpec, RepeatChangesNothing

\* A repeated sync finds no conflict, but over a file that its source has removed
\* from the index only.
THEOREM RepeatsDoNotConflict ==
  ASSUME Reliable
  PROVE  OSpec /\ []OneAtATime => []NoConflictAfterSync
<1>1. AllFresh /\ Settled => NoConflictAfterSync
  <2> SUFFICES ASSUME AllFresh, Settled, NEW r \in Sides, settled = Source(r),
                      cmd[r].pc = "readLocal", NEW p \in cmd[r].conflicts
               PROVE  p \in DeletedIn(cmd[r].src) /\ cmd[r].src[p].new
    BY DEF NoConflictAfterSync
  <2> DEFINE c == cmd[r]
  <2>0. PICK s \in Sides, d \in Sides : s = Source(r) /\ d = Dest(r) /\ d = Other(s)
    BY TwoClones DEF Dest
  <2>1. c.src = StatusOf(s) /\ p \in Overlap(c) /\ wt[s][p] # wt[d][p] /\ Mirrors(s)
    <3>1. Fresh(r) /\ Mirrors(s)
      BY <2>0 DEF AllFresh, Settled
    <3>2. c.src = StatusOf(s) /\ c.conflicts = {q \in Overlap(c) : wt[s][q] # wt[d][q]}
      BY <2>0, <3>1 DEF Fresh
    <3> QED BY <3>1, <3>2
  <2>2. p \in DeletedIn(c.src)
    BY <2>0, <2>1 DEF Mirrors, Overlap
  <2>3. c.src[p].new
    BY <2>0, <2>1, <2>2, DeletedIsAbsent DEF Mirrors
  <2> QED BY <2>2, <2>3
<1> QED BY <1>1, ReadsStayFresh, SettledHolds, PTL DEF Reliable

\* When all commands are started on one side, as in the run, none overlaps another,
\* and a sync keeps all its promises.
COROLLARY OneSidesSyncs ==
  ASSUME Reliable, NEW r \in Sides, r \notin Runners
  PROVE  OSpec => /\ UnsavedWorkKept /\ ImplementsMirror /\ RepeatChangesNothing
                  /\ TrackedUntilReconciled
                  /\ [](CompletedSyncMirrors /\ ResidueStaysTracked /\ NoConflictAfterSync)
<1>1. Calm
  BY DEF Reliable
<1> QED BY <1>1, OneRunner, UnsavedWorkIsKept, ResidueIsRecorded,
           TrackingSurvivesFailures, SyncsMirror, SyncImplementsMirror,
           SyncIsIdempotent, RepeatsDoNotConflict, PTL
====
