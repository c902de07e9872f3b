---- MODULE SyncFlow ----
(***************************************************************************)
(* `wdsync fetch` and `wdsync send`: one repository on the WSL side, its    *)
(* clone on the Windows side, and the commands that mirror the dirty files  *)
(* of one worktree onto the other.                                          *)
(*                                                                         *)
(* A command runs on one side (the runner) and holds an RPC session with a  *)
(* process it starts on the other (the peer).  It takes no lock: between    *)
(* any two of its steps a user may work in either repository, the command   *)
(* of the other side may take a step, and it may die.  Each step below is   *)
(* one read or one write of a repository or of a manifest, local or by RPC; *)
(* what is computed between two of them is part of the later one.           *)
(***************************************************************************)
EXTENDS GitRepo, Naturals

CONSTANTS
  Runners,          \* the sides on which commands are started
  Forcing,          \* the values --force may take
  MaxEdits,         \* bound on the number of user operations (model checking)
  ConcurrentEdits,  \* whether users work while a command runs
  MayFail,          \* whether steps may fail and commands may die
  Lingering         \* the sides whose commands, if killed, leave a request behind

Sides == {"wsl", "win"}
Other(s) == IF s = "wsl" THEN "win" ELSE "wsl"

ASSUME RunnersAssumption == Runners \subseteq Sides
ASSUME ForcingAssumption == Forcing \subseteq BOOLEAN
ASSUME BoundAssumption == MaxEdits \in Nat
ASSUME LingeringAssumption == Lingering \subseteq Sides
ASSUME SwitchAssumption == ConcurrentEdits \in BOOLEAN /\ MayFail \in BOOLEAN

VARIABLES
  head,      \* head[s]: the committed tree of side s
  index,     \* index[s]: its index
  wt,        \* wt[s]: its worktree
  manifest,  \* manifest[s]: .git/wdsync/manifest.json, the mirrored paths
  cmd,       \* cmd[r]: the process state of the command running on side r
  late,      \* late[r]: a request to the peer left behind by a command killed on r
  edits      \* user operations done so far

repos == <<head, index, wt>>
vars == <<head, index, wt, manifest, cmd, late, edits>>

----
\* The command's process state: the next step to take and the local variables
\* of _sync_flow and build_sync_context that a later step reads.
Directions == {"fetch", "send"}
Steps == {"idle", "readSource", "readDest", "printSource", "printDest",
          "readLocal", "readPeer", "restore", "peerStatus", "delete", "copy",
          "readAfter", "writeLocal", "writePeer"}

Command ==
  [pc: Steps, direction: Directions, force: BOOLEAN,
   src: Status,              \* ctx.source_state
   dst: Status,              \* ctx.destination_state
   prints: Tree,             \* source_fingerprints
   conflicts: SUBSET Paths,  \* ctx.conflicts
   known: SUBSET Paths,      \* ctx.manifest_paths
   dirty: SUBSET Paths,      \* the dest_dirty_paths that delete_files is given
   next: SUBSET Paths]       \* next_manifest_paths

NoCommand ==
  [pc |-> "idle", direction |-> "fetch", force |-> FALSE, src |-> EmptyStatus,
   dst |-> EmptyStatus, prints |-> EmptyTree, conflicts |-> {}, known |-> {},
   dirty |-> {}, next |-> {}]

\* A request to change the peer's repository carries the paths to be changed.
Request == [call: {"none", "restore", "status", "delete", "manifest"}, paths: SUBSET Paths]
NoRequest == [call |-> "none", paths |-> {}]

\* build_direction_from_wdsync_config: a fetch reads the peer and writes the
\* local repository, a send the other way round.
Source(r) == IF cmd[r].direction = "fetch" THEN Other(r) ELSE r
Dest(r) == Other(Source(r))
DestIsLocal(r) == Dest(r) = r

StatusOf(s) == GitStatus(head[s], index[s], wt[s])

----
\* What the command computes from what it has read; c is its process state.

\* Overlap, were an untracked destination file no change (a mutant)
TrackedOverlap(c) == Listed(c.src) \cap DirtyIn(c.dst)

Overlap(c) == Listed(c.src) \cap Listed(c.dst)
SourceDeleted(c) == DeletedIn(c.src)
Orphaned(c) == c.known \ Listed(c.src)

\* build_sync_plan decides on the first entry of a path: the tracked one.
CopyPaths(c) == Listed(c.src) \ SourceDeleted(c)
\* OrphanedUntracked, were the manifests not consulted (a mutant)
AnyUntracked(c) == UntrackedIn(c.dst) \ Listed(c.src)
OrphanedUntracked(c) == Orphaned(c) \cap UntrackedIn(c.dst)
DeletePaths(c) == SourceDeleted(c) \cup OrphanedUntracked(c)
\* RestorePaths, were a file deleted on both sides brought back (a mutant)
RestoreAllDeleted(c) == WtDeletedIn(c.dst) \cup (DirtyIn(c.dst) \cap Orphaned(c))
RestorePaths(c) ==
  (WtDeletedIn(c.dst) \ SourceDeleted(c)) \cup (DirtyIn(c.dst) \cap Orphaned(c))

\* NextManifest, were orphaned paths dropped, or all dirty paths kept (mutants)
LiveManifest(c, after) == LiveIn(c.src)
GrowingManifest(c, after) == LiveIn(c.src) \cup Listed(after)
\* _next_manifest_paths, given the destination's status after the sync
NextManifest(c, after) == LiveIn(c.src) \cup (Orphaned(c) \cap Listed(after))

\* Conflicts, were the fingerprints ignored (a mutant)
AnyOverlap(c, source, dest) == Overlap(c)
\* filter_equivalent_conflicts: the hash of a missing file is None
Conflicts(c, source, dest) == {p \in Overlap(c) : source[p] # dest[p]}

\* Either everything in S, or any part of it when steps may fail.
PartOf(S) == IF MayFail THEN SUBSET S ELSE {S}

\* The command on r takes a step of its own: c is its new process state.
Become(r, c) == cmd' = [cmd EXCEPT ![r] = c]

----
Init ==
  /\ \E tree \in Tree : head = [s \in Sides |-> tree]
  /\ index = head /\ wt = head
  /\ manifest = [s \in Sides |-> {}]
  /\ cmd = [r \in Sides |-> NoCommand]
  /\ late = [r \in Sides |-> NoRequest]
  /\ edits = 0

\* The user starts a fetch or a send; the session is opened.
Start(r) ==
  /\ r \in Runners
  /\ cmd[r].pc = "idle"
  /\ \E d \in Directions, f \in Forcing :
       Become(r, [NoCommand EXCEPT !.pc = "readSource", !.direction = d, !.force = f])
  /\ UNCHANGED <<repos, manifest, edits, late>>

ReadSource(r) ==
  /\ cmd[r].pc = "readSource"
  /\ Become(r, [cmd[r] EXCEPT !.src = StatusOf(Source(r)), !.pc = "readDest"])
  /\ UNCHANGED <<repos, manifest, edits, late>>

\* detect_conflicts; the fingerprints are read only when listings overlap
ReadDest(r) ==
  /\ cmd[r].pc = "readDest"
  /\ LET status == StatusOf(Dest(r))
         overlap == Listed(cmd[r].src) \cap Listed(status)
     IN Become(r, [cmd[r] EXCEPT !.dst = status,
                     !.pc = IF overlap = {} THEN "readLocal" ELSE "printSource"])
  /\ UNCHANGED <<repos, manifest, edits, late>>

PrintSource(r) ==
  /\ cmd[r].pc = "printSource"
  /\ Become(r, [cmd[r] EXCEPT !.pc = "printDest",
                  !.prints = Overlay(EmptyTree, Overlap(cmd[r]), wt[Source(r)])])
  /\ UNCHANGED <<repos, manifest, edits, late>>

\* The fingerprints are dropped once the conflicts are known.
PrintDest(r) ==
  /\ cmd[r].pc = "printDest"
  /\ Become(r, [cmd[r] EXCEPT !.pc = "readLocal", !.prints = EmptyTree,
                  !.conflicts = Conflicts(cmd[r], cmd[r].prints, wt[Dest(r)])])
  /\ UNCHANGED <<repos, manifest, edits, late>>

ReadLocal(r) ==
  /\ cmd[r].pc = "readLocal"
  /\ Become(r, [cmd[r] EXCEPT !.known = manifest[r], !.pc = "readPeer"])
  /\ UNCHANGED <<repos, manifest, edits, late>>

\* ReadPeer, were the manifests not united (a mutant)
ReadPeerOnly(r) ==
  /\ cmd[r].pc = "readPeer"
  /\ IF cmd[r].conflicts # {} /\ ~cmd[r].force
     THEN Become(r, NoCommand)
     ELSE Become(r, [cmd[r] EXCEPT !.known = manifest[Other(r)],
                       !.dirty = DirtyIn(cmd[r].dst), !.pc = "restore"])
  /\ UNCHANGED <<repos, manifest, edits, late>>

\* The context is complete.  A conflict ends the command unless it is forced.
\* A fetch guards deletions with the destination listing read for the context.
ReadPeer(r) ==
  /\ cmd[r].pc = "readPeer"
  /\ IF cmd[r].conflicts # {} /\ ~cmd[r].force
     THEN Become(r, NoCommand)
     ELSE Become(r, [cmd[r] EXCEPT !.known = @ \cup manifest[Other(r)],
                       !.dirty = DirtyIn(cmd[r].dst), !.pc = "restore"])
  /\ UNCHANGED <<repos, manifest, edits, late>>

----
\* restore_files, local or in the peer's handler: a path that cannot be
\* restored is a warning.
Restore(r) ==
  /\ cmd[r].pc = "restore"
  /\ \E done \in PartOf(Restorable(index[Dest(r)], RestorePaths(cmd[r]))) :
       wt' = [wt EXCEPT ![Dest(r)] = Overlay(@, done, index[Dest(r)])]
  /\ Become(r, [cmd[r] EXCEPT !.pc = IF DestIsLocal(r) THEN "delete" ELSE "peerStatus"])
  /\ UNCHANGED <<head, index, manifest, edits, late>>

\* The peer's delete handler reads its own status first and guards with that.
PeerStatus(r) ==
  /\ cmd[r].pc = "peerStatus"
  /\ Become(r, [cmd[r] EXCEPT !.dirty = DirtyIn(StatusOf(Dest(r))), !.pc = "delete"])
  /\ UNCHANGED <<repos, manifest, edits, late>>

\* Doomed, were files with local changes deleted too (a mutant)
DoomedUnguarded(c) == DeletePaths(c)
\* delete_files: a dirty path is skipped ("dest-modified"), a missing one too;
\* a file that cannot be removed is a warning.
Doomed(c) == DeletePaths(c) \ c.dirty

Delete(r) ==
  /\ cmd[r].pc = "delete"
  /\ \E done \in PartOf(Doomed(cmd[r])) :
       wt' = [wt EXCEPT ![Dest(r)] = Overlay(@, done, EmptyTree)]
  /\ Become(r, [cmd[r] EXCEPT !.pc = "copy"])
  /\ UNCHANGED <<head, index, manifest, edits, late>>

\* copy_files: rsync of the listed paths.  A listed path with no file in the
\* source makes rsync exit with an error after it has copied the others.
Present(s, S) == {p \in S : wt[s][p] # Absent}

Copy(r) ==
  /\ cmd[r].pc = "copy"
  /\ CopyPaths(cmd[r]) = Present(Source(r), CopyPaths(cmd[r]))
  /\ wt' = [wt EXCEPT ![Dest(r)] = Overlay(@, CopyPaths(cmd[r]), wt[Source(r)])]
  /\ Become(r, [cmd[r] EXCEPT !.pc = "readAfter"])
  /\ UNCHANGED <<head, index, manifest, edits, late>>

CopyFails(r) ==
  /\ cmd[r].pc = "copy"
  /\ MayFail \/ CopyPaths(cmd[r]) # Present(Source(r), CopyPaths(cmd[r]))
  /\ \E done \in PartOf(Present(Source(r), CopyPaths(cmd[r]))) :
       wt' = [wt EXCEPT ![Dest(r)] = Overlay(@, done, wt[Source(r)])]
  /\ Become(r, NoCommand)
  /\ UNCHANGED <<head, index, manifest, edits, late>>

----
ReadAfter(r) ==
  /\ cmd[r].pc = "readAfter"
  /\ Become(r, [cmd[r] EXCEPT !.next = NextManifest(cmd[r], StatusOf(Dest(r))),
                              !.pc = "writeLocal"])
  /\ UNCHANGED <<repos, manifest, edits, late>>

WriteLocal(r) ==
  /\ cmd[r].pc = "writeLocal"
  /\ manifest' = [manifest EXCEPT ![r] = cmd[r].next]
  /\ Become(r, [cmd[r] EXCEPT !.pc = "writePeer"])
  /\ UNCHANGED <<repos, edits, late>>

WritePeer(r) ==
  /\ cmd[r].pc = "writePeer"
  /\ manifest' = [manifest EXCEPT ![Other(r)] = cmd[r].next]
  /\ Become(r, NoCommand)
  /\ UNCHANGED <<repos, edits, late>>

\* write_manifest truncates the file before it writes: a death in between
\* leaves text that read_manifest takes for an empty manifest.
TornWrite(r) ==
  /\ MayFail
  /\ \/ /\ cmd[r].pc = "writeLocal"
        /\ manifest' = [manifest EXCEPT ![r] = {}]
     \/ /\ cmd[r].pc = "writePeer"
        /\ manifest' = [manifest EXCEPT ![Other(r)] = {}]
  /\ Become(r, NoCommand)
  /\ UNCHANGED <<repos, edits, late>>

\* Abort, were the failure kept as a state of the command (a mutant)
AbortKept(r) ==
  /\ MayFail
  /\ cmd[r].pc # "idle"
  /\ Become(r, [cmd[r] EXCEPT !.pc = "failed"])
  /\ UNCHANGED <<repos, manifest, edits, late>>

\* An RPC error or timeout, a failing git or rsync, an interrupt, a crash.
\* Nothing is undone.
Abort(r) ==
  /\ MayFail
  /\ cmd[r].pc # "idle"
  /\ Become(r, NoCommand)
  /\ UNCHANGED <<repos, manifest, edits, late>>

----
\* The request whose answer the command on r waits for; the peer may have come
\* to any point of it.
Sent(r) ==
  LET c == cmd[r]
      Call(name, paths) == [call |-> name, paths |-> paths]
  IN CASE c.pc = "restore" -> Call("restore", RestorePaths(c))
       [] c.pc = "peerStatus" -> Call("status", DeletePaths(c))
       [] c.pc = "delete" -> Call("delete", Doomed(c))
       [] OTHER -> Call("manifest", c.next)

\* The command is killed in such a call: nothing ends the peer before it has
\* answered, so the call may yet execute.  (Any other failure closes the
\* session, and the peer with it.)  A request for no path would change nothing.
Killed(r) ==
  /\ r \in Lingering
  /\ \/ cmd[r].pc \in {"restore", "peerStatus", "delete"} /\ ~DestIsLocal(r)
     \/ cmd[r].pc = "writePeer"
  /\ late[r] = NoRequest
  /\ Sent(r).call = "manifest" \/ Sent(r).paths # {}
  /\ late' = [late EXCEPT ![r] = Sent(r)]
  /\ Become(r, NoCommand)
  /\ UNCHANGED <<repos, manifest, edits>>

\* The peer goes on with a request left behind, and ends.
LateRestore(r) ==
  /\ late[r].call = "restore"
  /\ \E done \in PartOf(Restorable(index[Other(r)], late[r].paths)) :
       wt' = [wt EXCEPT ![Other(r)] = Overlay(@, done, index[Other(r)])]
  /\ late' = [late EXCEPT ![r] = NoRequest]
  /\ UNCHANGED <<head, index, manifest, cmd, edits>>

LateStatus(r) ==
  /\ late[r].call = "status"
  /\ late' = [late EXCEPT ![r] = [call |-> "delete",
                 paths |-> late[r].paths \ DirtyIn(StatusOf(Other(r)))]]
  /\ UNCHANGED <<repos, manifest, cmd, edits>>

LateDelete(r) ==
  /\ late[r].call = "delete"
  /\ \E done \in PartOf(late[r].paths) :
       wt' = [wt EXCEPT ![Other(r)] = Overlay(@, done, EmptyTree)]
  /\ late' = [late EXCEPT ![r] = NoRequest]
  /\ UNCHANGED <<head, index, manifest, cmd, edits>>

LateWrite(r) ==
  /\ late[r].call = "manifest"
  /\ manifest' \in {manifest, [manifest EXCEPT ![Other(r)] = late[r].paths],
                   [manifest EXCEPT ![Other(r)] = {}]}
  /\ late' = [late EXCEPT ![r] = NoRequest]
  /\ UNCHANGED <<repos, cmd, edits>>

Late(r) == LateRestore(r) \/ LateStatus(r) \/ LateDelete(r) \/ LateWrite(r)

Step(r) ==
  \/ ReadSource(r) \/ ReadDest(r) \/ PrintSource(r) \/ PrintDest(r)
  \/ ReadLocal(r) \/ ReadPeer(r) \/ Restore(r) \/ PeerStatus(r) \/ Delete(r)
  \/ Copy(r) \/ CopyFails(r) \/ ReadAfter(r) \/ WriteLocal(r) \/ WritePeer(r)
  \/ TornWrite(r) \/ Abort(r) \/ Killed(r)

----
\* The users' work in the two repositories (external to wdsync).
MayEdit ==
  /\ edits < MaxEdits
  /\ ConcurrentEdits \/ \A r \in Sides : cmd[r].pc = "idle"
  /\ edits' = edits + 1

Edit(s, p) ==
  /\ MayEdit
  /\ \E f \in File \ {wt[s][p]} : wt' = [wt EXCEPT ![s][p] = f]
  /\ UNCHANGED <<head, index, manifest, cmd, late>>

GitAdd(s, p) ==
  /\ MayEdit
  /\ index[s][p] # wt[s][p]
  /\ index' = [index EXCEPT ![s][p] = wt[s][p]]
  /\ UNCHANGED <<head, wt, manifest, cmd, late>>

GitRmCached(s, p) ==
  /\ MayEdit
  /\ index[s][p] # Absent
  /\ index' = [index EXCEPT ![s][p] = Absent]
  /\ UNCHANGED <<head, wt, manifest, cmd, late>>

GitRestore(s, p) ==
  /\ MayEdit
  /\ index[s][p] # Absent /\ wt[s][p] # index[s][p]
  /\ wt' = [wt EXCEPT ![s][p] = index[s][p]]
  /\ UNCHANGED <<head, index, manifest, cmd, late>>

GitCommit(s) ==
  /\ MayEdit
  /\ head[s] # index[s]
  /\ head' = [head EXCEPT ![s] = index[s]]
  /\ UNCHANGED <<index, wt, manifest, cmd, late>>

User(s) ==
  \/ GitCommit(s)
  \/ \E p \in Paths :
       Edit(s, p) \/ GitAdd(s, p) \/ GitRmCached(s, p) \/ GitRestore(s, p)

Next == \E s \in Sides : Start(s) \/ Step(s) \/ Late(s) \/ User(s)

Spec == Init /\ [][Next]_vars

----
TypeOK ==
  /\ head \in [Sides -> Tree]
  /\ index \in [Sides -> Tree]
  /\ wt \in [Sides -> Tree]
  /\ manifest \in [Sides -> SUBSET Paths]
  /\ cmd \in [Sides -> Command]
  /\ late \in [Sides -> Request]
  /\ edits \in Nat
====
