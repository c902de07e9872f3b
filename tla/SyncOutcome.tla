---- MODULE SyncOutcome ----
(***************************************************************************)
(* SyncFlow with history variables that tell what its syncs have come to:   *)
(* which unsaved work has been mirrored, whether a sync has completed since *)
(* the last change, and what a sync under way has found.  They record, and  *)
(* never constrain, what SyncFlow does.                                     *)
(***************************************************************************)
EXTENDS SyncFlow

VARIABLES
  mirrored, \* mirrored[s]: where the unsaved work of s is what a copy has brought
            \* to s, or from s to the other side
  settled,  \* the source side of the last sync, while nothing has changed since
  before    \* the worktrees as the command under way has found them

ovars == <<vars, mirrored, settled, before>>

OInit ==
  /\ Init
  /\ mirrored = [s \in Sides |-> {}]
  /\ settled = "none"
  /\ before = wt

\* A command that has begun to change its destination
Changing == \E r \in Sides : cmd[r].pc \in {"peerStatus", "delete", "copy", "readAfter",
                                             "writeLocal", "writePeer"}

\* Side s has work at p that its commits do not hold.
Unsaved(s, p) == wt[s][p] # Absent /\ wt[s][p] # head[s][p]

\* mirrored after a step that copies a set of paths (from either side): what has
\* changed otherwise, or been committed or discarded, is not in it any more.
Copied(S) ==
  mirrored' = [s \in Sides |->
    {p \in Paths : Unsaved(s, p)' /\ (p \in S \/ (p \in mirrored[s] /\ wt'[s][p] = wt[s][p]))}]

\* The files that a copy has brought to the destination
CopiedBy(r) ==
  {p \in CopyPaths(cmd[r]) : cmd[r].pc = "copy" /\ wt'[Dest(r)][p] = wt[Source(r)][p]}

Completes(r) == cmd[r].pc = "writePeer" /\ manifest'[Other(r)] = cmd[r].next

RecordStep(r) ==
  /\ Copied(CopiedBy(r))
  /\ settled' = IF Completes(r) /\ ~cmd[r].force THEN Source(r)
                ELSE IF <<wt, manifest>>' # <<wt, manifest>> /\ settled # Source(r)
                     THEN "none" ELSE settled

RecordLate ==
  /\ Copied({})
  /\ settled' = IF <<wt, manifest>>' # <<wt, manifest>> THEN "none" ELSE settled

RecordUser ==
  /\ Copied({})
  /\ settled' = "none"

ONext ==
  /\ \E s \in Sides :
       \/ Start(s) /\ UNCHANGED <<mirrored, settled>>
       \/ Step(s) /\ RecordStep(s)
       \/ Late(s) /\ RecordLate
       \/ User(s) /\ RecordUser
  /\ before' = IF Changing' THEN before ELSE wt'

OSpec == OInit /\ [][ONext]_ovars

----
\* A step of a command on r that may write its destination.
Writes(r) == cmd[r].pc \in {"restore", "delete", "copy"} /\ cmd'[r] # cmd[r]

\* An unforced command loses unsaved work of its destination, work of which the
\* source holds no equal copy, only at a path that is in the pair's manifest and
\* clean in the source: every other difference is a conflict and stops it.
\* (Users do not work meanwhile.)
UnsavedWorkKept ==
  [][\A r \in Sides, p \in Paths :
       Writes(r) /\ ~cmd[r].force /\ Unsaved(Dest(r), p) /\ p \notin Orphaned(cmd[r])
         => wt[Dest(r)][p] \in {wt'[Dest(r)][p], wt[Source(r)][p]}]_ovars

\* When a sync is about to record its result, every dirty source path has been
\* mirrored: a live one has the source's content, a deleted one is gone unless
\* it had local changes, and an orphaned one is clean or remains recorded.
CompletedSyncMirrors ==
  \A r \in Sides : cmd[r].pc = "writeLocal" =>
    LET c == cmd[r]
        source == wt[Source(r)]
        dest == wt[Dest(r)]
        after == StatusOf(Dest(r))
    IN /\ \A p \in CopyPaths(c) : dest[p] = source[p]
       /\ \A p \in DeletePaths(c) :
            dest[p] = Absent \/ (p \in DirtyIn(c.dst) /\ p \notin WtDeletedIn(c.dst))
       /\ \A p \in Orphaned(c) : p \in Listed(after) => p \in c.next
       /\ \A p \in Listed(after) : p \in Listed(c.src) \cup Listed(c.dst)

\* A file that wdsync copied, now or earlier, is recorded by an unforced command
\* as long as the destination holds it uncommitted: nothing the pair tracks is
\* forgotten before it is reconciled.  (A forced command may forget a file that
\* the source has deleted and the destination's own guard has kept.)
ResidueStaysTracked ==
  \A r \in Sides : cmd[r].pc = "writeLocal" /\ ~cmd[r].force =>
    \A p \in CopyPaths(cmd[r]) \cup cmd[r].known :
      p \in mirrored[Dest(r)] /\ p \in Listed(StatusOf(Dest(r)))
        => p \in cmd[r].next

\* Commands that fail or die between their two manifest writes leave the sides
\* with different records, and the next one goes by both: an unforced command
\* removes a path from the last manifest that has it only when its destination
\* does not hold a mirrored, uncommitted file there any more, or when the write
\* of a manifest with that path in it is torn.  (Commands of one side.)
TrackedUntilReconciled ==
  [][\A r \in Sides, p \in Paths :
       cmd'[r] # cmd[r] /\ ~cmd[r].force /\ p \in manifest["wsl"] \cup manifest["win"]
         /\ p \in mirrored[Dest(r)] /\ p \in Listed(StatusOf(Dest(r)))
         => p \in cmd[r].next \cup manifest'["wsl"] \cup manifest'["win"]]_ovars

\* Repeating a completed sync before anything has changed writes no file, and
\* no manifest either.
RepeatChangesNothing ==
  [][\A r \in Sides :
       cmd'[r] # cmd[r] /\ cmd[r].pc # "idle" /\ settled = Source(r)
         => UNCHANGED <<wt, manifest>>]_ovars

\* ... and finds no conflict, except over a file that the source has removed
\* from its index only.
NoConflictAfterSync ==
  \A r \in Sides : settled = Source(r) /\ cmd[r].pc = "readLocal" =>
    \A p \in cmd[r].conflicts : p \in DeletedIn(cmd[r].src) /\ cmd[r].src[p].new

\* A sync that nothing disturbs implements Mirror: whichever side runs it, its
\* reads, restores, deletions and copies come to one change of the destination,
\* as of the files it found, and of the manifests.
Undisturbed == INSTANCE Mirror WITH
  wt <- before,
  tracked <- IF cmd["wsl"].pc = "writePeer" THEN manifest["win"] ELSE manifest["wsl"],
  request <- [from |-> IF cmd["wsl"].pc # "idle" THEN Source("wsl")
                       ELSE IF cmd["win"].pc # "idle" THEN Source("win") ELSE "none",
              force |-> cmd["wsl"].force \/ cmd["win"].force]

ImplementsMirror == Undisturbed!Spec

----
\* What the documentation says of a sync.  The code does otherwise; each of
\* these is refuted under a configuration of its own.

\* README: "File modified in destination only: Not touched (destination changes
\* are preserved)".
DestinationOnlyWorkKept ==
  [][\A r \in Sides, p \in Paths :
       Writes(r) /\ ~cmd[r].force /\ p \notin Listed(cmd[r].src)
         /\ p \notin mirrored[Dest(r)] /\ Unsaved(Dest(r), p)
         => wt'[Dest(r)][p] = wt[Dest(r)][p]]_ovars

\* README: "Files with local changes in the destination are never deleted".
\* (Files of which the source has an equal copy, or of which a copy has been
\* mirrored, apart.)
LocalChangesNeverDeleted ==
  [][\A r \in Sides, p \in Paths :
       cmd[r].pc = "delete" /\ cmd'[r] # cmd[r]
         /\ p \notin mirrored[Dest(r)] /\ Unsaved(Dest(r), p)
         /\ wt[Source(r)][p] # wt[Dest(r)][p]
         => wt'[Dest(r)][p] # Absent]_ovars

\* README: "File deleted in source (tracked): Deleted from destination", unless
\* the destination has local changes.
TrackedDeletionsPropagate ==
  \A r \in Sides, p \in Paths :
    cmd[r].pc = "copy" /\ index[Source(r)][p] # Absent /\ wt[Source(r)][p] = Absent
      => wt[Dest(r)][p] = Absent \/ p \in cmd[r].dirty

\* README: conflicting files are "skipped unless --force is used"; ARCHITECTURE:
\* "skip conflicting files, sync the rest".
ConflictsOnlySkipped ==
  [][\A r \in Sides, p \in Paths :
       cmd[r].pc # "idle" /\ cmd'[r].pc = "idle" /\ ~cmd[r].force
         /\ p \in CopyPaths(cmd[r]) \ cmd[r].conflicts /\ wt[Source(r)][p] # Absent
         => wt'[Dest(r)][p] = wt[Source(r)][p]]_ovars

\* README: "File deleted in source (mirrored, previously synced): Reconciled from
\* destination via pair-owned mirrored-path tracking".  What is to be reconciled
\* later must be in a manifest between commands.
ResidueIsTracked ==
  (\A r \in Sides : cmd[r].pc = "idle") =>
    \A s \in Sides, p \in Paths :
      p \in mirrored[s] /\ p \in Listed(StatusOf(s))
        => \E m \in Sides : p \in manifest[m]
====
