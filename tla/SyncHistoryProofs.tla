---- MODULE SyncHistoryProofs ----
(***************************************************************************)
(* Theorems about SyncHistory, for every set of paths and of contents, both *)
(* runners, any number of edits, with or without failures and concurrent    *)
(* work.                                                                    *)
(***************************************************************************)
EXTENDS SyncHistory, SyncFlowProofs

\* History variables record and never constrain: a behaviour with them is a
\* behaviour of SyncFlow.
THEOREM HistoryRefines == HSpec => Spec
<1>1. HInit => Init
  BY DEF HInit
<1>2. [HNext]_hvars => [Next]_vars
  BY DEF HNext, Next, hvars
<1> QED BY <1>1, <1>2, PTL DEF HSpec, Spec

\* The states of SyncHistory are well-typed, as those of SyncFlow are: a killed
\* command and its late request included.
THEOREM HistoryTypeCorrect == HSpec => []TypeOK
BY HistoryRefines, TypeCorrect, PTL

\* A recorded step to a process state that remembers nothing unlisted, and
\* manifests that stay listed, keep the invariant.
LEMMA RecordedByOne ==
  ASSUME TypeOK, OnlyListedPathsRecorded, NEW r \in Sides, NEW c,
         Become(r, c), RecordStep(r), late' = late,
         c.known \subseteq listed, c.next \subseteq listed,
         \A s \in Sides : manifest'[s] \subseteq listed
  PROVE  OnlyListedPathsRecorded'
<1>1. cmd'[r] = c /\ \A s \in Sides \ {r} : cmd'[s] = cmd[s]
  BY DEF Become, TypeOK
<1>2. listed' = listed \cup Listed(c.src)
  BY <1>1 DEF RecordStep
<1>3. ASSUME NEW s \in Sides
      PROVE  /\ Listed(cmd'[s].src) \subseteq listed'
             /\ cmd'[s].known \subseteq listed'
             /\ cmd'[s].next \subseteq listed'
  <2>1. CASE s = r
    BY <1>1, <1>2, <2>1
  <2>2. CASE s # r
    BY <1>1, <1>2, <2>2 DEF OnlyListedPathsRecorded
  <2> QED BY <2>1, <2>2
<1>4. ASSUME NEW s \in Sides, late'[s].call = "manifest" PROVE late'[s].paths \subseteq listed'
  BY <1>2, <1>4 DEF OnlyListedPathsRecorded
<1> QED BY <1>2, <1>3, <1>4 DEF OnlyListedPathsRecorded, Listed

----
\* OnlyListedPathsRecorded holds of every reachable state: no crash, torn write
\* or race puts a path in a manifest, or in what a command remembers, that was
\* never dirty in a source.
THEOREM RecordedPathsWereListed == HSpec => []OnlyListedPathsRecorded
<1>1. HInit => OnlyListedPathsRecorded
  <2> SUFFICES ASSUME HInit PROVE OnlyListedPathsRecorded
    OBVIOUS
  <2>1. \A s \in Sides : manifest[s] = {} /\ cmd[s] = NoCommand /\ late[s] = NoRequest
    BY DEF HInit, Init
  <2> QED BY <2>1, NoCommandListsNothing DEF OnlyListedPathsRecorded, NoRequest
<1>2. TypeOK /\ OnlyListedPathsRecorded /\ [HNext]_hvars => OnlyListedPathsRecorded'
  <2> SUFFICES ASSUME TypeOK, OnlyListedPathsRecorded, [HNext]_hvars
               PROVE  OnlyListedPathsRecorded'
    OBVIOUS
  <2>0. ASSUME NEW r \in Sides
        PROVE  /\ cmd[r] \in Command /\ Other(r) \in Sides
               /\ cmd[r].known \subseteq listed /\ cmd[r].next \subseteq listed
               /\ manifest[r] \subseteq listed
    BY SidesType DEF TypeOK, OnlyListedPathsRecorded
  <2>1. ASSUME NEW r \in Sides, Start(r), listed' = listed
        PROVE  OnlyListedPathsRecorded'
    <3>1. PICK d \in Directions, f \in Forcing :
            Become(r, [NoCommand EXCEPT !.pc = "readSource", !.direction = d, !.force = f])
      BY <2>1 DEF Start
    <3> DEFINE c == [NoCommand EXCEPT !.pc = "readSource", !.direction = d, !.force = f]
    <3>2. Listed(c.src) = {} /\ c.known = {} /\ c.next = {}
      BY NoCommandListsNothing DEF NoCommand
    <3> HIDE DEF c
    <3>3. cmd'[r] = c /\ \A s \in Sides \ {r} : cmd'[s] = cmd[s]
      BY <3>1 DEF Become, TypeOK, c
    <3>4. manifest' = manifest /\ listed' = listed /\ late' = late
      BY <2>1 DEF Start
    <3>5. ASSUME NEW s \in Sides
          PROVE  /\ Listed(cmd'[s].src) \subseteq listed'
                 /\ cmd'[s].known \subseteq listed'
                 /\ cmd'[s].next \subseteq listed'
      BY <3>2, <3>3, <3>4 DEF OnlyListedPathsRecorded
    <3> QED BY <3>4, <3>5 DEF OnlyListedPathsRecorded, Listed
  <2>2. ASSUME NEW r \in Sides, RecordStep(r), NEW c, Become(r, c),
               c.known = cmd[r].known, c.next = cmd[r].next, manifest' = manifest, late' = late
        PROVE  OnlyListedPathsRecorded'
    BY <2>0, <2>2, RecordedByOne
  <2>3. ASSUME NEW r \in Sides, RecordStep(r), Become(r, NoCommand), late' = late,
               \A s \in Sides : manifest'[s] \subseteq listed
        PROVE  OnlyListedPathsRecorded'
    BY <2>3, NoCommandListsNothing, RecordedByOne
  <2>4. ASSUME NEW r \in Sides, Step(r), RecordStep(r) PROVE OnlyListedPathsRecorded'
    <3>0. cmd[r] \in Command /\ cmd[r] = [cmd[r] EXCEPT !.known = @, !.next = @]
      BY <2>0 DEF Command
    <3>1. CASE ReadSource(r)
      BY <2>2, <2>4, <3>0, <3>1 DEF ReadSource, Command
    <3>2. CASE ReadDest(r)
      BY <2>2, <2>4, <3>0, <3>2 DEF ReadDest, Command
    <3>3. CASE PrintSource(r)
      BY <2>2, <2>4, <3>0, <3>3 DEF PrintSource, Command
    <3>4. CASE PrintDest(r)
      BY <2>2, <2>4, <3>0, <3>4 DEF PrintDest, Command
    <3>5. CASE ReadLocal(r)
      BY <2>0, <2>4, <3>0, <3>5, RecordedByOne DEF ReadLocal, Command
    <3>6. CASE ReadPeer(r)
      BY <2>0, <2>3, <2>4, <3>0, <3>6, RecordedByOne DEF ReadPeer, Command
    <3>7. CASE Restore(r)
      BY <2>2, <2>4, <3>0, <3>7 DEF Restore, Command
    <3>8. CASE PeerStatus(r)
      BY <2>2, <2>4, <3>0, <3>8 DEF PeerStatus, Command
    <3>9. CASE Delete(r)
      BY <2>2, <2>4, <3>0, <3>9 DEF Delete, Command
    <3>10. CASE Copy(r)
      BY <2>2, <2>4, <3>0, <3>10 DEF Copy, Command
    <3>11. CASE CopyFails(r)
      BY <2>0, <2>3, <2>4, <3>11 DEF CopyFails
    <3>12. CASE ReadAfter(r)
      <4> DEFINE next == NextManifest(cmd[r], StatusOf(Dest(r)))
                 c == [cmd[r] EXCEPT !.next = next, !.pc = "writeLocal"]
      <4>1. next \subseteq Listed(cmd[r].src) \cup cmd[r].known
        BY <3>0, PlanWithinReads, StatusOfType
      <4>2. next \subseteq listed
        BY <4>1 DEF OnlyListedPathsRecorded
      <4>3. Become(r, c) /\ manifest' = manifest /\ late' = late
        BY <3>12 DEF ReadAfter
      <4> HIDE DEF next
      <4>4. c.known = cmd[r].known /\ c.next = next
        BY <3>0 DEF Command
      <4> QED BY <2>0, <2>4, <4>2, <4>3, <4>4, RecordedByOne
    <3>13. CASE WriteLocal(r)
      BY <2>0, <2>4, <3>0, <3>13, RecordedByOne DEF WriteLocal, Command
    <3>14. CASE WritePeer(r)
      BY <2>0, <2>3, <2>4, <3>14 DEF WritePeer, TypeOK
    <3>15. CASE TornWrite(r)
      BY <2>0, <2>3, <2>4, <3>15 DEF TornWrite, TypeOK
    <3>16. CASE Abort(r)
      BY <2>0, <2>3, <2>4, <3>16 DEF Abort
    <3>17. CASE Killed(r)
      <4>1. /\ cmd' = [cmd EXCEPT ![r] = NoCommand]
            /\ late' = [late EXCEPT ![r] = Sent(r)]
            /\ manifest' = manifest
        BY <3>17 DEF Killed, Become
      <4>2. cmd'[r] = NoCommand /\ listed' = listed
        BY <2>4, <4>1, NoCommandListsNothing DEF RecordStep, TypeOK
      <4>3. ASSUME NEW s \in Sides, late'[s].call = "manifest" PROVE late'[s].paths \subseteq listed
        <5>1. CASE s = r
          BY <2>0, <3>0, <4>1, <4>3, <5>1, SentType DEF TypeOK
        <5>2. CASE s # r
          BY <4>1, <4>3, <5>2 DEF OnlyListedPathsRecorded
        <5> QED BY <5>1, <5>2
      <4>4. ASSUME NEW s \in Sides
            PROVE  /\ Listed(cmd'[s].src) \subseteq listed
                   /\ cmd'[s].known \subseteq listed
                   /\ cmd'[s].next \subseteq listed
        <5>1. CASE s = r
          BY <4>2, <5>1, NoCommandListsNothing
        <5>2. CASE s # r
          BY <4>1, <5>2 DEF OnlyListedPathsRecorded
        <5> QED BY <5>1, <5>2
      <4> QED BY <4>1, <4>2, <4>3, <4>4 DEF OnlyListedPathsRecorded, Listed
    <3> QED
      BY <2>4, <3>1, <3>2, <3>3, <3>4, <3>5, <3>6, <3>7, <3>8, <3>9, <3>10, <3>11,
         <3>12, <3>13, <3>14, <3>15, <3>16, <3>17 DEF Step
  <2>5. ASSUME NEW s \in Sides, User(s), listed' = listed PROVE OnlyListedPathsRecorded'
    <3>1. manifest' = manifest /\ cmd' = cmd /\ late' = late /\ listed' = listed
      BY <2>5 DEF User, Edit, GitAdd, GitRmCached, GitRestore, GitCommit
    <3> QED BY <3>1 DEF OnlyListedPathsRecorded, Listed
  <2>6. ASSUME NEW r \in Sides, Late(r), listed' = listed PROVE OnlyListedPathsRecorded'
    <3>1. cmd' = cmd /\ listed' = listed
      BY <2>6 DEF Late, LateRestore, LateStatus, LateDelete, LateWrite
    <3>2. ASSUME NEW s \in Sides, late'[s].call = "manifest"
          PROVE  late'[s] = late[s]
      BY <2>6, <3>2 DEF Late, LateRestore, LateStatus, LateDelete, LateWrite, NoRequest, TypeOK
    <3>3. ASSUME NEW s \in Sides PROVE manifest'[s] \subseteq listed
      <4>1. CASE LateWrite(r)
        BY <2>0, <4>1 DEF LateWrite, TypeOK, OnlyListedPathsRecorded
      <4>2. CASE ~LateWrite(r)
        BY <2>0, <2>6, <4>2 DEF Late, LateRestore, LateStatus, LateDelete
      <4> QED BY <4>1, <4>2
    <3> QED BY <3>1, <3>2, <3>3 DEF OnlyListedPathsRecorded, Listed
  <2>7. CASE UNCHANGED hvars
    BY <2>7 DEF hvars, vars, OnlyListedPathsRecorded, Listed
  <2> QED BY <2>1, <2>4, <2>5, <2>6, <2>7 DEF HNext
<1> QED BY <1>1, <1>2, HistoryTypeCorrect, PTL DEF HSpec

\* So, when only listed paths are recorded, the plan is for listed paths.
LEMMA PlanIsListed ==
  ASSUME TypeOK, OnlyListedPathsRecorded, NEW r \in Sides
  PROVE  /\ CopyPaths(cmd[r]) \subseteq listed
         /\ DeletePaths(cmd[r]) \subseteq listed
         /\ RestorePaths(cmd[r]) \subseteq listed \cup WtDeletedIn(cmd[r].dst)
<1>1. /\ cmd[r] \in Command
      /\ Listed(cmd[r].src) \subseteq listed /\ cmd[r].known \subseteq listed
  BY DEF TypeOK, OnlyListedPathsRecorded
<1> QED BY <1>1, PlanWithinReads

\* Only a killed command leaves a request behind; the other steps of commands
\* and users keep the requests as they are.
LEMMA OnlyKilledLeavesRequests ==
  ASSUME TypeOK, NEW r \in Sides, NEW s \in Sides, Start(s) \/ Step(s) \/ User(s),
         late'[r] # late[r]
  PROVE  Killed(r)
<1>1. ASSUME Killed(s) PROVE s = r
  BY <1>1 DEF Killed, TypeOK
<1> QED
  BY <1>1 DEF Start, Step, ReadSource, ReadDest, PrintSource, PrintDest, ReadLocal, ReadPeer,
     Restore, PeerStatus, Delete, Copy, CopyFails, ReadAfter, WriteLocal, WritePeer,
     TornWrite, Abort, User, Edit, GitAdd, GitRmCached, GitRestore, GitCommit

----
\* OnlyListedPathsWritten holds of every behaviour: whatever fails, races or
\* dies, fetch and send leave alone every destination file that was never dirty
\* in a source, except to restore one the destination itself had deleted.
THEOREM WrittenPathsWereListed == HSpec => OnlyListedPathsWritten
<1> DEFINE Kept(r, p) == Writes(r) /\ wt'[Dest(r)][p] # wt[Dest(r)][p]
                           => p \in listed \cup WtDeletedIn(cmd[r].dst)
           SentListed(r, p) == late[r] = NoRequest /\ p \in late'[r].paths
                                 => p \in listed \cup WtDeletedIn(cmd[r].dst)
           LateKept(r, p) == late'[r] # late[r] /\ wt'[Other(r)][p] # wt[Other(r)][p]
                               => p \in late[r].paths
<1>1. TypeOK /\ OnlyListedPathsRecorded /\ [HNext]_hvars
        => [\A r \in Sides, p \in Paths : Kept(r, p)]_hvars
  <2> SUFFICES ASSUME TypeOK, OnlyListedPathsRecorded, [HNext]_hvars,
                      NEW r \in Sides, NEW p \in Paths,
                      Writes(r), wt'[Dest(r)][p] # wt[Dest(r)][p]
               PROVE  p \in listed \cup WtDeletedIn(cmd[r].dst)
    OBVIOUS
  <2>1. /\ cmd[r] \in Command
        /\ Listed(cmd[r].src) \subseteq listed /\ cmd[r].known \subseteq listed
    BY DEF TypeOK, OnlyListedPathsRecorded
  <2>2. /\ CopyPaths(cmd[r]) \subseteq listed
        /\ DeletePaths(cmd[r]) \subseteq listed
        /\ RestorePaths(cmd[r]) \subseteq listed \cup WtDeletedIn(cmd[r].dst)
    BY PlanIsListed
  <2>3. cmd[r].pc \in {"restore", "delete", "copy"} /\ cmd'[r] # cmd[r]
    BY DEF Writes
  \* Only the command on r changes its own process state, and a user does not.
  <2>4. Step(r)
    <3>1. ASSUME NEW s \in Sides, User(s) \/ Late(s) PROVE cmd' = cmd
      BY <3>1 DEF User, Edit, GitAdd, GitRmCached, GitRestore, GitCommit,
         Late, LateRestore, LateStatus, LateDelete, LateWrite
    <3>2. ASSUME NEW s \in Sides, s # r, Step(s) PROVE cmd'[r] = cmd[r]
      BY <3>2 DEF Step, ReadSource, ReadDest, PrintSource, PrintDest, ReadLocal, ReadPeer,
         Restore, PeerStatus, Delete, Copy, CopyFails, ReadAfter, WriteLocal, WritePeer,
         TornWrite, Abort, Killed, Become, TypeOK
    <3>3. ASSUME NEW s \in Sides, Start(s) PROVE cmd[s].pc = "idle" /\ (s # r => cmd'[r] = cmd[r])
      BY <3>3 DEF Start, Become, TypeOK
    <3>4. ~UNCHANGED hvars
      BY <2>3 DEF hvars, vars
    <3> QED BY <2>3, <3>1, <3>2, <3>3, <3>4 DEF HNext
  <2>5. Dest(r) \in Sides /\ wt \in [Sides -> Tree]
    BY SidesType DEF TypeOK
  <2>6. CASE Restore(r)
    <3>1. PICK done \in PartOf(Restorable(index[Dest(r)], RestorePaths(cmd[r]))) :
            wt' = [wt EXCEPT ![Dest(r)] = Overlay(@, done, index[Dest(r)])]
      BY <2>6 DEF Restore
    <3>2. p \in done
      BY <2>5, <3>1, OverlayChange
    <3> QED BY <2>2, <3>1, <3>2 DEF PartOf, Restorable
  <2>7. CASE Delete(r)
    <3>1. PICK done \in PartOf(Doomed(cmd[r])) :
            wt' = [wt EXCEPT ![Dest(r)] = Overlay(@, done, EmptyTree)]
      BY <2>7 DEF Delete
    <3>2. p \in done
      BY <2>5, <3>1, OverlayChange
    <3> QED BY <2>2, <3>1, <3>2 DEF PartOf, Doomed
  <2>8. CASE Copy(r)
    <3>1. wt' = [wt EXCEPT ![Dest(r)] = Overlay(@, CopyPaths(cmd[r]), wt[Source(r)])]
      BY <2>8 DEF Copy
    <3>2. p \in CopyPaths(cmd[r])
      BY <2>5, <3>1, OverlayChange
    <3> QED BY <2>2, <3>2
  <2>9. CASE CopyFails(r)
    <3>1. PICK done \in PartOf(Present(Source(r), CopyPaths(cmd[r]))) :
            wt' = [wt EXCEPT ![Dest(r)] = Overlay(@, done, wt[Source(r)])]
      BY <2>9 DEF CopyFails
    <3>2. p \in done
      BY <2>5, <3>1, OverlayChange
    <3> QED BY <2>2, <3>1, <3>2 DEF PartOf, Present
  <2>10. CASE Abort(r) \/ Killed(r)
    BY <2>10 DEF Abort, Killed, repos
  <2> QED
    BY <2>3, <2>4, <2>6, <2>7, <2>8, <2>9, <2>10 DEF Step, ReadSource, ReadDest,
       PrintSource, PrintDest, ReadLocal, ReadPeer, PeerStatus, ReadAfter, WriteLocal,
       WritePeer, TornWrite
<1>2. TypeOK /\ OnlyListedPathsRecorded /\ [HNext]_hvars
        => [\A r \in Sides, p \in Paths : SentListed(r, p)]_hvars
  <2> SUFFICES ASSUME TypeOK, OnlyListedPathsRecorded, [HNext]_hvars,
                      NEW r \in Sides, NEW p \in Paths,
                      late[r] = NoRequest, p \in late'[r].paths
               PROVE  p \in listed \cup WtDeletedIn(cmd[r].dst)
    OBVIOUS
  <2>1. late'[r] # late[r]
    BY DEF NoRequest
  <2>2. ASSUME NEW s \in Sides, Late(s) PROVE s = r /\ late[s].call # "none"
    BY <2>1, <2>2 DEF Late, LateRestore, LateStatus, LateDelete, LateWrite, TypeOK
  <2>3. Killed(r)
    BY <2>1, <2>2, OnlyKilledLeavesRequests DEF HNext, hvars, vars, NoRequest
  <2>4. late'[r] = Sent(r) /\ cmd[r] \in Command
    BY <2>3 DEF Killed, TypeOK
  <2>5. /\ Sent(r) \in Request
        /\ Sent(r).call = "restore" => Sent(r).paths = RestorePaths(cmd[r])
        /\ Sent(r).call \in {"status", "delete"} => Sent(r).paths \subseteq DeletePaths(cmd[r])
        /\ Sent(r).call = "manifest" => Sent(r).paths = cmd[r].next
    BY <2>4, SentType
  <2>6. /\ DeletePaths(cmd[r]) \subseteq listed
        /\ RestorePaths(cmd[r]) \subseteq listed \cup WtDeletedIn(cmd[r].dst)
        /\ cmd[r].next \subseteq listed
    BY PlanIsListed DEF OnlyListedPathsRecorded
  <2>7. Sent(r).call \in {"restore", "status", "delete", "manifest"}
    BY DEF Sent
  <2> QED BY <2>4, <2>5, <2>6, <2>7
<1>3. TypeOK /\ [HNext]_hvars => [\A r \in Sides, p \in Paths : LateKept(r, p)]_hvars
  <2> SUFFICES ASSUME TypeOK, [HNext]_hvars, NEW r \in Sides, NEW p \in Paths,
                      late'[r] # late[r], wt'[Other(r)][p] # wt[Other(r)][p]
               PROVE  p \in late[r].paths
    OBVIOUS
  <2>1. ~Killed(r)
    BY DEF Killed, repos, TypeOK
  <2>2. ASSUME NEW s \in Sides, s # r, Late(s) PROVE late'[r] = late[r]
    BY <2>2 DEF Late, LateRestore, LateStatus, LateDelete, LateWrite, TypeOK
  <2>3. Late(r)
    BY <2>1, <2>2, OnlyKilledLeavesRequests DEF HNext, hvars, vars
  <2>4. Other(r) \in Sides /\ wt \in [Sides -> Tree]
    BY SidesType DEF TypeOK
  <2>5. CASE LateRestore(r)
    <3>1. PICK done \in PartOf(Restorable(index[Other(r)], late[r].paths)) :
            wt' = [wt EXCEPT ![Other(r)] = Overlay(@, done, index[Other(r)])]
      BY <2>5 DEF LateRestore
    <3>2. p \in done
      BY <2>4, <3>1, OverlayChange
    <3> QED BY <3>1, <3>2 DEF PartOf, Restorable
  <2>6. CASE LateDelete(r)
    <3>1. PICK done \in PartOf(late[r].paths) :
            wt' = [wt EXCEPT ![Other(r)] = Overlay(@, done, EmptyTree)]
      BY <2>6 DEF LateDelete
    <3>2. p \in done
      BY <2>4, <3>1, OverlayChange
    <3> QED BY <3>1, <3>2 DEF PartOf
  <2> QED BY <2>3, <2>5, <2>6 DEF Late, LateStatus, LateWrite, repos
<1>4. TypeOK /\ OnlyListedPathsRecorded /\ [HNext]_hvars
        => [\A r \in Sides, p \in Paths :
              /\ Kept(r, p)
              /\ SentListed(r, p)
              /\ LateKept(r, p)]_hvars
  BY <1>1, <1>2, <1>3
<1> QED
  BY <1>4, HistoryTypeCorrect, RecordedPathsWereListed, PTL DEF HSpec, OnlyListedPathsWritten
====
