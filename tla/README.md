# A verification of wdsync

wdsync mirrors the uncommitted files of one git worktree onto a clone of it on
the other side of the WSL/Windows boundary, by `git status`, `git restore`, file
deletion and rsync, over a JSON-lines session with a wdsync process it spawns
there. This directory holds TLA+ models of it, the TLC runs that check them, and
theorems about them that TLAPS checks.

    tlc -config SyncOutcome_mirror.cfg SyncOutcomeMC   # any run of PROJECT.json
    tlc -config RpcSession.cfg RpcSession
    tlapm DeleterProofs.tla                            # any module ...Proofs

Paths of source files below are relative to the package `src/wdsync`.

## Inventory

| Component | State | Operations | Interacts by | What is hard | What makes it correct |
|---|---|---|---|---|---|
| sync command (`cli/commands.py`, `sync/context.py`) | locals of one process: two statuses, fingerprints, conflicts, manifests, plan | `fetch`, `send`, with and without `--force` | reads and writes both repositories, locally and by RPC | about twelve reads and writes without a lock; users and the other side's command run in between; nothing is undone | user work survives; a completed sync mirrors; repeating it changes nothing |
| sync planning (`sync/conflict.py`, `planner.py`, `direction.py`) | none | conflicts, copy/delete/restore sets | called by the command | overlapping path sets, paths with two status entries | the sets together give each path one outcome |
| engine, deleter (`sync/engine.py`, `deleter.py`) | destination worktree | restore, delete, copy | git, rsync, sudo, the file system | partial failure, stale guards, symlinks, empty parents | only planned paths change; files with local changes are kept |
| manifest (`sync/manifest.py`) | `.git/wdsync/manifest.json` on each side | read, write | read as a union, written one after the other | torn and one-sided writes, lost updates | records what was mirrored and only that |
| status and fingerprints (`git/*.py`) | none | parse, hash | `git status -z`, `git hash-object` | two-column codes, renames, two entries for one path | every dirty path is classified by what it is |
| RPC client and session (`rpc/client.py`, `session.py`) | process, pipes, queue, two threads | open, call, close | pipes to the peer | no request ids, timeouts, late answers, a peer that hangs or dies | own answers; at most one execution, in order; no peer left; an end |
| RPC server (`cli/commands.py: rpc`, `rpc/handlers.py`) | none between requests | ten methods | stdin and stdout | only `WdSyncError` becomes an answer | answers each request once, in order |
| connect (`rpc/connect.py`) | link in both configs | handshake, locate, configure, save | RPC, then the local file | failure between the two saves | the link is symmetric |
| configuration, init, disconnect, deinit (`core/config.py`, `deinit.py`) | config, marker, exclude entry, manifest | create, load, change, remove | files in the repository | a crash between writes, one-sided removal | repeating an operation repairs it |
| discovery (`rpc/discovery.py`) | none | layered bounded search | file system, identity | the count threaded through recursion | finds a match within the bounds, examines no more than them |
| head relation (`sync/doctor.py`) | none | compare two commits | git on either side | each side knows other commits | both sides report one relation, and it is true |
| interop (`core/interop.py`, `environment.py`, `path_utils.py`) | none | resolve commands, translate paths | external programs | which distribution and which file system a command reaches | both ends of a link name the same repositories |
| codec, protocol, models, output, shell, logging, runner | none | encode, print, install, run | - | field validation | a round trip is the identity |

## Modules

| Module | Models |
|---|---|
| `GitRepo` | a repository as wdsync sees it: head, index, worktree, and the listing made of them |
| `SyncFlow` | fetch and send, both sides, users, failures, deaths, late requests |
| `SyncHistory` | SyncFlow and the paths ever listed: what holds under any race and failure |
| `SyncOutcome` | SyncFlow, what was mirrored and what each sync found: what a sync comes to |
| `Mirror` | the promise of a sync, in one step (abstract) |
| `SyncFlowMC`, `SyncOutcomeMC` | the instances TLC checks |
| `SyncFlowProofs` | theorems: types, and facts about listings and steps that the next modules use |
| `SyncHistoryProofs` | theorems: the damage of races and failures is bounded |
| `SyncOutcomeProofs` | theorems: what a sync keeps, though its steps may fail; a sync mirrors, implements `Mirror`, and is idempotent |
| `RemoteCalls` | what a caller relies on in an RPC session (abstract) |
| `RpcSession` | the session: client, pipes, pump thread, peer |
| `RpcSessionProofs` | theorems: its invariants, and that it implements `RemoteCalls` |
| `PeerLink`, `PeerLinkMC` | init, connect, disconnect and deinit, and the state they leave in each clone |
| `PeerLinkProofs` | theorems about `PeerLink` |
| `HeadRelation` | how two HEADs are compared by two clones that know different commits |
| `StatusParser` | the parser of `git status -z` |
| `Discovery` | how the peer finds the clone that matches an identity |
| `Deleter` | the deletion of files in a worktree with links and protected directories |
| `Algorithms`, `AlgorithmsMC` | the last four as functions of an input, and their bounded inputs |
| `AlgorithmsProofs` | theorems: head relation and status parser, for histories and listings of any size |
| `SearchProofs` | theorems: the search, for directory trees of any size |
| `DeleterProofs` | theorems: deletions, for file systems and plans of any size |

### GitRepo, SyncFlow

A repository is three functions from paths to contents (`head`, `index`, `wt`).
`GitStatus` makes of them what `git status --porcelain=v1 -z
--untracked-files=all` prints: for each path the two status columns and whether
there is an untracked entry besides. git itself is external and is modelled only
as far as wdsync depends on it; the interpretation (which codes are deletions,
which paths are dirty, which are untracked) is the parser's and the readers'.

`cmd[r]` is the process of the command on side `r`: its program counter and those
locals of `_sync_flow` and `build_sync_context` that a later step reads. Each read
or write of a repository or a manifest is one action, in the order of the code:

| Actions | Code |
|---|---|
| `Start` | `fetch`, `send`, the session |
| `ReadSource`, `ReadDest` | the two statuses; `detect_conflicts` |
| `PrintSource`, `PrintDest` | fingerprints of the overlapping paths, only if there are any; `filter_equivalent_conflicts` |
| `ReadLocal`, `ReadPeer` | the manifests; then the return on conflicts, or the plan |
| `Restore` | `restore_files`, local or in the peer |
| `PeerStatus`, `Delete` | `delete_files`; in a send the peer's handler reads a status of its own first |
| `Copy`, `CopyFails` | rsync, which copies what it can and then fails if a listed file is missing |
| `ReadAfter` | `_next_manifest_paths` |
| `WriteLocal`, `WritePeer`, `TornWrite` | `_persist_manifest_state` |
| `Abort` | any exception, timeout, interrupt or death that ends the peer too |
| `Killed`, `Late...` | a kill that leaves the peer with a request, and the peer's going on with it |

With `MayFail`, `Restore`, `Delete` and `CopyFails` do any part of their work, so
a handler killed midway, or a sudo that fails, is a partial step followed by
`Abort`. `User` is what people do meanwhile: edit, delete, `git add`, `git rm
--cached`, `git restore`, `git commit`, on either side.

`Killed` composes `SyncFlow` with what `RpcSession` shows of a killed command: its
peer is not told, and executes the request it has. `late[r]` is that request, at
most one for each side in `Lingering`; it may execute at any later time, among the
steps of the next commands, wholly or in part. `RemoteCalls` lets no other failure
leave a request behind.

### SyncHistory, SyncOutcome, Mirror

Both add history variables that constrain nothing. `SyncHistory` has `listed`, the
paths any command has found dirty in its source, in terms of which the damage of
races and failures is bounded. `SyncOutcome` has `mirrored` (the unsaved work that a
copy has brought from one side to the other), `settled` (the last completed sync, if nothing
has changed since) and `before` (the worktrees as the command under way found them).

`Mirror` is the table "Sync rules" of README as one step: a sync asked for is refused
over a conflict, or changes every path of the destination at once, and the pair's
one set of tracked paths with it. `SyncOutcome!ImplementsMirror` maps an undisturbed
command to it: `wt` to `before`, the two manifests to the one that is not being
written, the request to the direction and `--force` of the command. All steps of a
command stutter but its start, its return on a conflict, and its last. A fetch and
the send of the other side map to the same step, though their deletions are guarded
with statuses read at different times.

### RemoteCalls, RpcSession

`RemoteCalls` is the promise: calls execute one at a time, at most once and in
order; a call that returns has executed; one that failed may have executed or may
yet execute, but not after the command has exited. `RpcSession` is how the code
keeps it without request ids: any error ends the session, `close` ends the peer.
`SyncFlow` uses the promise: its remote steps are atomic, and may happen before an
`Abort`.

The client is a process with the states of `RpcClient` and `with`; `requests` and
`answers` are the pipes, `queue` is `_stdout_queue`, `Pump` the thread that fills it.
`owner` tells `connect_to_peer`, whose `with RpcClient` closes the client after any
error, from `PeerSession`, whose `__enter__` may fail before there is anything to
exit. A request larger than the pipe keeps the client in `writing` until the peer
reads it. What a failed or interrupted write leaves in the buffer of `stdin`
(`unflushed`) `close` tries to write again. `Interrupt` is the user's, in any wait: for
an answer, in the write of a request, and in the wait of `close`, which then skips the
kill and reads what the peer still says. One at any later point ends the command without
the rest of its clean-up, which is `Killed`. The peer reads, executes or refuses,
answers, may die at any point and may stop taking steps.

### PeerLink

One clone on Windows and one in each WSL distribution. `config`, `marker`, `exclude`
and `manifest` are the files wdsync keeps in a clone; `cli[r]` is the command running
in clone `r`, `peer[r]` the process that its last connect has started, which acts in
another clone and may outlive it. Every file read or written is an action, any
process may die before or within a write, and a torn config is refused by every
command but deinit.

`initialize_repo` runs in two processes, in `init` and in the handler of
`configure_peer`; `Initialize` serves both. `Reached`, `Reverse`, `Resolved` and
`Configured` are the functions of `core/interop.py` on what decides the outcome: the
distribution in `wsl_distro` and the one within the peer command. An option of
`connect` gives either or both, or a peer command that names none; `Override` replaces
the saved command as a whole. The history variable `wrapped` says that a Windows
clone has been linked to a distribution that was named within `--wsl-peer-command`
only. The working
directory is part of a process (`at`), since git answers some paths relative to it.
`Sync` stands for a whole fetch or send, and touches only whether there is a manifest.

### HeadRelation, StatusParser, Discovery, Deleter

Each is a set of operators and recursive functions for what a handful of functions
compute, with the reference definition that their result is compared to. `Algorithms`
has one variable, the input, and one property or two for each module:

| Module | Inputs | Compared to |
|---|---|---|
| `HeadRelation` | histories of up to four commits with any parents, the commits each clone has, their HEADs | reachability in the whole history, and the other side's answer |
| `StatusParser` | token streams of up to 3 tokens, listings of up to 2 entries | the stream encoded again, the listing itself |
| `Discovery` | directory trees, repositories by URL, roots or without commits, the cached root, the working directory | the first match in order among the first `MaxCandidates` |
| `Deleter` | worktrees with links to files, directories, out of the root and back to it, lists of up to 2 paths, protected directories, answers to the sudo question | only listed files go, the report is true |

## Runs

Paths and contents are model values, interchangeable (symmetry). The other modules'
constants are few and distinguished.

| Run | Instance | Distinct states |
|---|---|---|
| `mirror` | 2 paths, 2 contents, commands of one side in both directions, with and without `--force`, 4 user operations between commands | 842 409 |
| `racing` | commands on both sides at once, 1 path, 1 content, failures, deaths, a late request of one side, 1 user operation at any time | 1 105 256 |
| `failing` | 1 path, 2 contents, fetches and sends of one side, failures and deaths at any step, torn manifests, 4 user operations between commands | 76 085 |
| `session` | 3 calls after the handshake | 4 258 |
| `link` | Windows and 2 distributions, 3 commands, every combination of the options, syncs, failures, torn files, 2 working directories | 1 328 330 |
| `algorithms` | every input of the table above | 248 389 |

- `mirror`: `ImplementsMirror` is the whole outcome of a sync. `CompletedSyncMirrors`
  relates the three path sets: none undoes another, also when `--force` overrides
  conflicts. `UnsavedWorkKept`: what an unforced sync may lose is confined to paths
  that are in a manifest and clean in the source. `ResidueStaysTracked`: over several
  syncs, commits and deletions a copied file stays recorded until it is clean.
  `RepeatChangesNothing`, `NoConflictAfterSync`: a sync is idempotent.
- `racing`: `OnlyListedPathsWritten` bounds the damage of any interleaving, failure,
  torn manifest or late request. `OnlyListedPathsRecorded` is the invariant behind it.
  Both speak of entries and writes that nothing accounts for, so they say little of the
  one path once it has been listed; damage to listed paths and lost records are the
  subject of `failing` and of the counterexamples below.
- `failing`: `TrackedUntilReconciled`: commands that die between the two manifest writes,
  or within one, leave the sides with different records; the next ones lose none of
  a file that is still to be reconciled.
- `session`: the refinement of `RemoteCalls`, and `OneUnderWay`, why it needs no request
  ids; `NoPeerLeft`, `IncompatibleNeverExecutes`; `CommandEnds`, and `OrphanEnds` for the peer of a command
  that was killed or whose handshake failed.
- `link`: `ConnectIsBilateral`: no failure leaves a clone, of a connect that ran alone,
  with a link that is not returned. `DeinitRestores`: a deinit that ends removes what
  any earlier command, complete or not, has left. `ReconnectKeepsNamedPeer`: the
  preferences as saved on either side lead back to the clone the link names, unless
  that is a distribution which a Windows user has named only in `--wsl-peer-command`;
  `v_reconnect` is that case. The way back that connect configures is to the clone it
  runs in, unless its user, in one distribution, has named another one in
  `--wsl-peer-command`; then it is to that one.
- `algorithms`: one pair of properties for each module, named in the table.
  `DeleterReports` makes an exception for directories that links lead to: pruning goes up
  the path as it is written and removes what each part of it resolves to at that moment,
  so it may leave an empty directory where a link leads, and below it when the deleted
  link was on the way to itself.

**Why the bounds are enough.** Every set a sync computes is defined path by
path; only a failing copy and the pairing of renames relate two paths, and two paths
show both. Two contents tell a change from an equal change; absence is a third value.
Four operations cover edit, stage, commit and a counter-edit around as
many syncs as TLC finds states for; the number of commands is not bounded. With races
one content is enough, since the properties there speak of paths only. A record
is lost or kept for a path by itself, so `failing` has one. Three calls let
a stale answer of one call meet the next and the one after; the session keeps at most
one request under way. Two distributions are the fewest in which one is not the
default; three commands are init, connect and one that undoes or repeats it, and the
peer of a connect can still run among them. The algorithms work locally: an entry with
its old path and the next, a directory and its children, a path and its parents.

**Fairness.** `SyncFlow` and `PeerLink` state safety only: a command may stop at any
step. `CommandEnds` assumes `WF(Client)`, the client's own code and clock, since each of
its waits has a timeout or is on a dead process; and `WF(PeerReads)`, that a peer
that has answered returns to its read loop, because writing a request that
does not fit in the pipe has no timeout. Without the second the property fails.
`OrphanEnds` assumes also `WF(PeerExits)`: a peer in its read loop sees the end of its
stdin, which the system closes with the client. Of handlers nothing is assumed: one
may hang for ever, and the property says so. The user's interrupt is no part of
`Client`, so no property leans on it; but one in the wait of `close` takes away the kill,
and the command then waits for the output of a peer whose handler may hang, the one
exception of `CommandEnds`.

**Deadlock** is checked in all runs of SyncFlow; a session ends, and the commands of
`PeerLink` are bounded, so those runs turn it off.

### Where the documentation or a test says otherwise

Each of these runs has one property, taken from a line of the repository, and TLC
finds it violated. PROJECT.json quotes the lines.

| Run | What happens |
|---|---|
| `v_orphan_restore` | a mirrored file is discarded in the source and edited anew in the destination: the next sync restores it from the destination's index |
| `v_untracked` | a user changes a once mirrored, untracked file, its copy on the other side is removed: the next sync deletes the changed file, as an orphan |
| `v_failed_copy` | after a failed copy the files it did copy are in no manifest |
| `v_exit` | after a failed write `close` raises `BrokenPipeError` in place of `PeerConnectionError` |
| `v_exclude` | the peer that connect starts adds the exclude entry of its new marker to the clone it was started in; `init` below the root adds it to a new `.git` directory there |
| `v_reconnect` | a Windows clone linked by `--wsl-peer-command "wsl.exe -d D --exec ..."` stores the command without the distribution, and reconnects to the default one |

#### Further counterexamples

These configurations belong to no run of PROJECT.json. Each checks one property that a
line of the repository's README.md or docs states, and TLC finds it violated; the
modules are `SyncOutcomeMC`, `PeerLinkMC` and `AlgorithmsMC`.

| Configuration | Property | Documentation | What happens |
|---|---|---|---|
| `SyncOutcome_v_conflict.cfg` | `ConflictsOnlySkipped` | README.md:121, "skipped unless `--force` is used"; docs/ARCHITECTURE.md:327, "skip conflicting files, sync the rest" | one conflict stops the whole sync (`Refuse` of `Mirror`): a file that does not conflict is not copied |
| `SyncOutcome_v_delete_race.cfg` | `LocalChangesNeverDeleted` | README.md:36-37, "Files with local changes in the destination are never deleted" | a user changes a file in the destination after the status that guards a fetch's deletions was read: the fetch deletes it |
| `SyncOutcome_v_double_fetch.cfg` | `DestinationOnlyWorkKept` | README.md:120, "Not touched (destination changes are preserved)" | two fetches at once: one takes the other's record for an orphan's and deletes the original, the record is left on one side; a later fetch deletes the copy the user goes on working on |
| `SyncOutcome_v_staged_deletion.cfg` | `TrackedDeletionsPropagate` | README.md:123, "File deleted in source (tracked)", "Deleted from destination" | a deleted file with a staged change (`MD`, `AD`) is planned as a copy, and the copy fails |
| `PeerLink_v_distro.cfg` | `EitherSideCanSync` | README.md:186-187, "either repo can then run `status`, `fetch`, or `send`" | a Windows clone linked to a distribution that is not the default one sends its requests there, and runs its rsync in the default one |
| `Algorithms_v_rename.cfg` | `EveryEntryParsed` | README.md:149, for all but the listed codes the "fallback `[changed]`" | a rename in the worktree, as git reports it after `git add --intent-to-add`, has its old path taken for an entry |

More that the models, or the reading for them, made visible:

- `git rm --cached` leaves a path with two entries, `D ` and `??`, of which the plan
  takes the first: the file is deleted in the destination though it exists, untracked,
  in the source, and the next sync reports a conflict over it (the exception in
  `NoConflictAfterSync`).
- A mirrored file that the source deletes is a conflict, and a forced sync neither
  deletes the copy, which its own guard takes for a local change, nor keeps it in the
  manifest (`ResidueStaysTracked` is for unforced commands).
- A manifest survives disconnect, and a connect to another clone merges it into that
  pair's, although docs/ARCHITECTURE.md:192 calls it pair-owned.
- A link in the worktree to a place outside the root is skipped as a path traversal,
  though deleting it would only unlink it.

## Proofs

TLAPS checks every safety property and refinement of the passing runs for all values
of the constants, under the hypotheses named here. PROJECT.json lists the theorems.

### Under any race and failure: SyncFlowProofs, SyncHistoryProofs

- `TypeCorrect`: `Spec => []TypeOK`. It needs that `GitStatus` gives a listing for
  whatever head, index and worktree (`StatusType`), so that it does not depend on
  which rename pairing is chosen.
- `HistoryRefines`: `HSpec => Spec`; the history variables constrain nothing.
- `RecordedPathsWereListed`: `HSpec => []OnlyListedPathsRecorded`.
- `WrittenPathsWereListed`: `HSpec => OnlyListedPathsWritten`.

The last two also cover a command that is killed and the request it leaves behind:
what is sent is within the plan (`SentType`), only `Killed` makes a request
(`OnlyKilledLeavesRequests`), and a late step writes within it.

The argument: a step writes within the command's plan
(`OverlayChange`); the plan is within the source listing, the manifests it has
read, and the paths deleted in the destination (`PlanWithinReads`); so the written
path was listed if everything read from a manifest was. A command may act on a
manifest long after it read it, and a manifest may be written by the other side, so
the invariant must speak of the manifests, of `known` and `next` of every command
in flight, and of the source listings at once: this is `OnlyListedPathsRecorded`,
which is inductive together with `TypeOK`. `RecordedByOne` reduces each step to the
one process that moves.

### When commands take turns: SyncOutcomeProofs

A sync can keep what it promises only if nobody changes what it has read. The
theorems say so: `Calm` (nobody works while a command runs, no killed command's request
lingers), and `OSpec /\ []OneAtATime`, the behaviours in which the commands of the two
sides do not overlap. Nothing else orders them: both sides may sync by turns, in both
directions, forced or not, with any work in between. `OneRunner` shows that
`[]OneAtATime` holds if all commands are started on one side, as in the run, and
`OneSidesSyncs` collects the results for that case. The counterexamples in "Where the
documentation or a test says otherwise" show that without these hypotheses the promises
fail. `Reliable` is `Calm` without failing steps.

| Theorem | States | Hypotheses |
|---|---|---|
| `UnsavedWorkIsKept` | `UnsavedWorkKept` | `Calm`; steps may fail |
| `ResidueIsRecorded` | `ResidueStaysTracked` | `Calm`; steps may fail |
| `TrackingSurvivesFailures` | `TrackedUntilReconciled` | `Calm`; steps may fail |
| `SyncsMirror` | `CompletedSyncMirrors` | `Reliable` |
| `SyncImplementsMirror` | `ImplementsMirror` | `Reliable` |
| `SyncIsIdempotent` | `RepeatChangesNothing` | `Reliable` |
| `RepeatsDoNotConflict` | `NoConflictAfterSync` | `Reliable` |

Four invariants carry them, each on top of the one before:

1. `AllFresh` (`Fresh`, `NoConflictLeft`): what a command has read and will use again
   is still so. The conflicts it holds are those of the two clones, and once an
   unforced command has none, the source has an equal copy of any unsaved work of the
   destination at a path to be mirrored. A failing step keeps it, since it does a part
   of what is planned.
2. `GoesAsPlanned` (`Settles`, `Found`, `Done`): between its first write and its last a
   command's destination is `before` with exactly the sets restored, deleted and copied
   that lie behind its program counter, and outside a command the two manifests are
   equal. Of `before` and the plan the final worktree follows path by path
   (`FinalIsMirrored`). It is not inductive without the first, as the plan is computed
   of what was read.
3. The refinement: every step of a command but its start, its return on a conflict and
   its last stutters, and the last one makes the change of `Mirror`. It needs no
   invariant more.
4. `Settled`: after a completed sync the two clones agree on every path the source
   lists and every one left in the manifest has a clean reason to be there (`Mirrors`),
   until somebody changes something. A repeated sync then finds that each of its sets
   would write what is there.

`TrackingSurvivesFailures` rests on another, `AllRecords`: until its own first write a
command knows every entry of the two manifests (`Records`), so that one it drops is
missing from what it writes, for which `ResidueIsRecorded` gives the reason; and after
that write neither manifest has an entry to be reconciled that the second would drop.

`MirroredIsUnsaved`, `NoLate` and `FoundType` are what they need of the history.
`PathsAssumption`, that the paths are finitely many, is there because `Renames` chooses a
largest pairing, and among infinitely many pairs there need not be one (`RenamesArePairs`).

### RpcSessionProofs

`OneUnderWay` is the reason why the session works without request ids, and is inductive
with `TypeOK`: at most one request or answer is anywhere, in a pipe, in the peer or in
the queue; it is the last one sent; and none is when the client may send. Whatever
leaves one behind, an error, a timeout or an interrupt, also leaves the states in which
the client may send. `ExecutedInOrder` relates
what the peer has executed to what was asked and returned, and `Established` says that
a session with an answer has a compatible peer, which is dead when the client has ended.
`IncompatiblePeersRefused`, `SessionsLeaveNoPeer` and the refinement
`SessionImplementsCalls` follow from these. No assumption but that `MaxCalls` is a number.

### PeerLinkProofs

`Placed` says where each process acts: a command in its clone, its peer in the clone it
has reached, with the link that leads back. `TypeOK` is not inductive without it, since
what a peer saves is its link. `Undisturbed` says what a command that is alone has
brought about so far and that it is still so. From these:

- `DeinitRestoresClone`, for any options, failures and earlier commands.
- `ConnectLinksBack`: the peer's link is in place when connect saves its own, and names
  the clone that the reverse command reaches.
- `ConnectConfiguresBothSides` (`ConnectIsBilateral`), for any options: the way back is
  to the clone that connects, or to the distribution that a user in another one has named
  within `--wsl-peer-command`, since `Reverse` takes that for its own.
- `ReconnectReachesSamePeer` (`ReconnectKeepsNamedPeer`), for any options. `Consistent`
  relates what is saved, and what a process is about to save, to its link: a saved
  Windows config names the distribution of its link in `wsl_distro`, or its link is the
  default one, or `wrapped` holds. The exception of the property is that last
  case, which `v_reconnect` shows to be one.

### AlgorithmsProofs, SearchProofs, DeleterProofs

What the algorithms compute is a recursive function. That it is what its definition
says, and what it computes, is shown by the least number or the last set for which it
would not (`LeastNumber`, `Stepwise`, `LoopDefined`), as the theorems of the library for
induction take operators that no prover here can instantiate.

- `RelationsAgree` (`HeadsAgree`) and `ClaimsAreTrue` (`HeadClaims`), for any number of
  commits and any knowledge of the two clones. With two different commits at most one is
  an ancestor of the other, so the relation reverses with the direction; and a
  repository that can tell sees the same as any other (`RelationIsSeen`).
- `StreamsAccountedFor` (`ParserExact`) and `ListingsReadBack` (`ParserReadsBack`), for
  streams and listings of any length, from the last token to the first. Their
  hypothesis, `FirstColumnOnly`, is that an old path is given for a code with `R` or `C`
  in its first column only. git has them in the second column after `git add
  --intent-to-add`, and there the parser does take the old path for an entry
  (`v_rename`).
- `SearchesFindFirst` (`SearchFindsFirst`), for forests of any size and any limits.
  `Finds` says what a walk that has looked at a set of entries returns, given what was
  counted before: the first match among as many of its repositories as the limit still
  allows. Two walks over consecutive sets, where every entry of the second comes after
  all of the first, compose to a walk over their union (`Finds` is closed under it), and
  the subtrees of a directory are consecutive as the entries are numbered in the order
  of a full walk. So the statement for a level follows from that for the level below,
  entry by entry, and for the search from level 0.
- `LocatedAreAccepted` (`LocateAccepted`): identity matching is symmetric, and what is
  located was matched.
- `DeletionsKeepToThePlan` (`DeletesListedOnly`) and `DeletionReportsAreTrue`
  (`DeleterReports`), for file systems and plans of any size. Each deletion, and each
  directory pruned, changes the file system in which the next one is resolved. Three
  facts make that harmless:
  - The file systems are `Grounded` (what exists has a directory for its parent, the
    root is one) and each is what is left of an earlier one (`Fewer`). Then a path leads
    where it led before, or to nothing (`ReachStays`); to nothing else only by losing a
    link on its way (`Astray`), since a path that goes up does so at its start
    (`GoesUp`). So a path reported deleted or absent stays so (`NothingStays`).
  - Pruning goes up the path as it is written, but what it finds there is always the
    parent of what it removed last (`PrunesTheParent`, `Climbed`). It ends at a
    directory that is `Kept` for a reason: the root, which the file that is never listed
    keeps from being empty (`RootNotEmpty`), one that is not empty or is protected, or
    one that a link leads to, or once led to from above.
  - What is unlinked is inside the root, although only the place that the whole path
    leads to is compared with it and not the file's own: links outside lead nowhere
    inside (`SafeLeafInside`).

  `Underway` is the invariant of the loop of `delete_files` that joins them: what is gone
  was listed, clean and reported, what was reported to be gone is gone, and what was
  emptied is gone or kept. A first form of `ReportIsTrue` resisted the proof because it
  was false: a link on the way to its own directory, once deleted, leaves the directory
  out of the reach of pruning (the last exception of `OffTheWay`).

### Assumptions

The assumptions are those of the modules: the value for absence is no content and the
value for no relation no relation, paths are finitely many, `Runners` and `Forcing` are
sets of sides and booleans, the bounds are numbers, the switches are booleans, `Lingering` is
a set of sides, and the options and distributions of `PeerLink` are what it says. In the
algorithms no code is empty, the value for no match is no reason, absolute paths have
no `..` and come with their prefixes, and deletions are what `IsDeletion` says: in a
directory, with a file that is never listed. TLC evaluates them in the runs.

### Only model-checked

- Liveness: `CommandEnds` and `OrphanEnds`, the prover having no rules for fairness and
  `ENABLED`.
- The violations, each a single behaviour.

## Not modelled, and why

- rsync's quick check by size and modification time, by which a changed file of
  equal size and time is not copied; file modes, directories and ignored files; the
  filters git applies when it hashes a file. Links are modelled in `Deleter` only.
- Unmerged entries (a merge in progress) in `GitStatus`, and renames in the worktree
  column, which need `git add --intent-to-add`: those are in `StatusParser` only. The
  decoding of file names from bytes.
- Shallow clones in `HeadRelation`; chains of links in `Deleter`.
- Half-executed handlers in `RpcSession`; they are partial steps in `SyncFlow`.
- A Windows stub whose killing leaves the process it stands for alive.
- Path translation (`wslpath`), quoting and the assembly of argv in `core/interop.py`:
  string handling and an external program. Which clone they lead to is in `PeerLink`.
- `core/codec.py` and the field-by-field validation of messages: no state, and a
  message that does not validate ends the session like any malformed answer.
- `wdsync status`, output, logging, shell completion: no state of their own.
