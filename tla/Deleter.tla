---- MODULE Deleter ----
(***************************************************************************)
(* delete_files: the files of a plan are removed from the destination one   *)
(* after the other.  A path may lead through symbolic links, its file may   *)
(* need sudo, which the user may decline and which may fail, and the        *)
(* directories left empty are removed too.                                  *)
(***************************************************************************)
EXTENDS Naturals, SequencesExt

CONSTANTS
  Places,   \* absolute paths, as sequences of names; all prefixes included
  Root      \* the root of the destination

ASSUME PlacesAssumption ==
  /\ Places \subseteq Seq(STRING) /\ Root \in Places
  /\ \A q \in Places : ".." \notin Range(q) /\ (q # <<>> => Front(q) \in Places)

\* A file system: at each place nothing, a file, a directory, or a link to a
\* place that is no link itself.
Node == [kind: {"none", "file", "dir"}, to: {<<>>}] \cup [kind: {"link"}, to: Places]
IsFileSystem(fs) ==
  /\ fs \in [Places -> Node]
  /\ \A q \in Places : q # <<>> /\ fs[q].kind # "none" => fs[Front(q)].kind = "dir"
  /\ \A q \in Places : fs[q].kind = "link" => fs[fs[q].to].kind # "link"

NoNode == [kind |-> "none", to |-> <<>>]
At(fs, place) == IF place \in Places THEN fs[place] ELSE NoNode
EntriesOf(fs, d) == {q \in Places : q # <<>> /\ Front(q) = d /\ fs[q].kind # "none"}
Inside(place) == IsPrefix(Root, place)

\* One name further: a link is followed.
Enter(fs, q, name) ==
  IF name = ".." THEN (IF q = <<>> THEN q ELSE Front(q))
  ELSE LET next == Append(q, name)
       IN IF At(fs, next).kind = "link" THEN fs[next].to ELSE next

\* Path.resolve: links on the way are followed, the last one too; what follows a
\* place where there is nothing is kept as it is.
Resolve(fs, place) ==
  LET to[i \in 0..Len(place)] == IF i = 0 THEN <<>> ELSE Enter(fs, to[i - 1], place[i])
  IN to[Len(place)]

\* The place that unlink and rmdir act on: a link at the end of the path is not followed.
Leaf(fs, place) == Append(Resolve(fs, Front(place)), Last(place))

----
\* Mutant: the path is compared as it is written.
SafeAsWritten(fs, path) == \A i \in DOMAIN path : path[i] # ".."
\* _resolve_safe
Safe(fs, path) == Inside(Resolve(fs, Root \o path))

\* Mutant: a link whose target is missing is taken for missing.
TargetExists(fs, place) == At(fs, Resolve(fs, place)).kind # "none"
\* exists() or is_symlink()
Exists(fs, place) ==
  At(fs, Leaf(fs, place)).kind = "link" \/ At(fs, Resolve(fs, place)).kind # "none"

Without(fs, place) == [fs EXCEPT ![place] = NoNode]

\* What the user, sudo and the operating system will say: the places that may
\* not be removed without sudo, whether the root is on a Windows drive, whether
\* the user agrees to sudo, and whether it works.
Worlds == [protected: SUBSET Places, windows: BOOLEAN, confirmed: BOOLEAN, sudo: BOOLEAN]
Asks(world, place) == place \in world.protected /\ ~world.windows /\ world.confirmed

\* _unlink_with_sudo_fallback: SudoDeleteError, or the file is removed; unlink
\* and rm take files and links only.
Raises(world, fs, place) ==
  Asks(world, place) /\ (~world.sudo \/ At(fs, place).kind = "dir")
Unlinks(world, fs, place) ==
  At(fs, place).kind \in {"file", "link"} /\ (place \in world.protected => Asks(world, place))

\* Mutant: the next directory only.
PruneParent(world, fs, place) ==
  LET d == Leaf(fs, Front(place))
  IN IF d # Root /\ At(fs, d).kind = "dir" /\ EntriesOf(fs, d) = {} THEN Without(fs, d) ELSE fs

\* rmdir works on a directory, not on a link to one.
Prunes(world, fs, d) ==
  At(fs, d).kind = "dir" /\ EntriesOf(fs, d) = {} /\ d \notin world.protected

\* _maybe_prune_parents goes up the path as it is written, as far as Root.
Prune(world, fs, place) ==
  LET top == Len(place) - Len(Root) - 1
      climb[h \in 0..top] ==
        IF h = 0 THEN [fs |-> fs, stop |-> FALSE]
        ELSE LET below == climb[h - 1]
                 d == Leaf(below.fs, SubSeq(place, 1, Len(place) - h))
             IN IF below.stop \/ ~Prunes(world, below.fs, d) THEN [below EXCEPT !.stop = TRUE]
                ELSE [below EXCEPT !.fs = Without(@, d)]
  IN climb[top].fs

\* The state of delete_files: the outcomes so far, and whether it has raised.
Deleting(fs, outcomes, raised) == [fs |-> fs, outcomes |-> outcomes, raised |-> raised]

\* _delete_one
DeleteOne(state, path, dirty, world) ==
  LET fs == state.fs
      place == Root \o path
      leaf == Leaf(fs, place)
      Outcome(after, o) == Deleting(after, Append(state.outcomes, o), FALSE)
  IN IF ~Safe(fs, path) THEN Outcome(fs, "path-traversal")
     ELSE IF path \in dirty THEN Outcome(fs, "dest-modified")
     ELSE IF ~Exists(fs, place) THEN Outcome(fs, "absent")
     ELSE IF Raises(world, fs, leaf) THEN Deleting(fs, state.outcomes, TRUE)
     ELSE IF Unlinks(world, fs, leaf) THEN Outcome(Prune(world, Without(fs, leaf), place), "deleted")
     ELSE Outcome(fs, "not-permitted")

DeleteFiles(fs, paths, dirty, world) ==
  LET after[i \in 0..Len(paths)] ==
        IF i = 0 THEN Deleting(fs, <<>>, FALSE)
        ELSE IF after[i - 1].raised THEN after[i - 1]
        ELSE DeleteOne(after[i - 1], paths[i], dirty, world)
  IN after[Len(paths)]

----
\* What a deletion takes for granted: the root is a directory and its file that
\* is never listed (such as those of .git) stays, links outside the root lead
\* nowhere inside it, and a listed path goes up, if at all, only at its start.
Leads(path) == \A i \in 1..Len(path) : path[i] = ".." => \A j \in 1..i : path[j] = ".."
IsDeletion(fs, paths) ==
  /\ IsFileSystem(fs) /\ fs[Root].kind = "dir"
  /\ \A q \in Places : fs[q].kind = "link" /\ ~Inside(q) => ~Inside(fs[q].to)
  /\ paths \in Seq(Seq(STRING) \ {<<>>}) /\ \A i \in DOMAIN paths : Leads(paths[i])
  /\ \E f \in Places : /\ IsStrictPrefix(Root, f) /\ fs[f].kind = "file"
                       /\ \A i \in DOMAIN paths : Leaf(fs, Root \o paths[i]) # f

\* Only what is listed and clean is deleted and, whatever the links, inside the
\* root: each file that is gone is that of a path reported deleted, and a
\* directory that is gone has lost a file.
OnlyListedDeleted(fs, paths, dirty, world) ==
  LET end == DeleteFiles(fs, paths, dirty, world)
      gone == {q \in Places : end.fs[q] # fs[q]}
  IN \A q \in gone :
       /\ Inside(q) /\ q # Root
       /\ IF fs[q].kind = "dir"
          THEN \E p \in gone : IsStrictPrefix(q, p) /\ fs[p].kind # "dir"
          ELSE \E i \in DOMAIN end.outcomes :
                 /\ end.outcomes[i] = "deleted" /\ paths[i] \notin dirty
                 /\ q = Leaf(fs, Root \o paths[i])

\* The report is true: unless sudo failed there is one outcome for each path, a
\* path reported deleted or absent leads to no file or link, and no directory
\* that the deletions have emptied is left, but where a link leads, and below it
\* if a link was deleted, which may have been on the way to itself.
ReportIsTrue(fs, paths, dirty, world) ==
  LET end == DeleteFiles(fs, paths, dirty, world)
      links == {q \in Places : fs[q].kind = "link"}
      OffTheWay(d) ==
        \E q \in links : \/ fs[q].to = d
                        \/ /\ IsPrefix(fs[q].to, d)
                           /\ \E p \in links : end.fs[p] # fs[p]
  IN /\ end.raised \/ Len(end.outcomes) = Len(paths)
     /\ \A i \in DOMAIN end.outcomes :
          end.outcomes[i] \in {"deleted", "absent"} =>
            At(end.fs, Leaf(end.fs, Root \o paths[i])).kind = "none"
     /\ \A d \in Places :
          IsStrictPrefix(Root, d) /\ EntriesOf(fs, d) # {} =>
            \/ EntriesOf(end.fs, d) # {} \/ end.fs[d].kind = "none"
            \/ d \in world.protected \/ OffTheWay(d)
====
