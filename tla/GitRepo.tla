---- MODULE GitRepo ----
(***************************************************************************)
(* One git repository as wdsync sees it: a committed tree, an index and a   *)
(* worktree, each a function from paths to file contents, and the listing   *)
(* that `git status --porcelain=v1 -z --untracked-files=all` makes of them. *)
(* wdsync never looks inside git: it reads that listing, hashes worktree    *)
(* files, and runs `git restore`.  git is therefore modelled only as far as *)
(* src/wdsync uses it; the interpretation of the listing (which codes are   *)
(* deletions, which paths are dirty) is translated from the parser.         *)
(*                                                                         *)
(* A file's content is a value of Contents; directories, modes, symbolic    *)
(* links and ignored files are left out.                                    *)
(***************************************************************************)
EXTENDS FiniteSets

CONSTANTS
  Paths,      \* repository-relative file names
  Contents,   \* what a file may contain
  Absent      \* the value of a path where there is no file

ASSUME PathsAssumption == IsFiniteSet(Paths)
ASSUME AbsentAssumption == Absent \notin Contents

File == Contents \cup {Absent}
Tree == [Paths -> File]
EmptyTree == [p \in Paths |-> Absent]

\* tree with the files of S taken from another tree
Overlay(tree, S, from) == [p \in Paths |-> IF p \in S THEN from[p] ELSE tree[p]]

----
\* The two status columns of a tracked path; <<" ", " ">> stands for no tracked
\* entry.  "??" is a separate entry of the listing, and a path can have both:
\* `git rm --cached` leaves "D " followed by "??".
Columns == {" ", "M", "A", "D", "R"}
Quiet == <<" ", " ">>
Entry == [xy: Columns \X Columns, new: BOOLEAN]
Status == [Paths -> Entry]
NoEntry == [xy |-> Quiet, new |-> FALSE]
EmptyStatus == [p \in Paths |-> NoEntry]

\* Staged renames git pairs up: a path removed from the index with a path added
\* to it under the same content, every path in one pair at most.  git reports
\* the new path as "R" and gives the old one no entry of its own.
RenamePairs(head, index) ==
  {pair \in Paths \X Paths :
      /\ head[pair[1]] # Absent /\ index[pair[1]] = Absent
      /\ head[pair[2]] = Absent /\ index[pair[2]] = head[pair[1]]}

Renames(head, index) ==
  LET pairs == RenamePairs(head, index)
      Matching(m) == \A a, b \in m : (a[1] = b[1] \/ a[2] = b[2]) => a = b
      matchings == {m \in SUBSET pairs : Matching(m)}
  IN  CHOOSE m \in matchings : \A n \in matchings : m \subseteq n => n = m

IndexColumn(head, index, renames, p) ==
  IF \E r \in renames : r[2] = p THEN "R"
  ELSE IF head[p] = index[p] \/ \E r \in renames : r[1] = p THEN " "
  ELSE IF head[p] = Absent THEN "A"
  ELSE IF index[p] = Absent THEN "D" ELSE "M"

WorktreeColumn(index, wt, p) ==
  IF index[p] = Absent \/ wt[p] = index[p] THEN " "
  ELSE IF wt[p] = Absent THEN "D" ELSE "M"

\* read_repo_source_state and read_repo_destination_state: one `git status`
GitStatus(head, index, wt) ==
  LET renames == Renames(head, index) IN
  [p \in Paths |->
     [xy  |-> <<IndexColumn(head, index, renames, p), WorktreeColumn(index, wt, p)>>,
      new |-> index[p] = Absent /\ wt[p] # Absent]]

----
\* classify_status: the codes that mean "deleted".  "MD", "AD" and "RD" are not
\* among them and fall through to "changed".
DeletedCodes == {<<" ", "D">>, <<"D", " ">>, <<"D", "D">>}

\* The paths with any entry, and those with a deletion or another entry.
Listed(status) == {p \in Paths : status[p].xy # Quiet \/ status[p].new}
DeletedIn(status) == {p \in Paths : status[p].xy \in DeletedCodes}
LiveIn(status) ==
  {p \in Paths : status[p].new \/ status[p].xy \notin DeletedCodes \cup {Quiet}}

\* destination_state_from_entries: an untracked entry is not dirty
DirtyIn(status) == {p \in Paths : status[p].xy # Quiet}
WtDeletedIn(status) == {p \in Paths : status[p].xy = <<" ", "D">>}
UntrackedIn(status) == {p \in Paths : status[p].new}

\* `git restore -- p`: the worktree file from the index; it fails, and changes
\* nothing, for a path the index does not have.
Restorable(index, S) == {p \in S : index[p] # Absent}
====
