---- MODULE Algorithms ----
(***************************************************************************)
(* The algorithms of wdsync as functions of their inputs.  The only         *)
(* variable is one input of one of them; each property speaks of the inputs *)
(* of its kind.                                                             *)
(***************************************************************************)
EXTENDS HeadRelation, StatusParser, Discovery, Deleter

CONSTANTS
  MaxTokens,   \* the longest stream of tokens
  MaxRecords,  \* the longest listing
  Peer,        \* the identity that is searched for
  Deletions    \* file systems, plans and circumstances of deletions

ASSUME InputsAssumption ==
  /\ {MaxTokens, MaxRecords} \subseteq Nat /\ Peer \in Identities
  /\ \A d \in Deletions :
       d.of = "deletion" /\ IsDeletion(d.fs, d.paths) /\ d.world \in Worlds

VARIABLE input

Seqs(S, n) == UNION {[1..k -> S] : k \in 0..n}

\* Histories, and what two clones know of each
Heads == UNION {[of: {"heads"}, parents: {h}, clones: Clones(h)] : h \in Histories}

\* Token streams, and listings of entries with and without an old path
Streams == [of: {"stream"}, tokens: Seqs(Token, MaxTokens)]
Listings == [of: {"listing"}, records: Seqs(Record, MaxRecords)]

\* Directory trees to be searched for the peer, with repositories that match it
\* by URL, by root commits or not at all
Directory == [kind |-> "dir", id |-> None]
Repo(id) == [kind |-> "repo", id |-> id]
Trees == [of: {"tree"}, parent: Forests,
          entry: [Entries -> {Directory, [kind |-> "denied", id |-> None]} \cup {Repo(i) : i \in Identities}]]

\* Places to locate the peer at, with one repository to search besides, in all
\* directories; one without commits has no identity.
Candidates == {Repo(i) : i \in Identities \cup {None}}
Place == [entry: Candidates, native: BOOLEAN] \cup {None}
Searches == [of: {"search"}, peer: Identities, cached: Place, cwd: Place, found: Candidates]

Init == input \in Heads \cup Streams \cup Listings \cup Trees \cup Searches \cup Deletions
Next == UNCHANGED input
Spec == Init /\ [][Next]_input

----
\* One relation of the two HEADs is reported, whichever side asks and in
\* whichever direction, although the sides know different commits (doctor.py).
HeadsAgree == input.of = "heads" => SidesAgree(input.parents, input.clones)

\* The relation that is reported is true of the whole history, though each side
\* knows only part of it; "different" may also mean that neither could tell.
HeadClaims == input.of = "heads" => ClaimIsTrue(input.parents, input.clones)

\* The status parser accepts a stream only if its records account for every
\* token of it, in order: no old path of a rename is taken for an entry.
ParserExact == input.of = "stream" => ParseIsExact(input.tokens)

\* Of a listing as git prints it, the parser makes the entries git had, even
\* if an old path looks like an entry, as long as old paths come with codes of
\* the first column only, which is all it looks at (see EveryEntryParsed).
ParserReadsBack == input.of = "listing" => ParseReadsBack(input.records)

\* README.md:149, "fallback [changed]": every entry that git lists gets a label,
\* the fallback if its code has none of its own.  Not so for a rename in the
\* second column (status_parser.py:59), whose old path is taken for an entry.
EveryEntryParsed ==
  input.of = "listing" /\ IsListing(input.records) =>
    Len(Parse(Encode(input.records) \o <<EmptyToken>>).records) = Len(input.records)

\* The bounded search of a directory tree finds the first match in its order
\* among as many candidates as its limit allows, and examines no others, though
\* the count is handed up and down a recursion (discovery.py).
SearchFindsFirst == input.of = "tree" => ScanFindsFirst(input.parent, input.entry, Peer)

\* A clone that the peer locates, by its cached root, in the working directory
\* or by the search, passes the check that connect makes of it from the other
\* side: the two cannot disagree on whether they are clones of one project.
LocateAccepted ==
  input.of = "search" =>
    LocatedIsAccepted([e \in Entries |-> IF e = 1 THEN 0 ELSE 1],
                      [e \in Entries |-> IF e = 1 THEN Directory ELSE input.found],
                      input.peer, input.cached, input.cwd)

\* A deletion removes nothing but listed files in the worktree and directories
\* they leave empty, whatever links there are and however sudo ends.
DeletesListedOnly ==
  input.of = "deletion" => OnlyListedDeleted(input.fs, input.paths, input.dirty, input.world)

\* Unless sudo fails there is one outcome for each path, what is reported as
\* deleted or absent is gone, and no directory that was emptied is left, but where
\* links lead.
DeleterReports ==
  input.of = "deletion" => ReportIsTrue(input.fs, input.paths, input.dirty, input.world)
====
