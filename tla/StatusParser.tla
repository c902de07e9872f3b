---- MODULE StatusParser ----
(***************************************************************************)
(* parse_porcelain_v1_z: the records read back from the NUL-separated       *)
(* tokens of `git status --porcelain=v1 -z`.  An entry is one token, its    *)
(* two columns and its path; a rename or a copy is followed by a token that *)
(* is the old path alone.  File names are free: an old path may read like   *)
(* an entry, which only its place in the stream tells.                      *)
(***************************************************************************)
EXTENDS Naturals, SequencesExt

CONSTANTS
  Names,   \* file names that cannot be read as an entry
  Codes,   \* two-column codes
  NoPath   \* the old path of an entry that has none

ASSUME CodesAssumption == <<>> \notin Codes

\* A token is empty, a name, or a text "XY name", which is a legal name too.
Token == [xy: Codes \cup {<<>>}, name: Names] \cup {[xy |-> <<>>, name |-> NoPath]}
EmptyToken == [xy |-> <<>>, name |-> NoPath]
IsEntry(token) == token.xy # <<>>

\* An old path is any name, an entry-like one included: as a token it is itself.
Record == [xy: Codes, name: Names, orig: Token]
NoOrig == EmptyToken

\* What git writes: it gives the old path of a rename or copy in either column.
\* (It finds them in the second column only after `git add --intent-to-add`.)
GivesOldPath(xy) == \E i \in 1..2 : xy[i] \in {"R", "C"}

IsListing(records) ==
  \A i \in DOMAIN records : (records[i].orig # NoOrig) = GivesOldPath(records[i].xy)

Written(record) ==
  LET entry == [xy |-> record.xy, name |-> record.name]
  IN IF record.orig = NoOrig THEN <<entry>> ELSE <<entry, record.orig>>

Encode(records) == FlattenSeq([i \in DOMAIN records |-> Written(records[i])])

----
Malformed == [ok |-> FALSE, records |-> <<>>]
Parsed(records) == [ok |-> TRUE, records |-> records]

\* Mutant: a copy is forgotten.
RenamedOnly(xy) == xy[1] = "R"
\* The entries whose old path the parser takes from the next token.
Renamed(xy) == xy[1] \in {"R", "C"}

\* Mutant: only the end of the stream is looked for.
LastToken(tokens, i) == i = Len(tokens)
\* No old path follows token i.
Unpaired(tokens, i) == i = Len(tokens) \/ tokens[i + 1] = EmptyToken

\* parse_porcelain_v1_z, from token i on; an empty token is passed over
Parse(tokens) ==
  LET from[i \in 1..(Len(tokens) + 1)] ==
        IF i > Len(tokens) THEN Parsed(<<>>)
        ELSE IF tokens[i] = EmptyToken THEN from[i + 1]
        ELSE IF ~IsEntry(tokens[i]) THEN Malformed
        ELSE LET two == Renamed(tokens[i].xy)
                 rest == from[IF two THEN i + 2 ELSE i + 1]
                 record == [xy |-> tokens[i].xy, name |-> tokens[i].name,
                            orig |-> IF two THEN tokens[i + 1] ELSE NoOrig]
             IN IF two /\ Unpaired(tokens, i) THEN Malformed
                ELSE IF rest.ok THEN Parsed(<<record>> \o rest.records) ELSE Malformed
  IN from[1]

----
NonEmpty(tokens) ==
  FlattenSeq([i \in DOMAIN tokens |-> IF tokens[i] = EmptyToken THEN <<>> ELSE <<tokens[i]>>])

\* A stream that parses is accounted for token by token, in order, and gives a
\* listing; a listing that git writes, with its final NUL, is read back
\* exactly, whatever its old paths look like.
ParseIsExact(tokens) ==
  LET result == Parse(tokens) IN
  result.ok => IsListing(result.records) /\ Encode(result.records) = NonEmpty(tokens)

ParseReadsBack(records) ==
  IsListing(records) => Parse(Encode(records) \o <<EmptyToken>>) = Parsed(records)
====
