---- MODULE SyncHistory ----
(***************************************************************************)
(* SyncFlow with a history variable, the paths that a command has ever seen *)
(* dirty in its source, and what can be said in terms of it even if steps   *)
(* fail, commands of both sides race and users work meanwhile.  The         *)
(* variable records, and never constrains, what SyncFlow does.              *)
(***************************************************************************)
EXTENDS SyncFlow

VARIABLE listed   \* paths some command has found in its source's status

hvars == <<vars, listed>>

HInit == Init /\ listed = {}

RecordStep(r) == listed' = listed \cup Listed(cmd'[r].src)

HNext ==
  \E s \in Sides :
    \/ Step(s) /\ RecordStep(s)
    \/ (Start(s) \/ Late(s) \/ User(s)) /\ listed' = listed

HSpec == HInit /\ [][HNext]_hvars

----
\* A step of a command on r that may write its destination.
Writes(r) == cmd[r].pc \in {"restore", "delete", "copy"} /\ cmd'[r] # cmd[r]

\* Whatever fails or runs concurrently, a command writes its destination only
\* at a path that it or an earlier command found dirty in its source, or that
\* was deleted in the destination itself; and so does a request that a killed
\* command leaves behind, whenever the peer gets to it.
OnlyListedPathsWritten ==
  [][\A r \in Sides, p \in Paths :
       /\ Writes(r) /\ wt'[Dest(r)][p] # wt[Dest(r)][p]
            => p \in listed \cup WtDeletedIn(cmd[r].dst)
       /\ late[r] = NoRequest /\ p \in late'[r].paths
            => p \in listed \cup WtDeletedIn(cmd[r].dst)
       /\ late'[r] # late[r] /\ wt'[Other(r)][p] # wt[Other(r)][p]
            => p \in late[r].paths]_hvars

\* What the commands remember, in the manifests, in their process state and in
\* the requests they leave behind, has been found dirty in a source at some
\* time: a crash, a torn or late write or a race may lose a path but never makes
\* one up.  It is the inductive invariant behind OnlyListedPathsWritten.
OnlyListedPathsRecorded ==
  /\ \A s \in Sides : manifest[s] \subseteq listed
  /\ \A r \in Sides :
       /\ Listed(cmd[r].src) \subseteq listed
       /\ cmd[r].known \subseteq listed
       /\ cmd[r].next \subseteq listed
       /\ late[r].call = "manifest" => late[r].paths \subseteq listed
====
