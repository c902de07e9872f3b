---- MODULE RemoteCalls ----
(***************************************************************************)
(* What the rest of wdsync relies on when it calls the peer: calls execute  *)
(* one at a time, each at most once and in the order of the calls; a call   *)
(* that returns has executed; one that fails may have executed, or may yet  *)
(* execute, but not after the command that made it has ended.               *)
(***************************************************************************)
EXTENDS Naturals, Sequences

VARIABLES
  phase,     \* "opening", "open" or "over"
  executed,  \* the calls the peer has executed, in order
  returned   \* how many of them have returned to the caller

Init == phase = "opening" /\ executed = <<>> /\ returned = 0

Open ==
  /\ phase = "opening"
  /\ phase' = "open"
  /\ UNCHANGED <<executed, returned>>

Execute ==
  /\ phase = "open"
  /\ Len(executed) = returned
  /\ executed' = Append(executed, returned + 1)
  /\ UNCHANGED <<phase, returned>>

Return ==
  /\ phase = "open"
  /\ Len(executed) = returned + 1
  /\ returned' = returned + 1
  /\ UNCHANGED <<phase, executed>>

End ==
  /\ phase # "over"
  /\ phase' = "over"
  /\ UNCHANGED <<executed, returned>>

Next == Open \/ Execute \/ Return \/ End

Spec == Init /\ [][Next]_<<phase, executed, returned>>
====
