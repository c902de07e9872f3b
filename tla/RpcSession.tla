---- MODULE RpcSession ----
(***************************************************************************)
(* The RPC session of one command: RpcClient and PeerSession on one side,   *)
(* the `wdsync rpc` loop they spawn on the other, the two pipes between     *)
(* them, and the thread that pumps the peer's output into a queue.          *)
(*                                                                         *)
(* Requests carry no identity: an answer belongs to a request only by its   *)
(* position.  Calls are numbered in the order they are made, 0 being the    *)
(* handshake; the number an answer carries here is what the answer is of,   *)
(* which the client cannot see.                                             *)
(***************************************************************************)
EXTENDS Integers, Sequences

CONSTANTS MaxCalls  \* bound on the calls of a command after the handshake

ASSUME MaxCallsAssumption == MaxCalls \in Nat

VARIABLES
  client,      \* where the command is
  owner,       \* who opened the client: connect_to_peer or a PeerSession
  raised,      \* the exception the command ends with
  asked,       \* requests sent, the handshake included
  returned,    \* calls that returned an answer, the handshake included
  requests,    \* the peer's stdin pipe
  stdinOpen,   \* whether the client still holds the other end of it
  answers,     \* the peer's stdout pipe
  unflushed,   \* whether a request it failed to write is still buffered
  queue,       \* _stdout_queue
  pumping,     \* whether _pump_stdout still runs
  peer,        \* where the peer process is
  handling,    \* the request it handles
  compatible,  \* whether its version and capabilities are the ones required
  executed     \* the calls it has executed, in order

session == <<client, owner, raised, asked, returned>>
process == <<peer, handling, compatible, executed>>
stdio == <<requests, stdinOpen, unflushed, answers, queue, pumping>>
vars == <<session, process, stdio>>

Handshake == 0
Eof == [of |-> -1, ok |-> FALSE]
Answer(n, ok) == [of |-> n, ok |-> ok]

Init ==
  /\ client = "new" /\ owner \in {"connect", "session"} /\ raised = "nothing"
  /\ asked = 0 /\ returned = 0
  /\ requests = <<>> /\ stdinOpen = FALSE /\ unflushed = FALSE
  /\ answers = <<>> /\ queue = <<>> /\ pumping = FALSE
  /\ peer = "unborn" /\ handling = Handshake /\ executed = <<>>
  /\ compatible \in BOOLEAN

----
\* The client.

\* open: Popen, a fresh queue, the reader threads
Open ==
  /\ client = "new"
  /\ client' = "ready" /\ peer' = "reading" /\ stdinOpen' = TRUE
  /\ queue' = <<>> /\ pumping' = TRUE
  /\ UNCHANGED <<owner, raised, asked, returned, requests, answers,
                 handling, compatible, executed, unflushed>>

SpawnFails ==
  /\ client = "new"
  /\ client' = "ended" /\ raised' = "PeerConnectionError"
  /\ UNCHANGED <<owner, asked, returned, process, stdio>>

\* Where an exception takes the command: out of the `with`, which closes the
\* client, or out of PeerSession.__enter__, which does not.
Unwound == IF owner = "session" /\ returned = 0 THEN "ended" ELSE "closing"

\* _write_request.  A request with a list of paths can be larger than the pipe:
\* the write then returns when the peer has read it, and has no timeout.
Send ==
  /\ client = "ready" /\ asked <= MaxCalls
  /\ peer # "dead"
  /\ requests' = Append(requests, asked)
  /\ asked' = asked + 1
  /\ client' \in IF asked = Handshake THEN {"waiting"} ELSE {"waiting", "writing"}
  /\ UNCHANGED <<owner, raised, returned, process, stdinOpen, answers,
                 queue, pumping, unflushed>>

Written ==
  /\ client = "writing" /\ requests = <<>>
  /\ client' = "waiting"
  /\ UNCHANGED <<owner, raised, asked, returned, process, stdio>>

\* With the peer gone the write fails.  What is still in the buffer of stdin then,
\* close() of that stream tries to write again: the whole of a short request, some
\* or nothing of one that is larger than the buffer.
SendFails ==
  /\ \/ client = "ready" /\ asked <= MaxCalls
     \/ client = "writing" /\ requests # <<>>
  /\ peer = "dead"
  /\ raised' = "PeerConnectionError" /\ client' = Unwound
  /\ unflushed' \in IF asked = Handshake THEN {TRUE} ELSE BOOLEAN
  /\ UNCHANGED <<owner, asked, returned, process, requests, stdinOpen, answers,
                 queue, pumping>>

\* _validate_handshake: version and required capabilities
Validated == asked = 1 => compatible

\* Accepts, were the handshake's answer not validated (a mutant)
TakesAny(answer) == answer.ok

\* An answer that parses, is not an error, and has the form the call expects
Accepts(answer) == answer.ok /\ Validated

\* send returns: the call has its answer, or the handshake is accepted
Receive ==
  /\ client = "waiting" /\ queue # <<>>
  /\ Accepts(Head(queue))
  /\ queue' = Tail(queue)
  /\ returned' = returned + 1
  /\ client' = "ready"
  /\ UNCHANGED <<owner, raised, asked, process, requests, stdinOpen,
                 answers, pumping, unflushed>>

\* An error answer, a malformed one, or the end of the peer's output
ReceiveFails ==
  /\ client = "waiting" /\ queue # <<>>
  /\ ~Accepts(Head(queue))
  /\ queue' = Tail(queue)
  /\ raised' = "PeerConnectionError"
  /\ client' = Unwound
  /\ UNCHANGED <<owner, asked, returned, process, requests, stdinOpen,
                 answers, pumping, unflushed>>

\* Timeout, were the call abandoned and the session kept (a mutant)
TimeoutKeepsSession ==
  /\ client = "waiting" /\ queue = <<>>
  /\ client' = "ready" /\ returned' = returned + 1
  /\ UNCHANGED <<owner, raised, asked, process, stdio>>

\* Timeout, were queue.Empty not translated (a mutant)
TimeoutEscapes ==
  /\ client = "waiting" /\ queue = <<>>
  /\ raised' = "Empty" /\ client' = Unwound
  /\ UNCHANGED <<owner, asked, returned, process, stdio>>

\* Timeout, were the queue read without one (a mutant)
NoTimeout ==
  /\ client = "waiting" /\ queue = <<>> /\ ~pumping
  /\ raised' = "PeerConnectionError"
  /\ client' = Unwound
  /\ UNCHANGED <<owner, asked, returned, process, stdio>>

\* _read_line: nothing in the queue for ten seconds
Timeout ==
  /\ client = "waiting" /\ queue = <<>>
  /\ raised' = "PeerConnectionError"
  /\ client' = Unwound
  /\ UNCHANGED <<owner, asked, returned, process, stdio>>

\* The body of the `with` ends, normally or by an error of its own
Leave ==
  /\ client = "ready" /\ returned > 0
  /\ client' = "closing"
  /\ UNCHANGED <<owner, raised, asked, returned, process, stdio>>

\* close: stdin first, which writes what is left in its buffer.  If the peer is
\* gone the BrokenPipeError replaces the exception under way, and the wait is
\* skipped.
CloseStdin ==
  /\ client = "closing"
  /\ stdinOpen' = FALSE
  /\ unflushed => peer = "dead" \/ requests = <<>>
  /\ IF unflushed /\ peer = "dead"
     THEN client' = "draining" /\ raised' = "BrokenPipeError"
     ELSE client' = "reaping" /\ raised' = raised
  /\ UNCHANGED <<owner, asked, returned, process, requests, answers, queue,
                 pumping, unflushed>>

Reap ==
  /\ client = "reaping" /\ peer = "dead"
  /\ client' = "draining"
  /\ UNCHANGED <<owner, raised, asked, returned, process, stdio>>

\* Kill, were the peer left alone after the wait (a mutant)
NoKill ==
  /\ client = "reaping" /\ peer # "dead"
  /\ client' = "ended"
  /\ UNCHANGED <<owner, raised, asked, returned, process, stdio>>

\* The peer has not exited after five seconds
Kill ==
  /\ client = "reaping" /\ peer # "dead"
  /\ peer' = "dead"
  /\ client' = "draining"
  /\ UNCHANGED <<owner, raised, asked, returned, handling, compatible,
                 executed, stdio>>

\* What the peer still had to say is read to its end and dropped.
Drain ==
  /\ client = "draining" /\ peer = "dead"
  /\ answers' = <<>>
  /\ client' = "ended"
  /\ UNCHANGED <<owner, raised, asked, returned, process, requests,
                 stdinOpen, queue, pumping, unflushed>>

\* The process of the command exits, and with it its threads and pipes.
Exit ==
  /\ client = "ended"
  /\ client' = "exited" /\ stdinOpen' = FALSE /\ pumping' = FALSE
  /\ UNCHANGED <<owner, raised, asked, returned, process, requests, answers,
                 queue, unflushed>>

Client ==
  \/ Open \/ SpawnFails \/ Send \/ Written \/ SendFails \/ Receive \/ ReceiveFails
  \/ Timeout \/ Leave \/ CloseStdin \/ Reap \/ Kill \/ Drain \/ Exit

\* The user interrupts a call, or the wait of close(), which then does not kill
\* the peer.  A request whose write is interrupted is lost, or close() writes the
\* rest of it.
Interrupt ==
  /\ client \in {"writing", "waiting", "reaping"}
  /\ raised' = "KeyboardInterrupt"
  /\ client' = IF client = "reaping" THEN "draining" ELSE Unwound
  /\ IF client = "writing"
     THEN \/ requests' = <<>> /\ UNCHANGED unflushed
          \/ unflushed' = TRUE /\ UNCHANGED requests
     ELSE UNCHANGED <<requests, unflushed>>
  /\ UNCHANGED <<owner, asked, returned, process, stdinOpen, answers, queue, pumping>>

\* The command is killed, or interrupted once more: no `with` is left, nothing is
\* closed in order.  The peer takes half a request for an invalid one.
Killed ==
  /\ client \notin {"new", "exited", "killed"}
  /\ client' = "killed" /\ stdinOpen' = FALSE /\ pumping' = FALSE
  /\ requests' = IF client = "writing" THEN <<>> ELSE requests
  /\ UNCHANGED <<owner, raised, asked, returned, process, answers, queue,
                 unflushed>>

----
\* _pump_stdout: a line, or the end of the output once the peer is gone
Pump ==
  /\ pumping
  /\ IF answers # <<>>
     THEN /\ queue' = Append(queue, Head(answers))
          /\ answers' = Tail(answers)
          /\ pumping' = TRUE
     ELSE /\ peer = "dead"
          /\ queue' = Append(queue, Eof)
          /\ pumping' = FALSE
          /\ answers' = answers
  /\ UNCHANGED <<session, process, requests, stdinOpen, unflushed>>

----
\* The peer: the loop of `wdsync rpc` and the dispatch of handle_rpc_request.

PeerReads ==
  /\ peer = "reading" /\ requests # <<>>
  /\ handling' = Head(requests) /\ requests' = Tail(requests)
  /\ peer' = "handling"
  /\ UNCHANGED <<session, compatible, executed, stdinOpen, answers, queue,
                 pumping, unflushed>>

\* PeerExits, were the end of stdin taken for an empty line (a mutant)
PeerReadsOn ==
  /\ peer = "reading" /\ requests = <<>> /\ ~stdinOpen
  /\ UNCHANGED vars

\* The end of stdin ends the loop.
PeerExits ==
  /\ peer = "reading" /\ requests = <<>> /\ ~stdinOpen
  /\ peer' = "dead"
  /\ UNCHANGED <<session, handling, compatible, executed, stdio>>

\* A handler does its work; the handshake has none.
PeerExecutes ==
  /\ peer = "handling"
  /\ executed' = IF handling = Handshake THEN executed ELSE Append(executed, handling)
  /\ peer' = "answering"
  /\ UNCHANGED <<session, handling, compatible, stdio>>

\* It answers, with an error if a WdSyncError was raised in the course.
PeerAnswers ==
  /\ peer = "answering"
  /\ \E ok \in BOOLEAN : answers' = Append(answers, Answer(handling, ok))
  /\ peer' = "reading"
  /\ UNCHANGED <<session, handling, compatible, executed, requests,
                 stdinOpen, queue, pumping, unflushed>>

\* A request is refused before any work: another version, a bad argument
PeerRefuses ==
  /\ peer = "handling"
  /\ answers' = Append(answers, Answer(handling, FALSE))
  /\ peer' = "reading"
  /\ UNCHANGED <<session, handling, compatible, executed, requests,
                 stdinOpen, queue, pumping, unflushed>>

\* Any other exception ends the peer; so does the system.
PeerDies ==
  /\ peer \notin {"unborn", "dead"}
  /\ peer' = "dead"
  /\ UNCHANGED <<session, handling, compatible, executed, stdio>>

Peer ==
  PeerReads \/ PeerExits \/ PeerExecutes \/ PeerAnswers \/ PeerRefuses \/ PeerDies

Next == Client \/ Interrupt \/ Killed \/ Pump \/ Peer

Spec == Init /\ [][Next]_vars

\* The client's code runs and its clock does; and a peer that has answered goes
\* back to reading its stdin, for the one wait of the client that has no timeout,
\* and sees its end.  Nothing else is assumed of the peer: a handler may hang or
\* never start.
FairSpec == Spec /\ WF_vars(Client) /\ WF_vars(PeerReads) /\ WF_vars(PeerExits)

----
TypeOK ==
  /\ client \in {"new", "ready", "writing", "waiting", "closing", "reaping",
                 "draining", "ended", "exited", "killed"}
  /\ owner \in {"connect", "session"}
  /\ raised \in {"nothing", "PeerConnectionError", "KeyboardInterrupt", "BrokenPipeError"}
  /\ asked \in Nat /\ returned \in Nat
  /\ requests \in Seq(Nat)
  /\ answers \in Seq([of: Nat, ok: BOOLEAN])
  /\ queue \in Seq([of: Nat, ok: BOOLEAN] \cup {Eof})
  /\ peer \in {"unborn", "reading", "handling", "answering", "dead"}
  /\ handling \in Nat /\ executed \in Seq(Nat)
  /\ {stdinOpen, pumping, unflushed, compatible} \subseteq BOOLEAN

\* Where the request under way is: one place at most, if there is one.
Own == [of: {asked - 1}, ok: BOOLEAN]
Places ==
  {place \in {"stdin", "peer", "stdout", "queue"} :
     \/ place = "stdin" /\ requests # <<>>
     \/ place = "peer" /\ peer \in {"handling", "answering"}
     \/ place = "stdout" /\ answers # <<>>
     \/ place = "queue" /\ queue \notin {<<>>, <<Eof>>}}

\* However calls fail, time out or are interrupted, at most one request is under
\* way, in one of the pipes, the peer or the queue, and it is the last one sent;
\* when the client may send another there is none, and nothing but the end of the
\* output comes after an answer.
OneUnderWay ==
  /\ asked \in {returned, returned + 1}
  /\ client \in {"new", "ready"} => asked = returned
  /\ client \in {"writing", "waiting"} => asked = returned + 1
  /\ asked = returned => Places = {}
  /\ \A a, b \in Places : a = b
  /\ requests \in {<<>>, <<asked - 1>>}
  /\ peer \in {"handling", "answering"} => handling = asked - 1
  /\ answers \in {<<>>} \cup {<<a>> : a \in Own}
  /\ queue \in {<<>>, <<Eof>>} \cup {<<a>> : a \in Own} \cup {<<a, Eof>> : a \in Own}
  /\ pumping => \A i \in DOMAIN queue : queue[i] # Eof

\* The session implements RemoteCalls: in particular no call executes twice or
\* out of order, none returns without having executed, and none executes after
\* the command has exited (a command that is killed has no such end).
Calls == INSTANCE RemoteCalls WITH
  phase <- IF client = "exited" THEN "over" ELSE IF returned = 0 THEN "opening" ELSE "open",
  returned <- IF returned = 0 THEN 0 ELSE returned - 1

ImplementsRemoteCalls == Calls!Spec

\* A peer of another version, or that lacks a capability, executes no call.
IncompatibleNeverExecutes == ~compatible => executed = <<>>

\* Once a session was established, its peer does not outlive the command.
NoPeerLeft == client = "exited" /\ returned > 0 => peer = "dead"

\* A command ends whatever its peer does or fails to do: but for the one whose
\* close() was interrupted in its wait, and then reads the output of a peer that
\* hangs in a handler.
CommandEnds ==
  \/ <>(client \in {"exited", "killed"})
  \/ <>[](client = "draining" /\ peer \in {"handling", "answering"})

\* However the command ends, killed or in a handshake that nothing cleans up
\* after, the peer it has left ends too, unless a handler hangs for ever.
OrphanEnds ==
  client \in {"exited", "killed"} ~>
    (peer \in {"unborn", "dead"} \/ [](peer \in {"handling", "answering"}))

\* tests/rpc/test_client.py: a peer that exits makes a PeerConnectionError.
\* Refuted: the error can be replaced by a BrokenPipeError, which the commands
\* do not catch.
PeerFailureIsReported == client = "exited" => raised # "BrokenPipeError"
====
