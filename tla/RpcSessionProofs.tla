---- MODULE RpcSessionProofs ----
(***************************************************************************)
(* Theorems about RpcSession, for any number of calls, whatever the peer,   *)
(* the pump thread and the user do.                                         *)
(***************************************************************************)
EXTENDS RpcSession, SequenceTheorems, TLAPS

\* Short sequences: what Append, Head and Tail make of them.
LEMMA ShortSequences ==
  ASSUME NEW a, NEW b
  PROVE  /\ Append(<<>>, a) = <<a>> /\ Append(<<a>>, b) = <<a, b>>
         /\ Head(<<a>>) = a /\ Tail(<<a>>) = <<>>
         /\ Head(<<a, b>>) = a /\ Tail(<<a, b>>) = <<b>>
<1>1. Append(<<>>, a) = <<a>>
  OBVIOUS
<1>2. Append(<<a>>, b) = <<a, b>>
  <2> DEFINE S == {a, b}
  <2>1. <<a>> \in Seq(S) /\ <<a, b>> \in Seq(S) /\ a \in S /\ b \in S
    OBVIOUS
  <2>2. Len(<<a>>) = 1 /\ Len(<<a, b>>) = 2
    OBVIOUS
  <2> HIDE DEF S
  <2>3. Append(<<a>>, b) \in Seq(S)
    BY <2>1, AppendProperties
  <2>4. /\ Len(Append(<<a>>, b)) = 2
        /\ Append(<<a>>, b)[1] = a /\ Append(<<a>>, b)[2] = b
    BY <2>1, <2>2, AppendProperties
  <2>5. \A i \in 1..2 : Append(<<a>>, b)[i] = <<a, b>>[i]
    BY <2>4
  <2> QED BY <2>1, <2>2, <2>3, <2>4, <2>5, SeqEqual
<1>3. Head(<<a>>) = a /\ Head(<<a, b>>) = a
  OBVIOUS
<1>4. Tail(<<a>>) = <<>>
  OBVIOUS
<1>5. Tail(<<a, b>>) = <<b>>
  OBVIOUS
<1> QED BY <1>1, <1>2, <1>3, <1>4, <1>5

----
\* TypeOK holds of every reachable state.
THEOREM SessionTypeCorrect == Spec => []TypeOK
<1>1. Init => TypeOK
  <2> SUFFICES ASSUME Init PROVE TypeOK
    OBVIOUS
  <2>1. requests \in Seq(Nat) /\ executed \in Seq(Nat)
    BY EmptySeq DEF Init
  <2>2. answers \in Seq([of: Nat, ok: BOOLEAN])
    BY EmptySeq DEF Init
  <2>3. queue \in Seq([of: Nat, ok: BOOLEAN] \cup {Eof})
    BY EmptySeq DEF Init
  <2> QED BY <2>1, <2>2, <2>3 DEF Init, TypeOK, Handshake
<1>2. TypeOK /\ [Next]_vars => TypeOK'
  <2> SUFFICES ASSUME TypeOK, [Next]_vars PROVE TypeOK'
    OBVIOUS
  <2> USE DEF session, process, stdio, Handshake
  <2>0. Unwound \in {"ended", "closing"}
    BY DEF Unwound
  <2>1. CASE Open
    BY <2>1 DEF Open, TypeOK
  <2>2. CASE SpawnFails
    BY <2>2 DEF SpawnFails, TypeOK
  <2>3. CASE Send
    BY <2>3 DEF Send, TypeOK
  <2>4. CASE Written
    BY <2>4 DEF Written, TypeOK
  <2>5. CASE SendFails
    BY <2>0, <2>5 DEF SendFails, TypeOK
  <2>6. CASE Receive
    BY <2>6 DEF Receive, TypeOK
  <2>7. CASE ReceiveFails
    BY <2>0, <2>7 DEF ReceiveFails, TypeOK
  <2>8. CASE Timeout
    BY <2>0, <2>8 DEF Timeout, TypeOK
  <2>9. CASE Leave
    BY <2>9 DEF Leave, TypeOK
  <2>10. CASE CloseStdin
    BY <2>10 DEF CloseStdin, TypeOK
  <2>11. CASE Reap \/ Kill
    BY <2>11 DEF Reap, Kill, TypeOK
  <2>12. CASE Drain
    BY <2>12 DEF Drain, TypeOK
  <2>13. CASE Exit
    BY <2>13 DEF Exit, TypeOK
  <2>14. CASE Killed \/ Interrupt
    <3>1. requests' \in Seq(Nat)
      BY <2>14, EmptySeq DEF Killed, Interrupt, TypeOK
    <3> QED BY <2>0, <2>14, <3>1 DEF Killed, Interrupt, TypeOK
  <2>15. CASE Pump
    <3> DEFINE Lines == [of: Nat, ok: BOOLEAN]
               Queued == Lines \cup {Eof}
    <3>1. answers \in Seq(Lines) /\ queue \in Seq(Queued) /\ Eof \in Queued
      BY DEF TypeOK
    <3>2. Lines \subseteq Queued
      OBVIOUS
    <3> HIDE DEF Lines, Queued
    <3>3. CASE answers # <<>>
      <4>1. Head(answers) \in Queued /\ Tail(answers) \in Seq(Lines)
        BY <3>1, <3>2, <3>3, HeadTailProperties
      <4>2. Append(queue, Head(answers)) \in Seq(Queued)
        BY <3>1, <4>1, AppendProperties
      <4> QED BY <2>15, <3>3, <4>1, <4>2 DEF Pump, TypeOK, Lines, Queued
    <3>4. CASE answers = <<>>
      <4>1. Append(queue, Eof) \in Seq(Queued)
        BY <3>1, AppendProperties
      <4> QED BY <2>15, <3>1, <3>4, <4>1 DEF Pump, TypeOK, Lines, Queued
    <3> QED BY <3>3, <3>4
  <2>16. CASE PeerReads
    BY <2>16 DEF PeerReads, TypeOK
  <2>17. CASE PeerExits \/ PeerDies
    BY <2>17 DEF PeerExits, PeerDies, TypeOK
  <2>18. CASE PeerExecutes
    BY <2>18 DEF PeerExecutes, TypeOK
  <2>19. CASE PeerAnswers
    BY <2>19 DEF PeerAnswers, TypeOK, Answer
  <2>20. CASE PeerRefuses
    BY <2>20 DEF PeerRefuses, TypeOK, Answer
  <2>21. CASE UNCHANGED vars
    BY <2>21 DEF vars, TypeOK
  <2> QED
    BY <2>1, <2>2, <2>3, <2>4, <2>5, <2>6, <2>7, <2>8, <2>9, <2>10, <2>11, <2>12, <2>13,
       <2>14, <2>15, <2>16, <2>17, <2>18, <2>19, <2>20, <2>21 DEF Next, Client, Peer
<1> QED BY <1>1, <1>2, PTL DEF Spec

----
\* The steps that touch neither the numbers of calls nor what is under way.
LEMMA UnderWayKept ==
  ASSUME OneUnderWay, UNCHANGED <<asked, returned, requests, answers, queue, handling>>,
         client' \notin {"new", "ready", "writing", "waiting"} \ {client},
         peer' \notin {"handling", "answering"} \/ peer \in {"handling", "answering"},
         pumping' => pumping
  PROVE  OneUnderWay'
<1>1. Places' \subseteq Places /\ Own' = Own
  BY DEF Places, Own
<1> QED BY <1>1 DEF OneUnderWay

\* What OneUnderWay says of the places, one by one.
LEMMA NothingUnderWay ==
  ASSUME Places = {}
  PROVE  /\ requests = <<>> /\ answers = <<>> /\ queue \in {<<>>, <<Eof>>}
         /\ peer \notin {"handling", "answering"}
BY DEF Places

\* While a request is in one place it is in no other.
LEMMA OnlyIn ==
  ASSUME OneUnderWay, NEW place \in Places
  PROVE  /\ Places = {place} /\ asked = returned + 1
         /\ place # "stdin" => requests = <<>>
         /\ place # "peer" => peer \notin {"handling", "answering"}
         /\ place # "stdout" => answers = <<>>
         /\ place # "queue" => queue \in {<<>>, <<Eof>>}
<1>1. Places = {place} /\ asked = returned + 1
  BY DEF OneUnderWay
<1> QED BY <1>1 DEF Places

\* After what the client takes from the queue comes the end or nothing, and the
\* end only when the pump has stopped.
LEMMA TakenAnswer ==
  ASSUME OneUnderWay, queue # <<>>
  PROVE  Tail(queue) \in {<<>>, <<Eof>>} /\ (pumping => Tail(queue) = <<>>)
<1>1. CASE \E a : queue = <<a>>
  BY <1>1, ShortSequences
<1>2. CASE \E a : queue = <<a, Eof>>
  <2>1. PICK a : queue = <<a, Eof>>
    BY <1>2
  <2>2. 2 \in DOMAIN queue /\ queue[2] = Eof
    BY <2>1
  <2>3. ~pumping
    BY <2>2 DEF OneUnderWay
  <2> QED BY <2>1, <2>3, ShortSequences
<1> QED BY <1>1, <1>2 DEF OneUnderWay

\* The answer of the peer takes the place of the request it had.
LEMMA AnswerUnderWay ==
  ASSUME OneUnderWay, peer \in {"handling", "answering"}, peer' = "reading",
         NEW ok \in BOOLEAN, answers' = Append(answers, Answer(handling, ok)),
         UNCHANGED <<session, handling, requests, queue, pumping>>
  PROVE  OneUnderWay'
<1>1. "peer" \in Places
  BY DEF Places
<1>2. Answer(handling, ok) \in Own /\ Own' = Own
  BY DEF OneUnderWay, Own, Answer, session
<1>3. answers' = <<Answer(handling, ok)>>
  BY <1>1, OnlyIn, ShortSequences
<1>4. Places' = {"stdout"}
  BY <1>1, <1>3, OnlyIn DEF Places
<1> QED BY <1>1, <1>2, <1>3, <1>4, OnlyIn DEF OneUnderWay, session

\* OneUnderWay holds of every reachable state, and is inductive by itself.
THEOREM RequestsAreSingle == Spec => []OneUnderWay
<1>1. Init => OneUnderWay
  BY DEF Init, OneUnderWay, Places, Own
<1>2. TypeOK /\ OneUnderWay /\ [Next]_vars => OneUnderWay'
  <2> SUFFICES ASSUME TypeOK, OneUnderWay, [Next]_vars PROVE OneUnderWay'
    OBVIOUS
  <2> USE DEF session, process, stdio, Handshake
  <2>0. Unwound \in {"ended", "closing"}
    BY DEF Unwound
  <2>1. CASE Open
    BY <2>1 DEF Open, OneUnderWay, Places, Own
  <2>2. CASE SpawnFails
    BY <2>2, UnderWayKept DEF SpawnFails
  <2>3. CASE Send
    <3>1. asked = returned /\ Places = {}
      BY <2>3 DEF Send, OneUnderWay
    <3>2. /\ requests' = <<asked>> /\ asked' = asked + 1 /\ returned' = returned
          /\ answers' = <<>> /\ queue' = queue /\ queue \in {<<>>, <<Eof>>}
          /\ peer' = peer /\ peer \notin {"handling", "answering"}
          /\ client' \in {"waiting", "writing"} /\ pumping' = pumping
      BY <2>3, <3>1, NothingUnderWay, ShortSequences DEF Send
    <3>3. Places' = {"stdin"}
      BY <3>2 DEF Places
    <3>4. asked \in Nat /\ requests' = <<asked' - 1>> /\ asked' = returned' + 1
      BY <3>1, <3>2 DEF TypeOK
    <3> QED BY <3>2, <3>3, <3>4 DEF OneUnderWay
  <2>4. CASE Written
    BY <2>4, UnderWayKept DEF Written, OneUnderWay, Places, Own
  <2>5. CASE SendFails
    BY <2>0, <2>5, UnderWayKept DEF SendFails
  <2>6. CASE Receive
    <3>1. PICK a \in Own : queue \in {<<a>>, <<a, Eof>>} /\ a # Eof
      BY <2>6, ShortSequences DEF Receive, Accepts, OneUnderWay, Eof
    <3>2. queue \notin {<<>>, <<Eof>>}
      BY <3>1
    <3>3. "queue" \in Places
      BY <3>2 DEF Places
    <3>4. queue' \in {<<>>, <<Eof>>} /\ (pumping => queue' = <<>>)
      BY <2>6, TakenAnswer DEF Receive
    <3>5. asked' = returned' /\ asked \in Nat
      BY <2>6, <3>3, OnlyIn DEF Receive, TypeOK
    <3>6. Places' = {}
      BY <2>6, <3>3, <3>4, OnlyIn DEF Receive, Places
    <3> QED BY <2>6, <3>3, <3>4, <3>5, <3>6, OnlyIn DEF Receive, OneUnderWay
  <2>7. CASE ReceiveFails
    <3>1. queue' \in {<<>>, <<Eof>>} /\ (pumping => queue' = <<>>)
      BY <2>7, TakenAnswer DEF ReceiveFails
    <3>2. Places' \subseteq Places /\ Own' = Own
      BY <2>7, <3>1 DEF ReceiveFails, Places, Own
    <3> QED BY <2>0, <2>7, <3>1, <3>2 DEF ReceiveFails, OneUnderWay
  <2>8. CASE Timeout
    BY <2>0, <2>8, UnderWayKept DEF Timeout
  <2>9. CASE Leave \/ CloseStdin \/ Reap \/ Kill \/ Exit
    BY <2>9, UnderWayKept DEF Leave, CloseStdin, Reap, Kill, Exit
  <2>10. CASE Drain
    BY <2>10 DEF Drain, OneUnderWay, Places, Own
  <2>11. CASE Killed \/ Interrupt
    <3>1. CASE requests' = requests
      BY <2>0, <2>11, <3>1, UnderWayKept DEF Killed, Interrupt
    <3>2. CASE requests' = <<>>
      <4>1. Places' \subseteq Places /\ Own' = Own
        BY <2>11, <3>2 DEF Killed, Interrupt, Places, Own
      <4> QED BY <2>0, <2>11, <3>2, <4>1 DEF Killed, Interrupt, OneUnderWay
    <3> QED BY <2>11, <3>1, <3>2 DEF Killed, Interrupt
  <2>12. CASE Pump
    <3>1. Own' = Own
      BY <2>12 DEF Pump, Own
    <3>2. CASE answers # <<>>
      <4>1. "stdout" \in Places
        BY <3>2 DEF Places
      <4>2. PICK a \in Own : answers = <<a>>
        BY <3>2 DEF OneUnderWay
      <4>3. queue = <<>>
        BY <2>12, <4>1, OnlyIn, ShortSequences DEF Pump, OneUnderWay
      <4>4. queue' = <<a>> /\ answers' = <<>>
        BY <2>12, <3>2, <4>2, <4>3, ShortSequences DEF Pump
      <4>5. a # Eof /\ asked \in Nat
        BY <4>1, OnlyIn DEF Own, Eof, TypeOK
      <4>6. Places' = {"queue"}
        BY <2>12, <4>1, <4>4, <4>5, OnlyIn DEF Pump, Places
      <4> QED BY <2>12, <3>1, <4>1, <4>4, <4>5, <4>6, OnlyIn DEF Pump, OneUnderWay
    <3>3. CASE answers = <<>>
      <4>1. queue \in {<<>>} \cup {<<a>> : a \in Own}
        BY <2>12, ShortSequences DEF Pump, OneUnderWay
      <4>2. queue' \in {<<Eof>>} \cup {<<a, Eof>> : a \in Own} /\ pumping' = FALSE
        BY <2>12, <3>3, <4>1, ShortSequences DEF Pump
      <4>3. queue = <<>> => queue' = <<Eof>>
        BY <2>12, <3>3, ShortSequences DEF Pump
      <4>4. Places' \subseteq Places
        <5>1. queue # <<>> => queue # <<Eof>>
          BY <2>12 DEF Pump, OneUnderWay
        <5> QED BY <2>12, <3>3, <4>3, <5>1 DEF Pump, Places
      <4> QED BY <2>12, <3>1, <3>3, <4>2, <4>4 DEF Pump, OneUnderWay
    <3> QED BY <3>2, <3>3
  <2>13. CASE PeerReads
    BY <2>13, ShortSequences DEF PeerReads, OneUnderWay, Places, Own, TypeOK
  <2>14. CASE PeerExits \/ PeerDies
    BY <2>14, UnderWayKept DEF PeerExits, PeerDies
  <2>15. CASE PeerExecutes
    BY <2>15, UnderWayKept DEF PeerExecutes
  <2>16. CASE PeerAnswers
    BY <2>16, AnswerUnderWay DEF PeerAnswers, TypeOK
  <2>17. CASE PeerRefuses
    BY <2>17, AnswerUnderWay DEF PeerRefuses, TypeOK
  <2>18. CASE UNCHANGED vars
    BY <2>18, UnderWayKept DEF vars
  <2> QED
    BY <2>1, <2>2, <2>3, <2>4, <2>5, <2>6, <2>7, <2>8, <2>9, <2>10, <2>11, <2>12, <2>13,
       <2>14, <2>15, <2>16, <2>17, <2>18 DEF Next, Client, Peer
<1> QED BY <1>1, <1>2, SessionTypeCorrect, PTL DEF Spec

----
\* How far the peer has come, in terms of what the client knows.
CallsReturned == IF returned = 0 THEN 0 ELSE returned - 1
CallsAsked == IF asked = 0 THEN 0 ELSE asked - 1

\* Success is on its way to the client.
Succeeded ==
  \E a \in Own : a.ok /\ (answers = <<a>> \/ queue \in {<<a>>, <<a, Eof>>})

\* The peer has executed the calls that have returned, and at most one more; not
\* yet the one it has to read or to handle; and that one when it says so.
ExecutedInOrder ==
  /\ Len(executed) \in {CallsReturned, CallsAsked}
  /\ client \in {"new", "ready"} \/ requests # <<>> \/ peer = "handling"
       => Len(executed) = CallsReturned
  /\ peer = "answering" \/ Succeeded => Len(executed) = CallsAsked

\* Only a compatible peer gets past the handshake, and a client that has ended
\* after one has seen its peer end.
Established ==
  returned > 0 => /\ compatible /\ client # "new"
                  /\ client \in {"ended", "exited"} => peer = "dead"

\* A step that moves no request and begins none keeps what has been executed.
LEMMA ExecutedKept ==
  ASSUME ExecutedInOrder,
         UNCHANGED <<asked, returned, requests, answers, queue, executed>>,
         client' \notin {"new", "ready"} \ {client}, peer' \notin {"handling", "answering"} \ {peer}
  PROVE  ExecutedInOrder'
<1>1. Succeeded' => Succeeded
  BY DEF Succeeded, Own
<1> QED BY <1>1 DEF ExecutedInOrder, CallsReturned, CallsAsked

\* ExecutedInOrder holds of every reachable state, by what OneUnderWay says of
\* the one request there is.
THEOREM CallsExecuteInOrder == Spec => []ExecutedInOrder
<1>1. Init => ExecutedInOrder
  BY EmptySeq DEF Init, ExecutedInOrder, CallsReturned, CallsAsked, Succeeded
<1>2. TypeOK /\ OneUnderWay /\ OneUnderWay' /\ ExecutedInOrder /\ [Next]_vars => ExecutedInOrder'
  <2> SUFFICES ASSUME TypeOK, OneUnderWay, OneUnderWay', ExecutedInOrder, [Next]_vars
               PROVE  ExecutedInOrder'
    OBVIOUS
  <2> USE DEF session, process, stdio, Handshake
  <2>0. Unwound \in {"ended", "closing"}
    BY DEF Unwound
  <2>1. CASE Open
    BY <2>1 DEF Open, ExecutedInOrder, CallsReturned, CallsAsked, Succeeded, Own
  <2>2. CASE SpawnFails \/ Written \/ Leave \/ CloseStdin \/ Reap \/ Kill \/ Exit
    BY <2>2, ExecutedKept DEF SpawnFails, Written, Leave, CloseStdin, Reap, Kill, Exit
  <2>3. CASE Send
    <3>1. asked = returned /\ Places = {} /\ Len(executed) = CallsReturned
      BY <2>3 DEF Send, OneUnderWay, ExecutedInOrder
    <3>2. ~Succeeded' /\ peer' \notin {"answering"}
      <4>1. answers' = <<>> /\ queue' \in {<<>>, <<Eof>>} /\ peer' # "answering"
        BY <2>3, <3>1, NothingUnderWay DEF Send
      <4> QED BY <4>1, ShortSequences DEF Succeeded, Eof
    <3> QED BY <2>3, <3>1, <3>2 DEF Send, ExecutedInOrder, CallsReturned, CallsAsked
  <2>4. CASE SendFails \/ Timeout
    BY <2>0, <2>4, ExecutedKept DEF SendFails, Timeout
  <2>5. CASE Receive
    <3>1. Succeeded /\ asked = returned + 1
      BY <2>5, ShortSequences DEF Receive, Accepts, Succeeded, OneUnderWay, Eof
    <3>2. asked' = returned' /\ Len(executed') = CallsReturned'
      BY <2>5, <3>1 DEF Receive, ExecutedInOrder, CallsReturned, CallsAsked, TypeOK
    <3>3. CallsReturned' = CallsAsked'
      BY <3>2 DEF CallsReturned, CallsAsked
    <3> QED BY <3>2, <3>3 DEF ExecutedInOrder
  <2>6. CASE ReceiveFails
    <3>1. ~Succeeded' \/ Succeeded
      BY <2>6, TakenAnswer, ShortSequences DEF ReceiveFails, Succeeded, Own, Eof
    <3> QED BY <2>0, <2>6, <3>1 DEF ReceiveFails, ExecutedInOrder, CallsReturned, CallsAsked
  <2>7. CASE Drain
    BY <2>7 DEF Drain, ExecutedInOrder, CallsReturned, CallsAsked, Succeeded, Own
  <2>8. CASE Killed \/ Interrupt
    BY <2>0, <2>8
       DEF Killed, Interrupt, ExecutedInOrder, CallsReturned, CallsAsked, Succeeded, Own
  <2>9. CASE Pump
    <3>1. Succeeded' => Succeeded
      BY <2>9, ShortSequences DEF Pump, Succeeded, OneUnderWay, Own, Eof
    <3> QED BY <2>9, <3>1 DEF Pump, ExecutedInOrder, CallsReturned, CallsAsked
  <2>10. CASE PeerReads
    <3>1. Succeeded' => Succeeded
      BY <2>10 DEF PeerReads, Succeeded, Own
    <3> QED BY <2>10, <3>1 DEF PeerReads, ExecutedInOrder, CallsReturned, CallsAsked
  <2>11. CASE PeerExits \/ PeerDies \/ UNCHANGED vars
    BY <2>11, ExecutedKept DEF PeerExits, PeerDies, vars
  <2>12. CASE PeerExecutes
    <3>1. "peer" \in Places /\ handling = asked - 1 /\ Len(executed) = CallsReturned
      BY <2>12 DEF PeerExecutes, Places, OneUnderWay, ExecutedInOrder
    <3>2. asked = returned + 1 /\ requests = <<>>
      BY <3>1, OnlyIn
    <3>3. Len(executed') = CallsAsked
      BY <2>12, <3>1, <3>2 DEF PeerExecutes, CallsReturned, CallsAsked, TypeOK
    <3>4. client' \notin {"new", "ready"}
      BY <2>12, <3>2 DEF PeerExecutes, OneUnderWay, TypeOK
    <3> QED BY <2>12, <3>2, <3>3, <3>4 DEF PeerExecutes, ExecutedInOrder, CallsAsked
  <2>13. CASE PeerAnswers
    <3>1. Len(executed) = CallsAsked /\ "peer" \in Places
      BY <2>13 DEF PeerAnswers, ExecutedInOrder, Places
    <3>2. requests = <<>> /\ client \notin {"new", "ready"}
      BY <3>1, OnlyIn DEF OneUnderWay, TypeOK
    <3> QED BY <2>13, <3>1, <3>2 DEF PeerAnswers, ExecutedInOrder, CallsAsked
  <2>14. CASE PeerRefuses
    <3>1. "peer" \in Places
      BY <2>14 DEF PeerRefuses, Places
    <3>2. /\ answers = <<>> /\ queue \in {<<>>, <<Eof>>} /\ requests = <<>>
          /\ client \notin {"new", "ready"}
      BY <3>1, OnlyIn DEF OneUnderWay, TypeOK
    <3>3. answers' = <<Answer(handling, FALSE)>> /\ queue' = queue
      BY <2>14, <3>2, ShortSequences DEF PeerRefuses
    <3>4. ~Succeeded'
      BY <3>2, <3>3, ShortSequences DEF Succeeded, Answer, Eof
    <3> QED BY <2>14, <3>2, <3>4 DEF PeerRefuses, ExecutedInOrder, CallsReturned, CallsAsked
  <2> QED
    BY <2>1, <2>2, <2>3, <2>4, <2>5, <2>6, <2>7, <2>8, <2>9, <2>10, <2>11, <2>12, <2>13,
       <2>14 DEF Next, Client, Peer
<1> QED BY <1>1, <1>2, SessionTypeCorrect, RequestsAreSingle, PTL DEF Spec

----
\* Established holds of every reachable state.
THEOREM EstablishedSessions == Spec => []Established
<1>1. Init => Established
  BY DEF Init, Established
<1>2. TypeOK /\ OneUnderWay /\ Established /\ [Next]_vars => Established'
  <2> SUFFICES ASSUME TypeOK, OneUnderWay, Established, [Next]_vars PROVE Established'
    OBVIOUS
  <2> USE DEF session, process, stdio
  <2>1. CASE Open
    BY <2>1 DEF Open, Established
  <2>2. CASE SpawnFails
    BY <2>2 DEF SpawnFails, Established
  <2>3. CASE SendFails \/ Timeout \/ Interrupt \/ ReceiveFails
    <3>1. UNCHANGED <<returned, peer, compatible>> /\ client' \in {Unwound, "draining"}
      BY <2>3 DEF SendFails, Timeout, Interrupt, ReceiveFails
    <3>2. returned > 0 => Unwound = "closing"
      BY DEF Unwound
    <3> QED BY <3>1, <3>2 DEF Established
  <2>4. CASE Receive
    <3>1. compatible
      BY <2>4 DEF Receive, Accepts, Validated, OneUnderWay, Established, TypeOK
    <3> QED BY <2>4, <3>1 DEF Receive, Established
  <2>5. CASE Send \/ Written \/ Leave \/ CloseStdin \/ Reap \/ Kill \/ Drain \/ Exit \/ Killed
    BY <2>5 DEF Send, Written, Leave, CloseStdin, Reap, Kill, Drain, Exit, Killed, Established
  <2>6. CASE Pump \/ UNCHANGED vars
    BY <2>6 DEF Pump, vars, Established
  <2>7. CASE Peer
    <3>1. peer' = peer \/ peer # "dead"
      BY <2>7 DEF Peer, PeerReads, PeerExits, PeerExecutes, PeerAnswers, PeerRefuses, PeerDies
    <3>2. UNCHANGED <<client, returned, compatible>>
      BY <2>7 DEF Peer, PeerReads, PeerExits, PeerExecutes, PeerAnswers, PeerRefuses, PeerDies
    <3> QED BY <3>1, <3>2, <2>7 DEF Established, Peer, PeerReads, PeerExits, PeerExecutes,
                                  PeerAnswers, PeerRefuses, PeerDies
  <2> QED BY <2>1, <2>2, <2>3, <2>4, <2>5, <2>6, <2>7 DEF Next, Client
<1> QED BY <1>1, <1>2, SessionTypeCorrect, RequestsAreSingle, PTL DEF Spec

\* A session that was established leaves no peer behind when the command exits.
THEOREM SessionsLeaveNoPeer == Spec => []NoPeerLeft
<1>1. TypeOK /\ Established => NoPeerLeft
  BY DEF Established, NoPeerLeft
<1> QED BY <1>1, SessionTypeCorrect, EstablishedSessions, PTL

\* A peer of another version never executes a call: until the handshake is
\* accepted nothing but the handshake has been sent.
THEOREM IncompatiblePeersRefused == Spec => []IncompatibleNeverExecutes
<1>1. TypeOK /\ OneUnderWay /\ ExecutedInOrder /\ Established => IncompatibleNeverExecutes
  <2> SUFFICES ASSUME TypeOK, OneUnderWay, ExecutedInOrder, Established, ~compatible
               PROVE  executed = <<>>
    BY DEF IncompatibleNeverExecutes
  <2>1. returned = 0 /\ asked \in {0, 1}
    BY DEF Established, OneUnderWay, TypeOK
  <2>2. Len(executed) = 0
    BY <2>1 DEF ExecutedInOrder, CallsReturned, CallsAsked
  <2> QED BY <2>2, EmptySeq DEF TypeOK
<1> QED BY <1>1, SessionTypeCorrect, RequestsAreSingle, CallsExecuteInOrder,
           EstablishedSessions, PTL

----
\* The session implements RemoteCalls: every step of it is one of the abstract
\* session, or none.
THEOREM SessionImplementsCalls == Spec => ImplementsRemoteCalls
<1> DEFINE phase == IF client = "exited" THEN "over"
                    ELSE IF returned = 0 THEN "opening" ELSE "open"
           done == IF returned = 0 THEN 0 ELSE returned - 1
<1>1. Init => Calls!Init
  BY DEF Init, Calls!Init
<1>2. /\ TypeOK /\ OneUnderWay /\ ExecutedInOrder /\ Established /\ [Next]_vars
      => [Calls!Next]_<<phase, executed, done>>
  <2> SUFFICES ASSUME TypeOK, OneUnderWay, ExecutedInOrder, Established, [Next]_vars
               PROVE  Calls!Next \/ UNCHANGED <<phase, executed, done>>
    OBVIOUS
  <2> USE DEF session, process, stdio, Handshake
  <2>1. CASE Receive
    <3>1. Succeeded /\ asked = returned + 1
      BY <2>1, ShortSequences DEF Receive, Accepts, Succeeded, OneUnderWay, Eof
    <3>2. Len(executed) = returned
      BY <3>1 DEF ExecutedInOrder, CallsAsked, TypeOK
    <3>3. CASE returned = 0
      BY <2>1, <3>3 DEF Receive, Calls!Next, Calls!Open
    <3>4. CASE returned # 0
      BY <2>1, <3>2, <3>4 DEF Receive, Calls!Next, Calls!Return, TypeOK
    <3> QED BY <3>3, <3>4
  <2>2. CASE PeerExecutes
    <3>1. "peer" \in Places /\ handling = asked - 1 /\ Len(executed) = done
      BY <2>2 DEF PeerExecutes, Places, OneUnderWay, ExecutedInOrder, CallsReturned
    <3>2. handling = returned
      BY <3>1, OnlyIn DEF TypeOK
    <3>3. CASE returned = 0
      BY <2>2, <3>2, <3>3 DEF PeerExecutes
    <3>4. CASE returned # 0
      <4>1. phase = "open"
        BY <2>2, <3>4 DEF PeerExecutes, Established, TypeOK
      <4>2. executed' = Append(executed, done + 1) /\ UNCHANGED <<client, returned>>
        BY <2>2, <3>2, <3>4 DEF PeerExecutes, TypeOK
      <4> QED BY <3>1, <4>1, <4>2 DEF Calls!Next, Calls!Execute
    <3> QED BY <3>3, <3>4
  <2>3. CASE Exit
    BY <2>3 DEF Exit, Calls!Next, Calls!End
  <2>4. CASE SendFails \/ Timeout \/ Interrupt \/ ReceiveFails
    <3>1. Unwound # "exited"
      BY DEF Unwound
    <3> QED BY <2>4, <3>1 DEF SendFails, Timeout, Interrupt, ReceiveFails
  <2>5. CASE \/ Open \/ SpawnFails \/ Send \/ Written \/ Leave \/ CloseStdin \/ Reap \/ Kill
             \/ Drain \/ Killed
    BY <2>5 DEF Open, SpawnFails, Send, Written, Leave, CloseStdin, Reap, Kill, Drain, Killed
  <2>6. CASE Pump \/ PeerReads \/ PeerExits \/ PeerAnswers \/ PeerRefuses \/ PeerDies
             \/ UNCHANGED vars
    BY <2>6 DEF Pump, PeerReads, PeerExits, PeerAnswers, PeerRefuses, PeerDies, vars
  <2> QED BY <2>1, <2>2, <2>3, <2>4, <2>5, <2>6 DEF Next, Client, Peer
<1> QED BY <1>1, <1>2, SessionTypeCorrect, RequestsAreSingle, CallsExecuteInOrder,
           EstablishedSessions, PTL DEF Spec, ImplementsRemoteCalls, Calls!Spec
====
