------------------------- MODULE ReceiveStreamProofs -------------------------
(* What TLAPS proves of ReceiveStream, for every value of its constants.    *)
EXTENDS ReceiveStream, SequencePiecesProofs

\* The assumptions in the form most steps use.
LEMMA ReceiveBounds ==
  /\ MaxMessages \in Nat /\ MaxCalls \in Nat /\ InCap \in Nat /\ CtrlCap \in Nat
  /\ MaxBatch \in Nat /\ MaxTransfer \in Nat
  BY ReceiveAssumption DEF ReceiveAssumption

\* The reasons differ from one another and from the states of a stream.
LEMMA ReasonsAre ==
  /\ Failures \subseteq Reasons /\ "PeerClosed" \in Reasons /\ "UserClosed" \in Reasons
  /\ "MspcChannelClosed" \in Reasons /\ "OrchestratorError" \in Reasons
  /\ NoReason \notin Reasons /\ "PeerClosed" \notin Failures
  /\ "open" \notin Failures /\ "stopped" \notin Failures
  BY DEF Failures, Reasons, NoReason

\* What QuicReceiveStream::new leaves is well typed.
LEMMA ReceiveTypeInit == Init => TypeOK
<1> SUFFICES ASSUME Init PROVE TypeOK
    OBVIOUS
<1>1. /\ recvBuf \in Seq(Nat) /\ got \in Seq(Nat) /\ inbound \in Seq(Nat)
      /\ Len(inbound) <= InCap /\ batch \in Seq(Nat) /\ Len(batch) <= MaxBatch
      BY ReceiveBounds DEF Init
<1>2. control \in Seq({"StopSend"}) /\ Len(control) <= CtrlCap
      BY ReceiveBounds DEF Init
<1>3. arrived \in 0 .. MaxMessages /\ calls \in 0 .. MaxCalls /\ dropped \subseteq Nat
      BY ReceiveBounds DEF Init
<1>4. /\ fin \in BOOLEAN /\ component \in BOOLEAN /\ atEnd \in BOOLEAN
      /\ call \in {"idle", "recvMany", "stopSend"}
      BY DEF Init
<1>5. /\ taskState \in Reasons \cup {NoReason} /\ disconnect \in Reasons \cup {NoReason}
      /\ task \in {"queued", "run", "transfer", "stop", "empty", "done",
                   "cancelled", "gone", "dropped"}
      /\ quic \in Failures \cup {"open", "stopped"}
      BY ReasonsAre DEF Init
<1> QED BY <1>1, <1>2, <1>3, <1>4, <1>5 DEF TypeOK

\* A packet for the channel, which may have no room for it or be closed.
LEMMA TransferTyped ==
  ASSUME TypeOK, NEW packet \in Nat, Transfer(packet)
  PROVE inbound' \in Seq(Nat) /\ Len(inbound') <= InCap /\ dropped' \subseteq Nat
<1>1. CASE component /\ Len(inbound) < InCap
  <2>1. inbound' = Append(inbound, packet) /\ dropped' = dropped
        BY <1>1 DEF Transfer
  <2>2. inbound' \in Seq(Nat) /\ Len(inbound') = Len(inbound) + 1
        BY <2>1, AppendProperties DEF TypeOK
  <2> QED BY <1>1, <2>1, <2>2, ReceiveBounds DEF TypeOK
<1>2. CASE ~(component /\ Len(inbound) < InCap)
      BY <1>2 DEF Transfer, TypeOK
<1> QED BY <1>1, <1>2

\* The two pieces of a sequence keep its type.
LEMMA FrontTyped ==
  ASSUME NEW s \in Seq(Nat), NEW n \in Nat
  PROVE /\ First(s, n) \in Seq(Nat) /\ Len(First(s, n)) <= n
        /\ After(s, Least(n, Len(s))) \in Seq(Nat)
        /\ Len(After(s, Least(n, Len(s)))) <= Len(s)
        /\ First(s, n) = First(s, Least(n, Len(s)))
<1> DEFINE k == Least(n, Len(s))
<1>1. k \in Nat /\ k <= n /\ Least(k, Len(s)) = k
      BY DEF Least
<1>2. First(s, n) \in Seq(Nat) /\ Len(First(s, n)) = k
      BY FirstIs
<1>3. First(s, n) = First(s, k)
      BY <1>1 DEF First
<1> HIDE DEF k
<1>4. /\ After(s, k) \in Seq(Nat)
      /\ Len(After(s, k)) = IF k < Len(s) THEN Len(s) - k ELSE 0
      BY <1>1, AfterIs
<1>5. Len(After(s, k)) <= Len(s)
      BY <1>1, <1>4
<1> QED BY <1>1, <1>2, <1>3, <1>4, <1>5 DEF k

\* So do its head and its tail.
LEMMA HeadTyped ==
  ASSUME NEW s \in Seq(Nat), s # <<>>
  PROVE Head(s) \in Nat /\ Tail(s) \in Seq(Nat) /\ Len(Tail(s)) <= Len(s)
  BY HeadTailProperties

\* Every step keeps the types.
LEMMA ReceiveTypeStep == TypeOK /\ [Next]_vars => TypeOK'
<1> SUFFICES ASSUME TypeOK, [Next]_vars PROVE TypeOK'
    OBVIOUS
<1> USE DEF vars, peerVars, bevyVars, taskVars
<1>1. CASE PeerSends
  <2>1. recvBuf' \in Seq(Nat)
        BY <1>1, AppendProperties DEF PeerSends, TypeOK
  <2> QED BY <1>1, <2>1, ReceiveBounds DEF PeerSends, TypeOK
<1>2. CASE PeerFinishes
      BY <1>2 DEF PeerFinishes, TypeOK
<1>3. ASSUME NEW how \in Failures, StreamFails(how) PROVE TypeOK'
  <2>1. recvBuf' \in Seq(Nat) /\ quic' \in Failures
        BY <1>3 DEF StreamFails
  <2> QED BY <1>3, <2>1 DEF StreamFails, TypeOK
<1>4. CASE Recv
  <2>1. Head(inbound) \in Nat /\ inbound' \in Seq(Nat) /\ Len(inbound') <= Len(inbound)
        BY <1>4, HeadTyped DEF Recv, TypeOK
  <2>2. got' \in Seq(Nat)
        BY <1>4, <2>1, AppendProperties DEF Recv, TypeOK
  <2>3. Len(inbound') <= InCap
        BY <2>1, ReceiveBounds DEF TypeOK
  <2> QED BY <1>4, <2>1, <2>2, <2>3 DEF Recv, TypeOK
<1>5. CASE RecvMany
      BY <1>5 DEF RecvMany, TypeOK
<1>6. CASE RecvManyReturns
  <2>1. /\ First(inbound, MaxTransfer) \in Seq(Nat)
        /\ inbound' \in Seq(Nat) /\ Len(inbound') <= Len(inbound)
        BY <1>6, FrontTyped, ReceiveBounds DEF RecvManyReturns, TypeOK
  <2>2. got' \in Seq(Nat)
        BY <1>6, <2>1, ConcatProperties DEF RecvManyReturns, TypeOK
  <2>3. Len(inbound') <= InCap
        BY <2>1, ReceiveBounds DEF TypeOK
  <2> QED BY <1>6, <2>1, <2>2, <2>3 DEF RecvManyReturns, TypeOK
<1>7. CASE StopSend
      BY <1>7, ReceiveBounds DEF StopSend, TypeOK
<1>8. CASE StopSendReturns
  <2>1. CASE control' = Append(control, "StopSend") /\ Len(control) < CtrlCap
    <3>1. control' \in Seq({"StopSend"}) /\ Len(control') = Len(control) + 1
          BY <2>1, AppendProperties DEF TypeOK
    <3> QED BY <1>8, <2>1, <3>1, ReceiveBounds DEF StopSendReturns, TypeOK
  <2>2. CASE UNCHANGED control
        BY <1>8, <2>2 DEF StopSendReturns, TypeOK
  <2> QED BY <1>8, <2>1, <2>2 DEF StopSendReturns
<1>9. CASE Despawn \/ HandleDisconnection
  <2>1. inbound' = <<>> /\ component' = FALSE
        BY <1>9 DEF HandleDisconnection, Despawn
  <2>2. inbound' \in Seq(Nat) /\ Len(inbound') <= InCap
        BY <2>1, ReceiveBounds
  <2> QED BY <1>9, <2>1, <2>2 DEF HandleDisconnection, Despawn, TypeOK
<1>10. CASE Dispatch
      BY <1>10 DEF Dispatch, TypeOK
<1>11. CASE DispatchDrop \/ Reap
  <2>1. /\ control' = <<>> /\ task' \in {"gone", "dropped"}
        /\ UNCHANGED <<peerVars, bevyVars, inbound, taskState, batch, atEnd, disconnect,
                       dropped>>
        BY <1>11 DEF DispatchDrop, Reap, RemoveTask
  <2>2. control' \in Seq({"StopSend"}) /\ Len(control') <= CtrlCap
        BY <2>1, ReceiveBounds
  <2> QED BY <2>1, <2>2 DEF TypeOK
<1>12. CASE PollReceive
  <2>1. CASE TakeBatch /\ atEnd' = SeesEnd /\ task' = "transfer" /\ UNCHANGED disconnect
    <3>1. batch' \in Seq(Nat) /\ Len(batch') <= MaxBatch /\ recvBuf' \in Seq(Nat)
          BY <2>1, FrontTyped, ReceiveBounds DEF TakeBatch, TypeOK
    <3>2. atEnd' \in BOOLEAN
          BY <2>1 DEF SeesEnd, TypeOK
    <3> QED BY <1>12, <2>1, <3>1, <3>2 DEF PollReceive, TypeOK
  <2>2. CASE /\ quic \in Failures /\ disconnect' = quic /\ task' = "stop"
             /\ UNCHANGED <<recvBuf, batch, atEnd>>
        BY <1>12, <2>2, ReasonsAre DEF PollReceive, TypeOK
  <2> QED BY <1>12, <2>1, <2>2 DEF PollReceive
<1>13. CASE TransferNext
  <2>1. /\ Head(batch) \in Nat /\ batch' \in Seq(Nat) /\ Len(batch') <= Len(batch)
        BY <1>13, HeadTyped DEF TransferNext, TypeOK
  <2>2. inbound' \in Seq(Nat) /\ Len(inbound') <= InCap /\ dropped' \subseteq Nat
        BY <1>13, <2>1, TransferTyped DEF TransferNext
  <2>3. Len(batch') <= MaxBatch
        BY <2>1, ReceiveBounds DEF TypeOK
  <2>4. disconnect' \in Reasons \cup {NoReason}
        BY <1>13, ReasonsAre DEF TransferNext, TypeOK
  <2> QED BY <1>13, <2>1, <2>2, <2>3, <2>4 DEF TransferNext, TypeOK
<1>14. CASE TransferEnd
  <2>1. disconnect' \in Reasons \cup {NoReason} /\ task' \in {"run", "stop"}
        BY <1>14, ReasonsAre DEF TransferEnd, TypeOK
  <2> QED BY <1>14, <2>1 DEF TransferEnd, TypeOK
<1>15. CASE PollControl
  <2>1. control' \in Seq({"StopSend"}) /\ Len(control') <= CtrlCap
    <3>1. CASE control # <<>> /\ control' = Tail(control)
      <4>1. /\ control' \in Seq({"StopSend"}) /\ Len(control') = Len(control) - 1
            /\ Len(control) \in Nat /\ Len(control) <= CtrlCap
            BY <3>1, HeadTailProperties DEF TypeOK
      <4> QED BY <4>1, ReceiveBounds
    <3>2. CASE UNCHANGED control
          BY <3>2 DEF TypeOK
    <3> QED BY <1>15, <3>1, <3>2 DEF PollControl
  <2>2. /\ disconnect' \in Reasons /\ quic' \in Failures \cup {"open", "stopped"}
        /\ task' = "stop"
        BY <1>15, ReasonsAre DEF PollControl, TypeOK
  <2> QED BY <1>15, <2>1, <2>2 DEF PollControl, TypeOK
<1>16. CASE BeginStop
  <2>1. recvBuf' \in Seq(Nat)
    <3>1. recvBuf' = recvBuf \/ recvBuf' = <<>>
          BY <1>16 DEF BeginStop
    <3> QED BY <3>1, EmptyPiece DEF TypeOK
  <2>2. quic' \in Failures \cup {"open", "stopped"}
        BY <1>16 DEF BeginStop, StopSending, TypeOK
  <2> QED BY <1>16, <2>1, <2>2 DEF BeginStop, TypeOK
<1>17. CASE EmptyNext
  <2>1. Head(recvBuf) \in Nat /\ recvBuf' \in Seq(Nat)
        BY <1>17, HeadTyped DEF EmptyNext, TypeOK
  <2>2. inbound' \in Seq(Nat) /\ Len(inbound') <= InCap /\ dropped' \subseteq Nat
        BY <1>17, <2>1, TransferTyped DEF EmptyNext
  <2> QED BY <1>17, <2>1, <2>2 DEF EmptyNext, TypeOK
<1>18. CASE Publish \/ StopCancelled
      BY <1>18 DEF Publish, Published, StopCancelled, TypeOK
<1>19. CASE UNCHANGED vars
      BY <1>19 DEF TypeOK
<1> QED BY <1>1, <1>2, <1>3, <1>4, <1>5, <1>6, <1>7, <1>8, <1>9, <1>10, <1>11,
           <1>12, <1>13, <1>14, <1>15, <1>16, <1>17, <1>18, <1>19 DEF Next, Poll

\* Whatever the bounds are, the variables keep their types: the channels never
\* hold more than their capacities, and a batch not more than the buffer.
THEOREM ReceiveTypeCorrect == Spec => []TypeOK
  BY ReceiveTypeInit, ReceiveTypeStep, PTL DEF Spec

-----------------------------------------------------------------------------
(* Where poll_once is tells what its variables may be: the batch is empty   *)
(* outside the hand-over, the end of the stream is noted when nothing is    *)
(* left in the library, a stop has a reason, what follows the stop has told *)
(* the peer, and only an end that this side made can be told so by a stop   *)
(* that is pending.                                                         *)

Course ==
  /\ batch # <<>> => task = "transfer"
  /\ atEnd => fin /\ recvBuf = <<>> /\ task \notin {"queued", "run"}
  /\ disconnect = "PeerClosed" =>
       atEnd /\ task \in {"stop", "empty", "done", "cancelled", "gone", "dropped"}
  /\ task \in {"stop", "empty", "done", "cancelled"} => disconnect # NoReason
  /\ task = "empty" => quic # "open" \/ disconnect = "PeerClosed"
  /\ task \in {"queued", "run"} => disconnect = NoReason
  /\ task = "transfer" => disconnect \in {NoReason, "MspcChannelClosed"}
  /\ task \in {"queued", "run", "transfer"} => quic # "stopped"
  /\ task = "stop" => disconnect \in Failures \cup OwnEnds \cup {"PeerClosed"}
  /\ task = "stop" /\ disconnect \in Failures => quic \in Failures
  /\ task \in {"stop", "empty"} /\ quic = "stopped" => disconnect \in OwnEnds
  /\ taskState # NoReason => task \in {"done", "gone"}
  /\ taskState = "PeerClosed" => atEnd
  /\ call # "idle" => component

Steady == Course /\ EndIsComplete

\* The ends of this side are neither failures nor the end that the peer makes.
LEMMA OwnEndsAre ==
  /\ "UserClosed" \in OwnEnds /\ "MspcChannelClosed" \in OwnEnds
  /\ "PeerClosed" \notin OwnEnds /\ NoReason \notin OwnEnds
  /\ OwnEnds \cap Failures = {} /\ "MspcChannelClosed" # NoReason
  /\ "MspcChannelClosed" # "PeerClosed"
  BY DEF OwnEnds, Failures, NoReason

\* It holds of what new() leaves, refused or not...
LEMMA SteadyInit == Init => Steady
  BY ReasonsAre DEF Init, Steady, Course, EndIsComplete, NoReason

\* ...and at every stage of poll_once.
LEMMA SteadyStep ==
  ASSUME TypeOK, Steady, [Next]_vars
  PROVE Steady'
<1> USE DEF vars, peerVars, bevyVars, taskVars, Steady, Course, EndIsComplete, NoReason
<1>1. CASE PeerSends
      BY <1>1 DEF PeerSends
<1>2. CASE PeerFinishes
      BY <1>2 DEF PeerFinishes
<1>3. ASSUME NEW how \in Failures, StreamFails(how) PROVE Steady'
      BY <1>3, ReasonsAre DEF StreamFails
<1>4. CASE Recv \/ RecvMany \/ RecvManyReturns \/ StopSend \/ StopSendReturns
      BY <1>4 DEF Recv, RecvMany, RecvManyReturns, StopSend, StopSendReturns, Running
<1>5. CASE Despawn \/ HandleDisconnection
      BY <1>5 DEF Despawn, HandleDisconnection, Running
<1>6. CASE Dispatch
      BY <1>6 DEF Dispatch
<1>7. CASE DispatchDrop
      BY <1>7 DEF DispatchDrop, RemoveTask
<1>8. CASE Reap
      BY <1>8 DEF Reap, RemoveTask
<1>9. CASE PollReceive
  <2>1. CASE TakeBatch /\ atEnd' = SeesEnd /\ task' = "transfer" /\ UNCHANGED disconnect
    <3>1. /\ ~atEnd /\ disconnect # "PeerClosed" /\ taskState = NoReason
          /\ UNCHANGED <<fin, taskState, call, component>>
          BY <1>9 DEF PollReceive
    <3>2. ASSUME SeesEnd PROVE recvBuf' = <<>>
      <4>1. Len(recvBuf) \in Nat /\ Least(MaxBatch, Len(recvBuf)) = Len(recvBuf)
            BY <3>2, ReceiveBounds DEF SeesEnd, Least, TypeOK
      <4>2. recvBuf' = SubSeq(recvBuf, Len(recvBuf) + 1, Len(recvBuf))
            BY <2>1, <4>1 DEF TakeBatch, After
      <4> QED BY <4>1, <4>2, SubSeqEmpty DEF TypeOK
    <3>3. disconnect = NoReason /\ task = "run" /\ quic = "open" /\ UNCHANGED quic
          BY <1>9, <2>1 DEF PollReceive
    <3>4. atEnd' => fin /\ recvBuf' = <<>>
          BY <2>1, <3>2 DEF SeesEnd
    <3> QED BY <2>1, <3>1, <3>3, <3>4
  <2>2. CASE /\ quic \in Failures /\ disconnect' = quic /\ task' = "stop"
             /\ UNCHANGED <<recvBuf, batch, atEnd>>
    <3>1. /\ task = "run" /\ batch = <<>> /\ ~atEnd
          /\ taskState = NoReason /\ UNCHANGED <<fin, quic, taskState, call, component>>
          BY <1>9, <2>2 DEF PollReceive
    <3> QED BY <2>2, <3>1, ReasonsAre, OwnEndsAre
  <2> QED BY <1>9, <2>1, <2>2 DEF PollReceive
<1>10. CASE TransferNext
      BY <1>10, OwnEndsAre DEF TransferNext
<1>11. CASE TransferEnd
      BY <1>11, ReasonsAre, OwnEndsAre DEF TransferEnd
<1>12. CASE PollControl
      BY <1>12, ReasonsAre, OwnEndsAre DEF PollControl
<1>13. CASE BeginStop
  <2>1. recvBuf = <<>> => recvBuf' = <<>>
        BY <1>13 DEF BeginStop
  <2>2. quic' # "open" \/ disconnect = "PeerClosed"
        BY <1>13, ReasonsAre DEF BeginStop, StopSending
  <2>3. /\ task = "stop" /\ task' = "empty"
        /\ UNCHANGED <<fin, call, component, taskState, batch, atEnd, disconnect>>
        BY <1>13 DEF BeginStop
  <2>4. quic' = "stopped" => disconnect \in OwnEnds
    <3>1. CASE disconnect \in Failures
          BY <1>13, <2>3, <3>1, ReasonsAre DEF BeginStop, StopSending
    <3>2. CASE disconnect = "PeerClosed"
          BY <1>13, <2>3, <3>2, OwnEndsAre DEF BeginStop, StopSending
    <3> QED BY <2>3, <3>1, <3>2
  <2> QED BY <2>1, <2>2, <2>3, <2>4, ReasonsAre
<1>14. CASE EmptyNext
      BY <1>14 DEF EmptyNext
<1>15. CASE Publish
      BY <1>15 DEF Publish, Published
<1>16. CASE StopCancelled
      BY <1>16, OwnEndsAre DEF StopCancelled
<1>17. CASE UNCHANGED vars
      BY <1>17
<1> QED BY <1>1, <1>2, <1>3, <1>4, <1>5, <1>6, <1>7, <1>8, <1>9, <1>10, <1>11,
           <1>12, <1>13, <1>14, <1>15, <1>16, <1>17 DEF Next, Poll

LEMMA AlwaysSteady == Spec => []Steady
<1>1. TypeOK /\ Steady /\ [Next]_vars => Steady'
      BY SteadyStep
<1> QED BY <1>1, SteadyInit, ReceiveTypeCorrect, PTL DEF Spec

\* When a receive task is over the peer knows that nobody reads any more, and its
\* reason can be read unless this side ended the stream and the stop was cancelled,
\* whatever the bounds are.
THEOREM ReceiveEndIsComplete == Spec => []EndIsComplete
<1>1. Steady => EndIsComplete
      BY DEF Steady
<1> QED BY <1>1, AlwaysSteady, PTL

-----------------------------------------------------------------------------
(* The order of the messages, and that none is missing.  For both, a step   *)
(* is one of six moves between the four sequences a message goes through.   *)

Arrives ==
  /\ arrived' = arrived + 1 /\ recvBuf' = Append(recvBuf, arrived + 1)
  /\ UNCHANGED <<got, inbound, batch, dropped>>

Reads(n) ==
  /\ got' = got \o First(inbound, n) /\ inbound' = After(inbound, n)
  /\ UNCHANGED <<arrived, batch, recvBuf, dropped>>

Fills(n) ==
  /\ batch = <<>>
  /\ batch' = First(recvBuf, n) /\ recvBuf' = After(recvBuf, n)
  /\ UNCHANGED <<arrived, got, inbound, dropped>>

\* The first packet of a sequence goes to the channel or is dropped.
Hands(s) ==
  \/ inbound' = inbound \o First(s, 1) /\ dropped' = dropped
  \/ inbound' = inbound /\ (component => dropped' = dropped \cup Elements(First(s, 1)))

HandsBatch ==
  /\ batch' = After(batch, 1) /\ Hands(batch)
  /\ UNCHANGED <<arrived, got, recvBuf>>

HandsRest ==
  /\ batch = <<>>
  /\ recvBuf' = After(recvBuf, 1) /\ Hands(recvBuf)
  /\ UNCHANGED <<arrived, got, batch>>

Loses ==
  /\ UNCHANGED <<arrived, got, batch, dropped>>
  /\ \/ UNCHANGED <<inbound, recvBuf>>
     \/ inbound' = <<>> /\ ~component' /\ UNCHANGED recvBuf
     \/ UNCHANGED inbound /\ recvBuf' = <<>> /\ quic' # "open" /\ UNCHANGED atEnd

\* transfer_payload_data is such a hand-over.
LEMMA TransferHands ==
  ASSUME TypeOK, NEW s \in Seq(Nat), s # <<>>, Transfer(Head(s))
  PROVE Hands(s) /\ Tail(s) = After(s, 1)
<1>1. /\ After(s, 1) = Tail(s) /\ Elements(First(s, 1)) = {Head(s)}
      /\ Append(inbound, Head(s)) = inbound \o First(s, 1)
      BY HeadIs DEF TypeOK
<1> QED BY <1>1 DEF Transfer, Hands

\* Every step is one of the six.
LEMMA Moves ==
  ASSUME TypeOK, Steady, [Next]_vars
  PROVE \/ PeerSends /\ Arrives
        \/ \E n \in Nat : Reads(n) /\ component
        \/ \E n \in Nat : Fills(n)
        \/ HandsBatch \/ HandsRest \/ Loses
<1> USE DEF vars, peerVars, bevyVars, taskVars
<1>1. CASE PeerSends
      BY <1>1 DEF PeerSends, Arrives
<1>2. CASE Recv
  <2>1. Reads(1)
    <3>1. /\ After(inbound, 1) = Tail(inbound)
          /\ Append(got, Head(inbound)) = got \o First(inbound, 1)
          BY <1>2, HeadIs DEF Recv, TypeOK
    <3> QED BY <1>2, <3>1 DEF Recv, Reads
  <2> QED BY <1>2, <2>1 DEF Recv, Running
<1>3. CASE RecvManyReturns
  <2>1. First(inbound, MaxTransfer) = First(inbound, Least(MaxTransfer, Len(inbound)))
        BY FrontTyped, ReceiveBounds DEF TypeOK
  <2>2. Least(MaxTransfer, Len(inbound)) \in Nat
        BY ReceiveBounds DEF Least, TypeOK
  <2>3. Reads(Least(MaxTransfer, Len(inbound)))
        BY <1>3, <2>1 DEF RecvManyReturns, Reads
  <2>4. component
        BY <1>3 DEF RecvManyReturns, Steady, Course
  <2> QED BY <2>2, <2>3, <2>4
<1>4. CASE PollReceive
  <2>1. CASE TakeBatch
    <3>1. First(recvBuf, MaxBatch) = First(recvBuf, Least(MaxBatch, Len(recvBuf)))
          BY FrontTyped, ReceiveBounds DEF TypeOK
    <3>2. Least(MaxBatch, Len(recvBuf)) \in Nat
          BY ReceiveBounds DEF Least, TypeOK
    <3>3. batch = <<>>
          BY <1>4 DEF PollReceive, Steady, Course
    <3>4. Fills(Least(MaxBatch, Len(recvBuf)))
          BY <1>4, <2>1, <3>1, <3>3 DEF PollReceive, TakeBatch, Fills
    <3> QED BY <3>2, <3>4
  <2>2. CASE UNCHANGED <<recvBuf, batch, atEnd>>
        BY <1>4, <2>2 DEF PollReceive, Loses
  <2> QED BY <1>4, <2>1, <2>2 DEF PollReceive
<1>5. CASE TransferNext
      BY <1>5, TransferHands DEF TransferNext, HandsBatch, TypeOK
<1>6. CASE EmptyNext
  <2>1. batch = <<>>
        BY <1>6 DEF EmptyNext, Steady, Course
  <2> QED BY <1>6, <2>1, TransferHands DEF EmptyNext, HandsRest, TypeOK
<1>7. CASE Despawn \/ HandleDisconnection
      BY <1>7 DEF Despawn, HandleDisconnection, Loses
<1>8. ASSUME NEW how \in Failures, StreamFails(how) PROVE Loses
      BY <1>8, ReasonsAre DEF StreamFails, Loses
<1>9. CASE BeginStop
  <2>1. quic' # "open" \/ recvBuf = <<>>
        BY <1>9, ReasonsAre DEF BeginStop, StopSending, Steady, Course
  <2> QED BY <1>9, <2>1 DEF BeginStop, Loses
<1>10. CASE \/ PeerFinishes \/ RecvMany \/ StopSend \/ StopSendReturns
            \/ Dispatch \/ DispatchDrop \/ TransferEnd \/ PollControl
            \/ Publish \/ StopCancelled \/ Reap \/ UNCHANGED vars
      BY <1>10 DEF PeerFinishes, RecvMany, StopSend, StopSendReturns, Dispatch,
         DispatchDrop, RemoveTask, TransferEnd, PollControl, Publish, StopCancelled,
         Reap, Loses
<1> QED BY <1>1, <1>2, <1>3, <1>4, <1>5, <1>6, <1>7, <1>8, <1>9, <1>10 DEF Next, Poll

-----------------------------------------------------------------------------
Flow ==
  /\ Increasing(got) /\ Increasing(inbound) /\ Increasing(batch) /\ Increasing(recvBuf)
  /\ Before(got, inbound) /\ Before(got, batch) /\ Before(got, recvBuf)
  /\ Before(inbound, batch) /\ Before(inbound, recvBuf) /\ Before(batch, recvBuf)
  /\ \A m \in Elements(got) \cup Elements(inbound) \cup Elements(batch)
                            \cup Elements(recvBuf) : m <= arrived

Waiting == Elements(inbound) \cup Elements(batch) \cup Elements(recvBuf)

\* What the pipe calls in transit, part by part, before and after a step.
LEMMA WaitingIs == TypeOK => Elements(inbound \o batch \o recvBuf) = Waiting
  BY JoinThree DEF TypeOK, Waiting

LEMMA WaitingNextIs ==
  TypeOK' => Elements(inbound' \o batch' \o recvBuf') = Waiting'
<1> SUFFICES ASSUME TypeOK' PROVE Elements(inbound' \o batch' \o recvBuf') = Waiting'
    OBVIOUS
<1>1. inbound' \in Seq(Nat) /\ batch' \in Seq(Nat) /\ recvBuf' \in Seq(Nat)
      BY DEF TypeOK
<1> QED BY <1>1, JoinThree DEF Waiting

\* A new message is behind all others.
LEMMA ArriveFlow ==
  ASSUME TypeOK, Flow, Arrives
  PROVE Flow' /\ Waiting' = Waiting \cup {arrived'}
<1>1. arrived \in Nat /\ arrived' = arrived + 1 /\ recvBuf \in Seq(Nat)
      BY DEF Arrives, TypeOK
<1>2. \A x \in {got, inbound, batch, recvBuf} : Elements(x) \subseteq Nat
      BY DEF TypeOK, Elements
<1>3. \A m \in Elements(got) \cup Elements(inbound) \cup Elements(batch)
                             \cup Elements(recvBuf) : m < arrived' /\ m <= arrived'
      BY <1>1, <1>2 DEF Flow
<1>4. /\ Elements(recvBuf') = Elements(recvBuf) \cup {arrived'}
      /\ Increasing(recvBuf')
      BY <1>1, <1>3, AppendIs DEF Arrives, Flow
<1>5. UNCHANGED <<got, inbound, batch>> /\ arrived' <= arrived'
      BY <1>1 DEF Arrives
<1> QED BY <1>3, <1>4, <1>5 DEF Flow, Before, Waiting

\* The steps of the pipe that take p out at its end.
Passes(p) ==
  /\ p \in Seq(Nat) /\ got' = got \o p /\ arrived' = arrived
  /\ Increasing(p) /\ Elements(p) \subseteq Waiting
  /\ Waiting' \subseteq Waiting
  /\ \A m \in Elements(p), n \in Waiting' : m < n

\* The application takes a front of the channel.
LEMMA ReadFlow ==
  ASSUME TypeOK, Flow, NEW n \in Nat, Reads(n)
  PROVE Flow' /\ Passes(First(inbound, n))
<1> DEFINE f == First(inbound, n)
<1>1. got \in Seq(Nat) /\ inbound \in Seq(Nat)
      BY DEF TypeOK
<1>2. /\ got' = got \o f /\ inbound' = After(inbound, n)
      /\ UNCHANGED <<arrived, batch, recvBuf>>
      BY DEF Reads
<1>3. /\ f \in Seq(Nat) /\ Increasing(f) /\ Before(f, inbound')
      BY <1>1, <1>2, CutIs DEF Flow
<1>4. /\ Increasing(got') /\ Increasing(inbound') /\ Before(got', inbound')
      /\ Elements(got') = Elements(got) \cup Elements(f)
      /\ Elements(f) \subseteq Elements(inbound)
      /\ Elements(inbound') \subseteq Elements(inbound)
      BY <1>1, <1>2, MoveIs DEF Flow
<1> HIDE DEF f
<1>5. Flow'
      BY <1>2, <1>4 DEF Flow, Before
<1>6. Before(f, batch) /\ Before(f, recvBuf)
      BY <1>4 DEF Flow, Before
<1>7. \A m \in Elements(f), k \in Waiting' : m < k
      BY <1>2, <1>3, <1>6 DEF Waiting, Before
<1>8. Elements(f) \subseteq Waiting /\ Waiting' \subseteq Waiting
      BY <1>2, <1>4 DEF Waiting
<1> QED BY <1>2, <1>3, <1>5, <1>7, <1>8 DEF Passes, f

\* Steps behind the channel take nothing out.
LEMMA PassesNone ==
  ASSUME TypeOK, UNCHANGED <<got, arrived>>, Waiting' \subseteq Waiting
  PROVE Passes(<<>>)
<1>1. got \o <<>> = got
      BY ConcatEmptySeq DEF TypeOK
<1> QED BY <1>1, EmptyPiece DEF Passes

\* The batch is a front of what the library holds.
LEMMA FillFlow ==
  ASSUME TypeOK, Flow, NEW n \in Nat, Fills(n)
  PROVE Flow' /\ Passes(<<>>)
<1>1. /\ Increasing(batch') /\ Increasing(recvBuf') /\ Before(batch', recvBuf')
      /\ Elements(batch') \subseteq Elements(recvBuf)
      /\ Elements(recvBuf') \subseteq Elements(recvBuf)
      BY CutIs DEF Fills, Flow, TypeOK
<1>2. UNCHANGED <<arrived, got, inbound>>
      BY DEF Fills
<1>3. Flow' /\ Waiting' \subseteq Waiting
      BY <1>1, <1>2 DEF Flow, Before, Waiting
<1> QED BY <1>2, <1>3, PassesNone

\* A packet that goes to the channel, or nowhere.
LEMMA HandFlow ==
  ASSUME TypeOK, Flow, HandsBatch \/ HandsRest
  PROVE Flow' /\ Passes(<<>>)
<1>1. /\ inbound \in Seq(Nat) /\ batch \in Seq(Nat) /\ recvBuf \in Seq(Nat) /\ 1 \in Nat
      /\ UNCHANGED <<arrived, got>>
      BY DEF HandsBatch, HandsRest, TypeOK
<1>2. CASE HandsBatch
  <2>1. /\ Increasing(inbound \o First(batch, 1)) /\ Increasing(batch')
        /\ Elements(inbound \o First(batch, 1)) \subseteq Elements(inbound) \cup Elements(batch)
        /\ Elements(batch') \subseteq Elements(batch)
        /\ Before(inbound \o First(batch, 1), batch')
        BY <1>1, <1>2, MoveIs DEF HandsBatch, Flow
  <2>2. inbound' = inbound \o First(batch, 1) \/ inbound' = inbound
        BY <1>2 DEF HandsBatch, Hands
  <2>3. /\ Increasing(inbound') /\ Before(inbound', batch')
        /\ Elements(inbound') \subseteq Elements(inbound) \cup Elements(batch)
        BY <2>1, <2>2 DEF Flow, Before
  <2>4. UNCHANGED recvBuf
        BY <1>2 DEF HandsBatch
  <2>5. Flow' /\ Waiting' \subseteq Waiting
        BY <1>1, <2>1, <2>3, <2>4 DEF Flow, Before, Waiting
  <2> QED BY <1>1, <2>5, PassesNone
<1>3. CASE HandsRest
  <2>1. /\ Increasing(inbound \o First(recvBuf, 1)) /\ Increasing(recvBuf')
        /\ Elements(inbound \o First(recvBuf, 1))
             \subseteq Elements(inbound) \cup Elements(recvBuf)
        /\ Elements(recvBuf') \subseteq Elements(recvBuf)
        /\ Before(inbound \o First(recvBuf, 1), recvBuf')
        BY <1>1, <1>3, MoveIs DEF HandsRest, Flow
  <2>2. inbound' = inbound \o First(recvBuf, 1) \/ inbound' = inbound
        BY <1>3 DEF HandsRest, Hands
  <2>3. /\ Increasing(inbound') /\ Before(inbound', recvBuf')
        /\ Elements(inbound') \subseteq Elements(inbound) \cup Elements(recvBuf)
        BY <2>1, <2>2 DEF Flow, Before
  <2>4. UNCHANGED batch /\ Elements(batch) = {}
        BY <1>3, EmptyPiece DEF HandsRest
  <2>5. Flow' /\ Waiting' \subseteq Waiting
        BY <1>1, <2>1, <2>3, <2>4 DEF Flow, Before, Waiting
  <2> QED BY <1>1, <2>5, PassesNone
<1> QED BY <1>2, <1>3

\* What is lost leaves the rest in order.
LEMMA LoseFlow ==
  ASSUME TypeOK, Flow, Loses
  PROVE Flow' /\ Passes(<<>>)
<1>1. /\ Increasing(inbound') /\ Elements(inbound') \subseteq Elements(inbound)
      /\ Increasing(recvBuf') /\ Elements(recvBuf') \subseteq Elements(recvBuf)
      BY EmptyPiece DEF Loses, Flow
<1>2. UNCHANGED <<arrived, got, batch>>
      BY DEF Loses
<1>3. Flow' /\ Waiting' \subseteq Waiting
      BY <1>1, <1>2 DEF Flow, Before, Waiting
<1> QED BY <1>2, <1>3, PassesNone

\* Every step keeps the order.
LEMMA FlowStep ==
  ASSUME TypeOK, Steady, Flow, [Next]_vars
  PROVE /\ Flow'
        /\ \/ PeerSends /\ Arrives /\ Waiting' = Waiting \cup {arrived'}
           \/ \E p : Passes(p) /\ (component \/ p = <<>>)
<1>1. CASE PeerSends /\ Arrives
      BY <1>1, ArriveFlow
<1>2. ASSUME NEW n \in Nat, Reads(n), component
      PROVE Flow' /\ \E p : Passes(p) /\ component
      BY <1>2, ReadFlow
<1>3. ASSUME NEW n \in Nat, Fills(n) PROVE Flow' /\ Passes(<<>>)
      BY <1>3, FillFlow
<1>4. CASE HandsBatch \/ HandsRest
      BY <1>4, HandFlow
<1>5. CASE Loses
      BY <1>5, LoseFlow
<1> QED BY <1>1, <1>2, <1>3, <1>4, <1>5, Moves

-----------------------------------------------------------------------------
(* The refinement of OrderedPipe.                                           *)

\* A component that is gone does not come back.
LEMMA GoneStays == [Next]_vars /\ ~component => ~component'
  BY DEF Next, Poll, vars, peerVars, bevyVars, taskVars, PeerSends, PeerFinishes,
     StreamFails, Recv, RecvMany, RecvManyReturns, StopSend, StopSendReturns, Despawn,
     HandleDisconnection, Dispatch, DispatchDrop, RemoveTask, PollReceive, TransferNext,
     TransferEnd, PollControl, BeginStop, EmptyNext, Publish, StopCancelled, Reap

\* A step that takes p out, and loses others at most, is one of the pipe's.
LEMMA LeaveIs ==
  ASSUME TypeOK, TypeOK', NEW p, Passes(p), ~component => ~component' /\ p = <<>>
  PROVE Pipe!Leave
<1>1. p \in Seq(Nat) /\ got \in Seq(Nat) /\ got' = got \o p
      BY DEF Passes, TypeOK
<1>2. Pipe!Passed = p
      BY <1>1, RestIs DEF Pipe!Passed
<1>3. Elements(inbound \o batch \o recvBuf) = Waiting
      BY WaitingIs
<1>4. Elements(inbound' \o batch' \o recvBuf') = Waiting'
      BY WaitingNextIs
<1>5. \A a, b \in DOMAIN p : a < b => p[a] < p[b]
      BY DEF Passes, Increasing
<1>6. \A i \in DOMAIN p : p[i] \in Waiting /\ \A m \in Waiting' : p[i] < m
      BY DEF Passes, Elements
<1>7. Waiting' \subseteq Waiting /\ arrived' = arrived
      BY DEF Passes
<1> QED BY <1>1, <1>2, <1>3, <1>4, <1>5, <1>6, <1>7 DEF Pipe!Leave

\* So is one by which a message arrives.
LEMMA EnterIs ==
  ASSUME TypeOK, TypeOK', PeerSends, Arrives, Waiting' = Waiting \cup {arrived'}
  PROVE Pipe!Enter
<1>1. arrived' = arrived + 1 /\ UNCHANGED <<got, component>>
      BY DEF Arrives, PeerSends, bevyVars
<1>2. Elements(inbound \o batch \o recvBuf) = Waiting
      BY WaitingIs
<1>3. Elements(inbound' \o batch' \o recvBuf') = Waiting'
      BY WaitingNextIs
<1>4. /\ arrived' \in Nat /\ arrived' > arrived
      /\ arrived + 1 .. arrived' = {arrived'}
  <2>1. arrived \in Nat
        BY DEF TypeOK
  <2> QED BY <1>1, <2>1
<1> QED BY <1>1, <1>2, <1>3, <1>4 DEF Pipe!Enter

\* Together: every step of the code is a step of the pipe, or none.
LEMMA PipeStep ==
  ASSUME TypeOK, TypeOK', Steady, Flow, [Next]_vars
  PROVE [Pipe!Next]_(Pipe!vars)
<1>1. CASE PeerSends /\ Arrives /\ Waiting' = Waiting \cup {arrived'}
      BY <1>1, EnterIs DEF Pipe!Next
<1>2. ASSUME NEW p, Passes(p), component \/ p = <<>>
      PROVE [Pipe!Next]_(Pipe!vars)
  <2>1. ~component => ~component' /\ p = <<>>
        BY <1>2, GoneStays
  <2>2. Pipe!Leave
        BY <1>2, <2>1, LeaveIs
  <2> QED BY <2>2 DEF Pipe!Next
<1> QED BY <1>1, <1>2, FlowStep

\* A new stream is an empty pipe.
LEMMA FlowInit == Init => Flow /\ Pipe!Init
<1> SUFFICES ASSUME Init PROVE Flow /\ Pipe!Init
    OBVIOUS
<1>1. /\ got = <<>> /\ inbound = <<>> /\ batch = <<>> /\ recvBuf = <<>> /\ arrived = 0
      /\ component = TRUE
      BY DEF Init
<1>2. Flow
      BY <1>1, EmptyPiece DEF Flow, Before
<1>3. Elements(inbound \o batch \o recvBuf) = {}
      BY <1>1, ReceiveTypeInit, WaitingIs, EmptyPiece DEF Waiting
<1>4. Pipe!Init
      BY <1>1, <1>3 DEF Pipe!Init
<1> QED BY <1>2, <1>4

\* The application reads the messages of the peer in their order and none twice,
\* and none after its component is gone, whatever the bounds are.
THEOREM ReceiveImplementsPipe == Spec => ImplementsPipe
<1>1. Init => Flow /\ Pipe!Init
      BY FlowInit
<1>2. TypeOK /\ TypeOK' /\ Steady /\ Flow /\ [Next]_vars
        => Flow' /\ [Pipe!Next]_(Pipe!vars)
      BY FlowStep, PipeStep
<1> QED BY <1>1, <1>2, ReceiveTypeCorrect, AlwaysSteady, PTL
        DEF Spec, ImplementsPipe, Pipe!Spec

-----------------------------------------------------------------------------
(* None is missing: while the stream is open, or its end was read, whatever *)
(* reached this side is in one of the sequences or was dropped.             *)

Present == Elements(got) \cup Waiting \cup dropped

Cover == component /\ (quic = "open" \/ atEnd) => 1 .. arrived \subseteq Present

\* Only a stream that ends, or a component that goes, takes messages along.
LEMMA PresentStays ==
  ASSUME TypeOK, Steady, [Next]_vars, component', quic' = "open" \/ atEnd
  PROVE /\ Present \subseteq Present'
        /\ 1 .. arrived' \subseteq 1 .. arrived \cup Present'
<1>1. CASE Arrives
  <2>1. Elements(recvBuf') = Elements(recvBuf) \cup {arrived + 1}
        BY <1>1, AppendIs DEF Arrives, TypeOK
  <2>2. arrived' = arrived + 1 /\ arrived \in Nat /\ UNCHANGED <<got, inbound, batch, dropped>>
        BY <1>1 DEF Arrives, TypeOK
  <2>3. 1 .. arrived' = 1 .. arrived \cup {arrived + 1}
        BY <2>2
  <2> QED BY <2>1, <2>2, <2>3 DEF Present, Waiting
<1>2. ASSUME NEW n \in Nat, Reads(n) PROVE Present \subseteq Present' /\ arrived' = arrived
  <2>1. /\ Elements(inbound) \subseteq Elements(First(inbound, n)) \cup Elements(inbound')
        /\ First(inbound, n) \in Seq(Nat)
        BY <1>2, CutIs, CutCovers DEF Reads, TypeOK
  <2>2. Elements(got') = Elements(got) \cup Elements(First(inbound, n))
        BY <1>2, <2>1, JoinIs DEF Reads, TypeOK
  <2> QED BY <1>2, <2>1, <2>2 DEF Reads, Present, Waiting
<1>3. ASSUME NEW n \in Nat, Fills(n) PROVE Present \subseteq Present' /\ arrived' = arrived
  <2>1. Elements(recvBuf) \subseteq Elements(batch') \cup Elements(recvBuf')
        BY <1>3, CutCovers DEF Fills, TypeOK
  <2>2. Elements(batch) = {}
        BY <1>3, EmptyPiece DEF Fills
  <2> QED BY <1>3, <2>1, <2>2 DEF Fills, Present, Waiting
<1>4. ASSUME NEW s \in Seq(Nat), Hands(s)
      PROVE /\ Elements(s) \subseteq Elements(After(s, 1)) \cup Elements(inbound') \cup dropped'
            /\ Elements(inbound) \subseteq Elements(inbound') /\ dropped \subseteq dropped'
  <2>1. /\ Elements(s) \subseteq Elements(First(s, 1)) \cup Elements(After(s, 1))
        /\ First(s, 1) \in Seq(Nat)
        BY CutIs, CutCovers
  <2>2. Elements(inbound \o First(s, 1)) = Elements(inbound) \cup Elements(First(s, 1))
        BY <2>1, JoinIs DEF TypeOK
  <2>3. component
        BY GoneStays
  <2> QED BY <1>4, <2>1, <2>2, <2>3 DEF Hands
<1>5. CASE HandsBatch
      BY <1>4, <1>5 DEF HandsBatch, Present, Waiting, TypeOK
<1>6. CASE HandsRest
      BY <1>4, <1>6 DEF HandsRest, Present, Waiting, TypeOK
<1>7. CASE Loses
  <2>1. inbound' = inbound
        BY <1>7 DEF Loses
  <2>2. recvBuf' = recvBuf
        BY <1>7 DEF Loses, Steady, Course
  <2> QED BY <1>7, <2>1, <2>2 DEF Loses, Present, Waiting
<1> QED BY <1>1, <1>2, <1>3, <1>5, <1>6, <1>7, Moves

\* A stream that is open was open before; its end is noted by a read of the last.
LEMMA OpenWas ==
  ASSUME TypeOK, Steady, [Next]_vars
  PROVE /\ quic' = "open" => quic = "open"
        /\ atEnd' => atEnd \/ (quic = "open" /\ quic' = "open")
<1> USE DEF vars, peerVars, bevyVars, taskVars
<1>1. CASE PollReceive
      BY <1>1 DEF PollReceive
<1>2. CASE PollControl \/ BeginStop
      BY <1>2 DEF PollControl, BeginStop, StopSending
<1>3. ASSUME NEW how \in Failures, StreamFails(how)
      PROVE quic' # "open" /\ UNCHANGED atEnd
      BY <1>3, ReasonsAre DEF StreamFails
<1>4. CASE UNCHANGED <<quic, atEnd>>
      BY <1>4
<1> QED BY <1>1, <1>2, <1>3, <1>4 DEF Next, Poll, PeerSends, PeerFinishes, Recv, RecvMany,
        RecvManyReturns, StopSend, StopSendReturns, Despawn, HandleDisconnection, Dispatch,
        DispatchDrop, RemoveTask, TransferNext, TransferEnd, EmptyNext, Publish,
        StopCancelled, Reap

\* So no step makes a message disappear that the end would overtake.
LEMMA CoverStep ==
  ASSUME TypeOK, Steady, Cover, [Next]_vars
  PROVE Cover'
<1> SUFFICES ASSUME component', quic' = "open" \/ atEnd' PROVE 1 .. arrived' \subseteq Present'
    BY DEF Cover
<1>1. component /\ (quic = "open" \/ atEnd) /\ (quic' = "open" \/ atEnd)
      BY OpenWas, GoneStays
<1>2. 1 .. arrived \subseteq Present
      BY <1>1 DEF Cover
<1> QED BY <1>1, <1>2, PresentStays

\* At first there is none.
LEMMA CoverInit == Init => Cover
  BY DEF Init, Cover

LEMMA AlwaysCovered == Spec => [](Steady /\ Cover)
<1>1. TypeOK /\ Steady /\ Cover /\ [Next]_vars => Cover'
      BY CoverStep
<1> QED BY <1>1, CoverInit, ReceiveTypeCorrect, AlwaysSteady, PTL DEF Spec

\* What this means for those that read.
LEMMA CoverTells == Steady /\ Cover => NothingMissing /\ EndAfterData
<1> SUFFICES ASSUME Steady, Cover PROVE NothingMissing /\ EndAfterData
    OBVIOUS
<1>1. NothingMissing
      BY DEF Cover, NothingMissing, Present, Waiting
<1>2. ASSUME taskState = "PeerClosed", component
      PROVE 1 .. arrived \subseteq Elements(got) \cup Elements(inbound) \cup dropped
  <2>1. atEnd /\ recvBuf = <<>> /\ task \in {"done", "gone"}
        BY <1>2 DEF Steady, Course, NoReason
  <2>2. batch = <<>>
        BY <2>1 DEF Steady, Course
  <2>3. Waiting = Elements(inbound)
        BY <2>1, <2>2, EmptyPiece DEF Waiting
  <2> QED BY <1>2, <2>1, <2>3 DEF Cover, Present
<1> QED BY <1>1, <1>2 DEF EndAfterData

\* While nothing ended the stream, a message of the peer is missing only when the
\* inbound channel had no room for it, whatever the bounds are.
THEOREM NothingGoesMissing == Spec => []NothingMissing
  BY CoverTells, AlwaysCovered, PTL

\* The news that the peer closed the stream never overtakes its data, whatever
\* the bounds are.
THEOREM EndComesAfterData == Spec => []EndAfterData
  BY CoverTells, AlwaysCovered, PTL
=============================================================================
