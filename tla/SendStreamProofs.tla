-------------------------- MODULE SendStreamProofs --------------------------
(* What TLAPS proves of SendStream, for every value of its constants.       *)
EXTENDS SendStream, SequencePiecesProofs

\* The assumptions in the form most steps use.
LEMMA SendBounds ==
  /\ MaxMessages \in Nat /\ MaxCalls \in Nat /\ OutCap \in Nat /\ CtrlCap \in Nat
  /\ MaxBatch \in Nat /\ MaxBatch > 0 /\ MaxWindow \in Nat
  BY SendAssumption DEF SendAssumption

\* The pieces a poll makes of send_buf and the channel.
LEMMA SliceIs ==
  ASSUME TypeOK, NEW buf \in Seq(Nat), NEW count \in Nat
  PROVE Slice(buf, count) \in Seq(Nat)
<1>1. (IF count > spent THEN count - spent ELSE 0) \in Nat
      BY DEF TypeOK
<1> QED BY <1>1, FirstIs DEF Slice

LEMMA BufIs ==
  ASSUME TypeOK
  PROVE LET count == Least(MaxBatch, Len(outbound))
        IN /\ count \in Nat
           /\ kept \o First(outbound, count) \in Seq(Nat)
           /\ After(outbound, count) \in Seq(Nat)
           /\ Len(After(outbound, count)) <= OutCap
<1> DEFINE count == Least(MaxBatch, Len(outbound))
<1>1. outbound \in Seq(Nat) /\ Len(outbound) \in Nat /\ Len(outbound) <= OutCap
      /\ kept \in Seq(Nat)
      BY DEF TypeOK
<1>2. count \in Nat
      BY <1>1, SendBounds DEF Least
<1> HIDE DEF count
<1>3. First(outbound, count) \in Seq(Nat) /\ After(outbound, count) \in Seq(Nat)
      BY <1>1, <1>2, CutIs
<1>4. Len(After(outbound, count)) <= OutCap
      BY <1>1, <1>2, AfterIs, SendBounds
<1>5. kept \o First(outbound, count) \in Seq(Nat)
      BY <1>1, <1>3, ConcatProperties
<1> QED BY <1>2, <1>3, <1>4, <1>5 DEF count

\* What the channel takes are the numbers behind those handed over before.
LEMMA HandOverIs ==
  ASSUME TypeOK, NEW origins \in Seq(Nat), HandOver(origins)
  PROVE /\ handed' \in Seq(Nat) /\ Len(handed') = Len(handed) + Len(origins)
        /\ outbound' \in Seq(Nat) /\ Len(outbound') = Len(outbound) + Len(origins)
        /\ \E new \in Seq(Nat) :
             /\ outbound' = outbound \o new /\ Len(new) = Len(origins)
             /\ Counted(new, Len(handed)) /\ Increasing(new)
             /\ Elements(new) = Len(handed) + 1 .. Len(handed')
<1> DEFINE new == [i \in 1 .. Len(origins) |-> Len(handed) + i]
<1>1. Len(handed) \in Nat /\ Len(origins) \in Nat
      /\ handed \in Seq(Nat) /\ outbound \in Seq(Nat)
      BY DEF TypeOK
<1>2. /\ new \in Seq(Nat) /\ Len(new) = Len(origins) /\ Counted(new, Len(handed))
      /\ Increasing(new) /\ Elements(new) = Len(handed) + 1 .. Len(handed) + Len(origins)
      BY <1>1, NumbersAre
<1>3. handed' = handed \o origins /\ outbound' = outbound \o new
      BY DEF HandOver
<1> HIDE DEF new
<1>4. handed' \in Seq(Nat) /\ Len(handed') = Len(handed) + Len(origins)
      BY <1>1, <1>3, ConcatProperties
<1>5. outbound' \in Seq(Nat) /\ Len(outbound') = Len(outbound) + Len(origins)
  <2>1. new \in Seq(Nat) /\ outbound \in Seq(Nat)
        BY <1>1, <1>2
  <2>2. outbound \o new \in Seq(Nat) /\ Len(outbound \o new) = Len(outbound) + Len(new)
        BY <2>1, ConcatProperties
  <2> QED BY <1>2, <1>3, <2>2
<1> QED BY <1>2, <1>3, <1>4, <1>5

\* Both ways of sending hand over at least one message, and no more than there is
\* room for.
LEMMA HandsOver ==
  ASSUME TypeOK, Send \/ SendManyDrain
  PROVE /\ \E origins \in Seq(Nat) : /\ HandOver(origins) /\ Len(origins) \in Nat \ {0}
                                     /\ Len(origins) <= Room
        /\ UNCHANGED <<packets, component, call, calls, control, taskState, taskVars,
                       quicVars>>
<1>1. Room \in Nat /\ Room > 0 /\ session \in Seq(Nat)
      BY SendBounds DEF Send, SendManyDrain, Room, TypeOK
<1>2. CASE Send
  <2>1. <<0>> \in Seq(Nat) /\ Len(<<0>>) = 1
        OBVIOUS
  <2>2. /\ HandOver(<<0>>)
        /\ UNCHANGED <<packets, component, call, calls, control, taskState, taskVars,
                       quicVars>>
        BY <1>2 DEF Send
  <2>3. 1 \in Nat \ {0} /\ 1 <= Room
        BY <1>1
  <2> HIDE DEF HandOver, Room
  <2> QED BY <2>1, <2>2, <2>3
<1>3. CASE SendManyDrain
  <2>1. /\ First(session, Room) \in Seq(Nat)
        /\ Len(First(session, Room)) = Least(Room, Len(session))
        BY <1>1, FirstIs
  <2>2. Len(session) \in Nat \ {0}
        BY <1>1, <1>3 DEF SendManyDrain
  <2>3. Least(Room, Len(session)) \in Nat \ {0} /\ Least(Room, Len(session)) <= Room
        BY <1>1, <2>2 DEF Least
  <2> QED BY <1>3, <2>1, <2>3 DEF SendManyDrain
<1> QED BY <1>2, <1>3

\* What QuicSendStream::new leaves is well typed...
LEMMA SendTypeInit == Init => TypeOK
<1> SUFFICES ASSUME Init PROVE TypeOK
    OBVIOUS
<1>1. /\ session \in Seq(Nat) /\ handed \in Seq(Nat) /\ packets \in Nat
      /\ outbound \in Seq(Nat) /\ Len(outbound) <= OutCap
      /\ kept \in Seq(Nat) /\ wire \in Seq(Nat)
      BY SendBounds DEF Init
<1>2. control \in Seq(Controls) /\ Len(control) <= CtrlCap
      BY SendBounds DEF Init
<1>3. /\ calls \in 0 .. MaxCalls
      /\ window \in 0 .. MaxWindow /\ spent \in Nat
      BY SendBounds DEF Init
<1>4. /\ component \in BOOLEAN /\ call \in Controls \cup {"idle"}
      /\ cancelled \in BOOLEAN /\ acked \in BOOLEAN
      BY DEF Init
<1>5. /\ taskState \in Reasons \cup {NoReason}
      /\ task \in {"queued", "run", "closing", "done", "gone", "dropped"}
      /\ quic \in {"open", "finished", "reset", "lost"}
      BY DEF Init, Reasons, NoReason
<1> QED BY <1>1, <1>2, <1>3, <1>4, <1>5 DEF TypeOK

\* The reasons an error gives are among those that are published.
LEMMA ReasonTyped ==
  /\ "None" = NoReason /\ Reasons = {"UserClosed", "InvalidStream", "Reset",
                                     "MspcChannelClosed", "OrchestratorError"}
  /\ ErrorReason \in Reasons \cup {NoReason}
  BY DEF ErrorReason, Reasons, NoReason

\* The end of a task is well typed, whatever the reason.
LEMMA EndTyped ==
  ASSUME TypeOK, NEW r \in Reasons, End(r)
  PROVE taskState' \in Reasons /\ task' = "closing"
  BY DEF End, TypeOK

\* ...and every step keeps it so.
LEMMA SendTypeStep == TypeOK /\ [Next]_vars => TypeOK'
<1> SUFFICES ASSUME TypeOK, [Next]_vars PROVE TypeOK'
    OBVIOUS
<1> USE DEF vars, bevyVars, taskVars, quicVars
<1>1. CASE Produce
  <2>1. packets' \in Nat /\ session' \in Seq(Nat)
        BY <1>1, AppendProperties DEF Produce, TypeOK
  <2> QED BY <1>1, <2>1 DEF Produce, TypeOK
<1>2. CASE Send \/ SendManyDrain
  <2>1. PICK origins \in Seq(Nat) : HandOver(origins) /\ Len(origins) \in Nat \ {0}
                                   /\ Len(origins) <= Room
        BY <1>2, HandsOver
  <2>2. /\ handed' \in Seq(Nat) /\ outbound' \in Seq(Nat)
        /\ Len(outbound') = Len(outbound) + Len(origins)
        BY <2>1, HandOverIs
  <2>3. Len(outbound') <= OutCap
        BY <2>1, <2>2, SendBounds DEF Room, TypeOK
  <2>4. session' \in Seq(Nat)
    <3>1. CASE UNCHANGED session
          BY <3>1 DEF TypeOK
    <3>2. CASE SendManyDrain
      <4>1. Room \in Nat /\ session \in Seq(Nat) /\ Len(session) \in Nat
            BY <3>2, SendBounds DEF SendManyDrain, Room, TypeOK
      <4>2. Least(Room, Len(session)) \in Nat
            BY <4>1 DEF Least
      <4> QED BY <3>2, <4>1, <4>2, CutIs DEF SendManyDrain, Leaves
    <3> QED BY <1>2, <3>1, <3>2 DEF Send
  <2>5. UNCHANGED <<packets, component, call, calls, control, taskState, taskVars,
                    quicVars>>
        BY <1>2, HandsOver
  <2> QED BY <2>2, <2>3, <2>4, <2>5 DEF TypeOK
<1>4. ASSUME NEW c \in Controls, Call(c) PROVE TypeOK'
      BY <1>4, SendBounds DEF Call, TypeOK
<1>5. CASE CallReturns
  <2>1. call \in Controls
        BY <1>5 DEF CallReturns, TypeOK
  <2>2. CASE control' = Append(control, call) /\ Len(control) < CtrlCap
    <3>1. control' \in Seq(Controls) /\ Len(control') = Len(control) + 1
          BY <2>1, <2>2, AppendProperties DEF TypeOK
    <3> QED BY <1>5, <2>2, <3>1, SendBounds DEF CallReturns, TypeOK
  <2>3. CASE UNCHANGED control
        BY <1>5, <2>3 DEF CallReturns, TypeOK
  <2> QED BY <1>5, <2>2, <2>3 DEF CallReturns
<1>6. CASE Despawn \/ HandleDisconnection
  <2>1. /\ component' = FALSE /\ session' = <<>>
        /\ UNCHANGED <<packets, handed, call, calls, outbound, control, taskState,
                       taskVars, quicVars>>
        BY <1>6 DEF HandleDisconnection, Despawn
  <2>2. session' \in Seq(Nat)
        BY <2>1
  <2> QED BY <2>1, <2>2 DEF TypeOK
<1>7. CASE GrantWindow
      BY <1>7, SendBounds DEF GrantWindow, TypeOK
<1>8. CASE AckAll
      BY <1>8 DEF AckAll, TypeOK
<1>9. ASSUME NEW how \in {"reset", "lost"}, StreamFails(how) PROVE TypeOK'
  <2>1. quic' \in {"open", "finished", "reset", "lost"}
        BY <1>9 DEF StreamFails
  <2>2. UNCHANGED <<bevyVars, outbound, control, taskState, taskVars, acked, window, wire>>
        BY <1>9 DEF StreamFails
  <2> QED BY <2>1, <2>2 DEF TypeOK
<1>10. CASE Dispatch \/ CloseStream
      BY <1>10 DEF Dispatch, CloseStream, Finished, TypeOK
<1>11. CASE DispatchDrop \/ Reap
  <2>1. PICK how \in {"dropped", "gone"} : RemoveTask(how)
        BY <1>11 DEF DispatchDrop, Reap
  <2>2. /\ outbound' = <<>> /\ control' = <<>> /\ kept' = <<>> /\ spent' = 0
        /\ task' = how /\ UNCHANGED <<bevyVars, taskState, cancelled, quicVars>>
        BY <2>1 DEF RemoveTask
  <2>3. /\ outbound' \in Seq(Nat) /\ Len(outbound') <= OutCap /\ kept' \in Seq(Nat)
        /\ spent' \in Nat
        BY <2>2, SendBounds
  <2>4. control' \in Seq(Controls) /\ Len(control') <= CtrlCap
        BY <2>2, SendBounds
  <2>5. task' \in {"queued", "run", "closing", "done", "gone", "dropped"}
        BY <2>2
  <2> QED BY <2>2, <2>3, <2>4, <2>5 DEF TypeOK
<1>12. CASE PollData
  <2> DEFINE count == Least(MaxBatch, Len(outbound))
             buf   == kept \o First(outbound, count)
             slice == Slice(buf, count)
  <2>1. /\ buf \in Seq(Nat) /\ count \in Nat
        /\ outbound' \in Seq(Nat) /\ Len(outbound') <= OutCap
        BY <1>12, BufIs DEF PollData
  <2>2. slice \in Seq(Nat) /\ Len(slice) \in Nat
    <3> HIDE DEF buf, count
    <3>1. slice \in Seq(Nat)
          BY <2>1, SliceIs
    <3> QED BY <3>1
  <2>3. window \in Nat /\ window <= MaxWindow /\ spent \in Nat
        BY SendBounds DEF TypeOK
  <2>4. /\ First(slice, window) \in Seq(Nat)
        /\ After(buf, window) \in Seq(Nat)
        BY <2>1, <2>2, <2>3, CutIs
  <2>5. wire \o First(slice, window) \in Seq(Nat)
        BY <2>4, ConcatProperties DEF TypeOK
  <2>6. window - Least(window, Len(slice)) \in 0 .. MaxWindow
        BY <2>2, <2>3, SendBounds DEF Least
  <2> HIDE DEF slice
  <2>7. CASE quic = "open"
    <3>1. /\ wire' = wire \o First(slice, window)
          /\ window' = window - Least(window, Len(slice))
          /\ cancelled' = (cancelled \/ Len(slice) > window)
          /\ UNCHANGED <<taskState, task>>
          BY <1>12, <2>7 DEF PollData, slice
    <3>2. kept' \in Seq(Nat) /\ spent' \in Nat
      <4>1. \/ kept' = After(buf, window) /\ spent' = spent + window
            \/ kept' = <<>> /\ spent' = 0
            BY <1>12, <2>7 DEF PollData, KeepUnsent
      <4> HIDE DEF buf
      <4>2. CASE kept' = After(buf, window) /\ spent' = spent + window
            BY <2>3, <2>4, <4>2
      <4>3. CASE kept' = <<>> /\ spent' = 0
            BY <4>3
      <4> QED BY <4>1, <4>2, <4>3
    <3>3. UNCHANGED <<bevyVars, control, quic, acked>>
          BY <1>12 DEF PollData
    <3> HIDE DEF buf
    <3>4. wire' \in Seq(Nat) /\ window' \in 0 .. MaxWindow
          BY <2>5, <2>6, <3>1
    <3>5. cancelled' \in BOOLEAN
          BY <3>1 DEF TypeOK
    <3> QED BY <2>1, <3>1, <3>2, <3>3, <3>4, <3>5 DEF TypeOK
  <2>8. CASE quic # "open"
    <3>1. /\ spent' = 0 /\ kept' = <<>>
          /\ UNCHANGED <<cancelled, window, wire>>
          /\ UNCHANGED <<bevyVars, control, quic, acked>>
          BY <1>12, <2>8 DEF PollData
    <3>2. \/ ErrorReason \in Reasons /\ End(ErrorReason)
          \/ UNCHANGED <<taskState, task>>
          BY <1>12, <2>8, ReasonTyped DEF PollData
    <3>3. /\ taskState' \in Reasons \cup {NoReason}
          /\ task' \in {"queued", "run", "closing", "done", "gone", "dropped"}
          BY <3>2, EndTyped DEF TypeOK
    <3> QED BY <2>1, <3>1, <3>3 DEF TypeOK
  <2> QED BY <2>7, <2>8
<1>13. CASE PollDataClosed
  <2>1. \E r \in Reasons : End(r)
        BY <1>13, ReasonTyped DEF PollDataClosed
  <2>2. taskState' \in Reasons /\ task' = "closing"
        BY <2>1, EndTyped
  <2> QED BY <1>13, <2>2 DEF PollDataClosed, TypeOK
<1>14. CASE PollControl
  <2>1. control' \in Seq(Controls) /\ Len(control') <= CtrlCap
        BY <1>14, HeadTailProperties, SendBounds DEF PollControl, TypeOK
  <2>2. \/ UNCHANGED <<taskState, task, quic>>
        \/ quic' = "finished" /\ UNCHANGED <<taskState, task>>
        \/ End("UserClosed") /\ UNCHANGED quic
        BY <1>14 DEF PollControl
  <2>3. /\ taskState' \in Reasons \cup {NoReason}
        /\ task' \in {"queued", "run", "closing", "done", "gone", "dropped"}
        /\ quic' \in {"open", "finished", "reset", "lost"}
        BY <2>2, EndTyped, ReasonTyped DEF TypeOK
  <2> QED BY <1>14, <2>1, <2>3 DEF PollControl, TypeOK
<1>15. CASE PollControlClosed
  <2>1. taskState' \in Reasons /\ task' = "closing"
        BY <1>15, EndTyped, ReasonTyped DEF PollControlClosed
  <2> QED BY <1>15, <2>1 DEF PollControlClosed, TypeOK
<1>16. CASE UNCHANGED vars
      BY <1>16 DEF TypeOK
<1> QED BY <1>1, <1>2, <1>4, <1>5, <1>6, <1>7, <1>8, <1>9, <1>10, <1>11, <1>12,
           <1>13, <1>14, <1>15, <1>16 DEF Next

\* Whatever the bounds are, the variables keep their types: no channel holds more
\* than its capacity, and the library never takes more than it has room for.
THEOREM SendTypeCorrect == Spec => []TypeOK
  BY SendTypeInit, SendTypeStep, PTL DEF Spec

-----------------------------------------------------------------------------
\* The end of a task is complete, from the refusal in new() to the last poll.
LEMMA EndStep == TypeOK /\ EndIsComplete /\ [Next]_vars => EndIsComplete'
<1> SUFFICES ASSUME TypeOK, EndIsComplete, [Next]_vars PROVE EndIsComplete'
    OBVIOUS
<1> USE DEF vars, bevyVars, taskVars, quicVars
<1>1. CASE Produce \/ Send \/ SendManyDrain \/ CallReturns \/ Despawn \/ HandleDisconnection
           \/ GrantWindow \/ AckAll \/ UNCHANGED vars
      BY <1>1 DEF Produce, Send, SendManyDrain, CallReturns, Despawn,
         HandleDisconnection, GrantWindow, AckAll, EndIsComplete
<1>2. ASSUME NEW c \in Controls, Call(c) PROVE EndIsComplete'
      BY <1>2 DEF Call, EndIsComplete
<1>3. ASSUME NEW how \in {"reset", "lost"}, StreamFails(how) PROVE EndIsComplete'
      BY <1>3 DEF StreamFails, EndIsComplete
<1>4. CASE Dispatch \/ DispatchDrop \/ Reap
      BY <1>4 DEF Dispatch, DispatchDrop, Reap, RemoveTask, EndIsComplete
<1>5. ASSUME task = "run",
             UNCHANGED <<taskState, task>> \/ \E r \in Reasons : End(r)
      PROVE EndIsComplete'
  <2>1. taskState = NoReason
        BY <1>5 DEF EndIsComplete
  <2>2. CASE UNCHANGED <<taskState, task>>
        BY <1>5, <2>1, <2>2 DEF EndIsComplete
  <2>3. ASSUME NEW r \in Reasons, End(r) PROVE EndIsComplete'
        BY <2>1, <2>3 DEF End, EndIsComplete, Reasons, NoReason
  <2> QED BY <1>5, <2>2, <2>3
<1>6. CASE PollData
      BY <1>5, <1>6, ReasonTyped DEF PollData
<1>7. CASE PollDataClosed
      BY <1>5, <1>7, ReasonTyped DEF PollDataClosed
<1>8. CASE PollControl
      BY <1>5, <1>8, ReasonTyped DEF PollControl
<1>9. CASE PollControlClosed
      BY <1>5, <1>9, ReasonTyped DEF PollControlClosed
<1>10. CASE CloseStream
  <2>1. quic' # "open" /\ task = "closing" /\ task' = "done" /\ UNCHANGED taskState
        BY <1>10 DEF CloseStream, Finished
  <2> QED BY <2>1 DEF EndIsComplete
<1> QED BY <1>1, <1>2, <1>3, <1>4, <1>6, <1>7, <1>8, <1>9, <1>10 DEF Next

\* A stream the orchestrator refused has its reason from the start.
LEMMA EndInit == Init => EndIsComplete
  BY DEF Init, EndIsComplete, NoReason

\* A task polls no more once its reason can be read, and one that a worker ran is
\* over only with its reason published and its stream closed, whatever the bounds
\* are.
THEOREM EndIsAlwaysComplete == Spec => []EndIsComplete
  BY EndInit, EndStep, SendTypeCorrect, PTL DEF Spec

-----------------------------------------------------------------------------
(* The order of the messages.  What the pipe promises follows from an       *)
(* invariant about its four parts: each is in order, each is before the     *)
(* next ones, and nothing in them is later than the last message made.      *)

Flow ==
  /\ Increasing(wire) /\ Increasing(kept) /\ Increasing(outbound)
  /\ Before(wire, kept) /\ Before(wire, outbound) /\ Before(kept, outbound)
  /\ \A m \in Elements(wire) \cup Elements(kept) \cup Elements(outbound) :
       m <= Len(handed)

Waiting == Elements(kept) \cup Elements(outbound)

\* What the pipe calls in transit, part by part, before and after a step.
LEMMA WaitingIs == TypeOK => Elements(kept \o outbound) = Waiting
  BY JoinIs DEF TypeOK, Waiting

LEMMA WaitingNextIs == TypeOK' => Elements(kept' \o outbound') = Waiting'
<1> SUFFICES ASSUME TypeOK' PROVE Elements(kept' \o outbound') = Waiting'
    OBVIOUS
<1>1. kept' \in Seq(Nat) /\ outbound' \in Seq(Nat)
      BY DEF TypeOK
<1> QED BY <1>1, JoinIs DEF Waiting

\* Losing messages leaves the others in order.
LEMMA ShrinkStep ==
  ASSUME Flow, wire' = wire, handed' = handed,
         Elements(kept') \subseteq Elements(kept), Increasing(kept'),
         Elements(outbound') \subseteq Elements(outbound), Increasing(outbound')
  PROVE Flow' /\ Waiting' \subseteq Waiting
  BY DEF Flow, Waiting, Before

\* The messages are numbers.
LEMMA Numbers ==
  ASSUME TypeOK
  PROVE /\ \A x \in {wire, kept, outbound} : Elements(x) \subseteq Nat
        /\ Len(handed) \in Nat
  BY DEF TypeOK, Elements

\* The messages that a step hands over.
New == Len(handed) + 1 .. Len(handed')

\* They go behind all others, and they are the only ones.
LEMMA HandOverFlow ==
  ASSUME TypeOK, Flow, Send \/ SendManyDrain
  PROVE /\ Flow' /\ Waiting' = Waiting \cup New
        /\ Len(handed') \in Nat /\ Len(handed') > Len(handed)
<1>1. PICK origins \in Seq(Nat) : HandOver(origins) /\ Len(origins) \in Nat \ {0}
      BY HandsOver
<1>2. PICK new \in Seq(Nat) :
        /\ outbound' = outbound \o new /\ Increasing(new)
        /\ Elements(new) = New
      BY <1>1, HandOverIs DEF New
<1>3. Len(handed') = Len(handed) + Len(origins) /\ Len(handed) \in Nat
      BY <1>1, HandOverIs, Numbers
<1>4. UNCHANGED <<wire, kept>>
      BY HandsOver DEF taskVars, quicVars
<1>5. \A m \in Elements(wire) \cup Elements(kept) \cup Elements(outbound) :
        m \in Nat /\ m <= Len(handed)
      BY Numbers DEF Flow
<1> DEFINE before == Len(handed)
           now    == Len(handed')
<1>6. before \in Nat /\ now \in Nat /\ now > before
      BY <1>1, <1>3
<1>7. New = before + 1 .. now
      BY DEF New
<1> HIDE DEF before, now
<1>8. \A m \in Elements(wire) \cup Elements(kept) \cup Elements(outbound), n \in New :
        m < n
      BY <1>5, <1>6, <1>7 DEF before
<1>9. Before(wire, new) /\ Before(kept, new) /\ Before(outbound, new)
      BY <1>2, <1>8 DEF Before
<1>10. outbound \in Seq(Nat)
       BY DEF TypeOK
<1>11. /\ Elements(outbound') = Elements(outbound) \cup New
       /\ Increasing(outbound')
       BY <1>2, <1>9, <1>10, JoinIs DEF Flow
<1>12. \A m \in Elements(wire) \cup Elements(kept) \cup Elements(outbound) \cup New :
         m <= now
       BY <1>5, <1>6, <1>7 DEF before
<1>13. Before(wire, outbound') /\ Before(kept, outbound')
       BY <1>2, <1>9, <1>11 DEF Flow, Before
<1>14. Flow'
       BY <1>4, <1>11, <1>12, <1>13 DEF Flow, now
<1> QED BY <1>4, <1>6, <1>11, <1>14 DEF Waiting, before, now

\* What a poll puts on the wire is a front of a front of send_buf.
LEMMA TakeIs ==
  ASSUME NEW b \in Seq(Nat), Increasing(b), NEW j \in Nat, NEW n \in Nat
  PROVE /\ First(First(b, j), n) \in Seq(Nat)
        /\ Increasing(First(First(b, j), n))
        /\ Elements(First(First(b, j), n)) \subseteq Elements(b)
        /\ After(b, n) \in Seq(Nat) /\ Increasing(After(b, n))
        /\ Elements(After(b, n)) \subseteq Elements(b)
        /\ Before(First(First(b, j), n), After(b, n))
<1> DEFINE f == First(b, j)
           p == First(f, n)
<1>1. f \in Seq(Nat) /\ Increasing(f) /\ Elements(f) \subseteq Elements(b)
      BY CutIs
<1>2. p \in Seq(Nat) /\ Increasing(p) /\ Elements(p) \subseteq Elements(f)
  <2> HIDE DEF f
  <2> QED BY <1>1, CutIs
<1>3. /\ After(b, n) \in Seq(Nat) /\ Increasing(After(b, n))
      /\ Elements(After(b, n)) \subseteq Elements(b)
      /\ Before(First(b, n), After(b, n))
      BY CutIs
<1>4. Elements(p) \subseteq Elements(First(b, n))
      BY FirstOfFirst
<1>5. Before(p, After(b, n))
  <2> HIDE DEF p
  <2> QED BY <1>3, <1>4 DEF Before
<1> QED BY <1>1, <1>2, <1>3, <1>5

\* The steps of the pipe that take p out at its end.
Passes(p) ==
  /\ p \in Seq(Nat) /\ wire' = wire \o p /\ handed' = handed
  /\ Increasing(p) /\ Elements(p) \subseteq Waiting
  /\ Waiting' \subseteq Waiting
  /\ \A m \in Elements(p), n \in Waiting' : m < n

\* One poll of the data branch.
LEMMA PollDataFlow ==
  ASSUME TypeOK, Flow, PollData
  PROVE Flow' /\ \E p : Passes(p) /\ (quic # "open" => p = <<>>)
<1> DEFINE count == Least(MaxBatch, Len(outbound))
           buf   == kept \o First(outbound, count)
           j     == IF count > spent THEN count - spent ELSE 0
<1>1. /\ count \in Nat /\ outbound \in Seq(Nat) /\ kept \in Seq(Nat)
      /\ wire \in Seq(Nat) /\ spent \in Nat /\ window \in Nat
      /\ outbound' = After(outbound, count)
      /\ UNCHANGED handed
      BY BufIs, SendBounds DEF PollData, bevyVars, TypeOK
<1>2. j \in Nat
      BY <1>1
<1>3. \/ wire' = wire \o First(First(buf, j), window)
         /\ (kept' = After(buf, window) \/ kept' = <<>>)
         /\ quic = "open"
      \/ wire' = wire /\ kept' = <<>>
      BY DEF PollData, Slice, KeepUnsent
<1> HIDE DEF count, j
<1>4. /\ First(outbound, count) \in Seq(Nat) /\ outbound' \in Seq(Nat)
      /\ Elements(First(outbound, count)) \subseteq Elements(outbound)
      /\ Elements(outbound') \subseteq Elements(outbound)
      /\ Increasing(First(outbound, count)) /\ Increasing(outbound')
      /\ Before(First(outbound, count), outbound')
      BY <1>1, CutIs DEF Flow
<1>5. Before(kept, First(outbound, count))
      BY <1>4 DEF Flow, Before
<1>6. /\ buf \in Seq(Nat) /\ Increasing(buf)
      /\ Elements(buf) = Elements(kept) \cup Elements(First(outbound, count))
      BY <1>1, <1>4, <1>5, JoinIs DEF Flow
<1>7. Elements(buf) \subseteq Elements(kept) \cup Elements(outbound)
      BY <1>4, <1>6
<1>8. Before(buf, outbound') /\ Before(wire, buf)
      BY <1>4, <1>6, <1>7 DEF Flow, Before
<1> HIDE DEF buf
<1>9. CASE wire' = wire /\ kept' = <<>>
  <2>1. Elements(kept') = {} /\ Increasing(kept')
        BY <1>9, EmptyPiece
  <2>2. Flow' /\ Waiting' \subseteq Waiting
        BY <1>1, <1>4, <1>9, <2>1, ShrinkStep DEF Flow
  <2>3. wire \o <<>> = wire
        BY <1>1, ConcatEmptySeq
  <2>4. Passes(<<>>)
        BY <1>1, <1>9, <2>2, <2>3, EmptyPiece DEF Passes
  <2> QED BY <2>2, <2>4
<1>10. CASE /\ wire' = wire \o First(First(buf, j), window)
            /\ kept' = After(buf, window) \/ kept' = <<>>
            /\ quic = "open"
  <2> DEFINE p == First(First(buf, j), window)
  <2>1. /\ p \in Seq(Nat) /\ Increasing(p) /\ Elements(p) \subseteq Elements(buf)
        /\ Increasing(After(buf, window))
        /\ Elements(After(buf, window)) \subseteq Elements(buf)
        /\ Before(p, After(buf, window))
        BY <1>1, <1>2, <1>6, TakeIs
  <2> HIDE DEF p
  <2>2. Increasing(kept') /\ Elements(kept') \subseteq Elements(buf) /\ Before(p, kept')
        BY <1>10, <2>1, EmptyPiece DEF Before
  <2>3. Before(wire, p)
        BY <1>8, <2>1 DEF Before
  <2>4. /\ Elements(wire') = Elements(wire) \cup Elements(p)
        /\ Increasing(wire')
        BY <1>1, <1>10, <2>1, <2>3, JoinIs DEF Flow, p
  <2>5. Before(p, outbound')
        BY <1>8, <2>1 DEF Before
  <2>6. Before(kept', outbound')
        BY <1>8, <2>2 DEF Before
  <2>7. Before(wire, kept')
        BY <1>8, <2>2 DEF Before
  <2>8. Before(wire', kept') /\ Before(wire', outbound')
        BY <1>4, <2>2, <2>4, <2>5, <2>7 DEF Flow, Before
  <2>9. Flow'
        BY <1>1, <1>4, <1>7, <2>1, <2>2, <2>4, <2>6, <2>8 DEF Flow, Before
  <2>10. Passes(p)
    <3>1. Elements(p) \subseteq Waiting /\ Waiting' \subseteq Waiting
          BY <1>1, <1>4, <1>7, <2>1, <2>2 DEF Waiting
    <3>2. \A m \in Elements(p), n \in Waiting' : m < n
          BY <1>1, <2>2, <2>5 DEF Waiting, Before
    <3> QED BY <1>1, <1>10, <2>1, <3>1, <3>2 DEF Passes, p
  <2> QED BY <1>10, <2>9, <2>10
<1> QED BY <1>3, <1>9, <1>10

\* Steps that neither hand over nor send a message lose some at most.
LEMMA OtherFlow ==
  ASSUME TypeOK, Flow, UNCHANGED <<wire, handed>>,
         kept' = kept \/ kept' = <<>>,
         outbound' = outbound \/ outbound' = <<>>
  PROVE Flow' /\ Passes(<<>>)
<1>1. /\ Elements(kept') \subseteq Elements(kept) /\ Increasing(kept')
      /\ Elements(outbound') \subseteq Elements(outbound) /\ Increasing(outbound')
      BY EmptyPiece DEF Flow
<1>2. Flow' /\ Waiting' \subseteq Waiting
      BY <1>1, ShrinkStep
<1>3. wire \o <<>> = wire
      BY ConcatEmptySeq DEF TypeOK
<1> QED BY <1>2, <1>3, EmptyPiece DEF Passes

\* Every step keeps the order: some messages are handed over, some go out, or none.
LEMMA FlowStep ==
  ASSUME TypeOK, Flow, [Next]_vars
  PROVE /\ Flow'
        /\ \/ /\ Send \/ SendManyDrain
              /\ Waiting' = Waiting \cup New
              /\ Len(handed') \in Nat /\ Len(handed') > Len(handed)
           \/ \E p : Passes(p) /\ ((PollData /\ quic = "open") \/ p = <<>>)
<1> USE DEF vars, bevyVars, taskVars, quicVars
<1>1. CASE Send \/ SendManyDrain
      BY <1>1, HandOverFlow
<1>2. CASE PollData
      BY <1>2, PollDataFlow
<1>3. CASE \/ Produce \/ Despawn \/ HandleDisconnection
           \/ \E c \in Controls : Call(c)
           \/ CallReturns \/ GrantWindow \/ AckAll
           \/ \E how \in {"reset", "lost"} : StreamFails(how)
           \/ Dispatch \/ PollControl \/ PollControlClosed \/ CloseStream
           \/ UNCHANGED vars
  <2>1. UNCHANGED <<wire, handed, kept, outbound>>
        BY <1>3 DEF Produce, Despawn, HandleDisconnection, Call, CallReturns,
           GrantWindow, AckAll, StreamFails, Dispatch, PollControl, PollControlClosed,
           CloseStream
  <2> QED BY <2>1, OtherFlow
<1>4. CASE DispatchDrop \/ Reap \/ PollDataClosed
  <2>1. /\ UNCHANGED <<wire, handed>>
        /\ kept' = kept \/ kept' = <<>>
        /\ outbound' = outbound \/ outbound' = <<>>
        BY <1>4 DEF DispatchDrop, Reap, RemoveTask, PollDataClosed
  <2> QED BY <2>1, OtherFlow
<1> QED BY <1>1, <1>2, <1>3, <1>4 DEF Next

-----------------------------------------------------------------------------
(* The refinement of OrderedPipe.                                           *)

\* Once nothing comes out any more, nothing ever does.
LEMMA OverStays ==
  ASSUME TypeOK, EndIsComplete, [Next]_vars,
         taskState # NoReason \/ ~Alive
  PROVE (taskState # NoReason \/ ~Alive)' /\ ~PollData
<1> USE DEF vars, bevyVars, taskVars, quicVars
<1>1. task \in {"closing", "done", "gone", "dropped"}
      BY DEF EndIsComplete, Alive
<1>2. ~PollData /\ ~PollDataClosed /\ ~PollControl /\ ~PollControlClosed
      BY <1>1 DEF PollData, PollDataClosed, PollControl, PollControlClosed
<1>3. CASE DispatchDrop \/ Reap
  <2>1. task' \in {"gone", "dropped"}
        BY <1>3 DEF DispatchDrop, Reap, RemoveTask
  <2> QED BY <1>2, <2>1 DEF Alive
<1>4. CASE CloseStream
  <2>1. taskState # NoReason /\ UNCHANGED taskState
        BY <1>4 DEF CloseStream, EndIsComplete
  <2> QED BY <1>2, <2>1
<1>5. CASE ~(DispatchDrop \/ Reap \/ CloseStream)
  <2>1. UNCHANGED <<task, taskState>>
        BY <1>1, <1>2, <1>5 DEF Next, Produce, Send, SendManyDrain, Call, CallReturns,
           Despawn, HandleDisconnection, GrantWindow, AckAll, StreamFails, Dispatch
  <2> QED BY <1>2, <2>1 DEF Alive
<1> QED BY <1>3, <1>4, <1>5

\* A step that takes p out, and loses others at most, is one of the pipe's.
LEMMA LeaveIs ==
  ASSUME TypeOK, TypeOK', NEW p, Passes(p),
         taskState # NoReason \/ ~Alive => (taskState # NoReason \/ ~Alive)' /\ p = <<>>
  PROVE Pipe!Leave
<1>1. p \in Seq(Nat) /\ wire \in Seq(Nat) /\ wire' = wire \o p
      BY DEF Passes, TypeOK
<1>2. Pipe!Passed = p
      BY <1>1, RestIs DEF Pipe!Passed
<1>3. Elements(kept \o outbound) = Waiting
      BY WaitingIs
<1>4. Elements(kept' \o outbound') = Waiting'
      BY WaitingNextIs
<1>5. \A a, b \in DOMAIN p : a < b => p[a] < p[b]
      BY DEF Passes, Increasing
<1>6. \A i \in DOMAIN p : p[i] \in Waiting /\ \A m \in Waiting' : p[i] < m
      BY DEF Passes, Elements
<1>7. Waiting' \subseteq Waiting /\ handed' = handed
      BY DEF Passes
<1> QED BY <1>1, <1>2, <1>3, <1>4, <1>5, <1>6, <1>7 DEF Pipe!Leave

\* So is one that hands messages over.
LEMMA EnterIs ==
  ASSUME TypeOK, TypeOK', Send \/ SendManyDrain, Waiting' = Waiting \cup New,
         Len(handed') \in Nat, Len(handed') > Len(handed)
  PROVE Pipe!Enter
<1>1. UNCHANGED <<wire, task, taskState>>
      BY HandsOver DEF taskVars, quicVars
<1>2. Elements(kept \o outbound) = Waiting
      BY WaitingIs
<1>3. Elements(kept' \o outbound') = Waiting'
      BY WaitingNextIs
<1> QED BY <1>1, <1>2, <1>3 DEF Pipe!Enter, Alive, New

\* Together: every step of the code is a step of the pipe, or none.
LEMMA PipeStep ==
  ASSUME TypeOK, TypeOK', EndIsComplete, Flow, [Next]_vars
  PROVE [Pipe!Next]_(Pipe!vars)
<1>1. CASE /\ Send \/ SendManyDrain
           /\ Waiting' = Waiting \cup New
           /\ Len(handed') \in Nat /\ Len(handed') > Len(handed)
      BY <1>1, EnterIs DEF Pipe!Next
<1>2. ASSUME NEW p, Passes(p), (PollData /\ quic = "open") \/ p = <<>>
      PROVE [Pipe!Next]_(Pipe!vars)
  <2>1. taskState # NoReason \/ ~Alive => (taskState # NoReason \/ ~Alive)' /\ p = <<>>
        BY <1>2, OverStays
  <2>2. Pipe!Leave
        BY <1>2, <2>1, LeaveIs
  <2> QED BY <2>2 DEF Pipe!Next
<1> QED BY <1>1, <1>2, FlowStep

\* A new stream is an empty pipe.
LEMMA FlowInit == Init => Flow /\ Pipe!Init
<1> SUFFICES ASSUME Init PROVE Flow /\ Pipe!Init
    OBVIOUS
<1>1. /\ wire = <<>> /\ kept = <<>> /\ outbound = <<>> /\ Len(handed) = 0
      BY DEF Init
<1>2. Flow
      BY <1>1, EmptyPiece DEF Flow, Before
<1>3. Elements(kept \o outbound) = {}
      BY <1>1, SendTypeInit, WaitingIs, EmptyPiece DEF Waiting
<1>4. Pipe!Init
      BY <1>1, <1>3 DEF Pipe!Init
<1> QED BY <1>2, <1>4

\* The messages of the application come to the wire in their order and none
\* twice, and none after the end of the task, whatever the bounds are.
THEOREM SendImplementsPipe == Spec => ImplementsPipe
<1>1. Init => Flow /\ Pipe!Init
      BY FlowInit
<1>2. TypeOK /\ TypeOK' /\ EndIsComplete /\ Flow /\ [Next]_vars
        => Flow' /\ [Pipe!Next]_(Pipe!vars)
      BY FlowStep, PipeStep
<1> QED BY <1>1, <1>2, SendTypeCorrect, EndIsAlwaysComplete, PTL
        DEF Spec, ImplementsPipe, Pipe!Spec

-----------------------------------------------------------------------------
(* No gap without a cancelled send.                                         *)

\* As long as no send was cancelled, send_buf is empty between two polls and, while
\* the stream is open and the task polls it, the channel goes on where the wire ends,
\* up to the last message that was handed over.
Contiguous ==
  ~cancelled =>
    /\ spent = 0 /\ kept = <<>> /\ Counted(wire, 0)
    /\ quic = "open" /\ task \in {"queued", "run"} =>
         /\ Counted(outbound, Len(wire))
         /\ Len(handed) = Len(wire) + Len(outbound)

\* A poll that is not cancelled sends all it took from the channel.
LEMMA PollDataContiguous == TypeOK /\ Contiguous /\ PollData => Contiguous'
<1> SUFFICES ASSUME TypeOK, Contiguous, PollData, ~cancelled' PROVE Contiguous'
    BY DEF Contiguous
<1> DEFINE count == Least(MaxBatch, Len(outbound))
           first == First(outbound, count)
           buf   == kept \o first
           slice == Slice(buf, count)
<1>1. /\ outbound' = After(outbound, count) /\ UNCHANGED handed
      /\ IF quic = "open"
         THEN /\ cancelled' = (cancelled \/ Len(slice) > window)
              /\ wire' = wire \o First(slice, window)
              /\ Len(slice) > window \/ (spent' = 0 /\ kept' = <<>>)
              /\ UNCHANGED <<task, quic>>
         ELSE /\ spent' = 0 /\ kept' = <<>> /\ UNCHANGED <<cancelled, wire>>
              /\ quic' # "open"
      BY DEF PollData, bevyVars
<1>2. /\ spent = 0 /\ kept = <<>> /\ Counted(wire, 0) /\ ~cancelled
      BY <1>1 DEF Contiguous, TypeOK
<1>3. CASE quic # "open"
      BY <1>1, <1>2, <1>3 DEF Contiguous
<1>4. CASE quic = "open"
  <2>1. /\ count \in Nat /\ count <= Len(outbound) /\ outbound \in Seq(Nat) /\ wire \in Seq(Nat)
        /\ Len(outbound) \in Nat /\ window \in Nat
        /\ Len(wire) \in Nat
    <3> DEFINE l == Len(outbound)
    <3>1. outbound \in Seq(Nat) /\ wire \in Seq(Nat) /\ window \in Nat /\ l \in Nat
          /\ Len(wire) \in Nat
          BY SendBounds DEF TypeOK
    <3>2. Least(MaxBatch, l) \in Nat /\ Least(MaxBatch, l) <= l
      <4> HIDE DEF l
      <4> QED BY <3>1, SendBounds DEF Least
    <3> QED BY <3>1, <3>2
  <2>2. task = "run"
        BY DEF PollData
  <2>3. /\ Counted(outbound, Len(wire))
        /\ Len(handed) = Len(wire) + Len(outbound)
        BY <1>2, <1>4, <2>2 DEF Contiguous
  <2> HIDE DEF count
  <2>4. /\ first \in Seq(Nat) /\ Len(first) = count
        /\ After(outbound, count) \in Seq(Nat)
    <3>1. /\ first \in Seq(Nat) /\ Len(first) = Least(count, Len(outbound))
          BY <2>1, FirstIs
    <3>2. /\ After(outbound, count) \in Seq(Nat)
          BY <2>1, AfterIs
    <3>3. Least(count, Len(outbound)) = count
          BY <2>1 DEF Least
    <3> QED BY <3>1, <3>2, <3>3
  <2>5. /\ Counted(first, Len(wire)) /\ Counted(After(outbound, count), Len(wire) + Len(first))
        /\ Len(first) + Len(After(outbound, count)) = Len(outbound)
        BY <2>1, <2>3, CountedCut
  <2> HIDE DEF first
  <2>6. buf = first
        BY <1>2, <2>4, EmptyJoin
  <2>7. slice = first
    <3>1. (IF count > spent THEN count - spent ELSE 0) = count
          BY <1>2, <2>1
    <3>2. First(first, count) = first
          BY <2>4, WholeIs
    <3> QED BY <2>6, <3>1, <3>2 DEF Slice
  <2> HIDE DEF buf, slice
  <2>8. ~(Len(first) > window)
        BY <1>1, <1>4, <2>7
  <2>9. First(first, window) = first
        BY <2>1, <2>4, <2>8, EnoughIs
  <2>10. /\ wire' = wire \o first /\ spent' = 0 /\ kept' = <<>> /\ UNCHANGED <<task, quic>>
         BY <1>1, <1>4, <2>7, <2>8, <2>9
  <2>11. Counted(wire', 0)
         BY <1>2, <2>1, <2>4, <2>5, <2>10, CountedJoin
  <2>12. Len(wire') = Len(wire) + Len(first)
         BY <2>1, <2>4, <2>10, ConcatProperties
  <2>13. Counted(outbound', Len(wire'))
         BY <1>1, <2>5, <2>12
  <2>14. Len(wire') + Len(outbound') = Len(wire) + Len(outbound)
    <3> DEFINE w == Len(wire)
               f == Len(first)
               a == Len(After(outbound, count))
    <3>1. w \in Nat /\ f \in Nat /\ a \in Nat
          BY <2>1, <2>4
    <3>2. Len(wire') = w + f /\ Len(outbound') = a /\ f + a = Len(outbound)
          BY <1>1, <2>5, <2>12
    <3> HIDE DEF w, f, a
    <3>3. (w + f) + a = w + (f + a)
          BY <3>1
    <3> QED BY <3>2, <3>3 DEF w
  <2>15. Len(handed') = Len(wire') + Len(outbound')
         BY <1>1, <2>3, <2>14
  <2> QED BY <2>10, <2>11, <2>13, <2>15 DEF Contiguous
<1> QED BY <1>3, <1>4

\* What is handed over goes on counting.
LEMMA HandOverContiguous ==
  TypeOK /\ Contiguous /\ (Send \/ SendManyDrain) => Contiguous'
<1> SUFFICES ASSUME TypeOK, Contiguous, Send \/ SendManyDrain, ~cancelled'
             PROVE Contiguous'
    BY DEF Contiguous
<1>1. UNCHANGED <<task, spent, kept, cancelled, quic, wire>>
      BY HandsOver DEF taskVars, quicVars
<1>2. /\ outbound \in Seq(Nat) /\ Len(wire) \in Nat /\ Len(outbound) \in Nat
      BY DEF TypeOK
<1>3. SUFFICES ASSUME quic = "open", task \in {"queued", "run"}
               PROVE /\ Counted(outbound', Len(wire))
                     /\ Len(handed') = Len(wire) + Len(outbound')
      BY <1>1 DEF Contiguous
<1>4. Counted(outbound, Len(wire)) /\ Len(handed) = Len(wire) + Len(outbound)
      BY <1>1, <1>3 DEF Contiguous
<1>5. PICK origins \in Seq(Nat) : HandOver(origins) /\ Len(origins) \in Nat \ {0}
      BY HandsOver
<1>6. PICK new \in Seq(Nat) : outbound' = outbound \o new /\ Counted(new, Len(handed))
      BY <1>5, HandOverIs
<1>7. Counted(outbound', Len(wire))
      BY <1>2, <1>4, <1>6, CountedJoin
<1>8. /\ Len(handed') = Len(handed) + Len(origins)
      /\ Len(outbound') = Len(outbound) + Len(origins)
      BY <1>5, HandOverIs
<1> DEFINE w == Len(wire)
           o == Len(outbound)
           n == Len(origins)
<1>9. w \in Nat /\ o \in Nat /\ n \in Nat
      BY <1>2, <1>5
<1>10. Len(handed') = (w + o) + n /\ Len(outbound') = o + n
       BY <1>4, <1>8
<1> HIDE DEF w, o, n
<1>11. Len(handed') = w + Len(outbound')
       BY <1>9, <1>10
<1> QED BY <1>7, <1>11 DEF w

\* Every step keeps it so.
LEMMA ContiguousStep == TypeOK /\ Contiguous /\ [Next]_vars => Contiguous'
<1> SUFFICES ASSUME TypeOK, Contiguous, [Next]_vars PROVE Contiguous'
    OBVIOUS
<1> USE DEF vars, bevyVars, taskVars, quicVars
<1>1. ASSUME UNCHANGED <<handed, outbound, cancelled, wire, spent, kept>>,
             quic' = "open" => quic = "open",
             task' \in {"queued", "run"} => task \in {"queued", "run"}
      PROVE Contiguous'
      BY <1>1 DEF Contiguous
<1>2. CASE Send \/ SendManyDrain
      BY <1>2, HandOverContiguous
<1>3. CASE \E c \in Controls : Call(c)
      BY <1>1, <1>3 DEF Call
<1>4. CASE Produce \/ CallReturns
      BY <1>1, <1>4 DEF Produce, CallReturns
<1>5. CASE Despawn \/ HandleDisconnection
      BY <1>1, <1>5 DEF HandleDisconnection, Despawn
<1>6. CASE GrantWindow \/ AckAll
      BY <1>1, <1>6 DEF GrantWindow, AckAll
<1>7. ASSUME NEW how \in {"reset", "lost"}, StreamFails(how) PROVE Contiguous'
      BY <1>1, <1>7 DEF StreamFails
<1>8. CASE Dispatch
      BY <1>1, <1>8 DEF Dispatch
<1>9. CASE DispatchDrop \/ Reap
  <2>1. /\ spent' = 0 /\ kept' = <<>> /\ UNCHANGED <<cancelled, wire>>
        /\ task' \notin {"queued", "run"}
        BY <1>9 DEF DispatchDrop, Reap, RemoveTask
  <2> QED BY <2>1 DEF Contiguous
<1>10. CASE PollData
       BY <1>10, PollDataContiguous
<1>11. CASE PollDataClosed
  <2>1. /\ spent' = 0 /\ kept' = <<>> /\ UNCHANGED <<cancelled, wire>>
        /\ task' = "closing"
        BY <1>11 DEF PollDataClosed, End
  <2> QED BY <2>1 DEF Contiguous
<1>12. CASE PollControl
       BY <1>1, <1>12 DEF PollControl, End
<1>13. CASE PollControlClosed
       BY <1>1, <1>13 DEF PollControlClosed, End
<1>14. CASE UNCHANGED vars
       BY <1>1, <1>14
<1>15. CASE CloseStream
       BY <1>1, <1>15 DEF CloseStream, Finished
<1> QED BY <1>2, <1>3, <1>4, <1>5, <1>6, <1>7, <1>8, <1>9, <1>10, <1>11, <1>12, <1>13, <1>14,
           <1>15 DEF Next

\* A new stream has sent nothing and has nothing to send.
LEMMA ContiguousInit == Init => Contiguous
  BY CountedNone DEF Init, Contiguous

\* What goes out is what was handed over without a gap, whatever the batches, the
\* channel and the room the library has, unless one send had to wait and was cancelled.
THEOREM OnlyCancellingSkips == Spec => []GapsNeedCancel
<1>1. TypeOK /\ Contiguous => GapsNeedCancel
  <2> SUFFICES ASSUME TypeOK, Contiguous, ~cancelled PROVE NothingSkipped
      BY DEF GapsNeedCancel
  <2>1. wire \in Seq(Nat) /\ \A i \in DOMAIN wire : wire[i] = 0 + i
        BY DEF TypeOK, Contiguous, Counted
  <2>2. /\ DOMAIN wire = 1 .. Len(wire) /\ wire = [i \in DOMAIN wire |-> wire[i]]
        BY <2>1
  <2>3. \A i \in 1 .. Len(wire) : wire[i] = i
        BY <2>1, <2>2
  <2> QED BY <2>2, <2>3 DEF NothingSkipped
<1> QED BY <1>1, ContiguousInit, ContiguousStep, SendTypeCorrect, PTL DEF Spec

-----------------------------------------------------------------------------
(* The packets of the session.                                              *)

\* The packets among the elements of a sequence are in order, the others are 0.
InOrder(s) == \A i, j \in DOMAIN s : i < j /\ s[j] # 0 => s[i] < s[j]

\* Every packet of t is later than all of s.
Follows(s, t) == \A m \in Elements(s), n \in Elements(t) : n # 0 => m < n

\* Order in a sequence is order in its pieces and between them.
LEMMA InOrderJoin ==
  ASSUME NEW s \in Seq(Nat), NEW t \in Seq(Nat)
  PROVE InOrder(s \o t) <=> InOrder(s) /\ InOrder(t) /\ Follows(s, t)
<1> DEFINE k == Len(s)
           st == s \o t
<1>1. /\ st \in Seq(Nat) /\ DOMAIN st = 1 .. k + Len(t)
      /\ \A i \in 1 .. k + Len(t) : st[i] = IF i <= k THEN s[i] ELSE t[i - k]
      BY ConcatProperties
<1>2. /\ k \in Nat /\ Len(t) \in Nat /\ DOMAIN s = 1 .. k /\ DOMAIN t = 1 .. Len(t)
      OBVIOUS
<1> HIDE DEF k, st
<1>3. /\ \A i \in DOMAIN s : i \in DOMAIN st /\ st[i] = s[i]
      /\ \A i \in DOMAIN t : k + i \in DOMAIN st /\ st[k + i] = t[i]
      BY <1>1, <1>2
<1>4. ASSUME InOrder(st) PROVE InOrder(s) /\ InOrder(t) /\ Follows(s, t)
  <2>1. InOrder(s)
        BY <1>3, <1>4 DEF InOrder
  <2>2. ASSUME NEW i \in DOMAIN t, NEW j \in DOMAIN t, i < j, t[j] # 0
        PROVE t[i] < t[j]
    <3>1. k + i < k + j
          BY <1>2, <2>2
    <3> QED BY <1>3, <1>4, <2>2, <3>1 DEF InOrder
  <2>3. ASSUME NEW i \in DOMAIN s, NEW j \in DOMAIN t, t[j] # 0
        PROVE s[i] < t[j]
    <3>1. i < k + j
          BY <1>2
    <3> QED BY <1>3, <1>4, <2>3, <3>1 DEF InOrder
  <2> QED BY <2>1, <2>2, <2>3 DEF InOrder, Follows, Elements
<1>5. ASSUME InOrder(s), InOrder(t), Follows(s, t),
             NEW i \in DOMAIN st, NEW j \in DOMAIN st, i < j, st[j] # 0
      PROVE st[i] < st[j]
  <2>1. CASE j <= k
    <3>1. i \in DOMAIN s /\ j \in DOMAIN s
          BY <1>1, <1>2, <1>5, <2>1
    <3> QED BY <1>3, <1>5, <3>1 DEF InOrder
  <2>2. CASE i > k
    <3>1. i \in 1 .. k + Len(t) /\ j \in 1 .. k + Len(t) /\ i < j
          BY <1>1, <1>5
    <3>2. i - k \in 1 .. Len(t) /\ j - k \in 1 .. Len(t) /\ i - k < j - k /\ j > k
          BY <1>2, <2>2, <3>1
    <3>3. /\ i - k \in DOMAIN t /\ j - k \in DOMAIN t /\ i - k < j - k
          /\ st[i] = t[i - k] /\ st[j] = t[j - k]
          BY <1>1, <1>2, <2>2, <3>1, <3>2
    <3>4. t[j - k] # 0 => t[i - k] < t[j - k]
          BY <1>5, <3>3 DEF InOrder
    <3> QED BY <1>5, <3>3, <3>4
  <2>3. CASE i <= k /\ j > k
    <3>1. i \in DOMAIN s /\ st[i] = s[i] /\ j - k \in DOMAIN t /\ st[j] = t[j - k]
          BY <1>1, <1>2, <1>5, <2>3
    <3> QED BY <1>5, <3>1 DEF Follows, Elements
  <2> QED BY <1>1, <1>2, <1>5, <2>1, <2>2, <2>3
<1>6. InOrder(s) /\ InOrder(t) /\ Follows(s, t) => InOrder(st)
      BY <1>5 DEF InOrder
<1> QED BY <1>4, <1>6 DEF st

\* SessionInOrder, part by part.
Packets ==
  /\ InOrder(handed) /\ InOrder(session) /\ Follows(handed, session)
  /\ \A m \in Elements(handed) \cup Elements(session) : m <= packets
  /\ component => 1 .. packets \subseteq Elements(handed) \cup Elements(session)

LEMMA PacketsAre == TypeOK /\ Packets => SessionInOrder
<1> SUFFICES ASSUME TypeOK, Packets PROVE SessionInOrder
    OBVIOUS
<1>1. handed \in Seq(Nat) /\ session \in Seq(Nat)
      BY DEF TypeOK
<1>2. InOrder(handed \o session)
      BY <1>1, InOrderJoin DEF Packets
<1>3. Elements(handed \o session) = Elements(handed) \cup Elements(session)
      BY <1>1, JoinIs
<1> QED BY <1>2, <1>3 DEF Packets, SessionInOrder, InOrder

\* A new session has no packets.
LEMMA PacketsInit == Init => Packets
<1> SUFFICES ASSUME Init PROVE Packets
    OBVIOUS
<1>1. handed = <<>> /\ session = <<>> /\ packets = 0
      BY DEF Init
<1>2. InOrder(<<>>) /\ Elements(<<>>) = {}
      BY EmptyPiece DEF InOrder
<1> QED BY <1>1, <1>2 DEF Packets, Follows

\* Behind a sequence in order comes a single element.
LEMMA InOrderOne ==
  ASSUME NEW s \in Seq(Nat), NEW x \in Nat, InOrder(s),
         \A m \in Elements(s) : x # 0 => m < x
  PROVE /\ s \o <<x>> \in Seq(Nat) /\ InOrder(s \o <<x>>)
        /\ Elements(s \o <<x>>) = Elements(s) \cup {x}
<1>1. <<x>> \in Seq(Nat) /\ DOMAIN <<x>> = {1} /\ <<x>>[1] = x
      OBVIOUS
<1>2. Elements(<<x>>) = {x}
      BY <1>1 DEF Elements
<1>3. InOrder(<<x>>)
      BY <1>1 DEF InOrder
<1>4. Follows(s, <<x>>)
      BY <1>2 DEF Follows
<1> QED BY <1>1, <1>2, <1>3, <1>4, InOrderJoin, JoinIs

\* A new packet is the last one.
LEMMA ProducePackets == TypeOK /\ Packets /\ Produce => Packets'
<1> SUFFICES ASSUME TypeOK, Packets, Produce PROVE Packets'
    OBVIOUS
<1>1. /\ session' = Append(session, packets + 1) /\ packets' = packets + 1
      /\ UNCHANGED <<handed, component>>
      /\ packets \in Nat /\ session \in Seq(Nat) /\ handed \in Seq(Nat)
      BY DEF Produce, TypeOK
<1>2. session' = session \o <<packets + 1>> /\ packets + 1 \in Nat
      BY <1>1, AppendIsConcat
<1>3. \A m \in Elements(handed) \cup Elements(session) : m \in Nat /\ m < packets + 1
  <2>1. Elements(handed) \subseteq Nat /\ Elements(session) \subseteq Nat
        BY <1>1 DEF Elements
  <2>2. \A m \in Elements(handed) \cup Elements(session) : m <= packets
        BY DEF Packets
  <2> QED BY <1>1, <2>1, <2>2
<1>4. InOrder(session') /\ Elements(session') = Elements(session) \cup {packets + 1}
      BY <1>1, <1>2, <1>3, InOrderOne DEF Packets
<1>5. Follows(handed', session')
      BY <1>1, <1>3, <1>4 DEF Packets, Follows
<1>6. \A m \in Elements(handed') \cup Elements(session') : m <= packets'
      BY <1>1, <1>3, <1>4
<1>7. component' => 1 .. packets' \subseteq Elements(handed') \cup Elements(session')
  <2>1. 1 .. packets + 1 = (1 .. packets) \cup {packets + 1}
        BY <1>1
  <2> QED BY <1>1, <1>4, <2>1 DEF Packets
<1> QED BY <1>1, <1>4, <1>5, <1>6, <1>7 DEF Packets

\* A message that is sent directly goes past the packets of the session.
LEMMA SendPackets == TypeOK /\ Packets /\ Send => Packets'
<1> SUFFICES ASSUME TypeOK, Packets, Send PROVE Packets'
    OBVIOUS
<1>1. /\ handed' = handed \o <<0>> /\ UNCHANGED <<session, packets, component>>
      /\ handed \in Seq(Nat) /\ packets \in Nat /\ session \in Seq(Nat)
      BY DEF Send, HandOver, TypeOK
<1>2. InOrder(handed') /\ Elements(handed') = Elements(handed) \cup {0}
      BY <1>1, InOrderOne DEF Packets
<1>3. \A n \in Elements(session) : n \in Nat
      BY <1>1 DEF Elements
<1>4. Follows(handed', session')
  <2>1. \A m \in Elements(handed), n \in Elements(session) : n # 0 => m < n
        BY DEF Packets, Follows
  <2>2. \A m \in Elements(handed'), n \in Elements(session) : n # 0 => m < n
        BY <1>2, <1>3, <2>1
  <2>3. session' = session
        BY <1>1
  <2> QED BY <2>2, <2>3 DEF Follows
<1>5. \A m \in Elements(handed') : m <= packets
      BY <1>1, <1>2 DEF Packets
<1> QED BY <1>1, <1>2, <1>4, <1>5 DEF Packets

\* What the channel takes are the first packets that wait, and they wait no more.
LEMMA DrainPackets == TypeOK /\ Packets /\ SendManyDrain => Packets'
<1> SUFFICES ASSUME TypeOK, Packets, SendManyDrain PROVE Packets'
    OBVIOUS
<1> DEFINE k == Least(Room, Len(session))
           f == First(session, k)
           a == After(session, k)
<1>1. /\ handed \in Seq(Nat) /\ session \in Seq(Nat) /\ Room \in Nat
      /\ Len(session) \in Nat
      BY SendBounds DEF SendManyDrain, Room, TypeOK
<1>2. k \in Nat /\ First(session, Room) = f
      BY <1>1 DEF First, Least
<1>3. /\ handed' = handed \o f /\ session' = a
      /\ UNCHANGED <<packets, component>>
      BY <1>2 DEF SendManyDrain, HandOver, Leaves
<1> HIDE DEF k
<1>4. f \in Seq(Nat) /\ a \in Seq(Nat) /\ f \o a = session
      BY <1>1, <1>2, CutIs, CutJoins
<1> HIDE DEF f, a
<1>5. /\ InOrder(f) /\ InOrder(a) /\ Follows(f, a)
      /\ Elements(session) = Elements(f) \cup Elements(a)
      BY <1>4, InOrderJoin, JoinIs DEF Packets
<1>6. Follows(handed, f) /\ Follows(handed, a)
      BY <1>5 DEF Packets, Follows
<1>7. InOrder(handed') /\ Elements(handed') = Elements(handed) \cup Elements(f)
      BY <1>1, <1>3, <1>4, <1>5, <1>6, InOrderJoin, JoinIs DEF Packets
<1>8. Follows(handed', session')
      BY <1>3, <1>5, <1>6, <1>7 DEF Follows
<1> QED BY <1>3, <1>5, <1>7, <1>8 DEF Packets

\* Every step keeps the packets in order.
LEMMA PacketsStep == TypeOK /\ Packets /\ [Next]_vars => Packets'
<1> SUFFICES ASSUME TypeOK, Packets, [Next]_vars PROVE Packets'
    OBVIOUS
<1>1. CASE Produce
      BY <1>1, ProducePackets
<1>2. CASE Send
      BY <1>2, SendPackets
<1>3. CASE SendManyDrain
      BY <1>3, DrainPackets
<1>4. CASE Despawn \/ HandleDisconnection
  <2>1. session' = <<>> /\ ~component' /\ UNCHANGED <<handed, packets>>
        BY <1>4 DEF Despawn, HandleDisconnection
  <2>2. InOrder(<<>>) /\ Elements(<<>>) = {}
        BY EmptyPiece DEF InOrder
  <2> QED BY <2>1, <2>2 DEF Packets, Follows
<1>5. CASE \/ \E c \in Controls : Call(c)
           \/ CallReturns \/ GrantWindow \/ AckAll
           \/ \E how \in {"reset", "lost"} : StreamFails(how)
           \/ Dispatch \/ DispatchDrop \/ PollData \/ PollDataClosed \/ PollControl
           \/ PollControlClosed \/ CloseStream \/ Reap \/ UNCHANGED vars
  <2>1. UNCHANGED <<packets, session, handed, component>>
        BY <1>5 DEF vars, bevyVars, Call, CallReturns, GrantWindow, AckAll, StreamFails,
           Dispatch, DispatchDrop, PollData, PollDataClosed, PollControl,
           PollControlClosed, CloseStream, Reap, RemoveTask
  <2> QED BY <2>1 DEF Packets
<1> QED BY <1>1, <1>2, <1>3, <1>4, <1>5 DEF Next

\* The packets of a session are handed over in order and once, and none is lost
\* while the component is there, whatever the capacity and the messages between.
THEOREM SessionStaysInOrder == Spec => []SessionInOrder
  BY PacketsInit, PacketsStep, PacketsAre, SendTypeCorrect, PTL DEF Spec
=============================================================================
