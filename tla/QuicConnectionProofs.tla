------------------------ MODULE QuicConnectionProofs ------------------------
(* What TLAPS proves of QuicConnection, for every value of its constants.   *)
EXTENDS QuicConnection, SequenceTheorems, TLAPS

\* The assumptions in the form most steps use.
LEMMA Bounds == /\ CmdCap \in Nat /\ CmdCap > 0 /\ MaxCloses \in Nat
                /\ AcceptOps \subseteq AllAcceptOps
  BY ConnectionAssumption DEF ConnectionAssumption

LEMMA TypeInit == Init => TypeOK
<1> SUFFICES ASSUME Init PROVE TypeOK
    OBVIOUS
<1>1. cmds \in Seq(Command) /\ Len(cmds) <= CmdCap
      BY Bounds DEF Init
<1>2. /\ entity \in [Attempts -> AllAcceptOps \cup
                        {"absent", "stream", "despawned", "error", "discarded"}]
      /\ reply \in [Attempts -> Answers \cup Streams]
      BY DEF Init, Answers
<1>3. /\ task \in {"queued", "recv", "accept", "publish", "done", "gone"}
      /\ conn \in {"open", "ended", "lostClosed", "lostOther"}
      /\ taskState \in Reasons \cup {NoReason}
      BY DEF Init, Reasons, NoReason
<1>4. pendingStream \in BOOLEAN /\ openFlag \in BOOLEAN /\ component \in BOOLEAN
      BY DEF Init
<1>5. /\ opened \subseteq Streams /\ incoming \subseteq opened
      /\ buffered \in Streams \cup {NoStream}
      /\ disconnect \in Reasons \cup {NoReason}
      /\ call = Idle /\ closes \in 0..MaxCloses
      BY Bounds DEF Init, Reasons, NoReason
<1> QED BY <1>1, <1>2, <1>3, <1>4, <1>5 DEF TypeOK

\* A conjunct of TypeOK is disturbed only by the actions that write the variable.
LEMMA TypeStep == TypeOK /\ [Next]_vars => TypeOK'
<1> SUFFICES ASSUME TypeOK, [Next]_vars PROVE TypeOK'
    OBVIOUS
<1> USE DEF TypeOK, vars, quicVars, sharedVars, taskVars,
        bevyVars, attemptVars
<1>1. ASSUME NEW s \in Streams, PeerOpens(s) PROVE TypeOK'
      BY <1>1 DEF PeerOpens
<1>2. ASSUME NEW how \in {"ended", "lostClosed", "lostOther"}, ConnectionEnds(how)
      PROVE TypeOK'
      BY <1>2 DEF ConnectionEnds
<1>3. ASSUME NEW op \in AcceptOps, AcceptSwap(op) PROVE TypeOK'
      BY <1>3, Bounds DEF AcceptSwap, Idle
<1>4. CASE AcceptCheck
      BY <1>4 DEF AcceptCheck, Idle
<1>5. ASSUME NEW a \in Attempts, AcceptSend(a) PROVE TypeOK'
  <2>1. [op |-> call.op, to |-> a] \in Command
        BY <1>5 DEF AcceptSend, Command
  <2>2. /\ cmds' \in Seq(Command) /\ Len(cmds') <= CmdCap
        BY <1>5, <2>1, Bounds DEF AcceptSend, CanSend
  <2>3. entity' \in [Attempts -> AllAcceptOps \cup
                       {"absent", "stream", "despawned", "error", "discarded"}]
        BY <1>5 DEF AcceptSend
  <2> QED BY <1>5, <2>2, <2>3 DEF AcceptSend
<1>6. CASE CloseCheck
      BY <1>6, Bounds DEF CloseCheck
<1>7. CASE CloseSend
  <2> DEFINE close == [op |-> "Close"]
  <2>1. /\ cmds' \in Seq(Command) /\ Len(cmds') <= CmdCap
    <3>1. close \in Command
          BY DEF Command
    <3>2. CASE CanSend
      <4>1. cmds' = Append(cmds, close) /\ Len(cmds) < CmdCap
            BY <1>7, <3>2 DEF CloseSend, CanSend
      <4> QED BY <3>1, <4>1, Bounds
    <3>3. CASE ~CanSend
          BY <1>7, <3>3 DEF CloseSend
    <3> QED BY <3>2, <3>3
  <2>2. conn' \in {"open", "ended", "lostClosed", "lostOther"}
        BY <1>7 DEF CloseSend, CloseQuic
  <2>3. call' = Idle
        BY <1>7 DEF CloseSend
  <2> QED BY <1>7, <2>1, <2>2, <2>3 DEF CloseSend
<1>8. CASE RemoveComponent
      BY <1>8 DEF RemoveComponent
<1>9. ASSUME NEW a \in Attempts, HandleAttempt(a) \/ DiscardAttempt(a) PROVE TypeOK'
  <2>1. entity' \in [Attempts -> AllAcceptOps \cup
                       {"absent", "stream", "despawned", "error", "discarded"}]
    <3>1. CASE HandleAttempt(a)
      <4> DEFINE e == CASE reply[a] = "none"   -> "despawned"
                        [] reply[a] = "failed" -> "error"
                        [] OTHER               -> "stream"
      <4>1. e \in {"despawned", "error", "stream"}
            OBVIOUS
      <4>2. entity' = [entity EXCEPT ![a] = e]
            BY <3>1 DEF HandleAttempt
      <4> QED BY <4>1, <4>2
    <3>2. CASE DiscardAttempt(a)
          BY <3>2 DEF DiscardAttempt
    <3> QED BY <1>9, <3>1, <3>2
  <2> QED BY <1>9, <2>1 DEF HandleAttempt, DiscardAttempt
<1>10. CASE Dispatch
      BY <1>10 DEF Dispatch
<1>11. CASE DispatchDrop \/ Reap
  <2>1. cmds' = <<>>
        BY <1>11 DEF DispatchDrop, Reap, DropTask
  <2> DEFINE hit(a) == \E i \in DOMAIN cmds : cmds[i].op # "Close" /\ cmds[i].to = a
  <2>2. reply' \in [Attempts -> Answers \cup Streams]
    <3>1. reply' = [a \in Attempts |-> IF hit(a) THEN "dropped" ELSE reply[a]]
          BY <1>11 DEF DispatchDrop, Reap, DropTask
    <3> QED BY <3>1 DEF Answers
  <2>3. cmds' \in Seq(Command) /\ Len(cmds') <= CmdCap
        BY <2>1, Bounds
  <2> QED BY <1>11, <2>2, <2>3 DEF DispatchDrop, Reap, DropTask
<1>12. CASE RecvCommand
  <2> DEFINE c == Head(cmds)
  <2>1. /\ c \in Command /\ cmds' \in Seq(Command) /\ Len(cmds') <= CmdCap
    <3>1. cmds # <<>> /\ cmds' = Tail(cmds)
          BY <1>12 DEF RecvCommand
    <3> QED BY <3>1, Bounds
  <2>2. CASE c.op = "Close"
        BY <1>12, <2>1, <2>2 DEF RecvCommand, CloseQuic
  <2>3. CASE c.op # "Close"
    <3>1. c.to \in Attempts
          BY <2>1, <2>3 DEF Command
    <3>2. CASE GiveBuffered(c)
          BY <1>12, <2>1, <2>3, <3>1, <3>2 
          DEF RecvCommand, GiveBuffered, Answer, Answers
    <3>3. CASE ShortPoll(c)
      <4>1. /\ reply' \in [Attempts -> Answers \cup Streams]
            /\ incoming' \subseteq incoming
            BY <3>1, <3>3 DEF ShortPoll, Answer, Answers
      <4>2. /\ openFlag' \in BOOLEAN
            /\ task' \in {task, "publish"}
            /\ disconnect' \in {disconnect, "ConnectionError"}
            /\ buffered' = buffered
            BY <3>3 DEF ShortPoll, SeeConnectionError, SetDisconnect
      <4> QED BY <1>12, <2>1, <2>3, <4>1, <4>2 DEF RecvCommand, Reasons
    <3> QED BY <1>12, <2>3, <3>2, <3>3 DEF RecvCommand
  <2> QED BY <2>2, <2>3
<1>13. CASE RecvClosed
      BY <1>13 DEF RecvClosed, SetDisconnect, Reasons
<1>14. CASE RecvPending
      BY <1>14 DEF RecvPending
<1>15. CASE PollAccept
  <2>1. /\ buffered' \in Streams \cup {NoStream}
        /\ incoming' \subseteq incoming
        /\ pendingStream' \in BOOLEAN /\ openFlag' \in BOOLEAN
        /\ task' \in {"recv", "publish"}
        /\ disconnect' \in {disconnect, "PeerClosed", "ConnectionError"}
    <3>1. CASE \E s \in incoming : BufferStream(s) /\ incoming' = incoming \ {s}
                                     /\ task' = "recv" /\ UNCHANGED <<openFlag, disconnect>>
          BY <3>1 DEF BufferStream
    <3>2. CASE SeeConnectionError /\ UNCHANGED <<incoming, buffered, pendingStream>>
          BY <3>2 DEF SetDisconnect, SeeConnectionError
    <3> QED BY <1>15, <3>1, <3>2 DEF PollAccept, SetDisconnect
  <2> QED BY <1>15, <2>1 DEF PollAccept, Reasons
<1>16. CASE Publish
      BY <1>16 DEF Publish
<1>17. CASE UNCHANGED vars
      BY <1>17
<1> QED
    BY <1>1, <1>2, <1>3, <1>4, <1>5, <1>6, <1>7, <1>8, <1>9, <1>10, <1>11, <1>12,
       <1>13, <1>14, <1>15, <1>16, <1>17
    DEF Next, Worker, HandleDisconnection, DespawnConnection

\* The variables keep to the values the code can give them: in particular the
\* command channel never holds more than CONNECTION_CTRL_CHANNEL_SIZE commands.
THEOREM TypeCorrect == Spec => []TypeOK
  BY TypeInit, TypeStep, PTL DEF Spec

-----------------------------------------------------------------------------
(* The accept protocol.  AcceptFindsStream is not inductive: that a stream  *)
(* may be buffered needs the place in poll_once, that the task ends without *)
(* an accept in its channel needs who may still call.                      *)

NoAcceptQueued == \A i \in DOMAIN cmds : ~AcceptAt(i)

Control ==
  /\ InCall => component
  /\ task \in {"queued", "accept"} => buffered = NoStream
  /\ task \in {"publish", "done"} =>
       ~InCall /\ NoAcceptQueued /\ (pendingStream => ~component)
  /\ task = "gone" => cmds = <<>>

Pairing == AcceptFindsStream /\ Control

pairVars == <<pendingStream, cmds, task, buffered, component, call>>

\* What a queue holds after an Append, and after a Tail.
LEMMA AfterAppend ==
  ASSUME NEW S, NEW q \in Seq(S), NEW e \in S, NEW r, r = Append(q, e)
  PROVE  \A i \in DOMAIN r :
           \/ i \in DOMAIN q /\ r[i] = q[i]
           \/ i = Len(q) + 1 /\ r[i] = e
<1>1. /\ r \in Seq(S) /\ Len(r) = Len(q) + 1
      /\ \A i \in 1..Len(q) : r[i] = q[i]
      /\ r[Len(q) + 1] = e
      BY AppendProperties
<1>2. DOMAIN r = 1..(Len(q) + 1) /\ DOMAIN q = 1..Len(q) /\ Len(q) \in Nat
      BY <1>1, LenProperties
<1> QED BY <1>1, <1>2

LEMMA AfterTail ==
  ASSUME NEW S, NEW q \in Seq(S), q # <<>>
  PROVE  /\ 1 \in DOMAIN q /\ Head(q) = q[1]
         /\ \A i \in DOMAIN Tail(q) :
              i + 1 \in DOMAIN q /\ i + 1 # 1 /\ Tail(q)[i] = q[i + 1] /\ i \in Nat
  OBVIOUS

LEMMA PairingInit == Init => Pairing
  BY ConnectionAssumption
  DEF Init, Pairing, AcceptFindsStream, Control, InCall, Token, AcceptAt,
      NoAcceptQueued, Idle, AllAcceptOps

\* A step of poll_once that takes the command at the head of the channel.
LEMMA PairingRecv == TypeOK /\ Pairing /\ RecvCommand => Pairing'
<1> SUFFICES ASSUME TypeOK, Pairing, RecvCommand PROVE Pairing'
    OBVIOUS
<1> DEFINE c == Head(cmds)
<1>1. /\ cmds \in Seq(Command) /\ cmds # <<>> /\ cmds' = Tail(cmds)
      /\ task = "recv" /\ c \in Command
      /\ UNCHANGED <<pendingStream, component, call>>
      BY DEF RecvCommand, TypeOK, bevyVars
<1>2. /\ 1 \in DOMAIN cmds /\ c = cmds[1]
      /\ \A i \in DOMAIN cmds' : i + 1 \in DOMAIN cmds /\ i + 1 # 1
                                /\ cmds'[i] = cmds[i + 1] /\ i \in Nat
      BY <1>1, AfterTail
<1>3. CASE c.op = "Close"
  <2>1. task' = task /\ buffered' = buffered
        BY <1>3 DEF RecvCommand
  <2> QED BY <1>1, <1>2, <2>1
          DEF Pairing, AcceptFindsStream, Control, InCall, Token, AcceptAt, NoAcceptQueued
<1>4. CASE c.op # "Close"
  <2>1. c.op \in AllAcceptOps
        BY <1>1, <1>4 DEF Command
  <2>2. ~pendingStream /\ ~InCall
        BY <1>2, <2>1 DEF Pairing, AcceptFindsStream, AcceptAt
  <2>3. \A i \in DOMAIN cmds' : ~(cmds'[i].op \in AllAcceptOps)
        BY <1>2, <2>1 DEF Pairing, AcceptFindsStream, AcceptAt
  <2>4. ~pendingStream' /\ ~InCall' /\ NoAcceptQueued'
        BY <1>1, <2>2, <2>3 DEF InCall, AcceptAt, NoAcceptQueued
  <2>5. task' \in {"recv", "publish"}
        BY <1>1, <1>4
        DEF RecvCommand, GiveBuffered, ShortPoll, SeeConnectionError, SetDisconnect
  <2> QED BY <2>4, <2>5
          DEF Pairing, AcceptFindsStream, Control, Token, NoAcceptQueued, AcceptAt
<1> QED BY <1>3, <1>4

LEMMA PairingStep == TypeOK /\ Pairing /\ [Next]_vars => Pairing'
<1> SUFFICES ASSUME TypeOK, Pairing, [Next]_vars PROVE Pairing'
    OBVIOUS
<1> USE DEF Pairing, AcceptFindsStream, Control, InCall, Token, AcceptAt, NoAcceptQueued
<1>1. ASSUME UNCHANGED pairVars PROVE Pairing'
      BY <1>1 DEF pairVars
<1>2. ASSUME NEW s \in Streams, PeerOpens(s) PROVE Pairing'
      BY <1>1, <1>2 DEF PeerOpens, pairVars, sharedVars, taskVars, bevyVars
<1>3. ASSUME NEW how \in {"ended", "lostClosed", "lostOther"}, ConnectionEnds(how)
      PROVE Pairing'
      BY <1>1, <1>3 DEF ConnectionEnds, pairVars, sharedVars, taskVars, bevyVars
<1>4. ASSUME NEW op \in AcceptOps, AcceptSwap(op) PROVE Pairing'
  <2>1. /\ pendingStream /\ component /\ ~pendingStream' /\ call'.op \in AllAcceptOps
        /\ UNCHANGED <<cmds, task, buffered, component>>
        BY <1>4, Bounds DEF AcceptSwap, taskVars
  <2> QED BY <2>1
<1>5. CASE AcceptCheck
  <2>1. /\ call.op \in AllAcceptOps /\ call'.op \in {call.op, "none"}
        /\ UNCHANGED <<pendingStream, cmds, task, buffered, component>>
        BY <1>5 DEF AcceptCheck, sharedVars, taskVars, TypeOK, Idle
  <2> QED BY <2>1 DEF AllAcceptOps
<1>6. ASSUME NEW a \in Attempts, AcceptSend(a) PROVE Pairing'
  <2> DEFINE c == [op |-> call.op, to |-> a]
  <2>1. /\ InCall /\ ~InCall' /\ ~pendingStream
        /\ UNCHANGED <<pendingStream, task, buffered, component>>
        BY <1>6 DEF AcceptSend, taskVars, Idle, AllAcceptOps
  <2>2. CASE CanSend
    <3>1. /\ cmds' = Append(cmds, c) /\ task # "gone"
          /\ cmds \in Seq(Command) /\ c \in Command
          BY <1>6, <2>2 DEF AcceptSend, CanSend, TypeOK, Command
    <3>2. \A i \in DOMAIN cmds' :
             \/ i \in DOMAIN cmds /\ cmds'[i] = cmds[i]
             \/ i = Len(cmds) + 1
          BY <3>1, AfterAppend
    <3> QED BY <2>1, <3>1, <3>2
  <2>3. CASE ~CanSend
    <3>1. UNCHANGED cmds
          BY <1>6, <2>3 DEF AcceptSend
    <3> QED BY <2>1, <3>1
  <2> QED BY <2>2, <2>3
<1>7. CASE CloseCheck
  <2>1. /\ ~InCall'
        /\ UNCHANGED <<pendingStream, cmds, task, buffered, component>>
        BY <1>7 DEF CloseCheck, sharedVars, taskVars, AllAcceptOps
  <2> QED BY <2>1
<1>8. CASE CloseSend
  <2> DEFINE c == [op |-> "Close"]
  <2>1. /\ ~InCall' /\ UNCHANGED <<pendingStream, task, buffered, component>>
        BY <1>8 DEF CloseSend, taskVars, Idle, AllAcceptOps
  <2>2. CASE CanSend
    <3>1. /\ cmds' = Append(cmds, c) /\ task # "gone"
          /\ cmds \in Seq(Command) /\ c \in Command
          BY <1>8, <2>2 DEF CloseSend, CanSend, TypeOK, Command
    <3> HIDE DEF c
    <3>2. \A i \in DOMAIN cmds' :
             \/ i \in DOMAIN cmds /\ cmds'[i] = cmds[i]
             \/ i = Len(cmds) + 1 /\ cmds'[i] = c
          BY <3>1, AfterAppend
    <3>3. \A i \in DOMAIN cmds' : cmds'[i].op \in AllAcceptOps
                                  => i \in DOMAIN cmds /\ cmds'[i] = cmds[i]
          BY <3>2 DEF AllAcceptOps, c
    <3> QED BY <2>1, <3>1, <3>3
  <2>3. CASE ~CanSend
    <3>1. UNCHANGED cmds
          BY <1>8, <2>3 DEF CloseSend
    <3> QED BY <2>1, <3>1
  <2> QED BY <2>2, <2>3
<1>9. CASE RemoveComponent
  <2>1. /\ ~InCall' /\ ~component' /\ UNCHANGED <<pendingStream, cmds, task, buffered>>
        BY <1>9 DEF RemoveComponent, sharedVars, taskVars, Idle, AllAcceptOps
  <2> QED BY <2>1
<1>10. ASSUME NEW a \in Attempts, HandleAttempt(a) \/ DiscardAttempt(a) PROVE Pairing'
      BY <1>1, <1>10
      DEF HandleAttempt, DiscardAttempt, pairVars, sharedVars, taskVars, bevyVars
<1>11. CASE Dispatch
      BY <1>11 DEF Dispatch, sharedVars, bevyVars
<1>12. CASE DispatchDrop \/ Reap
  <2>1. /\ task' = "gone" /\ cmds' = <<>>
        /\ UNCHANGED <<pendingStream, component, call>>
        BY <1>12 DEF DispatchDrop, Reap, DropTask, bevyVars
  <2> QED BY <2>1
<1>13. CASE RecvCommand
      BY <1>13, PairingRecv
<1>14. CASE RecvClosed
  <2>1. /\ task' = "publish" /\ cmds = <<>> /\ ~component /\ task = "recv"
        /\ UNCHANGED <<pendingStream, cmds, buffered, component, call>>
        BY <1>14 DEF RecvClosed, SetDisconnect, sharedVars, bevyVars
  <2> QED BY <2>1
<1>15. CASE RecvPending
      BY <1>15 DEF RecvPending, MayPollAccept, sharedVars, bevyVars
<1>16. CASE PollAccept
  <2>1. /\ task = "accept" /\ task' \in {"recv", "publish"}
        /\ UNCHANGED <<cmds, component, call>>
        BY <1>16 DEF PollAccept, SetDisconnect, SeeConnectionError, bevyVars
  <2>2. ~pendingStream /\ ~InCall /\ NoAcceptQueued
        BY <2>1
  <2>3. \/ UNCHANGED <<pendingStream, buffered>>
        \/ task' = "recv" /\ buffered' \in Streams
        BY <1>16 DEF PollAccept, BufferStream, TypeOK
  <2>4. NoStream \notin Streams
        BY ConnectionAssumption DEF ConnectionAssumption
  <2> QED BY <2>1, <2>2, <2>3, <2>4
<1>17. CASE Publish
      BY <1>17 DEF Publish, bevyVars
<1>18. CASE UNCHANGED vars
      BY <1>1, <1>18 DEF vars, pairVars, sharedVars, taskVars, bevyVars
<1> QED
    BY <1>2, <1>3, <1>4, <1>5, <1>6, <1>7, <1>8, <1>9, <1>10, <1>11, <1>12, <1>13,
       <1>14, <1>15, <1>16, <1>17, <1>18
    DEF Next, Worker, HandleDisconnection, DespawnConnection

\* Every Accept the task handles finds a stream, with any mix of accept methods.
THEOREM AcceptAlwaysFindsStream == Spec => []AcceptFindsStream
<1>1. Spec => [](TypeOK /\ Pairing)
      BY TypeInit, TypeStep, PairingInit, PairingStep, PTL DEF Spec
<1>2. Pairing => AcceptFindsStream
      BY DEF Pairing
<1> QED BY <1>1, <1>2, PTL

-----------------------------------------------------------------------------
(* Delivery: where streams and answers are.  A command in the channel is    *)
(* for an attempt that is still unanswered, so that an answer never         *)
(* overwrites another one.                                                  *)

Linked == \A i \in DOMAIN cmds : AcceptAt(i) =>
  /\ entity[cmds[i].to] \in {cmds[i].op, "discarded"}
  /\ reply[cmds[i].to] = "unsent"

Fresh == \A a \in Attempts : entity[a] = "absent" => reply[a] = "unsent"

Opened == /\ buffered \in opened \cup {NoStream}
          /\ \A a \in Attempts : reply[a] \in Streams => reply[a] \in opened

Delivery == Linked /\ Fresh /\ Opened /\ OneHome /\ NoOrphanedAccept

deliveryVars == <<opened, incoming, cmds, buffered, entity, reply>>

LEMMA Distinct == NoStream \notin Streams /\ Streams \cap Answers = {}
  BY ConnectionAssumption DEF ConnectionAssumption

LEMMA DeliveryInit == Init => Delivery
  BY Distinct
  DEF Init, Delivery, Linked, Fresh, Opened, OneHome, NoOrphanedAccept, AcceptAt, Answers

\* When a task is dropped, no attempt of an accept is waiting in its channel.
LEMMA NothingToDrop ==
  ASSUME TypeOK, Pairing, DispatchDrop \/ Reap
  PROVE  /\ task' = "gone" /\ cmds' = <<>> /\ buffered' = NoStream /\ task # "gone"
         /\ UNCHANGED <<opened, incoming, entity, reply>>
<1>1. NoAcceptQueued
      BY DEF DispatchDrop, Reap, Pairing, Control, AcceptFindsStream, Token, NoAcceptQueued
<1>2. \A i \in DOMAIN cmds : cmds[i].op = "Close"
      BY <1>1 DEF TypeOK, Command, NoAcceptQueued, AcceptAt
<1>3. reply' = [a \in Attempts |-> reply[a]]
      BY <1>2 DEF DispatchDrop, Reap, DropTask
<1>4. reply' = reply
      BY <1>3 DEF TypeOK
<1> QED BY <1>4 DEF DispatchDrop, Reap, DropTask, quicVars

\* What handling an accept does to the streams and the answers.
LEMMA AcceptHandled ==
  ASSUME TypeOK, Pairing, Linked, RecvCommand, Head(cmds).op # "Close"
  PROVE  \E a \in Attempts, v \in Answers \cup Streams :
           /\ reply[a] = "unsent" /\ entity[a] # "absent"
           /\ reply' = [reply EXCEPT ![a] = v]
           /\ NoAcceptQueued' /\ task = "recv" /\ task' # "gone"
           /\ UNCHANGED <<opened, entity>>
           /\ \/ v = buffered /\ v \in Streams /\ buffered' = NoStream /\ incoming' = incoming
              \/ v \in incoming /\ incoming' = incoming \ {v} /\ buffered' = buffered
              \/ /\ v \in Answers /\ incoming' = incoming
                 /\ buffered' \in {buffered} /\ (v = "dropped" => entity[a] # "Accept")
<1> DEFINE c == Head(cmds)
<1>1. /\ cmds \in Seq(Command) /\ cmds # <<>> /\ cmds' = Tail(cmds)
      /\ task = "recv" /\ c \in Command
      /\ UNCHANGED <<opened, entity>>
      BY DEF RecvCommand, TypeOK
<1>2. /\ 1 \in DOMAIN cmds /\ c = cmds[1]
      /\ \A i \in DOMAIN cmds' : i + 1 \in DOMAIN cmds /\ i + 1 # 1
                                /\ cmds'[i] = cmds[i + 1] /\ i \in Nat
      BY <1>1, AfterTail
<1>3. c.op \in AllAcceptOps /\ c.to \in Attempts
      BY <1>1 DEF Command
<1>4. NoAcceptQueued'
      BY <1>2, <1>3 DEF Pairing, AcceptFindsStream, AcceptAt, NoAcceptQueued
<1>5. /\ reply[c.to] = "unsent" /\ entity[c.to] \in {c.op, "discarded"}
      /\ entity[c.to] # "absent"
      BY <1>2, <1>3 DEF Linked, AcceptAt, AllAcceptOps
<1>6. CASE GiveBuffered(c)
  <2>1. buffered # NoStream
        BY <1>1, <1>2, <1>3 DEF Pairing, AcceptFindsStream, Token, AcceptAt
  <2>2. /\ reply' = [reply EXCEPT ![c.to] = buffered]
        /\ buffered' = NoStream /\ incoming' = incoming /\ task' = task
        BY <1>6, <2>1 DEF GiveBuffered, Answer
  <2>3. buffered \in Streams
        BY <2>1 DEF TypeOK
  <2> QED BY <1>1, <1>3, <1>4, <1>5, <2>2, <2>3
<1>7. CASE ShortPoll(c)
  <2>1. c.op # "Accept" /\ buffered' = buffered /\ entity[c.to] # "Accept"
        BY <1>3, <1>5, <1>7 DEF ShortPoll, AllAcceptOps
  <2>2. task' # "gone"
        BY <1>1, <1>7 DEF ShortPoll, SeeConnectionError, SetDisconnect
  <2>3. CASE \E s \in incoming : Answer(c.to, s) /\ incoming' = incoming \ {s}
        BY <1>1, <1>3, <1>4, <1>5, <2>1, <2>2, <2>3 DEF Answer, TypeOK
  <2>4. CASE /\ \E v \in {"none", "failed", "dropped"} : Answer(c.to, v)
             /\ incoming' = incoming
        BY <1>1, <1>3, <1>4, <1>5, <2>1, <2>2, <2>4 DEF Answer, Answers
  <2> QED BY <1>7, <2>3, <2>4 DEF ShortPoll
<1> QED BY <1>3, <1>6, <1>7 DEF RecvCommand, AllAcceptOps

LEMMA DeliveryStep == TypeOK /\ Pairing /\ Delivery /\ [Next]_vars => Delivery'
<1> SUFFICES ASSUME TypeOK, Pairing, Delivery, [Next]_vars PROVE Delivery'
    OBVIOUS
<1> USE DEF Delivery, Linked, Fresh, Opened, OneHome, NoOrphanedAccept, AcceptAt
<1>1. ASSUME UNCHANGED deliveryVars PROVE Delivery'
      BY <1>1 DEF deliveryVars
<1>2. ASSUME NEW s \in Streams, PeerOpens(s) PROVE Delivery'
      BY <1>2, Distinct DEF PeerOpens, sharedVars, taskVars, attemptVars, TypeOK
<1>3. ASSUME NEW a \in Attempts, AcceptSend(a) PROVE Delivery'
  <2> DEFINE c == [op |-> call.op, to |-> a]
  <2>1. /\ InCall /\ NoAcceptQueued /\ entity[a] = "absent" /\ reply[a] = "unsent"
        /\ UNCHANGED <<opened, incoming, buffered, reply>>
        BY <1>3 DEF AcceptSend, quicVars, taskVars, InCall, Pairing,
                    AcceptFindsStream, NoAcceptQueued
  <2>2. CASE CanSend
    <3>1. /\ cmds' = Append(cmds, c) /\ cmds \in Seq(Command) /\ c \in Command
          /\ entity' = [entity EXCEPT ![a] = call.op]
          BY <1>3, <2>2 DEF AcceptSend, TypeOK, Command
    <3>2. entity'[a] = call.op /\ \A b \in Attempts : b # a => entity'[b] = entity[b]
          BY <3>1 DEF TypeOK
    <3>3. c.to = a /\ c.op = call.op
          OBVIOUS
    <3> HIDE DEF c
    <3>4. \A i \in DOMAIN cmds' :
             \/ i \in DOMAIN cmds /\ cmds'[i] = cmds[i]
             \/ i = Len(cmds) + 1 /\ cmds'[i] = c
          BY <3>1, AfterAppend
    <3>5. Linked'
          BY <2>1, <3>2, <3>3, <3>4 DEF NoAcceptQueued
    <3>6. Fresh' /\ NoOrphanedAccept'
          BY <2>1, <3>2 DEF InCall, AllAcceptOps
    <3> QED BY <2>1, <3>5, <3>6
  <2>3. CASE ~CanSend
        BY <1>1, <1>3, <2>1, <2>3 DEF AcceptSend, deliveryVars
  <2> QED BY <2>2, <2>3
<1>4. CASE CloseSend
  <2> DEFINE c == [op |-> "Close"]
  <2>1. UNCHANGED <<opened, incoming, buffered, entity, reply>>
        BY <1>4 DEF CloseSend, taskVars, attemptVars
  <2>2. CASE CanSend
    <3>1. /\ cmds' = Append(cmds, c) /\ cmds \in Seq(Command) /\ c \in Command
          BY <1>4, <2>2 DEF CloseSend, TypeOK, Command
    <3>2. c.op \notin AllAcceptOps
          BY DEF AllAcceptOps
    <3> HIDE DEF c
    <3>3. \A i \in DOMAIN cmds' :
             \/ i \in DOMAIN cmds /\ cmds'[i] = cmds[i]
             \/ i = Len(cmds) + 1 /\ cmds'[i] = c
          BY <3>1, AfterAppend
    <3> QED BY <2>1, <3>2, <3>3
  <2>3. CASE ~CanSend
        BY <1>1, <1>4, <2>1, <2>3 DEF CloseSend, deliveryVars
  <2> QED BY <2>2, <2>3
<1>5. ASSUME NEW a \in Attempts, HandleAttempt(a) \/ DiscardAttempt(a) PROVE Delivery'
  <2>1. UNCHANGED <<opened, incoming, cmds, buffered, reply>>
        BY <1>5 DEF HandleAttempt, DiscardAttempt, quicVars, sharedVars, taskVars
  <2>2. \E e \in {"despawned", "error", "stream", "discarded"} :
           /\ entity' = [entity EXCEPT ![a] = e]
           /\ e # "discarded" => reply[a] # "unsent"
        BY <1>5 DEF HandleAttempt, DiscardAttempt
  <2>3. entity[a] \in AllAcceptOps
        BY <1>5 DEF HandleAttempt, DiscardAttempt
  <2>4. /\ \A b \in Attempts : b # a => entity'[b] = entity[b]
        /\ entity'[a] \in {"despawned", "error", "stream", "discarded"}
        /\ entity'[a] # "discarded" => reply[a] # "unsent"
        BY <2>2 DEF TypeOK
  <2>5. \A i \in DOMAIN cmds : AcceptAt(i) => cmds[i].to \in Attempts
        BY DEF TypeOK, Command, AllAcceptOps
  <2> QED BY <2>1, <2>4, <2>5
<1>6. CASE DispatchDrop \/ Reap
      BY <1>6, NothingToDrop, Distinct DEF TypeOK
<1>7. CASE RecvCommand /\ Head(cmds).op # "Close"
  <2>1. PICK a \in Attempts, v \in Answers \cup Streams :
           /\ reply[a] = "unsent" /\ entity[a] # "absent"
           /\ reply' = [reply EXCEPT ![a] = v]
           /\ NoAcceptQueued' /\ task = "recv" /\ task' # "gone"
           /\ UNCHANGED <<opened, entity>>
           /\ \/ v = buffered /\ v \in Streams /\ buffered' = NoStream /\ incoming' = incoming
              \/ v \in incoming /\ incoming' = incoming \ {v} /\ buffered' = buffered
              \/ /\ v \in Answers /\ incoming' = incoming
                 /\ buffered' \in {buffered} /\ (v = "dropped" => entity[a] # "Accept")
        BY <1>7, AcceptHandled
  <2>2. reply'[a] = v /\ \A b \in Attempts : b # a => reply'[b] = reply[b]
        BY <2>1 DEF TypeOK
  <2>3. Linked'
        BY <2>1 DEF NoAcceptQueued
  <2>4. Opened'
        BY <2>1, <2>2, Distinct DEF TypeOK
  <2>5. OneHome'
        BY <2>1, <2>2, Distinct DEF TypeOK
  <2>6. Fresh' /\ NoOrphanedAccept'
        BY <2>1, <2>2, Distinct DEF Answers, TypeOK
  <2> QED BY <2>3, <2>4, <2>5, <2>6
<1>8. CASE RecvCommand /\ Head(cmds).op = "Close"
  <2>1. /\ cmds' = Tail(cmds) /\ cmds # <<>> /\ cmds \in Seq(Command)
        /\ UNCHANGED <<opened, incoming, buffered, entity, reply>>
        BY <1>8 DEF RecvCommand, TypeOK
  <2>2. \A i \in DOMAIN cmds' : i + 1 \in DOMAIN cmds /\ cmds'[i] = cmds[i + 1]
        BY <2>1, AfterTail
  <2> QED BY <2>1, <2>2
<1>9. CASE PollAccept
  <2>1. UNCHANGED <<opened, cmds, entity, reply>>
        BY <1>9 DEF PollAccept, attemptVars
  <2>2. \/ UNCHANGED <<incoming, buffered>>
        \/ \E s \in incoming : buffered' = s /\ incoming' = incoming \ {s}
        BY <1>9 DEF PollAccept, BufferStream
  <2>3. incoming \subseteq opened
        BY DEF TypeOK
  <2> QED BY <2>1, <2>2, <2>3
<1>10. ASSUME NEW op \in AcceptOps, AcceptSwap(op) PROVE Delivery'
      BY <1>1, <1>10 DEF AcceptSwap, deliveryVars, quicVars, taskVars, attemptVars
<1>11. ASSUME NEW how \in {"ended", "lostClosed", "lostOther"}, ConnectionEnds(how)
      PROVE Delivery'
      BY <1>1, <1>11 DEF ConnectionEnds, deliveryVars, sharedVars, taskVars, attemptVars
<1>12. CASE AcceptCheck \/ CloseCheck \/ RemoveComponent
      BY <1>1, <1>12 DEF AcceptCheck, CloseCheck, RemoveComponent, deliveryVars,
         quicVars, sharedVars, taskVars, attemptVars
<1>13. CASE Dispatch \/ RecvClosed \/ RecvPending \/ Publish
      BY <1>1, <1>13 DEF Dispatch, RecvClosed, RecvPending, Publish, deliveryVars,
         quicVars, sharedVars, attemptVars
<1>14. CASE UNCHANGED vars
      BY <1>1, <1>14 DEF vars, deliveryVars, quicVars, sharedVars, taskVars, attemptVars
<1> QED
    BY <1>2, <1>3, <1>4, <1>5, <1>6, <1>7, <1>8, <1>9, <1>10, <1>11, <1>12, <1>13, <1>14
    DEF Next, Worker, HandleDisconnection, DespawnConnection

LEMMA Invariance == Spec => [](TypeOK /\ Pairing /\ Delivery)
  BY TypeInit, TypeStep, PairingInit, PairingStep, DeliveryInit, DeliveryStep, PTL
  DEF Spec

\* No stream the peer opened is in two places, whatever methods accept it.
THEOREM StreamsHaveOneHome == Spec => []OneHome
<1>1. Delivery => OneHome
      BY DEF Delivery
<1> QED BY <1>1, Invariance, PTL

\* An attempt of accept_stream never loses its answer with the task.
THEOREM AcceptIsNeverOrphaned == Spec => []NoOrphanedAccept
<1>1. Delivery => NoOrphanedAccept
      BY DEF Delivery
<1> QED BY <1>1, Invariance, PTL

-----------------------------------------------------------------------------
(* The connection implements StreamHandoff.                                *)

GivenPairs == {<<reply[a], a>> : a \in {b \in Attempts : reply[b] \in Streams}}

handoffVars == <<opened, incoming, buffered, reply, task>>

LEMMA HandoffInit == Init => Handoff!Init
<1> SUFFICES ASSUME Init PROVE Handoff!Init
    OBVIOUS
<1>1. \A a \in Attempts : reply[a] \notin Streams
      BY Distinct DEF Init, Answers
<1>2. GivenPairs = {}
      BY <1>1 DEF GivenPairs
<1> QED BY <1>2 DEF Init, Handoff!Init, GivenPairs

\* Answering an attempt that had no answer adds one pair, or none.
LEMMA GivenGrows ==
  ASSUME TypeOK, NEW a \in Attempts, NEW v \in Answers \cup Streams,
         reply[a] = "unsent", reply' = [reply EXCEPT ![a] = v]
  PROVE  /\ v \in Streams => GivenPairs' = GivenPairs \cup {<<v, a>>}
         /\ v \notin Streams => GivenPairs' = GivenPairs
         /\ \A pair \in GivenPairs : pair[2] # a
<1>1. reply'[a] = v /\ \A b \in Attempts : b # a => reply'[b] = reply[b]
      BY DEF TypeOK
<1>2. reply[a] \notin Streams
      BY Distinct DEF Answers
<1>3. \A p : p \in GivenPairs <=> \E b \in Attempts : reply[b] \in Streams /\ p = <<reply[b], b>>
      BY DEF GivenPairs
<1>4. \A p : p \in GivenPairs' <=> \E b \in Attempts : reply'[b] \in Streams /\ p = <<reply'[b], b>>
      BY DEF GivenPairs
<1>5. ASSUME v \in Streams PROVE GivenPairs' = GivenPairs \cup {<<v, a>>}
      BY <1>1, <1>2, <1>3, <1>4, <1>5
<1>6. ASSUME v \notin Streams PROVE GivenPairs' = GivenPairs
      BY <1>1, <1>2, <1>3, <1>4, <1>6
<1>7. \A pair \in GivenPairs : pair[2] # a
      BY <1>2, <1>3
<1> QED BY <1>5, <1>6, <1>7

LEMMA HandoffStep ==
  TypeOK /\ Pairing /\ Delivery /\ [Next]_vars => [Handoff!Next]_(Handoff!vars)
<1> SUFFICES ASSUME TypeOK, Pairing, Delivery, [Next]_vars
             PROVE  [Handoff!Next]_(Handoff!vars)
    OBVIOUS
<1>1. ASSUME UNCHANGED <<opened, incoming, buffered, reply>>,
             (task = "gone") = (task' = "gone")
      PROVE  UNCHANGED Handoff!vars
      BY <1>1 DEF Handoff!vars
<1>2. ASSUME NEW s \in Streams, PeerOpens(s) PROVE Handoff!Open(s)
      BY <1>2 DEF PeerOpens, Handoff!Open, taskVars, attemptVars
<1>3. CASE DispatchDrop \/ Reap
  <2>1. Handoff!End
        BY <1>3, NothingToDrop DEF Handoff!End
  <2> QED BY <2>1 DEF Handoff!Next
<1>4. CASE RecvCommand /\ Head(cmds).op # "Close"
  <2>1. PICK a \in Attempts, v \in Answers \cup Streams :
           /\ reply[a] = "unsent" /\ entity[a] # "absent"
           /\ reply' = [reply EXCEPT ![a] = v]
           /\ NoAcceptQueued' /\ task = "recv" /\ task' # "gone"
           /\ UNCHANGED <<opened, entity>>
           /\ \/ v = buffered /\ v \in Streams /\ buffered' = NoStream /\ incoming' = incoming
              \/ v \in incoming /\ incoming' = incoming \ {v} /\ buffered' = buffered
              \/ /\ v \in Answers /\ incoming' = incoming
                 /\ buffered' \in {buffered} /\ (v = "dropped" => entity[a] # "Accept")
        BY <1>4, AcceptHandled DEF Delivery
  <2>2. /\ v \in Streams => GivenPairs' = GivenPairs \cup {<<v, a>>}
        /\ v \notin Streams => GivenPairs' = GivenPairs
        /\ \A pair \in GivenPairs : pair[2] # a
        BY <2>1, GivenGrows
  <2>3. CASE v \in Streams
    <3>1. Handoff!Give(v, a)
          BY <2>1, <2>2, <2>3, Distinct
          DEF Handoff!Give, GivenPairs, Delivery, OneHome, TypeOK
    <3> QED BY <2>3, <3>1 DEF Handoff!Next
  <2>4. CASE v \notin Streams
    <3>1. UNCHANGED Handoff!vars
          BY <2>1, <2>2, <2>4 DEF Handoff!vars, GivenPairs, TypeOK
    <3> QED BY <3>1
  <2> QED BY <2>3, <2>4
<1>5. CASE RecvCommand /\ Head(cmds).op = "Close"
      BY <1>1, <1>5 DEF RecvCommand
<1>6. CASE PollAccept
  <2>1. /\ UNCHANGED <<opened, reply>> /\ task = "accept" /\ task' # "gone"
        BY <1>6 DEF PollAccept, SetDisconnect, SeeConnectionError, attemptVars
  <2>2. buffered = NoStream
        BY <2>1 DEF Pairing, Control
  <2>3. CASE UNCHANGED <<incoming, buffered>>
        BY <1>1, <2>1, <2>3
  <2>4. ASSUME NEW s \in incoming, buffered' = s, incoming' = incoming \ {s}
        PROVE  Handoff!Next
    <3>1. s \in Streams
          BY DEF TypeOK
    <3>2. Handoff!Hold(s)
          BY <2>1, <2>2, <2>4, <3>1, Distinct DEF Handoff!Hold
    <3> QED BY <3>1, <3>2 DEF Handoff!Next
  <2> QED BY <1>6, <2>3, <2>4 DEF PollAccept, BufferStream
<1>7. ASSUME NEW op \in AcceptOps, AcceptSwap(op) PROVE UNCHANGED Handoff!vars
      BY <1>1, <1>7 DEF AcceptSwap, quicVars, taskVars, attemptVars
<1>8. ASSUME NEW how \in {"ended", "lostClosed", "lostOther"}, ConnectionEnds(how)
      PROVE UNCHANGED Handoff!vars
      BY <1>1, <1>8 DEF ConnectionEnds, taskVars, attemptVars
<1>9. CASE AcceptCheck \/ CloseCheck \/ RemoveComponent
      BY <1>1, <1>9 DEF AcceptCheck, CloseCheck, RemoveComponent, quicVars, taskVars,
         attemptVars
<1>10. ASSUME NEW a \in Attempts, AcceptSend(a) PROVE UNCHANGED Handoff!vars
      BY <1>1, <1>10 DEF AcceptSend, quicVars, taskVars
<1>11. CASE CloseSend
      BY <1>1, <1>11 DEF CloseSend, taskVars, attemptVars
<1>12. ASSUME NEW a \in Attempts, HandleAttempt(a) \/ DiscardAttempt(a)
      PROVE UNCHANGED Handoff!vars
      BY <1>1, <1>12 DEF HandleAttempt, DiscardAttempt, quicVars, taskVars
<1>13. CASE Dispatch \/ RecvClosed \/ RecvPending \/ Publish
      BY <1>1, <1>13 DEF Dispatch, RecvClosed, RecvPending, Publish, SetDisconnect,
         quicVars, attemptVars
<1>14. CASE UNCHANGED vars
      BY <1>1, <1>14 DEF vars, quicVars, taskVars, attemptVars
<1> QED
    BY <1>2, <1>3, <1>4, <1>5, <1>6, <1>7, <1>8, <1>9, <1>10, <1>11, <1>12, <1>13, <1>14
    DEF Next, Worker, HandleDisconnection, DespawnConnection, Handoff!Next

\* The detailed connection implements the abstract hand-off of streams.
THEOREM ConnectionImplementsHandoff == Spec => ImplementsHandoff
<1>1. Spec => Handoff!Spec
      BY Invariance, HandoffInit, HandoffStep, PTL DEF Spec, Handoff!Spec
<1> QED BY <1>1 DEF ImplementsHandoff

-----------------------------------------------------------------------------
(* The reason is published before the task is removed, as long as the       *)
(* dispatcher drops no task.                                               *)

Reporting ==
  /\ task = "publish" => disconnect \in Reasons
  /\ task \in {"done", "gone"} => taskState # NoReason

LEMMA ReportingStep ==
  ~DispatcherMayDrop /\ TypeOK /\ Reporting /\ [Next]_vars => Reporting'
<1> SUFFICES ASSUME ~DispatcherMayDrop, TypeOK, Reporting, [Next]_vars PROVE Reporting'
    OBVIOUS
<1> USE DEF Reporting
<1>1. ASSUME UNCHANGED <<task, disconnect, taskState>> PROVE Reporting'
      BY <1>1
<1>2. CASE Dispatch
      BY <1>2 DEF Dispatch
<1>3. CASE Reap
      BY <1>3 DEF Reap, DropTask
<1>4. CASE RecvClosed
      BY <1>4 DEF RecvClosed, SetDisconnect, Reasons, sharedVars
<1>5. CASE RecvPending
      BY <1>5 DEF RecvPending
<1>6. CASE PollAccept
      BY <1>6 DEF PollAccept, SetDisconnect, SeeConnectionError, Reasons
<1>7. CASE Publish
      BY <1>7 DEF Publish, Reasons, NoReason
<1>8. CASE RecvCommand
  <2>1. taskState' = taskState /\ task = "recv"
        BY <1>8 DEF RecvCommand
  <2>2. CASE task' = task
        BY <2>1, <2>2
  <2>3. CASE task' = "publish" /\ disconnect' = "ConnectionError"
        BY <2>1, <2>3 DEF Reasons
  <2> QED BY <1>8, <2>2, <2>3
          DEF RecvCommand, GiveBuffered, ShortPoll, SeeConnectionError, SetDisconnect
<1>9. CASE AcceptCheck \/ CloseCheck \/ CloseSend \/ RemoveComponent
      BY <1>1, <1>9 DEF AcceptCheck, CloseCheck, CloseSend, RemoveComponent,
         sharedVars, taskVars
<1>10. CASE \E s \in Streams : PeerOpens(s)
      BY <1>1, <1>10 DEF PeerOpens, sharedVars, taskVars
<1>11. CASE \E how \in {"ended", "lostClosed", "lostOther"} : ConnectionEnds(how)
      BY <1>1, <1>11 DEF ConnectionEnds, sharedVars, taskVars
<1>12. CASE \E op \in AcceptOps : AcceptSwap(op)
      BY <1>1, <1>12 DEF AcceptSwap, taskVars
<1>13. CASE \E a \in Attempts : AcceptSend(a) \/ HandleAttempt(a) \/ DiscardAttempt(a)
      BY <1>1, <1>13 DEF AcceptSend, HandleAttempt, DiscardAttempt, sharedVars, taskVars
<1>14. CASE UNCHANGED vars
      BY <1>1, <1>14 DEF vars, sharedVars, taskVars
<1> QED
    BY <1>2, <1>3, <1>4, <1>5, <1>6, <1>7, <1>8, <1>9, <1>10, <1>11, <1>12, <1>13, <1>14
    DEF Next, Worker, HandleDisconnection, DespawnConnection, DispatchDrop

\* Unless the dispatcher drops tasks, no task goes without leaving its reason.
THEOREM TaskReportsBeforeGone == ~DispatcherMayDrop /\ Spec => []ReportedBeforeGone
<1>1. Init => Reporting
      BY DEF Init, Reporting, NoReason
<1>2. Reporting => ReportedBeforeGone
      BY DEF Reporting, ReportedBeforeGone
<1>3. CASE DispatcherMayDrop
      BY <1>3
<1>4. CASE ~DispatcherMayDrop
  <2>1. TypeOK /\ Reporting /\ [Next]_vars => Reporting'
        BY <1>4, ReportingStep
  <2> QED BY <1>1, <1>2, <2>1, TypeCorrect, PTL DEF Spec
<1> QED BY <1>3, <1>4

-----------------------------------------------------------------------------
(* A buffered stream can be got out, as long as the application uses        *)
(* accept_stream only: a typed accept takes the flag and may leave the      *)
(* stream where it is.  That a token is given back for nothing only when    *)
(* the connection is closing needs what closes the flags and who has room.  *)

Reaching ==
  /\ BufferedReachable
  /\ InCall => call.op = "Accept"
  /\ \A i \in DOMAIN cmds : cmds[i].op \in {"Accept", "Close"}
  /\ ~openFlag => conn # "open"
  /\ taskState # NoReason => task \in {"done", "gone"}
  /\ task \in {"publish", "done"} /\ component => buffered = NoStream

\* A new connection has nothing buffered.
LEMMA ReachingInit == Init => Reaching
  BY DEF Init, Reaching, BufferedReachable, InCall, Idle, AllAcceptOps, NoReason

\* The task takes the command at the head of its channel: an Accept takes the stream, a
\* Close closes the connection.
LEMMA ReachingRecv == TypeOK /\ Reaching /\ RecvCommand => Reaching'
<1> SUFFICES ASSUME TypeOK, Reaching, RecvCommand PROVE Reaching'
    OBVIOUS
<1> DEFINE c == Head(cmds)
<1>1. /\ cmds \in Seq(Command) /\ cmds # <<>> /\ cmds' = Tail(cmds) /\ task = "recv"
      /\ UNCHANGED <<pendingStream, taskState, component, call>>
      BY DEF RecvCommand, TypeOK, bevyVars
<1>2. /\ 1 \in DOMAIN cmds /\ c = cmds[1]
      /\ \A i \in DOMAIN cmds' : i + 1 \in DOMAIN cmds /\ cmds'[i] = cmds[i + 1]
      BY <1>1, AfterTail
<1>3. \A i \in DOMAIN cmds' : cmds'[i].op \in {"Accept", "Close"}
      BY <1>2 DEF Reaching
<1>4. (InCall => call.op = "Accept")'
      BY <1>1 DEF Reaching, InCall
<1>5. taskState = NoReason /\ taskState' = NoReason
      BY <1>1 DEF Reaching
<1>6. CASE c.op = "Close"
  <2>1. conn' # "open" /\ UNCHANGED <<openFlag, task, buffered>>
        BY <1>6 DEF RecvCommand, CloseQuic, TypeOK
  <2> QED BY <1>1, <1>3, <1>4, <1>5, <2>1 DEF Reaching, BufferedReachable, Closing
<1>7. CASE c.op # "Close"
  <2>1. c.op = "Accept"
        BY <1>2, <1>7 DEF Reaching
  <2>2. buffered' = NoStream /\ UNCHANGED <<conn, openFlag, task>>
        BY <1>7, <2>1 DEF RecvCommand, GiveBuffered, ShortPoll
  <2> QED BY <1>1, <1>3, <1>4, <1>5, <2>2 DEF Reaching, BufferedReachable
<1> QED BY <1>6, <1>7

\* Every step keeps a buffered stream within reach.
LEMMA ReachingStep ==
  AcceptOps \subseteq {"Accept"} /\ TypeOK /\ Pairing /\ Reaching /\ [Next]_vars => Reaching'
<1> SUFFICES ASSUME AcceptOps \subseteq {"Accept"}, TypeOK, Pairing, Reaching, [Next]_vars
             PROVE Reaching'
    OBVIOUS
\* Steps that leave token, stream and task alone.
<1>1. ASSUME UNCHANGED <<pendingStream, openFlag, taskState, cmds, task, buffered, call>>,
             component' => component, conn' = conn \/ conn' # "open"
      PROVE Reaching'
      BY <1>1 DEF Reaching, BufferedReachable, Token, Closing, InCall, AcceptAt
\* Steps that leave nothing buffered, or no task.
<1>2. ASSUME buffered' = NoStream \/ task' = "gone" \/ ~component',
             buffered' = NoStream \/ task' \notin {"publish", "done"} \/ ~component',
             UNCHANGED call \/ ~InCall',
             UNCHANGED cmds \/ cmds' = <<>>,
             UNCHANGED <<openFlag, conn>> \/ conn' # "open",
             taskState' # NoReason => task' \in {"done", "gone"}
      PROVE Reaching'
      BY <1>2 DEF Reaching, BufferedReachable, InCall
<1>3. ASSUME NEW op \in AcceptOps, AcceptSwap(op) PROVE Reaching'
  <2>1. /\ call' = [op |-> "Accept", at |-> "swapped"] /\ InCall'
        /\ UNCHANGED <<openFlag, taskState, cmds, task, buffered, component, conn>>
        BY <1>3 DEF AcceptSwap, quicVars, taskVars, InCall, AllAcceptOps
  <2> QED BY <2>1 DEF Reaching, BufferedReachable, Token
<1>4. CASE AcceptCheck
  <2>1. /\ call.op \in AllAcceptOps /\ InCall
        /\ UNCHANGED <<conn, pendingStream, openFlag, taskState, cmds, task, buffered, component>>
        BY <1>4 DEF AcceptCheck, quicVars, sharedVars, taskVars, TypeOK, Idle, InCall
  <2>2. CASE IsOpen
    <3>1. call'.op = call.op
          BY <1>4, <2>2 DEF AcceptCheck, TypeOK, Idle
    <3> QED BY <2>1, <3>1 DEF Reaching, BufferedReachable, Token, InCall
  <2>3. CASE ~IsOpen
    <3>1. ~InCall'
          BY <1>4, <2>3 DEF AcceptCheck, InCall, Idle, AllAcceptOps
    <3>2. buffered # NoStream /\ component /\ task # "gone" => conn # "open"
      <4>1. buffered # NoStream /\ component /\ task # "gone" => task = "recv"
            BY DEF TypeOK, Pairing, Control, Reaching
      <4>2. task = "recv" => taskState = NoReason
            BY DEF Reaching
      <4> QED BY <2>3, <4>1, <4>2 DEF IsOpen, Reaching
    <3> QED BY <2>1, <3>1, <3>2 DEF Reaching, BufferedReachable, Closing
  <2> QED BY <2>2, <2>3
<1>5. ASSUME NEW a \in Attempts, AcceptSend(a) PROVE Reaching'
  <2> DEFINE c == [op |-> call.op, to |-> a]
  <2>1. /\ InCall /\ call.op = "Accept" /\ ~InCall'
        /\ UNCHANGED <<conn, pendingStream, openFlag, taskState, task, buffered, component>>
        BY <1>5 DEF AcceptSend, quicVars, taskVars, InCall, Idle, AllAcceptOps, Reaching
  <2>2. CASE CanSend
    <3>1. /\ cmds' = Append(cmds, c) /\ cmds \in Seq(Command) /\ c \in Command
          /\ c.op = "Accept"
          BY <1>5, <2>1, <2>2 DEF AcceptSend, InCall, TypeOK, Command
    <3> HIDE DEF c
    <3>2. \A i \in DOMAIN cmds' :
             \/ i \in DOMAIN cmds /\ cmds'[i] = cmds[i]
             \/ i = Len(cmds) + 1 /\ cmds'[i] = c
          BY <3>1, AfterAppend
    <3>3. Len(cmds) + 1 \in DOMAIN cmds' /\ cmds'[Len(cmds) + 1] = c
          BY <3>1, AppendProperties
    <3>4. Token'
          BY <3>1, <3>3 DEF Token, AcceptAt, AllAcceptOps
    <3>5. \A i \in DOMAIN cmds' : cmds'[i].op \in {"Accept", "Close"}
          BY <3>1, <3>2 DEF Reaching
    <3> QED BY <2>1, <3>4, <3>5 DEF Reaching, BufferedReachable
  <2>3. CASE ~CanSend
    <3>1. UNCHANGED cmds
          BY <1>5, <2>3 DEF AcceptSend
    <3>2. task # "gone" => 1 \in DOMAIN cmds /\ cmds[1].op = "Close"
      <4>1. cmds \in Seq(Command) /\ (task # "gone" => ~(Len(cmds) < CmdCap))
            BY <2>3 DEF CanSend, TypeOK
      <4>2. task # "gone" => 1 \in DOMAIN cmds
            BY <4>1, Bounds
      <4>3. \A i \in DOMAIN cmds : cmds[i].op = "Close"
            BY <2>1 DEF Pairing, AcceptFindsStream, AcceptAt, Reaching, AllAcceptOps
      <4> QED BY <4>2, <4>3
    <3>3. task # "gone" => Closing'
          BY <3>1, <3>2 DEF Closing
    <3> QED BY <2>1, <3>1, <3>3 DEF Reaching, BufferedReachable
  <2> QED BY <2>2, <2>3
<1>6. CASE CloseCheck
  <2>1. /\ call'.op = "Close" /\ ~InCall'
        /\ UNCHANGED <<conn, openFlag, taskState, cmds, task, buffered, component>>
        BY <1>6 DEF CloseCheck, quicVars, sharedVars, taskVars, InCall, AllAcceptOps
  <2> QED BY <2>1 DEF Reaching, BufferedReachable, Closing
<1>7. CASE CloseSend
  <2> DEFINE c == [op |-> "Close"]
  <2>1. /\ ~InCall'
        /\ UNCHANGED <<pendingStream, openFlag, taskState, task, buffered, component>>
        BY <1>7 DEF CloseSend, taskVars, InCall, Idle, AllAcceptOps
  <2>2. CASE CanSend
    <3>1. /\ cmds' = Append(cmds, c) /\ cmds \in Seq(Command) /\ c \in Command
          /\ c.op = "Close" /\ UNCHANGED conn
          BY <1>7, <2>2 DEF CloseSend, TypeOK, Command
    <3> HIDE DEF c
    <3>2. \A i \in DOMAIN cmds' :
             \/ i \in DOMAIN cmds /\ cmds'[i] = cmds[i]
             \/ i = Len(cmds) + 1 /\ cmds'[i] = c
          BY <3>1, AfterAppend
    <3>3. Len(cmds) + 1 \in DOMAIN cmds' /\ cmds'[Len(cmds) + 1] = c
          BY <3>1, AppendProperties
    <3>4. Closing'
          BY <3>1, <3>3 DEF Closing
    <3>5. \A i \in DOMAIN cmds' : cmds'[i].op \in {"Accept", "Close"}
          BY <3>1, <3>2 DEF Reaching
    <3> QED BY <2>1, <3>1, <3>4, <3>5 DEF Reaching, BufferedReachable
  <2>3. CASE ~CanSend
    <3>1. UNCHANGED cmds /\ conn' # "open"
          BY <1>7, <2>3 DEF CloseSend, CloseQuic, TypeOK
    <3> QED BY <2>1, <3>1 DEF Reaching, BufferedReachable, Closing
  <2> QED BY <2>2, <2>3
<1>8. CASE RemoveComponent
      BY <1>1, <1>8 DEF RemoveComponent, quicVars, sharedVars, taskVars
<1>9. CASE DispatchDrop \/ Reap
  <2>1. /\ task' = "gone" /\ cmds' = <<>> /\ UNCHANGED <<call, openFlag, conn, taskState>>
        BY <1>9 DEF DispatchDrop, Reap, DropTask, bevyVars, quicVars
  <2> QED BY <1>2, <2>1
<1>10. CASE Dispatch
  <2>1. /\ task = "queued" /\ task' = "recv" /\ UNCHANGED <<buffered, call, cmds, openFlag, conn, taskState>>
        BY <1>10 DEF Dispatch, quicVars, sharedVars, bevyVars
  <2>2. buffered' = NoStream /\ taskState' = NoReason
        BY <2>1 DEF Pairing, Control, Reaching
  <2> QED BY <1>2, <2>1, <2>2
<1>11. CASE RecvClosed
  <2>1. /\ ~component' /\ task = "recv" /\ UNCHANGED <<call, cmds, openFlag, conn, taskState>>
        BY <1>11 DEF RecvClosed, quicVars, sharedVars, bevyVars
  <2>2. taskState' = NoReason
        BY <2>1 DEF Reaching
  <2> QED BY <1>2, <2>1, <2>2
<1>12. CASE RecvPending
  <2>1. /\ task = "recv" /\ buffered' = NoStream /\ UNCHANGED <<call, cmds, openFlag, conn, taskState>>
        BY <1>12 DEF RecvPending, MayPollAccept, quicVars, sharedVars, bevyVars
  <2>2. taskState' = NoReason
        BY <2>1 DEF Reaching
  <2> QED BY <1>2, <2>1, <2>2
<1>13. CASE PollAccept
  <2>1. /\ task = "accept" /\ buffered = NoStream /\ taskState' = NoReason
        /\ UNCHANGED <<call, cmds, conn, taskState>>
        BY <1>13 DEF PollAccept, bevyVars, Pairing, Control, Reaching
  <2>2. CASE buffered' = NoStream
    <3>1. UNCHANGED openFlag \/ conn' # "open"
          BY <1>13, <2>1 DEF PollAccept, SeeConnectionError
    <3> QED BY <1>2, <2>1, <2>2, <3>1
  <2>3. CASE buffered' # NoStream
    <3>1. pendingStream' /\ task' = "recv" /\ UNCHANGED openFlag
          BY <1>13, <2>1, <2>3 DEF PollAccept, BufferStream
    <3> QED BY <2>1, <3>1 DEF Reaching, BufferedReachable, Token, InCall
  <2> QED BY <2>2, <2>3
<1>14. CASE Publish
  <2>1. /\ task = "publish" /\ task' = "done"
        /\ UNCHANGED <<conn, pendingStream, openFlag, cmds, buffered, component, call>>
        BY <1>14 DEF Publish, quicVars, bevyVars
  <2> QED BY <1>2, <2>1 DEF Reaching
<1>15. CASE \/ \E s \in Streams : PeerOpens(s)
            \/ \E how \in {"ended", "lostClosed", "lostOther"} : ConnectionEnds(how)
            \/ \E a \in Attempts : HandleAttempt(a) \/ DiscardAttempt(a)
            \/ UNCHANGED vars
       BY <1>1, <1>15 DEF PeerOpens, ConnectionEnds, HandleAttempt, DiscardAttempt, vars,
          quicVars, sharedVars, taskVars, bevyVars
<1>16. CASE RecvCommand
       BY <1>16, ReachingRecv
<1> QED
    BY <1>3, <1>4, <1>5, <1>6, <1>7, <1>8, <1>9, <1>10, <1>11, <1>12, <1>13, <1>14, <1>15, <1>16
    DEF Next, Worker, HandleDisconnection, DespawnConnection

\* With accept_stream alone, a buffered stream does not lock up a connection that is
\* open: the flag is up or an accept is on its way, whatever the interleaving.
THEOREM BufferedStaysReachable == AcceptOps \subseteq {"Accept"} /\ Spec => []BufferedReachable
<1>1. Reaching => BufferedReachable
      BY DEF Reaching
<1>2. CASE ~(AcceptOps \subseteq {"Accept"})
      BY <1>2
<1>3. CASE AcceptOps \subseteq {"Accept"}
  <2>1. TypeOK /\ Pairing /\ Delivery /\ Reaching /\ [Next]_vars => Reaching'
        BY <1>3, ReachingStep
  <2> QED BY <1>1, <2>1, ReachingInit, Invariance, PTL DEF Spec
<1> QED BY <1>2, <1>3
=============================================================================
