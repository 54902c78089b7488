--------------------------- MODULE QuicConnection ---------------------------
(***************************************************************************)
(* One QUIC connection: the QuicConnection component that Bevy systems     *)
(* call, and the ConnectionTask an orchestrator worker polls.  They share  *)
(* the pending_stream flag, the OpenFlag, the OnceLock task state and the  *)
(* bounded command channel; answers come back through one oneshot channel  *)
(* per accept attempt.                                                     *)
(*                                                                         *)
(* The worker polls a task with poll_once().now_or_never(): the future is  *)
(* polled once and dropped.  An await that is not ready at that instant is *)
(* therefore cancelled, with everything the future owned.                  *)
(***************************************************************************)
EXTENDS Naturals, Sequences

CONSTANTS
  Streams,            \* streams the peer may open
  BidiStreams,        \* those that are bidirectional, the others are receive
  Attempts,           \* accept attempts (entities) that may be created
  AcceptOps,          \* accept methods the application calls
  CmdCap,             \* CONNECTION_CTRL_CHANNEL_SIZE
  MaxCloses,          \* bound on the calls to close()
  DispatcherMayDrop,  \* can every worker channel be full at dispatch?
  NoStream            \* an empty buffered_stream

AllAcceptOps == {"Accept", "AcceptReceive", "AcceptBidirectional"}
Answers == {"unsent", "dropped", "none", "failed"}

ASSUME ConnectionAssumption ==
  /\ BidiStreams \subseteq Streams
  /\ AcceptOps \subseteq AllAcceptOps
  /\ CmdCap \in Nat \ {0}
  /\ MaxCloses \in Nat
  /\ DispatcherMayDrop \in BOOLEAN
  /\ NoStream \notin Streams
  /\ Streams \cap Answers = {}

VARIABLES
  opened,         \* streams the peer has opened so far
  incoming,       \* opened streams waiting in the QUIC library
  conn,           \* how the QUIC connection stands
  pendingStream,  \* StreamFlag: a stream was buffered and not yet asked for
  openFlag,       \* OpenFlag
  taskState,      \* OnceLockState: the published disconnect reason
  cmds,           \* the command channel
  task,           \* where the ConnectionTask is, and where in poll_once
  buffered,       \* buffered_stream
  disconnect,     \* disconnect_flag, private to the task
  component,      \* is the QuicConnection component still on its entity?
  call,           \* the method of QuicConnection that is executing
  closes,         \* calls to close() so far, for the bound MaxCloses
  entity,         \* what each attempt's entity carries
  reply           \* the oneshot channel of each attempt

quicVars    == <<opened, incoming, conn>>
sharedVars  == <<pendingStream, openFlag, taskState, cmds>>
taskVars    == <<task, buffered, disconnect>>
bevyVars    == <<component, call, closes>>
attemptVars == <<entity, reply>>
vars == <<quicVars, sharedVars, taskVars, bevyVars, attemptVars>>

NoReason == "None"
Reasons  == {"PeerClosed", "ConnectionError", "MspcChannelClosed",
             "OrchestratorError"}
Idle     == [op |-> "none", at |-> "idle"]
Command  == [op : AllAcceptOps, to : Attempts] \cup [op : {"Close"}]
ReceiveStreams == Streams \ BidiStreams

-----------------------------------------------------------------------------
(* What QuicConnection::new leaves: its task is in the orchestrator's      *)
(* channel, or the push was refused, the reason is already published and   *)
(* the QUIC connection is being closed.                                    *)
Init ==
  /\ opened = {} /\ incoming = {}
  /\ pendingStream = FALSE /\ openFlag = TRUE
  /\ cmds = <<>>
  /\ buffered = NoStream /\ disconnect = NoReason
  /\ component = TRUE /\ call = Idle /\ closes = 0
  /\ entity = [a \in Attempts |-> "absent"]
  /\ reply = [a \in Attempts |-> "unsent"]
  /\ \/ task = "queued" /\ taskState = NoReason /\ conn = "open"
     \/ task = "gone" /\ taskState = "OrchestratorError" /\ conn = "lostClosed"

-----------------------------------------------------------------------------
(* The QUIC library and the peer.                                          *)

\* The peer opens a stream.
PeerOpens(s) ==
  /\ conn = "open" /\ s \notin opened
  /\ opened' = opened \cup {s}
  /\ incoming' = incoming \cup {s}
  /\ UNCHANGED <<conn, sharedVars, taskVars, bevyVars, attemptVars>>

\* The connection ends: without an error, with one is_closed() knows, or with
\* another one.
ConnectionEnds(how) ==
  /\ conn = "open" /\ how \in {"ended", "lostClosed", "lostOther"}
  /\ conn' = how
  /\ UNCHANGED <<opened, incoming, sharedVars, taskVars, bevyVars, attemptVars>>

\* Fault: the connection is not told.
CloseNothing == UNCHANGED conn

\* Closing on our side; the first cause of an end is the one that stays.
CloseQuic == IF conn = "open" THEN conn' \in {"ended", "lostClosed"}
                              ELSE UNCHANGED conn

-----------------------------------------------------------------------------
(* QuicConnection, on the Bevy side.  A method runs while it has exclusive *)
(* access to the component, the worker runs at the same time.              *)

\* is_open()
IsOpen == taskState = NoReason /\ openFlag

\* Fault: the bound of the channel is not tested.
CanSendUnbounded == task # "gone"

\* try_send: the receiver lives as long as the task, queued or polled.
CanSend == task # "gone" /\ Len(cmds) < CmdCap

\* Fault: the flag is stored, not swapped, and its old value not looked at.
AcceptSwapBlind(op) ==
  /\ component /\ call = Idle
  /\ \E a \in Attempts : entity[a] = "absent"
  /\ pendingStream' = FALSE
  /\ call' = [op |-> op, at |-> "swapped"]
  /\ UNCHANGED <<quicVars, openFlag, taskState, cmds, taskVars, component,
                 closes, attemptVars>>

\* accept_stream and its two typed variants: the swap takes the flag; when it
\* was not set the call ends there, having changed nothing.
AcceptSwap(op) ==
  /\ component /\ call = Idle
  /\ \E a \in Attempts : entity[a] = "absent"
  /\ pendingStream
  /\ pendingStream' = FALSE
  /\ call' = [op |-> op, at |-> "swapped"]
  /\ UNCHANGED <<quicVars, openFlag, taskState, cmds, taskVars, component,
                 closes, attemptVars>>

AcceptCheck ==
  /\ call.at = "swapped"
  /\ call' = IF IsOpen THEN [call EXCEPT !.at = "checked"] ELSE Idle
  /\ UNCHANGED <<quicVars, sharedVars, taskVars, component, closes, attemptVars>>

\* The command goes out and the attempt that waits for the answer is spawned
\* by the acceptor; a full or closed channel is reported to the caller.
AcceptSend(a) ==
  /\ call.op \in AllAcceptOps /\ call.at = "checked"
  /\ entity[a] = "absent"
  /\ IF CanSend
     THEN /\ cmds' = Append(cmds, [op |-> call.op, to |-> a])
          /\ entity' = [entity EXCEPT ![a] = call.op]
     ELSE UNCHANGED <<cmds, entity>>
  /\ call' = Idle
  /\ UNCHANGED <<quicVars, pendingStream, openFlag, taskState, taskVars,
                 component, closes, reply>>

CloseCheck ==
  /\ component /\ call = Idle /\ closes < MaxCloses
  /\ IsOpen
  /\ call' = [op |-> "Close", at |-> "checked"]
  /\ closes' = closes + 1
  /\ UNCHANGED <<quicVars, sharedVars, taskVars, component, attemptVars>>

\* A full or closed channel makes close() close the QUIC connection itself.
CloseSend ==
  /\ call = [op |-> "Close", at |-> "checked"]
  /\ IF CanSend
     THEN cmds' = Append(cmds, [op |-> "Close"]) /\ UNCHANGED conn
     ELSE CloseQuic /\ UNCHANGED cmds
  /\ call' = Idle
  /\ UNCHANGED <<opened, incoming, pendingStream, openFlag, taskState, taskVars,
                 component, closes, attemptVars>>

RemoveComponent ==
  /\ component /\ call = Idle
  /\ component' = FALSE
  /\ UNCHANGED <<quicVars, sharedVars, taskVars, call, closes, attemptVars>>

\* handle_connection_disconnections: the reason is published, Disconnected is
\* triggered and the component removed.
HandleDisconnection == taskState # NoReason /\ RemoveComponent

\* The application despawns the connection's entity at any time.
DespawnConnection == RemoveComponent

\* handle_*_stream_attempt.  attempt_result() stays Pending while the oneshot
\* holds no value, also when its sender is gone: is_empty() is tested first.
HandleAttempt(a) ==
  /\ entity[a] \in AllAcceptOps
  /\ reply[a] \notin {"unsent", "dropped"}
  /\ entity' = [entity EXCEPT ![a] =
        CASE reply[a] = "none"   -> "despawned"
          [] reply[a] = "failed" -> "error"
          [] OTHER               -> "stream"]
  /\ UNCHANGED <<quicVars, sharedVars, taskVars, bevyVars, reply>>

\* The application despawns an attempt that is still waiting.
DiscardAttempt(a) ==
  /\ entity[a] \in AllAcceptOps
  /\ entity' = [entity EXCEPT ![a] = "discarded"]
  /\ UNCHANGED <<quicVars, sharedVars, taskVars, bevyVars, reply>>

-----------------------------------------------------------------------------
(* ConnectionTask, on an orchestrator worker.                              *)

\* The dispatcher hands the task to a worker...
Dispatch ==
  /\ task = "queued"
  /\ task' = "recv"
  /\ UNCHANGED <<quicVars, sharedVars, buffered, disconnect, bevyVars, attemptVars>>

\* Dropping the task drops the receiver of the channel, and with the commands
\* in it the senders of their oneshots.
DropTask ==
  /\ task' = "gone"
  /\ cmds' = <<>>
  /\ buffered' = NoStream
  /\ reply' = [a \in Attempts |->
                 IF \E i \in DOMAIN cmds : cmds[i].op # "Close" /\ cmds[i].to = a
                 THEN "dropped" ELSE reply[a]]

\* ...or drops it when all the worker channels are full.
DispatchDrop ==
  /\ DispatcherMayDrop
  /\ task = "queued"
  /\ DropTask
  /\ UNCHANGED <<quicVars, pendingStream, openFlag, taskState, disconnect,
                 bevyVars, entity>>

\* respond_to.send(v); what is sent to a discarded attempt is dropped there.
Answer(a, v) == reply' = [reply EXCEPT ![a] = v]

SetDisconnect(reason) == disconnect' = reason /\ task' = "publish"

\* An error of the connection: is_open is closed when is_closed() knows it.
SeeConnectionError ==
  /\ conn \in {"lostClosed", "lostOther"}
  /\ openFlag' = (openFlag /\ conn # "lostClosed")
  /\ SetDisconnect("ConnectionError")

KindOf(op) == CASE op = "AcceptReceive"       -> ReceiveStreams
                [] op = "AcceptBidirectional" -> BidiStreams
                [] OTHER                      -> Streams

\* Fault: the stream is answered but not taken out of buffered_stream.
GiveBufferedKept(c) ==
  /\ c.op = "Accept" \/ buffered \in KindOf(c.op)
  /\ Answer(c.to, IF buffered = NoStream THEN "none" ELSE buffered)
  /\ UNCHANGED <<buffered, incoming, openFlag, task, disconnect>>

\* handle_command when the buffered stream is one the command asked for; an
\* Accept that finds none is told so.
GiveBuffered(c) ==
  /\ c.op = "Accept" \/ buffered \in KindOf(c.op)
  /\ Answer(c.to, IF buffered = NoStream THEN "none" ELSE buffered)
  /\ buffered' = NoStream
  /\ UNCHANGED <<incoming, openFlag, task, disconnect>>

\* accept_receive / accept_bidirectional: one poll of the typed accept under a
\* timeout of one millisecond.  Not ready, it is cancelled together with the
\* command's oneshot sender, unless the timer elapsed before that poll.
ShortPoll(c) ==
  /\ c.op # "Accept" /\ buffered \notin KindOf(c.op)
  /\ UNCHANGED buffered
  /\ \/ /\ \E s \in incoming \cap KindOf(c.op) :
             Answer(c.to, s) /\ incoming' = incoming \ {s}
        /\ UNCHANGED <<openFlag, task, disconnect>>
     \/ /\ conn = "ended"
        /\ Answer(c.to, "none")
        /\ UNCHANGED <<incoming, openFlag, task, disconnect>>
     \/ /\ SeeConnectionError
        /\ Answer(c.to, "failed")
        /\ UNCHANGED incoming
     \/ /\ conn = "open" /\ incoming \cap KindOf(c.op) = {}
        /\ Answer(c.to, "dropped") \/ Answer(c.to, "none")
        /\ UNCHANGED <<incoming, openFlag, task, disconnect>>

\* recv() is ready: the command at the head is handled in the same poll.
RecvCommand ==
  /\ task = "recv" /\ cmds # <<>>
  /\ LET c == Head(cmds) IN
       IF c.op = "Close"
       THEN CloseQuic /\ UNCHANGED <<incoming, buffered, openFlag, task,
                                     disconnect, reply>>
       ELSE /\ GiveBuffered(c) \/ ShortPoll(c)
            /\ UNCHANGED conn
  /\ cmds' = Tail(cmds)
  /\ UNCHANGED <<opened, pendingStream, taskState, bevyVars, entity>>

\* recv() answers None: every sender is gone and the channel is drained.
RecvClosed ==
  /\ task = "recv" /\ cmds = <<>> /\ ~component
  /\ SetDisconnect("MspcChannelClosed")
  /\ UNCHANGED <<quicVars, sharedVars, buffered, bevyVars, attemptVars>>

\* Fault: the connection is polled for streams whatever is buffered.
MayPollAcceptAlways == TRUE

\* With a stream buffered, poll_once waits for a command only.
MayPollAccept == buffered = NoStream

\* recv() is pending: nothing was queued, or the round has spent the budget
\* tokio gives it.  The select goes on to its second branch.
RecvPending ==
  /\ task = "recv" /\ MayPollAccept
  /\ task' = "accept"
  /\ UNCHANGED <<quicVars, sharedVars, buffered, disconnect, bevyVars, attemptVars>>

\* Fault: the flag is not raised.
BufferStreamSilently(s) == buffered' = s /\ UNCHANGED pendingStream

\* buffer_stream
BufferStream(s) == pendingStream' = TRUE /\ buffered' = s

\* connection.accept() is ready with a stream, with the end, with an error, or
\* is pending and dropped.
PollAccept ==
  /\ task = "accept"
  /\ \/ /\ \E s \in incoming : BufferStream(s) /\ incoming' = incoming \ {s}
        /\ task' = "recv"
        /\ UNCHANGED <<openFlag, disconnect>>
     \/ /\ conn = "ended"
        /\ SetDisconnect("PeerClosed")
        /\ UNCHANGED <<incoming, buffered, pendingStream, openFlag>>
     \/ /\ SeeConnectionError
        /\ UNCHANGED <<incoming, buffered, pendingStream>>
     \/ /\ conn = "open" /\ incoming = {}
        /\ task' = "recv"
        /\ UNCHANGED <<incoming, buffered, pendingStream, openFlag, disconnect>>
  /\ UNCHANGED <<opened, conn, taskState, cmds, bevyVars, attemptVars>>

\* Fault: the task ends without setting its state.
PublishNothing ==
  /\ task = "publish" /\ task' = "done"
  /\ UNCHANGED <<quicVars, sharedVars, buffered, disconnect, bevyVars, attemptVars>>

\* The end of poll_once: task_state.set, which keeps the first value.
Publish ==
  /\ task = "publish"
  /\ taskState' = IF taskState = NoReason THEN disconnect ELSE taskState
  /\ task' = "done"
  /\ UNCHANGED <<quicVars, pendingStream, openFlag, cmds, buffered, disconnect,
                 bevyVars, attemptVars>>

\* The worker removes a finished task at the end of its round.
Reap ==
  /\ task = "done"
  /\ DropTask
  /\ UNCHANGED <<quicVars, pendingStream, openFlag, taskState, disconnect,
                 bevyVars, entity>>

-----------------------------------------------------------------------------
Worker == RecvCommand \/ RecvClosed \/ RecvPending \/ PollAccept \/ Publish \/ Reap

Next ==
  \/ \E s \in Streams : PeerOpens(s)
  \/ \E how \in {"ended", "lostClosed", "lostOther"} : ConnectionEnds(how)
  \/ \E op \in AcceptOps : AcceptSwap(op)
  \/ AcceptCheck
  \/ \E a \in Attempts : AcceptSend(a)
  \/ CloseCheck \/ CloseSend
  \/ HandleDisconnection \/ DespawnConnection
  \/ \E a \in Attempts : HandleAttempt(a) \/ DiscardAttempt(a)
  \/ Dispatch \/ DispatchDrop
  \/ Worker

Spec == Init /\ [][Next]_vars

\* The worker polls every task of its list in every round, and not every round
\* has spent tokio's budget before it reaches this task; the systems run every
\* frame: the acceptor, the attempt handlers, the disconnect handler; and a
\* method that was called returns.
Fairness ==
  /\ WF_vars(Dispatch) /\ WF_vars(Worker)
  /\ SF_vars(RecvCommand \/ RecvClosed)
  /\ WF_vars(\E op \in AcceptOps : AcceptSwap(op))
  /\ WF_vars(AcceptCheck)
  /\ WF_vars(\E a \in Attempts : AcceptSend(a))
  /\ WF_vars(CloseSend)
  /\ WF_vars(HandleDisconnection)
  /\ \A a \in Attempts : WF_vars(HandleAttempt(a))

FairSpec == Spec /\ Fairness

-----------------------------------------------------------------------------
(* Safety.                                                                 *)

InCall  == call.op \in AllAcceptOps
Waiting(a) == entity[a] \in AllAcceptOps
AcceptAt(i) == i \in DOMAIN cmds /\ cmds[i].op \in AllAcceptOps

\* A token is the right to one accept: the raised flag, the call that took it,
\* or the command that call sent.
Token == pendingStream \/ InCall \/ \E i \in DOMAIN cmds : AcceptAt(i)

TypeOK ==
  /\ opened \subseteq Streams /\ incoming \subseteq opened
  /\ conn \in {"open", "ended", "lostClosed", "lostOther"}
  /\ pendingStream \in BOOLEAN /\ openFlag \in BOOLEAN
  /\ taskState \in Reasons \cup {NoReason}
  /\ cmds \in Seq(Command) /\ Len(cmds) <= CmdCap
  /\ task \in {"queued", "recv", "accept", "publish", "done", "gone"}
  /\ buffered \in Streams \cup {NoStream}
  /\ disconnect \in Reasons \cup {NoReason}
  /\ component \in BOOLEAN
  /\ call \in {Idle, [op |-> "Close", at |-> "checked"]}
              \cup [op : AllAcceptOps, at : {"swapped", "checked"}]
  /\ closes \in 0..MaxCloses
  /\ entity \in [Attempts -> AllAcceptOps \cup
                   {"absent", "stream", "despawned", "error", "discarded"}]
  /\ reply \in [Attempts -> Answers \cup Streams]

\* Never two accepts under way for one buffered stream, and none without one:
\* the swap of pending_stream and "with a stream buffered, wait for a command
\* only" pair each raised flag with one stream, so that an Accept the task
\* handles always finds a stream.
AcceptFindsStream ==
  /\ pendingStream => ~InCall /\ \A i \in DOMAIN cmds : ~AcceptAt(i)
  /\ InCall => \A i \in DOMAIN cmds : ~AcceptAt(i)
  /\ \A i, j \in DOMAIN cmds : AcceptAt(i) /\ AcceptAt(j) => i = j
  /\ Token /\ task # "gone" => buffered # NoStream

\* Is the connection closed, or a close() under way?
Closing ==
  \/ conn # "open" \/ call.op = "Close"
  \/ \E i \in DOMAIN cmds : cmds[i].op = "Close"

\* A buffered stream stops the task from polling the connection, so the
\* application must be able to get it out: as long as the component is there and
\* the task runs, the flag is up or an accept is on its way.  Only close() may
\* take that away, by filling the command channel: then the stream is stranded.
BufferedReachable ==
  buffered # NoStream /\ component /\ task # "gone" => Token \/ Closing

\* A buffered stream nobody can ask for any more: the accept that took its flag
\* found the command channel full.
Stranded == buffered # NoStream /\ ~Token

\* Every stream the peer opened is in one place: with the QUIC library, buffered
\* or answered to one attempt; none is delivered twice or to two attempts.
OneHome ==
  /\ buffered \notin incoming
  /\ \A a \in Attempts : reply[a] \in Streams =>
       /\ reply[a] \notin incoming /\ reply[a] # buffered
       /\ \A b \in Attempts : reply[a] = reply[b] => a = b

\* The task is never taken down with an Accept in its command channel: an
\* attempt whose sender was dropped unanswered is one of a typed accept.
NoOrphanedAccept == \A a \in Attempts : reply[a] = "dropped" => entity[a] # "Accept"

\* A task that is gone has left its reason: get_disconnect_reason() is None only
\* while the task exists.
ReportedBeforeGone == task = "gone" => taskState # NoReason

\* The connection implements StreamHandoff.
Handoff == INSTANCE StreamHandoff WITH
  waiting <- incoming,
  held    <- {buffered} \ {NoStream},
  given   <- {<<reply[a], a>> : a \in {b \in Attempts : reply[b] \in Streams}},
  over    <- task = "gone"

\* Whatever the interleaving of frames, polls and peer, and whatever accept
\* methods are used, no stream is delivered twice, overwritten while it is
\* buffered or lost while the task runs.
ImplementsHandoff == Handoff!Spec

-----------------------------------------------------------------------------
(* Liveness, under FairSpec.                                               *)

\* An attempt is not left waiting for ever: it becomes a stream, an error or
\* nothing.
AttemptResolves == \A a \in Attempts : Waiting(a) ~> ~Waiting(a)

\* A stream the peer opened is answered to an attempt as long as the connection
\* lasts and the component is there to ask for it.
StreamServed ==
  \A s \in Streams : s \in opened ~>
     \/ \E a \in Attempts : reply[a] = s
     \/ conn # "open" \/ ~component

\* What the comment in poll_once says of a stream it buffers: a command consumes
\* it.
BufferedIsConsumed == \A s \in Streams : buffered = s ~> buffered # s

\* What the docs of get_disconnect_reason() promise: the end of the connection
\* reaches the component, unless that is removed.
EndIsReported == conn # "open" ~> taskState # NoReason \/ ~component

\* What is true of it: a stranded stream keeps the task from its connection and
\* hides the end; any other buffered stream does so only until it is accepted.
EndIsReportedUnlessStranded ==
  conn # "open" ~> taskState # NoReason \/ ~component \/ Stranded

\* close() that was let in by is_open() ends the connection.
CloseTakesEffect == call.op = "Close" ~> conn # "open"
=============================================================================
