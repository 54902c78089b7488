---------------------------- MODULE ReceiveStream ----------------------------
(***************************************************************************)
(* The receive half of a stream: the QuicReceiveStream component and the   *)
(* RecTask an orchestrator worker polls.  They share the inbound channel,  *)
(* the control channel and the OnceLock task state.  While the task hands  *)
(* packets over one by one, the application reads, blocks and despawns.    *)
(***************************************************************************)
EXTENDS Naturals, Sequences, SequencePieces

CONSTANTS
  MaxMessages,        \* bound on the messages of the peer
  InCap,              \* INBOUND_CHANNEL_SIZE
  CtrlCap,            \* CONTROL_CHANNEL_SIZE
  MaxBatch,           \* INBOUND_BUFF_SIZE
  MaxTransfer,        \* MAX_PACKET_TRANSFER
  MaxCalls            \* bound on the calls to stop_send()

ASSUME ReceiveAssumption ==
  /\ MaxMessages \in Nat /\ MaxCalls \in Nat
  /\ InCap \in Nat \ {0} /\ CtrlCap \in Nat \ {0}
  /\ MaxBatch \in Nat \ {0} /\ MaxTransfer \in Nat \ {0}

VARIABLES
  arrived,     \* messages that reached this side, the n-th is n
  fin,         \* has the end of the stream reached it too?
  quic,        \* the QUIC stream
  recvBuf,     \* what the QUIC library holds for the application
  component,   \* is the QuicReceiveStream component still on its entity?
  call,        \* the blocking method that is executing
  calls,       \* how many stop_send() there were, for the bound MaxCalls
  got,         \* what the application read, in order
  inbound,     \* the channel of the data
  control,     \* the channel of the control messages
  taskState,   \* OnceLockState: the published disconnect reason
  task,        \* where the RecTask is, and where in poll_once
  batch,       \* packets read and not yet handed over
  atEnd,       \* did that read see the end of the stream?
  disconnect,  \* disconnect_flag
  dropped      \* packets dropped because the inbound channel was full

peerVars == <<arrived, fin, quic, recvBuf>>
bevyVars == <<component, call, calls, got>>
taskVars == <<task, batch, atEnd, disconnect, dropped>>
vars == <<peerVars, bevyVars, inbound, control, taskState, taskVars>>

NoReason == "None"
Reasons  == {"PeerClosed", "UserClosed", "ConnectionError", "InvalidStream",
             "Reset", "MspcChannelClosed", "OrchestratorError"}
Failures == {"ConnectionError", "InvalidStream", "Reset"}

-----------------------------------------------------------------------------
\* What QuicReceiveStream::new leaves: a task on its way to a worker, or one the
\* orchestrator refused, the peer told to stop.
Init ==
  /\ arrived = 0 /\ fin = FALSE /\ recvBuf = <<>>
  /\ component = TRUE /\ call = "idle" /\ calls = 0 /\ got = <<>>
  /\ inbound = <<>> /\ control = <<>>
  /\ batch = <<>> /\ atEnd = FALSE /\ disconnect = NoReason /\ dropped = {}
  /\ \/ task = "queued" /\ taskState = NoReason /\ quic = "open"
     \/ task = "gone" /\ taskState = "OrchestratorError" /\ quic = "stopped"

-----------------------------------------------------------------------------
(* The QUIC library and the peer.                                          *)

PeerSends ==
  /\ quic = "open" /\ ~fin /\ arrived < MaxMessages
  /\ arrived' = arrived + 1
  /\ recvBuf' = Append(recvBuf, arrived + 1)
  /\ UNCHANGED <<fin, quic, bevyVars, inbound, control, taskState, taskVars>>

PeerFinishes ==
  /\ quic = "open" /\ ~fin
  /\ fin' = TRUE
  /\ UNCHANGED <<arrived, quic, recvBuf, bevyVars, inbound, control, taskState, taskVars>>

\* What was not read yet is not read any more.
StreamFails(how) ==
  /\ quic = "open"
  /\ quic' = how
  /\ recvBuf' = <<>>
  /\ UNCHANGED <<arrived, fin, bevyVars, inbound, control, taskState, taskVars>>

-----------------------------------------------------------------------------
(* QuicReceiveStream, on the Bevy side.                                    *)

Running == component /\ call = "idle"

\* The task holds the sender of the packets and the receiver of the commands.
Alive == task \notin {"gone", "dropped"}

\* recv()
Recv ==
  /\ Running /\ inbound # <<>>
  /\ got' = Append(got, Head(inbound))
  /\ inbound' = Tail(inbound)
  /\ UNCHANGED <<peerVars, component, call, calls, control, taskState, taskVars>>

\* recv_many() blocks the frame until there is a packet...
RecvMany ==
  /\ Running
  /\ call' = "recvMany"
  /\ UNCHANGED <<peerVars, component, calls, got, inbound, control, taskState, taskVars>>

\* ...or the task, which holds the sender, is gone.
RecvManyReturns ==
  /\ call = "recvMany"
  /\ inbound # <<>> \/ ~Alive
  /\ got' = got \o First(inbound, MaxTransfer)
  /\ inbound' = After(inbound, Least(MaxTransfer, Len(inbound)))
  /\ call' = "idle"
  /\ UNCHANGED <<peerVars, component, calls, control, taskState, taskVars>>

\* stop_send() blocks the frame until the control channel has room or no
\* receiver.
StopSend ==
  /\ Running /\ calls < MaxCalls
  /\ call' = "stopSend" /\ calls' = calls + 1
  /\ UNCHANGED <<peerVars, component, got, inbound, control, taskState, taskVars>>

StopSendReturns ==
  /\ call = "stopSend"
  /\ \/ ~Alive /\ UNCHANGED control
     \/ Alive /\ Len(control) < CtrlCap /\ control' = Append(control, "StopSend")
  /\ call' = "idle"
  /\ UNCHANGED <<peerVars, component, calls, got, inbound, taskState, taskVars>>

\* The entity goes, with the receiver of the inbound channel.
Despawn ==
  /\ Running
  /\ component' = FALSE
  /\ inbound' = <<>>
  /\ UNCHANGED <<peerVars, call, calls, got, control, taskState, taskVars>>

\* handle_rec_stream_disconnections
HandleDisconnection == taskState # NoReason /\ Despawn

-----------------------------------------------------------------------------
(* RecTask, on an orchestrator worker.                                     *)

Dispatch ==
  /\ task = "queued"
  /\ task' = "run"
  /\ UNCHANGED <<peerVars, bevyVars, inbound, control, taskState, batch, atEnd,
                 disconnect, dropped>>

RemoveTask(how) ==
  /\ task' = how
  /\ control' = <<>>
  /\ UNCHANGED <<peerVars, bevyVars, inbound, taskState, batch, atEnd, disconnect,
                 dropped>>

\* The dispatcher drops the task when all the worker channels are full.
DispatchDrop == task = "queued" /\ RemoveTask("dropped")

\* Fault: what was read stays in the library.
TakeBatchKept ==
  /\ batch' = First(recvBuf, MaxBatch)
  /\ UNCHANGED recvBuf

\* Fault: the buffer is cleared after a read that did not take all.
TakeBatchAll ==
  /\ batch' = First(recvBuf, MaxBatch)
  /\ recvBuf' = <<>>

TakeBatch ==
  /\ batch' = First(recvBuf, MaxBatch)
  /\ recvBuf' = After(recvBuf, Least(MaxBatch, Len(recvBuf)))

\* Fault: the end is noted as soon as it is known.
SeesEndEarly == fin

\* receive_vectored says the stream is not open once all of it was read.
SeesEnd == fin /\ Len(recvBuf) <= MaxBatch

\* The biased first branch of poll_once: receive_vectored is ready.
PollReceive ==
  /\ task = "run"
  /\ \/ /\ quic = "open" /\ (recvBuf # <<>> \/ fin)
        /\ TakeBatch /\ atEnd' = SeesEnd
        /\ task' = "transfer"
        /\ UNCHANGED disconnect
     \/ /\ quic \in Failures
        /\ disconnect' = quic
        /\ task' = "stop"
        /\ UNCHANGED <<recvBuf, batch, atEnd>>
  /\ UNCHANGED <<arrived, fin, quic, bevyVars, inbound, control, taskState, dropped>>

\* Fault: the channel has no bound.
TransferUnbounded(packet) ==
  IF component
  THEN inbound' = Append(inbound, packet) /\ UNCHANGED dropped
  ELSE UNCHANGED <<inbound, dropped>>

\* transfer_payload_data: a packet for which there is no room is dropped.
Transfer(packet) ==
  IF component /\ Len(inbound) < InCap
  THEN inbound' = Append(inbound, packet) /\ UNCHANGED dropped
  ELSE /\ UNCHANGED inbound
       /\ dropped' = IF component THEN dropped \cup {packet} ELSE dropped

\* A packet of the batch; a closed channel is a reason to end.
TransferNext ==
  /\ task = "transfer" /\ batch # <<>>
  /\ Transfer(Head(batch))
  /\ batch' = Tail(batch)
  /\ disconnect' = IF component THEN disconnect ELSE "MspcChannelClosed"
  /\ UNCHANGED <<peerVars, bevyVars, control, taskState, task, atEnd>>

\* All of it is handed over; the end of the stream replaces any other reason.
TransferEnd ==
  /\ task = "transfer" /\ batch = <<>>
  /\ disconnect' = IF atEnd THEN "PeerClosed" ELSE disconnect
  /\ task' = IF disconnect' = NoReason THEN "run" ELSE "stop"
  /\ UNCHANGED <<peerVars, bevyVars, inbound, control, taskState, batch, atEnd, dropped>>

\* Fault: the control channel is not looked at before the peer has finished.
NothingToReceiveIdle == quic = "open" /\ recvBuf = <<>> /\ fin

\* The select is biased, the data branch is the first.
NothingToReceive == quic = "open" /\ recvBuf = <<>> /\ ~fin

\* The second branch: a StopSend, or every sender is gone.
PollControl ==
  /\ task = "run" /\ NothingToReceive
  /\ \/ /\ control # <<>>
        /\ control' = Tail(control)
        /\ disconnect' = "UserClosed" /\ quic' = "stopped"
     \/ /\ control = <<>> /\ ~component
        /\ disconnect' = "MspcChannelClosed"
        /\ UNCHANGED <<control, quic>>
  /\ task' = "stop"
  /\ UNCHANGED <<arrived, fin, recvBuf, bevyVars, inbound, taskState, batch, atEnd, dropped>>

\* Fault: the peer is not told.
StopSendingForgotten == UNCHANGED quic

\* rec.stop_sending(): without effect on a stream that has failed or was read to
\* its end.
StopSending == quic' = IF quic \in Failures \/ disconnect = "PeerClosed"
                       THEN quic ELSE "stopped"

\* stop_and_empty: the peer is told to stop; the library keeps what it holds
\* readable, or not.
BeginStop ==
  /\ task = "stop"
  /\ StopSending
  /\ recvBuf' \in {recvBuf, <<>>}
  /\ task' = "empty"
  /\ UNCHANGED <<arrived, fin, bevyVars, inbound, control, taskState, batch, atEnd,
                 disconnect, dropped>>

\* What is still readable is handed over.  The reason was copied before, so that
\* a closed channel changes nothing here.
EmptyNext ==
  /\ task = "empty" /\ recvBuf # <<>>
  /\ Transfer(Head(recvBuf))
  /\ recvBuf' = Tail(recvBuf)
  /\ UNCHANGED <<arrived, fin, quic, bevyVars, control, taskState, task, batch, atEnd,
                 disconnect>>

\* Fault: the first reason is lost.
PublishedNothing == NoReason

Published == IF taskState = NoReason THEN disconnect ELSE taskState

\* receive() answers the end or an error, and the reason is published...
Publish ==
  /\ task = "empty" /\ recvBuf = <<>>
  /\ taskState' = Published
  /\ task' = "done"
  /\ UNCHANGED <<peerVars, bevyVars, inbound, control, batch, atEnd, disconnect, dropped>>

\* ...or it is pending, poll_once is cancelled before that, and the next poll
\* answers with disconnect_flag all the same.
StopCancelled ==
  /\ task = "empty" /\ recvBuf = <<>> /\ quic = "stopped"
  /\ task' = "cancelled"
  /\ UNCHANGED <<peerVars, bevyVars, inbound, control, taskState, batch, atEnd,
                 disconnect, dropped>>

\* The next poll answers with disconnect_flag, and the worker removes the task,
\* whether or not the reason was published.
Reap == task \in {"done", "cancelled"} /\ RemoveTask("gone")

-----------------------------------------------------------------------------
Poll ==
  \/ PollReceive \/ TransferNext \/ TransferEnd \/ PollControl
  \/ BeginStop \/ EmptyNext \/ Publish \/ StopCancelled \/ Reap

Next ==
  \/ PeerSends \/ PeerFinishes \/ \E how \in Failures : StreamFails(how)
  \/ Recv \/ RecvMany \/ RecvManyReturns \/ StopSend \/ StopSendReturns
  \/ Despawn \/ HandleDisconnection
  \/ Dispatch \/ DispatchDrop \/ Poll

Spec == Init /\ [][Next]_vars

\* The worker polls every task of its list in every round, the systems run every
\* frame, and a blocked call returns when it can.
Fairness ==
  /\ WF_vars(Dispatch) /\ WF_vars(Poll)
  /\ WF_vars(RecvManyReturns) /\ WF_vars(StopSendReturns)
  /\ SF_vars(HandleDisconnection)

-----------------------------------------------------------------------------
TypeOK ==
  /\ arrived \in 0 .. MaxMessages /\ fin \in BOOLEAN
  /\ quic \in Failures \cup {"open", "stopped"} /\ recvBuf \in Seq(Nat)
  /\ component \in BOOLEAN /\ call \in {"idle", "recvMany", "stopSend"}
  /\ calls \in 0 .. MaxCalls /\ got \in Seq(Nat)
  /\ inbound \in Seq(Nat) /\ Len(inbound) <= InCap
  /\ control \in Seq({"StopSend"}) /\ Len(control) <= CtrlCap
  /\ taskState \in Reasons \cup {NoReason}
  /\ task \in {"queued", "run", "transfer", "stop", "empty", "done",
               "cancelled", "gone", "dropped"}
  /\ batch \in Seq(Nat) /\ Len(batch) <= MaxBatch /\ atEnd \in BOOLEAN
  /\ disconnect \in Reasons \cup {NoReason}
  /\ dropped \subseteq Nat

\* The library's buffer, the batch and the channel are an ordered pipe to the
\* application, through stops, failures and what is dropped for want of room, and
\* it ends with the component.
Pipe == INSTANCE OrderedPipe WITH
          made <- arrived, transit <- Elements(inbound \o batch \o recvBuf),
          out <- got, over <- ~component

ImplementsPipe == Pipe!Spec

\* When the application learns that the peer closed the stream, every message is
\* in its hands, in the channel, or was dropped for want of room: the reason
\* never overtakes the data.
EndAfterData ==
  taskState = "PeerClosed" /\ component =>
    1 .. arrived \subseteq Elements(got) \cup Elements(inbound) \cup dropped

\* As long as nothing ended the stream, a message is missing only when the
\* inbound channel had no room for it.
NothingMissing ==
  quic = "open" /\ component =>
    1 .. arrived \subseteq Elements(got) \cup Elements(inbound) \cup Elements(batch)
                           \cup Elements(recvBuf) \cup dropped

\* The ends that this side makes, by stop_send() or by leaving.
OwnEnds == {"UserClosed", "MspcChannelClosed"}

\* A task that a worker ran is not over before the peer knows that nobody reads any
\* more, and its reason can be read, unless it is this side that ended the stream:
\* an end that comes from the peer or the connection is never lost by a cancelled
\* stop.
EndIsComplete ==
  task \in {"done", "cancelled", "gone"} =>
    /\ quic # "open" \/ disconnect = "PeerClosed"
    /\ taskState # NoReason \/ (disconnect \in OwnEnds /\ task # "done")

\* What get_disconnect_reason() says: None only while the stream is still open, and
\* so not of a component whose task the worker has removed.
ReportedBeforeGone == task = "gone" /\ component => taskState # NoReason

\* The end of the stream reaches the component, unless the component is removed or
\* the dispatcher drops the task.
EndIsReported == fin ~> taskState # NoReason \/ ~component \/ task = "dropped"

\* What stop_send() says: it blocks the frame, but not for ever, and it ends the
\* stream.
StopTakesEffect ==
  call = "stopSend" ~> call # "stopSend" /\ (taskState # NoReason \/ ~component \/ ~Alive)

\* A stream whose component is gone does not keep its task for ever.
AbandonedEnds == ~component ~> ~Alive
=============================================================================
