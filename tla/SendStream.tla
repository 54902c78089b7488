----------------------------- MODULE SendStream -----------------------------
(***************************************************************************)
(* The send half of a stream: the QuicSendStream component, the aeronet    *)
(* session that feeds it, and the SendTask an orchestrator worker polls.   *)
(* They share the outbound channel, the control channel and the OnceLock   *)
(* task state.                                                             *)
(*                                                                         *)
(* The worker polls with poll_once().now_or_never(): send_vectored, close  *)
(* and flush are polled once, and cancelled when they are not ready.  The  *)
(* chunks of a cancelled send_vectored are still in send_buf at the next   *)
(* poll; those the library took were replaced by empty ones, so send_buf   *)
(* is "spent" empty chunks followed by the sequence "kept".                *)
(***************************************************************************)
EXTENDS Naturals, Sequences, SequencePieces

CONSTANTS
  MaxMessages,        \* bound on the messages of the application
  OutCap,             \* OUTBOUND_CHANNEL_SIZE
  CtrlCap,            \* CONTROL_CHANNEL_SIZE
  MaxBatch,           \* MAX_OUTBOUND_BUF_SIZE
  MaxWindow,          \* chunks the QUIC library can buffer
  MaxCalls            \* bound on the calls to close() and flush()

ASSUME SendAssumption ==
  /\ MaxMessages \in Nat /\ MaxCalls \in Nat
  /\ OutCap \in Nat \ {0} /\ CtrlCap \in Nat \ {0}
  /\ MaxBatch \in Nat \ {0} /\ MaxWindow \in Nat \ {0}

VARIABLES
  packets,     \* packets the application has put into its session, the n-th is n
  session,     \* Session.send, those waiting to be handed over
  handed,      \* what was handed over: the n-th message is packet handed[n] of
               \* the session, or, when that is 0, one that was sent directly
  component,   \* is the QuicSendStream component still on its entity?
  call,        \* the control message a blocking_send is sending
  calls,       \* how many there were, for the bound MaxCalls
  outbound,    \* the channel of the data, the messages by their place in handed
  control,     \* the channel of the control messages
  taskState,   \* OnceLockState: the published disconnect reason
  task,        \* where the SendTask is
  spent, kept, \* send_buf
  cancelled,   \* was a send_vectored ever cancelled?
  quic,        \* the QUIC stream
  acked,       \* has the peer acknowledged all, the end included?
  window,      \* chunks the library has room for
  wire         \* what the library took, in order

bevyVars == <<packets, session, handed, component, call, calls>>
taskVars == <<task, spent, kept, cancelled>>
quicVars == <<quic, acked, window, wire>>
vars == <<bevyVars, outbound, control, taskState, taskVars, quicVars>>

NoReason == "None"
Reasons  == {"UserClosed", "InvalidStream", "Reset", "MspcChannelClosed",
             "OrchestratorError"}
Controls == {"CloseAndQuit", "Flush"}

-----------------------------------------------------------------------------
\* What QuicSendStream::new leaves: a task on its way to a worker, or one the
\* orchestrator refused, its stream finished by early_close.
Init ==
  /\ packets = 0 /\ session = <<>> /\ handed = <<>>
  /\ component = TRUE /\ call = "idle" /\ calls = 0
  /\ outbound = <<>> /\ control = <<>>
  /\ spent = 0 /\ kept = <<>> /\ cancelled = FALSE
  /\ acked = FALSE /\ window = MaxWindow /\ wire = <<>>
  /\ \/ task = "queued" /\ taskState = NoReason /\ quic = "open"
     \/ task = "gone" /\ taskState = "OrchestratorError" /\ quic = "finished"

-----------------------------------------------------------------------------
(* The Bevy side.                                                          *)

\* The receivers of the channels live as long as the task.
Alive == task \notin {"gone", "dropped"}

Running == component /\ call = "idle"

\* The bound on what the application makes.
MayMake == Len(handed) + Len(session) < MaxMessages

\* The application puts a packet into its session.
Produce ==
  /\ Running /\ MayMake
  /\ packets' = packets + 1
  /\ session' = Append(session, packets')
  /\ UNCHANGED <<handed, component, call, calls, outbound, control, taskState,
                 taskVars, quicVars>>

\* Fault: one message too many.
RoomOffByOne == OutCap + 1 - Len(outbound)

Room == OutCap - Len(outbound)

\* try_send() of a sequence of messages there is room for.
HandOver(origins) ==
  /\ handed' = handed \o origins
  /\ outbound' = outbound \o [i \in 1 .. Len(origins) |-> Len(handed) + i]

\* send() goes past what waits in the session; a message that is refused stays
\* with the caller.
Send ==
  /\ Running /\ MayMake
  /\ Alive /\ Room > 0
  /\ HandOver(<<0>>)
  /\ UNCHANGED <<packets, session, component, call, calls, control, taskState,
                 taskVars, quicVars>>

\* Fault: after an error nothing is taken out of the vector.
LeavesPartly(n) == session' = IF n = Len(session) THEN <<>> ELSE session

Leaves(n) == session' = After(session, n)

\* aeronet_session_send, send_many_drain: what the channel takes before the
\* first error leaves the vector.
SendManyDrain ==
  /\ Running /\ session # <<>>
  /\ Alive /\ Room > 0
  /\ HandOver(First(session, Room))
  /\ Leaves(Least(Room, Len(session)))
  /\ UNCHANGED <<packets, component, call, calls, control, taskState, taskVars,
                 quicVars>>

\* close() and flush() block the frame until the channel has room...
Call(c) ==
  /\ Running /\ calls < MaxCalls
  /\ call' = c /\ calls' = calls + 1
  /\ UNCHANGED <<packets, session, handed, component, outbound, control, taskState,
                 taskVars, quicVars>>

\* ...or its receiver is gone.
CallReturns ==
  /\ call # "idle"
  /\ \/ ~Alive /\ UNCHANGED control
     \/ Alive /\ Len(control) < CtrlCap /\ control' = Append(control, call)
  /\ call' = "idle"
  /\ UNCHANGED <<packets, session, handed, component, calls, outbound, taskState,
                 taskVars, quicVars>>

Despawn ==
  /\ Running
  /\ component' = FALSE
  /\ session' = <<>>
  /\ UNCHANGED <<packets, handed, call, calls, outbound, control, taskState, taskVars,
                 quicVars>>

\* handle_send_stream_disconnections
HandleDisconnection == taskState # NoReason /\ Despawn

-----------------------------------------------------------------------------
(* The QUIC library and the peer.                                          *)

\* Room is made by what the peer acknowledges.
GrantWindow ==
  /\ window < MaxWindow
  /\ window' = window + 1
  /\ UNCHANGED <<bevyVars, outbound, control, taskState, taskVars, quic, acked, wire>>

AckAll ==
  /\ quic = "finished" /\ ~acked
  /\ acked' = TRUE
  /\ UNCHANGED <<bevyVars, outbound, control, taskState, taskVars, quic, window, wire>>

\* The peer asks to stop sending, or the connection is lost.
StreamFails(how) ==
  /\ how \in {"reset", "lost"}
  /\ quic \in {"open", "finished"} /\ ~acked
  /\ quic' = how
  /\ UNCHANGED <<bevyVars, outbound, control, taskState, taskVars, acked, window, wire>>

-----------------------------------------------------------------------------
(* SendTask, on an orchestrator worker.                                    *)

Dispatch ==
  /\ task = "queued"
  /\ task' = "run"
  /\ UNCHANGED <<bevyVars, outbound, control, taskState, spent, kept, cancelled, quicVars>>

RemoveTask(how) ==
  /\ task' = how
  /\ outbound' = <<>> /\ control' = <<>> /\ spent' = 0 /\ kept' = <<>>
  /\ UNCHANGED <<bevyVars, taskState, cancelled, quicVars>>

\* The dispatcher drops the task when all the worker channels are full.
DispatchDrop == task = "queued" /\ RemoveTask("dropped")

\* Fault: disconnect_flag is not kept, the next poll goes on.
EndForgotten(reason) ==
  /\ taskState' = IF taskState = NoReason THEN reason ELSE taskState
  /\ UNCHANGED task

\* A poll that sets disconnect_flag publishes the reason first...
End(reason) ==
  /\ taskState' = IF taskState = NoReason THEN reason ELSE taskState
  /\ task' = "closing"

\* Fault: the stream is not closed.
FinishedNot == quic

Finished == IF quic = "open" THEN "finished" ELSE quic

\* ...and then closes the stream, whether or not close() can be awaited.
CloseStream ==
  /\ task = "closing"
  /\ quic' = Finished
  /\ task' = "done"
  /\ UNCHANGED <<bevyVars, outbound, control, taskState, spent, kept, cancelled,
                 acked, window, wire>>

\* What an error of send_vectored makes of the task; an error that is not one
\* of these is logged and forgotten.
ErrorReason == CASE quic = "finished" -> "InvalidStream"
                 [] quic = "reset"    -> "Reset"
                 [] OTHER             -> NoReason

\* Fault: the library is given a copy of send_buf.
KeepUnsentOfCopy(buf, n) == kept' = buf /\ UNCHANGED spent

\* What a cancelled send_vectored leaves, when the library took n chunks.
KeepUnsent(buf, n) == kept' = After(buf, n) /\ spent' = spent + n

\* Fault: the range leaves out the last chunk.
SliceShort(buf, count) == First(buf, IF count > spent + 1 THEN count - spent - 1 ELSE 0)

\* send_buf[..count], without the spent chunks.
Slice(buf, count) == First(buf, IF count > spent THEN count - spent ELSE 0)

\* The data branch of poll_once.  count messages are appended to send_buf, and
\* the first count chunks of it are sent: spent chunks are the first of them.
\* If the library cannot take all of these the call is cancelled; otherwise
\* send_buf is cleared, whatever else it holds.
PollData ==
  /\ task = "run" /\ outbound # <<>>
  /\ LET count == Least(MaxBatch, Len(outbound))
         buf   == kept \o First(outbound, count)
         slice == Slice(buf, count)
     IN /\ outbound' = After(outbound, count)
        /\ IF quic = "open"
           THEN /\ cancelled' = (cancelled \/ Len(slice) > window)
                /\ wire' = wire \o First(slice, window)
                /\ window' = window - Least(window, Len(slice))
                /\ IF Len(slice) > window
                   THEN KeepUnsent(buf, window)
                   ELSE spent' = 0 /\ kept' = <<>>
                /\ UNCHANGED <<taskState, task>>
           ELSE /\ spent' = 0 /\ kept' = <<>>
                /\ IF ErrorReason # NoReason
                   THEN End(ErrorReason)
                   ELSE UNCHANGED <<taskState, task>>
                /\ UNCHANGED <<cancelled, window, wire>>
  /\ UNCHANGED <<bevyVars, control, quic, acked>>

\* recv_many answers 0; an error of the empty send replaces the reason.
PollDataClosed ==
  /\ task = "run" /\ outbound = <<>> /\ ~component
  /\ End(IF ErrorReason # NoReason THEN ErrorReason ELSE "MspcChannelClosed")
  /\ spent' = 0 /\ kept' = <<>>
  /\ UNCHANGED <<bevyVars, outbound, control, cancelled, quicVars>>

\* Fault: the worker waits for the flush.
FlushReadyAwaited == acked

\* flush() is polled once, ready or not.
FlushReady == TRUE

\* The control branch.  The select is not biased: with data waiting as well,
\* either branch may be taken.  close() that is not ready is cancelled before
\* disconnect_flag is set, the stream finished.
PollControl ==
  /\ task = "run" /\ control # <<>>
  /\ control' = Tail(control)
  /\ IF Head(control) = "Flush"
     THEN FlushReady /\ UNCHANGED <<taskState, task, quic>>
     ELSE IF quic = "open" \/ (quic = "finished" /\ ~acked)
          THEN quic' = "finished" /\ UNCHANGED <<taskState, task>>
          ELSE End("UserClosed") /\ UNCHANGED quic
  /\ UNCHANGED <<bevyVars, outbound, spent, kept, cancelled, acked, window,
                 wire>>

\* Every sender of the control channel is gone.
PollControlClosed ==
  /\ task = "run" /\ control = <<>> /\ ~component
  /\ End("MspcChannelClosed")
  /\ UNCHANGED <<bevyVars, outbound, control, spent, kept, cancelled, quicVars>>

\* The next poll answers with disconnect_flag, and the worker removes the task.
Reap == task = "done" /\ RemoveTask("gone")

-----------------------------------------------------------------------------
Next ==
  \/ Produce \/ Send \/ SendManyDrain
  \/ \E c \in Controls : Call(c)
  \/ CallReturns \/ Despawn \/ HandleDisconnection
  \/ GrantWindow \/ AckAll \/ \E how \in {"reset", "lost"} : StreamFails(how)
  \/ Dispatch \/ DispatchDrop
  \/ PollData \/ PollDataClosed \/ PollControl \/ PollControlClosed
  \/ CloseStream \/ Reap

Spec == Init /\ [][Next]_vars

\* The worker polls every task of its list in every round and the random order
\* of the select favours no branch; the systems run every frame.
Fairness ==
  /\ WF_vars(Dispatch) /\ WF_vars(CloseStream) /\ WF_vars(Reap)
  /\ WF_vars(PollData \/ PollDataClosed)
  /\ WF_vars(PollControl \/ PollControlClosed)
  /\ WF_vars(SendManyDrain) /\ WF_vars(CallReturns) /\ WF_vars(HandleDisconnection)

FairSpec == Spec /\ Fairness

-----------------------------------------------------------------------------
TypeOK ==
  /\ packets \in Nat /\ session \in Seq(Nat) /\ handed \in Seq(Nat)
  /\ component \in BOOLEAN
  /\ call \in Controls \cup {"idle"} /\ calls \in 0 .. MaxCalls
  /\ outbound \in Seq(Nat) /\ Len(outbound) <= OutCap
  /\ control \in Seq(Controls) /\ Len(control) <= CtrlCap
  /\ taskState \in Reasons \cup {NoReason}
  /\ task \in {"queued", "run", "closing", "done", "gone", "dropped"}
  /\ cancelled \in BOOLEAN /\ spent \in Nat /\ kept \in Seq(Nat)
  /\ quic \in {"open", "finished", "reset", "lost"} /\ acked \in BOOLEAN
  /\ window \in 0 .. MaxWindow /\ wire \in Seq(Nat)

\* From the hand-over on, the channel and send_buf are an ordered pipe to the
\* wire, whatever is cancelled, retried, closed or lost, and it ends with the task.
Pipe == INSTANCE OrderedPipe WITH
          made <- Len(handed), transit <- Elements(kept \o outbound),
          out <- wire, over <- (taskState # NoReason \/ ~Alive)

ImplementsPipe == Pipe!Spec

\* Packets of a session are handed over in order and once, whatever is sent
\* directly in between and however often the channel is full, and all of them are
\* handed over or wait, as long as the component is there.
SessionInOrder ==
  LET all == handed \o session
  IN /\ \A i, j \in DOMAIN all : i < j /\ all[j] # 0 => all[i] < all[j]
     /\ component => 1 .. packets \subseteq Elements(all)

\* A reason can be read from the end of a task on and not before, and a task that a
\* worker ran is not over before its stream is closed too, whichever way it ended.
EndIsComplete ==
  /\ taskState # NoReason <=> task \in {"closing", "done", "gone"}
  /\ task \in {"done", "gone"} => quic # "open"

\* What goes out is what was handed over, without a gap...
NothingSkipped == wire = [i \in 1 .. Len(wire) |-> i]

\* ...as long as the QUIC library never made a send wait.
GapsNeedCancel == cancelled \/ NothingSkipped

\* close() and flush() block the frame, but not for ever.
FrameReturns == call # "idle" ~> call = "idle"

\* A stream whose component is gone does not keep its task for ever.
AbandonedEnds == ~component ~> ~Alive

\* What was handed over is sent as long as stream, component and task are there
\* and no send was cancelled.
HandedOverIsSent ==
  \A m \in 1 .. MaxMessages :
    (\E i \in DOMAIN outbound : outbound[i] = m) ~>
      \/ \E i \in DOMAIN wire : wire[i] = m
      \/ quic # "open" \/ ~component \/ ~Alive \/ cancelled

\* What is_open() says: a stream that is not open any more makes the task finish
\* on its own.
FinishedTaskEnds == quic = "finished" ~> ~Alive \/ quic # "finished"
=============================================================================
