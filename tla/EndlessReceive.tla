--------------------------- MODULE EndlessReceive ---------------------------
(***************************************************************************)
(* The receive half of a stream whose peer may send for ever.              *)
(* ReceiveStream numbers the messages and so bounds them; here the numbers *)
(* start again whenever no message is on its way.                          *)
(***************************************************************************)
EXTENDS ReceiveStream

Renumber ==
  /\ arrived > 0 /\ inbound \o batch \o recvBuf = <<>>
  /\ arrived' = 0 /\ got' = <<>> /\ dropped' = {}
  /\ UNCHANGED <<fin, quic, recvBuf, component, call, calls, inbound, control,
                 taskState, task, batch, atEnd, disconnect>>

EndlessNext == Next \/ Renumber

EndlessSpec == Init /\ [][EndlessNext]_vars

FairEndlessSpec == EndlessSpec /\ Fairness

-----------------------------------------------------------------------------
\* Between two such moments the stream implements OrderedPipe, however many there are.
PipeBetweenRestarts == Pipe!Init /\ [][Pipe!Next \/ Renumber]_(Pipe!vars)

\* The peer pauses: of the polls of a task that is polled for ever, some find nothing
\* to receive, again and again.
PollsFindPauses ==
  /\ []<>(task = "run") => []<>(task = "run" /\ recvBuf = <<>>)
  /\ SF_vars(PollControl)

\* stop_send() returns and ends the stream of a peer that pauses, however much it
\* sends between two pauses.  (Of a peer that does not pause StopTakesEffect is false:
\* the select is biased, and the control channel is never looked at.)
StopTakesEffectInPauses == PollsFindPauses => StopTakesEffect
=============================================================================
