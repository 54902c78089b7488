---------------------------- MODULE EntityFrames ----------------------------
(***************************************************************************)
(* The life of an entity across the frames of the application: an attempt  *)
(* that waits for a connection or a stream, the component or the halves    *)
(* that replace it, the aeronet session they feed, and the end.            *)
(*                                                                         *)
(* A frame runs PreUpdate (aeronet_session_recv), Update (the attempt and  *)
(* disconnect handlers) and PostUpdate (the systems that fire              *)
(* Disconnected).  A system visits the entities its query finds in any     *)
(* order, and what it commands is applied at the end of the schedule.      *)
(* Meanwhile the tasks run on their workers: QuicConnection, SendStream    *)
(* and ReceiveStream have them in detail.  Here a task runs, has ended     *)
(* (its reason is published and it is gone), or is lost (gone without).    *)
(***************************************************************************)
EXTENDS Naturals, Sequences, FiniteSets, SequencePieces

CONSTANTS
  Entities,           \* entities that come to be: an Entity has 64 bits
  Bidirectional,      \* those whose stream, if it is one, has two halves
  NoEntity,
  MaxPackets,         \* bound on the packets of all streams that are not read
  InCap,              \* INBOUND_CHANNEL_SIZE
  MaxTransfer         \* MAX_PACKET_TRANSFER

ASSUME FrameAssumption ==
  /\ IsFiniteSet(Entities) /\ Bidirectional \subseteq Entities /\ NoEntity \notin Entities
  /\ MaxPackets \in Nat
  /\ InCap \in Nat \ {0} /\ MaxTransfer \in Nat
  /\ InCap <= MaxTransfer         \* both are 512

VARIABLES
  life,        \* what the entity is
  answer,      \* what its attempt's oneshot or join handle holds
  task,        \* the task of each part
  channel,     \* the inbound channel of its receive half
  session,     \* Session.recv
  arrived,     \* number of the next packet its receive task puts there
  read,        \* number of the next packet the application takes out
  buffer,      \* the vector aeronet_session_recv goes round with
  stage,       \* the schedule that runs
  todo,        \* the visits left in it
  blocked,     \* the entity whose recv_many is executing
  cmds,        \* the commands that wait for the end of the schedule
  events,      \* Disconnected events of each part, counted up to 2
  standing,    \* receive halves that had ended when the frame began, halves
               \* that had ended when PostUpdate began
  asked        \* entities for which Disconnect found the receive task running

lifeVars   == <<life, answer, task>>
packetVars == <<channel, session, arrived, read, buffer>>
frameVars  == <<stage, todo, blocked, cmds>>
eventVars  == <<events, standing, asked>>
vars == <<lifeVars, packetVars, frameVars, eventVars>>

Halves   == {"rec", "send"}
Parts    == Halves \cup {"conn"}
Answers  == {"waiting", "halves", "connection", "none", "failed", "consumed"}
Commands == {"spawn", "accept", "insert", "error", "despawn", "remove"}
Visits   == Entities \X (Parts \cup {"attempt"})

\* Packets are numbered modulo more than there are at a time.
Number(n) == n % (MaxPackets + 1)

\* The packets the application has not read.
UnreadOf(e) == Len(session[e]) + Len(channel[e])
Unread == Cardinality(UNION {{e} \X (1 .. UnreadOf(e)) : e \in Entities})

Nothing(none) == [p \in Parts |-> none]

-----------------------------------------------------------------------------
\* The start of the application, before any entity is there.
Init ==
  /\ life = [e \in Entities |-> "absent"]
  /\ answer = [e \in Entities |-> "waiting"]
  /\ task = [e \in Entities |-> Nothing("none")]
  /\ channel = [e \in Entities |-> <<>>] /\ session = [e \in Entities |-> <<>>]
  /\ arrived = [e \in Entities |-> 0] /\ read = [e \in Entities |-> 0]
  /\ buffer = <<>>
  /\ stage = "recv" /\ todo = {} /\ blocked = NoEntity
  /\ cmds = [e \in Entities |-> {}]
  /\ events = [e \in Entities |-> Nothing(0)]
  /\ standing = {} /\ asked = {}

PartsOf(e) == {p \in Parts : task[e][p] # "none"}
Ended(e, p) == task[e][p] = "ended"

-----------------------------------------------------------------------------
(* The async side.                                                         *)

\* Is the entity still there for its tasks?
Held(e) == life[e] \in {"attempt", "live"}

HalvesMade(e) == IF e \in Bidirectional THEN Halves ELSE {"rec"}

\* The task of a connection is pushed as its component is made, the same way.
MakeConnection(e) == \E t \in {"run", "ended"} : task' = [task EXCEPT ![e]["conn"] = t]

\* A stream was accepted or opened; its halves push their tasks as they are
\* made, and the orchestrator may refuse either.
AnswerHalves(e, refused) ==
  /\ life[e] = "attempt" /\ answer[e] = "waiting"
  /\ answer' = [answer EXCEPT ![e] = "halves"]
  /\ refused \subseteq HalvesMade(e)
  /\ task' = [task EXCEPT ![e] = [p \in Parts |-> CASE p \in refused -> "ended"
                                                    [] p \in HalvesMade(e) \ refused -> "run"
                                                    [] OTHER -> "none"]]
  /\ UNCHANGED <<life, packetVars, frameVars, eventVars>>

\* Connected, no stream to accept, or an error.
AnswerOther(e, what) ==
  /\ life[e] = "attempt" /\ answer[e] = "waiting"
  /\ what = "connection" => e \notin Bidirectional
  /\ answer' = [answer EXCEPT ![e] = what]
  /\ UNCHANGED <<life, task, packetVars, frameVars, eventVars>>

\* The task publishes its reason and is removed by its worker.
TaskEnds(e, p) ==
  /\ Held(e) /\ task[e][p] = "run"
  /\ task' = [task EXCEPT ![e][p] = "ended"]
  /\ asked' = IF p = "rec" THEN asked \ {e} ELSE asked
  /\ UNCHANGED <<life, answer, packetVars, frameVars, events, standing>>

\* The dispatcher drops the receive task, or its stop is cancelled.  (Any other
\* task that is lost looks to the frames like one that never ends.)
TaskLost(e) ==
  /\ Held(e) /\ task[e]["rec"] = "run"
  /\ task' = [task EXCEPT ![e]["rec"] = "lost"]
  /\ asked' = asked \ {e}
  /\ UNCHANGED <<life, answer, packetVars, frameVars, events, standing>>

\* Fault: the channel has no bound.
HasRoomAlways(e) == TRUE

HasRoom(e) == Len(channel[e]) < InCap

Arrive(e) ==
  /\ Held(e) /\ task[e]["rec"] = "run"
  /\ Unread < MaxPackets /\ HasRoom(e)
  /\ arrived' = [arrived EXCEPT ![e] = Number(@ + 1)]
  /\ channel' = [channel EXCEPT ![e] = Append(@, <<e, arrived[e]>>)]
  /\ UNCHANGED <<lifeVars, session, read, buffer, frameVars, eventVars>>

-----------------------------------------------------------------------------
(* PreUpdate: aeronet_session_recv.                                        *)

\* Fault: a stream that is not open is passed over.
ReceivableOpen(lf, e) == lf[e] = "live" /\ task[e]["rec"] = "run"

\* The query of aeronet_session_recv.
Receivable(lf, e) == lf[e] = "live" /\ task[e]["rec"] # "none"

StartRecv(e) ==
  /\ stage = "recv" /\ blocked = NoEntity /\ <<e, "rec">> \in todo
  /\ blocked' = e
  /\ todo' = todo \ {<<e, "rec">>}
  /\ UNCHANGED <<lifeVars, packetVars, stage, cmds, eventVars>>

\* Fault: the end of the task does not wake the call.
CanReturnWithData(e) == channel[e] # <<>>

\* blocking_recv_many: there is a packet, or the sender is gone.
CanReturn(e) == channel[e] # <<>> \/ task[e]["rec"] # "run"

\* Fault: the vectors are swapped whatever the session holds.
StoreSwapped(e, filled, size) ==
  /\ session' = [session EXCEPT ![e] = First(filled, size)]
  /\ buffer' = session[e]

\* The vectors change places if the session's is empty, otherwise what was
\* received is moved behind what the application has not read yet.
Store(e, filled, size) ==
  IF session[e] = <<>>
  THEN /\ session' = [session EXCEPT ![e] = First(filled, size)]
       /\ buffer' = session[e]
  ELSE /\ session' = [session EXCEPT ![e] = @ \o First(filled, size)]
       /\ buffer' = After(filled, size)

FinishRecv(e) ==
  /\ blocked = e /\ CanReturn(e)
  /\ LET size == Least(MaxTransfer, Len(channel[e]))
     IN /\ Store(e, buffer \o First(channel[e], size), size)
        /\ channel' = [channel EXCEPT ![e] = After(@, size)]
  /\ blocked' = NoEntity
  /\ UNCHANGED <<lifeVars, arrived, read, stage, todo, cmds, eventVars>>

-----------------------------------------------------------------------------
(* Update: the attempt handlers and the disconnect handlers.               *)

Command(e, c) == cmds' = [cmds EXCEPT ![e] = @ \cup {c}]

\* Fault: a result somebody else has taken is taken for a pending one.
IsPendingOrConsumed(e) == answer[e] \in {"waiting", "consumed"}

\* attempt_result() answers Pending.
IsPending(e) == answer[e] = "waiting"

\* What the handlers make of an attempt's result: an error component, nothing
\* at all, or the component, in the case of a connection made on the spot.
Resolve(e) ==
  \/ /\ IsPending(e)
     /\ UNCHANGED <<answer, task, cmds>>
  \/ /\ ~IsPending(e) /\ answer[e] \in {"failed", "consumed"}
     /\ Command(e, "error")
     /\ UNCHANGED <<answer, task>>
  \/ /\ answer[e] = "none"
     /\ Command(e, "despawn")
     /\ UNCHANGED <<answer, task>>
  \/ /\ answer[e] = "halves"
     /\ Command(e, "insert")
     /\ answer' = [answer EXCEPT ![e] = "consumed"]
     /\ UNCHANGED task
  \/ /\ answer[e] = "connection"
     /\ Command(e, "insert")
     /\ answer' = [answer EXCEPT ![e] = "consumed"]
     /\ MakeConnection(e)

VisitAttempt(e) ==
  /\ stage = "update" /\ <<e, "attempt">> \in todo
  /\ Resolve(e)
  /\ todo' = todo \ {<<e, "attempt">>}
  /\ UNCHANGED <<life, packetVars, stage, blocked, eventVars>>

Announce(e, p) == events' = [events EXCEPT ![e][p] = Least(@ + 1, 2)]

\* Fault: an entity is despawned only when both of its halves have ended.
EndSeenOfAll(e, p) == \A q \in PartsOf(e) : Ended(e, q)

\* get_disconnect_reason() is Some.
EndSeen(e, p) == Ended(e, p)

\* Fault: only receive halves are looked at.
HandledParts(e) == PartsOf(e) \ {"send"}

\* The queries of the three disconnect handlers.
HandlerParts(e) == PartsOf(e)

\* handle_connection_disconnections fires Disconnected and removes the
\* component, the handlers of the halves despawn the entity.
VisitDisconnect(e, p) ==
  /\ stage = "update" /\ <<e, p>> \in todo /\ p \in Parts
  /\ IF ~EndSeen(e, p)
     THEN UNCHANGED <<cmds, events>>
     ELSE IF p = "conn"
     THEN Command(e, "remove") /\ Announce(e, p)
     ELSE Command(e, "despawn") /\ UNCHANGED events
  /\ todo' = todo \ {<<e, p>>}
  /\ UNCHANGED <<lifeVars, packetVars, stage, blocked, standing, asked>>

-----------------------------------------------------------------------------
(* Update: what brings entities into the world.                            *)

\* The systems of the application and of the acceptors come last: where in
\* Update they run makes no difference to the handlers, which see none of their
\* commands before the schedule ends.
AppTurn == stage = "update" /\ todo = {} /\ blocked = NoEntity

\* An attempt for a stream that accept_streams asked for or the application
\* opens, or for a connection it opens.
SpawnAttempt(e) ==
  /\ AppTurn /\ life[e] = "absent" /\ cmds[e] = {}
  /\ Command(e, "spawn")
  /\ UNCHANGED <<lifeVars, packetVars, stage, todo, blocked, eventVars>>

\* accept_connections finds a connection and makes its component on the spot;
\* the orchestrator may refuse the task.
AcceptConnection(e) ==
  /\ AppTurn /\ life[e] = "absent" /\ cmds[e] = {} /\ e \notin Bidirectional
  /\ Command(e, "accept")
  /\ MakeConnection(e)
  /\ UNCHANGED <<life, answer, packetVars, stage, todo, blocked, eventVars>>

-----------------------------------------------------------------------------
(* PostUpdate: fire_send_disconnect_events and fire_rec_disconnect_events.  *)

\* Fault: both systems query the receive half.
FiringHalvesOne == {"rec"}

FiringHalves == Halves

Fire(e, p) ==
  /\ stage = "post" /\ <<e, p>> \in todo
  /\ IF Ended(e, p) THEN Announce(e, p) ELSE UNCHANGED events
  /\ todo' = todo \ {<<e, p>>}
  /\ UNCHANGED <<lifeVars, packetVars, stage, blocked, cmds, standing, asked>>

-----------------------------------------------------------------------------
(* The end of a schedule.                                                  *)

\* What the commands, and the despawns of the application, make of an entity.
Applied(e, discarded) ==
  IF "despawn" \in cmds[e] \/ e \in discarded THEN "gone"
  ELSE IF "spawn" \in cmds[e] THEN "attempt"
  ELSE IF cmds[e] \cap {"insert", "accept"} # {} THEN "live"
  ELSE IF "error" \in cmds[e]  THEN "error"
  ELSE IF "remove" \in cmds[e] THEN "closed"
  ELSE life[e]

Following == [recv |-> "update", update |-> "post", post |-> "recv"]

\* What the queries of a schedule find.
Agenda(s, lf) ==
  CASE s = "recv"   -> {<<e, "rec">> : e \in {f \in Entities : Receivable(lf, f)}}
    [] s = "update" -> {v \in Visits :
                          \/ lf[v[1]] = "attempt" /\ v[2] = "attempt"
                          \/ lf[v[1]] = "live" /\ v[2] \in HandlerParts(v[1])}
    [] s = "post"   -> {v \in Visits :
                          lf[v[1]] = "live" /\ v[2] \in PartsOf(v[1]) \cap FiringHalves}

\* Of an entity that has left nothing is followed any further.
EndStage(discarded) ==
  /\ todo = {} /\ blocked = NoEntity
  /\ discarded # {} => stage = "update" /\ \A e \in discarded : Held(e)
  /\ LET lf == [e \in Entities |-> Applied(e, discarded)]
         Kept(f, start) == [e \in Entities |->
                              IF lf[e] \in {"absent", "attempt", "live"} THEN f[e] ELSE start]
     IN /\ life' = lf
        /\ answer' = Kept(answer, "consumed")
        /\ task' = Kept(task, Nothing("none"))
        /\ channel' = Kept(channel, <<>>) /\ session' = Kept(session, <<>>)
        /\ arrived' = Kept(arrived, 0) /\ read' = Kept(read, 0)
        /\ events' = Kept(events, Nothing(0))
        /\ asked' = {e \in asked : lf[e] = "live"}
        /\ stage' = Following[stage]
        /\ todo' = Agenda(stage', lf)
        /\ standing' = 
             CASE stage = "recv"   -> {v \in standing : lf[v[1]] = "live"}
               [] stage = "update" -> {v \in Entities \X Halves :
                                         lf[v[1]] = "live" /\ Ended(v[1], v[2])}
               [] stage = "post"   -> {v \in Entities \X {"rec"} :
                                         lf[v[1]] = "live" /\ Ended(v[1], v[2])}
  /\ cmds' = [e \in Entities |-> {}]
  /\ UNCHANGED <<buffer, blocked>>

-----------------------------------------------------------------------------
(* What the application does with the entities, in Update.                 *)

\* The application drains the session.  When it has read all that arrived, the
\* numbering starts anew.
AppRead(e) ==
  /\ AppTurn /\ life[e] = "live" /\ session[e] # <<>>
  /\ LET next == Number(read[e] + Len(session[e]))
     IN IF next = arrived[e]
        THEN /\ read' = [read EXCEPT ![e] = 0]
             /\ arrived' = [arrived EXCEPT ![e] = 0]
        ELSE /\ read' = [read EXCEPT ![e] = next]
             /\ UNCHANGED arrived
  /\ session' = [session EXCEPT ![e] = <<>>]
  /\ UNCHANGED <<lifeVars, channel, buffer, frameVars, eventVars>>

\* It looks at an attempt itself and so consumes the result, also if it is that
\* there is no stream.
AppTakesResult(e) ==
  /\ AppTurn /\ life[e] = "attempt" /\ answer[e] \in {"halves", "connection", "none"}
  /\ answer' = [answer EXCEPT ![e] = "consumed"]
  /\ UNCHANGED <<life, task, packetVars, frameVars, eventVars>>

\* Fault: the receive half is not told.
ToldToStopClosing == {"send"}

ToldToStop == Halves

\* The Disconnect observer: stop_send() and close().  (What close() leads to is
\* the send task's affair.)
AppDisconnects(e) ==
  /\ AppTurn /\ life[e] = "live" /\ task[e]["rec"] = "run"
  /\ asked' = asked \cup {e}
  /\ UNCHANGED <<lifeVars, packetVars, frameVars, events, standing>>

-----------------------------------------------------------------------------
FrameStep ==
  \/ \E e \in Entities :
       \/ StartRecv(e) \/ FinishRecv(e) \/ VisitAttempt(e)
       \/ \E p \in Parts : VisitDisconnect(e, p) \/ Fire(e, p)
  \/ \E discarded \in SUBSET Entities : EndStage(discarded)

Next ==
  \/ FrameStep
  \/ \E e \in Entities :
       \/ \E refused \in SUBSET Halves : AnswerHalves(e, refused)
       \/ \E what \in {"connection", "none", "failed"} : AnswerOther(e, what)
       \/ \E p \in Parts : TaskEnds(e, p)
       \/ TaskLost(e)
       \/ Arrive(e)
       \/ SpawnAttempt(e) \/ AcceptConnection(e)
       \/ AppRead(e) \/ AppTakesResult(e) \/ AppDisconnects(e)

Spec == Init /\ [][Next]_vars

\* A poll of a receive task that was told to stop: it takes what the stream has
\* for it, and looks at its control channel only when that is nothing.
PollAsked(e) ==
  /\ e \in asked /\ "rec" \in ToldToStop
  /\ Arrive(e) \/ TaskEnds(e, "rec") \/ TaskLost(e)

\* Bevy runs the schedules over and over, the workers poll their tasks.
Fairness ==
  /\ WF_vars(FrameStep)
  /\ \A e \in Entities : WF_vars(PollAsked(e))

\* aeronet_session_recv blocks the frame for as long as the stream it visits is
\* silent, and nothing in the code bounds that: what is claimed of the frames is
\* claimed of peers that are not silent for ever, except on a stream that was
\* told to stop: there the task sees the control channel and ends.
Silent ==
  /\ blocked # NoEntity /\ blocked \notin asked
  /\ channel[blocked] = <<>> /\ task[blocked]["rec"] = "run"

NeverSilentForEver == []<>~Silent

\* The other way round, a peer that always has data ready keeps the receive task
\* from its control channel, and nothing in the code bounds that either (see
\* PollsFindPauses of EndlessReceive): what is claimed of Disconnect is claimed of
\* peers that pause.
PeersPause == \A e \in Entities : <>[][~(e \in asked /\ Arrive(e))]_vars

FairSpec == Spec /\ Fairness /\ NeverSilentForEver /\ PeersPause

-----------------------------------------------------------------------------
(* Safety.                                                                 *)

Packets(e, from, to) ==
  [i \in 1 .. Number(to + MaxPackets + 1 - from) |-> <<e, Number(from + i - 1)>>]

TypeOK ==
  /\ life \in [Entities -> {"absent", "attempt", "live", "error", "closed", "gone"}]
  /\ answer \in [Entities -> Answers]
  /\ task \in [Entities -> [Parts -> {"none", "run", "ended", "lost"}]]
  /\ channel \in [Entities -> Seq(Entities \X Nat)]
  /\ \A e \in Entities : Len(channel[e]) <= InCap
  /\ session \in [Entities -> Seq(Entities \X Nat)]
  /\ arrived \in [Entities -> 0 .. MaxPackets] /\ read \in [Entities -> 0 .. MaxPackets]
  /\ buffer \in Seq(Entities \X Nat)
  /\ stage \in {"recv", "update", "post"}
  /\ todo \subseteq Visits /\ blocked \in Entities \cup {NoEntity}
  /\ cmds \in [Entities -> SUBSET Commands]
  /\ events \in [Entities -> [Parts -> 0 .. 2]]
  /\ standing \subseteq Entities \X Halves /\ asked \subseteq Entities

\* One vector goes round all sessions: each still gets the packets of its own
\* stream, all of them, once and in order, read or not.
OwnPackets ==
  \A e \in Entities : life[e] = "live" =>
    session[e] \o channel[e] = Packets(e, read[e], arrived[e])

\* A disconnection is announced once, although every frame of a half or a
\* connection that has ended would announce it again.
OncePerEnd == \A e \in Entities : \A p \in Parts : events[e][p] <= 1

\* An end that stands when PostUpdate begins is announced in it.
StandingEndsAnnounced ==
  [][stage = "post" /\ stage' # "post" =>
       \A v \in standing : events[v[1]][v[2]] > 0]_vars

\* A stream that had ended when the frame began, be it before its halves were
\* ever inserted, is not despawned by a handler before all it received was put
\* into its session.  (What the application leaves in the session by then goes
\* with the entity.)
NothingLeftBehind ==
  [][stage = "update" /\ stage' # "update" =>
       \A e \in Entities : <<e, "rec">> \in standing /\ "despawn" \in cmds[e] =>
         channel[e] = <<>> /\ session[e] = Packets(e, read[e], arrived[e])]_vars

-----------------------------------------------------------------------------
(* Liveness, under FairSpec.                                               *)

\* No stream that has ended or was lost holds up the frame.
FrameGoesOn == []<>(stage = "post")

\* An attempt that has its answer becomes a component, an error or nothing,
\* also when the application has taken the result away.  (No entity becomes an
\* attempt again: what is so for all of them again and again is so of each in
\* the end.  The same goes for EndRemoves.)
AnswerTaken ==
  []<>(\A e \in Entities : life[e] = "attempt" => answer[e] = "waiting")

\* Nothing that has ended stays, whichever half it is that ended.
EndRemoves ==
  []<>(\A e \in Entities : life[e] = "live" => \A p \in Parts : ~Ended(e, p))

\* Disconnect takes a stream's entity away, unless its receive task was lost.
DisconnectEnds ==
  \A e \in Entities :
    e \in asked ~> life[e] # "live" \/ task[e]["rec"] = "lost"
=============================================================================
