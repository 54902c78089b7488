------------------------ MODULE EntityFramesProofs ------------------------
(* What TLAPS proves of EntityFrames, for every value of its constants.     *)
EXTENDS EntityFrames, SequencePiecesProofs, FiniteSetTheorems

-----------------------------------------------------------------------------
(* The inductive invariant.                                                 *)

\* The attempt and disconnect handlers command what they may, and only in Update;
\* what is applied at its end depends on it.
CommandsFit ==
  \A e \in Entities :
    /\ stage # "update" => cmds[e] = {}
    /\ cmds[e] \cap {"spawn", "accept"} # {} => life[e] = "absent"
    /\ cmds[e] \cap {"insert", "error"} # {} => life[e] = "attempt"
    /\ "remove" \in cmds[e] => life[e] = "live"

\* The life of an entity changes between two schedules only, so that the visits of
\* a schedule find what its queries asked for.
VisitsFit ==
  \A v \in todo : /\ life[v[1]] = IF v[2] = "attempt" THEN "attempt" ELSE "live"
                  /\ stage = "post" => v[2] \in Halves

\* An event that was fired is that of an end, and in time the visit that would fire it
\* again finds the entity gone.
EventsFit ==
  \A e \in Entities : \A p \in Parts : events[e][p] > 0 =>
    /\ events[e][p] = 1 /\ life[e] = "live" /\ Ended(e, p)
    /\ p = "conn" => stage = "update" /\ "remove" \in cmds[e] /\ <<e, p>> \notin todo
    /\ p \in Halves => /\ stage = "post" => <<e, p>> \notin todo
                       /\ stage = "update" => <<e, p>> \in todo \/ "despawn" \in cmds[e]

\* What has been done about an end that stands, as the frame goes on.
StandingFit ==
  /\ \A v \in standing :
       /\ life[v[1]] = "live" /\ Ended(v[1], v[2])
       /\ stage # "post" => v[2] = "rec"
       /\ stage = "recv" => v \in todo \/ blocked = v[1] \/ channel[v[1]] = <<>>
       /\ stage = "update" => channel[v[1]] = <<>>
       /\ stage = "post" => v \in todo \/ events[v[1]][v[2]] > 0
  /\ blocked # NoEntity => stage = "recv"

\* The packets of an entity are its own at any time, and the vector that goes round is
\* empty whenever it changes places.
PacketsFit ==
  /\ buffer = <<>>
  /\ \A e \in Entities : session[e] \o channel[e] = Packets(e, read[e], arrived[e])

FramesInv == TypeOK /\ CommandsFit /\ VisitsFit /\ EventsFit /\ StandingFit /\ PacketsFit

-----------------------------------------------------------------------------
\* The assumptions in the form most steps use.
LEMMA FrameBounds ==
  /\ MaxPackets \in Nat /\ InCap \in Nat /\ InCap > 0 /\ MaxTransfer \in Nat
  /\ InCap <= MaxTransfer /\ NoEntity \notin Entities
  BY FrameAssumption DEF FrameAssumption

\* Packet numbers wrap around.
LEMMA NumberIs ==
  ASSUME NEW n \in 0 .. MaxPackets
  PROVE Number(n) = n /\ Number(n + MaxPackets + 1) = n
  BY FrameBounds DEF Number

\* The number of a packet is one of those there are.
LEMMA NumberTyped ==
  ASSUME NEW n \in Nat PROVE Number(n) \in 0 .. MaxPackets
  BY FrameBounds DEF Number

-----------------------------------------------------------------------------
Packet == Entities \X Nat
Lives  == {"absent", "attempt", "live", "error", "closed", "gone"}
Tasked == [Parts -> {"none", "run", "ended", "lost"}]
Counts == [Parts -> 0 .. 2]

\* Of an entity that is left something is followed.
Left(l) == l \in {"absent", "attempt", "live"}

\* The end of a schedule, entity by entity.
LEMMA StageEnds ==
  ASSUME NEW discarded, EndStage(discarded)
  PROVE /\ todo = {} /\ blocked = NoEntity /\ UNCHANGED <<buffer, blocked>>
        /\ discarded # {} => stage = "update" /\ \A e \in discarded : Held(e)
        /\ life' = [e \in Entities |-> Applied(e, discarded)]
        /\ answer' = [e \in Entities |-> IF Left(life'[e]) THEN answer[e] ELSE "consumed"]
        /\ task' = [e \in Entities |-> IF Left(life'[e]) THEN task[e] ELSE Nothing("none")]
        /\ channel' = [e \in Entities |-> IF Left(life'[e]) THEN channel[e] ELSE <<>>]
        /\ session' = [e \in Entities |-> IF Left(life'[e]) THEN session[e] ELSE <<>>]
        /\ arrived' = [e \in Entities |-> IF Left(life'[e]) THEN arrived[e] ELSE 0]
        /\ read' = [e \in Entities |-> IF Left(life'[e]) THEN read[e] ELSE 0]
        /\ events' = [e \in Entities |-> IF Left(life'[e]) THEN events[e] ELSE Nothing(0)]
        /\ asked' \subseteq asked
        /\ stage' = Following[stage] /\ todo' = Agenda(stage', life')
        /\ stage = "recv" => standing' = {v \in standing : life'[v[1]] = "live"}
        /\ stage = "update" => standing' = {v \in Entities \X Halves :
                                              life'[v[1]] = "live" /\ Ended(v[1], v[2])}
        /\ stage = "post" => standing' = {v \in Entities \X {"rec"} :
                                            life'[v[1]] = "live" /\ Ended(v[1], v[2])}
        /\ cmds' = [e \in Entities |-> {}]
  BY DEF EndStage, Left

\* The next schedule.
LEMMA NextStage ==
  ASSUME TypeOK, NEW discarded, EndStage(discarded)
  PROVE /\ stage = "recv" => stage' = "update"
        /\ stage = "update" => stage' = "post"
        /\ stage = "post" => stage' = "recv"
        /\ stage' \in {"recv", "update", "post"}
  BY StageEnds DEF TypeOK, Following

\* What a schedule will visit.
LEMMA AgendaIs ==
  ASSUME NEW lf
  PROVE /\ \A v \in Agenda("recv", lf) : v \in Visits /\ v[2] = "rec" /\ lf[v[1]] = "live"
        /\ \A v \in Agenda("update", lf) :
             /\ v \in Visits
             /\ \/ v[2] = "attempt" /\ lf[v[1]] = "attempt"
                \/ v[2] \in Parts /\ lf[v[1]] = "live"
        /\ \A v \in Agenda("post", lf) : v \in Visits /\ v[2] \in Halves /\ lf[v[1]] = "live"
<1>1. /\ Agenda("recv", lf) = {<<e, "rec">> : e \in {f \in Entities : Receivable(lf, f)}}
      /\ Agenda("update", lf) = {v \in Visits :
             \/ lf[v[1]] = "attempt" /\ v[2] = "attempt"
             \/ lf[v[1]] = "live" /\ v[2] \in HandlerParts(v[1])}
      /\ Agenda("post", lf) = {v \in Visits :
             lf[v[1]] = "live" /\ v[2] \in PartsOf(v[1]) \cap FiringHalves}
      BY DEF Agenda
<1>2. "rec" \in Parts /\ \A e : HandlerParts(e) \subseteq Parts
      BY DEF HandlerParts, PartsOf, Parts, Halves
<1>3. ASSUME NEW v \in Agenda("recv", lf)
      PROVE v \in Visits /\ v[2] = "rec" /\ lf[v[1]] = "live"
      BY <1>1, <1>2 DEF Receivable, Visits
<1>4. ASSUME NEW v \in Agenda("update", lf)
      PROVE /\ v \in Visits
            /\ \/ v[2] = "attempt" /\ lf[v[1]] = "attempt"
               \/ v[2] \in Parts /\ lf[v[1]] = "live"
      BY <1>1, <1>2
<1>5. ASSUME NEW v \in Agenda("post", lf)
      PROVE v \in Visits /\ v[2] \in Halves /\ lf[v[1]] = "live"
      BY <1>1 DEF FiringHalves
<1> QED BY <1>3, <1>4, <1>5

\* What the commands make of an entity is something an entity can be.
LEMMA AppliedTyped ==
  ASSUME TypeOK, NEW e \in Entities, NEW discarded PROVE Applied(e, discarded) \in Lives
  BY DEF Applied, TypeOK, Lives

\* The start of the application is well typed...
LEMMA FramesTypeInit == Init => TypeOK
<1> SUFFICES ASSUME Init PROVE TypeOK
    OBVIOUS
<1>1. /\ channel \in [Entities -> Seq(Packet)] /\ session \in [Entities -> Seq(Packet)]
      /\ buffer \in Seq(Packet) /\ \A e \in Entities : Len(channel[e]) <= InCap
      BY FrameBounds DEF Init
<1>2. /\ task \in [Entities -> Tasked] /\ events \in [Entities -> Counts]
      BY DEF Init, Nothing, Tasked, Counts
<1> QED BY <1>1, <1>2, FrameBounds DEF Init, TypeOK, Packet, Tasked, Counts, Answers

\* One vector takes what another has left of it.
LEMMA StoreTyped ==
  ASSUME NEW S, NEW a \in Seq(S), NEW b \in Seq(S), NEW n \in Nat
  PROVE /\ First(a, n) \in Seq(S) /\ After(a, n) \in Seq(S) /\ a \o b \in Seq(S)
        /\ Len(After(a, n)) <= Len(a)
<1>1. /\ First(a, n) \in Seq(S) /\ After(a, n) \in Seq(S)
      /\ Len(After(a, n)) = IF n < Len(a) THEN Len(a) - n ELSE 0
      BY FirstIs, AfterIs
<1>2. Len(a) \in Nat /\ a \o b \in Seq(S)
      OBVIOUS
<1> QED BY <1>1, <1>2

\* What the smaller of two numbers is.
LEMMA LeastTyped == \A a, b \in Nat : Least(a, b) \in Nat /\ Least(a, b) <= a /\ Least(a, b) <= b
  BY DEF Least

\* One more event, counted up to 2.
LEMMA AnnounceTyped ==
  ASSUME TypeOK, NEW e \in Entities, NEW p \in Parts, Announce(e, p)
  PROVE events' \in [Entities -> Counts]
<1>1. events \in [Entities -> Counts]
      BY DEF TypeOK, Counts
<1>2. events[e] \in Counts /\ events[e][p] \in 0 .. 2
      BY <1>1 DEF Counts
<1>3. Least(events[e][p] + 1, 2) \in 0 .. 2
      BY <1>2 DEF Least
<1>4. [events[e] EXCEPT ![p] = Least(events[e][p] + 1, 2)] \in Counts
      BY <1>2, <1>3 DEF Counts
<1>5. events' = [events EXCEPT ![e] = [events[e] EXCEPT ![p] = Least(events[e][p] + 1, 2)]]
      BY <1>1 DEF Announce
<1> QED BY <1>1, <1>4, <1>5

\* One more state of a task.
LEMMA TaskTyped ==
  ASSUME TypeOK, NEW e \in Entities, NEW p \in Parts, NEW t \in {"none", "run", "ended", "lost"},
         task' = [task EXCEPT ![e][p] = t]
  PROVE task' \in [Entities -> Tasked]
<1>1. task \in [Entities -> Tasked]
      BY DEF TypeOK, Tasked
<1>2. [task[e] EXCEPT ![p] = t] \in Tasked
      BY <1>1 DEF Tasked
<1>3. task' = [task EXCEPT ![e] = [task[e] EXCEPT ![p] = t]]
      BY <1>1
<1> QED BY <1>1, <1>2, <1>3

\* Every step keeps the types and the bound of the inbound channels.
LEMMA FramesTypeStep == TypeOK /\ [Next]_vars => TypeOK'
<1> SUFFICES ASSUME TypeOK, [Next]_vars PROVE TypeOK'
    OBVIOUS
<1> USE DEF vars, lifeVars, packetVars, frameVars, eventVars
<1>0. /\ task \in [Entities -> Tasked] /\ events \in [Entities -> Counts]
      /\ "rec" \in Parts /\ "conn" \in Parts
      BY DEF TypeOK, Tasked, Counts, Parts, Halves
<1>1. ASSUME NEW e \in Entities, StartRecv(e) PROVE TypeOK'
      BY <1>1 DEF StartRecv, TypeOK
<1>2. ASSUME NEW e \in Entities, FinishRecv(e) PROVE TypeOK'
  <2> DEFINE size == Least(MaxTransfer, Len(channel[e]))
             filled == buffer \o First(channel[e], size)
  <2>1. /\ Store(e, filled, size) /\ channel' = [channel EXCEPT ![e] = After(channel[e], size)]
        /\ blocked' = NoEntity
        /\ UNCHANGED <<lifeVars, arrived, read, stage, todo, cmds, eventVars>>
        BY <1>2 DEF FinishRecv
  <2>2. /\ channel[e] \in Seq(Packet) /\ session[e] \in Seq(Packet) /\ buffer \in Seq(Packet)
        /\ Len(channel[e]) \in Nat /\ Len(channel[e]) <= InCap
        BY DEF TypeOK, Packet
  <2>3. size \in Nat
        BY <2>2, FrameBounds, LeastTyped
  <2> HIDE DEF size
  <2>4. /\ First(channel[e], size) \in Seq(Packet) /\ After(channel[e], size) \in Seq(Packet)
        /\ Len(After(channel[e], size)) <= Len(channel[e])
        BY <2>2, <2>3, StoreTyped
  <2>5. filled \in Seq(Packet)
        BY <2>2, <2>4, StoreTyped
  <2> HIDE DEF filled
  <2>6. First(filled, size) \in Seq(Packet) /\ After(filled, size) \in Seq(Packet)
        BY <2>3, <2>5, StoreTyped
  <2>7. session[e] \o First(filled, size) \in Seq(Packet)
        BY <2>2, <2>6
  <2>8. session' \in [Entities -> Seq(Packet)] /\ buffer' \in Seq(Packet)
        BY <2>1, <2>2, <2>6, <2>7 DEF Store, TypeOK, Packet
  <2>9. channel' \in [Entities -> Seq(Packet)]
        BY <2>1, <2>4 DEF TypeOK, Packet
  <2>10. Len(After(channel[e], size)) <= InCap
    <3>1. Len(After(channel[e], size)) \in Nat
          BY <2>4
    <3> QED BY <2>2, <2>4, <3>1, FrameBounds
  <2>11. ASSUME NEW f \in Entities PROVE Len(channel'[f]) <= InCap
    <3>1. CASE f = e
          BY <2>1, <2>10, <3>1 DEF TypeOK
    <3>2. CASE f # e
          BY <2>1, <3>2 DEF TypeOK
    <3> QED BY <3>1, <3>2
  <2> QED BY <2>1, <2>8, <2>9, <2>11 DEF TypeOK, Packet
<1>3. ASSUME NEW e \in Entities, NEW c \in Commands, Command(e, c)
      PROVE cmds' \in [Entities -> SUBSET Commands]
      BY <1>3 DEF Command, TypeOK
<1>4. ASSUME NEW e \in Entities, MakeConnection(e) PROVE task' \in [Entities -> Tasked]
  <2>1. PICK t \in {"run", "ended"} : task' = [task EXCEPT ![e]["conn"] = t]
        BY <1>4 DEF MakeConnection
  <2> QED BY <1>0, <2>1, TaskTyped
<1>5. ASSUME NEW e \in Entities, VisitAttempt(e) PROVE TypeOK'
  <2>1. /\ todo' = todo \ {<<e, "attempt">>} /\ Resolve(e)
        /\ UNCHANGED <<life, packetVars, stage, blocked, eventVars>>
        BY <1>5 DEF VisitAttempt
  <2>2. cmds' = cmds \/ Command(e, "error") \/ Command(e, "despawn") \/ Command(e, "insert")
        BY <2>1 DEF Resolve
  <2>3. cmds' \in [Entities -> SUBSET Commands]
        BY <1>3, <2>2 DEF TypeOK, Commands
  <2>4. answer' = answer \/ answer' = [answer EXCEPT ![e] = "consumed"]
        BY <2>1 DEF Resolve
  <2>5. answer' \in [Entities -> Answers]
        BY <2>4 DEF TypeOK, Answers
  <2>6. task' = task \/ MakeConnection(e)
        BY <2>1 DEF Resolve
  <2>7. task' \in [Entities -> Tasked]
        BY <1>0, <1>4, <2>6
  <2> QED BY <2>1, <2>3, <2>5, <2>7 DEF TypeOK, Tasked
<1>6. ASSUME NEW e \in Entities, NEW p \in Parts, VisitDisconnect(e, p) PROVE TypeOK'
  <2>1. /\ todo' = todo \ {<<e, p>>}
        /\ UNCHANGED <<lifeVars, packetVars, stage, blocked, standing, asked>>
        /\ cmds' = cmds \/ Command(e, "remove") \/ Command(e, "despawn")
        /\ events' = events \/ Announce(e, p)
        BY <1>6 DEF VisitDisconnect
  <2>2. cmds' \in [Entities -> SUBSET Commands]
        BY <1>3, <2>1 DEF TypeOK, Commands
  <2>3. events' \in [Entities -> Counts]
        BY <1>0, <2>1, AnnounceTyped
  <2> QED BY <2>1, <2>2, <2>3 DEF TypeOK, Counts
<1>7. ASSUME NEW e \in Entities, NEW p \in Parts, Fire(e, p) PROVE TypeOK'
  <2>1. /\ todo' = todo \ {<<e, p>>}
        /\ UNCHANGED <<lifeVars, packetVars, stage, blocked, cmds, standing, asked>>
        /\ events' = events \/ Announce(e, p)
        BY <1>7 DEF Fire
  <2>2. events' \in [Entities -> Counts]
        BY <1>0, <2>1, AnnounceTyped
  <2> QED BY <2>1, <2>2 DEF TypeOK, Counts
<1>8. ASSUME NEW discarded \in SUBSET Entities, EndStage(discarded) PROVE TypeOK'
  <2>1. /\ life' \in [Entities -> Lives] /\ answer' \in [Entities -> Answers]
        /\ arrived' \in [Entities -> 0 .. MaxPackets] /\ read' \in [Entities -> 0 .. MaxPackets]
        /\ cmds' \in [Entities -> SUBSET Commands] /\ asked' \subseteq Entities
        /\ buffer' = buffer /\ blocked' = blocked
    <3>1. /\ life' = [e \in Entities |-> Applied(e, discarded)]
          /\ answer' = [e \in Entities |-> IF Left(life'[e]) THEN answer[e] ELSE "consumed"]
          /\ cmds' = [e \in Entities |-> {}] /\ asked' \subseteq asked
          /\ UNCHANGED <<buffer, blocked>>
          BY <1>8, StageEnds
    <3>2. /\ arrived' = [e \in Entities |-> IF Left(life'[e]) THEN arrived[e] ELSE 0]
          /\ read' = [e \in Entities |-> IF Left(life'[e]) THEN read[e] ELSE 0]
          BY <1>8, StageEnds
    <3>3. life' \in [Entities -> Lives]
          BY <3>1, AppliedTyped
    <3>4. answer' \in [Entities -> Answers]
          BY <3>1 DEF TypeOK, Answers
    <3>5. arrived' \in [Entities -> 0 .. MaxPackets] /\ read' \in [Entities -> 0 .. MaxPackets]
          BY <3>2, FrameBounds DEF TypeOK
    <3> QED BY <3>1, <3>3, <3>4, <3>5 DEF TypeOK
  <2>2. task' \in [Entities -> Tasked] /\ events' \in [Entities -> Counts]
    <3>1. Nothing("none") \in Tasked /\ Nothing(0) \in Counts
          BY DEF Nothing, Tasked, Counts
    <3>2. /\ task' = [e \in Entities |-> IF Left(life'[e]) THEN task[e] ELSE Nothing("none")]
          /\ events' = [e \in Entities |-> IF Left(life'[e]) THEN events[e] ELSE Nothing(0)]
          BY <1>8, StageEnds
    <3>3. task' \in [Entities -> Tasked]
          BY <1>0, <3>1, <3>2
    <3>4. events' \in [Entities -> Counts]
          BY <1>0, <3>1, <3>2
    <3> QED BY <3>3, <3>4
  <2>3. session' \in [Entities -> Seq(Packet)] /\ channel' \in [Entities -> Seq(Packet)]
    <3>1. <<>> \in Seq(Packet)
          OBVIOUS
    <3>2. /\ channel' = [e \in Entities |-> IF Left(life'[e]) THEN channel[e] ELSE <<>>]
          /\ session' = [e \in Entities |-> IF Left(life'[e]) THEN session[e] ELSE <<>>]
          BY <1>8, StageEnds
    <3>3. session \in [Entities -> Seq(Packet)] /\ channel \in [Entities -> Seq(Packet)]
          BY DEF TypeOK, Packet
    <3>4. session' \in [Entities -> Seq(Packet)]
          BY <3>1, <3>2, <3>3
    <3>5. channel' \in [Entities -> Seq(Packet)]
          BY <3>1, <3>2, <3>3
    <3> QED BY <3>4, <3>5
  <2>4. ASSUME NEW e \in Entities PROVE Len(channel'[e]) <= InCap
    <3>1. channel'[e] = channel[e] \/ channel'[e] = <<>>
          BY <1>8, StageEnds
    <3>2. Len(channel[e]) <= InCap /\ Len(<<>>) = 0
          BY DEF TypeOK
    <3> QED BY <3>1, <3>2, FrameBounds
  <2>5. stage' \in {"recv", "update", "post"} /\ todo' \subseteq Visits
        BY <1>8, StageEnds, NextStage, AgendaIs
  <2>6. standing' \subseteq Entities \X Halves
    <3>1. standing \subseteq Entities \X Halves /\ stage \in {"recv", "update", "post"}
          BY DEF TypeOK
    <3> QED BY <1>8, <3>1, StageEnds DEF Halves
  <2> QED BY <2>1, <2>2, <2>3, <2>4, <2>5, <2>6
          DEF TypeOK, Packet, Lives, Tasked, Counts
<1>9. ASSUME NEW e \in Entities, NEW refused \in SUBSET Halves, AnswerHalves(e, refused)
      PROVE TypeOK'
  <2> DEFINE made == [p \in Parts |-> CASE p \in refused -> "ended"
                                        [] p \in HalvesMade(e) \ refused -> "run"
                                        [] OTHER -> "none"]
  <2>1. /\ answer' = [answer EXCEPT ![e] = "halves"] /\ task' = [task EXCEPT ![e] = made]
        /\ UNCHANGED <<life, packetVars, frameVars, eventVars>>
        BY <1>9 DEF AnswerHalves
  <2>2. made \in Tasked
    <3>1. ASSUME NEW p \in Parts PROVE made[p] \in {"none", "run", "ended", "lost"}
          OBVIOUS
    <3> QED BY <3>1 DEF Tasked
  <2> HIDE DEF made
  <2>3. task' \in [Entities -> Tasked]
        BY <1>0, <2>1, <2>2
  <2> QED BY <2>1, <2>3 DEF TypeOK, Tasked, Answers
<1>10. ASSUME NEW e \in Entities, NEW what \in {"connection", "none", "failed"},
              AnswerOther(e, what)
       PROVE TypeOK'
       BY <1>10 DEF AnswerOther, TypeOK, Answers
<1>11. ASSUME NEW e \in Entities, NEW p \in Parts, TaskEnds(e, p) PROVE TypeOK'
  <2>1. task' \in [Entities -> Tasked]
        BY <1>11, TaskTyped DEF TaskEnds
  <2> QED BY <1>11, <2>1 DEF TaskEnds, TypeOK, Tasked
<1>12. ASSUME NEW e \in Entities, TaskLost(e) PROVE TypeOK'
  <2>1. task' \in [Entities -> Tasked]
        BY <1>0, <1>12, TaskTyped DEF TaskLost
  <2> QED BY <1>12, <2>1 DEF TaskLost, TypeOK, Tasked
<1>13. ASSUME NEW e \in Entities, Arrive(e) PROVE TypeOK'
  <2>1. /\ Len(channel[e]) < InCap /\ arrived' = [arrived EXCEPT ![e] = Number(arrived[e] + 1)]
        /\ channel' = [channel EXCEPT ![e] = Append(channel[e], <<e, arrived[e]>>)]
        /\ UNCHANGED <<lifeVars, session, read, buffer, frameVars, eventVars>>
        BY <1>13 DEF Arrive, HasRoom
  <2>2. arrived[e] \in Nat /\ arrived[e] + 1 \in Nat /\ channel[e] \in Seq(Packet)
        BY FrameBounds DEF TypeOK, Packet
  <2>3. Number(arrived[e] + 1) \in 0 .. MaxPackets
        BY <2>2, NumberTyped
  <2>4. /\ Append(channel[e], <<e, arrived[e]>>) \in Seq(Packet)
        /\ Len(Append(channel[e], <<e, arrived[e]>>)) = Len(channel[e]) + 1
        /\ Len(channel[e]) \in Nat
        BY <2>2, AppendProperties DEF Packet
  <2>5. arrived' \in [Entities -> 0 .. MaxPackets] /\ channel' \in [Entities -> Seq(Packet)]
        BY <2>1, <2>3, <2>4 DEF TypeOK, Packet
  <2>6. ASSUME NEW f \in Entities PROVE Len(channel'[f]) <= InCap
    <3>1. CASE f = e
          BY <2>1, <2>4, <3>1, FrameBounds DEF TypeOK
    <3>2. CASE f # e
          BY <2>1, <3>2 DEF TypeOK
    <3> QED BY <3>1, <3>2
  <2> QED BY <2>1, <2>5, <2>6 DEF TypeOK, Packet
<1>14. ASSUME NEW e \in Entities, SpawnAttempt(e) PROVE TypeOK'
       BY <1>3, <1>14 DEF SpawnAttempt, TypeOK, Commands
<1>15. ASSUME NEW e \in Entities, AcceptConnection(e) PROVE TypeOK'
  <2>1. cmds' \in [Entities -> SUBSET Commands] /\ task' \in [Entities -> Tasked]
        BY <1>3, <1>4, <1>15 DEF AcceptConnection, Commands
  <2> QED BY <1>15, <2>1 DEF AcceptConnection, TypeOK, Tasked
<1>16. ASSUME NEW e \in Entities, AppRead(e) PROVE TypeOK'
  <2> DEFINE next == Number(read[e] + Len(session[e]))
  <2>1. /\ session' = [session EXCEPT ![e] = <<>>]
        /\ \/ read' = [read EXCEPT ![e] = 0] /\ arrived' = [arrived EXCEPT ![e] = 0]
           \/ read' = [read EXCEPT ![e] = next] /\ UNCHANGED arrived
        /\ UNCHANGED <<lifeVars, channel, buffer, frameVars, eventVars>>
        BY <1>16 DEF AppRead
  <2>2. next \in 0 .. MaxPackets /\ 0 \in 0 .. MaxPackets
    <3>1. read[e] \in Nat /\ Len(session[e]) \in Nat
          BY FrameBounds DEF TypeOK
    <3>2. read[e] + Len(session[e]) \in Nat
          BY <3>1
    <3> QED BY <3>2, NumberTyped, FrameBounds
  <2> HIDE DEF next
  <2>3. read' \in [Entities -> 0 .. MaxPackets] /\ arrived' \in [Entities -> 0 .. MaxPackets]
        BY <2>1, <2>2 DEF TypeOK
  <2>4. session' \in [Entities -> Seq(Packet)]
        BY <2>1 DEF TypeOK, Packet
  <2> QED BY <2>1, <2>3, <2>4 DEF TypeOK, Packet
<1>17. ASSUME NEW e \in Entities, AppTakesResult(e) PROVE TypeOK'
       BY <1>17 DEF AppTakesResult, TypeOK, Answers
<1>18. ASSUME NEW e \in Entities, AppDisconnects(e) PROVE TypeOK'
       BY <1>18 DEF AppDisconnects, TypeOK
<1>19. CASE UNCHANGED vars
       BY <1>19 DEF TypeOK
<1>20. CASE FrameStep
       BY <1>1, <1>2, <1>5, <1>6, <1>7, <1>8, <1>20 DEF FrameStep
<1> QED BY <1>9, <1>10, <1>11, <1>12, <1>13, <1>14, <1>15, <1>16, <1>17, <1>18, <1>19, <1>20
        DEF Next

-----------------------------------------------------------------------------
\* What the end of a schedule may make of a component or a pair of halves.
LEMMA LiveFate ==
  ASSUME TypeOK, CommandsFit, NEW discarded, EndStage(discarded), NEW e \in Entities
  PROVE /\ stage # "update" => life'[e] = life[e]
        /\ life[e] = "live" => life'[e] \in {"live", "closed", "gone"}
        /\ life[e] = "live" /\ ("remove" \in cmds[e] \/ "despawn" \in cmds[e])
             => life'[e] # "live"
        /\ life'[e] = "live" => life[e] \in {"absent", "attempt", "live"}
        /\ life[e] = "live" /\ "despawn" \in cmds[e] => life'[e] = "gone"
<1>1. life'[e] = Applied(e, discarded) /\ (stage # "update" => discarded = {} /\ cmds[e] = {})
      BY StageEnds DEF CommandsFit
<1>2. stage # "update" => life'[e] = life[e]
      BY <1>1 DEF Applied
<1>3. life[e] = "live" => cmds[e] \cap {"spawn", "accept", "insert", "error"} = {}
      BY DEF CommandsFit
<1>4. /\ life[e] = "live" => life'[e] \in {"live", "closed", "gone"}
      /\ life[e] = "live" /\ ("remove" \in cmds[e] \/ "despawn" \in cmds[e])
           => life'[e] # "live"
      /\ life[e] = "live" /\ "despawn" \in cmds[e] => life'[e] = "gone"
      BY <1>1, <1>3 DEF Applied
<1>5. life'[e] = "live" => life[e] \in {"absent", "attempt", "live"}
  <2>1. life'[e] = "live" => cmds[e] \cap {"insert", "accept"} # {} \/ life[e] = "live"
        BY <1>1 DEF Applied
  <2> QED BY <2>1 DEF CommandsFit
<1> QED BY <1>2, <1>4, <1>5

\* Visits and their parts.
LEMMA VisitParts == \A e : \A p \in Parts : p # "attempt" /\ <<e, p>>[1] = e /\ <<e, p>>[2] = p
  BY DEF Parts, Halves

\* Every step keeps commands and visits to what the life of the entity allows.
LEMMA FramesCommandsStep ==
  TypeOK /\ CommandsFit /\ VisitsFit /\ [Next]_vars => CommandsFit' /\ VisitsFit'
<1> SUFFICES ASSUME TypeOK, CommandsFit, VisitsFit, [Next]_vars
             PROVE CommandsFit' /\ VisitsFit'
    OBVIOUS
<1> USE DEF vars, lifeVars, packetVars, frameVars, eventVars
<1>1. CASE UNCHANGED <<life, stage, cmds>> /\ todo' \subseteq todo
      BY <1>1 DEF CommandsFit, VisitsFit
\* A command to an entity that may be given it.
<1>2. ASSUME NEW e \in Entities, NEW c, Command(e, c), stage = "update",
             UNCHANGED <<life, stage>>, todo' \subseteq todo,
             c \in {"spawn", "accept"} => life[e] = "absent",
             c \in {"insert", "error"} => life[e] = "attempt",
             c = "remove" => life[e] = "live"
      PROVE CommandsFit' /\ VisitsFit'
  <2>1. /\ cmds'[e] = cmds[e] \cup {c}
        /\ \A f \in Entities : f # e => cmds'[f] = cmds[f]
        BY <1>2 DEF Command, TypeOK
  <2>2. VisitsFit'
        BY <1>2 DEF VisitsFit
  <2>3. ASSUME NEW f \in Entities
        PROVE /\ cmds'[f] \cap {"spawn", "accept"} # {} => life[f] = "absent"
              /\ cmds'[f] \cap {"insert", "error"} # {} => life[f] = "attempt"
              /\ "remove" \in cmds'[f] => life[f] = "live"
    <3>1. CASE f = e
          BY <1>2, <2>1, <3>1 DEF CommandsFit
    <3>2. CASE f # e
          BY <2>1, <3>2 DEF CommandsFit
    <3> QED BY <3>1, <3>2
  <2> QED BY <1>2, <2>2, <2>3 DEF CommandsFit
<1>3. ASSUME NEW e \in Entities, VisitAttempt(e) PROVE CommandsFit' /\ VisitsFit'
  <2>1. life[e] = "attempt"
        BY <1>3 DEF VisitAttempt, VisitsFit
  <2>2. /\ stage = "update" /\ todo' \subseteq todo /\ UNCHANGED <<life, stage>>
        /\ \/ cmds' = cmds \/ Command(e, "error") \/ Command(e, "despawn") \/ Command(e, "insert")
        BY <1>3 DEF VisitAttempt, Resolve
  <2> QED BY <1>1, <1>2, <2>1, <2>2
<1>4. ASSUME NEW e \in Entities, NEW p \in Parts, VisitDisconnect(e, p)
      PROVE CommandsFit' /\ VisitsFit'
  <2>1. life[e] = "live"
        BY <1>4, VisitParts DEF VisitDisconnect, VisitsFit
  <2>2. /\ stage = "update" /\ todo' \subseteq todo /\ UNCHANGED <<life, stage>>
        /\ cmds' = cmds \/ Command(e, "remove") \/ Command(e, "despawn")
        BY <1>4 DEF VisitDisconnect
  <2> QED BY <1>1, <1>2, <2>1, <2>2
<1>5. ASSUME NEW e \in Entities, SpawnAttempt(e) \/ AcceptConnection(e)
      PROVE CommandsFit' /\ VisitsFit'
  <2>1. /\ stage = "update" /\ life[e] = "absent" /\ UNCHANGED <<life, stage, todo>>
        /\ Command(e, "spawn") \/ Command(e, "accept")
        BY <1>5 DEF SpawnAttempt, AcceptConnection, AppTurn
  <2> QED BY <1>2, <2>1
<1>6. ASSUME NEW discarded \in SUBSET Entities, EndStage(discarded)
      PROVE CommandsFit' /\ VisitsFit'
  <2>1. cmds' = [e \in Entities |-> {}] /\ todo' = Agenda(stage', life')
        BY <1>6, StageEnds
  <2>2. stage' \in {"recv", "update", "post"}
        BY <1>6, NextStage
  <2>3. CommandsFit'
        BY <2>1 DEF CommandsFit
  <2>4. "rec" # "attempt" /\ \A p \in Halves \cup Parts : p # "attempt"
        BY DEF Parts, Halves
  <2>5. VisitsFit'
        BY <2>1, <2>2, <2>4, AgendaIs DEF VisitsFit
  <2> QED BY <2>3, <2>5
<1>7. CASE FrameStep
  <2>1. ASSUME NEW e \in Entities, StartRecv(e) \/ FinishRecv(e) PROVE CommandsFit' /\ VisitsFit'
        BY <1>1, <2>1 DEF StartRecv, FinishRecv
  <2>2. ASSUME NEW e \in Entities, NEW p \in Parts, Fire(e, p) PROVE CommandsFit' /\ VisitsFit'
        BY <1>1, <2>2 DEF Fire
  <2> QED BY <1>3, <1>4, <1>6, <1>7, <2>1, <2>2 DEF FrameStep
<1>8. ASSUME NEW e \in Entities,
             \/ \E refused \in SUBSET Halves : AnswerHalves(e, refused)
             \/ \E what \in {"connection", "none", "failed"} : AnswerOther(e, what)
             \/ \E p \in Parts : TaskEnds(e, p)
             \/ TaskLost(e) \/ Arrive(e)
             \/ AppRead(e) \/ AppTakesResult(e) \/ AppDisconnects(e)
      PROVE CommandsFit' /\ VisitsFit'
      BY <1>1, <1>8 DEF AnswerHalves, AnswerOther, TaskEnds, TaskLost, Arrive, AppRead,
                        AppTakesResult, AppDisconnects
<1> QED BY <1>1, <1>5, <1>7, <1>8 DEF Next

-----------------------------------------------------------------------------
\* Of an entity that is still there nothing changes when a schedule ends.
LEMMA KeptLive ==
  ASSUME TypeOK, NEW discarded, EndStage(discarded), NEW e \in Entities, life'[e] = "live"
  PROVE task'[e] = task[e] /\ channel'[e] = channel[e] /\ events'[e] = events[e]
<1>1. Left(life'[e])
      BY DEF Left
<1>2. task'[e] = task[e]
      BY <1>1, StageEnds
<1>3. channel'[e] = channel[e]
      BY <1>1, StageEnds
<1>4. events'[e] = events[e]
      BY <1>1, StageEnds
<1> QED BY <1>2, <1>3, <1>4

\* A component or half that has ended does not come back to life.
LEMMA EndedStays ==
  ASSUME TypeOK, VisitsFit, [Next]_vars, NEW e \in Entities, NEW p \in Parts,
         life[e] = "live", Ended(e, p), life'[e] = "live"
  PROVE Ended(e, p)'
<1> USE DEF vars, lifeVars, packetVars, frameVars, eventVars
<1>0. task \in [Entities -> Tasked] /\ task[e] \in Tasked /\ task[e][p] = "ended"
      BY DEF TypeOK, Tasked, Ended
<1>1. CASE task'[e] = task[e]
      BY <1>1 DEF Ended
<1>2. ASSUME NEW f \in Entities, f # e, NEW x, task' = [task EXCEPT ![f] = x]
      PROVE task'[e] = task[e]
      BY <1>0, <1>2
<1>3. ASSUME NEW f \in Entities, NEW q \in Parts, task[f][q] = "run",
             NEW x, task' = [task EXCEPT ![f][q] = x]
      PROVE task'[e][p] = "ended"
      BY <1>0, <1>3 DEF Tasked
<1>4. ASSUME NEW f \in Entities, life[f] # "live", MakeConnection(f) PROVE task'[e] = task[e]
  <2>1. PICK t \in {"run", "ended"} : task' = [task EXCEPT ![f]["conn"] = t]
        BY <1>4 DEF MakeConnection
  <2>2. f # e
        BY <1>4
  <2> QED BY <1>0, <2>1, <2>2
<1>5. ASSUME NEW f \in Entities, VisitAttempt(f) PROVE Ended(e, p)'
  <2>1. life[f] # "live"
        BY <1>5 DEF VisitAttempt, VisitsFit
  <2>2. task' = task \/ MakeConnection(f)
        BY <1>5 DEF VisitAttempt, Resolve
  <2> QED BY <1>1, <1>4, <2>1, <2>2
<1>6. ASSUME NEW discarded \in SUBSET Entities, EndStage(discarded) PROVE Ended(e, p)'
      BY <1>1, <1>6, KeptLive
<1>7. ASSUME NEW f \in Entities, NEW refused \in SUBSET Halves, AnswerHalves(f, refused)
      PROVE Ended(e, p)'
      BY <1>1, <1>2, <1>7 DEF AnswerHalves
<1>8. ASSUME NEW f \in Entities, NEW q \in Parts, TaskEnds(f, q) PROVE Ended(e, p)'
      BY <1>3, <1>8 DEF TaskEnds, Ended
<1>9. ASSUME NEW f \in Entities, TaskLost(f) PROVE Ended(e, p)'
      BY <1>3, <1>9 DEF TaskLost, Ended, Parts, Halves
<1>10. ASSUME NEW f \in Entities, AcceptConnection(f) PROVE Ended(e, p)'
       BY <1>1, <1>4, <1>10 DEF AcceptConnection
<1>11. ASSUME NEW f \in Entities,
              \/ StartRecv(f) \/ FinishRecv(f)
              \/ \E q \in Parts : VisitDisconnect(f, q) \/ Fire(f, q)
              \/ \E what \in {"connection", "none", "failed"} : AnswerOther(f, what)
              \/ Arrive(f) \/ SpawnAttempt(f)
              \/ AppRead(f) \/ AppTakesResult(f) \/ AppDisconnects(f)
       PROVE Ended(e, p)'
       BY <1>1, <1>11 DEF StartRecv, FinishRecv, VisitDisconnect, Fire, AnswerOther, Arrive,
                          SpawnAttempt, AppRead, AppTakesResult, AppDisconnects
<1>12. CASE FrameStep
       BY <1>5, <1>6, <1>11, <1>12 DEF FrameStep
<1>13. CASE UNCHANGED vars
       BY <1>1, <1>13
<1> QED BY <1>7, <1>8, <1>9, <1>10, <1>11, <1>12, <1>13 DEF Next

\* One more event, and no other.
LEMMA AnnounceIs ==
  ASSUME TypeOK, NEW e \in Entities, NEW p \in Parts, Announce(e, p)
  PROVE /\ events'[e][p] > 0 /\ (events[e][p] = 0 => events'[e][p] = 1)
        /\ \A f \in Entities : \A q \in Parts :
             f # e \/ q # p => events'[f][q] = events[f][q]
<1>1. events \in [Entities -> Counts] /\ events[e] \in Counts /\ events[e][p] \in 0 .. 2
      BY DEF TypeOK, Counts
<1>2. events' = [events EXCEPT ![e] = [events[e] EXCEPT ![p] = Least(events[e][p] + 1, 2)]]
      BY <1>1 DEF Announce
<1>3. events'[e] = [events[e] EXCEPT ![p] = Least(events[e][p] + 1, 2)]
      BY <1>1, <1>2
<1>4. events'[e][p] = Least(events[e][p] + 1, 2)
      BY <1>1, <1>3 DEF Counts
<1>5. \A f \in Entities : \A q \in Parts : f # e \/ q # p => events'[f][q] = events[f][q]
      BY <1>1, <1>2, <1>3 DEF Counts
<1>6. events'[e][p] > 0 /\ (events[e][p] = 0 => events'[e][p] = 1)
      BY <1>1, <1>4 DEF Least
<1> QED BY <1>5, <1>6

\* No event has been fired at first.
LEMMA NoneAtFirst == \A p \in Parts : Nothing(0)[p] = 0
  BY DEF Nothing

\* Every step keeps each event that of one end, fired once.
LEMMA FramesEventsStep ==
  TypeOK /\ CommandsFit /\ VisitsFit /\ EventsFit /\ [Next]_vars => EventsFit'
<1> SUFFICES ASSUME TypeOK, CommandsFit, VisitsFit, EventsFit, [Next]_vars
             PROVE EventsFit'
    OBVIOUS
<1> USE DEF vars, lifeVars, packetVars, frameVars, eventVars
\* An event that was there before.
<1>1. ASSUME UNCHANGED <<life, stage>>, todo' \subseteq todo,
             NEW e \in Entities, NEW p \in Parts, events[e][p] > 0,
             events'[e][p] = events[e][p], cmds[e] \subseteq cmds'[e],
             p \in Halves /\ stage = "update" /\ Ended(e, p) =>
               <<e, p>> \notin todo \/ <<e, p>> \in todo' \/ "despawn" \in cmds'[e]
      PROVE /\ events'[e][p] = 1 /\ life'[e] = "live" /\ Ended(e, p)'
            /\ p = "conn" => stage' = "update" /\ "remove" \in cmds'[e] /\ <<e, p>> \notin todo'
            /\ p \in Halves => /\ stage' = "post" => <<e, p>> \notin todo'
                               /\ stage' = "update" => <<e, p>> \in todo' \/ "despawn" \in cmds'[e]
  <2>1. /\ events[e][p] = 1 /\ life[e] = "live" /\ Ended(e, p)
        /\ p = "conn" => stage = "update" /\ "remove" \in cmds[e] /\ <<e, p>> \notin todo
        /\ p \in Halves => /\ stage = "post" => <<e, p>> \notin todo
                           /\ stage = "update" => <<e, p>> \in todo \/ "despawn" \in cmds[e]
        BY <1>1 DEF EventsFit
  <2>2. Ended(e, p)'
        BY <1>1, <2>1, EndedStays
  <2> QED BY <1>1, <2>1, <2>2
<1>2. CASE /\ UNCHANGED <<life, stage, events>> /\ todo' \subseteq todo
           /\ \A e \in Entities : cmds[e] \subseteq cmds'[e]
           /\ \A e \in Entities : \A p \in Halves :
                stage = "update" /\ Ended(e, p) =>
                  <<e, p>> \notin todo \/ <<e, p>> \in todo' \/ "despawn" \in cmds'[e]
  <2> SUFFICES ASSUME NEW e \in Entities, NEW p \in Parts, events'[e][p] > 0
               PROVE /\ events'[e][p] = 1 /\ life'[e] = "live" /\ Ended(e, p)'
                     /\ p = "conn" => stage' = "update" /\ "remove" \in cmds'[e] /\ <<e, p>> \notin todo'
                     /\ p \in Halves => /\ stage' = "post" => <<e, p>> \notin todo'
                                        /\ stage' = "update" => <<e, p>> \in todo' \/ "despawn" \in cmds'[e]
      BY DEF EventsFit
  <2> QED BY <1>1, <1>2
\* The event of an end that is announced.
<1>3. ASSUME NEW f \in Entities, NEW q \in Parts, Announce(f, q), <<f, q>> \in todo, Ended(f, q),
             UNCHANGED <<life, stage, task>>, todo' = todo \ {<<f, q>>},
             \A e \in Entities : cmds[e] \subseteq cmds'[e],
             q = "conn" => stage = "update" /\ "remove" \in cmds'[f],
             q \in Halves => stage = "post"
      PROVE EventsFit'
  <2>1. /\ events'[f][q] > 0 /\ (events[f][q] = 0 => events'[f][q] = 1)
        /\ \A e \in Entities : \A p \in Parts : e # f \/ p # q => events'[e][p] = events[e][p]
        BY <1>3, AnnounceIs
  <2>2. events[f][q] = 0
    <3>1. events[f][q] \in 0 .. 2
          BY DEF TypeOK
    <3>2. q = "conn" \/ q \in Halves
          BY DEF Parts
    <3>3. ~(events[f][q] > 0)
          BY <1>3, <3>2 DEF EventsFit
    <3> QED BY <3>1, <3>3
  <2>3. life[f] = "live"
        BY <1>3, VisitParts DEF VisitsFit
  <2> SUFFICES ASSUME NEW e \in Entities, NEW p \in Parts, events'[e][p] > 0
               PROVE /\ events'[e][p] = 1 /\ life'[e] = "live" /\ Ended(e, p)'
                     /\ p = "conn" => stage' = "update" /\ "remove" \in cmds'[e] /\ <<e, p>> \notin todo'
                     /\ p \in Halves => /\ stage' = "post" => <<e, p>> \notin todo'
                                        /\ stage' = "update" => <<e, p>> \in todo' \/ "despawn" \in cmds'[e]
      BY DEF EventsFit
  <2>4. CASE e = f /\ p = q
    <3>1. Ended(e, p)' /\ <<e, p>> \notin todo'
          BY <1>3, <2>4 DEF Ended
    <3> QED BY <1>3, <2>1, <2>2, <2>3, <2>4, <3>1 DEF Halves
  <2>5. CASE e # f \/ p # q
    <3>1. <<e, p>> # <<f, q>> /\ events'[e][p] = events[e][p]
          BY <2>1, <2>5
    <3> QED BY <1>1, <1>3, <3>1
  <2> QED BY <2>4, <2>5
<1>4. ASSUME NEW f \in Entities, NEW c, Command(f, c)
      PROVE (\A e \in Entities : cmds[e] \subseteq cmds'[e]) /\ c \in cmds'[f]
      BY <1>4 DEF Command, TypeOK
<1>5. ASSUME NEW f \in Entities, VisitAttempt(f) PROVE EventsFit'
  <2>1. /\ UNCHANGED <<life, stage, events>> /\ todo' = todo \ {<<f, "attempt">>}
        /\ cmds' = cmds \/ \E c : Command(f, c)
        BY <1>5 DEF VisitAttempt, Resolve
  <2>2. \A e \in Entities : cmds[e] \subseteq cmds'[e]
        BY <1>4, <2>1
  <2>3. \A e \in Entities : \A p \in Halves : <<e, p>> # <<f, "attempt">>
        BY VisitParts DEF Parts
  <2> QED BY <1>2, <2>1, <2>2, <2>3
<1>6. ASSUME NEW f \in Entities, NEW q \in Parts, VisitDisconnect(f, q) PROVE EventsFit'
  <2>1. /\ stage = "update" /\ <<f, q>> \in todo /\ todo' = todo \ {<<f, q>>}
        /\ UNCHANGED <<life, task, stage>>
        BY <1>6 DEF VisitDisconnect
  <2>2. CASE ~Ended(f, q)
    <3>1. UNCHANGED <<cmds, events>>
          BY <1>6, <2>2 DEF VisitDisconnect, EndSeen
    <3>2. ASSUME NEW e \in Entities, NEW p \in Halves, Ended(e, p)
          PROVE <<e, p>> \notin todo \/ <<e, p>> \in todo'
      <4>1. <<e, p>> # <<f, q>>
            BY <2>2, <3>2
      <4> QED BY <2>1, <4>1
    <3> QED BY <1>2, <2>1, <3>1, <3>2
  <2>3. CASE Ended(f, q) /\ q = "conn"
    <3>1. Command(f, "remove") /\ Announce(f, q)
          BY <1>6, <2>3 DEF VisitDisconnect, EndSeen
    <3>2. q \notin Halves
          BY <2>3 DEF Halves
    <3> QED BY <1>3, <1>4, <2>1, <2>3, <3>1, <3>2
  <2>4. CASE Ended(f, q) /\ q # "conn"
    <3>1. Command(f, "despawn") /\ UNCHANGED events
          BY <1>6, <2>4 DEF VisitDisconnect, EndSeen
    <3>2. (\A e \in Entities : cmds[e] \subseteq cmds'[e]) /\ "despawn" \in cmds'[f]
          BY <1>4, <3>1
    <3>3. ASSUME NEW e \in Entities, NEW p \in Halves, <<e, p>> \in todo
          PROVE <<e, p>> \in todo' \/ "despawn" \in cmds'[e]
      <4>1. CASE e = f
            BY <3>2, <4>1
      <4>2. CASE e # f
            BY <2>1, <3>3, <4>2
      <4> QED BY <4>1, <4>2
    <3> QED BY <1>2, <2>1, <3>1, <3>2, <3>3
  <2> QED BY <2>2, <2>3, <2>4
<1>7. ASSUME NEW f \in Entities, NEW q \in Parts, Fire(f, q) PROVE EventsFit'
  <2>1. /\ stage = "post" /\ <<f, q>> \in todo /\ todo' = todo \ {<<f, q>>}
        /\ UNCHANGED <<life, task, stage, cmds>>
        BY <1>7 DEF Fire
  <2>2. CASE Ended(f, q)
    <3>1. Announce(f, q)
          BY <1>7, <2>2 DEF Fire
    <3>2. q # "conn"
          BY <2>1, VisitParts DEF VisitsFit, Halves
    <3> QED BY <1>3, <2>1, <2>2, <3>1, <3>2
  <2>3. CASE ~Ended(f, q)
        BY <1>2, <1>7, <2>1, <2>3 DEF Fire
  <2> QED BY <2>2, <2>3
<1>8. ASSUME NEW discarded \in SUBSET Entities, EndStage(discarded) PROVE EventsFit'
  <2>1. todo = {} /\ todo' = Agenda(stage', life')
        BY <1>8, StageEnds
  <2> SUFFICES ASSUME NEW e \in Entities, NEW p \in Parts, events'[e][p] > 0
               PROVE /\ events'[e][p] = 1 /\ life'[e] = "live" /\ Ended(e, p)'
                     /\ p = "conn" => stage' = "update" /\ "remove" \in cmds'[e] /\ <<e, p>> \notin todo'
                     /\ p \in Halves => /\ stage' = "post" => <<e, p>> \notin todo'
                                        /\ stage' = "update" => <<e, p>> \in todo' \/ "despawn" \in cmds'[e]
      BY DEF EventsFit
  <2>2. events'[e] = events[e] /\ Left(life'[e])
    <3>1. events' = [f \in Entities |-> IF Left(life'[f]) THEN events[f] ELSE Nothing(0)]
          BY <1>8, StageEnds
    <3>2. events'[e] # Nothing(0)
          BY NoneAtFirst
    <3> QED BY <3>1, <3>2
  <2>3. /\ events[e][p] = 1 /\ life[e] = "live" /\ Ended(e, p)
        /\ p = "conn" => stage = "update" /\ "remove" \in cmds[e]
        /\ p \in Halves => (stage = "update" => "despawn" \in cmds[e])
        BY <2>1, <2>2 DEF EventsFit
  <2>4. life'[e] = "live"
    <3>1. life'[e] \in {"live", "closed", "gone"}
          BY <1>8, <2>3, LiveFate
    <3> QED BY <2>2, <3>1 DEF Left
  <2>5. p \in Halves /\ stage # "update"
    <3>1. ~("remove" \in cmds[e]) /\ ~("despawn" \in cmds[e])
          BY <1>8, <2>3, <2>4, LiveFate
    <3> QED BY <2>3, <3>1 DEF Parts
  <2>6. Ended(e, p)' /\ stage' # "post"
    <3>1. task'[e] = task[e]
          BY <1>8, <2>4, KeptLive
    <3> QED BY <1>8, <2>3, <2>5, <3>1, NextStage DEF Ended, TypeOK
  <2>7. stage' = "update" => <<e, p>> \in todo'
    <3>1. <<e, p>> \in Visits /\ p \in HandlerParts(e)
          BY <2>3 DEF Visits, HandlerParts, PartsOf, Ended
    <3>2. <<e, p>> \in {v \in Visits : \/ life'[v[1]] = "attempt" /\ v[2] = "attempt"
                                       \/ life'[v[1]] = "live" /\ v[2] \in HandlerParts(v[1])}
          BY <2>4, <3>1
    <3> QED BY <2>1, <3>2 DEF Agenda
  <2> QED BY <2>2, <2>3, <2>4, <2>5, <2>6, <2>7 DEF Halves
<1>9. ASSUME NEW e \in Entities,
             \/ StartRecv(e) \/ FinishRecv(e)
             \/ \E refused \in SUBSET Halves : AnswerHalves(e, refused)
             \/ \E what \in {"connection", "none", "failed"} : AnswerOther(e, what)
             \/ \E p \in Parts : TaskEnds(e, p)
             \/ TaskLost(e) \/ Arrive(e)
             \/ AppRead(e) \/ AppTakesResult(e) \/ AppDisconnects(e)
      PROVE EventsFit'
  <2>1. UNCHANGED <<life, stage, events, cmds>> /\ (todo' = todo \/ StartRecv(e))
        BY <1>9 DEF StartRecv, FinishRecv, AnswerHalves, AnswerOther, TaskEnds, TaskLost, Arrive,
                    AppRead, AppTakesResult, AppDisconnects
  <2>2. todo' = todo \/ (todo' \subseteq todo /\ stage = "recv")
        BY <2>1 DEF StartRecv
  <2> QED BY <1>2, <2>1, <2>2
<1>10. ASSUME NEW e \in Entities, SpawnAttempt(e) \/ AcceptConnection(e) PROVE EventsFit'
  <2>1. UNCHANGED <<life, stage, events, todo>> /\ \E c : Command(e, c)
        BY <1>10 DEF SpawnAttempt, AcceptConnection
  <2>2. \A f \in Entities : cmds[f] \subseteq cmds'[f]
        BY <1>4, <2>1
  <2> QED BY <1>2, <2>1, <2>2
<1>11. CASE FrameStep
       BY <1>5, <1>6, <1>7, <1>8, <1>9, <1>11 DEF FrameStep
<1>12. CASE UNCHANGED vars
       BY <1>2, <1>12
<1> QED BY <1>9, <1>10, <1>11, <1>12 DEF Next

-----------------------------------------------------------------------------
\* What a call of recv_many leaves in the channel: nothing, as it takes more than
\* the channel holds.
LEMMA FinishDrains ==
  ASSUME TypeOK, NEW e \in Entities, FinishRecv(e)
  PROVE /\ channel'[e] = <<>> /\ blocked = e /\ blocked' = NoEntity
        /\ \A f \in Entities : f # e => channel'[f] = channel[f]
        /\ UNCHANGED <<lifeVars, stage, todo, cmds, eventVars>>
<1> DEFINE size == Least(MaxTransfer, Len(channel[e]))
<1>1. /\ channel' = [channel EXCEPT ![e] = After(channel[e], size)]
      /\ blocked = e /\ blocked' = NoEntity
      /\ UNCHANGED <<lifeVars, stage, todo, cmds, eventVars>>
      BY DEF FinishRecv
<1>2. channel[e] \in Seq(Packet) /\ Len(channel[e]) \in Nat /\ Len(channel[e]) <= InCap
      BY DEF TypeOK, Packet
<1>3. size = Len(channel[e])
  <2>1. \A m, n \in Nat : n <= m => Least(m, n) = n
        BY DEF Least
  <2> QED BY <1>2, <2>1, FrameBounds
<1> HIDE DEF size
<1>4. After(channel[e], size) \in Seq(Packet) /\ Len(After(channel[e], size)) = 0
  <2>1. size \in Nat /\ ~(size < Len(channel[e]))
        BY <1>2, <1>3
  <2> QED BY <1>2, <2>1, AfterIs
<1>5. After(channel[e], size) = <<>>
      BY <1>4, EmptySeq
<1>6. channel'[e] = <<>> /\ \A f \in Entities : f # e => channel'[f] = channel[f]
      BY <1>1, <1>5 DEF TypeOK
<1> QED BY <1>1, <1>6

\* Where an end stands, no packet comes any more.
LEMMA FramesStandingStep ==
  TypeOK /\ CommandsFit /\ VisitsFit /\ StandingFit /\ [Next]_vars => StandingFit'
<1> SUFFICES ASSUME TypeOK, CommandsFit, VisitsFit, StandingFit, [Next]_vars
             PROVE StandingFit'
    OBVIOUS
<1> USE DEF vars, lifeVars, packetVars, frameVars, eventVars
<1>0. ASSUME NEW v \in standing
      PROVE /\ v[1] \in Entities /\ v[2] \in Halves /\ v[2] \in Parts /\ v = <<v[1], v[2]>>
            /\ v[1] # NoEntity /\ life[v[1]] = "live" /\ Ended(v[1], v[2])
      BY FrameBounds DEF TypeOK, StandingFit, Parts
\* An end that stood before.
<1>1. ASSUME UNCHANGED <<life, stage, standing>>,
             blocked' # NoEntity => stage = "recv",
             \A v \in standing :
               /\ stage = "recv" /\ (v \in todo \/ blocked = v[1] \/ channel[v[1]] = <<>>)
                    => v \in todo' \/ blocked' = v[1] \/ channel'[v[1]] = <<>>
               /\ stage = "update" => channel'[v[1]] = channel[v[1]]
               /\ stage = "post" /\ (v \in todo \/ events[v[1]][v[2]] > 0)
                    => v \in todo' \/ events'[v[1]][v[2]] > 0
      PROVE StandingFit'
  <2>1. \A v \in standing : Ended(v[1], v[2])'
        BY <1>0, <1>1, EndedStays
  <2> QED BY <1>0, <1>1, <2>1 DEF StandingFit
<1>2. CASE UNCHANGED <<life, stage, standing, blocked, channel, events>>
           /\ (stage = "update" \/ todo' = todo)
      BY <1>1, <1>2 DEF StandingFit
<1>3. ASSUME NEW e \in Entities, StartRecv(e) PROVE StandingFit'
  <2>1. /\ stage = "recv" /\ blocked = NoEntity /\ blocked' = e /\ todo' = todo \ {<<e, "rec">>}
        /\ UNCHANGED <<life, stage, standing, channel, events>>
        BY <1>3 DEF StartRecv
  <2>2. ASSUME NEW v \in standing, v \in todo PROVE v \in todo' \/ blocked' = v[1]
    <3>1. v = <<v[1], v[2]>>
          BY <1>0
    <3>2. v[1] = e => blocked' = v[1]
          BY <2>1
    <3>3. v[1] # e => v # <<e, "rec">>
          OBVIOUS
    <3> QED BY <2>1, <2>2, <3>2, <3>3
  <2>3. ASSUME NEW v \in standing PROVE blocked # v[1]
        BY <1>0, <2>1
  <2> QED BY <1>1, <2>1, <2>2, <2>3
<1>4. ASSUME NEW e \in Entities, FinishRecv(e) PROVE StandingFit'
  <2>1. /\ channel'[e] = <<>> /\ blocked = e /\ blocked' = NoEntity
        /\ \A f \in Entities : f # e => channel'[f] = channel[f]
        /\ UNCHANGED <<life, stage, todo, standing, events>>
        BY <1>4, FinishDrains
  <2>2. stage = "recv"
        BY <2>1, FrameBounds DEF StandingFit
  <2>3. ASSUME NEW v \in standing, v \in todo \/ blocked = v[1] \/ channel[v[1]] = <<>>
        PROVE v \in todo' \/ channel'[v[1]] = <<>>
    <3>1. CASE v[1] = e
          BY <2>1, <3>1
    <3>2. CASE v[1] # e
          BY <1>0, <2>1, <2>3, <3>2
    <3> QED BY <3>1, <3>2
  <2> QED BY <1>1, <2>1, <2>2, <2>3
<1>5. ASSUME NEW e \in Entities, Arrive(e) PROVE StandingFit'
  <2>1. /\ task[e]["rec"] = "run" /\ channel' = [channel EXCEPT ![e] = Append(@, <<e, arrived[e]>>)]
        /\ UNCHANGED <<life, stage, standing, blocked, todo, events>>
        BY <1>5 DEF Arrive
  <2>2. ASSUME NEW v \in standing, stage # "post" PROVE channel'[v[1]] = channel[v[1]]
    <3>1. v[2] = "rec" /\ Ended(v[1], v[2])
          BY <2>2 DEF StandingFit
    <3>2. v[1] # e
          BY <2>1, <3>1 DEF Ended
    <3> QED BY <1>0, <2>1, <3>2 DEF TypeOK
  <2>3. stage = "recv" \/ stage = "update" => stage # "post"
        OBVIOUS
  <2> QED BY <1>1, <2>1, <2>2, <2>3 DEF StandingFit
<1>6. ASSUME NEW e \in Entities, VisitAttempt(e) \/ SpawnAttempt(e) \/ AcceptConnection(e)
      PROVE StandingFit'
      BY <1>2, <1>6 DEF VisitAttempt, SpawnAttempt, AcceptConnection, AppTurn
<1>7. ASSUME NEW e \in Entities, NEW p \in Parts, VisitDisconnect(e, p) PROVE StandingFit'
  <2>1. stage = "update" /\ UNCHANGED <<life, stage, standing, blocked, channel>>
        BY <1>7 DEF VisitDisconnect
  <2> QED BY <1>1, <2>1 DEF StandingFit
<1>8. ASSUME NEW e \in Entities, NEW p \in Parts, Fire(e, p) PROVE StandingFit'
  <2>1. /\ stage = "post" /\ todo' = todo \ {<<e, p>>}
        /\ IF Ended(e, p) THEN Announce(e, p) ELSE UNCHANGED events
        /\ UNCHANGED <<life, stage, standing, blocked, channel>>
        BY <1>8 DEF Fire
  <2>2. ASSUME NEW v \in standing, v \in todo \/ events[v[1]][v[2]] > 0
        PROVE v \in todo' \/ events'[v[1]][v[2]] > 0
    <3>1. CASE v = <<e, p>>
      <4>1. Ended(e, p) /\ v[1] = e /\ v[2] = p
            BY <1>0, <3>1
      <4> QED BY <2>1, <4>1, AnnounceIs
    <3>2. CASE v # <<e, p>>
      <4>1. v[1] # e \/ v[2] # p
            BY <1>0, <3>2
      <4>2. events'[v[1]][v[2]] = events[v[1]][v[2]]
            BY <1>0, <2>1, <4>1, AnnounceIs
      <4> QED BY <2>1, <2>2, <3>2, <4>2
    <3> QED BY <3>1, <3>2
  <2>3. blocked' # NoEntity => stage = "recv"
        BY <2>1 DEF StandingFit
  <2> QED BY <1>1, <2>1, <2>2, <2>3
<1>9. ASSUME NEW discarded \in SUBSET Entities, EndStage(discarded) PROVE StandingFit'
  <2>1. /\ todo = {} /\ blocked = NoEntity /\ blocked' = NoEntity
        /\ todo' = Agenda(stage', life')
        BY <1>9, StageEnds
  <2>2. CASE stage = "recv"
    <3>1. stage' = "update" /\ standing' = {v \in standing : life'[v[1]] = "live"}
          BY <1>9, <2>2, StageEnds, NextStage
    <3> SUFFICES ASSUME NEW v \in standing'
                 PROVE life'[v[1]] = "live" /\ Ended(v[1], v[2])' /\ v[2] = "rec" /\ channel'[v[1]] = <<>>
        BY <2>1, <3>1 DEF StandingFit
    <3>2. v \in standing /\ life'[v[1]] = "live"
          BY <3>1
    <3>3. channel[v[1]] = <<>> /\ v[2] = "rec" /\ Ended(v[1], v[2]) /\ v[1] \in Entities
          BY <1>0, <2>1, <2>2, <3>2 DEF StandingFit
    <3>4. task'[v[1]] = task[v[1]] /\ channel'[v[1]] = channel[v[1]]
          BY <1>9, <3>2, <3>3, KeptLive
    <3> QED BY <3>2, <3>3, <3>4 DEF Ended
  <2>3. CASE stage = "update"
    <3>1. /\ stage' = "post"
          /\ standing' = {v \in Entities \X Halves : life'[v[1]] = "live" /\ Ended(v[1], v[2])}
          BY <1>9, <2>3, StageEnds, NextStage
    <3> SUFFICES ASSUME NEW v \in standing'
                 PROVE life'[v[1]] = "live" /\ Ended(v[1], v[2])' /\ v \in todo'
        BY <2>1, <3>1 DEF StandingFit
    <3>2. v \in Entities \X Halves /\ life'[v[1]] = "live" /\ Ended(v[1], v[2])
          BY <3>1
    <3>3. task'[v[1]] = task[v[1]]
          BY <1>9, <3>2, KeptLive
    <3>4. v \in Visits /\ v[2] \in PartsOf(v[1]) \cap FiringHalves
          BY <3>2 DEF Visits, Parts, PartsOf, FiringHalves, Ended
    <3>5. v \in Agenda("post", life')
          BY <3>2, <3>4 DEF Agenda
    <3> QED BY <2>1, <3>1, <3>2, <3>3, <3>5 DEF Ended
  <2>4. CASE stage = "post"
    <3>1. /\ stage' = "recv"
          /\ standing' = {v \in Entities \X {"rec"} : life'[v[1]] = "live" /\ Ended(v[1], v[2])}
          BY <1>9, <2>4, StageEnds, NextStage
    <3> SUFFICES ASSUME NEW v \in standing'
                 PROVE life'[v[1]] = "live" /\ Ended(v[1], v[2])' /\ v[2] = "rec" /\ v \in todo'
        BY <2>1, <3>1 DEF StandingFit
    <3>2. /\ v \in Entities \X {"rec"} /\ v[1] \in Entities /\ v[2] = "rec" /\ v = <<v[1], "rec">>
          /\ life'[v[1]] = "live" /\ Ended(v[1], v[2])
          BY <3>1
    <3>3. task'[v[1]] = task[v[1]]
          BY <1>9, <3>2, KeptLive
    <3>4. Receivable(life', v[1])
          BY <3>2 DEF Receivable, Ended
    <3>5. v \in Agenda("recv", life')
          BY <3>2, <3>4 DEF Agenda
    <3> QED BY <2>1, <3>1, <3>2, <3>3, <3>5 DEF Ended
  <2> QED BY <2>2, <2>3, <2>4 DEF TypeOK
<1>10. ASSUME NEW e \in Entities,
              \/ \E refused \in SUBSET Halves : AnswerHalves(e, refused)
              \/ \E what \in {"connection", "none", "failed"} : AnswerOther(e, what)
              \/ \E p \in Parts : TaskEnds(e, p)
              \/ TaskLost(e)
              \/ AppRead(e) \/ AppTakesResult(e) \/ AppDisconnects(e)
       PROVE StandingFit'
       BY <1>2, <1>10 DEF AnswerHalves, AnswerOther, TaskEnds, TaskLost, AppRead,
                          AppTakesResult, AppDisconnects
<1>11. CASE FrameStep
       BY <1>3, <1>4, <1>6, <1>7, <1>8, <1>9, <1>11 DEF FrameStep
<1>12. CASE UNCHANGED vars
       BY <1>2, <1>12
<1> QED BY <1>5, <1>6, <1>10, <1>11, <1>12 DEF Next

-----------------------------------------------------------------------------
(* Packets and their numbers.                                               *)

\* The numbers of a stream go round; no sum of two of them goes round twice.
LEMMA Wrap ==
  ASSUME NEW n \in Nat, n <= 2 * MaxPackets + 1
  PROVE Number(n) = IF n <= MaxPackets THEN n ELSE n - (MaxPackets + 1)
<1>1. CASE n <= MaxPackets
      BY <1>1, FrameBounds, NumberIs
<1>2. CASE n > MaxPackets
  <2>1. n - (MaxPackets + 1) \in 0 .. MaxPackets
        BY <1>2, FrameBounds
  <2>2. Number((n - (MaxPackets + 1)) + MaxPackets + 1) = n - (MaxPackets + 1)
        BY <2>1, NumberIs
  <2>3. (n - (MaxPackets + 1)) + MaxPackets + 1 = n
        BY FrameBounds
  <2> QED BY <1>2, <2>2, <2>3, FrameBounds
<1> QED BY <1>1, <1>2, FrameBounds

\* How many there are from one number to another.
LEMMA HowMany ==
  ASSUME NEW r \in 0 .. MaxPackets, NEW a \in 0 .. MaxPackets
  PROVE Number(a + MaxPackets + 1 - r) = IF r <= a THEN a - r ELSE a + MaxPackets + 1 - r
<1>1. a + MaxPackets + 1 - r \in Nat /\ a + MaxPackets + 1 - r <= 2 * MaxPackets + 1
      BY FrameBounds
<1>2. Number(a + MaxPackets + 1 - r)
        = IF a + MaxPackets + 1 - r <= MaxPackets THEN a + MaxPackets + 1 - r
          ELSE (a + MaxPackets + 1 - r) - (MaxPackets + 1)
      BY <1>1, Wrap
<1> QED BY <1>2, FrameBounds

\* The packets from one number up to another, element by element.
LEMMA PacketsIs ==
  ASSUME NEW e \in Entities, NEW r \in 0 .. MaxPackets, NEW a \in 0 .. MaxPackets
  PROVE /\ Packets(e, r, a) \in Seq(Packet)
        /\ Len(Packets(e, r, a)) = IF r <= a THEN a - r ELSE a + MaxPackets + 1 - r
        /\ \A i \in 1 .. Len(Packets(e, r, a)) :
             Packets(e, r, a)[i] = <<e, IF r + i - 1 <= MaxPackets THEN r + i - 1
                                        ELSE r + i - 1 - (MaxPackets + 1)>>
<1> DEFINE n == IF r <= a THEN a - r ELSE a + MaxPackets + 1 - r
<1>1. Packets(e, r, a) = [i \in 1 .. n |-> <<e, Number(r + i - 1)>>]
      BY HowMany DEF Packets
<1>2. n \in Nat /\ n <= MaxPackets
      BY FrameBounds
<1> HIDE DEF n
<1>3. ASSUME NEW i \in 1 .. n
      PROVE /\ Number(r + i - 1) = IF r + i - 1 <= MaxPackets THEN r + i - 1
                                   ELSE r + i - 1 - (MaxPackets + 1)
            /\ Number(r + i - 1) \in Nat
  <2>1. r + i - 1 \in Nat /\ r + i - 1 <= 2 * MaxPackets + 1
        BY <1>2, FrameBounds
  <2> QED BY <2>1, Wrap, NumberTyped, FrameBounds
<1>4. Packets(e, r, a) \in Seq(Packet) /\ Len(Packets(e, r, a)) = n
  <2>1. \A i \in 1 .. n : <<e, Number(r + i - 1)>> \in Packet
        BY <1>3 DEF Packet
  <2>2. Packets(e, r, a) \in [1 .. n -> Packet]
        BY <1>1, <2>1
  <2> QED BY <1>2, <2>2, MadeSeq
<1> QED BY <1>1, <1>3, <1>4 DEF n

\* None are unread when the next to read is the next to arrive.
LEMMA PacketsNone ==
  ASSUME NEW e \in Entities, NEW r \in 0 .. MaxPackets PROVE Packets(e, r, r) = <<>>
<1>1. Packets(e, r, r) \in Seq(Packet) /\ Len(Packets(e, r, r)) = 0
      BY PacketsIs
<1> QED BY <1>1, EmptySeq

\* One more packet arrives,
LEMMA PacketsGrow ==
  ASSUME NEW e \in Entities, NEW r \in 0 .. MaxPackets, NEW a \in 0 .. MaxPackets,
         Len(Packets(e, r, a)) < MaxPackets
  PROVE Packets(e, r, Number(a + 1)) = Append(Packets(e, r, a), <<e, a>>)
<1> DEFINE b == Number(a + 1)
           p == Packets(e, r, a)
           q == Packets(e, r, b)
           n == Len(p)
<1>1. b = (IF a + 1 <= MaxPackets THEN a + 1 ELSE 0) /\ b \in 0 .. MaxPackets
  <2>1. a + 1 \in Nat /\ a + 1 <= 2 * MaxPackets + 1
        BY FrameBounds
  <2> QED BY <2>1, Wrap, FrameBounds
<1>2. /\ p \in Seq(Packet) /\ n = IF r <= a THEN a - r ELSE a + MaxPackets + 1 - r
      /\ \A i \in 1 .. n : p[i] = <<e, IF r + i - 1 <= MaxPackets THEN r + i - 1
                                       ELSE r + i - 1 - (MaxPackets + 1)>>
      BY PacketsIs
<1>3. /\ q \in Seq(Packet) /\ Len(q) = IF r <= b THEN b - r ELSE b + MaxPackets + 1 - r
      /\ \A i \in 1 .. Len(q) : q[i] = <<e, IF r + i - 1 <= MaxPackets THEN r + i - 1
                                            ELSE r + i - 1 - (MaxPackets + 1)>>
      BY <1>1, PacketsIs
<1> HIDE DEF b, p, q
<1>4. Len(q) = n + 1 /\ n \in Nat
      BY <1>1, <1>2, <1>3, FrameBounds DEF p
<1>5. <<e, a>> \in Packet
      BY FrameBounds DEF Packet
<1>6. /\ Append(p, <<e, a>>) \in Seq(Packet) /\ Len(Append(p, <<e, a>>)) = n + 1
      /\ \A i \in 1 .. n : Append(p, <<e, a>>)[i] = p[i]
      /\ Append(p, <<e, a>>)[n + 1] = <<e, a>>
  <2> DEFINE x == <<e, a>>
  <2>1. x \in Packet /\ p \in Seq(Packet)
        BY <1>2, <1>5
  <2> HIDE DEF x
  <2>2. /\ Append(p, x) \in Seq(Packet) /\ Len(Append(p, x)) = n + 1
        /\ \A i \in 1 .. n : Append(p, x)[i] = p[i]
        /\ Append(p, x)[n + 1] = x
        BY <2>1, AppendProperties
  <2> QED BY <2>2 DEF x
<1>7. q[n + 1] = <<e, a>>
  <2>1. (IF r + (n + 1) - 1 <= MaxPackets THEN r + (n + 1) - 1
         ELSE r + (n + 1) - 1 - (MaxPackets + 1)) = a
        BY <1>2, FrameBounds
  <2>2. n + 1 \in 1 .. Len(q)
        BY <1>4
  <2> QED BY <1>3, <2>1, <2>2
<1>8. ASSUME NEW i \in 1 .. n + 1 PROVE q[i] = Append(p, <<e, a>>)[i]
  <2>1. CASE i = n + 1
        BY <1>6, <1>7, <2>1
  <2>2. CASE i # n + 1
    <3>1. i \in 1 .. n /\ i \in 1 .. Len(q)
          BY <1>4, <2>2
    <3> QED BY <1>2, <1>3, <1>6, <3>1
  <2> QED BY <2>1, <2>2
<1> QED BY <1>3, <1>4, <1>6, <1>8, SameSeq DEF b, p, q

\* the first ones are read.
LEMMA PacketsRead ==
  ASSUME NEW e \in Entities, NEW r \in 0 .. MaxPackets, NEW a \in 0 .. MaxPackets,
         NEW s \in Seq(Packet), NEW c \in Seq(Packet), s \o c = Packets(e, r, a)
  PROVE c = Packets(e, Number(r + Len(s)), a)
<1> DEFINE b == Number(r + Len(s))
           p == Packets(e, r, a)
           q == Packets(e, b, a)
           m == Len(s)
<1>1. /\ m \in Nat /\ Len(c) \in Nat /\ Len(p) = m + Len(c)
      /\ \A i \in 1 .. Len(c) : p[m + i] = c[i]
  <2>1. /\ Len(s \o c) = Len(s) + Len(c)
        /\ \A i \in 1 .. Len(s) + Len(c) :
             (s \o c)[i] = IF i <= Len(s) THEN s[i] ELSE c[i - Len(s)]
        BY ConcatProperties
  <2>2. Len(s) \in Nat /\ Len(c) \in Nat
        OBVIOUS
  <2>3. ASSUME NEW i \in 1 .. Len(c) PROVE p[m + i] = c[i]
    <3>1. m + i \in 1 .. Len(s) + Len(c) /\ ~(m + i <= Len(s)) /\ (m + i) - Len(s) = i
          BY <2>2
    <3> QED BY <2>1, <3>1
  <2> QED BY <2>1, <2>2, <2>3
<1>2. /\ Len(p) = IF r <= a THEN a - r ELSE a + MaxPackets + 1 - r
      /\ \A i \in 1 .. Len(p) : p[i] = <<e, IF r + i - 1 <= MaxPackets THEN r + i - 1
                                            ELSE r + i - 1 - (MaxPackets + 1)>>
      BY PacketsIs
<1> HIDE DEF m, p
<1>3. m <= MaxPackets
      BY <1>1, <1>2, FrameBounds
<1>4. b = (IF r + m <= MaxPackets THEN r + m ELSE r + m - (MaxPackets + 1)) /\ b \in 0 .. MaxPackets
  <2>1. r + m \in Nat /\ r + m <= 2 * MaxPackets + 1
        BY <1>1, <1>3, FrameBounds
  <2> QED BY <2>1, Wrap, FrameBounds DEF m
<1> HIDE DEF b
<1>5. /\ q \in Seq(Packet) /\ Len(q) = IF b <= a THEN a - b ELSE a + MaxPackets + 1 - b
      /\ \A i \in 1 .. Len(q) : q[i] = <<e, IF b + i - 1 <= MaxPackets THEN b + i - 1
                                            ELSE b + i - 1 - (MaxPackets + 1)>>
      BY <1>4, PacketsIs
<1> HIDE DEF q
<1>6. Len(q) = Len(c)
  <2>0. Len(c) = Len(p) - m
        BY <1>1
  <2>1. Len(c) = (IF r <= a THEN a - r ELSE a + MaxPackets + 1 - r) - m
        BY <1>2, <2>0
  <2>2. CASE r + m <= MaxPackets
    <3>1. b = r + m
          BY <1>4, <2>2
    <3> QED BY <1>1, <1>5, <2>1, <2>2, <3>1, FrameBounds
  <2>3. CASE ~(r + m <= MaxPackets)
    <3>1. b = r + m - (MaxPackets + 1)
          BY <1>4, <2>3
    <3> QED BY <1>1, <1>3, <1>5, <2>1, <2>3, <3>1, FrameBounds
  <2> QED BY <2>2, <2>3
<1>7. ASSUME NEW i \in 1 .. Len(c) PROVE q[i] = c[i]
  <2>1. m + i \in 1 .. Len(p) /\ i \in 1 .. Len(q)
        BY <1>1, <1>6
  <2>2. (IF r + (m + i) - 1 <= MaxPackets THEN r + (m + i) - 1
         ELSE r + (m + i) - 1 - (MaxPackets + 1))
        = (IF b + i - 1 <= MaxPackets THEN b + i - 1 ELSE b + i - 1 - (MaxPackets + 1))
        BY <1>1, <1>2, <1>4, <2>1, FrameBounds
  <2>3. /\ p[m + i] = <<e, IF r + (m + i) - 1 <= MaxPackets THEN r + (m + i) - 1
                           ELSE r + (m + i) - 1 - (MaxPackets + 1)>>
        /\ q[i] = <<e, IF b + i - 1 <= MaxPackets THEN b + i - 1 ELSE b + i - 1 - (MaxPackets + 1)>>
        BY <1>2, <1>5, <2>1
  <2> QED BY <1>1, <2>2, <2>3
<1> QED BY <1>5, <1>6, <1>7, SameSeq DEF q, b

-----------------------------------------------------------------------------
(* The bound on what arrives.                                               *)

\* Of the packets that no application has read, each entity has its share.
LEMMA UnreadBound ==
  ASSUME TypeOK, NEW e \in Entities
  PROVE Unread \in Nat /\ UnreadOf(e) \in Nat /\ UnreadOf(e) <= Unread
<1> DEFINE Share(f) == {f} \X (1 .. UnreadOf(f))
           shares == {Share(f) : f \in Entities}
           share == [f \in Entities |-> Share(f)]
<1>1. ASSUME NEW f \in Entities PROVE UnreadOf(f) \in Nat
  <2>1. session[f] \in Seq(Packet) /\ channel[f] \in Seq(Packet)
        BY DEF TypeOK, Packet
  <2> DEFINE s == Len(session[f])
             c == Len(channel[f])
  <2>2. s \in Nat /\ c \in Nat
        BY <2>1
  <2>3. UnreadOf(f) = s + c
        BY DEF UnreadOf
  <2> HIDE DEF s, c
  <2> QED BY <2>2, <2>3
<1>2. ASSUME NEW f \in Entities
      PROVE IsFiniteSet(Share(f)) /\ Cardinality(Share(f)) = UnreadOf(f)
  <2> DEFINE n == UnreadOf(f)
  <2>1. n \in Nat
        BY <1>1
  <2> HIDE DEF n
  <2>2. IsFiniteSet(1 .. n) /\ Cardinality(1 .. n) = n
        BY <2>1, FS_Interval
  <2>3. IsFiniteSet({f}) /\ Cardinality({f}) = 1
        BY FS_Singleton
  <2>4. /\ IsFiniteSet({f} \X (1 .. n))
        /\ Cardinality({f} \X (1 .. n)) = Cardinality({f}) * Cardinality(1 .. n)
        BY <2>2, <2>3, FS_Product
  <2>5. Cardinality({f} \X (1 .. n)) = n
        BY <2>1, <2>2, <2>3, <2>4
  <2> QED BY <2>4, <2>5 DEF n
<1> HIDE DEF Share
<1>3. share \in Surjection(Entities, shares)
      BY DEF Surjection
<1>4. IsFiniteSet(Entities)
      BY FrameAssumption DEF FrameAssumption
<1>5. IsFiniteSet(shares)
      BY <1>3, <1>4, FS_Surjection
<1>6. \A T \in shares : IsFiniteSet(T)
      BY <1>2
<1>7. IsFiniteSet(UNION shares)
      BY <1>5, <1>6, FS_UNION
<1>8. Share(e) \subseteq UNION shares
      OBVIOUS
<1>9. Cardinality(UNION shares) \in Nat
      BY <1>7, FS_CardinalityType
<1>10. Cardinality(Share(e)) <= Cardinality(UNION shares)
       BY <1>7, <1>8, FS_Subset
<1>11. Unread = Cardinality(UNION shares)
       BY DEF Unread, Share
<1> QED BY <1>1, <1>2, <1>9, <1>10, <1>11

\* The packets of an entity, as its session and its channel change.
LEMMA FramesPacketsStep == TypeOK /\ PacketsFit /\ [Next]_vars => PacketsFit'
<1> SUFFICES ASSUME TypeOK, PacketsFit, [Next]_vars PROVE PacketsFit'
    OBVIOUS
<1> USE DEF vars, lifeVars, packetVars, frameVars, eventVars
<1>0. ASSUME NEW e \in Entities
      PROVE /\ session[e] \in Seq(Packet) /\ channel[e] \in Seq(Packet)
            /\ read[e] \in 0 .. MaxPackets /\ arrived[e] \in 0 .. MaxPackets
            /\ session[e] \o channel[e] = Packets(e, read[e], arrived[e])
      BY DEF TypeOK, PacketsFit, Packet
<1>1. ASSUME UNCHANGED packetVars PROVE PacketsFit'
      BY <1>1 DEF PacketsFit, Packets
<1>2. ASSUME NEW e \in Entities, buffer' = <<>>,
             \A f \in Entities : f # e =>
               session'[f] = session[f] /\ channel'[f] = channel[f]
               /\ read'[f] = read[f] /\ arrived'[f] = arrived[f],
             session'[e] \o channel'[e] = Packets(e, read'[e], arrived'[e])
      PROVE PacketsFit'
      BY <1>2, <1>0 DEF PacketsFit, Packets
<1>3. ASSUME NEW e \in Entities, Arrive(e) PROVE PacketsFit'
  <2> DEFINE x == <<e, arrived[e]>>
             s == session[e]
             c == channel[e]
  <2>1. /\ UnreadOf(e) < MaxPackets
        /\ arrived' = [arrived EXCEPT ![e] = Number(arrived[e] + 1)]
        /\ channel' = [channel EXCEPT ![e] = Append(c, x)]
        /\ UNCHANGED <<session, read, buffer>>
    <3>1. Unread < MaxPackets
          BY <1>3 DEF Arrive
    <3>2. UnreadOf(e) < MaxPackets
          BY <3>1, UnreadBound, FrameBounds
    <3>3. /\ arrived' = [arrived EXCEPT ![e] = Number(@ + 1)]
          /\ channel' = [channel EXCEPT ![e] = Append(@, x)]
          /\ UNCHANGED <<session, read, buffer>>
          BY <1>3 DEF Arrive
    <3> QED BY <3>2, <3>3
  <2>2. s \in Seq(Packet) /\ c \in Seq(Packet) /\ x \in Packet
    <3>0. arrived[e] \in 0 .. MaxPackets
          BY <1>0
    <3>1. arrived[e] \in Nat
          BY <3>0, FrameBounds
    <3>2. x \in Packet
          BY <3>1 DEF Packet
    <3> QED BY <1>0, <3>2
  <2>3. Len(s \o c) = UnreadOf(e)
        BY <2>2, ConcatProperties DEF UnreadOf
  <2>4. Packets(e, read[e], Number(arrived[e] + 1)) = Append(Packets(e, read[e], arrived[e]), x)
    <3>1. Len(Packets(e, read[e], arrived[e])) < MaxPackets
          BY <1>0, <2>1, <2>3
    <3>2. read[e] \in 0 .. MaxPackets /\ arrived[e] \in 0 .. MaxPackets
          BY <1>0
    <3> QED BY <3>1, <3>2, PacketsGrow
  <2>5. /\ arrived'[e] = Number(arrived[e] + 1) /\ channel'[e] = Append(c, x)
        /\ session'[e] = s /\ read'[e] = read[e]
        BY <2>1 DEF TypeOK
  <2>6. \A f \in Entities : f # e =>
               session'[f] = session[f] /\ channel'[f] = channel[f]
               /\ read'[f] = read[f] /\ arrived'[f] = arrived[f]
        BY <2>1 DEF TypeOK
  <2>7. buffer' = <<>>
        BY <2>1 DEF PacketsFit
  <2> HIDE DEF x
  <2>8. s \o Append(c, x) = Append(s \o c, x)
    <3> HIDE DEF s, c
    <3> QED BY <2>2, AppendToJoin
  <2>9. session'[e] \o channel'[e] = Packets(e, read'[e], arrived'[e])
        BY <1>0, <2>4, <2>5, <2>8
  <2> QED BY <1>2, <2>6, <2>7, <2>9
<1>4. ASSUME NEW e \in Entities, FinishRecv(e) PROVE PacketsFit'
  <2> DEFINE size == Least(MaxTransfer, Len(channel[e]))
             filled == buffer \o First(channel[e], size)
             s == session[e]
             c == channel[e]
  <2>1. /\ Store(e, filled, size) /\ channel' = [channel EXCEPT ![e] = After(c, size)]
        /\ UNCHANGED <<arrived, read>>
        BY <1>4 DEF FinishRecv
  <2>2. /\ s \in Seq(Packet) /\ c \in Seq(Packet)
        /\ Len(c) \in Nat /\ Len(c) <= MaxTransfer
    <3>1. c \in Seq(Packet) /\ s \in Seq(Packet)
          BY <1>0
    <3>2. Len(c) \in Nat
          BY <3>1
    <3>3. Len(c) <= InCap
          BY DEF TypeOK
    <3>4. Len(c) <= MaxTransfer
          BY <3>2, <3>3, FrameBounds
    <3> QED BY <3>1, <3>2, <3>4
  <2>3. size = Len(c)
        BY <2>2, FrameBounds DEF Least
  <2>4. First(c, size) = c /\ After(c, size) = <<>>
        BY <2>2, <2>3, WholeIs
  <2>5. filled = c
        BY <2>2, <2>4, EmptyJoin DEF PacketsFit
  <2> HIDE DEF size, filled
  <2>6. First(filled, size) = c /\ After(filled, size) = <<>>
        BY <2>4, <2>5
  <2>7. channel'[e] = <<>> /\ buffer' = <<>> /\ session'[e] = s \o c
    <3>1. CASE s = <<>>
          BY <1>0, <2>1, <2>2, <2>4, <2>6, <3>1, EmptyJoin DEF Store, TypeOK
    <3>2. CASE s # <<>>
      <4>1. session' = [session EXCEPT ![e] = s \o c] /\ buffer' = <<>>
            BY <2>1, <2>6, <3>2 DEF Store
      <4> QED BY <2>1, <2>4, <4>1 DEF TypeOK
    <3> QED BY <3>1, <3>2
  <2>8. \A f \in Entities : f # e =>
               session'[f] = session[f] /\ channel'[f] = channel[f]
               /\ read'[f] = read[f] /\ arrived'[f] = arrived[f]
        BY <2>1 DEF Store, TypeOK
  <2>9. session'[e] \o channel'[e] = Packets(e, read'[e], arrived'[e])
    <3>1. s \o c \in Seq(Packet)
          BY <2>2
    <3>2. (s \o c) \o <<>> = s \o c
          BY <3>1, EmptyJoin
    <3> QED BY <1>0, <2>1, <2>7, <3>2
  <2> QED BY <1>2, <2>7, <2>8, <2>9
<1>5. ASSUME NEW e \in Entities, AppRead(e) PROVE PacketsFit'
  <2> DEFINE s == session[e]
             c == channel[e]
             b == Number(read[e] + Len(s))
  <2>1. /\ session' = [session EXCEPT ![e] = <<>>] /\ UNCHANGED <<channel, buffer>>
        /\ IF b = arrived[e]
           THEN /\ read' = [read EXCEPT ![e] = 0]
                /\ arrived' = [arrived EXCEPT ![e] = 0]
           ELSE /\ read' = [read EXCEPT ![e] = b]
                /\ UNCHANGED arrived
        BY <1>5 DEF AppRead
  <2>2. s \in Seq(Packet) /\ c \in Seq(Packet) /\ Len(s) \in Nat
    <3>1. s \in Seq(Packet) /\ c \in Seq(Packet)
          BY <1>0
    <3> QED BY <3>1
  <2>3. c = Packets(e, b, arrived[e])
    <3>1. /\ read[e] \in 0 .. MaxPackets /\ arrived[e] \in 0 .. MaxPackets
          /\ s \o c = Packets(e, read[e], arrived[e])
          BY <1>0
    <3> HIDE DEF s, c
    <3> QED BY <2>2, <3>1, PacketsRead
  <2>4. b \in 0 .. MaxPackets
    <3>0. read[e] \in 0 .. MaxPackets
          BY <1>0
    <3>1. read[e] \in Nat
          BY <3>0, FrameBounds
    <3>2. read[e] + Len(s) \in Nat
          BY <2>2, <3>1
    <3> QED BY <3>2, NumberTyped
  <2> HIDE DEF b
  <2>5. session'[e] = <<>> /\ channel'[e] = c /\ buffer' = <<>>
        BY <2>1 DEF TypeOK, PacketsFit
  <2>6. \A f \in Entities : f # e =>
               session'[f] = session[f] /\ channel'[f] = channel[f]
               /\ read'[f] = read[f] /\ arrived'[f] = arrived[f]
        BY <2>1 DEF TypeOK
  <2>7. c = Packets(e, read'[e], arrived'[e])
    <3>1. CASE b = arrived[e]
      <4>1. c = <<>>
            BY <2>3, <2>4, <3>1, PacketsNone
      <4>2. read'[e] = 0 /\ arrived'[e] = 0
            BY <2>1, <3>1 DEF TypeOK
      <4>3. Packets(e, 0, 0) = <<>>
            BY PacketsNone, FrameBounds
      <4> QED BY <4>1, <4>2, <4>3
    <3>2. CASE b # arrived[e]
      <4>1. read'[e] = b /\ arrived'[e] = arrived[e]
            BY <2>1, <3>2 DEF TypeOK
      <4> QED BY <2>3, <4>1
    <3> QED BY <3>1, <3>2
  <2>8. session'[e] \o channel'[e] = Packets(e, read'[e], arrived'[e])
        BY <2>2, <2>5, <2>7, EmptyJoin
  <2> QED BY <1>2, <2>5, <2>6, <2>8
<1>6. ASSUME NEW discarded \in SUBSET Entities, EndStage(discarded) PROVE PacketsFit'
  <2>1. buffer' = <<>>
        BY <1>6, StageEnds DEF PacketsFit
  <2>2. /\ channel' = [e \in Entities |-> IF Left(life'[e]) THEN channel[e] ELSE <<>>]
        /\ session' = [e \in Entities |-> IF Left(life'[e]) THEN session[e] ELSE <<>>]
        /\ arrived' = [e \in Entities |-> IF Left(life'[e]) THEN arrived[e] ELSE 0]
        /\ read' = [e \in Entities |-> IF Left(life'[e]) THEN read[e] ELSE 0]
        BY <1>6, StageEnds
  <2>3. ASSUME NEW e \in Entities
        PROVE session'[e] \o channel'[e] = Packets(e, read'[e], arrived'[e])
    <3>1. CASE Left(life'[e])
          BY <1>0, <2>2, <3>1
    <3>2. CASE ~Left(life'[e])
      <4>1. session'[e] = <<>> /\ channel'[e] = <<>> /\ read'[e] = 0 /\ arrived'[e] = 0
            BY <2>2, <3>2
      <4>2. Packets(e, 0, 0) = <<>>
            BY PacketsNone, FrameBounds
      <4>3. <<>> \in Seq(Packet)
            OBVIOUS
      <4> QED BY <4>1, <4>2, <4>3, EmptyJoin
    <3> QED BY <3>1, <3>2
  <2> QED BY <2>1, <2>3 DEF PacketsFit, Packets
<1>7. ASSUME NEW e \in Entities,
             \/ StartRecv(e) \/ VisitAttempt(e)
             \/ \E p \in Parts : VisitDisconnect(e, p) \/ Fire(e, p)
             \/ \E refused \in SUBSET Halves : AnswerHalves(e, refused)
             \/ \E what \in {"connection", "none", "failed"} : AnswerOther(e, what)
             \/ \E p \in Parts : TaskEnds(e, p)
             \/ TaskLost(e)
             \/ SpawnAttempt(e) \/ AcceptConnection(e) \/ AppTakesResult(e) \/ AppDisconnects(e)
      PROVE PacketsFit'
      BY <1>1, <1>7 DEF StartRecv, VisitAttempt, VisitDisconnect, Fire, AnswerHalves, AnswerOther,
                        TaskEnds, TaskLost, SpawnAttempt, AcceptConnection, AppTakesResult,
                        AppDisconnects
<1>8. CASE FrameStep
      BY <1>4, <1>6, <1>7, <1>8 DEF FrameStep
<1>9. CASE UNCHANGED vars
      BY <1>1, <1>9
<1> QED BY <1>3, <1>5, <1>7, <1>8, <1>9 DEF Next

-----------------------------------------------------------------------------
(* The invariant holds.                                                     *)

\* Nothing is there, nothing is asked of anybody.
LEMMA FramesInvInit == Init => FramesInv
<1> SUFFICES ASSUME Init PROVE FramesInv
    OBVIOUS
<1>1. TypeOK
      BY FramesTypeInit
<1>2. CommandsFit
      BY DEF Init, CommandsFit
<1>3. VisitsFit
      BY DEF Init, VisitsFit
<1>4. EventsFit
  <2>1. \A e \in Entities : \A p \in Parts : events[e][p] = 0
        BY NoneAtFirst DEF Init
  <2> QED BY <2>1 DEF EventsFit
<1>5. StandingFit
      BY DEF Init, StandingFit
<1>6. PacketsFit
  <2>1. buffer = <<>>
        BY DEF Init
  <2>2. ASSUME NEW e \in Entities
        PROVE session[e] \o channel[e] = Packets(e, read[e], arrived[e])
    <3>1. session[e] = <<>> /\ channel[e] = <<>> /\ read[e] = 0 /\ arrived[e] = 0
          BY DEF Init
    <3>2. Packets(e, 0, 0) = <<>>
          BY PacketsNone, FrameBounds
    <3>3. <<>> \in Seq(Packet)
          OBVIOUS
    <3> QED BY <3>1, <3>2, <3>3, EmptyJoin
  <2> QED BY <2>1, <2>2 DEF PacketsFit
<1> QED BY <1>1, <1>2, <1>3, <1>4, <1>5, <1>6 DEF FramesInv

\* Every step keeps every part of it.
LEMMA FramesInvStep == FramesInv /\ [Next]_vars => FramesInv'
  BY FramesTypeStep, FramesCommandsStep, FramesEventsStep, FramesStandingStep, FramesPacketsStep
  DEF FramesInv

\* It holds all the time.
LEMMA FramesInvHolds == Spec => []FramesInv
  BY FramesInvInit, FramesInvStep, PTL DEF Spec

\* The state of the entities is what its types say, and no inbound channel holds more
\* than INBOUND_CHANNEL_SIZE packets.
THEOREM FramesTypeCorrect == Spec => []TypeOK
<1>1. FramesInv => TypeOK
      BY DEF FramesInv
<1> QED BY <1>1, FramesInvHolds, PTL

\* However many sessions the vector of aeronet_session_recv goes round, each has all the
\* packets of its own stream that were not read, once and in order.
THEOREM EachItsOwnPackets == Spec => []OwnPackets
<1>1. FramesInv => OwnPackets
      BY DEF FramesInv, PacketsFit, OwnPackets
<1> QED BY <1>1, FramesInvHolds, PTL

\* A disconnection is announced once: the handlers that run in Update take away what the
\* systems of PostUpdate would find again.
THEOREM AnnouncedOnce == Spec => []OncePerEnd
<1>1. FramesInv => OncePerEnd
  <2> SUFFICES ASSUME FramesInv, NEW e \in Entities, NEW p \in Parts PROVE events[e][p] <= 1
      BY DEF OncePerEnd
  <2>1. events[e][p] > 0 => events[e][p] = 1
        BY DEF FramesInv, EventsFit
  <2>2. events \in [Entities -> Counts]
        BY DEF FramesInv, TypeOK, Counts
  <2>3. events[e][p] \in 0 .. 2
        BY <2>2 DEF Counts
  <2> QED BY <2>1, <2>3
<1> QED BY <1>1, FramesInvHolds, PTL

\* A schedule ends when all it asked for has been visited.
LEMMA SchedulesEnd ==
  ASSUME [Next]_vars, stage' # stage PROVE todo = {}
<1> USE DEF vars, lifeVars, packetVars, frameVars, eventVars
<1>1. ASSUME NEW discarded \in SUBSET Entities, EndStage(discarded) PROVE todo = {}
      BY <1>1, StageEnds
<1>2. ASSUME NEW e \in Entities,
             \/ StartRecv(e) \/ FinishRecv(e) \/ VisitAttempt(e)
             \/ \E p \in Parts : VisitDisconnect(e, p) \/ Fire(e, p)
             \/ \E refused \in SUBSET Halves : AnswerHalves(e, refused)
             \/ \E what \in {"connection", "none", "failed"} : AnswerOther(e, what)
             \/ \E p \in Parts : TaskEnds(e, p)
             \/ TaskLost(e) \/ Arrive(e)
             \/ SpawnAttempt(e) \/ AcceptConnection(e)
             \/ AppRead(e) \/ AppTakesResult(e) \/ AppDisconnects(e)
      PROVE stage' = stage
      BY <1>2 DEF StartRecv, FinishRecv, VisitAttempt, VisitDisconnect, Fire, AnswerHalves,
                  AnswerOther, TaskEnds, TaskLost, Arrive, SpawnAttempt, AcceptConnection,
                  AppRead, AppTakesResult, AppDisconnects
<1>3. CASE FrameStep
      BY <1>1, <1>2, <1>3 DEF FrameStep
<1> QED BY <1>2, <1>3 DEF Next

\* Fire cannot pass over an end that stood when PostUpdate began.
THEOREM StandingEndsAreAnnounced == Spec => StandingEndsAnnounced
<1>1. FramesInv /\ [Next]_vars =>
        [stage = "post" /\ stage' # "post" =>
           \A v \in standing : events[v[1]][v[2]] > 0]_vars
  <2> SUFFICES ASSUME FramesInv, [Next]_vars, stage = "post", stage' # "post",
                      NEW v \in standing
               PROVE events[v[1]][v[2]] > 0
      OBVIOUS
  <2>1. todo = {}
        BY SchedulesEnd
  <2> QED BY <2>1 DEF FramesInv, StandingFit
<1> QED BY <1>1, FramesInvHolds, PTL DEF Spec, StandingEndsAnnounced

\* When a handler despawns a stream that had ended before the frame began, PreUpdate has
\* emptied its channel, nothing can have arrived since, and so the session holds every
\* packet the application has not read.
THEOREM NothingIsLeftBehind == Spec => NothingLeftBehind
<1>1. FramesInv /\ [Next]_vars =>
        [stage = "update" /\ stage' # "update" =>
           \A e \in Entities : <<e, "rec">> \in standing /\ "despawn" \in cmds[e] =>
             channel[e] = <<>> /\ session[e] = Packets(e, read[e], arrived[e])]_vars
  <2> SUFFICES ASSUME FramesInv, stage = "update", NEW e \in Entities, <<e, "rec">> \in standing
               PROVE channel[e] = <<>> /\ session[e] = Packets(e, read[e], arrived[e])
      OBVIOUS
  <2>1. channel[<<e, "rec">>[1]] = <<>>
        BY DEF FramesInv, StandingFit
  <2>2. channel[e] = <<>>
        BY <2>1
  <2>3. session[e] \o channel[e] = Packets(e, read[e], arrived[e])
        BY DEF FramesInv, PacketsFit
  <2>4. session[e] \in Seq(Packet)
        BY DEF FramesInv, TypeOK, Packet
  <2>5. session[e] \o <<>> = session[e]
        BY <2>4, EmptyJoin
  <2> QED BY <2>2, <2>3, <2>5
<1> QED BY <1>1, FramesInvHolds, PTL DEF Spec, NothingLeftBehind
=============================================================================
