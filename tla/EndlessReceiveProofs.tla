------------------------ MODULE EndlessReceiveProofs ------------------------
(* What TLAPS proves of EndlessReceive, for every value of its constants:   *)
(* what ReceiveStreamProofs has of a bounded number of messages holds of a  *)
(* peer that sends for ever.                                                *)
EXTENDS EndlessReceive, ReceiveStreamProofs

\* The invariants of ReceiveStreamProofs, together.
EndlessInv == TypeOK /\ Steady /\ Flow /\ Cover

\* Where the numbers start again no message is on its way.
LEMMA NothingOnItsWay ==
  ASSUME TypeOK, Renumber
  PROVE inbound = <<>> /\ batch = <<>> /\ recvBuf = <<>>
<1>1. inbound \in Seq(Nat) /\ batch \in Seq(Nat) /\ recvBuf \in Seq(Nat)
      BY DEF TypeOK
<1>2. Elements(inbound \o batch \o recvBuf) = Waiting
      BY WaitingIs
<1>3. Elements(inbound \o batch \o recvBuf) = {}
      BY EmptyPiece DEF Renumber
<1>4. ASSUME NEW s \in Seq(Nat), Elements(s) = {} PROVE s = <<>>
  <2>1. DOMAIN s = {}
        BY <1>4 DEF Elements
  <2>2. DOMAIN s = 1 .. Len(s) /\ Len(s) \in Nat
        OBVIOUS
  <2>3. Len(s) = 0
    <3> SUFFICES ASSUME Len(s) # 0 PROVE FALSE
        OBVIOUS
    <3>1. 1 \in 1 .. Len(s)
          BY <2>2
    <3> QED BY <2>1, <2>2, <3>1
  <2> QED BY <2>3
<1> QED BY <1>1, <1>2, <1>3, <1>4 DEF Waiting

\* So that nothing that is claimed of the messages is lost with their numbers.
LEMMA RenumberKeeps == EndlessInv /\ Renumber => EndlessInv'
<1> SUFFICES ASSUME TypeOK, Steady, Flow, Cover, Renumber PROVE EndlessInv'
    BY DEF EndlessInv
<1>1. /\ arrived' = 0 /\ got' = <<>> /\ dropped' = {}
      /\ UNCHANGED <<fin, quic, recvBuf, component, call, calls, inbound, control,
                     taskState, task, batch, atEnd, disconnect>>
      BY DEF Renumber
<1>2. inbound' = <<>> /\ batch' = <<>> /\ recvBuf' = <<>>
      BY <1>1, NothingOnItsWay
<1>3. TypeOK'
  <2>1. got' \in Seq(Nat) /\ dropped' \subseteq Nat /\ arrived' \in 0 .. MaxMessages
        BY <1>1, ReceiveBounds
  <2> QED BY <1>1, <2>1 DEF TypeOK
<1>4. Steady'
      BY <1>1 DEF Steady, Course, EndIsComplete
<1>5. Flow'
      BY <1>1, <1>2, EmptyPiece DEF Flow
<1>6. Cover'
      BY <1>1 DEF Cover
<1> QED BY <1>3, <1>4, <1>5, <1>6 DEF EndlessInv

\* The steps of the stream keep it by ReceiveStreamProofs.
LEMMA EndlessInvStep == EndlessInv /\ [EndlessNext]_vars => EndlessInv'
<1> SUFFICES ASSUME EndlessInv, [EndlessNext]_vars PROVE EndlessInv'
    OBVIOUS
<1>1. CASE [Next]_vars
      BY <1>1, ReceiveTypeStep, SteadyStep, FlowStep, CoverStep DEF EndlessInv
<1>2. CASE Renumber
      BY <1>2, RenumberKeeps
<1> QED BY <1>1, <1>2 DEF EndlessNext

\* It holds all the time.
LEMMA EndlessInvHolds == EndlessSpec => []EndlessInv
<1>1. Init => EndlessInv
      BY ReceiveTypeInit, SteadyInit, FlowInit, CoverInit DEF EndlessInv
<1> QED BY <1>1, EndlessInvStep, PTL DEF EndlessSpec

\* Of a stream whose peer may send for ever: no message is missing but for want of room
\* while nothing ended the stream, the news of the end never overtakes the data, and only
\* the reason of an end this side made can be lost.
THEOREM EndlessReceiveIsSafe ==
  EndlessSpec => [](TypeOK /\ NothingMissing /\ EndAfterData /\ EndIsComplete)
<1>1. EndlessInv => TypeOK /\ NothingMissing /\ EndAfterData /\ EndIsComplete
      BY CoverTells DEF EndlessInv, Steady
<1> QED BY <1>1, EndlessInvHolds, PTL

\* Every step of it is one of the ordered pipe, or starts the numbers again when the
\* pipe is empty.
THEOREM EndlessReceiveImplementsPipe == EndlessSpec => PipeBetweenRestarts
<1>1. Init => Pipe!Init
      BY FlowInit
<1>2. EndlessInv /\ EndlessInv' /\ [EndlessNext]_vars =>
        [Pipe!Next \/ Renumber]_(Pipe!vars)
  <2> SUFFICES ASSUME EndlessInv, EndlessInv', [EndlessNext]_vars
               PROVE [Pipe!Next \/ Renumber]_(Pipe!vars)
      OBVIOUS
  <2>1. CASE [Next]_vars
    <3>1. [Pipe!Next]_(Pipe!vars)
          BY <2>1, PipeStep DEF EndlessInv
    <3> QED BY <3>1
  <2> QED BY <2>1 DEF EndlessNext
<1> QED BY <1>1, <1>2, EndlessInvHolds, PTL DEF EndlessSpec, PipeBetweenRestarts
=============================================================================
