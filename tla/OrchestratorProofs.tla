------------------------- MODULE OrchestratorProofs -------------------------
(* What TLAPS proves of Orchestrator, for every value of its constants.     *)
EXTENDS Orchestrator, SequencePieces, SequenceTheorems, FiniteSetTheorems, TLAPS

\* The assumptions in the form most steps use.
LEMMA OrchestratorBounds ==
  /\ N \in Nat /\ N > 0 /\ 0 \in Workers /\ Workers \subseteq Nat
  /\ InboxCap \in Nat /\ ChanCap \in Nat
  /\ \A n \in Nat : n % N \in Workers
  BY OrchestratorAssumption DEF OrchestratorAssumption, Workers

-----------------------------------------------------------------------------
(* Sequences in which nothing comes twice, and what the operations of       *)
(* channels and vectors do to their elements.                               *)

\* Nothing is in an empty queue.
LEMMA NothingIn == \A S : <<>> \in Seq(S) /\ Len(<<>>) = 0 /\ Elements(<<>>) = {}
                          /\ IsInjective(<<>>)
  BY DEF Elements, IsInjective

\* try_send and push put a task behind the others.
LEMMA PutIn ==
  ASSUME NEW S, NEW s \in Seq(S), NEW x \in S
  PROVE /\ Append(s, x) \in Seq(S) /\ Len(Append(s, x)) = Len(s) + 1
        /\ Elements(Append(s, x)) = Elements(s) \cup {x}
        /\ IsInjective(s) /\ x \notin Elements(s) => IsInjective(Append(s, x))
<1>1. /\ Append(s, x) \in Seq(S) /\ Len(Append(s, x)) = Len(s) + 1
      /\ \A i \in 1 .. Len(s) : Append(s, x)[i] = s[i]
      /\ Append(s, x)[Len(s) + 1] = x
      BY AppendProperties
<1>2. Elements(Append(s, x)) = Elements(s) \cup {x}
      BY <1>1 DEF Elements
<1>3. ASSUME IsInjective(s), x \notin Elements(s) PROVE IsInjective(Append(s, x))
  <2>1. \A i \in 1 .. Len(s) : s[i] # x
        BY <1>3 DEF Elements
  <2>2. \A i \in DOMAIN Append(s, x) : i \in 1 .. Len(s) \/ i = Len(s) + 1
        BY <1>1
  <2> QED BY <1>1, <1>3, <2>1, <2>2 DEF IsInjective
<1> QED BY <1>1, <1>2, <1>3

\* Receiving takes the first.
LEMMA TakeOut ==
  ASSUME NEW S, NEW s \in Seq(S), s # <<>>
  PROVE /\ Head(s) \in S /\ Head(s) \in Elements(s)
        /\ Tail(s) \in Seq(S) /\ Len(Tail(s)) = Len(s) - 1 /\ Len(s) \in Nat
        /\ IsInjective(s) => /\ IsInjective(Tail(s))
                             /\ Elements(Tail(s)) = Elements(s) \ {Head(s)}
<1>1. /\ Tail(s) \in Seq(S) /\ Len(Tail(s)) = Len(s) - 1 /\ Len(s) \in Nat /\ Len(s) > 0
      /\ \A i \in 1 .. Len(Tail(s)) : Tail(s)[i] = s[i + 1]
      /\ Head(s) = s[1] /\ Head(s) \in S
      BY HeadTailProperties, EmptySeq
<1>2. Head(s) \in Elements(s)
      BY <1>1 DEF Elements
<1>3. ASSUME IsInjective(s) PROVE IsInjective(Tail(s))
  <2>1. ASSUME NEW i \in DOMAIN Tail(s), NEW j \in DOMAIN Tail(s), Tail(s)[i] = Tail(s)[j]
        PROVE i = j
    <3>1. i + 1 \in DOMAIN s /\ j + 1 \in DOMAIN s /\ s[i + 1] = s[j + 1]
          BY <1>1, <2>1
    <3> QED BY <1>1, <1>3, <2>1, <3>1 DEF IsInjective
  <2> QED BY <2>1 DEF IsInjective
<1>4. ASSUME IsInjective(s) PROVE Elements(Tail(s)) = Elements(s) \ {Head(s)}
  <2>1. ASSUME NEW i \in DOMAIN Tail(s) PROVE Tail(s)[i] \in Elements(s) \ {Head(s)}
    <3>1. i + 1 \in DOMAIN s /\ 1 \in DOMAIN s /\ i + 1 # 1
          BY <1>1
    <3> QED BY <1>1, <1>4, <3>1 DEF IsInjective, Elements
  <2>2. ASSUME NEW i \in DOMAIN s, s[i] # Head(s) PROVE s[i] \in Elements(Tail(s))
    <3>1. i - 1 \in DOMAIN Tail(s) /\ (i - 1) + 1 = i
          BY <1>1, <2>2
    <3>2. Tail(s)[i - 1] = s[i]
          BY <1>1, <3>1
    <3> QED BY <3>1, <3>2 DEF Elements
  <2> QED BY <2>1, <2>2 DEF Elements
<1> QED BY <1>1, <1>2, <1>3, <1>4

\* swap_remove takes one out anywhere: the last one takes its place.
LEMMA SwapOut ==
  ASSUME NEW S, NEW s \in Seq(S), NEW i \in DOMAIN s
  PROVE /\ SwapRemove(s, i) \in Seq(S)
        /\ DOMAIN SwapRemove(s, i) = 1 .. Len(s) - 1
        /\ \A j \in 1 .. Len(s) - 1 :
             SwapRemove(s, i)[j] = IF j = i THEN s[Len(s)] ELSE s[j]
        /\ IsInjective(s) => /\ IsInjective(SwapRemove(s, i))
                             /\ Elements(SwapRemove(s, i)) = Elements(s) \ {s[i]}
<1> DEFINE r == SwapRemove(s, i)
           from(j) == IF j = i THEN Len(s) ELSE j
<1>1. Len(s) \in Nat /\ i \in 1 .. Len(s) /\ Len(s) - 1 \in Nat
      BY LenProperties
<1>2. \A j \in 1 .. Len(s) - 1 : from(j) \in DOMAIN s /\ from(j) # i
      BY <1>1
<1>3. r = [j \in 1 .. Len(s) - 1 |-> s[from(j)]]
      BY DEF SwapRemove
<1>4. r \in Seq(S) /\ DOMAIN r = 1 .. Len(s) - 1
      BY <1>1, <1>2, <1>3
<1>5. \A j \in 1 .. Len(s) - 1 : r[j] = s[from(j)]
      BY <1>3
<1>6. \A j, k \in 1 .. Len(s) - 1 : from(j) = from(k) => j = k
      BY <1>1
<1>7. \A k \in DOMAIN s : k # i => \E j \in 1 .. Len(s) - 1 : from(j) = k
  <2> SUFFICES ASSUME NEW k \in DOMAIN s, k # i PROVE \E j \in 1 .. Len(s) - 1 : from(j) = k
      OBVIOUS
  <2>1. CASE k = Len(s)
        BY <1>1, <2>1
  <2>2. CASE k # Len(s)
        BY <1>1, <2>2
  <2> QED BY <2>1, <2>2
<1> HIDE DEF r, from
<1>8. IsInjective(s) => IsInjective(r)
      BY <1>2, <1>4, <1>5, <1>6 DEF IsInjective
<1>9. ASSUME IsInjective(s) PROVE Elements(r) = Elements(s) \ {s[i]}
  <2>1. \A j \in DOMAIN r : r[j] \in Elements(s) \ {s[i]}
        BY <1>2, <1>4, <1>5, <1>9 DEF Elements, IsInjective
  <2>2. \A k \in DOMAIN s : s[k] # s[i] => s[k] \in Elements(r)
        BY <1>4, <1>5, <1>7 DEF Elements
  <2> QED BY <2>1, <2>2 DEF Elements
<1> QED BY <1>4, <1>5, <1>8, <1>9 DEF r, from

-----------------------------------------------------------------------------
\* No channel is in a worker's way at the start.
LEMMA OrchestratorTypeInit == Init => TypeOK
<1> SUFFICES ASSUME Init PROVE TypeOK
    OBVIOUS
<1>1. \A w \in Workers : chan[w] = <<>> /\ list[w] = <<>>
      BY DEF Init
<1>2. /\ chan \in [Workers -> Seq(Tasks)] /\ list \in [Workers -> Seq(Tasks)]
      /\ \A w \in Workers : Len(chan[w]) <= ChanCap
      BY <1>1, OrchestratorBounds DEF Init
<1>3. inbox \in Seq(Tasks) /\ Len(inbox) <= InboxCap /\ batch \in Seq(Tasks)
      BY OrchestratorBounds DEF Init
<1>4. /\ next \in Workers /\ offset \in Workers
      /\ at \in [Workers -> {"take", "poll", "remove"}]
      /\ cursor \in [Workers -> Nat \ {0}] /\ finished \in [Workers -> SUBSET Nat]
      /\ spent \in [Workers -> Nat]
      BY OrchestratorBounds DEF Init
<1> QED BY <1>2, <1>3, <1>4 DEF Init, TypeOK

\* The candidate of the round robin is a worker.
LEMMA CandidateIs == TypeOK => Candidate \in Workers /\ (next + 1) % N \in Workers
<1> SUFFICES ASSUME TypeOK PROVE Candidate \in Workers /\ (next + 1) % N \in Workers
    OBVIOUS
<1>1. next + offset \in Nat /\ next + 1 \in Nat
      BY OrchestratorBounds DEF TypeOK
<1> QED BY <1>1, OrchestratorBounds DEF Candidate

\* A new round is well typed.
LEMMA RoundTyped ==
  ASSUME TypeOK, NEW w \in Workers, BeginRound(w)
  PROVE /\ at' \in [Workers -> {"take", "poll", "remove"}]
        /\ cursor' \in [Workers -> Nat \ {0}] /\ finished' \in [Workers -> SUBSET Nat]
        /\ spent' \in [Workers -> Nat]
  BY DEF BeginRound, TypeOK

\* Every step keeps the types and the bounds of the channels: what a worker notes
\* are positions of its list, so that it finds a task at each.
LEMMA OrchestratorTypeStep == TypeOK /\ FinishedAreNoted /\ [Next]_vars => TypeOK'
<1> SUFFICES ASSUME TypeOK, FinishedAreNoted, [Next]_vars PROVE TypeOK'
    OBVIOUS
<1> USE DEF vars, dispatchVars, workerVars
<1>1. ASSUME NEW t \in Tasks, Push(t) PROVE TypeOK'
  <2>1. CASE Len(inbox) < InboxCap
    <3>1. inbox' = Append(inbox, t) /\ refused' = refused
          BY <1>1, <2>1 DEF Push
    <3>2. inbox' \in Seq(Tasks) /\ Len(inbox') = Len(inbox) + 1 /\ Len(inbox) \in Nat
          BY <3>1, PutIn DEF TypeOK
    <3>3. Len(inbox') <= InboxCap
          BY <2>1, <3>2, OrchestratorBounds
    <3> QED BY <1>1, <3>1, <3>2, <3>3 DEF Push, TypeOK
  <2>2. CASE ~(Len(inbox) < InboxCap)
        BY <1>1, <2>2 DEF Push, TypeOK
  <2> QED BY <2>1, <2>2
<1>2. ASSUME NEW t \in Tasks, Stop(t) PROVE TypeOK'
      BY <1>2 DEF Stop, TypeOK
<1>3. CASE DispatcherReceive
  <2>1. /\ batch' = inbox /\ inbox' = <<>> /\ offset' = 0
        /\ UNCHANGED <<pushed, refused, next, dropped, chan, workerVars, stopped>>
        BY <1>3 DEF DispatcherReceive
  <2>2. inbox' \in Seq(Tasks) /\ Len(inbox') <= InboxCap
        BY <2>1, NothingIn, OrchestratorBounds
  <2> QED BY <2>1, <2>2, OrchestratorBounds DEF TypeOK
<1>4. ASSUME NextOfBatch, batch # <<>>
      PROVE batch' \in Seq(Tasks) /\ offset' \in Workers /\ next' \in Workers
      BY <1>4, TakeOut, CandidateIs, OrchestratorBounds DEF NextOfBatch, TypeOK
<1>5. CASE HandOver
  <2>1. /\ Candidate \in Workers /\ Head(batch) \in Tasks
        /\ chan' = [chan EXCEPT ![Candidate] = Append(@, Head(batch))]
        /\ Len(chan[Candidate]) < ChanCap
        BY <1>5, TakeOut, CandidateIs DEF HandOver, TypeOK
  <2> HIDE DEF Candidate
  <2>2. /\ Append(chan[Candidate], Head(batch)) \in Seq(Tasks)
        /\ Len(Append(chan[Candidate], Head(batch))) = Len(chan[Candidate]) + 1
        /\ Len(chan[Candidate]) \in Nat
        BY <2>1, PutIn DEF TypeOK
  <2>3. Len(Append(chan[Candidate], Head(batch))) <= ChanCap
        BY <2>1, <2>2, OrchestratorBounds
  <2>4. /\ chan' \in [Workers -> Seq(Tasks)]
        /\ \A w \in Workers : Len(chan'[w]) <= ChanCap
        BY <2>1, <2>2, <2>3 DEF TypeOK
  <2>5. batch' \in Seq(Tasks) /\ offset' \in Workers /\ next' \in Workers
        BY <1>4, <1>5 DEF HandOver
  <2> QED BY <1>5, <2>4, <2>5 DEF HandOver, TypeOK
<1>6. CASE TryNext
  <2>1. offset' \in Workers
        BY <1>6, OrchestratorBounds DEF TryNext, TypeOK, Workers
  <2> QED BY <1>6, <2>1 DEF TryNext, TypeOK
<1>7. CASE GiveUp
  <2>1. batch' \in Seq(Tasks) /\ offset' \in Workers /\ next' \in Workers
        BY <1>4, <1>7 DEF GiveUp
  <2>2. dropped' \subseteq Tasks
        BY <1>7, TakeOut DEF GiveUp, TypeOK
  <2> QED BY <1>7, <2>1, <2>2 DEF GiveUp, TypeOK
<1>8. ASSUME NEW w \in Workers, TakeAll(w) PROVE TypeOK'
  <2>1. /\ list' = [list EXCEPT ![w] = chan[w]] /\ chan' = [chan EXCEPT ![w] = <<>>]
        /\ UNCHANGED <<pushed, refused, dispatchVars, stopped, done, removed>>
        BY <1>8 DEF TakeAll
  <2>2. list' \in [Workers -> Seq(Tasks)]
        BY <2>1 DEF TypeOK
  <2>3. chan' \in [Workers -> Seq(Tasks)]
        BY <2>1, NothingIn DEF TypeOK
  <2>5. ASSUME NEW v \in Workers PROVE Len(chan'[v]) <= ChanCap
    <3>1. CASE v = w
      <4>1. chan'[v] = <<>>
            BY <2>1, <3>1 DEF TypeOK
      <4> QED BY <4>1, NothingIn, OrchestratorBounds
    <3>2. CASE v # w
          BY <2>1, <3>2 DEF TypeOK
    <3> QED BY <3>1, <3>2
  <2>4. /\ at' \in [Workers -> {"take", "poll", "remove"}]
        /\ cursor' \in [Workers -> Nat \ {0}] /\ finished' \in [Workers -> SUBSET Nat]
        /\ spent' \in [Workers -> Nat]
        BY <1>8, RoundTyped DEF TakeAll
  <2> QED BY <2>1, <2>2, <2>3, <2>4, <2>5 DEF TypeOK
<1>9. ASSUME NEW w \in Workers, TakeOne(w) PROVE TypeOK'
  <2>1. /\ list' = [list EXCEPT ![w] = Append(@, Head(chan[w]))]
        /\ chan' = [chan EXCEPT ![w] = Tail(@)]
        /\ chan[w] \in Seq(Tasks) /\ list[w] \in Seq(Tasks) /\ chan[w] # <<>>
        /\ Len(chan[w]) <= ChanCap
        BY <1>9 DEF TakeOne, TypeOK
  <2>2. /\ Head(chan[w]) \in Tasks /\ Tail(chan[w]) \in Seq(Tasks)
        /\ Len(Tail(chan[w])) <= ChanCap
        BY <2>1, TakeOut, OrchestratorBounds
  <2>3. Append(list[w], Head(chan[w])) \in Seq(Tasks)
        BY <2>1, <2>2, PutIn
  <2>4. list' \in [Workers -> Seq(Tasks)]
        BY <2>1, <2>3 DEF TypeOK
  <2>5. chan' \in [Workers -> Seq(Tasks)]
        BY <2>1, <2>2 DEF TypeOK
  <2>6. ASSUME NEW v \in Workers PROVE Len(chan'[v]) <= ChanCap
    <3>1. CASE v = w
          BY <2>1, <2>2, <3>1 DEF TypeOK
    <3>2. CASE v # w
          BY <2>1, <3>2 DEF TypeOK
    <3> QED BY <3>1, <3>2
  <2> QED BY <1>9, <2>4, <2>5, <2>6 DEF TakeOne, TypeOK
<1>10. ASSUME NEW w \in Workers, TakeNone(w) PROVE TypeOK'
      BY <1>10, RoundTyped DEF TakeNone, TypeOK
<1>11. ASSUME NEW w \in Workers, PollTask(w) PROVE TypeOK'
  <2> DEFINE t == list[w][cursor[w]]
  <2>1. t \in Tasks
        BY <1>11, ElementOfSeq DEF PollTask, TypeOK
  <2>2. spent' = spent \/ spent' = [spent EXCEPT ![w] = @ + 1]
        BY <1>11 DEF PollTask
  <2>3. spent' \in [Workers -> Nat]
    <3>1. CASE spent' = spent
          BY <3>1 DEF TypeOK
    <3>2. CASE spent' = [spent EXCEPT ![w] = @ + 1]
          BY <3>2 DEF TypeOK
    <3> QED BY <2>2, <3>1, <3>2
  <2>4. cursor' \in [Workers -> Nat \ {0}] /\ cursor[w] \in Nat
    <3>1. cursor' = [cursor EXCEPT ![w] = @ + 1] /\ cursor \in [Workers -> Nat \ {0}]
          BY <1>11 DEF PollTask, TypeOK
    <3>2. cursor[w] \in Nat /\ cursor[w] + 1 \in Nat \ {0}
          BY <3>1
    <3> QED BY <3>1, <3>2
  <2>5. \/ finished' = [finished EXCEPT ![w] = @ \cup {cursor[w]}] /\ done' = done \cup {t}
        \/ UNCHANGED <<finished, done>>
        BY <1>11 DEF PollTask
  <2> HIDE DEF t
  <2>6. finished' \in [Workers -> SUBSET Nat] /\ done' \subseteq Tasks
    <3>1. CASE finished' = [finished EXCEPT ![w] = @ \cup {cursor[w]}] /\ done' = done \cup {t}
          BY <2>1, <2>4, <3>1 DEF TypeOK
    <3>2. CASE UNCHANGED <<finished, done>>
          BY <3>2 DEF TypeOK
    <3> QED BY <2>5, <3>1, <3>2
  <2> QED BY <1>11, <2>3, <2>4, <2>6 DEF PollTask, TypeOK
<1>12. ASSUME NEW w \in Workers, EndPolls(w) PROVE TypeOK'
      BY <1>12 DEF EndPolls, TypeOK
<1>13. ASSUME NEW w \in Workers, NEW i \in finished[w], RemoveFinished(w, i) PROVE TypeOK'
  <2> i \in DOMAIN list[w]
      BY <1>13 DEF RemoveFinished, FinishedAreNoted
  <2>1. list[w][i] \in Tasks /\ SwapRemove(list[w], i) \in Seq(Tasks)
        BY <1>13, SwapOut, ElementOfSeq DEF TypeOK
  <2>2. list' = [list EXCEPT ![w] = SwapRemove(@, i)] /\ removed' = removed \cup {list[w][i]}
        BY <1>13 DEF RemoveFinished
  <2>3. list' \in [Workers -> Seq(Tasks)] /\ removed' \subseteq Tasks
        BY <2>1, <2>2 DEF TypeOK
  <2>4. finished' \in [Workers -> SUBSET Nat]
        BY <1>13 DEF RemoveFinished, TypeOK
  <2> QED BY <1>13, <2>3, <2>4 DEF RemoveFinished, TypeOK
<1>14. ASSUME NEW w \in Workers, Yield(w) PROVE TypeOK'
      BY <1>14 DEF Yield, TypeOK
<1>15. CASE UNCHANGED vars
      BY <1>15 DEF TypeOK
<1>16. (\E t \in Tasks : Push(t) \/ Stop(t)) \/ Dispatcher \/ (\E w \in Workers : Worker(w))
       \/ UNCHANGED vars
       BY DEF Next
<1>17. CASE Dispatcher
       BY <1>3, <1>5, <1>6, <1>7, <1>17 DEF Dispatcher
<1>18. ASSUME NEW w \in Workers, Worker(w) PROVE TypeOK'
       BY <1>8, <1>9, <1>10, <1>11, <1>12, <1>13, <1>14, <1>18 DEF Worker
<1> QED BY <1>1, <1>2, <1>15, <1>16, <1>17, <1>18
-----------------------------------------------------------------------------
(* The inductive invariant.                                                 *)

\* Who has a task that was pushed: the inbox (I), the batch (B), a channel (C)
\* or the list (L) of a worker, or it was refused (R), dropped (D) or removed
\* (X).  It is one of them, and one only.
Apart(P, I, B, C, L, R, D, X) ==
  /\ \A t \in Tasks :
       t \in P <=> \/ t \in I \/ t \in B \/ t \in R \/ t \in D \/ t \in X
                   \/ \E w \in Workers : t \in C[w] \/ t \in L[w]
  /\ I \cap B = {} /\ I \cap R = {} /\ I \cap D = {} /\ I \cap X = {}
  /\ B \cap R = {} /\ B \cap D = {} /\ B \cap X = {}
  /\ R \cap D = {} /\ R \cap X = {} /\ D \cap X = {}
  /\ \A w \in Workers :
       /\ C[w] \cap I = {} /\ C[w] \cap B = {} /\ C[w] \cap R = {} /\ C[w] \cap D = {}
       /\ L[w] \cap I = {} /\ L[w] \cap B = {} /\ L[w] \cap R = {} /\ L[w] \cap D = {}
       /\ C[w] \cap X = {} /\ L[w] \cap X = {} /\ C[w] \cap L[w] = {}
  /\ \A v, w \in Workers :
       v # w => C[v] \cap C[w] = {} /\ L[v] \cap L[w] = {} /\ C[v] \cap L[w] = {}

\* The tasks in the sequence of each worker.
InEach(seqs) == [w \in Workers |-> Elements(seqs[w])]

OneHolder == Apart(pushed, Elements(inbox), Elements(batch), InEach(chan), InEach(list),
                   refused, dropped, removed)

\* Nobody has a task twice.
OnceEach ==
  /\ IsInjective(inbox) /\ IsInjective(batch)
  /\ \A w \in Workers : IsInjective(chan[w]) /\ IsInjective(list[w])

\* A task that said it is finished was in a list when it said so; between two
\* rounds none is left there.
DoneAreListed ==
  /\ removed \subseteq done
  /\ \A t \in done : t \in removed \/ \E w \in Workers : t \in Elements(list[w])
  /\ \A w \in Workers : at[w] = "take" => Elements(list[w]) \cap done = {}

OrchestratorInv == TypeOK /\ OneHolder /\ OnceEach /\ FinishedAreNoted /\ DoneAreListed

\* What each operation does to the holders: a task comes in,
LEMMA ApartPush ==
  ASSUME NEW P, NEW I, NEW B, NEW C, NEW L, NEW R, NEW D, NEW X,
         Apart(P, I, B, C, L, R, D, X), NEW t \in Tasks, t \notin P
  PROVE Apart(P \cup {t}, I \cup {t}, B, C, L, R, D, X) /\ Apart(P \cup {t}, I, B, C, L, R \cup {t}, D, X)
<1>1. /\ t \notin I /\ t \notin B /\ t \notin R /\ t \notin D /\ t \notin X
      /\ \A w \in Workers : t \notin C[w] /\ t \notin L[w]
      BY DEF Apart
<1>2. Apart(P \cup {t}, I \cup {t}, B, C, L, R, D, X)
      BY <1>1 DEF Apart
<1>3. Apart(P \cup {t}, I, B, C, L, R \cup {t}, D, X)
      BY <1>1 DEF Apart
<1> QED BY <1>2, <1>3

\* the dispatcher takes all that waits in the inbox,
LEMMA ApartReceive ==
  ASSUME NEW P, NEW I, NEW C, NEW L, NEW R, NEW D, NEW X,
         Apart(P, I, {}, C, L, R, D, X)
  PROVE Apart(P, {}, I, C, L, R, D, X)
  BY DEF Apart

\* hands one to a worker
LEMMA ApartHandOver ==
  ASSUME NEW P, NEW I, NEW B, NEW C, NEW L, NEW R, NEW D, NEW X,
         Apart(P, I, B, C, L, R, D, X),
         NEW h \in B, NEW c \in Workers, NEW C2,
         \A w \in Workers : C2[w] = IF w = c THEN C[w] \cup {h} ELSE C[w]
  PROVE Apart(P, I, B \ {h}, C2, L, R, D, X)
<1>1. /\ h \notin I /\ h \notin R /\ h \notin D /\ h \notin X
      /\ \A w \in Workers : h \notin C[w] /\ h \notin L[w]
      BY DEF Apart
<1>2. \A w \in Workers : C[w] \subseteq C2[w] /\ C2[w] \subseteq C[w] \cup {h}
      OBVIOUS
<1>3. ASSUME NEW t \in Tasks
      PROVE t \in P <=> \/ t \in I \/ t \in B \ {h} \/ t \in R \/ t \in D \/ t \in X
                       \/ \E w \in Workers : t \in C2[w] \/ t \in L[w]
  <2>1. CASE t = h
        BY <2>1 DEF Apart
  <2>2. CASE t # h
    <3>1. \A w \in Workers : t \in C2[w] <=> t \in C[w]
          BY <2>2
    <3> QED BY <2>2, <3>1 DEF Apart
  <2> QED BY <2>1, <2>2
<1>4. \A w \in Workers :
        /\ C2[w] \cap I = {} /\ C2[w] \cap (B \ {h}) = {} /\ C2[w] \cap R = {}
        /\ C2[w] \cap D = {} /\ C2[w] \cap X = {} /\ C2[w] \cap L[w] = {}
      BY <1>1, <1>2 DEF Apart
<1>5. ASSUME NEW v \in Workers, NEW w \in Workers, v # w
      PROVE C2[v] \cap C2[w] = {} /\ C2[v] \cap L[w] = {}
  <2>1. C[v] \cap C[w] = {} /\ C[v] \cap L[w] = {}
        BY <1>5 DEF Apart
  <2>2. C2[v] \cap C2[w] = {}
    <3>1. CASE v = c
          BY <1>1, <1>5, <2>1, <3>1
    <3>2. CASE v # c
          BY <1>1, <2>1, <3>2
    <3> QED BY <3>1, <3>2
  <2>3. C2[v] \cap L[w] = {}
        BY <1>1, <1>2, <2>1
  <2> QED BY <2>2, <2>3
<1> QED BY <1>3, <1>4, <1>5 DEF Apart

\* or drops it,
LEMMA ApartGiveUp ==
  ASSUME NEW P, NEW I, NEW B, NEW C, NEW L, NEW R, NEW D, NEW X,
         Apart(P, I, B, C, L, R, D, X), NEW h \in B
  PROVE Apart(P, I, B \ {h}, C, L, R, D \cup {h}, X)
  BY DEF Apart

\* the worker takes some out of its channel
LEMMA ApartTake ==
  ASSUME NEW P, NEW I, NEW B, NEW C, NEW L, NEW R, NEW D, NEW X,
         Apart(P, I, B, C, L, R, D, X),
         NEW C2, NEW L2, NEW c \in Workers,
         C2[c] \subseteq C[c], L2[c] = L[c] \cup (C[c] \ C2[c]),
         \A w \in Workers : w # c => C2[w] = C[w] /\ L2[w] = L[w]
  PROVE Apart(P, I, B, C2, L2, R, D, X)
<1> DEFINE M == C[c] \ C2[c]
<1>1. /\ M \subseteq C[c] /\ C2[c] = C[c] \ M /\ L2[c] = L[c] \cup M
      /\ \A w \in Workers : w # c => C2[w] = C[w] /\ L2[w] = L[w]
      OBVIOUS
<1> HIDE DEF M
<1>2. /\ M \cap I = {} /\ M \cap B = {} /\ M \cap R = {} /\ M \cap D = {} /\ M \cap X = {}
      /\ \A w \in Workers : M \cap L[w] = {} /\ (w # c => M \cap C[w] = {})
      BY <1>1 DEF Apart
<1>3. \A w \in Workers : C2[w] \subseteq C[w] /\ L2[w] \subseteq L[w] \cup M
      BY <1>1
<1>4. ASSUME NEW t \in Tasks
      PROVE (\E w \in Workers : t \in C2[w] \/ t \in L2[w])
            <=> (\E w \in Workers : t \in C[w] \/ t \in L[w])
  <2>1. CASE t \in M
        BY <1>1, <2>1
  <2>2. CASE t \notin M
        BY <1>1, <2>2
  <2> QED BY <2>1, <2>2
<1>5. \A w \in Workers :
        /\ C2[w] \cap I = {} /\ C2[w] \cap B = {} /\ C2[w] \cap R = {}
        /\ C2[w] \cap D = {} /\ C2[w] \cap X = {}
      BY <1>3 DEF Apart
<1>6. \A w \in Workers :
        /\ L2[w] \cap I = {} /\ L2[w] \cap B = {} /\ L2[w] \cap R = {}
        /\ L2[w] \cap D = {} /\ L2[w] \cap X = {}
      BY <1>2, <1>3 DEF Apart
<1>7. ASSUME NEW w \in Workers PROVE C2[w] \cap L2[w] = {}
  <2>1. CASE w = c
        BY <1>2, <1>1, <2>1 DEF Apart
  <2>2. CASE w # c
        BY <1>2, <1>1, <2>2 DEF Apart
  <2> QED BY <2>1, <2>2
<1>8. ASSUME NEW v \in Workers, NEW w \in Workers, v # w
      PROVE C2[v] \cap C2[w] = {} /\ L2[v] \cap L2[w] = {} /\ C2[v] \cap L2[w] = {}
  <2>1. C[v] \cap C[w] = {} /\ L[v] \cap L[w] = {} /\ C[v] \cap L[w] = {}
        BY <1>8 DEF Apart
  <2>2. C2[v] \cap C2[w] = {}
        BY <1>3, <2>1
  <2>3. L2[v] \cap L2[w] = {}
        BY <1>2, <1>1, <1>8, <2>1
  <2>4. C2[v] \cap L2[w] = {}
        BY <1>2, <1>1, <1>8, <2>1
  <2> QED BY <2>2, <2>3, <2>4
<1>9. /\ I \cap B = {} /\ I \cap R = {} /\ I \cap D = {} /\ I \cap X = {}
      /\ B \cap R = {} /\ B \cap D = {} /\ B \cap X = {}
      /\ R \cap D = {} /\ R \cap X = {} /\ D \cap X = {}
      BY DEF Apart
<1>10. \A t \in Tasks :
        t \in P <=> \/ t \in I \/ t \in B \/ t \in R \/ t \in D \/ t \in X
                  \/ \E w \in Workers : t \in C2[w] \/ t \in L2[w]
      BY <1>4 DEF Apart
<1> QED BY <1>5, <1>6, <1>7, <1>8, <1>9, <1>10 DEF Apart

\* and lets go of one.
LEMMA ApartRemove ==
  ASSUME NEW P, NEW I, NEW B, NEW C, NEW L, NEW R, NEW D, NEW X,
         Apart(P, I, B, C, L, R, D, X),
         NEW c \in Workers, NEW h \in L[c], NEW L2,
         \A w \in Workers : L2[w] = IF w = c THEN L[w] \ {h} ELSE L[w]
  PROVE Apart(P, I, B, C, L2, R, D, X \cup {h})
<1>1. /\ h \notin I /\ h \notin B /\ h \notin R /\ h \notin D
      /\ \A w \in Workers : h \notin C[w] /\ (w # c => h \notin L[w])
      BY DEF Apart
<1>2. \A w \in Workers : L2[w] \subseteq L[w] /\ h \notin L2[w]
      BY <1>1
<1>3. ASSUME NEW t \in Tasks
      PROVE t \in P <=> \/ t \in I \/ t \in B \/ t \in R \/ t \in D \/ t \in X \cup {h}
                       \/ \E w \in Workers : t \in C[w] \/ t \in L2[w]
  <2>1. CASE t = h
        BY <2>1 DEF Apart
  <2>2. CASE t # h
    <3>1. \A w \in Workers : t \in L2[w] <=> t \in L[w]
          BY <2>2
    <3> QED BY <2>2, <3>1 DEF Apart
  <2> QED BY <2>1, <2>2
<1>4. \A w \in Workers :
        /\ L2[w] \cap I = {} /\ L2[w] \cap B = {} /\ L2[w] \cap R = {} /\ L2[w] \cap D = {}
        /\ L2[w] \cap (X \cup {h}) = {} /\ C[w] \cap (X \cup {h}) = {} /\ C[w] \cap L2[w] = {}
      BY <1>1, <1>2 DEF Apart
<1>5. \A v, w \in Workers : v # w => L2[v] \cap L2[w] = {} /\ C[v] \cap L2[w] = {}
      BY <1>2 DEF Apart
<1> QED BY <1>1, <1>3, <1>4, <1>5 DEF Apart

\* At the start every queue and list is empty...
LEMMA OrchestratorHolderInit == Init => OneHolder /\ OnceEach
<1> SUFFICES ASSUME Init PROVE OneHolder /\ OnceEach
    OBVIOUS
<1>1. /\ Elements(inbox) = {} /\ Elements(batch) = {}
      /\ IsInjective(inbox) /\ IsInjective(batch)
      BY NothingIn DEF Init
<1>2. ASSUME NEW w \in Workers
      PROVE /\ InEach(chan)[w] = {} /\ InEach(list)[w] = {}
            /\ IsInjective(chan[w]) /\ IsInjective(list[w])
      BY NothingIn DEF Init, InEach
<1>3. pushed = {} /\ refused = {} /\ dropped = {} /\ removed = {}
      BY DEF Init
<1> QED BY <1>1, <1>2, <1>3 DEF OneHolder, Apart, OnceEach

\* Each step moves a task, if it moves one, from one holder to another.
LEMMA OrchestratorHolderStep ==
  TypeOK /\ FinishedAreNoted /\ OneHolder /\ OnceEach /\ [Next]_vars => OneHolder' /\ OnceEach'
<1> SUFFICES ASSUME TypeOK, FinishedAreNoted, OneHolder, OnceEach, [Next]_vars
             PROVE OneHolder' /\ OnceEach'
    OBVIOUS
<1> USE DEF vars, dispatchVars, workerVars
<1>1. ASSUME NEW t \in Tasks, Push(t) PROVE OneHolder' /\ OnceEach'
  <2>1. t \notin pushed /\ pushed' = pushed \cup {t}
        /\ UNCHANGED <<batch, dropped, chan, list, removed>>
        BY <1>1 DEF Push
  <2>2. CASE Len(inbox) < InboxCap
    <3>1. inbox' = Append(inbox, t) /\ refused' = refused
          BY <1>1, <2>2 DEF Push
    <3>2. t \notin Elements(inbox)
          BY <2>1 DEF OneHolder, Apart
    <3>3. Elements(inbox') = Elements(inbox) \cup {t} /\ IsInjective(inbox')
          BY <3>1, <3>2, PutIn DEF OnceEach, TypeOK
    <3>4. Apart(pushed \cup {t}, Elements(inbox) \cup {t}, Elements(batch), InEach(chan),
                InEach(list), refused, dropped, removed)
          BY <2>1, ApartPush DEF OneHolder
    <3>5. OneHolder'
          BY <2>1, <3>1, <3>3, <3>4 DEF OneHolder
    <3> QED BY <2>1, <3>3, <3>5 DEF OnceEach
  <2>3. CASE ~(Len(inbox) < InboxCap)
    <3>1. inbox' = inbox /\ refused' = refused \cup {t}
          BY <1>1, <2>3 DEF Push
    <3>2. OneHolder'
          BY <2>1, <3>1, ApartPush DEF OneHolder
    <3> QED BY <2>1, <3>1, <3>2 DEF OnceEach
  <2> QED BY <2>2, <2>3
<1>2. CASE UNCHANGED <<pushed, refused, inbox, batch, dropped, chan, list, removed>>
      BY <1>2 DEF OneHolder, OnceEach
<1>3. CASE DispatcherReceive
  <2>1. /\ batch = <<>> /\ batch' = inbox /\ inbox' = <<>>
        /\ UNCHANGED <<pushed, refused, dropped, chan, list, removed>>
        BY <1>3 DEF DispatcherReceive
  <2>2. Elements(batch) = {} /\ Elements(inbox') = {} /\ IsInjective(inbox')
        BY <2>1, NothingIn
  <2>3. OneHolder'
        BY <2>1, <2>2, ApartReceive DEF OneHolder
  <2> QED BY <2>1, <2>2, <2>3 DEF OnceEach
<1> DEFINE h == Head(batch)
<1>4. ASSUME batch # <<>>, NextOfBatch
      PROVE /\ h \in Elements(batch) /\ h \in Tasks /\ IsInjective(batch')
            /\ Elements(batch') = Elements(batch) \ {h}
      BY <1>4, TakeOut DEF NextOfBatch, TypeOK, OnceEach
<1>5. CASE HandOver
  <2> DEFINE c == Candidate
  <2>1. /\ batch # <<>> /\ NextOfBatch /\ c \in Workers
        /\ chan' = [chan EXCEPT ![c] = Append(@, h)]
        /\ UNCHANGED <<pushed, refused, inbox, dropped, list, removed>>
        BY <1>5, CandidateIs DEF HandOver
  <2>2. /\ h \in Elements(batch) /\ h \in Tasks /\ IsInjective(batch')
        /\ Elements(batch') = Elements(batch) \ {h}
        BY <1>4, <2>1
  <2> HIDE DEF h, c
  <2>3. h \notin Elements(chan[c])
        BY <2>1, <2>2 DEF OneHolder, Apart, InEach
  <2>4. /\ Elements(Append(chan[c], h)) = Elements(chan[c]) \cup {h}
        /\ IsInjective(Append(chan[c], h))
        BY <2>1, <2>2, <2>3, PutIn DEF TypeOK, OnceEach
  <2>5. \A w \in Workers : chan'[w] = IF w = c THEN Append(chan[c], h) ELSE chan[w]
        BY <2>1 DEF TypeOK
  <2>6. \A w \in Workers :
          InEach(chan')[w] = IF w = c THEN InEach(chan)[w] \cup {h} ELSE InEach(chan)[w]
        BY <2>4, <2>5 DEF InEach
  <2>7. OneHolder'
    <3>1. Apart(pushed, Elements(inbox), Elements(batch) \ {h}, InEach(chan'), InEach(list),
                refused, dropped, removed)
          BY <2>1, <2>2, <2>6, ApartHandOver DEF OneHolder
    <3> QED BY <2>1, <2>2, <3>1 DEF OneHolder
  <2>8. \A w \in Workers : IsInjective(chan'[w])
        BY <2>4, <2>5 DEF OnceEach
  <2> QED BY <2>1, <2>2, <2>7, <2>8 DEF OnceEach
<1>6. CASE GiveUp
  <2>1. /\ batch # <<>> /\ NextOfBatch /\ dropped' = dropped \cup {h}
        /\ UNCHANGED <<pushed, refused, inbox, chan, list, removed>>
        BY <1>6 DEF GiveUp
  <2>2. /\ h \in Elements(batch) /\ IsInjective(batch')
        /\ Elements(batch') = Elements(batch) \ {h}
        BY <1>4, <2>1
  <2> HIDE DEF h
  <2>3. OneHolder'
        BY <2>1, <2>2, ApartGiveUp DEF OneHolder
  <2> QED BY <2>1, <2>2, <2>3 DEF OnceEach
\* A worker takes M out of its channel.
<1>7. ASSUME NEW w \in Workers, NEW M, M \subseteq Elements(chan[w]),
             Elements(chan'[w]) = Elements(chan[w]) \ M, IsInjective(chan'[w]),
             Elements(list'[w]) = Elements(list[w]) \cup M, IsInjective(list'[w]),
             \A v \in Workers : v # w => chan'[v] = chan[v] /\ list'[v] = list[v],
             UNCHANGED <<pushed, refused, inbox, batch, dropped, removed>>
      PROVE OneHolder' /\ OnceEach'
  <2> DEFINE I == Elements(inbox)   B == Elements(batch)
             C == InEach(chan)     C2 == InEach(chan')
             L == InEach(list)     L2 == InEach(list')
  <2>1. C2[w] \subseteq C[w] /\ L2[w] = L[w] \cup (C[w] \ C2[w])
        BY <1>7 DEF InEach
  <2>2. \A v \in Workers : v # w => C2[v] = C[v] /\ L2[v] = L[v]
        BY <1>7 DEF InEach
  <2>4. Apart(pushed, I, B, C2, L2, refused, dropped, removed)
    <3>1. Apart(pushed, I, B, C, L, refused, dropped, removed)
          BY DEF OneHolder
    <3> HIDE DEF I, B, C, C2, L, L2
    <3> QED BY <2>1, <2>2, <3>1, ApartTake
  <2>5. OnceEach'
        BY <1>7 DEF OnceEach
  <2> QED BY <1>7, <2>4, <2>5 DEF OneHolder
<1>8. ASSUME NEW w \in Workers, TakeAll(w) PROVE OneHolder' /\ OnceEach'
  <2>1. /\ list[w] = <<>> /\ list'[w] = chan[w] /\ chan'[w] = <<>>
        /\ \A v \in Workers : v # w => chan'[v] = chan[v] /\ list'[v] = list[v]
        /\ UNCHANGED <<pushed, refused, inbox, batch, dropped, removed>>
        BY <1>8 DEF TakeAll, TypeOK
  <2> DEFINE M == Elements(chan[w])
  <2>2. /\ Elements(chan'[w]) = M \ M /\ IsInjective(chan'[w])
        /\ Elements(list'[w]) = Elements(list[w]) \cup M /\ IsInjective(list'[w])
        BY <2>1, NothingIn DEF OnceEach
  <2> QED BY <1>7, <2>1, <2>2
<1>9. ASSUME NEW w \in Workers, TakeOne(w) PROVE OneHolder' /\ OnceEach'
  <2> DEFINE t == Head(chan[w])
  <2>1. /\ chan[w] # <<>> /\ list'[w] = Append(list[w], t) /\ chan'[w] = Tail(chan[w])
        /\ \A v \in Workers : v # w => chan'[v] = chan[v] /\ list'[v] = list[v]
        /\ UNCHANGED <<pushed, refused, inbox, batch, dropped, removed>>
        BY <1>9 DEF TakeOne, TypeOK
  <2>2. /\ t \in Elements(chan[w]) /\ t \in Tasks
        /\ Elements(chan'[w]) = Elements(chan[w]) \ {t} /\ IsInjective(chan'[w])
        BY <2>1, TakeOut DEF TypeOK, OnceEach
  <2> HIDE DEF t
  <2>3. t \notin Elements(list[w])
        BY <2>2 DEF OneHolder, Apart, InEach
  <2>4. Elements(list'[w]) = Elements(list[w]) \cup {t} /\ IsInjective(list'[w])
        BY <2>1, <2>2, <2>3, PutIn DEF TypeOK, OnceEach
  <2>5. {t} \subseteq Elements(chan[w])
        BY <2>2
  <2> QED BY <1>7, <2>1, <2>2, <2>4, <2>5
<1>10. ASSUME NEW w \in Workers, NEW i \in finished[w], RemoveFinished(w, i)
       PROVE OneHolder' /\ OnceEach'
  <2> DEFINE t == list[w][i]
  <2>1. /\ i \in DOMAIN list[w] /\ list'[w] = SwapRemove(list[w], i)
        /\ \A v \in Workers : v # w => list'[v] = list[v]
        /\ removed' = removed \cup {t}
        /\ UNCHANGED <<pushed, refused, inbox, batch, dropped, chan>>
        BY <1>10 DEF RemoveFinished, TypeOK, FinishedAreNoted
  <2>2. Elements(list'[w]) = Elements(list[w]) \ {t} /\ IsInjective(list'[w])
        BY <2>1, SwapOut DEF TypeOK, OnceEach
  <2>3. t \in InEach(list)[w]
        BY <2>1 DEF InEach, Elements
  <2> HIDE DEF t
  <2>4. \A v \in Workers :
          InEach(list')[v] = IF v = w THEN InEach(list)[v] \ {t} ELSE InEach(list)[v]
        BY <2>1, <2>2 DEF InEach
  <2>5. Apart(pushed, Elements(inbox), Elements(batch), InEach(chan), InEach(list'),
              refused, dropped, removed \cup {t})
        BY <2>3, <2>4, ApartRemove DEF OneHolder
  <2>6. OnceEach'
        BY <2>1, <2>2 DEF OnceEach
  <2> QED BY <2>1, <2>5, <2>6 DEF OneHolder
<1>11. CASE Dispatcher
  <2>1. CASE TryNext
        BY <1>2, <2>1 DEF TryNext
  <2> QED BY <1>3, <1>5, <1>6, <1>11, <2>1 DEF Dispatcher
<1>12. ASSUME NEW w \in Workers, Worker(w) PROVE OneHolder' /\ OnceEach'
  <2>1. CASE TakeNone(w) \/ PollTask(w) \/ EndPolls(w) \/ Yield(w)
        BY <1>2, <2>1 DEF TakeNone, PollTask, EndPolls, Yield
  <2> QED BY <1>8, <1>9, <1>10, <1>12, <2>1 DEF Worker
<1>13. ASSUME NEW t \in Tasks, Stop(t) PROVE OneHolder' /\ OnceEach'
       BY <1>2, <1>13 DEF Stop
<1> QED BY <1>1, <1>2, <1>11, <1>12, <1>13 DEF Next

\* ...and nothing is noted as finished or done.
LEMMA OrchestratorNotesInit == Init => FinishedAreNoted /\ DoneAreListed
<1> SUFFICES ASSUME Init PROVE FinishedAreNoted /\ DoneAreListed
    OBVIOUS
<1>1. removed = {} /\ done = {} /\ \A w \in Workers : at[w] = "take"
      BY DEF Init
<1> QED BY <1>1 DEF FinishedAreNoted, DoneAreListed

\* What a worker takes out of its channel has not been polled before.
LEMMA TakenAreFresh ==
  ASSUME OneHolder, DoneAreListed, NEW w \in Workers, NEW t \in Elements(chan[w])
  PROVE t \notin done
<1>1. t \in InEach(chan)[w] /\ \A v \in Workers : InEach(list)[v] = Elements(list[v])
      BY DEF InEach
<1>2. t \notin removed /\ \A v \in Workers : t \notin Elements(list[v])
      BY <1>1 DEF OneHolder, Apart
<1> QED BY <1>2 DEF DoneAreListed

\* A task is in the list of one worker only.
LEMMA ListedOnce ==
  ASSUME OneHolder, NEW v \in Workers, NEW w \in Workers, v # w
  PROVE Elements(list[v]) \cap Elements(list[w]) = {}
  BY DEF OneHolder, Apart, InEach

\* A poll that finds a task finished notes its position; the removals leave the
\* notes below the position they visit true, since the task that swap_remove
\* moves there comes from above.
LEMMA OrchestratorNotesStep ==
  OrchestratorInv /\ [Next]_vars => FinishedAreNoted' /\ DoneAreListed'
<1> SUFFICES ASSUME OrchestratorInv, [Next]_vars PROVE FinishedAreNoted' /\ DoneAreListed'
    OBVIOUS
<1> USE DEF vars, dispatchVars, workerVars
<1>0. TypeOK /\ OneHolder /\ OnceEach /\ FinishedAreNoted /\ DoneAreListed
      BY DEF OrchestratorInv
<1>1. CASE UNCHANGED <<list, at, finished, done, removed>>
      BY <1>0, <1>1 DEF FinishedAreNoted, DoneAreListed
\* The worker w begins a round: none of its tasks has said it is finished.
<1>2. ASSUME NEW w \in Workers, BeginRound(w), Elements(list'[w]) \cap done = {},
             \A v \in Workers : Elements(list[v]) \subseteq Elements(list'[v]),
             \A v \in Workers : v # w => list'[v] = list[v],
             UNCHANGED <<done, removed>>
      PROVE FinishedAreNoted' /\ DoneAreListed'
  <2>1. /\ at'[w] = "poll" /\ finished'[w] = {}
        /\ \A v \in Workers : v # w => at'[v] = at[v] /\ finished'[v] = finished[v]
        BY <1>0, <1>2 DEF BeginRound, TypeOK
  <2>2. {i \in DOMAIN list'[w] : list'[w][i] \in done'} = {}
        BY <1>2 DEF Elements
  <2>3. FinishedAreNoted'
        BY <1>0, <1>2, <2>1, <2>2 DEF FinishedAreNoted
  <2>4. DoneAreListed'
        BY <1>0, <1>2, <2>1 DEF DoneAreListed
  <2> QED BY <2>3, <2>4
<1>3. ASSUME NEW w \in Workers, TakeAll(w) PROVE FinishedAreNoted' /\ DoneAreListed'
  <2>1. /\ BeginRound(w) /\ list[w] = <<>> /\ list'[w] = chan[w]
        /\ \A v \in Workers : v # w => list'[v] = list[v]
        /\ UNCHANGED <<done, removed>>
        BY <1>0, <1>3 DEF TakeAll, TypeOK
  <2>2. Elements(list'[w]) \cap done = {}
        BY <1>0, <2>1, TakenAreFresh
  <2>3. \A v \in Workers : Elements(list[v]) \subseteq Elements(list'[v])
        BY <2>1, NothingIn
  <2> QED BY <1>2, <2>1, <2>2, <2>3
<1>4. ASSUME NEW w \in Workers, TakeOne(w) PROVE FinishedAreNoted' /\ DoneAreListed'
  <2>1. /\ at[w] = "take" /\ chan[w] # <<>> /\ list'[w] = Append(list[w], Head(chan[w]))
        /\ \A v \in Workers : v # w => list'[v] = list[v]
        /\ UNCHANGED <<at, finished, done, removed>>
        BY <1>0, <1>4 DEF TakeOne, TypeOK
  <2>2. Head(chan[w]) \in Elements(chan[w]) /\ Head(chan[w]) \in Tasks
        BY <1>0, <2>1, TakeOut DEF TypeOK
  <2>3. Elements(list'[w]) = Elements(list[w]) \cup {Head(chan[w])}
        BY <1>0, <2>1, <2>2, PutIn DEF TypeOK
  <2>4. Elements(list'[w]) \cap done = {}
        BY <1>0, <2>1, <2>2, <2>3, TakenAreFresh DEF DoneAreListed
  <2>5. FinishedAreNoted'
        BY <1>0, <2>1 DEF FinishedAreNoted
  <2>6. DoneAreListed'
        BY <1>0, <2>1, <2>3, <2>4 DEF DoneAreListed
  <2> QED BY <2>5, <2>6
<1>5. ASSUME NEW w \in Workers, TakeNone(w) PROVE FinishedAreNoted' /\ DoneAreListed'
  <2>1. BeginRound(w) /\ at[w] = "take" /\ UNCHANGED <<list, done, removed>>
        BY <1>5 DEF TakeNone
  <2>2. Elements(list'[w]) \cap done = {}
        BY <1>0, <2>1 DEF DoneAreListed
  <2> QED BY <1>2, <2>1, <2>2
<1>6. ASSUME NEW w \in Workers, PollTask(w) PROVE FinishedAreNoted' /\ DoneAreListed'
  <2> DEFINE i == cursor[w]
             t == list[w][i]
  <2>1. CASE UNCHANGED <<finished, done>>
        BY <1>1, <1>6, <2>1 DEF PollTask
  <2>2. CASE finished' = [finished EXCEPT ![w] = @ \cup {i}] /\ done' = done \cup {t}
    <3>1. at[w] = "poll" /\ i \in DOMAIN list[w] /\ UNCHANGED <<list, at, removed>>
          BY <1>0, <1>6 DEF PollTask, TypeOK
    <3>2. t \in Elements(list[w])
          BY <3>1 DEF Elements
    <3>3. /\ finished'[w] = finished[w] \cup {i}
          /\ \A v \in Workers : v # w => finished'[v] = finished[v]
          BY <1>0, <2>2 DEF TypeOK
    <3>4. \A j \in DOMAIN list[w] : list[w][j] = t => j = i
          BY <1>0, <3>1 DEF OnceEach, IsInjective
    <3>5. \A v \in Workers : v # w => t \notin Elements(list[v])
          BY <1>0, <3>2, ListedOnce
    <3> HIDE DEF i, t
    <3>6. finished'[w] = {j \in DOMAIN list'[w] : list'[w][j] \in done'}
      <4>1. finished[w] = {j \in DOMAIN list[w] : list[w][j] \in done}
            BY <1>0, <3>1 DEF FinishedAreNoted
      <4>2. list[w][i] = t
            BY DEF i, t
      <4> QED BY <2>2, <3>1, <3>3, <3>4, <4>1, <4>2
    <3>7. ASSUME NEW v \in Workers, v # w, at'[v] \in {"poll", "remove"}
          PROVE finished'[v] = {j \in DOMAIN list'[v] : list'[v][j] \in done'}
      <4>1. \A j \in DOMAIN list[v] : list[v][j] # t
            BY <3>5, <3>7 DEF Elements
      <4>2. finished[v] = {j \in DOMAIN list[v] : list[v][j] \in done}
            BY <1>0, <3>1, <3>7 DEF FinishedAreNoted
      <4> QED BY <2>2, <3>1, <3>3, <3>7, <4>1, <4>2
    <3>8. FinishedAreNoted'
          BY <3>6, <3>7 DEF FinishedAreNoted
    <3>9. ASSUME NEW v \in Workers, at'[v] = "take" PROVE Elements(list'[v]) \cap done' = {}
      <4>1. v # w
            BY <3>1, <3>9
      <4>2. Elements(list[v]) \cap done = {}
            BY <1>0, <3>1, <3>9 DEF DoneAreListed
      <4> QED BY <2>2, <3>1, <3>5, <4>1, <4>2
    <3>10. DoneAreListed'
           BY <1>0, <2>2, <3>1, <3>2, <3>9 DEF DoneAreListed
    <3> QED BY <3>8, <3>10
  <2> QED BY <1>6, <2>1, <2>2 DEF PollTask
<1>7. ASSUME NEW w \in Workers, EndPolls(w) PROVE FinishedAreNoted' /\ DoneAreListed'
  <2>1. /\ at[w] = "poll" /\ at'[w] = "remove" /\ \A v \in Workers : v # w => at'[v] = at[v]
        /\ UNCHANGED <<list, finished, done, removed>>
        BY <1>0, <1>7 DEF EndPolls, TypeOK
  <2>2. FinishedAreNoted'
        BY <1>0, <2>1 DEF FinishedAreNoted
  <2>3. DoneAreListed'
        BY <1>0, <2>1 DEF DoneAreListed
  <2> QED BY <2>2, <2>3
<1>8. ASSUME NEW w \in Workers, NEW i \in finished[w], RemoveFinished(w, i)
      PROVE FinishedAreNoted' /\ DoneAreListed'
  <2> DEFINE s == list[w]
             r == list'[w]
  <2>1. /\ at[w] = "remove" /\ r = SwapRemove(s, i) /\ s \in Seq(Tasks)
        /\ \A v \in Workers : v # w => list'[v] = list[v] /\ finished'[v] = finished[v]
        /\ finished'[w] = finished[w] \ {i} /\ removed' = removed \cup {s[i]}
        /\ UNCHANGED <<at, done>>
        BY <1>0, <1>8 DEF RemoveFinished, TypeOK
  <2>2. \A j \in finished[w] : j <= i
        BY <1>8 DEF RemoveFinished
  <2>3. finished[w] = {j \in DOMAIN s : s[j] \in done}
        BY <1>0, <2>1 DEF FinishedAreNoted
  <2>4. i \in DOMAIN s /\ s[i] \in done
        BY <2>3
  <2>5. /\ DOMAIN r = 1 .. Len(s) - 1
        /\ \A j \in 1 .. Len(s) - 1 : r[j] = IF j = i THEN s[Len(s)] ELSE s[j]
        /\ Elements(r) = Elements(s) \ {s[i]}
        BY <1>0, <2>1, <2>4, SwapOut DEF OnceEach
  <2>6. Len(s) \in Nat /\ DOMAIN s = 1 .. Len(s) /\ i \in 1 .. Len(s)
        BY <2>1, <2>4, LenProperties
  <2> HIDE DEF s, r
  <2>7. ASSUME NEW j \in 1 .. Len(s) - 1
        PROVE r[j] \in done <=> j \in finished[w] \ {i}
    <3>1. CASE j = i
          BY <2>2, <2>3, <2>5, <2>6, <3>1
    <3>2. CASE j # i
          BY <2>3, <2>5, <2>6, <3>2
    <3> QED BY <3>1, <3>2
  <2>8. \A j \in finished[w] \ {i} : j \in 1 .. Len(s) - 1
        BY <2>2, <2>3, <2>6
  <2>9. finished'[w] = {j \in DOMAIN r : r[j] \in done'}
        BY <2>1, <2>5, <2>7, <2>8
  <2>10. FinishedAreNoted'
         BY <1>0, <2>1, <2>9 DEF FinishedAreNoted, r
  <2>11. DoneAreListed'
    <3>1. removed' \subseteq done'
          BY <1>0, <2>1, <2>4 DEF DoneAreListed
    <3>2. ASSUME NEW t \in done' PROVE t \in removed' \/ \E v \in Workers : t \in Elements(list'[v])
      <4>1. CASE t \in removed \/ t = s[i]
            BY <2>1, <4>1
      <4>2. CASE t \in Elements(s) /\ t # s[i]
            BY <2>5, <4>2 DEF r
      <4>3. CASE \E v \in Workers : v # w /\ t \in Elements(list[v])
            BY <2>1, <4>3
      <4> QED BY <1>0, <2>1, <3>2, <4>1, <4>2, <4>3 DEF DoneAreListed, s
    <3>3. ASSUME NEW v \in Workers, at'[v] = "take" PROVE Elements(list'[v]) \cap done' = {}
      <4>1. v # w
            BY <2>1, <3>3
      <4> QED BY <1>0, <2>1, <3>3, <4>1 DEF DoneAreListed
    <3> QED BY <3>1, <3>2, <3>3 DEF DoneAreListed
  <2> QED BY <2>10, <2>11
<1>9. ASSUME NEW w \in Workers, Yield(w) PROVE FinishedAreNoted' /\ DoneAreListed'
  <2>1. /\ at[w] = "remove" /\ finished[w] = {} /\ at'[w] = "take"
        /\ \A v \in Workers : v # w => at'[v] = at[v]
        /\ UNCHANGED <<list, finished, done, removed>>
        BY <1>0, <1>9 DEF Yield, TypeOK
  <2>2. Elements(list[w]) \cap done = {}
        BY <1>0, <2>1 DEF FinishedAreNoted, Elements
  <2>3. FinishedAreNoted'
        BY <1>0, <2>1 DEF FinishedAreNoted
  <2>4. DoneAreListed'
        BY <1>0, <2>1, <2>2 DEF DoneAreListed
  <2> QED BY <2>3, <2>4
<1>10. CASE Dispatcher
       BY <1>1, <1>10 DEF Dispatcher, DispatcherReceive, HandOver, TryNext, GiveUp
<1>11. ASSUME NEW w \in Workers, Worker(w) PROVE FinishedAreNoted' /\ DoneAreListed'
       BY <1>3, <1>4, <1>5, <1>6, <1>7, <1>8, <1>9, <1>11 DEF Worker
<1>12. ASSUME NEW t \in Tasks, Push(t) \/ Stop(t) PROVE FinishedAreNoted' /\ DoneAreListed'
       BY <1>1, <1>12 DEF Push, Stop
<1> QED BY <1>1, <1>10, <1>11, <1>12 DEF Next

\* Every step keeps the whole invariant.
LEMMA OrchestratorInductive ==
  /\ Init => OrchestratorInv
  /\ OrchestratorInv /\ [Next]_vars => OrchestratorInv'
<1>1. Init => OrchestratorInv
      BY OrchestratorTypeInit, OrchestratorHolderInit, OrchestratorNotesInit
      DEF OrchestratorInv
<1>2. OrchestratorInv /\ [Next]_vars => OrchestratorInv'
      BY OrchestratorTypeStep, OrchestratorHolderStep, OrchestratorNotesStep
      DEF OrchestratorInv
<1> QED BY <1>1, <1>2

\* It holds all the time.
LEMMA OrchestratorInvHolds == Spec => []OrchestratorInv
  BY OrchestratorInductive, PTL DEF Spec

-----------------------------------------------------------------------------
\* Every channel stays within its bound and every worker's list, notes and cursor
\* are of their types, whatever the numbers of workers and tasks.
THEOREM OrchestratorTypeCorrect == Spec => []TypeOK
<1>1. OrchestratorInv => TypeOK
      BY DEF OrchestratorInv
<1> QED BY <1>1, OrchestratorInvHolds, PTL

\* A worker's notes name the tasks that said they are finished, and only those,
\* before, between and after its calls of swap_remove.
THEOREM FinishedNotesHold == Spec => []FinishedAreNoted
<1>1. OrchestratorInv => FinishedAreNoted
      BY DEF OrchestratorInv
<1> QED BY <1>1, OrchestratorInvHolds, PTL

(* Counting the places of a task.                                           *)

\* A set of one place counts one.
LEMMA CountOne ==
  ASSUME NEW S, NEW x, \A y \in S : y = x
  PROVE Cardinality(S) = IF x \in S THEN 1 ELSE 0
<1>1. CASE S = {}
      BY <1>1, FS_EmptySet
<1>2. CASE S # {}
  <2>1. S = {x}
        BY <1>2
  <2> QED BY <2>1, FS_Singleton
<1> QED BY <1>1, <1>2

\* A task in a set has one place there.
LEMMA CountInSet ==
  ASSUME NEW S, NEW t PROVE Cardinality({t} \cap S) = IF t \in S THEN 1 ELSE 0
<1>1. Cardinality({t} \cap S) = IF t \in {t} \cap S THEN 1 ELSE 0
      BY CountOne
<1> QED BY <1>1

\* A task in a queue that holds none twice has one place there.
LEMMA CountInSeq ==
  ASSUME NEW s, IsInjective(s), NEW t
  PROVE Cardinality(Positions(t, s)) = IF t \in Elements(s) THEN 1 ELSE 0
<1>1. CASE t \in Elements(s)
  <2>1. PICK i \in DOMAIN s : s[i] = t
        BY <1>1 DEF Elements
  <2>2. Positions(t, s) = {i}
        BY <2>1 DEF Positions, IsInjective
  <2> QED BY <1>1, <2>2, FS_Singleton
<1>2. CASE t \notin Elements(s)
  <2>1. Positions(t, s) = {}
        BY <1>2 DEF Positions, Elements
  <2> QED BY <1>2, <2>1, FS_EmptySet
<1> QED BY <1>1, <1>2

\* A task in one of the queues of the workers has one place in all of them.
LEMMA CountInEach ==
  ASSUME NEW seqs, NEW t, \A w \in Workers : IsInjective(seqs[w]),
         \A v, w \in Workers : v # w => Elements(seqs[v]) \cap Elements(seqs[w]) = {}
  PROVE Cardinality(Places(t, seqs))
          = IF \E w \in Workers : t \in Elements(seqs[w]) THEN 1 ELSE 0
<1>1. CASE \E w \in Workers : t \in Elements(seqs[w])
  <2>1. PICK w \in Workers : t \in Elements(seqs[w])
        BY <1>1
  <2>2. PICK i \in DOMAIN seqs[w] : seqs[w][i] = t
        BY <2>1 DEF Elements
  <2>3. Positions(t, seqs[w]) = {i}
        BY <2>2 DEF Positions, IsInjective
  <2>4. \A v \in Workers : v # w => Positions(t, seqs[v]) = {}
        BY <2>1 DEF Positions, Elements
  <2>5. Places(t, seqs) = {<<w, i>>}
        BY <2>3, <2>4 DEF Places
  <2> QED BY <1>1, <2>5, FS_Singleton
<1>2. CASE ~(\E w \in Workers : t \in Elements(seqs[w]))
  <2>1. \A w \in Workers : Positions(t, seqs[w]) = {}
        BY <1>2 DEF Positions, Elements
  <2>2. Places(t, seqs) = {}
        BY <2>1 DEF Places
  <2> QED BY <1>2, <2>2, FS_EmptySet
<1> QED BY <1>1, <1>2

\* One holder, and one place there, make one copy of every task that was pushed.
LEMMA OneHolderCounts == OneHolder /\ OnceEach /\ DoneAreListed => Accounted
<1> SUFFICES ASSUME OneHolder, OnceEach, DoneAreListed PROVE Accounted
    OBVIOUS
<1>1. ASSUME NEW t \in Tasks PROVE Copies(t) = IF t \in pushed THEN 1 ELSE 0
  <2> DEFINE inChan == \E w \in Workers : t \in Elements(chan[w])
             inList == \E w \in Workers : t \in Elements(list[w])
  <2>1. /\ Cardinality(Positions(t, inbox)) = IF t \in Elements(inbox) THEN 1 ELSE 0
        /\ Cardinality(Positions(t, batch)) = IF t \in Elements(batch) THEN 1 ELSE 0
        BY CountInSeq DEF OnceEach
  <2>2. /\ Cardinality({t} \cap refused) = IF t \in refused THEN 1 ELSE 0
        /\ Cardinality({t} \cap dropped) = IF t \in dropped THEN 1 ELSE 0
        /\ Cardinality({t} \cap removed) = IF t \in removed THEN 1 ELSE 0
        BY CountInSet
  <2>3. Cardinality(Places(t, chan)) = IF inChan THEN 1 ELSE 0
    <3>1. \A v, w \in Workers : v # w => Elements(chan[v]) \cap Elements(chan[w]) = {}
          BY DEF OneHolder, Apart, InEach
    <3> QED BY <3>1, CountInEach DEF OnceEach
  <2>4. Cardinality(Places(t, list)) = IF inList THEN 1 ELSE 0
    <3>1. \A v, w \in Workers : v # w => Elements(list[v]) \cap Elements(list[w]) = {}
          BY ListedOnce
    <3> QED BY <3>1, CountInEach DEF OnceEach
  <2>5. t \in pushed <=> \/ t \in Elements(inbox) \/ t \in Elements(batch) \/ inChan \/ inList
                         \/ t \in refused \/ t \in dropped \/ t \in removed
        BY DEF OneHolder, Apart, InEach
  <2>6. \* no two of them
        /\ t \in Elements(inbox) =>
             t \notin Elements(batch) \cup refused \cup dropped \cup removed /\ ~inChan /\ ~inList
        /\ t \in Elements(batch) =>
             t \notin refused \cup dropped \cup removed /\ ~inChan /\ ~inList
        /\ t \in refused => t \notin dropped \cup removed /\ ~inChan /\ ~inList
        /\ t \in dropped => t \notin removed /\ ~inChan /\ ~inList
        /\ t \in removed => ~inChan /\ ~inList
        BY DEF OneHolder, Apart, InEach
  <2>7. ~(inChan /\ inList)
        BY DEF OneHolder, Apart, InEach
  <2> HIDE DEF inChan, inList
  <2> QED BY <2>1, <2>2, <2>3, <2>4, <2>5, <2>6, <2>7 DEF Copies
<1> QED BY <1>1 DEF Accounted, DoneAreListed

\* No task is lost, kept twice or polled by two workers on its way through inbox,
\* batch, channels and lists, and none is let go of before it is finished.
THEOREM TasksAccounted == Spec => []Accounted
<1>1. OrchestratorInv => Accounted
      BY OneHolderCounts DEF OrchestratorInv
<1> QED BY <1>1, OrchestratorInvHolds, PTL

-----------------------------------------------------------------------------
(* The steps of the orchestrator are steps in the lives of its tasks.       *)

Listed(t) == \E w \in Workers : t \in Elements(list[w])

\* A task has a position where it is.
LEMMA PositionsIn == \A t, s : Positions(t, s) # {} <=> t \in Elements(s)
  BY DEF Positions, Elements

\* The phase of a task, now
LEMMA PhaseIs ==
  ASSUME NEW t
  PROVE Phase(t) = IF Listed(t) THEN IF t \in done THEN "done" ELSE "run"
                   ELSE IF t \in removed THEN "gone"
                   ELSE IF t \in dropped THEN "dropped"
                   ELSE IF t \in refused THEN "refused"
                   ELSE IF t \in pushed THEN "queued" ELSE "new"
<1>1. (\E w \in Workers : Positions(t, list[w]) # {}) <=> Listed(t)
      BY PositionsIn DEF Listed
<1> QED BY <1>1 DEF Phase

\* and after a step.
LEMMA NextPhaseIs ==
  ASSUME NEW t
  PROVE Phase(t)' = IF Listed(t)' THEN IF t \in done' THEN "done" ELSE "run"
                    ELSE IF t \in removed' THEN "gone"
                    ELSE IF t \in dropped' THEN "dropped"
                    ELSE IF t \in refused' THEN "refused"
                    ELSE IF t \in pushed' THEN "queued" ELSE "new"
<1>1. (\E w \in Workers : Positions(t, list'[w]) # {}) <=> Listed(t)'
      BY PositionsIn DEF Listed
<1> QED BY <1>1 DEF Phase

\* A task that no variable distinguishes from before the step is in the phase it was in.
LEMMA PhaseStays ==
  ASSUME NEW t, Listed(t)' <=> Listed(t), t \in done' <=> t \in done,
         t \in removed' <=> t \in removed, t \in dropped' <=> t \in dropped,
         t \in refused' <=> t \in refused, t \in pushed' <=> t \in pushed
  PROVE Phase(t)' = Phase(t)
  BY PhaseIs, NextPhaseIs

\* What is listed depends on the lists only.
LEMMA ListedStays == UNCHANGED list => \A t : Listed(t)' <=> Listed(t)
  BY DEF Listed

\* Where a task is in one place, it is in no other.
LEMMA QueuedIs ==
  ASSUME OneHolder, NEW t \in Tasks,
         t \in Elements(batch) \/ \E w \in Workers : t \in Elements(chan[w])
  PROVE /\ ~Listed(t) /\ t \notin removed /\ t \notin dropped /\ t \notin refused
        /\ t \in pushed
<1>1. \A w \in Workers : InEach(list)[w] = Elements(list[w]) /\ InEach(chan)[w] = Elements(chan[w])
      BY DEF InEach
<1>2. CASE t \in Elements(batch)
      BY <1>1, <1>2 DEF OneHolder, Apart, Listed
<1>3. CASE \E w \in Workers : t \in Elements(chan[w])
      BY <1>1, <1>3 DEF OneHolder, Apart, Listed
<1> QED BY <1>2, <1>3

\* No task has begun its life.
LEMMA TaskLifeInit == Init => Life!Init
<1> SUFFICES ASSUME Init, NEW t \in Tasks PROVE Phase(t) = "new"
    BY DEF Life!Init
<1>1. ~Listed(t)
      BY NothingIn DEF Init, Listed
<1> QED BY <1>1, PhaseIs DEF Init

\* A step of the orchestrator leads every task one step on, or none.
Led(t) == Phase(t)' = Phase(t) \/ <<Phase(t), Phase(t)'>> \in Life!Steps

\* Every step leads every task on, or leaves it where it is.
LEMMA TaskLifeStep == OrchestratorInv /\ [Next]_vars => \A t \in Tasks : Led(t)
<1> SUFFICES ASSUME OrchestratorInv, [Next]_vars, NEW t \in Tasks PROVE Led(t)
    OBVIOUS
<1> USE DEF vars, dispatchVars, workerVars
<1>0. TypeOK /\ OneHolder /\ OnceEach /\ FinishedAreNoted /\ DoneAreListed
      BY DEF OrchestratorInv
<1>1. CASE UNCHANGED <<pushed, refused, dropped, removed, list, done>>
      BY <1>1, ListedStays, PhaseStays DEF Led
<1>2. ASSUME NEW u \in Tasks, Push(u) PROVE Led(t)
  <2>1. /\ u \notin pushed /\ pushed' = pushed \cup {u}
        /\ refused' = refused \/ refused' = refused \cup {u}
        /\ UNCHANGED <<dropped, removed, list, done>>
        BY <1>2 DEF Push
  <2>2. CASE t = u
    <3>1. ~Listed(t) /\ t \notin removed /\ t \notin dropped /\ t \notin refused
          BY <1>0, <2>1, <2>2 DEF OneHolder, Apart, InEach, Listed
    <3>2. ~Listed(t)'
          BY <2>1, <3>1, ListedStays
    <3>3. Phase(t) = "new"
          BY <2>1, <2>2, <3>1, PhaseIs
    <3>4. Phase(t)' = "queued" \/ Phase(t)' = "refused"
          BY <2>1, <2>2, <3>1, <3>2, NextPhaseIs
    <3> QED BY <3>3, <3>4 DEF Led, Life!Steps
  <2>3. CASE t # u
        BY <2>1, <2>3, ListedStays, PhaseStays DEF Led
  <2> QED BY <2>2, <2>3
<1>3. CASE GiveUp
  <2>1. /\ batch # <<>> /\ dropped' = dropped \cup {Head(batch)}
        /\ UNCHANGED <<pushed, refused, removed, list, done>>
        BY <1>3 DEF GiveUp
  <2>2. CASE t = Head(batch)
    <3>1. t \in Elements(batch)
          BY <1>0, <2>1, <2>2, TakeOut DEF TypeOK
    <3>2. Phase(t) = "queued" /\ ~Listed(t) /\ t \notin removed
          BY <1>0, <3>1, QueuedIs, PhaseIs
    <3>3. Phase(t)' = "dropped"
          BY <2>1, <2>2, <3>2, ListedStays, NextPhaseIs
    <3> QED BY <3>2, <3>3 DEF Led, Life!Steps
  <2>3. CASE t # Head(batch)
        BY <2>1, <2>3, ListedStays, PhaseStays DEF Led
  <2> QED BY <2>2, <2>3
\* The worker w takes some of its channel.
<1>4. ASSUME NEW w \in Workers, Elements(list[w]) \subseteq Elements(list'[w]),
             Elements(list'[w]) \subseteq Elements(list[w]) \cup Elements(chan[w]),
             \A v \in Workers : v # w => list'[v] = list[v],
             UNCHANGED <<pushed, refused, dropped, removed, done>>
      PROVE Led(t)
  <2>1. CASE t \in Elements(list'[w]) /\ t \notin Elements(list[w])
    <3>1. t \in Elements(chan[w])
          BY <1>4, <2>1
    <3>2. Phase(t) = "queued" /\ t \notin done
          BY <1>0, <3>1, QueuedIs, PhaseIs, TakenAreFresh
    <3>3. Listed(t)'
          BY <2>1 DEF Listed
    <3>4. Phase(t)' = "run"
          BY <1>4, <3>2, <3>3, NextPhaseIs
    <3> QED BY <3>2, <3>4 DEF Led, Life!Steps
  <2>2. CASE t \in Elements(list'[w]) <=> t \in Elements(list[w])
    <3>1. Listed(t)' <=> Listed(t)
          BY <1>4, <2>2 DEF Listed
    <3> QED BY <1>4, <3>1, PhaseStays DEF Led
  <2> QED BY <1>4, <2>1, <2>2
<1>5. ASSUME NEW w \in Workers, TakeAll(w) PROVE Led(t)
  <2>1. /\ list[w] = <<>> /\ list'[w] = chan[w]
        /\ \A v \in Workers : v # w => list'[v] = list[v]
        /\ UNCHANGED <<pushed, refused, dropped, removed, done>>
        BY <1>0, <1>5 DEF TakeAll, TypeOK
  <2>2. Elements(list[w]) = {}
        BY <2>1, NothingIn
  <2> QED BY <1>4, <2>1, <2>2
<1>6. ASSUME NEW w \in Workers, TakeOne(w) PROVE Led(t)
  <2>1. /\ chan[w] # <<>> /\ list'[w] = Append(list[w], Head(chan[w]))
        /\ \A v \in Workers : v # w => list'[v] = list[v]
        /\ UNCHANGED <<pushed, refused, dropped, removed, done>>
        BY <1>0, <1>6 DEF TakeOne, TypeOK
  <2>2. Head(chan[w]) \in Elements(chan[w]) /\ Head(chan[w]) \in Tasks
        BY <1>0, <2>1, TakeOut DEF TypeOK
  <2>3. Elements(list'[w]) = Elements(list[w]) \cup {Head(chan[w])}
        BY <1>0, <2>1, <2>2, PutIn DEF TypeOK
  <2> QED BY <1>4, <2>1, <2>2, <2>3
<1>7. ASSUME NEW w \in Workers, PollTask(w) PROVE Led(t)
  <2> DEFINE u == list[w][cursor[w]]
  <2>1. CASE done' = done \cup {u}
    <3>1. cursor[w] \in DOMAIN list[w] /\ UNCHANGED <<pushed, refused, dropped, removed, list>>
          BY <1>0, <1>7 DEF PollTask, TypeOK
    <3>2. CASE t = u /\ t \notin done
      <4>1. Listed(t)
            BY <3>1, <3>2 DEF Listed, Elements
      <4>2. Phase(t) = "run"
            BY <3>2, <4>1, PhaseIs
      <4>3. Phase(t)' = "done"
            BY <2>1, <3>1, <3>2, <4>1, ListedStays, NextPhaseIs
      <4> QED BY <4>2, <4>3 DEF Led, Life!Steps
    <3>3. CASE t # u \/ t \in done
          BY <2>1, <3>1, <3>3, ListedStays, PhaseStays DEF Led
    <3> QED BY <3>2, <3>3
  <2>2. CASE done' = done
        BY <1>1, <1>7, <2>2 DEF PollTask
  <2> QED BY <1>7, <2>1, <2>2 DEF PollTask
<1>8. ASSUME NEW w \in Workers, NEW i \in finished[w], RemoveFinished(w, i) PROVE Led(t)
  <2> DEFINE u == list[w][i]
  <2>1. /\ i \in DOMAIN list[w] /\ u \in done /\ list'[w] = SwapRemove(list[w], i)
        /\ \A v \in Workers : v # w => list'[v] = list[v]
        /\ removed' = removed \cup {u} /\ UNCHANGED <<pushed, refused, dropped, done>>
        BY <1>0, <1>8 DEF RemoveFinished, TypeOK, FinishedAreNoted
  <2>2. Elements(list'[w]) = Elements(list[w]) \ {u} /\ u \in Elements(list[w])
    <3>1. u \in Elements(list[w])
          BY <2>1 DEF Elements
    <3>2. list[w] \in Seq(Tasks) /\ IsInjective(list[w])
          BY <1>0 DEF TypeOK, OnceEach
    <3> QED BY <2>1, <3>1, <3>2, SwapOut
  <2> HIDE DEF u
  <2>3. CASE t = u
    <3>1. Listed(t)
          BY <2>2, <2>3 DEF Listed
    <3>2. \A v \in Workers : v # w => t \notin Elements(list[v])
          BY <1>0, <2>2, <2>3, ListedOnce
    <3>3. ~Listed(t)'
          BY <2>1, <2>2, <2>3, <3>2 DEF Listed
    <3>4. Phase(t) = "done"
          BY <2>1, <2>3, <3>1, PhaseIs
    <3>5. Phase(t)' = "gone"
          BY <2>1, <2>3, <3>3, NextPhaseIs
    <3> QED BY <3>4, <3>5 DEF Led, Life!Steps
  <2>4. CASE t # u
    <3>1. \A v \in Workers : t \in Elements(list'[v]) <=> t \in Elements(list[v])
          BY <2>1, <2>2, <2>4
    <3>2. Listed(t)' <=> Listed(t)
          BY <3>1 DEF Listed
    <3> QED BY <2>1, <2>4, <3>2, PhaseStays DEF Led
  <2> QED BY <2>3, <2>4
<1>9. CASE Dispatcher
  <2>1. CASE DispatcherReceive \/ HandOver \/ TryNext
        BY <1>1, <2>1 DEF DispatcherReceive, HandOver, TryNext
  <2> QED BY <1>3, <1>9, <2>1 DEF Dispatcher
<1>10. ASSUME NEW w \in Workers, Worker(w) PROVE Led(t)
  <2>1. CASE TakeNone(w) \/ EndPolls(w) \/ Yield(w)
        BY <1>1, <2>1 DEF TakeNone, EndPolls, Yield
  <2> QED BY <1>5, <1>6, <1>7, <1>8, <1>10, <2>1 DEF Worker
<1>11. ASSUME NEW u \in Tasks, Stop(u) PROVE Led(t)
       BY <1>1, <1>11 DEF Stop
<1> QED BY <1>1, <1>2, <1>9, <1>10, <1>11 DEF Next

\* Whatever way the dispatcher and the workers take, a task leads the life that
\* the modules of connections and streams take for granted: it is refused at once or
\* queued, dropped on its way or run, and once finished let go of for good.
THEOREM TasksLeadTheirLives == Spec => Life!Lives
<1>1. OrchestratorInv /\ [Next]_vars => [Life!Next]_([t \in Tasks |-> Phase(t)])
  <2> SUFFICES ASSUME OrchestratorInv, [Next]_vars PROVE Life!Next
      OBVIOUS
  <2>1. \A t \in Tasks : Led(t)
        BY TaskLifeStep
  <2> QED BY <2>1 DEF Life!Next, Led
<1> QED BY <1>1, TaskLifeInit, OrchestratorInvHolds, PTL DEF Spec, Life!Lives
=============================================================================
