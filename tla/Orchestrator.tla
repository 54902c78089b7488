---------------------------- MODULE Orchestrator ----------------------------
(***************************************************************************)
(* The orchestrator that polls the connection, send and receive tasks: a   *)
(* shared inbox filled with try_send, a dispatcher that spreads what it    *)
(* finds there over the workers round robin, one bounded channel per       *)
(* worker, and workers that poll every task of their list once a round.    *)
(*                                                                         *)
(* The handle is held by the TokioRuntime resource, and dropping that      *)
(* resource aborts the dispatcher and the workers: that they leave their   *)
(* loops when every sender is gone is not modelled.                        *)
(***************************************************************************)
EXTENDS Naturals, Sequences, FiniteSets

CONSTANTS
  Tasks,       \* the tasks that may be pushed
  N,           \* number of workers
  InboxCap,    \* ORCHESTRATOR_CHANNEL_SIZE
  ChanCap,     \* WORKER_CHANNEL_SIZE
  Budget       \* ready tasks a round can serve on tokio's cooperative budget

ASSUME OrchestratorAssumption ==
  /\ N \in Nat \ {0}
  /\ InboxCap \in Nat \ {0} /\ ChanCap \in Nat \ {0}
  /\ Budget \in Nat

Workers == 0 .. N - 1

VARIABLES
  pushed,      \* tasks given to push_*
  refused,     \* those that came back because the inbox was full
  inbox,       \* the shared channel
  batch,       \* what the dispatcher took out of it
  next,        \* next_worker, modulo the number of workers
  offset,      \* workers that refused the first task of the batch
  dropped,     \* tasks the dispatcher dropped
  chan,        \* the channel of each worker
  list,        \* the tasks each worker polls
  at,          \* where each worker is in its loop
  cursor,      \* the task it polls next
  finished,    \* positions of the tasks that answered they are finished
  spent,       \* tasks of this round that used the budget
  stopped,     \* tasks whose next poll finds the reason to finish
  done,        \* tasks that answered they are finished
  removed      \* tasks a worker removed from its list

dispatchVars == <<inbox, batch, next, offset, dropped>>
workerVars   == <<list, at, cursor, finished, spent, done, removed>>
vars == <<pushed, refused, dispatchVars, chan, workerVars, stopped>>

Init ==
  /\ pushed = {} /\ refused = {} /\ inbox = <<>>
  /\ batch = <<>> /\ next = 0 /\ offset = 0 /\ dropped = {}
  /\ chan = [w \in Workers |-> <<>>] /\ list = [w \in Workers |-> <<>>]
  /\ at = [w \in Workers |-> "take"]
  /\ cursor = [w \in Workers |-> 1] /\ finished = [w \in Workers |-> {}]
  /\ spent = [w \in Workers |-> 0]
  /\ stopped = {} /\ done = {} /\ removed = {}

-----------------------------------------------------------------------------
(* OrchestratorHandle: push_connection, push_receive and push_send differ   *)
(* in the type of the task only.  A refused task goes back to the caller.  *)

\* Fault: the inbox has no bound.
PushUnbounded(t) ==
  /\ t \notin pushed
  /\ pushed' = pushed \cup {t}
  /\ inbox' = Append(inbox, t)
  /\ UNCHANGED <<refused, batch, next, offset, dropped, chan, workerVars, stopped>>

Push(t) ==
  /\ t \notin pushed
  /\ pushed' = pushed \cup {t}
  /\ IF Len(inbox) < InboxCap
     THEN inbox' = Append(inbox, t) /\ UNCHANGED refused
     ELSE refused' = refused \cup {t} /\ UNCHANGED inbox
  /\ UNCHANGED <<batch, next, offset, dropped, chan, workerVars, stopped>>

\* Something happens that ends the task: its component is dropped, its stream
\* or connection is closed.
Stop(t) ==
  /\ t \in pushed \ stopped
  /\ stopped' = stopped \cup {t}
  /\ UNCHANGED <<pushed, refused, dispatchVars, chan, workerVars>>

-----------------------------------------------------------------------------
(* OrchestratorDispatcher::start.                                          *)

\* recv_many takes all there is: MAX_TASKS_PER_BATCH is above InboxCap.
DispatcherReceive ==
  /\ batch = <<>> /\ inbox # <<>>
  /\ batch' = inbox /\ inbox' = <<>> /\ offset' = 0
  /\ UNCHANGED <<pushed, refused, next, dropped, chan, workerVars, stopped>>

\* The first task of the batch is settled, with a worker or dropped.
NextOfBatch == /\ batch' = Tail(batch) /\ offset' = 0 /\ next' = (next + 1) % N

Candidate == (next + offset) % N

\* Fault: a task that a worker took stays first in the batch.
HandOverTwice ==
  /\ batch # <<>>
  /\ Len(chan[Candidate]) < ChanCap
  /\ chan' = [chan EXCEPT ![Candidate] = Append(@, Head(batch))]
  /\ batch' = batch /\ offset' = 0 /\ next' = (next + 1) % N
  /\ UNCHANGED <<pushed, refused, inbox, dropped, workerVars, stopped>>

HandOver ==
  /\ batch # <<>>
  /\ Len(chan[Candidate]) < ChanCap
  /\ chan' = [chan EXCEPT ![Candidate] = Append(@, Head(batch))]
  /\ NextOfBatch
  /\ UNCHANGED <<pushed, refused, inbox, dropped, workerVars, stopped>>

\* The candidate is full: the next worker is tried, at a later instant.
TryNext ==
  /\ batch # <<>>
  /\ Len(chan[Candidate]) >= ChanCap /\ offset < N - 1
  /\ offset' = offset + 1
  /\ UNCHANGED <<pushed, refused, inbox, batch, next, dropped, chan, workerVars, stopped>>

\* The last candidate is full too: the task is dropped, the error logged.
GiveUp ==
  /\ batch # <<>>
  /\ Len(chan[Candidate]) >= ChanCap /\ offset = N - 1
  /\ dropped' = dropped \cup {Head(batch)}
  /\ NextOfBatch
  /\ UNCHANGED <<pushed, refused, inbox, chan, workerVars, stopped>>

-----------------------------------------------------------------------------
(* OrchestratorWorker::start.                                              *)

\* Fault: the round starts with the budget the last one left.
BeginRoundSpent(w) ==
  /\ at' = [at EXCEPT ![w] = "poll"]
  /\ cursor' = [cursor EXCEPT ![w] = 1]
  /\ finished' = [finished EXCEPT ![w] = {}]
  /\ UNCHANGED spent

\* yield_now() has given the budget back.
BeginRound(w) ==
  /\ at' = [at EXCEPT ![w] = "poll"]
  /\ cursor' = [cursor EXCEPT ![w] = 1]
  /\ finished' = [finished EXCEPT ![w] = {}]
  /\ spent' = [spent EXCEPT ![w] = 0]

\* With no task the worker waits on its channel and takes all there is.
TakeAll(w) ==
  /\ at[w] = "take" /\ list[w] = <<>> /\ chan[w] # <<>>
  /\ list' = [list EXCEPT ![w] = chan[w]]
  /\ chan' = [chan EXCEPT ![w] = <<>>]
  /\ BeginRound(w)
  /\ UNCHANGED <<pushed, refused, dispatchVars, stopped, done, removed>>

\* Otherwise try_recv until the channel is empty.
TakeOne(w) ==
  /\ at[w] = "take" /\ list[w] # <<>> /\ chan[w] # <<>>
  /\ list' = [list EXCEPT ![w] = Append(@, Head(chan[w]))]
  /\ chan' = [chan EXCEPT ![w] = Tail(@)]
  /\ UNCHANGED <<pushed, refused, dispatchVars, at, cursor, finished, spent,
                 stopped, done, removed>>

TakeNone(w) ==
  /\ at[w] = "take" /\ list[w] # <<>> /\ chan[w] = <<>>
  /\ BeginRound(w)
  /\ UNCHANGED <<pushed, refused, dispatchVars, chan, list, stopped, done, removed>>

\* poll_once().now_or_never() of one task.  With the budget spent, its channels
\* look empty and it cannot see that it should finish.
PollTask(w) ==
  /\ at[w] = "poll" /\ cursor[w] <= Len(list[w])
  /\ LET t == list[w][cursor[w]] IN
       /\ spent' \in {spent, [spent EXCEPT ![w] = @ + 1]}
       /\ IF t \in stopped /\ spent[w] < Budget
          THEN /\ finished' = [finished EXCEPT ![w] = @ \cup {cursor[w]}]
               /\ done' = done \cup {t}
          ELSE UNCHANGED <<finished, done>>
  /\ cursor' = [cursor EXCEPT ![w] = @ + 1]
  /\ UNCHANGED <<pushed, refused, dispatchVars, chan, list, at, stopped, removed>>

EndPolls(w) ==
  /\ at[w] = "poll" /\ cursor[w] > Len(list[w])
  /\ at' = [at EXCEPT ![w] = "remove"]
  /\ UNCHANGED <<pushed, refused, dispatchVars, chan, list, cursor, finished,
                 spent, stopped, done, removed>>

\* Vec::swap_remove: the last element takes the place of the one removed.
SwapRemove(s, i) == [j \in 1 .. Len(s) - 1 |-> IF j = i THEN s[Len(s)] ELSE s[j]]

\* Fault: the positions are visited in the order they were found.
RemoveFirst(w, i) ==
  /\ at[w] = "remove" /\ i \in finished[w] /\ \A j \in finished[w] : i <= j
  /\ i <= Len(list[w])
  /\ list' = [list EXCEPT ![w] = SwapRemove(@, i)]
  /\ removed' = removed \cup {list[w][i]}
  /\ finished' = [finished EXCEPT ![w] = @ \ {i}]
  /\ UNCHANGED <<pushed, refused, dispatchVars, chan, at, cursor, spent, stopped, done>>

\* The finished tasks are removed from the last to the first.
RemoveFinished(w, i) ==
  /\ at[w] = "remove" /\ i \in finished[w] /\ \A j \in finished[w] : j <= i
  /\ list' = [list EXCEPT ![w] = SwapRemove(@, i)]
  /\ removed' = removed \cup {list[w][i]}
  /\ finished' = [finished EXCEPT ![w] = @ \ {i}]
  /\ UNCHANGED <<pushed, refused, dispatchVars, chan, at, cursor, spent, stopped, done>>

\* yield_now(), and the next round.
Yield(w) ==
  /\ at[w] = "remove" /\ finished[w] = {}
  /\ at' = [at EXCEPT ![w] = "take"]
  /\ UNCHANGED <<pushed, refused, dispatchVars, chan, list, cursor, finished,
                 spent, stopped, done, removed>>

-----------------------------------------------------------------------------
Dispatcher == DispatcherReceive \/ HandOver \/ TryNext \/ GiveUp

Worker(w) ==
  \/ TakeAll(w) \/ TakeOne(w) \/ TakeNone(w)
  \/ PollTask(w) \/ EndPolls(w)
  \/ \E i \in finished[w] : RemoveFinished(w, i)
  \/ Yield(w)

Next ==
  \/ \E t \in Tasks : Push(t) \/ Stop(t)
  \/ Dispatcher
  \/ \E w \in Workers : Worker(w)

Spec == Init /\ [][Next]_vars

\* tokio runs every spawned task that is ready: the dispatcher and each worker.
Fairness == WF_vars(Dispatcher) /\ \A w \in Workers : WF_vars(Worker(w))

FairSpec == Spec /\ Fairness

-----------------------------------------------------------------------------
Positions(t, s) == {i \in DOMAIN s : s[i] = t}

TypeOK ==
  /\ pushed \subseteq Tasks /\ refused \subseteq pushed /\ stopped \subseteq pushed
  /\ done \subseteq Tasks /\ removed \subseteq Tasks /\ dropped \subseteq Tasks
  /\ inbox \in Seq(Tasks) /\ Len(inbox) <= InboxCap
  /\ batch \in Seq(Tasks)
  /\ next \in Workers /\ offset \in Workers
  /\ chan \in [Workers -> Seq(Tasks)] /\ \A w \in Workers : Len(chan[w]) <= ChanCap
  /\ list \in [Workers -> Seq(Tasks)]
  /\ at \in [Workers -> {"take", "poll", "remove"}]
  /\ cursor \in [Workers -> Nat \ {0}]
  /\ finished \in [Workers -> SUBSET Nat]
  /\ spent \in [Workers -> Nat]

\* A worker's notes hold while it removes: each position it noted is that of a
\* task that said it is finished, and each such task in its list is noted,
\* although swap_remove moves other tasks around.
FinishedAreNoted ==
  \A w \in Workers : at[w] \in {"poll", "remove"} =>
     finished[w] = {i \in DOMAIN list[w] : list[w][i] \in done}

\* The places of a task in the channels, or in the lists, of all workers.
Places(t, seqs) == UNION {{w} \X Positions(t, seqs[w]) : w \in Workers}

\* Where a task is, and how often.
Copies(t) ==
  Cardinality(Positions(t, inbox)) + Cardinality(Positions(t, batch))
  + Cardinality(Places(t, chan)) + Cardinality(Places(t, list))
  + Cardinality({t} \cap refused) + Cardinality({t} \cap dropped)
  + Cardinality({t} \cap removed)

\* No task is lost or polled by two workers: a pushed task is in exactly one
\* place, and a task leaves its worker's list only when it said it is finished.
Accounted ==
  /\ \A t \in Tasks : Copies(t) = IF t \in pushed THEN 1 ELSE 0
  /\ removed \subseteq done

\* What has become of a task, its place in a worker's list before all else.
Phase(t) ==
  IF \E w \in Workers : Positions(t, list[w]) # {}
  THEN IF t \in done THEN "done" ELSE "run"
  ELSE IF t \in removed THEN "gone"
  ELSE IF t \in dropped THEN "dropped"
  ELSE IF t \in refused THEN "refused"
  ELSE IF t \in pushed  THEN "queued"
  ELSE "new"

\* The tasks lead the lives their modules take for granted: inbox, batch, channels,
\* lists and noted positions are an implementation of TaskLife.
Life == INSTANCE TaskLife WITH phase <- [t \in Tasks |-> Phase(t)]

ImplementsTaskLife == Life!Spec

\* A task that should finish is found out and removed, wherever it waits.
StoppedIsRemoved ==
  \A t \in Tasks : t \in stopped ~> t \in removed \cup refused \cup dropped
=============================================================================
