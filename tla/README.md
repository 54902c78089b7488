# A verification model of bevy-s2n-quic

bevy-s2n-quic gives Bevy systems QUIC connections and streams as components.
The components are handles: everything that must be awaited happens in *tasks*
that a small pool of orchestrator workers polls on a tokio runtime. A component
and its task share a few bounded channels, some atomic flags and a once-only
state, and meet in no lock. This directory models that machinery in TLA+, checks
small instances with TLC and proves with TLAPS, for every value of the constants, each safety
property those instances were checked for.

Source paths below are relative to `src/` of the crate (`src/src/` in
`PROJECT.json`), and `file.rs:n` is a line at the modelled commit.

## 1. Inventory

### Connection - `common/connection/{mod,task,open_flag,stream_flag,disconnect}.rs`

State. On the Bevy side `QuicConnection` holds the sender of a bounded command
channel, the `pending_stream` flag, the `OpenFlag` and the `OnceLockState` of the
task. On the worker `ConnectionTask` holds the QUIC connection, the receiver, at
most one `buffered_stream` and the private `disconnect_flag`.

Operations. `accept_stream`, `accept_receive_stream`,
`accept_bidirectional_stream` (swap the flag, test `is_open`, `try_send` a command
with the sender of a oneshot), `close`, `get_disconnect_reason`; on the worker
`poll_once`: receive a command, or, if nothing is buffered, accept a stream of the
peer, buffer it and raise the flag; answer commands, publish the end.

Hard. A poll is `poll_once().now_or_never()`: the future is polled once and
dropped, which cancels any await that is not ready together with what the future
owned. While a stream is buffered the task looks at commands only, so flag,
command and buffered stream must stay paired across two threads. A typed accept
may meet a stream of the other kind, or run out of its one-millisecond poll.

Correct when: a stream goes to one attempt at most and is not lost; a buffered
stream can always be asked for; an attempt resolves; the end is reported.

### Orchestrator - `common/orchestrator/{mod,handle}.rs`

State. One bounded inbox, a dispatcher with `next_worker`, a bounded channel per
worker, each worker's list of tasks and of positions that finished this round.

Operations. `push_connection/receive/send` (`try_send`, the task comes back when
it is refused), the dispatcher's batch and round robin with spill-over, the
worker's take, poll, `swap_remove` and `yield_now` loop.

Hard. Channels fill up at different instants, positions are used while
`swap_remove` moves tasks, and a round polls all tasks on one cooperative budget
of tokio, with which channels look empty once it is spent.

Correct when: each pushed task is in exactly one place, only finished tasks leave
a list, and a task that should finish is found.

### Send stream - `common/stream/send.rs`

State. The outbound and control channels, `OnceLockState`; on the worker
`send_buf`, `disconnect_flag` and the QUIC stream.

Operations. `send`, `send_many_drain` (used by `aeronet_session_send`), `close` and
`flush` (blocking sends on the control channel); `poll_once` with an unbiased
select over data and control; `early_close` when the push is refused.

Hard. `send_vectored`, `close` and `flush` are polled once and cancelled; what a
cancelled send leaves in `send_buf` meets the next poll. Either branch of the
select may overtake the other.

Correct when: the packets of a session are handed over in their order, nothing goes out twice or in
another order than it was handed over, no message is skipped while the library takes what it is given,
the end of the task is complete, and a frame does not block for ever.

### Receive stream - `common/stream/receive.rs`

State. The inbound and control channels, `OnceLockState`; on the worker the
buffer of a `receive_vectored`, `disconnect_flag` and the QUIC stream.

Operations. `recv`, `recv_many` (blocking, used by `aeronet_session_recv`),
`stop_send` (blocking); `poll_once` with a biased select, the transfer of a batch
packet by packet, `stop_and_empty` at the end.

Hard. The application reads, blocks and despawns between two packets of a batch;
a full channel drops packets; the end arrives with data; `stop_and_empty` is
awaited between the decision to end and the published reason.

Correct when: order is kept, nothing is missing unless the channel was full, the
reason never overtakes the data, the end is reported, abandoned tasks end.

### Entities and frames - `common/plugin.rs`, `common/attempt.rs`, `common/stream/{mod,plugin,session}.rs`, `common/connection/plugin.rs`, the acceptors

State. An entity holds an *attempt* (a oneshot or a join handle, and whether its
result was taken), then the component or the halves of a stream with an aeronet
`Session`; the systems share nothing but one vector inside `aeronet_session_recv`.

Operations. `PreUpdate`: `aeronet_session_recv` (blocking) and `aeronet_session_send`.
`Update`: the acceptors spawn connections and attempts, the attempt handlers replace
an attempt by what it resolved to or by an error, the disconnect handlers despawn an
entity with a half that has ended, and announce and remove an ended connection.
`PostUpdate`: `Disconnected` is fired for the halves that have ended. The observer of
`Disconnect` calls `stop_send` and `close`.

Hard. What a system commands takes effect at the end of its schedule; tasks end, and
packets arrive, between any two visits of any system. A half that ends between the
two looks of one frame is seen by one of them only. A silent stream blocks the frame
for everybody.

Correct when: an end is announced once and in time, a despawn does not take away
packets the frame could have read, sessions get the packets of their own stream,
attempts resolve, and nothing that has ended stays.

### The other parts

* **Task state** (`common/task_state.rs`): `OnceLockState`, the first reason stays.
* **Endpoints** (`client/mod.rs`, `server/mod.rs`): `open_connection` spawns a tokio task and
  returns an attempt, `accept_connection` looks once whether a connection is there.
* **Runtime, plugins, identifiers, examples**: set-up code and data.

### How they interact

    Bevy frame                       shared                    orchestrator worker
    QuicConnection  --command-->  bounded channel   ------->   ConnectionTask
                    <--flag-----  pending_stream    <-------
    attempt         <-----------  oneshot           <-------
    QuicSendStream  --packets-->  outbound, control ------->   SendTask  --> QUIC
    QuicReceiveStream <-packets-  inbound           <-------   RecTask   <-- QUIC
                    --stop----->  control           ------->
    handlers        <--reason---  OnceLockState     <-------   (all three)
    constructors    --task----->  inbox -> dispatcher -> worker channel -> list

What is hard to test in this code, each with its line and the properties that
watch it, is the `hazards` list of `PROJECT.json`.

## 2. Modules

| Module | Role |
| --- | --- |
| `QuicConnection` | the connection component, its attempts and its task |
| `StreamHandoff` | abstract: what a connection promises about the peer's streams |
| `QuicConnectionProofs` | theorems about `QuicConnection` |
| `Orchestrator` | inbox, dispatcher, worker channels and worker rounds |
| `TaskLife` | abstract: what the orchestrator promises each task |
| `OrchestratorProofs` | theorems about `Orchestrator` |
| `SendStream` | send component, session queue, `SendTask`, QUIC send stream |
| `ReceiveStream` | receive component, `RecTask`, QUIC receive stream |
| `OrderedPipe` | abstract: what a stream's path promises its messages, in either direction |
| `SequencePieces` | fronts, rests and order of sequences, shared by the modules that drain vectors |
| `SequencePiecesProofs` | lemmas about them |
| `EndlessReceive` | the receive half of a stream whose peer may send for ever |
| `SendStreamProofs`, `ReceiveStreamProofs`, `EndlessReceiveProofs` | theorems about the stream halves |
| `EntityFrames` | entities over the frames: attempts, sessions, handlers, events |
| `EntityFramesProofs` | theorems about `EntityFrames` |
| `MC*` | the instances that TLC checks |

Definitions keep the names of the source where TLA+ allows; the exact lines are the
`map` of `PROJECT.json`. Definitions headed `Fault:` are not part of any
specification. Each is a plausible mistake in the code (a dropped guard, an
off-by-one, a forgotten reset), and putting it in the place of the definition that
follows it makes a property fail: `mutants` in `PROJECT.json` says which.

### `QuicConnection`

`task` is the program counter of the task: `queued` for a worker, at the first
(`recv`) or second (`accept`) branch of `poll_once`, about to `publish`, `done` and
waiting to be reaped, `gone`. `call` is the program counter of the method that
executes on the Bevy side; flag swap, `is_open` test and `try_send` are three
steps, and polls happen between them. A poll of one branch is one step: the worker
has the task to itself and no other thread sees its private state.

* `AcceptSwap`, `AcceptCheck`, `AcceptSend` - the three accept methods;
  `CloseCheck`, `CloseSend` - `close`.
* `RecvCommand` - `handle_command`: `GiveBuffered` when the buffered stream fits the
  command, `ShortPoll` for the timed accept of the other kind (a stream, the end, an
  error, the timer, or cancelled with the oneshot sender).
* `RecvPending`, `PollAccept` - the second branch; `BufferStream` is
  `buffer_stream`.
* `RecvClosed`, `Publish`, `Reap` - the end of the task. `DropTask` drops the
  commands left in the channel, with the oneshot senders in them.
* `HandleAttempt` - the attempt handlers. `TaskResult` for a oneshot receiver asks
  `is_empty()` first, so an attempt whose sender is gone stays pending: that is how
  `attempt.rs:25` reads, and it is modelled so.
* `PeerOpens`, `ConnectionEnds`, `CloseQuic` - s2n-quic, as `src/` uses it. The end is
  one of: without error, an error `is_closed()` knows, another error.

Commands are records of the method and the attempt they answer; streams are model
values, `BidiStreams` those with two halves.

### `StreamHandoff`

Streams are waiting, held (at most one) or given (at most one per attempt). `Handoff`
in `QuicConnection` maps `incoming`, `buffered_stream` and the oneshots to it.

### `Orchestrator`

One generic task type: the three `push_*` methods and the three arms of the worker
differ in the type only. Handing over a task is tried worker by worker, one step
each, because the channels change between the tries. `spent` counts the tasks of a
round that used tokio's budget; a task polled with the budget spent does not see
that it should finish. That the loops end when every sender is gone is not an
action: the `TokioRuntime` resource holds a handle as long as the runtime lives.

### `TaskLife`

A task is refused at once, or waits and is then dropped or comes to a worker; there it
runs until a poll says it is finished, and is then let go. No step leads back
(`Lives`, the safety part), and neither the wait nor the removal takes for ever (`Settles`). `Life` in `Orchestrator` maps places to
phases, a place in a worker's list before all others, so that a task in two places, one
polled after its removal, or one removed unfinished has no step to map to. The three
task modules take exactly this for granted: their `Dispatch`, `DispatchDrop` and `Reap`.

### `SendStream`

Packets of the session are numbered as the application puts them there (`packets`), messages
as the outbound channel takes them: `handed` says which packet each of them was. `send_many_drain`
takes a front of the session; `send` puts a message into the channel at once, past whatever waits in
the session (`send.rs:129`), and has no packet (0 in `handed`). So there are two orders: packets of
one session are handed over in theirs (`SessionInOrder`), and what was handed over comes to the wire
in that of the hand-over (`ImplementsPipe`); a direct send may overtake packets that wait. `send_buf` is `spent` empty chunks,
those a cancelled `send_vectored` had handed to the library, followed by `kept`,
those it had not. `PollData` appends what it received and sends
`send_buf[..count]`, where `count` counts new messages only, as line 255 has it. The
library takes what its `window` allows; a send that does not fit is cancelled.
`close()` is ready only once everything is acknowledged, so `PollControl` may finish
the stream without ending the task. `PollDataClosed` and `PollControlClosed` are the
two ways to learn that the component is gone. A poll that ends the task publishes the reason
(`End`, line 335) and then closes the stream (`CloseStream`, line 336): the Bevy side can read
the reason in between, while the stream is still open. `DispatchDrop` is the dispatcher with
full workers; it leaves the task `dropped`, a reaped one is `gone`.

### `ReceiveStream`

`task` is the program counter inside one poll: `run`, `transfer` (a batch is handed
over packet by packet, `TransferNext`), `stop` and `empty` (`stop_and_empty`), `done`
or `cancelled` (the last `receive` was pending, the reason never got published). The worker
removes the task in both cases (`Reap`, `gone`); `dropped` is the dispatcher's doing only. A
cancelled stop is the end of the task all the same: `EndIsComplete` says that the peer knows by then,
and that only the reason of an end this side made (`UserClosed`, `MspcChannelClosed`) can be missing.
`EndIsReported` has the other side of it: an end that the peer made is not lost that way.
The biased select is the guard `NothingToReceive` of `PollControl`. `dropped` records
packets for which the inbound channel had no room.

### `EndlessReceive`

`ReceiveStream` numbers the messages of the peer and so has an end of them, which hides what the biased
select does: it looks at the control channel only when there is no data. Here a step more lets the
numbers start again whenever no message is on its way (`Renumber`, in no code), so that the peer may
send for ever. `StopTakesEffect` is false then: the peer sends, the task reads, and the stop is not
seen. What holds is `StopTakesEffectInPauses`, for a peer that pauses again and again
(`PollsFindPauses`: a task that is polled for ever finds nothing to receive infinitely often, and is not
for ever past over in those polls). `AbandonedEnds` needs no pauses: a task whose component is gone
finds the inbound channel closed by the data itself.

### `OrderedPipe`

A message goes in, is on its way, and comes out behind those that went in before it, or
never; nothing comes out once the path is over. For `SendStream` the path is the
outbound channel and `send_buf`, its end the wire, and it is over with the task's reason
or the task; for `ReceiveStream` it is the library's buffer, the batch and the inbound
channel, its end the application, and it is over with the component. One `Leave` may
carry a batch out and lose another part, as a `send_buf` that is cleared does.

### `EntityFrames`

`stage` is the schedule, `todo` the visits its systems have left, in any order, and
`cmds` what they commanded, applied by `EndStage`, which also sets out the visits of the
next schedule from what the queries find then. A task is `run`, `ended` (its reason is
published) or `lost` (the dispatcher dropped it, or its stop was cancelled before it
published): the detailed life of each is in the modules above, and these are the three
cases the frames can tell apart. A send half or a connection that is lost looks like one
that never ends, so only receive tasks have the case.

* `StartRecv`, `FinishRecv` - `aeronet_session_recv` on one entity; between them the frame
  is blocked. `Store` is the swap or the move of the vector, which goes round as `buffer`.
* `VisitAttempt` with `Resolve` - the handlers of stream and connection attempts.
* `VisitDisconnect` - the three handlers of `plugin.rs`; `Fire` - the two systems of
  `session.rs`; `AppDisconnects` - the observer; `PollAsked` - the polls of a task it told to stop.
* `AnswerHalves` - a stream is there and each of its halves pushes its task, which the
  orchestrator may refuse: that half has ended before it was ever on an entity.
* `SpawnAttempt`, `AcceptConnection` - the acceptors and `open_*`; `AppTakesResult` - the
  application calls `attempt_result()` itself.

Packets carry their entity and a number modulo `MaxPackets + 1`; the numbers of an
entity start anew when all is read. `Unread` counts the unread packets of all entities, of
which there are finitely many (Bevy's identifiers have 64 bits). Where in `Update` the application and the acceptors
run makes no difference to the handlers, none of which sees a command before the
schedule ends; they come last. `events` counts the `Disconnected` of a part, up to two.

## 3. Runs

| Run | Instance | Shows |
| --- | --- | --- |
| `conn_live` | 2 streams (one of each kind), 2 attempts, `accept_stream` only, command channel 1, two closes, no drop at dispatch, fair | attempts resolve, streams are served, close takes effect on a full channel too, the end is reported unless a stream is stranded, a buffered stream stays reachable (13,974 states) |
| `conn_typed` | 3 streams, 3 attempts, all accept methods, command channel 1, one close, tasks may be dropped | types, pairing, one home per stream, no orphaned `accept_stream`, refinement of `StreamHandoff` (93,958 states up to symmetry) |
| `orch` | 3 tasks, 2 workers, inbox 2, worker channel 1, budget 3, fair | no task lost or copied, positions stay right, stopped tasks are removed, refinement of `TaskLife` with its liveness (86,717 states) |
| `send` | 4 messages, outbound 2, control 1, batch 2, window 2, 2 calls, fair | the session's order with direct sends in between, order to the wire, complete ends, no gap without a cancelled send, delivery, frames return, abandoned tasks end, refinement of `OrderedPipe` (260,440 states) |
| `recv` | 3 messages on their way at most, inbound 2, control 1, batch 2, 2 calls, fair, a peer that may send for ever | order, completeness, reason after data, end reported, stop takes effect in pauses, abandoned tasks end, refinement of `OrderedPipe` (12,209 states) |
| `entity` | 2 entities, one with two halves, the other a receive stream or a connection, 2 unread packets, inbound 1, fair, no peer silent for ever, peers that pause | sessions get their own packets, ends are announced once and in time, a stream whose end stood is despawned with all it received in its session, attempts resolve, what ended goes, `Disconnect` ends a stream, frames go on (180,858 states) |

The bounds. Two streams and two attempts are the least that let an answer go to the
wrong one; the third in `conn_typed` lets a stream be buffered while another is
answered and a third waits. Commands pair with flags: with
one slot a close makes the next accept fail after it has lowered the flag, and an accept or a
first close makes the next close fail, so that every `try_send` meets a full channel. (In the code the
channel has 1024 slots; as at most one accept is in it at a time, it takes that many closes, which
`is_open()` lets through until the task has seen the end.) Two workers and three tasks fill a worker
channel, spill over, and put two finished tasks and one that `swap_remove` moves
into one list. For the streams every channel is smaller than the number of messages
and every batch smaller than what can wait, so partial drains, full channels,
cancelled sends and several batches all happen. `MaxMessages` (of `SendStream`), `MaxCalls` and
`MaxCloses` bound what the application and the peer do; behaviours are not cut
short, they come to rest, which is why deadlock is not checked: a system whose
components are gone and whose tasks are over has nothing left to do.

In `entity` two entities are the least between which a vector, a blocked frame or a
visit can go astray; one has two halves to end in either order. A channel of one makes
a second packet wait in the session or meet a full channel, and `MaxPackets` bounds what
is unread, not what is ever sent: a peer may go on for ever.

`Budget` of `orch` is the number of tasks: with less, `StoppedIsRemoved` is false, because a
worker whose first tasks spend tokio's budget in every round starves the later ones. That is a
limit of the claim, not something the run would catch in the code.

Symmetry over the attempts is used in `conn_typed` only: the run has no liveness
property, and no definition names an attempt.

### Disagreements between code and text

Each of these runs checks one sentence of the repository and finds it violated.

| Run | What happens |
| --- | --- |
| `conn_mismatch` | `task.rs:243` "Buffer it, the next command will consume it": a typed accept of the other kind puts it back, the flag is down, and the task waits for a command that is not coming |
| `conn_orphan` | `stream/mod.rs:26`: an attempt becomes a stream or an error. The short poll of a typed accept, cancelled, drops the oneshot sender, and `attempt.rs:25` takes a closed empty channel for a pending one |
| `conn_full` | `connection/mod.rs:346`: no reason means open, and `task.rs:204`: a command will consume a buffered stream. An accept that finds the command channel full has lowered the flag already; the stream is stranded, the task looks at commands only, and the end is never reported |
| `send_gap` | `send.rs:31`: messages that sit in the channel are not dropped. After a cancelled `send_vectored` the next poll sends `send_buf[..count]` with the wrong count and clears the rest |
| `send_close` | `send.rs:123`: a stream that is no longer open makes the task finish. `close().await` is cancelled before `disconnect_flag` is set |
| `recv_cancelled` | `receive.rs:121`: no reason means open. `stop_and_empty().await` is cancelled when the library has nothing more to read yet, and the worker removes the task without a reason |

The counterexamples to the temporal ones are found under `FairSpec`: they are not
behaviours that merely stop.

Met while modelling, and without a run of their own: a connection whose task the dispatcher drops
(`orchestrator/mod.rs:144`) has no reason for ever (`DispatchDrop`; `ReportedBeforeGone` of
`QuicConnection` is a theorem without it, and false with it); a connection error in `send_vectored` falls into
the last arm of `send.rs:279`, which only logs, so that the send half of a lost connection says it is open
until its component goes; the peer of `stop_send` is to finish "as soon as possible"
(`receive.rs:129`), but is not asked while it sends without a pause (`StopTakesEffect` under
`FairEndlessSpec` is false). `plugin.rs:18` says "Streams will be
disconnected without an event firing", and `session.rs` fires `Disconnected` for every half
that has ended; it does so for both halves, so a bidirectional stream may be announced
twice for one entity, and not at all when its reason is published between `PostUpdate` and
the next `Update`, whose handler despawns it (`StandingEndsAnnounced` is what does hold).
Packets that arrive with the end after `PreUpdate` are despawned with the entity
(`NothingLeftBehind` is what does hold: those of an end that stood are in the session by then, and
the application has `Update` to read them; what it leaves there goes with the entity), and so is what one half still has when the other
ends. A stream that is silent blocks the frame, and with it everything else: a client and
a server in one world can wait for each other. The comment of the `accept_*`
methods says they "always return" an attempt (`connection/mod.rs:166`), they return
`Ok(None)` when the flag is down; `connection/mod.rs:312` calls a closed channel "a
bug", although the task may end between the `is_open` test and the `try_send` (in the
model, `CloseSend` with the task gone); `orchestrator/mod.rs:146` says all channels are
full, which may be over for the first by the time the last refuses; `send_buf`
outgrows the maximum of `send.rs:36` while sends are cancelled; no system handles a
`QuicSendStreamAttempt`.

### Fairness

* *The task.* A worker polls every task of its list in every round and no poll
  blocks (`now_or_never`), hence weak fairness of the task's next step. The
  connection's `recv` branch has strong fairness: a round that spent tokio's budget
  before it reaches the task makes `recv` look pending, and we assume that not every
  round does. `orch` shows what that rests on: with `Budget` at least the number of
  tasks of a worker, `StoppedIsRemoved` holds.
* *The select of `SendTask`* is not biased: tokio picks the first branch at random, so
  each branch has weak fairness of its own (its messages wait until it is picked).
  That of `RecTask` is biased, and has one condition for the whole poll.
* *The systems.* Acceptors, attempt handlers, `aeronet_session_send` and the disconnect
  handlers run every frame. In `ReceiveStream` the handler has strong fairness,
  because frames that block in `recv_many` disable it in between.
* *Blocking calls* return when their channel allows.
* *Frames.* Bevy runs the schedules over and over (`FrameStep`). A poll of a receive task that was told
  to stop takes data if there is any, and sees the stop if there is none: the biased select, and
  the weak fairness of `PollAsked`.
* *Peers.* Two assumptions of `entity` are about peers, not about the code, and have names.
  `NeverSilentForEver`: `aeronet_session_recv` waits for a silent stream without a limit, and with a peer
  that is silent for ever on a stream nobody has told to stop none of the four liveness
  properties holds. `PeersPause`: a peer that always has data ready keeps the task from its control
  channel, and `DisconnectEnds` does not hold of it. `PollsFindPauses` is the same assumption, in the
  property `StopTakesEffectInPauses` of `recv`. (In `EntityFrames` a task takes no data while the
  channel is full; there such polls count as pauses, as data that is then dropped is left out.)
* Nothing else is assumed of the peer. Nothing at all is assumed of the application (`close`,
  `flush`, `stop_send`, despawning), of the flow-control window, or of the QUIC connection, which
  may be lost at any time or never.

## 4. Proofs

`QuicConnectionProofs` proves, for any streams, attempts, channel capacity, set of accept
methods and number of closes, from `ConnectionAssumption` only:

| Theorem | Statement |
| --- | --- |
| `TypeCorrect` | `Spec => []TypeOK` |
| `AcceptAlwaysFindsStream` | `Spec => []AcceptFindsStream` |
| `StreamsHaveOneHome` | `Spec => []OneHome` |
| `AcceptIsNeverOrphaned` | `Spec => []NoOrphanedAccept` |
| `TaskReportsBeforeGone` | `~DispatcherMayDrop /\ Spec => []ReportedBeforeGone` |
| `ConnectionImplementsHandoff` | `Spec => ImplementsHandoff`, which is `Handoff!Spec` |

The argument. The right to one accept is a *token* that is in one place: the raised flag,
the call that swapped it down, or the command that call sent. `AcceptFindsStream` says that
these exclude each other, that at most one command carries the token, and that while the
task lives a token means a full `buffered_stream`. It is not inductive: whether a stream may
be buffered depends on the place in `poll_once`, and whether a task may end depends on who may
still call. `Control` adds that (queued or past the first branch the buffer is empty; a
task that publishes has no accept under way; a call belongs to a component), and
`Pairing == AcceptFindsStream /\ Control` is inductive. All else rests on it: the task
accepts a stream of the peer only with an empty buffer, hence with no token about, so raising
the flag makes one token and overwrites nothing, and a handled Accept finds a stream.

`Delivery` follows one answer: a queued accept is for an attempt that is still unanswered
(`Linked`), an attempt that does not exist yet has no answer (`Fresh`), what is buffered or
answered was opened (`Opened`); with `OneHome` and `NoOrphanedAccept` this is preserved
because an answer never overwrites another one. The inductive invariant is
`TypeOK /\ Pairing /\ Delivery`; each step lemma goes action by action. The refinement is by
the same cases: `PollAccept` is `Hold`, an answer with a stream is `Give`, `Reap` and
`DispatchDrop` are `End`, all else stutters. `Reporting` (a task past `publish` has its
reason) is inductive with `TypeOK`, but only without `DispatchDrop`, which is why the theorem has
that hypothesis.

`SendStreamProofs`, `ReceiveStreamProofs` and `EndlessReceiveProofs` prove, for any number of
messages and calls and any capacities, batch sizes and window, from `SendAssumption` and
`ReceiveAssumption` only:

| Theorem | Statement |
| --- | --- |
| `SendTypeCorrect` | `Spec => []TypeOK` |
| `EndIsAlwaysComplete` | `Spec => []EndIsComplete` |
| `SendImplementsPipe` | `Spec => ImplementsPipe`, which is `Pipe!Spec` |
| `SessionStaysInOrder` | `Spec => []SessionInOrder` |
| `OnlyCancellingSkips` | `Spec => []GapsNeedCancel` |
| `ReceiveTypeCorrect` | `Spec => []TypeOK` |
| `ReceiveEndIsComplete` | `Spec => []EndIsComplete` |
| `ReceiveImplementsPipe` | `Spec => ImplementsPipe` |
| `NothingGoesMissing` | `Spec => []NothingMissing` |
| `EndComesAfterData` | `Spec => []EndAfterData` |
| `EndlessReceiveIsSafe` | `EndlessSpec => [](TypeOK /\ NothingMissing /\ EndAfterData /\ EndIsComplete)` |
| `EndlessReceiveImplementsPipe` | `EndlessSpec => PipeBetweenRestarts` |

The argument for the order is the same in both. `Flow` says that each of the sequences a message
goes through (`outbound`, `send_buf` and the wire; the library's buffer, the batch, the channel and
what was read) is in order, that each is before the next ones, and that nothing in them is later than
the last message handed over, or the last that arrived. It is stated of the sequences one by one,
because every step moves a front from one of them to the end of another; the lemmas of
`SequencePiecesProofs` say what that does to elements and order. A step of the code then is
`Enter`, or `Leave` with what it puts at the end of the path. For `PollData` that is a front
of a front of `send_buf`: the slice `send_buf[..count]`, cut by the window, which is why a
slice that is too short, or a buffer that is cleared too early, loses messages but never
reorders them. That nothing comes out of a path that is over needs `EndIsComplete` on the
send side (a task with a reason is `closing` or over, and is not polled again) and on the receive side
that a blocked call keeps its component.

On the send side the order on the wire is that of the hand-over, whoever handed over; a direct `send`
may overtake what waits in the session. What the session itself promises is `SessionInOrder`, by the
invariant `Packets`: the packets handed over are in order, those that wait are behind them, together
they are all that the session ever took while the component is there, and none is later than the last
one. A partial drain moves a front of the session over, a direct send adds an entry that is no packet.

On the receive side the end needs more. `Course` ties `poll_once`'s place to its variables:
the batch is empty outside the hand-over, `atEnd` means that nothing is left in the library
and that no poll will start from the top again, a task that stops has the reason it stops for, only
the end of the stream gives the reason `PeerClosed`, and the task waits in `empty` only for a stream it
has asked the peer to stop, that has failed, or that was at its end. Hence a stop can be cancelled,
and its reason lost, only if this side ended the stream (`OwnEnds`): after a failure or the peer's end
the library has nothing to wait for. `Cover` adds that while the stream
is open, or once its end was read, every message that arrived is in one of the sequences or was
dropped for want of room; a step that loses others makes the stream not open or the component
go. `EndAfterData` is not inductive without both: the reason is published long after the read
that saw the end.

For `EndlessReceive` the same invariant, `EndlessInv`, is inductive once more: the steps of the stream
keep it by the lemmas above, and `Renumber` is taken only when every sequence on the way is empty, where
`Flow` and `Cover` say nothing of the numbers that are given up. A `Renumber` is the only step that is
not one of the pipe.

### The send side skips nothing unless a send was cancelled

`OnlyCancellingSkips` needs more than the order: that nothing is *missing* speaks of the whole path.
`Contiguous` says that as long as no send was cancelled `send_buf` is empty between two polls, the wire
carries the numbers 1, 2, 3, ... , and while the stream is open and its task polled the channel
goes on where the wire ends (`Counted`), up to the last message handed over. It is inductive with
`TypeOK`: a poll that is not cancelled sends all it took from the channel, which is why the
count of line 255 does no harm there and does so after a cancelled poll (`send_gap`). Once the
stream is reset, lost or finished nothing more comes to the wire, so that nothing is claimed of the
channel then.

### A buffered stream can be asked for

`BufferedStaysReachable` is `AcceptOps \subseteq {"Accept"} /\ Spec => []BufferedReachable`. The
hypothesis is what the code needs: with typed accepts the statement is false (`conn_mismatch`).
It is also what `conn_live` instantiates. The
token of the argument above may be given back for nothing: the flag is lowered, and `is_open` or
`try_send` fails. `Reaching` says that this happens only when the connection ends: `openFlag` is
lowered only after `conn` is no longer open, the reason is published only when the task is over,
the channel carries nothing but `Accept` and `Close`, and a task about to publish has nothing
buffered while its component is there. By `Pairing` a channel that refuses an accept holds no
other one, so it is full of closes: the connection is `Closing`, which the property allows. What
becomes of the stream then is the case of `conn_full`, and `EndIsReportedUnlessStranded` is what holds
of the end: it is reported unless a stream is buffered with its flag down and no accept under way.

### The orchestrator

`OrchestratorProofs` proves, for any number of workers and tasks, any capacities and any budget,
from `OrchestratorAssumption` only:

| Theorem | Statement |
| --- | --- |
| `OrchestratorTypeCorrect` | `Spec => []TypeOK` |
| `FinishedNotesHold` | `Spec => []FinishedAreNoted` |
| `TasksAccounted` | `Spec => []Accounted` |
| `TasksLeadTheirLives` | `Spec => Life!Lives`, the safety part of `ImplementsTaskLife` |

The argument. A position noted while the list is polled is used after other positions were
removed. `RemoveFinished` takes the greatest first, so what `swap_remove` moves is either the
removed task itself or one behind all that are noted, which is not finished; hence
`FinishedAreNoted` is kept, *if* the task that says it is finished is at no second position of a
list. So the notes rest on uniqueness, and that only finished tasks leave a list rests on the notes. `OrchestratorInv` holds both. `OneHolder` says that the
holders (inbox, batch, channels, lists, and the sets of refused, dropped and removed tasks) have no
task in common and together have the pushed ones; `OnceEach` that none of the sequences has a task
twice; `DoneAreListed` that a task that said it is finished was in a list then, and that none is
left there when a round is over. `OneHolder` is stated of the sets of elements, because an operation
moves one task from one set to another; a lemma for each operation says so, and the counting of
`Accounted` is done once, at the end (`OneHolderCounts`): the cardinality of the positions
of a task in an injective sequence is 1 or 0. The same facts give the phases of `TaskLife`: each step
moves the tasks it moves one step on, and leaves all others where they are (`TakeAll` moves
several).

### Entities and frames

`EntityFramesProofs` proves, for any finite set of entities, any of which have both halves, any
number of packets and any capacities with `InCap <= MaxTransfer`, as in the code, from
`FrameAssumption` only:

| Theorem | Statement |
| --- | --- |
| `FramesTypeCorrect` | `Spec => []TypeOK` |
| `EachItsOwnPackets` | `Spec => []OwnPackets` |
| `AnnouncedOnce` | `Spec => []OncePerEnd` |
| `StandingEndsAreAnnounced` | `Spec => StandingEndsAnnounced` |
| `NothingIsLeftBehind` | `Spec => NothingLeftBehind` |

The argument. Everything is about what is between two visits: a system commands something, other
systems run, and the end of the schedule applies it. `CommandsFit` says what can be commanded
of an entity in which life, and only in `Update`; `VisitsFit` that a visit finds the life its query
asked for. With these `EventsFit` is inductive: an event that was fired is that of an end,
and the entity is under way to be taken away: fired in `PostUpdate`, its visit is over, and in the
next `Update` the visit of the handler is still to come or has commanded the despawn; a
connection's event is fired with the command that removes it. That is why `AnnouncedOnce` holds
although nothing remembers that an event was fired. `StandingFit` follows an end that stood when a frame or a
schedule began through the stages, which gives both action properties: in `PreUpdate` its
visit is to come, or it blocks the frame, or its channel has been emptied; nothing arrives behind
an end, so that the channel is still empty when `Update` despawns; and in `PostUpdate` its visit is
to come or its event was fired. `PacketsFit` says that session and channel of an entity hold
exactly the numbers between what was read and what arrived, and that the vector that goes round is
empty between two visits: `aeronet_session_recv` takes what is in the channel, at most `InCap`, with
a limit of `MaxTransfer`; `InCap <= MaxTransfer` is what makes one visit empty the channel. With the
channel empty `PacketsFit` leaves one place for what is unread: the session, which is the second half
of `NothingLeftBehind`.

### What the proofs found about the model

`Phase` and `Applied` were written as CASE expressions with overlapping guards. TLC takes the first that is
true; TLA+ leaves the value open, and nothing could be proved of it. They now are IF expressions,
which say what was meant. `Unread` was a fold over the entities, of which the prover knows
nothing without induction, and now is the cardinality of a set.

### Only model-checked

* Liveness: the leads-to and always-eventually properties of the runs (`AttemptResolves`,
  `StreamServed`, `EndIsReportedUnlessStranded`, `EndIsReported` of the receive half, `CloseTakesEffect`, `StoppedIsRemoved`, `HandedOverIsSent`,
  `FrameReturns`, `AbandonedEnds`, `StopTakesEffectInPauses`, `FrameGoesOn`, `AnswerTaken`, `EndRemoves`,
  `DisconnectEnds`) and the part `Settles` of `ImplementsTaskLife`. They need fairness and
  ENABLED, with which these provers do not deal.
* That the six disagreements are there: they are counterexamples, found by TLC.

Every other property of a passing run is a theorem; those of `recv`, which checks `EndlessSpec`, are
the two of `EndlessReceiveProofs`.

## 5. Not modelled

* The payload of messages and streams, status codes, texts of reasons, logging, and the
  error channels, which only feed the log.
* The attempt of `open_send_stream`: no system of the crate handles it. That of
  `open_bidrectional_stream` and of a connection is in `EntityFrames`, its tokio task reduced to
  the answer it gives.
* The hierarchy of entities (a stream is a child of its connection): Bevy despawns children
  with their parent, which for the child is the despawn `EntityFrames` has at any time.
* Commands for an entity that another command of the same schedule has despawned: what
  Bevy does then depends on its error handler.
* Endpoints, TLS and the runtime's start: library set-up without state of its own.
* s2n-quic beyond what `src/` relies on. Its actions are marked external in the map; an
  outcome it may or may not produce (what is still readable after `stop_sending`, which
  error a closed connection reports) is a nondeterministic choice.

## 6. Plan

Done: the connection with `StreamHandoff`; the orchestrator with `TaskLife`; both stream halves
with `OrderedPipe`, the receive half also of a peer that sends for ever; entities, attempts, sessions, events and acceptors over the frames; every
safety property of every passing run, and the safety of the refinements, as theorems.

Next, in this order:

1. What the task modules take for granted of the orchestrator, as theorems: that `task` in
   `QuicConnection`, `SendStream` and `ReceiveStream` leads a life of `TaskLife` (`Lives`, for one
   task), so that the same abstract specification is what one side implements and the others assume.
2. What the abstract specifications say to their users: from `OrderedPipe`, that what came out is in
   order and without repetition; from `StreamHandoff`, that what was given stays given.
3. The two hazards without a property stay open: a dispatcher that drops a task although room has
   come up is allowed by its comment, and nothing in the crate looks at a `QuicSendStreamAttempt`.
