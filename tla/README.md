# p2pmq, specified

TLA+ specifications of the concurrent core of p2pmq: a message-queue node on
top of libp2p gossipsub (`core/`), its gRPC services and their clients
(`api/grpc/`), how it finds and leaves its peers, and the applications
`examples/bls/` and `examples/don/`. Small instances are
model-checked with TLC; every invariant and action property that a passing run
checks is also proved with TLAPS, for every value of the constants.

Paths below are relative to the repository. `PROJECT.json` names, for every
definition that models code, the lines it stands for.

## 1. Inventory

### How a message travels

1. A client calls `Publish`, `Subscribe`, ... on the control service
   (`api/grpc/control.go`), which calls the **controller** (`core/pubsub.go`).
   Topics are kept in the **topic registry** (`core/topic.go`).
2. gossipsub hands an incoming message to the topic validator, which calls
   `HandleWait` of the **validation router** (a `MsgRouter`, `core/router.go`).
   Its handler calls `PushWait` of the **remote validation service**
   (`api/grpc/val_router.go`), and a **verifier** client
   (`api/grpc/client/verifier.go`) judges the message over a gRPC stream.
3. A message that was accepted is read by `listenSubscription` and given to
   `Handle` of the **message router** (another `MsgRouter`). Its handler calls
   `Push` of the **delivery service** (`api/grpc/msg_router.go`), which a
   **consumer** client (`api/grpc/client/consumer.go`) reads.
4. An application, a **bls signer** (`examples/bls/`) or a node of a **DON**
   (`examples/don/`), is a verifier, a consumer and a publisher at once.
5. Underneath, the controller dials bootstrappers and the peers that **mDNS**
   finds (`core/mdns.go`, `core/conn.go`), and a **tracer**
   (`core/pubsub_trace.go`) counts what gossipsub does.

### Components

| Component | State | Operations | What is hard | What makes it correct |
|---|---|---|---|---|
| Message router `core/router.go`, `commons/utils/thread_control.go` | bounded queue, worker slots, wait groups, handler | `Handle`, `HandleWait`, `Start`, `RefreshHandler` | loops of several generations on one queue; non-blocking callbacks; waits while others add | no message lost or run twice; pool bounded; counters exact; nobody blocks for ever |
| Controller life cycle `core/ctrl.go`, `cmd/pmq/main.go` | once guards, stop channel, loops | `Start`, `RefreshRouters`, `Close` | the order of refresh and start; sizes taken before defaults | one loop per start remains; each operation returns |
| Topic registry and operations `core/topic.go`, `core/pubsub.go` | wrappers with atomic state, handle, subscription, relay | `Publish`, `Subscribe`, `Unsubscribe`, `Relay`, `Unrelay`, `Leave` | check-then-act across critical sections; overlapping joins; failure half-way | handle present when used; every subscription read; calls return; registry agrees with pubsub |
| Remote validation `val_router.go`, `verifier.go` | queue, map of result channels, streams | `PushWait`, `Handle`, `receiver`, verifier `Start`/`Stop` | late, lost and repeated verdicts; equal ids; breaking streams | fails closed; waiting calls found and cleared; one verdict per message |
| Delivery `msg_router.go`, `consumer.go` | three queues in a row | `Push`, `Listen`, consumer `Start`/`Stop` | several consumers, full queues, breaks, stop while receiving | at most once, in order, known losses, `Stop` returns |
| bls signer `examples/bls/` | report buffers, shares | `TriggerReport`, `Validate`, `Consume`, its goroutines | one goroutine per report, unlocked reads, unsigned distances | leader starts; results backed by signatures; result published; no step back |
| don example `examples/don/` | reports, transmissions, report buffers | `run`, `nextReport`, `broadcast`, `Transmit`, `Process`, the consumer's handler | verdict and storing are separate steps; one report object shared by all transmissions; encodings | the buffer holds what a quorum signed and moves ahead in small steps |
| Discovery `core/mdns.go`, `core/conn.go`, `core/ctrl.go` | peer queue, dials, mDNS service, host | `Start`, `HandlePeerFound`, `connect`, `Connect`, `Close` | callbacks that outlive the loop; dials started during shutdown; `Close` that overtakes `Start` | `Close` ends and leaves nothing behind; panics only where known |
| Tracer `core/pubsub_trace.go` | counters, events, skiplist | `Trace`, `Reset`, adding counters up | counts without the lock under which `Reset` works | counters and events differ only by calls that met a `Reset` |
| Configuration, gossip parameters, key tools, protobuf | none that changes | | | |

The hazards of the code, each at its line, are listed in `PROJECT.json`.

## 2. Modules

| Module | Models | Role |
|---|---|---|
| `RouterContract` | what a `MsgRouter` promises its callers | abstract specification |
| `MsgRouter` | `core/router.go`, `thread_control.go`, the parts of `ctrl.go` that drive routers | implements `RouterContract` |
| `MsgRouterProofs` | | theorems about `MsgRouter` |
| `TopicManager` | `core/topic.go`, `core/pubsub.go` | |
| `TopicManagerProofs` | | theorems about `TopicManager` |
| `ValidationRouter` | `val_router.go`, `verifier.go` and the streams between them | composes server and clients |
| `ValidationRouterProofs` | | theorems about `ValidationRouter` |
| `Delivery` | `msg_router.go`, `consumer.go` and the streams between them | composes server and clients |
| `DeliveryProofs` | | theorems about `Delivery` |
| `ReportNode` | `examples/bls` | |
| `ReportNodeProofs` | | theorems about `ReportNode` |
| `Don` | `examples/don` | composes a DON, its nodes and their buffers |
| `DonProofs` | | theorems about `Don` |
| `Discovery` | `core/mdns.go`, `core/conn.go`, peers in `core/ctrl.go` | |
| `Tracer` | `core/pubsub_trace.go` | |
| `PeerEvents` | a controller with both | composes `Discovery` and `Tracer` |
| `TracerProofs` | | lemmas about `Tracer` |
| `PeerEventsProofs` | | theorems about `PeerEvents`, by `TracerProofs` where they concern the tracer |
| `MC*` | | constants for TLC |

Each module has one action per step of a goroutine: what the goroutine does up
to its next access to shared state. Operators called *Mutant* in the comments
are wrong versions of the definition below them; they are part of no
specification and serve to show that a property depends on that definition.

### MsgRouter

`q`, `slots`, `handler` and `tc` are the fields of `msgRouter`. `wg` is the wait
group of every thread control that was ever installed, by the number of the
operation that installed it. `loop` and `work` are the goroutines that run
`Start` and the ones that `dispatchMsg` starts. `call` is where a call of
`Handle` or `HandleWait` stands. The *owner* runs `Controller.Start`,
`RefreshRouters` and `Close` in the order of one of `Programs`; those of the
instances are the orders of `cmd/pmq`, of the tests of `api/grpc` and the
examples, and of `core`'s own tests. In the programs of `Live` messages arrive
all the time, in the others they arrive after boot.

- A send on the queue goes into the buffer or, if the queue is unbuffered, to a
  loop that is at its select (`Send`).
- `Callback` delivers only if the caller is at its second select.
- `RefreshHandler` takes five steps (nil, wait, handler, threads, restart) and
  `WaitGroup.Wait` may find its group reused when it wakes, which panics.
- The loop reads the thread control (`Acquire`) before it starts the worker
  (`Go`): the one a worker counts in may be that of an earlier refresh.

### TopicManager

Every call is a goroutine (`pc`), as gRPC runs them. `topics` is the map of the
registry, `state`, `twTopic`, `twSub`, `twRelay` the fields of the wrappers,
`lock` the registry's lock where it is held over several steps
(`upgradeTopic`, which swaps the state and then stores the handle while readers
of the wrapper take no lock). libp2p's pubsub is external: `myTopics`,
`closed`, `subs`, `relays`, `validators` behave as the code uses them (a second
`Join` of an open topic fails, `Close` refuses while a subscription or a relay
is open, a closed handle cannot be used). A nil dereference ends the process
(`crashed`). `Scripts` says which operations the calls run. `ThreadsStop` is the
part of `Controller.Close` that concerns subscriptions: the stop channel closes
(`stopped`), every listener ends at its check of the context, and the
subscriptions themselves stay live, as nobody cancels them; calls go on.

### ValidationRouter

`results` is the map of `validationResults`; an id is absent, nil, or maps to the
channel of a call. `handle` and `resolve` are the two goroutines of a server
stream, `recv` and `valQ` the verifier's goroutine and its queue, `toClient` and
`toServer` the two directions of the stream, lost by `Break`. `verdicts` is a
history variable, read by properties alone. Two calls may carry one id. Looking
a channel up and sending on it are two steps (`Lookup`, `Resolve`), the lock of
the map is released between them.

### Delivery

A message is the number of the `Push` that brought it. `held`, `stream`, `msgQ`,
`handled` are the places on its way, `lost` records where one went astray.
`broken` and `cancelled` say why a stream fails. The context of a thread control
is cancelled by a goroutine of its own after the stop channel closes, so a
consumer may receive for a while after `Stop` (`MayBeDone`). `Stop` may come at
any time, before `Start` included; `MaxEnds` bounds the calls of `Stop`, the
cancellations and the cut connections together.

### ReportNode

One node among `N` signers of one network. A report is a pair of signer and
sequence number, every one consumed is a goroutine. `buffers` are the buffers
that goroutines created, `current` the one in the store: lookup and creation are
separate steps, so one may be overwritten. `Lookup` reads without the lock while
others add; it sees or misses what changes meanwhile (`LookupBegins`,
`LookupEnds`). The other signers are an environment that sends, in any order or
not at all, the partial and final reports of one of `Worlds`. A final report is
judged in the two critical sections of `ValidateSequence` (`verifier`, between
them, with the latest report it read), waits in `inbox`, and is stored by
`Consume`, while other final reports and the node's own get stored in between.
Sequence distances are computed modulo `2^Width`, as `uint64` subtraction does,
and any number of that width may occur: an older number may look near, or too
far ahead. Signatures are abstract: a report is genuine or forged.

### Don

Two DONs, one that runs and transmits, one whose nodes listen, and other programs
that publish on the topic of the first (`setup.outside`). `object` is the report
behind the pointer that all transmissions of it share, `transmit` the goroutines
of `broadcast`. A message is a sequence number, who signed it, which of the
signatures are good, and whether it can be decoded: what the verifier and the
consumer look at. `verifier` is a verifier between the two critical sections of
`validateSequence`, together with the latest report it read; `inbox` holds
accepted messages, with that same number as history for `NoLeap`. A node's own
message reaches its consumer without a verdict, as `validateMsg` has it.

### Discovery, Tracer, PeerEvents

`start` and `close` are the two operations of the controller, each guarded by a
`sync.Once` and possibly overlapping (`core/testutils.go` runs `Start` in a
goroutine). `loop`, `q` and `qClosed` are the mDNS goroutine and its queue,
`notify` the callbacks of the mDNS service, each a goroutine of libp2p, `dial`
the goroutines of `connect`. The wait group of the controller counts the mDNS
loop, the dials, and `threads`: the routers' loops, which `Start` (`routers`) and
`RefreshRouters` start, and the listeners, which `Subscribe` starts. Those calls
are made by gRPC or the application at any moment (`calls`, at most `MaxCalls`),
before, during and after `Close`; a `Go` of theirs that falls into the return of
`Wait` may panic there or in its own `Add`. `overtaken`, `late` and `quiet` are
history: whether `Close` began before `Start` was done, whether somebody outside
of the wait group started a goroutine after `Wait` had been woken, and whether
`Close` began with the context cancelled and no callback past its check.

`trace` is where a call of `Trace` stands, `faucets` and `events` the fields of
`psTracer`, `lock` its mutex while `Reset` holds it. `sampler` is what remains of
a sample: adding every counter to `total`, then `Reset`, counter by counter.
`overlapped` is history: the calls that were under way during a sample.

In `PeerEvents` a connected peer is traced, and the goroutine that takes samples
is the one that calls `Start` before and `Close` after, as in
`core/gossipsub_test.go`.

## 3. Runs

| Run | Question | Instance |
|---|---|---|
| `router` | While messages arrive during start, refresh and close: are they conserved, slots and groups exact, loops balanced, the contract kept? When they come after boot: is each handled, does each operation of the owner return? | 2 messages, 1 slot, queue of 1, five owner programs with up to two refreshes, two of them live |
| `router_answer` (violation) | Does `HandleWait` return the handler's answer? | no deadline |
| `router_startup` (violation) | Does `RefreshRouters` return when the sizes were left to their defaults? | sizes 0 |
| `topics` | What survives overlapping calls of any kind? Do registry, handles and subscriptions agree when calls do not overlap (`InStep`)? | 3 calls of any operations, at once or one at a time, 1 topic, allowed or denied, listeners stopped at any moment |
| `topics_joining` (violation) | Is somebody joining a topic in state Joining? | 2 of 3 calls at once |
| `topics_already` (violation) | Does "already subscribed" mean there is a subscription? | 3 calls, one at a time |
| `validation` | Fails closed, waiters registered and cleared, judged once? | 2 calls, 2 ids, 2 verifiers, queue of 1 |
| `delivery` | At most once, in order, losses known, `Stop` returns, queue drains, what a consumer received is handled? | 2 consumers, 2 pushes, queues of 1, three stops, cancellations or cuts |
| `reports` | Who starts a sequence, what a result rests on, is it published, how does the latest report move? | 4 signers, numbers 2, 4 and 7 of 3 bits, two slots, thresholds 3 and 5; four arriving partial reports, one forged, or three final ones |
| `reports_once` (violation) | Does a node sign once? | 2 reports that meet |
| `don` | What gets into the report buffers while verifiers and consumers run side by side? | 3 nodes, the names and keys of the test, or a manipulator and two transmitted reports, or four reports of another program: two in order, one too far ahead, one without a quorum |
| `peers` | What does a shutdown leave, when does it panic, does it end? How far do counters lag? | 2 peers, 2 found, queue of 1, one router, two goroutines of `Subscribe` or `RefreshRouters`; or 3 traced calls, 2 samples |

**Why the bounds are enough.** Capacities of one make full and empty reachable
in one step, and two actors of each kind are what a race needs. Two messages and
one slot let a message wait in the queue, in a loop and in a worker at the same
time; two refreshes after a start put loops, workers and groups of three
generations next to each other. Three calls on one topic are a joiner, one that
overtakes it and one that meets what they leave. Two calls with
the same id and two verifiers are what duplicate ids and duplicate verdicts
need. Four signers is the least number with which the code can publish at all
(it wants more than the threshold `N - (N-1)/3`), and with two slots the numbers 2
and 4 share one, so the second sequence overwrites the first. With a width of 3
bits 2 looks like 3 ahead of 7: an older number that the thresholds let pass. Of
the final reports one is near another, one out of reach, one too old. With two
consumers, three ends let both fail, one of them twice over, in any order.
In `Don` thresholds of 1 and 2 and two slots make a
report skip a number, be refused, and share a slot. In `PeerEvents` two finds
fill the queue and drop one, a find next to the bootstrapper lets two dials of one
peer overlap, and of two calls one may come before `Close` and one into it. The
proofs remove the bounds for everything but liveness.

**Deadlock** is not an error in any run: the instances make a bounded number of
calls, and a system without further calls rests. That nothing waits for ever is
stated as liveness instead.

**Fairness.** Weak fairness of the goroutines that are able to run, which is what
the Go scheduler gives. The handler of a router returns and a context with a
deadline expires (`Deadline`). Nobody has to call, close, start, stop or break
anything, and in `Delivery` the handler may take for ever, except in
`ReceivedIsHandled`, which has its return as a hypothesis. A dial ends, at the
latest with the dial timeout of `setup`. Once the stop channel is closed a router
loop and a listener end, as `MsgRouter` and `TopicManager` have them do; before,
nothing makes them. A Go `select` with
several ready cases is a free choice, not a fair one; no property needs more.

## 4. Proofs

All theorems hold for every value of the constants that satisfies the
assumptions named in the modules: finitely many messages, `Nil` not one of them,
sizes natural numbers (zero included), programs of start, refresh and close no
longer than `MaxOps`; in `TopicManager` any calls, topics and number in flight;
in `ValidationRouter` any calls, ids, streams and a positive queue size; in
`Delivery` any consumers, positive queue sizes and any number of pushes; in
`ReportNode` any number of signers, partial, final and forged reports, any
thresholds and a positive buffer size, the numbers being positive and of `Width`
bits; in `Don` finitely many nodes, any setups, thresholds and a positive buffer
size; in `PeerEvents` any peers, number of finds and of calls, a positive queue
size, any configurations, traced calls and number of samples.

**`MsgRouterProofs`.** `TypeCorrect`, `MessagesConserved`, `CountersExact`,
`PoolBound`, `LoopsAreBalanced`, `RouterRefines`. `TypeOK` is
not inductive: the owner is in the middle of an operation only while there is
one (`OwnerInOp`), a loop that carries something carries a message and not nil
(`HeldIsMsg`), and loops of operations that were not reached are off
(`LoopsOff`). With `Conserved` and `Accounted` these form `IndInv`. `Accounted`
needs `Conserved`: a worker counts once because its message was dispatched once.
`slots <= Workers` and the bound on handlers follow by cardinality. The
refinement maps `work` and `call` to the contract's status and outcome; the step
that rests on the invariant most is `CallHandler`, which must find a free worker
in the contract. `LoopsBalanced` is inductive given the
types; its proof counts, step by step, loops, nils in the queue and starts (a
receive takes exactly one nil out and ends exactly one loop).

**`TopicManagerProofs`.** `TypeCorrect`, `UpgradeNeverFails`, `HandlesKept`,
`SubscriptionsRead`, `SubscriptionsValidated`, `StaysInStep`. Added to the
properties: `Linked` (wrappers, handles and calls belong to the topic they are
found under), `Opened` (while no handle of a topic was closed, the open one
belongs to the call that upgrades the topic or to the wrapper that was upgraded)
and `Guarded` (whatever gives access to a topic, a handle in a wrapper or in a
call, or a subscription, implies a validator or a call about to register it).
The argument of `UpgradeSucceeds`: a wrapper is only replaced by a fresh one,
which is Joining again, and only the call whose `Join` succeeded upgrades; a
second one succeeds only after the first handle was closed.
`EverySubHasListener` is about a controller that has not been closed: a
subscription is made by the call that is about to start its listener, and a
listener ends only with its subscription or with the stop channel. `InStep` is about
calls that come one after the other and has an invariant of its own, `SeqInv`:
one call is active (`Alone`), where it stands says what the registry looks like
for its topic (`Placed`), and every topic at rest is in one of few shapes
(`Kept`). A step then concerns one topic, and the others keep theirs.

**`ValidationRouterProofs`.** `TypeCorrect`, `ValidationFailsClosed`,
`WaitersCleared`, `WaitersFound`, `VerdictsAreSingle`. Added: `Carried`, that a
verdict on a stream was reached by a verifier and that the result `receiver`
holds is the conversion of a verdict for the id of the call it looked up.
`convertResult` turns anything unknown into Ignore, which is what closes the
argument. For `JudgedOnce` the places a message can be in are enumerated; no
message is in two of them (`Apart`) or in one of them twice (`Single`), the
verdicts among them.

**`DeliveryProofs`.** `TypeCorrect`, `OnceAndInOrder`, `LosesOne`. The
way of a consumer is taken apart: every queue is increasing and everything in it
is before everything in the queues behind it (`Ordered`), and a message is queued
at the server, on the way of one consumer or lost in one way, exclusively
(`Once`). A step moves a message from one set to the next; that the way as a
whole is increasing follows at the end. `Fresh` says that nothing of a consumer
runs or fails before its `Start`; `Unsent` charges every unsent message to a
`Listen` loop that is over.

**`ReportNodeProofs`.** `TypeCorrect`, `LeaderFirst`, `FinalsAreBacked`,
`SharesPublish`, `LatestAdvances`. What a goroutine knows is followed
from the slots it read: a number in a slot comes from a consumed report (`Seen`),
so do the signers another goroutine found, and their slots have not gone back
since (`Knows`); one that signs has found the leader (`Signing`). That shares are
not left unused is `Shares`: whenever the reports of all have reached one buffer,
somebody's lookup is still to come, or came late enough to see them all. At the
add that completes them this is the goroutine that added, and a goroutine that
loses this role has published. A result rests on more than `N - (N-1)/3`
signatures, which are more than two thirds of any `N`. For `LatestCreeps` a final
report carries the latest one that judged it (`Timely`): it is within
`SkipThreshold` of that one modulo `2^Width`, and the latest has only grown. When
the report then becomes the latest it is the greater number, of which the distance
modulo `2^Width` is the real one, and the distance to a later latest is no greater;
an older number that merely looks near never becomes the latest. `Latest` is a
maximum, which exists by a well-founded order on the sets of greater slots.

**`DonProofs`.** `TypeCorrect`, `BuffersAreBacked`, `LatestNeverLeaps`. What the buffers hold is not
inductive: a message is followed on its way, from published (`Sent`: what can be
read was published by another program) through the verifier between its two
critical sections (`Verified`) and the consumer's inbox (`Accepted`) into a slot
(`Stored`). `ThresholdIsQuorum` shows that `n - (n-1)/3` signatures are two
thirds of any `n`. For `NoLeap` a message carries the latest report it was judged
by (`Judged`): it is near that one, and the latest report of the node can only
have grown since, so the distance is no greater when the message is stored.

**`PeerEventsProofs`.** `TypeCorrect`, `ShutdownIsClean`, `CountersStayClose`.
`Leaving` says what must be gone at each step of `Close`. The loop that goes on
dialling while `Close` waits is itself counted by the wait group, so what is
started after the count reached zero is started from outside of it, and that
makes it late (`GoesLate`). It needs `Ordered` (the queue is closed by the loop,
in a shutdown; `Start` is over or was overtaken; only an overtaken `Start`
revives the mDNS service) and, for the panic at the closed queue, `Checked` (no
callback gets past its check after the context was cancelled). `CountersLag`
speaks of the time between samples; `TracerProofs` follows a counter through
one. What is left of a sample determines where it stands (`Staged`); from its
add to its set the sample holds what the counter still holds (`Mid`), from the
dropping of the events to its set the counter has events that are gone
(`Pending`), and what is counted in between is lost but overlaps with the sample
(`Tidy`).

**Only model-checked.** Liveness: `AcceptedIsHandled`, `OwnerReturns`,
`CallsReturn`, `StopCompletes`, `QueueDrains`, `ReceivedIsHandled`,
`CloseCompletes`. They rest on
fairness and `ENABLED`, which the prover does not handle. `HandlersBounded` is
proved only; no run lists it.

## 5. Findings

1. **`HandleWait` can lose its answer** (`core/router.go:23`, run
   `router_answer`). The callback does not block and the message is queued
   before the caller reaches its second select.
2. **The node can hang at boot** (`cmd/pmq/main.go:64`, run `router_startup`).
   Routers are sized before the defaults are applied.
3. **A topic can stay in state Joining** (`core/pubsub.go:203`, run
   `topics_joining`).
4. **Subscribing again has no effect** (`core/pubsub.go:134`, run
   `topics_already`). `Unsubscribe` leaves the cancelled subscription behind.
5. **A signer signs a sequence twice** (`examples/bls/node_internalnet.go:39`,
   run `reports_once`).

Read with the passing runs: (1) costs an answer and never the message
(`Conserved`), and since the caller treats the expired
context as Ignore, validation still fails closed. (3) never loses a handle that
was upgraded (`HandlesInPlace`). (5) does not make a result rest on fewer
signers (`FinalsBacked`).

Seen while modelling, and not the subject of a run of their own:

- A report of `examples/don` cannot be decoded: `ConfigDigest` is written by its
  `MarshalText` and has no `UnmarshalText`. `Marshal` of `Don` follows
  the code in this, so what its buffers hold in the run comes from other
  programs; the READMEs describe reports that travel between the DONs.
- If it could be decoded it would not be accepted: every signer signs the report
  with the signatures before its own in it (`report.go:22`), and the verifier
  checks without them, so one signature is good; the verifier's `dons` are never
  filled; and `localdon.go` subscribes to the name of a DON while `Transmit`
  publishes on `don.<name>`.
- `examples/bls` publishes with more signatures than the threshold
  (`node_internalnet.go:54` compares with `>`), while its README has a quorum
  suffice (`examples/bls/README.md:31`). `FinalsBacked` states what a reader relies
  on, signatures of two thirds, and holds either way; that the quorum alone should
  publish is not claimed anywhere here.
- The distance of sequence numbers is unsigned in `examples/bls`: most older
  numbers look far ahead and are rejected, some look near and pass. In
  `examples/don` it is signed and older numbers are ignored. `LatestCreeps` shows
  that the ones that pass do no harm to the latest report.
- `HandlePeerFound` checks the context that `NewController` got. `cmd/pmq` closes
  the controller before it cancels that context, so a peer found meanwhile ends
  the process with a send on a closed channel. `ShutdownClean` says when this can
  happen: never if the context is cancelled first and callbacks are let finish.
- A `Close` that overtakes `Start` may leave dials and an mDNS announcement
  behind, or panic in `WaitGroup.Wait`. So may a `Subscribe` or `RefreshRouters`
  that overlaps with `Close`: nothing refuses them once the controller closes.

## 6. Not modelled

- libp2p, gossipsub, the DHT, gRPC and the Go runtime are external; they appear
  as the code uses them. A data race on a map that the runtime would detect and
  abort on is modelled as seeing either value.
- Cryptography, serialisation, configuration files and logging. Of the set-up of
  the host and of gossipsub only what starts goroutines or callbacks.
- Fields of trace events; the DHT and the parsing of addresses.
- Panics of `examples/don` when a remote call fails at start.
- The verifier's `Stop` waits for its goroutine; the wait is not modelled (the
  same pattern of the consumer is).
- Networks of several bls nodes: the others are an environment that sends what
  one of `Worlds` holds, in any order.
- Negative sequence numbers in `examples/don`. `SeqNumber` is an `int64` and a
  negative one would index a slot below zero and panic (`don/reportbuf.go:31,53`);
  no DON of the repository makes one.
- A verdict that comes without a message, which `receiver` skips
  (`val_router.go:94`): no step of the model corresponds to it.
- More calls into a closing controller than `MaxCalls`: an unending supply of
  them could keep `Close` in its wait, as it could any wait group.

## 7. Plan

Done: router with contract and life cycle, topics, remote validation, delivery,
the bls signer, the don example, discovery and tracer, and the proofs above.

Next, in this order:

1. A composition of `HandleWait` with `PushWait`: the whole way of a verdict from
   the verifier to gossipsub, with an abstract specification "accepted only if
   judged", and the proof that the composition implements it.
2. The safety half of the liveness arguments, as invariants that say who is able
   to run while somebody waits (`CallsReturn`, `CloseCompletes`): what TLC shows
   of the instances would then rest, for every size, on fairness alone.
