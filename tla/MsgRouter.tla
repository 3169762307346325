------------------------------ MODULE MsgRouter ------------------------------
(****************************************************************************)
(* The message router of core/router.go: a bounded queue, the Start loops   *)
(* that drain it, a pool of worker slots, and the callers of Handle and     *)
(* HandleWait.  The owner is the goroutine that drives the router's life    *)
(* cycle through the controller (core/ctrl.go): Start, RefreshRouters and   *)
(* Close, in the order of one of Programs.                                  *)
(*                                                                          *)
(* A message stands for one call of Handle or HandleWait together with the  *)
(* MsgWrapper that the call puts into the queue.  A step is what one        *)
(* goroutine does up to its next operation on shared state.                 *)
(****************************************************************************)
EXTENDS Integers, Sequences, FiniteSets

CONSTANTS
    Msgs,      \* the calls that may be made
    Nil,       \* the nil wrapper RefreshHandler pushes to stop a loop
    Results,   \* the values a handler may leave in MsgWrapper.Result
    Zero,      \* the zero value of the result type
    QSize,     \* capacity of the channel q
    Workers,   \* capacity of the channel workers
    Programs,  \* what owners do: sequences of "start", "refresh" and "close"
    MaxOps,    \* the longest of them
    Live,      \* those of them during which calls arrive from the beginning
    Deadline   \* TRUE: the contexts given to HandleWait expire

ASSUME MsgsAssumption == IsFiniteSet(Msgs) /\ Nil \notin Msgs
ASSUME SizesAssumption == QSize \in Nat /\ Workers \in Nat
ASSUME ProgramsAssumption ==
    /\ MaxOps \in Nat
    /\ \A p \in Programs : p \in Seq({"start", "refresh", "close"}) /\ Len(p) <= MaxOps
ASSUME ModeAssumption == Live \subseteq Programs /\ Deadline \in BOOLEAN

VARIABLES
    q,         \* the channel r.q
    slots,     \* len(r.workers)
    wg,        \* threadsWG of every thread control
    loop,      \* the Start goroutines, one per operation that spawns one
    held,      \* the wrapper a loop took from q
    group,     \* the thread control a loop is about to use
    work,      \* the goroutine that dispatchMsg started for a message
    gen,       \* the thread control that tracks it
    ran,       \* the handler it called
    result,    \* MsgWrapper.Result
    call,      \* where the call of Handle or HandleWait stands
    reply,     \* the value HandleWait received on callbackC
    handler,   \* r.handler, numbered: 0 is the one given to NewMsgRouter
    tc,        \* r.threadControl, numbered alike
    program,   \* what the owner does
    op,        \* the operation it is at
    owner,     \* its place in that operation
    closed     \* the controller's stop channel is closed

loopVars  == <<loop, held, group>>
workVars  == <<work, gen, ran>>
callVars  == <<result, call, reply>>
ownerVars == <<handler, tc, program, op, owner, closed>>
vars == <<q, slots, wg, loopVars, workVars, callVars, ownerVars>>

Loops == 1 .. MaxOps           \* operation i spawns loop i
Gens  == 0 .. MaxOps           \* operation i installs handler and threads i

LoopPCs  == {"off", "select", "acquire", "go", "exit"}
WorkPCs  == {"none", "spawned", "running", "callback", "release", "wgdone", "done"}
CallPCs  == {"new", "async", "sent", "wait", "ok", "timeout", "full"}
OwnerPCs == {"idle", "wait", "waiting", "woken", "assign", "newtc", "restart",
             "closing", "panic"}

(****************************************************************************)
(* Channel operations.                                                      *)
(****************************************************************************)
\* What a loop does with the value it takes from q: a nil wrapper ends it.
Take(l, x) == /\ loop' = [loop EXCEPT ![l] = IF x = Nil THEN "exit" ELSE "acquire"]
              /\ held' = [held EXCEPT ![l] = x]
              /\ group' = group

\* A send on q: into the buffer or, when q is unbuffered, into the hands of a
\* loop that is parked in its select.
Send(x) == \/ Len(q) < QSize /\ q' = Append(q, x) /\ UNCHANGED loopVars
           \/ /\ QSize = 0
              /\ \E l \in Loops : loop[l] = "select" /\ Take(l, x)
              /\ q' = q

\* The default branch of a non-blocking send.
QueueFull == Len(q) >= QSize

\* The runtime stops every goroutine once one of them has panicked.
Running == owner # "panic"

\* Calls reach the router once it is booted, or from the beginning when Live.
Open == program \in Live \/ \A i \in op .. Len(program) : program[i] = "close"

\* The owner is about to begin operation o.
Turn(o) == owner = "idle" /\ op \in DOMAIN program /\ program[op] = o

Init == /\ q = <<>>
        /\ slots = 0
        /\ wg = [g \in Gens |-> 0]
        /\ loop = [l \in Loops |-> "off"]
        /\ held = [l \in Loops |-> Nil]
        /\ group = [l \in Loops |-> 0]
        /\ work = [m \in Msgs |-> "none"]
        /\ gen = [m \in Msgs |-> 0]
        /\ ran = [m \in Msgs |-> 0]
        /\ result = [m \in Msgs |-> Zero]
        /\ call = [m \in Msgs |-> "new"]
        /\ reply = [m \in Msgs |-> Zero]
        /\ handler = 0
        /\ tc = 0
        /\ program \in Programs
        /\ op = 1
        /\ owner = "idle"
        /\ closed = FALSE

(****************************************************************************)
(* The callers.                                                             *)
(****************************************************************************)
Submit(m, pc) == /\ Running /\ Open /\ call[m] = "new"
                 /\ Send(m)
                 /\ call' = [call EXCEPT ![m] = pc]
                 /\ UNCHANGED <<slots, wg, workVars, result, reply, ownerVars>>

Handle(m) == Submit(m, "async")

\* The first select of HandleWait.
HandleWait(m) == Submit(m, "sent")

\* The caller m goes from one place to another.
CallerMoves(m, from, to) == /\ Running /\ call[m] = from
                            /\ call' = [call EXCEPT ![m] = to]
                            /\ UNCHANGED <<q, slots, wg, loopVars, workVars, result, reply, ownerVars>>

\* "router queue is full, dropping msg", in Handle and in HandleWait.
Drop(m) == Open /\ QueueFull /\ CallerMoves(m, "new", "full")

\* HandleWait parks in its second select: from now on callbackC has a receiver.
EnterWait(m) == CallerMoves(m, "sent", "wait")

\* pctx is done before an answer came: "timeout waiting for msg".
Timeout(m) == Deadline /\ CallerMoves(m, "wait", "timeout")

(****************************************************************************)
(* The loops of Start.                                                      *)
(****************************************************************************)
\* Mutant: the loop looks at its context after it took a message.
ReceiveThenQuit(l) == /\ Running /\ loop[l] = "select"
                      /\ q # <<>>
                      /\ IF closed THEN loop' = [loop EXCEPT ![l] = "exit"] /\ UNCHANGED <<held, group>>
                                   ELSE Take(l, Head(q))
                      /\ q' = Tail(q)
                      /\ UNCHANGED <<slots, wg, workVars, callVars, ownerVars>>

Receive(l) == /\ Running /\ loop[l] = "select"
              /\ q # <<>>
              /\ Take(l, Head(q))
              /\ q' = Tail(q)
              /\ UNCHANGED <<slots, wg, workVars, callVars, ownerVars>>

\* Mutant: the context is only looked at when a message is there.
StopOnMessage(l) == /\ Running /\ loop[l] = "select"
                    /\ closed /\ q # <<>>
                    /\ loop' = [loop EXCEPT ![l] = "exit"]
                    /\ UNCHANGED <<q, slots, wg, held, group, workVars, callVars, ownerVars>>

\* ctx.Done(): the controller's thread control was closed.
Stop(l) == /\ Running /\ loop[l] = "select"
           /\ closed
           /\ loop' = [loop EXCEPT ![l] = "exit"]
           /\ UNCHANGED <<q, slots, wg, held, group, workVars, callVars, ownerVars>>

\* Mutant: the pool has no limit.
AcquireUnbounded(l) == /\ Running /\ loop[l] = "acquire"
                       /\ slots' = slots + 1
                       /\ loop' = [loop EXCEPT ![l] = "go"]
                       /\ group' = [group EXCEPT ![l] = tc]
                       /\ UNCHANGED <<q, wg, held, workVars, callVars, ownerVars>>

\* dispatchMsg: r.workers <- struct{}{}, then r.threadControl is read.
Acquire(l) == /\ Running /\ loop[l] = "acquire"
              /\ slots < Workers
              /\ slots' = slots + 1
              /\ loop' = [loop EXCEPT ![l] = "go"]
              /\ group' = [group EXCEPT ![l] = tc]
              /\ UNCHANGED <<q, wg, held, workVars, callVars, ownerVars>>

\* threadControl.Go: threadsWG.Add(1) and the go statement.
Go(l) == /\ Running /\ loop[l] = "go"
         /\ wg' = [wg EXCEPT ![group[l]] = @ + 1]
         /\ work' = [work EXCEPT ![held[l]] = "spawned"]
         /\ gen' = [gen EXCEPT ![held[l]] = group[l]]
         /\ loop' = [loop EXCEPT ![l] = "select"]
         /\ held' = [held EXCEPT ![l] = Nil]
         /\ UNCHANGED <<q, slots, group, ran, callVars, ownerVars>>

(****************************************************************************)
(* The worker goroutines.                                                   *)
(****************************************************************************)
WorkerMoves(m, from, to) == /\ Running /\ work[m] = from
                            /\ work' = [work EXCEPT ![m] = to]
                            /\ UNCHANGED <<q, loopVars, gen>>

\* r.handler is read when the worker runs, not when the message is dispatched.
CallHandler(m) == /\ WorkerMoves(m, "spawned", "running")
                  /\ ran' = [ran EXCEPT ![m] = handler]
                  /\ UNCHANGED <<slots, wg, callVars, ownerVars>>

\* The handler returns; it may or may not have set Result.
HandlerReturns(m) == /\ WorkerMoves(m, "running", "callback")
                     /\ \E v \in Results \cup {Zero} : result' = [result EXCEPT ![m] = v]
                     /\ UNCHANGED <<slots, wg, ran, call, reply, ownerVars>>

\* Mutant: the answer overrides the error of a call that timed out.
CallbackLate(m) == /\ WorkerMoves(m, "callback", "release")
                   /\ \/ /\ call[m] \in {"wait", "timeout"}
                         /\ call' = [call EXCEPT ![m] = "ok"]
                         /\ reply' = [reply EXCEPT ![m] = result[m]]
                      \/ /\ call[m] \notin {"wait", "timeout"}
                         /\ UNCHANGED <<call, reply>>
                   /\ UNCHANGED <<slots, wg, ran, result, ownerVars>>

\* msg.callback(msg.Result): callbackC is unbuffered and the send does not
\* block, so the answer is dropped unless HandleWait is parked in its select.
Callback(m) == /\ WorkerMoves(m, "callback", "release")
               /\ \/ /\ call[m] = "wait"
                     /\ call' = [call EXCEPT ![m] = "ok"]
                     /\ reply' = [reply EXCEPT ![m] = result[m]]
                  \/ /\ call[m] # "wait"
                     /\ UNCHANGED <<call, reply>>
               /\ UNCHANGED <<slots, wg, ran, result, ownerVars>>

\* The deferred <-r.workers.
Release(m) == /\ WorkerMoves(m, "release", "wgdone")
              /\ slots' = slots - 1
              /\ UNCHANGED <<wg, ran, callVars, ownerVars>>

\* threadsWG.Done on group g: reaching zero releases a blocked Wait.
Done(g) == /\ wg' = [wg EXCEPT ![g] = @ - 1]
           /\ owner' = IF owner = "waiting" /\ g = tc /\ wg[g] = 1 THEN "woken" ELSE owner
           /\ UNCHANGED <<handler, tc, program, op, closed>>

\* Mutant: Done goes to the current thread control, not to the worker's own.
WgDoneCurrent(m) == /\ WorkerMoves(m, "wgdone", "done")
                    /\ Done(tc)
                    /\ UNCHANGED <<slots, ran, callVars>>

\* The deferred threadsWG.Done.
WgDone(m) == /\ WorkerMoves(m, "wgdone", "done")
             /\ Done(gen[m])
             /\ UNCHANGED <<slots, ran, callVars>>

(****************************************************************************)
(* The owner: Controller.Start, RefreshRouters and Close.                   *)
(****************************************************************************)
\* threadControl.Go(msgRouter.Start), and on to the next operation.
SpawnLoop == /\ loop' = [loop EXCEPT ![op] = "select"]
             /\ op' = op + 1
             /\ owner' = "idle"
             /\ UNCHANGED <<q, slots, wg, held, group, workVars, callVars, handler, tc, program, closed>>

\* The owner goes on in its operation.
OwnerMoves(to) == /\ owner' = to
                  /\ UNCHANGED <<slots, wg, workVars, callVars, program, op>>

\* Controller.Start; the discovery services it starts do not touch the router.
Start == Turn("start") /\ SpawnLoop

\* RefreshHandler: r.q <- nil blocks while q is full.
RefreshNil == /\ Turn("refresh")
              /\ Send(Nil)
              /\ OwnerMoves("wait")
              /\ UNCHANGED <<handler, tc, closed>>

\* RefreshHandler: r.threadControl.Close(), which waits for the workers.
RefreshWait == /\ owner = "wait"
               /\ OwnerMoves(IF wg[tc] = 0 THEN "assign" ELSE "waiting")
               /\ UNCHANGED <<q, loopVars, handler, tc, closed>>

\* Wait wakes up, and panics when the group was reused in the meantime.
RefreshWoken == /\ owner = "woken"
                /\ OwnerMoves(IF wg[tc] = 0 THEN "assign" ELSE "panic")
                /\ UNCHANGED <<q, loopVars, handler, tc, closed>>

\* RefreshHandler: r.handler = handler.
RefreshAssign == /\ owner = "assign"
                 /\ handler' = op
                 /\ OwnerMoves("newtc")
                 /\ UNCHANGED <<q, loopVars, tc, closed>>

\* RefreshHandler: r.threadControl = utils.NewThreadControl().
RefreshThreads == /\ owner = "newtc"
                  /\ tc' = op
                  /\ OwnerMoves("restart")
                  /\ UNCHANGED <<q, loopVars, handler, closed>>

\* Mutant: the router is not restarted after a refresh.
RestartForgotten == /\ owner = "restart"
                    /\ op' = op + 1
                    /\ owner' = "idle"
                    /\ UNCHANGED <<q, slots, wg, loopVars, workVars, callVars, handler, tc, program, closed>>

\* RefreshRouters restarts the router that it refreshed.
Restart == owner = "restart" /\ SpawnLoop

\* Controller.Close: the stop channel is closed ...
Close == /\ Turn("close")
         /\ closed' = TRUE
         /\ OwnerMoves("closing")
         /\ UNCHANGED <<q, loopVars, handler, tc>>

\* ... and Close waits for the goroutines of the controller, the loops, before
\* it closes the host, which ends the calls that come from the network.
CloseReturns == /\ owner = "closing"
                /\ \A l \in Loops : loop[l] \in {"off", "exit"}
                /\ op' = op + 1
                /\ owner' = "idle"
                /\ UNCHANGED <<q, slots, wg, loopVars, workVars, callVars, handler, tc, program, closed>>

CallerStep(m) == EnterWait(m) \/ Timeout(m)
LoopStep(l)   == Receive(l) \/ Stop(l) \/ Acquire(l) \/ Go(l)
WorkerStep(m) == CallHandler(m) \/ HandlerReturns(m) \/ Callback(m) \/ Release(m) \/ WgDone(m)
OwnerStep     == \/ Start \/ RefreshNil \/ RefreshWait \/ RefreshWoken
                 \/ RefreshAssign \/ RefreshThreads \/ Restart
                 \/ CloseReturns

Next == \/ \E m \in Msgs : Handle(m) \/ HandleWait(m) \/ Drop(m)
        \/ \E m \in Msgs : CallerStep(m) \/ WorkerStep(m)
        \/ \E l \in Loops : LoopStep(l)
        \/ OwnerStep \/ Close

\* A goroutine that can run eventually does, a handler returns, and a context
\* with a deadline expires; nobody is obliged to call the router or to close it.
Fairness == /\ \A m \in Msgs : WF_vars(CallerStep(m)) /\ WF_vars(WorkerStep(m))
            /\ \A l \in Loops : WF_vars(LoopStep(l))
            /\ WF_vars(OwnerStep)

Spec == Init /\ [][Next]_vars
FairSpec == Spec /\ Fairness

(****************************************************************************)
(* Properties.                                                              *)
(****************************************************************************)
\* Every variable keeps its type.
TypeOK ==
    /\ q \in Seq(Msgs \cup {Nil}) /\ Len(q) <= QSize
    /\ slots \in 0 .. Workers
    /\ wg \in [Gens -> Nat]
    /\ loop \in [Loops -> LoopPCs]
    /\ held \in [Loops -> Msgs \cup {Nil}]
    /\ group \in [Loops -> Gens]
    /\ work \in [Msgs -> WorkPCs]
    /\ gen \in [Msgs -> Gens] /\ ran \in [Msgs -> Gens]
    /\ result \in [Msgs -> Results \cup {Zero}]
    /\ call \in [Msgs -> CallPCs]
    /\ reply \in [Msgs -> Results \cup {Zero}]
    /\ handler \in Gens /\ tc \in Gens
    /\ program \in Programs /\ op \in 1 .. MaxOps + 1
    /\ owner \in OwnerPCs
    /\ closed \in BOOLEAN

Accepted(m) == call[m] \notin {"new", "full"}
Carries(l)  == loop[l] \in {"acquire", "go"}
Queued(m)   == \E i \in DOMAIN q : q[i] = m
Held(m)     == \E l \in Loops : Carries(l) /\ held[l] = m
Dispatched(m) == work[m] # "none"

\* A message that Handle or HandleWait accepted is in exactly one place: once
\* in the queue, in the hands of one loop, or with one worker.  None is lost
\* or dispatched twice, however many loops a refresh leaves on the queue.
Conserved ==
    /\ \A m \in Msgs : Accepted(m) <=> (Queued(m) \/ Held(m) \/ Dispatched(m))
    /\ \A m \in Msgs : ~(Queued(m) /\ Held(m))
    /\ \A m \in Msgs : ~(Dispatched(m) /\ (Queued(m) \/ Held(m)))
    /\ \A i, j \in DOMAIN q : q[i] = q[j] /\ q[i] # Nil => i = j
    /\ \A k, l \in Loops : Carries(k) /\ Carries(l) /\ held[k] = held[l] => k = l

SlotLoops   == {l \in Loops : loop[l] = "go"}
SlotWorkers == {m \in Msgs : work[m] \in {"spawned", "running", "callback", "release"}}
Tracked(g)  == {m \in Msgs : work[m] \notin {"none", "done"} /\ gen[m] = g}
RunningHandlers == {m \in Msgs : work[m] = "running"}

\* The channel workers and the wait groups count exactly the goroutines they
\* stand for, across refreshes: a slot is taken by the loop, handed to the
\* worker it starts and given back by that worker, and every worker counts in
\* the group of the thread control that was current when it was dispatched.
Accounted == /\ slots = Cardinality(SlotLoops) + Cardinality(SlotWorkers)
             /\ \A g \in Gens : wg[g] = Cardinality(Tracked(g))

\* No more than Workers handlers run at a time, also while the loops of
\* several generations drain the queue together.
HandlersBounded == Cardinality(RunningHandlers) <= Workers

Refreshing == owner \notin {"idle", "closing"}
LiveLoops  == {l \in Loops : loop[l] \notin {"off", "exit"}}
NilsQueued == {i \in DOMAIN q : q[i] = Nil}
Starts     == {i \in 1 .. op - 1 : program[i] = "start"}

\* Every nil that RefreshHandler queues ends exactly one loop and RefreshRouters
\* starts exactly one: until the controller is closed the loops that will
\* remain are as many as Controller.Start started, whichever loop takes the nil.
LoopsBalanced == ~closed =>
    Cardinality(LiveLoops) - Cardinality(NilsQueued) =
        Cardinality(Starts) - (IF Refreshing THEN 1 ELSE 0)

\* The router does what its interface promises.
Status(m) == IF call[m] = "new" THEN "new"
             ELSE IF call[m] = "full" THEN "refused"
             ELSE IF work[m] \in {"none", "spawned"} THEN "accepted"
             ELSE IF work[m] = "running" THEN "running" ELSE "handled"
Outcome(m) == IF call[m] \in {"sent", "wait"} THEN "pending"
              ELSE IF call[m] = "ok" THEN "answered"
              ELSE IF call[m] = "timeout" THEN "expired" ELSE "none"

Contract == INSTANCE RouterContract
                WITH status  <- [m \in Msgs |-> Status(m)],
                     outcome <- [m \in Msgs |-> Outcome(m)],
                     answer  <- reply

\* Refinement: every step of queue, loops, slots and refreshes is a step of
\* the contract or none at all.
ContractHolds == Contract!Spec

\* The programs in which calls arrive after the boot, as cmd/pmq/main.go does.
Quiet == program \notin Live

\* A message accepted after the boot reaches a handler, unless the controller
\* is closed first: a refresh never leaves the queue without a loop.
AcceptedIsHandled == \A m \in Msgs : (Quiet /\ Accepted(m)) ~> (Status(m) = "handled" \/ closed)

\* Before calls arrive Start and RefreshRouters return, and Close does once it
\* is called: no send of nil, wait for workers or for loops blocks for ever,
\* and the owner, whose program is finite, comes to rest.
Busy == /\ op \in DOMAIN program
        /\ program[op] = "close" => owner = "closing"
OwnerReturns == (Quiet /\ Busy) ~> ~Busy

\* What core/router_test.go expects of HandleWait with a context that has no
\* deadline: an accepted call returns the handler's result.
HandleWaitAnswers == \A m \in Msgs : call[m] = "sent" ~> call[m] = "ok"
=============================================================================
