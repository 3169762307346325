------------------------------ MODULE Discovery ------------------------------
(****************************************************************************)
(* How a controller finds and dials its peers, and how it stops: Start,     *)
(* Connect and Close of core/ctrl.go, core/mdns.go and core/conn.go.        *)
(*                                                                          *)
(* The mDNS service, the libp2p host and the network are external.  The     *)
(* service calls HandlePeerFound in a goroutine of its own, which nothing   *)
(* waits for.  The thread control counts the mDNS loop, the dials, the      *)
(* routers' loops and the listeners of subscriptions; of the last two only  *)
(* their number matters here (see MsgRouter and TopicManager).              *)
(****************************************************************************)
EXTENDS Integers, Sequences, FiniteSets

CONSTANTS
    Peers,
    QSize,      \* capacity of the notifee's queue, 32 in mdns.go
    MaxFound,   \* bound on the peers that mDNS reports
    MaxCalls    \* bound on the goroutines that RefreshRouters and Subscribe start

ASSUME FoundAssumption == QSize \in Nat \ {0} /\ MaxFound \in Nat
ASSUME BoundAssumption == MaxCalls \in Nat

VARIABLES
    start,          \* where Start is
    routers,        \* how many routers it has yet to start
    bootstrappers,  \* those it has yet to dial
    close,          \* where Close is
    cancelled,      \* the context of NewController and Start
    mdns,           \* the mDNS service
    loop,           \* the goroutine of setupMdnsDiscovery
    q, qClosed,     \* mdnsNotifee.q
    found,          \* number of peers reported
    notify,         \* where HandlePeerFound is, by peer
    dial,           \* number of goroutines that connect started, by peer
    calls,          \* how many goroutines others may yet start
    threads,        \* number of router loops and listeners that run
    host,           \* "open" until Close closes it
    connected,      \* peers that the host has a connection with
    crashed,        \* a panic ended the process: "no", or its reason
    overtaken,      \* history: Close was called before Start had returned
    late,           \* history: a goroutine was started after Wait had been woken
    quiet           \* history: Close was called when the context was done and
                    \* no callback was past its check

startVars  == <<start, routers, bootstrappers>>
threadVars == <<calls, threads, late>>
mdnsVars   == <<mdns, found, notify>>
loopVars   == <<loop, q, qClosed>>
netVars    == <<dial, host, connected>>
closeVars  == <<close, overtaken, quiet>>
discoveryVars ==
    <<startVars, threadVars, mdnsVars, loopVars, netVars, closeVars, cancelled, crashed>>

\* NewController: setupMdnsDiscovery only if there is a tag; its goroutine runs
\* at once, the service does not.  Either router may be nil.
DiscoveryInit(tagged, boot, nrouters, ncalls) ==
    /\ start = "new" /\ bootstrappers = boot /\ routers = nrouters
    /\ calls = ncalls /\ threads = 0 /\ late = FALSE
    /\ close = "no" /\ cancelled = FALSE
    /\ mdns = IF tagged THEN "idle" ELSE "nil"
    /\ loop = IF tagged THEN "run" ELSE "none"
    /\ q = <<>> /\ qClosed = FALSE
    /\ found = 0 /\ notify = [p \in Peers |-> "none"]
    /\ dial = [p \in Peers |-> 0]
    /\ host = "open" /\ connected = {}
    /\ crashed = "no" /\ overtaken = FALSE /\ quiet = FALSE

Alive == crashed = "no"

(****************************************************************************)
(* thread_control.go.                                                       *)
(****************************************************************************)
\* Go in a goroutine that the wait group does not count: nothing keeps Wait from
\* being woken before.  The Add that falls into that moment may panic.
GoFromOutside ==
    /\ late' = (late \/ close \notin {"no", "wait"})
    /\ crashed' \in {crashed} \cup (IF close = "woken" THEN {"wait"} ELSE {})

\* RefreshRouters or Subscribe, called by anybody at any time, gets to its Go.
CallGoes ==
    /\ Alive /\ calls > 0
    /\ calls' = calls - 1
    /\ threads' = threads + 1
    /\ GoFromOutside
    /\ UNCHANGED <<startVars, mdnsVars, loopVars, netVars, closeVars, cancelled>>

\* A router loop gets nil or a listener's subscription is cancelled, or the stop
\* channel is closed.
ThreadExits ==
    /\ Alive /\ threads > 0
    /\ threads' = threads - 1
    /\ UNCHANGED <<startVars, calls, late, mdnsVars, loopVars, netVars, closeVars, cancelled, crashed>>

(****************************************************************************)
(* conn.go.                                                                 *)
(****************************************************************************)
\* connect: nothing if the peer is connected, else a goroutine that dials.
\* Nothing tells whether one is dialling already.
connect(p) == dial' = IF p \in connected THEN dial ELSE [dial EXCEPT ![p] = @ + 1]

\* host.Connect returns: a connection, unless the host is closed, or an error
\* (the peer, the dial timeout, the context of the thread control).
DialReturns(p) ==
    /\ Alive /\ dial[p] > 0
    /\ dial' = [dial EXCEPT ![p] = @ - 1]
    /\ \/ host = "open" /\ connected' = connected \cup {p}
       \/ UNCHANGED connected
    /\ UNCHANGED <<startVars, threadVars, mdnsVars, loopVars, host, closeVars, cancelled, crashed>>

\* A call of Controller.Connect, in the goroutine of its caller, or a
\* connection that the peer opens.
Connect(p) ==
    /\ Alive /\ host = "open" /\ p \notin connected
    /\ connected' = connected \cup {p}
    /\ UNCHANGED <<startVars, threadVars, mdnsVars, loopVars, dial, host, closeVars, cancelled, crashed>>

Disconnect(p) ==
    /\ Alive /\ p \in connected
    /\ connected' = connected \ {p}
    /\ UNCHANGED <<startVars, threadVars, mdnsVars, loopVars, dial, host, closeVars, cancelled, crashed>>

(****************************************************************************)
(* Start.                                                                   *)
(****************************************************************************)
StartBegins ==
    /\ Alive /\ start = "new"
    /\ start' = "bootstrap"
    /\ UNCHANGED <<routers, bootstrappers, threadVars, mdnsVars, loopVars, netVars, closeVars, cancelled, crashed>>

StartRouter ==
    /\ Alive /\ start = "bootstrap" /\ routers > 0
    /\ routers' = routers - 1
    /\ threads' = threads + 1
    /\ GoFromOutside
    /\ UNCHANGED <<start, bootstrappers, calls, mdnsVars, loopVars, netVars, closeVars, cancelled>>

StartConnects(p) ==
    /\ Alive /\ start = "bootstrap" /\ routers = 0 /\ p \in bootstrappers
    /\ bootstrappers' = bootstrappers \ {p}
    /\ connect(p)
    /\ IF p \in connected THEN UNCHANGED <<late, crashed>> ELSE GoFromOutside
    /\ UNCHANGED <<start, routers, calls, threads, mdnsVars, loopVars, host, connected, closeVars, cancelled>>

\* The DHT is bootstrapped, and mdnsSvc.Start called if there is a service.  It
\* may fail.  A service that was closed before announces the host from now on,
\* with nobody to end that, and looks for nobody.
StartMdns ==
    /\ Alive /\ start = "bootstrap" /\ routers = 0 /\ bootstrappers = {}
    /\ start' = "done"
    /\ mdns' \in {mdns} \cup (IF mdns = "idle" THEN {"run"} ELSE {})
                        \cup (IF mdns = "closed" THEN {"leaked"} ELSE {})
    /\ UNCHANGED <<routers, bootstrappers, threadVars, found, notify, loopVars, netVars, closeVars, cancelled, crashed>>

(****************************************************************************)
(* mdns.go.                                                                 *)
(****************************************************************************)
\* The service found a peer and starts HandlePeerFound.
Find(p) ==
    /\ Alive /\ mdns = "run" /\ found < MaxFound /\ notify[p] = "none"
    /\ found' = found + 1
    /\ notify' = [notify EXCEPT ![p] = "check"]
    /\ UNCHANGED <<startVars, threadVars, mdns, loopVars, netVars, closeVars, cancelled, crashed>>

\* HandlePeerFound looks at the context of NewController, which Close does not
\* cancel.
HandlePeerFound(p) ==
    /\ Alive /\ notify[p] = "check"
    /\ notify' = [notify EXCEPT ![p] = IF cancelled THEN "none" ELSE "send"]
    /\ UNCHANGED <<startVars, threadVars, mdns, found, loopVars, netVars, closeVars, cancelled, crashed>>

\* It sends, drops the peer if the queue is full, and panics if it is closed.
NotifySends(p) ==
    /\ Alive /\ notify[p] = "send"
    /\ notify' = [notify EXCEPT ![p] = "none"]
    /\ \/ qClosed /\ crashed' = "send" /\ UNCHANGED q
       \/ ~qClosed /\ Len(q) < QSize /\ q' = Append(q, p) /\ UNCHANGED crashed
       \/ ~qClosed /\ Len(q) = QSize /\ UNCHANGED <<q, crashed>>
    /\ UNCHANGED <<startVars, threadVars, mdns, found, loop, qClosed, netVars, closeVars, cancelled>>

LoopTakes ==
    /\ Alive /\ loop = "run" /\ q # <<>>
    /\ q' = Tail(q)
    /\ connect(Head(q))
    /\ UNCHANGED <<startVars, threadVars, mdnsVars, loop, qClosed, host, connected, closeVars, cancelled, crashed>>

\* Mutant: the context is looked at after a peer was received, and only then.
LoopExitsLate ==
    /\ Alive /\ loop = "run" /\ close # "no" /\ q # <<>>
    /\ loop' = "exited" /\ qClosed' = TRUE
    /\ q' = Tail(q)
    /\ UNCHANGED <<startVars, threadVars, mdnsVars, netVars, closeVars, cancelled, crashed>>

\* The context of the goroutine is done: it closes the queue.
LoopExits ==
    /\ Alive /\ loop = "run" /\ close # "no"
    /\ loop' = "exited" /\ qClosed' = TRUE
    /\ UNCHANGED <<startVars, threadVars, mdnsVars, q, netVars, closeVars, cancelled, crashed>>

(****************************************************************************)
(* Close.                                                                   *)
(****************************************************************************)
\* The counter of the wait group is zero.
NoThreads == loop # "run" /\ threads = 0 /\ \A p \in Peers : dial[p] = 0

\* threadControl.Close closes the stop channel.
CloseBegins ==
    /\ Alive /\ close = "no"
    /\ close' = "wait"
    /\ overtaken' = (start # "done")
    /\ quiet' = (cancelled /\ \A p \in Peers : notify[p] # "send")
    /\ UNCHANGED <<startVars, threadVars, mdnsVars, loopVars, netVars, cancelled, crashed>>

\* Mutant: nobody waits for the goroutines.
CloseHurries ==
    /\ Alive /\ close = "wait"
    /\ close' = "woken"
    /\ UNCHANGED <<startVars, threadVars, mdnsVars, loopVars, netVars, overtaken, quiet, cancelled, crashed>>

\* The counter of the wait group gets to zero.
CloseWaits ==
    /\ Alive /\ close = "wait" /\ NoThreads
    /\ close' = "woken"
    /\ UNCHANGED <<startVars, threadVars, mdnsVars, loopVars, netVars, overtaken, quiet, cancelled, crashed>>

\* Wait returns; it panics if it slept and finds that the counter grew again,
\* whoever it was that called Go.
CloseWoken ==
    /\ Alive /\ close = "woken"
    /\ \/ close' = "mdns" /\ UNCHANGED crashed
       \/ ~NoThreads /\ crashed' = "wait" /\ UNCHANGED close
    /\ UNCHANGED <<startVars, threadVars, mdnsVars, loopVars, netVars, overtaken, quiet, cancelled>>

\* dht.Close, and mdnsSvc.Close if there is a service; it does not wait for
\* the callbacks.
CloseMdns ==
    /\ Alive /\ close = "mdns"
    /\ close' = "host"
    /\ mdns' = IF mdns \in {"idle", "run"} THEN "closed" ELSE mdns
    /\ UNCHANGED <<startVars, threadVars, found, notify, loopVars, netVars, overtaken, quiet, cancelled, crashed>>

CloseHost ==
    /\ Alive /\ close = "host"
    /\ close' = "done"
    /\ host' = "closed" /\ connected' = {}
    /\ UNCHANGED <<startVars, threadVars, mdnsVars, loopVars, dial, overtaken, quiet, cancelled, crashed>>

\* Whoever made the controller cancels its context.
Cancel ==
    /\ Alive /\ ~cancelled
    /\ cancelled' = TRUE
    /\ UNCHANGED <<startVars, threadVars, mdnsVars, loopVars, netVars, closeVars, crashed>>

CloseStep == CloseWaits \/ CloseWoken \/ CloseMdns \/ CloseHost

DiscoveryNext ==
    \/ StartBegins \/ StartRouter \/ StartMdns \/ CallGoes \/ ThreadExits
    \/ LoopTakes \/ LoopExits
    \/ CloseBegins \/ CloseStep \/ Cancel
    \/ \E p \in Peers : \/ StartConnects(p) \/ DialReturns(p) \/ Connect(p) \/ Disconnect(p)
                        \/ Find(p) \/ HandlePeerFound(p) \/ NotifySends(p)

(****************************************************************************)
(* Properties.                                                              *)
(****************************************************************************)
DiscoveryTypeOK ==
    /\ start \in {"new", "bootstrap", "done"} /\ bootstrappers \subseteq Peers
    /\ routers \in 0 .. 2 /\ calls \in 0 .. MaxCalls /\ threads \in 0 .. MaxCalls + 2 /\ late \in BOOLEAN
    /\ close \in {"no", "wait", "woken", "mdns", "host", "done"}
    /\ cancelled \in BOOLEAN /\ overtaken \in BOOLEAN /\ quiet \in BOOLEAN
    /\ mdns \in {"nil", "idle", "run", "closed", "leaked"}
    /\ loop \in {"none", "run", "exited"}
    /\ q \in Seq(Peers) /\ Len(q) <= QSize /\ qClosed = (loop = "exited")
    /\ found \in 0 .. MaxFound /\ notify \in [Peers -> {"none", "check", "send"}]
    /\ dial \in [Peers -> Nat]
    /\ host \in {"open", "closed"} /\ connected \subseteq Peers
    /\ crashed \in {"no", "send", "wait"}

\* What Close leaves behind, and when it panics.  Every goroutine of the
\* controller is over when Close returns: the mDNS loop, the dials it goes on
\* starting while Close waits, router loops and listeners; only a RefreshRouters,
\* a Subscribe or a Start that gets to its Go after the wait group was drained
\* leaves one behind, or makes Wait or its own Add panic.  No connection stays
\* open, and no announcement unless Close overtook Start.  A late HandlePeerFound
\* panics at the closed queue only in a shutdown, and in none before which the
\* context was cancelled and the callbacks past their check were over.
ShutdownClean ==
    /\ close = "done" => connected = {} /\ (NoThreads \/ late)
    /\ close = "done" /\ ~overtaken => mdns \in {"nil", "closed"}
    /\ crashed = "send" => close # "no" /\ ~quiet
    /\ crashed = "wait" => late

\* Close returns, or a panic ends everything: no dial, no queued peer and no
\* subscription that is made meanwhile keeps it, also if peers go on being found.
CloseCompletes == close = "wait" ~> (close = "done" \/ crashed # "no")
==============================================================================
