----------------------------- MODULE PeerEvents -----------------------------
(****************************************************************************)
(* A controller's connections and its tracer: a peer that gets connected is *)
(* an event that pubsub traces.                                             *)
(****************************************************************************)
EXTENDS Discovery, Tracer

CONSTANT Configs   \* what a controller may be set up with; see Config

\* Whether there is an MdnsTag, the bootstrappers, the number of routers, how many
\* goroutines calls of RefreshRouters and Subscribe start, whether there is a
\* tracer and its skiplist.
Config == [tagged : BOOLEAN, bootstrappers : SUBSET Peers, routers : 0 .. 2, calls : 0 .. MaxCalls,
           trace : BOOLEAN, skiplist : SUBSET Types]

ASSUME ConfigsAssumption == Configs \subseteq Config
ASSUME AddsAssumption == Adds \subseteq Peers

VARIABLE tracing   \* the controller has a psTracer

vars == <<discoveryVars, tracerVars, tracing>>

Init == \E c \in Configs : /\ DiscoveryInit(c.tagged, c.bootstrappers, c.routers, c.calls)
                           /\ TracerInit(c.skiplist)
                           /\ tracing = c.trace

\* setupPubsubRouter gives pubsub the tracer, which then hears of every peer;
\* one event for a peer is enough here.
Trace == /\ tracing /\ Alive
         /\ TracerNext(Rejects \cup (Adds \cap connected))
         /\ UNCHANGED <<discoveryVars, tracing>>

\* Samples are taken by the goroutine that called Start and will call Close.
Sampling == sampler # <<>>
OneGoroutine == /\ Sampling' => start = "done" /\ close = "no"
                /\ Sampling => close' = close

Next == /\ (DiscoveryNext /\ UNCHANGED <<tracerVars, tracing>>) \/ Trace
        /\ OneGoroutine

\* The goroutines of the mDNS loop and of Close are scheduled, a dial ends, at the
\* latest with its timeout, and so do a router loop and a listener once the stop
\* channel is closed (the handlers of messages are assumed to return).
Fairness == WF_vars(LoopExits /\ UNCHANGED <<tracerVars, tracing>>)
            /\ WF_vars(CloseStep /\ UNCHANGED <<tracerVars, tracing>>)
            /\ WF_vars(close # "no" /\ ThreadExits /\ UNCHANGED <<tracerVars, tracing>>)
            /\ \A p \in Peers : WF_vars(DialReturns(p) /\ UNCHANGED <<tracerVars, tracing>>)

Spec == Init /\ [][Next]_vars /\ Fairness

\* Types; the mDNS queue is closed with its loop, and Reset holds the lock.
TypeOK == DiscoveryTypeOK /\ TracerTypeOK /\ tracing \in BOOLEAN
=============================================================================
