------------------------------ MODULE Delivery ------------------------------
(****************************************************************************)
(* How messages reach the applications: MsgRouterImpl of                    *)
(* api/grpc/msg_router.go, one Listen loop for every connected consumer,    *)
(* and the consumer clients of api/grpc/client/consumer.go, each with a     *)
(* goroutine that receives and a loop that calls the handler.               *)
(*                                                                          *)
(* A message is the number of the Push that brought it.  A consumer is      *)
(* started once and stopped once, in either order.  A gRPC stream is a      *)
(* sequence, bounded by flow control; a connection that is cut loses what   *)
(* is in it.                                                                *)
(****************************************************************************)
EXTENDS Integers, Sequences, FiniteSets, SequencesExt

CONSTANTS
    Consumers,
    MaxPushes,   \* bound on the messages pushed
    MaxEnds,     \* bound on the calls of Stop, cancellations and cut connections
    QSize,       \* capacity of the server's queue
    StreamSize,  \* what flow control lets a stream hold
    MsgQSize,    \* capacity of the client's queue
    None         \* no message

ASSUME SizesAssumption == /\ QSize \in Nat \ {0} /\ StreamSize \in Nat \ {0}
                          /\ MsgQSize \in Nat \ {0} /\ MaxPushes \in Nat /\ MaxEnds \in Nat
ASSUME NoneAssumption == None \notin Nat

VARIABLES
    pushed,     \* number of calls of Push
    q,          \* the server's queue
    listen,     \* the Listen loop of a consumer
    held,       \* the message it took and has not sent
    stream,     \* messages on their way to the consumer
    broken,     \* the consumers whose connection was cut
    cancelled,  \* the consumers whose Start had its context cancelled
    recv,       \* the receiving goroutine
    msgQ,       \* the client's queue; the goroutine closes it as it returns
    loop,       \* the loop of Start
    stop,       \* a call of Stop
    handled,    \* what the handler was called with, in this order
    lost        \* messages that went nowhere, by how that happened

serverVars == <<pushed, q, listen, held>>
connVars   == <<stream, broken, cancelled>>
clientVars == <<recv, msgQ, loop, stop, handled>>
vars == <<serverVars, connVars, clientVars, lost>>

Ways == {"full",     \* Push found the queue full
         "unsent",   \* Listen took it and could not send it
         "cut",      \* it was in the stream when the client stopped reading
         "dropped",  \* the client's queue was full
         "stopped"}  \* it was received after Stop was called

Init == /\ pushed = 0 /\ q = <<>>
        /\ listen = [c \in Consumers |-> "off"]
        /\ held = [c \in Consumers |-> None]
        /\ stream = [c \in Consumers |-> <<>>]
        /\ broken = {} /\ cancelled = {}
        /\ recv = [c \in Consumers |-> "off"]
        /\ msgQ = [c \in Consumers |-> <<>>]
        /\ loop = [c \in Consumers |-> "off"]
        /\ stop = [c \in Consumers |-> "no"]
        /\ handled = [c \in Consumers |-> <<>>]
        /\ lost = [w \in Ways |-> {}]

\* The stream of the consumer returns errors, on both ends.
Failed(c) == c \in broken \cup cancelled

\* The bound on what ends a consumer.
MoreEnds == Cardinality(broken) + Cardinality(cancelled)
                + Cardinality({c \in Consumers : stop[c] # "no"}) < MaxEnds

Lose(how, msgs) == lost' = [lost EXCEPT ![how] = @ \cup msgs]

(****************************************************************************)
(* The server.                                                              *)
(****************************************************************************)
\* Mutant: whoever pushes does not look at the capacity.
PushUnbounded ==
    /\ pushed < MaxPushes
    /\ pushed' = pushed + 1
    /\ q' = Append(q, pushed + 1)
    /\ UNCHANGED <<listen, held, connVars, clientVars, lost>>

\* Push never blocks: with a full queue it returns an error, which its caller
\* in cmd/pmq only logs.
Push ==
    /\ pushed < MaxPushes
    /\ pushed' = pushed + 1
    /\ \/ Len(q) < QSize /\ q' = Append(q, pushed + 1) /\ UNCHANGED lost
       \/ Len(q) = QSize /\ Lose("full", {pushed + 1}) /\ UNCHANGED q
    /\ UNCHANGED <<listen, held, connVars, clientVars>>

\* Mutant: the message stays in the queue until it is sent.
ListenPeeks(c) ==
    /\ listen[c] = "select" /\ q # <<>>
    /\ held' = [held EXCEPT ![c] = Head(q)]
    /\ listen' = [listen EXCEPT ![c] = "send"]
    /\ UNCHANGED <<pushed, q, connVars, clientVars, lost>>

\* Listen takes the next message: select does not prefer a context that is
\* done to a queue that has something.
ListenTakes(c) ==
    /\ listen[c] = "select" /\ q # <<>>
    /\ q' = Tail(q)
    /\ held' = [held EXCEPT ![c] = Head(q)]
    /\ listen' = [listen EXCEPT ![c] = "send"]
    /\ UNCHANGED <<pushed, connVars, clientVars, lost>>

\* Mutant: Listen returns whatever Send returns.
ListenSendsOne(c) ==
    /\ listen[c] = "send" /\ ~Failed(c) /\ Len(stream[c]) < StreamSize
    /\ stream' = [stream EXCEPT ![c] = Append(@, held[c])]
    /\ held' = [held EXCEPT ![c] = None]
    /\ listen' = [listen EXCEPT ![c] = "off"]
    /\ UNCHANGED <<pushed, q, broken, cancelled, clientVars, lost>>

\* Send puts it on the stream, when flow control lets it.
ListenSends(c) ==
    /\ listen[c] = "send" /\ ~Failed(c) /\ Len(stream[c]) < StreamSize
    /\ stream' = [stream EXCEPT ![c] = Append(@, held[c])]
    /\ held' = [held EXCEPT ![c] = None]
    /\ listen' = [listen EXCEPT ![c] = "select"]
    /\ UNCHANGED <<pushed, q, broken, cancelled, clientVars, lost>>

\* Mutant: an error of Send is ignored.
ListenGoesOn(c) ==
    /\ Failed(c) /\ listen[c] = "send"
    /\ Lose("unsent", {held[c]})
    /\ held' = [held EXCEPT ![c] = None]
    /\ listen' = [listen EXCEPT ![c] = "select"]
    /\ UNCHANGED <<pushed, q, connVars, clientVars>>

\* Listen returns: its context is done, or Send failed.
ListenReturns(c) ==
    /\ Failed(c) /\ listen[c] \in {"select", "send"}
    /\ \/ listen[c] = "select" /\ UNCHANGED lost
       \/ listen[c] = "send" /\ Lose("unsent", {held[c]})
    /\ held' = [held EXCEPT ![c] = None]
    /\ listen' = [listen EXCEPT ![c] = "off"]
    /\ UNCHANGED <<pushed, q, connVars, clientVars>>

(****************************************************************************)
(* The client.                                                              *)
(****************************************************************************)
\* The goroutine's context may be done: another goroutine cancels it some time
\* after the stop channel was closed.
MayBeDone(c) == stop[c] # "no"

\* Start: both parts run, or Connect or Listen fails.
Start(c) ==
    /\ loop[c] = "off"
    /\ \/ /\ listen' = [listen EXCEPT ![c] = "select"]
          /\ recv' = [recv EXCEPT ![c] = "recv"]
          /\ loop' = [loop EXCEPT ![c] = "run"]
       \/ loop' = [loop EXCEPT ![c] = "returned"] /\ UNCHANGED <<listen, recv>>
    /\ UNCHANGED <<pushed, q, held, connVars, msgQ, stop, handled, lost>>

\* The receiving goroutine returns: what is in the stream is lost.
RecvEnds(c) == /\ recv' = [recv EXCEPT ![c] = "closed"]
               /\ stream' = [stream EXCEPT ![c] = <<>>]

\* Recv returns a message; a full queue drops it.
RecvMessage(c) ==
    /\ recv[c] = "recv" /\ stream[c] # <<>>
    /\ stream' = [stream EXCEPT ![c] = Tail(@)]
    /\ \/ /\ Len(msgQ[c]) < MsgQSize
          /\ msgQ' = [msgQ EXCEPT ![c] = Append(@, Head(stream[c]))]
          /\ UNCHANGED lost
       \/ Len(msgQ[c]) = MsgQSize /\ Lose("dropped", {Head(stream[c])}) /\ UNCHANGED msgQ
    /\ UNCHANGED <<serverVars, broken, cancelled, recv, loop, stop, handled>>

\* Mutant: errors of the stream are retried.
RecvRetries(c) ==
    /\ recv[c] = "recv" /\ Failed(c)
    /\ recv' = [recv EXCEPT ![c] = "recv"]
    /\ UNCHANGED <<serverVars, connVars, msgQ, loop, stop, handled, lost>>

\* Recv returns an error, and the goroutine with it.
RecvFails(c) ==
    /\ recv[c] = "recv" /\ Failed(c)
    /\ RecvEnds(c) /\ Lose("cut", ToSet(stream[c]))
    /\ UNCHANGED <<serverVars, broken, cancelled, msgQ, loop, stop, handled>>

\* Recv returns a message and the context is done.
RecvStopped(c) ==
    /\ recv[c] = "recv" /\ stream[c] # <<>> /\ MayBeDone(c)
    /\ RecvEnds(c)
    /\ lost' = [lost EXCEPT !["stopped"] = @ \cup {Head(stream[c])},
                            !["cut"] = @ \cup ToSet(Tail(stream[c]))]
    /\ UNCHANGED <<serverVars, broken, cancelled, msgQ, loop, stop, handled>>

\* The loop of the goroutine finds that Stop was called, if that happened while
\* it was not in Recv.
RecvLeaves(c) ==
    /\ recv[c] = "recv" /\ MayBeDone(c)
    /\ RecvEnds(c) /\ Lose("cut", ToSet(stream[c]))
    /\ UNCHANGED <<serverVars, broken, cancelled, msgQ, loop, stop, handled>>

\* The loop calls the handler with the next message.
LoopHandles(c) ==
    /\ loop[c] = "run" /\ msgQ[c] # <<>>
    /\ handled' = [handled EXCEPT ![c] = Append(@, Head(msgQ[c]))]
    /\ msgQ' = [msgQ EXCEPT ![c] = Tail(@)]
    /\ UNCHANGED <<serverVars, connVars, recv, loop, stop, lost>>

\* Mutant: the loop ends with the goroutine, whatever is in the queue.
LoopReturnsEarly(c) ==
    /\ loop[c] = "run"
    /\ c \in cancelled \/ recv[c] = "closed"
    /\ loop' = [loop EXCEPT ![c] = "returned"]
    /\ UNCHANGED <<serverVars, connVars, recv, msgQ, stop, handled, lost>>

\* Start returns: its context is done, or a nil message tells that the queue
\* is closed and empty.
LoopReturns(c) ==
    /\ loop[c] = "run"
    /\ c \in cancelled \/ (recv[c] = "closed" /\ msgQ[c] = <<>>)
    /\ loop' = [loop EXCEPT ![c] = "returned"]
    /\ UNCHANGED <<serverVars, connVars, recv, msgQ, stop, handled, lost>>

\* Stop closes the thread control and waits for the goroutine.  A goroutine
\* that Start starts later finds its context done, sooner or later.
Stop(c) ==
    /\ MoreEnds /\ stop[c] = "no"
    /\ stop' = [stop EXCEPT ![c] = "waiting"]
    /\ UNCHANGED <<serverVars, connVars, recv, msgQ, loop, handled, lost>>

StopReturns(c) ==
    /\ stop[c] = "waiting" /\ recv[c] \in {"off", "closed"}
    /\ stop' = [stop EXCEPT ![c] = "done"]
    /\ UNCHANGED <<serverVars, connVars, recv, msgQ, loop, handled, lost>>

(****************************************************************************)
(* The rest of the world.                                                   *)
(****************************************************************************)
\* The connection is cut.
Break(c) == /\ MoreEnds /\ ~Failed(c) /\ listen[c] # "off"
            /\ broken' = broken \cup {c}
            /\ UNCHANGED <<serverVars, stream, cancelled, clientVars, lost>>

\* Whoever called Start cancels its context.
Cancel(c) == /\ MoreEnds /\ c \notin cancelled
             /\ loop[c] = "run" \/ listen[c] # "off"
             /\ cancelled' = cancelled \cup {c}
             /\ UNCHANGED <<serverVars, stream, broken, clientVars, lost>>

ListenStep(c) == ListenTakes(c) \/ ListenSends(c) \/ ListenReturns(c)
RecvStep(c)   == RecvMessage(c) \/ RecvFails(c) \/ RecvStopped(c)
LoopStep(c)   == LoopHandles(c) \/ LoopReturns(c)

Next == \/ Push
        \/ \E c \in Consumers : \/ ListenStep(c) \/ RecvStep(c) \/ LoopStep(c)
                                \/ Start(c) \/ Stop(c) \/ StopReturns(c)
                                \/ RecvLeaves(c) \/ Break(c) \/ Cancel(c)

Spec == Init /\ [][Next]_vars

\* The goroutines of server and client are scheduled, Stop among them.  Nobody
\* has to push, start or stop, no connection has to fail, the handler may take
\* for ever, and the goroutine may be in Recv whenever Stop is called.
Fairness == \A c \in Consumers : /\ WF_vars(ListenStep(c)) /\ WF_vars(RecvStep(c))
                                 /\ WF_vars(StopReturns(c))

FairSpec == Spec /\ Fairness

(****************************************************************************)
(* Properties.                                                              *)
(****************************************************************************)
Messages == 1 .. pushed

\* Types, and the capacities of the three queues of a message's way.
TypeOK ==
    /\ pushed \in 0 .. MaxPushes
    /\ q \in Seq(Messages) /\ Len(q) <= QSize
    /\ listen \in [Consumers -> {"off", "select", "send"}]
    /\ held \in [Consumers -> Messages \cup {None}]
    /\ \A c \in Consumers : held[c] # None <=> listen[c] = "send"
    /\ stream \in [Consumers -> Seq(Messages)]
    /\ \A c \in Consumers : Len(stream[c]) <= StreamSize
    /\ broken \subseteq Consumers /\ cancelled \subseteq Consumers
    /\ recv \in [Consumers -> {"off", "recv", "closed"}]
    /\ msgQ \in [Consumers -> Seq(Messages)]
    /\ \A c \in Consumers : Len(msgQ[c]) <= MsgQSize
    /\ loop \in [Consumers -> {"off", "run", "returned"}]
    /\ stop \in [Consumers -> {"no", "waiting", "done"}]
    /\ handled \in [Consumers -> Seq(Messages)]
    /\ lost \in [Ways -> SUBSET Messages]

\* The messages of a consumer from the handler back to its Listen loop.
Way(c) == handled[c] \o msgQ[c] \o stream[c] \o (IF held[c] = None THEN <<>> ELSE <<held[c]>>)

Positions(m, s) == {i \in DOMAIN s : s[i] = m}

\* The places a message is in.
Places(m) == {<<"queue", i>> : i \in Positions(m, q)}
             \cup {<<"lost", w>> : w \in {w \in Ways : m \in lost[w]}}
             \cup UNION {{<<"way", c, i>> : i \in Positions(m, Way(c))} : c \in Consumers}

Increasing(s) == \A i, j \in DOMAIN s : i < j => s[i] < s[j]

\* A pushed message is in exactly one place.  It is handled once at most, by
\* one consumer, however many listen and whatever breaks, and where it can get
\* lost is known: at a full queue, in a broken connection, after Stop.  Every
\* consumer handles messages in the order in which they were pushed, whatever
\* is dropped between them and whatever the other consumers take.
OnceInOrder == /\ \A m \in Messages : Cardinality(Places(m)) = 1
               /\ \A c \in Consumers : Increasing(Way(c) \o q)

\* Every consumer's Listen loop loses one message at most.
LosesOneAtMost == Cardinality(lost["unsent"]) <= Cardinality(broken \cup cancelled)

\* Stop returns once the connection is gone, also if it is called first.
StopCompletes ==
    \A c \in Consumers : (stop[c] = "waiting" /\ Failed(c)) ~> stop[c] = "done"

Connected(c) == recv[c] # "off" /\ ~Failed(c) /\ stop[c] = "no"

\* No message waits in the server's queue for ever while there is a consumer,
\* not always the same one, whose connection and goroutine are in order: after
\* the last of the MaxPushes pushes the queue gets empty.
QueueDrains == q # <<>> ~> (q = <<>> \/ \A c \in Consumers : ~Connected(c))

\* If handlers return, a message in the client's queue is handled, unless the
\* caller of Start gives up: also when the connection is lost or Stop is called
\* and the receiving goroutine closes the queue with messages still in it.
ReceivedIsHandled ==
    (\A c \in Consumers : WF_vars(LoopStep(c))) =>
        \A m \in 1 .. MaxPushes :
            (\E c \in Consumers : m \in ToSet(msgQ[c]) /\ c \notin cancelled)
                ~> (\E c \in Consumers : m \in ToSet(handled[c]) \/ (m \in ToSet(msgQ[c]) /\ c \in cancelled))
=============================================================================
