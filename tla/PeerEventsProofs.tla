-------------------------- MODULE PeerEventsProofs --------------------------
(****************************************************************************)
(* Proofs about the shutdown of a controller (module Discovery, as part of  *)
(* PeerEvents), for any peers, queue, number of peers found and set-up.     *)
(*                                                                          *)
(* Close is about to leave nothing behind long before it returns: what may  *)
(* no longer exist at each of its steps is Leaving.  It holds because the   *)
(* loop that goes on dialling is itself counted by the wait group: what is  *)
(* started after the count got to zero is started from outside, and noted   *)
(* as late.  An announcement is made by Start, which is over unless Close   *)
(* has overtaken it (Ordered).  A callback past its check needs a context   *)
(* that was not done when it looked (Checked).                              *)
(*                                                                          *)
(* The last part has the types of the whole and, with TracerProofs, the     *)
(* counters of the tracer.                                                  *)
(****************************************************************************)
EXTENDS PeerEvents, TracerProofs, TLAPS

\* The types that the argument needs.
Typed == /\ q \in Seq(Peers)
         /\ routers \in Nat /\ calls \in Nat /\ threads \in Nat /\ late \in BOOLEAN
         /\ dial \in [Peers -> Nat]
         /\ notify \in [Peers -> {"none", "check", "send"}]
         /\ start \in {"new", "bootstrap", "done"}
         /\ close \in {"no", "wait", "woken", "mdns", "host", "done"}
         /\ mdns \in {"nil", "idle", "run", "closed", "leaked"}

\* The queue is closed by the loop, in a shutdown; Start is over when Close
\* begins, or overtaken; and the service is closed by Close, after which only an
\* overtaken Start revives it.
Ordered ==
    /\ qClosed => loop = "exited"
    /\ loop = "exited" => close # "no"
    /\ close # "no" /\ ~overtaken => start = "done"
    /\ mdns \in {"closed", "leaked"} => close \in {"host", "done"}
    /\ mdns = "leaked" => overtaken

\* What is gone when Close has got that far.
Leaving ==
    /\ close \in {"woken", "mdns", "host", "done"} /\ ~late => NoThreads
    /\ close \in {"host", "done"} /\ ~overtaken => mdns \in {"nil", "closed"}
    /\ close = "done" => host = "closed" /\ connected = {}

\* No callback gets past its check after a quiet start of the shutdown.
Checked == quiet => cancelled /\ \A p \in Peers : notify[p] # "send"

\* How a process ends.
Ended == /\ crashed = "send" => close # "no" /\ ~quiet
         /\ crashed = "wait" => late

IndInv == Typed /\ Ordered /\ Leaving /\ Checked /\ Ended

LEMMA InitInv == Init => IndInv
<1> SUFFICES ASSUME NEW c \in Configs, DiscoveryInit(c.tagged, c.bootstrappers, c.routers, c.calls)
             PROVE  IndInv
    BY DEF Init
<1>1. c.routers \in 0 .. 2 /\ c.calls \in 0 .. MaxCalls
    BY ConfigsAssumption DEF Config
<1>2. c.routers \in Nat /\ c.calls \in Nat
    BY <1>1, BoundAssumption
<1>3. late \in BOOLEAN
    BY DEF DiscoveryInit
<1> QED
    BY <1>2, <1>3 DEF DiscoveryInit, IndInv, Typed, Ordered, Leaving, Checked, Ended

\* connect adds a dial at most.
LEMMA ConnectTypes == ASSUME NEW p \in Peers, dial \in [Peers -> Nat], connect(p)
                      PROVE  dial' \in [Peers -> Nat]
    BY DEF connect

\* What Go does from outside of the wait group.
LEMMA GoesLate ==
    ASSUME Typed, Alive, Ended, GoFromOutside
    PROVE  /\ late' \in BOOLEAN
           /\ close \in {"woken", "mdns", "host", "done"} => late'
           /\ crashed' = "wait" => late'
           /\ crashed' # "send"
    BY DEF Typed, Alive, GoFromOutside

LEMMA DiscoveryStep == ASSUME IndInv, DiscoveryNext PROVE IndInv'
<1> USE DEF IndInv, startVars, threadVars, mdnsVars, loopVars, netVars, closeVars
<1>1. CASE StartBegins
    BY <1>1 DEF StartBegins, Alive, Typed, Ordered, Leaving, Checked, Ended, NoThreads
<1>2. CASE StartMdns
    BY <1>2 DEF StartMdns, Alive, Typed, Ordered, Leaving, Checked, Ended, NoThreads
<1>3. CASE LoopTakes
  <2>1. Head(q) \in Peers /\ q' \in Seq(Peers)
      BY <1>3 DEF LoopTakes, Typed
  <2>2. dial' \in [Peers -> Nat]
      BY <1>3, <2>1, ConnectTypes DEF LoopTakes, Typed
  <2>3. loop = "run" /\ ~NoThreads
      BY <1>3 DEF LoopTakes, NoThreads
  <2> QED
      BY <1>3, <2>1, <2>2, <2>3 DEF LoopTakes, Alive, Typed, Ordered, Leaving, Checked, Ended, NoThreads
<1>4. CASE LoopExits
    BY <1>4 DEF LoopExits, Alive, Typed, Ordered, Leaving, Checked, Ended, NoThreads
<1>5. CASE CloseBegins
    BY <1>5 DEF CloseBegins, Alive, Typed, Ordered, Leaving, Checked, Ended, NoThreads
<1>6. CASE CloseWaits
    BY <1>6 DEF CloseWaits, Alive, Typed, Ordered, Leaving, Checked, Ended, NoThreads
<1>7. CASE CloseWoken
    BY <1>7 DEF CloseWoken, Alive, Typed, Ordered, Leaving, Checked, Ended, NoThreads
<1>8. CASE CloseMdns
    BY <1>8 DEF CloseMdns, Alive, Typed, Ordered, Leaving, Checked, Ended, NoThreads
<1>9. CASE CloseHost
    BY <1>9 DEF CloseHost, Alive, Typed, Ordered, Leaving, Checked, Ended, NoThreads
<1>10. CASE Cancel
    BY <1>10 DEF Cancel, Alive, Typed, Ordered, Leaving, Checked, Ended, NoThreads
<1>11. ASSUME NEW p \in Peers, StartConnects(p) PROVE IndInv'
  <2>1. dial' \in [Peers -> Nat]
      BY <1>11, ConnectTypes DEF StartConnects, Typed
  <2>2. CASE p \in connected
    <3>1. UNCHANGED <<dial, late, crashed>>
        BY <1>11, <2>2 DEF StartConnects, connect
    <3> QED
        BY <1>11, <2>1, <3>1 DEF StartConnects, Alive, Typed, Ordered, Leaving, Checked, Ended, NoThreads
  <2>3. CASE p \notin connected
    <3>1. GoFromOutside
        BY <1>11, <2>3 DEF StartConnects
    <3> QED
        BY <1>11, <2>1, <3>1, GoesLate DEF StartConnects, Alive, Typed, Ordered, Leaving, Checked, Ended
  <2> QED
      BY <2>2, <2>3
<1>12. ASSUME NEW p \in Peers, DialReturns(p) PROVE IndInv'
    BY <1>12 DEF DialReturns, Alive, Typed, Ordered, Leaving, Checked, Ended, NoThreads
<1>13. ASSUME NEW p \in Peers, Connect(p) PROVE IndInv'
    BY <1>13 DEF Connect, Alive, Typed, Ordered, Leaving, Checked, Ended, NoThreads
<1>14. ASSUME NEW p \in Peers, Disconnect(p) PROVE IndInv'
    BY <1>14 DEF Disconnect, Alive, Typed, Ordered, Leaving, Checked, Ended, NoThreads
<1>15. ASSUME NEW p \in Peers, Find(p) PROVE IndInv'
    BY <1>15 DEF Find, Alive, Typed, Ordered, Leaving, Checked, Ended, NoThreads
<1>16. ASSUME NEW p \in Peers, HandlePeerFound(p) PROVE IndInv'
    BY <1>16 DEF HandlePeerFound, Alive, Typed, Ordered, Leaving, Checked, Ended, NoThreads
<1>17. ASSUME NEW p \in Peers, NotifySends(p) PROVE IndInv'
  <2>1. q' \in Seq(Peers)
    <3>1. q' = Append(q, p) \/ q' = q
        BY <1>17 DEF NotifySends
    <3>2. q \in Seq(Peers) /\ Append(q, p) \in Seq(Peers)
        BY DEF Typed
    <3> QED
        BY <3>1, <3>2
  <2>2. Typed'
    <3>1. /\ notify' = [notify EXCEPT ![p] = "none"]
          /\ UNCHANGED <<dial, start, close, mdns, threadVars, routers>>
        BY <1>17 DEF NotifySends
    <3> QED
        BY <2>1, <3>1 DEF Typed
  <2>3. Ordered' /\ Leaving' /\ Checked'
      BY <1>17 DEF NotifySends, Typed, Ordered, Leaving, Checked, NoThreads
  <2>4. Ended'
      BY <1>17 DEF NotifySends, Alive, Ordered, Checked, Ended
  <2> QED
      BY <2>2, <2>3, <2>4
<1>18. CASE StartRouter \/ CallGoes
  <2>1. GoFromOutside /\ Alive
      BY <1>18 DEF StartRouter, CallGoes
  <2>2. routers' \in Nat /\ calls' \in Nat /\ threads' \in Nat
      BY <1>18 DEF StartRouter, CallGoes, Typed
  <2>3. UNCHANGED <<start, bootstrappers, mdnsVars, loopVars, netVars, closeVars, cancelled>>
      BY <1>18 DEF StartRouter, CallGoes
  <2> QED
      BY <2>1, <2>2, <2>3, GoesLate DEF Alive, Typed, Ordered, Leaving, Checked, Ended
<1>19. CASE ThreadExits
    BY <1>19 DEF ThreadExits, Alive, Typed, Ordered, Leaving, Checked, Ended, NoThreads
<1> HIDE DEF IndInv
<1> QED
    BY <1>1, <1>2, <1>3, <1>4, <1>5, <1>6, <1>7, <1>8, <1>9, <1>10, <1>11, <1>12, <1>13,
       <1>14, <1>15, <1>16, <1>17, <1>18, <1>19
    DEF DiscoveryNext, CloseStep

\* The steps of the tracer, and stuttering, leave all of it alone.
LEMMA OtherStep == ASSUME IndInv, UNCHANGED discoveryVars PROVE IndInv'
    BY DEF IndInv, discoveryVars, startVars, threadVars, mdnsVars, loopVars, netVars, closeVars,
           Typed, Ordered, Leaving, Checked, Ended, NoThreads

LEMMA Inductive == Spec => []IndInv
<1>1. IndInv /\ [Next]_vars => IndInv'
    BY DiscoveryStep, OtherStep DEF Next, Trace, vars
<1> QED
    BY InitInv, <1>1, PTL DEF Spec

\* Whatever is found, dialled, subscribed, traced or cancelled meanwhile: Close
\* leaves no connection and no goroutine that was started before the wait group
\* was drained, and no announcement if Start had returned; the panics of a
\* shutdown are a late callback's and a late Go's, as ShutdownClean has them.
THEOREM ShutdownIsClean == Spec => []ShutdownClean
<1>1. IndInv => ShutdownClean
    BY DEF IndInv, Leaving, Ended, ShutdownClean
<1> QED
    BY Inductive, <1>1, PTL

(****************************************************************************)
(* Types.                                                                   *)
(****************************************************************************)
\* The rest of the types, and that the loop closes the queue when it ends.
Rest == /\ bootstrappers \subseteq Peers
        /\ routers <= 2 /\ calls <= MaxCalls /\ threads + calls + routers <= MaxCalls + 2
        /\ cancelled \in BOOLEAN /\ overtaken \in BOOLEAN /\ quiet \in BOOLEAN
        /\ loop \in {"none", "run", "exited"} /\ qClosed \in BOOLEAN
        /\ qClosed <=> loop = "exited"
        /\ Len(q) <= QSize
        /\ found \in 0 .. MaxFound
        /\ host \in {"open", "closed"} /\ connected \subseteq Peers
        /\ crashed \in {"no", "send", "wait"}

LEMMA RestStep == ASSUME Typed, Rest, DiscoveryNext PROVE Rest'
<1> USE DEF startVars, threadVars, mdnsVars, loopVars, netVars, closeVars
<1>1. CASE StartBegins \/ StartMdns \/ Cancel
  <2>1. CASE StartBegins
      BY <2>1 DEF StartBegins, Rest
  <2>2. CASE StartMdns
      BY <2>2 DEF StartMdns, Rest
  <2>3. CASE Cancel
    <3>1. /\ cancelled' \in BOOLEAN
          /\ UNCHANGED <<bootstrappers, routers, threadVars, overtaken, quiet, loopVars, found>>
          /\ UNCHANGED <<host, connected, crashed>>
        BY <2>3 DEF Cancel
    <3> QED
        BY <3>1 DEF Rest
  <2> QED
      BY <1>1, <2>1, <2>2, <2>3
<1>2. CASE LoopTakes
  <2>1. Len(q') <= QSize
    <3>1. q \in Seq(Peers) /\ q # <<>> /\ q' = Tail(q)
        BY <1>2 DEF LoopTakes, Typed
    <3>2. Len(q) \in Nat /\ Len(q') = Len(q) - 1
        BY <3>1
    <3> QED
        BY <3>2, FoundAssumption DEF Rest
  <2> QED
      BY <1>2, <2>1 DEF LoopTakes, Rest
<1>3. CASE LoopExits
    BY <1>3 DEF LoopExits, Rest
<1>4. CASE CloseBegins
    BY <1>4 DEF CloseBegins, Rest
<1>5. CASE CloseStep
    BY <1>5 DEF CloseStep, CloseWaits, CloseWoken, CloseMdns, CloseHost, Rest
<1>6. ASSUME NEW p \in Peers, StartConnects(p) \/ DialReturns(p) \/ Connect(p) \/ Disconnect(p)
      PROVE  Rest'
  <2>1. crashed' \in {"no", "send", "wait"}
      BY <1>6 DEF StartConnects, DialReturns, Connect, Disconnect, GoFromOutside, Rest
  <2> QED
      BY <1>6, <2>1 DEF StartConnects, DialReturns, Connect, Disconnect, Rest
<1>7. ASSUME NEW p \in Peers, Find(p) \/ HandlePeerFound(p) PROVE Rest'
    BY <1>7, FoundAssumption DEF Find, HandlePeerFound, Rest
<1>8. ASSUME NEW p \in Peers, NotifySends(p) PROVE Rest'
  <2>1. Len(q') <= QSize
    <3>1. q \in Seq(Peers) /\ Len(q) \in Nat
        BY DEF Typed
    <3>2. q' = q \/ (q' = Append(q, p) /\ Len(q) < QSize)
        BY <1>8 DEF NotifySends
    <3>3. Len(Append(q, p)) = Len(q) + 1
        BY <3>1
    <3> QED
        BY <3>1, <3>2, <3>3, FoundAssumption DEF Rest
  <2>2. crashed' \in {"no", "send", "wait"}
      BY <1>8 DEF NotifySends, Rest
  <2> QED
      BY <1>8, <2>1, <2>2 DEF NotifySends, Rest
<1>9. CASE StartRouter \/ CallGoes
  <2>1. crashed' \in {"no", "send", "wait"}
      BY <1>9 DEF StartRouter, CallGoes, GoFromOutside, Rest
  <2>2. UNCHANGED <<bootstrappers, mdnsVars, loopVars, netVars, closeVars, cancelled>>
      BY <1>9 DEF StartRouter, CallGoes
  <2>3. /\ routers' <= 2 /\ calls' <= MaxCalls
        /\ threads' + calls' + routers' <= MaxCalls + 2
      BY <1>9, BoundAssumption DEF StartRouter, CallGoes, Typed, Rest
  <2> QED
      BY <2>1, <2>2, <2>3 DEF Rest
<1>10. CASE ThreadExits
  <2>1. /\ routers' <= 2 /\ calls' <= MaxCalls
        /\ threads' + calls' + routers' <= MaxCalls + 2
      BY <1>10, BoundAssumption DEF ThreadExits, Typed, Rest
  <2> QED
      BY <1>10, <2>1 DEF ThreadExits, Rest
<1> QED
    BY <1>1, <1>2, <1>3, <1>4, <1>5, <1>6, <1>7, <1>8, <1>9, <1>10 DEF DiscoveryNext

\* Both parts of a controller, side by side.
BothInv == Rest /\ tracing \in BOOLEAN /\ TracerInv

LEMMA BothInductive == Spec => []BothInv
<1>1. Init => BothInv
  <2> SUFFICES ASSUME NEW c \in Configs, DiscoveryInit(c.tagged, c.bootstrappers, c.routers, c.calls),
                      TracerInit(c.skiplist), tracing = c.trace
               PROVE  BothInv
      BY DEF Init
  <2>1. /\ c.bootstrappers \subseteq Peers /\ c.trace \in BOOLEAN /\ c.skiplist \subseteq Types
        /\ c.routers \in 0 .. 2 /\ c.calls \in 0 .. MaxCalls
      BY ConfigsAssumption DEF Config
  <2>2. TracerInv
      BY <2>1, TracerInits
  <2>3. Len(q) = 0
      BY DEF DiscoveryInit
  <2>4. Rest
    <3>1. Len(q) <= QSize /\ found \in 0 .. MaxFound
        BY <2>3, FoundAssumption DEF DiscoveryInit
    <3>2. loop \in {"none", "run"} /\ ~qClosed /\ qClosed \in BOOLEAN
        BY DEF DiscoveryInit
    <3>3. cancelled \in BOOLEAN /\ overtaken \in BOOLEAN /\ quiet \in BOOLEAN
        BY DEF DiscoveryInit
    <3>4. /\ bootstrappers \subseteq Peers /\ connected \subseteq Peers
          /\ host \in {"open", "closed"} /\ crashed \in {"no", "send", "wait"}
        BY <2>1 DEF DiscoveryInit
    <3>5. /\ routers <= 2 /\ calls <= MaxCalls
          /\ threads + calls + routers <= MaxCalls + 2
        BY <2>1, BoundAssumption DEF DiscoveryInit
    <3> QED
        BY <3>1, <3>2, <3>3, <3>4, <3>5 DEF Rest
  <2> QED
      BY <2>1, <2>2, <2>4 DEF BothInv
<1>2. IndInv /\ BothInv /\ [Next]_vars => BothInv'
  <2> SUFFICES ASSUME IndInv, BothInv, [Next]_vars PROVE BothInv'
      OBVIOUS
  <2>1. ASSUME UNCHANGED discoveryVars PROVE Rest'
      BY <2>1 DEF BothInv, Rest, discoveryVars, startVars, threadVars, mdnsVars, loopVars, netVars, closeVars
  <2>2. CASE DiscoveryNext /\ UNCHANGED <<tracerVars, tracing>>
      BY <2>2, RestStep, TracerSame DEF BothInv, IndInv
  <2>3. CASE Trace
    <3>1. Rejects \cup (Adds \cap connected) \subseteq Calls
        BY DEF Calls
    <3>2. TracerInv'
        BY <2>3, <3>1, TracerStep DEF Trace, BothInv
    <3> QED
        BY <2>1, <2>3, <3>2 DEF Trace, BothInv
  <2>4. CASE UNCHANGED vars
      BY <2>1, <2>4, TracerSame DEF vars, BothInv
  <2> QED
      BY <2>2, <2>3, <2>4 DEF Next
<1> QED
    BY Inductive, <1>1, <1>2, PTL DEF Spec

\* Every variable keeps its type: the mDNS queue never exceeds its capacity and
\* is closed exactly when its loop has ended, and the tracer is locked exactly
\* while Reset sets the counters.
THEOREM TypeCorrect == Spec => []TypeOK
<1>1. IndInv /\ BothInv => TypeOK
  <2> SUFFICES ASSUME IndInv, BothInv PROVE TypeOK
      OBVIOUS
  <2>1. qClosed = (loop = "exited")
      BY DEF BothInv, Rest
  <2>2. routers \in 0 .. 2 /\ calls \in 0 .. MaxCalls /\ threads \in 0 .. MaxCalls + 2
      BY BoundAssumption DEF IndInv, Typed, BothInv, Rest
  <2>3. DiscoveryTypeOK
      BY <2>1, <2>2 DEF IndInv, Typed, BothInv, Rest, DiscoveryTypeOK
  <2> QED
      BY <2>3, TracerResults DEF BothInv, TypeOK
<1> QED
    BY Inductive, BothInductive, <1>1, PTL

\* psTracer: between two samples, the counters lag behind the stored events,
\* and the samples behind what was counted, by no more than the calls of Trace
\* that overlapped with a Reset, and nothing is counted twice.
THEOREM CountersStayClose == Spec => []CountersLag
<1>1. BothInv => CountersLag
    BY TracerResults DEF BothInv
<1> QED
    BY BothInductive, <1>1, PTL
=============================================================================
