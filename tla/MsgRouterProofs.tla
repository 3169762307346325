--------------------------- MODULE MsgRouterProofs ---------------------------
(****************************************************************************)
(* Proofs about MsgRouter, for every set of calls, every queue size, every  *)
(* number of workers and every owner program.                               *)
(****************************************************************************)
EXTENDS MsgRouter, FiniteSetTheorems, TLAPS

\* The owner leaves "idle" only inside an operation of its program.
OwnerInOp == owner # "idle" => op \in DOMAIN program

\* What a loop carries to dispatchMsg is a message, never the nil wrapper.
HeldIsMsg == \A l \in Loops : Carries(l) => held[l] \in Msgs

\* A loop does not run before the operation that spawns it.
LoopsOff == \A l \in Loops : l >= op => loop[l] = "off"

TypeInv == TypeOK /\ OwnerInOp /\ HeldIsMsg /\ LoopsOff

\* The inductive invariant.  The counters stay in their types only because
\* they count the goroutines (Accounted), and they count them only because a
\* message is dispatched once (Conserved).
IndInv == TypeInv /\ Conserved /\ Accounted

USE MsgsAssumption, SizesAssumption, ProgramsAssumption

\* A send keeps q and the loops in their types, and no loop carries nil.
LEMMA SendType ==
    ASSUME TypeInv, NEW x \in Msgs \cup {Nil}, Send(x)
    PROVE  /\ q' \in Seq(Msgs \cup {Nil}) /\ Len(q') <= QSize
           /\ loop' \in [Loops -> LoopPCs]
           /\ held' \in [Loops -> Msgs \cup {Nil}]
           /\ group' \in [Loops -> Gens]
           /\ HeldIsMsg'
           /\ op' = op => LoopsOff'
<1>1. CASE Len(q) < QSize /\ q' = Append(q, x) /\ UNCHANGED loopVars
  BY <1>1 DEF TypeInv, TypeOK, HeldIsMsg, LoopsOff, Carries, loopVars
<1>2. CASE /\ QSize = 0
           /\ \E l \in Loops : loop[l] = "select" /\ Take(l, x)
           /\ q' = q
  BY <1>2 DEF TypeInv, TypeOK, HeldIsMsg, LoopsOff, Carries, Take, LoopPCs
<1> QED BY <1>1, <1>2 DEF Send

\* Everything that is counted is finite.
LEMMA FiniteCounts ==
    /\ IsFiniteSet(SlotLoops) /\ IsFiniteSet(SlotWorkers)
    /\ \A g \in Gens : IsFiniteSet(Tracked(g))
<1>1. SlotWorkers \in SUBSET Msgs /\ \A g \in Gens : Tracked(g) \in SUBSET Msgs
  BY DEF SlotWorkers, Tracked
<1>2. IsFiniteSet(Loops) /\ SlotLoops \in SUBSET Loops
  BY FS_Interval DEF Loops, SlotLoops
<1> QED BY <1>1, <1>2, FS_Subset

\* The counters of a goroutine that still holds a slot or a group are positive.
LEMMA CountersPositive ==
    ASSUME TypeInv, Accounted, NEW m \in Msgs
    PROVE  /\ m \in SlotWorkers => slots >= 1
           /\ work[m] = "wgdone" => wg[gen[m]] >= 1
<1>2. \A S : IsFiniteSet(S) => Cardinality(S) \in Nat /\ (Cardinality(S) = 0 <=> S = {})
  BY FS_CardinalityType, FS_EmptySet
<1>3. m \in SlotWorkers => slots >= 1
  BY FiniteCounts, <1>2 DEF Accounted
<1>4. ASSUME work[m] = "wgdone" PROVE wg[gen[m]] >= 1
  <2>1. gen[m] \in Gens /\ m \in Tracked(gen[m])
    BY <1>4 DEF Tracked, TypeInv, TypeOK
  <2> QED BY <2>1, FiniteCounts, <1>2 DEF Accounted
<1> QED BY <1>3, <1>4

\* Every step of the router keeps the types.
LEMMA TypeStep ==
    ASSUME TypeInv, Accounted, [Next]_vars
    PROVE  TypeInv'
<1> USE DEF TypeInv, loopVars, workVars, callVars, ownerVars
<1>1. ASSUME NEW m \in Msgs, Handle(m) PROVE TypeInv'
  <2>1. Send(m) BY <1>1 DEF Handle, Submit
  <2> QED BY <1>1, <2>1, SendType DEF Handle, Submit, TypeOK, OwnerInOp, CallPCs
<1>2. ASSUME NEW m \in Msgs, HandleWait(m) PROVE TypeInv'
  <2>1. Send(m) BY <1>2 DEF HandleWait, Submit
  <2> QED BY <1>2, <2>1, SendType DEF HandleWait, Submit, TypeOK, OwnerInOp, CallPCs
<1>3. ASSUME NEW m \in Msgs, Drop(m) \/ EnterWait(m) \/ Timeout(m) PROVE TypeInv'
  BY <1>3 DEF Drop, EnterWait, Timeout, CallerMoves, TypeOK, OwnerInOp, HeldIsMsg, LoopsOff, Carries, CallPCs
<1>4. ASSUME NEW m \in Msgs, CallHandler(m) PROVE TypeInv'
  BY <1>4 DEF CallHandler, WorkerMoves, TypeOK, OwnerInOp, HeldIsMsg, LoopsOff, Carries, WorkPCs
<1>5. ASSUME NEW m \in Msgs, HandlerReturns(m) PROVE TypeInv'
  BY <1>5 DEF HandlerReturns, WorkerMoves, TypeOK, OwnerInOp, HeldIsMsg, LoopsOff, Carries, WorkPCs
<1>6. ASSUME NEW m \in Msgs, Callback(m) PROVE TypeInv'
  BY <1>6 DEF Callback, WorkerMoves, TypeOK, OwnerInOp, HeldIsMsg, LoopsOff, Carries, WorkPCs, CallPCs
<1>7. ASSUME NEW m \in Msgs, Release(m) PROVE TypeInv'
  <2>1. slots >= 1 BY <1>7, CountersPositive DEF Release, WorkerMoves, SlotWorkers
  <2> QED BY <1>7, <2>1 DEF Release, WorkerMoves, TypeOK, OwnerInOp, HeldIsMsg, LoopsOff, Carries, WorkPCs
<1>8. ASSUME NEW m \in Msgs, WgDone(m) PROVE TypeInv'
  <2>1. wg[gen[m]] >= 1 /\ gen[m] \in Gens
    BY <1>8, CountersPositive DEF WgDone, WorkerMoves, TypeOK
  <2>2. wg' \in [Gens -> Nat] BY <1>8, <2>1 DEF WgDone, Done, TypeOK
  <2>3. owner' \in OwnerPCs /\ OwnerInOp'
    BY <1>8 DEF WgDone, Done, TypeOK, OwnerInOp, OwnerPCs
  <2> QED BY <1>8, <2>2, <2>3 DEF WgDone, Done, WorkerMoves, TypeOK, HeldIsMsg, LoopsOff, Carries, WorkPCs
<1>9. ASSUME NEW l \in Loops, Receive(l) PROVE TypeInv'
  <2>1. /\ Head(q) \in Msgs \cup {Nil}
        /\ Tail(q) \in Seq(Msgs \cup {Nil})
        /\ Len(Tail(q)) <= QSize
    BY <1>9 DEF Receive, TypeOK
  <2> QED BY <1>9, <2>1 DEF Receive, Take, TypeOK, OwnerInOp, HeldIsMsg, LoopsOff, Carries, LoopPCs
<1>10. ASSUME NEW l \in Loops, Stop(l) PROVE TypeInv'
  BY <1>10 DEF Stop, TypeOK, OwnerInOp, HeldIsMsg, LoopsOff, Carries, LoopPCs
<1>11. ASSUME NEW l \in Loops, Acquire(l) PROVE TypeInv'
  BY <1>11 DEF Acquire, TypeOK, OwnerInOp, HeldIsMsg, LoopsOff, Carries, LoopPCs
<1>12. ASSUME NEW l \in Loops, Go(l) PROVE TypeInv'
  BY <1>12 DEF Go, TypeOK, OwnerInOp, HeldIsMsg, LoopsOff, Carries, LoopPCs, WorkPCs
<1>13. CASE Start \/ Restart
  <2>1. SpawnLoop /\ op \in DOMAIN program
    BY <1>13 DEF Start, Restart, Turn, OwnerInOp
  <2>2. op \in 1 .. MaxOps /\ op \in Loops
    BY <2>1 DEF TypeOK, Loops
  <2>3. LoopsOff'
    BY <2>1, <2>2, SMTT(30) DEF SpawnLoop, TypeOK, LoopsOff, Loops
  <2> QED BY <2>1, <2>2, <2>3 DEF SpawnLoop, TypeOK, OwnerInOp, HeldIsMsg, Carries, LoopPCs, OwnerPCs
<1>14. CASE RefreshNil
  <2>1. Send(Nil) BY <1>14 DEF RefreshNil
  <2> QED BY <1>14, <2>1, SendType DEF RefreshNil, Turn, OwnerMoves, TypeOK, OwnerInOp, OwnerPCs
<1>15. CASE RefreshWait \/ RefreshWoken
  BY <1>15 DEF RefreshWait, RefreshWoken, OwnerMoves, TypeOK, OwnerInOp, HeldIsMsg, LoopsOff, Carries, OwnerPCs
<1>16. CASE RefreshAssign \/ RefreshThreads
  <2>1. op \in Gens
    BY <1>16 DEF RefreshAssign, RefreshThreads, TypeOK, OwnerInOp, Gens
  <2> QED BY <1>16, <2>1 DEF RefreshAssign, RefreshThreads, OwnerMoves, TypeOK, OwnerInOp,
                             HeldIsMsg, LoopsOff, Carries, OwnerPCs
<1>17. CASE Close
  BY <1>17 DEF Close, Turn, OwnerMoves, TypeOK, OwnerInOp, HeldIsMsg, LoopsOff, Carries, OwnerPCs
<1>18. CASE CloseReturns
  <2>1. op \in 1 .. MaxOps BY <1>18 DEF CloseReturns, OwnerInOp, TypeOK
  <2>2. TypeOK' BY <1>18, <2>1 DEF CloseReturns, TypeOK, OwnerPCs
  <2>3. OwnerInOp' BY <1>18 DEF CloseReturns, OwnerInOp
  <2>4. HeldIsMsg' BY <1>18 DEF CloseReturns, HeldIsMsg, Carries, loopVars
  <2>5. LoopsOff'
    <3>1. op' = op + 1 /\ loop' = loop BY <1>18 DEF CloseReturns, loopVars
    <3> QED BY <2>1, <3>1 DEF LoopsOff, Loops
  <2> QED BY <2>2, <2>3, <2>4, <2>5
<1>19. CASE UNCHANGED vars
  BY <1>19 DEF vars, TypeOK, OwnerInOp, HeldIsMsg, LoopsOff, Carries
<1> QED BY <1>1, <1>2, <1>3, <1>4, <1>5, <1>6, <1>7, <1>8, <1>9, <1>10, <1>11, <1>12,
           <1>13, <1>14, <1>15, <1>16, <1>17, <1>18, <1>19
        DEF Next, CallerStep, WorkerStep, LoopStep, OwnerStep

\* The elements of a queue are those of s, and no element but z occurs twice.
Occurs(s, y) == \E i \in DOMAIN s : s[i] = y
OnceBut(z, s) == \A i, j \in DOMAIN s : s[i] = s[j] /\ s[i] # z => i = j

\* What Append does to the elements of a queue.
LEMMA AppendElements ==
    ASSUME NEW S, NEW s \in Seq(S), NEW x \in S, NEW t, t = Append(s, x), NEW z
    PROVE  /\ \A y : Occurs(t, y) <=> Occurs(s, y) \/ y = x
           /\ OnceBut(z, s) /\ (x = z \/ ~Occurs(s, x)) => OnceBut(z, t)
<1>1. /\ DOMAIN s = 1 .. Len(s) /\ Len(s) \in Nat
      /\ DOMAIN t = 1 .. Len(s) + 1
      /\ \A i \in 1 .. Len(s) : t[i] = s[i]
      /\ t[Len(s) + 1] = x
  OBVIOUS
<1>2. \A i \in DOMAIN s : i \in DOMAIN t
  BY <1>1
<1>3. Len(s) + 1 \in DOMAIN t /\ \A i \in DOMAIN t : i \in DOMAIN s \/ i = Len(s) + 1
  BY <1>1
<1>4. ASSUME NEW y PROVE Occurs(t, y) <=> Occurs(s, y) \/ y = x
  BY <1>1, <1>2, <1>3 DEF Occurs
<1>5. ASSUME OnceBut(z, s), x = z \/ ~Occurs(s, x) PROVE OnceBut(z, t)
  BY <1>1, <1>2, <1>3, <1>5 DEF OnceBut, Occurs
<1> QED BY <1>4, <1>5

\* What a receive does to them.
LEMMA TailElements ==
    ASSUME NEW S, NEW s \in Seq(S), s # <<>>, NEW t, t = Tail(s), NEW z
    PROVE  /\ Head(s) \in S
           /\ \A y : Occurs(s, y) <=> Occurs(t, y) \/ y = Head(s)
           /\ OnceBut(z, s) => OnceBut(z, t) /\ (Head(s) = z \/ ~Occurs(t, Head(s)))
<1>1. /\ DOMAIN s = 1 .. Len(s) /\ Len(s) \in Nat \ {0}
      /\ DOMAIN t = 1 .. Len(s) - 1
      /\ \A i \in 1 .. Len(s) - 1 : t[i] = s[i + 1]
      /\ Head(s) = s[1] /\ Head(s) \in S
  OBVIOUS
<1>2. \A i \in DOMAIN t : i + 1 \in DOMAIN s /\ t[i] = s[i + 1] /\ i + 1 # 1 /\ i \in Nat
  BY <1>1
<1>3. 1 \in DOMAIN s /\ \A i \in DOMAIN s : i = 1 \/ (i - 1 \in DOMAIN t /\ t[i - 1] = s[i])
  BY <1>1
<1>4. ASSUME NEW y PROVE Occurs(s, y) <=> Occurs(t, y) \/ y = Head(s)
  BY <1>1, <1>2, <1>3, ZenonT(60) DEF Occurs
<1>5. ASSUME OnceBut(z, s) PROVE OnceBut(z, t)
  <2> SUFFICES ASSUME NEW i \in DOMAIN t, NEW j \in DOMAIN t, t[i] = t[j], t[i] # z
               PROVE  i = j
    BY DEF OnceBut
  <2>1. i + 1 = j + 1 BY <1>2, <1>5 DEF OnceBut
  <2> QED BY <2>1, <1>2
<1>6. ASSUME OnceBut(z, s), Head(s) # z, NEW i \in DOMAIN t, t[i] = Head(s) PROVE FALSE
  BY <1>1, <1>2, <1>3, <1>6 DEF OnceBut
<1> QED BY <1>1, <1>4, <1>5, <1>6 DEF Occurs

\* A step that changes neither the queue, nor what the loops carry, nor which
\* messages are accepted or dispatched keeps the messages where they are.
LEMMA ConservedFrame ==
    ASSUME Conserved,
           q' = q,
           \A l \in Loops : Carries(l)' = Carries(l),
           \A l \in Loops : Carries(l) => held'[l] = held[l],
           \A m \in Msgs : Accepted(m)' = Accepted(m) /\ Dispatched(m)' = Dispatched(m)
    PROVE  Conserved'
<1>1. \A m \in Msgs : Queued(m)' = Queued(m) BY DEF Queued
<1>2. \A m \in Msgs : Held(m)' = Held(m) BY DEF Held
<1> QED BY <1>1, <1>2 DEF Conserved

\* A caller puts a new message into the queue or into the hands of a loop.
LEMMA ConservedSubmit ==
    ASSUME TypeInv, Conserved, NEW m \in Msgs, NEW pc \in {"async", "sent"}, Submit(m, pc)
    PROVE  Conserved'
<1> USE DEF TypeInv, TypeOK
<1>0. ~Queued(m) /\ ~Held(m) /\ ~Dispatched(m)
  BY DEF Submit, Conserved, Accepted
<1>1. \A n \in Msgs : /\ Accepted(n)' <=> Accepted(n) \/ n = m
                      /\ Dispatched(n)' <=> Dispatched(n)
  BY DEF Submit, Accepted, Dispatched, workVars
<1>2. CASE q' = Append(q, m) /\ UNCHANGED loopVars
  <2>1. /\ \A y : Occurs(q', y) <=> Occurs(q, y) \/ y = m
        /\ OnceBut(Nil, q) /\ (m = Nil \/ ~Occurs(q, m)) => OnceBut(Nil, q')
    <3>1. q \in Seq(Msgs \cup {Nil}) /\ m \in Msgs \cup {Nil} /\ q' = Append(q, m)
      BY <1>2
    <3> QED BY ONLY <3>1, AppendElements, ZenonT(60)
  <2>2. \A n \in Msgs : Queued(n)' <=> Queued(n) \/ n = m
    BY <2>1 DEF Queued, Occurs
  <2>3. \A n \in Msgs : Held(n)' <=> Held(n)
    BY <1>2 DEF Held, Carries, loopVars
  <2>4. \A i, j \in DOMAIN q' : q'[i] = q'[j] /\ q'[i] # Nil => i = j
    BY <2>1, <1>0 DEF Conserved, Queued, Occurs, OnceBut
  <2>5. \A k, l \in Loops : (Carries(k) /\ Carries(l) /\ held[k] = held[l] => k = l)'
    BY <1>2 DEF Conserved, Carries, loopVars
  <2> QED BY <1>0, <1>1, <2>2, <2>3, <2>4, <2>5 DEF Conserved
<1>3. ASSUME NEW l \in Loops, loop[l] = "select", Take(l, m), q' = q PROVE Conserved'
  <2>1. /\ \A k \in Loops : Carries(k)' <=> Carries(k) \/ k = l
        /\ \A k \in Loops : k # l => held'[k] = held[k]
        /\ held'[l] = m /\ ~Carries(l)
    BY <1>3 DEF Take, Carries
  <2>2. \A n \in Msgs : Held(n)' <=> Held(n) \/ n = m
    BY <2>1 DEF Held
  <2>3. \A n \in Msgs : Queued(n)' <=> Queued(n)
    BY <1>3 DEF Queued
  <2>4. \A i, j \in Loops : (Carries(i) /\ Carries(j) /\ held[i] = held[j] => i = j)'
    <3>1. \A k \in Loops : Carries(k) => held[k] # m
      BY <1>0 DEF Conserved, Held
    <3>2. \A i, j \in Loops : Carries(i) /\ Carries(j) /\ held[i] = held[j] => i = j
      BY DEF Conserved
    <3> QED BY <2>1, <3>1, <3>2
  <2>5. \A i, j \in DOMAIN q' : q'[i] = q'[j] /\ q'[i] # Nil => i = j
    BY <1>3 DEF Conserved
  <2> QED BY <1>0, <1>1, <2>2, <2>3, <2>4, <2>5 DEF Conserved
<1> QED BY <1>2, <1>3 DEF Submit, Send

\* RefreshHandler's nil disturbs no message.
LEMMA ConservedNil ==
    ASSUME TypeInv, Conserved, Send(Nil), UNCHANGED <<workVars, callVars>>
    PROVE  Conserved'
<1> USE DEF TypeInv, TypeOK
<1>1. \A n \in Msgs : Accepted(n)' = Accepted(n) /\ Dispatched(n)' = Dispatched(n)
  BY DEF Accepted, Dispatched, workVars, callVars
<1>2. CASE q' = Append(q, Nil) /\ UNCHANGED loopVars
  <2>1. /\ \A y : Occurs(q', y) <=> Occurs(q, y) \/ y = Nil
        /\ OnceBut(Nil, q) => OnceBut(Nil, q')
    <3>1. PICK x \in Msgs \cup {Nil} : x = Nil
      OBVIOUS
    <3>2. q \in Seq(Msgs \cup {Nil}) /\ x \in Msgs \cup {Nil} /\ q' = Append(q, x)
      BY <1>2, <3>1
    <3>3. \A y : Occurs(q', y) <=> Occurs(q, y) \/ y = x
      BY ONLY <3>2, AppendElements, ZenonT(60)
    <3>4. OnceBut(Nil, q) /\ (x = Nil \/ ~Occurs(q, x)) => OnceBut(Nil, q')
      BY ONLY <3>2, AppendElements, ZenonT(60)
    <3> QED BY ONLY <3>1, <3>3, <3>4
  <2>2. \A n \in Msgs : Queued(n)' <=> Queued(n)
    BY <2>1 DEF Queued, Occurs
  <2>3. \A n \in Msgs : Held(n)' <=> Held(n)
    BY <1>2 DEF Held, Carries, loopVars
  <2>4. \A i, j \in DOMAIN q' : q'[i] = q'[j] /\ q'[i] # Nil => i = j
    BY <2>1 DEF Conserved, OnceBut
  <2>5. \A k, l \in Loops : (Carries(k) /\ Carries(l) /\ held[k] = held[l] => k = l)'
    BY <1>2 DEF Conserved, Carries, loopVars
  <2> QED BY <1>1, <2>2, <2>3, <2>4, <2>5 DEF Conserved
<1>3. ASSUME NEW l \in Loops, loop[l] = "select", Take(l, Nil), q' = q PROVE Conserved'
  BY <1>1, <1>3, ConservedFrame DEF Take, Carries
<1> QED BY <1>2, <1>3 DEF Send

\* A loop takes the head of the queue.
LEMMA ConservedReceive ==
    ASSUME TypeInv, Conserved, NEW l \in Loops, Receive(l)
    PROVE  Conserved'
<1> USE DEF TypeInv, TypeOK
<1>1. \A n \in Msgs : Accepted(n)' = Accepted(n) /\ Dispatched(n)' = Dispatched(n)
  BY DEF Receive, Accepted, Dispatched, workVars, callVars
<1>2. /\ Head(q) \in Msgs \cup {Nil}
      /\ \A y : Occurs(q, y) <=> Occurs(q', y) \/ y = Head(q)
      /\ OnceBut(Nil, q) => OnceBut(Nil, q') /\ (Head(q) = Nil \/ ~Occurs(q', Head(q)))
  BY TailElements DEF Receive
<1> PICK h \in Msgs \cup {Nil} : h = Head(q)
  BY <1>2
<1>3. \A n \in Msgs : Queued(n) <=> Queued(n)' \/ n = h
  BY <1>2 DEF Queued, Occurs
<1>4. OnceBut(Nil, q) BY DEF Conserved, OnceBut
<1>5. /\ h \in Msgs => ~Queued(h)'
      /\ \A i, j \in DOMAIN q' : q'[i] = q'[j] /\ q'[i] # Nil => i = j
  BY <1>2, <1>4 DEF Queued, Occurs, OnceBut
<1>6. /\ \A k \in Loops : Carries(k)' <=> Carries(k) \/ (k = l /\ h # Nil)
      /\ \A k \in Loops : k # l => held'[k] = held[k]
      /\ held'[l] = h /\ ~Carries(l)
  BY DEF Receive, Take, Carries
<1>7. \A n \in Msgs : Held(n)' <=> Held(n) \/ n = h
  BY <1>2, <1>6 DEF Held
<1>8. \A i, j \in Loops : (Carries(i) /\ Carries(j) /\ held[i] = held[j] => i = j)'
  <2> SUFFICES ASSUME NEW i \in Loops, NEW j \in Loops,
                      Carries(i)', Carries(j)', held'[i] = held'[j], i # j
               PROVE  FALSE
    OBVIOUS
  <2>1. i # l /\ j # l => FALSE BY <1>6 DEF Conserved
  <2>2. ASSUME NEW k \in Loops, k # l, Carries(k)', h # Nil, held'[k] = h PROVE FALSE
    <3>1. Carries(k) /\ held[k] = h BY <1>6, <2>2
    <3>2. h \in Msgs /\ Held(h) BY <3>1 DEF Held, HeldIsMsg
    <3>3. Queued(h) BY <1>3, <3>2
    <3> QED BY <3>2, <3>3 DEF Conserved
  <2> QED BY <1>6, <2>1, <2>2
<1> QED BY <1>1, <1>3, <1>5, <1>7, <1>8 DEF Conserved

\* A loop hands its message to the worker it starts.
LEMMA ConservedGo ==
    ASSUME TypeInv, Conserved, NEW l \in Loops, Go(l)
    PROVE  Conserved'
<1> USE DEF TypeInv, TypeOK
<1> DEFINE m == held[l]
<1>1. Carries(l) /\ m \in Msgs /\ Held(m) /\ ~Queued(m) /\ ~Dispatched(m)
  BY DEF Go, Carries, HeldIsMsg, Held, Conserved
<1>2. \A n \in Msgs : /\ Accepted(n)' = Accepted(n)
                      /\ Dispatched(n)' <=> Dispatched(n) \/ n = m
  BY <1>1 DEF Go, Accepted, Dispatched, callVars
<1>3. /\ \A k \in Loops : Carries(k)' <=> Carries(k) /\ k # l
      /\ \A k \in Loops : k # l => held'[k] = held[k]
  BY DEF Go, Carries
<1>4. \A n \in Msgs : Held(n)' <=> Held(n) /\ n # m
  BY <1>1, <1>3, ZenonT(60) DEF Held, Conserved
<1>5. \A n \in Msgs : Queued(n)' <=> Queued(n)
  BY DEF Go, Queued
<1>6. \A i, j \in Loops : (Carries(i) /\ Carries(j) /\ held[i] = held[j] => i = j)'
  BY <1>3 DEF Conserved
<1>7. \A i, j \in DOMAIN q' : q'[i] = q'[j] /\ q'[i] # Nil => i = j
  BY DEF Go, Conserved
<1> QED BY <1>1, <1>2, <1>4, <1>5, <1>6, <1>7 DEF Conserved

\* No step loses a message or dispatches one twice.
LEMMA ConservedStep ==
    ASSUME TypeInv, Conserved, [Next]_vars
    PROVE  Conserved'
<1> USE DEF loopVars, workVars, callVars, ownerVars
<1>1. ASSUME NEW m \in Msgs, Handle(m) \/ HandleWait(m) PROVE Conserved'
  BY <1>1, ConservedSubmit DEF Handle, HandleWait
<1>2. ASSUME NEW m \in Msgs, Drop(m) \/ EnterWait(m) \/ Timeout(m) PROVE Conserved'
  <2>1. /\ \A n \in Msgs : Accepted(n)' = Accepted(n) /\ Dispatched(n)' = Dispatched(n)
        /\ q' = q /\ held' = held /\ \A l \in Loops : Carries(l)' = Carries(l)
    BY <1>2 DEF Drop, EnterWait, Timeout, CallerMoves, Accepted, Dispatched, Carries, TypeInv, TypeOK
  <2> QED BY <2>1, ConservedFrame
<1>3. ASSUME NEW m \in Msgs, WorkerStep(m) PROVE Conserved'
  <2>1. /\ \A n \in Msgs : Dispatched(n)' = Dispatched(n)
        /\ q' = q /\ held' = held /\ \A l \in Loops : Carries(l)' = Carries(l)
    BY <1>3 DEF WorkerStep, CallHandler, HandlerReturns, Callback, Release, WgDone, WorkerMoves,
                Dispatched, Carries, TypeInv, TypeOK
  <2>2. \A n \in Msgs : Accepted(n)' = Accepted(n)
    BY <1>3 DEF WorkerStep, CallHandler, HandlerReturns, Callback, Release, WgDone,
                Accepted, TypeInv, TypeOK
  <2> QED BY <2>1, <2>2, ConservedFrame
<1>4. ASSUME NEW l \in Loops, Receive(l) \/ Go(l) PROVE Conserved'
  BY <1>4, ConservedReceive, ConservedGo
<1>5. ASSUME NEW l \in Loops, Stop(l) \/ Acquire(l) PROVE Conserved'
  <2>1. /\ \A n \in Msgs : Accepted(n)' = Accepted(n) /\ Dispatched(n)' = Dispatched(n)
        /\ q' = q /\ held' = held /\ \A k \in Loops : Carries(k)' = Carries(k)
    BY <1>5 DEF Stop, Acquire, Accepted, Dispatched, Carries, TypeInv, TypeOK
  <2> QED BY <2>1, ConservedFrame
<1>6. CASE Start \/ Restart
  <2>1. SpawnLoop /\ (op \in Loops => loop[op] = "off")
    BY <1>6 DEF Start, Restart, TypeInv, TypeOK, LoopsOff, Loops
  <2>2. /\ \A n \in Msgs : Accepted(n)' = Accepted(n) /\ Dispatched(n)' = Dispatched(n)
        /\ q' = q /\ held' = held /\ \A k \in Loops : Carries(k)' = Carries(k)
    BY <2>1 DEF SpawnLoop, Accepted, Dispatched, Carries, TypeInv, TypeOK
  <2> QED BY <2>2, ConservedFrame
<1>7. CASE RefreshNil
  BY <1>7, ConservedNil DEF RefreshNil, OwnerMoves
<1>8. CASE \/ RefreshWait \/ RefreshWoken \/ RefreshAssign \/ RefreshThreads
           \/ Close \/ CloseReturns \/ UNCHANGED vars
  <2>1. /\ \A n \in Msgs : Accepted(n)' = Accepted(n) /\ Dispatched(n)' = Dispatched(n)
        /\ q' = q /\ held' = held /\ \A k \in Loops : Carries(k)' = Carries(k)
    BY <1>8 DEF RefreshWait, RefreshWoken, RefreshAssign, RefreshThreads, Close, CloseReturns,
                OwnerMoves, vars, Accepted, Dispatched, Carries
  <2> QED BY <2>1, ConservedFrame
<1> QED BY <1>1, <1>2, <1>3, <1>4, <1>5, <1>6, <1>7, <1>8
        DEF Next, CallerStep, LoopStep, OwnerStep

\* A step that moves nobody in or out of the sets that are counted.
LEMMA AccountedFrame ==
    ASSUME Accounted, slots' = slots, wg' = wg,
           SlotLoops' = SlotLoops, SlotWorkers' = SlotWorkers,
           \A g \in Gens : Tracked(g)' = Tracked(g)
    PROVE  Accounted'
  BY DEF Accounted

\* A slot passes from the pool to the loop, from the loop to its worker and
\* from the worker to the pool; a worker enters and leaves one group.
LEMMA AccountedStep ==
    ASSUME TypeInv, Conserved, Accounted, [Next]_vars
    PROVE  Accounted'
<1> USE DEF TypeInv, loopVars, workVars, callVars, ownerVars
<1>0. /\ IsFiniteSet(SlotLoops) /\ Cardinality(SlotLoops) \in Nat
      /\ IsFiniteSet(SlotWorkers) /\ Cardinality(SlotWorkers) \in Nat
      /\ \A g \in Gens : IsFiniteSet(Tracked(g)) /\ Cardinality(Tracked(g)) \in Nat
  BY FiniteCounts, FS_CardinalityType
<1>1. ASSUME NEW x, Send(x), UNCHANGED <<slots, wg, workVars>> PROVE Accounted'
  <2>1. SlotLoops' = SlotLoops BY <1>1 DEF Send, Take, SlotLoops, TypeOK
  <2> QED BY <1>1, <2>1, AccountedFrame DEF SlotWorkers, Tracked
<1>2. ASSUME NEW m \in Msgs, Handle(m) \/ HandleWait(m) PROVE Accounted'
  BY <1>1, <1>2 DEF Handle, HandleWait, Submit
<1>3. ASSUME NEW m \in Msgs, Drop(m) \/ EnterWait(m) \/ Timeout(m) PROVE Accounted'
  BY <1>3, AccountedFrame DEF Drop, EnterWait, Timeout, CallerMoves, SlotLoops, SlotWorkers, Tracked
<1>4. ASSUME NEW m \in Msgs, CallHandler(m) \/ HandlerReturns(m) \/ Callback(m) PROVE Accounted'
  <2>1. SlotLoops' = SlotLoops /\ SlotWorkers' = SlotWorkers /\ slots' = slots /\ wg' = wg
    BY <1>4 DEF CallHandler, HandlerReturns, Callback, WorkerMoves, SlotLoops, SlotWorkers, TypeOK
  <2>2. \A g \in Gens : Tracked(g)' = Tracked(g)
    BY <1>4 DEF CallHandler, HandlerReturns, Callback, WorkerMoves, Tracked, TypeOK
  <2> QED BY <2>1, <2>2, AccountedFrame
<1>5. ASSUME NEW m \in Msgs, Release(m) PROVE Accounted'
  <2>1. SlotLoops' = SlotLoops /\ m \in SlotWorkers /\ SlotWorkers' = SlotWorkers \ {m}
    BY <1>5 DEF Release, WorkerMoves, SlotLoops, SlotWorkers, TypeOK
  <2>2. Cardinality(SlotWorkers') = Cardinality(SlotWorkers) - 1
    BY <1>0, <2>1, FS_RemoveElement
  <2>3. \A g \in Gens : Tracked(g)' = Tracked(g)
    BY <1>5 DEF Release, WorkerMoves, Tracked, TypeOK
  <2>4. slots' = Cardinality(SlotLoops') + Cardinality(SlotWorkers')
    BY <1>0, <1>5, <2>1, <2>2 DEF Release, Accounted
  <2> QED BY <1>5, <2>3, <2>4 DEF Release, Accounted
<1>6. ASSUME NEW m \in Msgs, WgDone(m) PROVE Accounted'
  <2>1. SlotLoops' = SlotLoops /\ SlotWorkers' = SlotWorkers
    BY <1>6 DEF WgDone, WorkerMoves, SlotLoops, SlotWorkers, TypeOK
  <2>2. gen[m] \in Gens /\ m \in Tracked(gen[m])
    BY <1>6 DEF WgDone, WorkerMoves, Tracked, TypeOK
  <2>3. \A g \in Gens : Tracked(g)' = IF g = gen[m] THEN Tracked(g) \ {m} ELSE Tracked(g)
    BY <1>6 DEF WgDone, WorkerMoves, Tracked, TypeOK
  <2>4. \A g \in Gens : Cardinality(Tracked(g)') =
            IF g = gen[m] THEN Cardinality(Tracked(g)) - 1 ELSE Cardinality(Tracked(g))
    BY <1>0, <2>2, <2>3, FS_RemoveElement
  <2> QED BY <1>6, <2>1, <2>2, <2>4 DEF WgDone, Done, Accounted, TypeOK
<1>7. ASSUME NEW l \in Loops, Receive(l) \/ Stop(l) PROVE Accounted'
  <2>1. SlotLoops' = SlotLoops
    BY <1>7 DEF Receive, Stop, Take, SlotLoops, TypeOK
  <2> QED BY <1>7, <2>1, AccountedFrame DEF Receive, Stop, SlotWorkers, Tracked
<1>8. ASSUME NEW l \in Loops, Acquire(l) PROVE Accounted'
  <2>1. l \notin SlotLoops /\ SlotLoops' = SlotLoops \cup {l}
    BY <1>8 DEF Acquire, SlotLoops, TypeOK
  <2>2. Cardinality(SlotLoops') = Cardinality(SlotLoops) + 1
    BY <1>0, <2>1, FS_AddElement
  <2>3. SlotWorkers' = SlotWorkers /\ \A g \in Gens : Tracked(g)' = Tracked(g)
    BY <1>8 DEF Acquire, SlotWorkers, Tracked
  <2>4. slots' = slots + 1 /\ wg' = wg
    BY <1>8 DEF Acquire
  <2>5. /\ Cardinality(SlotLoops) \in Nat /\ Cardinality(SlotWorkers) \in Nat
        /\ slots = Cardinality(SlotLoops) + Cardinality(SlotWorkers)
    BY <1>0, FS_CardinalityType DEF Accounted
  <2>6. slots' = Cardinality(SlotLoops') + Cardinality(SlotWorkers')
    BY <2>2, <2>3, <2>4, <2>5
  <2> QED BY <2>3, <2>4, <2>6 DEF Accounted
<1>9. ASSUME NEW l \in Loops, Go(l) PROVE Accounted'
  <2> DEFINE m == held[l]
  <2>1. m \in Msgs /\ work[m] = "none" /\ group[l] \in Gens
    BY <1>9 DEF Go, Carries, HeldIsMsg, Held, Conserved, Dispatched, TypeOK
  <2>2. l \in SlotLoops /\ SlotLoops' = SlotLoops \ {l}
    BY <1>9 DEF Go, SlotLoops, TypeOK
  <2>3. m \notin SlotWorkers /\ SlotWorkers' = SlotWorkers \cup {m}
    BY <1>9, <2>1 DEF Go, SlotWorkers, TypeOK
  <2>4. \A g \in Gens : /\ m \notin Tracked(g)
                        /\ Tracked(g)' = IF g = group[l] THEN Tracked(g) \cup {m} ELSE Tracked(g)
    BY <1>9, <2>1 DEF Go, Tracked, TypeOK
  <2>5. /\ Cardinality(SlotLoops') = Cardinality(SlotLoops) - 1
        /\ Cardinality(SlotWorkers') = Cardinality(SlotWorkers) + 1
    BY <1>0, <2>2, <2>3, FS_AddElement, FS_RemoveElement
  <2>6. \A g \in Gens : Cardinality(Tracked(g)') =
            IF g = group[l] THEN Cardinality(Tracked(g)) + 1 ELSE Cardinality(Tracked(g))
    <3> SUFFICES ASSUME NEW g \in Gens
                 PROVE  Cardinality(Tracked(g)') =
                          IF g = group[l] THEN Cardinality(Tracked(g)) + 1 ELSE Cardinality(Tracked(g))
      OBVIOUS
    <3>1. Cardinality(Tracked(g) \cup {m}) = Cardinality(Tracked(g)) + 1
      BY <1>0, <2>4, FS_AddElement
    <3> QED BY <2>4, <3>1
  <2>7. slots' = Cardinality(SlotLoops') + Cardinality(SlotWorkers')
    BY <1>0, <1>9, <2>5 DEF Go, Accounted
  <2>8. \A g \in Gens : wg'[g] = Cardinality(Tracked(g)')
    BY <1>9, <2>1, <2>6 DEF Go, Accounted, TypeOK
  <2> QED BY <2>7, <2>8 DEF Accounted
<1>10. CASE Start \/ Restart
  <2>1. SpawnLoop /\ (op \in Loops => loop[op] = "off")
    BY <1>10 DEF Start, Restart, TypeOK, LoopsOff, Loops
  <2>2. SlotLoops' = SlotLoops
    BY <2>1 DEF SpawnLoop, SlotLoops, TypeOK
  <2> QED BY <2>1, <2>2, AccountedFrame DEF SpawnLoop, SlotWorkers, Tracked
<1>11. CASE RefreshNil
  BY <1>1, <1>11 DEF RefreshNil, OwnerMoves
<1>12. CASE \/ RefreshWait \/ RefreshWoken \/ RefreshAssign \/ RefreshThreads
            \/ Close \/ CloseReturns \/ UNCHANGED vars
  BY <1>12, AccountedFrame DEF RefreshWait, RefreshWoken, RefreshAssign, RefreshThreads, Close,
     CloseReturns, OwnerMoves, vars, SlotLoops, SlotWorkers, Tracked
<1> QED BY <1>2, <1>3, <1>4, <1>5, <1>6, <1>7, <1>8, <1>9, <1>10, <1>11, <1>12
        DEF Next, CallerStep, WorkerStep, LoopStep, OwnerStep

\* The initial states satisfy the inductive invariant.
LEMMA InitInv == Init => IndInv
<1> SUFFICES ASSUME Init PROVE IndInv OBVIOUS
<1>1. TypeInv
  <2>1. q \in Seq(Msgs \cup {Nil}) /\ Len(q) <= QSize
    BY DEF Init
  <2>2. 0 \in Gens /\ 1 \in 1 .. MaxOps + 1
    BY DEF Gens
  <2>3. slots \in 0 .. Workers /\ wg \in [Gens -> Nat]
    BY DEF Init
  <2>4. /\ loop \in [Loops -> LoopPCs] /\ held \in [Loops -> Msgs \cup {Nil}]
        /\ group \in [Loops -> Gens]
    BY <2>2 DEF Init, LoopPCs
  <2>5. work \in [Msgs -> WorkPCs] /\ gen \in [Msgs -> Gens] /\ ran \in [Msgs -> Gens]
    BY <2>2 DEF Init, WorkPCs
  <2>6. /\ result \in [Msgs -> Results \cup {Zero}] /\ call \in [Msgs -> CallPCs]
        /\ reply \in [Msgs -> Results \cup {Zero}]
    BY DEF Init, CallPCs
  <2>7. /\ handler \in Gens /\ tc \in Gens /\ program \in Programs /\ op \in 1 .. MaxOps + 1
        /\ owner \in OwnerPCs
    BY <2>2 DEF Init, OwnerPCs
  <2>8. closed \in BOOLEAN
    BY DEF Init
  <2>9. OwnerInOp /\ HeldIsMsg /\ LoopsOff
    BY DEF Init, OwnerInOp, HeldIsMsg, LoopsOff, Carries
  <2> QED BY <2>1, <2>3, <2>4, <2>5, <2>6, <2>7, <2>8, <2>9 DEF TypeInv, TypeOK
<1>2. Conserved
  BY DEF Init, Conserved, Accepted, Queued, Held, Dispatched, Carries
<1>3. SlotLoops = {} /\ SlotWorkers = {} /\ \A g \in Gens : Tracked(g) = {}
  BY DEF Init, SlotLoops, SlotWorkers, Tracked
<1>4. Accounted
  <2>1. Cardinality(SlotLoops) = 0 /\ Cardinality(SlotWorkers) = 0
    BY <1>3, FS_EmptySet
  <2>2. \A g \in Gens : Cardinality(Tracked(g)) = 0
    BY <1>3, FS_EmptySet
  <2>3. slots = 0 /\ \A g \in Gens : wg[g] = 0 BY DEF Init
  <2> QED BY <2>1, <2>2, <2>3 DEF Accounted
<1> QED BY <1>1, <1>2, <1>4 DEF IndInv

\* The inductive invariant holds in every reachable state.
THEOREM Invariance == Spec => []IndInv
<1>1. IndInv /\ [Next]_vars => IndInv'
  BY TypeStep, ConservedStep, AccountedStep DEF IndInv
<1> QED BY <1>1, InitInv, PTL DEF Spec

\* Types: in particular the pool never holds more than Workers slots or fewer
\* than none, and no wait group goes negative (which would panic).
THEOREM TypeCorrect == Spec => []TypeOK
<1>1. IndInv => TypeOK BY DEF IndInv, TypeInv
<1> QED BY <1>1, Invariance, PTL

\* Every message the router accepted is in exactly one place.
THEOREM MessagesConserved == Spec => []Conserved
<1>1. IndInv => Conserved BY DEF IndInv
<1> QED BY <1>1, Invariance, PTL

\* The pool and the wait groups count the goroutines they stand for.
THEOREM CountersExact == Spec => []Accounted
<1>1. IndInv => Accounted BY DEF IndInv
<1> QED BY <1>1, Invariance, PTL

\* At most Workers handlers run at a time.
THEOREM PoolBound == Spec => []HandlersBounded
<1>1. ASSUME IndInv PROVE HandlersBounded
  <2>1. RunningHandlers \in SUBSET SlotWorkers BY DEF RunningHandlers, SlotWorkers
  <2>2. Cardinality(RunningHandlers) <= Cardinality(SlotWorkers) /\ IsFiniteSet(RunningHandlers)
    BY <2>1, FiniteCounts, FS_Subset
  <2>3. /\ Cardinality(RunningHandlers) \in Nat
        /\ Cardinality(SlotWorkers) \in Nat /\ Cardinality(SlotLoops) \in Nat
    BY <2>2, FiniteCounts, FS_CardinalityType
  <2> QED BY <1>1, <2>2, <2>3 DEF IndInv, TypeInv, TypeOK, Accounted, HandlersBounded
<1> QED BY <1>1, Invariance, PTL

-----------------------------------------------------------------------------
(****************************************************************************)
(* The loops: as many as were started.                                      *)
(****************************************************************************)
\* What the owner does inside an operation is what its program says.
InPhase == /\ Refreshing => program[op] = "refresh"
           /\ owner = "closing" => program[op] = "close"

\* The owner's program and its place in it.
LEMMA OwnerFacts ==
    ASSUME TypeInv
    PROVE  Len(program) \in Nat /\ DOMAIN program = 1 .. Len(program) /\ op \in Nat \ {0}
  BY DEF TypeInv, TypeOK

\* The owner's place inside an operation survives the steps of the others,
\* which at most wake it up inside its refresh, and its own.
LEMMA PhaseStep ==
    ASSUME InPhase, [Next]_vars
    PROVE  InPhase'
<1> USE DEF loopVars, workVars, callVars, ownerVars
<1>1. ASSUME UNCHANGED <<program, op>>, owner' = owner \/ (owner = "waiting" /\ owner' = "woken")
      PROVE  InPhase'
  BY <1>1 DEF InPhase, Refreshing
<1>2. ASSUME NEW m \in Msgs, Handle(m) \/ HandleWait(m) \/ Drop(m) \/ CallerStep(m) PROVE InPhase'
  BY <1>1, <1>2 DEF Handle, HandleWait, Drop, Submit, CallerStep, EnterWait, Timeout, CallerMoves
<1>3. ASSUME NEW m \in Msgs, WorkerStep(m) PROVE InPhase'
  BY <1>1, <1>3 DEF WorkerStep, CallHandler, HandlerReturns, Callback, Release, WgDone, Done
<1>4. ASSUME NEW l \in Loops, LoopStep(l) PROVE InPhase'
  BY <1>1, <1>4 DEF LoopStep, Receive, Stop, Acquire, Go
<1>5. CASE Start \/ Restart \/ CloseReturns
  BY <1>5 DEF Start, Restart, CloseReturns, SpawnLoop, InPhase, Refreshing
<1>6. CASE RefreshNil \/ RefreshWait \/ RefreshWoken \/ RefreshAssign \/ RefreshThreads \/ Close
  BY <1>6 DEF RefreshNil, RefreshWait, RefreshWoken, RefreshAssign, RefreshThreads, Close,
     OwnerMoves, Turn, InPhase, Refreshing
<1>7. CASE UNCHANGED vars
  BY <1>1, <1>7 DEF vars
<1> QED BY <1>2, <1>3, <1>4, <1>5, <1>6, <1>7 DEF Next, OwnerStep

\* The loops, the nils and the operations are finitely many.
LEMMA FiniteBalance ==
    ASSUME TypeInv
    PROVE  /\ IsFiniteSet(LiveLoops) /\ Cardinality(LiveLoops) \in Nat
           /\ IsFiniteSet(NilsQueued) /\ Cardinality(NilsQueued) \in Nat
           /\ IsFiniteSet(Starts) /\ Cardinality(Starts) \in Nat
<1>1. IsFiniteSet(Loops) /\ LiveLoops \in SUBSET Loops
  BY FS_Interval DEF Loops, LiveLoops
<1>2. IsFiniteSet(DOMAIN q) /\ NilsQueued \in SUBSET DOMAIN q
  <2>1. DOMAIN q = 1 .. Len(q) /\ Len(q) \in Int
    BY DEF TypeInv, TypeOK
  <2> QED BY <2>1, FS_Interval DEF NilsQueued
<1>3. IsFiniteSet(1 .. op - 1) /\ Starts \in SUBSET (1 .. op - 1)
  <2>1. 1 \in Int /\ op - 1 \in Int
    BY OwnerFacts
  <2>2. IsFiniteSet(1 .. op - 1)
    BY <2>1, FS_Interval
  <2> QED BY <2>2 DEF Starts
<1> QED BY <1>1, <1>2, <1>3, FS_Subset, FS_CardinalityType

\* A send of nil puts one more nil into the queue, no other send does.
LEMMA NilsAppend ==
    ASSUME TypeInv, NEW x \in Msgs \cup {Nil}, q' = Append(q, x)
    PROVE  Cardinality(NilsQueued') = Cardinality(NilsQueued) + (IF x = Nil THEN 1 ELSE 0)
<1>1. /\ Len(q) \in Nat /\ DOMAIN q = 1 .. Len(q) /\ DOMAIN q' = 1 .. Len(q) + 1
      /\ q'[Len(q) + 1] = x /\ \A i \in 1 .. Len(q) : q'[i] = q[i]
  BY DEF TypeInv, TypeOK
<1>2. Len(q) + 1 \notin NilsQueued
  BY <1>1 DEF NilsQueued
<1>3. CASE x = Nil
  <2>1. NilsQueued' = NilsQueued \cup {Len(q) + 1}
    BY <1>1, <1>3 DEF NilsQueued
  <2> QED BY <1>2, <1>3, <2>1, FiniteBalance, FS_AddElement
<1>4. CASE x # Nil
  <2>1. NilsQueued' = NilsQueued
    BY <1>1, <1>4 DEF NilsQueued
  <2> QED BY <1>4, <2>1, FiniteBalance
<1> QED BY <1>3, <1>4

\* A receive takes a nil out when it receives one; the others move up.
LEMMA NilsTail ==
    ASSUME TypeInv, q # <<>>, q' = Tail(q)
    PROVE  Cardinality(NilsQueued') = Cardinality(NilsQueued) - (IF Head(q) = Nil THEN 1 ELSE 0)
<1>1. /\ Len(q) \in Nat \ {0} /\ DOMAIN q = 1 .. Len(q) /\ DOMAIN q' = 1 .. Len(q) - 1
      /\ Head(q) = q[1] /\ \A i \in 1 .. Len(q) - 1 : q'[i] = q[i + 1]
  BY DEF TypeInv, TypeOK
<1> DEFINE rest == NilsQueued \ {1}
           up == [i \in rest |-> i - 1]
<1>2. \A i \in rest : i \in 2 .. Len(q) /\ i - 1 \in NilsQueued'
  BY <1>1 DEF NilsQueued
<1>3. \A j \in NilsQueued' : j \in Nat /\ j + 1 \in rest
  BY <1>1 DEF NilsQueued
<1> HIDE DEF rest
<1>4. up \in Bijection(rest, NilsQueued')
  <2>1. up \in [rest -> NilsQueued']
    BY <1>2
  <2>2. \A i, j \in rest : up[i] = up[j] => i = j
    BY <1>2
  <2>3. \A j \in NilsQueued' : j + 1 \in rest /\ up[j + 1] = j
    BY <1>3
  <2> HIDE DEF up
  <2> QED BY <2>1, <2>2, <2>3 DEF Bijection, Injection, Surjection, IsInjective
<1>5. IsFiniteSet(rest) /\ Cardinality(rest) = Cardinality(NilsQueued) - (IF 1 \in NilsQueued THEN 1 ELSE 0)
  <2>1. IsFiniteSet(NilsQueued) /\ Cardinality(NilsQueued) \in Nat
    BY FiniteBalance
  <2>2. /\ IsFiniteSet(NilsQueued \ {1})
        /\ Cardinality(NilsQueued \ {1}) =
              IF 1 \in NilsQueued THEN Cardinality(NilsQueued) - 1 ELSE Cardinality(NilsQueued)
    BY <2>1, FS_RemoveElement
  <2> QED BY <2>1, <2>2 DEF rest
<1>6. Cardinality(NilsQueued') = Cardinality(rest)
  BY <1>4, <1>5, FS_Bijection DEF ExistsBijection
<1>7. 1 \in NilsQueued <=> Head(q) = Nil
  BY <1>1 DEF NilsQueued
<1> QED BY <1>5, <1>6, <1>7

\* A loop that takes a nil ends, one that takes a message goes on.
LEMMA LoopTakes ==
    ASSUME TypeInv, NEW l \in Loops, loop[l] = "select", NEW x, Take(l, x)
    PROVE  Cardinality(LiveLoops') = Cardinality(LiveLoops) - (IF x = Nil THEN 1 ELSE 0)
<1>1. l \in LiveLoops
  BY DEF LiveLoops
<1>2. CASE x = Nil
  <2>1. LiveLoops' = LiveLoops \ {l}
    BY <1>2 DEF LiveLoops, Take, TypeInv, TypeOK
  <2> QED BY <1>1, <1>2, <2>1, FiniteBalance, FS_RemoveElement
<1>3. CASE x # Nil
  <2>1. LiveLoops' = LiveLoops
    BY <1>3 DEF LiveLoops, Take, TypeInv, TypeOK
  <2> QED BY <1>3, <2>1, FiniteBalance
<1> QED BY <1>2, <1>3

\* Sending x through the channel changes the balance by the nil it is.
LEMMA SendBalance ==
    ASSUME TypeInv, NEW x \in Msgs \cup {Nil}, Send(x)
    PROVE  Cardinality(LiveLoops') - Cardinality(NilsQueued') =
              Cardinality(LiveLoops) - Cardinality(NilsQueued) - (IF x = Nil THEN 1 ELSE 0)
<1>1. CASE Len(q) < QSize /\ q' = Append(q, x) /\ UNCHANGED loopVars
  <2>1. LiveLoops' = LiveLoops
    BY <1>1 DEF LiveLoops, loopVars
  <2> QED BY <1>1, <2>1, NilsAppend, FiniteBalance
<1>2. ASSUME NEW l \in Loops, loop[l] = "select", Take(l, x), q' = q
      PROVE  Cardinality(LiveLoops') - Cardinality(NilsQueued') =
                Cardinality(LiveLoops) - Cardinality(NilsQueued) - (IF x = Nil THEN 1 ELSE 0)
  <2>1. NilsQueued' = NilsQueued
    BY <1>2 DEF NilsQueued
  <2> QED BY <1>2, <2>1, LoopTakes, FiniteBalance
<1> QED BY <1>1, <1>2 DEF Send

\* The next operation is a start or it is not.
LEMMA NextStart ==
    ASSUME TypeInv, op' = op + 1, UNCHANGED program
    PROVE  Cardinality(Starts') = Cardinality(Starts) + (IF program[op] = "start" THEN 1 ELSE 0)
<1>1. op \notin Starts
  BY OwnerFacts DEF Starts
<1>2. CASE program[op] = "start"
  <2>1. Starts' = Starts \cup {op}
    BY <1>2, OwnerFacts DEF Starts
  <2> QED BY <1>1, <1>2, <2>1, FiniteBalance, FS_AddElement
<1>3. CASE program[op] # "start"
  <2>1. Starts' = Starts
    BY <1>3, OwnerFacts DEF Starts
  <2> QED BY <1>3, <2>1, FiniteBalance
<1> QED BY <1>2, <1>3

LEMMA BalanceStep ==
    ASSUME TypeInv, InPhase, LoopsBalanced, [Next]_vars
    PROVE  LoopsBalanced'
<1> USE DEF loopVars, workVars, callVars, ownerVars
<1>0. /\ Cardinality(LiveLoops) \in Nat /\ Cardinality(NilsQueued) \in Nat /\ Cardinality(Starts) \in Nat
      /\ loop = [l \in Loops |-> loop[l]]
  BY FiniteBalance DEF TypeInv, TypeOK
<1>1. ASSUME LiveLoops' = LiveLoops, NilsQueued' = NilsQueued, UNCHANGED <<program, op>>,
             closed' = closed, Refreshing' = Refreshing
      PROVE  LoopsBalanced'
  BY <1>1 DEF LoopsBalanced, Starts
<1>2. ASSUME NEW m \in Msgs, Handle(m) \/ HandleWait(m) PROVE LoopsBalanced'
  <2>1. Send(m) /\ m # Nil /\ UNCHANGED <<program, op, owner, closed>>
    BY <1>2 DEF Handle, HandleWait, Submit
  <2>2. Cardinality(LiveLoops') - Cardinality(NilsQueued') = Cardinality(LiveLoops) - Cardinality(NilsQueued)
    BY <1>0, <2>1, SendBalance
  <2> QED BY <2>1, <2>2 DEF LoopsBalanced, Starts, Refreshing
<1>3. ASSUME NEW m \in Msgs, Drop(m) \/ CallerStep(m) \/ WorkerStep(m) PROVE LoopsBalanced'
  <2>1. UNCHANGED <<q, loop, program, op, closed>>
    BY <1>3 DEF Drop, CallerStep, EnterWait, Timeout, CallerMoves, WorkerStep, CallHandler, HandlerReturns,
       Callback, Release, WgDone, WorkerMoves, Done
  <2>2. owner' = owner \/ (owner = "waiting" /\ owner' = "woken")
    BY <1>3 DEF Drop, CallerStep, EnterWait, Timeout, CallerMoves, WorkerStep, CallHandler, HandlerReturns,
       Callback, Release, WgDone, Done
  <2>3. Refreshing' = Refreshing
    BY <2>2 DEF Refreshing
  <2> QED BY <1>1, <2>1, <2>3 DEF LiveLoops, NilsQueued
<1>4. ASSUME NEW l \in Loops, Receive(l) PROVE LoopsBalanced'
  <2>1. /\ loop[l] = "select" /\ Take(l, Head(q)) /\ q # <<>> /\ q' = Tail(q)
        /\ UNCHANGED <<program, op, owner, closed>>
    BY <1>4 DEF Receive
  <2>2. Cardinality(LiveLoops') - Cardinality(NilsQueued') = Cardinality(LiveLoops) - Cardinality(NilsQueued)
    <3>1. Cardinality(LiveLoops') = Cardinality(LiveLoops) - (IF Head(q) = Nil THEN 1 ELSE 0)
      BY <2>1, LoopTakes
    <3>2. Cardinality(NilsQueued') = Cardinality(NilsQueued) - (IF Head(q) = Nil THEN 1 ELSE 0)
      BY <2>1, NilsTail
    <3> QED BY <1>0, <3>1, <3>2
  <2> QED BY <2>1, <2>2 DEF LoopsBalanced, Starts, Refreshing
<1>5. ASSUME NEW l \in Loops, Stop(l) PROVE LoopsBalanced'
  BY <1>5 DEF Stop, LoopsBalanced
<1>6. ASSUME NEW l \in Loops, Acquire(l) \/ Go(l) PROVE LoopsBalanced'
  <2>1. LiveLoops' = LiveLoops
    BY <1>0, <1>6 DEF Acquire, Go, LiveLoops
  <2> QED BY <1>1, <1>6, <2>1 DEF Acquire, Go, NilsQueued, Refreshing
<1>7. ASSUME SpawnLoop, op \in DOMAIN program PROVE
         /\ Cardinality(LiveLoops') = Cardinality(LiveLoops) + 1 /\ NilsQueued' = NilsQueued
         /\ Cardinality(Starts') = Cardinality(Starts) + (IF program[op] = "start" THEN 1 ELSE 0)
         /\ ~Refreshing' /\ UNCHANGED closed
  <2>1. op \in Loops /\ loop[op] = "off"
    BY <1>7, OwnerFacts DEF TypeInv, TypeOK, LoopsOff, Loops
  <2>2. op \notin LiveLoops /\ LiveLoops' = LiveLoops \cup {op}
    BY <1>0, <1>7, <2>1 DEF SpawnLoop, LiveLoops
  <2>3. Cardinality(LiveLoops') = Cardinality(LiveLoops) + 1
    BY <2>2, FiniteBalance, FS_AddElement
  <2>4. Cardinality(Starts') = Cardinality(Starts) + (IF program[op] = "start" THEN 1 ELSE 0)
    BY <1>7, NextStart DEF SpawnLoop
  <2> QED BY <1>7, <2>3, <2>4 DEF SpawnLoop, NilsQueued, Refreshing
<1>8. CASE Start
  <2>1. SpawnLoop /\ op \in DOMAIN program /\ program[op] = "start" /\ ~Refreshing
    BY <1>8 DEF Start, Turn, Refreshing
  <2> QED BY <1>0, <1>7, <2>1 DEF LoopsBalanced
<1>9. CASE Restart
  <2>1. SpawnLoop /\ op \in DOMAIN program /\ program[op] = "refresh" /\ Refreshing
    BY <1>9 DEF Restart, Refreshing, InPhase, TypeInv, OwnerInOp
  <2> QED BY <1>0, <1>7, <2>1 DEF LoopsBalanced
<1>10. CASE RefreshNil
  <2>1. Send(Nil) /\ ~Refreshing /\ Refreshing' /\ UNCHANGED <<program, op, closed>>
    BY <1>10 DEF RefreshNil, OwnerMoves, Turn, Refreshing
  <2>2. Cardinality(LiveLoops') - Cardinality(NilsQueued') = Cardinality(LiveLoops) - Cardinality(NilsQueued) - 1
    BY <2>1, SendBalance
  <2> QED BY <1>0, <2>1, <2>2 DEF LoopsBalanced, Starts
<1>11. CASE RefreshWait \/ RefreshWoken \/ RefreshAssign \/ RefreshThreads
  <2>1. UNCHANGED <<q, loop, program, op, closed>> /\ Refreshing /\ Refreshing'
    BY <1>11 DEF RefreshWait, RefreshWoken, RefreshAssign, RefreshThreads, OwnerMoves, Refreshing
  <2> QED BY <1>1, <2>1 DEF LiveLoops, NilsQueued
<1>12. CASE Close
  BY <1>12 DEF Close, LoopsBalanced
<1>13. CASE CloseReturns
  <2>1. /\ UNCHANGED <<q, loop, program, closed>> /\ op' = op + 1 /\ ~Refreshing /\ ~Refreshing'
        /\ program[op] # "start"
    BY <1>13 DEF CloseReturns, Refreshing, InPhase
  <2>2. Cardinality(Starts') = Cardinality(Starts)
    BY <1>0, <2>1, NextStart
  <2> QED BY <2>1, <2>2 DEF LoopsBalanced, LiveLoops, NilsQueued
<1>14. CASE UNCHANGED vars
  BY <1>1, <1>14 DEF vars, LiveLoops, NilsQueued, Refreshing
<1> QED BY <1>2, <1>3, <1>4, <1>5, <1>6, <1>8, <1>9, <1>10, <1>11, <1>12, <1>13, <1>14
        DEF Next, LoopStep, OwnerStep

\* However many refreshes a router goes through, the loops that will remain
\* are as many as Controller.Start started.
THEOREM LoopsAreBalanced == Spec => []LoopsBalanced
<1>1. Init => LoopsBalanced
  <2> SUFFICES ASSUME Init PROVE LoopsBalanced OBVIOUS
  <2>1. LiveLoops = {} /\ NilsQueued = {} /\ Starts = {} /\ ~Refreshing
    BY DEF Init, LiveLoops, NilsQueued, Starts, Refreshing
  <2> QED BY <2>1, FS_EmptySet DEF LoopsBalanced
<1>2. IndInv /\ InPhase /\ LoopsBalanced /\ [Next]_vars => LoopsBalanced'
  BY BalanceStep DEF IndInv
<1>3. Init => InPhase
  BY DEF Init, InPhase, Refreshing
<1> QED BY <1>1, <1>2, <1>3, PhaseStep, Invariance, PTL DEF Spec

-----------------------------------------------------------------------------
(****************************************************************************)
(* The router implements RouterContract.                                    *)
(****************************************************************************)
Stat == [m \in Msgs |-> Status(m)]
Outc == [m \in Msgs |-> Outcome(m)]

\* The instance counts with the Cardinality of its own copy of FiniteSets.
LEMMA SameCardinality == ASSUME NEW S PROVE Contract!Cardinality(S) = Cardinality(S)
  BY DEF Contract!Cardinality, Cardinality

\* A step that leaves status, outcome, result and reply alone is a stutter.
LEMMA ContractStutter ==
    ASSUME \A n \in Msgs : Status(n)' = Status(n) /\ Outcome(n)' = Outcome(n),
           result' = result, reply' = reply
    PROVE  UNCHANGED Contract!vars
  BY DEF Contract!vars

\* Status and Outcome of the other messages when one message changes.
LEMMA OthersKeep ==
    ASSUME NEW m \in Msgs,
           \A n \in Msgs : n # m => Status(n)' = Status(n) /\ Outcome(n)' = Outcome(n)
    PROVE  /\ Stat' = [Stat EXCEPT ![m] = Status(m)']
           /\ Outc' = [Outc EXCEPT ![m] = Outcome(m)']
           /\ Outcome(m)' = Outcome(m) => Outc' = Outc
           /\ Status(m)' = Status(m) => Stat' = Stat
  BY DEF Stat, Outc

\* Every step of the router is a step of the contract or a stutter.
LEMMA ContractStep ==
    ASSUME IndInv, [Next]_vars
    PROVE  [Contract!Next]_(Contract!vars)
<1> USE DEF IndInv, TypeInv, loopVars, workVars, callVars, ownerVars
<1>1. ASSUME NEW m \in Msgs, NEW pc \in {"async", "sent"}, Submit(m, pc) PROVE Contract!Accept(m)
  <2>1. work[m] = "none" /\ call[m] = "new"
    BY <1>1 DEF Submit, Conserved, Accepted, Dispatched
  <2>2. \A n \in Msgs : n # m => Status(n)' = Status(n) /\ Outcome(n)' = Outcome(n)
    BY <1>1 DEF Submit, Status, Outcome, TypeOK
  <2>3. Status(m) = "new" /\ Status(m)' = "accepted" /\ Outcome(m)' \in {"none", "pending"}
    BY <1>1, <2>1 DEF Submit, Status, Outcome, TypeOK
  <2>4. Stat[m] = "new" /\ Stat' = [Stat EXCEPT ![m] = "accepted"]
        /\ \E o \in {"none", "pending"} : Outc' = [Outc EXCEPT ![m] = o]
    BY <2>2, <2>3, OthersKeep DEF Stat
  <2> QED BY <1>1, <2>4 DEF Contract!Accept, Submit, Stat, Outc
<1>2. ASSUME NEW m \in Msgs, Drop(m) PROVE Contract!Refuse(m)
  <2>1. \A n \in Msgs : n # m => Status(n)' = Status(n) /\ Outcome(n)' = Outcome(n)
    BY <1>2 DEF Drop, CallerMoves, Status, Outcome, TypeOK
  <2>2. Status(m) = "new" /\ Status(m)' = "refused" /\ Outcome(m)' = Outcome(m)
    <3>1. call[m] = "new" /\ call'[m] = "full"
      BY <1>2 DEF Drop, CallerMoves, TypeOK
    <3>2. Outcome(m) = "none" /\ Outcome(m)' = "none"
      BY <3>1 DEF Outcome
    <3> QED BY <3>1, <3>2 DEF Status
  <2>3. Stat[m] = "new" /\ Stat' = [Stat EXCEPT ![m] = "refused"] /\ Outc' = Outc
    BY <2>1, <2>2, OthersKeep DEF Stat
  <2> QED BY <1>2, <2>3 DEF Contract!Refuse, Drop, CallerMoves, Stat, Outc
<1>3. ASSUME NEW m \in Msgs, EnterWait(m) PROVE UNCHANGED Contract!vars
  <2>1. \A n \in Msgs : Status(n)' = Status(n) /\ Outcome(n)' = Outcome(n)
    BY <1>3 DEF EnterWait, CallerMoves, Status, Outcome, TypeOK
  <2> QED BY <1>3, <2>1, ContractStutter DEF EnterWait, CallerMoves
<1>4. ASSUME NEW m \in Msgs, Timeout(m) PROVE Contract!Expire(m)
  <2>1. \A n \in Msgs : n # m => Status(n)' = Status(n) /\ Outcome(n)' = Outcome(n)
    BY <1>4 DEF Timeout, CallerMoves, Status, Outcome, TypeOK
  <2>2. Status(m)' = Status(m) /\ Outcome(m) = "pending" /\ Outcome(m)' = "expired"
    BY <1>4 DEF Timeout, CallerMoves, Status, Outcome, TypeOK
  <2>3. Outc[m] = "pending" /\ Outc' = [Outc EXCEPT ![m] = "expired"] /\ Stat' = Stat
    BY <2>1, <2>2, OthersKeep DEF Outc
  <2> QED BY <1>4, <2>3 DEF Contract!Expire, Timeout, CallerMoves, Stat, Outc
<1>5. ASSUME NEW m \in Msgs, CallHandler(m) PROVE Contract!Run(m)
  <2>1. \A n \in Msgs : work[n] # "none" => call[n] \notin {"new", "full"}
    BY DEF Conserved, Accepted, Dispatched
  <2>2. \A n \in Msgs : n # m => Status(n)' = Status(n) /\ Outcome(n)' = Outcome(n)
    BY <1>5 DEF CallHandler, WorkerMoves, Status, Outcome, TypeOK
  <2>3. Status(m) = "accepted" /\ Status(m)' = "running" /\ Outcome(m)' = Outcome(m)
    <3>1. work[m] = "spawned" /\ work'[m] = "running" /\ call' = call
      BY <1>5 DEF CallHandler, WorkerMoves, TypeOK
    <3>2. call[m] \notin {"new", "full"}
      BY <2>1, <3>1
    <3> QED BY <3>1, <3>2 DEF Status, Outcome
  <2>4. Stat[m] = "accepted" /\ Stat' = [Stat EXCEPT ![m] = "running"] /\ Outc' = Outc
    BY <2>2, <2>3, OthersKeep DEF Stat
  <2>5. {n \in Msgs : Stat[n] = "running"} = RunningHandlers
    BY <2>1 DEF Stat, Status, RunningHandlers
  <2>6. Cardinality(RunningHandlers) < Workers
    <3>1. m \notin RunningHandlers /\ RunningHandlers \cup {m} \in SUBSET SlotWorkers
      BY <1>5 DEF CallHandler, WorkerMoves, RunningHandlers, SlotWorkers
    <3>2. IsFiniteSet(RunningHandlers) /\ Cardinality(RunningHandlers) \in Nat
      BY <3>1, FiniteCounts, FS_Subset, FS_CardinalityType
    <3>3. Cardinality(RunningHandlers) + 1 <= Cardinality(SlotWorkers)
      <4>1. Cardinality(RunningHandlers \cup {m}) = Cardinality(RunningHandlers) + 1
        BY <3>1, <3>2, FS_AddElement
      <4>2. Cardinality(RunningHandlers \cup {m}) <= Cardinality(SlotWorkers)
        BY <3>1, FiniteCounts, FS_Subset
      <4> QED BY <4>1, <4>2
    <3>4. Cardinality(SlotWorkers) \in Nat /\ Cardinality(SlotLoops) \in Nat
      BY FiniteCounts, FS_CardinalityType
    <3> QED BY <3>2, <3>3, <3>4 DEF Accounted, TypeOK
  <2>7. Contract!Cardinality({n \in Msgs : [k \in Msgs |-> Status(k)][n] = "running"}) < Workers
    BY <2>5, <2>6, SameCardinality DEF Stat
  <2> QED BY <1>5, <2>4, <2>7 DEF Contract!Run, CallHandler, Stat, Outc
<1>6. ASSUME NEW m \in Msgs, HandlerReturns(m) PROVE Contract!Finish(m)
  <2>1. call[m] \notin {"new", "full"}
    BY <1>6 DEF HandlerReturns, WorkerMoves, Conserved, Accepted, Dispatched
  <2>2. \A n \in Msgs : n # m => Status(n)' = Status(n) /\ Outcome(n)' = Outcome(n)
    BY <1>6 DEF HandlerReturns, WorkerMoves, Status, Outcome, TypeOK
  <2>3. Status(m) = "running" /\ Status(m)' = "handled" /\ Outcome(m)' = Outcome(m)
    BY <1>6, <2>1 DEF HandlerReturns, WorkerMoves, Status, Outcome, TypeOK
  <2>4. Stat[m] = "running" /\ Stat' = [Stat EXCEPT ![m] = "handled"] /\ Outc' = Outc
    BY <2>2, <2>3, OthersKeep DEF Stat
  <2> QED BY <1>6, <2>4 DEF Contract!Finish, HandlerReturns, Stat, Outc
<1>7. ASSUME NEW m \in Msgs, Callback(m) PROVE Contract!Answer(m) \/ UNCHANGED Contract!vars
  <2>1. call[m] \notin {"new", "full"}
    BY <1>7 DEF Callback, WorkerMoves, Conserved, Accepted, Dispatched
  <2>2. CASE call[m] = "wait"
    <3>1. \A n \in Msgs : n # m => Status(n)' = Status(n) /\ Outcome(n)' = Outcome(n)
      BY <1>7, <2>2 DEF Callback, WorkerMoves, Status, Outcome, TypeOK
    <3>2. /\ Status(m) = "handled" /\ Status(m)' = Status(m)
          /\ Outcome(m) = "pending" /\ Outcome(m)' = "answered"
      BY <1>7, <2>2 DEF Callback, WorkerMoves, Status, Outcome, TypeOK
    <3>3. /\ Stat[m] = "handled" /\ Stat' = Stat
          /\ Outc[m] = "pending" /\ Outc' = [Outc EXCEPT ![m] = "answered"]
      BY <3>1, <3>2, OthersKeep DEF Stat, Outc
    <3> QED BY <1>7, <2>2, <3>3 DEF Contract!Answer, Callback, Stat, Outc
  <2>3. CASE call[m] # "wait"
    <3>1. \A n \in Msgs : Status(n)' = Status(n) /\ Outcome(n)' = Outcome(n)
      <4>1. /\ call' = call /\ work[m] = "callback" /\ work'[m] = "release"
            /\ \A n \in Msgs : n # m => work'[n] = work[n]
        BY <1>7, <2>3 DEF Callback, WorkerMoves, TypeOK
      <4> QED BY <2>1, <4>1 DEF Status, Outcome
    <3>2. result' = result /\ reply' = reply
      BY <1>7, <2>3 DEF Callback
    <3> QED BY <3>1, <3>2, ContractStutter
  <2> QED BY <2>2, <2>3
<1>8. ASSUME NEW m \in Msgs, Release(m) \/ WgDone(m) PROVE UNCHANGED Contract!vars
  <2>1. \A n \in Msgs : Status(n)' = Status(n) /\ Outcome(n)' = Outcome(n)
    BY <1>8 DEF Release, WgDone, WorkerMoves, Status, Outcome, TypeOK
  <2> QED BY <1>8, <2>1, ContractStutter DEF Release, WgDone
<1>9. ASSUME NEW l \in Loops, Go(l) PROVE UNCHANGED Contract!vars
  <2>1. held[l] \in Msgs /\ work[held[l]] = "none"
    BY <1>9 DEF Go, Carries, HeldIsMsg, Held, Conserved, Dispatched
  <2>2. \A n \in Msgs : Status(n)' = Status(n) /\ Outcome(n)' = Outcome(n)
    BY <1>9, <2>1 DEF Go, Status, Outcome, TypeOK
  <2> QED BY <1>9, <2>2, ContractStutter DEF Go
<1>10. ASSUME UNCHANGED <<work, callVars>> PROVE UNCHANGED Contract!vars
  BY <1>10, ContractStutter DEF Status, Outcome
<1>11. ASSUME NEW l \in Loops, Receive(l) \/ Stop(l) \/ Acquire(l) PROVE UNCHANGED <<work, callVars>>
  BY <1>11 DEF Receive, Stop, Acquire
<1>12. CASE OwnerStep \/ Close \/ UNCHANGED vars
  <2>1. UNCHANGED <<work, callVars>>
    BY <1>12 DEF OwnerStep, Start, Restart, SpawnLoop, RefreshNil, RefreshWait, RefreshWoken,
       RefreshAssign, RefreshThreads, Close, CloseReturns, OwnerMoves, vars
  <2> QED BY <1>10, <2>1
<1> QED BY <1>1, <1>2, <1>3, <1>4, <1>5, <1>6, <1>7, <1>8, <1>9, <1>10, <1>11, <1>12
        DEF Next, Handle, HandleWait, CallerStep, WorkerStep, LoopStep, Contract!Next

\* Refinement: the router with its queue, loops, slots and refreshes does what
\* its interface promises, and nothing else.
THEOREM RouterRefines == Spec => ContractHolds
<1>1. Init => Contract!Init
  BY DEF Init, Contract!Init, Status, Outcome
<1>2. IndInv /\ [Next]_vars => [Contract!Next]_(Contract!vars)
  BY ContractStep
<1> QED BY <1>1, <1>2, Invariance, PTL DEF Spec, ContractHolds, Contract!Spec
=============================================================================
