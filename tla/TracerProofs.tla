---------------------------- MODULE TracerProofs ----------------------------
(****************************************************************************)
(* Proofs about psTracer, for any number of events and samples.             *)
(*                                                                          *)
(* CountersLag speaks of the time between two samples; the argument follows *)
(* a counter through a sample.  From its add to its set, the sample holds   *)
(* what the counter still holds (Mid), and from the Reset of the events to  *)
(* its set, the counter has events that are gone (Pending).  What is        *)
(* counted in between is lost, but it overlaps with the sample (Tidy).      *)
(****************************************************************************)
EXTENDS Tracer, FiniteSetTheorems, SequenceTheorems, TLAPS

Reject == "REJECT_MESSAGE"
Add    == "ADD_PEER"

\* The steps of a sample.
Pairs == {"add", "reset", "set"} \X {Reject, Add, ""}
Stage(k) == IF k = 1 THEN <<"add", Reject>>
            ELSE IF k = 2 THEN <<"add", Add>>
            ELSE IF k = 3 THEN <<"reset", "">>
            ELSE IF k = 4 THEN <<"set", Reject>> ELSE <<"set", Add>>

\* A sampler has the last of them left; the rest of the argument speaks of
\* their number only.
Left == Len(sampler)
Staged == /\ sampler \in Seq(Pairs) /\ Left <= 5
          /\ \A i \in 1 .. Left : sampler[i] = Stage(5 - Left + i)

LEMMA TwoTypes == Types = {Reject, Add} /\ Reject # Add
<1>1. Order \in Seq({Reject, Add}) /\ Len(Order) = 2 /\ DOMAIN Order = 1 .. 2
    BY DEF Order, Reject, Add
<1>2. Order[1] = Reject /\ Order[2] = Add
    BY DEF Order, Reject, Add
<1> QED
    BY <1>1, <1>2 DEF Types, ToSet, Reject, Add

\* Two elements make a sequence.
LEMMA TwoElements ==
    ASSUME NEW S, NEW x \in S, NEW y \in S, NEW f, f = [i \in 1 .. 2 |-> IF i = 1 THEN x ELSE y]
    PROVE  f \in Seq(S) /\ Len(f) = 2 /\ f[1] = x /\ f[2] = y
    OBVIOUS

LEMMA AllSteps == Steps \in Seq(Pairs) /\ Len(Steps) = 5 /\ \A i \in 1 .. 5 : Steps[i] = Stage(i)
<1> DEFINE f == [i \in DOMAIN Order |-> <<"add", Order[i]>>]
           r == <<<<"reset", "">>>>
           g == [i \in DOMAIN Order |-> <<"set", Order[i]>>]
           h == f \o r
<1>1. DOMAIN Order = 1 .. 2 /\ Order[1] = Reject /\ Order[2] = Add
    BY DEF Order, Reject, Add
<1>2. /\ <<"add", Reject>> \in Pairs /\ <<"add", Add>> \in Pairs /\ <<"reset", "">> \in Pairs
      /\ <<"set", Reject>> \in Pairs /\ <<"set", Add>> \in Pairs
    BY DEF Pairs
<1>3. f \in Seq(Pairs) /\ Len(f) = 2 /\ f[1] = <<"add", Reject>> /\ f[2] = <<"add", Add>>
  <2> DEFINE x == <<"add", Reject>>
             y == <<"add", Add>>
  <2>0. x \in Pairs /\ y \in Pairs
      BY <1>2
  <2>1. f = [i \in 1 .. 2 |-> IF i = 1 THEN x ELSE y]
    <3>1. \A i \in 1 .. 2 : <<"add", Order[i]>> = IF i = 1 THEN x ELSE y
      <4>1. \A i \in 1 .. 2 : i = 1 \/ i = 2
          OBVIOUS
      <4> QED
          BY <1>1, <4>1
    <3> HIDE DEF x, y
    <3> QED
        BY <1>1, <3>1
  <2> HIDE DEF x, y, f
  <2>2. f \in Seq(Pairs) /\ Len(f) = 2 /\ f[1] = x /\ f[2] = y
      BY <2>0, <2>1, TwoElements
  <2> QED
      BY <2>2 DEF x, y
<1>4. g \in Seq(Pairs) /\ Len(g) = 2 /\ g[1] = <<"set", Reject>> /\ g[2] = <<"set", Add>>
  <2> DEFINE x == <<"set", Reject>>
             y == <<"set", Add>>
  <2>0. x \in Pairs /\ y \in Pairs
      BY <1>2
  <2>1. g = [i \in 1 .. 2 |-> IF i = 1 THEN x ELSE y]
    <3>1. \A i \in 1 .. 2 : <<"set", Order[i]>> = IF i = 1 THEN x ELSE y
      <4>1. \A i \in 1 .. 2 : i = 1 \/ i = 2
          OBVIOUS
      <4> QED
          BY <1>1, <4>1
    <3> HIDE DEF x, y
    <3> QED
        BY <1>1, <3>1
  <2> HIDE DEF x, y, g
  <2>2. g \in Seq(Pairs) /\ Len(g) = 2 /\ g[1] = x /\ g[2] = y
      BY <2>0, <2>1, TwoElements
  <2> QED
      BY <2>2 DEF x, y
<1>5. r \in Seq(Pairs) /\ Len(r) = 1 /\ r[1] = <<"reset", "">>
  <2> DEFINE x == <<"reset", "">>
  <2>1. x \in Pairs
      BY <1>2
  <2> HIDE DEF x
  <2>2. <<x>> \in Seq(Pairs) /\ Len(<<x>>) = 1 /\ <<x>>[1] = x
      BY <2>1
  <2> QED
      BY <2>2 DEF x
<1>6. Steps = h \o g
    BY DEF Steps
<1> HIDE DEF f, g, r
<1>7. h \in Seq(Pairs) /\ Len(h) = 3 /\ h[1] = f[1] /\ h[2] = f[2] /\ h[3] = r[1]
  <2>1. /\ h \in Seq(Pairs) /\ Len(h) = Len(f) + Len(r)
        /\ \A i \in 1 .. Len(f) + Len(r) : h[i] = IF i <= Len(f) THEN f[i] ELSE r[i - Len(f)]
      BY <1>3, <1>5, ConcatProperties
  <2> HIDE DEF h
  <2>2. Len(f) = 2 /\ Len(r) = 1
      BY <1>3, <1>5
  <2>3. \A i \in 1 .. 3 : h[i] = IF i <= 2 THEN f[i] ELSE r[i - 2]
      BY <2>1, <2>2
  <2> QED
      BY <2>1, <2>2, <2>3
<1> HIDE DEF h
<1>8. /\ Steps \in Seq(Pairs) /\ Len(Steps) = 5
      /\ Steps[1] = h[1] /\ Steps[2] = h[2] /\ Steps[3] = h[3] /\ Steps[4] = g[1] /\ Steps[5] = g[2]
  <2>1. /\ Steps \in Seq(Pairs) /\ Len(Steps) = Len(h) + Len(g)
        /\ \A i \in 1 .. Len(h) + Len(g) : Steps[i] = IF i <= Len(h) THEN h[i] ELSE g[i - Len(h)]
      BY <1>4, <1>6, <1>7, ConcatProperties
  <2>2. \A i \in 1 .. 5 : Steps[i] = IF i <= 3 THEN h[i] ELSE g[i - 3]
      BY <1>4, <1>7, <2>1
  <2> QED
      BY <1>4, <1>7, <2>1, <2>2
<1>9. /\ Stage(1) = <<"add", Reject>> /\ Stage(2) = <<"add", Add>> /\ Stage(3) = <<"reset", "">>
      /\ Stage(4) = <<"set", Reject>> /\ Stage(5) = <<"set", Add>>
    BY DEF Stage
<1>10. \A i \in 1 .. 5 : i = 1 \/ i = 2 \/ i = 3 \/ i = 4 \/ i = 5
    OBVIOUS
<1> QED
    BY <1>3, <1>4, <1>5, <1>7, <1>8, <1>9, <1>10

LEMMA LeftFacts ==
    ASSUME Staged
    PROVE  /\ Left \in 0 .. 5 /\ (Left = 0 <=> sampler = <<>>)
           /\ sampler # <<>> => Head(sampler) = Stage(6 - Left) /\ (Tail(sampler) # <<>> <=> Left > 1)
<1>1. sampler \in Seq(Pairs) /\ Left = Len(sampler) /\ Left \in 0 .. 5
  <2>1. sampler \in Seq(Pairs) /\ Left = Len(sampler) /\ Left <= 5
      BY DEF Staged, Left
  <2>2. Left \in Nat
      BY <2>1, LenProperties
  <2> QED
      BY <2>1, <2>2
<1>2. Left = 0 <=> sampler = <<>>
    BY <1>1
<1>3. ASSUME sampler # <<>> PROVE Head(sampler) = Stage(6 - Left)
  <2>1. Head(sampler) = sampler[1] /\ 1 \in 1 .. Left
      BY <1>1, <1>3
  <2>2. sampler[1] = Stage(5 - Left + 1) /\ 5 - Left + 1 = 6 - Left
      BY <1>1, <2>1 DEF Staged
  <2> QED
      BY <2>1, <2>2
<1>4. ASSUME sampler # <<>> PROVE Tail(sampler) # <<>> <=> Left > 1
  <2>1. Tail(sampler) \in Seq(Pairs) /\ Len(Tail(sampler)) = Left - 1
      BY <1>1, <1>4
  <2>2. Tail(sampler) # <<>> <=> Len(Tail(sampler)) # 0
      BY <2>1, EmptySeq
  <2> QED
      BY <1>1, <1>2, <1>4, <2>1, <2>2
<1> QED
    BY <1>1, <1>2, <1>3, <1>4

LEMMA AtFacts ==
    ASSUME Staged, NEW step, NEW t, At(step, t)
    PROVE  /\ Staged' /\ Left' = Left - 1 /\ Left \in 1 .. 5
           /\ <<step, t>> = Stage(6 - Left)
<1>1. sampler # <<>> /\ Head(sampler) = <<step, t>> /\ sampler' = Tail(sampler)
    BY DEF At
<1>2. sampler \in Seq(Pairs) /\ Left = Len(sampler) /\ Left \in 1 .. 5
    BY <1>1, LeftFacts DEF Staged, Left
<1>3. /\ sampler' \in Seq(Pairs) /\ Left' = Left - 1
      /\ \A i \in 1 .. Left - 1 : sampler'[i] = sampler[i + 1]
    BY <1>1, <1>2 DEF Left
<1>4. \A i \in 1 .. Left' : sampler'[i] = Stage(5 - Left' + i)
  <2> TAKE i \in 1 .. Left'
  <2>1. i + 1 \in 1 .. Left /\ 5 - Left + (i + 1) = 5 - Left' + i
      BY <1>2, <1>3
  <2>2. sampler[i + 1] = Stage(5 - Left + (i + 1))
      BY <2>1 DEF Staged
  <2> QED
      BY <1>3, <2>1, <2>2
<1>5. Staged'
    BY <1>2, <1>3, <1>4 DEF Staged
<1>6. <<step, t>> = Stage(6 - Left)
    BY <1>1, LeftFacts
<1> QED
    BY <1>2, <1>3, <1>5, <1>6

\* Which step of which counter it is.
LEMMA StageFacts ==
    ASSUME NEW k \in 1 .. 5, NEW step, NEW t, <<step, t>> = Stage(k)
    PROVE  \/ k = 1 /\ step = "add" /\ t = Reject
           \/ k = 2 /\ step = "add" /\ t = Add
           \/ k = 3 /\ step = "reset"
           \/ k = 4 /\ step = "set" /\ t = Reject
           \/ k = 5 /\ step = "set" /\ t = Add
<1>1. k = 1 \/ k = 2 \/ k = 3 \/ k = 4 \/ k = 5
    OBVIOUS
<1> QED
    BY <1>1 DEF Stage

LEMMA ResetAt ==
    ASSUME Staged, NEW t, At("reset", t) PROVE Staged' /\ Left = 3 /\ Left' = 2
<1>1. Staged' /\ Left' = Left - 1 /\ Left \in 1 .. 5 /\ <<"reset", t>> = Stage(6 - Left)
    BY AtFacts
<1>2. 6 - Left \in 1 .. 5
    BY <1>1
<1>3. 6 - Left = 3
    BY <1>1, <1>2, StageFacts
<1> QED
    BY <1>1, <1>3

(****************************************************************************)
(* Counting the calls of a type.                                            *)
(****************************************************************************)
Num(t, S) == Cardinality({c \in S : Type(c) = t})

LEMMA NumFacts ==
    ASSUME NEW S, IsFiniteSet(S), NEW T, T \subseteq S, NEW t
    PROVE  Num(t, T) \in Nat /\ Num(t, S) \in Nat /\ Num(t, T) <= Num(t, S)
<1> DEFINE U == {c \in S : Type(c) = t}
           V == {c \in T : Type(c) = t}
<1>1. IsFiniteSet(U) /\ V \subseteq U
    BY FS_Subset
<1>2. IsFiniteSet(V) /\ Cardinality(V) <= Cardinality(U)
    BY <1>1, FS_Subset
<1> QED
    BY <1>1, <1>2, FS_CardinalityType DEF Num

LEMMA NumAdd ==
    ASSUME NEW S, IsFiniteSet(S), NEW c, c \notin S, NEW t
    PROVE  Num(t, S \cup {c}) = IF Type(c) = t THEN Num(t, S) + 1 ELSE Num(t, S)
<1> DEFINE U == {d \in S : Type(d) = t}
           V == {d \in S \cup {c} : Type(d) = t}
<1>1. IsFiniteSet(U) /\ c \notin U
    BY FS_Subset
<1>2. CASE Type(c) = t
  <2>1. V = U \cup {c}
      BY <1>2
  <2>2. Cardinality(U \cup {c}) = Cardinality(U) + 1
      BY <1>1, FS_AddElement
  <2> QED
      BY <1>2, <2>1, <2>2 DEF Num
<1>3. CASE Type(c) # t
  <2>1. V = U
      BY <1>3
  <2> QED
      BY <1>3, <2>1 DEF Num
<1> QED
    BY <1>2, <1>3

(****************************************************************************)
(* The invariant.                                                           *)
(****************************************************************************)
Counted == {c \in Calls : trace[c] # "none"}
Waiting == {c \in Calls : UnderWay(c)}

TracerTyped ==
    /\ skiplist \subseteq Types
    /\ trace \in [Calls -> {"none", "counted", "store", "done"}]
    /\ faucets \in [Types -> Nat] /\ total \in [Types -> Nat]
    /\ lock \in BOOLEAN /\ samples \in 0 .. MaxSamples

\* Reset holds the lock for its two counters, and nothing is stored meanwhile;
\* events are of calls that are over, and what is counted or under way during
\* a sample overlaps with it.
Tidy ==
    /\ lock <=> Left \in {1, 2}
    /\ lock => events = {}
    /\ \A c \in events : c \in Calls /\ trace[c] = "done"
    /\ IsFiniteSet(Counted) /\ overlapped \subseteq Counted
    /\ Left # 0 => Waiting \subseteq overlapped

\* The counter was added up and is yet to be set to zero.
Mid(t) == (t = Reject /\ Left \in {4, 3, 2}) \/ (t = Add /\ Left \in {3, 2, 1})

\* The events are gone and the counter is yet to be set to zero.
Pending(t) == (t = Reject /\ Left = 2) \/ (t = Add /\ Left \in {2, 1})

\* What samples and counter know of, and what may be missing.
Known(t) == IF Mid(t) THEN total[t] ELSE total[t] + faucets[t]
Missed(t) == /\ Known(t) <= Num(t, Counted)
             /\ Num(t, Counted) <= Known(t) + Num(t, overlapped)

\* What the counter has of the events that are stored or about to be.
Held(t) == t \notin skiplist /\ ~Pending(t) =>
               /\ faucets[t] <= Num(t, events \cup Waiting)
               /\ Num(t, events \cup Waiting) <= faucets[t] + Num(t, overlapped)

TracerInv == TracerTyped /\ Staged /\ Tidy /\ \A t \in Types : Missed(t) /\ Held(t)

\* The numbers that the invariant speaks of.
LEMMA Numbers ==
    ASSUME TracerInv, NEW t \in Types
    PROVE  /\ Num(t, Counted) \in Nat /\ Num(t, overlapped) \in Nat
           /\ Num(t, Waiting) \in Nat /\ Num(t, events \cup Waiting) \in Nat
           /\ Left # 0 => Num(t, Waiting) <= Num(t, overlapped)
           /\ events \cup Waiting \subseteq Counted /\ IsFiniteSet(overlapped)
           /\ IsFiniteSet(events \cup Waiting)
           /\ faucets[t] \in Nat /\ total[t] \in Nat /\ Left \in 0 .. 5
<1>1. IsFiniteSet(Counted) /\ overlapped \subseteq Counted /\ Waiting \subseteq Counted
    BY DEF TracerInv, Tidy, Waiting, Counted, UnderWay
<1>2. events \cup Waiting \subseteq Counted
    BY <1>1 DEF TracerInv, Tidy, Counted
<1>3. IsFiniteSet(overlapped) /\ IsFiniteSet(events \cup Waiting)
    BY <1>1, <1>2, FS_Subset
<1>4. Left # 0 => Waiting \subseteq overlapped
    BY DEF TracerInv, Tidy
<1>5. Num(t, Counted) \in Nat /\ Num(t, overlapped) \in Nat
    BY <1>1, NumFacts
<1>6. Num(t, Waiting) \in Nat
    BY <1>1, NumFacts
<1>7. Num(t, events \cup Waiting) \in Nat
    BY <1>1, <1>2, NumFacts
<1>8. Left # 0 => Num(t, Waiting) <= Num(t, overlapped)
    BY <1>3, <1>4, NumFacts
<1> QED
    BY <1>2, <1>3, <1>5, <1>6, <1>7, <1>8, LeftFacts DEF TracerInv, TracerTyped

LEMMA TracerInits == ASSUME NEW skip, skip \subseteq Types, TracerInit(skip) PROVE TracerInv
<1>1. TracerTyped
  <2>1. samples \in 0 .. MaxSamples
      BY SamplesAssumption DEF TracerInit
  <2>2. lock \in BOOLEAN /\ skiplist \subseteq Types
      BY DEF TracerInit
  <2>3. trace \in [Calls -> {"none", "counted", "store", "done"}]
      BY DEF TracerInit
  <2>4. faucets \in [Types -> Nat] /\ total \in [Types -> Nat]
      BY DEF TracerInit
  <2> QED
      BY <2>1, <2>2, <2>3, <2>4 DEF TracerTyped
<1>2. Staged /\ Left = 0
  <2>1. sampler = <<>>
      BY DEF TracerInit
  <2>2. sampler \in Seq(Pairs) /\ Len(sampler) = 0
      BY <2>1, EmptySeq
  <2> QED
      BY <2>2 DEF Staged, Left
<1>3. Counted = {} /\ Waiting = {} /\ overlapped = {} /\ events = {} /\ ~lock
    BY DEF TracerInit, Counted, Waiting, UnderWay
<1>4. Tidy
    BY <1>2, <1>3, FS_EmptySet DEF Tidy
<1>5. ASSUME NEW t \in Types PROVE Missed(t) /\ Held(t)
  <2>1. Num(t, {}) = 0
    <3>1. {c \in {} : Type(c) = t} = {}
        OBVIOUS
    <3> QED
        BY <3>1, FS_EmptySet DEF Num
  <2>2. faucets[t] = 0 /\ total[t] = 0 /\ ~Mid(t)
      BY <1>2, <1>5 DEF TracerInit, Mid
  <2>3. events \cup Waiting = {}
      BY <1>3
  <2> QED
      BY <1>3, <2>1, <2>2, <2>3 DEF Missed, Held, Known
<1> QED
    BY <1>1, <1>2, <1>4, <1>5 DEF TracerInv

(****************************************************************************)
(* Trace.                                                                   *)
(****************************************************************************)
LEMMA TypeIsType == \A c : Type(c) \in Types
    BY TwoTypes DEF Type, Reject, Add

LEMMA CountStep == ASSUME TracerInv, NEW c \in Calls, Count(c) PROVE TracerInv'
<1> USE DEF TracerInv
<1>1. /\ trace[c] = "none" /\ trace' = [trace EXCEPT ![c] = "counted"]
      /\ faucets' = [faucets EXCEPT ![Type(c)] = @ + 1]
      /\ overlapped' = IF sampler = <<>> THEN overlapped ELSE overlapped \cup {c}
      /\ UNCHANGED <<skiplist, events, lock, sampler, samples, total>>
    BY DEF Count, MayTrace
<1>2. Left' = Left /\ Staged' /\ Left \in 0 .. 5 /\ (Left = 0 <=> sampler = <<>>)
    BY <1>1, LeftFacts DEF Left, Staged
<1>3. TracerTyped'
    BY <1>1, TypeIsType DEF TracerTyped
<1>4. Counted' = Counted \cup {c} /\ Waiting' = Waiting \cup {c} /\ c \notin Counted
    BY <1>1 DEF TracerTyped, Counted, Waiting, UnderWay
<1>5. Tidy'
  <2>1. IsFiniteSet(Counted') /\ overlapped' \subseteq Counted'
      BY <1>1, <1>4, FS_AddElement DEF Tidy
  <2>2. Left # 0 => Waiting' \subseteq overlapped'
      BY <1>1, <1>2, <1>4 DEF Tidy
  <2>3. \A d \in events' : d \in Calls /\ trace'[d] = "done"
      BY <1>1 DEF Tidy, TracerTyped
  <2> QED
      BY <1>1, <1>2, <2>1, <2>2, <2>3 DEF Tidy
<1>6. ASSUME NEW t \in Types PROVE Missed(t)' /\ Held(t)'
  <2> DEFINE one == IF Type(c) = t THEN 1 ELSE 0
  <2>0. one \in {0, 1}
      OBVIOUS
  <2>1. Num(t, Counted)' = Num(t, Counted) + one
    <3>1. Num(t, Counted \cup {c}) = Num(t, Counted) + one
        BY <1>4, NumAdd, Numbers DEF Tidy
    <3> QED
        BY <1>4, <3>1 DEF Num
  <2>2. Num(t, events \cup Waiting)' = Num(t, events \cup Waiting) + one
    <3>1. c \notin events \cup Waiting /\ (events \cup Waiting)' = (events \cup Waiting) \cup {c}
        BY <1>1, <1>4, Numbers
    <3> DEFINE E == events \cup Waiting
    <3>2. IsFiniteSet(E) /\ c \notin E /\ Num(t, E) \in Nat
        BY <3>1, Numbers
    <3> HIDE DEF E
    <3>3. Num(t, E \cup {c}) = Num(t, E) + one
        BY <3>2, NumAdd
    <3> QED
        BY <3>1, <3>3 DEF Num, E
  <2>3. Num(t, overlapped)' = Num(t, overlapped) + (IF Left = 0 THEN 0 ELSE one)
    <3>1. Num(t, overlapped \cup {c}) = Num(t, overlapped) + one
        BY <1>4, NumAdd, Numbers DEF Tidy
    <3>2. CASE Left = 0
      <4>1. overlapped' = overlapped /\ Num(t, overlapped) \in Nat
          BY <1>1, <1>2, <3>2, Numbers
      <4>2. Num(t, overlapped)' = Num(t, overlapped)
          BY <4>1 DEF Num
      <4> QED
          BY <3>2, <4>1, <4>2
    <3>3. CASE Left # 0
        BY <1>1, <1>2, <3>1, <3>3 DEF Num
    <3> QED
        BY <3>2, <3>3
  <2>4. faucets'[t] = faucets[t] + one /\ total'[t] = total[t] /\ skiplist' = skiplist
      BY <1>1 DEF TracerTyped
  <2>5. (Mid(t)' <=> Mid(t)) /\ (Pending(t)' <=> Pending(t)) /\ (Mid(t) => Left # 0)
      BY <1>2 DEF Mid, Pending
  <2>6. /\ Num(t, Counted) \in Nat /\ Num(t, overlapped) \in Nat /\ Num(t, events \cup Waiting) \in Nat
        /\ faucets[t] \in Nat /\ total[t] \in Nat /\ Missed(t) /\ Held(t)
      BY Numbers
  <2> HIDE DEF one
  <2>7. Missed(t)'
      BY <2>0, <2>1, <2>3, <2>4, <2>5, <2>6 DEF Missed, Known
  <2>8. Held(t)'
      BY <2>0, <2>2, <2>3, <2>4, <2>5, <2>6 DEF Held
  <2> QED
      BY <2>7, <2>8
<1> QED
    BY <1>2, <1>3, <1>5, <1>6

\* The call moves on; what is stored or about to be stays the same, unless its
\* type is skipped.
LEMMA StoreStep ==
    ASSUME TracerInv, NEW c \in Calls, shouldSkip(c) \/ storeEvent(c) PROVE TracerInv'
<1> USE DEF TracerInv
<1>1. /\ trace[c] \in {"counted", "store"} /\ ~lock
      /\ UNCHANGED <<skiplist, faucets, lock, sampler, samples, total, overlapped>>
      /\ trace' = [trace EXCEPT ![c] = trace'[c]]
      /\ \/ trace'[c] = "store" /\ events' = events
         \/ trace'[c] = "done" /\ events' = events /\ Type(c) \in skiplist
         \/ trace'[c] = "done" /\ events' = events \cup {c}
    BY DEF shouldSkip, storeEvent, TracerTyped
<1>2. Left' = Left /\ Staged' /\ Left \in 0 .. 5
    BY <1>1, LeftFacts DEF Left, Staged
<1>3. TracerTyped'
    BY <1>1 DEF TracerTyped
<1>4. Counted' = Counted /\ Waiting' \subseteq Waiting /\ c \in Waiting
    BY <1>1 DEF TracerTyped, Counted, Waiting, UnderWay
<1>5. Tidy'
  <2>1. \A d \in events' : d \in Calls /\ trace'[d] = "done"
      BY <1>1 DEF Tidy, TracerTyped
  <2> QED
      BY <1>1, <1>2, <1>4, <2>1 DEF Tidy
<1>6. ASSUME NEW t \in Types PROVE Missed(t)' /\ Held(t)'
  <2>1. /\ Num(t, Counted)' = Num(t, Counted) /\ Num(t, overlapped)' = Num(t, overlapped)
        /\ Known(t)' = Known(t) /\ (Pending(t)' <=> Pending(t))
      BY <1>1, <1>2, <1>4 DEF Num, Known, Mid, Pending
  <2>2. ASSUME t \notin skiplist PROVE Num(t, events \cup Waiting)' = Num(t, events \cup Waiting)
    <3>1. \A d \in Calls : d # c => (UnderWay(d)' <=> UnderWay(d))
        BY <1>1 DEF TracerTyped, UnderWay
    <3>2. UnderWay(c) /\ (UnderWay(c)' <=> trace'[c] = "store")
        BY <1>1 DEF TracerTyped, UnderWay
    <3>3. \A d : Type(d) = t => (d \in events' \cup Waiting' <=> d \in events \cup Waiting)
        BY <1>1, <2>2, <3>1, <3>2 DEF Waiting
    <3>4. {d \in events' \cup Waiting' : Type(d) = t} = {d \in events \cup Waiting : Type(d) = t}
        BY <3>3
    <3> QED
        BY <3>4 DEF Num
  <2>3. Missed(t) /\ Held(t)
      OBVIOUS
  <2>4. Missed(t)'
      BY <2>1, <2>3 DEF Missed
  <2>5. Held(t)'
      BY <1>1, <2>1, <2>2, <2>3 DEF Held
  <2> QED
      BY <2>4, <2>5
<1> QED
    BY <1>2, <1>3, <1>5, <1>6

(****************************************************************************)
(* The sampler.                                                             *)
(****************************************************************************)
LEMMA SampleStep == ASSUME TracerInv, Sample PROVE TracerInv'
<1> USE DEF TracerInv
<1>1. /\ sampler = <<>> /\ samples < MaxSamples /\ samples' = samples + 1 /\ sampler' = Steps
      /\ overlapped' = overlapped \cup Waiting
      /\ UNCHANGED <<skiplist, trace, faucets, events, lock, total>>
    BY DEF Sample, Waiting
<1>2. Left = 0 /\ Left' = 5 /\ Staged'
  <2>1. Left = 0
      BY <1>1, LeftFacts
  <2>2. Left' = 5
      BY <1>1, AllSteps DEF Left
  <2>3. \A i \in 1 .. 5 : 5 - 5 + i = i
      OBVIOUS
  <2> QED
      BY <1>1, <2>1, <2>2, <2>3, AllSteps DEF Staged
<1>3. TracerTyped'
    BY <1>1, SamplesAssumption DEF TracerTyped
<1>4. Counted' = Counted /\ Waiting' = Waiting /\ Waiting \subseteq Counted
    BY <1>1 DEF Counted, Waiting, UnderWay
<1>5. Tidy'
    BY <1>1, <1>2, <1>4 DEF Tidy
<1>6. ASSUME NEW t \in Types PROVE Missed(t)' /\ Held(t)'
  <2>1. /\ Num(t, Counted)' = Num(t, Counted) /\ Known(t)' = Known(t) /\ ~Pending(t)
        /\ Num(t, events \cup Waiting)' = Num(t, events \cup Waiting)
      BY <1>1, <1>2, <1>4 DEF Num, Known, Mid, Pending
  <2>2. /\ Num(t, overlapped) \in Nat /\ Num(t, overlapped)' \in Nat
        /\ Num(t, overlapped) <= Num(t, overlapped)'
    <3>1. IsFiniteSet(overlapped') /\ overlapped \subseteq overlapped'
        BY <1>1, <1>4, <1>5, FS_Subset DEF Tidy
    <3>2. Num(t, overlapped') = Num(t, overlapped)'
        BY DEF Num
    <3> QED
        BY <3>1, <3>2, NumFacts
  <2>3. Missed(t) /\ Held(t) /\ Num(t, Counted) \in Nat /\ Num(t, events \cup Waiting) \in Nat
      BY Numbers
  <2>4. faucets[t] \in Nat /\ Known(t) \in Nat
      BY Numbers DEF Known
  <2>5. Missed(t)'
      BY <2>1, <2>2, <2>3, <2>4 DEF Missed
  <2>6. Held(t)'
      BY <1>1, <2>1, <2>2, <2>3, <2>4 DEF Held
  <2> QED
      BY <2>5, <2>6
<1> QED
    BY <1>2, <1>3, <1>5, <1>6

LEMMA AddStep == ASSUME TracerInv, NEW u \in Types, add(u) PROVE TracerInv'
<1> USE DEF TracerInv
<1>1. /\ At("add", u) /\ total' = [total EXCEPT ![u] = @ + faucets[u]]
      /\ UNCHANGED <<skiplist, trace, faucets, events, lock, samples, overlapped>>
    BY DEF add
<1>2. Staged' /\ Left' = Left - 1 /\ ((Left = 5 /\ u = Reject) \/ (Left = 4 /\ u = Add))
  <2>1. Staged' /\ Left' = Left - 1 /\ Left \in 1 .. 5 /\ <<"add", u>> = Stage(6 - Left)
      BY <1>1, AtFacts
  <2>2. 6 - Left \in 1 .. 5
      BY <2>1
  <2>3. (6 - Left = 1 /\ u = Reject) \/ (6 - Left = 2 /\ u = Add)
      BY <2>1, <2>2, StageFacts
  <2> QED
      BY <2>1, <2>3
<1>3. TracerTyped'
    BY <1>1 DEF TracerTyped
<1>4. Counted' = Counted /\ Waiting' = Waiting
    BY <1>1 DEF Counted, Waiting, UnderWay
<1>5. Tidy'
    BY <1>1, <1>2, <1>4 DEF Tidy
<1>6. ASSUME NEW t \in Types PROVE Missed(t)' /\ Held(t)'
  <2>1. /\ Num(t, Counted)' = Num(t, Counted) /\ Num(t, overlapped)' = Num(t, overlapped)
        /\ Num(t, events \cup Waiting)' = Num(t, events \cup Waiting)
      BY <1>1, <1>4 DEF Num
  <2>2. /\ ~Pending(t) /\ (t # u => (Mid(t)' <=> Mid(t))) /\ (t = u => ~Mid(t) /\ Mid(t)')
      BY <1>2, <1>6, TwoTypes DEF Mid, Pending
  <2>3. Known(t)' = Known(t)
    <3>1. CASE t = u
        BY <1>1, <2>2, <3>1 DEF Known, TracerTyped
    <3>2. CASE t # u
        BY <1>1, <2>2, <3>2 DEF Known, TracerTyped
    <3> QED
        BY <3>1, <3>2
  <2> QED
      BY <1>1, <2>1, <2>2, <2>3 DEF Missed, Held
<1> QED
    BY <1>2, <1>3, <1>5, <1>6

LEMMA ResetStep == ASSUME TracerInv, Reset PROVE TracerInv'
<1> USE DEF TracerInv
<1>1. /\ lock' = TRUE /\ events' = {}
      /\ UNCHANGED <<skiplist, trace, faucets, samples, total, overlapped>>
    BY DEF Reset
<1>2. Staged' /\ Left' = 2 /\ Left = 3
    BY ResetAt DEF Reset
<1>3. TracerTyped'
    BY <1>1 DEF TracerTyped
<1>4. Counted' = Counted /\ Waiting' = Waiting
    BY <1>1 DEF Counted, Waiting, UnderWay
<1>5. Tidy'
  <2>1. lock' /\ Left' \in {1, 2} /\ events' = {}
      BY <1>1, <1>2
  <2>2. IsFiniteSet(Counted') /\ overlapped' \subseteq Counted' /\ Waiting' \subseteq overlapped'
      BY <1>1, <1>2, <1>4 DEF Tidy
  <2> QED
      BY <2>1, <2>2 DEF Tidy
<1>6. ASSUME NEW t \in Types PROVE Missed(t)' /\ Held(t)'
  <2>1. Num(t, Counted)' = Num(t, Counted) /\ Num(t, overlapped)' = Num(t, overlapped)
      BY <1>1, <1>4 DEF Num
  <2>2. Pending(t)' /\ (Mid(t)' <=> Mid(t))
      BY <1>2, <1>6, TwoTypes DEF Mid, Pending
  <2> QED
      BY <1>1, <2>1, <2>2 DEF Missed, Held, Known
<1> QED
    BY <1>2, <1>3, <1>5, <1>6

LEMMA SetStep == ASSUME TracerInv, NEW u \in Types, set(u) PROVE TracerInv'
<1> USE DEF TracerInv
<1>1. /\ At("set", u) /\ faucets' = [faucets EXCEPT ![u] = 0] /\ lock' = (Tail(sampler) # <<>>)
      /\ UNCHANGED <<skiplist, trace, events, samples, total, overlapped>>
    BY DEF set
<1>2. /\ Staged' /\ Left' = Left - 1 /\ ((Left = 2 /\ u = Reject) \/ (Left = 1 /\ u = Add))
      /\ lock' <=> Left' \in {1, 2}
  <2>1. Staged' /\ Left' = Left - 1 /\ Left \in 1 .. 5 /\ <<"set", u>> = Stage(6 - Left)
      BY <1>1, AtFacts
  <2>2. 6 - Left \in 1 .. 5
      BY <2>1
  <2>3. (6 - Left = 4 /\ u = Reject) \/ (6 - Left = 5 /\ u = Add)
      BY <2>1, <2>2, StageFacts
  <2>4. (Left = 2 /\ u = Reject) \/ (Left = 1 /\ u = Add)
      BY <2>1, <2>3
  <2>5. Tail(sampler) # <<>> <=> Left > 1
      BY <1>1, LeftFacts DEF At
  <2>6. lock' <=> Left > 1
      BY <1>1, <2>5
  <2>7. Left > 1 <=> Left' \in {1, 2}
      BY <2>1, <2>4
  <2> QED
      BY <2>1, <2>4, <2>6, <2>7
<1>3. TracerTyped'
    BY <1>1 DEF TracerTyped
<1>4. Counted' = Counted /\ Waiting' = Waiting
    BY <1>1 DEF Counted, Waiting, UnderWay
<1>5. Tidy' /\ events = {}
  <2>1. Left \in {1, 2}
      BY <1>2
  <2>2. events = {} /\ events' = {}
      BY <1>1, <2>1 DEF Tidy
  <2>3. IsFiniteSet(Counted') /\ overlapped' \subseteq Counted' /\ Waiting' \subseteq overlapped'
      BY <1>1, <1>4, <2>1 DEF Tidy
  <2> QED
      BY <1>2, <2>2, <2>3 DEF Tidy
<1>6. ASSUME NEW t \in Types PROVE Missed(t)' /\ Held(t)'
  <2>1. /\ Num(t, Counted)' = Num(t, Counted) /\ Num(t, overlapped)' = Num(t, overlapped)
        /\ Num(t, events \cup Waiting)' = Num(t, events \cup Waiting)
      BY <1>1, <1>4 DEF Num
  <2>2. /\ t # u => (Mid(t)' <=> Mid(t)) /\ (Pending(t)' <=> Pending(t))
        /\ t = u => Mid(t) /\ ~Mid(t)'
      BY <1>2, <1>6, TwoTypes DEF Mid, Pending
  <2>3. CASE t # u
    <3>1. faucets'[t] = faucets[t] /\ total'[t] = total[t] /\ skiplist' = skiplist
        BY <1>1, <2>3 DEF TracerTyped
    <3> QED
        BY <2>1, <2>2, <2>3, <3>1 DEF Missed, Held, Known
  <2>4. CASE t = u
    <3>1. faucets'[t] = 0 /\ total'[t] = total[t] /\ total[t] \in Nat
        BY <1>1, <2>4 DEF TracerTyped
    <3>2. Missed(t)'
        BY <2>1, <2>2, <2>4, <3>1 DEF Missed, Known
    <3>3. events \cup Waiting = Waiting /\ Left # 0
        BY <1>2, <1>5
    <3>4. /\ Num(t, events \cup Waiting) = Num(t, Waiting) /\ Num(t, Waiting) <= Num(t, overlapped)
          /\ Num(t, Waiting) \in Nat /\ Num(t, overlapped) \in Nat
        BY <3>3, Numbers
    <3>5. Held(t)'
        BY <2>1, <3>1, <3>4 DEF Held
    <3> QED
        BY <3>2, <3>5
  <2> QED
      BY <2>3, <2>4
<1> QED
    BY <1>2, <1>3, <1>5, <1>6

\* Every step of the tracer, whichever calls begin.
LEMMA TracerStep == ASSUME TracerInv, NEW S, S \subseteq Calls, TracerNext(S) PROVE TracerInv'
    BY CountStep, StoreStep, SampleStep, AddStep, ResetStep, SetStep DEF TracerNext, SamplerStep

LEMMA TracerSame == ASSUME TracerInv, UNCHANGED tracerVars PROVE TracerInv'
<1>1. UNCHANGED <<skiplist, trace, faucets, events, lock, sampler, samples, total, overlapped>>
    BY DEF tracerVars
<1>2. Left' = Left /\ Counted' = Counted /\ Waiting' = Waiting
    BY <1>1 DEF Left, Counted, Waiting, UnderWay
<1> QED
    BY <1>1, <1>2 DEF TracerInv, TracerTyped, Staged, Tidy, Missed, Held, Known, Mid, Pending, Num

\* What the invariant says between two samples.
LEMMA TracerResults == ASSUME TracerInv PROVE TracerTypeOK /\ CountersLag
<1>1. TracerTypeOK
  <2>1. lock <=> (sampler # <<>> /\ Head(sampler)[1] = "set")
    <3>1. Left \in 0 .. 5 /\ (Left = 0 <=> sampler = <<>>) /\ (lock <=> Left \in {1, 2})
        BY LeftFacts DEF TracerInv, Tidy
    <3>2. ASSUME sampler # <<>> PROVE Head(sampler)[1] = "set" <=> Left \in {1, 2}
      <4>1. Head(sampler) = Stage(6 - Left)
          BY <3>2, LeftFacts DEF TracerInv
      <4>2. Left = 1 \/ Left = 2 \/ Left = 3 \/ Left = 4 \/ Left = 5
          BY <3>1, <3>2
      <4>3. /\ Stage(1)[1] = "add" /\ Stage(2)[1] = "add" /\ Stage(3)[1] = "reset"
            /\ Stage(4)[1] = "set" /\ Stage(5)[1] = "set"
          BY DEF Stage
      <4>4. CASE Left = 1
          BY <4>1, <4>3, <4>4
      <4>5. CASE Left = 2
          BY <4>1, <4>3, <4>5
      <4>6. CASE Left = 3
          BY <4>1, <4>3, <4>6
      <4>7. CASE Left = 4
          BY <4>1, <4>3, <4>7
      <4>8. CASE Left = 5
          BY <4>1, <4>3, <4>8
      <4> QED
          BY <4>2, <4>4, <4>5, <4>6, <4>7, <4>8
    <3> QED
        BY <3>1, <3>2
  <2>2. events \subseteq Calls /\ overlapped \subseteq Calls
      BY DEF TracerInv, Tidy, Counted
  <2> QED
      BY <2>1, <2>2 DEF TracerInv, TracerTyped, TracerTypeOK
<1>2. ASSUME sampler = <<>>, NEW t \in Types
      PROVE  /\ t \notin skiplist => Num(t, events \cup Waiting) - faucets[t] \in 0 .. Num(t, overlapped)
             /\ Num(t, Counted) - (total[t] + faucets[t]) \in 0 .. Num(t, overlapped)
  <2>1. Left = 0 /\ ~Mid(t) /\ ~Pending(t)
      BY <1>2, LeftFacts DEF TracerInv, Mid, Pending
  <2>2. /\ Num(t, Counted) \in Nat /\ Num(t, overlapped) \in Nat /\ Num(t, events \cup Waiting) \in Nat
        /\ faucets[t] \in Nat /\ total[t] \in Nat /\ Missed(t) /\ Held(t)
      BY Numbers DEF TracerInv
  <2> QED
      BY <2>1, <2>2 DEF Missed, Held, Known
<1>3. CountersLag
    BY <1>2 DEF CountersLag, Num, Counted, Waiting
<1> QED
    BY <1>1, <1>3
=============================================================================
