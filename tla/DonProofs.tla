------------------------------ MODULE DonProofs ------------------------------
(****************************************************************************)
(* Proofs about what the report buffers of Don hold, for any nodes, setups, *)
(* thresholds and buffer size.  A message is followed on its way: published *)
(* (Sent), past its signatures (Verified), accepted (Accepted), stored      *)
(* (Stored).  It carries the latest report that it was judged by, and the   *)
(* latest report only grows meanwhile (Judged).                             *)
(****************************************************************************)
EXTENDS Don, FiniteSetTheorems, WellFoundedInduction, TLAPS

\* What may be stored at a node.
Storable(n, m) == m \in setup.outside /\ (n \in setup.clients \/ Backed(m))

\* The reports of the DON are records; the rest is what EXCEPT needs.
Typed == /\ setup \in Setup
         /\ lastSeq \in 0 .. MaxReports
         /\ object \in [Reports -> Messages]
         /\ inbox = [n \in Nodes |-> inbox[n]]
         /\ verifier = [n \in Nodes |-> verifier[n]]

\* What was published and can be read comes from another program.
Sent == \A m \in sent : m.readable => m \in setup.outside

Verified == \A n \in Nodes : verifier[n] # None =>
                verifier[n][1] \in sent /\ SignaturesHold(verifier[n][1])

Accepted == \A n \in Nodes : \A e \in inbox[n] : e[1].readable => Storable(n, e[1])

Stored == /\ buf \in [Nodes -> [Slots -> {Zero} \cup setup.outside]]
          /\ \A n \in Nodes, i \in Slots : buf[n][i] # Zero => Storable(n, buf[n][i])

IndInv == Typed /\ Sent /\ Verified /\ Accepted /\ Stored

\* The count of signatures that Process asks for is a quorum.
LEMMA ThresholdIsQuorum ==
    ASSUME NEW n \in Nat, NEW k \in Nat, k >= Threshold(n)
    PROVE  3 * k >= 2 * n
<1>1. CASE n = 0
    BY <1>1
<1>2. CASE n # 0
  <2>1. k >= n - (n - 1) \div 3
      BY <1>2 DEF Threshold
  <2>2. (n - 1) \div 3 \in Nat /\ 3 * ((n - 1) \div 3) <= n - 1
      BY <1>2
  <2> QED
      BY <2>1, <2>2
<1> QED
    BY <1>1, <1>2

\* A report that passes the checks of Process is backed by a quorum.
LEMMA SignedIsBacked == ASSUME setup \in Setup, NEW m, SignaturesHold(m) PROVE Backed(m)
<1> DEFINE asked == setup.dons \cap m.signed
           good  == setup.dons \cap m.valid
<1>1. setup.dons # None /\ setup.dons \subseteq Nodes
    BY DEF SignaturesHold, Setup
<1>2. IsFiniteSet(setup.dons) /\ IsFiniteSet(good)
    BY <1>1, NodesAssumption, FS_Subset
<1>3. asked \subseteq good
    BY DEF SignaturesHold
<1>4. /\ Cardinality(asked) \in Nat /\ Cardinality(good) \in Nat
      /\ Cardinality(setup.dons) \in Nat /\ Cardinality(asked) <= Cardinality(good)
    BY <1>2, <1>3, FS_Subset, FS_CardinalityType
<1>5. Cardinality(asked) >= Threshold(Cardinality(setup.dons))
    BY DEF SignaturesHold
<1>6. 3 * Cardinality(asked) >= 2 * Cardinality(setup.dons)
    BY <1>4, <1>5, ThresholdIsQuorum
<1>7. 3 * Cardinality(good) >= 2 * Cardinality(setup.dons)
    BY <1>4, <1>6
<1> QED
    BY <1>1, <1>7 DEF Backed

\* What is written cannot be read.
LEMMA MarshalledUnread == ASSUME NEW m \in Messages PROVE Marshal(m).readable = FALSE
    BY DEF Marshal, Messages

LEMMA InitInv == Init => IndInv
<1> SUFFICES ASSUME Init PROVE IndInv
    OBVIOUS
<1>1. Typed
  <2>1. setup \in Setup
      BY SetupsAssumption DEF Init
  <2>2. Zero \in Messages
      BY SizesAssumption DEF Zero, Messages, Seqs
  <2> QED
      BY <2>1, <2>2, SizesAssumption DEF Init, Typed
<1>2. Sent /\ Verified /\ Accepted
    BY DEF Init, Sent, Verified, Accepted
<1>3. Stored
    BY DEF Init, Stored
<1> QED
    BY <1>1, <1>2, <1>3 DEF IndInv

\* Storable depends on the setup alone, which no step changes.
LEMMA SameStorable == ASSUME UNCHANGED setup, NEW n, NEW m
                      PROVE  /\ Storable(n, m)' <=> Storable(n, m)
                             /\ SignaturesHold(m)' <=> SignaturesHold(m)
    BY DEF Storable, Backed, SignaturesHold

\* What holds of the parts that a step leaves alone.
LEMMA Unchanged == ASSUME IndInv, UNCHANGED setup
                   PROVE  /\ UNCHANGED sent => Sent'
                          /\ UNCHANGED <<sent, verifier>> => Verified'
                          /\ UNCHANGED inbox => Accepted'
                          /\ UNCHANGED buf => Stored'
<1>1. UNCHANGED sent => Sent'
    BY DEF IndInv, Sent
<1>2. UNCHANGED <<sent, verifier>> => Verified'
    BY DEF IndInv, Verified, SignaturesHold
<1>3. UNCHANGED inbox => Accepted'
    BY DEF IndInv, Accepted, Storable, Backed
<1>4. UNCHANGED buf => Stored'
    BY DEF IndInv, Stored, Storable, Backed
<1> QED
    BY <1>1, <1>2, <1>3, <1>4

\* A node's own message is accepted without a verdict, so it must come from a
\* client or be unreadable.
LEMMA PublishStep ==
    ASSUME IndInv, NEW n \in Nodes, NEW m, PublishBy(n, m),
           m.readable => m \in setup.outside /\ n \in setup.clients,
           UNCHANGED <<setup, verifier, buf>>
    PROVE  Sent' /\ Verified' /\ Accepted' /\ Stored' /\ inbox' = [k \in Nodes |-> inbox'[k]]
<1>1. sent' \in {sent, sent \cup {m}}
    BY DEF PublishBy
<1>2. /\ inbox' = [k \in Nodes |-> inbox'[k]]
      /\ \A k \in Nodes : inbox'[k] \subseteq inbox[k] \cup (IF k = n THEN {<<m, Own>>} ELSE {})
  <2>1. inbox = [k \in Nodes |-> inbox[k]]
      BY DEF IndInv, Typed
  <2>2. inbox' = inbox \/ inbox' = [inbox EXCEPT ![n] = @ \cup {<<m, Own>>}]
      BY DEF PublishBy
  <2> QED
      BY <2>1, <2>2
<1>3. Sent'
    BY <1>1 DEF IndInv, Sent
<1>4. Verified'
    BY <1>1 DEF IndInv, Verified, SignaturesHold
<1>5. Accepted'
  <2> SUFFICES ASSUME NEW k \in Nodes, NEW e \in inbox'[k], e[1].readable
               PROVE  Storable(k, e[1])'
      BY DEF Accepted
  <2>1. CASE e \in inbox[k]
      BY <2>1, SameStorable DEF IndInv, Accepted
  <2>2. CASE e = <<m, Own>> /\ k = n
      BY <2>2, SameStorable DEF Storable
  <2> QED
      BY <1>2, <2>1, <2>2
<1> QED
    BY <1>2, <1>3, <1>4, <1>5, Unchanged

LEMMA DonSteps == ASSUME IndInv, DonStep PROVE IndInv'
<1> USE DEF donVars, bootVars, netVars
<1>1. CASE Run \/ Stop \/ StopReturns
  <2>1. UNCHANGED <<setup, lastSeq, object, sent, verifier, inbox, buf>>
      BY <1>1 DEF Run, Stop, StopReturns
  <2>2. Typed'
      BY <2>1 DEF IndInv, Typed
  <2> QED
      BY <2>1, <2>2, Unchanged DEF IndInv
<1>2. CASE NextReport
  <2>1. UNCHANGED <<setup, sent, verifier, inbox, buf>>
      BY <1>2 DEF NextReport
  <2>2. Typed'
    <3>1. PICK first \in {{n} : n \in setup.members} :
              /\ lastSeq < setup.ticks /\ lastSeq' = lastSeq + 1
              /\ object' = [object EXCEPT ![lastSeq + 1] = NewMockedSignedReport(lastSeq + 1, first)]
        BY <1>2 DEF NextReport
    <3>2. setup.members \subseteq Nodes /\ setup.ticks \in 0 .. MaxReports
        BY DEF IndInv, Typed, Setup
    <3>3. lastSeq + 1 \in Reports /\ lastSeq + 1 \in Seqs
        BY <3>1, <3>2, SizesAssumption DEF IndInv, Typed, Reports, Seqs
    <3>4. NewMockedSignedReport(lastSeq + 1, first) \in Messages
        BY <3>1, <3>2, <3>3 DEF NewMockedSignedReport, Messages
    <3>5. lastSeq' \in 0 .. MaxReports
        BY <3>1, <3>3 DEF Reports
    <3>6. object' \in [Reports -> Messages]
        BY <3>1, <3>3, <3>4 DEF IndInv, Typed
    <3> QED
        BY <2>1, <3>5, <3>6 DEF IndInv, Typed
  <2> QED
      BY <2>1, <2>2, Unchanged DEF IndInv
<1>3. ASSUME NEW s \in Reports, NEW n \in Nodes, Manipulate(s, n) PROVE IndInv'
  <2>1. UNCHANGED <<setup, lastSeq, sent, verifier, inbox, buf>>
      BY <1>3 DEF Manipulate
  <2>2. object' \in [Reports -> Messages]
    <3>1. object' = object \/ object' = [object EXCEPT ![s].valid = {}]
        BY <1>3 DEF Manipulate
    <3>2. [object[s] EXCEPT !.valid = {}] \in Messages
        BY DEF IndInv, Typed, Messages
    <3> QED
        BY <3>1, <3>2 DEF IndInv, Typed
  <2>3. Typed'
      BY <2>1, <2>2 DEF IndInv, Typed
  <2> QED
      BY <2>1, <2>3, Unchanged DEF IndInv
<1>4. ASSUME NEW s \in Reports, NEW n \in Nodes, Transmit(s, n) PROVE IndInv'
  <2>1. UNCHANGED <<setup, lastSeq, object, verifier, buf>> /\ PublishBy(n, Marshal(object[s]))
      BY <1>4 DEF Transmit
  <2>2. ~Marshal(object[s]).readable
      BY MarshalledUnread DEF IndInv, Typed
  <2>3. Sent' /\ Verified' /\ Accepted' /\ Stored' /\ inbox' = [k \in Nodes |-> inbox'[k]]
      BY <2>1, <2>2, PublishStep
  <2>4. Typed'
      BY <2>1, <2>3 DEF IndInv, Typed
  <2> QED
      BY <2>3, <2>4 DEF IndInv
<1>5. ASSUME NEW s \in Reports, NEW n \in Nodes, TransmitFails(s, n) PROVE IndInv'
  <2>1. UNCHANGED <<setup, lastSeq, object, sent, verifier, inbox, buf>>
      BY <1>5 DEF TransmitFails
  <2>2. Typed'
      BY <2>1 DEF IndInv, Typed
  <2> QED
      BY <2>1, <2>2, Unchanged DEF IndInv
<1> QED
    BY <1>1, <1>2, <1>3, <1>4, <1>5 DEF DonStep

LEMMA NodeSteps == ASSUME IndInv, NEW n \in Nodes, NodeStep(n) PROVE IndInv'
<1> USE DEF donVars, bootVars, netVars
<1>1. CASE NodeStart(n) \/ Subscribe(n)
  <2>1. UNCHANGED <<setup, lastSeq, object, sent, verifier, inbox, buf>>
      BY <1>1 DEF NodeStart, Subscribe
  <2>2. Typed'
      BY <2>1 DEF IndInv, Typed
  <2> QED
      BY <2>1, <2>2, Unchanged DEF IndInv
<1>2. ASSUME NEW m \in setup.outside, ClientPublishes(n, m) PROVE IndInv'
  <2>1. /\ UNCHANGED <<setup, lastSeq, object, verifier, buf>>
        /\ PublishBy(n, m) /\ n \in setup.clients
      BY <1>2 DEF ClientPublishes
  <2>2. Sent' /\ Verified' /\ Accepted' /\ Stored' /\ inbox' = [k \in Nodes |-> inbox'[k]]
      BY <2>1, PublishStep
  <2>3. Typed'
      BY <2>1, <2>2 DEF IndInv, Typed
  <2> QED
      BY <2>2, <2>3 DEF IndInv
<1>3. ASSUME NEW m \in sent, Refuse(n, m) PROVE IndInv'
  <2>1. UNCHANGED <<setup, lastSeq, object, sent, verifier, inbox, buf>>
      BY <1>3 DEF Refuse, Arrives
  <2>2. Typed'
      BY <2>1 DEF IndInv, Typed
  <2> QED
      BY <2>1, <2>2, Unchanged DEF IndInv
<1>4. ASSUME NEW m \in sent, Process(n, m) PROVE IndInv'
  <2>1. /\ UNCHANGED <<setup, lastSeq, object, sent, inbox, buf>> /\ SignaturesHold(m)
        /\ verifier' = [verifier EXCEPT ![n] = <<m, GetLatest(buf[n])>>]
      BY <1>4 DEF Process, Arrives
  <2>2. Typed'
      BY <2>1 DEF IndInv, Typed
  <2>3. Verified'
    <3> SUFFICES ASSUME NEW k \in Nodes, verifier'[k] # None
                 PROVE  verifier'[k][1] \in sent /\ SignaturesHold(verifier'[k][1])
        BY <2>1 DEF Verified, SignaturesHold
    <3>1. CASE k = n
        BY <2>1, <3>1 DEF IndInv, Typed
    <3>2. CASE k # n
        BY <2>1, <3>2 DEF IndInv, Typed, Verified
    <3> QED
        BY <3>1, <3>2
  <2> QED
      BY <2>1, <2>2, <2>3, Unchanged DEF IndInv
<1>5. CASE Judge(n)
  <2>1. /\ UNCHANGED <<setup, lastSeq, object, sent, buf>> /\ verifier[n] # None
        /\ verifier' = [verifier EXCEPT ![n] = None]
        /\ inbox' = inbox \/ inbox' = [inbox EXCEPT ![n] = @ \cup {verifier[n]}]
      BY <1>5 DEF Judge
  <2>2. Typed'
      BY <2>1 DEF IndInv, Typed
  <2>3. Verified'
    <3>1. \A k \in Nodes : verifier'[k] # None => verifier'[k] = verifier[k] /\ verifier[k] # None
        BY <2>1 DEF IndInv, Typed
    <3> QED
        BY <2>1, <3>1 DEF IndInv, Verified, SignaturesHold
  <2>4. Storable(n, verifier[n][1])
    <3>1. verifier[n][1] \in sent /\ SignaturesHold(verifier[n][1])
        BY <2>1 DEF IndInv, Verified
    <3>2. verifier[n][1] \in setup.outside
        BY <3>1 DEF IndInv, Sent, SignaturesHold
    <3>3. Backed(verifier[n][1])
        BY <3>1, SignedIsBacked DEF IndInv, Typed
    <3> QED
        BY <3>2, <3>3 DEF Storable
  <2>5. Accepted'
    <3> SUFFICES ASSUME NEW k \in Nodes, NEW e \in inbox'[k], e[1].readable
                 PROVE  Storable(k, e[1])'
        BY DEF Accepted
    <3>1. e \in inbox[k] \/ (k = n /\ e = verifier[n])
        BY <2>1 DEF IndInv, Typed
    <3> QED
        BY <2>1, <2>4, <3>1, SameStorable DEF IndInv, Accepted
  <2> QED
      BY <2>1, <2>2, <2>3, <2>5, Unchanged DEF IndInv
<1>6. ASSUME NEW e \in inbox[n], Consume(n, e) PROVE IndInv'
  <2>1. /\ UNCHANGED <<setup, lastSeq, object, sent, verifier>>
        /\ inbox' = [inbox EXCEPT ![n] = @ \ {e}]
      BY <1>6 DEF Consume
  <2>2. Typed'
      BY <2>1 DEF IndInv, Typed
  <2>3. Accepted'
    <3>1. \A k \in Nodes : inbox'[k] \subseteq inbox[k]
        BY <2>1 DEF IndInv, Typed
    <3> QED
        BY <2>1, <3>1, SameStorable DEF IndInv, Accepted
  <2>4. Stored'
    <3>1. CASE buf' = buf
        BY <2>1, <3>1, Unchanged
    <3>2. CASE e[1].readable /\ buf' = [buf EXCEPT ![n] = Add(@, e[1])]
      <4>1. Storable(n, e[1]) /\ e[1] \in setup.outside
          BY <3>2 DEF IndInv, Accepted, Storable
      <4>2. Slot(e[1].seq) \in Slots
        <5>1. e[1].seq \in Nat
            BY <4>1, SizesAssumption DEF IndInv, Typed, Setup, Messages, Seqs
        <5> QED
            BY <5>1, SizesAssumption DEF Slot, Slots
      <4>3. buf'[n] = buf[n] \/ buf'[n] = [buf[n] EXCEPT ![Slot(e[1].seq)] = e[1]]
          BY <3>2 DEF Add, IndInv, Stored
      <4>4. \A k \in Nodes : k # n => buf'[k] = buf[k]
          BY <3>2 DEF IndInv, Stored
      <4>5. buf' \in [Nodes -> [Slots -> {Zero} \cup setup.outside]]
        <5>1. Add(buf[n], e[1]) \in [Slots -> {Zero} \cup setup.outside]
            BY <4>1, <4>2 DEF Add, IndInv, Stored
        <5> QED
            BY <3>2, <5>1 DEF IndInv, Stored
      <4>6. ASSUME NEW k \in Nodes, NEW i \in Slots, buf'[k][i] # Zero
            PROVE  Storable(k, buf'[k][i])
        <5>1. buf'[k][i] = buf[k][i] \/ (k = n /\ buf'[k][i] = e[1])
            BY <4>2, <4>3, <4>4 DEF IndInv, Stored
        <5> QED
            BY <4>1, <4>6, <5>1 DEF IndInv, Stored
      <4> QED
          BY <2>1, <4>5, <4>6, SameStorable DEF Stored
    <3> QED
        BY <1>6, <3>1, <3>2 DEF Consume
  <2> QED
      BY <2>1, <2>2, <2>3, <2>4, Unchanged DEF IndInv
<1> QED
    BY <1>1, <1>2, <1>3, <1>4, <1>5, <1>6 DEF NodeStep

LEMMA Inductive == Spec => []IndInv
<1>1. IndInv /\ UNCHANGED vars => IndInv'
  <2> SUFFICES ASSUME IndInv, UNCHANGED vars PROVE IndInv'
      OBVIOUS
  <2>1. UNCHANGED <<setup, lastSeq, object, sent, verifier, inbox, buf>>
      BY DEF vars, donVars, bootVars, netVars
  <2>2. Typed'
      BY <2>1 DEF IndInv, Typed
  <2> QED
      BY <2>1, <2>2, Unchanged DEF IndInv
<1>2. IndInv /\ [Next]_vars => IndInv'
    BY <1>1, DonSteps, NodeSteps DEF Next
<1> QED
    BY InitInv, <1>2, PTL DEF Spec

(****************************************************************************)
(* Types, and how far a report may be ahead of the latest.                  *)
(****************************************************************************)
Empty == [i \in Slots |-> Zero]

\* The latest number in a buffer, zero as long as nothing was added.
Newest(b) == Max({b[i].seq : i \in Slots})

\* A message that was judged by a latest report is near that report, and the
\* buffer has not gone back since.
Timely(n, e) == e[2] \in {Own, None} \/ (/\ e[2] \in Seqs /\ e[1].seq - e[2] <= SkipThreshold
                                         /\ e[2] <= Newest(buf[n]))

Judged == \A n \in Nodes : /\ verifier[n] # None => Timely(n, verifier[n])
                           /\ \A e \in inbox[n] : Timely(n, e)

LEMMA NewestFacts ==
    ASSUME NEW b \in [Slots -> Messages]
    PROVE  /\ Newest(b) \in Seqs
           /\ \E i \in Slots : Newest(b) = b[i].seq
           /\ \A i \in Slots : b[i].seq <= Newest(b)
<1> DEFINE Above(i) == {j \in Slots : b[j].seq > b[i].seq}
           family == {Above(i) : i \in Slots}
           numbers == {b[i].seq : i \in Slots}
<1>1. 0 \in Slots /\ \A i \in Slots : b[i].seq \in Seqs /\ b[i].seq \in Nat
    BY SizesAssumption DEF Slots, Messages, Seqs
<1>2. IsFiniteSet(Slots)
    BY SizesAssumption, FS_Interval DEF Slots
<1>3. family \subseteq FiniteSubsetsOf(Slots) /\ family # {}
  <2>1. family \subseteq SUBSET Slots /\ Above(0) \in family
      BY <1>1
  <2> QED
      BY <1>2, <2>1, FS_FiniteSubsetsOfFinite
<1>4. PICK U \in family : \A V \in family : <<V, U>> \notin StrictSubsetOrdering(Slots)
  <2>1. IsWellFoundedOn(StrictSubsetOrdering(Slots), FiniteSubsetsOf(Slots))
      BY FS_StrictSubsetOrderingWellFounded
  <2> HIDE DEF family
  <2> QED
      BY <1>3, <2>1, WFMin
<1>5. PICK i \in Slots : U = Above(i)
    OBVIOUS
<1>6. ASSUME NEW j \in Slots PROVE b[j].seq <= b[i].seq
  <2> SUFFICES ASSUME b[j].seq > b[i].seq PROVE FALSE
      BY <1>1
  <2>1. Above(j) \subseteq U /\ j \in U /\ j \notin Above(j)
      BY <1>1, <1>5
  <2>2. Above(j) \in family /\ Above(j) # U /\ U \subseteq Slots /\ Above(j) \subseteq Slots
      BY <1>5, <2>1
  <2>3. <<Above(j), U>> \in StrictSubsetOrdering(Slots)
    <3> HIDE DEF Above
    <3> QED
        BY <2>1, <2>2 DEF StrictSubsetOrdering
  <2> QED
      BY <1>4, <2>2, <2>3
<1>7. \E x \in numbers : \A y \in numbers : x >= y
    BY <1>1, <1>6
<1>8. Newest(b) \in numbers /\ \A y \in numbers : Newest(b) >= y
    BY <1>7 DEF Newest, Max
<1>9. PICK m \in Slots : Newest(b) = b[m].seq
    BY <1>8
<1> QED
    BY <1>1, <1>8, <1>9

\* What is asked of a buffer has a type.
LEMMA LatestType ==
    ASSUME NEW b \in [Slots -> Messages]
    PROVE  /\ GetLatest(b) = IF b = Empty THEN None ELSE Newest(b)
           /\ GetLatest(b) \in {None} \cup Seqs
    BY NewestFacts DEF GetLatest, Newest, Empty

\* Adding a report never lowers the latest number, and raises it to the
\* report's own if at all.
LEMMA AddFacts ==
    ASSUME NEW b \in [Slots -> Messages], NEW m \in Messages
    PROVE  /\ Add(b, m) \in [Slots -> Messages]
           /\ Newest(b) <= Newest(Add(b, m))
           /\ Newest(Add(b, m)) = Newest(b) \/ Newest(Add(b, m)) = m.seq
           /\ b # Empty => Add(b, m) # Empty
<1> DEFINE c == Add(b, m)
           k == Slot(m.seq)
<1>1. m.seq \in Nat /\ k \in Slots /\ \A i \in Slots : b[i].seq \in Nat
  <2>1. m.seq \in Nat /\ \A i \in Slots : b[i].seq \in Nat
      BY SizesAssumption DEF Messages, Seqs
  <2> QED
      BY <2>1, SizesAssumption DEF Slot, Slots
<1>2. CASE ~(b[k].seq < m.seq)
  <2>1. c = b
      BY <1>2 DEF Add
  <2> QED
      BY <2>1, NewestFacts, SizesAssumption DEF Seqs
<1>3. CASE b[k].seq < m.seq
  <2>1. c = [b EXCEPT ![k] = m]
      BY <1>3 DEF Add
  <2>2. c \in [Slots -> Messages] /\ c[k] = m /\ \A i \in Slots : i # k => c[i] = b[i]
      BY <1>1, <2>1
  <2> HIDE DEF c, k
  <2>3. /\ Newest(b) \in Nat /\ Newest(c) \in Nat
        /\ \A i \in Slots : b[i].seq <= Newest(b) /\ c[i].seq <= Newest(c)
      BY <2>2, NewestFacts, SizesAssumption DEF Seqs
  <2>4. PICK i \in Slots : Newest(b) = b[i].seq
      BY NewestFacts
  <2>5. PICK j \in Slots : Newest(c) = c[j].seq
      BY <2>2, NewestFacts
  <2>6. Newest(b) <= Newest(c)
    <3>1. CASE i = k
        BY <1>1, <1>3, <2>2, <2>3, <2>4, <3>1
    <3>2. CASE i # k
        BY <2>2, <2>3, <2>4, <3>2
    <3> QED
        BY <3>1, <3>2
  <2>7. Newest(c) = Newest(b) \/ Newest(c) = m.seq
    <3>1. CASE j = k
        BY <2>2, <2>5, <3>1
    <3>2. CASE j # k
      <4>1. Newest(c) <= Newest(b)
          BY <2>2, <2>3, <2>5, <3>2
      <4> QED
          BY <2>3, <2>6, <4>1
    <3> QED
        BY <3>1, <3>2
  <2>8. c # Empty
    <3>1. c[k].seq # 0
        BY <1>1, <1>3, <2>2
    <3> QED
        BY <1>1, <3>1 DEF Empty, Zero
  <2> QED
      BY <2>2, <2>6, <2>7, <2>8 DEF c
<1> QED
    BY <1>2, <1>3

\* A published message, whoever publishes it.
LEMMA PublishTypes ==
    ASSUME TypeOK, Typed, NEW n \in Nodes, NEW m \in Messages, PublishBy(n, m)
    PROVE  /\ sent' \subseteq Messages /\ seen' \in [Nodes -> SUBSET sent']
           /\ \A k \in Nodes : inbox'[k] \subseteq Messages \X Origins
<1>1. CASE m \in seen[n]
    BY <1>1 DEF PublishBy, TypeOK
<1>2. CASE m \notin seen[n]
  <2>1. sent' = sent \cup {m} /\ seen' = [seen EXCEPT ![n] = @ \cup {m}]
      BY <1>2 DEF PublishBy
  <2>2. inbox' = inbox \/ inbox' = [inbox EXCEPT ![n] = @ \cup {<<m, Own>>}]
      BY <1>2 DEF PublishBy
  <2>3. <<m, Own>> \in Messages \X Origins
      BY DEF Origins
  <2>4. \A k \in Nodes : inbox'[k] = inbox[k] \/ inbox'[k] = inbox[k] \cup {<<m, Own>>}
      BY <2>2 DEF Typed
  <2>5. seen' \in [Nodes -> SUBSET sent']
      BY <2>1 DEF TypeOK
  <2>6. sent' \subseteq Messages
      BY <2>1 DEF TypeOK
  <2>7. ASSUME NEW k \in Nodes PROVE inbox'[k] \subseteq Messages \X Origins
    <3>1. inbox[k] \subseteq Messages \X Origins
        BY DEF TypeOK
    <3>2. inbox[k] \cup {<<m, Own>>} \subseteq Messages \X Origins
        BY <2>3, <3>1, Zenon
    <3> QED
        BY <2>4, <3>1, <3>2, Zenon
  <2> QED
      BY <2>5, <2>6, <2>7
<1> QED
    BY <1>1, <1>2

LEMMA TypeStep == ASSUME IndInv, TypeOK, [Next]_vars PROVE TypeOK'
<1> USE DEF donVars, bootVars, netVars
<1>0. Typed /\ setup \in Setup
    BY DEF IndInv, Typed
<1>1. CASE UNCHANGED vars
    BY <1>1 DEF vars, TypeOK
<1>2. CASE Run
  <2>1. boot' \in [Nodes -> SUBSET {"start", "subscribe"}]
      BY <1>2 DEF Run, TypeOK
  <2> QED
      BY <1>2, <2>1 DEF Run, TypeOK
<1>3. CASE Stop \/ StopReturns
    BY <1>3 DEF Stop, StopReturns, TypeOK
<1>4. CASE NextReport
  <2>1. PICK first \in {{n} : n \in setup.members} :
            /\ lastSeq < setup.ticks /\ lastSeq' = lastSeq + 1
            /\ object' = [object EXCEPT ![lastSeq + 1] = NewMockedSignedReport(lastSeq + 1, first)]
      BY <1>4 DEF NextReport
  <2>2. setup.members \subseteq Nodes /\ setup.ticks \in 0 .. MaxReports
      BY <1>0 DEF Setup
  <2>3. lastSeq + 1 \in Reports /\ lastSeq + 1 \in Seqs
      BY <2>1, <2>2, SizesAssumption DEF TypeOK, Reports, Seqs
  <2>4. NewMockedSignedReport(lastSeq + 1, first) \in Messages
      BY <2>1, <2>2, <2>3 DEF NewMockedSignedReport, Messages
  <2>5. lastSeq' \in 0 .. MaxReports /\ object' \in [Reports -> Messages]
      BY <2>1, <2>3, <2>4 DEF Reports, TypeOK
  <2>6. transmit' \in [Reports -> [Nodes -> {"none", "spawned", "marshal", "done"}]]
    <3>1. transmit' = [transmit EXCEPT ![lastSeq + 1] =
                          [n \in Nodes |-> IF n \in setup.members THEN "spawned" ELSE "none"]]
        BY <1>4 DEF NextReport
    <3> QED
        BY <3>1 DEF TypeOK
  <2> QED
      BY <1>4, <2>5, <2>6 DEF NextReport, TypeOK
<1>5. ASSUME NEW r \in Reports, NEW n \in Nodes, Manipulate(r, n) PROVE TypeOK'
  <2>1. object' \in [Reports -> Messages]
    <3>1. object' = object \/ object' = [object EXCEPT ![r].valid = {}]
        BY <1>5 DEF Manipulate
    <3>2. [object[r] EXCEPT !.valid = {}] \in Messages
      <4>1. object[r] \in Messages
          BY DEF TypeOK
      <4> QED
          BY <4>1 DEF Messages
    <3> QED
        BY <3>1, <3>2 DEF TypeOK
  <2>2. transmit' \in [Reports -> [Nodes -> {"none", "spawned", "marshal", "done"}]]
      BY <1>5 DEF Manipulate, TypeOK
  <2> QED
      BY <1>5, <2>1, <2>2 DEF Manipulate, TypeOK
<1>6. ASSUME NEW r \in Reports, NEW n \in Nodes, Transmit(r, n) PROVE TypeOK'
  <2>1. transmit' \in [Reports -> [Nodes -> {"none", "spawned", "marshal", "done"}]]
      BY <1>6 DEF Transmit, TypeOK
  <2>2. Marshal(object[r]) \in Messages
    <3>1. object[r] \in Messages
        BY DEF TypeOK
    <3> QED
        BY <3>1 DEF Marshal, Messages
  <2>3. /\ sent' \subseteq Messages /\ seen' \in [Nodes -> SUBSET sent']
        /\ \A k \in Nodes : inbox'[k] \subseteq Messages \X Origins
      BY <1>0, <1>6, <2>2, PublishTypes DEF Transmit
  <2> QED
      BY <1>6, <2>1, <2>3 DEF Transmit, TypeOK
<1>7. ASSUME NEW r \in Reports, NEW n \in Nodes, TransmitFails(r, n) PROVE TypeOK'
  <2>1. transmit' \in [Reports -> [Nodes -> {"none", "spawned", "marshal", "done"}]]
      BY <1>7 DEF TransmitFails, TypeOK
  <2> QED
      BY <1>7, <2>1 DEF TransmitFails, TypeOK
<1>8. ASSUME NEW n \in Nodes, NodeStart(n) \/ Subscribe(n) PROVE TypeOK'
  <2>1. boot' \in [Nodes -> SUBSET {"start", "subscribe"}]
      BY <1>8 DEF NodeStart, Subscribe, Booted, TypeOK
  <2>2. setup.topics \subseteq {"id", "don.id"}
      BY <1>0 DEF Setup
  <2>3. joined' \in [Nodes -> SUBSET {"id", "don.id"}]
      BY <1>8, <2>2 DEF NodeStart, Subscribe, TypeOK
  <2> QED
      BY <1>8, <2>1, <2>3 DEF NodeStart, Subscribe, TypeOK
<1>9. ASSUME NEW n \in Nodes, NEW m \in setup.outside, ClientPublishes(n, m) PROVE TypeOK'
  <2>1. m \in Messages
      BY <1>0 DEF Setup
  <2>2. /\ sent' \subseteq Messages /\ seen' \in [Nodes -> SUBSET sent']
        /\ \A k \in Nodes : inbox'[k] \subseteq Messages \X Origins
      BY <1>0, <1>9, <2>1, PublishTypes DEF ClientPublishes
  <2> QED
      BY <1>9, <2>2 DEF ClientPublishes, TypeOK
<1>10. ASSUME NEW n \in Nodes, NEW m \in sent, Refuse(n, m) \/ Process(n, m) PROVE TypeOK'
  <2>1. seen' \in [Nodes -> SUBSET sent'] /\ sent' = sent /\ UNCHANGED <<inbox, buf, donVars, bootVars>>
      BY <1>10 DEF Refuse, Process, Arrives, TypeOK
  <2>2. <<m, GetLatest(buf[n])>> \in Messages \X Origins
    <3>1. buf[n] \in [Slots -> Messages] /\ m \in Messages
        BY DEF TypeOK
    <3>2. GetLatest(buf[n]) \in Origins
        BY <3>1, LatestType DEF Origins
    <3> QED
        BY <3>1, <3>2
  <2>3. \A k \in Nodes : verifier'[k] = verifier[k] \/ verifier'[k] = <<m, GetLatest(buf[n])>>
      BY <1>0, <1>10 DEF Refuse, Process, Typed
  <2> QED
      BY <2>1, <2>2, <2>3 DEF TypeOK
<1>11. ASSUME NEW n \in Nodes, Judge(n) PROVE TypeOK'
  <2>1. /\ UNCHANGED <<donVars, bootVars, netVars, buf>> /\ verifier[n] # None
        /\ verifier' = [verifier EXCEPT ![n] = None]
        /\ inbox' = inbox \/ inbox' = [inbox EXCEPT ![n] = @ \cup {verifier[n]}]
      BY <1>11 DEF Judge
  <2>2. \A k \in Nodes : verifier'[k] = verifier[k] \/ verifier'[k] = None
      BY <1>0, <2>1 DEF Typed
  <2>3. \A k \in Nodes : inbox'[k] = inbox[k] \/ inbox'[k] = inbox[k] \cup {verifier[n]}
      BY <1>0, <2>1 DEF Typed
  <2>4. verifier[n] \in Messages \X Origins
      BY <2>1 DEF TypeOK
  <2> QED
      BY <2>1, <2>2, <2>3, <2>4 DEF TypeOK
<1>12. ASSUME NEW n \in Nodes, NEW e \in inbox[n], Consume(n, e) PROVE TypeOK'
  <2>1. \A k \in Nodes : inbox'[k] \subseteq inbox[k]
      BY <1>0, <1>12 DEF Consume, Typed
  <2>2. buf' \in [Nodes -> [Slots -> Messages]]
    <3>1. e[1] \in Messages /\ buf[n] \in [Slots -> Messages]
        BY DEF TypeOK
    <3>2. Add(buf[n], e[1]) \in [Slots -> Messages]
        BY <3>1, AddFacts
    <3> QED
        BY <1>12, <3>2 DEF Consume, TypeOK
  <2> QED
      BY <1>12, <2>1, <2>2 DEF Consume, TypeOK
<1> QED
    BY <1>1, <1>2, <1>3, <1>4, <1>5, <1>6, <1>7, <1>8, <1>9, <1>10, <1>11, <1>12
       DEF Next, DonStep, NodeStep

\* Only the consumer changes a buffer, to one that is as new.
LEMMA BufferGrows ==
    ASSUME IndInv, TypeOK, [Next]_vars, NEW n \in Nodes
    PROVE  \/ buf'[n] = buf[n]
           \/ \E e \in inbox[n] : buf'[n] = Add(buf[n], e[1])
<1>1. CASE UNCHANGED buf
    BY <1>1
<1>2. ASSUME NEW k \in Nodes, NEW e \in inbox[k], Consume(k, e)
      PROVE  buf'[n] = buf[n] \/ (k = n /\ buf'[n] = Add(buf[n], e[1]))
    BY <1>2 DEF Consume, TypeOK
<1>3. CASE DonStep
    BY <1>1, <1>3 DEF DonStep, Run, NextReport, Stop, StopReturns, Manipulate, Transmit, TransmitFails
<1>4. ASSUME NEW k \in Nodes, NodeStep(k)
      PROVE  \/ UNCHANGED buf
             \/ \E e \in inbox[k] : Consume(k, e)
    BY <1>4 DEF NodeStep, NodeStart, Subscribe, ClientPublishes, Refuse, Process, Arrives, Judge
<1>5. CASE UNCHANGED vars
    BY <1>1, <1>5 DEF vars
<1> QED
    BY <1>1, <1>2, <1>3, <1>4, <1>5 DEF Next

LEMMA JudgedStep == ASSUME IndInv, TypeOK, Judged, [Next]_vars PROVE Judged'
<1>0. TypeOK'
    BY TypeStep
<1>1. \A n \in Nodes : Newest(buf[n]) \in Nat /\ Newest(buf[n])' \in Nat /\ Newest(buf[n]) <= Newest(buf[n])'
  <2> TAKE n \in Nodes
  <2>1. buf[n] \in [Slots -> Messages] /\ buf'[n] \in [Slots -> Messages]
      BY <1>0 DEF TypeOK
  <2>2. Newest(buf[n]) \in Nat /\ Newest(buf'[n]) \in Nat
      BY <2>1, NewestFacts, SizesAssumption DEF Seqs
  <2>3. Newest(buf[n])' = Newest(buf'[n])
      BY DEF Newest
  <2>4. \A e \in inbox[n] : e[1] \in Messages
      BY DEF TypeOK
  <2>5. Newest(buf[n]) <= Newest(buf'[n])
    <3>1. CASE buf'[n] = buf[n]
        BY <2>2, <3>1
    <3>2. ASSUME NEW e \in inbox[n], buf'[n] = Add(buf[n], e[1])
          PROVE  Newest(buf[n]) <= Newest(buf'[n])
      <4>1. e[1] \in Messages /\ buf[n] \in [Slots -> Messages]
          BY <2>1, <2>4
      <4>2. Newest(buf[n]) <= Newest(Add(buf[n], e[1]))
          BY <4>1, AddFacts
      <4> QED
          BY <3>2, <4>2
    <3> QED
        BY <3>1, <3>2, BufferGrows
  <2> QED
      BY <2>2, <2>3, <2>5
<1>2. ASSUME NEW n \in Nodes, NEW e, Timely(n, e) PROVE Timely(n, e)'
    BY <1>1, <1>2, SizesAssumption DEF Timely, Seqs
<1>3. \A n \in Nodes : /\ \/ verifier'[n] \in {None, verifier[n]}
                          \/ \E m \in sent : /\ NearEnough(m, GetLatest(buf[n]))
                                             /\ verifier'[n] = <<m, GetLatest(buf[n])>>
                       /\ \A e \in inbox'[n] : \/ e \in inbox[n] \/ e[2] = Own
                                               \/ verifier[n] # None /\ e = verifier[n]
  <2> USE DEF IndInv, Typed
  <2>1. CASE UNCHANGED vars
      BY <2>1 DEF vars
  <2>2. CASE DonStep
    <3>1. UNCHANGED verifier
        BY <2>2 DEF DonStep, Run, NextReport, Stop, StopReturns, Manipulate, Transmit, TransmitFails
    <3>2. ASSUME NEW r \in Reports, NEW k \in Nodes, Transmit(r, k)
          PROVE  \A n \in Nodes : \A e \in inbox'[n] : e \in inbox[n] \/ e[2] = Own
        BY <3>2 DEF Transmit, PublishBy
    <3>3. \/ UNCHANGED inbox
          \/ \E r \in Reports, k \in Nodes : Transmit(r, k)
        BY <2>2 DEF DonStep, Run, NextReport, Stop, StopReturns, Manipulate, TransmitFails
    <3> QED
        BY <3>1, <3>2, <3>3
  <2>3. ASSUME NEW k \in Nodes, NodeStart(k) \/ Subscribe(k)
        PROVE  UNCHANGED <<verifier, inbox>>
      BY <2>3 DEF NodeStart, Subscribe
  <2>4. ASSUME NEW k \in Nodes, NEW m \in setup.outside, ClientPublishes(k, m)
        PROVE  UNCHANGED verifier /\ \A n \in Nodes : \A e \in inbox'[n] : e \in inbox[n] \/ e[2] = Own
      BY <2>4 DEF ClientPublishes, PublishBy
  <2>5. ASSUME NEW k \in Nodes, NEW m \in sent, Refuse(k, m)
        PROVE  UNCHANGED <<verifier, inbox>>
      BY <2>5 DEF Refuse, Arrives
  <2>6. ASSUME NEW k \in Nodes, NEW m \in sent, Process(k, m)
        PROVE  /\ UNCHANGED inbox /\ NearEnough(m, GetLatest(buf[k]))
               /\ \A n \in Nodes : verifier'[n] = IF n = k THEN <<m, GetLatest(buf[k])>> ELSE verifier[n]
      BY <2>6 DEF Process, Arrives
  <2>7. ASSUME NEW k \in Nodes, Judge(k)
        PROVE  \A n \in Nodes : /\ verifier'[n] \in {None, verifier[n]}
                                /\ \A e \in inbox'[n] : \/ e \in inbox[n]
                                                        \/ verifier[n] # None /\ e = verifier[n]
    <3>1. /\ verifier[k] # None /\ verifier' = [verifier EXCEPT ![k] = None]
          /\ inbox' = inbox \/ inbox' = [inbox EXCEPT ![k] = @ \cup {verifier[k]}]
        BY <2>7 DEF Judge
    <3>2. \A n \in Nodes : verifier'[n] = IF n = k THEN None ELSE verifier[n]
        BY <3>1
    <3>3. \A n \in Nodes : \/ inbox'[n] = inbox[n]
                           \/ n = k /\ inbox'[n] = inbox[n] \cup {verifier[n]}
        BY <3>1
    <3> TAKE n \in Nodes
    <3>4. verifier'[n] \in {None, verifier[n]}
        BY <3>2
    <3>5. ASSUME NEW e \in inbox'[n]
          PROVE  e \in inbox[n] \/ (verifier[n] # None /\ e = verifier[n])
        BY <3>1, <3>3, <3>5
    <3> QED
        BY <3>4, <3>5
  <2>8. ASSUME NEW k \in Nodes, NEW e \in inbox[k], Consume(k, e)
        PROVE  UNCHANGED verifier /\ \A n \in Nodes : inbox'[n] \subseteq inbox[n]
      BY <2>8 DEF Consume
  <2>9. CASE \E n \in Nodes : NodeStep(n)
      BY <2>3, <2>4, <2>5, <2>6, <2>7, <2>8, <2>9 DEF NodeStep
  <2> QED
      BY <2>1, <2>2, <2>9 DEF Next
<1>4. ASSUME NEW n \in Nodes, NEW m \in sent, NearEnough(m, GetLatest(buf[n]))
      PROVE  Timely(n, <<m, GetLatest(buf[n])>>)
  <2>1. buf[n] \in [Slots -> Messages] /\ m.seq \in Nat
      BY SizesAssumption DEF TypeOK, Messages, Seqs
  <2>2. CASE GetLatest(buf[n]) = None
      BY <2>2 DEF Timely
  <2>3. CASE GetLatest(buf[n]) # None
    <3>1. GetLatest(buf[n]) = Newest(buf[n]) /\ Newest(buf[n]) \in Seqs
        BY <2>1, <2>3, LatestType, NewestFacts
    <3>2. m.seq - GetLatest(buf[n]) <= SkipThreshold
        BY <1>4, <2>3 DEF NearEnough
    <3> QED
        BY <1>1, <3>1, <3>2 DEF Timely
  <2> QED
      BY <2>2, <2>3
<1>5. ASSUME NEW n \in Nodes, verifier'[n] # None PROVE Timely(n, verifier[n])'
  <2>1. CASE verifier'[n] = verifier[n]
    <3>1. Timely(n, verifier[n])
        BY <1>5, <2>1 DEF Judged
    <3> QED
        BY <1>1, <2>1, <3>1, SizesAssumption DEF Timely, Seqs
  <2>2. CASE \E m \in sent : NearEnough(m, GetLatest(buf[n])) /\ verifier'[n] = <<m, GetLatest(buf[n])>>
    <3>1. PICK m \in sent : NearEnough(m, GetLatest(buf[n])) /\ verifier'[n] = <<m, GetLatest(buf[n])>>
        BY <2>2
    <3>2. Timely(n, <<m, GetLatest(buf[n])>>)
        BY <1>4, <3>1
    <3> QED
        BY <1>1, <3>1, <3>2, SizesAssumption DEF Timely, Seqs
  <2> QED
      BY <1>3, <1>5, <2>1, <2>2
<1>6. ASSUME NEW n \in Nodes, NEW e \in inbox'[n] PROVE Timely(n, e)'
  <2>1. CASE e[2] = Own
      BY <2>1 DEF Timely
  <2>2. CASE e \in inbox[n] \/ (verifier[n] # None /\ e = verifier[n])
    <3>1. Timely(n, e)
        BY <2>2 DEF Judged
    <3> QED
        BY <1>2, <3>1
  <2> QED
      BY <1>3, <2>1, <2>2
<1> QED
    BY <1>5, <1>6 DEF Judged

\* Whatever a verifier lets pass while the consumer changes the buffer, a node
\* without clients of its own stores only what a quorum signed.
THEOREM BuffersAreBacked == Spec => []BufferBacked
<1>1. IndInv => BufferBacked
    BY DEF IndInv, Stored, Storable, BufferBacked
<1> QED
    BY Inductive, <1>1, PTL

\* What was judged by a latest report stays near it, and types are kept.
THEOREM JudgedInvariance == Spec => [](TypeOK /\ Judged)
<1>1. Init => TypeOK /\ Judged
  <2> SUFFICES ASSUME Init PROVE TypeOK /\ Judged
      OBVIOUS
  <2>1. Zero \in Messages
      BY SizesAssumption DEF Zero, Messages, Seqs
  <2>2. TypeOK
      BY <2>1, SizesAssumption DEF Init, TypeOK
  <2>3. Judged
      BY DEF Init, Judged
  <2> QED
      BY <2>2, <2>3
<1>2. IndInv /\ TypeOK /\ Judged /\ [Next]_vars => (TypeOK /\ Judged)'
    BY TypeStep, JudgedStep
<1> QED
    BY Inductive, <1>1, <1>2, PTL DEF Spec

\* Every variable of the application keeps its type, whatever numbers reports
\* and thresholds have; the latest report that GetLatest finds is one of them.
THEOREM TypeCorrect == Spec => []TypeOK
<1>1. TypeOK /\ Judged => TypeOK
    OBVIOUS
<1> QED
    BY JudgedInvariance, <1>1, PTL

\* validateSequence, although its verdict is reached before the consumer stores
\* the report: the latest report of a node never falls back, and moves ahead by
\* more than skipThreshold only for what skipped the check.
THEOREM LatestNeverLeaps == Spec => NoLeap
<1> DEFINE Leap == \A n \in Nodes :
              LET old == GetLatest(buf[n])
                  new == GetLatest(buf'[n])
              IN  old # new /\ old # None =>
                      \/ old < new /\ new - old <= SkipThreshold
                      \/ \E e \in inbox[n] : /\ e[1].seq = new /\ old < new
                                             /\ e[2] \in {Own, None}
<1>1. IndInv /\ TypeOK /\ Judged /\ [Next]_vars => Leap
  <2> SUFFICES ASSUME IndInv, TypeOK, Judged, [Next]_vars, NEW n \in Nodes,
                      GetLatest(buf[n]) # GetLatest(buf'[n]), GetLatest(buf[n]) # None
               PROVE  \/ /\ GetLatest(buf[n]) < GetLatest(buf'[n])
                         /\ GetLatest(buf'[n]) - GetLatest(buf[n]) <= SkipThreshold
                      \/ \E e \in inbox[n] : /\ e[1].seq = GetLatest(buf'[n])
                                             /\ GetLatest(buf[n]) < GetLatest(buf'[n])
                                             /\ e[2] \in {Own, None}
      OBVIOUS
  <2>1. PICK e \in inbox[n] : buf'[n] = Add(buf[n], e[1])
      BY BufferGrows
  <2>2. buf[n] \in [Slots -> Messages] /\ e[1] \in Messages /\ buf'[n] \in [Slots -> Messages]
      BY TypeStep DEF TypeOK
  <2>3. buf[n] # Empty
      BY <2>2, LatestType
  <2>4. buf'[n] # Empty
      BY <2>1, <2>2, <2>3, AddFacts
  <2>5. GetLatest(buf[n]) = Newest(buf[n]) /\ GetLatest(buf'[n]) = Newest(buf'[n])
      BY <2>2, <2>3, <2>4, LatestType
  <2>6. Newest(buf[n]) \in Nat /\ Newest(buf'[n]) \in Nat
      BY <2>2, NewestFacts, SizesAssumption DEF Seqs
  <2>7. Newest(buf[n]) < Newest(buf'[n]) /\ Newest(buf'[n]) = e[1].seq
    <3>1. /\ Newest(buf[n]) <= Newest(Add(buf[n], e[1]))
          /\ Newest(Add(buf[n], e[1])) = Newest(buf[n]) \/ Newest(Add(buf[n], e[1])) = e[1].seq
        BY <2>2, AddFacts
    <3>2. Newest(buf[n]) # Newest(buf'[n])
        BY <2>5
    <3> QED
        BY <2>1, <2>6, <3>1, <3>2
  <2>8. CASE e[2] \in {Own, None}
      BY <2>5, <2>7, <2>8
  <2>9. CASE e[2] \notin {Own, None}
    <3>1. e[2] \in Nat /\ e[1].seq - e[2] <= SkipThreshold /\ e[2] <= Newest(buf[n])
        BY <2>9, SizesAssumption DEF Judged, Timely, Seqs
    <3> QED
        BY <2>5, <2>6, <2>7, <3>1, SizesAssumption
  <2> QED
      BY <2>8, <2>9
<1> QED
    BY Inductive, JudgedInvariance, <1>1, PTL DEF Spec, NoLeap
==============================================================================
