-------------------------- MODULE ReportNodeProofs --------------------------
(****************************************************************************)
(* Proofs about the signer of ReportNode, for any number of signers, set of *)
(* reports that arrive, buffer size and thresholds.  What a goroutine knows *)
(* of the signers is followed from the slots it reads: a number in a slot   *)
(* was put there by a goroutine that consumed the report (Seen), so the     *)
(* same is true of the signers another goroutine finds (Knows); and of the  *)
(* goroutines of a number whose reports have all reached one buffer, the    *)
(* one that came last is left to publish (Shares).  A final report on its   *)
(* way to Consume is near the latest report that judged it, and the latest  *)
(* has only grown since (Timely).                                           *)
(****************************************************************************)
EXTENDS ReportNode, FiniteSetTheorems, WellFoundedInduction, TLAPS

Published(k) == \E f \in finals : f[1] = k

\* A number in a slot of another signer: its report was consumed.
Seen == \A b \in Reports, s \in Signers, k \in Seqs :
            Has(buffers[b][s], k) => s = Self \/ Consumed(<<s, k>>)

\* A goroutine knows signers between Lookup and its end; their reports were
\* consumed, and the slots it found them in have not gone back.
Knows == \A r \in Reports, s \in Signers : s \in signers[r] =>
            /\ pc[r] \in {"looking", "sign", "broadcast", "collect"}
            /\ s = Self \/ Consumed(<<s, r[2]>>)
            /\ buffers[buf[r]][s][Slot(r[2])] >= r[2]

\* A goroutine that signs has found the leader and not this node.
Signing == \A r \in Reports : pc[r] \in {"sign", "broadcast"} =>
              IsProcessable(r[2], signers[r])

\* A goroutine that broadcasts has put the node's own report in its buffer.
Owns == \A r \in Reports : pc[r] = "broadcast" => buffers[buf[r]][Self][Slot(r[2])] >= r[2]

\* Forged reports have no goroutine.
Genuine == \A r \in Reports : pc[r] # "none" => r \notin Forged

\* The signers whose reports have to reach the buffer by a goroutine: the
\* node's own does when the node leads.
Sharers(k) == IF Leader(k) = Self THEN Signers ELSE Signers \ {Self}

\* The reports of the sharers are in the buffer, and the slot of this node's
\* own can still hold its report.
Gathered(b, k) == /\ \A s \in Sharers(k) : Has(buffers[b][s], k)
                  /\ buffers[b][Self][Slot(k)] <= k

\* The goroutine looks, or has looked, when the reports were there; or failed.
Finishes(r, b) ==
    /\ buf[r] = b
    /\ \/ pc[r] \in {"lookup", "failed"}
       \/ pc[r] \in {"looking", "sign", "broadcast"} /\ Sharers(r[2]) \subseteq signers[r]
       \/ pc[r] = "collect" /\ signers[r] = Signers

Shares == \A b \in Reports, k \in Seqs :
              N >= 4 /\ Gathered(b, k) =>
                  Published(k) \/ \E s \in Sharers(k) : Finishes(<<s, k>>, b)

\* A final report that was judged by a latest one is near it, and the latest has
\* not fallen back since.
Near(e) == e[2] # None => e[2] <= Latest(reports) /\ SeqDiff(e[1], e[2]) <= SkipThreshold
Timely  == (verifier # None => Near(verifier)) /\ \A e \in inbox : Near(e)

IndInv == /\ TypeOK /\ Seen /\ Knows /\ Signing /\ Owns /\ Genuine
          /\ LeaderStarts /\ FinalsBacked /\ Shares /\ Timely

(****************************************************************************)
(* The slots.                                                               *)
(****************************************************************************)
\* Every number has its slot, and every buffer starts empty.
LEMMA SlotType == /\ \A k \in Nat : Slot(k) \in Slots
                  /\ Empty \in SlotValues
                  /\ \A slots \in SlotValues : slots \in [Slots -> Nat]
                  /\ \A r \in Reports : r[1] \in Signers /\ r[2] \in Seqs /\ r = <<r[1], r[2]>>
<1>1. \A k \in Nat : Slot(k) \in Slots
    BY BufferAssumption DEF Slot, Slots
<1>2. Empty \in SlotValues
    BY DEF Empty, SlotValues
<1>3. ASSUME NEW slots \in SlotValues PROVE slots \in [Slots -> Nat]
  <2>1. slots \in [Slots -> Seqs \cup {0}] /\ Seqs \cup {0} \subseteq Nat
      BY BufferAssumption DEF SlotValues
  <2> QED
      BY <2>1
<1>4. \A r \in Reports : r[1] \in Signers /\ r[2] \in Seqs /\ r = <<r[1], r[2]>>
    BY DEF Reports
<1> QED
    BY <1>1, <1>2, <1>3, <1>4

\* ReportBuffer.Add: what the slots hold after it, compared with before.
LEMMA AddToFacts ==
    ASSUME NEW slots \in SlotValues, NEW k \in Seqs
    PROVE  /\ AddTo(slots, k) \in SlotValues
           /\ \A i \in Slots : AddTo(slots, k)[i] >= slots[i]
           /\ AddTo(slots, k)[Slot(k)] >= k
           /\ Newer(slots, k) => Has(AddTo(slots, k), k)
           /\ \A j \in Seqs : Has(AddTo(slots, k), j) => Has(slots, j) \/ (j = k /\ Newer(slots, k))
<1>1. k \in Nat /\ Slot(k) \in Slots /\ slots \in [Slots -> Nat] /\ k # 0
    BY SlotType, BufferAssumption DEF SlotValues
<1>2. \A j \in Seqs : Slot(j) \in Slots
    BY SlotType, BufferAssumption
<1>3. CASE Newer(slots, k)
  <2>1. AddTo(slots, k) = [slots EXCEPT ![Slot(k)] = k]
      BY <1>3 DEF AddTo
  <2>2. /\ AddTo(slots, k) \in [Slots -> Seqs \cup {0}]
        /\ AddTo(slots, k)[Slot(k)] = k
        /\ \A i \in Slots : i # Slot(k) => AddTo(slots, k)[i] = slots[i]
      BY <1>1, <2>1 DEF SlotValues
  <2>3. AddTo(slots, k) \in SlotValues
      BY <1>1, <2>2 DEF SlotValues
  <2>4. slots[Slot(k)] < k
      BY <1>3 DEF Newer
  <2>5. \A i \in Slots : AddTo(slots, k)[i] >= slots[i]
      BY <1>1, <2>2, <2>4
  <2>6. ASSUME NEW j \in Seqs, Has(AddTo(slots, k), j) PROVE Has(slots, j) \/ j = k
      BY <1>2, <2>2, <2>6 DEF Has
  <2> QED
      BY <1>1, <1>3, <2>2, <2>3, <2>5, <2>6 DEF Has
<1>4. CASE ~Newer(slots, k)
  <2>1. AddTo(slots, k) = slots /\ slots[Slot(k)] >= k
      BY <1>1, <1>4 DEF AddTo, Newer
  <2> QED
      BY <1>1, <1>4, <2>1
<1> QED
    BY <1>3, <1>4

\* getLatest: one of the slots holds the greatest number.
LEMMA LatestFacts ==
    ASSUME NEW slots \in SlotValues
    PROVE  \E i \in Slots : Latest(slots) = slots[i] /\ \A j \in Slots : slots[j] <= slots[i]
<1> DEFINE Above(i) == {j \in Slots : slots[j] > slots[i]}
           family == {Above(i) : i \in Slots}
<1>1. slots \in [Slots -> Nat] /\ 0 \in Slots
  <2>1. slots \in [Slots -> Nat]
      BY SlotType
  <2>2. 0 \in Slots
      BY BufferAssumption DEF Slots
  <2> QED
      BY <2>1, <2>2
<1>2. IsFiniteSet(Slots)
    BY BufferAssumption, FS_Interval DEF Slots
<1>3. family \subseteq FiniteSubsetsOf(Slots) /\ family # {}
  <2>1. family \subseteq SUBSET Slots /\ Above(0) \in family
      BY <1>1
  <2> QED
      BY <1>2, <2>1, FS_FiniteSubsetsOfFinite
<1>4. PICK U \in family : \A V \in family : <<V, U>> \notin StrictSubsetOrdering(Slots)
  <2>1. IsWellFoundedOn(StrictSubsetOrdering(Slots), FiniteSubsetsOf(Slots))
      BY FS_StrictSubsetOrderingWellFounded
  <2> HIDE DEF family
  <2> QED
      BY <1>3, <2>1, WFMin
<1>5. PICK i \in Slots : U = Above(i)
    OBVIOUS
<1>6. ASSUME NEW j \in Slots PROVE slots[j] <= slots[i]
  <2> SUFFICES ASSUME slots[j] > slots[i] PROVE FALSE
      BY <1>1
  <2>1. Above(j) \subseteq U /\ j \in U /\ j \notin Above(j)
      BY <1>1, <1>5
  <2>2. Above(j) \in family /\ Above(j) # U /\ U \subseteq Slots /\ Above(j) \subseteq Slots
      BY <1>5, <2>1
  <2>3. <<Above(j), U>> \in StrictSubsetOrdering(Slots)
    <3> HIDE DEF Above
    <3> QED
      BY <2>1, <2>2 DEF StrictSubsetOrdering
  <2> QED
      BY <1>4, <2>2, <2>3
<1>7. \E x \in {slots[j] : j \in Slots} : \A y \in {slots[j] : j \in Slots} : x >= y
    BY <1>1, <1>6
<1>8. /\ Latest(slots) \in {slots[j] : j \in Slots}
      /\ \A y \in {slots[j] : j \in Slots} : Latest(slots) >= y
    BY <1>7 DEF Latest, Max
<1>9. PICK m \in Slots : Latest(slots) = slots[m]
    BY <1>8
<1> QED
    BY <1>1, <1>8, <1>9

\* Unsigned differences: what is ahead is as far as it is, what is behind has
\* wrapped around.
LEMMA SeqDiffFacts ==
    ASSUME NEW a \in Nat, NEW b \in Nat, a < 2 ^ Width, b < 2 ^ Width, 2 ^ Width \in Nat
    PROVE  SeqDiff(a, b) = IF a >= b THEN a - b ELSE a - b + 2 ^ Width
<1> DEFINE M == 2 ^ Width
<1>1. M \in Nat \ {0} /\ a < M /\ b < M
    OBVIOUS
<1> HIDE DEF M
<1>2. CASE a >= b
  <2>1. (a - b) % M = a - b
      BY <1>1, <1>2
  <2> QED
      BY <1>2, <2>1 DEF SeqDiff, M
<1>3. CASE a < b
  <2>1. (a - b) % M = a - b + M
      BY <1>1, <1>3
  <2> QED
      BY <1>3, <2>1 DEF SeqDiff, M
<1> QED
    BY <1>2, <1>3

(****************************************************************************)
(* Types.                                                                   *)
(****************************************************************************)
\* What handles final reports leaves the partial ones alone.
FinalStep == \/ ValidateEnds \/ \E k \in Seqs : ValidateFinal(k)
             \/ \E e \in inbox : Consume(e)

LEMMA FinalFrame ==
    FinalStep => UNCHANGED <<pc, buf, signers, current, buffers, triggered, signed, finals, world>>
    BY DEF FinalStep, ValidateFinal, ValidateEnds, Consume, bufferVars

\* getLatest finds a report, unless there is none.
LEMMA GetLatestFacts ==
    ASSUME NEW slots \in SlotValues
    PROVE  /\ Latest(slots) \in Nat
           /\ GetLatest(slots) # None => GetLatest(slots) = Latest(slots) /\ Latest(slots) \in Seqs
<1>1. slots \in [Slots -> Nat] /\ slots \in [Slots -> Seqs \cup {0}]
    BY SlotType DEF SlotValues
<1>2. PICK i \in Slots : Latest(slots) = slots[i] /\ \A j \in Slots : slots[j] <= slots[i]
    BY LatestFacts
<1>3. CASE slots[i] # 0
    BY <1>1, <1>2, <1>3 DEF GetLatest
<1>4. CASE slots[i] = 0
  <2>1. \A j \in Slots : slots[j] = 0
      BY <1>1, <1>2, <1>4
  <2>2. slots = Empty
      BY <1>1, <2>1 DEF Empty
  <2> QED
      BY <1>1, <1>2, <2>2 DEF GetLatest
<1> QED
    BY <1>3, <1>4

\* The final reports in the verifier and on their way to Consume.
LEMMA GateType ==
    TypeOK /\ [Next]_vars => world' \in Worlds /\ verifier' \in Judged \cup {None} /\ inbox' \subseteq Judged
<1> SUFFICES ASSUME TypeOK, [Next]_vars
             PROVE  world' \in Worlds /\ verifier' \in Judged \cup {None} /\ inbox' \subseteq Judged
    OBVIOUS
<1> USE DEF bufferVars, nodeVars, gateVars
<1>1. world \in Worlds /\ verifier \in Judged \cup {None} /\ inbox \subseteq Judged
    BY DEF TypeOK
<1>2. CASE UNCHANGED gateVars
    BY <1>1, <1>2
<1>3. ASSUME NEW k \in Seqs, ValidateFinal(k)
      PROVE  world' \in Worlds /\ verifier' \in Judged \cup {None} /\ inbox' \subseteq Judged
  <2>1. <<k, GetLatest(reports)>> \in Judged
      BY GetLatestFacts DEF TypeOK, Judged
  <2> QED
      BY <1>1, <1>3, <2>1 DEF ValidateFinal
<1>4. CASE ValidateEnds
    BY <1>1, <1>4 DEF ValidateEnds
<1>5. ASSUME NEW e \in inbox, Consume(e)
      PROVE  world' \in Worlds /\ verifier' \in Judged \cup {None} /\ inbox' \subseteq Judged
    BY <1>1, <1>5 DEF Consume
<1>6. ASSUME NEW r \in Reports, Collect(r)
      PROVE  world' \in Worlds /\ verifier' \in Judged \cup {None} /\ inbox' \subseteq Judged
  <2>1. <<r[2], None>> \in Judged
      BY SlotType DEF Judged
  <2> QED
      BY <1>1, <1>6, <2>1 DEF Collect, Publish
<1> QED
    BY <1>2, <1>3, <1>4, <1>5, <1>6
    DEF Next, vars, TriggerReport, Arrive, ConsumeStep, CreateBuffer, AddReport,
        LookupBegins, LookupEnds, Sign, Broadcast

\* Every way a goroutine leaves "looking" or "broadcast".
LEMMA CountSignersGoesOn ==
    ASSUME NEW r \in Reports, NEW ids, CountSigners(r, ids)
    PROVE  \/ /\ Cardinality(ids) >= QuorumCount
              /\ pc' = [pc EXCEPT ![r] = "collect"] /\ signers' = [signers EXCEPT ![r] = ids]
           \/ /\ ~(Cardinality(ids) >= QuorumCount)
              /\ pc' = [pc EXCEPT ![r] = "done"] /\ signers' = [signers EXCEPT ![r] = {}]
    BY DEF CountSigners, Ends

\* LookupEnds, with the signers it found named.
LEMMA LookupEndsFinds ==
    ASSUME TypeOK, NEW r \in Reports, LookupEnds(r)
    PROVE  \E ids \in SUBSET Signers :
              /\ ids \subseteq signers[r] \cup Present(buf[r], r[2])
              /\ signers[r] \cap Present(buf[r], r[2]) \subseteq ids
              /\ \/ /\ IsProcessable(r[2], ids)
                    /\ signers' = [signers EXCEPT ![r] = ids]
                    /\ pc' = [pc EXCEPT ![r] = "sign"]
                 \/ ~IsProcessable(r[2], ids) /\ CountSigners(r, ids)
<1> DEFINE now == Present(buf[r], r[2])
<1>1. PICK missed \in SUBSET ((signers[r] \ now) \cup (now \ signers[r])) :
          LET ids == (signers[r] \cup now) \ missed
          IN  IF IsProcessable(r[2], ids)
              THEN /\ signers' = [signers EXCEPT ![r] = ids]
                   /\ pc' = [pc EXCEPT ![r] = "sign"]
              ELSE CountSigners(r, ids)
    BY DEF LookupEnds
<1> DEFINE ids == (signers[r] \cup now) \ missed
<1>2. ids \in SUBSET Signers
    BY DEF Present, TypeOK
<1>3. ids \subseteq signers[r] \cup now /\ signers[r] \cap now \subseteq ids
    OBVIOUS
<1>4. \/ /\ IsProcessable(r[2], ids)
         /\ signers' = [signers EXCEPT ![r] = ids]
         /\ pc' = [pc EXCEPT ![r] = "sign"]
      \/ ~IsProcessable(r[2], ids) /\ CountSigners(r, ids)
    BY <1>1
<1> HIDE DEF ids
<1> QED
    BY <1>2, <1>3, <1>4

LEMMA InitType == Init => TypeOK
<1> SUFFICES ASSUME Init PROVE TypeOK
    OBVIOUS
<1> USE DEF Init
<1>1. buffers \in [Reports -> [Signers -> SlotValues]] /\ reports \in SlotValues
    BY SlotType
<1>2. pc \in [Reports -> PCs] /\ \A r \in Reports : pc[r] = "none"
    BY DEF PCs
<1>3. buf \in [Reports -> Reports \cup {None}] /\ signers \in [Reports -> SUBSET Signers]
    OBVIOUS
<1>4. signed \in [Seqs -> Nat] /\ current \in Reports \cup {None}
    OBVIOUS
<1>5. triggered \subseteq Seqs /\ finals \subseteq Seqs \X SUBSET Reports
    OBVIOUS
<1>6. world \in Worlds /\ verifier \in Judged \cup {None} /\ inbox \subseteq Judged
    OBVIOUS
<1> QED
    BY <1>1, <1>2, <1>3, <1>4, <1>5, <1>6 DEF TypeOK

LEMMA NextType == TypeOK /\ [Next]_vars => TypeOK'
<1> SUFFICES ASSUME TypeOK, [Next]_vars PROVE TypeOK'
    OBVIOUS
<1> USE DEF TypeOK, bufferVars, nodeVars, gateVars
<1>0. world' \in Worlds /\ verifier' \in Judged \cup {None} /\ inbox' \subseteq Judged
    BY GateType
<1>1. CASE UNCHANGED vars
    BY <1>1 DEF vars
<1>2. ASSUME NEW k \in Seqs, TriggerReport(k) PROVE TypeOK'
  <2>1. reports' \in SlotValues
      BY <1>2, AddToFacts DEF TriggerReport
  <2>2. signed' \in [Seqs -> Nat]
      BY <1>2 DEF TriggerReport
  <2> QED
      BY <1>0, <1>2, <2>1, <2>2 DEF TriggerReport
<1>3. CASE FinalStep
  <2>1. ASSUME NEW e \in inbox, Consume(e) PROVE reports' \in SlotValues
      BY <2>1, AddToFacts DEF Consume, Judged
  <2>2. reports' \in SlotValues
      BY <1>3, <2>1 DEF FinalStep, ValidateFinal, ValidateEnds
  <2> QED
      BY <1>0, <1>3, <2>2, FinalFrame
<1>4. ASSUME NEW r \in Reports, Arrive(r) PROVE TypeOK'
    BY <1>0, <1>4 DEF Arrive, StoreGet, PCs
<1>5. ASSUME NEW r \in Reports, CreateBuffer(r) PROVE TypeOK'
    BY <1>0, <1>5, NoneAssumption DEF CreateBuffer, StoreAdd, PCs
<1>6. ASSUME NEW r \in Reports, AddReport(r) PROVE TypeOK'
  <2>1. buf[r] \in Reports /\ r[1] \in Signers /\ r[2] \in Seqs
      BY <1>6, SlotType DEF AddReport
  <2>2. AddTo(buffers[buf[r]][r[1]], r[2]) \in SlotValues
      BY <2>1, AddToFacts
  <2>3. buffers' \in [Reports -> [Signers -> SlotValues]]
      BY <1>6, <2>1, <2>2 DEF AddReport
  <2> QED
      BY <1>0, <1>6, <2>3 DEF AddReport, PCs
<1>7. ASSUME NEW r \in Reports, NEW ids \in SUBSET Signers, CountSigners(r, ids),
             pc[r] \notin {"none", "create"}
      PROVE  /\ pc' \in [Reports -> PCs] /\ signers' \in [Reports -> SUBSET Signers]
             /\ \A q \in Reports : pc'[q] \notin {"none", "create"} => buf[q] # None
  <2>1. \E known \in SUBSET Signers : signers' = [signers EXCEPT ![r] = known]
      BY <1>7, CountSignersGoesOn
  <2>2. signers' \in [Reports -> SUBSET Signers]
      BY <2>1
  <2>3. pc' = [pc EXCEPT ![r] = "collect"] \/ pc' = [pc EXCEPT ![r] = "done"]
      BY <1>7, CountSignersGoesOn
  <2> QED
      BY <1>7, <2>2, <2>3 DEF PCs
<1>8. ASSUME NEW r \in Reports, LookupBegins(r) PROVE TypeOK'
  <2>1. Present(buf[r], r[2]) \in SUBSET Signers
      BY DEF Present
  <2> QED
      BY <1>0, <1>8, <2>1 DEF LookupBegins, PCs
<1>9. ASSUME NEW r \in Reports, LookupEnds(r) PROVE TypeOK'
  <2>1. pc[r] = "looking"
      BY <1>9 DEF LookupEnds
  <2>2. PICK ids \in SUBSET Signers :
            \/ signers' = [signers EXCEPT ![r] = ids] /\ pc' = [pc EXCEPT ![r] = "sign"]
            \/ CountSigners(r, ids)
      BY <1>9, LookupEndsFinds
  <2>3. /\ pc' \in [Reports -> PCs] /\ signers' \in [Reports -> SUBSET Signers]
        /\ \A q \in Reports : pc'[q] \notin {"none", "create"} => buf[q] # None
    <3>1. CASE CountSigners(r, ids)
        BY <1>7, <2>1, <3>1
    <3>2. CASE signers' = [signers EXCEPT ![r] = ids] /\ pc' = [pc EXCEPT ![r] = "sign"]
        BY <2>1, <3>2 DEF PCs
    <3> QED
        BY <2>2, <3>1, <3>2
  <2> QED
      BY <1>0, <1>9, <2>3 DEF LookupEnds
<1>10. ASSUME NEW r \in Reports, Sign(r) PROVE TypeOK'
  <2>1. buf[r] \in Reports /\ Self \in Signers /\ r[2] \in Seqs
      BY <1>10, SlotType, SignersAssumption DEF Sign
  <2>2. AddTo(buffers[buf[r]][Self], r[2]) \in SlotValues
      BY <2>1, AddToFacts
  <2>3. buffers' \in [Reports -> [Signers -> SlotValues]]
      BY <1>10, <2>1, <2>2 DEF Sign
  <2> QED
      BY <1>0, <1>10, <2>3 DEF Sign, PCs
<1>11. ASSUME NEW r \in Reports, Broadcast(r) PROVE TypeOK'
  <2>1. signers[r] \cup {Self} \in SUBSET Signers /\ r[2] \in Seqs
      BY SlotType, SignersAssumption
  <2>2. signed' \in [Seqs -> Nat]
      BY <1>11, <2>1 DEF Broadcast
  <2>3. /\ pc' \in [Reports -> PCs] /\ signers' \in [Reports -> SUBSET Signers]
        /\ \A q \in Reports : pc'[q] \notin {"none", "create"} => buf[q] # None
    <3>1. CASE CountSigners(r, signers[r] \cup {Self})
        BY <1>7, <1>11, <2>1, <3>1 DEF Broadcast
    <3>2. CASE Ends(r, "failed")
        BY <1>11, <3>2 DEF Broadcast, Ends, PCs
    <3> QED
        BY <1>11, <3>1, <3>2 DEF Broadcast
  <2> QED
      BY <1>0, <1>11, <2>2, <2>3 DEF Broadcast
<1>12. ASSUME NEW r \in Reports, Collect(r) PROVE TypeOK'
  <2>1. Reconstructed(r) \in Seqs \X SUBSET Reports
      BY SlotType DEF Reconstructed, Signatures, Reports
  <2>2. finals' \subseteq Seqs \X SUBSET Reports
      BY <1>12, <2>1 DEF Collect, Publish
  <2>3. Ends(r, "done") \/ Ends(r, "failed")
      BY <1>12 DEF Collect
  <2> QED
      BY <1>0, <1>12, <2>2, <2>3 DEF Collect, Ends, PCs
<1> QED
    BY <1>1, <1>2, <1>3, <1>4, <1>5, <1>6, <1>8, <1>9, <1>10, <1>11, <1>12
    DEF Next, ConsumeStep, FinalStep

(****************************************************************************)
(* What every step keeps.                                                   *)
(****************************************************************************)
\* Adding k to the slots of signer s in buffer b.
Write(b, s, k) == buffers' = [buffers EXCEPT ![b][s] = AddTo(@, k)]

LEMMA WriteFacts ==
    ASSUME TypeOK, NEW b \in Reports, NEW s \in Signers, NEW k \in Seqs, Write(b, s, k)
    PROVE  /\ \A c \in Reports, t \in Signers, i \in Slots : buffers'[c][t][i] >= buffers[c][t][i]
           /\ buffers'[b][s][Slot(k)] >= k
           /\ \A c \in Reports, t \in Signers, j \in Seqs : Has(buffers'[c][t], j) =>
                 Has(buffers[c][t], j) \/ (c = b /\ t = s /\ j = k /\ Newer(buffers[b][s], k))
<1>1. buffers \in [Reports -> [Signers -> SlotValues]]
    BY DEF TypeOK
<1>2. buffers'[b][s] = AddTo(buffers[b][s], k)
    BY <1>1 DEF Write
<1>3. \A c \in Reports, t \in Signers : c # b \/ t # s => buffers'[c][t] = buffers[c][t]
    BY <1>1 DEF Write
<1>4. buffers[b][s] \in SlotValues
    BY <1>1
<1>5. /\ \A i \in Slots : buffers'[b][s][i] >= buffers[b][s][i]
      /\ buffers'[b][s][Slot(k)] >= k
      /\ \A j \in Seqs : Has(buffers'[b][s], j) =>
             Has(buffers[b][s], j) \/ (j = k /\ Newer(buffers[b][s], k))
    BY <1>2, <1>4, AddToFacts
<1>6. ASSUME NEW c \in Reports, NEW t \in Signers, NEW i \in Slots
      PROVE  buffers'[c][t][i] >= buffers[c][t][i]
  <2>1. buffers[c][t] \in [Slots -> Nat]
      BY <1>1, SlotType
  <2>2. CASE c = b /\ t = s
      BY <1>5, <2>2
  <2>3. CASE ~(c = b /\ t = s)
      BY <1>3, <2>1, <2>3
  <2> QED
      BY <2>2, <2>3
<1>7. ASSUME NEW c \in Reports, NEW t \in Signers, NEW j \in Seqs, Has(buffers'[c][t], j)
      PROVE  Has(buffers[c][t], j) \/ (c = b /\ t = s /\ j = k /\ Newer(buffers[b][s], k))
  <2>1. CASE c = b /\ t = s
      BY <1>5, <1>7, <2>1
  <2>2. CASE ~(c = b /\ t = s)
      BY <1>3, <1>7, <2>2
  <2> QED
      BY <2>1, <2>2
<1> QED
    BY <1>5, <1>6, <1>7

\* A slot never goes back, a goroutine goes on and keeps its buffer, and a
\* number that is new in a slot of another signer is that of a report which
\* was consumed by this step.
Kept == /\ \A b \in Reports, s \in Signers, i \in Slots : buffers'[b][s][i] >= buffers[b][s][i]
        /\ \A r \in Reports : pc[r] # "none" => pc'[r] # "none"
        /\ \A r \in Reports : Consumed(r) => Consumed(r)'
        /\ \A r \in Reports : pc[r] \notin {"none", "create"} => buf'[r] = buf[r]
        /\ \A b \in Reports, s \in Signers, k \in Seqs :
              Has(buffers'[b][s], k) => Has(buffers[b][s], k) \/ s = Self \/ Consumed(<<s, k>>)'

\* What leaves the buffers alone.
LEMMA SameBuffers ==
    ASSUME TypeOK, UNCHANGED buffers
    PROVE  /\ \A b \in Reports, s \in Signers, i \in Slots : buffers'[b][s][i] >= buffers[b][s][i]
           /\ \A b \in Reports, s \in Signers, k \in Seqs :
                 Has(buffers'[b][s], k) => Has(buffers[b][s], k)
<1>1. \A b \in Reports, s \in Signers : buffers[b][s] \in [Slots -> Nat]
    BY SlotType DEF TypeOK
<1> QED
    BY <1>1

\* The goroutine of r goes on.
LEMMA GoesOn ==
    ASSUME TypeOK, NEW r \in Reports, NEW to,
           pc' = [pc EXCEPT ![r] = to], to # "none",
           pc[r] \in {"none", "create", "add"} \/ to \notin {"create", "add"}
    PROVE  /\ \A q \in Reports : pc[q] # "none" => pc'[q] # "none"
           /\ \A q \in Reports : Consumed(q) => Consumed(q)'
    BY DEF TypeOK, Consumed

LEMMA NextKept == TypeOK /\ [Next]_vars => Kept
<1> SUFFICES ASSUME TypeOK, [Next]_vars PROVE Kept
    OBVIOUS
<1> USE DEF bufferVars, nodeVars, gateVars
<1>1. CASE UNCHANGED <<pc, buf, buffers>>
    BY <1>1, SameBuffers DEF Kept, Consumed
<1>2. ASSUME NEW r \in Reports, Arrive(r) PROVE Kept
  <2>1. pc' = [pc EXCEPT ![r] = "create"] \/ pc' = [pc EXCEPT ![r] = "add"]
      BY <1>2 DEF Arrive
  <2>2. pc[r] = "none" /\ UNCHANGED buffers /\ buf' = [buf EXCEPT ![r] = StoreGet]
      BY <1>2 DEF Arrive
  <2>3. \A q \in Reports : pc[q] \notin {"none", "create"} => buf'[q] = buf[q]
      BY <2>2 DEF TypeOK
  <2> QED
      BY <2>1, <2>2, <2>3, GoesOn, SameBuffers DEF Kept
<1>3. ASSUME NEW r \in Reports, CreateBuffer(r) PROVE Kept
  <2>1. /\ pc[r] = "create" /\ pc' = [pc EXCEPT ![r] = "add"]
        /\ UNCHANGED buffers /\ buf' = [buf EXCEPT ![r] = r]
      BY <1>3 DEF CreateBuffer
  <2>2. \A q \in Reports : pc[q] \notin {"none", "create"} => buf'[q] = buf[q]
      BY <2>1 DEF TypeOK
  <2> QED
      BY <2>1, <2>2, GoesOn, SameBuffers DEF Kept
<1>4. ASSUME NEW r \in Reports, AddReport(r) PROVE Kept
  <2>1. buf[r] \in Reports /\ r[1] \in Signers /\ r[2] \in Seqs /\ r = <<r[1], r[2]>>
      BY <1>4, SlotType DEF AddReport, TypeOK
  <2>2. pc' = [pc EXCEPT ![r] = "lookup"] \/ pc' = [pc EXCEPT ![r] = "done"]
      BY <1>4 DEF AddReport
  <2>3. pc[r] = "add" /\ UNCHANGED buf /\ Write(buf[r], r[1], r[2])
      BY <1>4 DEF AddReport, Write
  <2>4. Consumed(r)'
      BY <2>2 DEF Consumed, TypeOK
  <2>5. /\ \A q \in Reports : pc[q] # "none" => pc'[q] # "none"
        /\ \A q \in Reports : Consumed(q) => Consumed(q)'
      BY <2>2, <2>3, GoesOn
  <2>6. /\ \A c \in Reports, t \in Signers, i \in Slots : buffers'[c][t][i] >= buffers[c][t][i]
        /\ \A c \in Reports, t \in Signers, j \in Seqs : Has(buffers'[c][t], j) =>
                 Has(buffers[c][t], j) \/ (t = r[1] /\ j = r[2])
      BY <2>1, <2>3, WriteFacts
  <2> QED
      BY <2>1, <2>3, <2>4, <2>5, <2>6 DEF Kept
<1>5. ASSUME NEW r \in Reports, Sign(r) PROVE Kept
  <2>1. buf[r] \in Reports /\ Self \in Signers /\ r[2] \in Seqs
      BY <1>5, SlotType, SignersAssumption DEF Sign, TypeOK
  <2>2. /\ pc[r] = "sign" /\ UNCHANGED buf /\ pc' = [pc EXCEPT ![r] = "broadcast"]
        /\ Write(buf[r], Self, r[2])
      BY <1>5 DEF Sign, Write
  <2>3. /\ \A q \in Reports : pc[q] # "none" => pc'[q] # "none"
        /\ \A q \in Reports : Consumed(q) => Consumed(q)'
      BY <2>2, GoesOn
  <2>4. /\ \A c \in Reports, t \in Signers, i \in Slots : buffers'[c][t][i] >= buffers[c][t][i]
        /\ \A c \in Reports, t \in Signers, j \in Seqs : Has(buffers'[c][t], j) =>
                 Has(buffers[c][t], j) \/ t = Self
      BY <2>1, <2>2, WriteFacts
  <2> QED
      BY <2>2, <2>3, <2>4 DEF Kept
<1>6. ASSUME NEW r \in Reports, NEW to \in {"looking", "sign", "collect", "done", "failed"},
             pc' = [pc EXCEPT ![r] = to], UNCHANGED <<buf, buffers>>
      PROVE  Kept
  <2>1. UNCHANGED buf /\ UNCHANGED buffers /\ to \notin {"none", "create", "add"}
      BY <1>6
  <2> QED
      BY <1>6, <2>1, GoesOn, SameBuffers DEF Kept
<1>7. ASSUME NEW r \in Reports, LookupBegins(r) \/ LookupEnds(r) \/ Broadcast(r) \/ Collect(r)
      PROVE  Kept
  <2>1. UNCHANGED <<buf, buffers>>
      BY <1>7 DEF LookupBegins, LookupEnds, Broadcast, Collect
  <2>2. \E to \in {"looking", "sign", "collect", "done", "failed"} : pc' = [pc EXCEPT ![r] = to]
    <3>1. CASE LookupBegins(r)
        BY <3>1 DEF LookupBegins
    <3>2. CASE LookupEnds(r)
        BY <3>2, LookupEndsFinds, CountSignersGoesOn
    <3>3. CASE Broadcast(r)
        BY <3>3, CountSignersGoesOn DEF Broadcast, Ends
    <3>4. CASE Collect(r)
        BY <3>4 DEF Collect, Ends
    <3> QED
        BY <1>7, <3>1, <3>2, <3>3, <3>4
  <2> QED
      BY <1>6, <2>1, <2>2
<1>8. ASSUME NEW k \in Seqs, TriggerReport(k) PROVE Kept
    BY <1>1, <1>8 DEF TriggerReport
<1>9. CASE FinalStep
    BY <1>1, <1>9, FinalFrame
<1> QED
    BY <1>1, <1>2, <1>3, <1>4, <1>5, <1>7, <1>8, <1>9 DEF Next, ConsumeStep, vars, FinalStep

\* A goroutine that does not move keeps what it knows.
LEMMA Moves ==
    ASSUME TypeOK, [Next]_vars, NEW q \in Reports
    PROVE  \/ pc'[q] = pc[q] /\ signers'[q] = signers[q]
           \/ Arrive(q) \/ ConsumeStep(q)
<1> USE DEF bufferVars, nodeVars, gateVars
<1>1. CASE UNCHANGED <<pc, signers>>
    BY <1>1
<1>2. ASSUME NEW r \in Reports, Arrive(r) \/ ConsumeStep(r), r # q
      PROVE  pc'[q] = pc[q] /\ signers'[q] = signers[q]
  <2>1. pc \in [Reports -> PCs] /\ signers \in [Reports -> SUBSET Signers]
      BY DEF TypeOK
  <2>2. CASE Arrive(r) \/ CreateBuffer(r) \/ AddReport(r) \/ Sign(r) \/ LookupBegins(r)
      BY <1>2, <2>1, <2>2 DEF Arrive, CreateBuffer, AddReport, Sign, LookupBegins
  <2>3. CASE LookupEnds(r)
      BY <1>2, <2>1, <2>3, LookupEndsFinds, CountSignersGoesOn
  <2>4. CASE Broadcast(r)
      BY <1>2, <2>1, <2>4, CountSignersGoesOn DEF Broadcast, Ends
  <2>5. CASE Collect(r)
      BY <1>2, <2>1, <2>5 DEF Collect, Ends
  <2> QED
      BY <1>2, <2>2, <2>3, <2>4, <2>5 DEF ConsumeStep
<1>3. ASSUME NEW k \in Seqs, TriggerReport(k) PROVE UNCHANGED <<pc, signers>>
    BY <1>3 DEF TriggerReport
<1> QED
    BY <1>1, <1>2, <1>3, FinalFrame DEF Next, vars, FinalStep

(****************************************************************************)
(* What the goroutines know.                                                *)
(****************************************************************************)
LEMMA NextSeen == Seen /\ Kept => Seen'
<1> SUFFICES ASSUME Seen, Kept, NEW b \in Reports, NEW s \in Signers, NEW k \in Seqs,
                    Has(buffers'[b][s], k)
             PROVE  s = Self \/ Consumed(<<s, k>>)'
    BY DEF Seen, Has
<1>1. <<s, k>> \in Reports
    BY DEF Reports
<1>2. Has(buffers[b][s], k) \/ s = Self \/ Consumed(<<s, k>>)'
    BY DEF Kept
<1>3. Has(buffers[b][s], k) => s = Self \/ Consumed(<<s, k>>)
    BY DEF Seen
<1> QED
    BY <1>1, <1>2, <1>3 DEF Kept

\* Where a signer a goroutine knows after a step comes from.
LEMMA KnownFrom ==
    ASSUME TypeOK, [Next]_vars, Knows, NEW r \in Reports, NEW s \in signers'[r]
    PROVE  /\ pc'[r] \in {"looking", "sign", "broadcast", "collect"}
           /\ \/ s \in signers[r]
              \/ s \in Present(buf[r], r[2]) /\ pc[r] \in {"lookup", "looking"}
              \/ s = Self /\ pc[r] = "broadcast"
<1> USE DEF bufferVars, nodeVars, gateVars
<1>1. pc \in [Reports -> PCs] /\ signers \in [Reports -> SUBSET Signers]
    BY DEF TypeOK
<1>2. s \in signers[r] => pc[r] \in {"looking", "sign", "broadcast", "collect"}
    BY <1>1 DEF Knows
<1>3. CASE pc'[r] = pc[r] /\ signers'[r] = signers[r]
    BY <1>2, <1>3
<1>4. CASE Arrive(r) \/ CreateBuffer(r) \/ AddReport(r)
    BY <1>2, <1>4 DEF Arrive, CreateBuffer, AddReport
<1>5. CASE Sign(r)
    BY <1>1, <1>2, <1>5 DEF Sign
<1>6. CASE LookupBegins(r)
    BY <1>1, <1>6 DEF LookupBegins
<1>7. CASE LookupEnds(r)
  <2>1. PICK ids \in SUBSET Signers :
            /\ ids \subseteq signers[r] \cup Present(buf[r], r[2])
            /\ \/ signers' = [signers EXCEPT ![r] = ids] /\ pc' = [pc EXCEPT ![r] = "sign"]
               \/ CountSigners(r, ids)
      BY <1>7, LookupEndsFinds
  <2>2. \/ signers'[r] = ids /\ pc'[r] \in {"sign", "collect"}
        \/ signers'[r] = {}
      BY <1>1, <2>1, CountSignersGoesOn
  <2> QED
      BY <1>7, <2>1, <2>2 DEF LookupEnds
<1>8. CASE Broadcast(r)
  <2>1. \/ signers'[r] = signers[r] \cup {Self} /\ pc'[r] = "collect"
        \/ signers'[r] = {}
      BY <1>1, <1>8, CountSignersGoesOn DEF Broadcast, Ends
  <2> QED
      BY <1>8, <2>1 DEF Broadcast
<1>9. CASE Collect(r)
    BY <1>1, <1>9 DEF Collect, Ends
<1> QED
    BY <1>3, <1>4, <1>5, <1>6, <1>7, <1>8, <1>9, Moves DEF ConsumeStep

LEMMA NextKnows == TypeOK /\ Seen /\ Knows /\ Owns /\ Kept /\ [Next]_vars => Knows'
<1> SUFFICES ASSUME TypeOK, Seen, Knows, Owns, Kept, [Next]_vars,
                    NEW r \in Reports, NEW s \in Signers, s \in signers'[r]
             PROVE  /\ pc'[r] \in {"looking", "sign", "broadcast", "collect"}
                    /\ s = Self \/ Consumed(<<s, r[2]>>)'
                    /\ buffers'[buf'[r]][s][Slot(r[2])] >= r[2]
    BY DEF Knows
<1>1. r[2] \in Seqs /\ r[2] \in Nat /\ Slot(r[2]) \in Slots /\ <<s, r[2]>> \in Reports
    BY SlotType, BufferAssumption DEF Reports
<1>2. /\ pc'[r] \in {"looking", "sign", "broadcast", "collect"}
      /\ \/ s \in signers[r]
         \/ s \in Present(buf[r], r[2]) /\ pc[r] \in {"lookup", "looking"}
         \/ s = Self /\ pc[r] = "broadcast"
    BY KnownFrom
<1>3. pc[r] \notin {"none", "create"}
    BY <1>2 DEF Knows
<1>4. buf[r] \in Reports /\ buf'[r] = buf[r]
    BY <1>3 DEF TypeOK, Kept
<1>5. s = Self \/ Consumed(<<s, r[2]>>)
  <2>1. CASE s \in signers[r]
      BY <2>1 DEF Knows
  <2>2. CASE s \in Present(buf[r], r[2])
      BY <1>1, <1>4, <2>2 DEF Present, Seen
  <2> QED
      BY <1>2, <2>1, <2>2
<1>6. buffers[buf[r]][s][Slot(r[2])] >= r[2]
  <2>1. CASE s \in signers[r]
      BY <2>1 DEF Knows
  <2>2. CASE s \in Present(buf[r], r[2])
      BY <1>1, <2>2 DEF Present, Has
  <2>3. CASE s = Self /\ pc[r] = "broadcast"
      BY <2>3 DEF Owns
  <2> QED
      BY <1>2, <2>1, <2>2, <2>3
<1>7. buffers[buf[r]][s][Slot(r[2])] \in Nat /\ buffers'[buf[r]][s][Slot(r[2])] \in Nat
  <2>1. TypeOK'
      BY NextType
  <2> QED
      BY <1>1, <1>4, <2>1, SlotType DEF TypeOK
<1>8. buffers'[buf[r]][s][Slot(r[2])] >= buffers[buf[r]][s][Slot(r[2])]
    BY <1>1, <1>4 DEF Kept
<1> QED
    BY <1>1, <1>2, <1>4, <1>5, <1>6, <1>7, <1>8 DEF Kept

LEMMA NextSigning == TypeOK /\ Signing /\ [Next]_vars => Signing'
<1> SUFFICES ASSUME TypeOK, Signing, [Next]_vars,
                    NEW r \in Reports, pc'[r] \in {"sign", "broadcast"}
             PROVE  IsProcessable(r[2], signers'[r])
    BY DEF Signing, IsProcessable
<1> USE DEF bufferVars, nodeVars, gateVars
<1>1. pc \in [Reports -> PCs] /\ signers \in [Reports -> SUBSET Signers]
    BY DEF TypeOK
<1>2. CASE pc'[r] = pc[r] /\ signers'[r] = signers[r]
    BY <1>2 DEF Signing
<1>3. CASE Arrive(r) \/ CreateBuffer(r) \/ AddReport(r) \/ LookupBegins(r)
    BY <1>1, <1>3 DEF Arrive, CreateBuffer, AddReport, LookupBegins
<1>4. CASE Sign(r)
    BY <1>1, <1>4 DEF Sign, Signing
<1>5. CASE LookupEnds(r)
    BY <1>1, <1>5, LookupEndsFinds, CountSignersGoesOn
<1>6. CASE Broadcast(r)
    BY <1>1, <1>6, CountSignersGoesOn DEF Broadcast, Ends
<1>7. CASE Collect(r)
    BY <1>1, <1>7 DEF Collect, Ends
<1> QED
    BY <1>2, <1>3, <1>4, <1>5, <1>6, <1>7, Moves DEF ConsumeStep

LEMMA NextOwns == TypeOK /\ Owns /\ Kept /\ [Next]_vars => Owns'
<1> SUFFICES ASSUME TypeOK, Owns, Kept, [Next]_vars, NEW r \in Reports, pc'[r] = "broadcast"
             PROVE  buffers'[buf'[r]][Self][Slot(r[2])] >= r[2]
    BY DEF Owns
<1> USE DEF bufferVars, nodeVars, gateVars
<1>1. pc \in [Reports -> PCs] /\ signers \in [Reports -> SUBSET Signers]
    BY DEF TypeOK
<1>2. r[2] \in Seqs /\ r[2] \in Nat /\ Slot(r[2]) \in Slots /\ Self \in Signers
    BY SlotType, BufferAssumption, SignersAssumption
<1>3. CASE pc[r] = "broadcast"
  <2>1. buf[r] \in Reports /\ buf'[r] = buf[r]
      BY <1>3 DEF TypeOK, Kept
  <2>2. /\ buffers[buf[r]][Self][Slot(r[2])] \in Nat
        /\ buffers'[buf[r]][Self][Slot(r[2])] \in Nat
    <3>1. TypeOK'
        BY NextType
    <3> QED
        BY <1>2, <2>1, <3>1, SlotType DEF TypeOK
  <2>3. /\ buffers[buf[r]][Self][Slot(r[2])] >= r[2]
        /\ buffers'[buf[r]][Self][Slot(r[2])] >= buffers[buf[r]][Self][Slot(r[2])]
      BY <1>2, <1>3, <2>1 DEF Owns, Kept
  <2> QED
      BY <1>2, <2>1, <2>2, <2>3
<1>4. CASE Sign(r)
  <2>1. buf[r] \in Reports /\ UNCHANGED buf /\ Write(buf[r], Self, r[2])
      BY <1>4 DEF Sign, Write, TypeOK
  <2>2. buffers'[buf[r]][Self][Slot(r[2])] >= r[2]
      BY <1>2, <2>1, WriteFacts
  <2> QED
      BY <2>1, <2>2
<1>5. CASE Arrive(r) \/ CreateBuffer(r) \/ AddReport(r) \/ LookupBegins(r)
    BY <1>1, <1>5 DEF Arrive, CreateBuffer, AddReport, LookupBegins
<1>6. CASE LookupEnds(r)
    BY <1>1, <1>6, LookupEndsFinds, CountSignersGoesOn
<1>7. CASE Broadcast(r) \/ Collect(r)
    BY <1>3, <1>1, <1>7 DEF Broadcast, Collect, Ends
<1> QED
    BY <1>3, <1>4, <1>5, <1>6, <1>7, Moves DEF ConsumeStep

LEMMA NextGenuine == TypeOK /\ Genuine /\ [Next]_vars => Genuine'
<1> SUFFICES ASSUME TypeOK, Genuine, [Next]_vars, NEW r \in Reports, pc'[r] # "none"
             PROVE  r \notin Forged
    BY DEF Genuine
<1>1. CASE pc[r] # "none"
    BY <1>1 DEF Genuine
<1>2. CASE pc[r] = "none"
  <2>1. Arrive(r)
      BY <1>2, Moves DEF ConsumeStep, CreateBuffer, AddReport, LookupBegins, LookupEnds, Sign,
                         Broadcast, Collect
  <2>2. CASE r[1] = Self
      BY <2>2, WorldsAssumption
  <2>3. CASE ValidateInternalNet(r) = "ACCEPT"
      BY <2>3 DEF ValidateInternalNet, Validate
  <2> QED
      BY <2>1, <2>2, <2>3 DEF Arrive
<1> QED
    BY <1>1, <1>2

LEMMA NextLeaderStarts ==
    TypeOK /\ Knows /\ Signing /\ Kept /\ LeaderStarts /\ [Next]_vars => LeaderStarts'
<1> SUFFICES ASSUME TypeOK, Knows, Signing, Kept, LeaderStarts, [Next]_vars,
                    NEW k \in Seqs, signed'[k] > 0
             PROVE  (Leader(k) = Self /\ k \in triggered') \/ Consumed(<<Leader(k), k>>)'
    BY DEF LeaderStarts
<1> USE DEF bufferVars, nodeVars, gateVars
<1>1. Leader(k) \in Signers /\ <<Leader(k), k>> \in Reports
    BY SignersAssumption, BufferAssumption DEF Leader, Signers, Reports
<1>2. triggered \subseteq triggered'
    BY DEF Next, vars, TriggerReport, ValidateFinal, ValidateEnds, Consume, Arrive, ConsumeStep, CreateBuffer, AddReport,
           LookupBegins, LookupEnds, Sign, Broadcast, Collect
<1>3. CASE signed[k] > 0
    BY <1>1, <1>2, <1>3 DEF LeaderStarts, Kept
<1>4. CASE TriggerReport(k)
    BY <1>4 DEF TriggerReport
<1>5. ASSUME NEW r \in Reports, Broadcast(r), r[2] = k PROVE Consumed(<<Leader(k), k>>)'
  <2>1. IsProcessable(k, signers[r])
      BY <1>5 DEF Broadcast, Signing
  <2>2. Leader(k) \in signers[r] /\ Leader(k) # Self
      BY <2>1 DEF IsProcessable
  <2>3. Consumed(<<Leader(k), k>>)
      BY <1>1, <1>5, <2>2 DEF Knows
  <2> QED
      BY <1>1, <2>3 DEF Kept
<1>6. \/ signed'[k] = signed[k] \/ TriggerReport(k)
      \/ \E r \in Reports : Broadcast(r) /\ r[2] = k
  <2>1. signed \in [Seqs -> Nat]
      BY DEF TypeOK
  <2>2. CASE UNCHANGED signed
      BY <2>2
  <2>3. ASSUME NEW j \in Seqs, TriggerReport(j), j # k PROVE signed'[k] = signed[k]
      BY <2>1, <2>3 DEF TriggerReport
  <2>4. ASSUME NEW r \in Reports, Broadcast(r), r[2] # k PROVE signed'[k] = signed[k]
    <3>1. r[2] \in Seqs
        BY SlotType
    <3> QED
        BY <2>1, <2>4, <3>1 DEF Broadcast
  <2>5. \/ UNCHANGED signed \/ \E j \in Seqs : TriggerReport(j)
        \/ \E r \in Reports : Broadcast(r)
      BY DEF Next, vars, ValidateFinal, ValidateEnds, Consume, Arrive, ConsumeStep, CreateBuffer, AddReport,
             LookupBegins, LookupEnds, Sign, Collect
  <2> QED
      BY <2>2, <2>3, <2>4, <2>5
<1> QED
    BY <1>3, <1>4, <1>5, <1>6

LEMMA SignersFinite == IsFiniteSet(Signers) /\ Cardinality(Signers) = N
    BY SignersAssumption, FS_Interval DEF Signers

\* The signatures of a goroutine are finitely many.
LEMMA SignaturesCount ==
    ASSUME TypeOK, NEW r \in Reports PROVE Cardinality(Signatures(r)) \in Nat
<1> DEFINE known == signers[r] \cap Present(buf[r], r[2])
           f == [s \in known |-> <<s, r[2]>>]
<1>1. IsFiniteSet(known)
  <2>1. known \subseteq Signers
      BY DEF TypeOK
  <2> QED
      BY <2>1, SignersFinite, FS_Subset
<1>2. f \in Surjection(known, Signatures(r))
    BY DEF Surjection, Signatures
<1> HIDE DEF f, known
<1>3. IsFiniteSet(Signatures(r))
    BY <1>1, <1>2, FS_Surjection
<1> QED
    BY <1>3, FS_CardinalityType

LEMMA NextFinalsBacked ==
    TypeOK /\ Knows /\ Genuine /\ Kept /\ FinalsBacked /\ [Next]_vars => FinalsBacked'
<1> SUFFICES ASSUME TypeOK, Knows, Genuine, Kept, FinalsBacked, [Next]_vars, NEW f \in finals'
             PROVE  /\ 3 * Cardinality(f[2]) > 2 * N
                    /\ \A sig \in f[2] : /\ sig[2] = f[1] /\ sig \notin Forged
                                         /\ sig[1] = Self \/ Consumed(sig)'
    BY DEF FinalsBacked
<1> USE DEF bufferVars, nodeVars, gateVars
<1>1. CASE f \in finals
  <2>1. f[2] \subseteq Reports
      BY <1>1 DEF TypeOK
  <2> QED
      BY <1>1, <2>1 DEF FinalsBacked, Kept
<1>2. ASSUME NEW r \in Reports, Collect(r), f \notin finals
      PROVE  /\ 3 * Cardinality(f[2]) > 2 * N
             /\ \A sig \in f[2] : /\ sig[2] = f[1] /\ sig \notin Forged
                                  /\ sig[1] = Self \/ Consumed(sig)'
  <2>1. f = Reconstructed(r) /\ Cardinality(Signatures(r)) > QuorumCount
      BY <1>2 DEF Collect, Publish
  <2>2. f[1] = r[2] /\ f[2] = Signatures(r)
      BY <2>1 DEF Reconstructed
  <2>3. 3 * Cardinality(f[2]) > 2 * N
    <3>1. Cardinality(Signatures(r)) \in Nat
        BY SignaturesCount
    <3> QED
        BY <2>1, <2>2, <3>1, SignersAssumption DEF QuorumCount, Threshold
  <2>4. ASSUME NEW sig \in f[2]
        PROVE  /\ sig[2] = f[1] /\ sig \notin Forged
               /\ sig[1] = Self \/ Consumed(sig)'
    <3>1. PICK s \in signers[r] : sig = <<s, r[2]>>
        BY <2>2 DEF Signatures
    <3>2. s \in Signers /\ sig \in Reports /\ sig[1] = s /\ sig[2] = f[1]
        BY <2>2, <3>1, SlotType DEF TypeOK, Reports
    <3>3. s = Self \/ Consumed(sig)
        BY <3>1, <3>2 DEF Knows
    <3>4. s = Self => sig \notin Forged
        BY <3>2, WorldsAssumption
    <3>5. Consumed(sig) => sig \notin Forged
        BY <3>2 DEF Consumed, Genuine
    <3> QED
        BY <3>2, <3>3, <3>4, <3>5 DEF Kept
  <2> QED
      BY <2>3, <2>4
<1>3. finals' = finals \/ \E r \in Reports : Collect(r)
    BY DEF Next, vars, TriggerReport, ValidateFinal, ValidateEnds, Consume, Arrive, ConsumeStep, CreateBuffer, AddReport,
           LookupBegins, LookupEnds, Sign, Broadcast
<1> QED
    BY <1>1, <1>2, <1>3

(****************************************************************************)
(* Publishing.                                                              *)
(****************************************************************************)
\* As many signatures as signers.
LEMMA SignaturesOfAll ==
    ASSUME NEW k PROVE Cardinality({<<s, k>> : s \in Signers}) = N
<1> DEFINE sigs == {<<s, k>> : s \in Signers}
           f == [s \in Signers |-> <<s, k>>]
<1>1. f \in Surjection(Signers, sigs)
    BY DEF Surjection
<1>2. f \in Injection(Signers, sigs)
    BY DEF Injection, IsInjective
<1> HIDE DEF f, sigs
<1>3. Cardinality(sigs) = Cardinality(Signers)
    BY <1>1, <1>2, SignersFinite, FS_Surjection
<1> QED
    BY <1>3, SignersFinite DEF sigs

\* All of at least four signers are more than the threshold.
LEMMA QuorumOfAll == N >= 4 => N > QuorumCount
    BY SignersAssumption DEF QuorumCount, Threshold

LEMMA LeaderShares ==
    ASSUME NEW k \in Seqs
    PROVE  /\ Leader(k) \in Sharers(k) /\ Sharers(k) \subseteq Signers
           /\ Signers \subseteq Sharers(k) \cup {Self}
           /\ Leader(k) = Self => Sharers(k) = Signers
<1>1. Leader(k) \in Signers
    BY SignersAssumption, BufferAssumption DEF Leader, Signers
<1> QED
    BY <1>1 DEF Sharers

\* A goroutine that has found the sharers and need not sign has found all.
LEMMA FoundAll ==
    ASSUME NEW k \in Seqs, NEW ids \in SUBSET Signers, Sharers(k) \subseteq ids,
           ~IsProcessable(k, ids) \/ Self \in ids, N >= 4
    PROVE  ids = Signers /\ Cardinality(ids) >= QuorumCount
<1>1. ids = Signers
    BY LeaderShares DEF IsProcessable
<1>2. N \in Nat /\ QuorumCount \in Int
    BY SignersAssumption DEF QuorumCount, Threshold
<1> QED
    BY <1>1, <1>2, SignersFinite, QuorumOfAll

\* The goroutine that is left to publish does, unless it fails.
LEMMA FinishesOrPublished ==
    ASSUME TypeOK, Knows, Kept, [Next]_vars, N >= 4, NEW b \in Reports, NEW r \in Reports,
           Gathered(b, r[2]), Finishes(r, b)
    PROVE  Finishes(r, b)' \/ Published(r[2])'
<1> USE DEF bufferVars, nodeVars, gateVars
<1>1. pc \in [Reports -> PCs] /\ signers \in [Reports -> SUBSET Signers]
    BY DEF TypeOK
<1>2. r[2] \in Seqs /\ r[2] \in Nat /\ Self \in Signers
    BY SlotType, BufferAssumption, SignersAssumption
<1>3. buf[r] = b /\ buf'[r] = b
    BY DEF Finishes, Kept
<1>4. Sharers(r[2]) \subseteq Present(b, r[2])
    BY <1>2, LeaderShares DEF Gathered, Present
<1>5. CASE pc'[r] = pc[r] /\ signers'[r] = signers[r]
    BY <1>3, <1>5 DEF Finishes
<1>6. CASE Arrive(r) \/ CreateBuffer(r) \/ AddReport(r)
    BY <1>6 DEF Finishes, Arrive, CreateBuffer, AddReport
<1>7. CASE LookupBegins(r)
    BY <1>1, <1>3, <1>4, <1>7 DEF Finishes, LookupBegins
<1>8. CASE LookupEnds(r)
  <2>1. pc[r] = "looking" /\ Sharers(r[2]) \subseteq signers[r]
      BY <1>8 DEF LookupEnds, Finishes
  <2>2. PICK ids \in SUBSET Signers :
            /\ signers[r] \cap Present(buf[r], r[2]) \subseteq ids
            /\ \/ /\ IsProcessable(r[2], ids)
                  /\ signers' = [signers EXCEPT ![r] = ids]
                  /\ pc' = [pc EXCEPT ![r] = "sign"]
               \/ ~IsProcessable(r[2], ids) /\ CountSigners(r, ids)
      BY <1>8, LookupEndsFinds
  <2>3. Sharers(r[2]) \subseteq ids
      BY <1>3, <1>4, <2>1, <2>2
  <2>4. CASE IsProcessable(r[2], ids)
      BY <1>1, <1>3, <2>2, <2>3, <2>4 DEF Finishes
  <2>5. CASE ~IsProcessable(r[2], ids)
    <3>1. ids = Signers /\ Cardinality(ids) >= QuorumCount
        BY <1>2, <2>3, <2>5, FoundAll
    <3>2. pc'[r] = "collect" /\ signers'[r] = Signers
        BY <1>1, <2>2, <2>5, <3>1, CountSignersGoesOn
    <3> QED
        BY <1>3, <3>2 DEF Finishes
  <2> QED
      BY <2>4, <2>5
<1>9. CASE Sign(r)
    BY <1>1, <1>3, <1>9 DEF Finishes, Sign
<1>10. CASE Broadcast(r)
  <2>1. pc[r] = "broadcast" /\ Sharers(r[2]) \subseteq signers[r] \cup {Self}
      BY <1>10 DEF Broadcast, Finishes
  <2>2. CASE Ends(r, "failed")
      BY <1>1, <1>3, <2>2 DEF Ends, Finishes
  <2>3. CASE CountSigners(r, signers[r] \cup {Self})
    <3>1. /\ signers[r] \cup {Self} = Signers
          /\ Cardinality(signers[r] \cup {Self}) >= QuorumCount
        BY <1>1, <1>2, <2>1, FoundAll
    <3>2. pc'[r] = "collect" /\ signers'[r] = Signers
        BY <1>1, <2>3, <3>1, CountSignersGoesOn
    <3> QED
        BY <1>3, <3>2 DEF Finishes
  <2> QED
      BY <1>10, <2>2, <2>3 DEF Broadcast
<1>11. CASE Collect(r)
  <2>1. pc[r] = "collect" /\ signers[r] = Signers
      BY <1>11 DEF Collect, Finishes
  <2>2. buffers[b][Self][Slot(r[2])] = r[2]
    <3>1. buffers[b][Self][Slot(r[2])] \in Nat
        BY <1>2, SlotType DEF TypeOK
    <3>2. buffers[b][Self][Slot(r[2])] >= r[2] /\ buffers[b][Self][Slot(r[2])] <= r[2]
        BY <1>2, <1>3, <2>1 DEF Knows, Gathered
    <3> QED
        BY <1>2, <3>1, <3>2
  <2>3. Present(buf[r], r[2]) = Signers
      BY <1>2, <1>3, <1>4, <2>2, LeaderShares DEF Present, Has
  <2>4. Cardinality(Signatures(r)) = N
    <3>1. Signatures(r) = {<<s, r[2]>> : s \in Signers}
        BY <2>1, <2>3 DEF Signatures
    <3> QED
        BY <3>1, SignaturesOfAll
  <2>5. ~(Cardinality(Signatures(r)) <= QuorumCount)
    <3>1. N \in Nat /\ QuorumCount \in Int
        BY SignersAssumption DEF QuorumCount, Threshold
    <3> QED
        BY <2>4, <3>1, QuorumOfAll
  <2>6. CASE finals' = finals \cup {Reconstructed(r)}
    <3>1. Reconstructed(r) \in finals' /\ Reconstructed(r)[1] = r[2]
        BY <2>6 DEF Reconstructed
    <3> QED
        BY <3>1 DEF Published
  <2>7. CASE Ends(r, "failed")
      BY <1>1, <1>3, <2>7 DEF Ends, Finishes
  <2> QED
      BY <1>11, <2>5, <2>6, <2>7 DEF Collect, Publish
<1> QED
    BY <1>5, <1>6, <1>7, <1>8, <1>9, <1>10, <1>11, Moves DEF ConsumeStep

\* What puts a number in a slot of a sharer is the goroutine of its report.
LEMMA NewInSlot ==
    ASSUME TypeOK, Signing, [Next]_vars, NEW b \in Reports, NEW k \in Seqs, NEW s \in Sharers(k),
           ~Has(buffers[b][s], k), Has(buffers'[b][s], k)
    PROVE  Finishes(<<s, k>>, b)'
<1> USE DEF bufferVars, nodeVars, gateVars
<1>1. s \in Signers
    BY LeaderShares
<1>2. ASSUME NEW r \in Reports, AddReport(r) PROVE Finishes(<<s, k>>, b)'
  <2>1. buf[r] \in Reports /\ r[1] \in Signers /\ r[2] \in Seqs /\ r = <<r[1], r[2]>>
      BY <1>2, SlotType DEF AddReport, TypeOK
  <2>2. Write(buf[r], r[1], r[2])
      BY <1>2 DEF AddReport, Write
  <2>3. b = buf[r] /\ s = r[1] /\ k = r[2] /\ Newer(buffers[buf[r]][r[1]], r[2])
      BY <1>1, <2>1, <2>2, WriteFacts
  <2>4. pc'[r] = "lookup" /\ buf'[r] = b
      BY <1>2, <2>3 DEF AddReport, TypeOK
  <2> QED
      BY <2>1, <2>3, <2>4 DEF Finishes
<1>3. ASSUME NEW r \in Reports, Sign(r) PROVE FALSE
  <2>1. buf[r] \in Reports /\ Self \in Signers /\ r[2] \in Seqs
      BY <1>3, SlotType, SignersAssumption DEF Sign, TypeOK
  <2>2. Write(buf[r], Self, r[2])
      BY <1>3 DEF Sign, Write
  <2>3. s = Self /\ k = r[2]
      BY <1>1, <2>1, <2>2, WriteFacts
  <2>4. Leader(k) # Self
      BY <1>3, <2>3 DEF Sign, Signing, IsProcessable
  <2> QED
      BY <2>3, <2>4 DEF Sharers
<1>4. \/ UNCHANGED buffers
      \/ \E r \in Reports : AddReport(r) \/ Sign(r)
    BY DEF Next, vars, TriggerReport, ValidateFinal, ValidateEnds, Consume, Arrive, ConsumeStep, CreateBuffer,
           LookupBegins, LookupEnds, Broadcast, Collect
<1> QED
    BY <1>2, <1>3, <1>4

LEMMA NextShares == TypeOK /\ Knows /\ Signing /\ Kept /\ Shares /\ [Next]_vars => Shares'
<1> SUFFICES ASSUME TypeOK, Knows, Signing, Kept, Shares, [Next]_vars,
                    NEW b \in Reports, NEW k \in Seqs, N >= 4, Gathered(b, k)'
             PROVE  Published(k)' \/ \E s \in Sharers(k) : Finishes(<<s, k>>, b)'
    BY DEF Shares
<1> USE DEF bufferVars, nodeVars, gateVars
<1>1. Slot(k) \in Slots /\ Self \in Signers /\ k \in Nat
    BY SlotType, SignersAssumption, BufferAssumption
<1>2. CASE Gathered(b, k)
  <2>1. CASE Published(k)
    <3>1. finals \subseteq finals'
        BY FinalFrame
        DEF Next, vars, FinalStep, TriggerReport, Arrive, ConsumeStep, CreateBuffer,
            AddReport, LookupBegins, LookupEnds, Sign, Broadcast, Collect, Publish
    <3> QED
        BY <2>1, <3>1 DEF Published
  <2>2. ASSUME NEW s \in Sharers(k), Finishes(<<s, k>>, b)
        PROVE  Published(k)' \/ Finishes(<<s, k>>, b)'
    <3>1. <<s, k>> \in Reports /\ <<s, k>>[2] = k
        BY LeaderShares DEF Reports
    <3> QED
        BY <1>2, <2>2, <3>1, FinishesOrPublished
  <2> QED
      BY <1>2, <2>1, <2>2 DEF Shares
<1>3. CASE ~Gathered(b, k)
  <2>1. buffers[b][Self][Slot(k)] <= k
    <3>1. /\ buffers[b][Self][Slot(k)] \in Nat
          /\ buffers'[b][Self][Slot(k)] \in Nat
      <4>1. TypeOK'
          BY NextType
      <4> QED
          BY <1>1, <4>1, SlotType DEF TypeOK
    <3>2. /\ buffers'[b][Self][Slot(k)] >= buffers[b][Self][Slot(k)]
          /\ buffers'[b][Self][Slot(k)] <= k
        BY <1>1 DEF Kept, Gathered
    <3> QED
        BY <1>1, <3>1, <3>2
  <2>2. PICK s \in Sharers(k) : ~Has(buffers[b][s], k)
      BY <1>3, <2>1 DEF Gathered
  <2>3. Has(buffers'[b][s], k)
      BY DEF Gathered, Has
  <2> QED
      BY <2>2, <2>3, NewInSlot
<1> QED
    BY <1>2, <1>3

(****************************************************************************)
(* Final reports.                                                           *)
(****************************************************************************)
\* Who changes the node's reports.
LEMMA ReportsChange ==
    ASSUME TypeOK, [Next]_vars
    PROVE  \/ UNCHANGED reports
           \/ \E k \in Seqs : /\ k \in triggered' \ triggered /\ reports' = AddTo(reports, k)
                              /\ UNCHANGED <<verifier, inbox>>
           \/ \E e \in inbox : /\ e[1] \in Seqs /\ reports' = AddTo(reports, e[1])
                               /\ inbox' = inbox \ {e} /\ UNCHANGED verifier
<1> USE DEF bufferVars, nodeVars, gateVars
<1>1. ASSUME NEW k \in Seqs, TriggerReport(k)
      PROVE  /\ k \in triggered' \ triggered /\ reports' = AddTo(reports, k)
             /\ UNCHANGED <<verifier, inbox>>
    BY <1>1 DEF TriggerReport
<1>2. ASSUME NEW e \in inbox, Consume(e)
      PROVE  /\ e[1] \in Seqs /\ reports' = AddTo(reports, e[1])
             /\ inbox' = inbox \ {e} /\ UNCHANGED verifier
    BY <1>2 DEF Consume, TypeOK, Judged
<1>3. \/ UNCHANGED reports \/ (\E k \in Seqs : TriggerReport(k)) \/ (\E e \in inbox : Consume(e))
    BY DEF Next, vars, ValidateFinal, ValidateEnds, Arrive, ConsumeStep, CreateBuffer, AddReport,
           LookupBegins, LookupEnds, Sign, Broadcast, Collect
<1> QED
    BY <1>1, <1>2, <1>3

\* Adding a number moves the latest to it, or leaves it where it is.
LEMMA LatestMoves ==
    ASSUME NEW slots \in SlotValues, NEW k \in Seqs
    PROVE  /\ Latest(slots) <= Latest(AddTo(slots, k))
           /\ Latest(AddTo(slots, k)) # Latest(slots) => Latest(AddTo(slots, k)) = k
<1> DEFINE after == AddTo(slots, k)
<1>1. /\ after \in SlotValues /\ \A i \in Slots : after[i] >= slots[i]
      /\ \A j \in Seqs : Has(after, j) => Has(slots, j) \/ j = k
    BY AddToFacts
<1> HIDE DEF after
<1>2. PICK i \in Slots : Latest(slots) = slots[i] /\ \A j \in Slots : slots[j] <= slots[i]
    BY LatestFacts
<1>3. PICK m \in Slots : Latest(after) = after[m] /\ \A j \in Slots : after[j] <= after[m]
    BY <1>1, LatestFacts
<1>4. slots \in [Slots -> Nat] /\ after \in [Slots -> Nat]
    BY <1>1, SlotType
<1>5. slots[i] <= after[m]
    BY <1>1, <1>2, <1>3, <1>4
<1>6. ASSUME after[m] # slots[i] PROVE after[m] = k
  <2>1. after[m] \in Seqs /\ Slot(after[m]) = m
      BY <1>1, <1>4, <1>5, <1>6 DEF SlotValues
  <2>2. Has(after, after[m]) /\ ~Has(slots, after[m])
    <3>1. slots[m] # after[m]
        BY <1>2, <1>4, <1>5, <1>6
    <3> QED
        BY <2>1, <3>1 DEF Has
  <2> QED
      BY <1>1, <2>1, <2>2
<1> QED
    BY <1>2, <1>3, <1>5, <1>6 DEF after

\* The latest report never falls back.
LEMMA LatestGrows ==
    ASSUME TypeOK, [Next]_vars
    PROVE  Latest(reports) \in Nat /\ Latest(reports') \in Nat /\ Latest(reports) <= Latest(reports')
<1>1. reports \in SlotValues /\ reports' \in SlotValues
    BY NextType DEF TypeOK
<1>2. Latest(reports) \in Nat /\ Latest(reports') \in Nat
    BY <1>1, GetLatestFacts
<1>3. UNCHANGED reports \/ \E k \in Seqs : reports' = AddTo(reports, k)
    BY ReportsChange
<1> QED
    BY <1>1, <1>2, <1>3, LatestMoves

\* Where a final report in the verifier or in the inbox comes from.
LEMMA GateFrom ==
    ASSUME TypeOK, [Next]_vars
    PROVE  /\ \/ verifier' \in {verifier, None}
              \/ \E k \in Seqs : /\ NearEnough(k, GetLatest(reports)) /\ UNCHANGED reports
                                 /\ verifier' = <<k, GetLatest(reports)>>
           /\ \A e \in inbox' : e \in inbox \/ (verifier # None /\ e = verifier) \/ e[2] = None
<1> USE DEF bufferVars, nodeVars, gateVars
<1>1. CASE UNCHANGED gateVars
    BY <1>1
<1>2. CASE FinalStep
    BY <1>2 DEF FinalStep, ValidateFinal, ValidateEnds, Consume
<1>3. ASSUME NEW r \in Reports, Collect(r)
      PROVE  UNCHANGED verifier /\ \A e \in inbox' : e \in inbox \/ e[2] = None
    BY <1>3 DEF Collect, Publish
<1> QED
    BY <1>1, <1>2, <1>3
    DEF Next, vars, FinalStep, TriggerReport, Arrive, ConsumeStep, CreateBuffer, AddReport,
        LookupBegins, LookupEnds, Sign, Broadcast

LEMMA NextTimely == TypeOK /\ Timely /\ [Next]_vars => Timely'
<1> SUFFICES ASSUME TypeOK, Timely, [Next]_vars PROVE Timely'
    OBVIOUS
<1>1. Latest(reports) \in Nat /\ Latest(reports') \in Nat /\ Latest(reports) <= Latest(reports')
    BY LatestGrows
<1>2. ASSUME NEW e \in Judged, Near(e) PROVE Near(e)'
  <2>1. e[2] # None => e[2] \in Nat
      BY BufferAssumption DEF Judged
  <2> QED
      BY <1>1, <1>2, <2>1 DEF Near
<1>3. (verifier # None => verifier \in Judged /\ Near(verifier)) /\ \A e \in inbox : e \in Judged /\ Near(e)
    BY DEF TypeOK, Timely
<1>4. ASSUME NEW k \in Seqs, NearEnough(k, GetLatest(reports)), UNCHANGED reports
      PROVE  Near(<<k, GetLatest(reports)>>)'
  <2>1. GetLatest(reports) # None => GetLatest(reports) = Latest(reports)
      BY GetLatestFacts DEF TypeOK
  <2>2. GetLatest(reports) # None => SeqDiff(k, GetLatest(reports)) <= SkipThreshold
      BY <1>4 DEF NearEnough
  <2> QED
      BY <1>1, <1>4, <2>1, <2>2 DEF Near
<1>5. verifier' # None => Near(verifier)'
    BY <1>2, <1>3, <1>4, GateFrom
<1>6. ASSUME NEW e \in inbox' PROVE Near(e)'
  <2>1. CASE e[2] = None
      BY <2>1 DEF Near
  <2> QED
      BY <1>2, <1>3, <2>1, GateFrom
<1> QED
    BY <1>5, <1>6 DEF Timely

\* What LatestCreeps says of one step.
Creep == LET old == Latest(reports)
             new == Latest(reports')
         IN  old # new =>
                 /\ old < new
                 /\ \/ old = 0
                    \/ new - old <= SkipThreshold
                    \/ <<new, None>> \in inbox
                    \/ new \in triggered' \ triggered

LEMMA NextCreep == TypeOK /\ Timely /\ [Next]_vars => Creep
<1> SUFFICES ASSUME TypeOK, Timely, [Next]_vars, Latest(reports) # Latest(reports')
             PROVE  /\ Latest(reports) < Latest(reports')
                    /\ \/ Latest(reports') - Latest(reports) <= SkipThreshold
                       \/ <<Latest(reports'), None>> \in inbox
                       \/ Latest(reports') \in triggered' \ triggered
    BY DEF Creep
<1> DEFINE old == Latest(reports)
           new == Latest(reports')
<1>1. old \in Nat /\ new \in Nat /\ old < new
    BY LatestGrows
<1>2. ASSUME NEW k \in Seqs, reports' = AddTo(reports, k) PROVE new = k
    BY <1>2, LatestMoves DEF TypeOK
<1>3. ASSUME NEW e \in inbox, e[1] \in Seqs, reports' = AddTo(reports, e[1])
      PROVE  new - old <= SkipThreshold \/ <<new, None>> \in inbox
  <2>1. new = e[1] /\ e \in Judged /\ e = <<e[1], e[2]>> /\ Near(e)
      BY <1>2, <1>3 DEF TypeOK, Timely, Judged
  <2>2. CASE e[2] = None
      BY <2>1, <2>2
  <2>3. CASE e[2] # None
    <3>1. e[2] \in Seqs /\ e[2] <= old /\ SeqDiff(new, e[2]) <= SkipThreshold
        BY <2>1, <2>3 DEF Near, Judged
    <3>2. /\ e[2] \in Nat /\ new < 2 ^ Width /\ e[2] < 2 ^ Width /\ 2 ^ Width \in Nat
          /\ SkipThreshold \in Nat
        BY <1>3, <2>1, <3>1, BufferAssumption, ThresholdsAssumption
    <3> HIDE DEF old, new
    <3>3. SeqDiff(new, e[2]) = new - e[2]
        BY <1>1, <3>1, <3>2, SeqDiffFacts
    <3> QED
        BY <1>1, <3>1, <3>2, <3>3
  <2> QED
      BY <2>2, <2>3
<1> QED
    BY <1>1, <1>2, <1>3, ReportsChange

(****************************************************************************)
(* The theorems.                                                            *)
(****************************************************************************)
LEMMA InitInv == Init => IndInv
<1> SUFFICES ASSUME Init PROVE IndInv
    OBVIOUS
<1>1. TypeOK
    BY InitType
<1>2. Knows /\ Signing /\ Owns /\ Genuine
    BY DEF Init, Knows, Signing, Owns, Genuine
<1>3. LeaderStarts /\ FinalsBacked /\ Timely
    BY DEF Init, LeaderStarts, FinalsBacked, Timely
<1>4. \A b \in Reports, s \in Signers, k \in Seqs : ~Has(buffers[b][s], k)
  <2> SUFFICES ASSUME NEW b \in Reports, NEW s \in Signers, NEW k \in Seqs
               PROVE  ~Has(buffers[b][s], k)
      OBVIOUS
  <2>1. buffers[b][s] = Empty /\ Slot(k) \in Slots /\ k # 0
      BY SlotType, BufferAssumption DEF Init
  <2> QED
      BY <2>1 DEF Has, Empty
<1>5. Seen
    BY <1>4 DEF Seen
<1>6. Shares
    BY <1>4, LeaderShares DEF Shares, Gathered
<1> QED
    BY <1>1, <1>2, <1>3, <1>5, <1>6 DEF IndInv

LEMMA NextInv == IndInv /\ [Next]_vars => IndInv'
<1> SUFFICES ASSUME IndInv, [Next]_vars PROVE IndInv'
    OBVIOUS
<1>1. /\ TypeOK /\ Seen /\ Knows /\ Signing /\ Owns /\ Genuine
      /\ LeaderStarts /\ FinalsBacked /\ Shares /\ Timely
    BY DEF IndInv
<1>2. TypeOK' /\ Kept
    BY <1>1, NextType, NextKept
<1>3. Seen' /\ Knows' /\ Signing' /\ Owns' /\ Genuine'
    BY <1>1, <1>2, NextSeen, NextKnows, NextSigning, NextOwns, NextGenuine
<1>4. LeaderStarts' /\ FinalsBacked' /\ Shares' /\ Timely'
    BY <1>1, <1>2, NextLeaderStarts, NextFinalsBacked, NextShares, NextTimely
<1> QED
    BY <1>2, <1>3, <1>4 DEF IndInv

LEMMA Inductive == Spec => []IndInv
    BY InitInv, NextInv, PTL DEF Spec

\* The types: what a slot holds is a number that belongs there, and a goroutine
\* that adds its report has a buffer to add it to.
THEOREM TypeCorrect == Spec => []TypeOK
<1>1. IndInv => TypeOK
    BY DEF IndInv
<1> QED
    BY <1>1, Inductive, PTL

\* TriggerReport and consumeInternalNet: no report is signed before its leader
\* has signed it.
THEOREM LeaderFirst == Spec => []LeaderStarts
<1>1. IndInv => LeaderStarts
    BY DEF IndInv
<1> QED
    BY <1>1, Inductive, PTL

\* The second goroutine of consumeInternalNet: what it broadcasts rests on genuine
\* signatures of more than two thirds of the signers for that very number.
THEOREM FinalsAreBacked == Spec => []FinalsBacked
<1>1. IndInv => FinalsBacked
    BY DEF IndInv
<1> QED
    BY <1>1, Inductive, PTL

\* Of the goroutines of consumeInternalNet whose reports meet in one buffer, the
\* last to add sees all the others: the reports of all are never left unused.
THEOREM SharesPublish == Spec => []AllSharesPublish
<1>1. IndInv => AllSharesPublish
  <2> SUFFICES ASSUME IndInv, NEW k \in Seqs, N >= 4, current # None,
                      \A s \in Signers :
                         /\ Has(buffers[current][s], k)
                         /\ s # Self \/ Leader(k) = Self =>
                               pc[<<s, k>>] = "done" /\ buf[<<s, k>>] = current
               PROVE  \E f \in finals : f[1] = k
      BY DEF AllSharesPublish
  <2>1. TypeOK /\ Shares
      BY DEF IndInv
  <2>2. current \in Reports /\ Self \in Signers /\ k \in Nat
      BY <2>1, SignersAssumption, BufferAssumption DEF TypeOK
  <2>3. Gathered(current, k)
    <3>1. buffers[current][Self][Slot(k)] = k
        BY <2>2 DEF Has
    <3>2. \A s \in Sharers(k) : Has(buffers[current][s], k)
        BY LeaderShares
    <3> QED
        BY <2>2, <3>1, <3>2 DEF Gathered
  <2>4. ASSUME NEW s \in Sharers(k), Finishes(<<s, k>>, current) PROVE FALSE
    <3>1. s \in Signers /\ (s # Self \/ Leader(k) = Self)
        BY LeaderShares DEF Sharers
    <3> QED
        BY <2>4, <3>1 DEF Finishes
  <2> QED
      BY <2>1, <2>2, <2>3, <2>4 DEF Shares, Published
<1> QED
    BY <1>1, Inductive, PTL

\* ValidateSequence, getLatest and Consume, each a critical section of its own:
\* the latest report of the node never falls back, and moves ahead by more than
\* SkipThreshold only for reports that nothing judged, whatever the thresholds
\* and however the unsigned distance wraps around.
THEOREM LatestAdvances == Spec => LatestCreeps
<1>1. IndInv /\ [Next]_vars => [Creep]_vars
    BY NextCreep DEF IndInv
<1> QED
    BY <1>1, Inductive, PTL DEF Spec, LatestCreeps, Creep

=============================================================================
