----------------------------- MODULE ReportNode -----------------------------
(****************************************************************************)
(* A signer of examples/bls: one node, in the one network it has a share    *)
(* of.  The signers agree on a report per sequence number: the leader signs *)
(* it first, the others when they see that, and a node that holds enough    *)
(* signatures broadcasts the report with the reconstructed signature.       *)
(*                                                                          *)
(* A partial report is a pair of signer and sequence number.  Every one the *)
(* node consumes is a goroutine of consumeInternalNet; the buffer that such *)
(* a goroutine creates is named after the report it handles.  The other     *)
(* signers are the environment: their reports arrive in any order, or not   *)
(* at all, or bear a signature that does not verify.  A reconstructed       *)
(* report is its sequence number; the verifier and the consumer of the node *)
(* handle it one after the other.                                           *)
(****************************************************************************)
EXTENDS Integers, FiniteSets, FiniteSetsExt

CONSTANTS
    N,          \* number of signers, 1 .. N
    Self,       \* this node
    Seqs,       \* sequence numbers of reports
    Worlds,     \* what other signers may send: partial and final reports
    Forged,     \* partial reports with a signature that does not verify
    None,       \* no buffer, no report
    BufferSize, \* reportBufferSize
    SkipThreshold, InvalidThreshold,
    Width       \* sequence numbers are unsigned, of so many bits

Signers == 1 .. N
Slots   == 0 .. BufferSize - 1
Reports == Signers \X Seqs

ASSUME SignersAssumption == N \in Nat \ {0} /\ Self \in Signers
ASSUME NoneAssumption == None \notin Reports \cup Nat \cup (Seqs \X (Seqs \cup {None}))
ASSUME WorldsAssumption ==
    /\ Worlds \subseteq [partials : SUBSET ((Signers \ {Self}) \X Seqs), finals : SUBSET Seqs]
    /\ Forged \subseteq (Signers \ {Self}) \X Seqs
ASSUME BufferAssumption == BufferSize \in Nat \ {0} /\ Seqs \subseteq Nat \ {0}
ASSUME ThresholdsAssumption ==
    /\ SkipThreshold \in Nat /\ InvalidThreshold \in Nat
    /\ Width \in Nat /\ 2 ^ Width \in Nat /\ \A k \in Seqs : k < 2 ^ Width

VARIABLES
    world,     \* what other signers send
    pc,        \* the goroutine of a report
    buf,       \* the buffer it works on
    signers,   \* the signers it knows of
    current,   \* internalReports: the buffer of the network
    buffers,   \* the sequence number in every slot of every signer; 0 is empty
    triggered, \* TriggerReport was called for the sequence number
    signed,    \* history: how often the node signed it and broadcast
    reports,   \* Node.reports: the slots of the network
    finals,    \* reconstructed reports it broadcast: number and signatures
    verifier,  \* the final report in ValidateSequence, with the latest it read
    inbox      \* final reports on their way to Consume, with what judged them

bufferVars == <<current, buffers>>
gateVars   == <<world, verifier, inbox>>
nodeVars   == <<triggered, signed, reports, finals, gateVars>>
vars == <<pc, buf, signers, bufferVars, nodeVars>>

PCs == {"none", "create", "add", "lookup", "looking", "sign", "broadcast",
        "collect", "done", "failed"}

Empty == [i \in Slots |-> 0]

\* A final report and the latest report it was judged by.  None is for the node's
\* own, which nobody judges, and for those that found no other: history that
\* only properties read.
Judged == Seqs \X (Seqs \cup {None})

Init == /\ world \in Worlds
        /\ pc = [r \in Reports |-> "none"]
        /\ buf = [r \in Reports |-> None]
        /\ signers = [r \in Reports |-> {}]
        /\ current = None
        /\ buffers = [b \in Reports |-> [s \in Signers |-> Empty]]
        /\ triggered = {}
        /\ signed = [k \in Seqs |-> 0]
        /\ reports = Empty
        /\ finals = {}
        /\ verifier = None
        /\ inbox = {}

(****************************************************************************)
(* Operators of share.go and reportbuf.go.                                  *)
(****************************************************************************)
\* Mutant: every signer is needed.
ThresholdAll(count) == count

Threshold(count) == count - (count - 1) \div 3

\* RoundRobinLeader.
Leader(k) == (k % N) + 1

Slot(k) == k % BufferSize

\* ReportBuffer.Add: only a newer report replaces what is in the slot.
Newer(slots, k) == slots[Slot(k)] < k
AddTo(slots, k) == IF Newer(slots, k) THEN [slots EXCEPT ![Slot(k)] = k] ELSE slots

\* ReportBuffer.Get finds a report.
Has(slots, k) == slots[Slot(k)] = k

\* Lookup: the signers whose report is in the buffer.
Present(b, k) == {s \in Signers : Has(buffers[b][s], k)}

Latest(slots) == Max({slots[i] : i \in Slots})

\* getLatest: nil as long as nothing was added.
GetLatest(slots) == IF slots = Empty THEN None ELSE Latest(slots)

\* The difference of two uint64 values: an older number is far ahead.
SeqDiff(a, b) == (a - b) % (2 ^ Width)

\* Mutant: only what is far out of sequence is refused.
NearEnoughLoose(k, latest) == latest # None => SeqDiff(k, latest) <= InvalidThreshold

\* ValidateSequence: REJECT beyond the one threshold, IGNORE beyond the other.
NearEnough(k, latest) ==
    latest # None => SeqDiff(k, latest) <= InvalidThreshold /\ SeqDiff(k, latest) <= SkipThreshold

\* The store of buffers: the network has one, or none.
StoreGet == current
StoreAdd(b) == current' = b

\* Share.Validate.
Validate(r) == r[1] \in Signers /\ r \notin Forged

ValidateInternalNet(r) ==
    IF ~Validate(r) THEN "REJECT"
    ELSE IF StoreGet # None /\ Has(buffers[StoreGet][r[1]], r[2]) THEN "IGNORE" ELSE "ACCEPT"

\* Mutant: anybody may start a sequence.
IsProcessableAny(k, ids) == ids # {} /\ Self \notin ids

\* isProcessable: the leader has signed, this node has not.
IsProcessable(k, ids) == Leader(k) \in ids /\ Self \notin ids

(****************************************************************************)
(* Node: TriggerReport, Validate and Consume.                               *)
(****************************************************************************)
\* TriggerReport: the leader signs, keeps the report and broadcasts it, which
\* may fail; for any other node the call does nothing.
TriggerReport(k) ==
    /\ k \notin triggered
    /\ Leader(k) = Self
    /\ triggered' = triggered \cup {k}
    /\ reports' = AddTo(reports, k)
    /\ \/ signed' = [signed EXCEPT ![k] = @ + 1]
       \/ UNCHANGED signed
    /\ UNCHANGED <<pc, buf, signers, bufferVars, finals, gateVars>>

\* A partial report is validated (the node's own come back to it and are
\* not) and consumed: the goroutine starts with internalReports.Get.  What
\* validation looks at is this report alone, which nobody else adds before.
Arrive(r) ==
    /\ pc[r] = "none"
    /\ \/ r \in world.partials /\ ValidateInternalNet(r) = "ACCEPT"
       \/ r[1] = Self /\ signed[r[2]] > 0
    /\ buf' = [buf EXCEPT ![r] = StoreGet]
    /\ pc' = [pc EXCEPT ![r] = IF StoreGet = None THEN "create" ELSE "add"]
    /\ UNCHANGED <<signers, bufferVars, nodeVars>>

\* Validate of a reconstructed report, to the end of getLatest and what follows
\* from it; a report that is refused leaves no trace.
ValidateFinal(k) ==
    /\ k \in world.finals /\ verifier = None
    /\ NearEnough(k, GetLatest(reports))
    /\ verifier' = <<k, GetLatest(reports)>>
    /\ UNCHANGED <<pc, buf, signers, bufferVars, triggered, signed, reports, finals, world, inbox>>

\* The rest of ValidateSequence: Get is a critical section of its own.
ValidateEnds ==
    /\ verifier # None
    /\ verifier' = None
    /\ inbox' = IF Has(reports, verifier[1]) THEN inbox ELSE inbox \cup {verifier}
    /\ UNCHANGED <<pc, buf, signers, bufferVars, triggered, signed, reports, finals, world>>

\* Consume of a reconstructed report.
Consume(e) ==
    /\ inbox' = inbox \ {e}
    /\ reports' = AddTo(reports, e[1])
    /\ UNCHANGED <<pc, buf, signers, bufferVars, triggered, signed, finals, world, verifier>>

(****************************************************************************)
(* The goroutine of consumeInternalNet.                                     *)
(****************************************************************************)
\* Mutant: the new buffer is stored and not used.
CreateBufferLost(r) ==
    /\ pc[r] = "create"
    /\ StoreAdd(r)
    /\ pc' = [pc EXCEPT ![r] = "add"]
    /\ UNCHANGED <<buf, signers, buffers, nodeVars>>

\* When Get found none, a new buffer replaces whatever is there by now.
CreateBuffer(r) ==
    /\ pc[r] = "create"
    /\ buf' = [buf EXCEPT ![r] = r]
    /\ StoreAdd(r)
    /\ pc' = [pc EXCEPT ![r] = "add"]
    /\ UNCHANGED <<signers, buffers, nodeVars>>

AddReport(r) ==
    /\ pc[r] = "add"
    /\ buffers' = [buffers EXCEPT ![buf[r]][r[1]] = AddTo(@, r[2])]
    /\ pc' = [pc EXCEPT ![r] = IF Newer(buffers[buf[r]][r[1]], r[2]) THEN "lookup" ELSE "done"]
    /\ UNCHANGED <<buf, signers, current, nodeVars>>

\* A goroutine returns; what it knew of the signers is gone.
Ends(r, how) == /\ pc' = [pc EXCEPT ![r] = how]
                /\ signers' = [signers EXCEPT ![r] = {}]

\* quorumCount.
QuorumCount == Threshold(N)

\* hasQuorum: with enough signers a second goroutine takes over.
CountSigners(r, ids) ==
    IF Cardinality(ids) >= QuorumCount
    THEN /\ pc' = [pc EXCEPT ![r] = "collect"]
         /\ signers' = [signers EXCEPT ![r] = ids]
    ELSE Ends(r, "done")

\* Lookup takes no lock.  It goes through the buffers of the signers while
\* others write to them: what changes meanwhile it may see or miss.
LookupBegins(r) ==
    /\ pc[r] = "lookup"
    /\ signers' = [signers EXCEPT ![r] = Present(buf[r], r[2])]
    /\ pc' = [pc EXCEPT ![r] = "looking"]
    /\ UNCHANGED <<buf, bufferVars, nodeVars>>

LookupEnds(r) ==
    /\ pc[r] = "looking"
    /\ LET now == Present(buf[r], r[2])
       IN  \E missed \in SUBSET ((signers[r] \ now) \cup (now \ signers[r])) :
              LET ids == (signers[r] \cup now) \ missed
              IN  IF IsProcessable(r[2], ids)
                  THEN /\ signers' = [signers EXCEPT ![r] = ids]
                       /\ pc' = [pc EXCEPT ![r] = "sign"]
                  ELSE CountSigners(r, ids)
    /\ UNCHANGED <<buf, bufferVars, nodeVars>>

\* share.Sign, and the node's own report goes into the buffer.
Sign(r) ==
    /\ pc[r] = "sign"
    /\ buffers' = [buffers EXCEPT ![buf[r]][Self] = AddTo(@, r[2])]
    /\ pc' = [pc EXCEPT ![r] = "broadcast"]
    /\ UNCHANGED <<buf, signers, current, nodeVars>>

\* Broadcast succeeds, or its error ends the goroutine.
Broadcast(r) ==
    /\ pc[r] = "broadcast"
    /\ \/ /\ signed' = [signed EXCEPT ![r[2]] = @ + 1]
          /\ CountSigners(r, signers[r] \cup {Self})
       \/ Ends(r, "failed") /\ UNCHANGED signed
    /\ UNCHANGED <<buf, bufferVars, triggered, reports, finals, gateVars>>

\* The signatures collectSignatures gets, each with its sequence number.
Signatures(r) == {<<s, r[2]>> : s \in signers[r] \cap Present(buf[r], r[2])}

\* prepareReport: the report with the signature ReconstructSigs makes of them.
Reconstructed(r) == <<r[2], Signatures(r)>>

\* It is broadcast, and comes back to the node's consumer unvalidated.
Publish(r) == /\ finals' = finals \cup {Reconstructed(r)}
              /\ inbox' = inbox \cup {<<r[2], None>>}

\* Mutant: the signatures are not counted again.
CollectUnchecked(r) ==
    /\ pc[r] = "collect"
    /\ \/ Publish(r) /\ Ends(r, "done")
       \/ UNCHANGED <<finals, inbox>> /\ Ends(r, "failed")
    /\ UNCHANGED <<buf, bufferVars, triggered, signed, reports, world, verifier>>

\* The second goroutine: with enough signatures the report is reconstructed
\* and broadcast, unless one of these fails.
Collect(r) ==
    /\ pc[r] = "collect"
    /\ \/ /\ Cardinality(Signatures(r)) > QuorumCount
          /\ \/ Publish(r) /\ Ends(r, "done")
             \/ UNCHANGED <<finals, inbox>> /\ Ends(r, "failed")
       \/ /\ Cardinality(Signatures(r)) <= QuorumCount
          /\ UNCHANGED <<finals, inbox>> /\ Ends(r, "done")
    /\ UNCHANGED <<buf, bufferVars, triggered, signed, reports, world, verifier>>

ConsumeStep(r) == \/ CreateBuffer(r) \/ AddReport(r)
                  \/ LookupBegins(r) \/ LookupEnds(r) \/ Sign(r) \/ Broadcast(r)
                  \/ Collect(r)

Next == \/ \E k \in Seqs : TriggerReport(k) \/ ValidateFinal(k)
        \/ ValidateEnds
        \/ \E e \in inbox : Consume(e)
        \/ \E r \in Reports : Arrive(r) \/ ConsumeStep(r)

Spec == Init /\ [][Next]_vars

(****************************************************************************)
(* Properties.                                                              *)
(****************************************************************************)
\* The values of the slots of one signer: a number belongs to its slot.
SlotValues == {f \in [Slots -> Seqs \cup {0}] : \A i \in Slots : f[i] # 0 => Slot(f[i]) = i}

\* Types.  What a slot holds is a sequence number that belongs there, and a
\* goroutine that adds its report has a buffer.
TypeOK ==
    /\ world \in Worlds
    /\ pc \in [Reports -> PCs]
    /\ buf \in [Reports -> Reports \cup {None}]
    /\ \A r \in Reports : pc[r] \notin {"none", "create"} => buf[r] # None
    /\ signers \in [Reports -> SUBSET Signers]
    /\ current \in Reports \cup {None}
    /\ buffers \in [Reports -> [Signers -> SlotValues]]
    /\ triggered \subseteq Seqs
    /\ signed \in [Seqs -> Nat]
    /\ reports \in SlotValues
    /\ finals \subseteq Seqs \X SUBSET Reports
    /\ verifier \in Judged \cup {None} /\ inbox \subseteq Judged

Consumed(r) == pc[r] \notin {"none", "create", "add"}

\* Only the leader starts a sequence: this node signs a report it leads and
\* was told to trigger, or one whose leader's signature it has consumed.
LeaderStarts ==
    \A k \in Seqs : signed[k] > 0 =>
        (Leader(k) = Self /\ k \in triggered) \/ Consumed(<<Leader(k), k>>)

\* A reconstructed report rests on a quorum: on signatures for its own number
\* of more than two thirds of the signers, each of whose reports this node
\* consumed (or made itself) and none of which is forged, although the signers
\* were counted earlier and later numbers have used their slots since.
FinalsBacked ==
    \A f \in finals :
        /\ 3 * Cardinality(f[2]) > 2 * N
        /\ \A sig \in f[2] : sig[2] = f[1] /\ sig \notin Forged /\ (sig[1] = Self \/ Consumed(sig))

\* If the reports of all the signers reach one buffer of the node and stay in
\* it, and nothing fails, then the reconstructed report is broadcast: the last
\* goroutine to add its report sees all of them, however they overlap.
AllSharesPublish ==
    \A k \in Seqs :
        /\ N >= 4 /\ current # None
        /\ \A s \in Signers : /\ Has(buffers[current][s], k)
                              /\ s # Self \/ Leader(k) = Self =>
                                    pc[<<s, k>>] = "done" /\ buf[<<s, k>>] = current
        => \E f \in finals : f[1] = k

\* The latest report of the node never falls back, and moves ahead by more than
\* SkipThreshold only for reports that no other was there to judge or that the
\* node made or triggered itself.  A verdict is reached on a latest report that
\* may be old when Consume stores the report, and the unsigned distance takes
\* some older numbers for near ones: neither lets the buffer leap or go back.
LatestCreeps ==
    [][LET old == Latest(reports)
           new == Latest(reports')
       IN  old # new =>
               /\ old < new
               /\ \/ old = 0
                  \/ new - old <= SkipThreshold
                  \/ <<new, None>> \in inbox
                  \/ new \in triggered' \ triggered]_vars

\* What the comment of isProcessable says: "we sign once".
SignsOnce == \A k \in Seqs : signed[k] <= 1
=============================================================================
