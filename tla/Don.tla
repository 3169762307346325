--------------------------------- MODULE Don ---------------------------------
(****************************************************************************)
(* The application of examples/don.  A DON (localdon.go) makes a signed     *)
(* report per tick, which every one of its nodes transmits; the listeners,  *)
(* nodes of another DON, subscribe to it.  A node verifies what gossip      *)
(* brings (verifier.go) and stores what it consumes (reportbuf.go): two     *)
(* goroutines that share the report buffer.                                 *)
(*                                                                          *)
(* A message is the content of a report: its sequence number, the oracles   *)
(* that signed it, those among them whose signature is good, and whether    *)
(* json.Unmarshal can read it.  An oracle is named after its node.          *)
(* Gossip, with the routers and services that the other modules describe,   *)
(* is external: it hands a message to a node once, in any order or never.   *)
(****************************************************************************)
EXTENDS Integers, FiniteSets, FiniteSetsExt

CONSTANTS
    Nodes,
    None,
    Own,               \* marks what the node itself published
    Setups,            \* who does what; see Setup
    MaxReports,        \* bound on the reports that a DON makes
    BufferSize,
    SkipThreshold,     \* 5 in verifier.go
    InvalidThreshold   \* 25

\* SeqNumber is an int64.  A DON counts from 1; a number below zero has no slot
\* (the index is negative, and Add and Get panic), and none is published here.
Seqs == 0 .. MaxReports + InvalidThreshold + 1
Messages == [seq : Seqs, signed : SUBSET Nodes, valid : SUBSET Nodes, readable : BOOLEAN]

\* members and listeners: the nodes of the two DONs.  topics: what listeners
\* subscribe to.  manipulators: nodes that have a report manipulator.  dons:
\* the keys that the verifiers hold of the DON, None when they hold none (the
\* repository never gives them any).  outside: what other programs publish on
\* the DON's topic.  clients: the nodes through which they do.  ticks: how many
\* reports the DON gets to make.
Setup == [members : (SUBSET Nodes) \ {{}}, listeners : SUBSET Nodes,
          topics : SUBSET {"id", "don.id"}, manipulators : SUBSET Nodes,
          dons : (SUBSET Nodes) \cup {None},
          outside : SUBSET Messages, clients : SUBSET Nodes,
          ticks : 0 .. MaxReports]

ASSUME NodesAssumption == IsFiniteSet(Nodes)
ASSUME SetupsAssumption == Setups \subseteq Setup
ASSUME SizesAssumption == /\ MaxReports \in Nat /\ BufferSize \in Nat \ {0}
                          /\ SkipThreshold \in Nat /\ InvalidThreshold \in Nat

VARIABLES
    setup,
    don,        \* the goroutine of mockedDon.run
    lastSeq,    \* SeqNumber of the last of mockedDon.reports
    object,     \* the report behind the pointer that its transmissions share
    transmit,   \* the goroutines that broadcast starts
    boot,       \* what run has to do for a node: start it, subscribe it
    started,    \* nodes with a consumer and a verifier
    joined,     \* the topics a node is subscribed to
    sent,       \* what was published on the DON's topic
    seen,       \* gossip's memory of what a node has had
    verifier,   \* the message a verifier is at
    inbox,      \* accepted messages on their way to the consumer
    buf         \* ReportBuffer.reports of the DON

donVars  == <<setup, don, lastSeq, object, transmit>>
bootVars == <<boot, started, joined>>
netVars  == <<sent, seen>>
vars == <<donVars, bootVars, netVars, verifier, inbox, buf>>

Reports == 1 .. MaxReports
Slots   == 0 .. BufferSize - 1
Zero    == [seq |-> 0, signed |-> {}, valid |-> {}, readable |-> TRUE]

\* What a message in an inbox was judged by, the latest report or nothing at
\* all: history that only properties read.
Origins == {Own, None} \cup Seqs

(****************************************************************************)
(* reportbuf.go.                                                            *)
(****************************************************************************)
Slot(s) == s % BufferSize

Add(b, m) == IF b[Slot(m.seq)].seq < m.seq THEN [b EXCEPT ![Slot(m.seq)] = m] ELSE b

Has(b, s) == b # [i \in Slots |-> Zero] /\ b[Slot(s)].seq = s

\* nil as long as nothing was added.
GetLatest(b) == IF b = [i \in Slots |-> Zero] THEN None
                ELSE Max({b[i].seq : i \in Slots})

(****************************************************************************)
(* report.go and signer_ocr.go.                                             *)
(****************************************************************************)
\* A signer signs the report together with the signatures made before, in the
\* order in which Go walks the map; GetReportData, which is what Verify checks,
\* has none: only the first signature is good.
NewMockedSignedReport(s, first) ==
    [seq |-> s, signed |-> setup.members, valid |-> first, readable |-> TRUE]

\* MarshalReport writes the config digest as text, through MarshalText; there
\* is no UnmarshalText, and UnmarshalReport fails on what was written.
Marshal(m) == [m EXCEPT !.readable = FALSE]

(****************************************************************************)
(* verifier.go.                                                             *)
(****************************************************************************)
\* Mutant: one signature too few is enough.
ThresholdLow(n) == n - (n - 1) \div 3 - 1

\* n - (n-1)/3; integer division rounds towards zero.
Threshold(n) == IF n = 0 THEN 0 ELSE n - (n - 1) \div 3

\* Process up to the sequence check.
SignaturesHold(m) ==
    /\ m.readable
    /\ setup.dons # None
    /\ setup.dons \cap m.signed \subseteq m.valid
    /\ Cardinality(setup.dons \cap m.signed) >= Threshold(Cardinality(setup.dons))

\* Mutant: only what is far out of sequence is refused.
NearEnoughLoose(m, latest) == latest # None => m.seq - latest <= InvalidThreshold

\* validateSequence: REJECT beyond the one threshold and IGNORE beyond the
\* other, against the latest report that was read before.
NearEnough(m, latest) ==
    latest # None => m.seq - latest <= InvalidThreshold /\ m.seq - latest <= SkipThreshold

Init == /\ setup \in Setups
        /\ don = "off"
        /\ lastSeq = 0
        /\ object = [s \in Reports |-> Zero]
        /\ transmit = [s \in Reports |-> [n \in Nodes |-> "none"]]
        /\ boot = [n \in Nodes |-> IF n \in setup.listeners THEN {"start", "subscribe"} ELSE {}]
        /\ started = {}
        /\ joined = [n \in Nodes |-> {}]
        /\ sent = {}
        /\ seen = [n \in Nodes |-> {}]
        /\ verifier = [n \in Nodes |-> None]
        /\ inbox = [n \in Nodes |-> {}]
        /\ buf = [n \in Nodes |-> [i \in Slots |-> Zero]]

(****************************************************************************)
(* localdon.go.                                                             *)
(****************************************************************************)
\* run: the listeners' own DON runs already.
Run == /\ don = "off"
       /\ don' = "run"
       /\ boot' = [n \in Nodes |-> boot[n] \cup (IF n \in setup.members THEN {"start"} ELSE {})]
       /\ UNCHANGED <<setup, lastSeq, object, transmit, started, joined, netVars, verifier, inbox, buf>>

Booted(n, task) == task \in boot[n] /\ boot' = [boot EXCEPT ![n] = @ \ {task}]

\* Node.Start, once: it starts the consumer and the verifier.
NodeStart(n) == /\ Booted(n, "start")
                /\ started' = started \cup {n}
                /\ UNCHANGED <<donVars, joined, netVars, verifier, inbox, buf>>

\* Consumer.Subscribe, topic by topic; an error that somebody is joining ends it.
Subscribe(n) == /\ Booted(n, "subscribe")
                /\ \E done \in SUBSET setup.topics : joined' = [joined EXCEPT ![n] = done]
                /\ UNCHANGED <<donVars, started, netVars, verifier, inbox, buf>>

\* A tick: nextReport, and broadcast starts a goroutine for every node.  Ticks
\* are still served for a while after stop has closed the channel.
NextReport == /\ don \in {"run", "stopping"} /\ lastSeq < setup.ticks
              /\ LET s == lastSeq + 1
                 IN  /\ lastSeq' = s
                     /\ \E first \in {{n} : n \in setup.members} :
                            object' = [object EXCEPT ![s] = NewMockedSignedReport(s, first)]
                     /\ transmit' = [transmit EXCEPT ![s] =
                            [n \in Nodes |-> IF n \in setup.members THEN "spawned" ELSE "none"]]
              /\ UNCHANGED <<setup, don, bootVars, netVars, verifier, inbox, buf>>

\* Transmit: the manipulator may change what the pointer points at, for all.
Manipulate(s, n) ==
    /\ transmit[s][n] = "spawned"
    /\ transmit' = [transmit EXCEPT ![s][n] = "marshal"]
    /\ \/ n \notin setup.manipulators /\ UNCHANGED object
       \/ n \in setup.manipulators /\ object' = [object EXCEPT ![s].valid = {}]
    /\ UNCHANGED <<setup, don, lastSeq, bootVars, netVars, verifier, inbox, buf>>

\* Mutant: the message is delivered to the node itself only.
PublishQuietly(n, m) ==
    /\ sent' = sent
    /\ seen' = [seen EXCEPT ![n] = @ \cup {m}]
    /\ inbox' = IF "don.id" \in joined[n]
                THEN [inbox EXCEPT ![n] = @ \cup {<<m, Own>>}] ELSE inbox

\* Publish on the topic "don.<id>": gossip drops what it has seen; validateMsg
\* accepts a message of the node itself without asking the verifier.
PublishBy(n, m) ==
    IF m \in seen[n] THEN UNCHANGED <<sent, seen, inbox>>
    ELSE /\ sent' = sent \cup {m}
         /\ seen' = [seen EXCEPT ![n] = @ \cup {m}]
         /\ inbox' = IF "don.id" \in joined[n]
                     THEN [inbox EXCEPT ![n] = @ \cup {<<m, Own>>}] ELSE inbox

\* Transmit: MarshalReport reads the shared report and the data is published.
Transmit(s, n) ==
    /\ transmit[s][n] = "marshal"
    /\ transmit' = [transmit EXCEPT ![s][n] = "done"]
    /\ PublishBy(n, Marshal(object[s]))
    /\ UNCHANGED <<setup, don, lastSeq, object, bootVars, verifier, buf>>

\* No connection, a join in progress, or a cancelled context: an error is logged.
TransmitFails(s, n) ==
    /\ transmit[s][n] \in {"spawned", "marshal"}
    /\ transmit' = [transmit EXCEPT ![s][n] = "done"]
    /\ UNCHANGED <<setup, don, lastSeq, object, bootVars, netVars, verifier, inbox, buf>>

\* stop closes the thread control and waits for its goroutines.
Stop == /\ don = "run"
        /\ don' = "stopping"
        /\ UNCHANGED <<setup, lastSeq, object, transmit, bootVars, netVars, verifier, inbox, buf>>

Transmitting == \E s \in Reports, n \in Nodes : transmit[s][n] \in {"spawned", "marshal"}

StopReturns == /\ don = "stopping" /\ ~Transmitting
               /\ \A n \in setup.members : "start" \notin boot[n]
               /\ don' = "stopped"
               /\ UNCHANGED <<setup, lastSeq, object, transmit, bootVars, netVars, verifier, inbox, buf>>

\* Another program publishes on the topic, through one of the nodes.
ClientPublishes(n, m) ==
    /\ n \in setup.clients /\ m \in setup.outside
    /\ m \notin seen[n]
    /\ PublishBy(n, m)
    /\ UNCHANGED <<donVars, bootVars, verifier, buf>>

(****************************************************************************)
(* A node: what gossip brings, and what the consumer gets.                  *)
(****************************************************************************)
Arrives(n, m) == /\ "don.id" \in joined[n]
                 /\ m \in sent \ seen[n]
                 /\ seen' = [seen EXCEPT ![n] = @ \cup {m}]
                 /\ UNCHANGED <<donVars, bootVars, sent, inbox, buf>>

\* Nobody verifies, Process refuses, or validateSequence does by the latest.
Refuse(n, m) ==
    /\ Arrives(n, m)
    /\ \/ n \notin started
       \/ verifier[n] = None /\ ~SignaturesHold(m)
       \/ verifier[n] = None /\ SignaturesHold(m) /\ ~NearEnough(m, GetLatest(buf[n]))
    /\ UNCHANGED verifier

\* Process and the first half of validateSequence.
Process(n, m) ==
    /\ n \in started /\ verifier[n] = None
    /\ SignaturesHold(m) /\ NearEnough(m, GetLatest(buf[n]))
    /\ Arrives(n, m)
    /\ verifier' = [verifier EXCEPT ![n] = <<m, GetLatest(buf[n])>>]

\* The second half: the buffer is asked for the number in a critical section of
\* its own.
Judge(n) ==
    /\ verifier[n] # None
    /\ verifier' = [verifier EXCEPT ![n] = None]
    /\ \/ Has(buf[n], verifier[n][1].seq) /\ UNCHANGED inbox
       \/ /\ ~Has(buf[n], verifier[n][1].seq)
          /\ inbox' = [inbox EXCEPT ![n] = @ \cup {verifier[n]}]
    /\ UNCHANGED <<donVars, bootVars, netVars, buf>>

\* The consumer's handler stores what it can read.
Consume(n, e) ==
    /\ n \in started /\ e \in inbox[n]
    /\ inbox' = [inbox EXCEPT ![n] = @ \ {e}]
    /\ buf' = IF e[1].readable THEN [buf EXCEPT ![n] = Add(@, e[1])] ELSE buf
    /\ UNCHANGED <<donVars, bootVars, netVars, verifier>>

DonStep == \/ Run \/ NextReport \/ Stop \/ StopReturns
           \/ \E s \in Reports, n \in Nodes : Manipulate(s, n) \/ Transmit(s, n) \/ TransmitFails(s, n)

NodeStep(n) == \/ NodeStart(n) \/ Subscribe(n) \/ Judge(n)
               \/ \E m \in setup.outside : ClientPublishes(n, m)
               \/ \E m \in sent : Refuse(n, m) \/ Process(n, m)
               \/ \E e \in inbox[n] : Consume(n, e)

Next == DonStep \/ \E n \in Nodes : NodeStep(n)

Spec == Init /\ [][Next]_vars

(****************************************************************************)
(* Properties.                                                              *)
(****************************************************************************)
\* Every variable keeps its type.
TypeOK ==
    /\ setup \in Setups
    /\ don \in {"off", "run", "stopping", "stopped"}
    /\ lastSeq \in 0 .. MaxReports
    /\ object \in [Reports -> Messages]
    /\ transmit \in [Reports -> [Nodes -> {"none", "spawned", "marshal", "done"}]]
    /\ boot \in [Nodes -> SUBSET {"start", "subscribe"}]
    /\ started \subseteq Nodes
    /\ joined \in [Nodes -> SUBSET {"id", "don.id"}]
    /\ sent \subseteq Messages /\ seen \in [Nodes -> SUBSET sent]
    /\ \A n \in Nodes : verifier[n] \in {None} \cup (Messages \X Origins)
    /\ \A n \in Nodes : inbox[n] \subseteq Messages \X Origins
    /\ buf \in [Nodes -> [Slots -> Messages]]

\* A buffer holds what a quorum of the oracles signed, or what the node's own
\* clients published: verification covers every other way into it, whatever
\* happens between a verdict and the consumer.
Backed(m) == /\ setup.dons # None
             /\ 3 * Cardinality(setup.dons \cap m.valid) >= 2 * Cardinality(setup.dons)
BufferBacked ==
    \A n \in Nodes, i \in Slots :
        buf[n][i] # Zero => Backed(buf[n][i]) \/ n \in setup.clients

\* The latest report of a node moves ahead by no more than skipThreshold: the
\* verdict is reached on a latest report that may be old by the time the
\* consumer stores the report, but it has only grown since.  The exceptions are
\* the node's own messages and reports judged before the first was stored,
\* which skip the check.
NoLeap ==
    [][\A n \in Nodes :
          LET old == GetLatest(buf[n])
              new == GetLatest(buf'[n])
          IN  old # new /\ old # None =>
                  \/ old < new /\ new - old <= SkipThreshold
                  \/ \E e \in inbox[n] : /\ e[1].seq = new /\ old < new
                                         /\ e[2] \in {Own, None}]_vars
=============================================================================
