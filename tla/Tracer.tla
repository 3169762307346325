------------------------------- MODULE Tracer -------------------------------
(****************************************************************************)
(* psTracer of core/pubsub_trace.go: goroutines of libp2p pubsub call Trace,*)
(* which counts an event without the lock and stores it under the lock;     *)
(* a sampler adds the counters up and calls Reset, as in                    *)
(* core/gossipsub_test.go.  Two of the thirteen types of events stand for   *)
(* all: ADD_PEER, which pubsub traces in its event loop, one after the      *)
(* other, and REJECT_MESSAGE, which its validation goroutines trace.        *)
(* A call is named after its event; the fields of an event are left out.    *)
(****************************************************************************)
EXTENDS Integers, Sequences, FiniteSets, SequencesExt

CONSTANTS
    Adds, Rejects,  \* the calls of Trace, by type
    MaxSamples      \* bound on the calls of Reset

ASSUME CallsAssumption == Adds \cap Rejects = {}
ASSUME SamplesAssumption == MaxSamples \in Nat

VARIABLES
    skiplist,
    trace,       \* where a call of Trace is
    faucets,     \* the counters
    events,      \* the events that are stored
    lock,        \* Reset holds psTracer.lock
    sampler,     \* what the sampler has yet to do
    samples,     \* number of samples begun
    total,       \* the counters it has added up
    overlapped   \* history: calls under way while a sample was being taken

tracerVars == <<skiplist, trace, faucets, events, lock, sampler, samples, total, overlapped>>

Calls == Adds \cup Rejects

\* The fields of traceFaucets in the order in which add and set go through them.
Order == <<"REJECT_MESSAGE", "ADD_PEER">>
Types == ToSet(Order)
Type(c) == IF c \in Adds THEN "ADD_PEER" ELSE "REJECT_MESSAGE"

TracerInit(skip) ==
    /\ skiplist = skip
    /\ trace = [c \in Calls |-> "none"]
    /\ faucets = [t \in Types |-> 0]
    /\ events = {} /\ lock = FALSE
    /\ sampler = <<>> /\ samples = 0
    /\ total = [t \in Types |-> 0]
    /\ overlapped = {}

UnderWay(c) == trace[c] \in {"counted", "store"}

\* The event loop of pubsub, or a goroutine of its own, is free to call Trace.
MayTrace(c) == trace[c] = "none" /\ (c \in Adds => \A a \in Adds : ~UnderWay(a))

(****************************************************************************)
(* Trace.                                                                   *)
(****************************************************************************)
\* The switch: one atomic addition.
Count(c) ==
    /\ MayTrace(c)
    /\ trace' = [trace EXCEPT ![c] = "counted"]
    /\ faucets' = [faucets EXCEPT ![Type(c)] = @ + 1]
    /\ overlapped' = IF sampler = <<>> THEN overlapped ELSE overlapped \cup {c}
    /\ UNCHANGED <<skiplist, events, lock, sampler, samples, total>>

shouldSkip(c) ==
    /\ trace[c] = "counted" /\ ~lock
    /\ trace' = [trace EXCEPT ![c] = IF Type(c) \in skiplist THEN "done" ELSE "store"]
    /\ UNCHANGED <<skiplist, faucets, events, lock, sampler, samples, total, overlapped>>

\* debugEvent and the next tracer follow or precede; their effects are external.
storeEvent(c) ==
    /\ trace[c] = "store" /\ ~lock
    /\ trace' = [trace EXCEPT ![c] = "done"]
    /\ events' = events \cup {c}
    /\ UNCHANGED <<skiplist, faucets, lock, sampler, samples, total, overlapped>>

(****************************************************************************)
(* The sampler.                                                             *)
(****************************************************************************)
Steps == [i \in DOMAIN Order |-> <<"add", Order[i]>>]
         \o <<<<"reset", "">>>>
         \o [i \in DOMAIN Order |-> <<"set", Order[i]>>]

Sample ==
    /\ sampler = <<>> /\ samples < MaxSamples
    /\ samples' = samples + 1
    /\ sampler' = Steps
    /\ overlapped' = overlapped \cup {c \in Calls : UnderWay(c)}
    /\ UNCHANGED <<skiplist, trace, faucets, events, lock, total>>

At(step, t) == sampler # <<>> /\ Head(sampler) = <<step, t>> /\ sampler' = Tail(sampler)

\* traceFaucets.add, field by field.
add(t) ==
    /\ At("add", t)
    /\ total' = [total EXCEPT ![t] = @ + faucets[t]]
    /\ UNCHANGED <<skiplist, trace, faucets, events, lock, samples, overlapped>>

\* Mutant: the events stay.
ResetFaucets ==
    /\ At("reset", "")
    /\ lock' = TRUE
    /\ UNCHANGED <<skiplist, trace, faucets, events, samples, total, overlapped>>

\* Reset takes the lock and drops the events.
Reset ==
    /\ At("reset", "")
    /\ lock' = TRUE
    /\ events' = {}
    /\ UNCHANGED <<skiplist, trace, faucets, samples, total, overlapped>>

\* Mutant: the lock is given back after the first counter.
setUnlocked(t) ==
    /\ At("set", t)
    /\ faucets' = [faucets EXCEPT ![t] = 0]
    /\ lock' = FALSE
    /\ UNCHANGED <<skiplist, trace, events, samples, total, overlapped>>

\* traceFaucets.set, field by field; Reset unlocks when it returns.
set(t) ==
    /\ At("set", t)
    /\ faucets' = [faucets EXCEPT ![t] = 0]
    /\ lock' = (Tail(sampler) # <<>>)
    /\ UNCHANGED <<skiplist, trace, events, samples, total, overlapped>>

SamplerStep == Sample \/ Reset \/ \E t \in Types : add(t) \/ set(t)

TracerNext(calls) ==
    \/ SamplerStep
    \/ \E c \in calls : Count(c)
    \/ \E c \in Calls : shouldSkip(c) \/ storeEvent(c)

(****************************************************************************)
(* Properties.                                                              *)
(****************************************************************************)
TracerTypeOK ==
    /\ skiplist \subseteq Types
    /\ trace \in [Calls -> {"none", "counted", "store", "done"}]
    /\ faucets \in [Types -> Nat] /\ total \in [Types -> Nat]
    /\ events \subseteq Calls /\ overlapped \subseteq Calls
    /\ lock \in BOOLEAN
    /\ lock <=> (sampler # <<>> /\ Head(sampler)[1] = "set")
    /\ samples \in 0 .. MaxSamples

\* How far the counters may be from the truth, between two samples.  Against
\* the stored events a counter lags, and never leads, by at most the calls of
\* Trace that overlapped with a Reset.  The samples and the counter together
\* miss at most those calls, and nothing is counted twice, although neither
\* Trace nor the sampler holds the lock while it counts.
CountersLag ==
    sampler = <<>> =>
        \A t \in Types :
            LET Of(S)   == Cardinality({c \in S : Type(c) = t})
                waiting == {c \in Calls : UnderWay(c)}
                counted == {c \in Calls : trace[c] # "none"}
            IN  /\ t \notin skiplist =>
                       Of(events \cup waiting) - faucets[t] \in 0 .. Of(overlapped)
                /\ Of(counted) - (total[t] + faucets[t]) \in 0 .. Of(overlapped)
=============================================================================
