-------------------------- MODULE ValidationRouter --------------------------
(****************************************************************************)
(* Remote validation: ValidationRouterImpl of api/grpc/val_router.go and    *)
(* the verifier clients of api/grpc/client/verifier.go.  A call of PushWait *)
(* registers a channel under its message id, queues the message and waits;  *)
(* one of the connected verifiers takes it, judges it and sends a verdict   *)
(* back on its stream; the receiver resolves the id to a channel.           *)
(*                                                                          *)
(* A call stands for the message it queues.  Two calls may carry the same   *)
(* id: ids are hashes of the content, and a message may come again.         *)
(* The two directions of a gRPC stream are sequences that a break loses.    *)
(* A goroutine that ends with nothing left to do just takes no more steps.  *)
(****************************************************************************)
EXTENDS Integers, Sequences, FiniteSets

CONSTANTS
    Calls,    \* calls of PushWait
    Ids,      \* message ids
    Streams,  \* connections of verifiers, each made once
    None,     \* nil
    Answers,  \* what validators may answer
    QSize     \* capacity of the channel q

Off     == "off"     \* a goroutine that does not run, or has ended
Idle    == "idle"    \* a goroutine that waits for its next input
Absent  == "absent"  \* an id without an entry

ValQSize == 1        \* capacity of the verifier's valQ
Results == {"Accept", "Ignore", "Reject"}   \* pubsub.ValidationResult

ASSUME CallsAssumption == Calls \cap {None, Off, Idle, Absent} = {} /\ None \notin Results
\* proto.ValidationResult
ASSUME AnswersAssumption == Answers \subseteq {"NIL", "ACCEPT", "IGNORE", "REJECT"}
ASSUME QSizeAssumption == QSize \in Nat \ {0}


VARIABLES
    mid,      \* the id of the message of every call
    pc, ret,  \* where a call stands and what it returns
    results,  \* validationResults: no entry, nil, or the channel of a call
    q,        \* the messages that wait for a verifier
    fresh,    \* the streams that were never connected
    up,       \* the streams that are connected
    stopped,  \* the verifiers on which Stop was called
    handle,   \* Handle: its loop, and the message it is sending
    toClient, \* the stream towards the verifier
    recv,     \* the verifiers whose receiving goroutine runs
    valQ,     \* the verifier's queue
    toServer, \* the stream back: messages and verdicts
    resolve,  \* receiver: the call whose channel it looked up ...
    result,   \* ... and the result it has for it
    verdicts  \* history: every verdict that a verifier reached

callVars   == <<mid, pc, ret>>
clientVars == <<recv, valQ, verdicts>>
connVars   == <<fresh, up, stopped>>
rcvVars    == <<resolve, result>>
vars == <<callVars, results, q, connVars, handle, toClient, clientVars, toServer, rcvVars>>

PCs == {"new", "push", "park", "wait", "cancel", "done"}

\* Mutant: an answer without a value accepts.
ConvertDefaultAccept(a) == CASE a = "REJECT" -> "Reject"
                             [] a = "IGNORE" -> "Ignore"
                             [] OTHER -> "Accept"

\* convertResult: whatever is not a clear answer is ignored.
ConvertResult(a) == CASE a = "ACCEPT" -> "Accept"
                      [] a = "REJECT" -> "Reject"
                      [] OTHER -> "Ignore"

Init == /\ mid \in [Calls -> Ids]
        /\ pc = [c \in Calls |-> "new"]
        /\ ret = [c \in Calls |-> None]
        /\ results = [i \in Ids |-> Absent]
        /\ q = <<>>
        /\ fresh = Streams /\ up = {} /\ stopped = {}
        /\ handle = [s \in Streams |-> Off]
        /\ toClient = [s \in Streams |-> <<>>]
        /\ recv = {}
        /\ valQ = [s \in Streams |-> <<>>]
        /\ toServer = [s \in Streams |-> <<>>]
        /\ resolve = [s \in Streams |-> Idle]
        /\ result = [s \in Streams |-> "Ignore"]
        /\ verdicts = {}

(****************************************************************************)
(* PushWait.                                                                *)
(****************************************************************************)
\* results.add: a new channel, in place of any other under the id.
Add(c) == /\ pc[c] = "new"
          /\ results' = [results EXCEPT ![mid[c]] = c]
          /\ pc' = [pc EXCEPT ![c] = "push"]
          /\ UNCHANGED <<mid, ret, q, connVars, handle, toClient, clientVars, toServer, rcvVars>>

\* Mutant: the queue has no limit.
PushUnbounded(c) == /\ pc[c] = "push"
                    /\ q' = Append(q, c)
                    /\ pc' = [pc EXCEPT ![c] = "park"]
                    /\ UNCHANGED <<mid, ret, results, connVars, handle, toClient, clientVars, toServer, rcvVars>>

\* Mutant: a full queue returns before cancel was deferred.
PushForgets(c) == /\ pc[c] = "push"
                  /\ \/ /\ Len(q) < QSize
                        /\ q' = Append(q, c)
                        /\ pc' = [pc EXCEPT ![c] = "park"]
                        /\ UNCHANGED ret
                     \/ /\ Len(q) = QSize
                        /\ ret' = [ret EXCEPT ![c] = "Ignore"]
                        /\ pc' = [pc EXCEPT ![c] = "done"]
                        /\ UNCHANGED q
                  /\ UNCHANGED <<mid, results, connVars, handle, toClient, clientVars, toServer, rcvVars>>

\* The non-blocking send on q; a full queue means ValidationIgnore.
Push(c) == /\ pc[c] = "push"
           /\ \/ /\ Len(q) < QSize
                 /\ q' = Append(q, c)
                 /\ pc' = [pc EXCEPT ![c] = "park"]
                 /\ UNCHANGED ret
              \/ /\ Len(q) = QSize
                 /\ ret' = [ret EXCEPT ![c] = "Ignore"]
                 /\ pc' = [pc EXCEPT ![c] = "cancel"]
                 /\ UNCHANGED q
           /\ UNCHANGED <<mid, results, connVars, handle, toClient, clientVars, toServer, rcvVars>>

\* The second select: from now on the channel has a receiver.
Park(c) == /\ pc[c] = "park"
           /\ pc' = [pc EXCEPT ![c] = "wait"]
           /\ UNCHANGED <<mid, ret, results, q, connVars, handle, toClient, clientVars, toServer, rcvVars>>

\* ctx.Done(), five seconds after the handler was called.
Timeout(c) == /\ pc[c] = "wait"
              /\ ret' = [ret EXCEPT ![c] = "Ignore"]
              /\ pc' = [pc EXCEPT ![c] = "cancel"]
              /\ UNCHANGED <<mid, results, q, connVars, handle, toClient, clientVars, toServer, rcvVars>>

\* Mutant: cancel resets the map.
CancelAll(c) == /\ pc[c] = "cancel"
                /\ results' = [i \in Ids |-> Absent]
                /\ pc' = [pc EXCEPT ![c] = "done"]
                /\ UNCHANGED <<mid, ret, q, connVars, handle, toClient, clientVars, toServer, rcvVars>>

\* The deferred results.cancel: the entry of the id, whosever it is, is nil.
Cancel(c) == /\ pc[c] = "cancel"
             /\ results' = [results EXCEPT ![mid[c]] = IF @ = Absent THEN @ ELSE None]
             /\ pc' = [pc EXCEPT ![c] = "done"]
             /\ UNCHANGED <<mid, ret, q, connVars, handle, toClient, clientVars, toServer, rcvVars>>

(****************************************************************************)
(* A stream, on the server: Handle and receiver.                            *)
(****************************************************************************)
\* A verifier connects: Handle and its receiver run, and so does the client.
Connect(s) == /\ s \in fresh
              /\ fresh' = fresh \ {s}
              /\ up' = up \cup {s}
              /\ handle' = [handle EXCEPT ![s] = Idle]
              /\ recv' = recv \cup {s}
              /\ UNCHANGED <<callVars, results, q, stopped, toClient, valQ, verdicts, toServer, rcvVars>>

\* The connection is lost, with all that is on its way.
Break(s) == /\ s \in up
            /\ up' = up \ {s}
            /\ toClient' = [toClient EXCEPT ![s] = <<>>]
            /\ toServer' = [toServer EXCEPT ![s] = <<>>]
            /\ UNCHANGED <<callVars, results, q, fresh, stopped, handle, clientVars, rcvVars>>

\* Mutant: a message stays in the queue while it is sent.
HandlePeeks(s) == /\ handle[s] = Idle
                  /\ q # <<>>
                  /\ handle' = [handle EXCEPT ![s] = Head(q)]
                  /\ UNCHANGED <<callVars, results, q, connVars, toClient, clientVars, toServer, rcvVars>>

\* Handle takes a message; its select may prefer q to a context that is done.
HandleTakes(s) == /\ handle[s] = Idle
                  /\ q # <<>>
                  /\ handle' = [handle EXCEPT ![s] = Head(q)]
                  /\ q' = Tail(q)
                  /\ UNCHANGED <<callVars, results, connVars, toClient, clientVars, toServer, rcvVars>>

\* stream.Send: on a lost stream it fails, Handle returns, the message is gone.
HandleSends(s) == /\ handle[s] \in Calls
                  /\ \/ /\ s \in up
                        /\ toClient' = [toClient EXCEPT ![s] = Append(@, handle[s])]
                        /\ handle' = [handle EXCEPT ![s] = Idle]
                     \/ /\ s \notin up
                        /\ handle' = [handle EXCEPT ![s] = Off]
                        /\ UNCHANGED toClient
                  /\ UNCHANGED <<callVars, results, q, connVars, clientVars, toServer, rcvVars>>

\* stream.Context().Done().
HandleEnds(s) == /\ handle[s] = Idle /\ s \notin up
                 /\ handle' = [handle EXCEPT ![s] = Off]
                 /\ UNCHANGED <<callVars, results, q, connVars, toClient, clientVars, toServer, rcvVars>>

\* receiver: a verdict arrives and resolve looks the id up, under the lock.  An
\* answer without a message, which the receiver skips, is not sent by the
\* verifier client and left out.
Lookup(s) == /\ resolve[s] = Idle /\ toServer[s] # <<>>
             /\ LET answer == Head(toServer[s])
                    entry  == results[mid[answer[1]]]
                IN  \/ /\ entry \in Calls
                       /\ resolve' = [resolve EXCEPT ![s] = entry]
                       /\ result' = [result EXCEPT ![s] = ConvertResult(answer[2])]
                    \/ entry \notin Calls /\ UNCHANGED rcvVars
             /\ toServer' = [toServer EXCEPT ![s] = Tail(@)]
             /\ UNCHANGED <<callVars, results, q, connVars, handle, toClient, clientVars>>

\* resolve: the non-blocking send, after the lock was released.  The channel
\* is unbuffered: only a call that is parked receives.
Resolve(s) == /\ resolve[s] \in Calls
              /\ \/ /\ pc[resolve[s]] = "wait"
                    /\ ret' = [ret EXCEPT ![resolve[s]] = result[s]]
                    /\ pc' = [pc EXCEPT ![resolve[s]] = "cancel"]
                 \/ pc[resolve[s]] # "wait" /\ UNCHANGED <<pc, ret>>
              /\ resolve' = [resolve EXCEPT ![s] = Idle]
              /\ UNCHANGED <<mid, results, q, connVars, handle, toClient, clientVars, toServer, result>>

(****************************************************************************)
(* The verifier at the other end.                                           *)
(****************************************************************************)
\* Stop closes the thread control; the stream stays as it is.
Stop(s) == /\ s \notin fresh \cup stopped
           /\ stopped' = stopped \cup {s}
           /\ UNCHANGED <<callVars, results, q, fresh, up, handle, toClient, clientVars, toServer, rcvVars>>

\* The goroutine of Start receives a message and blocks until valQ has room.
\* It may still do so after Stop: its context is cancelled some time later.
ClientReceives(s) == /\ s \in recv
                     /\ toClient[s] # <<>> /\ Len(valQ[s]) < ValQSize
                     /\ valQ' = [valQ EXCEPT ![s] = Append(@, Head(toClient[s]))]
                     /\ toClient' = [toClient EXCEPT ![s] = Tail(@)]
                     /\ UNCHANGED <<callVars, results, q, connVars, handle, recv, verdicts, toServer, rcvVars>>

\* After a Stop it ends with the message it receives next, or still has.
ClientEnds(s) == /\ s \in recv \cap stopped
                 /\ toClient[s] # <<>>
                 /\ recv' = recv \ {s}
                 /\ toClient' = [toClient EXCEPT ![s] = Tail(@)]
                 /\ UNCHANGED <<callVars, results, q, connVars, handle, valQ, verdicts, toServer, rcvVars>>

\* The loop of Start takes the next message, the validator judges it, and the
\* verdict is sent; an error of Send is ignored.
Process(s) == /\ valQ[s] # <<>>
              /\ \E a \in Answers :
                    /\ verdicts' = verdicts \cup {<<Head(valQ[s]), a>>}
                    /\ toServer' = IF s \in up
                                   THEN [toServer EXCEPT ![s] = Append(@, <<Head(valQ[s]), a>>)]
                                   ELSE toServer
              /\ valQ' = [valQ EXCEPT ![s] = Tail(@)]
              /\ UNCHANGED <<callVars, results, q, connVars, handle, toClient, recv, rcvVars>>

CallStep(c) == Push(c) \/ Park(c) \/ Timeout(c) \/ Cancel(c)
ServerStep(s) == HandleTakes(s) \/ HandleSends(s) \/ HandleEnds(s) \/ Lookup(s) \/ Resolve(s)
ClientStep(s) == ClientReceives(s) \/ ClientEnds(s) \/ Process(s)

Next == \/ \E c \in Calls : Add(c) \/ CallStep(c)
        \/ \E s \in Streams : Connect(s) \/ Break(s) \/ Stop(s) \/ ServerStep(s) \/ ClientStep(s)

Spec == Init /\ [][Next]_vars

(****************************************************************************)
(* Properties.                                                              *)
(****************************************************************************)
\* Every variable keeps its type.
TypeOK ==
    /\ mid \in [Calls -> Ids] /\ pc \in [Calls -> PCs] /\ ret \in [Calls -> Results \cup {None}]
    /\ results \in [Ids -> Calls \cup {None, Absent}]
    /\ q \in Seq(Calls) /\ Len(q) <= QSize
    /\ fresh \subseteq Streams /\ up \subseteq Streams \ fresh /\ stopped \subseteq Streams \ fresh
    /\ handle \in [Streams -> Calls \cup {Off, Idle}]
    /\ recv \subseteq Streams
    /\ resolve \in [Streams -> Calls \cup {Idle}]
    /\ result \in [Streams -> Results]
    /\ toClient \in [Streams -> Seq(Calls)]
    /\ valQ \in [Streams -> Seq(Calls)] /\ \A s \in Streams : Len(valQ[s]) <= ValQSize
    /\ toServer \in [Streams -> Seq(Calls \X Answers)]
    /\ verdicts \subseteq Calls \X Answers

\* Some verifier gave this answer for a message with this id.
Judged(i, a) == \E c \in Calls : mid[c] = i /\ <<c, a>> \in verdicts

\* Validation fails closed: PushWait reports Accept or Reject only after a
\* verifier said just that of a message with this very id.  A full queue, an
\* expired context, a lost stream or a stopped verifier never let one through.
FailClosed ==
    \A c \in Calls : /\ ret[c] = "Accept" => Judged(mid[c], "ACCEPT")
                     /\ ret[c] = "Reject" => Judged(mid[c], "REJECT")

\* An entry of the results map belongs to a call that is still in PushWait:
\* every way out of PushWait clears it, so that no late verdict is kept for a
\* call that is gone.
NoDanglingWaiter ==
    \A i \in Ids : results[i] \in Calls =>
        mid[results[i]] = i /\ pc[results[i]] \notin {"new", "done"}

\* A call that waits is found under its id, as long as no other call with
\* that id was made ("TODO: handle duplicated msg id").
WaiterIsRegistered ==
    \A c \in Calls : pc[c] \in {"push", "park", "wait"} =>
        \/ results[mid[c]] = c
        \/ \E d \in Calls \ {c} : mid[d] = mid[c] /\ pc[d] # "new"

\* Where the message of a call is, in a sequence, with a stream, and at all.
Positions(c, s) == {i \in DOMAIN s : s[i] = c}
WithStream(c, s) == {<<"toClient", s, i>> : i \in Positions(c, toClient[s])}
                    \cup {<<"valQ", s, i>> : i \in Positions(c, valQ[s])}
Places(c) == {<<"q", i>> : i \in Positions(c, q)}
             \cup {<<"handle", s>> : s \in {s \in Streams : handle[s] = c}}
             \cup UNION {WithStream(c, s) : s \in Streams}

\* A message is with one verifier at most, however many are connected, and a
\* message that was judged is with none: each gets at most one verdict.
JudgedOnce ==
    \A c \in Calls : /\ Cardinality(Places(c)) <= 1
                     /\ Cardinality({v \in verdicts : v[1] = c}) <= 1
                     /\ (\E v \in verdicts : v[1] = c) => Places(c) = {}
=============================================================================
