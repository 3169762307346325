---------------------------- MODULE TopicManager ----------------------------
(****************************************************************************)
(* The topic registry of core/topic.go and the controller's operations on   *)
(* topics (core/pubsub.go).  Every call runs in a goroutine of its own, as  *)
(* the gRPC server runs the handlers of api/grpc/control.go; a step is one  *)
(* access to shared state.  Whatever a call creates, the wrapper it         *)
(* registers, the topic handle it joins, the subscription or the relay it   *)
(* opens, is named after the call.                                          *)
(*                                                                          *)
(* libp2p pubsub is outside the repository: its tables (joined topics,      *)
(* subscriptions, relays, validators) are modelled as the code uses them.   *)
(****************************************************************************)
EXTENDS Integers, FiniteSets

CONSTANTS
    Calls,         \* calls of the operations below
    None,          \* nil
    Topics,
    Scripts,       \* the operation of every call: one of these functions
    Filters,       \* the subscription filters: what one of them refuses
    HasValidator,  \* the configuration has a MsgValidator
    Widths         \* how many calls may run at once: one of these

Operations == {"Publish", "Subscribe", "Relay", "Leave", "Unsubscribe", "Unrelay"}

ASSUME CallsAssumption == None \notin Calls
ASSUME ScriptsAssumption == Scripts \subseteq [Calls -> Operations]
ASSUME ConfigAssumption == /\ Filters \subseteq SUBSET Topics
                           /\ Widths \subseteq Nat /\ HasValidator \in BOOLEAN

VARIABLES
    denied,       \* the topics the subscription filter refuses
    inFlight,     \* how many calls may run at once
    pc, op, name, \* where a call stands, its operation and its topic
    wrapper,      \* the *topicWrapper it looked up
    topic,        \* the *pubsub.Topic that tryJoin gave it
    ret,          \* what it returned
    topics,       \* topicManager.topics: the wrapper of every topic
    lock,         \* the call that holds topicManager.lock between two steps
    state,        \* topicWrapper.state
    twTopic,      \* topicWrapper.topic
    twSub,        \* topicWrapper.sub
    twRelay,      \* topicWrapper.relayCancelFn
    listeners,    \* subscriptions with a listenSubscription goroutine
    stopped,      \* Controller.Close has ended the contexts of these goroutines
    myTopics,     \* pubsub: the open handle of every joined topic
    closed,       \* pubsub: the handles that were closed
    subs,         \* pubsub: the live subscriptions
    relays,       \* pubsub: the live relays
    validators,   \* pubsub: the topics with a registered validator
    crashed       \* a nil pointer was dereferenced: the process is gone

callVars == <<op, name, wrapper, topic>>
twVars   == <<state, twTopic, twSub, twRelay>>
psVars   == <<myTopics, closed, subs, relays, validators>>
vars == <<denied, inFlight, pc, callVars, ret, topics, lock, twVars, listeners, stopped, psVars, crashed>>

PCs == {"new", "get", "tryJoin", "joining", "join", "upgrade", "assign", "validate",
        "use", "subscribe", "addSub", "listen", "setRelay", "load", "close",
        "left", "leaveErr", "cancel", "done"}
Rets   == {"none", "ok", "err", "joining", "already"}
States == {"none", "Joining", "Joined", "Unknown", "Err"}
Joins  == {"Publish", "Subscribe", "Relay"}      \* the operations that call tryJoin

Init == /\ denied \in Filters
        /\ inFlight \in Widths
        /\ pc = [c \in Calls |-> "new"]
        /\ op \in Scripts
        /\ name \in [Calls -> Topics]
        /\ wrapper = [c \in Calls |-> None]
        /\ topic = [c \in Calls |-> None]
        /\ ret = [c \in Calls |-> "none"]
        /\ topics = [t \in Topics |-> None]
        /\ lock = None
        /\ state = [c \in Calls |-> "none"]
        /\ twTopic = [c \in Calls |-> None]
        /\ twSub = [c \in Calls |-> None]
        /\ twRelay = [c \in Calls |-> None]
        /\ listeners = {} /\ stopped = FALSE
        /\ myTopics = [t \in Topics |-> None]
        /\ closed = {} /\ subs = {} /\ relays = {} /\ validators = {}
        /\ crashed = FALSE

(****************************************************************************)
(* How a step of a call ends.                                               *)
(****************************************************************************)
At(c, p)     == ~crashed /\ pc[c] = p
Goto(c, p)   == pc' = [pc EXCEPT ![c] = p] /\ UNCHANGED <<ret, crashed>>
Return(c, r) == /\ pc' = [pc EXCEPT ![c] = "done"]
                /\ ret' = [ret EXCEPT ![c] = r]
                /\ UNCHANGED crashed
Crash        == crashed' = TRUE /\ UNCHANGED <<pc, ret>>

Unlocked == lock = None
Of(t, S) == {c \in S : name[c] = t}

Begin(c) == /\ At(c, "new")
            /\ Cardinality({d \in Calls : pc[d] \notin {"new", "done"}}) < inFlight
            /\ Goto(c, "get")
            /\ UNCHANGED <<callVars, topics, lock, twVars, listeners, psVars>>

\* getTopicWrapper.  Leave, Unsubscribe and Unrelay do not expect nil.
GetTopicWrapper(c) ==
    /\ At(c, "get") /\ Unlocked
    /\ LET w == topics[name[c]]
       IN  /\ wrapper' = [wrapper EXCEPT ![c] = w]
           /\ \/ op[c] \in Joins /\ Goto(c, IF w = None THEN "joining" ELSE "tryJoin")
              \/ op[c] \notin Joins /\ w # None /\ Goto(c, "load")
              \/ op[c] \notin Joins /\ w = None /\ Crash
    /\ UNCHANGED <<op, name, topic, topics, lock, twVars, listeners, psVars>>

(****************************************************************************)
(* tryJoin.                                                                 *)
(****************************************************************************)
\* The wrapper exists: "already tring to join topic", or its topic.
KnownTopic(c) ==
    /\ At(c, "tryJoin")
    /\ \/ /\ state[wrapper[c]] = "Joining"
          /\ Return(c, "joining") /\ UNCHANGED topic
       \/ /\ state[wrapper[c]] # "Joining"
          /\ topic' = [topic EXCEPT ![c] = twTopic[wrapper[c]]]
          /\ Goto(c, "use")
    /\ UNCHANGED <<op, name, wrapper, topics, lock, twVars, listeners, psVars>>

\* Mutant: the new wrapper is registered in its zero state.
JoiningTopicZero(c) ==
    /\ At(c, "joining") /\ Unlocked
    /\ topics' = [topics EXCEPT ![name[c]] = c]
    /\ state' = [state EXCEPT ![c] = "Unknown"]
    /\ Goto(c, "join")
    /\ UNCHANGED <<callVars, lock, twTopic, twSub, twRelay, listeners, psVars>>

\* joiningTopic: a new wrapper replaces whatever the registry has.
JoiningTopic(c) ==
    /\ At(c, "joining") /\ Unlocked
    /\ topics' = [topics EXCEPT ![name[c]] = c]
    /\ state' = [state EXCEPT ![c] = "Joining"]
    /\ Goto(c, "join")
    /\ UNCHANGED <<callVars, lock, twTopic, twSub, twRelay, listeners, psVars>>

\* pubsub.Join fails on a topic that is joined already or that the filter
\* refuses; tryJoin then returns and leaves its wrapper behind.
Join(c) ==
    /\ At(c, "join")
    /\ \/ /\ name[c] \notin denied /\ myTopics[name[c]] = None
          /\ myTopics' = [myTopics EXCEPT ![name[c]] = c]
          /\ Goto(c, "upgrade")
       \/ /\ name[c] \in denied \/ myTopics[name[c]] # None
          /\ Return(c, "err") /\ UNCHANGED myTopics
    /\ UNCHANGED <<callVars, topics, lock, twVars, listeners, closed, subs, relays, validators>>

\* Mutant: the state is swapped without the lock.
UpgradeTopicUnlocked(c) ==
    /\ At(c, "upgrade") /\ Unlocked
    /\ LET w == topics[name[c]]
       IN  \/ /\ w # None /\ state[w] = "Joining"
              /\ state' = [state EXCEPT ![w] = "Joined"]
              /\ Goto(c, "assign")
           \/ /\ w = None \/ state[w] # "Joining"
              /\ Goto(c, "validate") /\ UNCHANGED state
    /\ UNCHANGED <<callVars, topics, lock, twTopic, twSub, twRelay, listeners, psVars>>

\* upgradeTopic takes the lock and swaps the state; its result is not used.
UpgradeTopic(c) ==
    /\ At(c, "upgrade") /\ Unlocked
    /\ LET w == topics[name[c]]
       IN  \/ /\ w # None /\ state[w] = "Joining"
              /\ state' = [state EXCEPT ![w] = "Joined"]
              /\ lock' = c
              /\ Goto(c, "assign")
           \/ /\ w = None \/ state[w] # "Joining"
              /\ Goto(c, "validate") /\ UNCHANGED <<state, lock>>
    /\ UNCHANGED <<callVars, topics, twTopic, twSub, twRelay, listeners, psVars>>

\* Mutant: upgradeTopic returns without unlocking.
AssignTopicLocked(c) ==
    /\ At(c, "assign")
    /\ twTopic' = [twTopic EXCEPT ![topics[name[c]]] = c]
    /\ Goto(c, "validate")
    /\ UNCHANGED <<callVars, topics, lock, state, twSub, twRelay, listeners, psVars>>

\* upgradeTopic: tw.topic = topic, and the lock is given back.
AssignTopic(c) ==
    /\ At(c, "assign")
    /\ twTopic' = [twTopic EXCEPT ![topics[name[c]]] = c]
    /\ lock' = None
    /\ Goto(c, "validate")
    /\ UNCHANGED <<callVars, topics, state, twSub, twRelay, listeners, psVars>>

\* Mutant: the validator is only registered for topics of their own config.
RegisterNoValidator(c) ==
    /\ At(c, "validate")
    /\ topic' = [topic EXCEPT ![c] = c]
    /\ Goto(c, "use")
    /\ UNCHANGED <<op, name, wrapper, topics, lock, twVars, listeners, psVars>>

\* RegisterTopicValidator, when the configuration asks for one.
RegisterValidator(c) ==
    /\ At(c, "validate")
    /\ topic' = [topic EXCEPT ![c] = c]
    /\ \/ /\ HasValidator /\ name[c] \in validators
          /\ Return(c, "err") /\ UNCHANGED validators
       \/ /\ HasValidator /\ name[c] \notin validators
          /\ validators' = validators \cup {name[c]}
          /\ Goto(c, "use")
       \/ ~HasValidator /\ Goto(c, "use") /\ UNCHANGED validators
    /\ UNCHANGED <<op, name, wrapper, topics, lock, twVars, listeners, myTopics, closed, subs, relays>>

(****************************************************************************)
(* Publish, Subscribe and Relay, once they have a topic.                    *)
(****************************************************************************)
\* The handle is nil, usable, or closed (ErrTopicClosed).
Usable(c) == topic[c] # None /\ topic[c] \notin closed

Publish(c) ==
    /\ At(c, "use") /\ op[c] = "Publish"
    /\ \/ topic[c] = None /\ Crash
       \/ topic[c] # None /\ Return(c, IF Usable(c) THEN "ok" ELSE "err")
    /\ UNCHANGED <<callVars, topics, lock, twVars, listeners, psVars>>

\* trySubscribe: getSub decides whether the topic is "already subscribed".
GetSub(c) ==
    /\ At(c, "use") /\ op[c] = "Subscribe" /\ Unlocked
    /\ \/ topic[c] = None /\ Crash
       \/ topic[c] # None /\ twSub[topics[name[c]]] # None /\ Return(c, "already")
       \/ topic[c] # None /\ twSub[topics[name[c]]] = None /\ Goto(c, "subscribe")
    /\ UNCHANGED <<callVars, topics, lock, twVars, listeners, psVars>>

TopicSubscribe(c) ==
    /\ At(c, "subscribe")
    /\ \/ Usable(c) /\ subs' = subs \cup {c} /\ Goto(c, "addSub")
       \/ ~Usable(c) /\ Return(c, "err") /\ UNCHANGED subs
    /\ UNCHANGED <<callVars, topics, lock, twVars, listeners, myTopics, closed, relays, validators>>

\* Mutant: Subscribe returns without a listener.
AddSubOnly(c) ==
    /\ At(c, "addSub") /\ Unlocked
    /\ twSub' = [twSub EXCEPT ![topics[name[c]]] = c]
    /\ Return(c, "ok")
    /\ UNCHANGED <<callVars, topics, lock, state, twTopic, twRelay, listeners, psVars>>

AddSub(c) ==
    /\ At(c, "addSub") /\ Unlocked
    /\ twSub' = [twSub EXCEPT ![topics[name[c]]] = c]
    /\ Goto(c, "listen")
    /\ UNCHANGED <<callVars, topics, lock, state, twTopic, twRelay, listeners, psVars>>

\* threadControl.Go(listenSubscription).
Listen(c) ==
    /\ At(c, "listen")
    /\ listeners' = listeners \cup {c}
    /\ Return(c, "ok")
    /\ UNCHANGED <<callVars, topics, lock, twVars, psVars>>

\* Controller.Close: the context of every listener ends.  The subscriptions
\* stay open, and a Subscribe that is under way still starts its listener.
ThreadsStop ==
    /\ ~crashed /\ ~stopped
    /\ stopped' = TRUE
    /\ UNCHANGED <<pc, callVars, ret, topics, lock, twVars, listeners, psVars, crashed>>

\* sub.Next reports ErrSubscriptionCancelled, or the context has ended.
ListenerExits(c) ==
    /\ ~crashed /\ c \in listeners
    /\ c \notin subs \/ stopped
    /\ listeners' = listeners \ {c}
    /\ UNCHANGED <<pc, callVars, ret, topics, lock, twVars, psVars, crashed>>

TopicRelay(c) ==
    /\ At(c, "use") /\ op[c] = "Relay"
    /\ \/ topic[c] = None /\ Crash /\ UNCHANGED relays
       \/ topic[c] # None /\ ~Usable(c) /\ Return(c, "err") /\ UNCHANGED relays
       \/ Usable(c) /\ relays' = relays \cup {c} /\ Goto(c, "setRelay")
    /\ UNCHANGED <<callVars, topics, lock, twVars, listeners, myTopics, closed, subs, validators>>

SetTopicRelayCancelFn(c) ==
    /\ At(c, "setRelay") /\ Unlocked
    /\ twRelay' = [twRelay EXCEPT ![topics[name[c]]] = c]
    /\ Return(c, "ok")
    /\ UNCHANGED <<callVars, topics, lock, state, twTopic, twSub, listeners, psVars>>

(****************************************************************************)
(* Leave, Unsubscribe and Unrelay.                                          *)
(****************************************************************************)
\* state.Load() decides whether there is anything to do.
LoadState(c) ==
    /\ At(c, "load")
    /\ LET s == state[wrapper[c]]
       IN  \/ op[c] = "Leave" /\ s \in {"Joined", "Err"} /\ Goto(c, "close")
           \/ op[c] = "Leave" /\ s \notin {"Joined", "Err"} /\ Return(c, "ok")
           \/ op[c] # "Leave" /\ s # "Unknown" /\ Goto(c, "cancel")
           \/ op[c] # "Leave" /\ s = "Unknown" /\ Return(c, "ok")
    /\ UNCHANGED <<callVars, topics, lock, twVars, listeners, psVars>>

\* Leave: topic.Close() refuses while a subscription or a relay is open.
CloseTopic(c) ==
    /\ At(c, "close")
    /\ LET h == twTopic[wrapper[c]]
           t == name[c]
       IN  \/ h = None /\ Crash /\ UNCHANGED <<myTopics, closed>>
           \/ h # None /\ h \in closed /\ Goto(c, "left") /\ UNCHANGED <<myTopics, closed>>
           \/ /\ h # None /\ h \notin closed
              /\ Of(t, subs \cup relays) # {}
              /\ Goto(c, "leaveErr") /\ UNCHANGED <<myTopics, closed>>
           \/ /\ h # None /\ h \notin closed
              /\ Of(t, subs \cup relays) = {}
              /\ closed' = closed \cup {h}
              /\ myTopics' = [myTopics EXCEPT ![t] = None]
              /\ Goto(c, "left")
    /\ UNCHANGED <<callVars, topics, lock, twVars, listeners, subs, relays, validators>>

\* Mutant: the error of Close is not looked at.
StoreStateUnknown(c) ==
    /\ At(c, "left") \/ At(c, "leaveErr")
    /\ state' = [state EXCEPT ![wrapper[c]] = "Unknown"]
    /\ Return(c, "ok")
    /\ UNCHANGED <<callVars, topics, lock, twTopic, twSub, twRelay, listeners, psVars>>

\* Leave: the state follows the outcome of Close.
StoreState(c) ==
    /\ \/ /\ At(c, "left")
          /\ state' = [state EXCEPT ![wrapper[c]] = "Unknown"]
          /\ Return(c, "ok")
       \/ /\ At(c, "leaveErr")
          /\ state' = [state EXCEPT ![wrapper[c]] = "Err"]
          /\ Return(c, "err")
    /\ UNCHANGED <<callVars, topics, lock, twTopic, twSub, twRelay, listeners, psVars>>

\* tw.sub.Cancel(): the wrapper keeps the cancelled subscription.
CancelSub(c) ==
    /\ At(c, "cancel") /\ op[c] = "Unsubscribe"
    /\ LET s == twSub[wrapper[c]]
       IN  \/ s = None /\ Crash /\ UNCHANGED subs
           \/ s # None /\ subs' = subs \ {s} /\ Return(c, "ok")
    /\ UNCHANGED <<callVars, topics, lock, twVars, listeners, myTopics, closed, relays, validators>>

\* tw.relayCancelFn().
CancelRelay(c) ==
    /\ At(c, "cancel") /\ op[c] = "Unrelay"
    /\ LET r == twRelay[wrapper[c]]
       IN  \/ r = None /\ Crash /\ UNCHANGED relays
           \/ r # None /\ relays' = relays \ {r} /\ Return(c, "ok")
    /\ UNCHANGED <<callVars, topics, lock, twVars, listeners, myTopics, closed, subs, validators>>

CallStep(c) == \/ GetTopicWrapper(c) \/ KnownTopic(c) \/ JoiningTopic(c) \/ Join(c)
               \/ UpgradeTopic(c) \/ AssignTopic(c) \/ RegisterValidator(c)
               \/ Publish(c) \/ GetSub(c) \/ TopicSubscribe(c) \/ AddSub(c) \/ Listen(c)
               \/ TopicRelay(c) \/ SetTopicRelayCancelFn(c)
               \/ LoadState(c) \/ CloseTopic(c) \/ StoreState(c)
               \/ CancelSub(c) \/ CancelRelay(c)

Next == /\ \/ /\ \E c \in Calls : Begin(c) \/ CallStep(c) \/ ListenerExits(c)
              /\ UNCHANGED stopped
           \/ ThreadsStop
        /\ UNCHANGED <<denied, inFlight>>

\* Goroutines that can run do; nobody has to make a call.
Fairness == \A c \in Calls : /\ WF_vars(CallStep(c) /\ UNCHANGED <<denied, inFlight, stopped>>)
                              /\ WF_vars(ListenerExits(c) /\ UNCHANGED <<denied, inFlight, stopped>>)

Spec == Init /\ [][Next]_vars
FairSpec == Spec /\ Fairness

(****************************************************************************)
(* Properties that hold however calls overlap.                              *)
(****************************************************************************)
\* Every variable keeps its type, and only a call inside upgradeTopic holds
\* the lock from one step to the next.
TypeOK ==
    /\ denied \in Filters /\ inFlight \in Widths
    /\ pc \in [Calls -> PCs] /\ op \in Scripts /\ name \in [Calls -> Topics]
    /\ wrapper \in [Calls -> Calls \cup {None}] /\ topic \in [Calls -> Calls \cup {None}]
    /\ ret \in [Calls -> Rets]
    /\ topics \in [Topics -> Calls \cup {None}]
    /\ lock \in {None} \cup {c \in Calls : pc[c] = "assign"}
    /\ state \in [Calls -> States]
    /\ twTopic \in [Calls -> Calls \cup {None}]
    /\ twSub \in [Calls -> Calls \cup {None}]
    /\ twRelay \in [Calls -> Calls \cup {None}]
    /\ myTopics \in [Topics -> Calls \cup {None}]
    /\ listeners \subseteq Calls /\ closed \subseteq Calls
    /\ subs \subseteq Calls /\ relays \subseteq Calls
    /\ validators \subseteq Topics
    /\ stopped \in BOOLEAN /\ crashed \in BOOLEAN

\* tryJoin ignores what upgradeTopic reports.  It may: the joiner always finds
\* a wrapper in state Joining, its own or one that overwrote it, as long as no
\* Leave closes the topic between a join and the upgrade.
UpgradeSucceeds ==
    \A c \in Calls : pc[c] = "upgrade" =>
        \/ topics[name[c]] # None /\ state[topics[name[c]]] = "Joining"
        \/ Of(name[c], closed) # {}

\* A wrapper that is past Joining has its topic handle, except while the call
\* that upgrades it is inside upgradeTopic; no two wrappers share a handle.
HandlesInPlace ==
    /\ \A w \in Calls : state[w] \notin {"none", "Joining"} =>
          twTopic[w] # None \/ (lock # None /\ topics[name[lock]] = w)
    /\ \A v, w \in Calls : twTopic[v] = twTopic[w] /\ twTopic[v] # None => v = w

\* Until the controller is closed a live subscription is being read: its
\* listener runs or its call is about to start it, whatever other calls have
\* done to the topic and its wrapper.  Close ends the listeners and leaves
\* the subscriptions open, so nothing is said of them from then on.
EverySubHasListener ==
    ~stopped => \A s \in subs : s \in listeners \/ pc[s] \in {"addSub", "listen"}

\* tryJoin upgrades the topic before it registers the validator, so others may
\* subscribe to a topic without one; the joiner is then about to register it.
ValidatedSoon ==
    HasValidator => \A s \in subs : \/ name[s] \in validators
                                    \/ \E c \in Calls : name[c] = name[s] /\ pc[c] = "validate"

\* A call that has begun returns, unless the process is gone: no path keeps
\* the lock of the registry.
CallsReturn == \A c \in Calls : pc[c] = "get" ~> (pc[c] = "done" \/ crashed)

(****************************************************************************)
(* What holds when calls come one after the other.                          *)
(****************************************************************************)
\* Unsubscribe reaches every live subscription: the wrapper of the topic has it.
SubsCancellable ==
    \A s \in subs : pc[s] = "addSub" \/ twSub[topics[name[s]]] = s

\* No call is between two of its changes to the topic.
Settled(t) == \A c \in Calls : name[c] = t => pc[c] \notin {"upgrade", "assign", "left"}

\* The state follows the handle: a topic that is Joined, or that failed to
\* close, is open in pubsub under the wrapper's handle, any other is not; one
\* that was left has a closed handle and nothing that still uses it.
StateAgrees ==
    \A t \in Topics : topics[t] # None /\ Settled(t) =>
        LET w == topics[t]
        IN  /\ state[w] \in {"Joined", "Err"} => myTopics[t] # None /\ myTopics[t] = twTopic[w]
            /\ state[w] \notin {"Joined", "Err"} => myTopics[t] = None
            /\ state[w] = "Unknown" => twTopic[w] \in closed /\ Of(t, subs \cup relays) = {}

\* Publish, Subscribe and Relay never bring the process down.
JoinsAreSafe == crashed => \E c \in Calls : op[c] \notin Joins /\ pc[c] \in {"get", "cancel"}

\* A controller whose callers wait for each call to return keeps registry and
\* pubsub in step: subscriptions can be cancelled, states follow handles, and
\* no join finds a nil handle.
InStep == inFlight = 1 => SubsCancellable /\ StateAgrees /\ JoinsAreSafe

(****************************************************************************)
(* What comments and callers in the repository take for granted.            *)
(****************************************************************************)
\* tryJoin answers "already tring to join topic" and examples/don/localdon.go
\* carries on: a topic in state Joining has a call that is joining it.
JoiningHasJoiner ==
    \A t \in Topics : topics[t] # None /\ state[topics[t]] = "Joining" =>
        \E c \in Calls : name[c] = t /\ pc[c] \in {"join", "upgrade"}

\* Subscribe returns nil because the topic is "already subscribed": when it
\* does, and no other call is running, the topic has a live subscription.
AlreadyMeansLive ==
    [][\A c \in Calls : ret'[c] = "already" /\ ret[c] # "already" =>
          Of(name[c], subs) # {}]_vars
=============================================================================
