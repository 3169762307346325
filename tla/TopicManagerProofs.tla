------------------------- MODULE TopicManagerProofs -------------------------
(****************************************************************************)
(* Proofs about TopicManager, for any number of calls, topics and overlaps. *)
(*                                                                          *)
(* None of the properties is inductive.  What they need besides: which      *)
(* wrapper a call, a topic and a handle belong to, and that the lock keeps  *)
(* the registry as it is for the call that upgrades a topic (Linked), which *)
(* call opened the handle of a topic nobody closed (Opened), and that a     *)
(* handle can only be obtained from a topic whose joiner is registering the *)
(* validator (Guarded).  For calls that come one after the other, SeqInv    *)
(* adds what the registry looks like at each step of the one that runs.     *)
(****************************************************************************)
EXTENDS TopicManager, FiniteSetTheorems, TLAPS

\* A call has a wrapper while it uses one; wrappers, handles and calls agree
\* on the topic; a handle is stored by the call that joined it, once.
Early == {"new", "get", "tryJoin", "joining", "join", "upgrade", "assign"}

Linked ==
    /\ \A c \in Calls : pc[c] \in {"tryJoin", "load", "close", "left", "leaveErr", "cancel"} =>
          wrapper[c] # None
    /\ \A c \in Calls : pc[c] \in {"left", "leaveErr"} => twTopic[wrapper[c]] # None
    /\ \A t \in Topics : topics[t] # None => name[topics[t]] = t /\ state[topics[t]] # "none"
    /\ \A c \in Calls : wrapper[c] # None => name[wrapper[c]] = name[c]
    /\ \A w \in Calls : twTopic[w] # None => name[twTopic[w]] = name[w] /\ pc[twTopic[w]] \notin Early
    /\ \A c \in Calls : pc[c] \in {"join", "upgrade", "assign"} => topics[name[c]] # None
    /\ \A c \in Calls : pc[c] = "assign" => lock = c

\* While no handle of a topic has been closed, the open one is the handle of
\* the call that is upgrading the topic or of the wrapper that was upgraded.
Opened ==
    /\ \A c \in Calls : pc[c] \in {"upgrade", "assign"} =>
          myTopics[name[c]] = c \/ Of(name[c], closed) # {}
    /\ \A w \in Calls : twTopic[w] # None =>
          myTopics[name[w]] = twTopic[w] \/ Of(name[w], closed) # {}
    /\ \A w \in Calls : state[w] \notin {"none", "Joining"} =>
          myTopics[name[w]] # None \/ Of(name[w], closed) # {}

\* The topic has its validator, or a joiner is about to register it.
Exposed(t) == HasValidator => \/ t \in validators
                              \/ \E c \in Calls : name[c] = t /\ pc[c] = "validate"

Guarded ==
    /\ \A w \in Calls : twTopic[w] # None => Exposed(name[w])
    /\ \A c \in Calls : topic[c] # None => Exposed(name[c])
    /\ \A s \in subs : Exposed(name[s])

IndInv == TypeOK /\ Linked /\ HandlesInPlace /\ Opened /\ UpgradeSucceeds
                 /\ EverySubHasListener /\ Guarded

LEMMA InitInv == Init => IndInv
<1> SUFFICES ASSUME Init PROVE IndInv
    OBVIOUS
<1>1. TypeOK
    BY DEF Init, TypeOK, PCs, Rets, States
<1>2. Linked
    BY DEF Init, Linked
<1>3. HandlesInPlace
    BY DEF Init, HandlesInPlace
<1>4. Opened
    BY DEF Init, Opened
<1>5. UpgradeSucceeds
    BY DEF Init, UpgradeSucceeds
<1>6. EverySubHasListener /\ Guarded
    BY DEF Init, EverySubHasListener, Guarded
<1> QED
    BY <1>1, <1>2, <1>3, <1>4, <1>5, <1>6 DEF IndInv

\* Types, and the one call that keeps the lock, are preserved.
LEMMA TypeStep == ASSUME TypeOK, Linked, [Next]_vars PROVE TypeOK'
<1>0. denied' \in Filters /\ inFlight' \in Widths /\ stopped' \in BOOLEAN
    BY DEF TypeOK, Next, ThreadsStop, vars
<1> USE <1>0 DEF TypeOK, PCs, Rets, At, Goto, Return, Crash, callVars, twVars, psVars
<1>1. CASE UNCHANGED vars
    BY <1>1 DEF vars
<1>2. ASSUME NEW c \in Calls, Begin(c) PROVE TypeOK'
    BY <1>2 DEF Begin
<1>3. ASSUME NEW c \in Calls, GetTopicWrapper(c) PROVE TypeOK'
    BY <1>3 DEF GetTopicWrapper
<1>4. ASSUME NEW c \in Calls, KnownTopic(c) PROVE TypeOK'
    BY <1>4 DEF KnownTopic, Linked
<1>5. ASSUME NEW c \in Calls, JoiningTopic(c) PROVE TypeOK'
    BY <1>5 DEF JoiningTopic, States
<1>6. ASSUME NEW c \in Calls, Join(c) PROVE TypeOK'
    BY <1>6, SMTT(30) DEF Join
<1>7. ASSUME NEW c \in Calls, UpgradeTopic(c) PROVE TypeOK'
    BY <1>7 DEF UpgradeTopic, States
<1>8. ASSUME NEW c \in Calls, AssignTopic(c) PROVE TypeOK'
    BY <1>8 DEF AssignTopic
<1>9. ASSUME NEW c \in Calls, RegisterValidator(c) PROVE TypeOK'
    BY <1>9, SMTT(30) DEF RegisterValidator
<1>10. ASSUME NEW c \in Calls, Publish(c) PROVE TypeOK'
    BY <1>10 DEF Publish
<1>11. ASSUME NEW c \in Calls, GetSub(c) PROVE TypeOK'
    BY <1>11 DEF GetSub
<1>12. ASSUME NEW c \in Calls, TopicSubscribe(c) PROVE TypeOK'
    BY <1>12 DEF TopicSubscribe
<1>13. ASSUME NEW c \in Calls, AddSub(c) PROVE TypeOK'
    BY <1>13 DEF AddSub
<1>14. ASSUME NEW c \in Calls, Listen(c) PROVE TypeOK'
    BY <1>14 DEF Listen
<1>15. ASSUME NEW c \in Calls, ListenerExits(c) PROVE TypeOK'
    BY <1>15 DEF ListenerExits
<1>16. ASSUME NEW c \in Calls, TopicRelay(c) PROVE TypeOK'
    BY <1>16 DEF TopicRelay
<1>17. ASSUME NEW c \in Calls, SetTopicRelayCancelFn(c) PROVE TypeOK'
    BY <1>17 DEF SetTopicRelayCancelFn
<1>18. ASSUME NEW c \in Calls, LoadState(c) PROVE TypeOK'
    BY <1>18 DEF LoadState
<1>19. ASSUME NEW c \in Calls, CloseTopic(c) PROVE TypeOK'
  <2>1. wrapper[c] \in Calls /\ name[c] \in Topics
      BY <1>19 DEF CloseTopic, Linked
  <2>2. /\ pc' \in [Calls -> PCs] /\ ret' \in [Calls -> Rets] /\ crashed' \in BOOLEAN
        /\ \A d \in Calls : pc[d] = "assign" => pc'[d] = "assign"
      BY <1>19, ZenonT(60) DEF CloseTopic
  <2>3. closed' \subseteq Calls /\ myTopics' \in [Topics -> Calls \cup {None}]
      BY <1>19, <2>1 DEF CloseTopic
  <2> QED
      BY <1>19, <2>2, <2>3 DEF CloseTopic
<1>20. ASSUME NEW c \in Calls, StoreState(c) PROVE TypeOK'
    BY <1>20 DEF StoreState, States
<1>21. ASSUME NEW c \in Calls, CancelSub(c) PROVE TypeOK'
  <2>1. subs' \subseteq Calls
      BY <1>21 DEF CancelSub
  <2>2. /\ pc' \in [Calls -> PCs] /\ ret' \in [Calls -> Rets] /\ crashed' \in BOOLEAN
        /\ \A d \in Calls : pc[d] = "assign" => pc'[d] = "assign"
    <3> HIDE DEF Crash, Return
    <3>1. At(c, "cancel") /\ (Crash \/ Return(c, "ok"))
        BY <1>21 DEF CancelSub
    <3> QED
        BY <3>1 DEF Crash, Return
  <2> QED
      BY <1>21, <2>1, <2>2 DEF CancelSub
<1>22. ASSUME NEW c \in Calls, CancelRelay(c) PROVE TypeOK'
  <2>1. relays' \subseteq Calls
      BY <1>22 DEF CancelRelay
  <2>2. /\ pc' \in [Calls -> PCs] /\ ret' \in [Calls -> Rets] /\ crashed' \in BOOLEAN
        /\ \A d \in Calls : pc[d] = "assign" => pc'[d] = "assign"
    <3> HIDE DEF Crash, Return
    <3>1. At(c, "cancel") /\ (Crash \/ Return(c, "ok"))
        BY <1>22 DEF CancelRelay
    <3> QED
        BY <3>1 DEF Crash, Return
  <2> QED
      BY <1>22, <2>1, <2>2 DEF CancelRelay
<1>23. CASE ThreadsStop
    BY <1>23 DEF ThreadsStop
<1> QED
    BY <1>1, <1>2, <1>3, <1>4, <1>5, <1>6, <1>7, <1>8, <1>9, <1>10, <1>11, <1>12,
       <1>13, <1>14, <1>15, <1>16, <1>17, <1>18, <1>19, <1>20, <1>21, <1>22, <1>23
       DEF Next, CallStep

(****************************************************************************)
(* Steps that leave the registry, the handles and the validators alone.     *)
(****************************************************************************)
Quiet(c) ==
    /\ UNCHANGED <<op, name, wrapper, topic, topics, lock, state, twTopic, myTopics, closed, validators>>
    /\ \A d \in Calls : d # c => pc'[d] = pc[d]
    /\ \/ c \notin Calls
       \/ pc'[c] = pc[c]
       \/ pc[c] = "new" /\ pc'[c] = "get"
       \/ pc[c] = "load" /\ pc'[c] \in {"close", "cancel", "done"}
       \/ /\ pc[c] \in {"use", "subscribe", "addSub", "listen", "setRelay", "cancel"}
          /\ pc'[c] \in {"subscribe", "addSub", "listen", "setRelay", "done"}

\* The steps that matter to the registry; every other one is quiet.
Loud(c) == \/ GetTopicWrapper(c) \/ KnownTopic(c) \/ JoiningTopic(c) \/ Join(c)
           \/ UpgradeTopic(c) \/ AssignTopic(c) \/ RegisterValidator(c)
           \/ CloseTopic(c) \/ StoreState(c)

LEMMA QuietOrLoud == ASSUME TypeOK, [Next]_vars PROVE
    (\E c \in Calls : Loud(c)) \/ (\E c \in Calls \cup {None} : Quiet(c))
<1> USE CallsAssumption DEF TypeOK, Quiet, At, Goto, Return, Crash, callVars, twVars, psVars
<1>1. CASE UNCHANGED vars
    BY <1>1 DEF vars
<1>2. ASSUME NEW c \in Calls, Begin(c) PROVE Quiet(c)
    BY <1>2 DEF Begin
<1>3. ASSUME NEW c \in Calls, Publish(c) PROVE Quiet(c)
    BY <1>3 DEF Publish
<1>4. ASSUME NEW c \in Calls, GetSub(c) PROVE Quiet(c)
    BY <1>4 DEF GetSub
<1>5. ASSUME NEW c \in Calls, TopicSubscribe(c) PROVE Quiet(c)
    BY <1>5 DEF TopicSubscribe
<1>6. ASSUME NEW c \in Calls, AddSub(c) PROVE Quiet(c)
    BY <1>6 DEF AddSub
<1>7. ASSUME NEW c \in Calls, Listen(c) PROVE Quiet(c)
    BY <1>7 DEF Listen
<1>8. ASSUME NEW c \in Calls, ListenerExits(c) PROVE Quiet(c)
    BY <1>8 DEF ListenerExits
<1>9. ASSUME NEW c \in Calls, TopicRelay(c) PROVE Quiet(c)
    BY <1>9 DEF TopicRelay
<1>10. ASSUME NEW c \in Calls, SetTopicRelayCancelFn(c) PROVE Quiet(c)
    BY <1>10 DEF SetTopicRelayCancelFn
<1>11. ASSUME NEW c \in Calls, LoadState(c) PROVE Quiet(c)
    BY <1>11 DEF LoadState
<1>12. ASSUME NEW c \in Calls, CancelSub(c) PROVE Quiet(c)
    BY <1>12 DEF CancelSub
<1>13. ASSUME NEW c \in Calls, CancelRelay(c) PROVE Quiet(c)
    BY <1>13 DEF CancelRelay
<1>14. ASSUME NEW c \in Calls, Begin(c) \/ CallStep(c) \/ ListenerExits(c)
       PROVE  Quiet(c) \/ Loud(c)
    BY <1>2, <1>3, <1>4, <1>5, <1>6, <1>7, <1>8, <1>9, <1>10, <1>11, <1>12, <1>13, <1>14
       DEF CallStep, Loud
<1>15. CASE ThreadsStop
  <2>1. Quiet(None)
      BY <1>15 DEF ThreadsStop
  <2> QED
      BY <2>1
<1> HIDE DEF Quiet
<1>16. CASE Next
    BY <1>14, <1>15, <1>16 DEF Next
<1> QED
    BY <1>1, <1>16

(****************************************************************************)
(* The registry.                                                            *)
(****************************************************************************)
LEMMA LinkedStep == ASSUME IndInv, [Next]_vars PROVE Linked'
<1> USE CallsAssumption DEF IndInv, TypeOK, Linked, Early, At, Unlocked, Goto, Return, Crash,
        callVars, twVars, psVars
<1>1. ASSUME NEW c \in Calls \cup {None}, Quiet(c) PROVE Linked'
    BY <1>1 DEF Quiet
<1>2. ASSUME NEW c \in Calls, GetTopicWrapper(c) PROVE Linked'
    BY <1>2 DEF GetTopicWrapper, Joins
<1>3. ASSUME NEW c \in Calls, KnownTopic(c) PROVE Linked'
    BY <1>3 DEF KnownTopic
<1>4. ASSUME NEW c \in Calls, JoiningTopic(c) PROVE Linked'
    BY <1>4 DEF JoiningTopic
<1>5. ASSUME NEW c \in Calls, Join(c) PROVE Linked'
    BY <1>5 DEF Join
<1>6. ASSUME NEW c \in Calls, UpgradeTopic(c) PROVE Linked'
    BY <1>6 DEF UpgradeTopic
<1>7. ASSUME NEW c \in Calls, AssignTopic(c) PROVE Linked'
    BY <1>7 DEF AssignTopic
<1>8. ASSUME NEW c \in Calls, RegisterValidator(c) PROVE Linked'
    BY <1>8 DEF RegisterValidator
<1>9. ASSUME NEW c \in Calls, CloseTopic(c) PROVE Linked'
    BY <1>9 DEF CloseTopic
<1>10. ASSUME NEW c \in Calls, StoreState(c) PROVE Linked'
    BY <1>10 DEF StoreState
<1> QED
    BY QuietOrLoud, <1>1, <1>2, <1>3, <1>4, <1>5, <1>6, <1>7, <1>8, <1>9, <1>10 DEF Loud

LEMMA HandlesStep == ASSUME IndInv, [Next]_vars PROVE HandlesInPlace'
<1> USE CallsAssumption DEF IndInv, TypeOK, Linked, HandlesInPlace, Early, At, Unlocked, Goto,
        Return, Crash, callVars, twVars, psVars
<1>1. ASSUME NEW c \in Calls \cup {None}, Quiet(c) PROVE HandlesInPlace'
    BY <1>1 DEF Quiet
<1>2. ASSUME NEW c \in Calls, GetTopicWrapper(c) PROVE HandlesInPlace'
    BY <1>2 DEF GetTopicWrapper
<1>3. ASSUME NEW c \in Calls, KnownTopic(c) PROVE HandlesInPlace'
    BY <1>3 DEF KnownTopic
<1>4. ASSUME NEW c \in Calls, JoiningTopic(c) PROVE HandlesInPlace'
    BY <1>4 DEF JoiningTopic
<1>5. ASSUME NEW c \in Calls, Join(c) PROVE HandlesInPlace'
    BY <1>5 DEF Join
<1>6. ASSUME NEW c \in Calls, UpgradeTopic(c) PROVE HandlesInPlace'
    BY <1>6 DEF UpgradeTopic
<1>7. ASSUME NEW c \in Calls, AssignTopic(c) PROVE HandlesInPlace'
    BY <1>7 DEF AssignTopic
<1>8. ASSUME NEW c \in Calls, RegisterValidator(c) PROVE HandlesInPlace'
    BY <1>8 DEF RegisterValidator
<1>9. ASSUME NEW c \in Calls, CloseTopic(c) PROVE HandlesInPlace'
    BY <1>9 DEF CloseTopic
<1>10. ASSUME NEW c \in Calls, StoreState(c) PROVE HandlesInPlace'
    BY <1>10 DEF StoreState
<1> QED
    BY QuietOrLoud, <1>1, <1>2, <1>3, <1>4, <1>5, <1>6, <1>7, <1>8, <1>9, <1>10 DEF Loud

(****************************************************************************)
(* Joining: who opened the handle, and what the upgrade finds.              *)
(****************************************************************************)
LEMMA OpenedStep == ASSUME IndInv, [Next]_vars PROVE Opened'
<1> USE CallsAssumption DEF IndInv, TypeOK, Linked, Opened, Of, At, Goto, Return, Crash,
        callVars, twVars, psVars
<1>1. ASSUME NEW c \in Calls \cup {None}, Quiet(c) PROVE Opened'
    BY <1>1 DEF Quiet
<1>2. ASSUME NEW c \in Calls, GetTopicWrapper(c) PROVE Opened'
    BY <1>2 DEF GetTopicWrapper
<1>3. ASSUME NEW c \in Calls, KnownTopic(c) PROVE Opened'
    BY <1>3 DEF KnownTopic
<1>4. ASSUME NEW c \in Calls, JoiningTopic(c) PROVE Opened'
    BY <1>4 DEF JoiningTopic
<1>5. ASSUME NEW c \in Calls, Join(c) PROVE Opened'
    BY <1>5 DEF Join
<1>6. ASSUME NEW c \in Calls, UpgradeTopic(c) PROVE Opened'
    BY <1>6 DEF UpgradeTopic
<1>7. ASSUME NEW c \in Calls, AssignTopic(c) PROVE Opened'
    BY <1>7 DEF AssignTopic
<1>8. ASSUME NEW c \in Calls, RegisterValidator(c) PROVE Opened'
    BY <1>8 DEF RegisterValidator
<1>9. ASSUME NEW c \in Calls, CloseTopic(c) PROVE Opened'
    BY <1>9 DEF CloseTopic
<1>10. ASSUME NEW c \in Calls, StoreState(c) PROVE Opened'
    BY <1>10 DEF StoreState
<1> QED
    BY QuietOrLoud, <1>1, <1>2, <1>3, <1>4, <1>5, <1>6, <1>7, <1>8, <1>9, <1>10 DEF Loud

LEMMA UpgradeStep == ASSUME IndInv, [Next]_vars PROVE UpgradeSucceeds'
<1> USE CallsAssumption DEF IndInv, TypeOK, Linked, Early, Opened, UpgradeSucceeds, Of, At,
        Goto, Return, Crash, callVars, twVars, psVars
<1>1. ASSUME NEW c \in Calls \cup {None}, Quiet(c) PROVE UpgradeSucceeds'
    BY <1>1 DEF Quiet
<1>2. ASSUME NEW c \in Calls, GetTopicWrapper(c) PROVE UpgradeSucceeds'
    BY <1>2 DEF GetTopicWrapper
<1>3. ASSUME NEW c \in Calls, KnownTopic(c) PROVE UpgradeSucceeds'
    BY <1>3 DEF KnownTopic
<1>4. ASSUME NEW c \in Calls, JoiningTopic(c) PROVE UpgradeSucceeds'
    BY <1>4 DEF JoiningTopic
<1>5. ASSUME NEW c \in Calls, Join(c) PROVE UpgradeSucceeds'
    BY <1>5 DEF Join
<1>6. ASSUME NEW c \in Calls, UpgradeTopic(c) PROVE UpgradeSucceeds'
    BY <1>6 DEF UpgradeTopic
<1>7. ASSUME NEW c \in Calls, AssignTopic(c) PROVE UpgradeSucceeds'
    BY <1>7 DEF AssignTopic
<1>8. ASSUME NEW c \in Calls, RegisterValidator(c) PROVE UpgradeSucceeds'
    BY <1>8 DEF RegisterValidator
<1>9. ASSUME NEW c \in Calls, CloseTopic(c) PROVE UpgradeSucceeds'
    BY <1>9 DEF CloseTopic
<1>10. ASSUME NEW c \in Calls, StoreState(c) PROVE UpgradeSucceeds'
    BY <1>10 DEF StoreState
<1> QED
    BY QuietOrLoud, <1>1, <1>2, <1>3, <1>4, <1>5, <1>6, <1>7, <1>8, <1>9, <1>10 DEF Loud

(****************************************************************************)
(* Subscriptions and their listeners.                                       *)
(****************************************************************************)
\* The steps that touch neither subscriptions nor listeners move no call that
\* is about to start a listener.
Unrelated ==
    /\ UNCHANGED <<subs, listeners>>
    /\ \A d \in Calls : pc[d] \in {"addSub", "listen"} => pc'[d] = pc[d]

LEMMA ListenerStep == ASSUME TypeOK, EverySubHasListener, [Next]_vars PROVE EverySubHasListener'
<1> SUFFICES ASSUME ~stopped' PROVE EverySubHasListener'
    BY DEF EverySubHasListener
<1>0. ~stopped
    BY DEF Next, ThreadsStop, vars
<1> USE <1>0 DEF TypeOK, At, Goto, Return, Crash, callVars, twVars, psVars
<1>1. ASSUME NEW c \in Calls, TopicSubscribe(c) PROVE EverySubHasListener'
    BY <1>1 DEF TopicSubscribe, EverySubHasListener
<1>2. ASSUME NEW c \in Calls, AddSub(c) PROVE EverySubHasListener'
    BY <1>2 DEF AddSub, EverySubHasListener
<1>3. ASSUME NEW c \in Calls, Listen(c) PROVE EverySubHasListener'
    BY <1>3 DEF Listen, EverySubHasListener
<1>4. ASSUME NEW c \in Calls, ListenerExits(c) PROVE EverySubHasListener'
    BY <1>4 DEF ListenerExits, EverySubHasListener
<1>5. ASSUME NEW c \in Calls, CancelSub(c) PROVE EverySubHasListener'
    BY <1>5 DEF CancelSub, EverySubHasListener
<1>6. ASSUME NEW c \in Calls, Begin(c) \/ GetTopicWrapper(c) \/ KnownTopic(c)
                              \/ JoiningTopic(c) \/ Join(c)
      PROVE  Unrelated
    BY <1>6 DEF Unrelated, Begin, GetTopicWrapper, KnownTopic, JoiningTopic, Join
<1>7. ASSUME NEW c \in Calls, UpgradeTopic(c) \/ AssignTopic(c) \/ RegisterValidator(c)
                              \/ Publish(c) \/ GetSub(c)
      PROVE  Unrelated
    BY <1>7 DEF Unrelated, UpgradeTopic, AssignTopic, RegisterValidator, Publish, GetSub
<1>8. ASSUME NEW c \in Calls, TopicRelay(c) \/ SetTopicRelayCancelFn(c) \/ LoadState(c)
                              \/ StoreState(c)
      PROVE  Unrelated
    BY <1>8 DEF Unrelated, TopicRelay, SetTopicRelayCancelFn, LoadState, StoreState
<1>9. ASSUME NEW c \in Calls, CloseTopic(c) \/ CancelRelay(c) PROVE Unrelated
    BY <1>9 DEF Unrelated, CloseTopic, CancelRelay
<1>10. ASSUME NEW c \in Calls, Unrelated PROVE EverySubHasListener'
    BY <1>10 DEF Unrelated, EverySubHasListener
<1>11. CASE UNCHANGED vars
    BY <1>11 DEF vars, EverySubHasListener
<1> QED
    BY <1>1, <1>2, <1>3, <1>4, <1>5, <1>6, <1>7, <1>8, <1>9, <1>10, <1>11
       DEF Next, CallStep, ThreadsStop

(****************************************************************************)
(* Validators.                                                              *)
(****************************************************************************)
\* A topic stays exposed: validators are never removed, and a joiner leaves
\* "validate" only when its topic has one or needs none.
LEMMA ExposedStep ==
    ASSUME IndInv, [Next]_vars, NEW t \in Topics, Exposed(t) PROVE Exposed(t)'
<1> USE CallsAssumption DEF IndInv, TypeOK, Exposed, At, Goto, Return, Crash, callVars, twVars, psVars
<1>1. ASSUME NEW c \in Calls \cup {None}, Quiet(c) PROVE Exposed(t)'
    BY <1>1 DEF Quiet
<1>2. ASSUME NEW c \in Calls, GetTopicWrapper(c) PROVE Exposed(t)'
    BY <1>2 DEF GetTopicWrapper
<1>3. ASSUME NEW c \in Calls, KnownTopic(c) PROVE Exposed(t)'
    BY <1>3 DEF KnownTopic
<1>4. ASSUME NEW c \in Calls, JoiningTopic(c) PROVE Exposed(t)'
    BY <1>4 DEF JoiningTopic
<1>5. ASSUME NEW c \in Calls, Join(c) PROVE Exposed(t)'
    BY <1>5 DEF Join
<1>6. ASSUME NEW c \in Calls, UpgradeTopic(c) PROVE Exposed(t)'
    BY <1>6 DEF UpgradeTopic
<1>7. ASSUME NEW c \in Calls, AssignTopic(c) PROVE Exposed(t)'
    BY <1>7 DEF AssignTopic
<1>8. ASSUME NEW c \in Calls, RegisterValidator(c) PROVE Exposed(t)'
    BY <1>8 DEF RegisterValidator
<1>9. ASSUME NEW c \in Calls, CloseTopic(c) PROVE Exposed(t)'
    BY <1>9 DEF CloseTopic
<1>10. ASSUME NEW c \in Calls, StoreState(c) PROVE Exposed(t)'
    BY <1>10 DEF StoreState
<1> QED
    BY QuietOrLoud, <1>1, <1>2, <1>3, <1>4, <1>5, <1>6, <1>7, <1>8, <1>9, <1>10 DEF Loud

\* Where the handles of the next state come from.
LEMMA HandleSources == ASSUME IndInv, [Next]_vars PROVE
    /\ name' = name
    /\ \A w \in Calls : twTopic'[w] # None => twTopic[w] # None \/ Exposed(name[w])'
    /\ \A c \in Calls : topic'[c] # None => \/ topic[c] # None \/ Exposed(name[c])'
                                            \/ twTopic[wrapper[c]] # None /\ wrapper[c] # None
<1> USE CallsAssumption DEF IndInv, TypeOK, Linked, Exposed, At, Goto, Return, Crash,
        callVars, twVars, psVars
<1> DEFINE Goal == /\ name' = name
                   /\ \A w \in Calls : twTopic'[w] # None => twTopic[w] # None \/ Exposed(name[w])'
                   /\ \A c \in Calls : topic'[c] # None =>
                         \/ topic[c] # None \/ Exposed(name[c])'
                         \/ twTopic[wrapper[c]] # None /\ wrapper[c] # None
<1>1. ASSUME NEW c \in Calls \cup {None}, Quiet(c) PROVE Goal
    BY <1>1 DEF Quiet
<1>2. ASSUME NEW c \in Calls, GetTopicWrapper(c) \/ JoiningTopic(c) \/ Join(c) PROVE Goal
    BY <1>2 DEF GetTopicWrapper, JoiningTopic, Join
<1>3. ASSUME NEW c \in Calls, KnownTopic(c) PROVE Goal
    BY <1>3 DEF KnownTopic
<1>4. ASSUME NEW c \in Calls, UpgradeTopic(c) \/ CloseTopic(c) \/ StoreState(c) PROVE Goal
    BY <1>4 DEF UpgradeTopic, CloseTopic, StoreState
<1>5. ASSUME NEW c \in Calls, AssignTopic(c) PROVE Goal
    BY <1>5 DEF AssignTopic
<1>6. ASSUME NEW c \in Calls, RegisterValidator(c) PROVE Goal
    BY <1>6 DEF RegisterValidator
<1> HIDE DEF Goal
<1>7. Goal
    BY QuietOrLoud, <1>1, <1>2, <1>3, <1>4, <1>5, <1>6 DEF Loud
<1> QED
    BY <1>7 DEF Goal

\* A subscription is new only on a handle that the call has.
LEMMA SubSources == ASSUME TypeOK, [Next]_vars PROVE
    \A s \in subs' : s \in subs \/ (s \in Calls /\ topic[s] # None)
<1> USE DEF TypeOK, callVars, twVars, psVars
<1>1. ASSUME NEW c \in Calls, TopicSubscribe(c) PROVE subs' \subseteq subs \cup {c} /\ (c \in subs \/ topic[c] # None \/ subs' = subs)
    BY <1>1 DEF TopicSubscribe, Usable
<1>2. ASSUME NEW c \in Calls, CancelSub(c) PROVE subs' \subseteq subs
    BY <1>2 DEF CancelSub
<1>3. ASSUME NEW c \in Calls, \/ Begin(c) \/ GetTopicWrapper(c) \/ KnownTopic(c) \/ JoiningTopic(c)
                              \/ Join(c) \/ UpgradeTopic(c) \/ AssignTopic(c) \/ RegisterValidator(c)
                              \/ Publish(c) \/ GetSub(c) \/ AddSub(c) \/ Listen(c) \/ ListenerExits(c)
      PROVE  subs' = subs
    BY <1>3 DEF Begin, GetTopicWrapper, KnownTopic, JoiningTopic, Join, UpgradeTopic, AssignTopic,
       RegisterValidator, Publish, GetSub, AddSub, Listen, ListenerExits
<1>4. ASSUME NEW c \in Calls, \/ TopicRelay(c) \/ SetTopicRelayCancelFn(c) \/ LoadState(c)
                              \/ CloseTopic(c) \/ StoreState(c) \/ CancelRelay(c)
      PROVE  subs' = subs
    BY <1>4 DEF TopicRelay, SetTopicRelayCancelFn, LoadState, CloseTopic, StoreState, CancelRelay
<1>5. CASE UNCHANGED vars
    BY <1>5 DEF vars
<1>6. CASE ThreadsStop
    BY <1>6 DEF ThreadsStop
<1> QED
    BY <1>1, <1>2, <1>3, <1>4, <1>5, <1>6 DEF Next, CallStep

LEMMA GuardedStep == ASSUME IndInv, [Next]_vars PROVE Guarded'
<1>1. \A t \in Topics : Exposed(t) => Exposed(t)'
    BY ExposedStep
<1>2. /\ \A c \in Calls : name[c] \in Topics /\ wrapper[c] \in Calls \cup {None}
      /\ \A c \in Calls : wrapper[c] # None => name[wrapper[c]] = name[c]
      /\ subs \subseteq Calls
    BY DEF IndInv, TypeOK, Linked
<1>3. /\ \A w \in Calls : twTopic[w] # None => Exposed(name[w])
      /\ \A c \in Calls : topic[c] # None => Exposed(name[c])
      /\ \A s \in subs : Exposed(name[s])
    BY DEF IndInv, Guarded
<1>4. \A c \in Calls : Exposed(name[c]) => Exposed(name[c])'
    BY <1>1, <1>2, HandleSources DEF Exposed
<1>5. \A w \in Calls : twTopic'[w] # None => Exposed(name[w])'
    BY <1>3, <1>4, HandleSources
<1>6. \A c \in Calls : topic'[c] # None => Exposed(name[c])'
    BY <1>2, <1>3, <1>4, HandleSources
<1>7. \A s \in subs' : Exposed(name[s])'
    BY <1>2, <1>3, <1>4, SubSources DEF IndInv
<1> QED
    BY <1>5, <1>6, <1>7 DEF Guarded

(****************************************************************************)
(* Calls that come one after the other.                                     *)
(****************************************************************************)
Active(c) == pc[c] \notin {"new", "done"}

\* At most one call runs.
Alone == \A c, d \in Calls : Active(c) /\ Active(d) => c = d

\* What is known of the registry while a call stands somewhere: the wrapper it
\* looked up is still the topic's, a topic it did not find has none, the
\* wrapper and the handle of a joiner are its own, and so on.
Placed(c) ==
    LET t == name[c]
        w == topics[t]
    IN  /\ pc[c] \in {"tryJoin", "load", "close", "left", "leaveErr", "cancel"} => w = wrapper[c]
        /\ pc[c] = "joining" => w = None
        /\ pc[c] \in {"join", "upgrade", "assign", "validate"} => w = c
        /\ pc[c] \in {"join", "upgrade"} => state[c] = "Joining"
        /\ pc[c] \in {"upgrade", "assign"} => myTopics[t] = c
        /\ pc[c] = "assign" => state[c] = "Joined"
        /\ pc[c] = "validate" => twTopic[c] = c
        /\ pc[c] \in {"use", "subscribe"} => w # None /\ topic[c] # None /\ topic[c] = twTopic[w]
        /\ pc[c] = "addSub" => c \in subs
        /\ pc[c] = "setRelay" => c \in relays
        /\ pc[c] \in {"subscribe", "addSub"} => \A s \in subs : name[s] = t => s = c
        /\ pc[c] \in {"close", "leaveErr"} => state[w] \in {"Joined", "Err"}
        /\ pc[c] = "left" => /\ twTopic[w] \in closed /\ myTopics[t] = None
                             /\ Of(t, subs \cup relays) = {}
        /\ pc[c] \in {"load", "close", "cancel"} => op[c] \notin Joins

\* What is known of a topic.
Kept(t) ==
    /\ topics[t] = None => myTopics[t] = None /\ Of(t, subs \cup relays) = {}
    /\ myTopics[t] # None => name[myTopics[t]] = t /\ myTopics[t] \notin closed
    /\ \A s \in subs : name[s] = t => pc[s] = "addSub" \/ twSub[topics[t]] = s
    /\ topics[t] # None /\ Settled(t) =>
          LET w == topics[t]
          IN  /\ state[w] \in {"Joined", "Err"} => myTopics[t] # None /\ myTopics[t] = twTopic[w]
              /\ state[w] \notin {"Joined", "Err"} => myTopics[t] = None
              /\ state[w] = "Unknown" => twTopic[w] \in closed /\ Of(t, subs \cup relays) = {}

\* A wrapper keeps subscriptions and relays of its own topic.
Stored == \A w \in Calls : /\ twSub[w] # None => name[twSub[w]] = name[w]
                           /\ twRelay[w] # None => name[twRelay[w]] = name[w]

SeqInv == /\ Alone /\ Stored
          /\ \A c \in Calls : Placed(c)
          /\ \A t \in Topics : Kept(t)
          /\ \A h \in closed : pc[h] \notin Early
          /\ JoinsAreSafe

OneByOne == inFlight = 1 => SeqInv

\* A step that does nothing to a topic.
Untouched(t) ==
    /\ name' = name /\ topics'[t] = topics[t] /\ myTopics'[t] = myTopics[t]
    /\ \A d \in Calls : name[d] = t =>
          /\ pc'[d] = pc[d] /\ state'[d] = state[d] /\ twTopic'[d] = twTopic[d] /\ twSub'[d] = twSub[d]
          /\ (d \in subs' <=> d \in subs) /\ (d \in relays' <=> d \in relays)
          /\ (d \in closed' <=> d \in closed)

LEMMA KeptElsewhere ==
    ASSUME IndInv, [Next]_vars, NEW t \in Topics, Kept(t), Untouched(t) PROVE Kept(t)'
<1> USE CallsAssumption DEF IndInv, TypeOK, Linked
<1>1. /\ subs \subseteq Calls /\ subs' \subseteq Calls /\ relays \subseteq Calls /\ relays' \subseteq Calls
      /\ topics[t] \in Calls \cup {None} /\ myTopics[t] \in Calls \cup {None}
      /\ \A w \in Calls : twTopic[w] \in Calls \cup {None}
      /\ topics[t] # None => name[topics[t]] = t
      /\ \A w \in Calls : twTopic[w] # None => name[twTopic[w]] = name[w]
      /\ closed \subseteq Calls
    BY TypeStep
<1>2. Of(t, subs \cup relays)' = Of(t, subs \cup relays)
    BY <1>1 DEF Untouched, Of
<1>3. Settled(t)' <=> Settled(t)
    BY DEF Untouched, Settled
<1>4. (topics[t] = None => myTopics[t] = None /\ Of(t, subs \cup relays) = {})'
    BY <1>2 DEF Untouched, Kept
<1>5. (myTopics[t] # None => name[myTopics[t]] = t /\ myTopics[t] \notin closed)'
    BY <1>1 DEF Untouched, Kept
<1>6. (\A s \in subs : name[s] = t => pc[s] = "addSub" \/ twSub[topics[t]] = s)'
  <2> SUFFICES ASSUME NEW s \in subs', name[s] = t PROVE pc'[s] = "addSub" \/ twSub'[topics[t]] = s
      BY DEF Untouched
  <2>1. s \in subs /\ s \in Calls /\ pc'[s] = pc[s]
      BY <1>1 DEF Untouched
  <2>2. topics[t] \in Calls /\ name[topics[t]] = t
      BY <1>1, <2>1 DEF Kept, Of
  <2> QED
      BY <2>1, <2>2 DEF Kept, Untouched
<1>7. ASSUME topics[t] # None, Settled(t)
      PROVE  (/\ state[topics[t]] \in {"Joined", "Err"} => myTopics[t] # None /\ myTopics[t] = twTopic[topics[t]]
              /\ state[topics[t]] \notin {"Joined", "Err"} => myTopics[t] = None
              /\ state[topics[t]] = "Unknown" => twTopic[topics[t]] \in closed /\ Of(t, subs \cup relays) = {})'
  <2>1. topics[t] \in Calls /\ name[topics[t]] = t
      BY <1>1, <1>7
  <2>2. state'[topics[t]] = state[topics[t]] /\ twTopic'[topics[t]] = twTopic[topics[t]]
      BY <2>1 DEF Untouched
  <2>3. twTopic[topics[t]] \in closed => twTopic[topics[t]] \in closed'
      BY <1>1, <2>1 DEF Untouched
  <2>4. topics'[t] = topics[t] /\ myTopics'[t] = myTopics[t]
      BY DEF Untouched
  <2>5. /\ state[topics[t]] \in {"Joined", "Err"} => myTopics[t] # None /\ myTopics[t] = twTopic[topics[t]]
        /\ state[topics[t]] \notin {"Joined", "Err"} => myTopics[t] = None
        /\ state[topics[t]] = "Unknown" => twTopic[topics[t]] \in closed /\ Of(t, subs \cup relays) = {}
      BY <1>7 DEF Kept
  <2> QED
      BY <1>2, <2>2, <2>3, <2>4, <2>5
<1> QED
    BY <1>3, <1>4, <1>5, <1>6, <1>7 DEF Kept, Untouched

\* A call works on its own topic.
LEMMA Elsewhere ==
    ASSUME IndInv, SeqInv, NEW c \in Calls, CallStep(c), NEW t \in Topics, t # name[c]
    PROVE  Untouched(t)
<1> USE CallsAssumption DEF IndInv, TypeOK, Linked, Untouched, At, Goto, Return, Crash, callVars, twVars, psVars
<1>1. CASE GetTopicWrapper(c) \/ KnownTopic(c) \/ JoiningTopic(c) \/ Join(c)
    BY <1>1 DEF GetTopicWrapper, KnownTopic, JoiningTopic, Join
<1>2. CASE UpgradeTopic(c)
    BY <1>2 DEF UpgradeTopic
<1>3. CASE AssignTopic(c) \/ RegisterValidator(c)
    BY <1>3 DEF AssignTopic, RegisterValidator
<1>4. CASE Publish(c) \/ GetSub(c) \/ TopicSubscribe(c) \/ Listen(c) \/ TopicRelay(c) \/ LoadState(c)
    BY <1>4 DEF Publish, GetSub, TopicSubscribe, Listen, TopicRelay, LoadState
<1>5. CASE AddSub(c) \/ SetTopicRelayCancelFn(c)
  <2>1. topics[name[c]] # None
      BY <1>5 DEF AddSub, SetTopicRelayCancelFn, SeqInv, Placed, Kept, Of
  <2> QED
      BY <1>5, <2>1 DEF AddSub, SetTopicRelayCancelFn
<1>6. CASE CloseTopic(c)
    BY <1>6 DEF CloseTopic
<1>7. CASE StoreState(c)
    BY <1>7 DEF StoreState
<1>8. CASE CancelSub(c)
    BY <1>8 DEF CancelSub, SeqInv, Stored
<1>9. CASE CancelRelay(c)
    BY <1>9 DEF CancelRelay, SeqInv, Stored
<1> QED
    BY <1>1, <1>2, <1>3, <1>4, <1>5, <1>6, <1>7, <1>8, <1>9 DEF CallStep

\* With one call at most, a topic is settled unless that call is inside.
LEMMA SettledHere ==
    ASSUME SeqInv, NEW c \in Calls, Active(c), name' = name, \A d \in Calls : d # c => pc'[d] = pc[d]
    PROVE  /\ Settled(name[c]) <=> pc[c] \notin {"upgrade", "assign", "left"}
           /\ Settled(name[c])' <=> pc'[c] \notin {"upgrade", "assign", "left"}
           /\ \A d \in Calls : d # c => pc[d] \in {"new", "done"}
<1>1. \A d \in Calls : d # c => pc[d] \in {"new", "done"}
    BY DEF SeqInv, Alone, Active
<1> QED
    BY <1>1 DEF Settled

\* What a step of the call that runs may use, and what it must show.
Running(c) == /\ Placed(c) /\ Kept(name[c]) /\ Active(c)
              /\ Settled(name[c]) <=> pc[c] \notin {"upgrade", "assign", "left"}
              /\ \A d \in Calls : d # c => pc[d] \in {"new", "done"}

LEMMA RunningNow ==
    ASSUME IndInv, SeqInv, NEW c \in Calls, CallStep(c)
    PROVE  /\ Running(c) /\ UNCHANGED <<op, name>>
           /\ \A d \in Calls : d # c => pc'[d] = pc[d]
           /\ Settled(name[c])' <=> pc'[c] \notin {"upgrade", "assign", "left"}
<1>1. Active(c) /\ UNCHANGED <<op, name>> /\ \A d \in Calls : d # c => pc'[d] = pc[d]
    <2> USE DEF IndInv, TypeOK, Active, At, Goto, Return, Crash, callVars, twVars, psVars
    <2>1. CASE GetTopicWrapper(c) \/ KnownTopic(c) \/ JoiningTopic(c) \/ Join(c) \/ UpgradeTopic(c)
        BY <2>1 DEF GetTopicWrapper, KnownTopic, JoiningTopic, Join, UpgradeTopic
    <2>2. CASE AssignTopic(c) \/ RegisterValidator(c) \/ Publish(c) \/ GetSub(c) \/ TopicSubscribe(c)
        BY <2>2 DEF AssignTopic, RegisterValidator, Publish, GetSub, TopicSubscribe
    <2>3. CASE AddSub(c) \/ Listen(c) \/ TopicRelay(c) \/ SetTopicRelayCancelFn(c) \/ LoadState(c)
        BY <2>3 DEF AddSub, Listen, TopicRelay, SetTopicRelayCancelFn, LoadState
    <2>4. CASE CloseTopic(c) \/ StoreState(c) \/ CancelSub(c) \/ CancelRelay(c)
        BY <2>4 DEF CloseTopic, StoreState, CancelSub, CancelRelay
    <2> QED
        BY <2>1, <2>2, <2>3, <2>4 DEF CallStep
<1>2. Placed(c) /\ Kept(name[c])
    BY DEF SeqInv, IndInv, TypeOK
<1> QED
    BY <1>1, <1>2, SettledHere DEF Running

\* Only the call that runs and its topic need a look.
LEMMA OnlyOne ==
    ASSUME IndInv, SeqInv, [Next]_vars, NEW c \in Calls, CallStep(c),
           Placed(c)', Kept(name[c])', name' = name
    PROVE  Alone' /\ (\A d \in Calls : Placed(d)') /\ (\A t \in Topics : Kept(t)')
<1>1. Active(c) /\ \A d \in Calls : d # c => pc'[d] = pc[d]
    BY RunningNow DEF Running
<1>2. \A d \in Calls : d # c => ~Active(d) /\ pc'[d] \in {"new", "done"}
    BY <1>1 DEF SeqInv, Alone, Active
<1>3. Alone'
    BY <1>2 DEF Alone, Active
<1>4. \A d \in Calls : Placed(d)'
  <2>1. ASSUME NEW d \in Calls, d # c PROVE Placed(d)'
      BY <1>2, <2>1 DEF Placed
  <2> QED
      BY <2>1
<1>5. ASSUME NEW t \in Topics PROVE Kept(t)'
  <2>1. CASE t = name[c]
      BY <2>1
  <2>2. CASE t # name[c]
      BY <2>2, Elsewhere, KeptElsewhere DEF SeqInv
  <2> QED
      BY <2>1, <2>2
<1> QED
    BY <1>3, <1>4, <1>5

\* A step that only moves its call keeps what is known of the topic.
LEMMA KeptSame ==
    ASSUME NEW t, Kept(t), Settled(t)' => Settled(t),
           UNCHANGED <<name, topics, myTopics, state, twTopic, twSub, subs, relays, closed>>,
           \A d \in subs : pc[d] = "addSub" => pc'[d] = "addSub"
    PROVE  Kept(t)'
<1>1. Of(t, subs \cup relays)' = Of(t, subs \cup relays)
    BY DEF Of
<1> QED
    BY <1>1 DEF Kept

LEMMA LocalReads ==
    ASSUME IndInv, SeqInv, NEW c \in Calls,
           \/ GetTopicWrapper(c) \/ KnownTopic(c) \/ RegisterValidator(c) \/ Publish(c) \/ GetSub(c)
           \/ Listen(c) \/ SetTopicRelayCancelFn(c) \/ LoadState(c)
    PROVE  name' = name /\ Placed(c)' /\ Kept(name[c])'
<1> USE CallsAssumption DEF At, Goto, Return, Crash, callVars, twVars, psVars
<1>1. /\ UNCHANGED <<op, name, topics, myTopics, state, twTopic, twSub, subs, closed>>
      /\ Active(c) /\ pc[c] \notin {"upgrade", "assign", "left", "addSub"}
      /\ \A d \in Calls : d # c => pc'[d] = pc[d]
    <2> USE DEF IndInv, TypeOK, Active
    <2>1. CASE GetTopicWrapper(c) \/ KnownTopic(c) \/ RegisterValidator(c)
        BY <2>1 DEF GetTopicWrapper, KnownTopic, RegisterValidator
    <2>2. CASE Publish(c) \/ GetSub(c) \/ Listen(c)
        BY <2>2 DEF Publish, GetSub, Listen
    <2>3. CASE SetTopicRelayCancelFn(c) \/ LoadState(c)
        BY <2>3 DEF SetTopicRelayCancelFn, LoadState
    <2> QED
        BY <2>1, <2>2, <2>3
<1>2. UNCHANGED relays
    BY DEF GetTopicWrapper, KnownTopic, RegisterValidator, Publish, GetSub, Listen, SetTopicRelayCancelFn, LoadState
<1>3. /\ Placed(c) /\ Kept(name[c]) /\ Settled(name[c])
      /\ \A d \in Calls : d # c => pc[d] \in {"new", "done"}
    BY <1>1, SettledHere DEF SeqInv, IndInv, TypeOK
<1>4. Kept(name[c])'
  <2>1. \A d \in subs : pc[d] = "addSub" => pc'[d] = "addSub"
      BY <1>1 DEF IndInv, TypeOK
  <2>2. Kept(name[c]) /\ (Settled(name[c])' => Settled(name[c]))
      BY <1>3
  <2>3. UNCHANGED <<name, topics, myTopics, state, twTopic, twSub, subs, relays, closed>>
      BY <1>1, <1>2
  <2> DEFINE t == name[c]
  <2>4. Kept(t)
      BY <2>2
  <2>5. Settled(t)' => Settled(t)
      BY <1>3
  <2> HIDE DEF t
  <2> QED
      BY <2>1, <2>3, <2>4, <2>5, KeptSame DEF t
<1>5. Placed(c)'
  <2> USE DEF IndInv, TypeOK, Placed
  <2>1. CASE GetTopicWrapper(c)
      BY <1>1, <2>1 DEF GetTopicWrapper
  <2>2. CASE KnownTopic(c)
    <3>1. CASE state[wrapper[c]] = "Joining"
        BY <1>1, <2>2, <3>1 DEF KnownTopic
    <3>2. CASE state[wrapper[c]] # "Joining"
      <4>1. topics[name[c]] = wrapper[c] /\ wrapper[c] # None /\ state[wrapper[c]] \in {"Joined", "Unknown", "Err"}
          BY <1>3, <2>2, <3>2 DEF KnownTopic, Linked, States
      <4>2. twTopic[wrapper[c]] # None
          BY <1>3, <4>1 DEF Kept
      <4>3. pc'[c] = "use" /\ topic'[c] = twTopic[wrapper[c]]
          BY <2>2, <3>2 DEF KnownTopic
      <4> QED
          BY <1>1, <4>1, <4>2, <4>3
    <3> QED
        BY <3>1, <3>2
  <2>3. CASE RegisterValidator(c)
      BY <1>1, <1>3, <2>3 DEF RegisterValidator
  <2>4. CASE Publish(c) \/ Listen(c) \/ SetTopicRelayCancelFn(c)
    <3>1. pc'[c] \in {pc[c], "done"} /\ topic' = topic /\ wrapper' = wrapper
        BY <2>4 DEF Publish, Listen, SetTopicRelayCancelFn
    <3> QED
        BY <1>1, <1>2, <1>3, <3>1
  <2>5. CASE GetSub(c)
    <3>1. (pc' = pc /\ topic[c] = None) \/ pc'[c] = "done" \/ (pc'[c] = "subscribe" /\ twSub[topics[name[c]]] = None)
        BY <2>5 DEF GetSub
    <3>2. topic' = topic /\ wrapper' = wrapper /\ pc[c] = "use" /\ topic[c] # None /\ topics[name[c]] # None
        BY <1>3, <2>5 DEF GetSub
    <3>3. CASE pc'[c] = "done"
        BY <3>3
    <3>4. CASE pc'[c] = "subscribe" /\ twSub[topics[name[c]]] = None
      <4>1. \A s \in subs : name[s] # name[c]
          BY <1>3, <3>2, <3>4 DEF Kept
      <4> QED
          BY <1>1, <1>3, <3>2, <3>4, <4>1
    <3> QED
        BY <3>1, <3>2, <3>3, <3>4
  <2>6. CASE LoadState(c)
    <3>1. /\ pc[c] = "load" /\ wrapper' = wrapper /\ pc'[c] \in {"close", "cancel", "done"}
          /\ pc'[c] = "close" => state[wrapper[c]] \in {"Joined", "Err"}
        BY <2>6 DEF LoadState
    <3> QED
        BY <1>1, <1>3, <3>1
  <2> QED
      BY <2>1, <2>2, <2>3, <2>4, <2>5, <2>6
<1> QED
    BY <1>1, <1>4, <1>5

\* Joining: the wrapper, the handle and the state of one topic.
LEMMA LocalJoins ==
    ASSUME IndInv, SeqInv, NEW c \in Calls, CallStep(c),
           JoiningTopic(c) \/ Join(c) \/ UpgradeTopic(c) \/ AssignTopic(c)
    PROVE  Placed(c)' /\ Kept(name[c])'
<1> DEFINE t == name[c]
<1>1. /\ Running(c) /\ UNCHANGED <<op, name>> /\ \A d \in Calls : d # c => pc'[d] = pc[d]
      /\ Settled(t)' <=> pc'[c] \notin {"upgrade", "assign", "left"}
    BY RunningNow
<1>2. t \in Topics /\ t' = t
    BY <1>1 DEF IndInv, TypeOK
<1> HIDE DEF t
<1>3. subs \subseteq Calls /\ UNCHANGED <<subs, relays, closed, twSub>>
    BY DEF IndInv, TypeOK, JoiningTopic, Join, UpgradeTopic, AssignTopic, callVars, twVars, psVars
<1>4. Of(t, subs \cup relays)' = Of(t, subs \cup relays)
    BY <1>1, <1>2, <1>3 DEF Of
<1>5. Placed(c)'
  <2> USE <1>1, <1>2, <1>3 DEF t, Running, Placed, IndInv, TypeOK, At, Goto, Return, callVars, twVars, psVars
  <2>1. CASE JoiningTopic(c)
      BY <2>1 DEF JoiningTopic
  <2>2. CASE Join(c)
      BY <2>2 DEF Join
  <2>3. CASE UpgradeTopic(c)
    <3>1. /\ pc[c] = "upgrade" /\ topics[name[c]] = c /\ state[c] = "Joining" /\ myTopics[name[c]] = c
          /\ c # None
        BY <2>3, CallsAssumption DEF UpgradeTopic
    <3>2. pc'[c] = "assign" /\ state'[c] = "Joined" /\ topics' = topics /\ myTopics' = myTopics
        BY <2>3, <3>1 DEF UpgradeTopic
    <3> QED
        BY <3>1, <3>2
  <2>4. CASE AssignTopic(c)
      BY <2>4 DEF AssignTopic
  <2> QED
      BY <2>1, <2>2, <2>3, <2>4
<1>6. Kept(t)'
  <2> USE <1>1, <1>2, <1>3, <1>4, CallsAssumption DEF Kept, IndInv, TypeOK, At, Goto, Return, callVars, twVars, psVars
  <2>0. Kept(t) /\ Placed(c) /\ (Settled(t) <=> pc[c] \notin {"upgrade", "assign", "left"})
      BY DEF Running, t
  <2>1. CASE JoiningTopic(c)
    <3>1. /\ topics[t] = None /\ topics'[t] = c /\ state'[c] = "Joining" /\ myTopics' = myTopics
        BY <2>0, <2>1 DEF JoiningTopic, Placed, t
    <3>2. myTopics[t] = None /\ Of(t, subs \cup relays) = {}
        BY <2>0, <3>1
    <3>3. \A s \in subs : name[s] # t
        BY <3>2 DEF Of
    <3> QED
        BY <3>1, <3>2, <3>3
  <2>2. CASE Join(c)
    <3>1. topics' = topics /\ topics[t] = c /\ state' = state /\ state[c] = "Joining" /\ twTopic' = twTopic /\ pc[c] = "join"
        BY <2>0, <2>2 DEF Join, Placed, t
    <3>2. myTopics[t] = None /\ c \notin closed
        BY <2>0, <3>1 DEF SeqInv, Early
    <3>3. \A s \in subs : name[s] = t => twSub[c] = s \/ pc'[s] = "addSub"
        BY <2>0, <3>1
    <3>4. \/ myTopics'[t] = c /\ pc'[c] = "upgrade"
          \/ myTopics' = myTopics
        BY <2>2 DEF Join, t
    <3> QED
        BY <3>1, <3>2, <3>3, <3>4 DEF t
  <2>3. CASE UpgradeTopic(c)
    <3>1. topics' = topics /\ topics[t] = c /\ pc'[c] = "assign" /\ myTopics' = myTopics /\ pc[c] = "upgrade"
        BY <2>0, <2>3 DEF UpgradeTopic, Placed, t
    <3>2. \A s \in subs : name[s] = t => twSub[c] = s \/ pc'[s] = "addSub"
        BY <2>0, <3>1
    <3> QED
        BY <2>0, <3>1, <3>2
  <2>4. CASE AssignTopic(c)
    <3>1. /\ topics' = topics /\ topics[t] = c /\ pc'[c] = "validate" /\ myTopics' = myTopics
          /\ myTopics[t] = c /\ twTopic'[c] = c /\ state' = state /\ state[c] = "Joined" /\ pc[c] = "assign"
        BY <2>0, <2>4 DEF AssignTopic, Placed, t
    <3>2. \A s \in subs : name[s] = t => twSub[c] = s \/ pc'[s] = "addSub"
        BY <2>0, <3>1
    <3> QED
        BY <2>0, <3>1, <3>2
  <2> QED
      BY <2>1, <2>2, <2>3, <2>4
<1> QED
    BY <1>5, <1>6 DEF t

\* Subscriptions, relays and what cancels them.
LEMMA LocalUses ==
    ASSUME IndInv, SeqInv, NEW c \in Calls, CallStep(c),
           TopicSubscribe(c) \/ AddSub(c) \/ TopicRelay(c) \/ CancelSub(c) \/ CancelRelay(c)
    PROVE  Placed(c)' /\ Kept(name[c])'
<1> DEFINE t == name[c]
<1>1. /\ Running(c) /\ UNCHANGED <<op, name>> /\ \A d \in Calls : d # c => pc'[d] = pc[d]
      /\ Settled(t)' <=> pc'[c] \notin {"upgrade", "assign", "left"}
    BY RunningNow
<1>2. t \in Topics /\ t' = t
    BY <1>1 DEF IndInv, TypeOK
<1> HIDE DEF t
<1>3. /\ subs \subseteq Calls /\ relays \subseteq Calls
      /\ UNCHANGED <<topics, wrapper, topic, myTopics, closed, state, twTopic>>
    BY DEF IndInv, TypeOK, TopicSubscribe, AddSub, TopicRelay, CancelSub, CancelRelay, callVars, twVars, psVars
<1>4. /\ Kept(t) /\ Placed(c) /\ Settled(t) /\ pc'[c] \notin {"upgrade", "assign", "left"}
    <2>1. pc[c] \notin {"upgrade", "assign", "left"} /\ pc'[c] \notin {"upgrade", "assign", "left"}
        BY DEF IndInv, TypeOK, TopicSubscribe, AddSub, TopicRelay, CancelSub, CancelRelay, At, Goto, Return, Crash
    <2> QED
        BY <1>1, <2>1 DEF Running, t
<1> USE CallsAssumption DEF IndInv, TypeOK, At, Goto, Return, Crash, callVars, twVars, psVars
<1>5. ASSUME TopicSubscribe(c) \/ TopicRelay(c), Usable(c)
      PROVE  topics[t] # None /\ state[topics[t]] # "Unknown"
    <2>1. topics[t] # None /\ topic[c] = twTopic[topics[t]]
        BY <1>4, <1>5 DEF TopicSubscribe, TopicRelay, Placed, t
    <2> QED
        BY <1>4, <1>5, <2>1 DEF Usable, Kept
<1>6. CASE TopicSubscribe(c)
  <2>1. CASE ~Usable(c)
    <3>1. pc'[c] = "done" /\ UNCHANGED <<subs, relays, twSub>> /\ pc[c] = "subscribe"
        BY <1>6, <2>1 DEF TopicSubscribe
    <3>2. \A d \in subs : pc[d] = "addSub" => pc'[d] = "addSub"
        BY <1>1, <1>3, <3>1
    <3>3. Kept(t)'
      <4>1. Of(t, subs \cup relays)' = Of(t, subs \cup relays)
          BY <1>1, <1>2, <3>1 DEF Of
      <4> QED
          BY <1>1, <1>2, <1>3, <1>4, <3>1, <3>2, <4>1 DEF Kept
    <3> QED
        BY <1>2, <3>1, <3>3 DEF Placed, t
  <2>2. CASE Usable(c)
    <3>1. /\ pc'[c] = "addSub" /\ subs' = subs \cup {c} /\ UNCHANGED <<relays, twSub>>
          /\ pc[c] = "subscribe"
        BY <1>6, <2>2 DEF TopicSubscribe
    <3>2. \A s \in subs : name[s] = t => s = c
        BY <1>4, <3>1 DEF Placed, t
    <3>3. topics[t] # None /\ state[topics[t]] # "Unknown"
        BY <1>5, <1>6, <2>2
    <3>4. Kept(t)'
        BY <1>1, <1>2, <1>3, <1>4, <3>1, <3>2, <3>3 DEF Kept
    <3>5. Placed(c)'
        BY <1>1, <1>3, <3>1, <3>2 DEF Placed, t
    <3> QED
        BY <1>2, <3>4, <3>5 DEF t
  <2> QED
      BY <2>1, <2>2
<1>7. CASE AddSub(c)
  <2>1. /\ pc'[c] = "listen" /\ UNCHANGED <<subs, relays>> /\ pc[c] = "addSub"
        /\ twSub' = [twSub EXCEPT ![topics[t]] = c]
      BY <1>7 DEF AddSub, t
  <2>2. c \in subs /\ \A s \in subs : name[s] = t => s = c
      BY <1>4, <2>1 DEF Placed, t
  <2>3. topics[t] \in Calls
      BY <1>2, <1>4, <2>2 DEF Kept, Of, t
  <2>4. twSub'[topics[t]] = c
      BY <2>1, <2>3
  <2>5. Of(t, subs \cup relays)' = Of(t, subs \cup relays)
      BY <1>1, <1>2, <2>1 DEF Of
  <2>6. Kept(t)'
      BY <1>1, <1>2, <1>3, <1>4, <2>1, <2>2, <2>3, <2>4, <2>5 DEF Kept
  <2> QED
      BY <1>2, <2>1, <2>6 DEF Placed, t
<1>8. CASE TopicRelay(c)
  <2>0. topic[c] # None /\ pc[c] = "use"
      BY <1>4, <1>8 DEF TopicRelay, Placed
  <2>1. CASE ~Usable(c)
    <3>1. pc'[c] = "done" /\ UNCHANGED <<subs, relays, twSub>>
        BY <1>8, <2>0, <2>1 DEF TopicRelay
    <3>2. \A d \in subs : pc[d] = "addSub" => pc'[d] = "addSub"
        BY <1>1, <1>3, <2>0
    <3>3. Kept(t)'
      <4>1. Of(t, subs \cup relays)' = Of(t, subs \cup relays)
          BY <1>1, <1>2, <3>1 DEF Of
      <4> QED
          BY <1>1, <1>2, <1>3, <1>4, <3>1, <3>2, <4>1 DEF Kept
    <3> QED
        BY <1>2, <3>1, <3>3 DEF Placed, t
  <2>2. CASE Usable(c)
    <3>1. pc'[c] = "setRelay" /\ relays' = relays \cup {c} /\ UNCHANGED <<subs, twSub>>
        BY <1>8, <2>0, <2>2 DEF TopicRelay
    <3>3. topics[t] # None /\ state[topics[t]] # "Unknown"
        BY <1>5, <1>8, <2>2
    <3>4. Kept(t)'
        BY <1>1, <1>2, <1>3, <1>4, <2>0, <3>1, <3>3 DEF Kept
    <3>5. Placed(c)'
        BY <1>1, <1>3, <3>1 DEF Placed, t
    <3> QED
        BY <1>2, <3>4, <3>5 DEF t
  <2> QED
      BY <2>1, <2>2
<1>9. CASE CancelSub(c) \/ CancelRelay(c)
  <2>1. /\ pc[c] = "cancel" /\ pc'[c] \in {"cancel", "done"} /\ subs' \subseteq subs /\ relays' \subseteq relays
        /\ twSub' = twSub
      BY <1>9 DEF CancelSub, CancelRelay
  <2>2. Of(t, subs \cup relays)' \subseteq Of(t, subs \cup relays)
      BY <1>1, <1>2, <2>1 DEF Of
  <2>3. Kept(t)'
    <3>1. Of(t, subs \cup relays) = {} => Of(t, subs \cup relays)' = {}
        BY <2>2, Zenon
    <3>2. ASSUME NEW d \in subs', name'[d] = t' PROVE pc'[d] = "addSub" \/ twSub'[topics'[t]] = d
      <4>1. d \in subs /\ d \in Calls /\ name[d] = t
          BY <1>1, <1>2, <1>3, <2>1, <3>2
      <4>2. pc[d] = "addSub" \/ twSub[topics[t]] = d
          BY <1>4, <4>1 DEF Kept
      <4> QED
          BY <1>1, <1>3, <2>1, <4>1, <4>2
    <3>3. /\ topics' = topics /\ myTopics' = myTopics /\ closed' = closed /\ name' = name
          /\ state' = state /\ twTopic' = twTopic
        BY <1>1, <1>3
    <3> QED
        BY ONLY <1>2, <1>4, <3>1, <3>2, <3>3 DEF Kept
  <2> QED
      BY <1>1, <1>2, <1>3, <1>4, <2>1, <2>3 DEF Placed, t
<1> QED
    BY <1>6, <1>7, <1>8, <1>9

\* Leaving a topic.
LEMMA LocalLeaves ==
    ASSUME IndInv, SeqInv, NEW c \in Calls, CallStep(c), CloseTopic(c) \/ StoreState(c)
    PROVE  Placed(c)' /\ Kept(name[c])' /\ UNCHANGED crashed
<1> DEFINE t == name[c]
           w == wrapper[c]
<1>1. /\ Running(c) /\ UNCHANGED <<op, name>> /\ \A d \in Calls : d # c => pc'[d] = pc[d]
      /\ Settled(t)' <=> pc'[c] \notin {"upgrade", "assign", "left"}
    BY RunningNow
<1>2. t \in Topics /\ t' = t
    BY <1>1 DEF IndInv, TypeOK
<1> HIDE DEF t
<1>3. /\ subs \subseteq Calls /\ UNCHANGED <<topics, wrapper, twTopic, twSub, subs, relays>>
    BY DEF IndInv, TypeOK, CloseTopic, StoreState, callVars, twVars, psVars
<1>4. Of(t, subs \cup relays)' = Of(t, subs \cup relays)
    BY <1>1, <1>2, <1>3 DEF Of
<1>5. /\ Kept(t) /\ Placed(c) /\ (Settled(t) <=> pc[c] \notin {"upgrade", "assign", "left"})
    BY <1>1 DEF Running, t
<1> USE CallsAssumption DEF IndInv, TypeOK, At, Goto, Return, Crash, callVars, twVars, psVars
<1>6. w # None /\ w \in Calls /\ topics[t] = w /\ pc[c] \in {"close", "left", "leaveErr"}
    BY <1>5 DEF CloseTopic, StoreState, Placed, t, Linked
<1> HIDE DEF w
<1>7. \A s \in subs : name[s] = t => twSub[w] = s \/ pc[s] = "addSub"
    BY <1>5, <1>6 DEF Kept
<1>8. \A s \in subs : name[s] = t => twSub[w] = s \/ pc'[s] = "addSub"
    BY <1>1, <1>3, <1>6, <1>7
<1>9. CASE CloseTopic(c)
  <2>1. pc[c] = "close" /\ state[w] \in {"Joined", "Err"} /\ state' = state
      BY <1>5, <1>6, <1>9 DEF CloseTopic, Placed, t
  <2>2. myTopics[t] # None /\ myTopics[t] = twTopic[w] /\ twTopic[w] \notin closed
      BY <1>5, <1>6, <2>1 DEF Kept
  <2>3. UNCHANGED crashed /\ (\/ pc'[c] = "leaveErr" /\ UNCHANGED <<myTopics, closed>>
                              \/ /\ Of(t, subs \cup relays) = {} /\ closed' = closed \cup {twTopic[w]}
                                 /\ myTopics' = [myTopics EXCEPT ![t] = None] /\ pc'[c] = "left")
      BY <1>9, <2>2 DEF CloseTopic, t, w
  <2>4. Kept(t)'
      BY <1>1, <1>2, <1>3, <1>4, <1>5, <1>6, <1>8, <2>1, <2>2, <2>3 DEF Kept
  <2>5. Placed(c)'
      BY <1>1, <1>2, <1>3, <1>4, <1>6, <2>1, <2>3 DEF Placed, t, w
  <2> QED
      BY <1>2, <2>3, <2>4, <2>5 DEF t
<1>10. CASE StoreState(c)
  <2>1. UNCHANGED <<crashed, myTopics, closed>> /\ pc'[c] = "done"
      BY <1>10 DEF StoreState
  <2>2. \/ pc[c] = "left" /\ state'[w] = "Unknown"
        \/ pc[c] = "leaveErr" /\ state'[w] = "Err"
      BY <1>6, <1>10 DEF StoreState, w
  <2>3. \/ /\ state'[w] = "Unknown" /\ twTopic[w] \in closed /\ myTopics[t] = None
           /\ Of(t, subs \cup relays) = {}
        \/ state'[w] = "Err" /\ myTopics[t] # None /\ myTopics[t] = twTopic[w]
      BY <1>5, <1>6, <2>2 DEF Placed, Kept, t
  <2>4. Kept(t)'
      BY <1>1, <1>2, <1>3, <1>4, <1>5, <1>6, <1>8, <2>1, <2>3 DEF Kept
  <2> QED
      BY <1>2, <2>1, <2>4 DEF Placed, t
<1> QED
    BY <1>9, <1>10

\* One step of the only call: what it does to itself and to its topic.
LEMMA CallKeeps ==
    ASSUME IndInv, SeqInv, NEW c \in Calls, CallStep(c)
    PROVE  name' = name /\ Placed(c)' /\ Kept(name[c])'
<1>1. name' = name
    BY RunningNow
<1> QED
    BY <1>1, LocalReads, LocalJoins, LocalUses, LocalLeaves DEF CallStep

\* What wrappers keep is of their topic.
LEMMA StoredStep ==
    ASSUME IndInv, SeqInv, NEW c \in Calls, CallStep(c)
    PROVE  Stored'
<1>1. name' = name
    BY RunningNow
<1>2. \/ UNCHANGED <<twSub, twRelay>>
      \/ twSub' = [twSub EXCEPT ![topics[name[c]]] = c] /\ UNCHANGED twRelay
      \/ twRelay' = [twRelay EXCEPT ![topics[name[c]]] = c] /\ UNCHANGED twSub
    <2> USE DEF twVars
    <2>1. CASE GetTopicWrapper(c) \/ KnownTopic(c) \/ JoiningTopic(c) \/ Join(c) \/ UpgradeTopic(c)
        BY <2>1 DEF GetTopicWrapper, KnownTopic, JoiningTopic, Join, UpgradeTopic
    <2>2. CASE AssignTopic(c) \/ RegisterValidator(c) \/ Publish(c) \/ GetSub(c) \/ TopicSubscribe(c)
        BY <2>2 DEF AssignTopic, RegisterValidator, Publish, GetSub, TopicSubscribe
    <2>3. CASE AddSub(c) \/ Listen(c) \/ TopicRelay(c) \/ SetTopicRelayCancelFn(c) \/ LoadState(c)
        BY <2>3 DEF AddSub, Listen, TopicRelay, SetTopicRelayCancelFn, LoadState
    <2>4. CASE CloseTopic(c) \/ StoreState(c) \/ CancelSub(c) \/ CancelRelay(c)
        BY <2>4 DEF CloseTopic, StoreState, CancelSub, CancelRelay
    <2> QED
        BY <2>1, <2>2, <2>3, <2>4 DEF CallStep
<1>3. topics[name[c]] # None => name[topics[name[c]]] = name[c]
    BY DEF IndInv, TypeOK, Linked
<1> QED
    BY <1>1, <1>2, <1>3, CallsAssumption DEF IndInv, TypeOK, SeqInv, Stored

\* A handle is closed once its joiner has stored it, and calls only move on.
LEMMA ClosedStep ==
    ASSUME IndInv, SeqInv, NEW c \in Calls, CallStep(c)
    PROVE  \A h \in closed' : pc'[h] \notin Early
<1>1. \A d \in Calls : pc[d] \notin Early => pc'[d] \notin Early
    <2> USE DEF IndInv, TypeOK, Early, At, Goto, Return, Crash
    <2>1. CASE GetTopicWrapper(c) \/ KnownTopic(c) \/ JoiningTopic(c) \/ Join(c) \/ UpgradeTopic(c)
        BY <2>1 DEF GetTopicWrapper, KnownTopic, JoiningTopic, Join, UpgradeTopic
    <2>2. CASE AssignTopic(c) \/ RegisterValidator(c) \/ Publish(c) \/ GetSub(c) \/ TopicSubscribe(c)
        BY <2>2 DEF AssignTopic, RegisterValidator, Publish, GetSub, TopicSubscribe
    <2>3. CASE AddSub(c) \/ Listen(c) \/ TopicRelay(c) \/ SetTopicRelayCancelFn(c) \/ LoadState(c)
        BY <2>3 DEF AddSub, Listen, TopicRelay, SetTopicRelayCancelFn, LoadState
    <2>4. CASE CloseTopic(c) \/ StoreState(c) \/ CancelSub(c) \/ CancelRelay(c)
        BY <2>4 DEF CloseTopic, StoreState, CancelSub, CancelRelay
    <2> QED
        BY <2>1, <2>2, <2>3, <2>4 DEF CallStep
<1>2. closed' = closed \/ (CloseTopic(c) /\ closed' = closed \cup {twTopic[wrapper[c]]} /\ twTopic[wrapper[c]] # None)
    <2> USE DEF psVars
    <2>1. CASE GetTopicWrapper(c) \/ KnownTopic(c) \/ JoiningTopic(c) \/ Join(c) \/ UpgradeTopic(c)
        BY <2>1 DEF GetTopicWrapper, KnownTopic, JoiningTopic, Join, UpgradeTopic
    <2>2. CASE AssignTopic(c) \/ RegisterValidator(c) \/ Publish(c) \/ GetSub(c) \/ TopicSubscribe(c)
        BY <2>2 DEF AssignTopic, RegisterValidator, Publish, GetSub, TopicSubscribe
    <2>3. CASE AddSub(c) \/ Listen(c) \/ TopicRelay(c) \/ SetTopicRelayCancelFn(c) \/ LoadState(c)
        BY <2>3 DEF AddSub, Listen, TopicRelay, SetTopicRelayCancelFn, LoadState
    <2>4. CASE CloseTopic(c) \/ StoreState(c) \/ CancelSub(c) \/ CancelRelay(c)
        BY <2>4 DEF CloseTopic, StoreState, CancelSub, CancelRelay
    <2> QED
        BY <2>1, <2>2, <2>3, <2>4 DEF CallStep
<1>3. CASE closed' = closed
    BY <1>1, <1>3 DEF IndInv, TypeOK, SeqInv
<1>4. CASE CloseTopic(c) /\ closed' = closed \cup {twTopic[wrapper[c]]} /\ twTopic[wrapper[c]] # None
  <2>1. wrapper[c] \in Calls
      BY <1>4 DEF IndInv, TypeOK, Linked, CloseTopic, At
  <2>2. twTopic[wrapper[c]] \in Calls /\ pc[twTopic[wrapper[c]]] \notin Early
      BY <1>4, <2>1 DEF IndInv, TypeOK, Linked
  <2> QED
      BY <1>1, <1>4, <2>2 DEF IndInv, TypeOK, SeqInv
<1> QED
    BY <1>2, <1>3, <1>4

\* No join of the only call finds a nil handle.
LEMMA SafeStep ==
    ASSUME IndInv, SeqInv, NEW c \in Calls, CallStep(c)
    PROVE  JoinsAreSafe'
<1>1. Running(c) /\ UNCHANGED op
    BY RunningNow
<1>2. ~crashed
    BY DEF CallStep, GetTopicWrapper, KnownTopic, JoiningTopic, Join, UpgradeTopic, AssignTopic, RegisterValidator,
           Publish, GetSub, TopicSubscribe, AddSub, Listen, TopicRelay, SetTopicRelayCancelFn, LoadState,
           CloseTopic, StoreState, CancelSub, CancelRelay, At
<1> USE DEF IndInv, TypeOK, At, Goto, Return, Crash
<1>3. CASE GetTopicWrapper(c)
    BY <1>1, <1>2, <1>3 DEF GetTopicWrapper, JoinsAreSafe
<1>4. CASE Publish(c) \/ GetSub(c) \/ TopicRelay(c)
  <2>1. topic[c] # None
      BY <1>1, <1>4 DEF Publish, GetSub, TopicRelay, Running, Placed
  <2> QED
      BY <1>2, <1>4, <2>1 DEF Publish, GetSub, TopicRelay, JoinsAreSafe
<1>5. CASE CloseTopic(c) \/ StoreState(c)
    BY <1>2, <1>5, LocalLeaves DEF JoinsAreSafe
<1>6. CASE CancelSub(c) \/ CancelRelay(c)
    BY <1>1, <1>2, <1>6 DEF CancelSub, CancelRelay, Joins, JoinsAreSafe
<1>7. CASE KnownTopic(c) \/ JoiningTopic(c) \/ Join(c) \/ UpgradeTopic(c) \/ AssignTopic(c)
    BY <1>2, <1>7 DEF KnownTopic, JoiningTopic, Join, UpgradeTopic, AssignTopic, JoinsAreSafe
<1>8. CASE \/ RegisterValidator(c) \/ TopicSubscribe(c) \/ AddSub(c) \/ Listen(c)
           \/ SetTopicRelayCancelFn(c) \/ LoadState(c)
    BY <1>2, <1>8 DEF RegisterValidator, TopicSubscribe, AddSub, Listen, SetTopicRelayCancelFn, LoadState, JoinsAreSafe
<1> QED
    BY <1>3, <1>4, <1>5, <1>6, <1>7, <1>8 DEF CallStep

\* The call that begins is the only one.
LEMMA BeginsAlone ==
    ASSUME IndInv, SeqInv, inFlight = 1, NEW c \in Calls, Begin(c)
    PROVE  \A d \in Calls : ~Active(d)
<1> DEFINE active == {d \in Calls : pc[d] \notin {"new", "done"}}
<1>1. Cardinality(active) < 1
    BY DEF Begin
<1>2. SUFFICES ASSUME NEW d \in Calls, Active(d) PROVE FALSE
    OBVIOUS
<1>3. active = {d}
    BY <1>2 DEF SeqInv, Alone, Active
<1>4. Cardinality({d}) = 1
    BY FS_Singleton
<1> HIDE DEF active
<1> QED
    BY <1>1, <1>3, <1>4

LEMMA OneByOneStep == ASSUME IndInv, OneByOne, [Next]_vars PROVE OneByOne'
<1> SUFFICES ASSUME inFlight' = 1 PROVE SeqInv'
    BY DEF OneByOne
<1>1. inFlight = 1 /\ SeqInv
    BY DEF Next, vars, OneByOne
<1>2. CASE UNCHANGED vars
  <2>1. UNCHANGED <<pc, op, name, wrapper, topic, topics, state, twTopic, twSub, twRelay, myTopics, closed, subs, relays, crashed>>
      BY <1>2 DEF vars, callVars, twVars, psVars
  <2> QED
      BY <1>1, <2>1 DEF SeqInv, Alone, Active, Stored, Placed, Kept, Of, Settled, JoinsAreSafe
<1>3. ASSUME NEW c \in Calls, ListenerExits(c) PROVE SeqInv'
  <2>1. UNCHANGED <<pc, op, name, wrapper, topic, topics, state, twTopic, twSub, twRelay, myTopics, closed, subs, relays, crashed>>
      BY <1>3 DEF ListenerExits, callVars, twVars, psVars
  <2> QED
      BY <1>1, <2>1 DEF SeqInv, Alone, Active, Stored, Placed, Kept, Of, Settled, JoinsAreSafe
<1>4. ASSUME NEW c \in Calls, Begin(c) PROVE SeqInv'
  <2>1. UNCHANGED <<op, name, wrapper, topic, topics, state, twTopic, twSub, twRelay, myTopics, closed, subs, relays, crashed>>
      BY <1>4 DEF Begin, Goto, callVars, twVars, psVars
  <2>2. /\ pc[c] = "new" /\ pc' = [pc EXCEPT ![c] = "get"] /\ ~crashed
      BY <1>4 DEF Begin, At, Goto
  <2>3. \A d \in Calls : pc[d] \in {"new", "done"}
      BY <1>1, <1>4, BeginsAlone DEF Active
  <2>4. pc'[c] = "get" /\ \A d \in Calls : d # c => pc'[d] \in {"new", "done"} /\ pc'[d] = pc[d]
      BY <2>2, <2>3 DEF IndInv, TypeOK
  <2>5. Alone' /\ Stored' /\ JoinsAreSafe'
      BY <1>1, <2>1, <2>2, <2>4 DEF SeqInv, Alone, Active, Stored, JoinsAreSafe
  <2>6. \A d \in Calls : Placed(d)'
    <3>1. ASSUME NEW d \in Calls PROVE pc'[d] \in {"new", "get", "done"}
        BY <2>4
    <3> QED
        BY <3>1 DEF Placed
  <2>7. ASSUME NEW t \in Topics PROVE Kept(t)'
    <3>1. Settled(t)
        BY <2>3 DEF Settled
    <3>2. \A d \in subs : pc[d] = "addSub" => pc'[d] = "addSub"
        BY <2>3 DEF IndInv, TypeOK
    <3> QED
        BY <1>1, <2>1, <3>1, <3>2, KeptSame DEF SeqInv
  <2>8. \A h \in closed' : pc'[h] \notin Early
      BY <1>1, <2>1, <2>2, <2>4 DEF SeqInv, IndInv, TypeOK, Early
  <2> QED
      BY <2>5, <2>6, <2>7, <2>8 DEF SeqInv
<1>5. ASSUME NEW c \in Calls, CallStep(c) PROVE SeqInv'
  <2>1. name' = name /\ Placed(c)' /\ Kept(name[c])'
      BY <1>1, <1>5, CallKeeps
  <2>2. Alone' /\ (\A d \in Calls : Placed(d)') /\ (\A t \in Topics : Kept(t)')
      BY <1>1, <1>5, <2>1, OnlyOne
  <2> QED
      BY <1>1, <1>5, <2>2, StoredStep, ClosedStep, SafeStep DEF SeqInv
<1>6. CASE ThreadsStop
  <2>1. UNCHANGED <<pc, op, name, wrapper, topic, topics, state, twTopic, twSub, twRelay, myTopics, closed, subs, relays, crashed>>
      BY <1>6 DEF ThreadsStop, callVars, twVars, psVars
  <2> QED
      BY <1>1, <2>1 DEF SeqInv, Alone, Active, Stored, Placed, Kept, Of, Settled, JoinsAreSafe
<1> QED
    BY <1>2, <1>3, <1>4, <1>5, <1>6 DEF Next

(****************************************************************************)
(* The theorems.                                                            *)
(****************************************************************************)
\* The strengthened invariant holds in every reachable state.
THEOREM Invariance == Spec => []IndInv
<1>1. IndInv /\ [Next]_vars => IndInv'
  <2> SUFFICES ASSUME IndInv, [Next]_vars PROVE IndInv'
      OBVIOUS
  <2>1. TypeOK' /\ EverySubHasListener'
      BY TypeStep, ListenerStep DEF IndInv
  <2> QED
      BY <2>1, LinkedStep, HandlesStep, OpenedStep, UpgradeStep, GuardedStep DEF IndInv
<1> QED
    BY InitInv, <1>1, PTL DEF Spec

\* Every variable of the registry keeps its type, and no call but the one
\* inside upgradeTopic keeps the lock between two steps.
THEOREM TypeCorrect == Spec => []TypeOK
<1>1. IndInv => TypeOK
    BY DEF IndInv
<1> QED
    BY Invariance, <1>1, PTL

\* upgradeTopic succeeds for every joiner of a topic that nobody has closed:
\* tryJoin may ignore its result.
THEOREM UpgradeNeverFails == Spec => []UpgradeSucceeds
<1>1. IndInv => UpgradeSucceeds
    BY DEF IndInv
<1> QED
    BY Invariance, <1>1, PTL

\* A wrapper past Joining has a handle of its own, outside upgradeTopic.
THEOREM HandlesKept == Spec => []HandlesInPlace
<1>1. IndInv => HandlesInPlace
    BY DEF IndInv
<1> QED
    BY Invariance, <1>1, PTL

\* Every live subscription is being read, or is about to be, until the
\* controller is closed.
THEOREM SubscriptionsRead == Spec => []EverySubHasListener
<1>1. IndInv => EverySubHasListener
    BY DEF IndInv
<1> QED
    BY Invariance, <1>1, PTL

\* With validation configured, the topic of a live subscription has its
\* validator or a joiner that is about to register it.
THEOREM SubscriptionsValidated == Spec => []ValidatedSoon
<1>1. IndInv => ValidatedSoon
    BY DEF IndInv, Guarded, Exposed, ValidatedSoon
<1> QED
    BY Invariance, <1>1, PTL

\* When callers wait for each call to return, registry and pubsub stay in
\* step: every live subscription can be cancelled, the state of a topic
\* follows its handle, and no Publish, Subscribe or Relay meets a nil handle.
THEOREM StaysInStep == Spec => []InStep
<1>1. Init => OneByOne
  <2> SUFFICES ASSUME Init PROVE SeqInv
      BY DEF OneByOne
  <2>1. Alone /\ Stored /\ JoinsAreSafe /\ closed = {}
      BY DEF Init, Alone, Active, Stored, JoinsAreSafe
  <2>2. \A c \in Calls : Placed(c)
      BY DEF Init, Placed
  <2>3. \A t \in Topics : Kept(t)
      BY DEF Init, Kept, Of
  <2> QED
      BY <2>1, <2>2, <2>3 DEF SeqInv
<1>2. IndInv /\ OneByOne /\ [Next]_vars => OneByOne'
    BY OneByOneStep
<1>3. IndInv /\ OneByOne => InStep
  <2> SUFFICES ASSUME IndInv, SeqInv PROVE SubsCancellable /\ StateAgrees /\ JoinsAreSafe
      BY DEF OneByOne, InStep
  <2>1. SubsCancellable
      BY DEF IndInv, TypeOK, SeqInv, Kept, SubsCancellable
  <2>2. StateAgrees
      BY DEF SeqInv, Kept, StateAgrees
  <2> QED
      BY <2>1, <2>2 DEF SeqInv
<1> QED
    BY Invariance, <1>1, <1>2, <1>3, PTL DEF Spec
=============================================================================
