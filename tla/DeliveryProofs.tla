--------------------------- MODULE DeliveryProofs ---------------------------
(****************************************************************************)
(* Proofs about the ways of messages in Delivery, for any consumers, sizes  *)
(* of queues and number of messages.  The way of a consumer is taken apart: *)
(* each queue is increasing and everything in it is before everything in    *)
(* the queues behind it (Ordered), and a message is in the server's queue,  *)
(* on the way of one consumer, or lost in one way, and nowhere else (Once). *)
(* Steps then move a message between sets.                                  *)
(****************************************************************************)
EXTENDS Delivery, FiniteSetTheorems, SequenceTheorems, TLAPS

Before(S, T) == \A x \in S, y \in T : x < y

\* What the Listen loop of a consumer holds.
Held(c) == IF held[c] = None THEN {} ELSE {held[c]}

\* The messages on the way of a consumer, and those from its stream on.
OnWay(c) == ToSet(handled[c]) \cup ToSet(msgQ[c]) \cup ToSet(stream[c]) \cup Held(c)

\* The order of what is on the way of one consumer and what it may still get.
OrderedAt(c) ==
    /\ Increasing(handled[c]) /\ Increasing(msgQ[c]) /\ Increasing(stream[c])
    /\ Before(ToSet(handled[c]), ToSet(msgQ[c]) \cup ToSet(stream[c]) \cup Held(c) \cup ToSet(q))
    /\ Before(ToSet(msgQ[c]), ToSet(stream[c]) \cup Held(c) \cup ToSet(q))
    /\ Before(ToSet(stream[c]), Held(c) \cup ToSet(q))
    /\ Before(Held(c), ToSet(q))

Ordered == Increasing(q) /\ \A c \in Consumers : OrderedAt(c)

\* The three kinds of places, each exclusive.
OnlyQueued(m) == /\ m \in ToSet(q)
                 /\ \A c \in Consumers : m \notin OnWay(c)
                 /\ \A w \in Ways : m \notin lost[w]
OnlyOnWay(m, c) == /\ m \notin ToSet(q)
                   /\ \A d \in Consumers : m \in OnWay(d) <=> d = c
                   /\ \A w \in Ways : m \notin lost[w]
OnlyLost(m, w) == /\ m \notin ToSet(q)
                  /\ \A c \in Consumers : m \notin OnWay(c)
                  /\ \A v \in Ways : m \in lost[v] <=> v = w

OnePlace(m) == \/ OnlyQueued(m)
               \/ \E c \in Consumers : OnlyOnWay(m, c)
               \/ \E w \in Ways : OnlyLost(m, w)

Once == \A m \in Messages : OnePlace(m)

\* Before Start nothing of a consumer runs, fails or is queued.
Fresh == \A c \in Consumers : loop[c] = "off" =>
            listen[c] = "off" /\ recv[c] = "off" /\ ~Failed(c) /\ msgQ[c] = <<>>

\* The consumers whose Listen loop is over.
Over == {c \in broken \cup cancelled : listen[c] = "off"}

\* Every unsent message was that of a Listen loop that is over.
Unsent == /\ IsFiniteSet(broken) /\ IsFiniteSet(cancelled) /\ IsFiniteSet(lost["unsent"])
          /\ Cardinality(lost["unsent"]) <= Cardinality(Over)

IndInv == TypeOK /\ Ordered /\ Once /\ Fresh /\ Unsent

(****************************************************************************)
(* Sequences: what they contain, and their order.                           *)
(****************************************************************************)
LEMMA ToSetFacts ==
    ASSUME NEW s \in Seq(Nat)
    PROVE  /\ \A x : x \in ToSet(s) <=> \E i \in 1 .. Len(s) : x = s[i]
           /\ ToSet(s) \subseteq Nat
           /\ Len(s) \in Nat /\ DOMAIN s = 1 .. Len(s)
<1>1. Len(s) \in Nat /\ DOMAIN s = 1 .. Len(s) /\ \A i \in 1 .. Len(s) : s[i] \in Nat
    OBVIOUS
<1> QED
    BY <1>1 DEF ToSet

LEMMA EmptyFacts == ToSet(<<>>) = {} /\ Increasing(<<>>)
    BY DEF ToSet, Increasing

LEMMA AppendFacts ==
    ASSUME NEW s \in Seq(Nat), NEW x \in Nat
    PROVE  /\ Append(s, x) \in Seq(Nat)
           /\ ToSet(Append(s, x)) = ToSet(s) \cup {x}
           /\ Increasing(s) /\ Before(ToSet(s), {x}) => Increasing(Append(s, x))
<1> DEFINE t == Append(s, x)
<1>1. /\ t \in Seq(Nat) /\ Len(t) = Len(s) + 1 /\ Len(s) \in Nat
      /\ t[Len(s) + 1] = x /\ \A i \in 1 .. Len(s) : t[i] = s[i]
    OBVIOUS
<1> HIDE DEF t
<1>2. ToSet(t) = ToSet(s) \cup {x}
  <2>1. ASSUME NEW y \in ToSet(t) PROVE y \in ToSet(s) \cup {x}
    <3>1. PICK i \in 1 .. Len(t) : y = t[i]
        BY <1>1, <2>1, ToSetFacts
    <3>2. CASE i = Len(s) + 1
        BY <1>1, <3>1, <3>2
    <3>3. CASE i \in 1 .. Len(s)
        BY <1>1, <3>1, <3>3, ToSetFacts
    <3> QED
        BY <1>1, <3>2, <3>3
  <2>2. ASSUME NEW y \in ToSet(s) PROVE y \in ToSet(t)
    <3>1. PICK i \in 1 .. Len(s) : y = s[i]
        BY <2>2, ToSetFacts
    <3>2. i \in 1 .. Len(t) /\ y = t[i]
        BY <1>1, <3>1
    <3> QED
        BY <1>1, <3>2, ToSetFacts
  <2>3. x \in ToSet(t)
      BY <1>1, ToSetFacts
  <2> QED
      BY <2>1, <2>2, <2>3
<1>3. ASSUME Increasing(s), Before(ToSet(s), {x}) PROVE Increasing(t)
  <2> SUFFICES ASSUME NEW i \in 1 .. Len(t), NEW j \in 1 .. Len(t), i < j PROVE t[i] < t[j]
      BY <1>1, ToSetFacts DEF Increasing
  <2>1. i \in 1 .. Len(s) /\ t[i] = s[i]
      BY <1>1, SMTT(30)
  <2>2. CASE j \in 1 .. Len(s)
      BY <1>1, <1>3, <2>1, <2>2, ToSetFacts DEF Increasing
  <2>3. CASE j = Len(s) + 1
      BY <1>1, <1>3, <2>1, <2>3, ToSetFacts DEF Before
  <2> QED
      BY <1>1, <2>2, <2>3, SMTT(30)
<1> QED
    BY <1>1, <1>2, <1>3 DEF t

LEMMA TailFacts ==
    ASSUME NEW s \in Seq(Nat), s # <<>>
    PROVE  /\ Head(s) \in Nat /\ Tail(s) \in Seq(Nat)
           /\ ToSet(s) = {Head(s)} \cup ToSet(Tail(s))
           /\ Increasing(s) => /\ Increasing(Tail(s))
                               /\ Before({Head(s)}, ToSet(Tail(s)))
                               /\ Head(s) \notin ToSet(Tail(s))
<1> DEFINE t == Tail(s)
<1>1. /\ t \in Seq(Nat) /\ Len(t) = Len(s) - 1 /\ Len(s) \in Nat \ {0} /\ Len(t) \in Nat
      /\ Head(s) = s[1] /\ s[1] \in Nat
    OBVIOUS
<1>2. \A i \in 1 .. Len(t) : t[i] = s[i + 1]
    BY HeadTailProperties
<1> HIDE DEF t
<1>3. ASSUME NEW y \in ToSet(s) PROVE y = s[1] \/ y \in ToSet(t)
  <2>1. PICK i \in 1 .. Len(s) : y = s[i]
      BY <1>3, ToSetFacts
  <2>2. CASE i = 1
      BY <2>1, <2>2
  <2>3. CASE i # 1
    <3>1. i - 1 \in 1 .. Len(t) /\ y = t[i - 1]
        BY <1>1, <1>2, <2>1, <2>3
    <3> QED
        BY <1>1, <3>1, ToSetFacts
  <2> QED
      BY <2>2, <2>3
<1>4. ASSUME NEW y \in ToSet(t) PROVE \E i \in 2 .. Len(s) : y = s[i]
  <2>1. PICK i \in 1 .. Len(t) : y = t[i]
      BY <1>1, <1>4, ToSetFacts
  <2>2. i + 1 \in 2 .. Len(s) /\ y = s[i + 1]
      BY <1>1, <1>2, <2>1
  <2> QED
      BY <2>2
<1>5. ToSet(s) = {s[1]} \cup ToSet(t)
  <2>1. s[1] \in ToSet(s)
      BY <1>1, ToSetFacts
  <2>2. ASSUME NEW y \in ToSet(t) PROVE y \in ToSet(s)
    <3>1. PICK i \in 2 .. Len(s) : y = s[i]
        BY <1>4
    <3>2. i \in 1 .. Len(s)
        BY <1>1
    <3> QED
        BY <3>1, <3>2, ToSetFacts
  <2> QED
      BY <1>3, <2>1, <2>2
<1>6. ASSUME Increasing(s)
      PROVE  Increasing(t) /\ \A y \in ToSet(t) : s[1] < y
  <2>1. ASSUME NEW i \in 1 .. Len(t), NEW j \in 1 .. Len(t), i < j PROVE t[i] < t[j]
    <3>1. i + 1 \in 1 .. Len(s) /\ j + 1 \in 1 .. Len(s) /\ i + 1 < j + 1
        BY <1>1, <2>1
    <3>2. s[i + 1] < s[j + 1]
        BY <1>6, <3>1, ToSetFacts DEF Increasing
    <3> QED
        BY <1>2, <3>2
  <2>2. Increasing(t)
      BY <1>1, <2>1, ToSetFacts DEF Increasing
  <2>3. ASSUME NEW y \in ToSet(t) PROVE s[1] < y
    <3>1. PICK i \in 2 .. Len(s) : y = s[i]
        BY <1>4
    <3>2. 1 \in 1 .. Len(s) /\ i \in 1 .. Len(s) /\ 1 < i
        BY <1>1
    <3> QED
        BY <1>6, <3>1, <3>2, ToSetFacts DEF Increasing
  <2> QED
      BY <2>2, <2>3
<1>7. ~(s[1] < s[1])
    BY <1>1
<1> QED
    BY <1>1, <1>5, <1>6, <1>7 DEF t, Before

LEMMA ConcatFacts ==
    ASSUME NEW s \in Seq(Nat), NEW t \in Seq(Nat)
    PROVE  /\ s \o t \in Seq(Nat)
           /\ ToSet(s \o t) = ToSet(s) \cup ToSet(t)
           /\ Increasing(s) /\ Increasing(t) /\ Before(ToSet(s), ToSet(t)) => Increasing(s \o t)
<1> DEFINE u == s \o t
<1>1. /\ u \in Seq(Nat) /\ Len(u) = Len(s) + Len(t)
      /\ Len(s) \in Nat /\ Len(t) \in Nat
      /\ \A i \in 1 .. Len(s) + Len(t) : u[i] = IF i <= Len(s) THEN s[i] ELSE t[i - Len(s)]
    BY ConcatProperties
<1> HIDE DEF u
<1>2. \A i \in 1 .. Len(s) : i \in 1 .. Len(u) /\ u[i] = s[i]
    BY <1>1, SMTT(30)
<1>3. ASSUME NEW i \in 1 .. Len(t) PROVE i + Len(s) \in 1 .. Len(u) /\ u[i + Len(s)] = t[i]
  <2>1. i + Len(s) \in 1 .. Len(s) + Len(t) /\ ~(i + Len(s) <= Len(s)) /\ i + Len(s) - Len(s) = i
      BY <1>1
  <2> QED
      BY <1>1, <2>1, SMTT(30)
<1>4. ASSUME NEW i \in 1 .. Len(u), ~(i <= Len(s))
      PROVE  i - Len(s) \in 1 .. Len(t) /\ u[i] = t[i - Len(s)]
    BY <1>1, <1>4
<1>5. ToSet(u) = ToSet(s) \cup ToSet(t)
  <2>1. ASSUME NEW y \in ToSet(u) PROVE y \in ToSet(s) \cup ToSet(t)
    <3>1. PICK i \in 1 .. Len(u) : y = u[i]
        BY <1>1, <2>1, ToSetFacts, ZenonT(60)
    <3>2. CASE i <= Len(s)
      <4>1. i \in 1 .. Len(s)
          BY <1>1, <3>2
      <4> QED
          BY <1>2, <3>1, <4>1, ToSetFacts
    <3>3. CASE ~(i <= Len(s))
        BY <1>4, <3>1, <3>3, ToSetFacts
    <3> QED
        BY <3>2, <3>3
  <2>2. ASSUME NEW y \in ToSet(s) PROVE y \in ToSet(u)
    <3>1. PICK i \in 1 .. Len(s) : y = s[i]
        BY <2>2, ToSetFacts
    <3> QED
        BY <1>1, <1>2, <3>1, ToSetFacts
  <2>3. ASSUME NEW y \in ToSet(t) PROVE y \in ToSet(u)
    <3>1. PICK i \in 1 .. Len(t) : y = t[i]
        BY <2>3, ToSetFacts
    <3> QED
        BY <1>1, <1>3, <3>1, ToSetFacts
  <2> QED
      BY <2>1, <2>2, <2>3
<1>6. ASSUME Increasing(s), Increasing(t), Before(ToSet(s), ToSet(t)) PROVE Increasing(u)
  <2> SUFFICES ASSUME NEW i \in 1 .. Len(u), NEW j \in 1 .. Len(u), i < j PROVE u[i] < u[j]
      BY <1>1, ToSetFacts DEF Increasing
  <2>1. CASE j <= Len(s)
    <3>1. i \in 1 .. Len(s) /\ j \in 1 .. Len(s)
        BY <1>1, <2>1
    <3> QED
        BY <1>2, <1>6, <3>1, ToSetFacts DEF Increasing
  <2>2. CASE ~(i <= Len(s))
    <3>1. ~(j <= Len(s)) /\ i - Len(s) < j - Len(s)
        BY <1>1, <2>2
    <3>2. /\ i - Len(s) \in 1 .. Len(t) /\ u[i] = t[i - Len(s)]
          /\ j - Len(s) \in 1 .. Len(t) /\ u[j] = t[j - Len(s)]
        BY <1>4, <2>2, <3>1
    <3> QED
        BY <1>6, <3>1, <3>2, ToSetFacts DEF Increasing
  <2>3. CASE i <= Len(s) /\ ~(j <= Len(s))
    <3>1. u[i] \in ToSet(s)
      <4>1. i \in 1 .. Len(s)
          BY <1>1, <2>3
      <4> QED
          BY <1>2, <4>1, ToSetFacts
    <3>2. u[j] \in ToSet(t)
        BY <1>4, <2>3, ToSetFacts
    <3> QED
        BY <1>6, <3>1, <3>2 DEF Before
  <2> QED
      BY <2>1, <2>2, <2>3
<1> QED
    BY <1>1, <1>5, <1>6 DEF u

\* In an increasing sequence an element has one position.
LEMMA OnePosition ==
    ASSUME NEW s \in Seq(Nat), Increasing(s), NEW x \in ToSet(s)
    PROVE  \E i : Positions(x, s) = {i}
<1>1. PICK i \in 1 .. Len(s) : x = s[i]
    BY ToSetFacts
<1>2. ASSUME NEW j \in 1 .. Len(s), s[j] = x PROVE j = i
  <2>1. s[i] \in Nat /\ s[j] \in Nat
      BY ToSetFacts
  <2>2. CASE i < j
      BY <1>1, <1>2, <2>1, <2>2, ToSetFacts DEF Increasing
  <2>3. CASE j < i
      BY <1>1, <1>2, <2>1, <2>3, ToSetFacts DEF Increasing
  <2> QED
      BY <2>2, <2>3
<1>3. Positions(x, s) = {i}
    BY <1>1, <1>2, ToSetFacts DEF Positions
<1> QED
    BY <1>3

(****************************************************************************)
(* Types.                                                                   *)
(****************************************************************************)
LEMMA InitType == Init => TypeOK
<1> SUFFICES ASSUME Init PROVE TypeOK
    OBVIOUS
<1> USE DEF Init
<1>1. pushed \in 0 .. MaxPushes /\ q \in Seq(Messages) /\ Len(q) <= QSize
    BY SizesAssumption
<1>2. /\ listen \in [Consumers -> {"off", "select", "send"}]
      /\ held \in [Consumers -> Messages \cup {None}]
      /\ \A c \in Consumers : held[c] = None /\ listen[c] = "off"
    OBVIOUS
<1>3. /\ stream \in [Consumers -> Seq(Messages)] /\ msgQ \in [Consumers -> Seq(Messages)]
      /\ handled \in [Consumers -> Seq(Messages)]
    OBVIOUS
<1>4. \A c \in Consumers : Len(stream[c]) <= StreamSize /\ Len(msgQ[c]) <= MsgQSize
    BY SizesAssumption
<1>5. broken \subseteq Consumers /\ cancelled \subseteq Consumers
    OBVIOUS
<1>6. /\ recv \in [Consumers -> {"off", "recv", "closed"}]
      /\ loop \in [Consumers -> {"off", "run", "returned"}]
      /\ stop \in [Consumers -> {"no", "waiting", "done"}]
    OBVIOUS
<1>7. lost \in [Ways -> SUBSET Messages]
    OBVIOUS
<1> QED
    BY <1>1, <1>2, <1>3, <1>4, <1>5, <1>6, <1>7 DEF TypeOK

\* What the elements of the queues are.
LEMMA SeqTypes ==
    ASSUME TypeOK
    PROVE  /\ Messages \subseteq Nat /\ pushed \in Nat
           /\ q \in Seq(Nat) /\ ToSet(q) \subseteq Messages
           /\ \A c \in Consumers :
                 /\ stream[c] \in Seq(Nat) /\ ToSet(stream[c]) \subseteq Messages
                 /\ msgQ[c] \in Seq(Nat) /\ ToSet(msgQ[c]) \subseteq Messages
                 /\ handled[c] \in Seq(Nat) /\ ToSet(handled[c]) \subseteq Messages
                 /\ Held(c) \subseteq Messages
<1>1. Messages \subseteq Nat /\ pushed \in Nat
    BY SizesAssumption DEF Messages, TypeOK
<1>2. ASSUME NEW s \in Seq(Messages) PROVE s \in Seq(Nat) /\ ToSet(s) \subseteq Messages
  <2>1. s \in Seq(Nat)
      BY <1>1, <1>2, SeqMonotonic
  <2> QED
      BY <1>2, <2>1, ToSetFacts
<1>3. ASSUME NEW c \in Consumers PROVE Held(c) \subseteq Messages
    BY <1>3 DEF Held, TypeOK
<1> QED
    BY <1>1, <1>2, <1>3 DEF TypeOK

LEMMA NextType == TypeOK /\ Fresh /\ [Next]_vars => TypeOK'
<1> SUFFICES ASSUME TypeOK, Fresh, [Next]_vars PROVE TypeOK'
    OBVIOUS
<1> USE DEF serverVars, connVars, clientVars
<1>1. CASE UNCHANGED vars
    BY <1>1 DEF vars, TypeOK, Messages
<1>2. CASE Push
  <2>1. pushed' \in 0 .. MaxPushes /\ pushed + 1 \in Messages' /\ Messages \subseteq Messages'
      BY <1>2, SizesAssumption DEF Push, TypeOK, Messages
  <2>2. \A s \in Seq(Messages) : s \in Seq(Messages')
      BY <2>1, SeqMonotonic
  <2>3. q' \in Seq(Messages') /\ Len(q') <= QSize
    <3>1. q \in Seq(Messages')
        BY <2>2 DEF TypeOK
    <3>2. CASE UNCHANGED q
        BY <3>1, <3>2 DEF TypeOK
    <3>3. CASE Len(q) < QSize /\ q' = Append(q, pushed + 1)
        BY <2>1, <3>1, <3>3, SizesAssumption
    <3> QED
        BY <1>2, <3>2, <3>3 DEF Push
  <2>4. held' \in [Consumers -> Messages' \cup {None}]
      BY <1>2, <2>1 DEF Push, TypeOK
  <2>5. /\ stream' \in [Consumers -> Seq(Messages')] /\ msgQ' \in [Consumers -> Seq(Messages')]
        /\ handled' \in [Consumers -> Seq(Messages')]
      BY <1>2, <2>2 DEF Push, TypeOK
  <2>6. lost' \in [Ways -> SUBSET Messages']
    <3>1. lost \in [Ways -> SUBSET Messages']
        BY <2>1 DEF TypeOK
    <3> QED
        BY <1>2, <2>1, <3>1 DEF Push, Lose
  <2> QED
      BY <1>2, <2>1, <2>3, <2>4, <2>5, <2>6 DEF Push, TypeOK
<1>3. ASSUME NEW c \in Consumers, ListenTakes(c) PROVE TypeOK'
  <2>1. UNCHANGED Messages
      BY <1>3 DEF ListenTakes, Messages
  <2>2. Head(q) \in Messages /\ Tail(q) \in Seq(Messages) /\ Len(Tail(q)) <= QSize
      BY <1>3, SizesAssumption DEF ListenTakes, TypeOK
  <2>3. Head(q) # None
      BY <2>2, SeqTypes, NoneAssumption
  <2>4. held' \in [Consumers -> Messages \cup {None}] /\ listen' \in [Consumers -> {"off", "select", "send"}]
      BY <1>3, <2>2 DEF ListenTakes, TypeOK
  <2>5. \A d \in Consumers : held'[d] # None <=> listen'[d] = "send"
      BY <1>3, <2>3 DEF ListenTakes, TypeOK
  <2> QED
      BY <1>3, <2>1, <2>2, <2>4, <2>5 DEF ListenTakes, TypeOK
<1>4. ASSUME NEW c \in Consumers, ListenSends(c) PROVE TypeOK'
  <2>1. UNCHANGED Messages
      BY <1>4 DEF ListenSends, Messages
  <2>2. held[c] \in Messages
      BY <1>4 DEF ListenSends, TypeOK
  <2>3. stream' \in [Consumers -> Seq(Messages)]
      BY <1>4, <2>2 DEF ListenSends, TypeOK
  <2>4. \A d \in Consumers : Len(stream'[d]) <= StreamSize
      BY <1>4, <2>2, SizesAssumption DEF ListenSends, TypeOK
  <2> QED
      BY <1>4, <2>1, <2>3, <2>4 DEF ListenSends, TypeOK
<1>5. ASSUME NEW c \in Consumers, ListenReturns(c) PROVE TypeOK'
  <2>1. UNCHANGED Messages
      BY <1>5 DEF ListenReturns, Messages
  <2>2. listen[c] = "send" => held[c] \in Messages
      BY DEF TypeOK
  <2>3. lost' \in [Ways -> SUBSET Messages]
    <3>1. CASE UNCHANGED lost
        BY <3>1 DEF TypeOK
    <3>2. CASE listen[c] = "send" /\ Lose("unsent", {held[c]})
        BY <2>2, <3>2 DEF Lose, TypeOK
    <3> QED
        BY <1>5, <3>1, <3>2 DEF ListenReturns
  <2> QED
      BY <1>5, <2>1, <2>3 DEF ListenReturns, TypeOK
<1>6. ASSUME NEW c \in Consumers, RecvMessage(c) PROVE TypeOK'
  <2>1. UNCHANGED Messages
      BY <1>6 DEF RecvMessage, Messages
  <2>2. /\ Head(stream[c]) \in Messages /\ Tail(stream[c]) \in Seq(Messages)
        /\ Len(Tail(stream[c])) <= StreamSize
      BY <1>6, SizesAssumption DEF RecvMessage, TypeOK
  <2>3. /\ stream' \in [Consumers -> Seq(Messages)]
        /\ \A d \in Consumers : Len(stream'[d]) <= StreamSize
      BY <1>6, <2>2 DEF RecvMessage, TypeOK
  <2>4. /\ msgQ' \in [Consumers -> Seq(Messages)]
        /\ \A d \in Consumers : Len(msgQ'[d]) <= MsgQSize
    <3>1. CASE UNCHANGED msgQ
        BY <3>1 DEF TypeOK
    <3>2. CASE Len(msgQ[c]) < MsgQSize /\ msgQ' = [msgQ EXCEPT ![c] = Append(@, Head(stream[c]))]
      <4>1. msgQ[c] \in Seq(Messages) /\ Append(msgQ[c], Head(stream[c])) \in Seq(Messages)
          BY <2>2 DEF TypeOK
      <4>2. Len(Append(msgQ[c], Head(stream[c]))) <= MsgQSize
          BY <3>2, <4>1, SizesAssumption
      <4> QED
          BY <3>2, <4>1, <4>2 DEF TypeOK
    <3> QED
        BY <1>6, <3>1, <3>2 DEF RecvMessage
  <2>5. lost' \in [Ways -> SUBSET Messages]
      BY <1>6, <2>2, ZenonT(60) DEF RecvMessage, Lose, TypeOK
  <2> QED
      BY <1>6, <2>1, <2>3, <2>4, <2>5 DEF RecvMessage, TypeOK
<1>7. ASSUME NEW c \in Consumers, RecvEnds(c), UNCHANGED <<serverVars, broken, cancelled, msgQ, loop, stop, handled>>,
             lost' \in [Ways -> SUBSET Messages]
      PROVE  TypeOK'
  <2>1. UNCHANGED Messages
      BY <1>7 DEF Messages
  <2>2. /\ stream' \in [Consumers -> Seq(Messages)]
        /\ \A d \in Consumers : Len(stream'[d]) <= StreamSize
      BY <1>7, SizesAssumption DEF RecvEnds, TypeOK
  <2> QED
      BY <1>7, <2>1, <2>2 DEF RecvEnds, TypeOK
<1>8. ASSUME NEW c \in Consumers, RecvFails(c) \/ RecvLeaves(c) PROVE TypeOK'
  <2>1. lost' \in [Ways -> SUBSET Messages]
      BY <1>8, SeqTypes, ZenonT(60) DEF RecvFails, RecvLeaves, Lose, TypeOK
  <2> QED
      BY <1>7, <1>8, <2>1 DEF RecvFails, RecvLeaves
<1>9. ASSUME NEW c \in Consumers, RecvStopped(c) PROVE TypeOK'
  <2>1. {Head(stream[c])} \cup ToSet(Tail(stream[c])) \subseteq Messages
    <3>1. stream[c] \in Seq(Nat) /\ stream[c] # <<>> /\ ToSet(stream[c]) \subseteq Messages
        BY <1>9, SeqTypes DEF RecvStopped
    <3> QED
        BY <3>1, TailFacts, ZenonT(60)
  <2>2. lost' \in [Ways -> SUBSET Messages]
      BY <1>9, <2>1 DEF RecvStopped, TypeOK
  <2> QED
      BY <1>7, <1>9, <2>2 DEF RecvStopped
<1>10. ASSUME NEW c \in Consumers, LoopHandles(c) PROVE TypeOK'
  <2>1. UNCHANGED Messages
      BY <1>10 DEF LoopHandles, Messages
  <2>2. /\ Head(msgQ[c]) \in Messages /\ Tail(msgQ[c]) \in Seq(Messages)
        /\ Len(Tail(msgQ[c])) <= MsgQSize
      BY <1>10, SizesAssumption DEF LoopHandles, TypeOK
  <2>3. /\ msgQ' \in [Consumers -> Seq(Messages)]
        /\ \A d \in Consumers : Len(msgQ'[d]) <= MsgQSize
      BY <1>10, <2>2 DEF LoopHandles, TypeOK
  <2>4. handled' \in [Consumers -> Seq(Messages)]
    <3>1. handled[c] \in Seq(Messages) /\ Append(handled[c], Head(msgQ[c])) \in Seq(Messages)
        BY <2>2 DEF TypeOK
    <3> QED
        BY <1>10, <3>1 DEF LoopHandles, TypeOK
  <2> QED
      BY <1>10, <2>1, <2>3, <2>4 DEF LoopHandles, TypeOK
<1>11. ASSUME NEW c \in Consumers,
              Start(c) \/ LoopReturns(c) \/ Stop(c) \/ StopReturns(c) \/ Break(c) \/ Cancel(c)
       PROVE  TypeOK'
  <2>1. UNCHANGED Messages
      BY <1>11 DEF Start, LoopReturns, Stop, StopReturns, Break, Cancel, Messages
  <2>2. CASE Start(c)
    <3>1. /\ listen' \in [Consumers -> {"off", "select", "send"}]
          /\ \A d \in Consumers : held[d] # None <=> listen'[d] = "send"
      <4>1. listen[c] = "off" /\ held[c] = None
          BY <2>2 DEF Start, Fresh, TypeOK
      <4>2. CASE UNCHANGED listen
          BY <4>2 DEF TypeOK
      <4>3. CASE listen' = [listen EXCEPT ![c] = "select"]
          BY <4>1, <4>3 DEF TypeOK
      <4> QED
          BY <2>2, <4>2, <4>3 DEF Start
    <3>2. /\ recv' \in [Consumers -> {"off", "recv", "closed"}]
          /\ loop' \in [Consumers -> {"off", "run", "returned"}]
        BY <2>2 DEF Start, TypeOK
    <3> QED
        BY <2>1, <2>2, <3>1, <3>2 DEF Start, TypeOK
  <2>3. CASE LoopReturns(c) \/ Stop(c) \/ StopReturns(c)
      BY <2>1, <2>3 DEF LoopReturns, Stop, StopReturns, TypeOK
  <2>4. CASE Break(c) \/ Cancel(c)
      BY <2>1, <2>4 DEF Break, Cancel, TypeOK
  <2> QED
      BY <1>11, <2>2, <2>3, <2>4
<1> QED
    BY <1>1, <1>2, <1>3, <1>4, <1>5, <1>6, <1>8, <1>9, <1>10, <1>11
    DEF Next, ListenStep, RecvStep, LoopStep

(****************************************************************************)
(* Starting, ending and draining.                                           *)
(****************************************************************************)
LEMMA NextFresh == TypeOK /\ Fresh /\ [Next]_vars => Fresh'
<1> SUFFICES ASSUME TypeOK, Fresh, [Next]_vars, NEW d \in Consumers, loop'[d] = "off"
             PROVE  listen'[d] = "off" /\ recv'[d] = "off" /\ ~Failed(d)' /\ msgQ'[d] = <<>>
    BY DEF Fresh
<1> USE DEF serverVars, connVars, clientVars, Failed, TypeOK
<1>1. loop[d] = "off" => listen[d] = "off" /\ recv[d] = "off" /\ ~Failed(d) /\ msgQ[d] = <<>>
    BY DEF Fresh
<1>2. CASE Push \/ UNCHANGED vars
    BY <1>1, <1>2 DEF Push, vars
<1>3. ASSUME NEW c \in Consumers, ListenTakes(c) \/ ListenSends(c) \/ ListenReturns(c)
      PROVE  listen'[d] = "off" /\ recv'[d] = "off" /\ ~Failed(d)' /\ msgQ'[d] = <<>>
    BY <1>1, <1>3 DEF ListenTakes, ListenSends, ListenReturns
<1>4. ASSUME NEW c \in Consumers, RecvMessage(c)
      PROVE  listen'[d] = "off" /\ recv'[d] = "off" /\ ~Failed(d)' /\ msgQ'[d] = <<>>
    BY <1>1, <1>4 DEF RecvMessage
<1>5. ASSUME NEW c \in Consumers, RecvFails(c) \/ RecvStopped(c) \/ RecvLeaves(c)
      PROVE  listen'[d] = "off" /\ recv'[d] = "off" /\ ~Failed(d)' /\ msgQ'[d] = <<>>
    BY <1>1, <1>5 DEF RecvFails, RecvStopped, RecvLeaves, RecvEnds
<1>6. ASSUME NEW c \in Consumers, LoopHandles(c) \/ LoopReturns(c) \/ Stop(c) \/ StopReturns(c)
      PROVE  listen'[d] = "off" /\ recv'[d] = "off" /\ ~Failed(d)' /\ msgQ'[d] = <<>>
    BY <1>1, <1>6 DEF LoopHandles, LoopReturns, Stop, StopReturns
<1>7. ASSUME NEW c \in Consumers, Start(c) \/ Break(c) \/ Cancel(c)
      PROVE  listen'[d] = "off" /\ recv'[d] = "off" /\ ~Failed(d)' /\ msgQ'[d] = <<>>
    BY <1>1, <1>7 DEF Start, Break, Cancel
<1> QED
    BY <1>2, <1>3, <1>4, <1>5, <1>6, <1>7 DEF Next, ListenStep, RecvStep, LoopStep

LEMMA NextUnsent == TypeOK /\ Fresh /\ Unsent /\ [Next]_vars => Unsent'
<1> SUFFICES ASSUME TypeOK, Fresh, Unsent, [Next]_vars PROVE Unsent'
    OBVIOUS
<1> USE DEF serverVars, connVars, clientVars
<1> DEFINE unsent == lost["unsent"]
<1>1. /\ IsFiniteSet(broken) /\ IsFiniteSet(cancelled) /\ IsFiniteSet(unsent)
      /\ Cardinality(unsent) <= Cardinality(Over)
    BY DEF Unsent
<1>2. IsFiniteSet(Over) /\ Cardinality(Over) \in Nat /\ Cardinality(unsent) \in Nat
  <2>1. IsFiniteSet(broken \cup cancelled)
      BY <1>1, FS_Union
  <2>2. Over \subseteq broken \cup cancelled
      BY DEF Over
  <2> QED
      BY <1>1, <2>1, <2>2, FS_Subset, FS_CardinalityType
<1>3. ASSUME IsFiniteSet(broken'), IsFiniteSet(cancelled'), Over \subseteq Over',
             lost'["unsent"] = unsent
      PROVE  Unsent'
  <2>1. IsFiniteSet(broken' \cup cancelled')
      BY <1>3, FS_Union
  <2>2. IsFiniteSet(Over')
    <3>1. Over' \subseteq broken' \cup cancelled'
        BY DEF Over
    <3> QED
        BY <2>1, <3>1, FS_Subset
  <2>3. Cardinality(Over) <= Cardinality(Over') /\ Cardinality(Over') \in Nat
      BY <1>3, <2>2, FS_Subset, FS_CardinalityType
  <2>4. Cardinality(unsent) <= Cardinality(Over')
      BY <1>1, <1>2, <2>3
  <2> QED
      BY <1>1, <1>3, <2>4 DEF Unsent
<1>4. CASE UNCHANGED <<broken, cancelled, listen>> /\ lost'["unsent"] = unsent
  <2>1. Over' = Over
      BY <1>4 DEF Over
  <2> QED
      BY <1>1, <1>3, <1>4, <2>1
<1>5. ASSUME NEW c \in Consumers, ListenReturns(c) PROVE Unsent'
  <2>1. /\ c \in broken \cup cancelled /\ listen[c] # "off"
        /\ UNCHANGED <<broken, cancelled>> /\ listen' = [listen EXCEPT ![c] = "off"]
      BY <1>5 DEF ListenReturns, Failed
  <2>2. Over' = Over \cup {c} /\ c \notin Over
      BY <2>1 DEF Over, TypeOK
  <2>3. Cardinality(Over') = Cardinality(Over) + 1
      BY <1>2, <2>2, FS_AddElement
  <2>4. lost'["unsent"] = unsent \/ lost'["unsent"] = unsent \cup {held[c]}
      BY <1>5 DEF ListenReturns, Lose, TypeOK, Ways
  <2>5. IsFiniteSet(lost'["unsent"]) /\ Cardinality(lost'["unsent"]) <= Cardinality(unsent) + 1
    <3>1. /\ IsFiniteSet(unsent \cup {held[c]})
          /\ Cardinality(unsent \cup {held[c]}) = IF held[c] \in unsent THEN Cardinality(unsent)
                                                                       ELSE Cardinality(unsent) + 1
        BY <1>1, FS_AddElement
    <3> QED
        BY <1>1, <1>2, <2>4, <3>1
  <2>6. Cardinality(lost'["unsent"]) \in Nat
      BY <2>5, FS_CardinalityType
  <2>7. Cardinality(lost'["unsent"]) <= Cardinality(Over')
      BY <1>1, <1>2, <2>3, <2>5, <2>6
  <2> QED
      BY <1>1, <2>1, <2>5, <2>7 DEF Unsent
<1>6. ASSUME NEW c \in Consumers, ListenTakes(c) \/ ListenSends(c) \/ Start(c) PROVE Unsent'
  <2>1. UNCHANGED <<broken, cancelled, lost>>
      BY <1>6 DEF ListenTakes, ListenSends, Start
  <2>2. listen[c] # "off" \/ c \notin broken \cup cancelled
      BY <1>6 DEF ListenTakes, ListenSends, Start, Fresh, Failed
  <2>3. \A d \in Consumers : d # c => listen'[d] = listen[d]
      BY <1>6 DEF ListenTakes, ListenSends, Start, TypeOK
  <2>4. Over \subseteq Over'
      BY <2>1, <2>2, <2>3 DEF Over, TypeOK
  <2> QED
      BY <1>1, <1>3, <2>1, <2>4
<1>7. ASSUME NEW c \in Consumers, Break(c) \/ Cancel(c) PROVE Unsent'
  <2>1. IsFiniteSet(broken') /\ IsFiniteSet(cancelled')
      BY <1>1, <1>7, FS_AddElement DEF Break, Cancel
  <2>2. Over \subseteq Over' /\ UNCHANGED lost
      BY <1>7 DEF Break, Cancel, Over
  <2> QED
      BY <1>3, <2>1, <2>2
<1>8. CASE Push
    BY <1>4, <1>8 DEF Push, Lose, TypeOK, Ways
<1>9. ASSUME NEW c \in Consumers, RecvMessage(c) \/ RecvFails(c) \/ RecvStopped(c) \/ RecvLeaves(c)
      PROVE  Unsent'
    BY <1>4, <1>9 DEF RecvMessage, RecvFails, RecvStopped, RecvLeaves, Lose, TypeOK, Ways
<1>10. ASSUME NEW c \in Consumers, LoopHandles(c) \/ LoopReturns(c) \/ Stop(c) \/ StopReturns(c)
       PROVE  Unsent'
    BY <1>4, <1>10 DEF LoopHandles, LoopReturns, Stop, StopReturns
<1>11. CASE UNCHANGED vars
    BY <1>4, <1>11 DEF vars
<1> QED
    BY <1>5, <1>6, <1>7, <1>8, <1>9, <1>10, <1>11 DEF Next, ListenStep, RecvStep, LoopStep

(****************************************************************************)
(* Order.                                                                   *)
(****************************************************************************)
\* What is taken away leaves the rest in order.
LEMMA OrderedLess ==
    ASSUME NEW c \in Consumers, OrderedAt(c),
           Increasing(handled'[c]), Increasing(msgQ'[c]), Increasing(stream'[c]),
           ToSet(handled'[c]) \subseteq ToSet(handled[c]), ToSet(msgQ'[c]) \subseteq ToSet(msgQ[c]),
           ToSet(stream'[c]) \subseteq ToSet(stream[c]), Held(c)' \subseteq Held(c),
           ToSet(q') \subseteq ToSet(q)
    PROVE  OrderedAt(c)'
    BY ZenonT(60) DEF OrderedAt, Before, ToSet, Held

LEMMA NextOrdered == TypeOK /\ Ordered /\ [Next]_vars => Ordered'
<1> SUFFICES ASSUME TypeOK, Ordered, [Next]_vars PROVE Increasing(q') /\ \A c \in Consumers : OrderedAt(c)'
    BY DEF Ordered, Increasing
<1> USE DEF serverVars, connVars, clientVars
<1>1. Increasing(q) /\ \A c \in Consumers : OrderedAt(c)
    BY DEF Ordered
<1>2. \A c \in Consumers : Increasing(handled[c]) /\ Increasing(msgQ[c]) /\ Increasing(stream[c])
    BY <1>1 DEF OrderedAt
<1>3. ASSUME NEW c \in Consumers, UNCHANGED <<handled[c], msgQ[c], stream[c], held[c], q>>
      PROVE  OrderedAt(c)'
    BY <1>1, <1>3 DEF OrderedAt, Held
<1>4. CASE UNCHANGED <<handled, msgQ, stream, held, q>>
    BY <1>1, <1>3, <1>4
<1>5. CASE Push
  <2>1. CASE UNCHANGED q
      BY <1>4, <1>5, <2>1 DEF Push
  <2>2. CASE q' = Append(q, pushed + 1)
    <3>1. pushed + 1 \in Nat /\ \A m \in Messages : m < pushed + 1
        BY SeqTypes DEF Messages
    <3>2. ToSet(q') = ToSet(q) \cup {pushed + 1}
        BY <2>2, <3>1, SeqTypes, AppendFacts
    <3>3. Increasing(q')
      <4>1. Before(ToSet(q), {pushed + 1})
          BY <3>1, SeqTypes DEF Before
      <4> QED
          BY <1>1, <2>2, <3>1, <4>1, SeqTypes, AppendFacts
    <3>4. ASSUME NEW c \in Consumers PROVE OrderedAt(c)'
      <4>1. UNCHANGED <<handled[c], msgQ[c], stream[c], Held(c)>>
          BY <1>5 DEF Push, Held
      <4>2. \A m \in ToSet(handled[c]) \cup ToSet(msgQ[c]) \cup ToSet(stream[c]) \cup Held(c) :
                m < pushed + 1
          BY <3>1, SeqTypes
      <4> QED
          BY <1>1, <3>2, <4>1, <4>2 DEF OrderedAt, Before
    <3> QED
        BY <3>3, <3>4
  <2> QED
      BY <1>5, <2>1, <2>2 DEF Push
<1>6. ASSUME NEW c \in Consumers, ListenTakes(c)
      PROVE  Increasing(q') /\ \A d \in Consumers : OrderedAt(d)'
  <2>1. /\ Increasing(q') /\ ToSet(q) = {Head(q)} \cup ToSet(q') /\ Head(q) \in Nat
        /\ Before({Head(q)}, ToSet(q'))
      BY <1>1, <1>6, SeqTypes, TailFacts DEF ListenTakes
  <2>2. ASSUME NEW d \in Consumers, d # c PROVE OrderedAt(d)'
    <3>1. UNCHANGED <<handled[d], msgQ[d], stream[d], Held(d)>>
        BY <1>6, <2>2 DEF ListenTakes, Held, TypeOK
    <3> QED
        BY <1>1, <1>2, <2>1, <2>2, <3>1, OrderedLess
  <2>3. OrderedAt(c)'
    <3>1. UNCHANGED <<handled[c], msgQ[c], stream[c]>>
        BY <1>6 DEF ListenTakes
    <3>2. Held(c) = {} /\ Held(c)' = {Head(q)}
      <4>1. held[c] = None /\ held'[c] = Head(q) /\ Head(q) # None
          BY <1>6, <2>1, NoneAssumption DEF ListenTakes, TypeOK
      <4> QED
          BY <4>1 DEF Held
    <3> QED
        BY <1>1, <2>1, <3>1, <3>2 DEF OrderedAt, Before
  <2> QED
      BY <2>1, <2>2, <2>3
<1>7. ASSUME NEW c \in Consumers, ListenSends(c)
      PROVE  Increasing(q') /\ \A d \in Consumers : OrderedAt(d)'
  <2>1. /\ held[c] \in Nat /\ Held(c) = {held[c]} /\ Held(c)' = {}
        /\ stream'[c] = Append(stream[c], held[c]) /\ UNCHANGED <<handled, msgQ, q>>
      BY <1>7, SeqTypes DEF ListenSends, Held, TypeOK
  <2>2. /\ ToSet(stream'[c]) = ToSet(stream[c]) \cup {held[c]}
        /\ Increasing(stream'[c])
    <3>1. Before(ToSet(stream[c]), {held[c]})
        BY <1>1, <2>1 DEF OrderedAt, Before
    <3> QED
      <4>1. stream[c] \in Seq(Nat) /\ Increasing(stream[c])
          BY <1>2, SeqTypes
      <4> QED
          BY <2>1, <3>1, <4>1, AppendFacts
  <2>3. OrderedAt(c)'
      BY <1>1, <2>1, <2>2 DEF OrderedAt, Before
  <2>4. ASSUME NEW d \in Consumers, d # c PROVE OrderedAt(d)'
    <3>1. UNCHANGED <<handled[d], msgQ[d], stream[d], held[d], q>>
        BY <1>7, <2>4 DEF ListenSends, TypeOK
    <3> QED
        BY <1>3, <3>1
  <2> QED
      BY <1>1, <2>1, <2>3, <2>4
<1>8. ASSUME NEW c \in Consumers, ListenReturns(c)
      PROVE  Increasing(q') /\ \A d \in Consumers : OrderedAt(d)'
  <2>1. UNCHANGED <<handled, msgQ, stream, q>> /\ held' = [held EXCEPT ![c] = None]
      BY <1>8 DEF ListenReturns
  <2>2. \A d \in Consumers : Held(d)' \subseteq Held(d)
      BY <2>1 DEF Held, TypeOK
  <2> QED
      BY <1>1, <1>2, <2>1, <2>2, OrderedLess
<1>9. ASSUME NEW c \in Consumers, RecvMessage(c)
      PROVE  Increasing(q') /\ \A d \in Consumers : OrderedAt(d)'
  <2>1. /\ stream[c] # <<>> /\ stream'[c] = Tail(stream[c])
        /\ UNCHANGED <<handled, held, q>> /\ UNCHANGED Held(c)
      BY <1>9 DEF RecvMessage, TypeOK, Held
  <2>2. /\ ToSet(stream[c]) = {Head(stream[c])} \cup ToSet(stream'[c]) /\ Head(stream[c]) \in Nat
        /\ Increasing(stream'[c]) /\ Before({Head(stream[c])}, ToSet(stream'[c]))
    <3>1. stream[c] \in Seq(Nat) /\ stream[c] # <<>> /\ Increasing(stream[c])
        BY <1>2, <2>1, SeqTypes
    <3>2. /\ Head(stream[c]) \in Nat /\ ToSet(stream[c]) = {Head(stream[c])} \cup ToSet(Tail(stream[c]))
          /\ Increasing(Tail(stream[c])) /\ Before({Head(stream[c])}, ToSet(Tail(stream[c])))
        BY <3>1, TailFacts
    <3> QED
        BY <2>1, <3>2
  <2>3. OrderedAt(c)'
    <3>1. CASE UNCHANGED msgQ
        BY <1>1, <1>2, <2>1, <2>2, <3>1, OrderedLess
    <3>2. CASE msgQ' = [msgQ EXCEPT ![c] = Append(@, Head(stream[c]))]
      <4>1. msgQ'[c] = Append(msgQ[c], Head(stream[c]))
          BY <3>2 DEF TypeOK
      <4>2. Before(ToSet(msgQ[c]), {Head(stream[c])})
          BY <1>1, <2>2 DEF OrderedAt, Before
      <4>3. ToSet(msgQ'[c]) = ToSet(msgQ[c]) \cup {Head(stream[c])} /\ Increasing(msgQ'[c])
        <5>1. msgQ[c] \in Seq(Nat) /\ Increasing(msgQ[c])
            BY <1>2, SeqTypes
        <5> QED
            BY <2>2, <4>1, <4>2, <5>1, AppendFacts
      <4> QED
          BY <1>1, <2>1, <2>2, <4>3 DEF OrderedAt, Before
    <3> QED
        BY <1>9, <3>1, <3>2 DEF RecvMessage
  <2>4. ASSUME NEW d \in Consumers, d # c PROVE OrderedAt(d)'
    <3>1. UNCHANGED <<handled[d], msgQ[d], stream[d], held[d], q>>
        BY <1>9, <2>4 DEF RecvMessage, TypeOK
    <3> QED
        BY <1>3, <3>1
  <2> QED
      BY <1>1, <2>1, <2>3, <2>4
<1>10. ASSUME NEW c \in Consumers, RecvFails(c) \/ RecvStopped(c) \/ RecvLeaves(c)
       PROVE  Increasing(q') /\ \A d \in Consumers : OrderedAt(d)'
  <2>1. /\ UNCHANGED <<handled, msgQ, held, q>>
        /\ stream' = [stream EXCEPT ![c] = <<>>]
      BY <1>10 DEF RecvFails, RecvStopped, RecvLeaves, RecvEnds
  <2>2. ASSUME NEW d \in Consumers PROVE OrderedAt(d)'
    <3>1. stream'[d] = <<>> \/ stream'[d] = stream[d]
        BY <2>1 DEF TypeOK
    <3>2. ToSet(stream'[d]) \subseteq ToSet(stream[d]) /\ Increasing(stream'[d])
        BY <1>2, <3>1, EmptyFacts
    <3>3. UNCHANGED Held(d)
        BY <2>1 DEF Held
    <3> QED
        BY <1>1, <1>2, <2>1, <3>2, <3>3, OrderedLess
  <2> QED
      BY <1>1, <2>1, <2>2
<1>11. ASSUME NEW c \in Consumers, LoopHandles(c)
       PROVE  Increasing(q') /\ \A d \in Consumers : OrderedAt(d)'
  <2>1. /\ msgQ[c] # <<>> /\ msgQ'[c] = Tail(msgQ[c])
        /\ handled'[c] = Append(handled[c], Head(msgQ[c]))
        /\ UNCHANGED <<stream, held, q>> /\ UNCHANGED Held(c)
      BY <1>11 DEF LoopHandles, TypeOK, Held
  <2>2. /\ ToSet(msgQ[c]) = {Head(msgQ[c])} \cup ToSet(msgQ'[c]) /\ Head(msgQ[c]) \in Nat
        /\ Increasing(msgQ'[c]) /\ Before({Head(msgQ[c])}, ToSet(msgQ'[c]))
    <3>1. msgQ[c] \in Seq(Nat) /\ msgQ[c] # <<>> /\ Increasing(msgQ[c])
        BY <1>2, <2>1, SeqTypes
    <3>2. /\ Head(msgQ[c]) \in Nat /\ ToSet(msgQ[c]) = {Head(msgQ[c])} \cup ToSet(Tail(msgQ[c]))
          /\ Increasing(Tail(msgQ[c])) /\ Before({Head(msgQ[c])}, ToSet(Tail(msgQ[c])))
        BY <3>1, TailFacts
    <3> QED
        BY <2>1, <3>2
  <2>3. OrderedAt(c)'
    <3>1. Before(ToSet(handled[c]), {Head(msgQ[c])})
        BY <1>1, <2>2 DEF OrderedAt, Before
    <3>2. ToSet(handled'[c]) = ToSet(handled[c]) \cup {Head(msgQ[c])} /\ Increasing(handled'[c])
        BY <1>2, <2>1, <2>2, <3>1, SeqTypes, AppendFacts, ZenonT(60)
    <3> QED
        BY <1>1, <2>1, <2>2, <3>2 DEF OrderedAt, Before
  <2>4. ASSUME NEW d \in Consumers, d # c PROVE OrderedAt(d)'
    <3>1. UNCHANGED <<handled[d], msgQ[d], stream[d], held[d], q>>
        BY <1>11, <2>4 DEF LoopHandles, TypeOK
    <3> QED
        BY <1>3, <3>1
  <2> QED
      BY <1>1, <2>1, <2>3, <2>4
<1>12. ASSUME NEW c \in Consumers,
              Start(c) \/ LoopReturns(c) \/ Stop(c) \/ StopReturns(c) \/ Break(c) \/ Cancel(c)
       PROVE  Increasing(q') /\ \A d \in Consumers : OrderedAt(d)'
    BY <1>4, <1>12 DEF Start, LoopReturns, Stop, StopReturns, Break, Cancel
<1>13. CASE UNCHANGED vars
    BY <1>4, <1>13 DEF vars
<1> QED
    BY <1>5, <1>6, <1>7, <1>8, <1>9, <1>10, <1>11, <1>12, <1>13
    DEF Next, ListenStep, RecvStep, LoopStep

(****************************************************************************)
(* One place.                                                               *)
(****************************************************************************)
\* A message that no step moves.
LEMMA Stays ==
    ASSUME NEW m, OnePlace(m), m \in ToSet(q') <=> m \in ToSet(q),
           \A c \in Consumers : m \in OnWay(c)' <=> m \in OnWay(c),
           \A w \in Ways : m \in lost'[w] <=> m \in lost[w]
    PROVE  OnePlace(m)'
<1>1. CASE OnlyQueued(m)
    BY <1>1 DEF OnePlace, OnlyQueued, ToSet
<1>2. ASSUME NEW c \in Consumers, OnlyOnWay(m, c) PROVE OnlyOnWay(m, c)'
    BY <1>2 DEF OnlyOnWay, ToSet
<1>3. ASSUME NEW w \in Ways, OnlyLost(m, w) PROVE OnlyLost(m, w)'
    BY <1>3 DEF OnlyLost, ToSet
<1> QED
    BY <1>1, <1>2, <1>3 DEF OnePlace

\* Messages that leave the way of a consumer are lost, each in one way.
LEMMA GetsLost ==
    ASSUME NEW c \in Consumers, UNCHANGED q, OnWay(c)' \subseteq OnWay(c),
           \A d \in Consumers : d # c => OnWay(d)' = OnWay(d),
           NEW m, OnePlace(m),
           m \in OnWay(c) \ OnWay(c)' =>
               \E w \in Ways : \A v \in Ways : m \in lost'[v] <=> m \in lost[v] \/ v = w,
           m \notin OnWay(c) \ OnWay(c)' => \A v \in Ways : m \in lost'[v] <=> m \in lost[v]
    PROVE  OnePlace(m)'
<1>1. CASE m \notin OnWay(c) \ OnWay(c)'
  <2>1. \A d \in Consumers : m \in OnWay(d)' <=> m \in OnWay(d)
      BY <1>1
  <2> QED
      BY <1>1, <2>1, Stays
<1>2. CASE m \in OnWay(c) \ OnWay(c)'
  <2>1. OnlyOnWay(m, c)
      BY <1>2 DEF OnePlace, OnlyQueued, OnlyOnWay, OnlyLost
  <2>2. PICK w \in Ways : \A v \in Ways : m \in lost'[v] <=> m \in lost[v] \/ v = w
      BY <1>2
  <2>3. \A v \in Ways : m \in lost'[v] <=> v = w
      BY <2>1, <2>2 DEF OnlyOnWay
  <2>4. \A d \in Consumers : m \notin OnWay(d)'
      BY <1>2, <2>1 DEF OnlyOnWay
  <2>5. m \notin ToSet(q')
      BY <2>1 DEF OnlyOnWay
  <2>6. OnlyLost(m, w)'
      BY <2>3, <2>4, <2>5 DEF OnlyLost, ToSet
  <2> QED
      BY <2>6 DEF OnePlace
<1> QED
    BY <1>1, <1>2

\* Lose puts the messages where it says.
LEMMA LoseFacts ==
    ASSUME TypeOK, NEW how \in Ways, NEW msgs, Lose(how, msgs)
    PROVE  \A m : \A v \in Ways : m \in lost'[v] <=> m \in lost[v] \/ (v = how /\ m \in msgs)
    BY DEF Lose, TypeOK

\* The parts of a consumer's way have nothing in common.
LEMMA PartsDisjoint ==
    ASSUME TypeOK, NEW c \in Consumers, OrderedAt(c)
    PROVE  /\ ToSet(stream[c]) \cap (ToSet(handled[c]) \cup ToSet(msgQ[c]) \cup Held(c)) = {}
           /\ Held(c) \cap (ToSet(handled[c]) \cup ToSet(msgQ[c])) = {}
<1>1. \A x \in OnWay(c) : x \in Nat /\ ~(x < x)
    BY SeqTypes DEF OnWay
<1> QED
    BY <1>1 DEF OrderedAt, Before, OnWay

LEMMA NextOnce == TypeOK /\ Ordered /\ Once /\ [Next]_vars => Once'
<1> SUFFICES ASSUME TypeOK, Ordered, Once, [Next]_vars, NEW m \in Messages' PROVE OnePlace(m)'
    BY DEF Once
<1> USE DEF serverVars, connVars, clientVars
<1>1. CASE Push
  <2>1. Messages' = Messages \cup {pushed + 1} /\ pushed + 1 \notin Messages
      BY <1>1, SeqTypes DEF Push, Messages
  <2>2. /\ \A c \in Consumers : OnWay(c)' = OnWay(c) /\ pushed + 1 \notin OnWay(c)
        /\ \A w \in Ways : pushed + 1 \notin lost[w]
        /\ pushed + 1 \notin ToSet(q)
      BY <1>1, <2>1, SeqTypes DEF Push, OnWay, Held, TypeOK
  <2>3. CASE q' = Append(q, pushed + 1) /\ UNCHANGED lost
    <3>1. ToSet(q') = ToSet(q) \cup {pushed + 1}
      <4>1. q \in Seq(Nat) /\ pushed + 1 \in Nat
          BY SeqTypes
      <4> QED
          BY <2>3, <4>1, AppendFacts
    <3>2. CASE m = pushed + 1
      <4>1. OnlyQueued(m)'
          BY <2>2, <2>3, <3>1, <3>2 DEF OnlyQueued, ToSet
      <4> QED
          BY <4>1 DEF OnePlace
    <3>3. CASE m # pushed + 1
        BY <2>1, <2>2, <2>3, <3>1, <3>3, Stays DEF Once
    <3> QED
        BY <3>2, <3>3
  <2>4. CASE UNCHANGED q /\ Lose("full", {pushed + 1})
    <3>1. \A v \in Ways : m \in lost'[v] <=> m \in lost[v] \/ (v = "full" /\ m \in {pushed + 1})
        BY <2>4, LoseFacts DEF Ways
    <3>2. CASE m = pushed + 1
      <4>1. OnlyLost(m, "full")'
          BY <2>2, <2>4, <3>1, <3>2 DEF OnlyLost, ToSet
      <4> QED
          BY <4>1 DEF OnePlace, Ways
    <3>3. CASE m # pushed + 1
        BY <2>1, <2>2, <2>4, <3>1, <3>3, Stays DEF Once
    <3> QED
        BY <3>2, <3>3
  <2> QED
      BY <1>1, <2>3, <2>4 DEF Push
<1>2. CASE UNCHANGED pushed
  <2>1. OnePlace(m) /\ \A c \in Consumers : OrderedAt(c)
      BY <1>2 DEF Once, Messages, Ordered
  <2>2. ASSUME NEW c \in Consumers, ListenTakes(c) PROVE OnePlace(m)'
    <3>1. /\ q # <<>> /\ q' = Tail(q) /\ UNCHANGED <<handled, msgQ, stream, lost>>
          /\ held[c] = None /\ held' = [held EXCEPT ![c] = Head(q)]
        BY <2>2 DEF ListenTakes, TypeOK
    <3>2. /\ ToSet(q) = {Head(q)} \cup ToSet(q') /\ Head(q) \notin ToSet(q') /\ Head(q) # None
        BY <3>1, SeqTypes, TailFacts, NoneAssumption, ZenonT(60) DEF Ordered
    <3>3. Held(c) = {} /\ Held(c)' = {Head(q)} /\ \A d \in Consumers : d # c => Held(d)' = Held(d)
        BY <3>1, <3>2 DEF Held, TypeOK
    <3>4. OnWay(c)' = OnWay(c) \cup {Head(q)} /\ \A d \in Consumers : d # c => OnWay(d)' = OnWay(d)
        BY <3>1, <3>3 DEF OnWay
    <3>5. CASE m # Head(q)
        BY <2>1, <3>1, <3>2, <3>4, <3>5, Stays
    <3>6. CASE m = Head(q)
      <4>1. OnlyQueued(m)
          BY <2>1, <3>2, <3>6 DEF OnePlace, OnlyQueued, OnlyOnWay, OnlyLost
      <4>2. OnlyOnWay(m, c)'
          BY <3>1, <3>2, <3>4, <3>6, <4>1 DEF OnlyQueued, OnlyOnWay
      <4> QED
          BY <4>2 DEF OnePlace
    <3> QED
        BY <3>5, <3>6
  <2>3. ASSUME NEW c \in Consumers, ListenSends(c) PROVE OnePlace(m)'
    <3>1. /\ stream' = [stream EXCEPT ![c] = Append(@, held[c])] /\ UNCHANGED <<handled, msgQ, q, lost>>
          /\ held[c] # None /\ held' = [held EXCEPT ![c] = None] /\ held[c] \in Nat
        BY <2>3, SeqTypes DEF ListenSends, TypeOK
    <3>2. ToSet(stream'[c]) = ToSet(stream[c]) \cup {held[c]}
      <4>1. stream'[c] = Append(stream[c], held[c]) /\ stream[c] \in Seq(Nat)
          BY <3>1, SeqTypes DEF TypeOK
      <4> QED
          BY <3>1, <4>1, AppendFacts
    <3>3. Held(c) = {held[c]} /\ Held(c)' = {}
        BY <3>1 DEF Held, TypeOK
    <3>4. \A d \in Consumers : d # c => Held(d)' = Held(d) /\ stream'[d] = stream[d]
        BY <3>1 DEF Held, TypeOK
    <3>5. OnWay(c)' = OnWay(c) /\ \A d \in Consumers : d # c => OnWay(d)' = OnWay(d)
        BY <3>1, <3>2, <3>3, <3>4 DEF OnWay
    <3> QED
        BY <2>1, <3>1, <3>5, Stays
  <2>4. ASSUME NEW c \in Consumers, ListenReturns(c) PROVE OnePlace(m)'
    <3>1. /\ UNCHANGED <<handled, msgQ, stream, q>> /\ held' = [held EXCEPT ![c] = None]
        BY <2>4 DEF ListenReturns
    <3>2. Held(c)' = {} /\ \A d \in Consumers : d # c => Held(d)' = Held(d)
        BY <3>1 DEF Held, TypeOK
    <3>3. OnWay(c)' = OnWay(c) \ Held(c)
      <4>1. OnWay(c)' = ToSet(handled[c]) \cup ToSet(msgQ[c]) \cup ToSet(stream[c])
          BY <3>1, <3>2 DEF OnWay
      <4> QED
          BY <2>1, <4>1, PartsDisjoint DEF OnWay
    <3>4. \A d \in Consumers : d # c => OnWay(d)' = OnWay(d)
        BY <3>1, <3>2 DEF OnWay
    <3>5. Held(c) \subseteq OnWay(c)
        BY DEF OnWay
    <3>6. CASE listen[c] = "select" /\ UNCHANGED lost
      <4>1. Held(c) = {}
          BY <3>6 DEF Held, TypeOK
      <4> QED
          BY <2>1, <3>1, <3>3, <3>4, <3>6, <4>1, Stays
    <3>7. CASE listen[c] = "send" /\ Lose("unsent", {held[c]})
      <4>1. Held(c) = {held[c]}
          BY <3>7 DEF Held, TypeOK
      <4>2. /\ "unsent" \in Ways
            /\ \A v \in Ways : m \in lost'[v] <=> m \in lost[v] \/ (v = "unsent" /\ m \in Held(c))
          BY <3>7, <4>1, LoseFacts DEF Ways
      <4> QED
          BY <2>1, <3>1, <3>3, <3>4, <3>5, <4>2, GetsLost
    <3> QED
        BY <2>4, <3>6, <3>7 DEF ListenReturns
  <2>5. ASSUME NEW c \in Consumers, RecvMessage(c) PROVE OnePlace(m)'
    <3>1. /\ stream[c] # <<>> /\ stream' = [stream EXCEPT ![c] = Tail(@)]
          /\ UNCHANGED <<handled, held, q>>
        BY <2>5 DEF RecvMessage
    <3> DEFINE x == Head(stream[c])
    <3>2. ToSet(stream[c]) = {x} \cup ToSet(stream'[c]) /\ x \notin ToSet(stream'[c]) /\ x \in Nat
      <4>1. stream'[c] = Tail(stream[c]) /\ stream[c] \in Seq(Nat) /\ Increasing(stream[c])
          BY <2>1, <3>1, SeqTypes DEF TypeOK, OrderedAt
      <4> QED
          BY <3>1, <4>1, TailFacts
    <3>3. \A d \in Consumers : Held(d)' = Held(d) /\ (d # c => stream'[d] = stream[d])
        BY <3>1 DEF Held, TypeOK
    <3>4. CASE msgQ' = [msgQ EXCEPT ![c] = Append(@, x)] /\ UNCHANGED lost
      <4>1. ToSet(msgQ'[c]) = ToSet(msgQ[c]) \cup {x}
        <5>1. msgQ'[c] = Append(msgQ[c], x) /\ msgQ[c] \in Seq(Nat)
            BY <3>4, SeqTypes DEF TypeOK
        <5> HIDE DEF x
        <5> QED
            BY <3>2, <5>1, AppendFacts
      <4>2. \A d \in Consumers : d # c => msgQ'[d] = msgQ[d]
          BY <3>4 DEF TypeOK
      <4>3. OnWay(c)' = OnWay(c) /\ \A d \in Consumers : d # c => OnWay(d)' = OnWay(d)
          BY <3>1, <3>2, <3>3, <4>1, <4>2 DEF OnWay
      <4> QED
          BY <2>1, <3>1, <3>4, <4>3, Stays
    <3>5. CASE Lose("dropped", {x}) /\ UNCHANGED msgQ
      <4>1. OnWay(c)' = OnWay(c) \ {x} /\ x \in OnWay(c)
        <5>1. OnWay(c)' = ToSet(handled[c]) \cup ToSet(msgQ[c]) \cup ToSet(stream'[c]) \cup Held(c)
            BY <3>1, <3>3, <3>5 DEF OnWay
        <5> HIDE DEF x
        <5> QED
            BY <2>1, <3>2, <5>1, PartsDisjoint DEF OnWay
      <4>2. \A d \in Consumers : d # c => OnWay(d)' = OnWay(d)
          BY <3>1, <3>3, <3>5 DEF OnWay
      <4>3. /\ "dropped" \in Ways
            /\ \A v \in Ways : m \in lost'[v] <=> m \in lost[v] \/ (v = "dropped" /\ m \in {x})
          BY <3>5, LoseFacts DEF Ways
      <4> HIDE DEF x
      <4> QED
          BY <2>1, <3>1, <4>1, <4>2, <4>3, GetsLost
    <3> QED
        BY <2>5, <3>4, <3>5 DEF RecvMessage
  <2>6. ASSUME NEW c \in Consumers, RecvEnds(c), UNCHANGED <<handled, msgQ, held, q>>,
               m \in ToSet(stream[c]) =>
                  \E w \in Ways : \A v \in Ways : m \in lost'[v] <=> m \in lost[v] \/ v = w,
               m \notin ToSet(stream[c]) => \A v \in Ways : m \in lost'[v] <=> m \in lost[v]
        PROVE  OnePlace(m)'
    <3>1. stream'[c] = <<>> /\ \A d \in Consumers : d # c => stream'[d] = stream[d]
        BY <2>6 DEF RecvEnds, TypeOK
    <3>2. OnWay(c)' = OnWay(c) \ ToSet(stream[c])
      <4>1. OnWay(c)' = ToSet(handled[c]) \cup ToSet(msgQ[c]) \cup Held(c)
          BY <2>6, <3>1, EmptyFacts DEF OnWay, Held
      <4> QED
          BY <2>1, <4>1, PartsDisjoint DEF OnWay
    <3>3. \A d \in Consumers : d # c => OnWay(d)' = OnWay(d)
        BY <2>6, <3>1 DEF OnWay, Held
    <3>4. ToSet(stream[c]) \subseteq OnWay(c)
        BY DEF OnWay
    <3>5. UNCHANGED q /\ OnWay(c)' \subseteq OnWay(c) /\ OnWay(c) \ OnWay(c)' = ToSet(stream[c])
        BY <2>6, <3>2, <3>4
    <3> QED
        BY <2>1, <2>6, <3>3, <3>5, GetsLost
  <2>7. ASSUME NEW c \in Consumers, RecvFails(c) \/ RecvLeaves(c) PROVE OnePlace(m)'
    <3>1. RecvEnds(c) /\ UNCHANGED <<handled, msgQ, held, q>> /\ Lose("cut", ToSet(stream[c]))
        BY <2>7 DEF RecvFails, RecvLeaves
    <3>2. /\ "cut" \in Ways
          /\ \A v \in Ways : m \in lost'[v] <=> m \in lost[v] \/ (v = "cut" /\ m \in ToSet(stream[c]))
        BY <3>1, LoseFacts DEF Ways
    <3> QED
        BY <2>6, <3>1, <3>2
  <2>8. ASSUME NEW c \in Consumers, RecvStopped(c) PROVE OnePlace(m)'
    <3>1. RecvEnds(c) /\ UNCHANGED <<handled, msgQ, held, q>>
        BY <2>8 DEF RecvStopped
    <3> DEFINE x == Head(stream[c])
               rest == ToSet(Tail(stream[c]))
    <3>2. ToSet(stream[c]) = {x} \cup rest /\ x \notin rest
      <4>1. stream[c] # <<>> /\ stream[c] \in Seq(Nat) /\ Increasing(stream[c])
          BY <2>1, <2>8, SeqTypes DEF RecvStopped, OrderedAt
      <4> QED
          BY <4>1, TailFacts
    <3>3. /\ "stopped" \in Ways /\ "cut" \in Ways
          /\ \A v \in Ways : m \in lost'[v] <=>
                m \in lost[v] \/ (v = "stopped" /\ m = x) \/ (v = "cut" /\ m \in rest)
      <4>1. lost' = [lost EXCEPT !["stopped"] = @ \cup {x}, !["cut"] = @ \cup rest]
          BY <2>8 DEF RecvStopped
      <4> HIDE DEF x, rest
      <4>2. "stopped" \in Ways /\ "cut" \in Ways /\ lost = [v \in Ways |-> lost[v]]
          BY DEF Ways, TypeOK
      <4>3. /\ lost'["stopped"] = lost["stopped"] \cup {x} /\ lost'["cut"] = lost["cut"] \cup rest
            /\ \A v \in Ways : v # "stopped" /\ v # "cut" => lost'[v] = lost[v]
          BY <4>1, <4>2
      <4>4. ASSUME NEW v \in Ways
            PROVE  m \in lost'[v] <=>
                m \in lost[v] \/ (v = "stopped" /\ m = x) \/ (v = "cut" /\ m \in rest)
        <5>1. CASE v = "stopped"
            BY <4>3, <5>1
        <5>2. CASE v = "cut"
            BY <4>3, <5>2
        <5>3. CASE v # "stopped" /\ v # "cut"
            BY <4>3, <5>3
        <5> QED
            BY <5>1, <5>2, <5>3
      <4> QED
          BY <4>2, <4>4
    <3> HIDE DEF x, rest
    <3>4. CASE m = x
      <4>1. m \in ToSet(stream[c]) /\ m \notin rest
          BY <3>2, <3>4
      <4>2. ASSUME NEW v \in Ways PROVE m \in lost'[v] <=> m \in lost[v] \/ v = "stopped"
          BY <3>3, <3>4, <4>1, <4>2
      <4> QED
          BY <2>6, <3>1, <3>3, <4>1, <4>2
    <3>5. CASE m \in rest
      <4>1. m \in ToSet(stream[c]) /\ m # x
          BY <3>2, <3>5
      <4>2. ASSUME NEW v \in Ways PROVE m \in lost'[v] <=> m \in lost[v] \/ v = "cut"
          BY <3>3, <3>5, <4>1, <4>2
      <4> QED
          BY <2>6, <3>1, <3>3, <4>1, <4>2
    <3>6. CASE m # x /\ m \notin rest
      <4>1. m \notin ToSet(stream[c])
          BY <3>2, <3>6
      <4>2. ASSUME NEW v \in Ways PROVE m \in lost'[v] <=> m \in lost[v]
          BY <3>3, <3>6, <4>2
      <4> QED
          BY <2>6, <3>1, <3>3, <4>1, <4>2
    <3> QED
        BY <3>4, <3>5, <3>6
  <2>9. ASSUME NEW c \in Consumers, LoopHandles(c) PROVE OnePlace(m)'
    <3>1. /\ msgQ[c] # <<>> /\ msgQ'[c] = Tail(msgQ[c])
          /\ handled'[c] = Append(handled[c], Head(msgQ[c])) /\ UNCHANGED <<stream, held, q, lost>>
          /\ \A d \in Consumers : d # c => handled'[d] = handled[d] /\ msgQ'[d] = msgQ[d]
        BY <2>9 DEF LoopHandles, TypeOK
    <3>2. ToSet(msgQ[c]) = {Head(msgQ[c])} \cup ToSet(msgQ'[c]) /\ Head(msgQ[c]) \in Nat
      <4>1. msgQ[c] \in Seq(Nat)
          BY SeqTypes
      <4> QED
          BY <3>1, <4>1, TailFacts
    <3>3. ToSet(handled'[c]) = ToSet(handled[c]) \cup {Head(msgQ[c])}
      <4>1. handled[c] \in Seq(Nat)
          BY SeqTypes
      <4> QED
          BY <3>1, <3>2, <4>1, AppendFacts
    <3>4. OnWay(c)' = OnWay(c) /\ \A d \in Consumers : d # c => OnWay(d)' = OnWay(d)
        BY <3>1, <3>2, <3>3 DEF OnWay, Held
    <3> QED
        BY <2>1, <3>1, <3>4, Stays
  <2>10. ASSUME UNCHANGED <<handled, msgQ, stream, held, q, lost>> PROVE OnePlace(m)'
    <3>1. \A c \in Consumers : OnWay(c)' = OnWay(c)
        BY <2>10 DEF OnWay, Held
    <3> QED
        BY <2>1, <2>10, <3>1, Stays
  <2>11. ASSUME NEW c \in Consumers,
                Start(c) \/ LoopReturns(c) \/ Stop(c) \/ StopReturns(c) \/ Break(c) \/ Cancel(c)
         PROVE  OnePlace(m)'
      BY <2>10, <2>11 DEF Start, LoopReturns, Stop, StopReturns, Break, Cancel
  <2>12. CASE UNCHANGED vars
      BY <2>10, <2>12 DEF vars
  <2> QED
      BY <1>1, <2>2, <2>3, <2>4, <2>5, <2>7, <2>8, <2>9, <2>11, <2>12
      DEF Next, ListenStep, RecvStep, LoopStep
<1>3. Push \/ UNCHANGED pushed
    BY DEF Next, vars, ListenStep, RecvStep, LoopStep, ListenTakes, ListenSends, ListenReturns,
           RecvMessage, RecvFails, RecvStopped, RecvLeaves, LoopHandles, LoopReturns, Start, Stop,
           StopReturns, Break, Cancel
<1> QED
    BY <1>1, <1>2, <1>3

(****************************************************************************)
(* The theorems.                                                            *)
(****************************************************************************)
LEMMA InitInv == Init => IndInv
<1> SUFFICES ASSUME Init PROVE IndInv
    OBVIOUS
<1>1. TypeOK
    BY InitType
<1>2. Fresh
    BY DEF Init, Fresh, Failed
<1>3. Ordered
  <2>1. /\ ToSet(q) = {} /\ Increasing(q)
        /\ \A c \in Consumers : /\ ToSet(handled[c]) = {} /\ ToSet(msgQ[c]) = {} /\ ToSet(stream[c]) = {}
                                /\ Increasing(handled[c]) /\ Increasing(msgQ[c]) /\ Increasing(stream[c])
                                /\ Held(c) = {}
      BY EmptyFacts DEF Init, Held
  <2> QED
      BY <2>1 DEF Ordered, OrderedAt, Before
<1>4. Once
    BY DEF Init, Once, Messages
<1>5. Unsent
  <2>1. Over = {} /\ lost["unsent"] = {}
      BY DEF Init, Over, Ways
  <2>2. broken = {} /\ cancelled = {}
      BY DEF Init
  <2> QED
      BY <2>1, <2>2, FS_EmptySet DEF Unsent
<1> QED
    BY <1>1, <1>2, <1>3, <1>4, <1>5 DEF IndInv

LEMMA NextInv == IndInv /\ [Next]_vars => IndInv'
    BY NextType, NextFresh, NextUnsent, NextOrdered, NextOnce DEF IndInv

LEMMA Inductive == Spec => []IndInv
    BY InitInv, NextInv, PTL DEF Spec

\* The types and the bounds of the three queues: Push and the receiving
\* goroutine drop what does not fit, Send waits.
THEOREM TypeCorrect == Spec => []TypeOK
<1>1. IndInv => TypeOK
    BY DEF IndInv
<1> QED
    BY <1>1, Inductive, PTL

\* Listen: an error of Send costs the one message that was taken.
THEOREM LosesOne == Spec => []LosesOneAtMost
<1>1. IndInv => LosesOneAtMost
  <2> SUFFICES ASSUME Unsent PROVE LosesOneAtMost
      BY DEF IndInv
  <2>1. IsFiniteSet(broken \cup cancelled)
      BY FS_Union DEF Unsent
  <2>2. Over \subseteq broken \cup cancelled
      BY DEF Over
  <2>3. /\ Cardinality(Over) <= Cardinality(broken \cup cancelled) /\ IsFiniteSet(Over)
      BY <2>1, <2>2, FS_Subset
  <2>4. /\ Cardinality(Over) \in Nat /\ Cardinality(broken \cup cancelled) \in Nat
        /\ Cardinality(lost["unsent"]) \in Nat
      BY <2>1, <2>3, FS_CardinalityType DEF Unsent
  <2>5. Cardinality(lost["unsent"]) <= Cardinality(Over)
      BY DEF Unsent
  <2> QED
      BY <2>3, <2>4, <2>5 DEF LosesOneAtMost
<1> QED
    BY <1>1, Inductive, PTL

\* The way of a consumer, and what the server may still give it, as sequences.
LEMMA WayFacts ==
    ASSUME TypeOK, NEW c \in Consumers, Increasing(q), OrderedAt(c)
    PROVE  /\ Way(c) \in Seq(Nat) /\ ToSet(Way(c)) = OnWay(c)
           /\ Increasing(Way(c)) /\ Increasing(Way(c) \o q)
<1> DEFINE h == IF held[c] = None THEN <<>> ELSE <<held[c]>>
           hm == handled[c] \o msgQ[c]
           hms == hm \o stream[c]
<1>1. /\ handled[c] \in Seq(Nat) /\ msgQ[c] \in Seq(Nat) /\ stream[c] \in Seq(Nat) /\ q \in Seq(Nat)
    BY SeqTypes
<1>2. h \in Seq(Nat) /\ ToSet(h) = Held(c) /\ Increasing(h)
  <2>1. CASE held[c] = None
      BY <2>1, EmptyFacts DEF Held
  <2>2. CASE held[c] # None
    <3>1. held[c] \in Nat
        BY <2>2, SeqTypes DEF Held
    <3>2. <<>> \in Seq(Nat) /\ Append(<<>>, held[c]) = <<held[c]>> /\ Before({}, {held[c]})
        BY <3>1 DEF Before
    <3>3. <<held[c]>> \in Seq(Nat) /\ ToSet(<<held[c]>>) = {held[c]} /\ Increasing(<<held[c]>>)
        BY <3>1, <3>2, AppendFacts, EmptyFacts
    <3> QED
        BY <2>2, <3>3 DEF Held
  <2> QED
      BY <2>1, <2>2
<1>3. Way(c) = hms \o h
    BY DEF Way
<1> HIDE DEF h
<1>4. hm \in Seq(Nat) /\ ToSet(hm) = ToSet(handled[c]) \cup ToSet(msgQ[c]) /\ Increasing(hm)
  <2>1. Before(ToSet(handled[c]), ToSet(msgQ[c])) /\ Increasing(handled[c]) /\ Increasing(msgQ[c])
      BY DEF OrderedAt, Before
  <2> QED
      BY <1>1, <2>1, ConcatFacts
<1> HIDE DEF hm
<1>5. hms \in Seq(Nat) /\ ToSet(hms) = ToSet(hm) \cup ToSet(stream[c]) /\ Increasing(hms)
  <2>1. Before(ToSet(hm), ToSet(stream[c])) /\ Increasing(stream[c])
      BY <1>4 DEF OrderedAt, Before
  <2> QED
      BY <1>1, <1>4, <2>1, ConcatFacts
<1> HIDE DEF hms
<1>6. /\ hms \o h \in Seq(Nat) /\ ToSet(hms \o h) = OnWay(c) /\ Increasing(hms \o h)
  <2>1. Before(ToSet(hms), ToSet(h))
      BY <1>2, <1>4, <1>5 DEF OrderedAt, Before
  <2>2. /\ hms \o h \in Seq(Nat) /\ ToSet(hms \o h) = ToSet(hms) \cup ToSet(h) /\ Increasing(hms \o h)
      BY <1>2, <1>5, <2>1, ConcatFacts
  <2> QED
      BY <1>2, <1>4, <1>5, <2>2 DEF OnWay
<1>7. Increasing(Way(c) \o q)
  <2>1. Before(ToSet(Way(c)), ToSet(q))
      BY <1>3, <1>6 DEF OnWay, OrderedAt, Before
  <2> QED
      BY <1>1, <1>3, <1>6, <2>1, ConcatFacts
<1> QED
    BY <1>3, <1>6, <1>7

\* Push, Listen, the receiving goroutine and the loop of Start: a message is
\* never in two places and never vanishes, and it never overtakes another.
THEOREM OnceAndInOrder == Spec => []OnceInOrder
<1>1. IndInv => OnceInOrder
  <2> SUFFICES ASSUME TypeOK, Ordered, Once PROVE OnceInOrder
      BY DEF IndInv
  <2>1. Increasing(q) /\ q \in Seq(Nat) /\ \A c \in Consumers : OrderedAt(c)
      BY SeqTypes DEF Ordered
  <2>2. \A c \in Consumers : Increasing(Way(c) \o q)
      BY <2>1, WayFacts
  <2>3. \A c \in Consumers : Way(c) \in Seq(Nat) /\ Increasing(Way(c)) /\ ToSet(Way(c)) = OnWay(c)
      BY <2>1, WayFacts
  <2>4. ASSUME NEW m, NEW s, m \notin ToSet(s) PROVE Positions(m, s) = {}
      BY <2>4 DEF Positions, ToSet
  <2>5. ASSUME NEW m \in Messages PROVE \E p : Places(m) = {p}
    <3>1. CASE OnlyQueued(m)
      <4>1. PICK i : Positions(m, q) = {i}
          BY <2>1, <3>1, OnePosition DEF OnlyQueued
      <4>2. \A c \in Consumers : Positions(m, Way(c)) = {}
          BY <2>3, <2>4, <3>1 DEF OnlyQueued
      <4>3. Places(m) = {<<"queue", i>>}
          BY <3>1, <4>1, <4>2 DEF Places, OnlyQueued
      <4> QED
          BY <4>3
    <3>2. ASSUME NEW c \in Consumers, OnlyOnWay(m, c) PROVE \E p : Places(m) = {p}
      <4>1. m \in ToSet(Way(c)) /\ Positions(m, q) = {}
          BY <2>3, <2>4, <3>2 DEF OnlyOnWay
      <4>2. PICK i : Positions(m, Way(c)) = {i}
          BY <2>3, <4>1, OnePosition
      <4>3. \A d \in Consumers : d # c => Positions(m, Way(d)) = {}
          BY <2>3, <2>4, <3>2 DEF OnlyOnWay
      <4>4. Places(m) = {<<"way", c, i>>}
          BY <3>2, <4>1, <4>2, <4>3 DEF Places, OnlyOnWay
      <4> QED
          BY <4>4
    <3>3. ASSUME NEW w \in Ways, OnlyLost(m, w) PROVE \E p : Places(m) = {p}
      <4>1. Positions(m, q) = {} /\ \A c \in Consumers : Positions(m, Way(c)) = {}
          BY <2>3, <2>4, <3>3 DEF OnlyLost
      <4>2. Places(m) = {<<"lost", w>>}
          BY <3>3, <4>1 DEF Places, OnlyLost
      <4> QED
          BY <4>2
    <3> QED
        BY <3>1, <3>2, <3>3 DEF Once, OnePlace
  <2>6. \A m \in Messages : Cardinality(Places(m)) = 1
      BY <2>5, FS_Singleton
  <2> QED
      BY <2>2, <2>6 DEF OnceInOrder
<1> QED
    BY <1>1, Inductive, PTL

=============================================================================
