------------------------ MODULE ValidationRouterProofs ------------------------
(****************************************************************************)
(* Proofs about ValidationRouter, for any calls, ids, streams and queue.    *)
(*                                                                          *)
(* FailClosed follows a verdict on its way back: what is on a stream was    *)
(* reached by a verifier, and what a receiver is about to deliver to a call *)
(* was reached for the id of that call (Carried).                           *)
(*                                                                          *)
(* JudgedOnce follows a message on its way out: it is outside, queued, in   *)
(* the hands of one goroutine, on one stream, in one verifier's queue or    *)
(* judged, never in two of these at once (Apart) nor twice in one (Single). *)
(****************************************************************************)
EXTENDS ValidationRouter, FiniteSetTheorems, SequenceTheorems, TLAPS

\* A result is backed by a verdict on the id.
Backed(i, r) == /\ r = "Accept" => Judged(i, "ACCEPT")
                /\ r = "Reject" => Judged(i, "REJECT")

\* What travels from a verifier to a waiting call is backed all the way.
Carried ==
    /\ \A s \in Streams : \A k \in DOMAIN toServer[s] : toServer[s][k] \in verdicts
    /\ \A s \in Streams : resolve[s] \in Calls => Backed(mid[resolve[s]], result[s])

\* The elements of a sequence, and that none is in it twice.
Items(s) == {s[i] : i \in DOMAIN s}
Distinct(s) == \A i, j \in DOMAIN s : s[i] = s[j] => i = j

\* Who may have a message: its caller before the push, the queue, a stream's
\* Handle, the stream, the verifier's queue, and the history of verdicts.
CallerH     == <<"caller", None>>
QH          == <<"q", None>>
JudgedH     == <<"judged", None>>
HandleH(s)  == <<"handle", s>>
ToClientH(s) == <<"toClient", s>>
ValQH(s)    == <<"valQ", s>>
Holders == {CallerH, QH, JudgedH}
           \cup {HandleH(s) : s \in Streams} \cup {ToClientH(s) : s \in Streams} \cup {ValQH(s) : s \in Streams}

\* The calls that have not pushed their message, and those it was judged for.
Callers  == {c \in Calls : pc[c] \in {"new", "push"}}
JudgedOf == {v[1] : v \in verdicts}

At(h) == CASE h = CallerH          -> Callers
           [] h = QH               -> Items(q)
           [] h = JudgedH          -> JudgedOf
           [] h[1] = "handle"      -> {handle[h[2]]} \cap Calls
           [] h[1] = "toClient"    -> Items(toClient[h[2]])
           [] OTHER                -> Items(valQ[h[2]])

\* No message is with two of them.
Apart == \A h, k \in Holders : h # k => At(h) \cap At(k) = {}

\* No message is with one of them twice.
Single == /\ Distinct(q)
          /\ \A s \in Streams : Distinct(toClient[s]) /\ Distinct(valQ[s])
          /\ \A v, w \in verdicts : v[1] = w[1] => v = w

IndInv == /\ TypeOK /\ Carried /\ FailClosed /\ NoDanglingWaiter /\ WaiterIsRegistered
          /\ Apart /\ Single

\* What the holders have, one by one.
LEMMA HoldersHave ==
    /\ CallerH \in Holders /\ At(CallerH) = Callers
    /\ QH \in Holders /\ At(QH) = Items(q)
    /\ JudgedH \in Holders /\ At(JudgedH) = JudgedOf
    /\ \A s \in Streams : /\ HandleH(s) \in Holders /\ At(HandleH(s)) = {handle[s]} \cap Calls
                          /\ ToClientH(s) \in Holders /\ At(ToClientH(s)) = Items(toClient[s])
                          /\ ValQH(s) \in Holders /\ At(ValQH(s)) = Items(valQ[s])
    BY DEF Holders, At, CallerH, QH, JudgedH, HandleH, ToClientH, ValQH

LEMMA HoldersHaveNext ==
    /\ At(CallerH)' = Callers' /\ At(QH)' = Items(q') /\ At(JudgedH)' = JudgedOf'
    /\ \A s \in Streams : /\ At(HandleH(s))' = {handle'[s]} \cap Calls
                          /\ At(ToClientH(s))' = Items(toClient'[s])
                          /\ At(ValQH(s))' = Items(valQ'[s])
    BY DEF At, CallerH, QH, JudgedH, HandleH, ToClientH, ValQH

\* There is no other holder, and no two of them are the same.
LEMMA AllHolders ==
    ASSUME NEW h \in Holders
    PROVE  \/ h = CallerH \/ h = QH \/ h = JudgedH
           \/ \E s \in Streams : h = HandleH(s) \/ h = ToClientH(s) \/ h = ValQH(s)
    BY DEF Holders

LEMMA HoldersDiffer ==
    /\ CallerH # QH /\ CallerH # JudgedH /\ QH # JudgedH
    /\ \A s \in Streams : \A h \in {CallerH, QH, JudgedH} : HandleH(s) # h /\ ToClientH(s) # h /\ ValQH(s) # h
    /\ \A s, r \in Streams : /\ HandleH(s) # ToClientH(r) /\ HandleH(s) # ValQH(r) /\ ToClientH(s) # ValQH(r)
                             /\ HandleH(s) = HandleH(r) => s = r
                             /\ ToClientH(s) = ToClientH(r) => s = r
                             /\ ValQH(s) = ValQH(r) => s = r
    BY DEF CallerH, QH, JudgedH, HandleH, ToClientH, ValQH

LEMMA InitInv == Init => IndInv
<1> SUFFICES ASSUME Init PROVE IndInv
    OBVIOUS
<1>1. TypeOK
    BY QSizeAssumption DEF Init, TypeOK, PCs, Results, ValQSize
<1>2. Carried
    BY CallsAssumption DEF Init, Carried
<1>3. FailClosed /\ NoDanglingWaiter /\ WaiterIsRegistered
  <2>1. \A c \in Calls : ret[c] = None /\ pc[c] = "new"
      BY DEF Init
  <2>2. \A i \in Ids : results[i] \notin Calls
      BY CallsAssumption DEF Init
  <2> QED
      BY <2>1, <2>2, CallsAssumption DEF FailClosed, NoDanglingWaiter, WaiterIsRegistered, Results
<1>4. Apart
  <2>1. Items(<<>>) = {} /\ \A s \in Streams : handle[s] \notin Calls
      BY CallsAssumption DEF Init, Items
  <2>2. Items(q) = {} /\ JudgedOf = {} /\ \A s \in Streams : Items(toClient[s]) = {} /\ Items(valQ[s]) = {}
      BY <2>1 DEF Init, JudgedOf
  <2>3. ASSUME NEW h \in Holders PROVE h = CallerH \/ At(h) = {}
    <3>1. At(QH) = {} /\ At(JudgedH) = {}
        BY <2>2, HoldersHave
    <3>2. \A s \in Streams : At(HandleH(s)) = {} /\ At(ToClientH(s)) = {} /\ At(ValQH(s)) = {}
        BY <2>1, <2>2, HoldersHave
    <3> QED
        BY <3>1, <3>2, AllHolders
  <2> QED
      BY <2>3 DEF Apart
<1>5. Single
    BY DEF Init, Single, Distinct
<1> QED
    BY <1>1, <1>2, <1>3, <1>4, <1>5 DEF IndInv

\* convertResult keeps Accept for ACCEPT and Reject for REJECT alone.
LEMMA Conversion == ASSUME NEW a \in Answers
                    PROVE  /\ ConvertResult(a) \in Results
                           /\ ConvertResult(a) = "Accept" => a = "ACCEPT"
                           /\ ConvertResult(a) = "Reject" => a = "REJECT"
    BY AnswersAssumption DEF ConvertResult, Results

LEMMA TypeStep == ASSUME TypeOK, [Next]_vars PROVE TypeOK'
<1> USE CallsAssumption, QSizeAssumption
    DEF TypeOK, PCs, callVars, clientVars, connVars, rcvVars
<1>1. CASE UNCHANGED vars
    BY <1>1 DEF vars
<1>2. ASSUME NEW c \in Calls, Add(c) PROVE TypeOK'
    BY <1>2 DEF Add
<1>3. ASSUME NEW c \in Calls, Push(c) PROVE TypeOK'
  <2>0. /\ q \in Seq(Calls) /\ Len(q) <= QSize /\ Len(q) \in Nat /\ QSize \in Nat
        /\ Append(q, c) \in Seq(Calls) /\ Len(Append(q, c)) = Len(q) + 1
      OBVIOUS
  <2>1. q' \in Seq(Calls) /\ Len(q') <= QSize
    <3>1. q' = q \/ (q' = Append(q, c) /\ Len(q) < QSize)
        BY <1>3 DEF Push
    <3> HIDE DEF TypeOK
    <3> QED
        BY <2>0, <3>1
  <2>2. pc' \in [Calls -> PCs] /\ ret' \in [Calls -> Results \cup {None}]
      BY <1>3 DEF Push, Results
  <2> QED
      BY <1>3, <2>1, <2>2 DEF Push
<1>4. ASSUME NEW c \in Calls, Park(c) PROVE TypeOK'
    BY <1>4 DEF Park
<1>5. ASSUME NEW c \in Calls, Timeout(c) PROVE TypeOK'
    BY <1>5 DEF Timeout, Results
<1>6. ASSUME NEW c \in Calls, Cancel(c) PROVE TypeOK'
    BY <1>6 DEF Cancel
<1>7. ASSUME NEW s \in Streams, Connect(s) PROVE TypeOK'
    BY <1>7 DEF Connect
<1>8. ASSUME NEW s \in Streams, Break(s) PROVE TypeOK'
    BY <1>8 DEF Break
<1>9. ASSUME NEW s \in Streams, Stop(s) PROVE TypeOK'
    BY <1>9 DEF Stop
<1>10. ASSUME NEW s \in Streams, HandleTakes(s) PROVE TypeOK'
  <2>1. Head(q) \in Calls /\ Tail(q) \in Seq(Calls) /\ Len(Tail(q)) <= QSize
      BY <1>10 DEF HandleTakes
  <2> QED
      BY <1>10, <2>1 DEF HandleTakes
<1>11. ASSUME NEW s \in Streams, HandleSends(s) PROVE TypeOK'
  <2>1. handle' \in [Streams -> Calls \cup {Off, Idle}]
      BY <1>11 DEF HandleSends
  <2>2. Append(toClient[s], handle[s]) \in Seq(Calls)
      BY <1>11 DEF HandleSends
  <2>3. toClient' \in [Streams -> Seq(Calls)]
      BY <1>11, <2>2, ZenonT(60) DEF HandleSends
  <2> QED
      BY <1>11, <2>1, <2>3 DEF HandleSends
<1>12. ASSUME NEW s \in Streams, HandleEnds(s) PROVE TypeOK'
    BY <1>12 DEF HandleEnds
<1>13. ASSUME NEW s \in Streams, Lookup(s) PROVE TypeOK'
  <2>1. Head(toServer[s]) \in Calls \X Answers /\ Tail(toServer[s]) \in Seq(Calls \X Answers)
      BY <1>13 DEF Lookup
  <2>2. ConvertResult(Head(toServer[s])[2]) \in Results
      BY <2>1, Conversion
  <2>3. toServer' \in [Streams -> Seq(Calls \X Answers)]
      BY <1>13, <2>1 DEF Lookup
  <2>4. resolve' \in [Streams -> Calls \cup {Idle}]
      BY <1>13, ZenonT(60) DEF Lookup
  <2>5. result' \in [Streams -> Results]
    <3>1. result' = result \/ result' = [result EXCEPT ![s] = ConvertResult(Head(toServer[s])[2])]
        BY <1>13 DEF Lookup
    <3> QED
        BY <2>2, <3>1
  <2> QED
      BY <1>13, <2>3, <2>4, <2>5 DEF Lookup
<1>14. ASSUME NEW s \in Streams, Resolve(s) PROVE TypeOK'
  <2>1. pc' \in [Calls -> PCs] /\ ret' \in [Calls -> Results \cup {None}]
      BY <1>14, ZenonT(60) DEF Resolve
  <2>2. resolve' \in [Streams -> Calls \cup {Idle}]
      BY <1>14 DEF Resolve
  <2> QED
      BY <1>14, <2>1, <2>2 DEF Resolve
<1>15. ASSUME NEW s \in Streams, ClientReceives(s) PROVE TypeOK'
  <2>1. Head(toClient[s]) \in Calls /\ Tail(toClient[s]) \in Seq(Calls)
      BY <1>15 DEF ClientReceives
  <2>2. /\ Append(valQ[s], Head(toClient[s])) \in Seq(Calls)
        /\ Len(Append(valQ[s], Head(toClient[s]))) <= ValQSize
      BY <1>15, <2>1 DEF ClientReceives, ValQSize
  <2>3. valQ' \in [Streams -> Seq(Calls)] /\ toClient' \in [Streams -> Seq(Calls)]
      BY <1>15, <2>1, <2>2 DEF ClientReceives
  <2>4. \A r \in Streams : Len(valQ'[r]) <= ValQSize
      BY <1>15, <2>2 DEF ClientReceives
  <2> QED
      BY <1>15, <2>3, <2>4 DEF ClientReceives
<1>16. ASSUME NEW s \in Streams, ClientEnds(s) PROVE TypeOK'
    BY <1>16 DEF ClientEnds
<1>17. ASSUME NEW s \in Streams, Process(s) PROVE TypeOK'
  <2>1. Head(valQ[s]) \in Calls /\ Tail(valQ[s]) \in Seq(Calls) /\ Len(Tail(valQ[s])) <= ValQSize
      BY <1>17 DEF Process, ValQSize
  <2>2. PICK a \in Answers : /\ verdicts' = verdicts \cup {<<Head(valQ[s]), a>>}
                             /\ toServer' = IF s \in up
                                            THEN [toServer EXCEPT ![s] = Append(@, <<Head(valQ[s]), a>>)]
                                            ELSE toServer
      BY <1>17 DEF Process
  <2>3. verdicts' \subseteq Calls \X Answers /\ toServer' \in [Streams -> Seq(Calls \X Answers)]
      BY <2>1, <2>2
  <2> QED
      BY <1>17, <2>1, <2>3 DEF Process
<1> QED
    BY <1>1, <1>2, <1>3, <1>4, <1>5, <1>6, <1>7, <1>8, <1>9, <1>10, <1>11, <1>12, <1>13,
       <1>14, <1>15, <1>16, <1>17 DEF Next, CallStep, ServerStep, ClientStep

(****************************************************************************)
(* Verdicts.                                                                *)
(****************************************************************************)
\* Verdicts are never taken back and ids never change.
LEMMA BackedStays == ASSUME [Next]_vars PROVE
    \A i, r : Backed(i, r) => Backed(i, r)'
<1> USE DEF callVars, clientVars, connVars, rcvVars
<1>1. mid' = mid /\ verdicts \subseteq verdicts'
  <2>1. ASSUME NEW c \in Calls, Add(c) \/ CallStep(c) PROVE mid' = mid /\ verdicts' = verdicts
      BY <2>1 DEF CallStep, Add, Push, Park, Timeout, Cancel
  <2>2. ASSUME NEW s \in Streams, Connect(s) \/ Break(s) \/ Stop(s)
        PROVE  mid' = mid /\ verdicts' = verdicts
      BY <2>2 DEF Connect, Break, Stop
  <2>3. ASSUME NEW s \in Streams, ServerStep(s) PROVE mid' = mid /\ verdicts' = verdicts
      BY <2>3 DEF ServerStep, HandleTakes, HandleSends, HandleEnds, Lookup, Resolve
  <2>4. ASSUME NEW s \in Streams, ClientStep(s) PROVE mid' = mid /\ verdicts \subseteq verdicts'
      BY <2>4 DEF ClientStep, ClientReceives, ClientEnds, Process
  <2>5. CASE UNCHANGED vars
      BY <2>5 DEF vars
  <2> QED
      BY <2>1, <2>2, <2>3, <2>4, <2>5 DEF Next
<1> QED
    BY <1>1 DEF Backed, Judged

LEMMA CarriedStep == ASSUME IndInv, [Next]_vars PROVE Carried'
<1> USE CallsAssumption DEF IndInv, TypeOK, callVars, clientVars, connVars, rcvVars
<1> DEFINE Quiet == UNCHANGED <<mid, toServer, resolve, result, verdicts>>
<1>1. ASSUME Quiet PROVE Carried'
    BY <1>1 DEF Carried, Backed, Judged
<1>2. ASSUME NEW c \in Calls, Add(c) \/ CallStep(c) PROVE Quiet
    BY <1>2 DEF CallStep, Add, Push, Park, Timeout, Cancel
<1>3. ASSUME NEW s \in Streams, Connect(s) \/ Stop(s) \/ HandleTakes(s) \/ HandleSends(s)
                                \/ HandleEnds(s) \/ ClientReceives(s) \/ ClientEnds(s)
      PROVE  Quiet
    BY <1>3 DEF Connect, Stop, HandleTakes, HandleSends, HandleEnds, ClientReceives, ClientEnds
<1>4. ASSUME NEW s \in Streams, Break(s) PROVE Carried'
  <2>1. \A r \in Streams : \A k \in DOMAIN toServer'[r] : toServer'[r][k] \in verdicts'
    <3>1. \A r \in Streams : toServer'[r] = toServer[r] \/ toServer'[r] = <<>>
        BY <1>4 DEF Break
    <3> QED
        BY <1>4, <3>1 DEF Break, Carried
  <2>2. \A r \in Streams : resolve'[r] \in Calls => Backed(mid[resolve[r]], result[r])'
      BY <1>4 DEF Break, Carried, Backed, Judged
  <2> QED
      BY <2>1, <2>2 DEF Carried
<1>5. ASSUME NEW s \in Streams, Lookup(s) PROVE Carried'
  <2> DEFINE answer == Head(toServer[s])
             entry  == results[mid[answer[1]]]
  <2>1. /\ answer \in verdicts /\ answer \in Calls \X Answers
        /\ answer = <<answer[1], answer[2]>>
      BY <1>5 DEF Lookup, Carried
  <2>2. entry \in Calls => mid[entry] = mid[answer[1]]
      BY <2>1 DEF NoDanglingWaiter
  <2>3. entry \in Calls => Backed(mid[entry], ConvertResult(answer[2]))
    <3>1. Judged(mid[answer[1]], answer[2])
        BY <2>1, ZenonT(60) DEF Judged
    <3>2. /\ ConvertResult(answer[2]) = "Accept" => answer[2] = "ACCEPT"
          /\ ConvertResult(answer[2]) = "Reject" => answer[2] = "REJECT"
        BY <2>1, Conversion
    <3> HIDE DEF answer, entry
    <3> QED
        BY <2>2, <3>1, <3>2 DEF Backed
  <2>4. \A r \in Streams : \A k \in DOMAIN toServer'[r] : toServer'[r][k] \in verdicts'
      BY <1>5 DEF Lookup, Carried
  <2>5. /\ mid' = mid
        /\ \A r \in Streams : r # s => resolve'[r] = resolve[r] /\ result'[r] = result[r]
        /\ \/ resolve'[s] = entry /\ result'[s] = ConvertResult(answer[2])
           \/ resolve'[s] = Idle
      BY <1>5 DEF Lookup
  <2>6. \A r \in Streams : resolve'[r] \in Calls => Backed(mid'[resolve'[r]], result'[r])
      BY <2>3, <2>5, ZenonT(60) DEF Carried
  <2>7. \A r \in Streams : resolve'[r] \in Calls => Backed(mid[resolve[r]], result[r])'
      BY <2>6, BackedStays
  <2> QED
      BY <2>4, <2>7 DEF Carried
<1>6. ASSUME NEW s \in Streams, Resolve(s) PROVE Carried'
    BY <1>6 DEF Resolve, Carried, Backed, Judged
<1>7. ASSUME NEW s \in Streams, Process(s) PROVE Carried'
  <2>1. PICK a \in Answers : /\ verdicts' = verdicts \cup {<<Head(valQ[s]), a>>}
                             /\ toServer' = IF s \in up
                                            THEN [toServer EXCEPT ![s] = Append(@, <<Head(valQ[s]), a>>)]
                                            ELSE toServer
      BY <1>7 DEF Process
  <2>2. \A r \in Streams : \A k \in DOMAIN toServer'[r] : toServer'[r][k] \in verdicts'
      BY <2>1 DEF Carried
  <2>3. \A r \in Streams : resolve'[r] \in Calls => Backed(mid[resolve[r]], result[r])'
      BY <1>7, BackedStays DEF Process, Carried, Backed, Judged
  <2> QED
      BY <2>2, <2>3 DEF Carried
<1>8. CASE UNCHANGED vars
    BY <1>1, <1>8 DEF vars
<1> QED
    BY <1>1, <1>2, <1>3, <1>4, <1>5, <1>6, <1>7, <1>8 DEF Next, ServerStep, ClientStep

LEMMA FailClosedStep == ASSUME IndInv, [Next]_vars PROVE FailClosed'
<1>1. \A c \in Calls : Backed(mid[c], ret[c])
    BY DEF IndInv, FailClosed, Backed
<1>2. mid' = mid /\ \A c \in Calls : \/ ret'[c] = ret[c] \/ ret'[c] = "Ignore"
                                     \/ \E s \in Streams : resolve[s] = c /\ ret'[c] = result[s]
  <2> USE DEF IndInv, TypeOK, callVars, clientVars, connVars, rcvVars
  <2>1. ASSUME NEW d \in Calls, Push(d) \/ Timeout(d)
        PROVE  mid' = mid /\ \A c \in Calls : ret'[c] = ret[c] \/ ret'[c] = "Ignore"
      BY <2>1 DEF Push, Timeout
  <2>2. ASSUME NEW d \in Calls, Add(d) \/ Park(d) \/ Cancel(d) PROVE mid' = mid /\ ret' = ret
      BY <2>2 DEF Add, Park, Cancel
  <2>3. ASSUME NEW s \in Streams, Connect(s) \/ Break(s) \/ Stop(s) \/ HandleTakes(s) \/ HandleSends(s)
                                  \/ HandleEnds(s) \/ Lookup(s) \/ ClientStep(s)
        PROVE  mid' = mid /\ ret' = ret
      BY <2>3 DEF Connect, Break, Stop, HandleTakes, HandleSends, HandleEnds, Lookup, ClientStep,
         ClientReceives, ClientEnds, Process
  <2>4. ASSUME NEW s \in Streams, Resolve(s)
        PROVE  mid' = mid /\ \A c \in Calls : ret'[c] = ret[c] \/ (resolve[s] = c /\ ret'[c] = result[s])
      BY <2>4 DEF Resolve
  <2>5. CASE UNCHANGED vars
      BY <2>5 DEF vars
  <2> QED
      BY <2>1, <2>2, <2>3, <2>4, <2>5 DEF Next, CallStep, ServerStep
<1>3. \A s \in Streams : resolve[s] \in Calls => Backed(mid[resolve[s]], result[s])
    BY DEF IndInv, Carried
<1>4. \A c \in Calls : Backed(mid[c], ret'[c])
  <2>1. \A i : Backed(i, "Ignore")
      BY DEF Backed
  <2> QED
      BY <1>1, <1>2, <1>3, <2>1
<1>5. \A c \in Calls : Backed(mid[c], ret[c])'
    BY <1>2, <1>4, BackedStays
<1> QED
    BY <1>5 DEF FailClosed, Backed

(****************************************************************************)
(* The map of results.                                                      *)
(****************************************************************************)
\* Most steps leave the map alone and move at most a call that waits.
LEMMA WaitersStep == ASSUME IndInv, [Next]_vars PROVE NoDanglingWaiter' /\ WaiterIsRegistered'
<1> USE CallsAssumption DEF IndInv, TypeOK, callVars, clientVars, connVars, rcvVars
<1> DEFINE Waiting == {"push", "park", "wait"}
           Moves == /\ UNCHANGED <<mid, results>>
                    /\ \A c \in Calls : \/ pc'[c] = pc[c]
                                        \/ pc[c] \in Waiting /\ pc'[c] \in Waiting \cup {"cancel"}
<1>1. ASSUME Moves PROVE NoDanglingWaiter' /\ WaiterIsRegistered'
  <2>1. /\ mid' = mid /\ results' = results
        /\ \A c \in Calls : /\ pc[c] = "new" <=> pc'[c] = "new"
                            /\ pc[c] = "done" <=> pc'[c] = "done"
                            /\ pc'[c] \in Waiting => pc[c] \in Waiting
      BY <1>1
  <2>2. NoDanglingWaiter'
      BY <2>1 DEF NoDanglingWaiter
  <2>3. WaiterIsRegistered'
      BY <2>1 DEF WaiterIsRegistered
  <2> QED
      BY <2>2, <2>3
<1>2. ASSUME NEW c \in Calls, Push(c) \/ Park(c) \/ Timeout(c) PROVE Moves
    BY <1>2 DEF Push, Park, Timeout
<1>3. ASSUME NEW s \in Streams, Connect(s) \/ Break(s) \/ Stop(s) \/ HandleTakes(s) \/ HandleSends(s)
                                \/ HandleEnds(s) \/ Lookup(s) \/ ClientStep(s)
      PROVE  Moves
    BY <1>3 DEF Connect, Break, Stop, HandleTakes, HandleSends, HandleEnds, Lookup, ClientStep,
       ClientReceives, ClientEnds, Process
<1>4. ASSUME NEW s \in Streams, Resolve(s) PROVE Moves
  <2>1. UNCHANGED <<mid, results>>
      BY <1>4 DEF Resolve
  <2>2. pc' = pc \/ (pc[resolve[s]] = "wait" /\ pc' = [pc EXCEPT ![resolve[s]] = "cancel"])
      BY <1>4 DEF Resolve
  <2> QED
      BY <2>1, <2>2
<1>5. ASSUME NEW c \in Calls, Add(c) PROVE NoDanglingWaiter' /\ WaiterIsRegistered'
    BY <1>5 DEF Add, NoDanglingWaiter, WaiterIsRegistered
<1>6. ASSUME NEW c \in Calls, Cancel(c) PROVE NoDanglingWaiter' /\ WaiterIsRegistered'
    BY <1>6 DEF Cancel, NoDanglingWaiter, WaiterIsRegistered
<1>7. CASE UNCHANGED vars
    BY <1>1, <1>7 DEF vars
<1> HIDE DEF Moves
<1> QED
    BY <1>1, <1>2, <1>3, <1>4, <1>5, <1>6, <1>7 DEF Next, CallStep, ServerStep

(****************************************************************************)
(* One verifier, one verdict.                                               *)
(****************************************************************************)
LEMMA AppendFacts ==
    ASSUME NEW S, NEW s \in Seq(S), NEW x \in S
    PROVE  /\ Items(Append(s, x)) = Items(s) \cup {x}
           /\ Distinct(s) /\ x \notin Items(s) => Distinct(Append(s, x))
<1> DEFINE t == Append(s, x)
<1>1. /\ Len(s) \in Nat /\ DOMAIN s = 1 .. Len(s) /\ DOMAIN t = 1 .. Len(s) + 1
      /\ t[Len(s) + 1] = x /\ \A i \in 1 .. Len(s) : t[i] = s[i]
    OBVIOUS
<1> HIDE DEF t
<1>2. \A i \in DOMAIN t : i \in DOMAIN s \/ i = Len(s) + 1
    BY <1>1
<1>3. DOMAIN s \subseteq DOMAIN t /\ Len(s) + 1 \in DOMAIN t
    BY <1>1
<1>4. Items(t) = Items(s) \cup {x}
    BY <1>1, <1>2, <1>3 DEF Items
<1>5. ASSUME Distinct(s), x \notin Items(s) PROVE Distinct(t)
    BY <1>1, <1>2, <1>5 DEF Items, Distinct
<1> QED
    BY <1>4, <1>5 DEF t

LEMMA TailFacts ==
    ASSUME NEW S, NEW s \in Seq(S), s # <<>>
    PROVE  /\ Head(s) \in Items(s) /\ Head(s) \in S /\ Items(Tail(s)) \subseteq Items(s)
           /\ Distinct(s) => Distinct(Tail(s)) /\ Head(s) \notin Items(Tail(s))
<1> DEFINE t == Tail(s)
<1>1. /\ Len(s) \in Nat \ {0} /\ DOMAIN s = 1 .. Len(s) /\ DOMAIN t = 1 .. Len(s) - 1
      /\ Head(s) = s[1] /\ s[1] \in S
    OBVIOUS
<1>2. \A i \in DOMAIN t : t[i] = s[i + 1]
    BY <1>1, HeadTailProperties
<1> HIDE DEF t
<1>3. \A i \in DOMAIN t : i \in Nat \ {0} /\ i + 1 \in DOMAIN s /\ 1 \in DOMAIN s /\ i + 1 # 1
    BY <1>1
<1>4. s[1] \in Items(s)
    BY <1>1 DEF Items
<1>5. Items(t) \subseteq Items(s)
    BY <1>2, <1>3 DEF Items
<1>6. ASSUME Distinct(s) PROVE Distinct(t) /\ s[1] \notin Items(t)
  <2>1. Distinct(t)
    <3> SUFFICES ASSUME NEW i \in DOMAIN t, NEW j \in DOMAIN t, t[i] = t[j] PROVE i = j
        BY DEF Distinct
    <3>1. i + 1 = j + 1
        BY <1>2, <1>3, <1>6 DEF Distinct
    <3> QED
        BY <1>3, <3>1
  <2>2. \A i \in DOMAIN t : t[i] # s[1]
      BY <1>2, <1>3, <1>6 DEF Distinct
  <2> QED
      BY <2>1, <2>2 DEF Items
<1> QED
    BY <1>1, <1>4, <1>5, <1>6 DEF t

LEMMA EmptyFacts == Items(<<>>) = {} /\ Distinct(<<>>)
    BY DEF Items, Distinct

\* A message that goes from one holder to another stays with one.
LEMMA Moves ==
    ASSUME Apart, NEW x, NEW a \in Holders, NEW b \in Holders,
           x \in At(a), x \notin At(a)', At(b)' \subseteq At(b) \cup {x},
           \A h \in Holders : h # b => At(h)' \subseteq At(h)
    PROVE  Apart'
<1> SUFFICES ASSUME NEW h \in Holders, NEW k \in Holders, h # k,
                    NEW y, y \in At(h)', y \in At(k)'
             PROVE  FALSE
    BY DEF Apart, Holders, CallerH, QH, JudgedH, HandleH, ToClientH, ValQH
<1>1. \A g \in Holders : y \in At(g)' => y \in At(g) \/ (g = b /\ y = x)
    OBVIOUS
<1>2. \A g \in Holders : x \in At(g) => g = a
    BY DEF Apart
<1>3. ~(y \in At(h) /\ y \in At(k))
    BY DEF Apart
<1> QED
    BY <1>1, <1>2, <1>3

\* A step that adds to no holder but b.
AddsOnlyTo(b) ==
    /\ b # CallerH => Callers' \subseteq Callers
    /\ b # QH => Items(q') \subseteq Items(q)
    /\ b # JudgedH => JudgedOf' \subseteq JudgedOf
    /\ \A s \in Streams : b # HandleH(s) => ({handle'[s]} \cap Calls) \subseteq ({handle[s]} \cap Calls)
    /\ \A s \in Streams : b # ToClientH(s) => Items(toClient'[s]) \subseteq Items(toClient[s])
    /\ \A s \in Streams : b # ValQH(s) => Items(valQ'[s]) \subseteq Items(valQ[s])

LEMMA EveryHolder ==
    ASSUME NEW b, AddsOnlyTo(b)
    PROVE  \A h \in Holders : h # b => At(h)' \subseteq At(h)
<1> USE DEF AddsOnlyTo
<1> SUFFICES ASSUME NEW h \in Holders, h # b PROVE At(h)' \subseteq At(h)
    OBVIOUS
<1>1. CASE h = CallerH \/ h = QH \/ h = JudgedH
    BY <1>1, HoldersHave, HoldersHaveNext
<1>2. ASSUME NEW s \in Streams, h = HandleH(s) PROVE At(h)' \subseteq At(h)
    BY <1>2, HoldersHave, HoldersHaveNext
<1>3. ASSUME NEW s \in Streams, h = ToClientH(s) PROVE At(h)' \subseteq At(h)
    BY <1>3, HoldersHave, HoldersHaveNext
<1>4. ASSUME NEW s \in Streams, h = ValQH(s) PROVE At(h)' \subseteq At(h)
    BY <1>4, HoldersHave, HoldersHaveNext
<1> QED
    BY <1>1, <1>2, <1>3, <1>4, AllHolders

\* Messages may get lost.
LEMMA Shrinks ==
    ASSUME Apart, \A b : AddsOnlyTo(b)
    PROVE  Apart'
<1>1. \A h \in Holders : At(h)' \subseteq At(h)
    BY EveryHolder, HoldersDiffer
<1>2. Holders' = Holders
    BY DEF Holders, CallerH, QH, JudgedH, HandleH, ToClientH, ValQH
<1> QED
    BY <1>1, <1>2 DEF Apart

\* Every step moves a message from one holder to another, loses some, or
\* leaves all where they are.
LEMMA ApartStep == ASSUME IndInv, [Next]_vars PROVE Apart' /\ Single'
<1> USE CallsAssumption DEF callVars, clientVars, connVars, rcvVars
<1>1. /\ TypeOK /\ Apart /\ Single
      /\ q \in Seq(Calls) /\ pc = [c \in Calls |-> pc[c]] /\ handle = [s \in Streams |-> handle[s]]
      /\ toClient = [s \in Streams |-> toClient[s]] /\ valQ = [s \in Streams |-> valQ[s]]
      /\ \A s \in Streams : toClient[s] \in Seq(Calls) /\ valQ[s] \in Seq(Calls)
    BY DEF IndInv, TypeOK
<1> HIDE DEF IndInv
<1>2. ASSUME Callers' \subseteq Callers, UNCHANGED <<q, handle, toClient, valQ, verdicts>>
      PROVE  Apart' /\ Single'
  <2>1. \A b : AddsOnlyTo(b)
      BY <1>2 DEF AddsOnlyTo, JudgedOf, Callers
  <2> QED
      BY <1>1, <1>2, <2>1, Shrinks DEF Single
<1>3. ASSUME NEW c \in Calls, Add(c) \/ Park(c) \/ Timeout(c) \/ Cancel(c) PROVE Apart' /\ Single'
  <2>1. Callers' \subseteq Callers /\ UNCHANGED <<q, handle, toClient, valQ, verdicts>>
      BY <1>1, <1>3 DEF Add, Park, Timeout, Cancel, Callers
  <2> QED
      BY <1>2, <2>1
<1>4. ASSUME NEW c \in Calls, Push(c) PROVE Apart' /\ Single'
  <2>1. /\ c \in Callers /\ Callers' \subseteq Callers \ {c}
        /\ UNCHANGED <<handle, toClient, valQ, verdicts>> /\ (q' = Append(q, c) \/ UNCHANGED q)
      BY <1>1, <1>4 DEF Push, Callers
  <2>2. CASE UNCHANGED q
      BY <1>2, <2>1, <2>2
  <2>3. CASE q' = Append(q, c)
    <3>1. c \in At(CallerH) /\ c \notin At(CallerH)'
        BY <2>1, HoldersHave, HoldersHaveNext
    <3>2. c \notin Items(q)
        BY <1>1, <3>1, HoldersHave, HoldersDiffer DEF Apart
    <3>3. Items(q') = Items(q) \cup {c} /\ Distinct(q')
        BY <1>1, <2>3, <3>2, AppendFacts DEF Single
    <3>4. AddsOnlyTo(QH)
        BY <2>1 DEF AddsOnlyTo, JudgedOf, Callers
    <3>5. At(QH)' \subseteq At(QH) \cup {c}
        BY <3>3, HoldersHave, HoldersHaveNext
    <3>6. Apart'
        BY <1>1, <3>1, <3>4, <3>5, HoldersHave, EveryHolder, Moves
    <3> QED
        BY <1>1, <2>1, <3>3, <3>6 DEF Single
  <2> QED
      BY <2>1, <2>2, <2>3
<1>5. ASSUME NEW s \in Streams, Stop(s) \/ Lookup(s) PROVE Apart' /\ Single'
  <2>1. UNCHANGED <<pc, q, handle, toClient, valQ, verdicts>>
      BY <1>5 DEF Stop, Lookup
  <2> QED
      BY <1>2, <2>1 DEF Callers
<1>6. ASSUME NEW s \in Streams, Resolve(s) PROVE Apart' /\ Single'
  <2>1. Callers' \subseteq Callers
    <3>1. \A c \in Calls : pc'[c] = pc[c] \/ pc'[c] = "cancel"
        BY <1>1, <1>6 DEF Resolve
    <3> QED
        BY <3>1 DEF Callers
  <2> QED
      BY <1>2, <1>6, <2>1 DEF Resolve
<1>7. ASSUME NEW s \in Streams, UNCHANGED <<pc, q, valQ, verdicts>>,
             handle' = handle \/ \E v \in {Off, Idle} : handle' = [handle EXCEPT ![s] = v],
             toClient' = toClient \/ (\E t : /\ toClient' = [toClient EXCEPT ![s] = t]
                                            /\ Items(t) \subseteq Items(toClient[s]) /\ Distinct(t))
      PROVE  Apart' /\ Single'
  <2>1. \A r \in Streams : ({handle'[r]} \cap Calls) \subseteq ({handle[r]} \cap Calls)
      BY <1>1, <1>7
  <2>2. \A r \in Streams : Items(toClient'[r]) \subseteq Items(toClient[r]) /\ Distinct(toClient'[r])
      BY <1>1, <1>7 DEF Single
  <2>3. \A b : AddsOnlyTo(b)
      BY <1>7, <2>1, <2>2 DEF AddsOnlyTo, JudgedOf, Callers
  <2> QED
      BY <1>1, <1>7, <2>2, <2>3, Shrinks DEF Single
<1>8. ASSUME NEW s \in Streams, Connect(s) \/ HandleEnds(s) PROVE Apart' /\ Single'
    BY <1>7, <1>8 DEF Connect, HandleEnds
<1>9. ASSUME NEW s \in Streams, Break(s) PROVE Apart' /\ Single'
    BY <1>7, <1>9, EmptyFacts DEF Break
<1>10. ASSUME NEW s \in Streams, ClientEnds(s) PROVE Apart' /\ Single'
  <2>1. Items(Tail(toClient[s])) \subseteq Items(toClient[s]) /\ Distinct(Tail(toClient[s]))
      BY <1>1, <1>10, TailFacts DEF ClientEnds, Single
  <2>2. toClient' = [toClient EXCEPT ![s] = Tail(toClient[s])] /\ UNCHANGED <<pc, q, handle, valQ, verdicts>>
      BY <1>1, <1>10 DEF ClientEnds
  <2> QED
      BY <1>7, <2>1, <2>2
<1>11. ASSUME NEW s \in Streams, HandleTakes(s) PROVE Apart' /\ Single'
  <2> DEFINE x == Head(q)
  <2>1. /\ handle[s] = Idle /\ handle' = [handle EXCEPT ![s] = x] /\ q # <<>> /\ q' = Tail(q)
        /\ UNCHANGED <<pc, toClient, valQ, verdicts>>
      BY <1>11 DEF HandleTakes
  <2>2. x \in Items(q) /\ x \notin Items(q') /\ Items(q') \subseteq Items(q) /\ Distinct(q')
      BY <1>1, <2>1, TailFacts DEF Single
  <2> HIDE DEF x
  <2>3. handle'[s] = x /\ \A r \in Streams : r # s => handle'[r] = handle[r]
      BY <1>1, <2>1
  <2>4. AddsOnlyTo(HandleH(s))
      BY <2>1, <2>2, <2>3 DEF AddsOnlyTo, JudgedOf, Callers
  <2>5. At(HandleH(s))' \subseteq At(HandleH(s)) \cup {x}
      BY <2>3, HoldersHave, HoldersHaveNext
  <2>6. x \in At(QH) /\ x \notin At(QH)'
      BY <2>2, HoldersHave, HoldersHaveNext
  <2>7. Apart'
      BY <1>1, <2>4, <2>5, <2>6, HoldersHave, EveryHolder, Moves
  <2> QED
      BY <1>1, <2>1, <2>2, <2>7 DEF Single
<1>12. ASSUME NEW s \in Streams, HandleSends(s) PROVE Apart' /\ Single'
  <2> DEFINE x == handle[s]
  <2>1. x \in Calls /\ UNCHANGED <<pc, q, valQ, verdicts>>
      BY <1>12 DEF HandleSends
  <2>2. CASE handle' = [handle EXCEPT ![s] = Off] /\ UNCHANGED toClient
      BY <1>7, <2>1, <2>2
  <2>3. CASE handle' = [handle EXCEPT ![s] = Idle] /\ toClient' = [toClient EXCEPT ![s] = Append(@, x)]
    <3>1. x \in At(HandleH(s)) /\ x \notin At(HandleH(s))'
      <4>1. handle'[s] = Idle
          BY <1>1, <2>3
      <4> QED
          BY <2>1, <4>1, HoldersHave, HoldersHaveNext
    <3>2. x \notin Items(toClient[s])
        BY <1>1, <3>1, HoldersHave, HoldersDiffer DEF Apart
    <3> HIDE DEF x
    <3>3. toClient'[s] = Append(toClient[s], x) /\ \A r \in Streams : r # s => toClient'[r] = toClient[r]
        BY <1>1, <2>3
    <3>4. Items(toClient'[s]) = Items(toClient[s]) \cup {x} /\ Distinct(toClient'[s])
        BY <1>1, <2>1, <3>2, <3>3, AppendFacts DEF Single
    <3>5. \A r \in Streams : r # s => handle'[r] = handle[r]
        BY <1>1, <2>3
    <3>6. At(HandleH(s))' \subseteq At(HandleH(s))
      <4>1. handle'[s] = Idle
          BY <1>1, <2>3
      <4> QED
          BY <4>1, HoldersHaveNext
    <3>7. AddsOnlyTo(ToClientH(s))
        BY <2>1, <3>3, <3>5, <3>6 DEF AddsOnlyTo, JudgedOf, Callers
    <3>8. At(ToClientH(s))' \subseteq At(ToClientH(s)) \cup {x}
        BY <3>4, HoldersHave, HoldersHaveNext
    <3>9. Apart'
        BY <1>1, <3>1, <3>7, <3>8, HoldersHave, EveryHolder, Moves
    <3> QED
        BY <1>1, <2>1, <3>3, <3>4, <3>9 DEF Single
  <2> QED
      BY <1>12, <2>2, <2>3 DEF HandleSends
<1>13. ASSUME NEW s \in Streams, ClientReceives(s) PROVE Apart' /\ Single'
  <2> DEFINE x == Head(toClient[s])
  <2>1. /\ toClient[s] # <<>> /\ UNCHANGED <<pc, q, handle, verdicts>>
        /\ toClient'[s] = Tail(toClient[s]) /\ \A r \in Streams : r # s => toClient'[r] = toClient[r]
        /\ valQ'[s] = Append(valQ[s], x) /\ \A r \in Streams : r # s => valQ'[r] = valQ[r]
      BY <1>1, <1>13 DEF ClientReceives
  <2>2. /\ x \in Items(toClient[s]) /\ x \in Calls /\ x \notin Items(toClient'[s])
        /\ Items(toClient'[s]) \subseteq Items(toClient[s]) /\ Distinct(toClient'[s])
      BY <1>1, <2>1, TailFacts DEF Single
  <2> HIDE DEF x
  <2>3. x \in At(ToClientH(s)) /\ x \notin At(ToClientH(s))'
      BY <2>2, HoldersHave, HoldersHaveNext
  <2>4. x \notin Items(valQ[s])
      BY <1>1, <2>3, HoldersHave, HoldersDiffer DEF Apart
  <2>5. Items(valQ'[s]) = Items(valQ[s]) \cup {x} /\ Distinct(valQ'[s])
      BY <1>1, <2>1, <2>2, <2>4, AppendFacts DEF Single
  <2>6. AddsOnlyTo(ValQH(s))
      BY <2>1, <2>2 DEF AddsOnlyTo, JudgedOf, Callers
  <2>7. At(ValQH(s))' \subseteq At(ValQH(s)) \cup {x}
      BY <2>5, HoldersHave, HoldersHaveNext
  <2>8. Apart'
      BY <1>1, <2>3, <2>6, <2>7, HoldersHave, EveryHolder, Moves
  <2> QED
      BY <1>1, <2>1, <2>2, <2>5, <2>8 DEF Single
<1>14. ASSUME NEW s \in Streams, Process(s) PROVE Apart' /\ Single'
  <2> DEFINE x == Head(valQ[s])
  <2>1. PICK a : verdicts' = verdicts \cup {<<x, a>>}
      BY <1>14 DEF Process
  <2>2. /\ valQ[s] # <<>> /\ UNCHANGED <<pc, q, handle, toClient>>
        /\ valQ'[s] = Tail(valQ[s]) /\ \A r \in Streams : r # s => valQ'[r] = valQ[r]
      BY <1>1, <1>14 DEF Process
  <2>3. /\ x \in Items(valQ[s]) /\ x \notin Items(valQ'[s])
        /\ Items(valQ'[s]) \subseteq Items(valQ[s]) /\ Distinct(valQ'[s])
      BY <1>1, <2>2, TailFacts DEF Single
  <2> HIDE DEF x
  <2>4. x \in At(ValQH(s)) /\ x \notin At(ValQH(s))'
      BY <2>3, HoldersHave, HoldersHaveNext
  <2>5. x \notin JudgedOf
      BY <1>1, <2>4, HoldersHave, HoldersDiffer DEF Apart
  <2>6. JudgedOf' \subseteq JudgedOf \cup {x}
      BY <2>1 DEF JudgedOf
  <2>7. AddsOnlyTo(JudgedH)
      BY <2>2, <2>3 DEF AddsOnlyTo, JudgedOf, Callers
  <2>8. At(JudgedH)' \subseteq At(JudgedH) \cup {x}
      BY <2>6, HoldersHave, HoldersHaveNext
  <2>9. Apart'
      BY <1>1, <2>4, <2>7, <2>8, HoldersHave, EveryHolder, Moves
  <2>10. \A v, w \in verdicts' : v[1] = w[1] => v = w
    <3>1. \A v \in verdicts : v[1] # x
        BY <2>5 DEF JudgedOf
    <3>2. \A v \in verdicts' : v \in verdicts \/ (v = <<x, a>> /\ v[1] = x)
        BY <2>1
    <3>3. \A v, w \in verdicts : v[1] = w[1] => v = w
        BY <1>1 DEF Single
    <3> QED
        BY <3>1, <3>2, <3>3
  <2> QED
      BY <1>1, <2>2, <2>3, <2>9, <2>10 DEF Single
<1>15. CASE UNCHANGED vars
    BY <1>2, <1>15 DEF vars, Callers
<1> QED
    BY <1>3, <1>4, <1>5, <1>6, <1>8, <1>9, <1>10, <1>11, <1>12, <1>13, <1>14, <1>15
       DEF Next, CallStep, ServerStep, ClientStep

\* A set with at most one element has at most one.
LEMMA AtMostOne == ASSUME NEW S, \A x, y \in S : x = y PROVE Cardinality(S) <= 1
<1>1. CASE S = {}
    BY <1>1, FS_EmptySet
<1>2. CASE S # {}
  <2>1. PICK x \in S : TRUE
      BY <1>2
  <2>2. S = {x}
      BY <2>1
  <2> QED
      BY <2>2, FS_Singleton
<1> QED
    BY <1>1, <1>2

\* Apart and Single are JudgedOnce, place by place.
LEMMA OncePlaced == Apart /\ Single => JudgedOnce
<1> SUFFICES ASSUME Apart, Single, NEW c \in Calls
             PROVE  /\ Cardinality(Places(c)) <= 1
                    /\ Cardinality({v \in verdicts : v[1] = c}) <= 1
                    /\ (\E v \in verdicts : v[1] = c) => Places(c) = {}
    BY DEF JudgedOnce
<1> DEFINE Place(h, p) ==
               \/ h = QH /\ \E i \in DOMAIN q : q[i] = c /\ p = <<"q", i>>
               \/ \E s \in Streams :
                     \/ h = HandleH(s) /\ handle[s] = c /\ p = <<"handle", s>>
                     \/ h = ToClientH(s) /\ \E i \in DOMAIN toClient[s] : toClient[s][i] = c /\ p = <<"toClient", s, i>>
                     \/ h = ValQH(s) /\ \E i \in DOMAIN valQ[s] : valQ[s][i] = c /\ p = <<"valQ", s, i>>
<1>1. ASSUME NEW p \in Places(c) PROVE \E h \in Holders : Place(h, p)
  <2>1. CASE \E i \in DOMAIN q : q[i] = c /\ p = <<"q", i>>
      BY <2>1, HoldersHave
  <2>2. CASE \E s \in Streams : handle[s] = c /\ p = <<"handle", s>>
      BY <2>2, HoldersHave
  <2>3. CASE \E s \in Streams : \E i \in DOMAIN toClient[s] : toClient[s][i] = c /\ p = <<"toClient", s, i>>
      BY <2>3, HoldersHave
  <2>4. CASE \E s \in Streams : \E i \in DOMAIN valQ[s] : valQ[s][i] = c /\ p = <<"valQ", s, i>>
      BY <2>4, HoldersHave
  <2>5. \/ \E i \in DOMAIN q : q[i] = c /\ p = <<"q", i>>
        \/ \E s \in Streams : handle[s] = c /\ p = <<"handle", s>>
        \/ \E s \in Streams : p \in WithStream(c, s)
      BY DEF Places, Positions
  <2>6. ASSUME NEW s \in Streams, p \in WithStream(c, s)
        PROVE  \/ \E i \in DOMAIN toClient[s] : toClient[s][i] = c /\ p = <<"toClient", s, i>>
               \/ \E i \in DOMAIN valQ[s] : valQ[s][i] = c /\ p = <<"valQ", s, i>>
      BY <2>6 DEF WithStream, Positions
  <2> HIDE DEF Place
  <2> QED
      BY <2>1, <2>2, <2>3, <2>4, <2>5, <2>6
<1>2. ASSUME NEW h \in Holders, NEW p, Place(h, p) PROVE c \in At(h) /\ h # JudgedH
    BY <1>2, HoldersHave, HoldersDiffer DEF Items
<1>3. ASSUME NEW h \in Holders, NEW p, NEW r, Place(h, p), Place(h, r) PROVE p = r
  <2>1. CASE h = QH
      BY <1>3, <2>1, HoldersDiffer DEF Single, Distinct
  <2>2. ASSUME NEW s \in Streams, h = HandleH(s) PROVE p = r
      BY <1>3, <2>2, HoldersDiffer
  <2>3. ASSUME NEW s \in Streams, h = ToClientH(s) PROVE p = r
      BY <1>3, <2>3, HoldersDiffer DEF Single, Distinct
  <2>4. ASSUME NEW s \in Streams, h = ValQH(s) PROVE p = r
      BY <1>3, <2>4, HoldersDiffer DEF Single, Distinct
  <2> QED
      BY <1>3, <2>1, <2>2, <2>3, <2>4
<1> HIDE DEF Place
<1>4. Cardinality(Places(c)) <= 1
  <2>1. ASSUME NEW p \in Places(c), NEW r \in Places(c) PROVE p = r
      BY <1>1, <1>2, <1>3 DEF Apart
  <2> QED
      BY <2>1, AtMostOne
<1>5. Cardinality({v \in verdicts : v[1] = c}) <= 1
  <2>1. \A v, w \in {u \in verdicts : u[1] = c} : v = w
      BY DEF Single
  <2> QED
      BY <2>1, AtMostOne
<1>6. ASSUME NEW v \in verdicts, v[1] = c PROVE Places(c) = {}
  <2>1. c \in At(JudgedH)
      BY <1>6, HoldersHave DEF JudgedOf
  <2> QED
      BY <1>1, <1>2, <2>1, HoldersHave DEF Apart
<1> QED
    BY <1>4, <1>5, <1>6

(****************************************************************************)
(* The theorems.                                                            *)
(****************************************************************************)
\* The strengthened invariant holds in every reachable state.
THEOREM Invariance == Spec => []IndInv
<1>1. IndInv /\ [Next]_vars => IndInv'
  <2> SUFFICES ASSUME IndInv, [Next]_vars PROVE IndInv'
      OBVIOUS
  <2>1. TypeOK'
      BY TypeStep DEF IndInv
  <2> QED
      BY <2>1, CarriedStep, FailClosedStep, WaitersStep, ApartStep DEF IndInv
<1> QED
    BY InitInv, <1>1, PTL DEF Spec

\* Queues, streams and the map of results keep their types and bounds.
THEOREM TypeCorrect == Spec => []TypeOK
<1>1. IndInv => TypeOK
    BY DEF IndInv
<1> QED
    BY Invariance, <1>1, PTL

\* PushWait never accepts or rejects a message on its own account.
THEOREM ValidationFailsClosed == Spec => []FailClosed
<1>1. IndInv => FailClosed
    BY DEF IndInv
<1> QED
    BY Invariance, <1>1, PTL

\* The map of results never keeps a call that has returned.
THEOREM WaitersCleared == Spec => []NoDanglingWaiter
<1>1. IndInv => NoDanglingWaiter
    BY DEF IndInv
<1> QED
    BY Invariance, <1>1, PTL

\* A call whose id nobody shares can be found by its verdict while it waits.
THEOREM WaitersFound == Spec => []WaiterIsRegistered
<1>1. IndInv => WaiterIsRegistered
    BY DEF IndInv
<1> QED
    BY Invariance, <1>1, PTL

\* A message is with one verifier at most and gets at most one verdict.
THEOREM VerdictsAreSingle == Spec => []JudgedOnce
<1>1. IndInv => JudgedOnce
    BY OncePlaced DEF IndInv
<1> QED
    BY Invariance, <1>1, PTL
=============================================================================
