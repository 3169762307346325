---------------------------- MODULE RouterContract ----------------------------
(****************************************************************************)
(* What a MsgRouter promises its callers (the interface in core/router.go   *)
(* and core/interface.go), without queue, loops, slots or refreshes: a call *)
(* is refused or accepted; an accepted message is given to the handler at   *)
(* most once, and never to more than Workers handlers at a time; a call of  *)
(* HandleWait ends once, with the result the handler left for that very     *)
(* message or because its context expired first.                            *)
(****************************************************************************)
EXTENDS Integers, FiniteSets

CONSTANTS Msgs, Results, Zero, Workers

VARIABLES status, result, outcome, answer

vars == <<status, result, outcome, answer>>

Init == /\ status = [m \in Msgs |-> "new"]
        /\ result = [m \in Msgs |-> Zero]
        /\ outcome = [m \in Msgs |-> "none"]
        /\ answer = [m \in Msgs |-> Zero]

Refuse(m) == /\ status[m] = "new"
             /\ status' = [status EXCEPT ![m] = "refused"]
             /\ UNCHANGED <<result, outcome, answer>>

\* A call of Handle expects no answer, a call of HandleWait does.
Accept(m) == /\ status[m] = "new"
             /\ status' = [status EXCEPT ![m] = "accepted"]
             /\ \E o \in {"none", "pending"} : outcome' = [outcome EXCEPT ![m] = o]
             /\ UNCHANGED <<result, answer>>

Run(m) == /\ status[m] = "accepted"
          /\ Cardinality({n \in Msgs : status[n] = "running"}) < Workers
          /\ status' = [status EXCEPT ![m] = "running"]
          /\ UNCHANGED <<result, outcome, answer>>

Finish(m) == /\ status[m] = "running"
             /\ status' = [status EXCEPT ![m] = "handled"]
             /\ \E v \in Results \cup {Zero} : result' = [result EXCEPT ![m] = v]
             /\ UNCHANGED <<outcome, answer>>

Answer(m) == /\ status[m] = "handled" /\ outcome[m] = "pending"
             /\ outcome' = [outcome EXCEPT ![m] = "answered"]
             /\ answer' = [answer EXCEPT ![m] = result[m]]
             /\ UNCHANGED <<status, result>>

Expire(m) == /\ outcome[m] = "pending"
             /\ outcome' = [outcome EXCEPT ![m] = "expired"]
             /\ UNCHANGED <<status, result, answer>>

Next == \E m \in Msgs : \/ Refuse(m) \/ Accept(m) \/ Run(m)
                        \/ Finish(m) \/ Answer(m) \/ Expire(m)

Spec == Init /\ [][Next]_vars
=============================================================================
