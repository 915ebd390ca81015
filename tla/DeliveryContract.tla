-------------------------- MODULE DeliveryContract --------------------------
(***************************************************************************)
(* What the download service promises the person who submitted an          *)
(* operation, told only in terms of what that person can see: the outcome  *)
(* reported for the operation and the number of artifacts that arrived in  *)
(* the chat.  DownloadService implements this specification.               *)
(***************************************************************************)
EXTENDS Naturals

CONSTANTS Op, MaxUnit

VARIABLES
    outcome,            \* what is reported for every operation
    arrived             \* how many artifacts of it the chat shows

Result == {"succeeded", "failed", "cancelled", "delivery_partial", "delivery_unknown"}

contractVars == <<outcome, arrived>>

Init ==
    /\ outcome = [o \in Op |-> "absent"]
    /\ arrived = [o \in Op |-> 0]

Submit(o) ==
    /\ outcome[o] = "absent"
    /\ outcome' = [outcome EXCEPT ![o] = "open"]
    /\ UNCHANGED arrived

\* Artifacts arrive while the operation is open, or later when its outcome says
\* that this may happen.
Arrive(o, n) ==
    /\ outcome[o] \in {"open", "delivery_unknown"}
    /\ arrived' = [arrived EXCEPT ![o] = @ + n]
    /\ UNCHANGED outcome

\* An open operation may be reported as `result`: the chat agrees with it.
Reportable(o, result) ==
    /\ outcome[o] = "open"
    /\ result \in Result
    /\ result \in {"failed", "cancelled"} => arrived[o] = 0
    /\ result \in {"succeeded", "delivery_partial"} => arrived[o] > 0

\* Outcomes are reported, for one operation or for several at once.
Report ==
    /\ outcome' \in [Op -> {"absent", "open"} \cup Result]
    /\ \A o \in Op : outcome'[o] # outcome[o] => Reportable(o, outcome'[o])
    /\ UNCHANGED arrived

Next ==
    \/ \E o \in Op : Submit(o) \/ \E n \in 1..MaxUnit : Arrive(o, n)
    \/ Report

Spec == Init /\ [][Next]_contractVars
=============================================================================
