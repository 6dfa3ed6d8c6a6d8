---------------------------- MODULE SendService ----------------------------
(***************************************************************************)
(* What EspNowTransport promises its callers about sending: accepted       *)
(* packets leave in the order in which they were accepted, and each of     *)
(* them has one outcome, which names the destination it was sent to.       *)
(***************************************************************************)
EXTENDS Sequences

CONSTANTS Destinations, NoOutcome

VARIABLES
    waiting,        \* destinations of the accepted packets without outcome
    outcome         \* the latest outcome

vars == <<waiting, outcome>>

Init == waiting = <<>> /\ outcome = NoOutcome

Accept(destination) ==
    /\ waiting' = Append(waiting, destination)
    /\ UNCHANGED outcome

Complete ==
    /\ waiting # <<>>
    /\ waiting' = Tail(waiting)
    /\ \E sent \in BOOLEAN :
          outcome' = [destination |-> Head(waiting), sent |-> sent]

Next == Complete \/ \E destination \in Destinations : Accept(destination)

Safety == Init /\ [][Next]_vars

(* Every accepted packet has its outcome.                                  *)
Liveness == WF_vars(Complete)
=============================================================================
