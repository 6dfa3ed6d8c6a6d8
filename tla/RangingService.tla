--------------------------- MODULE RangingService ---------------------------
(***************************************************************************)
(* What the ranging driver promises the measurement task: one command at a *)
(* time; a command that was accepted has exactly one result, about the TAG *)
(* it was given and made of nothing but what the device said about this    *)
(* very command; and no further command before that result was taken.      *)
(***************************************************************************)
CONSTANTS Tags, NoTag, NoResult

VARIABLES active, result

vars == <<active, result>>

Statuses == {"Success", "Failed", "TimedOut"}
Result(tag, status) == [tag |-> tag, status |-> status, own |-> TRUE]

Init == active = NoTag /\ result = NoResult

Start(tag) ==
    /\ active = NoTag /\ result = NoResult
    /\ active' = tag
    /\ UNCHANGED result

FailToStart(tag) ==
    /\ active = NoTag /\ result = NoResult
    /\ result' = Result(tag, "Failed")
    /\ UNCHANGED active

Complete(status) ==
    /\ active # NoTag
    /\ active' = NoTag
    /\ result' = Result(active, status)

Take ==
    /\ result # NoResult
    /\ result' = NoResult
    /\ UNCHANGED active

Next ==
    \/ \E tag \in Tags : Start(tag) \/ FailToStart(tag)
    \/ \E status \in Statuses : Complete(status)
    \/ Take

Safety == Init /\ [][Next]_vars

(* A command does not stay without a result.                               *)
Liveness == WF_vars(\E status \in Statuses : Complete(status))

Spec == Safety /\ Liveness
=============================================================================
