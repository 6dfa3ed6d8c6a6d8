---------------------------- MODULE MCRangingToken ----------------------------
(* SequentialRanging with a master, a follower TAG and either two ANCHORs   *)
(* and one round, or one ANCHOR and two rounds.                            *)
EXTENDS MCSequentialRanging

VARIABLE scenario

MCScenarios == {[anchors |-> <<1, 2>>, rounds |-> 1],
                [anchors |-> <<1>>, rounds |-> 2]}
MCAnchorLists == {<<>>} \cup {s.anchors : s \in MCScenarios}

IsInScenario ==
    \A t \in Tags : ctl[t].st = "RunningRound" =>
        /\ ctl[t].route.anchors = scenario.anchors
        /\ ctl[t].round <= scenario.rounds

MCSpec ==
    /\ Init /\ scenario \in MCScenarios
    /\ [][UNCHANGED scenario /\ Next /\ IsInScenario']_<<vars, scenario>>
=============================================================================
