---------------------------- MODULE MCTaskQueues ----------------------------
(* The queues between the tasks of one node, for TLC.  The send path, the   *)
(* receive queue and the way to the screen share no variable, so a          *)
(* behaviour of one says nothing about another: each behaviour here runs    *)
(* one of them and leaves the others as they began.                         *)
EXTENDS SendPath, ReceiveQueue, RangingDisplay

VARIABLE side

MCConsumers == <<"Broadcast", "Ntp", "Ranging">>

Sending(action) ==
    side = "send" /\ action /\ UNCHANGED <<side, receiveVars, displayVars>>
Receiving(action) ==
    side = "receive" /\ action /\ UNCHANGED <<side, vars, displayVars>>
Displaying(action) ==
    side = "display" /\ action /\ UNCHANGED <<side, vars, receiveVars>>

allVars == <<side, vars, receiveVars, displayVars>>

MCInit ==
    /\ side \in {"send", "receive", "display"}
    /\ Init /\ ReceiveInit /\ DisplayInit

MCNext == Sending(Next) \/ Receiving(ReceiveNext) \/ Displaying(DisplayNext)

(* The fairness of SendPath, of ReceiveQueue and of RangingDisplay.         *)
MCFairness ==
    /\ SF_allVars(Sending(Update))
    /\ WF_allVars(\/ Sending(TaskStep) \/ Receiving(MeasurementTask)
                  \/ Displaying(UpdateRangingCycle))
    /\ WF_allVars(\/ Sending(OnSend \/ LoseCallback)
                  \/ Displaying(\E pressed \in BOOLEAN : RunDisplayTask(pressed)))

MCSpec == MCInit /\ [][MCNext]_allVars /\ MCFairness

(* ScreenCatchesUp, in the behaviours in which the display task runs.       *)
DisplayCatchesUp == side = "display" => ScreenCatchesUp
=============================================================================
