---------------------------- MODULE RangingForwards ----------------------------
(***************************************************************************)
(* Why no TAG of SequentialRanging publishes a pair of a round twice: the  *)
(* inductive invariants over what a master has received and what it has    *)
(* forwarded to its followers.                                             *)
(***************************************************************************)
EXTENDS RangingToken

(* A repeated packet does no harm unless the follower may come back to a   *)
(* session it has left: its memory of the session is then empty.           *)
RepeatsAreRemembered ==
    "duplicate" \in Faults => OneMaster /\ "masterLost" \notin Faults

(* An ANCHOR's result is for a place of the route it names by its size.    *)
WellIndexed(p) ==
    p.type = "RangeMeasurement" =>
        p.index[1] \in 1..p.size[1] /\ p.index[2] \in 1..p.size[2]
ResultsAreOfPlaces == \A p \in InFlight : WellIndexed(p)

(* A master has received what it has published of the round it runs.       *)
PairAt(route, index) == <<route.anchors[index[1]], route.tags[index[2]]>>
PublishedIsReceived ==
    \A m \in Tags :
        /\ ctl[m].st = "RunningRound"
        /\ published[m].key = [session |-> view[m], round |-> ctl[m].round]
        => \A pair \in published[m].pairs :
              \E index \in ctl[m].received \cap Pairs(ctl[m].route) :
                  pair = PairAt(ctl[m].route, index)

(* What a forward tells its TAG, and whether the TAG has published it.     *)
IsForward(p) == p.type = "RangeMeasurementForward" /\ FromMaster(p)
PairOf(p) == [session |-> p.session, round |-> p.round, pair |-> <<p.anchor, p.tag>>]
HasPublished(t, p) ==
    /\ published[t].key = [session |-> p.session, round |-> p.round]
    /\ <<p.anchor, p.tag>> \in published[t].pairs

(* A master forwards a pair once...                                        *)
SamePair(p, q) == IsForward(p) /\ IsForward(q) /\ PairOf(p) = PairOf(q)
ForwardsAreTwins == \A p, q \in InFlight : SamePair(p, q) => p = q
NoTwins(queue) == \A i, j \in DOMAIN queue : SamePair(queue[i], queue[j]) => i = j
QueuedOnce ==
    \A m \in Nodes :
        /\ NoTwins(ctl[m].low)
        /\ \A p \in Elements(ctl[m].low) : IsForward(p) =>
              /\ \A t \in Nodes : p \notin Elements(inbox[t])
              /\ \A t \in Tags \ {m} : ~HasPublished(t, p)

(* ... and a follower that has published it will not accept it again.      *)
WillRefuse(t, p) ==
    /\ view[t] # NoSession
    /\ \/ p.session[2] < view[t][2]
       \/ /\ view[t] = p.session
          /\ \/ p.round < ctl[t].round
             \/ p.round = ctl[t].round /\ p.index \in ctl[t].received
ForwardsAreNew ==
    \A t \in Tags :
        /\ "duplicate" \notin Faults => NoTwins(inbox[t])
        /\ \A p \in Elements(inbox[t]) :
              IsForward(p) /\ p.session[1] # t /\ HasPublished(t, p) =>
                 "duplicate" \in Faults /\ WillRefuse(t, p)

ForwardsInv == ForwardsAreTwins /\ QueuedOnce /\ ForwardsAreNew
=============================================================================
