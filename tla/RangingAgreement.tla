--------------------------- MODULE RangingAgreement ---------------------------
(***************************************************************************)
(* Why the nodes of SequentialRanging agree on a round: the inductive      *)
(* invariants over everything that still says something of a round, in a   *)
(* controller, an outgoing queue, a receive queue or a published history.  *)
(***************************************************************************)
EXTENDS SequentialRanging

Elements(queue) == {queue[i] : i \in DOMAIN queue}
PacketsOf(n) == Elements(ctl[n].high) \cup Elements(ctl[n].low) \cup Elements(inbox[n])
InFlight == UNION {PacketsOf(n) : n \in Nodes}

(* A TAG follows a session only after its master has opened it, and only   *)
(* the master of a session runs its rounds.                                *)
SessionsAreOpened ==
    \A n \in Nodes :
        /\ view[n] # NoSession => view[n][2] <= epoch[view[n][1]]
        /\ ctl[n].st = "RunningRound" => IsMaster(n)

(* The round of a session, for a node that says something of it: the       *)
(* session has been opened and, while its master still is in it, the       *)
(* master has opened the round, or has closed it.                          *)
Opened(session, roundId) ==
    LET m == session[1]
    IN  /\ session[2] <= epoch[m]
        /\ view[m] = session => roundId <= ctl[m].round
Closed(session, roundId) ==
    LET m == session[1]
    IN  /\ Opened(session, roundId)
        /\ view[m] = session /\ ctl[m].st = "RunningRound"
           => roundId < ctl[m].round

(* Who names the route of a round: the controls on their way, and the      *)
(* nodes that work on it.                                                  *)
RouteClaim(session, roundId, route) ==
    [session |-> session, round |-> roundId, route |-> route]
RouteClaims ==
    {RouteClaim(p.session, p.round, p.route) :
        p \in {q \in InFlight : q.type = "RangeControl"}}
    \cup {RouteClaim(view[n], ctl[n].round, ctl[n].route) :
             n \in {m \in Nodes : InRound(m)}}
OneRoutePerRound ==
    \A c \in RouteClaims :
        /\ Opened(c.session, c.round)
        /\ \A d \in RouteClaims :
              c.session = d.session /\ c.round = d.round => c.route = d.route

(* Who names the result of a round: the master's summaries on their way,   *)
(* and the ones published.                                                 *)
FromMaster(packet) ==
    /\ packet.type \in {"RangeMeasurementForward", "RangeRoundComplete"}
    /\ packet.src = packet.session[1]
SummaryOf(packet) ==
    [session |-> packet.session, round |-> packet.round, size |-> packet.size,
     received |-> packet.received]
SummaryClaims ==
    {SummaryOf(p) : p \in {q \in InFlight : FromMaster(q) /\ q.type = "RangeRoundComplete"}}
    \cup {summary[t] : t \in Tags}
OneSummaryPerRound ==
    \A c \in SummaryClaims :
        /\ c.session # NoSession => Closed(c.session, c.round)
        /\ \A d \in SummaryClaims :
              c.session = d.session /\ c.round = d.round => c = d

(* Who names a pair of a round that its master has published: the forwards *)
(* on their way, and what the followers published.                         *)
PairClaims ==
    {[session |-> p.session, round |-> p.round, pair |-> <<p.anchor, p.tag>>] :
        p \in {q \in InFlight : FromMaster(q) /\ q.type = "RangeMeasurementForward"}}
    \cup UNION {{[session |-> published[t].key.session,
                  round |-> published[t].key.round, pair |-> pair] :
                    pair \in published[t].pairs} :
                  t \in {u \in Tags : published[u].key.session \in (Tags \ {u}) \X (1..MaxEpoch)}}
MasterPublishedFirst ==
    \A c \in PairClaims :
        LET m == c.session[1]
            key == [session |-> c.session, round |-> c.round]
        IN  /\ Opened(c.session, c.round)
            /\ view[m] = c.session /\ c.round = ctl[m].round
               => published[m].key = key
            /\ published[m].key = key => c.pair \in published[m].pairs

(* What a master sends of its rounds arrives in their order.               *)
NotBefore(p, q) ==
    FromMaster(p) /\ FromMaster(q) /\ p.session = q.session => p.round <= q.round
InOrder(queue) == \A i, j \in DOMAIN queue : i < j => NotBefore(queue[i], queue[j])
TrafficInOrder ==
    /\ \A n \in Nodes : InOrder(inbox[n]) /\ InOrder(ctl[n].low)
    /\ \A n, m \in Nodes :
          \A p \in Elements(inbox[n]), q \in Elements(ctl[m].low) : NotBefore(p, q)
    /\ \A n \in Nodes : \A p \in Elements(ctl[n].low) :
          FromMaster(p) => p.session[1] = n

(* What a TAG has published is not ahead of its master, nor of what may    *)
(* still reach it.                                                         *)
Histories(t) == {published[t].key, summary[t]}
Traffic(t) == Elements(inbox[t]) \cup UNION {Elements(ctl[m].low) : m \in Nodes}
Behind(history, p) ==
    FromMaster(p) /\ history.session = p.session => history.round <= p.round
HistoryBehindTraffic ==
    \A t \in Tags : \A h \in Histories(t) :
       h.session # NoSession =>
          /\ Opened(h.session, h.round)
          /\ h.session[1] # t => \A p \in Traffic(t) : Behind(h, p)
=============================================================================
