----------------------------- MODULE RangingToken -----------------------------
(***************************************************************************)
(* Why at most one ANCHOR of SequentialRanging ranges, and none ranges a   *)
(* pair again: the inductive invariants over the controls that may still   *)
(* be taken, the ANCHORs that work on a route and the jobs of the drivers. *)
(***************************************************************************)
EXTENDS RangingAgreement

(* There is one session at most if only one TAG is ever elected master.    *)
(* Unless nodes start over, each enters it once, from no session.          *)
OneMaster == \A t, u \in MasterTags : t = u
OnlyMastersOpen == \A t \in Tags : epoch[t] > 0 => t \in MasterTags
OneSession ==
    /\ \A t \in Tags : epoch[t] > 0 => epoch[t] = 1 /\ view[t] = <<t, 1>>
    /\ \A n \in Nodes : view[n] = NoSession =>
          ~InRound(n) /\ ctl[n].lastControl = [round |-> 0, pair |-> 0, sequence |-> 0]

(* The driver ranges only for the place of the route its ANCHOR is at.     *)
OnlyHoldersRange ==
    \A a \in Anchors : uwb[a].phase = "Waiting" =>
        ctl[a].st = "AnchorRanging" /\ ctl[a].started /\ result[a] = NoResult

(* The right to range: a control that its ANCHOR may still take, or an     *)
(* ANCHOR on its route.  There is one.                                     *)
Taker(p) == p.route.anchors[p.anchorIndex]
IsNewerThan(p, last) ==
    p.round > last.round \/ (p.round = last.round /\ PairSequence(p) > last.pair)
NewControls ==
    {p \in InFlight : p.type = "RangeControl" /\ IsNewerThan(p, ctl[Taker(p)].lastControl)}
Holders == {a \in Anchors : ctl[a].st = "AnchorRanging"}
OneToken ==
    /\ \A p, q \in NewControls : p = q
    /\ \A a, b \in Holders : a = b
    /\ NewControls = {} \/ Holders = {}

(* It belongs to the round that the master runs...                         *)
RunsRound(roundId) ==
    \E m \in Tags : ctl[m].st = "RunningRound" /\ ctl[m].round = roundId
TokenIsOfRunningRound ==
    /\ \A p \in NewControls : RunsRound(p.round)
    /\ \A a \in Holders : RunsRound(ctl[a].round)

(* ... and is gone when the last ANCHOR has reported its last result.      *)
EndsRoute(p) ==
    \/ p.type = "RangeRoundComplete"
    \/ p.type = "RangeMeasurement" /\ p.index = p.size
IsEnded(m) ==
    \/ Size(ctl[m].route) \in ctl[m].received
    \/ \E p \in InFlight : EndsRoute(p) /\ p.round = ctl[m].round
EndedRouteHasNoToken ==
    /\ \A p \in InFlight : EndsRoute(p) => Opened(p.session, p.round)
    /\ \A m \in Tags : ctl[m].st = "RunningRound" /\ IsEnded(m) =>
          NewControls = {} /\ Holders = {}

TokenInv ==
    OneSession /\ OnlyHoldersRange /\ OneToken /\ TokenIsOfRunningRound
        /\ EndedRouteHasNoToken

-----------------------------------------------------------------------------
(* Every route anybody works on lists ids in ascending order.              *)
Snapshots == [anchors : AnchorLists, tags : TagLists]
RoutesAreSnapshots == \A c \in RouteClaims : c.route \in Snapshots

(* An ANCHOR remembers the last control it has taken, and its route.       *)
Remembers(a) ==
    LET c == ctl[a]
    IN  /\ view[a] # NoSession /\ Opened(view[a], c.round)
        /\ c.round = c.lastControl.round
        /\ c.anchorIndex \in DOMAIN c.route.anchors
        /\ c.route.anchors[c.anchorIndex] = a
        /\ c.lastControl.pair = (c.anchorIndex - 1) * Len(c.route.tags) + 1
        /\ c.route \in Snapshots
        /\ \A d \in RouteClaims :
              d.session = view[a] /\ d.round = c.round => d.route = c.route
AnchorsRemember ==
    \A a \in Anchors :
        /\ ctl[a].lastControl.pair > 0 => Remembers(a)
        /\ ctl[a].st = "AnchorRanging" => ctl[a].lastControl.pair > 0

(* The last job of its driver is behind it on that route, or in progress.  *)
Passed(c, tag) ==
    \E k \in DOMAIN c.route.tags :
        c.route.tags[k] = tag /\ (k < c.tagIndex \/ (k = c.tagIndex /\ c.started))
JobIsBehind(a) ==
    LET job == uwb[a].job c == ctl[a]
    IN  /\ view[a] # NoSession /\ job.session # NoSession
        /\ job.session[2] <= view[a][2]
        /\ job.session = view[a] =>
              /\ c.lastControl.pair > 0
              /\ job.round <= c.round
              /\ job.round = c.round /\ c.st = "AnchorRanging" => Passed(c, job.tag)
JobsAreInOrder ==
    \A a \in Anchors : uwb[a].job # NoResult => JobIsBehind(a)
=============================================================================
