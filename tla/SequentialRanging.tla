-------------------------- MODULE SequentialRanging --------------------------
(***************************************************************************)
(* The round protocol of SequentialRangingController: the master TAG opens *)
(* a round by sending RangeControl to the ANCHOR with the smallest id, each *)
(* ANCHOR ranges every TAG over UWB in ascending id order, reports every   *)
(* result to the master and hands the route to the next ANCHOR, and the    *)
(* last ANCHOR closes the round with RangeRoundComplete.                   *)
(*                                                                         *)
(* A node's controller object is the record ctl[n]; the operators that     *)
(* return a controller are the methods that only change that object.  An   *)
(* ESP-NOW packet goes from the outbound queues straight to the receive    *)
(* queue of its destination.  Other components appear by what this one     *)
(* reads of them: view (TagMasterCoordinator), synced                      *)
(* (NtpTimeSynchronizer::IsSynchronizationComplete) and uwb/result         *)
(* (Ryuw122Controller).                                                    *)
(***************************************************************************)
EXTENDS Integers, FiniteSets, SequencesExt

CONSTANTS
    Anchors,        \* node ids of the ANCHORs
    Tags,           \* node ids of the TAGs
    MasterTags,     \* the TAGs that may be elected master
    AnchorLists,    \* the ANCHOR lists a round snapshot may find
    TagLists,       \* the TAG lists a round snapshot may find
    NoSession,      \* "no master": MasterState.isValid is false
    NoResult,       \* Ryuw122Controller::m_hasResult is false
    MaxEpoch,       \* bound: sessions one TAG may open
    RoundBound,     \* bound: a master opens no round after this id
    SequenceModulus,\* width of packet sequence numbers (2^32 in the code)
    HighCapacity,   \* m_highPriorityQueueCapacity
    LowCapacity,    \* m_lowPriorityQueueCapacity
    InboxCapacity,  \* EspNowTransport ReceivedQueueLength
    Faults          \* which disturbances the environment may cause

Nodes == Anchors \cup Tags
Sessions == Tags \X (1..MaxEpoch)
AllFaults == {"loss", "duplicate", "deadline", "resync", "restart",
              "masterLost", "startFailure"}

ASSUME NodeAssumption ==
    /\ Anchors \subseteq Nat /\ Tags \subseteq Nat
    /\ IsFiniteSet(Anchors) /\ IsFiniteSet(Tags)
    /\ Anchors \cap Tags = {}
    /\ MasterTags \subseteq Tags
    /\ AnchorLists \subseteq Seq(Anchors)
    /\ TagLists \subseteq Seq(Tags) \ {<<>>}
    /\ \A list \in AnchorLists \cup TagLists :
          \A i, j \in DOMAIN list : i < j => list[i] < list[j]
    /\ NoSession \notin Sessions
ASSUME BoundAssumption ==
    /\ MaxEpoch \in Nat
    /\ RoundBound \in Nat
    /\ SequenceModulus \in Nat /\ SequenceModulus > 2
    /\ HighCapacity \in Nat \ {0}
    /\ LowCapacity \in Nat \ {0}
    /\ InboxCapacity \in Nat \ {0}
    /\ Faults \subseteq AllFaults

VARIABLES
    view,       \* [Nodes -> session]: m_master as of the last DetectMasterChange
    epoch,      \* [Tags -> number of sessions the TAG has opened]
    synced,     \* [Nodes -> BOOLEAN]: IsSynchronizationComplete()
    ctl,        \* [Nodes -> controller record]
    uwb,        \* [Nodes -> [phase, job]]: the RYUW122 driver's ranging state
    result,     \* [Nodes -> job]: the driver's completed, untaken result
    inbox,      \* [Nodes -> sequence of packets]: EspNowTransport receive queue
    published,  \* history: the measurements a TAG published for its current round
    summary     \* history: the last round summary a TAG published

vars == <<view, epoch, synced, ctl, uwb, result, inbox, published, summary>>

-----------------------------------------------------------------------------
(* A route lists node ids in ascending order; positions count from 1.      *)
Route == [anchors : Seq(Anchors), tags : Seq(Tags)]
NoRoute == [anchors |-> <<>>, tags |-> <<>>]
Size(route) == <<Len(route.anchors), Len(route.tags)>>
Pairs(route) == (1..Len(route.anchors)) \X (1..Len(route.tags))
PairCount(route) == Len(route.anchors) * Len(route.tags)

(* Packet sequence numbers wrap and skip zero.  Round ids, which would     *)
(* wrap after 2^32 rounds, are left unbounded.                             *)
SequenceAfter(sequence, count) ==
    IF count = 0 THEN sequence
    ELSE ((sequence + count - 1) % (SequenceModulus - 1)) + 1
IsNewerSequence(sequence, previous) ==
    \/ previous = 0
    \/ (sequence - previous) % SequenceModulus \in 1..(SequenceModulus \div 2 - 1)

Push(queue, capacity, packet) ==
    IF Len(queue) < capacity THEN Append(queue, packet) ELSE queue
PushAll(queue, capacity, packets) ==
    IF Len(queue) + Len(packets) <= capacity THEN queue \o packets
    ELSE queue \o SubSeq(packets, 1, capacity - Len(queue))

IsMaster(n) == view[n] # NoSession /\ view[n][1] = n
MasterOf(n) == view[n][1]

(* The operators named Buggy... are plausible mistakes in the definition   *)
(* that follows them.  Nothing uses them; they show which property would   *)
(* notice the mistake.                                                     *)

(* What a UWB ranging was started for.                                     *)
Job(n, roundId, tag) == [session |-> view[n], round |-> roundId, tag |-> tag]

-----------------------------------------------------------------------------
(* The controller object and its private methods.                          *)

ResetSessionState(state) ==
    [st |-> state, round |-> 0, route |-> NoRoute,
     anchorIndex |-> 1, tagIndex |-> 1,
     started |-> FALSE, received |-> {},
     lastSequence |-> [i \in 1..Cardinality(Anchors) |-> 0],
     lastControl |-> [round |-> 0, pair |-> 0, sequence |-> 0],
     lastComplete |-> [round |-> 0, sequence |-> 0],
     nextSequence |-> 0, high |-> <<>>, low |-> <<>>]

PairSequence(packet) == (packet.anchorIndex - 1) * Len(packet.route.tags) + 1

RangeControl(n, c, anchorIndex) ==
    [type |-> "RangeControl", src |-> n, dst |-> c.route.anchors[anchorIndex],
     session |-> view[n], sequence |-> SequenceAfter(c.nextSequence, 1),
     round |-> c.round, route |-> c.route, anchorIndex |-> anchorIndex]

QueueControl(n, c, anchorIndex) ==
    [c EXCEPT !.nextSequence = SequenceAfter(@, 1),
              !.high = Push(@, HighCapacity, RangeControl(n, c, anchorIndex))]

RangeMeasurement(n, c, tagIndex, sequence, job) ==
    [type |-> "RangeMeasurement", src |-> n, dst |-> MasterOf(n),
     session |-> view[n], sequence |-> sequence, round |-> c.round,
     size |-> Size(c.route), index |-> <<c.anchorIndex, tagIndex>>,
     anchor |-> c.route.anchors[c.anchorIndex],
     tag |-> c.route.tags[tagIndex], job |-> job]

RangeRoundComplete(n, c, dst, sequence, received) ==
    [type |-> "RangeRoundComplete", src |-> n, dst |-> dst,
     session |-> view[n], sequence |-> sequence, round |-> c.round,
     size |-> Size(c.route), received |-> received]

BuggyForwarded(n, c, measurement) ==    \* stamped with the round to come
    [measurement EXCEPT !.type = "RangeMeasurementForward",
                        !.src = n, !.dst = measurement.tag, !.round = @ + 1,
                        !.sequence = SequenceAfter(c.nextSequence, 1)]
Forwarded(n, c, measurement) ==
    [measurement EXCEPT !.type = "RangeMeasurementForward",
                        !.src = n, !.dst = measurement.tag,
                        !.sequence = SequenceAfter(c.nextSequence, 1)]
QueueMeasurementForward(n, c, measurement) ==
    [c EXCEPT !.nextSequence = SequenceAfter(@, 1),
              !.low = Push(@, LowCapacity, Forwarded(n, c, measurement))]

(* One summary per follower TAG of the round's snapshot, in id order.      *)
Followers(n, tags) ==
    IF Contains(tags, n)
    THEN RemoveAt(tags, CHOOSE i \in DOMAIN tags : tags[i] = n)
    ELSE tags
QueueRoundCompleteForFollowers(n, c) ==
    LET followers == Followers(n, c.route.tags)
        packets == [i \in 1..Len(followers) |->
                      RangeRoundComplete(n, c, followers[i],
                                         SequenceAfter(c.nextSequence, i),
                                         Cardinality(c.received))]
    IN  [c EXCEPT !.nextSequence = SequenceAfter(@, Len(followers)),
                  !.low = PushAll(@, LowCapacity, packets)]

(* The snapshot always holds the local master and may find any of the      *)
(* configured lists of unexpired, unique, synchronized nodes.              *)
RoundSnapshots(n) ==
    [anchors : AnchorLists, tags : {list \in TagLists : Contains(list, n)}]

StartMasterRound(n, c, snapshot) ==
    LET opened == [c EXCEPT !.route = snapshot,
                            !.anchorIndex = 1, !.tagIndex = 1,
                            !.round = @ + 1, !.received = {},
                            !.lastSequence = [i \in DOMAIN @ |-> 0]]
    IN  IF snapshot.anchors = <<>>
        THEN [c EXCEPT !.route = snapshot, !.st = "ReadyToStart"]
        ELSE [QueueControl(n, opened, 1) EXCEPT
                 !.st = IF Len(c.high) < HighCapacity
                        THEN "RunningRound" ELSE "ReadyToStart"]

(* Afterwards the master waits for a synchronization in progress, or opens *)
(* the next round in the same call.                                        *)
NextRoundControllers(n, c) ==
    IF ~synced[n]
    THEN {[c EXCEPT !.st = "WaitingForSynchronization"]}
    ELSE IF c.round >= RoundBound
    THEN {[c EXCEPT !.st = "ReadyToStart"]}
    ELSE {StartMasterRound(n, c, s) : s \in RoundSnapshots(n)}

BuggyPublishedSummary(n, c) ==  \* counts the planned measurements
    [session |-> view[n], round |-> c.round, size |-> Size(c.route),
     received |-> PairCount(c.route)]
PublishedSummary(n, c) ==
    [session |-> view[n], round |-> c.round, size |-> Size(c.route),
     received |-> Cardinality(c.received)]

CompleteMasterRound(n, c) ==
    /\ summary' = [summary EXCEPT ![n] = PublishedSummary(n, c)]
    /\ \E next \in NextRoundControllers(n, QueueRoundCompleteForFollowers(n, c)) :
          ctl' = [ctl EXCEPT ![n] = next]

(* PushMeasurement: the application takes every published measurement in   *)
(* the cycle that published it.                                            *)
PushMeasurement(n, packet) ==
    LET key == [session |-> packet.session, round |-> packet.round]
        p == published[n]
        same == p.key = key
    IN  published' = [published EXCEPT ![n] =
            [key |-> key,
             pairs |-> (IF same THEN p.pairs ELSE {})
                           \cup {<<packet.anchor, packet.tag>>},
             count |-> (IF same THEN p.count ELSE 0) + 1]]

-----------------------------------------------------------------------------
(* Received packets: Consume pops the head of the node's receive queue.    *)

Consume(n) == inbox' = [inbox EXCEPT ![n] = Tail(@)]
Ignore(n) == Consume(n) /\ UNCHANGED <<ctl, published, summary>>

(* The control comes from the master or from the preceding ANCHOR.         *)
ControlSource(packet) ==
    IF packet.anchorIndex = 1 THEN packet.session[1]
    ELSE packet.route.anchors[packet.anchorIndex - 1]

AddressesAnchor(n, packet) ==
    /\ n \in Anchors
    /\ view[n] # NoSession
    /\ packet.session = view[n]
    /\ packet.route.anchors[packet.anchorIndex] = n
    /\ packet.src = ControlSource(packet)

BuggyIsNewControl(c, packet) == packet.round >= c.lastControl.round
IsNewControl(c, packet) ==
    /\ packet.round >= c.lastControl.round
    /\ packet.round = c.lastControl.round =>
          /\ IsNewerSequence(packet.sequence, c.lastControl.sequence)
          /\ PairSequence(packet) > c.lastControl.pair

BuggyAcceptsControl(n, packet) ==   \* before the time base is committed
    AddressesAnchor(n, packet) /\ IsNewControl(ctl[n], packet)
AcceptsControl(n, packet) ==
    AddressesAnchor(n, packet) /\ synced[n] /\ IsNewControl(ctl[n], packet)

(* The ANCHOR takes the route over at its first tag; a ranging that is     *)
(* still running for an older control no longer counts as started.         *)
ControlTaken(c, packet) ==
    [c EXCEPT !.anchorIndex = packet.anchorIndex, !.tagIndex = 1,
              !.round = packet.round, !.st = "AnchorRanging",
              !.lastControl = [round |-> packet.round,
                               pair |-> PairSequence(packet),
                               sequence |-> packet.sequence]]
BuggyStarted(c, packet) ==      \* keeps m_anchorRangingStarted
    [ControlTaken(c, packet) EXCEPT !.route = packet.route]
BuggyWaiting(c, packet) ==      \* waits for a ranging nobody started
    [ControlTaken(c, packet) EXCEPT !.route = packet.route, !.started = TRUE]
BuggyRoute(c, packet) ==        \* keeps the lists of an earlier round
    [ControlTaken(c, packet) EXCEPT !.started = FALSE,
        !.route = IF @ = NoRoute THEN packet.route ELSE @]
TakeRoute(c, packet) ==
    [ControlTaken(c, packet) EXCEPT !.route = packet.route, !.started = FALSE]

HandleControl(n, packet) ==
    /\ packet.type = "RangeControl"
    /\ IF AcceptsControl(n, packet)
       THEN /\ ctl' = [ctl EXCEPT ![n] = TakeRoute(@, packet)]
            /\ Consume(n)
            /\ UNCHANGED <<published, summary>>
       ELSE Ignore(n)

(* A pair is new to a round once, and an ANCHOR's sequence numbers grow.   *)
BuggyIsFresh(c, packet) == TRUE
IsFresh(c, packet) ==
    /\ packet.index \notin c.received
    /\ IsNewerSequence(packet.sequence, c.lastSequence[packet.index[1]])

BuggyIsOfRound(c, packet) == packet.size = Size(c.route)
IsOfRound(c, packet) == packet.round = c.round /\ packet.size = Size(c.route)

AcceptsMeasurement(n, packet) ==
    LET c == ctl[n] IN
    /\ IsMaster(n)
    /\ c.st = "RunningRound"
    /\ packet.session = view[n]
    /\ IsOfRound(c, packet)
    /\ IsFresh(c, packet)
    /\ packet.src = packet.anchor
    /\ c.route.anchors[packet.index[1]] = packet.anchor
    /\ c.route.tags[packet.index[2]] = packet.tag

TakeMeasurement(c, packet) ==
    [c EXCEPT !.received = @ \cup {packet.index},
              !.lastSequence[packet.index[1]] = packet.sequence]

(* A measurement of another TAG is forwarded to it, unless its times could *)
(* not be converted because a resynchronization dropped the ANCHOR.        *)
ForwardedControllers(n, c, packet) ==
    (IF packet.tag # n THEN {QueueMeasurementForward(n, c, packet)} ELSE {c})
        \cup (IF "resync" \in Faults THEN {c} ELSE {})

HandleMeasurement(n, packet) ==
    /\ packet.type = "RangeMeasurement"
    /\ IF AcceptsMeasurement(n, packet)
       THEN /\ PushMeasurement(n, packet)
            /\ Consume(n)
            /\ \E next \in ForwardedControllers(n,
                              TakeMeasurement(ctl[n], packet), packet) :
                  IF next.received = Pairs(next.route)
                  THEN CompleteMasterRound(n, next)
                  ELSE /\ ctl' = [ctl EXCEPT ![n] = next]
                       /\ UNCHANGED summary
       ELSE Ignore(n)

(* A newer round first discards what the follower kept of the older one.   *)
AdoptForwardedRound(c, roundId) ==
    IF roundId > c.round
    THEN [c EXCEPT !.round = roundId, !.received = {},
                   !.lastSequence = [i \in DOMAIN @ |-> 0]]
    ELSE c

HandleMeasurementForward(n, packet) ==
    /\ packet.type = "RangeMeasurementForward"
    /\ IF /\ n \in Tags
          /\ view[n] # NoSession /\ ~IsMaster(n)
          /\ packet.session = view[n]
          /\ packet.src = MasterOf(n)
          /\ packet.tag = n
          /\ packet.round >= ctl[n].round
       THEN LET c == AdoptForwardedRound(ctl[n], packet.round)
            IN  /\ IF IsFresh(c, packet)
                   THEN /\ ctl' = [ctl EXCEPT ![n] = TakeMeasurement(c, packet)]
                        /\ PushMeasurement(n, packet)
                   ELSE /\ ctl' = [ctl EXCEPT ![n] = c]
                        /\ UNCHANGED published
                /\ Consume(n)
                /\ UNCHANGED summary
       ELSE Ignore(n)

AcceptsCompleteAsMaster(n, packet) ==
    LET c == ctl[n] IN
    /\ IsMaster(n)
    /\ packet.session = view[n]
    /\ c.st = "RunningRound"
    /\ packet.round = c.round
    /\ packet.size = Size(c.route)
    /\ packet.src = Last(c.route.anchors)

AcceptsCompleteAsFollower(n, packet) ==
    LET c == ctl[n] IN
    /\ n \in Tags
    /\ view[n] # NoSession /\ ~IsMaster(n)
    /\ packet.session = view[n]
    /\ packet.src = MasterOf(n)
    /\ packet.round >= c.round
    /\ packet.round > c.lastComplete.round
    /\ IsNewerSequence(packet.sequence, c.lastComplete.sequence)

FollowRoundComplete(n, packet) ==
    /\ ctl' = [ctl EXCEPT ![n] =
          [@ EXCEPT !.round = packet.round,
                    !.lastComplete = [round |-> packet.round,
                                      sequence |-> packet.sequence]]]
    /\ summary' = [summary EXCEPT ![n] =
          [session |-> packet.session, round |-> packet.round,
           size |-> packet.size, received |-> packet.received]]

HandleRoundComplete(n, packet) ==
    /\ packet.type = "RangeRoundComplete"
    /\ IF AcceptsCompleteAsMaster(n, packet)
       THEN CompleteMasterRound(n, ctl[n]) /\ Consume(n) /\ UNCHANGED published
       ELSE IF AcceptsCompleteAsFollower(n, packet)
       THEN FollowRoundComplete(n, packet) /\ Consume(n) /\ UNCHANGED published
       ELSE Ignore(n)

ProcessReceivedPackets(n) ==
    /\ inbox[n] # <<>>
    /\ LET packet == Head(inbox[n])
       IN  \/ HandleControl(n, packet)
           \/ HandleMeasurement(n, packet)
           \/ HandleMeasurementForward(n, packet)
           \/ HandleRoundComplete(n, packet)
    /\ UNCHANGED <<view, epoch, synced, uwb, result>>

-----------------------------------------------------------------------------
(* The master's periodic work.                                             *)

(* Between rounds: wait for synchronization, then try to open a round.     *)
TryStartRound(n) ==
    /\ IsMaster(n)
    /\ ctl[n].st # "RunningRound"
    /\ \E next \in NextRoundControllers(n, ctl[n]) :
          /\ next # ctl[n]
          /\ ctl' = [ctl EXCEPT ![n] = next]
    /\ UNCHANGED <<view, epoch, synced, uwb, result, inbox, published, summary>>

(* m_roundDeadlineUs passes: the round closes with what was received.      *)
BuggyDeadlinePassed(n) == "deadline" \in Faults /\ ctl[n].received = {}
DeadlinePassed(n) == "deadline" \in Faults

RoundDeadline(n) ==
    /\ DeadlinePassed(n)
    /\ IsMaster(n)
    /\ ctl[n].st = "RunningRound"
    /\ CompleteMasterRound(n, ctl[n])
    /\ UNCHANGED <<view, epoch, synced, uwb, result, inbox, published>>

-----------------------------------------------------------------------------
(* The ANCHOR's periodic work.                                             *)

(* The results of count tags from c.tagIndex on are queued for the master: *)
(* the first may come from a UWB ranging (job), the others are the Failed  *)
(* results of rangings that could not be started.  After the last tag the  *)
(* next ANCHOR's control goes to the high priority queue, or the last      *)
(* ANCHOR's completion behind the results.                                 *)
CompleteAnchorMeasurements(n, c, count, job) ==
    LET finished == c.tagIndex + count > Len(c.route.tags)
        handOver == finished /\ c.anchorIndex < Len(c.route.anchors)
        measurement(i) ==
            RangeMeasurement(n, c, c.tagIndex + i - 1,
                SequenceAfter(c.nextSequence,
                              IF handOver /\ i = count THEN i + 1 ELSE i),
                IF i = 1 THEN job
                ELSE Job(n, c.round, c.route.tags[c.tagIndex + i - 1]))
        complete == IF finished /\ ~handOver
                    THEN <<RangeRoundComplete(n, c, MasterOf(n),
                              SequenceAfter(c.nextSequence, count + 1),
                              PairCount(c.route))>>
                    ELSE <<>>
        afterControl == IF handOver
                        THEN QueueControl(n,
                               [c EXCEPT !.nextSequence =
                                   SequenceAfter(@, count - 1)],
                               c.anchorIndex + 1)
                        ELSE c
    IN  [c EXCEPT !.high = afterControl.high,
                  !.low = PushAll(@, LowCapacity,
                              [i \in 1..count |-> measurement(i)] \o complete),
                  !.nextSequence =
                      SequenceAfter(@, IF finished THEN count + 1 ELSE count),
                  !.started = FALSE,
                  !.st = IF finished THEN "AnchorIdle" ELSE @,
                  !.tagIndex = IF finished THEN @ + count - 1 ELSE @ + count]

(* Having queued count results, UpdateAnchor starts the UWB ranging of the *)
(* next tag unless the route is finished or the driver is busy.            *)
ProceedAlongRoute(n, c, count, job) ==
    LET next == IF count = 0 THEN c
                ELSE CompleteAnchorMeasurements(n, c, count, job)
    IN  IF next.st = "AnchorRanging" /\ uwb[n].phase = "Idle"
        THEN /\ ctl' = [ctl EXCEPT ![n] = [next EXCEPT !.started = TRUE]]
             /\ uwb' = [uwb EXCEPT ![n] =
                   [phase |-> "Waiting",
                    job |-> Job(n, next.round, next.route.tags[next.tagIndex])]]
        ELSE /\ ctl' = [ctl EXCEPT ![n] = next]
             /\ UNCHANGED uwb

(* How many tags UpdateAnchor may complete in one call: the one with a     *)
(* result, and any number of further ones whose ranging fails to start.    *)
CompletedCounts(n, c, least) ==
    IF "startFailure" \in Faults /\ uwb[n].phase = "Idle"
    THEN least..(Len(c.route.tags) - c.tagIndex + 1)
    ELSE {least}

UpdateAnchor(n) ==
    LET c == ctl[n] IN
    /\ \/ /\ c.st # "AnchorRanging" \/ (~c.started /\ uwb[n].phase # "Idle")
          /\ result[n] # NoResult
          /\ UNCHANGED <<ctl, uwb>>
       \/ /\ c.st = "AnchorRanging" /\ ~c.started
          /\ uwb[n].phase = "Idle"
          /\ \E count \in CompletedCounts(n, c, 0) :
                ProceedAlongRoute(n, c, count,
                                  Job(n, c.round, c.route.tags[c.tagIndex]))
       \/ /\ c.st = "AnchorRanging" /\ c.started
          /\ result[n] # NoResult
          /\ \E count \in CompletedCounts(n, c, 1) :
                ProceedAlongRoute(n, c, count, result[n])
    /\ result' = [result EXCEPT ![n] = NoResult]
    /\ UNCHANGED <<view, epoch, synced, inbox, published, summary>>

-----------------------------------------------------------------------------
(* Sending: one packet at a time, the high priority queue first.           *)

(* The radio delivers a packet to the receive queue of its destination,    *)
(* which drops it when full, or loses it, or delivers it twice.            *)
Deliveries(packet) ==
    {1} \cup (IF "loss" \in Faults THEN {0} ELSE {})
        \cup (IF "duplicate" \in Faults THEN {2} ELSE {})

Transmit(packet) ==
    \E copies \in Deliveries(packet) :
        inbox' = [inbox EXCEPT ![packet.dst] =
                     PushAll(@, InboxCapacity, [i \in 1..copies |-> packet])]

TrySendNextPacket(n) ==
    LET c == ctl[n] IN
    /\ \/ /\ c.high # <<>>
          /\ Transmit(Head(c.high))
          /\ ctl' = [ctl EXCEPT ![n].high = Tail(@)]
       \/ /\ c.high = <<>>
          /\ c.low # <<>>
          /\ Transmit(Head(c.low))
          /\ ctl' = [ctl EXCEPT ![n].low = Tail(@)]
    /\ UNCHANGED <<view, epoch, synced, uwb, result, published, summary>>

-----------------------------------------------------------------------------
(* What the other components do to the state this one reads.               *)

(* DetectMasterChange finds another master or session: everything kept for *)
(* the old one is discarded, and NtpTimeSynchronizer starts over.          *)
SessionState(n, session) ==
    IF session = NoSession THEN "WaitingForMaster"
    ELSE IF n \in Anchors THEN "AnchorIdle"
    ELSE IF session[1] = n THEN "WaitingForSynchronization"
    ELSE "FollowingMaster"

BuggyQueues(n, session) ==      \* keeps what is still to be sent
    [ResetSessionState(SessionState(n, session)) EXCEPT
        !.high = ctl[n].high, !.low = ctl[n].low]
SessionController(n, session) == ResetSessionState(SessionState(n, session))

DetectMasterChange(n, session) ==
    /\ session # view[n]
    /\ view' = [view EXCEPT ![n] = session]
    /\ synced' = [synced EXCEPT ![n] = FALSE]
    /\ ctl' = [ctl EXCEPT ![n] = SessionController(n, session)]
    /\ UNCHANGED <<uwb, result, inbox, published, summary>>

(* A TAG becomes master: TagMasterCoordinator draws a new session id.      *)
OpenSession(n) ==
    /\ n \in MasterTags
    /\ ~IsMaster(n)
    /\ epoch[n] < MaxEpoch
    /\ epoch' = [epoch EXCEPT ![n] = @ + 1]
    /\ DetectMasterChange(n, <<n, epoch[n] + 1>>)

(* A node follows a TAG that announced itself as master: its last          *)
(* announcement stays in the node tables after the TAG has stepped down,   *)
(* or has restarted, and goes on to name the session it was sent in.  A    *)
(* node that follows the TAG changes only to a later session of it.        *)
Announced(n) ==
    {s \in Sessions : /\ s[1] # n /\ s[2] <= epoch[s[1]]
                      /\ view[n] \notin {s[1]} \X (s[2]..MaxEpoch)}
FollowSession(n) ==
    /\ \E session \in Announced(n) : DetectMasterChange(n, session)
    /\ UNCHANGED epoch

(* A node's master expires from its table or has become ambiguous.         *)
LoseMaster(n) ==
    /\ "masterLost" \in Faults
    /\ DetectMasterChange(n, NoSession)
    /\ UNCHANGED epoch

(* NtpTimeSynchronizer: the master has served all targets, another node    *)
(* has received its commit.                                                *)
CompleteSynchronization(n) ==
    /\ view[n] # NoSession
    /\ ~synced[n]
    /\ synced' = [synced EXCEPT ![n] = TRUE]
    /\ UNCHANGED <<view, epoch, ctl, uwb, result, inbox, published, summary>>

(* The master's periodic resynchronization closes its own gate.            *)
StartResynchronization(n) ==
    /\ "resync" \in Faults
    /\ IsMaster(n)
    /\ synced[n]
    /\ synced' = [synced EXCEPT ![n] = FALSE]
    /\ UNCHANGED <<view, epoch, ctl, uwb, result, inbox, published, summary>>

(* Ryuw122Controller completes the ranging in progress; after a timeout it *)
(* stays busy while it drains a late response.                             *)
UwbComplete(n, phase) ==
    /\ uwb[n].phase = "Waiting"
    /\ uwb' = [uwb EXCEPT ![n].phase = phase]
    /\ result' = [result EXCEPT ![n] = uwb[n].job]
    /\ UNCHANGED <<view, epoch, synced, ctl, inbox, published, summary>>
UwbRespond(n) == UwbComplete(n, "Idle")
UwbTimeout(n) == UwbComplete(n, "Draining")

UwbDrained(n) ==
    /\ uwb[n].phase = "Draining"
    /\ uwb' = [uwb EXCEPT ![n].phase = "Idle"]
    /\ UNCHANGED <<view, epoch, synced, ctl, result, inbox, published, summary>>

(* Power cycle: the node's memory, receive queue and RYUW122 start over.   *)
Restart(n) ==
    /\ "restart" \in Faults
    /\ view' = [view EXCEPT ![n] = NoSession]
    /\ synced' = [synced EXCEPT ![n] = FALSE]
    /\ ctl' = [ctl EXCEPT ![n] = ResetSessionState("WaitingForMaster")]
    /\ uwb' = [uwb EXCEPT ![n] = [phase |-> "Idle", job |-> NoResult]]
    /\ result' = [result EXCEPT ![n] = NoResult]
    /\ inbox' = [inbox EXCEPT ![n] = <<>>]
    /\ UNCHANGED <<epoch, published, summary>>

-----------------------------------------------------------------------------
Init ==
    /\ view = [n \in Nodes |-> NoSession]
    /\ epoch = [t \in Tags |-> 0]
    /\ synced = [n \in Nodes |-> FALSE]
    /\ ctl = [n \in Nodes |-> ResetSessionState("WaitingForMaster")]
    /\ uwb = [n \in Nodes |-> [phase |-> "Idle", job |-> NoResult]]
    /\ result = [n \in Nodes |-> NoResult]
    /\ inbox = [n \in Nodes |-> <<>>]
    /\ published = [t \in Tags |-> [key |-> [session |-> NoSession, round |-> 0],
                                    pairs |-> {}, count |-> 0]]
    /\ summary = [t \in Tags |-> [session |-> NoSession, round |-> 0,
                                  size |-> <<0, 0>>, received |-> 0]]

(* One node's task cycle, as the steps it is made of.                      *)
Cycle(n) ==
    \/ ProcessReceivedPackets(n)
    \/ UpdateAnchor(n)
    \/ TryStartRound(n)
    \/ RoundDeadline(n)
    \/ TrySendNextPacket(n)

Uwb(n) == UwbRespond(n) \/ UwbTimeout(n) \/ UwbDrained(n)

Environment(n) ==
    \/ OpenSession(n)
    \/ FollowSession(n)
    \/ LoseMaster(n)
    \/ CompleteSynchronization(n)
    \/ StartResynchronization(n)
    \/ Restart(n)

Next == \E n \in Nodes : Cycle(n) \/ Uwb(n) \/ Environment(n)

Spec == Init /\ [][Next]_vars

(* Fairness: the measurement task keeps running every component of every   *)
(* node, the RYUW122 driver answers or times out and then drains, and time *)
(* passes, so a round that stays open meets its deadline.                  *)
Fairness ==
    \A n \in Nodes :
        /\ WF_vars(ProcessReceivedPackets(n))
        /\ WF_vars(UpdateAnchor(n))
        /\ WF_vars(TryStartRound(n))
        /\ WF_vars(RoundDeadline(n))
        /\ WF_vars(TrySendNextPacket(n))
        /\ WF_vars(UwbRespond(n) \/ UwbTimeout(n))
        /\ WF_vars(UwbDrained(n))

FairSpec == Spec /\ Fairness

-----------------------------------------------------------------------------
States == {"WaitingForMaster", "FollowingMaster", "WaitingForSynchronization",
           "ReadyToStart", "RunningRound", "AnchorIdle", "AnchorRanging"}
View == Sessions \cup {NoSession}
Jobs == [session : View, round : Nat, tag : Tags]
Counts == Nat \X Nat

ControlPackets ==
    {packet \in [type : {"RangeControl"}, src : Nodes, dst : Anchors,
                 session : Sessions, sequence : Nat, round : Nat,
                 route : Route, anchorIndex : Nat] :
        /\ packet.anchorIndex \in DOMAIN packet.route.anchors
        /\ packet.route.tags # <<>>}
MeasurementPackets ==
    [type : {"RangeMeasurement", "RangeMeasurementForward"}, src : Nodes,
     dst : Nodes, session : Sessions, sequence : Nat, round : Nat,
     size : Counts, index : Counts, anchor : Anchors, tag : Tags, job : Jobs]
CompletePackets ==
    [type : {"RangeRoundComplete"}, src : Nodes, dst : Nodes,
     session : Sessions, sequence : Nat, round : Nat, size : Counts,
     received : Nat]
Packets == ControlPackets \cup MeasurementPackets \cup CompletePackets

Controllers ==
    [st : States, round : Nat, route : Route, anchorIndex : Nat \ {0},
     tagIndex : Nat \ {0}, started : BOOLEAN, received : SUBSET Counts,
     lastSequence : [1..Cardinality(Anchors) -> Nat],
     lastControl : [round : Nat, pair : Nat, sequence : Nat],
     lastComplete : [round : Nat, sequence : Nat],
     nextSequence : Nat, high : Seq(ControlPackets), low : Seq(Packets)]

(* Type invariant of the whole protocol state.                             *)
TypeOK ==
    /\ view \in [Nodes -> View]
    /\ epoch \in [Tags -> 0..MaxEpoch]
    /\ synced \in [Nodes -> BOOLEAN]
    /\ ctl \in [Nodes -> Controllers]
    /\ uwb \in [Nodes -> [phase : {"Idle", "Waiting", "Draining"},
                          job : Jobs \cup {NoResult}]]
    /\ result \in [Nodes -> Jobs \cup {NoResult}]
    /\ inbox \in [Nodes -> Seq(Packets)]
    /\ published \in [Tags -> [key : [session : View, round : Nat],
                               pairs : SUBSET (Anchors \X Tags), count : Nat]]
    /\ summary \in [Tags -> [session : View, round : Nat, size : Counts,
                             received : Nat]]

(* A measurement that travels as a result of (session, round, tag) was     *)
(* ranged for exactly that session, round and tag: a UWB answer that an    *)
(* older control, round or session asked for is never sent under a newer   *)
(* one (UpdateAnchor discards it, HandleControl clears the started flag).  *)
IsMeasurement(packet) ==
    packet.type \in {"RangeMeasurement", "RangeMeasurementForward"}
FromItsRound(packet) ==
    IsMeasurement(packet) =>
        packet.job = [session |-> packet.session, round |-> packet.round,
                      tag |-> packet.tag]
AllFromTheirRound(queue) == \A i \in DOMAIN queue : FromItsRound(queue[i])
MeasurementsFromTheirRound ==
    \A n \in Nodes : AllFromTheirRound(ctl[n].low) /\ AllFromTheirRound(inbox[n])

(* Whatever a node still has to send belongs to the session it follows     *)
(* now: DetectMasterChange leaves no packet of the old session queued.     *)
QueuedForCurrentSession ==
    \A n \in Nodes :
        /\ \A i \in DOMAIN ctl[n].high : ctl[n].high[i].session = view[n]
        /\ \A i \in DOMAIN ctl[n].low : ctl[n].low[i].session = view[n]

(* After a change of master no ANCHOR starts a ranging, for the old or the *)
(* new session, before it is synchronized with the new master              *)
(* (docs/sequential-ranging-time-sync.md, section 14).                     *)
RangesOnlyWhenSynchronized ==
    [][\A a \in Anchors :
          uwb[a].phase # "Waiting" /\ uwb'[a].phase = "Waiting"
          => synced[a] /\ uwb'[a].job.session = view[a]]_vars

(* The inductive invariant behind the type invariant and                   *)
(* MeasurementsFromTheirRound: all packets in queues are honest...         *)
HonestPackets == {packet \in Packets : FromItsRound(packet)}
HonestControllers ==
    {c \in Controllers : c.low \in Seq(HonestPackets) /\ IsFiniteSet(c.received)}
PacketsAreHonest ==
    \A n \in Nodes :
        ctl[n] \in HonestControllers /\ inbox[n] \in Seq(HonestPackets)

(* ... an ANCHOR that ranges is synchronized with its session's master and *)
(* at a place of a route of that session...                                *)
MayRange(n) == n \in Anchors /\ view[n] \in Sessions /\ synced[n]
OnRoute(c) ==
    c.anchorIndex \in DOMAIN c.route.anchors /\ c.tagIndex \in DOMAIN c.route.tags
AnchorsAreOnRoute ==
    \A n \in Nodes :
        ctl[n].st = "AnchorRanging" => MayRange(n) /\ OnRoute(ctl[n])

(* ... and what it started, and so the result it waits for, is for there.  *)
CurrentJob(n) == Job(n, ctl[n].round, ctl[n].route.tags[ctl[n].tagIndex])
StartedIsCurrent ==
    \A n \in Nodes :
        ctl[n].st = "AnchorRanging" /\ ctl[n].started =>
            /\ uwb[n].phase = "Waiting" => uwb[n].job = CurrentJob(n)
            /\ result[n] # NoResult => result[n] = CurrentJob(n)

IInv == TypeOK /\ PacketsAreHonest /\ AnchorsAreOnRoute /\ StartedIsCurrent

(* The UWB channel is used by one ANCHOR at a time: the route is a token   *)
(* that HandleControl receives and CompleteAnchorMeasurement passes on.    *)
(* Holds as long as no round is closed by its deadline.                    *)
AtMostOneRanging ==
    \A a, b \in Anchors :
        uwb[a].phase = "Waiting" /\ uwb[b].phase = "Waiting" => a = b

(* Two nodes in the same round of a session work on the same route.        *)
InRound(n) == ctl[n].st \in {"RunningRound", "AnchorRanging"}
RouteAgreement ==
    \A m, n \in Nodes :
        /\ InRound(m) /\ InRound(n)
        /\ view[m] = view[n] /\ ctl[m].round = ctl[n].round
        => ctl[m].route = ctl[n].route

(* No TAG publishes the same pair twice in a round, whatever the radio     *)
(* duplicates.                                                             *)
PublishedOnce ==
    \A t \in Tags : published[t].count = Cardinality(published[t].pairs)

(* What a follower publishes for a round its master has published for the  *)
(* same round: HandleMeasurement publishes before it forwards.             *)
FollowersTrailMaster ==
    \A m, t \in Tags :
        /\ published[t].key = published[m].key
        /\ published[m].key.session \in {m} \X (1..MaxEpoch)
        => published[t].pairs \subseteq published[m].pairs

(* The master and its followers publish one and the same summary of a      *)
(* round, whatever else its completion messages lost or duplicated.        *)
SummariesAgree ==
    \A t, u \in Tags :
        /\ summary[t].session = summary[u].session
        /\ summary[t].round = summary[u].round
        => summary[t] = summary[u]

(* Within a session a TAG's published rounds never go back, and a new      *)
(* summary is for a newer round.                                           *)
RoundsAdvance ==
    [][\A t \in Tags :
          /\ published'[t].key.session = published[t].key.session
             => published'[t].key.round >= published[t].key.round
          /\ /\ summary'[t].session = summary[t].session
             /\ summary'[t] # summary[t]
             => summary'[t].round > summary[t].round]_vars

(* An ANCHOR never ranges a pair again: within a session each UWB ranging  *)
(* is for a later round, or a later TAG of the same round, than the one    *)
(* before.                                                                 *)
RangingAdvances ==
    [][\A a \in Anchors :
          LET old == uwb[a].job new == uwb'[a].job
          IN  /\ uwb[a].phase # "Waiting" /\ uwb'[a].phase = "Waiting"
              /\ old # NoResult /\ old.session = new.session
              => \/ new.round > old.round
                 \/ new.round = old.round /\ new.tag > old.tag]_vars

(* A master closes a round only with every measurement or at the deadline. *)
CompleteRoundsOnly ==
    [][\A t \in Tags :
          IsMaster(t) /\ summary'[t] # summary[t]
          => summary'[t].received = summary'[t].size[1] * summary'[t].size[2]]_vars

(* An open round is eventually closed.                                     *)
RoundTerminates ==
    \A t \in Tags, r \in 1..RoundBound :
        (ctl[t].st = "RunningRound" /\ ctl[t].round = r)
            ~> ~(ctl[t].st = "RunningRound" /\ ctl[t].round = r)

(* An ANCHOR that took a route over eventually ends it.                    *)
RouteTerminates ==
    \A a \in Anchors, r \in 1..RoundBound :
        (ctl[a].st = "AnchorRanging" /\ ctl[a].round = r)
            ~> ~(ctl[a].st = "AnchorRanging" /\ ctl[a].round = r)
=============================================================================
