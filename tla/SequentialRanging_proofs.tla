----------------------- MODULE SequentialRanging_proofs -----------------------
(***************************************************************************)
(* Proofs about SequentialRanging for every set of nodes, every bound and  *)
(* every combination of faults.                                            *)
(***************************************************************************)
EXTENDS RangingForwards, FiniteSetTheorems, SequenceTheorems, TLAPS

-----------------------------------------------------------------------------
(* Helpers on sequences and numbers.                                       *)

(* A function on 1..n with values in S is a sequence over S.               *)
LEMMA FunctionIsSeq ==
    ASSUME NEW S, NEW n \in Nat, NEW f \in [1..n -> S]
    PROVE  f \in Seq(S) /\ Len(f) = n
BY SeqDef

(* Pushing elements of S onto a queue over S gives a queue over S.         *)
LEMMA PushType ==
    ASSUME NEW S, NEW queue \in Seq(S), NEW packet \in S, NEW capacity
    PROVE  Push(queue, capacity, packet) \in Seq(S)
BY DEF Push

(* PushAll keeps a queue a sequence of packets, however many it drops.     *)
LEMMA PushAllType ==
    ASSUME NEW S, NEW queue \in Seq(S), NEW packets \in Seq(S),
           NEW capacity \in Nat
    PROVE  PushAll(queue, capacity, packets) \in Seq(S)
<1>1. CASE Len(queue) + Len(packets) <= capacity
  BY <1>1, ConcatProperties DEF PushAll
<1>2. CASE ~(Len(queue) + Len(packets) <= capacity)
  <2>1. /\ capacity - Len(queue) \in Int
        /\ \A i \in 1..(capacity - Len(queue)) : packets[i] \in S
    BY <1>2
  <2>2. SubSeq(packets, 1, capacity - Len(queue)) \in Seq(S)
    BY <2>1, SubSeqProperties
  <2> QED BY <1>2, <2>2, ConcatProperties DEF PushAll
<1> QED BY <1>1, <1>2

(* A packet sequence number is a natural number.                           *)
LEMMA SequenceAfterType ==
    ASSUME NEW sequence \in Nat, NEW count \in Nat
    PROVE  SequenceAfter(sequence, count) \in Nat
<1>1. SequenceModulus - 1 \in Nat \ {0}
  BY BoundAssumption
<1>2. \A k \in Nat, m \in Nat \ {0} : k % m \in Nat
  OBVIOUS
<1>3. CASE count = 0
  BY <1>3 DEF SequenceAfter
<1>4. CASE count # 0
  <2>1. sequence + count - 1 \in Nat
    BY <1>4
  <2>2. (sequence + count - 1) % (SequenceModulus - 1) \in Nat
    BY <1>1, <1>2, <2>1, Zenon
  <2>3. SequenceAfter(sequence, count) =
           ((sequence + count - 1) % (SequenceModulus - 1)) + 1
    BY <1>4 DEF SequenceAfter
  <2> QED BY <2>2, <2>3
<1> QED BY <1>3, <1>4

(* The products the code forms from list positions are natural numbers.    *)
LEMMA ProductType == \A i, j \in Nat : i * j \in Nat
OBVIOUS

-----------------------------------------------------------------------------
(* What a step adds to a queue.                                            *)
Extends(queue, S, longer) == \E more \in Seq(S) : longer = queue \o more

(* Every queue extends itself.                                             *)
LEMMA ExtendsReflexive ==
    ASSUME NEW T, NEW queue \in Seq(T), NEW S
    PROVE  Extends(queue, S, queue)
<1>1. <<>> \in Seq(S) /\ queue \o <<>> = queue
  BY EmptySeq, ConcatEmptySeq
<1> QED BY <1>1 DEF Extends

(* Push adds its packet, or nothing.                                       *)
LEMMA PushExtends ==
    ASSUME NEW T, NEW queue \in Seq(T), NEW S, NEW packet \in S, NEW capacity
    PROVE  Extends(queue, S, Push(queue, capacity, packet))
<1>1. CASE Len(queue) < capacity
  <2>1. <<packet>> \in Seq(S) /\ queue \o <<packet>> = Append(queue, packet)
    BY AppendIsConcat
  <2> QED BY <1>1, <2>1 DEF Push, Extends
<1>2. CASE ~(Len(queue) < capacity)
  BY <1>2, ExtendsReflexive DEF Push
<1> QED BY <1>1, <1>2

(* PushAll adds its packets, or the first of them.                         *)
LEMMA PushAllExtends ==
    ASSUME NEW T, NEW queue \in Seq(T), NEW S, NEW packets \in Seq(S),
           NEW capacity \in Nat
    PROVE  Extends(queue, S, PushAll(queue, capacity, packets))
<1>1. CASE Len(queue) + Len(packets) <= capacity
  BY <1>1 DEF PushAll, Extends
<1>2. CASE ~(Len(queue) + Len(packets) <= capacity)
  <2>1. /\ capacity - Len(queue) \in Int
        /\ \A i \in 1..(capacity - Len(queue)) : packets[i] \in S
    BY <1>2
  <2>2. SubSeq(packets, 1, capacity - Len(queue)) \in Seq(S)
    BY <2>1, SubSeqProperties
  <2> QED BY <1>2, <2>2 DEF PushAll, Extends
<1> QED BY <1>1, <1>2

(* Extending twice.                                                        *)
LEMMA ExtendsTransitive ==
    ASSUME NEW T, NEW queue \in Seq(T), NEW S, NEW longer, NEW longest,
           Extends(queue, S, longer), Extends(longer, S, longest)
    PROVE  Extends(queue, S, longest)
<1>1. PICK a \in Seq(S) : longer = queue \o a
  BY DEF Extends
<1>2. PICK b \in Seq(S) : longest = longer \o b
  BY DEF Extends
<1>3. a \o b \in Seq(S)
  BY ConcatProperties
<1>4. longest = queue \o (a \o b)
  <2>1. queue \in Seq(T \cup S) /\ a \in Seq(T \cup S) /\ b \in Seq(T \cup S)
    BY SeqMonotonic
  <2> QED BY <1>1, <1>2, <2>1, ConcatAssociative
<1> QED BY <1>3, <1>4 DEF Extends

(* What may be added to a queue may be added among more.                   *)
LEMMA ExtendsMonotone ==
    ASSUME NEW queue, NEW S, NEW U, NEW longer, Extends(queue, S, longer),
           S \subseteq U
    PROVE  Extends(queue, U, longer)
BY SeqMonotonic DEF Extends

(* A queue that is extended by its own kind of packets keeps its type.     *)
LEMMA ExtendsType ==
    ASSUME NEW T, NEW queue \in Seq(T), NEW S, NEW longer,
           Extends(queue, S, longer), S \subseteq T
    PROVE  longer \in Seq(T)
<1>1. PICK more \in Seq(S) : longer = queue \o more
  BY DEF Extends
<1>2. more \in Seq(T)
  BY SeqMonotonic
<1> QED BY <1>1, <1>2, ConcatProperties

(* The elements of a longer queue.                                         *)
LEMMA ExtendsElements ==
    ASSUME NEW T, NEW queue \in Seq(T), NEW S, NEW longer,
           Extends(queue, S, longer)
    PROVE  Elements(longer) \subseteq Elements(queue) \cup S
<1>1. PICK more \in Seq(S) : longer = queue \o more
  BY DEF Extends
<1>2. /\ DOMAIN longer = 1..(Len(queue) + Len(more))
      /\ Len(queue) \in Nat /\ Len(more) \in Nat
      /\ \A i \in 1..Len(queue) : longer[i] = queue[i]
      /\ \A i \in 1..Len(more) : more[i] \in S
      /\ DOMAIN queue = 1..Len(queue)
  BY <1>1
<1>3. ASSUME NEW i \in DOMAIN longer PROVE longer[i] \in Elements(queue) \cup S
  <2>1. CASE i <= Len(queue)
    BY <1>2, <2>1 DEF Elements
  <2>2. CASE i > Len(queue)
    <3>1. i - Len(queue) \in 1..Len(more) /\ longer[i] = more[i - Len(queue)]
      BY <1>1, <1>2, <2>2
    <3> QED BY <1>2, <3>1
  <2> QED BY <1>2, <2>1, <2>2
<1> QED BY <1>3 DEF Elements

(* The elements of what remains of a queue, and of the packet taken off.   *)
LEMMA TailElements ==
    ASSUME NEW T, NEW queue \in Seq(T), queue # <<>>
    PROVE  /\ Elements(Tail(queue)) \subseteq Elements(queue)
           /\ Head(queue) \in Elements(queue)
<1>1. /\ Len(queue) \in Nat /\ Len(queue) >= 1
      /\ DOMAIN queue = 1..Len(queue)
      /\ DOMAIN Tail(queue) = 1..(Len(queue) - 1)
      /\ \A i \in 1..(Len(queue) - 1) : Tail(queue)[i] = queue[i + 1]
      /\ Head(queue) = queue[1]
  BY HeadTailProperties, EmptySeq
<1>2. \A i \in 1..(Len(queue) - 1) : i + 1 \in 1..Len(queue)
  BY <1>1
<1>3. 1 \in 1..Len(queue)
  BY <1>1
<1> QED BY <1>1, <1>2, <1>3 DEF Elements

-----------------------------------------------------------------------------
(* The types of the packets a node builds.                                 *)

(* Control packets are measurement packets of no round: they are honest.   *)
LEMMA HonestTypes ==
    /\ ControlPackets \subseteq HonestPackets
    /\ CompletePackets \subseteq HonestPackets
    /\ \A packet \in MeasurementPackets :
          packet.job = [session |-> packet.session, round |-> packet.round,
                        tag |-> packet.tag]
          => packet \in HonestPackets
<1>1. /\ \A packet \in ControlPackets : packet.type = "RangeControl"
      /\ \A packet \in CompletePackets : packet.type = "RangeRoundComplete"
  BY DEF ControlPackets, CompletePackets
<1>2. \A packet \in ControlPackets \cup CompletePackets : FromItsRound(packet)
  BY <1>1 DEF FromItsRound, IsMeasurement
<1> QED BY <1>2 DEF HonestPackets, Packets, FromItsRound

(* Telling the packet types apart by their type field.                     *)
LEMMA PacketKinds ==
    ASSUME NEW packet \in HonestPackets
    PROVE  /\ packet.type = "RangeControl" => packet \in ControlPackets
           /\ packet.type \in {"RangeMeasurement", "RangeMeasurementForward"}
              => packet \in MeasurementPackets
           /\ packet.type = "RangeRoundComplete" => packet \in CompletePackets
BY DEF HonestPackets, Packets, ControlPackets, MeasurementPackets,
       CompletePackets

(* The honest packets of one session, and a controller that queues no      *)
(* other: what QueuedForCurrentSession says of one node.                   *)
OwnPackets(session) == {packet \in HonestPackets : packet.session = session}
QueuesOwn(session, c) ==
    c.high \in Seq(OwnPackets(session)) /\ c.low \in Seq(OwnPackets(session))

(* The packets a step may queue.                                           *)
RouteControls(session, roundId, route) ==
    {p \in ControlPackets : RouteClaim(p.session, p.round, p.route) =
                               RouteClaim(session, roundId, route)}
Reports(session) ==
    {p \in OwnPackets(session) :
        p.type # "RangeControl" /\ ~FromMaster(p) /\ WellIndexed(p)}
RouteReports(session, roundId) == {p \in Reports(session) : p.round = roundId}
RouteResults(session, roundId) ==
    {p \in RouteReports(session, roundId) : ~EndsRoute(p)}
MasterForwards(key, history) ==
    {p \in HonestPackets :
        /\ p.type = "RangeMeasurementForward" /\ FromMaster(p)
        /\ history.key = key
        /\ p.session = key.session /\ p.round = key.round
        /\ <<p.anchor, p.tag>> \in history.pairs}
MasterSummaries(value) ==
    {p \in HonestPackets :
        p.type = "RangeRoundComplete" /\ FromMaster(p) /\ SummaryOf(p) = value}

(* A session names its master, a TAG.                                      *)
LEMMA SessionType ==
    ASSUME NEW session \in Sessions
    PROVE  session[1] \in Tags /\ session[1] \in Nodes /\ session # NoSession
BY NodeAssumption DEF Sessions, Nodes

(* What a UWB ranging is started for is a job.                             *)
LEMMA JobType ==
    ASSUME NEW n \in Nodes, view[n] \in View, NEW roundId \in Nat,
           NEW tag \in Tags
    PROVE  Job(n, roundId, tag) \in Jobs
BY DEF Job, Jobs

(* QueueControl builds a well-formed control for a place on the route.     *)
LEMMA RangeControlType ==
    ASSUME NEW n \in Nodes, view[n] \in Sessions, NEW c \in Controllers,
           NEW i \in DOMAIN c.route.anchors, c.route.tags # <<>>
    PROVE  /\ RangeControl(n, c, i) \in ControlPackets
           /\ RangeControl(n, c, i) \in OwnPackets(view[n])
<1>1. /\ c.nextSequence \in Nat /\ c.round \in Nat /\ c.route \in Route
      /\ c.route.anchors \in Seq(Anchors)
  BY DEF Controllers, Route
<1>2. i \in Nat /\ c.route.anchors[i] \in Anchors
  BY <1>1
<1>3. SequenceAfter(c.nextSequence, 1) \in Nat
  BY <1>1, SequenceAfterType
<1>4. RangeControl(n, c, i) \in ControlPackets
  BY <1>1, <1>2, <1>3 DEF RangeControl, ControlPackets
<1>5. RangeControl(n, c, i).session = view[n]
  BY DEF RangeControl
<1> QED BY <1>4, <1>5, HonestTypes DEF OwnPackets

(* A measurement built from the job of its place is honest.                *)
LEMMA RangeMeasurementType ==
    ASSUME NEW n \in Nodes, view[n] \in Sessions, NEW c \in Controllers,
           c.anchorIndex \in DOMAIN c.route.anchors,
           NEW i \in DOMAIN c.route.tags, NEW sequence \in Nat, NEW job,
           job = Job(n, c.round, c.route.tags[i])
    PROVE  RangeMeasurement(n, c, i, sequence, job) \in OwnPackets(view[n])
<1>1. /\ c.round \in Nat
      /\ c.route.anchors \in Seq(Anchors) /\ c.route.tags \in Seq(Tags)
  BY DEF Controllers, Route
<1>2. /\ i \in Nat /\ c.route.tags[i] \in Tags
      /\ c.anchorIndex \in Nat /\ c.route.anchors[c.anchorIndex] \in Anchors
      /\ Size(c.route) \in Counts
  BY <1>1 DEF Size, Counts
<1>3. MasterOf(n) \in Nodes
  BY SessionType DEF MasterOf
<1>4. job \in Jobs
  BY <1>1, <1>2, JobType DEF View
<1>5. RangeMeasurement(n, c, i, sequence, job) \in MeasurementPackets
  BY <1>1, <1>2, <1>3, <1>4 DEF RangeMeasurement, MeasurementPackets, Counts
<1>6. RangeMeasurement(n, c, i, sequence, job) \in HonestPackets
  BY <1>5, HonestTypes DEF RangeMeasurement, Job
<1>7. RangeMeasurement(n, c, i, sequence, job).session = view[n]
  BY DEF RangeMeasurement
<1> QED BY <1>6, <1>7 DEF OwnPackets

(* RangeRoundComplete is well formed and carries no measurement.           *)
LEMMA RangeRoundCompleteType ==
    ASSUME NEW n \in Nodes, view[n] \in Sessions, NEW c \in Controllers,
           NEW dst \in Nodes, NEW sequence \in Nat, NEW received \in Nat
    PROVE  RangeRoundComplete(n, c, dst, sequence, received)
              \in OwnPackets(view[n])
<1>1. c.round \in Nat /\ Size(c.route) \in Counts
  BY DEF Controllers, Route, Size, Counts
<1>2. RangeRoundComplete(n, c, dst, sequence, received) \in HonestPackets
  BY <1>1, HonestTypes DEF RangeRoundComplete, CompletePackets
<1>3. RangeRoundComplete(n, c, dst, sequence, received).session = view[n]
  BY DEF RangeRoundComplete
<1> QED BY <1>2, <1>3 DEF OwnPackets

-----------------------------------------------------------------------------
(* The controllers that the private methods return.                        *)

(* ResetSessionState leaves a well-formed controller, in any state.        *)
LEMMA ResetType ==
    ASSUME NEW state \in States
    PROVE  /\ ResetSessionState(state) \in HonestControllers
           /\ \A session : QueuesOwn(session, ResetSessionState(state))
<1>1. NoRoute \in Route
  BY DEF NoRoute, Route
<1>2. Cardinality(Anchors) \in Nat
  BY NodeAssumption, FS_CardinalityType
<1>3. IsFiniteSet({})
  BY FS_EmptySet
<1>4. /\ <<>> \in Seq(ControlPackets) /\ <<>> \in Seq(Packets)
      /\ <<>> \in Seq(HonestPackets)
  BY EmptySeq
<1>5. [i \in 1..Cardinality(Anchors) |-> 0] \in [1..Cardinality(Anchors) -> Nat]
  OBVIOUS
<1>6. {} \in SUBSET Counts
  OBVIOUS
<1>7. ResetSessionState(state) \in Controllers
  BY <1>1, <1>4, <1>5, <1>6 DEF ResetSessionState, Controllers
<1>8. ResetSessionState(state) \in HonestControllers
  BY <1>3, <1>4, <1>7 DEF ResetSessionState, HonestControllers
<1>9. \A session : QueuesOwn(session, ResetSessionState(state))
  BY EmptySeq DEF ResetSessionState, QueuesOwn
<1> QED BY <1>8, <1>9

(* Queueing a control keeps the controller well formed and in place.       *)
LEMMA QueueControlType ==
    ASSUME NEW n \in Nodes, view[n] \in Sessions, NEW c \in HonestControllers,
           NEW i \in DOMAIN c.route.anchors, c.route.tags # <<>>
    PROVE  /\ QueueControl(n, c, i) \in HonestControllers
           /\ QueuesOwn(view[n], c) => QueuesOwn(view[n], QueueControl(n, c, i))
<1>1. c \in Controllers /\ c.low \in Seq(HonestPackets)
      /\ IsFiniteSet(c.received) /\ c.high \in Seq(ControlPackets)
      /\ c.nextSequence \in Nat
  BY DEF HonestControllers, Controllers
<1>2. SequenceAfter(c.nextSequence, 1) \in Nat
  BY <1>1, SequenceAfterType
<1>3. Push(c.high, HighCapacity, RangeControl(n, c, i)) \in Seq(ControlPackets)
  BY <1>1, RangeControlType, PushType
<1>4. QueueControl(n, c, i) \in HonestControllers
  BY <1>1, <1>2, <1>3 DEF QueueControl, HonestControllers, Controllers
<1>5. /\ QueueControl(n, c, i).high = Push(c.high, HighCapacity, RangeControl(n, c, i))
      /\ QueueControl(n, c, i).low = c.low
  BY <1>1 DEF QueueControl, Controllers
<1>6. ASSUME QueuesOwn(view[n], c) PROVE QueuesOwn(view[n], QueueControl(n, c, i))
  BY <1>1, <1>5, <1>6, RangeControlType, PushType DEF QueuesOwn
<1> QED BY <1>4, <1>6

(* Forwarding an honest measurement keeps it honest.                       *)
LEMMA QueueMeasurementForwardType ==
    ASSUME NEW n \in Nodes, NEW c \in HonestControllers,
           NEW measurement \in MeasurementPackets,
           measurement \in HonestPackets
    PROVE  /\ QueueMeasurementForward(n, c, measurement) \in HonestControllers
           /\ QueueMeasurementForward(n, c, measurement).st = c.st
           /\ QueuesOwn(measurement.session, c)
              => QueuesOwn(measurement.session,
                           QueueMeasurementForward(n, c, measurement))
<1> DEFINE forward == Forwarded(n, c, measurement)
<1>1. c \in Controllers /\ c.low \in Seq(HonestPackets)
      /\ IsFiniteSet(c.received) /\ c.nextSequence \in Nat
      /\ c.low \in Seq(Packets)
  BY DEF HonestControllers, Controllers
<1>2. SequenceAfter(c.nextSequence, 1) \in Nat
  BY <1>1, SequenceAfterType
<1>3. measurement.tag \in Nodes
  BY DEF MeasurementPackets, Nodes
<1>4. /\ forward \in MeasurementPackets
      /\ forward.job = measurement.job /\ forward.session = measurement.session
      /\ forward.round = measurement.round /\ forward.tag = measurement.tag
  BY <1>2, <1>3 DEF MeasurementPackets, Forwarded
<1>5. measurement.job = [session |-> measurement.session,
                         round |-> measurement.round, tag |-> measurement.tag]
  BY DEF HonestPackets, FromItsRound, IsMeasurement, MeasurementPackets
<1>6. forward \in HonestPackets
  BY <1>4, <1>5, HonestTypes
<1>7. Push(c.low, LowCapacity, forward) \in Seq(HonestPackets)
  BY <1>1, <1>6, PushType
<1>8. Push(c.low, LowCapacity, forward) \in Seq(Packets)
  BY <1>7, SeqMonotonic DEF HonestPackets
<1> HIDE DEF forward
<1>9. QueueMeasurementForward(n, c, measurement) =
         [c EXCEPT !.nextSequence = SequenceAfter(@, 1),
                   !.low = Push(@, LowCapacity, forward)]
  BY DEF QueueMeasurementForward, forward
<1>10. /\ QueueMeasurementForward(n, c, measurement).high = c.high
       /\ QueueMeasurementForward(n, c, measurement).low =
             Push(c.low, LowCapacity, forward)
  BY <1>1, <1>9 DEF Controllers
<1>11. ASSUME QueuesOwn(measurement.session, c)
       PROVE  QueuesOwn(measurement.session,
                        QueueMeasurementForward(n, c, measurement))
  <2>1. forward \in OwnPackets(measurement.session)
    BY <1>4, <1>6 DEF OwnPackets
  <2> QED BY <1>10, <1>11, <2>1, PushType DEF QueuesOwn
<1> QED BY <1>1, <1>2, <1>7, <1>8, <1>9, <1>11 DEF HonestControllers, Controllers

(* The followers of a round are TAGs of its snapshot.                      *)
LEMMA FollowersType ==
    ASSUME NEW n, NEW tags \in Seq(Tags)
    PROVE  Followers(n, tags) \in Seq(Tags)
<1>1. CASE Contains(tags, n)
  <2>1. PICK i \in DOMAIN tags :
           i = CHOOSE j \in DOMAIN tags : tags[j] = n
    BY <1>1 DEF Contains
  <2>2. /\ SubSeq(tags, 1, i - 1) \in Seq(Tags)
        /\ SubSeq(tags, i + 1, Len(tags)) \in Seq(Tags)
    <3>1. i \in 1..Len(tags) /\ Len(tags) \in Nat
      BY <2>1
    <3>2. /\ \A j \in 1..(i - 1) : tags[j] \in Tags
          /\ \A j \in (i + 1)..Len(tags) : tags[j] \in Tags
      BY <3>1
    <3> QED BY <3>1, <3>2, SubSeqProperties
  <2> QED BY <1>1, <2>1, <2>2, ConcatProperties DEF Followers, RemoveAt
<1>2. CASE ~Contains(tags, n)
  BY <1>2 DEF Followers
<1> QED BY <1>1, <1>2

(* Queueing the summaries for the followers keeps the controller honest.   *)
LEMMA QueueRoundCompleteForFollowersType ==
    ASSUME NEW n \in Nodes, view[n] \in Sessions, NEW c \in HonestControllers
    PROVE  /\ QueueRoundCompleteForFollowers(n, c) \in HonestControllers
           /\ QueuesOwn(view[n], c)
              => QueuesOwn(view[n], QueueRoundCompleteForFollowers(n, c))
<1> DEFINE followers == Followers(n, c.route.tags)
           packets == [i \in 1..Len(followers) |->
                         RangeRoundComplete(n, c, followers[i],
                                            SequenceAfter(c.nextSequence, i),
                                            Cardinality(c.received))]
<1>1. c \in Controllers /\ c.low \in Seq(HonestPackets)
      /\ IsFiniteSet(c.received) /\ c.nextSequence \in Nat
      /\ c.route.tags \in Seq(Tags)
  BY DEF HonestControllers, Controllers, Route
<1>2. followers \in Seq(Tags)
  BY <1>1, FollowersType
<1>3. Cardinality(c.received) \in Nat
  BY <1>1, FS_CardinalityType
<1>4. \A i \in 1..Len(followers) :
         RangeRoundComplete(n, c, followers[i],
                            SequenceAfter(c.nextSequence, i),
                            Cardinality(c.received)) \in OwnPackets(view[n])
  <2> SUFFICES ASSUME NEW i \in 1..Len(followers)
               PROVE  RangeRoundComplete(n, c, followers[i],
                          SequenceAfter(c.nextSequence, i),
                          Cardinality(c.received)) \in OwnPackets(view[n])
    OBVIOUS
  <2>1. followers[i] \in Nodes /\ i \in Nat
    BY <1>2 DEF Nodes
  <2>2. SequenceAfter(c.nextSequence, i) \in Nat
    BY <1>1, <2>1, SequenceAfterType
  <2> QED BY <1>1, <1>3, <2>1, <2>2, RangeRoundCompleteType
<1> HIDE DEF followers
<1>5. Len(followers) \in Nat
  BY <1>2
<1>6. packets \in [1..Len(followers) -> OwnPackets(view[n])]
  BY <1>4
<1> HIDE DEF packets
<1>7. packets \in Seq(OwnPackets(view[n])) /\ packets \in Seq(HonestPackets)
  <2>1. packets \in Seq(OwnPackets(view[n]))
    BY <1>5, <1>6, FunctionIsSeq
  <2> QED BY <2>1, SeqMonotonic DEF OwnPackets
<1>8. PushAll(c.low, LowCapacity, packets) \in Seq(HonestPackets)
  BY <1>1, <1>7, PushAllType, BoundAssumption
<1>9. PushAll(c.low, LowCapacity, packets) \in Seq(Packets)
  BY <1>8, SeqMonotonic DEF HonestPackets
<1>10. SequenceAfter(c.nextSequence, Len(followers)) \in Nat
  BY <1>1, <1>5, SequenceAfterType
<1>11. QueueRoundCompleteForFollowers(n, c) =
         [c EXCEPT !.nextSequence = SequenceAfter(@, Len(followers)),
                   !.low = PushAll(@, LowCapacity, packets)]
  BY DEF QueueRoundCompleteForFollowers, followers, packets
<1>12. QueueRoundCompleteForFollowers(n, c) \in HonestControllers
  BY <1>1, <1>8, <1>9, <1>10, <1>11 DEF HonestControllers, Controllers
<1>13. /\ QueueRoundCompleteForFollowers(n, c).high = c.high
       /\ QueueRoundCompleteForFollowers(n, c).low =
             PushAll(c.low, LowCapacity, packets)
  BY <1>1, <1>11 DEF Controllers
<1>14. ASSUME QueuesOwn(view[n], c)
       PROVE  QueuesOwn(view[n], QueueRoundCompleteForFollowers(n, c))
  BY <1>7, <1>13, <1>14, PushAllType, BoundAssumption DEF QueuesOwn
<1> QED BY <1>12, <1>14

(* Opening a round keeps the master's controller honest.                   *)
LEMMA StartMasterRoundType ==
    ASSUME NEW n \in Nodes, view[n] \in Sessions, NEW c \in HonestControllers,
           NEW snapshot \in RoundSnapshots(n)
    PROVE  /\ StartMasterRound(n, c, snapshot) \in HonestControllers
           /\ StartMasterRound(n, c, snapshot).st # "AnchorRanging"
           /\ QueuesOwn(view[n], c)
              => QueuesOwn(view[n], StartMasterRound(n, c, snapshot))
<1> DEFINE opened == [c EXCEPT !.route = snapshot,
                               !.anchorIndex = 1, !.tagIndex = 1,
                               !.round = @ + 1, !.received = {},
                               !.lastSequence = [i \in DOMAIN @ |-> 0]]
<1>1. snapshot \in Route /\ snapshot.tags # <<>>
  BY NodeAssumption DEF RoundSnapshots, Route
<1>2. c \in Controllers /\ c.low \in Seq(HonestPackets)
      /\ IsFiniteSet(c.received) /\ c.round \in Nat
      /\ c.lastSequence \in [1..Cardinality(Anchors) -> Nat]
  BY DEF HonestControllers, Controllers
<1>3. CASE snapshot.anchors = <<>>
  BY <1>1, <1>2, <1>3
     DEF StartMasterRound, HonestControllers, Controllers, States, QueuesOwn
<1>4. CASE snapshot.anchors # <<>>
  <2>1. [i \in DOMAIN c.lastSequence |-> 0] \in [1..Cardinality(Anchors) -> Nat]
    BY <1>2
  <2>2. c.round + 1 \in Nat /\ {} \in SUBSET Counts /\ IsFiniteSet({})
    BY <1>2, FS_EmptySet
  <2> DEFINE zeros == [i \in DOMAIN c.lastSequence |-> 0]
  <2>0. opened = [c EXCEPT !.route = snapshot,
                           !.anchorIndex = 1, !.tagIndex = 1,
                           !.round = c.round + 1, !.received = {},
                           !.lastSequence = zeros]
    BY DEF Controllers, HonestControllers
  <2> HIDE DEF zeros, opened
  <2>3. opened \in Controllers /\ opened.low = c.low /\ opened.received = {}
        /\ opened.route = snapshot /\ opened.high = c.high
    <3>1. zeros \in [1..Cardinality(Anchors) -> Nat]
      BY <2>1 DEF zeros
    <3>2. 1 \in Nat \ {0}
      OBVIOUS
    <3>3. opened \in Controllers
      BY <1>1, <1>2, <2>0, <2>2, <3>1, <3>2 DEF Controllers
    <3>4. opened.low = c.low /\ opened.received = {} /\ opened.route = snapshot
          /\ opened.high = c.high
      BY <1>2, <2>0 DEF Controllers
    <3> QED BY <3>3, <3>4
  <2>4. opened \in HonestControllers
    BY <1>2, <2>2, <2>3 DEF HonestControllers
  <2>5. 1 \in DOMAIN opened.route.anchors
    BY <1>1, <1>4, <2>3 DEF Route
  <2>6. /\ QueueControl(n, opened, 1) \in HonestControllers
        /\ QueuesOwn(view[n], opened) => QueuesOwn(view[n], QueueControl(n, opened, 1))
    BY <1>1, <2>3, <2>4, <2>5, QueueControlType
  <2>7. StartMasterRound(n, c, snapshot) =
          [QueueControl(n, opened, 1) EXCEPT
              !.st = IF Len(c.high) < HighCapacity
                     THEN "RunningRound" ELSE "ReadyToStart"]
    BY <1>4 DEF StartMasterRound, opened
  <2>8. QueuesOwn(view[n], c) => QueuesOwn(view[n], QueueControl(n, opened, 1))
    BY <2>3, <2>6 DEF QueuesOwn
  <2> QED BY <2>6, <2>7, <2>8 DEF HonestControllers, Controllers, States, QueuesOwn
<1> QED BY <1>3, <1>4

(* So does whatever else follows a round.                                  *)
LEMMA NextRoundType ==
    ASSUME NEW n \in Nodes, view[n] \in Sessions, NEW c \in HonestControllers,
           NEW next \in NextRoundControllers(n, c)
    PROVE  /\ next \in HonestControllers /\ next.st # "AnchorRanging"
           /\ QueuesOwn(view[n], c) => QueuesOwn(view[n], next)
<1>1. \A state \in {"WaitingForSynchronization", "ReadyToStart"} :
         /\ [c EXCEPT !.st = state] \in HonestControllers
         /\ [c EXCEPT !.st = state].st # "AnchorRanging"
         /\ QueuesOwn(view[n], c) => QueuesOwn(view[n], [c EXCEPT !.st = state])
  BY DEF HonestControllers, Controllers, States, QueuesOwn
<1>2. \A s \in RoundSnapshots(n) :
         /\ StartMasterRound(n, c, s) \in HonestControllers
         /\ StartMasterRound(n, c, s).st # "AnchorRanging"
         /\ QueuesOwn(view[n], c) => QueuesOwn(view[n], StartMasterRound(n, c, s))
  BY StartMasterRoundType
<1> QED BY <1>1, <1>2 DEF NextRoundControllers

(* What leaves both outgoing queues alone.                                 *)
SameQueues(c, next) == next.high = c.high /\ next.low = c.low

(* Recording a received pair keeps the controller honest.                  *)
LEMMA TakeMeasurementType ==
    ASSUME NEW c \in HonestControllers, NEW packet \in MeasurementPackets
    PROVE  /\ TakeMeasurement(c, packet) \in HonestControllers
           /\ TakeMeasurement(c, packet).st = c.st
           /\ SameQueues(c, TakeMeasurement(c, packet))
<1>1. /\ c \in Controllers /\ IsFiniteSet(c.received)
      /\ c.received \in SUBSET Counts
      /\ c.lastSequence \in [1..Cardinality(Anchors) -> Nat]
      /\ packet.index \in Counts /\ packet.sequence \in Nat
  BY DEF HonestControllers, Controllers, MeasurementPackets
<1>2. /\ c.received \cup {packet.index} \in SUBSET Counts
      /\ IsFiniteSet(c.received \cup {packet.index})
  BY <1>1, FS_AddElement
<1> DEFINE last == [c.lastSequence EXCEPT ![packet.index[1]] = packet.sequence]
<1>3. last \in [1..Cardinality(Anchors) -> Nat]
  BY <1>1
<1>4. TakeMeasurement(c, packet) =
         [c EXCEPT !.received = c.received \cup {packet.index},
                   !.lastSequence = last]
  BY <1>1 DEF TakeMeasurement, Controllers
<1> HIDE DEF last
<1> QED BY <1>1, <1>2, <1>3, <1>4 DEF HonestControllers, Controllers, SameQueues

(* Adopting a newer forwarded round keeps the follower's state.            *)
LEMMA AdoptForwardedRoundType ==
    ASSUME NEW c \in HonestControllers, NEW roundId \in Nat
    PROVE  /\ AdoptForwardedRound(c, roundId) \in HonestControllers
           /\ AdoptForwardedRound(c, roundId).st = c.st
           /\ SameQueues(c, AdoptForwardedRound(c, roundId))
<1> DEFINE zeros == [i \in DOMAIN c.lastSequence |-> 0]
<1>1. c \in Controllers /\ zeros \in [1..Cardinality(Anchors) -> Nat]
  BY DEF HonestControllers, Controllers
<1>2. {} \in SUBSET Counts /\ IsFiniteSet({})
  BY FS_EmptySet
<1>3. AdoptForwardedRound(c, roundId) =
         IF roundId > c.round
         THEN [c EXCEPT !.round = roundId, !.received = {},
                        !.lastSequence = zeros]
         ELSE c
  BY <1>1 DEF AdoptForwardedRound, Controllers
<1> HIDE DEF zeros
<1>4. CASE roundId > c.round
  <2>1. AdoptForwardedRound(c, roundId) =
           [c EXCEPT !.round = roundId, !.received = {}, !.lastSequence = zeros]
    BY <1>3, <1>4
  <2> QED BY <1>1, <1>2, <2>1 DEF HonestControllers, Controllers, SameQueues
<1>5. CASE ~(roundId > c.round)
  BY <1>3, <1>5 DEF SameQueues
<1> QED BY <1>4, <1>5

(* Taking a route over puts the ANCHOR at the start of it.                 *)
LEMMA TakeRouteType ==
    ASSUME NEW c \in HonestControllers, NEW packet \in ControlPackets
    PROVE  /\ TakeRoute(c, packet) \in HonestControllers
           /\ OnRoute(TakeRoute(c, packet))
           /\ TakeRoute(c, packet).started = FALSE
           /\ SameQueues(c, TakeRoute(c, packet))
<1>1. /\ packet.route \in Route
      /\ packet.anchorIndex \in DOMAIN packet.route.anchors
      /\ packet.route.tags # <<>>
      /\ packet.round \in Nat /\ packet.sequence \in Nat
      /\ packet.anchorIndex \in Nat
  BY DEF ControlPackets
<1>2. /\ packet.route.anchors \in Seq(Anchors)
      /\ packet.route.tags \in Seq(Tags)
  BY <1>1 DEF Route
<1>3. packet.anchorIndex \in Nat \ {0} /\ 1 \in DOMAIN packet.route.tags
  BY <1>1, <1>2
<1>4. PairSequence(packet) \in Nat
  <2>1. packet.anchorIndex - 1 \in Nat /\ Len(packet.route.tags) \in Nat
    BY <1>2, <1>3
  <2>2. (packet.anchorIndex - 1) * Len(packet.route.tags) \in Nat
    BY <2>1, ProductType
  <2> QED BY <2>2 DEF PairSequence
<1>5. [round |-> packet.round, pair |-> PairSequence(packet),
       sequence |-> packet.sequence]
         \in [round : Nat, pair : Nat, sequence : Nat]
  BY <1>1, <1>4
<1>6. c \in Controllers /\ c.low \in Seq(HonestPackets)
      /\ IsFiniteSet(c.received)
  BY DEF HonestControllers
<1>7. /\ "AnchorRanging" \in States /\ 1 \in Nat \ {0}
  BY DEF States
<1> DEFINE last == [round |-> packet.round, pair |-> PairSequence(packet),
                    sequence |-> packet.sequence]
<1> HIDE DEF last
<1>8. TakeRoute(c, packet) =
         [c EXCEPT !.route = packet.route,
                   !.anchorIndex = packet.anchorIndex, !.tagIndex = 1,
                   !.round = packet.round, !.st = "AnchorRanging",
                   !.started = FALSE, !.lastControl = last]
  BY <1>6 DEF TakeRoute, ControlTaken, Controllers, last
<1>9. TakeRoute(c, packet) \in Controllers
  <2>1. last \in [round : Nat, pair : Nat, sequence : Nat]
    BY <1>5 DEF last
  <2>2. /\ packet.route \in Route /\ packet.round \in Nat
        /\ packet.anchorIndex \in Nat \ {0}
    BY <1>1, <1>3
  <2>3. /\ c.received \in SUBSET Counts /\ c.nextSequence \in Nat
        /\ c.lastSequence \in [1..Cardinality(Anchors) -> Nat]
        /\ c.lastComplete \in [round : Nat, sequence : Nat]
        /\ c.high \in Seq(ControlPackets) /\ c.low \in Seq(Packets)
    BY <1>6 DEF Controllers
  <2>4. TakeRoute(c, packet) =
           [st |-> "AnchorRanging", round |-> packet.round,
            route |-> packet.route, anchorIndex |-> packet.anchorIndex,
            tagIndex |-> 1, started |-> FALSE, received |-> c.received,
            lastSequence |-> c.lastSequence, lastControl |-> last,
            lastComplete |-> c.lastComplete,
            nextSequence |-> c.nextSequence, high |-> c.high, low |-> c.low]
    BY <1>6, <1>8 DEF Controllers
  <2>5. FALSE \in BOOLEAN
    OBVIOUS
  <2> HIDE DEF last
  <2> QED BY <1>7, <2>1, <2>2, <2>3, <2>4, <2>5 DEF Controllers
<1>10. /\ TakeRoute(c, packet).low = c.low
       /\ TakeRoute(c, packet).high = c.high
       /\ TakeRoute(c, packet).received = c.received
       /\ TakeRoute(c, packet).route = packet.route
       /\ TakeRoute(c, packet).anchorIndex = packet.anchorIndex
       /\ TakeRoute(c, packet).tagIndex = 1
       /\ TakeRoute(c, packet).started = FALSE
  BY <1>6, <1>8 DEF Controllers
<1> QED BY <1>1, <1>3, <1>6, <1>9, <1>10
        DEF HonestControllers, OnRoute, SameQueues

(* Counting on from a place up to another one stays on the route.          *)
LEMMA PlacesBetween ==
    ASSUME NEW place \in Nat, NEW length \in Nat, NEW count \in Nat,
           place \in 1..length, place + count - 1 \in 1..length,
           NEW i \in 1..count
    PROVE  place + i - 1 \in 1..length
OBVIOUS

(* An ANCHOR stays on its route, or hands it over to the next one by a     *)
(* control, or ends it by its reports.                                     *)
PassesRoute(session, c, next) ==
    \/ /\ next.st = c.st /\ next.high = c.high
       /\ Extends(c.low, RouteResults(session, c.round), next.low)
    \/ /\ next.st = "AnchorIdle"
       /\ \E control \in RouteControls(session, c.round, c.route) :
             Extends(c.high, {control}, next.high)
       /\ Extends(c.low, RouteResults(session, c.round), next.low)
    \/ /\ next.st = "AnchorIdle" /\ next.high = c.high
       /\ Extends(c.low, RouteReports(session, c.round), next.low)

(* The results an ANCHOR queues are honest if its first one is; afterwards *)
(* it is idle or at a later tag of its route.                              *)
LEMMA CompleteAnchorMeasurementsType ==
    ASSUME NEW n \in Anchors, view[n] \in Sessions, NEW c \in HonestControllers,
           OnRoute(c), NEW count \in 1..(Len(c.route.tags) - c.tagIndex + 1),
           NEW job, job = Job(n, c.round, c.route.tags[c.tagIndex])
    PROVE  LET next == CompleteAnchorMeasurements(n, c, count, job)
           IN  /\ next \in HonestControllers
               /\ next.started = FALSE
               /\ next.round = c.round /\ next.route = c.route
               /\ next.st = "AnchorRanging" => OnRoute(next)
               /\ next.st \in {c.st, "AnchorIdle"}
               /\ Extends(c.high, RouteControls(view[n], c.round, c.route),
                          next.high)
               /\ Extends(c.low, Reports(view[n]), next.low)
               /\ PassesRoute(view[n], c, next)
               /\ next.lastControl = c.lastControl
               /\ next.anchorIndex = c.anchorIndex
               /\ next.st = "AnchorRanging" => next.tagIndex = c.tagIndex + count
<1> DEFINE finished == c.tagIndex + count > Len(c.route.tags)
           handOver == finished /\ c.anchorIndex < Len(c.route.anchors)
           sequence(i) == SequenceAfter(c.nextSequence,
                             IF handOver /\ i = count THEN i + 1 ELSE i)
           measurement(i) ==
               RangeMeasurement(n, c, c.tagIndex + i - 1, sequence(i),
                   IF i = 1 THEN job
                   ELSE Job(n, c.round, c.route.tags[c.tagIndex + i - 1]))
           complete == IF finished /\ ~handOver
                       THEN <<RangeRoundComplete(n, c, MasterOf(n),
                                 SequenceAfter(c.nextSequence, count + 1),
                                 PairCount(c.route))>>
                       ELSE <<>>
           before == [c EXCEPT !.nextSequence = SequenceAfter(@, count - 1)]
           afterControl == IF handOver
                           THEN QueueControl(n, before, c.anchorIndex + 1)
                           ELSE c
           measurements == [i \in 1..count |-> measurement(i)]
           S == IF finished /\ ~handOver THEN RouteReports(view[n], c.round)
                ELSE RouteResults(view[n], c.round)
<1>1. /\ c \in Controllers /\ c.low \in Seq(HonestPackets)
      /\ IsFiniteSet(c.received) /\ c.high \in Seq(ControlPackets)
      /\ c.nextSequence \in Nat /\ c.tagIndex \in Nat \ {0}
      /\ c.anchorIndex \in Nat \ {0}
      /\ c.route \in Route
      /\ c.route.tags \in Seq(Tags) /\ c.route.anchors \in Seq(Anchors)
  BY DEF HonestControllers, Controllers, Route
<1>0. /\ Len(c.route.tags) \in Nat /\ Len(c.route.anchors) \in Nat
      /\ DOMAIN c.route.tags = 1..Len(c.route.tags)
      /\ DOMAIN c.route.anchors = 1..Len(c.route.anchors)
  BY <1>1, LenProperties
<1>a. /\ c.tagIndex \in 1..Len(c.route.tags)
      /\ c.anchorIndex \in 1..Len(c.route.anchors)
  BY <1>0 DEF OnRoute
<1>2. /\ count \in Nat \ {0} /\ count - 1 \in Nat /\ count + 1 \in Nat
      /\ c.tagIndex + count - 1 \in DOMAIN c.route.tags
      /\ c.anchorIndex \in DOMAIN c.route.anchors
      /\ c.route.tags # <<>>
  <2>1. count \in Nat \ {0} /\ c.tagIndex + count - 1 <= Len(c.route.tags)
    BY <1>0, <1>a
  <2>2. c.route.tags # <<>>
    BY <1>0, <1>a
  <2> QED BY <1>0, <1>a, <2>1, <2>2
<1>b. n \in Nodes /\ view[n][1] # n
  BY SessionType, NodeAssumption DEF Nodes
<1>3. measurements \in Seq(S)
  <2>1. \A i \in 1..count : measurement(i) \in S
    <3> SUFFICES ASSUME NEW i \in 1..count
                 PROVE  measurement(i) \in S
      OBVIOUS
    <3>1. c.tagIndex + i - 1 \in DOMAIN c.route.tags
      <4>1. /\ i \in Nat /\ 1 <= i /\ i <= count
            /\ c.tagIndex + count - 1 \in 1..Len(c.route.tags)
        BY <1>0, <1>2
      <4>2. c.tagIndex + i - 1 \in 1..Len(c.route.tags)
        <5> HIDE DEF measurement, complete, before, afterControl, measurements
        <5> QED BY <1>0, <1>1, <1>a, <1>2, <4>1, PlacesBetween
      <4> QED BY <1>0, <4>2
    <3>2. sequence(i) \in Nat
      <4>1. i \in Nat /\ i + 1 \in Nat
        BY <1>2
      <4> QED BY <1>1, <4>1, SequenceAfterType
    <3>3. (IF i = 1 THEN job
           ELSE Job(n, c.round, c.route.tags[c.tagIndex + i - 1]))
             = Job(n, c.round, c.route.tags[c.tagIndex + i - 1])
      BY <1>1
    <3> HIDE DEF sequence
    <3>4. measurement(i) \in OwnPackets(view[n])
      BY <1>b, <1>1, <1>2, <3>1, <3>2, <3>3, RangeMeasurementType
    <3>5. /\ measurement(i).type = "RangeMeasurement"
          /\ measurement(i).round = c.round
          /\ measurement(i).index = <<c.anchorIndex, c.tagIndex + i - 1>>
          /\ measurement(i).size = <<Len(c.route.anchors), Len(c.route.tags)>>
      BY DEF RangeMeasurement, Size
    <3> HIDE DEF measurement
    <3>8. WellIndexed(measurement(i))
      <4>1. c.anchorIndex \in 1..Len(c.route.anchors)
            /\ c.tagIndex + i - 1 \in 1..Len(c.route.tags)
        BY <1>0, <1>a, <3>1
      <4> QED BY <3>5, <4>1 DEF WellIndexed
    <3>6. measurement(i) \in RouteReports(view[n], c.round)
      BY <3>4, <3>5, <3>8 DEF RouteReports, Reports, FromMaster
    <3>7. ASSUME EndsRoute(measurement(i)) PROVE finished /\ ~handOver
      <4>1. c.anchorIndex = Len(c.route.anchors) /\ c.tagIndex + i - 1 = Len(c.route.tags)
        BY <3>5, <3>7 DEF EndsRoute
      <4>2. c.tagIndex + count > Len(c.route.tags)
        BY <1>0, <1>1, <1>2, <4>1
      <4> QED BY <1>0, <4>1, <4>2
    <3> QED BY <3>6, <3>7 DEF RouteResults
  <2> HIDE DEF measurement, S
  <2>2. measurements \in [1..count -> S]
    BY <2>1
  <2> QED BY <1>2, <2>2, FunctionIsSeq
<1>4. complete \in Seq(S)
  <2>1. SequenceAfter(c.nextSequence, count + 1) \in Nat
    BY <1>1, <1>2, SequenceAfterType
  <2>2. PairCount(c.route) \in Nat
    BY <1>0, ProductType DEF PairCount
  <2>3. MasterOf(n) \in Nodes
    BY SessionType DEF MasterOf
  <2>4. RangeRoundComplete(n, c, MasterOf(n),
           SequenceAfter(c.nextSequence, count + 1), PairCount(c.route))
             \in RouteReports(view[n], c.round)
    <3> DEFINE packet == RangeRoundComplete(n, c, MasterOf(n),
                            SequenceAfter(c.nextSequence, count + 1),
                            PairCount(c.route))
    <3>1. packet \in OwnPackets(view[n])
      BY <1>b, <1>1, <2>1, <2>2, <2>3, RangeRoundCompleteType
    <3>2. /\ packet.type = "RangeRoundComplete" /\ packet.src # packet.session[1]
          /\ packet.round = c.round
      BY <1>b DEF RangeRoundComplete
    <3> HIDE DEF packet
    <3>3. packet \in RouteReports(view[n], c.round)
      BY <3>1, <3>2 DEF RouteReports, Reports, FromMaster, WellIndexed
    <3> QED BY <3>3 DEF packet
  <2>5. \A T, x : x \in T => <<x>> \in Seq(T)
    OBVIOUS
  <2> QED BY <2>4, <2>5, EmptySeq, Zenon
<1>5. /\ afterControl.high \in Seq(ControlPackets)
      /\ Extends(c.high, RouteControls(view[n], c.round, c.route), afterControl.high)
      /\ ~handOver => afterControl.high = c.high
      /\ handOver => \E control \in RouteControls(view[n], c.round, c.route) :
                        Extends(c.high, {control}, afterControl.high)
  <2>1. CASE handOver
    <3> DEFINE control == RangeControl(n, before, c.anchorIndex + 1)
    <3>1. SequenceAfter(c.nextSequence, count - 1) \in Nat
      BY <1>1, <1>2, SequenceAfterType
    <3>2. /\ before \in Controllers /\ before.route = c.route
          /\ before.high = c.high /\ before.round = c.round
      BY <1>1, <3>1 DEF Controllers
    <3>3. c.anchorIndex + 1 \in DOMAIN before.route.anchors
      BY <1>0, <1>a, <2>1, <3>2
    <3> HIDE DEF before
    <3>4. control \in ControlPackets
      BY <1>b, <1>2, <3>2, <3>3, RangeControlType
    <3>5. control.session = view[n] /\ control.round = c.round
          /\ control.route = c.route
      BY <3>2 DEF RangeControl
    <3>6. afterControl.high = Push(c.high, HighCapacity, control)
      BY <2>1, <3>2 DEF QueueControl, Controllers
    <3> HIDE DEF control, afterControl
    <3>7. control \in RouteControls(view[n], c.round, c.route)
      BY <3>4, <3>5 DEF RouteControls
    <3>8. /\ afterControl.high \in Seq(ControlPackets)
          /\ Extends(c.high, RouteControls(view[n], c.round, c.route), afterControl.high)
      BY <1>1, <3>4, <3>6, <3>7, PushType, PushExtends
    <3>9. control \in {control}
      OBVIOUS
    <3>10. Extends(c.high, {control}, afterControl.high)
      BY <1>1, <3>6, <3>9, PushExtends
    <3> HIDE DEF handOver
    <3> QED BY <2>1, <3>7, <3>8, <3>10
  <2>2. CASE ~handOver
    BY <1>1, <2>2, ExtendsReflexive
  <2> QED BY <2>1, <2>2
<1>6. /\ PushAll(c.low, LowCapacity, measurements \o complete)
            \in Seq(HonestPackets)
      /\ Extends(c.low, Reports(view[n]),
                 PushAll(c.low, LowCapacity, measurements \o complete))
      /\ Extends(c.low, S, PushAll(c.low, LowCapacity, measurements \o complete))
  <2>0. S \subseteq Reports(view[n])
    BY DEF RouteReports, RouteResults
  <2> HIDE DEF measurements, complete, S
  <2>1. measurements \o complete \in Seq(S)
    BY <1>3, <1>4, ConcatProperties
  <2>2. measurements \o complete \in Seq(Reports(view[n]))
    BY <2>0, <2>1, SeqMonotonic
  <2>3. measurements \o complete \in Seq(HonestPackets)
    BY <2>2, SeqMonotonic DEF Reports, OwnPackets
  <2> QED BY <1>1, <2>1, <2>2, <2>3, PushAllType, PushAllExtends, BoundAssumption
<1>7. PushAll(c.low, LowCapacity, measurements \o complete) \in Seq(Packets)
  BY <1>6, SeqMonotonic DEF HonestPackets
<1>8. SequenceAfter(c.nextSequence, IF finished THEN count + 1 ELSE count)
         \in Nat
  BY <1>1, <1>2, SequenceAfterType
<1> DEFINE next == CompleteAnchorMeasurements(n, c, count, job)
<1>9. next = [c EXCEPT !.high = afterControl.high,
                       !.low = PushAll(c.low, LowCapacity,
                                       measurements \o complete),
                       !.nextSequence =
                          SequenceAfter(c.nextSequence,
                                        IF finished THEN count + 1 ELSE count),
                       !.started = FALSE,
                       !.st = IF finished THEN "AnchorIdle" ELSE c.st,
                       !.tagIndex = IF finished THEN c.tagIndex + count - 1
                                    ELSE c.tagIndex + count]
  BY <1>1 DEF CompleteAnchorMeasurements, Controllers
<1> DEFINE lows == PushAll(c.low, LowCapacity, measurements \o complete)
           following == SequenceAfter(c.nextSequence,
                                  IF finished THEN count + 1 ELSE count)
<1>10. finished \in BOOLEAN
  OBVIOUS
<1>11. c.st \in States
  BY <1>1 DEF Controllers
<1> HIDE DEF next, afterControl, measurements, complete, finished
<1>12. /\ next \in Controllers /\ next.low = lows /\ next.received = c.received
       /\ next.high = afterControl.high
  <2>1. (IF finished THEN c.tagIndex + count - 1 ELSE c.tagIndex + count)
           \in Nat \ {0}
    <3>1. c.tagIndex + count - 1 \in Nat \ {0} /\ c.tagIndex + count \in Nat \ {0}
      <4>1. \A i, j \in Nat \ {0} : i + j - 1 \in Nat \ {0} /\ i + j \in Nat \ {0}
        OBVIOUS
      <4> QED BY <1>1, <1>2, <4>1, Zenon
    <3> QED BY <3>1
  <2>2. (IF finished THEN "AnchorIdle" ELSE c.st) \in States
    BY <1>11 DEF States
  <2>3. lows \in Seq(Packets) /\ following \in Nat
    BY <1>7, <1>8
  <2> HIDE DEF lows, following
  <2>4. next = [c EXCEPT !.high = afterControl.high, !.low = lows,
                         !.nextSequence = following, !.started = FALSE,
                         !.st = IF finished THEN "AnchorIdle" ELSE c.st,
                         !.tagIndex = IF finished THEN c.tagIndex + count - 1
                                      ELSE c.tagIndex + count]
    BY <1>9 DEF lows, following
  <2>5. next \in Controllers
    BY <1>1, <1>5, <2>1, <2>2, <2>3, <2>4 DEF Controllers
  <2> QED BY <1>1, <2>4, <2>5 DEF Controllers
<1>13. next \in HonestControllers
  BY <1>1, <1>6, <1>12 DEF HonestControllers
<1>14. /\ next.started = FALSE /\ next.round = c.round /\ next.route = c.route
       /\ next.anchorIndex = c.anchorIndex
       /\ next.lastControl = c.lastControl
       /\ next.st = IF finished THEN "AnchorIdle" ELSE c.st
       /\ ~finished => next.tagIndex = c.tagIndex + count
  BY <1>1, <1>9 DEF Controllers
<1>15. next.st = "AnchorRanging" => OnRoute(next)
  <2>1. ASSUME ~finished
        PROVE  /\ c.tagIndex + count \in DOMAIN c.route.tags
               /\ c.anchorIndex \in DOMAIN c.route.anchors
    BY <1>0, <1>a, <1>2, <2>1 DEF finished
  <2> QED BY <1>14, <2>1 DEF OnRoute
<1>16. next.st \in {c.st, "AnchorIdle"}
  BY <1>1, <1>9 DEF Controllers
<1>17. /\ Extends(c.high, RouteControls(view[n], c.round, c.route), next.high)
       /\ Extends(c.low, Reports(view[n]), next.low)
  BY <1>5, <1>6, <1>12
<1>18. PassesRoute(view[n], c, next)
  <2> HIDE DEF S
  <2>1. next.high = afterControl.high /\ Extends(c.low, S, next.low)
    BY <1>6, <1>12
  <2>2. CASE finished /\ ~handOver
    BY <1>5, <1>14, <2>1, <2>2 DEF PassesRoute, S
  <2>3. CASE handOver
    <3>1. next.st = "AnchorIdle" /\ S = RouteResults(view[n], c.round)
      BY <1>14, <2>3 DEF S
    <3> HIDE DEF handOver
    <3> QED BY <1>5, <2>1, <2>3, <3>1 DEF PassesRoute
  <2>4. CASE ~finished
    <3>1. next.st = c.st /\ S = RouteResults(view[n], c.round)
      BY <1>14, <2>4 DEF S
    <3> QED BY <1>5, <2>1, <2>4, <3>1 DEF PassesRoute
  <2> QED BY <2>2, <2>3, <2>4
<1>19. next.st = "AnchorRanging" => next.tagIndex = c.tagIndex + count
  BY <1>14
<1> QED BY <1>13, <1>14, <1>15, <1>16, <1>17, <1>18, <1>19 DEF next

-----------------------------------------------------------------------------
(* What the operators add to the queues, and what they leave alone.        *)

(* What leaves a node in its round.                                        *)
SameRound(c, next) ==
    next.st = c.st /\ next.round = c.round /\ next.route = c.route

(* The master's summaries of a round, queued in front of the next one.     *)
LEMMA FollowersEffect ==
    ASSUME NEW n \in Nodes, view[n] \in Sessions, IsMaster(n),
           NEW c \in HonestControllers
    PROVE  LET next == QueueRoundCompleteForFollowers(n, c)
           IN  /\ next \in HonestControllers
               /\ SameRound(c, next) /\ next.high = c.high
               /\ Extends(c.low, MasterSummaries(PublishedSummary(n, c)), next.low)
<1> DEFINE followers == Followers(n, c.route.tags)
           packets == [i \in 1..Len(followers) |->
                         RangeRoundComplete(n, c, followers[i],
                                            SequenceAfter(c.nextSequence, i),
                                            Cardinality(c.received))]
           S == MasterSummaries(PublishedSummary(n, c))
<1>1. c \in Controllers /\ c.low \in Seq(HonestPackets)
      /\ IsFiniteSet(c.received) /\ c.nextSequence \in Nat
      /\ c.route.tags \in Seq(Tags)
  BY DEF HonestControllers, Controllers, Route
<1>2. followers \in Seq(Tags) /\ Cardinality(c.received) \in Nat
  BY <1>1, FollowersType, FS_CardinalityType
<1> HIDE DEF followers
<1>3. ASSUME NEW i \in 1..Len(followers) PROVE packets[i] \in S
  <2>1. followers[i] \in Nodes /\ i \in Nat
    BY <1>2 DEF Nodes
  <2>2. SequenceAfter(c.nextSequence, i) \in Nat
    BY <1>1, <2>1, SequenceAfterType
  <2>3. packets[i] \in HonestPackets
    BY <1>1, <1>2, <2>1, <2>2, RangeRoundCompleteType DEF OwnPackets
  <2> QED BY <2>3 DEF MasterSummaries, FromMaster, SummaryOf, PublishedSummary,
                      RangeRoundComplete, IsMaster
<1>4. packets \in Seq(S)
  <2>1. Len(followers) \in Nat
    BY <1>2
  <2> HIDE DEF S
  <2>2. packets \in [1..Len(followers) -> S]
    BY <1>3
  <2> QED BY <2>1, <2>2, FunctionIsSeq
<1> HIDE DEF packets, S
<1>5. Extends(c.low, S, PushAll(c.low, LowCapacity, packets))
  BY <1>1, <1>4, PushAllExtends, BoundAssumption
<1>6. QueueRoundCompleteForFollowers(n, c) =
         [c EXCEPT !.nextSequence = SequenceAfter(@, Len(followers)),
                   !.low = PushAll(@, LowCapacity, packets)]
  BY DEF QueueRoundCompleteForFollowers, followers, packets
<1>7. QueueRoundCompleteForFollowers(n, c) \in HonestControllers
  BY QueueRoundCompleteForFollowersType
<1>8. /\ QueueRoundCompleteForFollowers(n, c).low = PushAll(c.low, LowCapacity, packets)
      /\ QueueRoundCompleteForFollowers(n, c).high = c.high
      /\ SameRound(c, QueueRoundCompleteForFollowers(n, c))
  BY <1>1, <1>6 DEF Controllers, SameRound
<1> QED BY <1>5, <1>7, <1>8 DEF S

(* Between two rounds the master opens none, opens one that its full queue *)
(* keeps it from running, or queues the control of the one it runs.        *)
RoundOpened(n, c, next) ==
    /\ next.low = c.low
    /\ \/ /\ next.high = c.high
          /\ next.st \notin {"RunningRound", "AnchorRanging"}
          /\ next.round \in {c.round, c.round + 1}
       \/ /\ next.st = "RunningRound" /\ next.round = c.round + 1
          /\ next.route \in Snapshots /\ next.received = {}
          /\ \E control \in RouteControls(view[n], next.round, next.route) :
                Extends(c.high, {control}, next.high)

(* What is added to a queue is one of the packets that it may be.          *)
LEMMA ExtendsByOne ==
    ASSUME NEW queue, NEW S, NEW longer,
           \E packet \in S : Extends(queue, {packet}, longer)
    PROVE  Extends(queue, S, longer)
BY ExtendsMonotone

(* StartMasterRound does one of these.                                     *)
LEMMA StartMasterRoundEffect ==
    ASSUME NEW n \in Nodes, view[n] \in Sessions, NEW c \in HonestControllers,
           NEW snapshot \in RoundSnapshots(n)
    PROVE  RoundOpened(n, c, StartMasterRound(n, c, snapshot))
<1> DEFINE zeros == [i \in DOMAIN c.lastSequence |-> 0]
           opened == [c EXCEPT !.route = snapshot,
                               !.anchorIndex = 1, !.tagIndex = 1,
                               !.round = c.round + 1, !.received = {},
                               !.lastSequence = zeros]
           control == RangeControl(n, opened, 1)
           next == StartMasterRound(n, c, snapshot)
<1>1. snapshot \in Route /\ snapshot.tags # <<>> /\ snapshot \in Snapshots
  BY NodeAssumption DEF RoundSnapshots, Route, Snapshots
<1>2. c \in Controllers /\ c.round \in Nat /\ c.high \in Seq(ControlPackets)
  BY DEF HonestControllers, Controllers
<1>3. CASE snapshot.anchors = <<>>
  <2>1. next = [c EXCEPT !.route = snapshot, !.st = "ReadyToStart"]
    BY <1>3 DEF StartMasterRound
  <2>2. next.high = c.high /\ next.low = c.low /\ next.st = "ReadyToStart"
        /\ next.round = c.round
    BY <1>2, <2>1 DEF Controllers
  <2> HIDE DEF next
  <2> QED BY <2>2 DEF RoundOpened, next
<1>4. CASE snapshot.anchors # <<>>
  <2>1. /\ zeros \in [1..Cardinality(Anchors) -> Nat]
        /\ c.round + 1 \in Nat /\ {} \in SUBSET Counts /\ 1 \in Nat \ {0}
    BY <1>2 DEF Controllers
  <2> HIDE DEF zeros
  <2>2. /\ opened \in Controllers /\ opened.route = snapshot
        /\ opened.high = c.high /\ opened.low = c.low
        /\ opened.round = c.round + 1 /\ opened.received = {}
    BY <1>1, <1>2, <2>1 DEF Controllers
  <2>3. next = [QueueControl(n, opened, 1) EXCEPT
                   !.st = IF Len(c.high) < HighCapacity
                          THEN "RunningRound" ELSE "ReadyToStart"]
    BY <1>2, <1>4 DEF StartMasterRound, zeros, Controllers
  <2>4. 1 \in DOMAIN opened.route.anchors
    BY <1>1, <1>4, <2>2 DEF Route
  <2> HIDE DEF opened
  <2>5. control \in RouteControls(view[n], c.round + 1, snapshot)
    <3>1. control \in ControlPackets
      BY <1>1, <2>2, <2>4, RangeControlType
    <3>2. control.session = view[n] /\ control.round = c.round + 1
          /\ control.route = snapshot
      BY <2>2 DEF RangeControl
    <3> HIDE DEF control
    <3> QED BY <3>1, <3>2 DEF RouteControls
  <2>6. next.high = Push(c.high, HighCapacity, control)
        /\ next.low = c.low /\ next.round = c.round + 1 /\ next.route = snapshot
        /\ next.received = {}
        /\ next.st = IF Len(c.high) < HighCapacity
                     THEN "RunningRound" ELSE "ReadyToStart"
    BY <2>2, <2>3 DEF QueueControl, Controllers
  <2> HIDE DEF next, control
  <2>7. CASE Len(c.high) < HighCapacity
    <3>1. control \in {control}
      OBVIOUS
    <3>2. Extends(c.high, {control}, next.high)
      BY <1>2, <2>6, <3>1, PushExtends
    <3> QED BY <1>1, <2>5, <2>6, <2>7, <3>2 DEF RoundOpened, next
  <2>8. CASE ~(Len(c.high) < HighCapacity)
    BY <2>6, <2>8 DEF RoundOpened, Push, next
  <2> QED BY <2>7, <2>8
<1> QED BY <1>3, <1>4

(* So does whatever else follows a round.                                  *)
LEMMA NextRoundEffect ==
    ASSUME NEW n \in Nodes, view[n] \in Sessions, NEW c \in HonestControllers,
           NEW next \in NextRoundControllers(n, c)
    PROVE  RoundOpened(n, c, next)
<1>1. \A state \in {"WaitingForSynchronization", "ReadyToStart"} :
         RoundOpened(n, c, [c EXCEPT !.st = state])
  BY DEF HonestControllers, Controllers, RoundOpened
<1>2. \A s \in RoundSnapshots(n) : RoundOpened(n, c, StartMasterRound(n, c, s))
  BY StartMasterRoundEffect
<1> QED BY <1>1, <1>2 DEF NextRoundControllers

(* A forward of a measurement that has just been published.                *)
LEMMA ForwardEffect ==
    ASSUME NEW n \in Nodes, IsMaster(n), NEW c \in HonestControllers,
           NEW packet \in MeasurementPackets, packet \in HonestPackets,
           packet.session = view[n], NEW history,
           history.key = [session |-> packet.session, round |-> packet.round],
           <<packet.anchor, packet.tag>> \in history.pairs
    PROVE  LET next == QueueMeasurementForward(n, c, packet)
           IN  /\ next \in HonestControllers
               /\ SameRound(c, next) /\ next.high = c.high
               /\ next.received = c.received
               /\ Extends(c.low, MasterForwards(history.key, history), next.low)
<1> DEFINE forward == Forwarded(n, c, packet)
           next == QueueMeasurementForward(n, c, packet)
           key == [session |-> packet.session, round |-> packet.round]
<1>1. c \in Controllers /\ c.low \in Seq(HonestPackets)
      /\ c.nextSequence \in Nat
  BY DEF HonestControllers, Controllers
<1>2. SequenceAfter(c.nextSequence, 1) \in Nat /\ packet.tag \in Nodes
  BY <1>1, SequenceAfterType DEF MeasurementPackets, Nodes
<1>3. /\ forward \in MeasurementPackets
      /\ forward.type = "RangeMeasurementForward" /\ forward.src = n
      /\ forward.job = packet.job /\ forward.session = packet.session
      /\ forward.round = packet.round /\ forward.tag = packet.tag
      /\ forward.anchor = packet.anchor
  BY <1>2 DEF MeasurementPackets, Forwarded
<1>4. packet.job = [session |-> packet.session, round |-> packet.round,
                    tag |-> packet.tag]
  BY DEF HonestPackets, FromItsRound, IsMeasurement, MeasurementPackets
<1>5. forward \in HonestPackets
  BY <1>3, <1>4, HonestTypes
<1> HIDE DEF forward
<1>6. forward \in MasterForwards(key, history)
  BY <1>3, <1>5 DEF MasterForwards, FromMaster, IsMaster
<1>7. next = [c EXCEPT !.nextSequence = SequenceAfter(@, 1),
                       !.low = Push(@, LowCapacity, forward)]
  BY DEF QueueMeasurementForward, forward
<1>8. next \in HonestControllers
  BY QueueMeasurementForwardType
<1>9. /\ next.low = Push(c.low, LowCapacity, forward)
      /\ next.high = c.high /\ next.received = c.received /\ SameRound(c, next)
  BY <1>1, <1>7 DEF Controllers, SameRound
<1> HIDE DEF next, key
<1>10. Extends(c.low, MasterForwards(key, history), next.low)
  BY <1>1, <1>6, <1>9, PushExtends
<1> QED BY <1>8, <1>9, <1>10 DEF next, key

(* Taking a route over puts the ANCHOR in the round of the control.        *)
LEMMA TakeRouteFields ==
    ASSUME NEW c \in Controllers, NEW packet
    PROVE  LET next == TakeRoute(c, packet)
           IN  /\ next.round = packet.round /\ next.route = packet.route
               /\ next.st = "AnchorRanging"
BY DEF TakeRoute, ControlTaken, Controllers

(* Recording a received pair leaves the round alone.                       *)
LEMMA TakeMeasurementFields ==
    ASSUME NEW c \in Controllers, NEW packet
    PROVE  SameRound(c, TakeMeasurement(c, packet))
BY DEF TakeMeasurement, Controllers, SameRound

-----------------------------------------------------------------------------
(* The inductive invariant.                                                *)

(* Base case: nothing is queued and nobody is ranging.                     *)
LEMMA InitIInv == Init => IInv
<1> SUFFICES ASSUME Init PROVE IInv
  OBVIOUS
<1> DEFINE reset == ResetSessionState("WaitingForMaster")
<1>1. reset \in HonestControllers
  BY ResetType DEF States
<1>2. reset.st = "WaitingForMaster"
  BY DEF ResetSessionState
<1> HIDE DEF reset
<1>3. <<>> \in Seq(HonestPackets) /\ <<>> \in Seq(Packets)
  BY EmptySeq
<1>4. ctl = [n \in Nodes |-> reset]
  BY DEF Init, reset
<1>5. /\ PacketsAreHonest
      /\ AnchorsAreOnRoute
      /\ StartedIsCurrent
  BY <1>1, <1>2, <1>3, <1>4
     DEF Init, PacketsAreHonest, AnchorsAreOnRoute, StartedIsCurrent
<1>6. ctl \in [Nodes -> Controllers]
  BY <1>1, <1>4 DEF HonestControllers
<1>7. /\ view \in [Nodes -> View]
      /\ epoch \in [Tags -> 0..MaxEpoch]
      /\ synced \in [Nodes -> BOOLEAN]
      /\ uwb \in [Nodes -> [phase : {"Idle", "Waiting", "Draining"},
                            job : Jobs \cup {NoResult}]]
      /\ result \in [Nodes -> Jobs \cup {NoResult}]
      /\ inbox \in [Nodes -> Seq(Packets)]
  BY <1>3, BoundAssumption DEF Init, View
<1>8. /\ published \in [Tags -> [key : [session : View, round : Nat],
                                 pairs : SUBSET (Anchors \X Tags),
                                 count : Nat]]
      /\ summary \in [Tags -> [session : View, round : Nat, size : Counts,
                               received : Nat]]
  BY DEF Init, View, Counts
<1> QED BY <1>5, <1>6, <1>7, <1>8 DEF IInv, TypeOK

(* What IInv says of one node.                                             *)
LEMMA NodeFacts ==
    ASSUME IInv, NEW n \in Nodes
    PROVE  /\ ctl[n] \in HonestControllers /\ ctl[n] \in Controllers
           /\ inbox[n] \in Seq(HonestPackets)
           /\ view[n] \in View
           /\ view[n] # NoSession => view[n] \in Sessions
           /\ IsMaster(n) => view[n] \in Sessions /\ n \in Tags
<1>1. view[n] \in View
  BY DEF IInv, TypeOK
<1> QED BY <1>1, SessionType
        DEF IInv, PacketsAreHonest, HonestControllers, View, IsMaster

(* A step that changes one controller, and queues, but no session and no   *)
(* ranging, keeps the invariant if the controller stays where it is or is  *)
(* at the start of a ranging on its route.                                 *)
SamePlace(c, next) ==
    /\ next.st = c.st /\ next.started = c.started /\ next.round = c.round
    /\ next.route = c.route
    /\ next.anchorIndex = c.anchorIndex /\ next.tagIndex = c.tagIndex

(* The lemma this predicate is for.                                        *)
LEMMA ControllerStep ==
    ASSUME IInv, NEW n \in Nodes, NEW next \in HonestControllers,
           ctl' = [ctl EXCEPT ![n] = next],
           UNCHANGED <<view, synced, uwb, result>>,
           inbox' \in [Nodes -> Seq(HonestPackets)],
           next.st = "AnchorRanging" =>
              \/ SamePlace(ctl[n], next)
              \/ /\ MayRange(n)
                 /\ OnRoute(next) /\ next.started = FALSE
    PROVE  /\ ctl' \in [Nodes -> Controllers]
           /\ inbox' \in [Nodes -> Seq(Packets)]
           /\ PacketsAreHonest' /\ AnchorsAreOnRoute' /\ StartedIsCurrent'
<1>1. ctl \in [Nodes -> Controllers]
  BY DEF IInv, TypeOK
<1>2. /\ ctl'[n] = next
      /\ \A m \in Nodes \ {n} : ctl'[m] = ctl[m]
      /\ next \in Controllers
  BY <1>1 DEF HonestControllers
<1>3. ctl' \in [Nodes -> Controllers]
  BY <1>1, <1>2
<1>4. inbox' \in [Nodes -> Seq(Packets)]
  <2>1. Seq(HonestPackets) \subseteq Seq(Packets)
    BY SeqMonotonic DEF HonestPackets
  <2> QED BY <2>1
<1>5. PacketsAreHonest'
  BY <1>2 DEF IInv, PacketsAreHonest
<1>6. AnchorsAreOnRoute'
  <2> SUFFICES ASSUME NEW m \in Nodes, ctl'[m].st = "AnchorRanging"
               PROVE  MayRange(m) /\ OnRoute(ctl'[m])
    BY DEF AnchorsAreOnRoute, OnRoute, MayRange
  <2>1. CASE m # n
    BY <1>2, <2>1 DEF IInv, AnchorsAreOnRoute, OnRoute
  <2>2. CASE m = n /\ SamePlace(ctl[n], next)
    BY <1>2, <2>2 DEF IInv, AnchorsAreOnRoute, OnRoute, SamePlace
  <2>3. CASE m = n /\ ~SamePlace(ctl[n], next)
    BY <1>2, <2>3
  <2> QED BY <2>1, <2>2, <2>3
<1>7. StartedIsCurrent'
  <2> SUFFICES ASSUME NEW m \in Nodes, ctl'[m].st = "AnchorRanging",
                      ctl'[m].started
               PROVE  /\ uwb'[m].phase = "Waiting" => uwb'[m].job = CurrentJob(m)'
                      /\ result'[m] # NoResult => result'[m] = CurrentJob(m)'
    BY DEF StartedIsCurrent
  <2>1. CASE m # n
    BY <1>2, <2>1 DEF IInv, StartedIsCurrent, CurrentJob, Job
  <2>2. CASE m = n /\ SamePlace(ctl[n], next)
    BY <1>2, <2>2 DEF IInv, StartedIsCurrent, CurrentJob, Job, SamePlace
  <2>3. CASE m = n /\ ~SamePlace(ctl[n], next)
    BY <1>2, <2>3
  <2> QED BY <2>1, <2>2, <2>3
<1> QED BY <1>3, <1>4, <1>5, <1>6, <1>7

-----------------------------------------------------------------------------
(* The steps, one lemma per action.                                        *)

Published == [Tags -> [key : [session : View, round : Nat],
                       pairs : SUBSET (Anchors \X Tags), count : Nat]]
Summaries == [Tags -> [session : View, round : Nat, size : Counts,
                       received : Nat]]

(* Publishing a well-formed measurement.                                   *)
LEMMA PushMeasurementType ==
    ASSUME published \in Published, NEW n \in Tags,
           NEW packet \in MeasurementPackets, PushMeasurement(n, packet)
    PROVE  published' \in Published
<1> DEFINE key == [session |-> packet.session, round |-> packet.round]
           p == published[n]
           pairs == (IF p.key = key THEN p.pairs ELSE {})
                       \cup {<<packet.anchor, packet.tag>>}
           count == (IF p.key = key THEN p.count ELSE 0) + 1
<1>1. key \in [session : View, round : Nat]
  BY DEF MeasurementPackets, View
<1>2. p.pairs \in SUBSET (Anchors \X Tags) /\ p.count \in Nat
  BY DEF Published
<1>3. packet.anchor \in Anchors /\ packet.tag \in Tags
  BY DEF MeasurementPackets
<1>4. pairs \in SUBSET (Anchors \X Tags)
  BY <1>2, <1>3
<1>5. count \in Nat
  BY <1>2
<1>6. published' = [published EXCEPT ![n] =
                       [key |-> key, pairs |-> pairs, count |-> count]]
  BY DEF PushMeasurement
<1> HIDE DEF key, p, pairs, count
<1> QED BY <1>1, <1>4, <1>5, <1>6 DEF Published

(* Closing a round: the summary is well formed, the next state allowed.    *)
LEMMA CompleteMasterRoundStep ==
    ASSUME IInv, NEW n \in Nodes, IsMaster(n), NEW c \in HonestControllers,
           CompleteMasterRound(n, c)
    PROVE  /\ summary' \in Summaries
           /\ \E next \in HonestControllers :
                 /\ next.st # "AnchorRanging"
                 /\ ctl' = [ctl EXCEPT ![n] = next]
<1>1. view[n] \in Sessions /\ n \in Tags /\ view[n] \in View
  BY NodeFacts
<1>2. /\ c.round \in Nat /\ Size(c.route) \in Counts
      /\ Cardinality(c.received) \in Nat
  <2>1. /\ c.round \in Nat /\ IsFiniteSet(c.received)
        /\ c.route.tags \in Seq(Tags) /\ c.route.anchors \in Seq(Anchors)
    BY DEF HonestControllers, Controllers, Route
  <2> QED BY <2>1, FS_CardinalityType DEF Size, Counts
<1>3. PublishedSummary(n, c) \in [session : View, round : Nat, size : Counts,
                                 received : Nat]
  BY <1>1, <1>2 DEF PublishedSummary
<1>4. summary' \in Summaries
  BY <1>3 DEF CompleteMasterRound, IInv, TypeOK, Summaries
<1>5. QueueRoundCompleteForFollowers(n, c) \in HonestControllers
  BY <1>1, QueueRoundCompleteForFollowersType
<1>6. PICK next \in NextRoundControllers(n, QueueRoundCompleteForFollowers(n, c)) :
         ctl' = [ctl EXCEPT ![n] = next]
  BY DEF CompleteMasterRound
<1>7. next \in HonestControllers /\ next.st # "AnchorRanging"
  BY <1>1, <1>5, <1>6, NextRoundType
<1> QED BY <1>4, <1>6, <1>7

(* Consuming the head of the receive queue yields an honest packet.        *)
LEMMA ConsumeType ==
    ASSUME IInv, NEW n \in Nodes, inbox[n] # <<>>, Consume(n)
    PROVE  /\ inbox' \in [Nodes -> Seq(HonestPackets)]
           /\ Head(inbox[n]) \in HonestPackets
<1>1. inbox[n] \in Seq(HonestPackets)
  BY NodeFacts
<1>2. Head(inbox[n]) \in HonestPackets /\ Tail(inbox[n]) \in Seq(HonestPackets)
  BY <1>1, HeadTailProperties
<1>3. inbox \in [Nodes -> Seq(HonestPackets)]
  <2>1. inbox \in [Nodes -> Seq(Packets)]
    BY DEF IInv, TypeOK
  <2> QED BY <2>1 DEF IInv, PacketsAreHonest
<1> QED BY <1>2, <1>3 DEF Consume

(* The type invariant after a step of the controllers.                     *)
LEMMA TypeStep ==
    ASSUME IInv, UNCHANGED <<view, epoch, synced, uwb, result>>,
           ctl' \in [Nodes -> Controllers], inbox' \in [Nodes -> Seq(Packets)],
           published' \in Published, summary' \in Summaries
    PROVE  TypeOK'
BY DEF IInv, TypeOK, Published, Summaries

(* The published histories, under their abbreviations.                     *)
LEMMA HistoryTypes == IInv => published \in Published /\ summary \in Summaries
BY DEF IInv, TypeOK, Published, Summaries

(* SequentialRangingController::ProcessReceivedPackets.                    *)
LEMMA ProcessReceivedPacketsStep ==
    ASSUME IInv, NEW n \in Nodes, ProcessReceivedPackets(n)
    PROVE  IInv'
<1> DEFINE packet == Head(inbox[n])
<1>1. /\ inbox[n] # <<>>
      /\ UNCHANGED <<view, epoch, synced, uwb, result>>
      /\ \/ HandleControl(n, packet)
         \/ HandleMeasurement(n, packet)
         \/ HandleMeasurementForward(n, packet)
         \/ HandleRoundComplete(n, packet)
  BY DEF ProcessReceivedPackets
<1>2. Consume(n)
  BY <1>1 DEF HandleControl, HandleMeasurement, HandleMeasurementForward,
              HandleRoundComplete, Ignore
<1>3. inbox' \in [Nodes -> Seq(HonestPackets)] /\ packet \in HonestPackets
  BY <1>1, <1>2, ConsumeType
<1>4. /\ ctl[n] \in HonestControllers
      /\ IsMaster(n) => view[n] \in Sessions /\ n \in Tags
      /\ view[n] # NoSession => view[n] \in Sessions
      /\ ctl \in [Nodes -> Controllers]
  BY NodeFacts DEF IInv, TypeOK
<1>5. published \in Published /\ summary \in Summaries
  BY HistoryTypes
<1> HIDE DEF packet
(* It is enough that the step puts an allowed controller in place.         *)
<1>6. SUFFICES
        /\ published' \in Published /\ summary' \in Summaries
        /\ \E next \in HonestControllers :
              /\ ctl' = [ctl EXCEPT ![n] = next]
              /\ next.st = "AnchorRanging" =>
                    \/ SamePlace(ctl[n], next)
                    \/ /\ MayRange(n)
                       /\ OnRoute(next) /\ next.started = FALSE
  <2>1. PICK next \in HonestControllers :
              /\ ctl' = [ctl EXCEPT ![n] = next]
              /\ next.st = "AnchorRanging" =>
                    \/ SamePlace(ctl[n], next)
                    \/ /\ MayRange(n)
                       /\ OnRoute(next) /\ next.started = FALSE
    BY <1>6
  <2>2. /\ ctl' \in [Nodes -> Controllers]
        /\ inbox' \in [Nodes -> Seq(Packets)]
        /\ PacketsAreHonest' /\ AnchorsAreOnRoute' /\ StartedIsCurrent'
    BY <1>1, <1>3, <2>1, ControllerStep
  <2> QED BY <1>1, <1>6, <2>2, TypeStep DEF IInv
<1>7. CASE Ignore(n)
  <2>1. ctl' = [ctl EXCEPT ![n] = ctl[n]] /\ UNCHANGED <<published, summary>>
    BY <1>4, <1>7 DEF Ignore
  <2> QED BY <1>4, <1>5, <2>1 DEF SamePlace
<1>8. CASE HandleControl(n, packet) /\ AcceptsControl(n, packet)
  <2>1. /\ ctl' = [ctl EXCEPT ![n] = TakeRoute(ctl[n], packet)]
        /\ UNCHANGED <<published, summary>>
        /\ MayRange(n)
    BY <1>4, <1>8 DEF HandleControl, AcceptsControl, AddressesAnchor, MayRange
  <2>2. packet \in ControlPackets
    BY <1>3, <1>8, PacketKinds DEF HandleControl
  <2> QED BY <1>4, <1>5, <2>1, <2>2, TakeRouteType
<1>9. CASE HandleMeasurement(n, packet) /\ AcceptsMeasurement(n, packet)
  <2>1. packet \in MeasurementPackets
    BY <1>3, <1>9, PacketKinds DEF HandleMeasurement
  <2>2. IsMaster(n) /\ n \in Tags /\ ctl[n].st = "RunningRound"
    BY <1>4, <1>9 DEF AcceptsMeasurement
  <2>3. published' \in Published
    BY <1>5, <1>9, <2>1, <2>2, PushMeasurementType DEF HandleMeasurement
  <2> DEFINE taken == TakeMeasurement(ctl[n], packet)
  <2>4. taken \in HonestControllers /\ taken.st = "RunningRound"
    BY <1>4, <2>1, <2>2, TakeMeasurementType
  <2> HIDE DEF taken
  <2>5. PICK next \in ForwardedControllers(n, taken, packet) :
           IF next.received = Pairs(next.route)
           THEN CompleteMasterRound(n, next)
           ELSE ctl' = [ctl EXCEPT ![n] = next] /\ UNCHANGED summary
    BY <1>9 DEF HandleMeasurement, taken
  <2>6. next \in HonestControllers /\ next.st = "RunningRound"
    <3>1. next \in {taken, QueueMeasurementForward(n, taken, packet)}
      BY <2>5 DEF ForwardedControllers
    <3> QED BY <1>3, <2>1, <2>4, <3>1, QueueMeasurementForwardType
  <2>7. CASE next.received = Pairs(next.route)
    BY <2>2, <2>3, <2>5, <2>6, <2>7, CompleteMasterRoundStep
  <2>8. CASE next.received # Pairs(next.route)
    BY <1>5, <2>3, <2>5, <2>6, <2>8
  <2> QED BY <2>7, <2>8
<1>10. CASE HandleMeasurementForward(n, packet) /\ ~Ignore(n)
  <2>1. packet \in MeasurementPackets
    BY <1>3, <1>10, PacketKinds DEF HandleMeasurementForward
  <2>2. n \in Tags /\ packet.round \in Nat
    BY <1>10, <2>1 DEF HandleMeasurementForward, MeasurementPackets
  <2> DEFINE c == AdoptForwardedRound(ctl[n], packet.round)
  <2>3. c \in HonestControllers /\ c.st = ctl[n].st
    BY <1>4, <2>2, AdoptForwardedRoundType
  <2>4. ctl[n].st # "AnchorRanging"
    BY <2>2, NodeAssumption DEF IInv, AnchorsAreOnRoute, MayRange, Nodes
  <2> HIDE DEF c
  <2>5. /\ IF IsFresh(c, packet)
           THEN /\ ctl' = [ctl EXCEPT ![n] = TakeMeasurement(c, packet)]
                /\ PushMeasurement(n, packet)
           ELSE ctl' = [ctl EXCEPT ![n] = c] /\ UNCHANGED published
        /\ UNCHANGED summary
    BY <1>10 DEF HandleMeasurementForward, c
  <2>6. CASE IsFresh(c, packet)
    BY <1>5, <2>1, <2>2, <2>3, <2>4, <2>5, <2>6, TakeMeasurementType,
       PushMeasurementType
  <2>7. CASE ~IsFresh(c, packet)
    BY <1>5, <2>3, <2>4, <2>5, <2>7
  <2> QED BY <2>6, <2>7
<1>11. CASE HandleRoundComplete(n, packet) /\ AcceptsCompleteAsMaster(n, packet)
  <2>1. IsMaster(n) /\ CompleteMasterRound(n, ctl[n]) /\ UNCHANGED published
    BY <1>11 DEF HandleRoundComplete, AcceptsCompleteAsMaster
  <2> QED BY <1>4, <1>5, <2>1, CompleteMasterRoundStep
<1>12. CASE HandleRoundComplete(n, packet) /\ ~AcceptsCompleteAsMaster(n, packet)
            /\ AcceptsCompleteAsFollower(n, packet)
  <2>1. packet \in CompletePackets
    BY <1>3, <1>12, PacketKinds DEF HandleRoundComplete
  <2>2. /\ packet.round \in Nat /\ packet.sequence \in Nat
        /\ packet.session \in View
        /\ packet.size \in Counts /\ packet.received \in Nat
    BY <2>1 DEF CompletePackets, View
  <2>3. n \in Tags /\ FollowRoundComplete(n, packet) /\ UNCHANGED published
    BY <1>12 DEF HandleRoundComplete, AcceptsCompleteAsFollower
  <2>4. ctl[n].st # "AnchorRanging"
    BY <2>3, NodeAssumption DEF IInv, AnchorsAreOnRoute, MayRange, Nodes
  <2> DEFINE last == [round |-> packet.round, sequence |-> packet.sequence]
             next == [ctl[n] EXCEPT !.round = packet.round, !.lastComplete = last]
  <2>5. last \in [round : Nat, sequence : Nat]
    BY <2>2
  <2>6. ctl' = [ctl EXCEPT ![n] = next]
    BY <2>3 DEF FollowRoundComplete
  <2> HIDE DEF last
  <2>7. next \in HonestControllers /\ next.st = ctl[n].st
    BY <1>4, <2>2, <2>5 DEF HonestControllers, Controllers
  <2>8. summary' \in Summaries
    BY <1>5, <2>2, <2>3 DEF FollowRoundComplete, Summaries
  <2> QED BY <1>5, <2>3, <2>4, <2>6, <2>7, <2>8
<1> QED BY <1>1, <1>7, <1>8, <1>9, <1>10, <1>11, <1>12
        DEF HandleControl, HandleMeasurement, HandleMeasurementForward,
            HandleRoundComplete

(* A new controller that is not at work as an ANCHOR is always allowed.    *)
LEMMA RestingControllerStep ==
    ASSUME IInv, NEW n \in Nodes, NEW next \in HonestControllers,
           next.st # "AnchorRanging",
           ctl' = [ctl EXCEPT ![n] = next],
           UNCHANGED <<view, epoch, synced, uwb, result, inbox, published>>,
           summary' \in Summaries
    PROVE  IInv'
<1>1. inbox' \in [Nodes -> Seq(HonestPackets)]
  BY DEF IInv, TypeOK, PacketsAreHonest
<1>2. /\ ctl' \in [Nodes -> Controllers]
      /\ inbox' \in [Nodes -> Seq(Packets)]
      /\ PacketsAreHonest' /\ AnchorsAreOnRoute' /\ StartedIsCurrent'
  BY <1>1, ControllerStep
<1>3. published' \in Published
  BY HistoryTypes
<1> QED BY <1>2, <1>3, TypeStep DEF IInv

(* SequentialRangingController::UpdateMaster, between rounds.              *)
LEMMA TryStartRoundStep ==
    ASSUME IInv, NEW n \in Nodes, TryStartRound(n)
    PROVE  IInv'
<1>1. PICK next \in NextRoundControllers(n, ctl[n]) :
         ctl' = [ctl EXCEPT ![n] = next]
  BY DEF TryStartRound
<1>2. view[n] \in Sessions /\ ctl[n] \in HonestControllers
  BY NodeFacts DEF TryStartRound
<1>3. next \in HonestControllers /\ next.st # "AnchorRanging"
  BY <1>1, <1>2, NextRoundType
<1>4. summary' \in Summaries
  BY HistoryTypes DEF TryStartRound
<1> QED BY <1>1, <1>3, <1>4, RestingControllerStep DEF TryStartRound

(* SequentialRangingController::UpdateMaster, at the deadline.             *)
LEMMA RoundDeadlineStep ==
    ASSUME IInv, NEW n \in Nodes, RoundDeadline(n)
    PROVE  IInv'
<1>1. IsMaster(n) /\ CompleteMasterRound(n, ctl[n]) /\ ctl[n] \in HonestControllers
  BY NodeFacts DEF RoundDeadline
<1>2. /\ summary' \in Summaries
      /\ \E next \in HonestControllers :
            /\ next.st # "AnchorRanging"
            /\ ctl' = [ctl EXCEPT ![n] = next]
  BY <1>1, CompleteMasterRoundStep
<1> QED BY <1>2, RestingControllerStep DEF RoundDeadline

(* A transmission moves an honest packet, whatever the radio does.         *)
LEMMA TransmitType ==
    ASSUME inbox \in [Nodes -> Seq(HonestPackets)],
           NEW packet \in HonestPackets, Transmit(packet)
    PROVE  inbox' \in [Nodes -> Seq(HonestPackets)]
<1>1. PICK copies \in Deliveries(packet) :
        inbox' = [inbox EXCEPT ![packet.dst] =
                     PushAll(@, InboxCapacity, [i \in 1..copies |-> packet])]
  BY DEF Transmit
<1>2. copies \in Nat
  BY DEF Deliveries
<1>3. [i \in 1..copies |-> packet] \in Seq(HonestPackets)
  BY <1>2, FunctionIsSeq
<1>4. \A node \in Nodes :
         PushAll(inbox[node], InboxCapacity, [i \in 1..copies |-> packet])
            \in Seq(HonestPackets)
  BY <1>3, PushAllType, BoundAssumption
<1> QED BY <1>1, <1>4

(* SequentialRangingController::TrySendNextPacket.                         *)
LEMMA TrySendNextPacketStep ==
    ASSUME IInv, NEW n \in Nodes, TrySendNextPacket(n)
    PROVE  IInv'
<1> DEFINE c == ctl[n]
<1>1. /\ c \in HonestControllers
      /\ c.high \in Seq(ControlPackets) /\ c.low \in Seq(HonestPackets)
      /\ inbox \in [Nodes -> Seq(HonestPackets)]
  BY NodeFacts DEF HonestControllers, Controllers, IInv, TypeOK, PacketsAreHonest
<1>2. published' \in Published /\ summary' \in Summaries
  BY HistoryTypes DEF TrySendNextPacket
<1>3. \E next \in HonestControllers, packet \in HonestPackets :
         /\ ctl' = [ctl EXCEPT ![n] = next]
         /\ SamePlace(c, next)
         /\ Transmit(packet)
  <2>1. CASE /\ c.high # <<>>
             /\ Transmit(Head(c.high))
             /\ ctl' = [ctl EXCEPT ![n].high = Tail(@)]
    <3>1. Head(c.high) \in HonestPackets /\ Tail(c.high) \in Seq(ControlPackets)
      BY <1>1, <2>1, HeadTailProperties, HonestTypes
    <3>2. [c EXCEPT !.high = Tail(@)] \in HonestControllers
      BY <1>1, <3>1 DEF HonestControllers, Controllers
    <3>3. SamePlace(c, [c EXCEPT !.high = Tail(@)])
      BY <1>1 DEF HonestControllers, Controllers, SamePlace
    <3> QED BY <2>1, <3>1, <3>2, <3>3
  <2>2. CASE /\ c.low # <<>>
             /\ Transmit(Head(c.low))
             /\ ctl' = [ctl EXCEPT ![n].low = Tail(@)]
    <3>1. Head(c.low) \in HonestPackets /\ Tail(c.low) \in Seq(HonestPackets)
      BY <1>1, <2>2, HeadTailProperties
    <3>2. Tail(c.low) \in Seq(Packets)
      BY <3>1, SeqMonotonic DEF HonestPackets
    <3>3. [c EXCEPT !.low = Tail(@)] \in HonestControllers
      BY <1>1, <3>1, <3>2 DEF HonestControllers, Controllers
    <3>4. SamePlace(c, [c EXCEPT !.low = Tail(@)])
      BY <1>1 DEF HonestControllers, Controllers, SamePlace
    <3> QED BY <2>2, <3>1, <3>3, <3>4
  <2> QED BY <2>1, <2>2 DEF TrySendNextPacket
<1>4. PICK next \in HonestControllers, packet \in HonestPackets :
         /\ ctl' = [ctl EXCEPT ![n] = next]
         /\ SamePlace(c, next)
         /\ Transmit(packet)
  BY <1>3
<1>5. inbox' \in [Nodes -> Seq(HonestPackets)]
  BY <1>1, <1>4, TransmitType
<1>6. /\ ctl' \in [Nodes -> Controllers]
      /\ inbox' \in [Nodes -> Seq(Packets)]
      /\ PacketsAreHonest' /\ AnchorsAreOnRoute' /\ StartedIsCurrent'
  BY <1>4, <1>5, ControllerStep DEF TrySendNextPacket
<1> QED BY <1>2, <1>6, TypeStep DEF IInv, TrySendNextPacket

(* The receive queues, as the function they are.                           *)
LEMMA HonestInbox == IInv => inbox \in [Nodes -> Seq(HonestPackets)]
BY DEF IInv, TypeOK, PacketsAreHonest

(* A step that only changes what one node keeps, whatever else it sets of  *)
(* that node, preserves what the invariant says of the other nodes.        *)
LEMMA NodeStep ==
    ASSUME IInv, NEW n \in Nodes, TypeOK',
           NEW next \in HonestControllers, ctl' = [ctl EXCEPT ![n] = next],
           inbox' \in [Nodes -> Seq(HonestPackets)],
           \A m \in Nodes \ {n} :
              /\ view'[m] = view[m] /\ synced'[m] = synced[m]
              /\ uwb'[m] = uwb[m] /\ result'[m] = result[m],
           next.st = "AnchorRanging" =>
              /\ view'[n] = view[n] /\ synced'[n] = synced[n]
              /\ MayRange(n) /\ OnRoute(next)
              /\ next.started =>
                    LET job == Job(n, next.round, next.route.tags[next.tagIndex])
                    IN  /\ uwb'[n].phase = "Waiting" => uwb'[n].job = job
                        /\ result'[n] # NoResult => result'[n] = job
    PROVE  IInv'
<1>1. /\ ctl'[n] = next
      /\ \A m \in Nodes \ {n} : ctl'[m] = ctl[m]
  BY DEF IInv, TypeOK
<1>2. PacketsAreHonest'
  BY <1>1 DEF IInv, PacketsAreHonest
<1>3. AnchorsAreOnRoute'
  BY <1>1 DEF IInv, AnchorsAreOnRoute, OnRoute, MayRange
<1>4. StartedIsCurrent'
  <2> SUFFICES ASSUME NEW m \in Nodes, ctl'[m].st = "AnchorRanging",
                      ctl'[m].started
               PROVE  /\ uwb'[m].phase = "Waiting" => uwb'[m].job = CurrentJob(m)'
                      /\ result'[m] # NoResult => result'[m] = CurrentJob(m)'
    BY DEF StartedIsCurrent
  <2>1. CASE m # n
    <3>1. /\ uwb'[m] = uwb[m] /\ result'[m] = result[m]
          /\ CurrentJob(m)' = CurrentJob(m)
      BY <1>1, <2>1 DEF CurrentJob, Job
    <3> QED BY <1>1, <2>1, <3>1 DEF IInv, StartedIsCurrent
  <2>2. CASE m = n
    BY <1>1, <2>2 DEF CurrentJob, Job
  <2> QED BY <2>1, <2>2
<1> QED BY <1>2, <1>3, <1>4 DEF IInv

(* The job an ANCHOR on its route would start next.                        *)
LEMMA RouteJobType ==
    ASSUME NEW n \in Nodes, view[n] \in Sessions, NEW c \in Controllers,
           OnRoute(c)
    PROVE  Job(n, c.round, c.route.tags[c.tagIndex]) \in Jobs
<1>1. c.round \in Nat /\ c.route.tags \in Seq(Tags)
  BY DEF Controllers, Route
<1>2. c.route.tags[c.tagIndex] \in Tags
  BY <1>1, ElementOfSeq DEF OnRoute
<1>3. view[n] \in View
  BY DEF View
<1> QED BY <1>1, <1>2, <1>3, JobType

(* UpdateAnchor from its place on: results queued, next ranging started.   *)
LEMMA ProceedAlongRouteStep ==
    ASSUME IInv, NEW n \in Nodes, ctl[n].st = "AnchorRanging",
           NEW count \in 0..(Len(ctl[n].route.tags) - ctl[n].tagIndex + 1),
           count = 0 => ctl[n].started = FALSE,
           NEW job, job = CurrentJob(n),
           ProceedAlongRoute(n, ctl[n], count, job),
           result' = [result EXCEPT ![n] = NoResult],
           UNCHANGED <<view, epoch, synced, inbox, published, summary>>
    PROVE  IInv'
<1> DEFINE c == ctl[n]
           moved == IF count = 0 THEN c
                    ELSE CompleteAnchorMeasurements(n, c, count, job)
           starts == moved.st = "AnchorRanging" /\ uwb[n].phase = "Idle"
           next == [moved EXCEPT !.started = TRUE]
           target == Job(n, moved.round, moved.route.tags[moved.tagIndex])
<1>1. /\ c \in HonestControllers /\ MayRange(n) /\ view[n] \in Sessions
      /\ OnRoute(c)
  BY NodeFacts DEF IInv, AnchorsAreOnRoute, MayRange
<1>2. /\ moved \in HonestControllers /\ moved.started = FALSE
      /\ moved.st = "AnchorRanging" => OnRoute(moved)
  <2>1. CASE count = 0
    BY <1>1, <2>1
  <2>2. CASE count # 0
    <3>1. /\ count \in 1..(Len(c.route.tags) - c.tagIndex + 1)
          /\ job = Job(n, c.round, c.route.tags[c.tagIndex])
          /\ n \in Anchors
      BY <1>1, <2>2 DEF CurrentJob, MayRange
    <3> HIDE DEF c
    <3> QED BY <1>1, <2>2, <3>1, CompleteAnchorMeasurementsType
  <2> QED BY <2>1, <2>2
<1>3. IF starts
      THEN /\ ctl' = [ctl EXCEPT ![n] = next]
           /\ uwb' = [uwb EXCEPT ![n] = [phase |-> "Waiting", job |-> target]]
      ELSE ctl' = [ctl EXCEPT ![n] = moved] /\ UNCHANGED uwb
  BY DEF ProceedAlongRoute
<1> HIDE DEF moved, c
<1>4. result' \in [Nodes -> Jobs \cup {NoResult}] /\ result'[n] = NoResult
  BY DEF IInv, TypeOK
<1>6. CASE starts
  <2>1. /\ next \in HonestControllers
        /\ next.st = "AnchorRanging" /\ next.started = TRUE
        /\ next.round = moved.round /\ next.route = moved.route
        /\ next.anchorIndex = moved.anchorIndex /\ next.tagIndex = moved.tagIndex
    BY <1>2, <1>6 DEF HonestControllers, Controllers
  <2>2. target \in Jobs /\ OnRoute(next)
    BY <1>1, <1>2, <1>6, <2>1, RouteJobType DEF HonestControllers, OnRoute
  <2> HIDE DEF next, target, starts
  <2>3. /\ ctl' = [ctl EXCEPT ![n] = next]
        /\ uwb' = [uwb EXCEPT ![n] = [phase |-> "Waiting", job |-> target]]
    BY <1>3, <1>6
  <2>4. TypeOK'
    BY <1>4, <2>1, <2>2, <2>3 DEF IInv, TypeOK, HonestControllers
  <2>5. /\ uwb'[n].job = target
        /\ \A m \in Nodes \ {n} : uwb'[m] = uwb[m] /\ result'[m] = result[m]
    BY <2>3 DEF IInv, TypeOK
  <2>6. target = Job(n, next.round, next.route.tags[next.tagIndex])
    BY <2>1 DEF target
  <2> QED BY <1>1, <1>4, <2>1, <2>2, <2>3, <2>4, <2>5, <2>6, NodeStep, HonestInbox
<1>7. CASE ~starts
  <2> HIDE DEF starts
  <2>1. ctl' = [ctl EXCEPT ![n] = moved] /\ uwb' = uwb
    BY <1>3, <1>7
  <2>2. TypeOK'
    BY <1>2, <1>4, <2>1 DEF IInv, TypeOK, HonestControllers
  <2>3. \A m \in Nodes \ {n} : uwb'[m] = uwb[m] /\ result'[m] = result[m]
    BY <2>1 DEF IInv, TypeOK
  <2> QED BY <1>1, <1>2, <2>1, <2>2, <2>3, NodeStep, HonestInbox
<1> QED BY <1>6, <1>7

(* SequentialRangingController::UpdateAnchor.                              *)
LEMMA UpdateAnchorStep ==
    ASSUME IInv, NEW n \in Nodes, UpdateAnchor(n)
    PROVE  IInv'
<1> DEFINE c == ctl[n]
<1>1. /\ result' = [result EXCEPT ![n] = NoResult]
      /\ UNCHANGED <<view, epoch, synced, inbox, published, summary>>
  BY DEF UpdateAnchor
<1>2. c.st = "AnchorRanging" =>
         /\ c.tagIndex \in 1..Len(c.route.tags) /\ Len(c.route.tags) \in Nat
         /\ c.started => (result[n] # NoResult => result[n] = CurrentJob(n))
  <2>1. c.route.tags \in Seq(Tags)
    BY DEF IInv, TypeOK, Controllers, Route
  <2> QED BY <2>1, LenProperties
          DEF IInv, AnchorsAreOnRoute, OnRoute, StartedIsCurrent
<1>3. CASE UNCHANGED <<ctl, uwb>>
  <2>1. TypeOK'
    BY <1>1, <1>3 DEF IInv, TypeOK
  <2>2. result'[n] = NoResult /\ \A m \in Nodes \ {n} : result'[m] = result[m]
    BY <1>1 DEF IInv, TypeOK
  <2>3. PacketsAreHonest' /\ AnchorsAreOnRoute'
    BY <1>1, <1>3 DEF IInv, PacketsAreHonest, AnchorsAreOnRoute, OnRoute, MayRange
  <2>4. StartedIsCurrent'
    BY <1>1, <1>3, <2>2 DEF IInv, StartedIsCurrent, CurrentJob, Job
  <2> QED BY <2>1, <2>3, <2>4 DEF IInv
<1>4. CASE /\ c.st = "AnchorRanging" /\ ~c.started
           /\ \E count \in CompletedCounts(n, c, 0) :
                 ProceedAlongRoute(n, c, count,
                                   Job(n, c.round, c.route.tags[c.tagIndex]))
  <2>1. PICK count \in CompletedCounts(n, c, 0) :
                 ProceedAlongRoute(n, c, count, CurrentJob(n))
    BY <1>4 DEF CurrentJob
  <2>2. count \in 0..(Len(c.route.tags) - c.tagIndex + 1)
    BY <1>2, <1>4, <2>1 DEF CompletedCounts
  <2>3. c.started = FALSE
    BY <1>4 DEF IInv, TypeOK, Controllers
  <2> QED BY <1>1, <1>4, <2>1, <2>2, <2>3, ProceedAlongRouteStep
<1>5. CASE /\ c.st = "AnchorRanging" /\ c.started
           /\ result[n] # NoResult
           /\ \E count \in CompletedCounts(n, c, 1) :
                 ProceedAlongRoute(n, c, count, result[n])
  <2>1. PICK count \in CompletedCounts(n, c, 1) :
                 ProceedAlongRoute(n, c, count, CurrentJob(n))
    BY <1>2, <1>5
  <2>2. count \in 1..(Len(c.route.tags) - c.tagIndex + 1)
    BY <1>2, <1>5, <2>1 DEF CompletedCounts
  <2>3. count \in 0..(Len(c.route.tags) - c.tagIndex + 1) /\ count # 0
    BY <2>2
  <2> QED BY <1>1, <1>5, <2>1, <2>3, ProceedAlongRouteStep
<1> QED BY <1>3, <1>4, <1>5 DEF UpdateAnchor

(* Ryuw122Controller: a result, a timeout, the end of the drain.           *)
LEMMA UwbStep ==
    ASSUME IInv, NEW n \in Nodes, Uwb(n)
    PROVE  IInv'
<1>1. UNCHANGED <<view, epoch, synced, ctl, inbox, published, summary>>
  BY DEF Uwb, UwbRespond, UwbTimeout, UwbComplete, UwbDrained
<1>2. PICK phase \in {"Idle", "Draining"} :
         /\ uwb' = [uwb EXCEPT ![n].phase = phase]
         /\ \/ uwb[n].phase = "Waiting" /\ result' = [result EXCEPT ![n] = uwb[n].job]
            \/ result' = result
  BY DEF Uwb, UwbRespond, UwbTimeout, UwbComplete, UwbDrained
<1>3. /\ uwb'[n].phase # "Waiting"
      /\ \A m \in Nodes \ {n} : uwb'[m] = uwb[m] /\ result'[m] = result[m]
      /\ \/ uwb[n].phase = "Waiting" /\ result'[n] = uwb[n].job
         \/ result'[n] = result[n]
  BY <1>2 DEF IInv, TypeOK
<1>4. TypeOK'
  BY <1>1, <1>2 DEF IInv, TypeOK
<1>5. ctl' = [ctl EXCEPT ![n] = ctl[n]]
  BY <1>1 DEF IInv, TypeOK
<1>6. ctl[n].st = "AnchorRanging" =>
         /\ MayRange(n) /\ OnRoute(ctl[n])
         /\ ctl[n].started =>
               (result'[n] # NoResult => result'[n] = CurrentJob(n))
  BY <1>3 DEF IInv, AnchorsAreOnRoute, StartedIsCurrent
<1>7. ctl[n] \in HonestControllers
  BY NodeFacts
<1> QED BY <1>1, <1>3, <1>4, <1>5, <1>6, <1>7, NodeStep, HonestInbox
        DEF CurrentJob

(* A node that starts a session, or its memory, over keeps nothing that    *)
(* the invariant could constrain.                                          *)
LEMMA ResetStep ==
    ASSUME IInv, NEW n \in Nodes, TypeOK', NEW state \in States,
           state # "AnchorRanging",
           ctl' = [ctl EXCEPT ![n] = ResetSessionState(state)],
           inbox' \in [Nodes -> Seq(HonestPackets)],
           \A m \in Nodes \ {n} :
              /\ view'[m] = view[m] /\ synced'[m] = synced[m]
              /\ uwb'[m] = uwb[m] /\ result'[m] = result[m]
    PROVE  IInv'
<1>1. ResetSessionState(state) \in HonestControllers
  BY ResetType
<1>2. ResetSessionState(state).st = state
  BY DEF ResetSessionState
<1> QED BY <1>1, <1>2, NodeStep

(* SequentialRangingController::DetectMasterChange.                        *)
LEMMA DetectMasterChangeStep ==
    ASSUME IInv, NEW n \in Nodes, NEW session \in View,
           DetectMasterChange(n, session), epoch' \in [Tags -> 0..MaxEpoch]
    PROVE  IInv'
<1> DEFINE state == SessionState(n, session)
<1>1. /\ view' = [view EXCEPT ![n] = session]
      /\ synced' = [synced EXCEPT ![n] = FALSE]
      /\ ctl' = [ctl EXCEPT ![n] = ResetSessionState(state)]
      /\ UNCHANGED <<uwb, result, inbox, published, summary>>
  BY DEF DetectMasterChange, SessionController
<1>2. state \in States /\ state # "AnchorRanging"
  BY DEF States, SessionState
<1> HIDE DEF state
<1>3. ResetSessionState(state) \in Controllers
  BY <1>2, ResetType DEF HonestControllers
<1>4. TypeOK'
  BY <1>1, <1>3 DEF IInv, TypeOK
<1>5. \A m \in Nodes \ {n} : view'[m] = view[m] /\ synced'[m] = synced[m]
  BY <1>1 DEF IInv, TypeOK
<1> QED BY <1>1, <1>2, <1>4, <1>5, ResetStep, HonestInbox

(* TagMasterCoordinator, NtpTimeSynchronizer and power cycles.             *)
LEMMA EnvironmentStep ==
    ASSUME IInv, NEW n \in Nodes, Environment(n)
    PROVE  IInv'
<1>1. CASE OpenSession(n)
  <2>1. /\ n \in Tags /\ epoch[n] \in 0..MaxEpoch /\ epoch[n] < MaxEpoch
        /\ epoch \in [Tags -> 0..MaxEpoch]
        /\ epoch' = [epoch EXCEPT ![n] = @ + 1]
        /\ DetectMasterChange(n, <<n, epoch[n] + 1>>)
    BY <1>1, NodeAssumption DEF OpenSession, IInv, TypeOK
  <2>2. epoch[n] + 1 \in 1..MaxEpoch /\ epoch[n] + 1 \in 0..MaxEpoch
    BY <2>1, BoundAssumption
  <2>3. <<n, epoch[n] + 1>> \in View
    BY <2>1, <2>2 DEF View, Sessions
  <2>4. epoch' \in [Tags -> 0..MaxEpoch]
    BY <2>1, <2>2
  <2> QED BY <2>1, <2>3, <2>4, DetectMasterChangeStep
<1>2. CASE FollowSession(n)
  <2>1. PICK session \in Announced(n) : DetectMasterChange(n, session)
    BY <1>2 DEF FollowSession
  <2>2. epoch' = epoch /\ epoch \in [Tags -> 0..MaxEpoch]
    BY <1>2 DEF FollowSession, IInv, TypeOK
  <2>3. session \in View
    BY DEF Announced, View
  <2> QED BY <2>1, <2>2, <2>3, DetectMasterChangeStep
<1>3. CASE LoseMaster(n)
  <2>1. epoch' \in [Tags -> 0..MaxEpoch] /\ NoSession \in View
    BY <1>3 DEF LoseMaster, IInv, TypeOK, View
  <2> QED BY <1>3, <2>1, DetectMasterChangeStep DEF LoseMaster
<1>4. CASE CompleteSynchronization(n) \/ StartResynchronization(n)
  <2>1. /\ UNCHANGED <<view, epoch, ctl, uwb, result, inbox, published, summary>>
        /\ \E value \in BOOLEAN : synced' = [synced EXCEPT ![n] = value]
    BY <1>4 DEF CompleteSynchronization, StartResynchronization
  <2>2. TypeOK'
    BY <2>1 DEF IInv, TypeOK
  <2>3. ASSUME NEW m \in Nodes, MayRange(m) PROVE MayRange(m)'
    <3>1. synced \in [Nodes -> BOOLEAN] /\ m \in Anchors
      BY <2>3 DEF IInv, TypeOK, MayRange
    <3>2. CASE CompleteSynchronization(n)
      BY <2>1, <2>3, <3>1, <3>2 DEF CompleteSynchronization, MayRange
    <3>3. CASE StartResynchronization(n)
      <4>1. m # n
        BY <3>1, <3>3, NodeFacts, NodeAssumption DEF StartResynchronization
      <4> QED BY <2>1, <2>3, <3>1, <3>3, <4>1 DEF StartResynchronization, MayRange
    <3> QED BY <1>4, <3>2, <3>3
  <2>4. AnchorsAreOnRoute'
    BY <2>1, <2>3 DEF IInv, AnchorsAreOnRoute, OnRoute
  <2> QED BY <2>1, <2>2, <2>4
          DEF IInv, PacketsAreHonest, AnchorsAreOnRoute, OnRoute,
              MayRange, StartedIsCurrent, CurrentJob, Job
<1>5. CASE Restart(n)
  <2> DEFINE reset == ResetSessionState("WaitingForMaster")
  <2>1. /\ view' = [view EXCEPT ![n] = NoSession]
        /\ synced' = [synced EXCEPT ![n] = FALSE]
        /\ ctl' = [ctl EXCEPT ![n] = reset]
        /\ uwb' = [uwb EXCEPT ![n] = [phase |-> "Idle", job |-> NoResult]]
        /\ result' = [result EXCEPT ![n] = NoResult]
        /\ inbox' = [inbox EXCEPT ![n] = <<>>]
        /\ UNCHANGED <<epoch, published, summary>>
    BY <1>5 DEF Restart
  <2>2. "WaitingForMaster" \in States
    BY DEF States
  <2>3. reset \in Controllers
    BY <2>2, ResetType DEF HonestControllers
  <2> HIDE DEF reset
  <2>4. <<>> \in Seq(Packets) /\ <<>> \in Seq(HonestPackets)
    BY EmptySeq
  <2>5. TypeOK'
    BY <2>1, <2>3, <2>4 DEF IInv, TypeOK, View
  <2>6. inbox' \in [Nodes -> Seq(HonestPackets)]
    BY <2>1, <2>4, HonestInbox
  <2>7. \A m \in Nodes \ {n} :
           /\ view'[m] = view[m] /\ synced'[m] = synced[m]
           /\ uwb'[m] = uwb[m] /\ result'[m] = result[m]
    BY <2>1 DEF IInv, TypeOK
  <2> QED BY <2>1, <2>2, <2>5, <2>6, <2>7, ResetStep DEF reset
<1> QED BY <1>1, <1>2, <1>3, <1>4, <1>5 DEF Environment

(* A step that changes nothing.                                            *)
LEMMA StutteringStep == IInv /\ UNCHANGED vars => IInv'
BY DEF vars, IInv, TypeOK, PacketsAreHonest, AnchorsAreOnRoute, OnRoute, MayRange,
       StartedIsCurrent, CurrentJob, Job

-----------------------------------------------------------------------------
(* The induction step.                                                     *)
LEMMA NextIInv == IInv /\ [Next]_vars => IInv'
<1> SUFFICES ASSUME IInv, [Next]_vars PROVE IInv'
  OBVIOUS
<1>1. CASE UNCHANGED vars
  BY <1>1, StutteringStep
<1>2. ASSUME NEW n \in Nodes, Cycle(n) PROVE IInv'
  BY <1>2, ProcessReceivedPacketsStep, UpdateAnchorStep, TryStartRoundStep,
     RoundDeadlineStep, TrySendNextPacketStep DEF Cycle
<1>3. ASSUME NEW n \in Nodes, Uwb(n) PROVE IInv'
  BY <1>3, UwbStep
<1>4. ASSUME NEW n \in Nodes, Environment(n) PROVE IInv'
  BY <1>4, EnvironmentStep
<1> QED BY <1>1, <1>2, <1>3, <1>4 DEF Next

(* The inductive invariant holds for any number of nodes, TAGs, sessions   *)
(* and rounds, any queue capacity and any combination of the faults.       *)
THEOREM InvariantHolds == Spec => []IInv
BY InitIInv, NextIInv, PTL DEF Spec

(* The state of every node, and every packet, is well formed.              *)
THEOREM TypeCorrect == Spec => []TypeOK
<1>1. IInv => TypeOK
  BY DEF IInv
<1> QED BY InvariantHolds, <1>1, PTL

(* No queued packet carries a distance that was ranged for another         *)
(* session, round or tag.                                                  *)
THEOREM NoStaleMeasurement == Spec => []MeasurementsFromTheirRound
<1>1. ASSUME NEW queue \in Seq(HonestPackets) PROVE AllFromTheirRound(queue)
  BY ElementOfSeq DEF AllFromTheirRound, HonestPackets
<1>2. IInv => MeasurementsFromTheirRound
  BY <1>1 DEF IInv, PacketsAreHonest, HonestControllers, MeasurementsFromTheirRound
<1> QED BY InvariantHolds, <1>2, PTL

(* Only UpdateAnchor starts a ranging, and only at a place of the route    *)
(* the ANCHOR took over, so it is synchronized with the master it follows. *)
LEMMA OnlyUpdateAnchorStarts ==
    ASSUME IInv, [Next]_vars, NEW a \in Anchors,
           uwb[a].phase # "Waiting", uwb'[a].phase = "Waiting"
    PROVE  UpdateAnchor(a)
<1>1. a \in Nodes /\ uwb \in [Nodes -> [phase : {"Idle", "Waiting", "Draining"},
                                       job : Jobs \cup {NoResult}]]
  BY DEF Nodes, IInv, TypeOK
<1>2. uwb' # uwb
  OBVIOUS
<1>3. PICK n \in Nodes : Cycle(n) \/ Uwb(n) \/ Environment(n)
  BY <1>2 DEF Next, vars
<1>4. CASE UpdateAnchor(n)
  <2>1. uwb' = uwb \/ \E value : uwb' = [uwb EXCEPT ![n] = value]
    BY <1>4 DEF UpdateAnchor, ProceedAlongRoute
  <2>2. n = a
    BY <1>1, <1>3, <2>1
  <2> QED BY <1>4, <2>2
<1>5. CASE Cycle(n) /\ ~UpdateAnchor(n)
  BY <1>2, <1>5 DEF Cycle, ProcessReceivedPackets, TryStartRound, RoundDeadline,
                    TrySendNextPacket
<1>6. CASE Uwb(n)
  <2>1. \E phase \in {"Idle", "Draining"} : uwb' = [uwb EXCEPT ![n].phase = phase]
    BY <1>6 DEF Uwb, UwbRespond, UwbTimeout, UwbComplete, UwbDrained
  <2> QED BY <1>1, <1>3, <2>1
<1>7. CASE Environment(n)
  <2>1. uwb' = uwb \/ uwb' = [uwb EXCEPT ![n] = [phase |-> "Idle", job |-> NoResult]]
    BY <1>7 DEF Environment, OpenSession, FollowSession, LoseMaster,
                DetectMasterChange, CompleteSynchronization,
                StartResynchronization, Restart
  <2> QED BY <1>1, <1>2, <1>3, <2>1
<1> QED BY <1>3, <1>4, <1>5, <1>6, <1>7

-----------------------------------------------------------------------------
(* The outgoing queues hold packets of the current session only.           *)
QueuesAreOwn == \A n \in Nodes : QueuesOwn(view[n], ctl[n])

(* A step that puts one controller in place, whatever the session of that  *)
(* node, need only be checked there.                                       *)
LEMMA OwnStep ==
    ASSUME IInv, QueuesAreOwn, NEW n \in Nodes, NEW next,
           ctl' = [ctl EXCEPT ![n] = next],
           \A m \in Nodes \ {n} : view'[m] = view[m],
           QueuesOwn(view'[n], next)
    PROVE  QueuesAreOwn'
<1>1. ctl'[n] = next /\ \A m \in Nodes \ {n} : ctl'[m] = ctl[m]
  BY DEF IInv, TypeOK
<1>2. ASSUME NEW m \in Nodes PROVE QueuesOwn(view'[m], ctl'[m])
  <2>1. CASE m = n
    BY <1>1, <2>1
  <2>2. CASE m # n
    BY <1>1, <2>2 DEF QueuesAreOwn
  <2> QED BY <2>1, <2>2
<1> QED BY <1>2 DEF QueuesAreOwn, QueuesOwn

(* Closing a round queues its summaries and perhaps the next control.      *)
LEMMA CompleteMasterRoundOwn ==
    ASSUME IInv, QueuesAreOwn, NEW n \in Nodes, IsMaster(n),
           NEW c \in HonestControllers, QueuesOwn(view[n], c),
           CompleteMasterRound(n, c), view' = view
    PROVE  QueuesAreOwn'
<1> DEFINE queued == QueueRoundCompleteForFollowers(n, c)
<1>1. view[n] \in Sessions
  BY NodeFacts
<1>2. queued \in HonestControllers /\ QueuesOwn(view[n], queued)
  BY <1>1, QueueRoundCompleteForFollowersType
<1> HIDE DEF queued
<1>3. PICK next \in NextRoundControllers(n, queued) : ctl' = [ctl EXCEPT ![n] = next]
  BY DEF CompleteMasterRound, queued
<1>4. QueuesOwn(view[n], next)
  BY <1>1, <1>2, NextRoundType
<1> QED BY <1>3, <1>4, OwnStep

(* SequentialRangingController::ProcessReceivedPackets: whatever a handler *)
(* queues, it stamps with the session it has just checked.                 *)
LEMMA ProcessReceivedPacketsOwn ==
    ASSUME IInv, QueuesAreOwn, NEW n \in Nodes, ProcessReceivedPackets(n)
    PROVE  QueuesAreOwn'
<1> DEFINE packet == Head(inbox[n])
<1>1. /\ inbox[n] # <<>>
      /\ view' = view
      /\ \/ HandleControl(n, packet)
         \/ HandleMeasurement(n, packet)
         \/ HandleMeasurementForward(n, packet)
         \/ HandleRoundComplete(n, packet)
  BY DEF ProcessReceivedPackets
<1>2. packet \in HonestPackets
  BY <1>1, ConsumeType DEF HandleControl, HandleMeasurement,
     HandleMeasurementForward, HandleRoundComplete, Ignore
<1>3. /\ ctl[n] \in HonestControllers /\ QueuesOwn(view[n], ctl[n])
      /\ ctl \in [Nodes -> Controllers]
  BY NodeFacts DEF IInv, TypeOK, QueuesAreOwn
<1> HIDE DEF packet
<1>4. ASSUME NEW next, ctl' = [ctl EXCEPT ![n] = next], SameQueues(ctl[n], next)
      PROVE  QueuesAreOwn'
  <2>1. QueuesOwn(view'[n], next)
    BY <1>1, <1>3, <1>4 DEF SameQueues, QueuesOwn
  <2> QED BY <1>1, <1>4, <2>1, OwnStep
<1>5. CASE Ignore(n)
  <2>1. ctl' = [ctl EXCEPT ![n] = ctl[n]]
    BY <1>3, <1>5 DEF Ignore
  <2>2. SameQueues(ctl[n], ctl[n])
    BY DEF SameQueues
  <2> QED BY <1>4, <2>1, <2>2
<1>6. CASE HandleControl(n, packet) /\ ~Ignore(n)
  <2>1. packet \in ControlPackets
    BY <1>2, <1>6, PacketKinds DEF HandleControl
  <2>2. ctl' = [ctl EXCEPT ![n] = TakeRoute(ctl[n], packet)]
    BY <1>3, <1>6 DEF HandleControl
  <2>3. SameQueues(ctl[n], TakeRoute(ctl[n], packet))
    BY <1>3, <2>1, TakeRouteType
  <2> QED BY <1>4, <2>2, <2>3
<1>7. CASE HandleMeasurement(n, packet) /\ ~Ignore(n)
  <2>1. packet \in MeasurementPackets
    BY <1>2, <1>7, PacketKinds DEF HandleMeasurement
  <2>2. IsMaster(n) /\ packet.session = view[n]
    BY <1>7 DEF HandleMeasurement, AcceptsMeasurement
  <2> DEFINE taken == TakeMeasurement(ctl[n], packet)
  <2>3. taken \in HonestControllers /\ QueuesOwn(view[n], taken)
    BY <1>3, <2>1, TakeMeasurementType DEF SameQueues, QueuesOwn
  <2> HIDE DEF taken
  <2>4. PICK next \in ForwardedControllers(n, taken, packet) :
           IF next.received = Pairs(next.route)
           THEN CompleteMasterRound(n, next)
           ELSE ctl' = [ctl EXCEPT ![n] = next]
    BY <1>7 DEF HandleMeasurement, taken
  <2>5. next \in HonestControllers /\ QueuesOwn(view[n], next)
    <3>1. next \in {taken, QueueMeasurementForward(n, taken, packet)}
      BY <2>4 DEF ForwardedControllers
    <3> QED BY <1>2, <2>1, <2>2, <2>3, <3>1, QueueMeasurementForwardType
  <2>6. CASE next.received = Pairs(next.route)
    BY <1>1, <2>2, <2>4, <2>5, <2>6, CompleteMasterRoundOwn
  <2>7. CASE next.received # Pairs(next.route)
    BY <1>1, <2>4, <2>5, <2>7, OwnStep
  <2> QED BY <2>6, <2>7
<1>8. CASE HandleMeasurementForward(n, packet) /\ ~Ignore(n)
  <2> DEFINE c == AdoptForwardedRound(ctl[n], packet.round)
  <2>1. packet \in MeasurementPackets /\ packet.round \in Nat
    BY <1>2, <1>8, PacketKinds DEF HandleMeasurementForward, MeasurementPackets
  <2>2. c \in HonestControllers /\ SameQueues(ctl[n], c)
    BY <1>3, <2>1, AdoptForwardedRoundType
  <2> HIDE DEF c
  <2>3. \E next \in {c, TakeMeasurement(c, packet)} : ctl' = [ctl EXCEPT ![n] = next]
    BY <1>8 DEF HandleMeasurementForward, c
  <2>4. SameQueues(ctl[n], TakeMeasurement(c, packet))
    BY <2>1, <2>2, TakeMeasurementType DEF SameQueues
  <2> QED BY <1>4, <2>2, <2>3, <2>4
<1>9. CASE HandleRoundComplete(n, packet) /\ ~Ignore(n)
  <2>1. CASE AcceptsCompleteAsMaster(n, packet)
    <3>1. IsMaster(n) /\ CompleteMasterRound(n, ctl[n])
      BY <1>9, <2>1 DEF HandleRoundComplete, AcceptsCompleteAsMaster
    <3> QED BY <1>1, <1>3, <3>1, CompleteMasterRoundOwn
  <2>2. CASE ~AcceptsCompleteAsMaster(n, packet)
    <3> DEFINE next == [ctl[n] EXCEPT
                           !.round = packet.round,
                           !.lastComplete = [round |-> packet.round,
                                             sequence |-> packet.sequence]]
    <3>1. ctl' = [ctl EXCEPT ![n] = next]
      BY <1>9, <2>2 DEF HandleRoundComplete, FollowRoundComplete
    <3>2. SameQueues(ctl[n], next)
      BY <1>3 DEF SameQueues, Controllers
    <3> HIDE DEF next
    <3> QED BY <1>4, <3>1, <3>2
  <2> QED BY <2>1, <2>2
<1> QED BY <1>1, <1>5, <1>6, <1>7, <1>8, <1>9

(* SequentialRangingController::UpdateMaster queues for its own session.   *)
LEMMA UpdateMasterOwn ==
    ASSUME IInv, QueuesAreOwn, NEW n \in Nodes, TryStartRound(n) \/ RoundDeadline(n)
    PROVE  QueuesAreOwn'
<1>1. /\ IsMaster(n) /\ view[n] \in Sessions /\ view' = view
      /\ ctl[n] \in HonestControllers /\ QueuesOwn(view[n], ctl[n])
  BY NodeFacts DEF TryStartRound, RoundDeadline, QueuesAreOwn
<1>2. CASE TryStartRound(n)
  <2>1. PICK next \in NextRoundControllers(n, ctl[n]) :
           ctl' = [ctl EXCEPT ![n] = next]
    BY <1>2 DEF TryStartRound
  <2>2. QueuesOwn(view[n], next)
    BY <1>1, <2>1, NextRoundType
  <2> QED BY <1>1, <2>1, <2>2, OwnStep
<1>3. CASE RoundDeadline(n)
  BY <1>1, <1>3, CompleteMasterRoundOwn DEF RoundDeadline
<1> QED BY <1>2, <1>3

(* UpdateAnchor from its place on queues for its own session.              *)
LEMMA ProceedAlongRouteOwn ==
    ASSUME IInv, QueuesAreOwn, NEW n \in Nodes, ctl[n].st = "AnchorRanging",
           NEW count \in 0..(Len(ctl[n].route.tags) - ctl[n].tagIndex + 1),
           ProceedAlongRoute(n, ctl[n], count, CurrentJob(n)), view' = view
    PROVE  QueuesAreOwn'
<1> DEFINE c == ctl[n]
           moved == IF count = 0 THEN c
                    ELSE CompleteAnchorMeasurements(n, c, count, CurrentJob(n))
<1>1. /\ c \in HonestControllers /\ view[n] \in Sessions /\ OnRoute(c)
      /\ n \in Anchors /\ QueuesOwn(view[n], c)
  BY NodeFacts DEF IInv, AnchorsAreOnRoute, MayRange, QueuesAreOwn
<1>2. moved \in HonestControllers /\ QueuesOwn(view[n], moved)
  <2>1. CASE count = 0
    BY <1>1, <2>1
  <2>2. CASE count # 0
    <3>1. /\ count \in 1..(Len(c.route.tags) - c.tagIndex + 1)
          /\ CurrentJob(n) = Job(n, c.round, c.route.tags[c.tagIndex])
      BY <2>2 DEF CurrentJob
    <3> HIDE DEF c
    <3>2. /\ moved \in HonestControllers
          /\ Extends(c.high, RouteControls(view[n], c.round, c.route), moved.high)
          /\ Extends(c.low, Reports(view[n]), moved.low)
      BY <1>1, <2>2, <3>1, CompleteAnchorMeasurementsType
    <3>3. /\ RouteControls(view[n], c.round, c.route) \subseteq OwnPackets(view[n])
          /\ Reports(view[n]) \subseteq OwnPackets(view[n])
      BY HonestTypes DEF RouteControls, RouteClaim, Reports, OwnPackets
    <3> HIDE DEF moved
    <3> QED BY <1>1, <3>2, <3>3, ExtendsType DEF QueuesOwn
  <2> QED BY <2>1, <2>2
<1>3. \E next \in {moved, [moved EXCEPT !.started = TRUE]} :
         ctl' = [ctl EXCEPT ![n] = next]
  BY DEF ProceedAlongRoute
<1> HIDE DEF moved, c
<1>4. SameQueues(moved, [moved EXCEPT !.started = TRUE])
  BY <1>2 DEF SameQueues, HonestControllers, Controllers
<1>5. \A next \in {moved, [moved EXCEPT !.started = TRUE]} : QueuesOwn(view[n], next)
  BY <1>2, <1>4 DEF SameQueues, QueuesOwn
<1> QED BY <1>3, <1>5, OwnStep

(* SequentialRangingController::UpdateAnchor.                              *)
LEMMA UpdateAnchorOwn ==
    ASSUME IInv, QueuesAreOwn, NEW n \in Nodes, UpdateAnchor(n)
    PROVE  QueuesAreOwn'
<1> DEFINE c == ctl[n]
<1>1. view' = view
  BY DEF UpdateAnchor
<1>2. CASE UNCHANGED ctl
  BY <1>1, <1>2 DEF QueuesAreOwn, QueuesOwn
<1>3. CASE ctl' # ctl
  <2>1. /\ c.st = "AnchorRanging"
        /\ \/ \E count \in CompletedCounts(n, c, 0) :
                 ProceedAlongRoute(n, c, count, CurrentJob(n))
           \/ /\ c.started /\ result[n] # NoResult
              /\ \E count \in CompletedCounts(n, c, 1) :
                    ProceedAlongRoute(n, c, count, result[n])
    BY <1>3 DEF UpdateAnchor, CurrentJob
  <2>2. /\ c.tagIndex \in 1..Len(c.route.tags) /\ Len(c.route.tags) \in Nat
        /\ c.started /\ result[n] # NoResult => result[n] = CurrentJob(n)
    <3>1. c.route.tags \in Seq(Tags)
      BY DEF IInv, TypeOK, Controllers, Route
    <3> QED BY <2>1, <3>1, LenProperties
            DEF IInv, AnchorsAreOnRoute, OnRoute, StartedIsCurrent
  <2>3. PICK count \in CompletedCounts(n, c, 0) \cup CompletedCounts(n, c, 1) :
           ProceedAlongRoute(n, c, count, CurrentJob(n))
    BY <2>1, <2>2
  <2>4. count \in 0..(Len(c.route.tags) - c.tagIndex + 1)
    BY <2>2 DEF CompletedCounts
  <2> QED BY <1>1, <2>1, <2>3, <2>4, ProceedAlongRouteOwn
<1> QED BY <1>2, <1>3

(* SequentialRangingController::TrySendNextPacket only shortens a queue.   *)
LEMMA TrySendNextPacketOwn ==
    ASSUME IInv, QueuesAreOwn, NEW n \in Nodes, TrySendNextPacket(n)
    PROVE  QueuesAreOwn'
<1> DEFINE c == ctl[n]
<1>1. c \in Controllers /\ QueuesOwn(view[n], c) /\ view' = view
  BY NodeFacts DEF QueuesAreOwn, TrySendNextPacket
<1>2. CASE c.high # <<>> /\ ctl' = [ctl EXCEPT ![n].high = Tail(@)]
  <2>1. Tail(c.high) \in Seq(OwnPackets(view[n]))
    BY <1>1, <1>2, HeadTailProperties DEF QueuesOwn
  <2>2. QueuesOwn(view[n], [c EXCEPT !.high = Tail(@)])
    BY <1>1, <2>1 DEF QueuesOwn, Controllers
  <2> QED BY <1>1, <1>2, <2>2, OwnStep
<1>3. CASE c.low # <<>> /\ ctl' = [ctl EXCEPT ![n].low = Tail(@)]
  <2>1. Tail(c.low) \in Seq(OwnPackets(view[n]))
    BY <1>1, <1>3, HeadTailProperties DEF QueuesOwn
  <2>2. QueuesOwn(view[n], [c EXCEPT !.low = Tail(@)])
    BY <1>1, <2>1 DEF QueuesOwn, Controllers
  <2> QED BY <1>1, <1>3, <2>2, OwnStep
<1> QED BY <1>2, <1>3 DEF TrySendNextPacket

(* A change of session, or a restart, empties the queues with it.          *)
LEMMA EnvironmentOwn ==
    ASSUME IInv, QueuesAreOwn, NEW n \in Nodes, Environment(n)
    PROVE  QueuesAreOwn'
<1>1. view \in [Nodes -> View]
  BY DEF IInv, TypeOK
<1>2. CASE view' = view /\ ctl' = ctl
  BY <1>2 DEF QueuesAreOwn, QueuesOwn
<1>3. CASE \E state \in States : /\ ctl' = [ctl EXCEPT ![n] = ResetSessionState(state)]
                                 /\ \E session : view' = [view EXCEPT ![n] = session]
  <2>1. PICK state \in States : ctl' = [ctl EXCEPT ![n] = ResetSessionState(state)]
    BY <1>3
  <2>2. \A m \in Nodes \ {n} : view'[m] = view[m]
    BY <1>1, <1>3
  <2>3. QueuesOwn(view'[n], ResetSessionState(state))
    BY ResetType
  <2> QED BY <2>1, <2>2, <2>3, OwnStep
<1>4. CASE \E session : DetectMasterChange(n, session)
  <2>1. PICK session : DetectMasterChange(n, session)
    BY <1>4
  <2>2. SessionState(n, session) \in States
    BY DEF SessionState, States
  <2> QED BY <1>3, <2>1, <2>2 DEF DetectMasterChange, SessionController
<1>5. CASE Restart(n)
  <2>1. "WaitingForMaster" \in States
    BY DEF States
  <2> QED BY <1>3, <1>5, <2>1 DEF Restart
<1> QED BY <1>2, <1>4, <1>5
        DEF Environment, OpenSession, FollowSession, LoseMaster,
            CompleteSynchronization, StartResynchronization

(* The induction step, next to that of IInv.                               *)
LEMMA NextQueuesAreOwn == IInv /\ QueuesAreOwn /\ [Next]_vars => QueuesAreOwn'
<1> SUFFICES ASSUME IInv, QueuesAreOwn, [Next]_vars PROVE QueuesAreOwn'
  OBVIOUS
<1>1. CASE view' = view /\ ctl' = ctl
  BY <1>1 DEF QueuesAreOwn, QueuesOwn
<1>2. ASSUME NEW n \in Nodes, Cycle(n) PROVE QueuesAreOwn'
  BY <1>2, ProcessReceivedPacketsOwn, UpdateAnchorOwn, UpdateMasterOwn,
     TrySendNextPacketOwn DEF Cycle
<1>3. ASSUME NEW n \in Nodes, Uwb(n) PROVE QueuesAreOwn'
  BY <1>1, <1>3 DEF Uwb, UwbRespond, UwbTimeout, UwbComplete, UwbDrained
<1>4. ASSUME NEW n \in Nodes, Environment(n) PROVE QueuesAreOwn'
  BY <1>4, EnvironmentOwn
<1> QED BY <1>1, <1>2, <1>3, <1>4 DEF Next, vars

(* A node never sends a packet of a session it has left: whatever the      *)
(* handlers, the round and the route queue is stamped with the session the *)
(* node follows, and DetectMasterChange and a restart empty both queues.   *)
THEOREM NothingQueuedForOldSession == Spec => []QueuedForCurrentSession
<1>1. Init => QueuesAreOwn
  <2>1. "WaitingForMaster" \in States
    BY DEF States
  <2> QED BY <2>1, ResetType DEF Init, QueuesAreOwn
<1>2. ASSUME NEW session, NEW queue \in Seq(OwnPackets(session)),
             NEW i \in DOMAIN queue
      PROVE  queue[i].session = session
  BY <1>2, ElementOfSeq DEF OwnPackets
<1>3. QueuesAreOwn => QueuedForCurrentSession
  BY <1>2 DEF QueuesAreOwn, QueuesOwn, QueuedForCurrentSession
<1> QED BY InvariantHolds, NextQueuesAreOwn, <1>1, <1>3, PTL DEF Spec

(* docs/sequential-ranging-time-sync.md, section 14: after a change of     *)
(* master no ANCHOR ranges for either session until it is synchronized.    *)
THEOREM RangesWhenSynchronized == Spec => RangesOnlyWhenSynchronized
<1>1. ASSUME IInv, [Next]_vars, NEW a \in Anchors,
             uwb[a].phase # "Waiting", uwb'[a].phase = "Waiting"
      PROVE  synced[a] /\ uwb'[a].job.session = view[a]
  <2>1. UpdateAnchor(a)
    BY <1>1, OnlyUpdateAnchorStarts
  <2>2. /\ a \in Nodes
        /\ uwb \in [Nodes -> [phase : {"Idle", "Waiting", "Draining"},
                              job : Jobs \cup {NoResult}]]
    BY <1>1 DEF Nodes, IInv, TypeOK
  <2>3. ctl[a].st = "AnchorRanging"
    BY <1>1, <2>1 DEF UpdateAnchor
  <2>4. synced[a]
    BY <1>1, <2>2, <2>3 DEF IInv, AnchorsAreOnRoute, MayRange
  <2>5. \E value : /\ value.session = view[a]
                   /\ uwb' = [uwb EXCEPT ![a] = [phase |-> "Waiting", job |-> value]]
    BY <1>1, <2>1 DEF UpdateAnchor, ProceedAlongRoute, Job
  <2> QED BY <2>2, <2>4, <2>5
<1>2. IInv /\ [Next]_vars =>
         [\A a \in Anchors :
             uwb[a].phase # "Waiting" /\ uwb'[a].phase = "Waiting"
             => synced[a] /\ uwb'[a].job.session = view[a]]_vars
  BY <1>1
<1> QED BY InvariantHolds, <1>2, PTL DEF Spec, RangesOnlyWhenSynchronized

-----------------------------------------------------------------------------
(* The kinds of steps, by what they do to the rounds and the packets.      *)

(* A node at work puts a new controller in place and may take a packet.    *)
Works(n, next) ==
    /\ next \in HonestControllers
    /\ ctl' = [ctl EXCEPT ![n] = next]
    /\ inbox' = inbox \/ (inbox[n] # <<>> /\ Consume(n))
    /\ UNCHANGED <<view, epoch>>

(* Nothing that the nodes could agree on changes.                          *)
Waits(n, next) == next = ctl[n] /\ UNCHANGED <<published, summary>>

(* An ANCHOR takes the route of a control in its receive queue.            *)
Takes(n, next) ==
    /\ n \in Anchors /\ SameQueues(ctl[n], next)
    /\ \E packet \in Elements(inbox[n]) :
          /\ packet.type = "RangeControl" /\ AcceptsControl(n, packet)
          /\ packet.session = view[n]
          /\ next.round = packet.round /\ next.route = packet.route
          /\ next = TakeRoute(ctl[n], packet)
    /\ next.st = "AnchorRanging"
    /\ UNCHANGED <<published, summary>>

(* An ANCHOR reports results and hands its route over.                     *)
Ranges(n, next) ==
    /\ n \in Anchors /\ ctl[n].st = "AnchorRanging"
    /\ next.st \in {"AnchorRanging", "AnchorIdle"}
    /\ next.round = ctl[n].round /\ next.route = ctl[n].route
    /\ Extends(ctl[n].high,
               RouteControls(view[n], ctl[n].round, ctl[n].route), next.high)
    /\ Extends(ctl[n].low, Reports(view[n]), next.low)
    /\ PassesRoute(view[n], ctl[n], next)
    /\ next.lastControl = ctl[n].lastControl
    /\ UNCHANGED <<published, summary>>

(* A follower takes a packet of its master, and may publish it.            *)
Follows(n, next) ==
    LET packet == Head(inbox[n])
    IN  /\ n \in Tags /\ view[n] \in Sessions /\ ~IsMaster(n)
        /\ inbox[n] # <<>> /\ Consume(n)
        /\ FromMaster(packet) /\ packet.session = view[n]
        /\ SameQueues(ctl[n], next) /\ next.st = ctl[n].st
        /\ \/ UNCHANGED <<published, summary>>
           \/ /\ packet \in MeasurementPackets
              /\ PushMeasurement(n, packet) /\ UNCHANGED summary
           \/ /\ packet \in CompletePackets
              /\ summary' = [summary EXCEPT ![n] = SummaryOf(packet)]
              /\ UNCHANGED published

(* What a master sends of the round it runs: the pairs it has published of *)
(* that round, and the summary it publishes.                               *)
MasterPackets(n) ==
    MasterForwards([session |-> view[n], round |-> ctl[n].round], published'[n])
    \cup {p \in MasterSummaries(summary'[n]) :
             p.session = view[n] /\ p.round = ctl[n].round}

(* A master takes a measurement, closes the round it runs, opens another;  *)
(* it closes the round when its route has ended or its deadline passes.    *)
MayClose(n) == "deadline" \in Faults \/ IsEnded(n)
Leads(n, next) ==
    /\ IsMaster(n)
    /\ ctl[n].st = "RunningRound" => MayClose(n) \/ SameRound(ctl[n], next)
    /\ next.st = "RunningRound" /\ Size(next.route) \in next.received
       => SameRound(ctl[n], next) /\ IsEnded(n)
    /\ Extends(ctl[n].low, MasterPackets(n), next.low)
    /\ \/ UNCHANGED published
       \/ /\ ctl[n].st = "RunningRound"
          /\ \E packet \in MeasurementPackets :
                /\ packet.session = view[n] /\ packet.round = ctl[n].round
                /\ PushMeasurement(n, packet)
    /\ \/ UNCHANGED summary
       \/ /\ ctl[n].st = "RunningRound"
          /\ ~(next.st = "RunningRound" /\ next.round = ctl[n].round)
          /\ \E value : /\ value.session = view[n] /\ value.round = ctl[n].round
                        /\ summary' = [summary EXCEPT ![n] = value]
    /\ \/ SameRound(ctl[n], next) /\ next.high = ctl[n].high
       \/ /\ next.high = ctl[n].high
          /\ next.st \notin {"RunningRound", "AnchorRanging"}
          /\ next.round \in {ctl[n].round, ctl[n].round + 1}
       \/ /\ next.st = "RunningRound" /\ next.round = ctl[n].round + 1
          /\ next.route \in Snapshots
          /\ \E control \in RouteControls(view[n], next.round, next.route) :
                Extends(ctl[n].high, {control}, next.high)

(* The radio moves the head of a queue to the destination's receive queue. *)
ArrivesOnce(packet) ==
    \/ "duplicate" \in Faults
    \/ inbox'[packet.dst] \in {inbox[packet.dst], Append(inbox[packet.dst], packet)}
Sends(n, next) ==
    /\ next \in HonestControllers
    /\ ctl' = [ctl EXCEPT ![n] = next]
    /\ SameRound(ctl[n], next) /\ next.received = ctl[n].received
    /\ next.lastControl = ctl[n].lastControl
    /\ \E packet \in HonestPackets :
          /\ \/ /\ ctl[n].high # <<>> /\ packet = Head(ctl[n].high)
                /\ next.high = Tail(ctl[n].high) /\ next.low = ctl[n].low
             \/ /\ ctl[n].low # <<>> /\ packet = Head(ctl[n].low)
                /\ next.high = ctl[n].high /\ next.low = Tail(ctl[n].low)
          /\ packet.dst \in Nodes
          /\ Extends(inbox[packet.dst], {packet}, inbox'[packet.dst])
          /\ ArrivesOnce(packet)
          /\ \A m \in Nodes \ {packet.dst} : inbox'[m] = inbox[m]
    /\ UNCHANGED <<view, epoch, published, summary>>

(* A node starts over, in another session or in none.                      *)
LeavesSession(n) ==
    \/ inbox'[n] = <<>>
    \/ view'[n] # view[n] /\ (view'[n] = NoSession => "masterLost" \in Faults)
Resets(n, next) ==
    /\ LeavesSession(n)
    /\ next \in HonestControllers
    /\ ctl' = [ctl EXCEPT ![n] = next]
    /\ next.high = <<>> /\ next.low = <<>> /\ next.round = 0
    /\ next.st \notin {"RunningRound", "AnchorRanging"}
    /\ inbox'[n] \in {inbox[n], <<>>}
    /\ \A m \in Nodes \ {n} : inbox'[m] = inbox[m] /\ view'[m] = view[m]
    /\ next.lastControl = [round |-> 0, pair |-> 0, sequence |-> 0]
    /\ view'[n] # view[n] \/ "restart" \in Faults
    /\ \/ /\ view'[n] = NoSession /\ epoch' = epoch
          /\ "masterLost" \in Faults \/ "restart" \in Faults
       \/ view'[n] \in Announced(n) /\ epoch' = epoch
       \/ /\ n \in Tags /\ n \in MasterTags /\ ~IsMaster(n)
          /\ view'[n] = <<n, epoch[n] + 1>>
          /\ epoch' = [epoch EXCEPT ![n] = @ + 1]
    /\ UNCHANGED <<published, summary>>

(* Nothing but synchronization and the UWB driver changes.                 *)
Rests == UNCHANGED <<view, epoch, ctl, inbox, published, summary>>

(* Closing a round, after the packets the same handler queued before.      *)
LEMMA CompleteMasterRoundKind ==
    ASSUME IInv, NEW n \in Nodes, IsMaster(n), ctl[n].st = "RunningRound",
           MayClose(n), NEW c \in HonestControllers, SameRound(ctl[n], c),
           c.high = ctl[n].high,
           Extends(ctl[n].low,
                   MasterForwards([session |-> view[n], round |-> ctl[n].round],
                                  published'[n]), c.low),
           CompleteMasterRound(n, c),
           \/ UNCHANGED published
           \/ \E packet \in MeasurementPackets :
                 /\ packet.session = view[n] /\ packet.round = ctl[n].round
                 /\ PushMeasurement(n, packet)
    PROVE  \E next \in HonestControllers :
              ctl' = [ctl EXCEPT ![n] = next] /\ Leads(n, next)
<1> DEFINE queued == QueueRoundCompleteForFollowers(n, c)
           value == PublishedSummary(n, c)
           forwards == MasterForwards([session |-> view[n], round |-> ctl[n].round],
                                      published'[n])
<1>1. view[n] \in Sessions /\ n \in Tags
  BY NodeFacts
<1>2. /\ queued \in HonestControllers /\ SameRound(c, queued)
      /\ queued.high = c.high
      /\ Extends(c.low, MasterSummaries(value), queued.low)
  BY <1>1, FollowersEffect
<1>3. value.session = view[n] /\ value.round = ctl[n].round
  BY DEF PublishedSummary, SameRound
<1>4. summary' = [summary EXCEPT ![n] = value] /\ summary'[n] = value
  BY <1>1 DEF CompleteMasterRound, IInv, TypeOK
<1>5. PICK next \in NextRoundControllers(n, queued) : ctl' = [ctl EXCEPT ![n] = next]
  BY DEF CompleteMasterRound
<1> HIDE DEF queued, value
<1>6. RoundOpened(n, queued, next) /\ next \in HonestControllers
  BY <1>1, <1>2, NextRoundEffect, NextRoundType
<1>7. Extends(ctl[n].low, MasterPackets(n), next.low)
  <2>1. MasterSummaries(value) \subseteq MasterPackets(n)
    BY <1>3, <1>4 DEF MasterPackets, MasterSummaries, SummaryOf
  <2>2. forwards \subseteq MasterPackets(n)
    BY DEF MasterPackets
  <2>3. /\ Extends(ctl[n].low, MasterPackets(n), c.low)
        /\ Extends(c.low, MasterPackets(n), queued.low)
    BY <1>2, <2>1, <2>2, ExtendsMonotone
  <2>4. ctl[n].low \in Seq(Packets)
    BY NodeFacts DEF Controllers
  <2> QED BY <1>6, <2>3, <2>4, ExtendsTransitive DEF RoundOpened
<1>8. /\ queued.high = ctl[n].high /\ queued.round = ctl[n].round
      /\ ctl[n].round \in Nat
  BY <1>2, NodeFacts DEF SameRound, Controllers
<1>9. \/ /\ next.high = ctl[n].high
         /\ next.st \notin {"RunningRound", "AnchorRanging"}
         /\ next.round \in {ctl[n].round, ctl[n].round + 1}
      \/ /\ next.st = "RunningRound" /\ next.round = ctl[n].round + 1
         /\ next.route \in Snapshots /\ next.received = {}
         /\ \E control \in RouteControls(view[n], next.round, next.route) :
               Extends(ctl[n].high, {control}, next.high)
  BY <1>6, <1>8 DEF RoundOpened
<1>10. ~(next.st = "RunningRound" /\ next.round = ctl[n].round)
  BY <1>8, <1>9
<1>11. ~(next.st = "RunningRound" /\ Size(next.route) \in next.received)
  BY <1>9
<1>12. Leads(n, next)
  <2> HIDE DEF Leads
  <2>1. /\ \/ SameRound(ctl[n], next) /\ next.high = ctl[n].high
           \/ /\ next.high = ctl[n].high
              /\ next.st \notin {"RunningRound", "AnchorRanging"}
              /\ next.round \in {ctl[n].round, ctl[n].round + 1}
           \/ /\ next.st = "RunningRound" /\ next.round = ctl[n].round + 1
              /\ next.route \in Snapshots
              /\ \E control \in RouteControls(view[n], next.round, next.route) :
                    Extends(ctl[n].high, {control}, next.high)
    BY <1>9
  <2> QED BY <1>3, <1>4, <1>7, <1>10, <1>11, <2>1 DEF Leads
<1> QED BY <1>5, <1>6, <1>12

(* SequentialRangingController::ProcessReceivedPackets.                    *)
LEMMA ProcessReceivedPacketsKind ==
    ASSUME IInv, NEW n \in Nodes, ProcessReceivedPackets(n)
    PROVE  \E next : /\ Works(n, next)
                     /\ \/ Waits(n, next) \/ Takes(n, next)
                        \/ Follows(n, next) \/ Leads(n, next)
<1> DEFINE packet == Head(inbox[n])
<1>1. /\ inbox[n] # <<>>
      /\ UNCHANGED <<view, epoch>>
      /\ \/ HandleControl(n, packet)
         \/ HandleMeasurement(n, packet)
         \/ HandleMeasurementForward(n, packet)
         \/ HandleRoundComplete(n, packet)
  BY DEF ProcessReceivedPackets
<1>2. Consume(n)
  BY <1>1 DEF HandleControl, HandleMeasurement, HandleMeasurementForward,
              HandleRoundComplete, Ignore
<1>3. /\ packet \in HonestPackets /\ packet \in Elements(inbox[n])
      /\ packet \in InFlight
  <2>1. packet \in HonestPackets /\ packet \in Elements(inbox[n])
    BY <1>1, <1>2, ConsumeType, NodeFacts, TailElements
  <2> HIDE DEF packet
  <2> QED BY <2>1 DEF InFlight, PacketsOf
<1>4. /\ ctl[n] \in HonestControllers /\ ctl[n] \in Controllers
      /\ IsMaster(n) => view[n] \in Sessions /\ n \in Tags
      /\ view[n] # NoSession => view[n] \in Sessions
      /\ ctl \in [Nodes -> Controllers]
  BY NodeFacts DEF IInv, TypeOK
<1>5. ASSUME NEW next \in HonestControllers, ctl' = [ctl EXCEPT ![n] = next]
      PROVE  Works(n, next)
  BY <1>1, <1>2, <1>5 DEF Works
<1>6. CASE Ignore(n)
  <2>1. ctl' = [ctl EXCEPT ![n] = ctl[n]] /\ UNCHANGED <<published, summary>>
    BY <1>4, <1>6 DEF Ignore
  <2>2. Waits(n, ctl[n])
    BY <2>1 DEF Waits
  <2> QED BY <1>4, <1>5, <2>1, <2>2
<1>7. CASE HandleControl(n, packet) /\ AcceptsControl(n, packet)
  <2> DEFINE next == TakeRoute(ctl[n], packet)
  <2>1. /\ ctl' = [ctl EXCEPT ![n] = next]
        /\ UNCHANGED <<published, summary>>
        /\ n \in Anchors /\ packet.session = view[n]
        /\ packet.type = "RangeControl" /\ next = TakeRoute(ctl[n], packet)
    BY <1>7 DEF HandleControl, AcceptsControl, AddressesAnchor
  <2>2. packet \in ControlPackets
    BY <1>3, <2>1, PacketKinds
  <2>3. next \in HonestControllers /\ SameQueues(ctl[n], next)
    BY <1>4, <2>2, TakeRouteType
  <2>4. next.round = packet.round /\ next.route = packet.route
        /\ next.st = "AnchorRanging"
    BY <1>4, TakeRouteFields
  <2> HIDE DEF next
  <2>5. Takes(n, next)
    BY <1>3, <1>7, <2>1, <2>3, <2>4 DEF Takes
  <2> QED BY <1>5, <2>1, <2>3, <2>5
<1>8. CASE HandleMeasurement(n, packet) /\ AcceptsMeasurement(n, packet)
  <2> DEFINE taken == TakeMeasurement(ctl[n], packet)
             key == [session |-> view[n], round |-> ctl[n].round]
             forwards == MasterForwards(key, published'[n])
  <2>1. packet \in MeasurementPackets
    BY <1>3, <1>8, PacketKinds DEF HandleMeasurement
  <2>2. /\ IsMaster(n) /\ n \in Tags /\ ctl[n].st = "RunningRound"
        /\ packet.session = view[n] /\ packet.round = ctl[n].round
        /\ packet.size = Size(ctl[n].route) /\ packet.type = "RangeMeasurement"
        /\ PushMeasurement(n, packet)
    BY <1>4, <1>8 DEF HandleMeasurement, AcceptsMeasurement, IsOfRound
  <2>3. /\ published'[n].key = key
        /\ <<packet.anchor, packet.tag>> \in published'[n].pairs
    BY <2>2 DEF PushMeasurement, IInv, TypeOK
  <2>4. /\ taken \in HonestControllers /\ SameQueues(ctl[n], taken)
        /\ SameRound(ctl[n], taken)
    BY <1>4, <2>1, TakeMeasurementType, TakeMeasurementFields
  <2>10. taken.received = ctl[n].received \cup {packet.index}
    BY <1>4 DEF TakeMeasurement, Controllers
  <2> HIDE DEF taken
  <2>5. PICK next \in ForwardedControllers(n, taken, packet) :
           IF next.received = Pairs(next.route)
           THEN CompleteMasterRound(n, next)
           ELSE ctl' = [ctl EXCEPT ![n] = next] /\ UNCHANGED summary
    BY <1>8 DEF HandleMeasurement, taken
  <2>6. /\ next \in HonestControllers /\ SameRound(ctl[n], next)
        /\ next.high = ctl[n].high
        /\ Extends(ctl[n].low, forwards, next.low)
        /\ next.received = taken.received
    <3>1. CASE next = taken
      <4>1. ctl[n].low \in Seq(Packets)
        BY <1>4 DEF Controllers
      <4> QED BY <2>4, <3>1, <4>1, ExtendsReflexive DEF SameQueues
    <3>2. CASE next = QueueMeasurementForward(n, taken, packet)
      <4>1. /\ next \in HonestControllers
            /\ SameRound(taken, next) /\ next.high = taken.high
            /\ Extends(taken.low, forwards, next.low)
            /\ next.received = taken.received
        BY <1>3, <2>1, <2>2, <2>3, <2>4, <3>2, ForwardEffect
      <4> QED BY <2>4, <4>1 DEF SameRound, SameQueues
    <3> QED BY <2>5, <3>1, <3>2 DEF ForwardedControllers
  <2>9. Size(ctl[n].route) \in next.received => IsEnded(n)
    <3>1. CASE packet.index = Size(ctl[n].route)
      BY <1>3, <2>2, <3>1 DEF IsEnded, EndsRoute
    <3>2. CASE packet.index # Size(ctl[n].route)
      BY <2>6, <2>10, <3>2 DEF IsEnded
    <3> QED BY <3>1, <3>2
  <2>7. CASE next.received = Pairs(next.route)
    <3>1. packet.index \in Pairs(ctl[n].route)
      BY <2>6, <2>7, <2>10 DEF SameRound
    <3>2. Size(ctl[n].route) \in Pairs(ctl[n].route)
      <4>1. Len(ctl[n].route.anchors) \in Nat /\ Len(ctl[n].route.tags) \in Nat
        BY <1>4, LenProperties DEF Controllers, Route
      <4>2. PICK i \in 1..Len(ctl[n].route.anchors), j \in 1..Len(ctl[n].route.tags) : TRUE
        BY <3>1 DEF Pairs
      <4>3. /\ Len(ctl[n].route.anchors) \in 1..Len(ctl[n].route.anchors)
            /\ Len(ctl[n].route.tags) \in 1..Len(ctl[n].route.tags)
        BY <4>1, <4>2
      <4> QED BY <4>3 DEF Pairs, Size
    <3>3. MayClose(n)
      BY <2>6, <2>7, <2>9, <3>2 DEF MayClose, SameRound
    <3>4. \E last \in HonestControllers :
             ctl' = [ctl EXCEPT ![n] = last] /\ Leads(n, last)
      BY <2>1, <2>2, <2>5, <2>6, <2>7, <3>3, CompleteMasterRoundKind
    <3> QED BY <1>5, <3>4
  <2>8. CASE next.received # Pairs(next.route)
    <3>1. Extends(ctl[n].low, MasterPackets(n), next.low)
      BY <2>6, ExtendsMonotone DEF MasterPackets
    <3>3. Size(next.route) \in next.received => IsEnded(n)
      BY <2>6, <2>9 DEF SameRound
    <3>2. Leads(n, next)
      BY <2>1, <2>2, <2>5, <2>6, <2>8, <3>1, <3>3 DEF Leads
    <3> QED BY <1>5, <2>5, <2>6, <2>8, <3>2
  <2> QED BY <2>7, <2>8
<1>9. CASE HandleMeasurementForward(n, packet) /\ ~Ignore(n)
  <2> DEFINE c == AdoptForwardedRound(ctl[n], packet.round)
  <2>1. packet \in MeasurementPackets /\ packet.round \in Nat
    BY <1>3, <1>9, PacketKinds DEF HandleMeasurementForward, MeasurementPackets
  <2>2. /\ n \in Tags /\ view[n] \in Sessions /\ ~IsMaster(n)
        /\ FromMaster(packet) /\ packet.session = view[n]
    BY <1>4, <1>9 DEF HandleMeasurementForward, FromMaster, MasterOf
  <2>3. c \in HonestControllers /\ SameQueues(ctl[n], c) /\ c.st = ctl[n].st
    BY <1>4, <2>1, AdoptForwardedRoundType
  <2> HIDE DEF c
  <2>4. /\ IF IsFresh(c, packet)
           THEN /\ ctl' = [ctl EXCEPT ![n] = TakeMeasurement(c, packet)]
                /\ PushMeasurement(n, packet)
           ELSE ctl' = [ctl EXCEPT ![n] = c] /\ UNCHANGED published
        /\ UNCHANGED summary
    BY <1>9 DEF HandleMeasurementForward, c
  <2>5. CASE IsFresh(c, packet)
    <3> DEFINE next == TakeMeasurement(c, packet)
    <3>1. next \in HonestControllers /\ SameQueues(c, next) /\ next.st = c.st
      BY <2>1, <2>3, TakeMeasurementType
    <3> HIDE DEF next
    <3>2. Follows(n, next)
      BY <1>1, <1>2, <2>1, <2>2, <2>3, <2>4, <2>5, <3>1 DEF Follows, SameQueues
    <3>3. ctl' = [ctl EXCEPT ![n] = next]
      BY <2>4, <2>5 DEF next
    <3> QED BY <1>5, <3>1, <3>2, <3>3
  <2>6. CASE ~IsFresh(c, packet)
    <3>1. Follows(n, c)
      BY <1>1, <1>2, <2>2, <2>3, <2>4, <2>6 DEF Follows
    <3> QED BY <1>5, <2>3, <2>4, <2>6, <3>1
  <2> QED BY <2>5, <2>6
<1>10. CASE HandleRoundComplete(n, packet) /\ AcceptsCompleteAsMaster(n, packet)
  <2>1. /\ IsMaster(n) /\ ctl[n].st = "RunningRound"
        /\ CompleteMasterRound(n, ctl[n]) /\ UNCHANGED published
        /\ MayClose(n)
    BY <1>3, <1>10 DEF HandleRoundComplete, AcceptsCompleteAsMaster, MayClose,
                       IsEnded, EndsRoute
  <2>2. ctl[n].low \in Seq(Packets)
    BY <1>4 DEF Controllers
  <2>3. Extends(ctl[n].low,
                MasterForwards([session |-> view[n], round |-> ctl[n].round],
                               published'[n]), ctl[n].low)
    BY <2>2, ExtendsReflexive
  <2>4. SameRound(ctl[n], ctl[n])
    BY DEF SameRound
  <2>5. \E last \in HonestControllers :
           ctl' = [ctl EXCEPT ![n] = last] /\ Leads(n, last)
    BY <1>4, <2>1, <2>3, <2>4, CompleteMasterRoundKind
  <2> QED BY <1>5, <2>5
<1>11. CASE HandleRoundComplete(n, packet) /\ ~AcceptsCompleteAsMaster(n, packet)
            /\ AcceptsCompleteAsFollower(n, packet)
  <2> DEFINE next == [ctl[n] EXCEPT
                         !.round = packet.round,
                         !.lastComplete = [round |-> packet.round,
                                           sequence |-> packet.sequence]]
  <2>1. packet \in CompletePackets /\ packet.round \in Nat /\ packet.sequence \in Nat
    BY <1>3, <1>11, PacketKinds DEF HandleRoundComplete, CompletePackets
  <2>2. /\ n \in Tags /\ view[n] \in Sessions /\ ~IsMaster(n)
        /\ FromMaster(packet) /\ packet.session = view[n]
        /\ FollowRoundComplete(n, packet) /\ UNCHANGED published
    BY <1>4, <1>11 DEF HandleRoundComplete, AcceptsCompleteAsFollower, FromMaster,
                       MasterOf
  <2>3. /\ ctl' = [ctl EXCEPT ![n] = next]
        /\ summary' = [summary EXCEPT ![n] = SummaryOf(packet)]
    BY <2>2 DEF FollowRoundComplete, SummaryOf
  <2>4. /\ next \in HonestControllers /\ next.st = ctl[n].st
        /\ SameQueues(ctl[n], next)
    <3> DEFINE last == [round |-> packet.round, sequence |-> packet.sequence]
    <3>1. last \in [round : Nat, sequence : Nat]
      BY <2>1
    <3> HIDE DEF last
    <3>2. next = [ctl[n] EXCEPT !.round = packet.round, !.lastComplete = last]
      BY DEF last
    <3> HIDE DEF next
    <3> QED BY <1>4, <2>1, <3>1, <3>2 DEF HonestControllers, Controllers, SameQueues
  <2> HIDE DEF next
  <2>5. Follows(n, next)
    BY <1>1, <1>2, <2>1, <2>2, <2>3, <2>4 DEF Follows
  <2> QED BY <1>5, <2>3, <2>4, <2>5
<1> QED BY <1>1, <1>6, <1>7, <1>8, <1>9, <1>10, <1>11
        DEF HandleControl, HandleMeasurement, HandleMeasurementForward,
            HandleRoundComplete

(* SequentialRangingController::UpdateMaster.                              *)
LEMMA UpdateMasterKind ==
    ASSUME IInv, NEW n \in Nodes, TryStartRound(n) \/ RoundDeadline(n)
    PROVE  \E next : Works(n, next) /\ Leads(n, next)
<1>1. /\ IsMaster(n) /\ view[n] \in Sessions
      /\ UNCHANGED <<view, epoch, inbox, published>>
      /\ ctl[n] \in HonestControllers /\ ctl[n].low \in Seq(Packets)
  BY NodeFacts DEF TryStartRound, RoundDeadline, Controllers
<1>2. ASSUME NEW S PROVE Extends(ctl[n].low, S, ctl[n].low)
  BY <1>1, ExtendsReflexive
<1>3. CASE TryStartRound(n)
  <2>1. PICK next \in NextRoundControllers(n, ctl[n]) :
           ctl' = [ctl EXCEPT ![n] = next]
    BY <1>3 DEF TryStartRound
  <2>2. next \in HonestControllers /\ RoundOpened(n, ctl[n], next)
    BY <1>1, <2>1, NextRoundType, NextRoundEffect
  <2>3. Extends(ctl[n].low, MasterPackets(n), next.low)
    BY <1>2, <2>2 DEF RoundOpened
  <2>5. ctl[n].st # "RunningRound" /\ UNCHANGED summary
    BY <1>3 DEF TryStartRound
  <2>6. next.st = "RunningRound" => next.received = {}
    BY <2>2 DEF RoundOpened
  <2>4. Leads(n, next)
    BY <1>1, <2>2, <2>3, <2>5, <2>6 DEF Leads, RoundOpened
  <2> QED BY <1>1, <2>1, <2>2, <2>4 DEF Works
<1>4. CASE RoundDeadline(n)
  <2>1. SameRound(ctl[n], ctl[n])
    BY DEF SameRound
  <2>2. \E next \in HonestControllers :
           ctl' = [ctl EXCEPT ![n] = next] /\ Leads(n, next)
    BY <1>1, <1>2, <1>4, <2>1, CompleteMasterRoundKind
       DEF RoundDeadline, DeadlinePassed, MayClose
  <2> QED BY <1>1, <2>2 DEF Works
<1> QED BY <1>1, <1>3, <1>4

(* UpdateAnchor from its place on.                                         *)
LEMMA ProceedAlongRouteKind ==
    ASSUME IInv, NEW n \in Nodes, ctl[n].st = "AnchorRanging",
           NEW count \in 0..(Len(ctl[n].route.tags) - ctl[n].tagIndex + 1),
           ProceedAlongRoute(n, ctl[n], count, CurrentJob(n)),
           UNCHANGED <<published, summary>>
    PROVE  \E next \in HonestControllers :
              ctl' = [ctl EXCEPT ![n] = next] /\ Ranges(n, next)
<1> DEFINE c == ctl[n]
           moved == IF count = 0 THEN c
                    ELSE CompleteAnchorMeasurements(n, c, count, CurrentJob(n))
           H == RouteControls(view[n], c.round, c.route)
           L == Reports(view[n])
<1>1. /\ c \in HonestControllers /\ c \in Controllers
      /\ view[n] \in Sessions /\ OnRoute(c) /\ n \in Anchors
      /\ c.high \in Seq(ControlPackets) /\ c.low \in Seq(Packets)
  BY NodeFacts DEF IInv, AnchorsAreOnRoute, MayRange, Controllers
<1>2. /\ moved \in HonestControllers
      /\ moved.round = c.round /\ moved.route = c.route
      /\ moved.st \in {"AnchorRanging", "AnchorIdle"}
      /\ Extends(c.high, H, moved.high) /\ Extends(c.low, L, moved.low)
      /\ PassesRoute(view[n], c, moved) /\ moved.lastControl = c.lastControl
  <2>1. CASE count = 0
    BY <1>1, <2>1, ExtendsReflexive DEF PassesRoute
  <2>2. CASE count # 0
    <3>1. /\ count \in 1..(Len(c.route.tags) - c.tagIndex + 1)
          /\ CurrentJob(n) = Job(n, c.round, c.route.tags[c.tagIndex])
      BY <2>2 DEF CurrentJob
    <3> HIDE DEF c
    <3>2. c.st = "AnchorRanging"
      BY DEF c
    <3> QED BY <1>1, <2>2, <3>1, <3>2, CompleteAnchorMeasurementsType
  <2> QED BY <2>1, <2>2
<1>3. \E next \in {moved, [moved EXCEPT !.started = TRUE]} :
         ctl' = [ctl EXCEPT ![n] = next]
  BY DEF ProceedAlongRoute
<1> HIDE DEF moved, H, L
<1>4. ASSUME NEW next \in {moved, [moved EXCEPT !.started = TRUE]}
      PROVE  /\ next \in HonestControllers /\ next.st = moved.st
             /\ next.round = moved.round /\ next.route = moved.route
             /\ next.high = moved.high /\ next.low = moved.low
             /\ next.lastControl = moved.lastControl
  <2>1. CASE next = moved
    BY <1>2, <2>1
  <2>2. CASE next = [moved EXCEPT !.started = TRUE]
    BY <1>2, <2>2 DEF HonestControllers, Controllers
  <2> QED BY <1>4, <2>1, <2>2
<1>5. ASSUME NEW next \in {moved, [moved EXCEPT !.started = TRUE]}
      PROVE  Ranges(n, next)
  <2>1. /\ next.st \in {"AnchorRanging", "AnchorIdle"}
        /\ next.round = c.round /\ next.route = c.route
        /\ Extends(c.high, H, next.high) /\ Extends(c.low, L, next.low)
        /\ next.lastControl = c.lastControl
    BY <1>2, <1>4, <1>5
  <2>2. PassesRoute(view[n], c, next)
    BY <1>2, <1>4, <1>5 DEF PassesRoute
  <2> QED BY <1>1, <2>1, <2>2 DEF Ranges, H, L
<1> QED BY <1>3, <1>4, <1>5

(* SequentialRangingController::UpdateAnchor.                              *)
LEMMA UpdateAnchorKind ==
    ASSUME IInv, NEW n \in Nodes, UpdateAnchor(n)
    PROVE  \E next : Works(n, next) /\ (Waits(n, next) \/ Ranges(n, next))
<1> DEFINE c == ctl[n]
<1>1. UNCHANGED <<view, epoch, inbox, published, summary>>
  BY DEF UpdateAnchor
<1>2. c \in HonestControllers /\ ctl \in [Nodes -> Controllers]
  BY NodeFacts DEF IInv, TypeOK
<1>3. CASE UNCHANGED ctl
  <2>1. ctl' = [ctl EXCEPT ![n] = c] /\ Waits(n, c)
    BY <1>1, <1>2, <1>3 DEF Waits
  <2> QED BY <1>1, <1>2, <2>1 DEF Works
<1>4. CASE ctl' # ctl
  <2>1. /\ c.st = "AnchorRanging"
        /\ \/ \E count \in CompletedCounts(n, c, 0) :
                 ProceedAlongRoute(n, c, count, CurrentJob(n))
           \/ /\ c.started /\ result[n] # NoResult
              /\ \E count \in CompletedCounts(n, c, 1) :
                    ProceedAlongRoute(n, c, count, result[n])
    BY <1>4 DEF UpdateAnchor, CurrentJob
  <2>2. /\ c.tagIndex \in 1..Len(c.route.tags) /\ Len(c.route.tags) \in Nat
        /\ c.started /\ result[n] # NoResult => result[n] = CurrentJob(n)
    <3>1. c.route.tags \in Seq(Tags)
      BY DEF IInv, TypeOK, Controllers, Route
    <3> QED BY <2>1, <3>1, LenProperties
            DEF IInv, AnchorsAreOnRoute, OnRoute, StartedIsCurrent
  <2>3. PICK count \in CompletedCounts(n, c, 0) \cup CompletedCounts(n, c, 1) :
           ProceedAlongRoute(n, c, count, CurrentJob(n))
    BY <2>1, <2>2
  <2>4. count \in 0..(Len(c.route.tags) - c.tagIndex + 1)
    BY <2>2 DEF CompletedCounts
  <2>5. \E next \in HonestControllers :
           ctl' = [ctl EXCEPT ![n] = next] /\ Ranges(n, next)
    BY <1>1, <2>1, <2>3, <2>4, ProceedAlongRouteKind
  <2> QED BY <1>1, <2>5 DEF Works
<1> QED BY <1>3, <1>4

(* A transmission adds copies of the packet to one receive queue.          *)
LEMMA TransmitEffect ==
    ASSUME IInv, NEW packet \in HonestPackets, Transmit(packet)
    PROVE  /\ packet.dst \in Nodes
           /\ Extends(inbox[packet.dst], {packet}, inbox'[packet.dst])
           /\ ArrivesOnce(packet)
           /\ \A m \in Nodes \ {packet.dst} : inbox'[m] = inbox[m]
<1>1. packet.dst \in Nodes
  BY DEF HonestPackets, Packets, ControlPackets, MeasurementPackets,
         CompletePackets, Nodes
<1>2. PICK copies \in Deliveries(packet) :
        inbox' = [inbox EXCEPT ![packet.dst] =
                     PushAll(@, InboxCapacity, [i \in 1..copies |-> packet])]
  BY DEF Transmit
<1>3. copies \in Nat
  BY DEF Deliveries
<1> DEFINE batch == [i \in 1..copies |-> packet]
<1>4. batch \in Seq({packet})
  BY <1>3, FunctionIsSeq
<1>5. inbox' = [inbox EXCEPT ![packet.dst] = PushAll(@, InboxCapacity, batch)]
  BY <1>2
<1>6. inbox \in [Nodes -> Seq(HonestPackets)]
  BY HonestInbox
<1>8. ArrivesOnce(packet)
  <2>1. CASE "duplicate" \in Faults
    BY <2>1 DEF ArrivesOnce
  <2>2. CASE "duplicate" \notin Faults
    <3> DEFINE queue == inbox[packet.dst]
    <3>1. copies \in {0, 1} /\ queue \in Seq(HonestPackets)
      BY <1>1, <1>6, <2>2 DEF Deliveries
    <3>2. batch \in {<<>>, <<packet>>}
      BY <3>1
    <3> HIDE DEF queue
    <3>3. /\ PushAll(queue, InboxCapacity, <<>>) = queue
          /\ PushAll(queue, InboxCapacity, <<packet>>) \in {queue, Append(queue, packet)}
      <4>1. Len(queue) \in Nat /\ InboxCapacity \in Nat
        BY <3>1, BoundAssumption
      <4>2. \A more \in Seq({packet}), k \in Int : k <= 0 => SubSeq(more, 1, k) = <<>>
        OBVIOUS
      <4>3. queue \o <<>> = queue /\ queue \o <<packet>> = Append(queue, packet)
        BY <3>1
      <4>4. /\ Len(<<>>) = 0 /\ Len(<<packet>>) = 1
            /\ <<>> \in Seq({packet}) /\ <<packet>> \in Seq({packet})
        OBVIOUS
      <4>5. ~(Len(queue) + 0 <= InboxCapacity) => InboxCapacity - Len(queue) <= 0
        BY <4>1
      <4>6. ~(Len(queue) + 1 <= InboxCapacity) => InboxCapacity - Len(queue) <= 0
        BY <4>1
      <4>7. InboxCapacity - Len(queue) \in Int
        BY <4>1
      <4> QED BY <4>2, <4>3, <4>4, <4>5, <4>6, <4>7 DEF PushAll
    <3>4. inbox'[packet.dst] = PushAll(queue, InboxCapacity, batch)
      BY <1>1, <1>5, <1>6 DEF queue
    <3> HIDE DEF batch
    <3> QED BY <3>2, <3>3, <3>4 DEF ArrivesOnce, queue
  <2> QED BY <2>1, <2>2
<1> HIDE DEF batch
<1>7. Extends(inbox[packet.dst], {packet},
              PushAll(inbox[packet.dst], InboxCapacity, batch))
  BY <1>1, <1>4, <1>6, PushAllExtends, BoundAssumption
<1> QED BY <1>1, <1>5, <1>6, <1>7, <1>8

(* SequentialRangingController::TrySendNextPacket.                         *)
LEMMA TrySendNextPacketKind ==
    ASSUME IInv, NEW n \in Nodes, TrySendNextPacket(n)
    PROVE  \E next : Sends(n, next)
<1> DEFINE c == ctl[n]
<1>1. /\ c \in HonestControllers
      /\ c.high \in Seq(ControlPackets) /\ c.low \in Seq(HonestPackets)
  BY NodeFacts DEF HonestControllers, Controllers
<1>2. UNCHANGED <<view, epoch, published, summary>>
  BY DEF TrySendNextPacket
<1>3. CASE /\ c.high # <<>>
           /\ Transmit(Head(c.high))
           /\ ctl' = [ctl EXCEPT ![n].high = Tail(@)]
  <2> DEFINE next == [c EXCEPT !.high = Tail(@)]
  <2>1. Head(c.high) \in HonestPackets /\ Tail(c.high) \in Seq(ControlPackets)
    BY <1>1, <1>3, HeadTailProperties, HonestTypes
  <2>2. /\ next \in HonestControllers /\ SameRound(c, next)
        /\ next.received = c.received /\ next.lastControl = c.lastControl
        /\ next.high = Tail(c.high) /\ next.low = c.low
    BY <1>1, <2>1 DEF HonestControllers, Controllers, SameRound
  <2>3. ctl' = [ctl EXCEPT ![n] = next]
    BY <1>3
  <2> HIDE DEF next
  <2>4. Sends(n, next)
    BY <1>2, <1>3, <2>1, <2>2, <2>3, TransmitEffect DEF Sends
  <2> QED BY <2>4
<1>4. CASE /\ c.low # <<>>
           /\ Transmit(Head(c.low))
           /\ ctl' = [ctl EXCEPT ![n].low = Tail(@)]
  <2> DEFINE next == [c EXCEPT !.low = Tail(@)]
  <2>1. Head(c.low) \in HonestPackets /\ Tail(c.low) \in Seq(HonestPackets)
    BY <1>1, <1>4, HeadTailProperties
  <2>2. Tail(c.low) \in Seq(Packets)
    BY <2>1, SeqMonotonic DEF HonestPackets
  <2>3. /\ next \in HonestControllers /\ SameRound(c, next)
        /\ next.received = c.received /\ next.lastControl = c.lastControl
        /\ next.low = Tail(c.low) /\ next.high = c.high
    BY <1>1, <2>1, <2>2 DEF HonestControllers, Controllers, SameRound
  <2>4. ctl' = [ctl EXCEPT ![n] = next]
    BY <1>4
  <2> HIDE DEF next
  <2>5. Sends(n, next)
    BY <1>2, <1>4, <2>1, <2>3, <2>4, TransmitEffect DEF Sends
  <2> QED BY <2>5
<1> QED BY <1>3, <1>4 DEF TrySendNextPacket

(* What a node keeps when it starts over.                                  *)
LEMMA ResetFields ==
    ASSUME NEW state
    PROVE  LET next == ResetSessionState(state)
           IN  /\ next.high = <<>> /\ next.low = <<>> /\ next.round = 0 /\ next.st = state
               /\ next.lastControl = [round |-> 0, pair |-> 0, sequence |-> 0]
BY DEF ResetSessionState

(* DetectMasterChange, once it is known which session it finds.            *)
LEMMA DetectMasterChangeKind ==
    ASSUME IInv, NEW n \in Nodes, NEW session, DetectMasterChange(n, session),
           session = NoSession => "masterLost" \in Faults,
           \/ session = NoSession /\ epoch' = epoch /\ "masterLost" \in Faults
           \/ session \in Announced(n) /\ epoch' = epoch
           \/ /\ n \in Tags /\ n \in MasterTags /\ ~IsMaster(n)
              /\ session = <<n, epoch[n] + 1>>
              /\ epoch' = [epoch EXCEPT ![n] = @ + 1]
    PROVE  \E next : Resets(n, next)
<1> DEFINE state == SessionState(n, session)
           next == ResetSessionState(state)
<1>1. state \in States /\ state \notin {"RunningRound", "AnchorRanging"}
  BY DEF States, SessionState
<1> HIDE DEF state
<1>2. /\ next \in HonestControllers
      /\ next.high = <<>> /\ next.low = <<>> /\ next.round = 0 /\ next.st = state
      /\ next.lastControl = [round |-> 0, pair |-> 0, sequence |-> 0]
  BY <1>1, ResetType, ResetFields
<1>3. /\ view' = [view EXCEPT ![n] = session] /\ view \in [Nodes -> View]
      /\ ctl' = [ctl EXCEPT ![n] = next]
      /\ UNCHANGED <<inbox, published, summary>> /\ session # view[n]
  BY DEF DetectMasterChange, SessionController, state, IInv, TypeOK
<1> HIDE DEF next
<1>4. /\ view'[n] = session /\ \A m \in Nodes \ {n} : view'[m] = view[m]
      /\ LeavesSession(n)
  BY <1>3 DEF LeavesSession
<1>5. Resets(n, next)
  BY <1>1, <1>2, <1>3, <1>4 DEF Resets
<1> QED BY <1>5

(* TagMasterCoordinator, NtpTimeSynchronizer and power cycles.             *)
LEMMA EnvironmentKind ==
    ASSUME IInv, NEW n \in Nodes, Environment(n)
    PROVE  Rests \/ \E next : Resets(n, next)
<1>0. ASSUME NEW t \in Tags, NEW k \in 1..MaxEpoch PROVE <<t, k>> # NoSession
  BY NodeAssumption DEF Sessions
<1>1. CASE OpenSession(n)
  <2>1. n \in Tags /\ epoch[n] + 1 \in 1..MaxEpoch
    BY <1>1, NodeAssumption, BoundAssumption DEF OpenSession, IInv, TypeOK
  <2>2. <<n, epoch[n] + 1>> # NoSession
    BY <1>0, <2>1
  <2> QED BY <1>1, <2>1, <2>2, DetectMasterChangeKind DEF OpenSession
<1>2. CASE FollowSession(n)
  <2>1. PICK session \in Announced(n) : DetectMasterChange(n, session)
    BY <1>2 DEF FollowSession
  <2>2. session # NoSession
    BY NodeAssumption DEF Announced
  <2> QED BY <1>2, <2>1, <2>2, DetectMasterChangeKind DEF FollowSession
<1>3. CASE LoseMaster(n)
  BY <1>3, DetectMasterChangeKind DEF LoseMaster
<1>4. CASE CompleteSynchronization(n) \/ StartResynchronization(n)
  BY <1>4 DEF CompleteSynchronization, StartResynchronization, Rests
<1>5. CASE Restart(n)
  <2> DEFINE next == ResetSessionState("WaitingForMaster")
  <2>1. "WaitingForMaster" \in States
    BY DEF States
  <2>2. /\ next \in HonestControllers /\ next.high = <<>> /\ next.low = <<>>
        /\ next.round = 0 /\ next.st = "WaitingForMaster"
        /\ next.lastControl = [round |-> 0, pair |-> 0, sequence |-> 0]
    BY <2>1, ResetType, ResetFields
  <2>3. /\ ctl' = [ctl EXCEPT ![n] = next]
        /\ view' = [view EXCEPT ![n] = NoSession] /\ view \in [Nodes -> View]
        /\ inbox' = [inbox EXCEPT ![n] = <<>>] /\ inbox \in [Nodes -> Seq(Packets)]
        /\ UNCHANGED <<epoch, published, summary>> /\ "restart" \in Faults
    BY <1>5 DEF Restart, IInv, TypeOK
  <2> HIDE DEF next
  <2>4. /\ view'[n] = NoSession /\ inbox'[n] = <<>>
        /\ \A m \in Nodes \ {n} : inbox'[m] = inbox[m] /\ view'[m] = view[m]
    BY <2>3
  <2>5. Resets(n, next)
    BY <2>2, <2>3, <2>4 DEF Resets, LeavesSession
  <2> QED BY <2>5
<1> QED BY <1>1, <1>2, <1>3, <1>4, <1>5 DEF Environment

(* What waiting leaves alone, and what leading adds to the controls.       *)
LEMMA KindFacts ==
    ASSUME NEW n \in Nodes, NEW next
    PROVE  /\ Waits(n, next) => SameQueues(ctl[n], next) /\ SameRound(ctl[n], next)
           /\ Leads(n, next) =>
                 \/ next.high = ctl[n].high
                 \/ /\ next.st = "RunningRound" /\ next.round = ctl[n].round + 1
                    /\ next.route \in Snapshots
                    /\ Extends(ctl[n].high,
                               RouteControls(view[n], next.round, next.route),
                               next.high)
<1>1. Waits(n, next) => SameQueues(ctl[n], next) /\ SameRound(ctl[n], next)
  BY DEF Waits, SameQueues, SameRound
<1>2. ASSUME Leads(n, next)
      PROVE  \/ next.high = ctl[n].high
             \/ /\ next.st = "RunningRound" /\ next.round = ctl[n].round + 1
                /\ next.route \in Snapshots
                /\ Extends(ctl[n].high,
                           RouteControls(view[n], next.round, next.route), next.high)
  <2> DEFINE H == RouteControls(view[n], next.round, next.route)
  <2> HIDE DEF H
  <2>1. \/ next.high = ctl[n].high
        \/ /\ next.st = "RunningRound" /\ next.round = ctl[n].round + 1
           /\ next.route \in Snapshots
           /\ \E control \in H : Extends(ctl[n].high, {control}, next.high)
    BY <1>2 DEF Leads, H
  <2>2. (\E control \in H : Extends(ctl[n].high, {control}, next.high))
           => Extends(ctl[n].high, H, next.high)
    BY ExtendsByOne
  <2> QED BY <2>1, <2>2 DEF H
<1> QED BY <1>1, <1>2

(* Every step is of one of these kinds.                                    *)
LEMMA StepKinds ==
    ASSUME IInv, [Next]_vars
    PROVE  \/ Rests
           \/ \E n \in Nodes : \E next :
                 \/ /\ Works(n, next)
                    /\ \/ Waits(n, next) \/ Takes(n, next) \/ Ranges(n, next)
                       \/ Follows(n, next) \/ Leads(n, next)
                 \/ Sends(n, next)
                 \/ Resets(n, next)
<1>1. CASE UNCHANGED vars
  BY <1>1 DEF vars, Rests
<1>2. ASSUME NEW n \in Nodes, Uwb(n) PROVE Rests
  BY <1>2 DEF Uwb, UwbRespond, UwbTimeout, UwbComplete, UwbDrained, Rests
<1>3. ASSUME NEW n \in Nodes, Cycle(n)
      PROVE  \E next :
                 \/ /\ Works(n, next)
                    /\ \/ Waits(n, next) \/ Takes(n, next) \/ Ranges(n, next)
                       \/ Follows(n, next) \/ Leads(n, next)
                 \/ Sends(n, next)
  BY <1>3, ProcessReceivedPacketsKind, UpdateAnchorKind, UpdateMasterKind,
     TrySendNextPacketKind DEF Cycle
<1>4. ASSUME NEW n \in Nodes, Environment(n)
      PROVE  Rests \/ \E next : Resets(n, next)
  BY <1>4, EnvironmentKind
<1> QED BY <1>1, <1>2, <1>3, <1>4 DEF Next

-----------------------------------------------------------------------------
(* What the kinds of steps do to the packets in flight.                    *)

(* A step at one node leaves the controllers of the others alone.          *)
LEMMA OtherControllers ==
    ASSUME IInv, NEW n \in Nodes, NEW next, ctl' = [ctl EXCEPT ![n] = next]
    PROVE  ctl'[n] = next /\ \A m \in Nodes \ {n} : ctl'[m] = ctl[m]
BY DEF IInv, TypeOK

(* The queues of a node, as sequences.                                     *)
LEMMA QueueTypes ==
    ASSUME IInv, NEW n \in Nodes
    PROVE  /\ ctl[n].high \in Seq(HonestPackets) /\ ctl[n].low \in Seq(HonestPackets)
           /\ inbox[n] \in Seq(HonestPackets)
<1>1. ctl[n].high \in Seq(HonestPackets)
  BY NodeFacts, HonestTypes, SeqMonotonic DEF Controllers
<1> QED BY <1>1, NodeFacts DEF HonestControllers

(* Taking a packet from the receive queue.                                 *)
LEMMA ConsumeElements ==
    ASSUME IInv, NEW n \in Nodes, inbox' = inbox \/ (inbox[n] # <<>> /\ Consume(n)),
           NEW m \in Nodes
    PROVE  Elements(inbox'[m]) \subseteq Elements(inbox[m])
<1>1. inbox \in [Nodes -> Seq(HonestPackets)]
  BY HonestInbox
<1>2. CASE inbox[n] # <<>> /\ Consume(n) /\ m = n
  <2>1. inbox'[m] = Tail(inbox[m])
    BY <1>1, <1>2 DEF Consume
  <2> QED BY <1>1, <1>2, <2>1, TailElements
<1>3. CASE inbox'[m] = inbox[m]
  BY <1>3
<1> QED BY <1>1, <1>2, <1>3 DEF Consume

(* A node at work adds to the packets in flight what it queues.            *)
LEMMA WorkInFlight ==
    ASSUME IInv, NEW n \in Nodes, NEW next, Works(n, next),
           NEW H, Extends(ctl[n].high, H, next.high),
           NEW L, Extends(ctl[n].low, L, next.low)
    PROVE  InFlight' \subseteq InFlight \cup H \cup L
<1>1. ctl'[n] = next /\ \A m \in Nodes \ {n} : ctl'[m] = ctl[m]
  BY OtherControllers DEF Works
<1>2. /\ Elements(next.high) \subseteq Elements(ctl[n].high) \cup H
      /\ Elements(next.low) \subseteq Elements(ctl[n].low) \cup L
  BY QueueTypes, ExtendsElements
<1>3. \A m \in Nodes : Elements(inbox'[m]) \subseteq Elements(inbox[m])
  BY ConsumeElements DEF Works
<1>4. ASSUME NEW m \in Nodes PROVE PacketsOf(m)' \subseteq PacketsOf(m) \cup H \cup L
  <2>1. CASE m = n
    BY <1>1, <1>2, <1>3, <2>1 DEF PacketsOf
  <2>2. CASE m # n
    BY <1>1, <1>3, <2>2 DEF PacketsOf
  <2> QED BY <2>1, <2>2
<1> QED BY <1>4 DEF InFlight

(* A node whose queues stay as they are adds nothing.                      *)
LEMMA SameQueuesInFlight ==
    ASSUME IInv, NEW n \in Nodes, NEW next, Works(n, next), SameQueues(ctl[n], next)
    PROVE  InFlight' \subseteq InFlight
<1>1. Extends(ctl[n].high, {}, next.high) /\ Extends(ctl[n].low, {}, next.low)
  BY QueueTypes, ExtendsReflexive DEF SameQueues
<1> QED BY <1>1, WorkInFlight

(* The radio adds nothing to what is in flight.                            *)
LEMMA SendInFlight ==
    ASSUME IInv, NEW n \in Nodes, NEW next, Sends(n, next)
    PROVE  InFlight' \subseteq InFlight
<1>1. ctl'[n] = next /\ \A m \in Nodes \ {n} : ctl'[m] = ctl[m]
  BY OtherControllers DEF Sends
<1>2. PICK packet \in HonestPackets :
          /\ \/ /\ ctl[n].high # <<>> /\ packet = Head(ctl[n].high)
                /\ next.high = Tail(ctl[n].high) /\ next.low = ctl[n].low
             \/ /\ ctl[n].low # <<>> /\ packet = Head(ctl[n].low)
                /\ next.high = ctl[n].high /\ next.low = Tail(ctl[n].low)
          /\ packet.dst \in Nodes
          /\ Extends(inbox[packet.dst], {packet}, inbox'[packet.dst])
          /\ \A m \in Nodes \ {packet.dst} : inbox'[m] = inbox[m]
  BY DEF Sends
<1>3. /\ packet \in Elements(ctl[n].high) \cup Elements(ctl[n].low)
      /\ Elements(next.high) \subseteq Elements(ctl[n].high)
      /\ Elements(next.low) \subseteq Elements(ctl[n].low)
  BY <1>2, QueueTypes, TailElements
<1>4. packet \in InFlight
  BY <1>3 DEF InFlight, PacketsOf
<1>5. ASSUME NEW m \in Nodes
      PROVE  Elements(inbox'[m]) \subseteq Elements(inbox[m]) \cup {packet}
  <2>1. CASE m = packet.dst
    BY <1>2, <2>1, QueueTypes, ExtendsElements
  <2>2. CASE m # packet.dst
    BY <1>2, <2>2
  <2> QED BY <2>1, <2>2
<1>6. ASSUME NEW m \in Nodes PROVE PacketsOf(m)' \subseteq PacketsOf(m) \cup {packet}
  <2>1. CASE m = n
    BY <1>1, <1>3, <1>5, <2>1 DEF PacketsOf
  <2>2. CASE m # n
    BY <1>1, <1>5, <2>2 DEF PacketsOf
  <2> QED BY <2>1, <2>2
<1> QED BY <1>4, <1>6 DEF InFlight

(* Starting over adds nothing either.                                      *)
LEMMA ResetInFlight ==
    ASSUME IInv, NEW n \in Nodes, NEW next, Resets(n, next)
    PROVE  InFlight' \subseteq InFlight
<1>1. ctl'[n] = next /\ \A m \in Nodes \ {n} : ctl'[m] = ctl[m]
  BY OtherControllers DEF Resets
<1>2. Elements(<<>>) = {}
  BY DEF Elements
<1>3. ASSUME NEW m \in Nodes PROVE PacketsOf(m)' \subseteq PacketsOf(m)
  <2>1. CASE m = n
    BY <1>1, <1>2, <2>1 DEF PacketsOf, Resets
  <2>2. CASE m # n
    BY <1>1, <2>2 DEF PacketsOf, Resets
  <2> QED BY <2>1, <2>2
<1> QED BY <1>3 DEF InFlight

-----------------------------------------------------------------------------
(* Sessions and rounds only go on.                                         *)

(* Sessions are followed after they were opened, rounds run by masters.    *)
LEMMA NextSessionsAreOpened ==
    IInv /\ SessionsAreOpened /\ [Next]_vars => SessionsAreOpened'
<1> SUFFICES ASSUME IInv, SessionsAreOpened, [Next]_vars PROVE SessionsAreOpened'
  OBVIOUS
<1>0. view \in [Nodes -> View] /\ epoch \in [Tags -> 0..MaxEpoch] /\ MaxEpoch \in Nat
  BY BoundAssumption DEF IInv, TypeOK
<1>1. CASE Rests
  BY <1>1 DEF Rests, SessionsAreOpened, IsMaster
<1>2. ASSUME NEW n \in Nodes, NEW next, ctl' = [ctl EXCEPT ![n] = next],
             UNCHANGED <<view, epoch>>,
             next.st = "RunningRound" => ctl[n].st = "RunningRound" \/ IsMaster(n)
      PROVE  SessionsAreOpened'
  <2>1. ctl'[n] = next /\ \A m \in Nodes \ {n} : ctl'[m] = ctl[m]
    BY <1>2, OtherControllers
  <2> QED BY <1>2, <2>1 DEF SessionsAreOpened, IsMaster
<1>3. ASSUME NEW n \in Nodes, NEW next, Works(n, next),
             \/ Waits(n, next) \/ Takes(n, next) \/ Ranges(n, next)
             \/ Follows(n, next) \/ Leads(n, next)
      PROVE  SessionsAreOpened'
  BY <1>2, <1>3, KindFacts DEF Works, Takes, Ranges, Follows, Leads, SameRound
<1>4. ASSUME NEW n \in Nodes, NEW next, Sends(n, next) PROVE SessionsAreOpened'
  BY <1>2, <1>4 DEF Sends, SameRound
<1>5. ASSUME NEW n \in Nodes, NEW next, Resets(n, next) PROVE SessionsAreOpened'
  <2>1. /\ ctl'[n] = next /\ \A m \in Nodes \ {n} : ctl'[m] = ctl[m] /\ view'[m] = view[m]
        /\ next.st # "RunningRound"
    BY <1>5, OtherControllers DEF Resets
  <2>2. \A t \in Tags : epoch[t] \in Nat /\ epoch'[t] \in Nat /\ epoch[t] <= epoch'[t]
    BY <1>0, <1>5 DEF Resets
  <2>3. view'[n] # NoSession => view'[n][2] <= epoch'[view'[n][1]]
    BY <1>0, <1>5, <2>2 DEF Resets, Announced
  <2>4. ASSUME NEW m \in Nodes \ {n}, view'[m] # NoSession
        PROVE  view'[m][2] <= epoch'[view'[m][1]]
    <3>1. view[m] \in Sessions /\ view[m][2] \in Nat /\ view[m][1] \in Tags
      BY <1>0, <2>1, <2>4 DEF View, Sessions
    <3>2. view[m][2] <= epoch[view[m][1]]
      BY <2>1, <2>4 DEF SessionsAreOpened
    <3> QED BY <2>1, <2>2, <3>1, <3>2
  <2>5. ASSUME NEW m \in Nodes, ctl'[m].st = "RunningRound" PROVE IsMaster(m)'
    BY <2>1, <2>5 DEF SessionsAreOpened, IsMaster
  <2> QED BY <2>3, <2>4, <2>5 DEF SessionsAreOpened
<1> QED BY <1>1, <1>3, <1>4, <1>5, StepKinds

(* A TAG that is in a session of its own either has just opened it or was  *)
(* in it before, and goes on in its rounds.                                *)
LEMMA MasterClock ==
    ASSUME IInv, [Next]_vars, NEW s \in Sessions
    PROVE  LET m == s[1]
           IN  /\ epoch[m] <= epoch'[m]
               /\ view'[m] = s =>
                     \/ epoch[m] < s[2]
                     \/ /\ view[m] = s
                        /\ ctl[m].round <= ctl'[m].round
                        /\ ctl'[m].st = "RunningRound" /\ ctl'[m].round = ctl[m].round
                           => ctl[m].st = "RunningRound"
<1> DEFINE m == s[1]
<1>0. /\ epoch \in [Tags -> 0..MaxEpoch] /\ MaxEpoch \in Nat /\ m \in Tags
      /\ m \in Nodes /\ epoch[m] \in Nat /\ ctl[m].round \in Nat
  <2>1. m \in Tags /\ m \in Nodes
    BY SessionType
  <2>2. epoch \in [Tags -> 0..MaxEpoch] /\ MaxEpoch \in Nat
    BY BoundAssumption DEF IInv, TypeOK
  <2>3. ctl[m].round \in Nat
    BY <2>1, NodeFacts DEF Controllers
  <2> HIDE DEF m
  <2> QED BY <2>1, <2>2, <2>3
<1>1. CASE Rests
  BY <1>0, <1>1 DEF Rests
<1>2. ASSUME NEW n \in Nodes, NEW next, ctl' = [ctl EXCEPT ![n] = next],
             UNCHANGED <<view, epoch>>,
             n = m /\ view[n] = s =>
                /\ ctl[n].round <= next.round
                /\ next.st = "RunningRound" /\ next.round = ctl[n].round
                   => ctl[n].st = "RunningRound"
      PROVE  /\ epoch[m] <= epoch'[m]
             /\ view'[m] = s =>
                   /\ view[m] = s
                   /\ ctl[m].round <= ctl'[m].round
                   /\ ctl'[m].st = "RunningRound" /\ ctl'[m].round = ctl[m].round
                      => ctl[m].st = "RunningRound"
  <2>1. ctl'[n] = next /\ \A l \in Nodes \ {n} : ctl'[l] = ctl[l]
    BY <1>2, OtherControllers
  <2> QED BY <1>0, <1>2, <2>1
<1>3. ASSUME NEW n \in Nodes, NEW next, Works(n, next),
             \/ Waits(n, next) \/ Takes(n, next) \/ Ranges(n, next)
             \/ Follows(n, next) \/ Leads(n, next)
      PROVE  n = m /\ view[n] = s =>
                /\ ctl[n].round <= next.round
                /\ next.st = "RunningRound" /\ next.round = ctl[n].round
                   => ctl[n].st = "RunningRound"
  <2> SUFFICES ASSUME n = m, view[n] = s
               PROVE  /\ ctl[n].round <= next.round
                      /\ next.st = "RunningRound" /\ next.round = ctl[n].round
                         => ctl[n].st = "RunningRound"
    OBVIOUS
  <2>1. n \notin Anchors /\ IsMaster(n)
    BY <1>0, NodeAssumption, SessionType DEF IsMaster
  <2>2. CASE Waits(n, next)
    BY <1>0, <2>2 DEF Waits, SameRound
  <2>3. CASE Leads(n, next)
    BY <1>0, <2>3 DEF Leads, SameRound
  <2> QED BY <1>3, <2>1, <2>2, <2>3 DEF Takes, Ranges, Follows
<1>4. ASSUME NEW n \in Nodes, NEW next, Sends(n, next)
      PROVE  /\ UNCHANGED <<view, epoch>> /\ ctl' = [ctl EXCEPT ![n] = next]
             /\ ctl[n].round <= next.round /\ next.st = ctl[n].st
  BY <1>4, NodeFacts DEF Sends, SameRound, Controllers
<1>5. ASSUME NEW n \in Nodes, NEW next, Resets(n, next)
      PROVE  /\ epoch[m] <= epoch'[m]
             /\ view'[m] = s =>
                   \/ epoch[m] < s[2]
                   \/ /\ view[m] = s
                      /\ ctl[m].round <= ctl'[m].round
                      /\ ctl'[m].st = "RunningRound" => ctl[m].st = "RunningRound"
  <2>1. ctl'[n] = next /\ \A l \in Nodes \ {n} : ctl'[l] = ctl[l]
    BY <1>5, OtherControllers DEF Resets
  <2>2. epoch[m] <= epoch'[m]
    BY <1>0, <1>5 DEF Resets
  <2>3. CASE m # n
    BY <1>0, <1>5, <2>1, <2>2, <2>3 DEF Resets
  <2>4. CASE m = n /\ view'[m] = s
    <3>1. s # NoSession
      BY SessionType
    <3>2. view'[n] = <<n, epoch[n] + 1>>
      BY <1>5, <2>4, <3>1 DEF Resets, Announced
    <3>3. s[2] = epoch[m] + 1
      BY <2>4, <3>2
    <3> QED BY <1>0, <2>2, <3>3
  <2> QED BY <2>2, <2>3, <2>4
<1>6. ASSUME NEW n \in Nodes, NEW next, Works(n, next),
             \/ Waits(n, next) \/ Takes(n, next) \/ Ranges(n, next)
             \/ Follows(n, next) \/ Leads(n, next)
      PROVE  /\ epoch[m] <= epoch'[m]
             /\ view'[m] = s =>
                   /\ view[m] = s
                   /\ ctl[m].round <= ctl'[m].round
                   /\ ctl'[m].st = "RunningRound" /\ ctl'[m].round = ctl[m].round
                      => ctl[m].st = "RunningRound"
  <2>1. ctl' = [ctl EXCEPT ![n] = next] /\ UNCHANGED <<view, epoch>>
    BY <1>6 DEF Works
  <2>2. n = m /\ view[n] = s =>
           /\ ctl[n].round <= next.round
           /\ next.st = "RunningRound" /\ next.round = ctl[n].round
              => ctl[n].st = "RunningRound"
    BY <1>3, <1>6
  <2> QED BY <1>2, <2>1, <2>2
<1>7. ASSUME NEW n \in Nodes, NEW next, Sends(n, next)
      PROVE  /\ epoch[m] <= epoch'[m]
             /\ view'[m] = s =>
                   /\ view[m] = s
                   /\ ctl[m].round <= ctl'[m].round
                   /\ ctl'[m].st = "RunningRound" /\ ctl'[m].round = ctl[m].round
                      => ctl[m].st = "RunningRound"
  BY <1>2, <1>4, <1>7
<1> QED BY <1>1, <1>5, <1>6, <1>7, StepKinds

(* So what was opened, or closed, stays so.                                *)
LEMMA OpenedStep ==
    ASSUME IInv, [Next]_vars, NEW s \in Sessions, NEW r \in Nat
    PROVE  /\ Opened(s, r) => Opened(s, r)'
           /\ Closed(s, r) => Closed(s, r)'
<1> DEFINE m == s[1]
<1>1. /\ m \in Tags /\ m \in Nodes /\ s[2] \in Nat
      /\ epoch \in [Tags -> 0..MaxEpoch] /\ epoch' \in [Tags -> 0..MaxEpoch]
      /\ MaxEpoch \in Nat
  <2>1. m \in Tags /\ m \in Nodes
    BY SessionType
  <2>2. s[2] \in Nat
    BY DEF Sessions
  <2>3. /\ epoch \in [Tags -> 0..MaxEpoch] /\ epoch' \in [Tags -> 0..MaxEpoch]
        /\ MaxEpoch \in Nat
    BY BoundAssumption, NextIInv DEF IInv, TypeOK
  <2> QED BY <2>1, <2>2, <2>3
<1> HIDE DEF m
<1>2. /\ epoch[m] \in Nat /\ epoch'[m] \in Nat
      /\ ctl[m].round \in Nat /\ ctl'[m].round \in Nat
  <2>1. ctl \in [Nodes -> Controllers] /\ ctl' \in [Nodes -> Controllers]
    BY NextIInv DEF IInv, TypeOK
  <2>2. ctl[m] \in Controllers /\ ctl'[m] \in Controllers
    BY <1>1, <2>1
  <2>3. ctl[m].round \in Nat /\ ctl'[m].round \in Nat
    BY <2>2 DEF Controllers
  <2> QED BY <1>1, <2>3
<1>3. /\ epoch[m] <= epoch'[m]
      /\ view'[m] = s =>
            \/ epoch[m] < s[2]
            \/ /\ view[m] = s
               /\ ctl[m].round <= ctl'[m].round
               /\ ctl'[m].st = "RunningRound" /\ ctl'[m].round = ctl[m].round
                  => ctl[m].st = "RunningRound"
  BY MasterClock DEF m
<1>4. Opened(s, r) => Opened(s, r)'
  BY <1>1, <1>2, <1>3 DEF Opened, m
<1>5. Closed(s, r) => Closed(s, r)'
  BY <1>1, <1>2, <1>3, <1>4 DEF Opened, Closed, m
<1> QED BY <1>4, <1>5

-----------------------------------------------------------------------------
(* One route per round.                                                    *)

(* Everything in flight is an honest packet.                               *)
LEMMA InFlightType ==
    ASSUME IInv
    PROVE  InFlight \subseteq HonestPackets
<1>1. ASSUME NEW queue \in Seq(HonestPackets)
      PROVE  Elements(queue) \subseteq HonestPackets
  BY <1>1, ElementOfSeq DEF Elements
<1> QED BY <1>1, QueueTypes DEF InFlight, PacketsOf

(* A claim about a route names a session and a round.                      *)
LEMMA RouteClaimType ==
    ASSUME IInv, SessionsAreOpened, NEW c \in RouteClaims
    PROVE  c.session \in Sessions /\ c.round \in Nat
<1>1. ASSUME NEW p \in InFlight, p.type = "RangeControl"
      PROVE  p.session \in Sessions /\ p.round \in Nat
  BY <1>1, InFlightType, PacketKinds DEF ControlPackets
<1>2. ASSUME NEW n \in Nodes, InRound(n)
      PROVE  view[n] \in Sessions /\ ctl[n].round \in Nat
  BY <1>2, NodeFacts
     DEF InRound, SessionsAreOpened, IInv, AnchorsAreOnRoute, MayRange, Controllers
<1> QED BY <1>1, <1>2 DEF RouteClaims, RouteClaim

(* A step names no new route, but for the round its node opens.            *)
NewRoute(n, c) ==
    /\ IsMaster(n) /\ view'[n] = view[n] /\ epoch' = epoch
    /\ ctl'[n].round = ctl[n].round + 1 /\ ctl'[n].route \in Snapshots
    /\ c = RouteClaim(view[n], ctl[n].round + 1, ctl'[n].route)

(* The lemma this predicate is for.                                        *)
LEMMA RouteClaimsStep ==
    ASSUME IInv, SessionsAreOpened, [Next]_vars, NEW c \in RouteClaims'
    PROVE  c \in RouteClaims \/ \E n \in Nodes : NewRoute(n, c)
<1>1. CASE Rests
  BY <1>1 DEF Rests, RouteClaims, InFlight, PacketsOf, InRound
<1>2. ASSUME NEW n \in Nodes, NEW next, ctl' = [ctl EXCEPT ![n] = next],
             \A m \in Nodes \ {n} : view'[m] = view[m],
             NEW S, InFlight' \subseteq InFlight \cup S,
             \A p \in S : p.type = "RangeControl" =>
                LET d == RouteClaim(p.session, p.round, p.route)
                IN  d \in RouteClaims \/ NewRoute(n, d),
             next.st \in {"RunningRound", "AnchorRanging"} =>
                LET d == RouteClaim(view'[n], next.round, next.route)
                IN  d \in RouteClaims \/ NewRoute(n, d)
      PROVE  c \in RouteClaims \/ NewRoute(n, c)
  <2>1. ctl'[n] = next /\ \A m \in Nodes \ {n} : ctl'[m] = ctl[m]
    BY <1>2, OtherControllers
  <2>2. ASSUME NEW p \in InFlight', p.type = "RangeControl",
               c = RouteClaim(p.session, p.round, p.route)
        PROVE  c \in RouteClaims \/ NewRoute(n, c)
    BY <1>2, <2>2 DEF RouteClaims
  <2>3. ASSUME NEW m \in Nodes, InRound(m)',
               c = RouteClaim(view'[m], ctl'[m].round, ctl'[m].route)
        PROVE  c \in RouteClaims \/ NewRoute(n, c)
    <3>1. CASE m = n
      BY <1>2, <2>1, <2>3, <3>1 DEF InRound
    <3>2. CASE m # n
      BY <1>2, <2>1, <2>3, <3>2 DEF InRound, RouteClaims
    <3> QED BY <3>1, <3>2
  <2> QED BY <2>2, <2>3 DEF RouteClaims
<1>11. ASSUME NEW n \in Nodes, NEW next, ctl' = [ctl EXCEPT ![n] = next],
              \A m \in Nodes \ {n} : view'[m] = view[m],
              InFlight' \subseteq InFlight,
              next.st \in {"RunningRound", "AnchorRanging"} =>
                 RouteClaim(view'[n], next.round, next.route) \in RouteClaims
      PROVE  c \in RouteClaims \/ NewRoute(n, c)
  <2> DEFINE S == {}
  <2>1. /\ InFlight' \subseteq InFlight \cup S
        /\ \A p \in S : p.type = "RangeControl" =>
              LET d == RouteClaim(p.session, p.round, p.route)
              IN  d \in RouteClaims \/ NewRoute(n, d)
    BY <1>11
  <2> HIDE DEF S
  <2> QED BY <1>2, <1>11, <2>1
<1>3. ASSUME NEW n \in Nodes, InRound(n)
      PROVE  RouteClaim(view[n], ctl[n].round, ctl[n].route) \in RouteClaims
  BY <1>3 DEF RouteClaims
<1>4. ASSUME NEW n \in Nodes, NEW next, Works(n, next), Waits(n, next)
      PROVE  c \in RouteClaims \/ NewRoute(n, c)
  <2>1. InFlight' \subseteq InFlight
    BY <1>4, SameQueuesInFlight, KindFacts
  <2>2. next.st \in {"RunningRound", "AnchorRanging"} =>
           RouteClaim(view'[n], next.round, next.route) \in RouteClaims
    BY <1>3, <1>4 DEF Works, Waits, InRound
  <2> QED BY <1>11, <1>4, <2>1, <2>2 DEF Works
<1>5. ASSUME NEW n \in Nodes, NEW next, Works(n, next), Takes(n, next)
      PROVE  c \in RouteClaims \/ NewRoute(n, c)
  <2>1. InFlight' \subseteq InFlight
    BY <1>5, SameQueuesInFlight DEF Takes
  <2>2. RouteClaim(view'[n], next.round, next.route) \in RouteClaims
    <3>1. PICK packet \in Elements(inbox[n]) :
             /\ packet.type = "RangeControl"
             /\ packet.session = view[n]
             /\ next.round = packet.round /\ next.route = packet.route
      BY <1>5 DEF Takes
    <3>2. packet \in InFlight
      BY DEF InFlight, PacketsOf
    <3> QED BY <1>5, <3>1, <3>2 DEF RouteClaims, Works
  <2> QED BY <1>11, <1>5, <2>1, <2>2 DEF Works
<1>6. ASSUME NEW n \in Nodes, NEW next, Works(n, next), Ranges(n, next)
      PROVE  c \in RouteClaims \/ NewRoute(n, c)
  <2> DEFINE H == RouteControls(view[n], ctl[n].round, ctl[n].route)
             L == Reports(view[n])
  <2>1. InFlight' \subseteq InFlight \cup (H \cup L)
    BY <1>6, WorkInFlight DEF Ranges
  <2>2. RouteClaim(view[n], ctl[n].round, ctl[n].route) \in RouteClaims
    BY <1>3, <1>6 DEF Ranges, InRound
  <2>3. \A p \in H \cup L : p.type = "RangeControl" =>
           RouteClaim(p.session, p.round, p.route) \in RouteClaims
    BY <2>2 DEF RouteControls, Reports
  <2>4. RouteClaim(view'[n], next.round, next.route) \in RouteClaims
    BY <1>6, <2>2 DEF Works, Ranges
  <2> HIDE DEF H, L
  <2> QED BY <1>2, <1>6, <2>1, <2>3, <2>4 DEF Works
<1>7. ASSUME NEW n \in Nodes, NEW next, Works(n, next), Follows(n, next)
      PROVE  c \in RouteClaims \/ NewRoute(n, c)
  <2>1. InFlight' \subseteq InFlight
    BY <1>7, SameQueuesInFlight DEF Follows
  <2>2. next.st \notin {"RunningRound", "AnchorRanging"}
    BY <1>7, NodeAssumption
       DEF Follows, SessionsAreOpened, IInv, AnchorsAreOnRoute, MayRange
  <2> QED BY <1>11, <1>7, <2>1, <2>2 DEF Works
<1>8. ASSUME NEW n \in Nodes, NEW next, Works(n, next), Leads(n, next)
      PROVE  c \in RouteClaims \/ NewRoute(n, c)
  <2>0. /\ ctl'[n] = next /\ view' = view /\ epoch' = epoch /\ IsMaster(n)
        /\ Extends(ctl[n].low, MasterPackets(n), next.low)
        /\ \A p \in MasterPackets(n) : p.type # "RangeControl"
    BY <1>8, OtherControllers
       DEF Works, Leads, MasterPackets, MasterForwards, MasterSummaries
  <2>1. CASE next.high = ctl[n].high
    <3>1. InFlight' \subseteq InFlight \cup MasterPackets(n)
      <4>1. Extends(ctl[n].high, {}, next.high)
        BY <2>1, QueueTypes, ExtendsReflexive
      <4> QED BY <1>8, <2>0, <4>1, WorkInFlight
    <3>2. CASE next.st \in {"RunningRound", "AnchorRanging"} /\ SameRound(ctl[n], next)
      <4>1. RouteClaim(view'[n], next.round, next.route) \in RouteClaims
        BY <1>3, <2>0, <3>2 DEF SameRound, InRound
      <4> QED BY <1>2, <1>8, <2>0, <3>1, <4>1 DEF Works
    <3>3. CASE next.st \notin {"RunningRound", "AnchorRanging"}
      BY <1>2, <1>8, <2>0, <3>1, <3>3 DEF Works
    <3>4. CASE /\ next.st = "RunningRound" /\ next.round = ctl[n].round + 1
               /\ next.route \in Snapshots
      <4>1. NewRoute(n, RouteClaim(view'[n], next.round, next.route))
        BY <2>0, <3>4 DEF NewRoute
      <4> QED BY <1>2, <1>8, <2>0, <3>1, <4>1 DEF Works
    <3> QED BY <1>8, <3>2, <3>3, <3>4 DEF Leads
  <2>2. CASE /\ next.st = "RunningRound" /\ next.round = ctl[n].round + 1
             /\ next.route \in Snapshots
             /\ Extends(ctl[n].high,
                        RouteControls(view[n], next.round, next.route), next.high)
    <3> DEFINE H == RouteControls(view[n], next.round, next.route)
    <3>1. InFlight' \subseteq InFlight \cup (H \cup MasterPackets(n))
      BY <1>8, <2>0, <2>2, WorkInFlight
    <3>2. NewRoute(n, RouteClaim(view[n], next.round, next.route))
      BY <2>0, <2>2 DEF NewRoute
    <3>3. \A p \in H \cup MasterPackets(n) : p.type = "RangeControl" =>
             NewRoute(n, RouteClaim(p.session, p.round, p.route))
      BY <2>0, <3>2 DEF RouteControls
    <3> HIDE DEF H
    <3> QED BY <1>2, <1>8, <2>0, <3>1, <3>2, <3>3 DEF Works
  <2> QED BY <1>8, <2>1, <2>2, KindFacts
<1>9. ASSUME NEW n \in Nodes, NEW next, Sends(n, next)
      PROVE  c \in RouteClaims \/ NewRoute(n, c)
  <2>1. InFlight' \subseteq InFlight
    BY <1>9, SendInFlight
  <2>2. next.st \in {"RunningRound", "AnchorRanging"} =>
           RouteClaim(view'[n], next.round, next.route) \in RouteClaims
    BY <1>3, <1>9 DEF Sends, SameRound, InRound
  <2> QED BY <1>11, <1>9, <2>1, <2>2 DEF Sends
<1>10. ASSUME NEW n \in Nodes, NEW next, Resets(n, next)
      PROVE  c \in RouteClaims \/ NewRoute(n, c)
  <2>1. InFlight' \subseteq InFlight
    BY <1>10, ResetInFlight
  <2> QED BY <1>11, <1>10, <2>1 DEF Resets
<1> QED BY <1>1, <1>4, <1>5, <1>6, <1>7, <1>8, <1>9, <1>10, StepKinds

(* The induction step: a new claim is for a later round than every other   *)
(* of its session.                                                         *)
LEMMA NextOneRoutePerRound ==
    IInv /\ SessionsAreOpened /\ OneRoutePerRound /\ [Next]_vars => OneRoutePerRound'
<1> SUFFICES ASSUME IInv, SessionsAreOpened, OneRoutePerRound, [Next]_vars
             PROVE  OneRoutePerRound'
  OBVIOUS
<1>1. ASSUME NEW c \in RouteClaims
      PROVE  c.session \in Sessions /\ c.round \in Nat /\ Opened(c.session, c.round)'
  BY RouteClaimType, OpenedStep DEF OneRoutePerRound
<1>2. ASSUME NEW n \in Nodes, NEW c, NewRoute(n, c)
      PROVE  /\ Opened(c.session, c.round)'
             /\ c.session = view[n] /\ c.round = ctl[n].round + 1
             /\ c.route = ctl'[n].route /\ n = view[n][1]
  <2>1. /\ c.session = view[n] /\ c.round = ctl[n].round + 1
        /\ c.route = ctl'[n].route /\ n = view[n][1]
    BY <1>2 DEF NewRoute, RouteClaim, IsMaster
  <2>2. view[n][2] <= epoch'[n]
    BY <1>2, <2>1 DEF NewRoute, SessionsAreOpened, IsMaster
  <2>3. ctl[n].round \in Nat /\ ctl'[n].round = ctl[n].round + 1
    BY <1>2, NodeFacts DEF NewRoute, Controllers
  <2> QED BY <2>1, <2>2, <2>3 DEF Opened
<1>3. ASSUME NEW n \in Nodes, NEW c, NewRoute(n, c), NEW d \in RouteClaims
      PROVE  c.session # d.session \/ c.round # d.round
  <2>1. Opened(d.session, d.round)
    BY DEF OneRoutePerRound
  <2>2. ctl[n].round \in Nat /\ d.round \in Nat
    BY <1>1, NodeFacts DEF Controllers
  <2> QED BY <1>2, <1>3, <2>1, <2>2 DEF Opened
<1>4. ASSUME NEW c \in RouteClaims', NEW d \in RouteClaims',
             c.session = d.session, c.round = d.round
      PROVE  c.route = d.route
  <2>1. CASE c \in RouteClaims /\ d \in RouteClaims
    BY <1>4, <2>1 DEF OneRoutePerRound
  <2>2. CASE \E n \in Nodes : NewRoute(n, c)
    BY <1>2, <1>3, <1>4, <2>2, RouteClaimsStep
  <2>3. CASE \E n \in Nodes : NewRoute(n, d)
    BY <1>2, <1>3, <1>4, <2>3, RouteClaimsStep
  <2> QED BY <2>1, <2>2, <2>3, RouteClaimsStep
<1>5. ASSUME NEW c \in RouteClaims' PROVE Opened(c.session, c.round)'
  BY <1>1, <1>2, RouteClaimsStep
<1> QED BY <1>4, <1>5 DEF OneRoutePerRound

(* Nothing has been opened, and nobody says anything, at first.            *)
LEMMA InitAgreement ==
    Init => SessionsAreOpened /\ OneRoutePerRound
<1> SUFFICES ASSUME Init PROVE SessionsAreOpened /\ OneRoutePerRound
  OBVIOUS
<1>1. \A n \in Nodes : /\ ctl[n].high = <<>> /\ ctl[n].low = <<>> /\ inbox[n] = <<>>
                       /\ ctl[n].st = "WaitingForMaster"
  BY ResetFields DEF Init
<1>2. Elements(<<>>) = {}
  BY DEF Elements
<1>3. InFlight = {}
  BY <1>1, <1>2 DEF InFlight, PacketsOf
<1>4. SessionsAreOpened
  BY <1>1 DEF SessionsAreOpened, Init
<1>5. RouteClaims = {}
  BY <1>1, <1>3 DEF RouteClaims, InRound
<1> QED BY <1>4, <1>5 DEF OneRoutePerRound

(* Whatever packets are lost, duplicated or late, whichever nodes restart  *)
(* or change their master, and however many TAGs consider themselves       *)
(* master: two nodes at work in the same round of a session range the same *)
(* ANCHORs and TAGs in the same order.                                     *)
THEOREM NodesAgreeOnRoute == Spec => []RouteAgreement
<1>1. OneRoutePerRound => RouteAgreement
  <2> SUFFICES ASSUME OneRoutePerRound, NEW m \in Nodes, NEW n \in Nodes,
                      InRound(m), InRound(n), view[m] = view[n],
                      ctl[m].round = ctl[n].round
               PROVE  ctl[m].route = ctl[n].route
    BY DEF RouteAgreement
  <2>1. \A l \in {m, n} :
           RouteClaim(view[l], ctl[l].round, ctl[l].route) \in RouteClaims
    BY DEF RouteClaims
  <2> QED BY <2>1 DEF OneRoutePerRound, RouteClaim
<1> QED BY InvariantHolds, InitAgreement, NextSessionsAreOpened,
           NextOneRoutePerRound, <1>1, PTL DEF Spec

-----------------------------------------------------------------------------
(* One summary per round.                                                  *)

(* What a master adds to the packets in flight: of the round it runs, and   *)
(* the route of the round it opens.                                        *)
LEMMA LeadInFlight ==
    ASSUME IInv, NEW n \in Nodes, NEW next, Works(n, next), Leads(n, next)
    PROVE  \A p \in InFlight' :
              p \in InFlight \/ p \in MasterPackets(n) \/ p.type = "RangeControl"
<1>1. CASE next.high = ctl[n].high
  <2> DEFINE H == {}
  <2>1. Extends(ctl[n].high, H, next.high)
    BY <1>1, QueueTypes, ExtendsReflexive
  <2> HIDE DEF H
  <2>2. InFlight' \subseteq InFlight \cup H \cup MasterPackets(n)
    BY <2>1, WorkInFlight DEF Leads
  <2> QED BY <2>2 DEF H
<1>2. CASE Extends(ctl[n].high,
                   RouteControls(view[n], next.round, next.route), next.high)
  <2> DEFINE H == RouteControls(view[n], next.round, next.route)
  <2>1. \A p \in H : p.type = "RangeControl"
    BY DEF RouteControls, ControlPackets
  <2> HIDE DEF H
  <2>2. InFlight' \subseteq InFlight \cup H \cup MasterPackets(n)
    BY <1>2, WorkInFlight DEF Leads, H
  <2> QED BY <2>1, <2>2
<1> QED BY <1>1, <1>2, KindFacts

(* A claim about a result names a round of a session, or of none.          *)
LEMMA SummaryClaimType ==
    ASSUME IInv, NEW c \in SummaryClaims
    PROVE  c.session \in View /\ c.round \in Nat
<1>1. ASSUME NEW p \in InFlight, p.type = "RangeRoundComplete"
      PROVE  p.session \in View /\ p.round \in Nat
  BY <1>1, InFlightType, PacketKinds DEF CompletePackets, View
<1>2. ASSUME NEW t \in Tags
      PROVE  summary[t].session \in View /\ summary[t].round \in Nat
  BY DEF IInv, TypeOK
<1> QED BY <1>1, <1>2 DEF SummaryClaims, SummaryOf

(* A step makes no new claim about a result, but for the round its node    *)
(* closes.                                                                 *)
NewSummary(n, c) ==
    /\ IsMaster(n) /\ view'[n] = view[n] /\ epoch' = epoch
    /\ ctl[n].st = "RunningRound" /\ ctl'[n].round \in {ctl[n].round, ctl[n].round + 1}
    /\ ~(ctl'[n].st = "RunningRound" /\ ctl'[n].round = ctl[n].round)
    /\ c = summary'[n] /\ c.session = view[n] /\ c.round = ctl[n].round

(* The lemma this predicate is for.                                        *)
LEMMA SummaryClaimsStep ==
    ASSUME IInv, [Next]_vars, NEW c \in SummaryClaims'
    PROVE  c \in SummaryClaims \/ \E n \in Nodes : NewSummary(n, c)
<1>1. CASE Rests
  BY <1>1 DEF Rests, SummaryClaims, InFlight, PacketsOf
<1>2. ASSUME InFlight' \subseteq InFlight, UNCHANGED summary
      PROVE  c \in SummaryClaims
  BY <1>2 DEF SummaryClaims
<1>3. ASSUME NEW n \in Nodes, NEW next, Works(n, next),
             Waits(n, next) \/ Takes(n, next)
      PROVE  c \in SummaryClaims
  <2>1. InFlight' \subseteq InFlight
    BY <1>3, SameQueuesInFlight, KindFacts DEF Takes
  <2> QED BY <1>2, <1>3, <2>1 DEF Waits, Takes
<1>4. ASSUME NEW n \in Nodes, NEW next, Works(n, next), Ranges(n, next)
      PROVE  c \in SummaryClaims
  <2> DEFINE H == RouteControls(view[n], ctl[n].round, ctl[n].route)
             L == Reports(view[n])
  <2>1. InFlight' \subseteq InFlight \cup H \cup L
    BY <1>4, WorkInFlight DEF Ranges
  <2>2. \A p \in H \cup L : ~FromMaster(p) \/ p.type # "RangeRoundComplete"
    BY DEF RouteControls, Reports, ControlPackets
  <2> HIDE DEF H, L
  <2> QED BY <1>4, <2>1, <2>2 DEF Ranges, SummaryClaims
<1>5. ASSUME NEW n \in Nodes, NEW next, Works(n, next), Follows(n, next)
      PROVE  c \in SummaryClaims
  <2> DEFINE packet == Head(inbox[n])
  <2>1. InFlight' \subseteq InFlight
    BY <1>5, SameQueuesInFlight DEF Follows
  <2>2. packet \in InFlight
    BY <1>5, QueueTypes, TailElements DEF Follows, InFlight, PacketsOf
  <2>3. CASE UNCHANGED summary
    BY <1>2, <2>1, <2>3
  <2>4. CASE /\ packet \in CompletePackets
             /\ summary' = [summary EXCEPT ![n] = SummaryOf(packet)]
    <3>1. SummaryOf(packet) \in SummaryClaims
      BY <1>5, <2>2, <2>4 DEF Follows, SummaryClaims, CompletePackets
    <3>2. \A t \in Tags : summary'[t] \in {summary[t], SummaryOf(packet)}
      BY <2>4 DEF IInv, TypeOK
    <3> HIDE DEF packet
    <3> QED BY <2>1, <3>1, <3>2 DEF SummaryClaims
  <2> QED BY <1>5, <2>3, <2>4 DEF Follows
<1>6. ASSUME NEW n \in Nodes, NEW next, Works(n, next), Leads(n, next)
      PROVE  c \in SummaryClaims \/ NewSummary(n, c)
  <2>0. ctl'[n] = next /\ n \in Tags
    BY <1>6, OtherControllers, NodeFacts DEF Works, Leads
  <2>1. \A p \in InFlight' :
           p \in InFlight \/ p \in MasterPackets(n) \/ p.type = "RangeControl"
    BY <1>6, LeadInFlight
  <2>2. summary'[n] \in SummaryClaims \/ NewSummary(n, summary'[n])
    <3>1. CASE UNCHANGED summary
      BY <2>0, <3>1 DEF SummaryClaims
    <3>2. CASE summary' # summary
      <4>1. /\ IsMaster(n) /\ ctl[n].st = "RunningRound"
            /\ ~(next.st = "RunningRound" /\ next.round = ctl[n].round)
            /\ next.round \in {ctl[n].round, ctl[n].round + 1}
            /\ view' = view /\ epoch' = epoch
        BY <1>6, <3>2 DEF Leads, Works, SameRound
      <4>2. summary'[n].session = view[n] /\ summary'[n].round = ctl[n].round
        BY <1>6, <2>0, <3>2 DEF Leads, IInv, TypeOK
      <4> QED BY <2>0, <4>1, <4>2 DEF NewSummary
    <3> QED BY <3>1, <3>2
  <2>3. \A t \in Tags \ {n} : summary'[t] = summary[t]
    BY <1>6 DEF Leads, IInv, TypeOK
  <2>4. \A p \in MasterPackets(n) : p.type = "RangeRoundComplete" =>
           SummaryOf(p) = summary'[n]
    BY DEF MasterPackets, MasterForwards, MasterSummaries
  <2>5. ASSUME NEW p \in InFlight', FromMaster(p), p.type = "RangeRoundComplete",
               c = SummaryOf(p)
        PROVE  c \in SummaryClaims \/ NewSummary(n, c)
    <3>1. CASE p \in InFlight
      BY <2>5, <3>1 DEF SummaryClaims
    <3>2. CASE p \in MasterPackets(n)
      BY <2>2, <2>4, <2>5, <3>2
    <3> QED BY <2>1, <2>5, <3>1, <3>2
  <2>6. ASSUME NEW t \in Tags, c = summary'[t]
        PROVE  c \in SummaryClaims \/ NewSummary(n, c)
    BY <2>2, <2>3, <2>6 DEF SummaryClaims
  <2> QED BY <2>5, <2>6 DEF SummaryClaims
<1>7. ASSUME NEW n \in Nodes, NEW next, Sends(n, next) \/ Resets(n, next)
      PROVE  c \in SummaryClaims
  <2>1. InFlight' \subseteq InFlight
    BY <1>7, SendInFlight, ResetInFlight
  <2> QED BY <1>2, <1>7, <2>1 DEF Sends, Resets
<1> QED BY <1>1, <1>3, <1>4, <1>5, <1>6, <1>7, StepKinds

(* The induction step: what is claimed of the session a master closes a    *)
(* round of is about the rounds it closed before.                          *)
LEMMA NextOneSummaryPerRound ==
    IInv /\ SessionsAreOpened /\ OneSummaryPerRound /\ [Next]_vars
    => OneSummaryPerRound'
<1> SUFFICES ASSUME IInv, SessionsAreOpened, OneSummaryPerRound, [Next]_vars
             PROVE  OneSummaryPerRound'
  OBVIOUS
<1>1. ASSUME NEW c \in SummaryClaims, c.session # NoSession
      PROVE  c.session \in Sessions /\ c.round \in Nat /\ Closed(c.session, c.round)'
  <2>1. c.session \in Sessions /\ c.round \in Nat
    BY <1>1, SummaryClaimType DEF View
  <2> QED BY <1>1, <2>1, OpenedStep DEF OneSummaryPerRound
<1>2. ASSUME NEW n \in Nodes, NEW c, NewSummary(n, c)
      PROVE  /\ Closed(c.session, c.round)'
             /\ c.session = view[n] /\ c.round = ctl[n].round /\ c = summary'[n]
             /\ n = view[n][1] /\ view[n] # NoSession
  <2>1. /\ c.session = view[n] /\ c.round = ctl[n].round /\ c = summary'[n]
        /\ n = view[n][1] /\ view[n] # NoSession
    BY <1>2 DEF NewSummary, IsMaster
  <2>2. view[n][2] <= epoch'[n]
    BY <1>2, <2>1 DEF NewSummary, SessionsAreOpened, IsMaster
  <2>3. ctl[n].round \in Nat
    BY <1>2, NodeFacts DEF Controllers
  <2>4. /\ ctl'[n].round \in {ctl[n].round, ctl[n].round + 1}
        /\ ~(ctl'[n].st = "RunningRound" /\ ctl'[n].round = ctl[n].round)
    BY <1>2 DEF NewSummary
  <2> QED BY <2>1, <2>2, <2>3, <2>4 DEF Opened, Closed
<1>3. ASSUME NEW n \in Nodes, NEW c, NewSummary(n, c), NEW d \in SummaryClaims
      PROVE  c.session # d.session \/ c.round # d.round
  <2> SUFFICES ASSUME c.session = d.session, c.round = d.round PROVE FALSE
    OBVIOUS
  <2>1. Closed(d.session, d.round)
    BY <1>2, <1>3 DEF OneSummaryPerRound
  <2>2. ctl[n].st = "RunningRound" /\ ctl[n].round \in Nat
    BY <1>3, NodeFacts DEF NewSummary, Controllers
  <2> QED BY <1>2, <1>3, <2>1, <2>2 DEF Closed
<1>4. ASSUME NEW c \in SummaryClaims', NEW d \in SummaryClaims',
             c.session = d.session, c.round = d.round
      PROVE  c = d
  <2>1. CASE c \in SummaryClaims /\ d \in SummaryClaims
    BY <1>4, <2>1 DEF OneSummaryPerRound
  <2>2. CASE \E n \in Nodes : NewSummary(n, c)
    BY <1>2, <1>3, <1>4, <2>2, SummaryClaimsStep
  <2>3. CASE \E n \in Nodes : NewSummary(n, d)
    BY <1>2, <1>3, <1>4, <2>3, SummaryClaimsStep
  <2> QED BY <2>1, <2>2, <2>3, SummaryClaimsStep
<1>5. ASSUME NEW c \in SummaryClaims', c.session # NoSession
      PROVE  Closed(c.session, c.round)'
  BY <1>1, <1>2, <1>5, SummaryClaimsStep
<1> QED BY <1>4, <1>5 DEF OneSummaryPerRound

(* At first nothing is in flight.                                          *)
LEMMA InitInFlight == Init => InFlight = {}
<1> SUFFICES ASSUME Init PROVE InFlight = {}
  OBVIOUS
<1>1. \A n \in Nodes : ctl[n].high = <<>> /\ ctl[n].low = <<>> /\ inbox[n] = <<>>
  BY ResetFields DEF Init
<1>2. Elements(<<>>) = {}
  BY DEF Elements
<1> QED BY <1>1, <1>2 DEF InFlight, PacketsOf

(* The same round of the same session has one result wherever it is        *)
(* published, whatever was lost, duplicated or delivered late, and whoever *)
(* restarted or changed its master in between.                             *)
THEOREM PublishedSummariesAgree == Spec => []SummariesAgree
<1>1. Init => OneSummaryPerRound
  <2> SUFFICES ASSUME Init PROVE OneSummaryPerRound
    OBVIOUS
  <2>1. SummaryClaims = {summary[t] : t \in Tags}
    BY InitInFlight DEF SummaryClaims
  <2> QED BY <2>1 DEF OneSummaryPerRound, Init
<1>2. OneSummaryPerRound => SummariesAgree
  BY DEF OneSummaryPerRound, SummariesAgree, SummaryClaims
<1> QED BY InvariantHolds, InitAgreement, NextSessionsAreOpened,
           NextOneSummaryPerRound, <1>1, <1>2, PTL DEF Spec

-----------------------------------------------------------------------------
(* The master publishes first.                                             *)

(* A claim about a pair names a round of a session.                        *)
LEMMA PairClaimType ==
    ASSUME IInv, NEW c \in PairClaims
    PROVE  c.session \in Sessions /\ c.round \in Nat
<1>1. ASSUME NEW p \in InFlight, p.type = "RangeMeasurementForward"
      PROVE  p.session \in Sessions /\ p.round \in Nat
  BY <1>1, InFlightType, PacketKinds DEF MeasurementPackets
<1>2. ASSUME NEW t \in Tags, published[t].key.session \in (Tags \ {t}) \X (1..MaxEpoch)
      PROVE  published[t].key.session \in Sessions /\ published[t].key.round \in Nat
  BY <1>2 DEF IInv, TypeOK, Sessions
<1> QED BY <1>1, <1>2 DEF PairClaims

(* What a follower has published is a claim.                               *)
LEMMA PublishedClaim ==
    ASSUME NEW t \in Tags,
           published[t].key.session \in (Tags \ {t}) \X (1..MaxEpoch),
           NEW pair \in published[t].pairs
    PROVE  [session |-> published[t].key.session, round |-> published[t].key.round,
            pair |-> pair] \in PairClaims
<1> DEFINE followers == {u \in Tags : published[u].key.session
                                        \in (Tags \ {u}) \X (1..MaxEpoch)}
           claims(u) == {[session |-> published[u].key.session,
                          round |-> published[u].key.round, pair |-> p] :
                            p \in published[u].pairs}
<1>1. t \in followers
  OBVIOUS
<1>2. [session |-> published[t].key.session, round |-> published[t].key.round,
       pair |-> pair] \in claims(t)
  OBVIOUS
<1>3. UNION {claims(u) : u \in followers} \subseteq PairClaims
  BY DEF PairClaims
<1> HIDE DEF followers, claims
<1> QED BY <1>1, <1>2, <1>3

(* A TAG's history grows, or starts over for a round of its session; the   *)
(* master's for the round it runs.                                         *)
LEMMA PublishedStep ==
    ASSUME IInv, [Next]_vars, NEW t \in Tags
    PROVE  \/ published'[t] = published[t]
           \/ /\ view'[t] = view[t] /\ view[t] \in Sessions
              /\ published'[t].key.session = view[t]
              /\ IsMaster(t) => published'[t].key.round = ctl[t].round
              /\ published'[t].key = published[t].key
                 => published[t].pairs \subseteq published'[t].pairs
<1>1. ASSUME NEW n \in Nodes, NEW packet \in MeasurementPackets,
             PushMeasurement(n, packet), UNCHANGED view,
             view[n] \in Sessions, packet.session = view[n],
             IsMaster(n) => packet.round = ctl[n].round
      PROVE  \/ published'[t] = published[t]
             \/ /\ view'[t] = view[t] /\ view[t] \in Sessions
                /\ published'[t].key.session = view[t]
                /\ IsMaster(t) => published'[t].key.round = ctl[t].round
                /\ published'[t].key = published[t].key
                   => published[t].pairs \subseteq published'[t].pairs
  <2>1. CASE n = t
    BY <1>1, <2>1 DEF PushMeasurement, IInv, TypeOK
  <2>2. CASE n # t
    BY <1>1, <2>2 DEF PushMeasurement, IInv, TypeOK
  <2> QED BY <2>1, <2>2
<1>2. ASSUME NEW n \in Nodes, NEW next, Works(n, next), Follows(n, next)
      PROVE  \/ published'[t] = published[t]
             \/ /\ view'[t] = view[t] /\ view[t] \in Sessions
                /\ published'[t].key.session = view[t]
                /\ IsMaster(t) => published'[t].key.round = ctl[t].round
                /\ published'[t].key = published[t].key
                   => published[t].pairs \subseteq published'[t].pairs
  <2> DEFINE packet == Head(inbox[n])
  <2>1. CASE packet \in MeasurementPackets /\ PushMeasurement(n, packet)
    <3>1. /\ UNCHANGED view /\ view[n] \in Sessions /\ ~IsMaster(n)
          /\ packet.session = view[n]
      BY <1>2 DEF Works, Follows
    <3> HIDE DEF packet
    <3> QED BY <1>1, <2>1, <3>1
  <2>2. CASE UNCHANGED published
    BY <2>2
  <2> QED BY <1>2, <2>1, <2>2 DEF Follows
<1>3. ASSUME NEW n \in Nodes, NEW next, Works(n, next), Leads(n, next)
      PROVE  \/ published'[t] = published[t]
             \/ /\ view'[t] = view[t] /\ view[t] \in Sessions
                /\ published'[t].key.session = view[t]
                /\ IsMaster(t) => published'[t].key.round = ctl[t].round
                /\ published'[t].key = published[t].key
                   => published[t].pairs \subseteq published'[t].pairs
  <2>1. UNCHANGED view /\ view[n] \in Sessions
    BY <1>3, NodeFacts DEF Works, Leads
  <2> QED BY <1>1, <1>3, <2>1 DEF Leads
<1> QED BY <1>2, <1>3, StepKinds DEF Rests, Waits, Takes, Ranges, Sends, Resets

(* A step makes no new claim about a pair, but for what its node forwards  *)
(* as the master.                                                          *)
NewPair(n, c) ==
    /\ IsMaster(n) /\ view'[n] = view[n] /\ epoch' = epoch
    /\ c.session = view[n] /\ c.round = ctl[n].round
    /\ published'[n].key = [session |-> view[n], round |-> ctl[n].round]
    /\ c.pair \in published'[n].pairs

(* The lemma this predicate is for.                                        *)
LEMMA PairClaimsStep ==
    ASSUME IInv, [Next]_vars, NEW c \in PairClaims'
    PROVE  c \in PairClaims \/ \E n \in Nodes : NewPair(n, c)
<1>1. ASSUME InFlight' \subseteq InFlight, UNCHANGED published
      PROVE  c \in PairClaims
  BY <1>1 DEF PairClaims
<1>2. ASSUME NEW p \in InFlight', FromMaster(p), p.type = "RangeMeasurementForward",
             c.session = p.session, c.round = p.round,
             c = [session |-> p.session, round |-> p.round,
                  pair |-> <<p.anchor, p.tag>>],
             p \in InFlight
      PROVE  c \in PairClaims
  BY <1>2 DEF PairClaims
<1>3. CASE Rests
  <2>1. InFlight' \subseteq InFlight /\ UNCHANGED published
    BY <1>3 DEF Rests, InFlight, PacketsOf
  <2> QED BY <1>1, <2>1
<1>4. ASSUME NEW n \in Nodes, NEW next, Works(n, next),
             Waits(n, next) \/ Takes(n, next)
      PROVE  c \in PairClaims
  <2>1. InFlight' \subseteq InFlight
    BY <1>4, SameQueuesInFlight, KindFacts DEF Takes
  <2> QED BY <1>1, <1>4, <2>1 DEF Waits, Takes
<1>5. ASSUME NEW n \in Nodes, NEW next, Works(n, next), Ranges(n, next)
      PROVE  c \in PairClaims
  <2> DEFINE H == RouteControls(view[n], ctl[n].round, ctl[n].route)
             L == Reports(view[n])
  <2>1. InFlight' \subseteq InFlight \cup H \cup L
    BY <1>5, WorkInFlight DEF Ranges
  <2>2. \A p \in H \cup L : ~(FromMaster(p) /\ p.type = "RangeMeasurementForward")
    BY DEF RouteControls, Reports, ControlPackets
  <2> HIDE DEF H, L
  <2> QED BY <1>5, <2>1, <2>2 DEF Ranges, PairClaims
<1>6. ASSUME NEW n \in Nodes, NEW next, Works(n, next), Follows(n, next)
      PROVE  c \in PairClaims
  <2> DEFINE packet == Head(inbox[n])
             key == [session |-> packet.session, round |-> packet.round]
             claim == [session |-> packet.session, round |-> packet.round,
                       pair |-> <<packet.anchor, packet.tag>>]
  <2>1. InFlight' \subseteq InFlight
    BY <1>6, SameQueuesInFlight DEF Follows
  <2>2. packet \in InFlight
    BY <1>6, QueueTypes, TailElements DEF Follows, InFlight, PacketsOf
  <2>3. CASE UNCHANGED published
    BY <1>1, <2>1, <2>3
  <2>4. CASE packet \in MeasurementPackets /\ PushMeasurement(n, packet)
    <3>1. claim \in PairClaims
      <4>1. FromMaster(packet) /\ packet.type = "RangeMeasurementForward"
        BY <1>6, <2>4 DEF Follows, FromMaster, MeasurementPackets
      <4> HIDE DEF packet
      <4> QED BY <2>2, <4>1 DEF PairClaims
    <3>2. /\ \A t \in Tags \ {n} : published'[t] = published[t]
          /\ published'[n].key = key
          /\ published'[n].pairs \subseteq
                (IF published[n].key = key THEN published[n].pairs ELSE {})
                \cup {<<packet.anchor, packet.tag>>}
      <4>1. n \in Tags /\ published \in [Tags -> [key : [session : View, round : Nat],
                               pairs : SUBSET (Anchors \X Tags), count : Nat]]
        BY <1>6 DEF Follows, IInv, TypeOK
      <4> HIDE DEF packet
      <4> QED BY <2>4, <4>1 DEF PushMeasurement
    <3>3. ASSUME NEW t \in Tags,
                 published'[t].key.session \in (Tags \ {t}) \X (1..MaxEpoch),
                 NEW pair \in published'[t].pairs,
                 c = [session |-> published'[t].key.session,
                      round |-> published'[t].key.round, pair |-> pair]
          PROVE  c \in PairClaims
      <4>1. CASE /\ published[t].key = published'[t].key
                 /\ pair \in published[t].pairs
        <5>1. [session |-> published[t].key.session,
               round |-> published[t].key.round, pair |-> pair] \in PairClaims
          BY <3>3, <4>1, PublishedClaim
        <5> QED BY <3>3, <4>1, <5>1
      <4>2. CASE /\ t = n /\ pair = <<packet.anchor, packet.tag>>
        BY <3>1, <3>2, <3>3, <4>2
      <4> HIDE DEF packet, claim
      <4> QED BY <3>2, <3>3, <4>1, <4>2
    <3> HIDE DEF packet, claim
    <3>4. ASSUME NEW p \in InFlight', FromMaster(p), p.type = "RangeMeasurementForward",
                 c = [session |-> p.session, round |-> p.round,
                      pair |-> <<p.anchor, p.tag>>]
          PROVE  c \in PairClaims
      BY <2>1, <3>4 DEF PairClaims
    <3> QED BY <3>3, <3>4 DEF PairClaims
  <2> QED BY <1>6, <2>3, <2>4 DEF Follows
<1>7. ASSUME NEW n \in Nodes, NEW next, Works(n, next), Leads(n, next)
      PROVE  c \in PairClaims \/ NewPair(n, c)
  <2>0. /\ view' = view /\ epoch' = epoch /\ IsMaster(n)
        /\ n = view[n][1] /\ n \in Tags
    BY <1>7, NodeFacts DEF Works, Leads, IsMaster
  <2>1. \A p \in InFlight' :
           p \in InFlight \/ p \in MasterPackets(n) \/ p.type = "RangeControl"
    BY <1>7, LeadInFlight
  <2>2. \A t \in Tags :
           \/ published'[t] = published[t]
           \/ published'[t].key.session = view[n] /\ t = n
    <3>1. ASSUME NEW p, p.session = view[n], PushMeasurement(n, p), NEW t \in Tags
          PROVE  \/ published'[t] = published[t]
                 \/ published'[t].key.session = view[n] /\ t = n
      <4>1. published \in [Tags -> [key : [session : View, round : Nat],
                               pairs : SUBSET (Anchors \X Tags), count : Nat]]
        BY DEF IInv, TypeOK
      <4>2. CASE t = n
        BY <3>1, <4>1, <4>2 DEF PushMeasurement
      <4>3. CASE t # n
        BY <3>1, <4>1, <4>3 DEF PushMeasurement
      <4> QED BY <4>2, <4>3
    <3> QED BY <1>7, <3>1 DEF Leads
  <2>3. ASSUME NEW p \in InFlight', FromMaster(p), p.type = "RangeMeasurementForward",
               c = [session |-> p.session, round |-> p.round,
                    pair |-> <<p.anchor, p.tag>>]
        PROVE  c \in PairClaims \/ NewPair(n, c)
    <3>1. CASE p \in InFlight
      BY <2>3, <3>1 DEF PairClaims
    <3>2. CASE p \in MasterPackets(n)
      BY <2>0, <2>3, <3>2
         DEF NewPair, MasterPackets, MasterForwards, MasterSummaries
    <3> QED BY <2>1, <2>3, <3>1, <3>2
  <2>4. ASSUME NEW t \in Tags,
               published'[t].key.session \in (Tags \ {t}) \X (1..MaxEpoch),
               NEW pair \in published'[t].pairs,
               c = [session |-> published'[t].key.session,
                    round |-> published'[t].key.round, pair |-> pair]
        PROVE  c \in PairClaims
    <3>1. published'[t].key.session[1] # t
      BY <2>4
    <3>2. published'[t] = published[t]
      BY <2>0, <2>2, <3>1
    <3> QED BY <2>4, <3>2, PublishedClaim
  <2> QED BY <2>3, <2>4 DEF PairClaims
<1>8. ASSUME NEW n \in Nodes, NEW next, Sends(n, next) \/ Resets(n, next)
      PROVE  c \in PairClaims
  <2>1. InFlight' \subseteq InFlight
    BY <1>8, SendInFlight, ResetInFlight
  <2> QED BY <1>1, <1>8, <2>1 DEF Sends, Resets
<1> QED BY <1>3, <1>4, <1>5, <1>6, <1>7, <1>8, StepKinds

(* The induction step: the master goes on with the history it forwards     *)
(* from for as long as it is in the round.                                 *)
LEMMA NextMasterPublishedFirst ==
    IInv /\ SessionsAreOpened /\ MasterPublishedFirst /\ [Next]_vars
    => MasterPublishedFirst'
<1> SUFFICES ASSUME IInv, SessionsAreOpened, MasterPublishedFirst, [Next]_vars,
                    NEW c \in PairClaims'
             PROVE  LET m == c.session[1]
                        key == [session |-> c.session, round |-> c.round]
                    IN  /\ Opened(c.session, c.round)'
                        /\ view'[m] = c.session /\ c.round = ctl'[m].round
                           => published'[m].key = key
                        /\ published'[m].key = key => c.pair \in published'[m].pairs
  BY DEF MasterPublishedFirst
<1> DEFINE m == c.session[1]
           key == [session |-> c.session, round |-> c.round]
<1>1. CASE c \in PairClaims
  <2>1. c.session \in Sessions /\ c.round \in Nat /\ m \in Tags /\ m \in Nodes
        /\ c.session # NoSession
    BY <1>1, PairClaimType, SessionType
  <2>2. /\ Opened(c.session, c.round)
        /\ view[m] = c.session /\ c.round = ctl[m].round => published[m].key = key
        /\ published[m].key = key => c.pair \in published[m].pairs
    BY <1>1 DEF MasterPublishedFirst
  <2>3. Opened(c.session, c.round)'
    BY <2>1, <2>2, OpenedStep
  <2>4. /\ published'[m].key = [session |-> published'[m].key.session,
                                round |-> published'[m].key.round]
        /\ ctl[m].round \in Nat /\ ctl'[m].round \in Nat
        /\ epoch[m] \in Nat /\ c.session[2] \in Nat
    <3>1. published'[m] \in [key : [session : View, round : Nat],
                             pairs : SUBSET (Anchors \X Tags), count : Nat]
      BY <2>1, NextIInv DEF IInv, TypeOK
    <3>2. ctl'[m] \in Controllers
      BY <2>1, NextIInv DEF IInv, TypeOK
    <3>3. ctl[m].round \in Nat /\ ctl'[m].round \in Nat
      BY <2>1, <3>2, NodeFacts DEF Controllers
    <3>4. epoch[m] \in Nat
      BY <2>1, BoundAssumption DEF IInv, TypeOK
    <3>5. c.session[2] \in Nat
      BY <2>1 DEF Sessions
    <3> QED BY <3>1, <3>3, <3>4, <3>5
  <2>5. \/ published'[m] = published[m]
        \/ /\ view'[m] = view[m] /\ view[m] \in Sessions
           /\ published'[m].key.session = view[m]
           /\ IsMaster(m) => published'[m].key.round = ctl[m].round
           /\ published'[m].key = published[m].key
              => published[m].pairs \subseteq published'[m].pairs
    BY <2>1, PublishedStep
  <2>6. view[m] = c.session => IsMaster(m)
    BY <2>1 DEF IsMaster
  <2>7. view'[m] = c.session /\ c.round = ctl'[m].round => published'[m].key = key
    <3> SUFFICES ASSUME view'[m] = c.session, c.round = ctl'[m].round
                 PROVE  published'[m].key = key
      OBVIOUS
    <3>1. \/ epoch[m] < c.session[2]
          \/ view[m] = c.session /\ ctl[m].round <= ctl'[m].round
      BY <2>1, MasterClock
    <3>2. c.session[2] <= epoch[m] /\ (view[m] = c.session => c.round <= ctl[m].round)
      BY <2>2 DEF Opened
    <3> HIDE DEF m
    <3>3. view[m] = c.session /\ ctl[m].round = c.round
      BY <2>1, <2>4, <3>1, <3>2
    <3> QED BY <2>2, <2>4, <2>5, <2>6, <3>3
  <2>8. published'[m].key = key => c.pair \in published'[m].pairs
    <3> HIDE DEF m
    <3>1. CASE published'[m] = published[m]
      BY <2>2, <3>1
    <3>2. CASE published'[m] # published[m] /\ published'[m].key = key
      <4>1. view[m] = c.session /\ ctl[m].round = c.round
        BY <2>5, <2>6, <3>2
      <4> QED BY <2>2, <2>5, <3>2, <4>1
    <3> QED BY <3>1, <3>2
  <2> QED BY <2>3, <2>7, <2>8
<1>2. ASSUME NEW n \in Nodes, NewPair(n, c)
      PROVE  /\ Opened(c.session, c.round)'
             /\ view'[m] = c.session /\ c.round = ctl'[m].round
                => published'[m].key = key
             /\ published'[m].key = key => c.pair \in published'[m].pairs
  <2>1. /\ n = m /\ view[n] # NoSession /\ c.session = view[n]
        /\ c.round = ctl[n].round /\ view'[n] = view[n] /\ epoch' = epoch
        /\ published'[n].key = key /\ c.pair \in published'[n].pairs
    BY <1>2 DEF NewPair, IsMaster
  <2>2. c.session \in Sessions /\ c.session[2] <= epoch[m]
    BY <2>1, NodeFacts DEF SessionsAreOpened
  <2>3. c.round <= ctl'[m].round
    <3>1. ~(epoch[m] < c.session[2])
      <4>1. epoch[m] \in Nat /\ c.session[2] \in Nat
        BY <2>2, SessionType, BoundAssumption DEF IInv, TypeOK, Sessions
      <4> QED BY <2>2, <4>1
    <3>2. \/ epoch[m] < c.session[2]
          \/ view[m] = c.session /\ ctl[m].round <= ctl'[m].round
      BY <2>1, <2>2, MasterClock
    <3> QED BY <2>1, <3>1, <3>2
  <2>4. Opened(c.session, c.round)'
    BY <2>1, <2>2, <2>3 DEF Opened
  <2> QED BY <2>1, <2>4
<1> QED BY <1>1, <1>2, PairClaimsStep

(* A follower publishes for a round nothing but what its master published  *)
(* for it before, for as long as the master is at that round.              *)
THEOREM FollowersPublishAfterMaster == Spec => []FollowersTrailMaster
<1>1. Init => MasterPublishedFirst
  <2> SUFFICES ASSUME Init PROVE MasterPublishedFirst
    OBVIOUS
  <2>1. PairClaims = {}
    BY InitInFlight DEF PairClaims, Init
  <2> QED BY <2>1 DEF MasterPublishedFirst
<1>2. IInv /\ MasterPublishedFirst => FollowersTrailMaster
  <2> SUFFICES ASSUME IInv, MasterPublishedFirst, NEW m \in Tags, NEW t \in Tags,
                      published[t].key = published[m].key,
                      published[m].key.session \in {m} \X (1..MaxEpoch),
                      NEW pair \in published[t].pairs
               PROVE  pair \in published[m].pairs
    BY DEF FollowersTrailMaster
  <2>1. CASE t = m
    BY <2>1
  <2>2. CASE t # m
    <3> DEFINE c == [session |-> published[t].key.session,
                     round |-> published[t].key.round, pair |-> pair]
    <3>1. c \in PairClaims
      BY <2>2, PublishedClaim
    <3>2. c.session[1] = m
      OBVIOUS
    <3>3. published[m].key = [session |-> c.session, round |-> c.round]
      <4>1. published[m].key \in [session : View, round : Nat]
        BY DEF IInv, TypeOK
      <4> QED BY <4>1
    <3> QED BY <3>1, <3>2, <3>3 DEF MasterPublishedFirst
  <2> QED BY <2>1, <2>2
<1> QED BY InvariantHolds, InitAgreement, NextSessionsAreOpened,
           NextMasterPublishedFirst, <1>1, <1>2, PTL DEF Spec

-----------------------------------------------------------------------------
(* What a master sends of its rounds arrives in their order.               *)

(* A queue in order stays in order when packets join it that are behind    *)
(* none of those in it, nor of each other.                                 *)
LEMMA InOrderExtends ==
    ASSUME NEW S, NEW queue \in Seq(S), NEW L, NEW longer,
           Extends(queue, L, longer), InOrder(queue),
           \A p \in Elements(queue) \cup L, q \in L : NotBefore(p, q)
    PROVE  InOrder(longer)
<1>1. PICK more \in Seq(L) : longer = queue \o more
  BY DEF Extends
<1>2. /\ DOMAIN longer = 1..(Len(queue) + Len(more))
      /\ Len(queue) \in Nat /\ Len(more) \in Nat
      /\ \A i \in 1..Len(queue) : longer[i] = queue[i]
      /\ \A i \in 1..Len(more) : more[i] \in L
      /\ DOMAIN queue = 1..Len(queue)
  BY <1>1
<1>3. ASSUME NEW i \in DOMAIN longer, i > Len(queue) PROVE longer[i] \in L
  <2>1. i - Len(queue) \in 1..Len(more) /\ longer[i] = more[i - Len(queue)]
    BY <1>1, <1>2, <1>3
  <2> QED BY <1>2, <2>1
<1>4. ASSUME NEW i \in DOMAIN longer PROVE longer[i] \in Elements(queue) \cup L
  <2>1. CASE i <= Len(queue)
    BY <1>2, <2>1 DEF Elements
  <2>2. CASE i > Len(queue)
    BY <1>3, <2>2
  <2> QED BY <1>2, <2>1, <2>2
<1>5. ASSUME NEW i \in DOMAIN longer, NEW j \in DOMAIN longer, i < j
      PROVE  NotBefore(longer[i], longer[j])
  <2>1. CASE j <= Len(queue)
    <3>1. i \in DOMAIN queue /\ j \in DOMAIN queue
      BY <1>2, <1>5, <2>1
    <3> QED BY <1>2, <1>5, <3>1 DEF InOrder
  <2>2. CASE j > Len(queue)
    BY <1>3, <1>4, <2>2
  <2> QED BY <1>2, <2>1, <2>2
<1> QED BY <1>5 DEF InOrder

(* And when its first packet is taken, which is ahead of all the others.   *)
LEMMA InOrderTail ==
    ASSUME NEW S, NEW queue \in Seq(S), queue # <<>>, InOrder(queue)
    PROVE  /\ InOrder(Tail(queue))
           /\ \A q \in Elements(Tail(queue)) : NotBefore(Head(queue), q)
<1>1. /\ Len(queue) \in Nat /\ Len(queue) >= 1
      /\ DOMAIN queue = 1..Len(queue)
      /\ DOMAIN Tail(queue) = 1..(Len(queue) - 1)
      /\ \A i \in 1..(Len(queue) - 1) : Tail(queue)[i] = queue[i + 1]
      /\ Head(queue) = queue[1]
  BY HeadTailProperties, EmptySeq
<1>2. ASSUME NEW i \in DOMAIN Tail(queue), NEW j \in DOMAIN Tail(queue), i < j
      PROVE  NotBefore(Tail(queue)[i], Tail(queue)[j])
  <2>1. i + 1 \in DOMAIN queue /\ j + 1 \in DOMAIN queue /\ i + 1 < j + 1
    BY <1>1, <1>2
  <2>2. NotBefore(queue[i + 1], queue[j + 1])
    BY <2>1 DEF InOrder
  <2> QED BY <1>1, <2>2
<1>3. ASSUME NEW i \in DOMAIN Tail(queue)
      PROVE  NotBefore(Head(queue), Tail(queue)[i])
  <2>1. 1 \in DOMAIN queue /\ i + 1 \in DOMAIN queue /\ 1 < i + 1
    BY <1>1, <1>3
  <2>2. NotBefore(queue[1], queue[i + 1])
    BY <2>1 DEF InOrder
  <2> QED BY <1>1, <2>2
<1> QED BY <1>2, <1>3 DEF InOrder, Elements

(* What a master sends of a round, it opened before.                       *)
LEMMA OpenedTraffic ==
    ASSUME IInv, OneSummaryPerRound, MasterPublishedFirst,
           NEW p \in InFlight, FromMaster(p)
    PROVE  p.session \in Sessions /\ p.round \in Nat /\ Opened(p.session, p.round)
<1>1. p \in HonestPackets
  BY InFlightType
<1>2. CASE p.type = "RangeMeasurementForward"
  <2>1. p.session \in Sessions /\ p.round \in Nat
    BY <1>1, <1>2, PacketKinds DEF MeasurementPackets
  <2>2. [session |-> p.session, round |-> p.round, pair |-> <<p.anchor, p.tag>>]
           \in PairClaims
    BY <1>2 DEF PairClaims
  <2> QED BY <2>1, <2>2 DEF MasterPublishedFirst
<1>3. CASE p.type = "RangeRoundComplete"
  <2>1. p.session \in Sessions /\ p.round \in Nat
    BY <1>1, <1>3, PacketKinds DEF CompletePackets
  <2>2. SummaryOf(p) \in SummaryClaims
    BY <1>3 DEF SummaryClaims
  <2>3. p.session # NoSession
    BY <2>1, SessionType
  <2>4. Closed(SummaryOf(p).session, SummaryOf(p).round)
    BY <2>2, <2>3 DEF OneSummaryPerRound, SummaryOf
  <2>5. Opened(SummaryOf(p).session, SummaryOf(p).round)
    BY <2>4 DEF Closed
  <2> QED BY <2>1, <2>5 DEF SummaryOf
<1> QED BY <1>2, <1>3 DEF FromMaster

(* A packet is not behind itself.                                          *)
LEMMA NotBeforeItself ==
    ASSUME NEW p \in HonestPackets
    PROVE  NotBefore(p, p)
BY PacketKinds DEF NotBefore, FromMaster, MeasurementPackets, CompletePackets

(* What the master of a session sends of the round it runs is behind       *)
(* nothing it sent before.                                                 *)
RunPackets(n) ==
    {p \in HonestPackets : FromMaster(p) =>
        IsMaster(n) /\ p.session = view[n] /\ p.round = ctl[n].round}

(* The lemma this set is for.                                              *)
LEMMA RunPacketsAreLast ==
    ASSUME IInv, OneSummaryPerRound, MasterPublishedFirst, NEW n \in Nodes,
           NEW q \in RunPackets(n), NEW p \in InFlight \cup RunPackets(n)
    PROVE  NotBefore(p, q)
<1> SUFFICES ASSUME FromMaster(p), FromMaster(q), p.session = q.session
             PROVE  p.round <= q.round
  BY DEF NotBefore
<1>1. /\ view[n][1] = n /\ q.session = view[n] /\ q.round = ctl[n].round
      /\ ctl[n].round \in Nat
  BY NodeFacts DEF RunPackets, IsMaster, Controllers
<1>2. CASE p \in InFlight
  BY <1>1, <1>2, OpenedTraffic DEF Opened
<1>3. CASE p \in RunPackets(n)
  BY <1>1, <1>3 DEF RunPackets
<1> QED BY <1>2, <1>3

(* A node at work keeps the order.                                         *)
LEMMA WorkInOrder ==
    ASSUME IInv, OneSummaryPerRound, MasterPublishedFirst, TrafficInOrder,
           NEW n \in Nodes, NEW next, Works(n, next),
           Extends(ctl[n].low, RunPackets(n), next.low)
    PROVE  TrafficInOrder'
<1> DEFINE L == RunPackets(n)
<1>1. ctl'[n] = next /\ \A m \in Nodes \ {n} : ctl'[m] = ctl[m]
  BY OtherControllers DEF Works
<1>2. \A p \in InFlight \cup L, q \in L : NotBefore(p, q)
  BY RunPacketsAreLast
<1>3. ASSUME NEW m \in Nodes
      PROVE  /\ InOrder(inbox'[m])
             /\ Elements(inbox'[m]) \subseteq Elements(inbox[m])
  <2>1. Elements(inbox'[m]) \subseteq Elements(inbox[m])
    BY ConsumeElements DEF Works
  <2>2. inbox'[m] = inbox[m] \/ (inbox[m] # <<>> /\ inbox'[m] = Tail(inbox[m]))
    BY HonestInbox DEF Works, Consume
  <2>3. InOrder(inbox[m]) /\ inbox[m] \in Seq(HonestPackets)
    BY QueueTypes DEF TrafficInOrder
  <2> QED BY <2>1, <2>2, <2>3, InOrderTail
<1>4. ASSUME NEW m \in Nodes
      PROVE  /\ InOrder(ctl'[m].low)
             /\ Elements(ctl'[m].low) \subseteq Elements(ctl[m].low) \cup L
             /\ \A p \in Elements(ctl'[m].low) : FromMaster(p) => p.session[1] = m
  <2>1. /\ InOrder(ctl[m].low) /\ ctl[m].low \in Seq(HonestPackets)
        /\ \A p \in Elements(ctl[m].low) : FromMaster(p) => p.session[1] = m
    BY QueueTypes DEF TrafficInOrder
  <2>2. CASE m = n
    <3>1. \A p \in Elements(ctl[n].low) \cup L, q \in L : NotBefore(p, q)
      BY <1>2 DEF InFlight, PacketsOf
    <3>2. \A p \in L : FromMaster(p) => p.session[1] = n
      BY DEF RunPackets, IsMaster
    <3> HIDE DEF L
    <3>3. Extends(ctl[n].low, L, next.low)
      BY DEF L
    <3>4. InOrder(next.low)
      BY <2>1, <2>2, <3>1, <3>3, InOrderExtends
    <3>5. Elements(next.low) \subseteq Elements(ctl[n].low) \cup L
      BY <2>1, <2>2, <3>3, ExtendsElements
    <3> QED BY <1>1, <2>1, <2>2, <3>2, <3>4, <3>5
  <2>3. CASE m # n
    BY <1>1, <2>1, <2>3
  <2> QED BY <2>2, <2>3
<1>5. ASSUME NEW l \in Nodes, NEW m \in Nodes,
             NEW p \in Elements(inbox'[l]), NEW q \in Elements(ctl'[m].low)
      PROVE  NotBefore(p, q)
  <2>1. p \in Elements(inbox[l]) /\ p \in InFlight
    BY <1>3, <1>5 DEF InFlight, PacketsOf
  <2>2. CASE q \in Elements(ctl[m].low)
    BY <2>1, <2>2 DEF TrafficInOrder
  <2>3. CASE q \in L
    BY <1>2, <2>1, <2>3
  <2> QED BY <1>4, <1>5, <2>2, <2>3
<1> QED BY <1>3, <1>4, <1>5 DEF TrafficInOrder

(* The radio keeps the order: only the master of a session has a packet of *)
(* it to send, and sends the first.                                        *)
LEMMA SendInOrder ==
    ASSUME IInv, TrafficInOrder, NEW n \in Nodes, NEW next, Sends(n, next)
    PROVE  TrafficInOrder'
<1>1. ctl'[n] = next /\ \A m \in Nodes \ {n} : ctl'[m] = ctl[m]
  BY OtherControllers DEF Sends
<1>2. PICK packet \in HonestPackets :
          /\ \/ /\ ctl[n].high # <<>> /\ packet = Head(ctl[n].high)
                /\ next.high = Tail(ctl[n].high) /\ next.low = ctl[n].low
             \/ /\ ctl[n].low # <<>> /\ packet = Head(ctl[n].low)
                /\ next.high = ctl[n].high /\ next.low = Tail(ctl[n].low)
          /\ packet.dst \in Nodes
          /\ Extends(inbox[packet.dst], {packet}, inbox'[packet.dst])
          /\ \A m \in Nodes \ {packet.dst} : inbox'[m] = inbox[m]
  BY DEF Sends
<1>3. /\ InOrder(next.low)
      /\ Elements(next.low) \subseteq Elements(ctl[n].low)
      /\ FromMaster(packet) => /\ packet \in Elements(ctl[n].low)
                               /\ \A q \in Elements(next.low) : NotBefore(packet, q)
  <2>1. InOrder(ctl[n].low) /\ ctl[n].low \in Seq(HonestPackets)
    BY QueueTypes DEF TrafficInOrder
  <2>2. CASE /\ ctl[n].high # <<>> /\ packet = Head(ctl[n].high)
             /\ next.low = ctl[n].low
    <3>1. ctl[n].high \in Seq(ControlPackets)
      BY NodeFacts DEF Controllers
    <3>2. packet \in ControlPackets
      BY <2>2, <3>1, HeadTailProperties
    <3>3. ~FromMaster(packet)
      BY <3>2 DEF FromMaster, ControlPackets
    <3> QED BY <2>1, <2>2, <3>3
  <2>3. CASE /\ ctl[n].low # <<>> /\ packet = Head(ctl[n].low)
             /\ next.low = Tail(ctl[n].low)
    BY <2>1, <2>3, InOrderTail, TailElements
  <2> QED BY <1>2, <2>2, <2>3
<1>4. ASSUME NEW m \in Nodes
      PROVE  /\ InOrder(ctl'[m].low)
             /\ Elements(ctl'[m].low) \subseteq Elements(ctl[m].low)
             /\ \A q \in Elements(ctl'[m].low) : NotBefore(packet, q)
  <2>1. CASE m = n
    BY <1>1, <1>3, <2>1 DEF NotBefore
  <2>2. CASE m # n
    <3>1. ASSUME NEW q \in Elements(ctl[m].low) PROVE NotBefore(packet, q)
      BY <1>3, <2>2, <3>1 DEF NotBefore, TrafficInOrder
    <3> QED BY <1>1, <2>2, <3>1 DEF TrafficInOrder
  <2> QED BY <2>1, <2>2
<1>5. ASSUME NEW l \in Nodes
      PROVE  /\ InOrder(inbox'[l])
             /\ Elements(inbox'[l]) \subseteq Elements(inbox[l]) \cup {packet}
  <2>1. InOrder(inbox[l]) /\ inbox[l] \in Seq(HonestPackets)
    BY QueueTypes DEF TrafficInOrder
  <2>2. CASE l = packet.dst
    <3>1. Extends(inbox[l], {packet}, inbox'[l])
      BY <1>2, <2>2
    <3>2. ASSUME NEW p \in Elements(inbox[l]) PROVE NotBefore(p, packet)
      BY <1>3, <3>2 DEF NotBefore, TrafficInOrder
    <3>3. \A p \in Elements(inbox[l]) \cup {packet}, q \in {packet} : NotBefore(p, q)
      BY <3>2, NotBeforeItself
    <3> QED BY <2>1, <3>1, <3>3, InOrderExtends, ExtendsElements
  <2>3. CASE l # packet.dst
    BY <1>2, <2>1, <2>3
  <2> QED BY <2>2, <2>3
<1>6. ASSUME NEW l \in Nodes, NEW m \in Nodes,
             NEW p \in Elements(inbox'[l]), NEW q \in Elements(ctl'[m].low)
      PROVE  NotBefore(p, q)
  <2>1. CASE p = packet
    BY <1>4, <1>6, <2>1
  <2>2. CASE p \in Elements(inbox[l])
    BY <1>4, <1>6, <2>2 DEF TrafficInOrder
  <2> QED BY <1>5, <1>6, <2>1, <2>2
<1>7. \A m \in Nodes : \A p \in Elements(ctl'[m].low) :
         FromMaster(p) => p.session[1] = m
  BY <1>4 DEF TrafficInOrder
<1> QED BY <1>4, <1>5, <1>6, <1>7 DEF TrafficInOrder

(* Starting over keeps the order.                                          *)
LEMMA ResetInOrder ==
    ASSUME IInv, TrafficInOrder, NEW n \in Nodes, NEW next, Resets(n, next)
    PROVE  TrafficInOrder'
<1>1. ctl'[n] = next /\ \A m \in Nodes \ {n} : ctl'[m] = ctl[m]
  BY OtherControllers DEF Resets
<1>2. Elements(<<>>) = {} /\ InOrder(<<>>)
  BY DEF Elements, InOrder
<1>3. \A m \in Nodes : ctl'[m].low \in {ctl[m].low, <<>>}
  BY <1>1 DEF Resets
<1>4. \A m \in Nodes : inbox'[m] \in {inbox[m], <<>>}
  BY DEF Resets
<1> QED BY <1>2, <1>3, <1>4 DEF TrafficInOrder

(* The induction step of the order.                                        *)
LEMMA NextTrafficInOrder ==
    /\ IInv /\ OneSummaryPerRound /\ MasterPublishedFirst /\ TrafficInOrder
    /\ [Next]_vars
    => TrafficInOrder'
<1> SUFFICES ASSUME IInv, OneSummaryPerRound, MasterPublishedFirst,
                    TrafficInOrder, [Next]_vars
             PROVE  TrafficInOrder'
  OBVIOUS
<1>1. CASE Rests
  BY <1>1 DEF Rests, TrafficInOrder
<1>2. ASSUME NEW n \in Nodes, NEW next, Works(n, next), SameQueues(ctl[n], next)
      PROVE  TrafficInOrder'
  <2>1. Extends(ctl[n].low, RunPackets(n), next.low)
    BY <1>2, QueueTypes, ExtendsReflexive DEF SameQueues
  <2> QED BY <1>2, <2>1, WorkInOrder
<1>3. ASSUME NEW n \in Nodes, NEW next, Works(n, next), Ranges(n, next)
      PROVE  TrafficInOrder'
  <2>1. Reports(view[n]) \subseteq RunPackets(n)
    BY DEF Reports, OwnPackets, RunPackets
  <2>2. Extends(ctl[n].low, RunPackets(n), next.low)
    BY <1>3, <2>1, ExtendsMonotone DEF Ranges
  <2> QED BY <1>3, <2>2, WorkInOrder
<1>4. ASSUME NEW n \in Nodes, NEW next, Works(n, next), Leads(n, next)
      PROVE  TrafficInOrder'
  <2>1. MasterPackets(n) \subseteq RunPackets(n)
    BY <1>4 DEF Leads, MasterPackets, MasterForwards, MasterSummaries, RunPackets
  <2>2. Extends(ctl[n].low, RunPackets(n), next.low)
    BY <1>4, <2>1, ExtendsMonotone DEF Leads
  <2> QED BY <1>4, <2>2, WorkInOrder
<1>5. ASSUME NEW n \in Nodes, NEW next, Works(n, next),
             Waits(n, next) \/ Takes(n, next) \/ Follows(n, next)
      PROVE  TrafficInOrder'
  <2>1. SameQueues(ctl[n], next)
    BY <1>5, KindFacts DEF Takes, Follows
  <2> QED BY <1>2, <1>5, <2>1
<1> QED BY <1>1, <1>3, <1>4, <1>5, SendInOrder, ResetInOrder, StepKinds

-----------------------------------------------------------------------------
(* Rounds advance.                                                         *)

(* Nothing new of a session reaches a TAG but from the round its master    *)
(* runs.                                                                   *)
LEMMA TrafficStep ==
    ASSUME IInv, [Next]_vars, NEW t \in Tags, NEW p \in Traffic(t)', FromMaster(p)
    PROVE  p \in Traffic(t) \/ \E n \in Nodes : IsMaster(n) /\ p \in RunPackets(n)
<1>0. t \in Nodes
  BY DEF Nodes
<1>1. CASE Rests
  BY <1>1 DEF Rests, Traffic
<1>2. ASSUME NEW n \in Nodes, NEW next, Works(n, next),
             Extends(ctl[n].low, RunPackets(n), next.low)
      PROVE  p \in Traffic(t) \/ (IsMaster(n) /\ p \in RunPackets(n))
  <2>1. ctl'[n] = next /\ \A m \in Nodes \ {n} : ctl'[m] = ctl[m]
    BY <1>2, OtherControllers DEF Works
  <2>2. Elements(inbox'[t]) \subseteq Elements(inbox[t])
    BY <1>0, <1>2, ConsumeElements DEF Works
  <2>3. Elements(next.low) \subseteq Elements(ctl[n].low) \cup RunPackets(n)
    BY <1>2, QueueTypes, ExtendsElements
  <2>4. \A m \in Nodes : Elements(ctl'[m].low) \subseteq
                            Elements(ctl[m].low) \cup RunPackets(n)
    BY <2>1, <2>3
  <2>5. p \in Traffic(t) \cup RunPackets(n)
    BY <2>2, <2>4 DEF Traffic
  <2> QED BY <2>5 DEF RunPackets
<1>3. ASSUME NEW n \in Nodes, NEW next, Works(n, next), SameQueues(ctl[n], next)
      PROVE  Extends(ctl[n].low, RunPackets(n), next.low)
  BY <1>3, QueueTypes, ExtendsReflexive DEF SameQueues
<1>4. ASSUME NEW n \in Nodes, NEW next, Works(n, next), Ranges(n, next)
      PROVE  Extends(ctl[n].low, RunPackets(n), next.low)
  <2>1. Reports(view[n]) \subseteq RunPackets(n)
    BY DEF Reports, OwnPackets, RunPackets
  <2> QED BY <1>4, <2>1, ExtendsMonotone DEF Ranges
<1>5. ASSUME NEW n \in Nodes, NEW next, Works(n, next), Leads(n, next)
      PROVE  Extends(ctl[n].low, RunPackets(n), next.low)
  <2>1. MasterPackets(n) \subseteq RunPackets(n)
    BY <1>5 DEF Leads, MasterPackets, MasterForwards, MasterSummaries, RunPackets
  <2> QED BY <1>5, <2>1, ExtendsMonotone DEF Leads
<1>6. ASSUME NEW n \in Nodes, NEW next, Sends(n, next)
      PROVE  p \in Traffic(t)
  <2>1. ctl'[n] = next /\ \A m \in Nodes \ {n} : ctl'[m] = ctl[m]
    BY <1>6, OtherControllers DEF Sends
  <2>2. PICK packet \in HonestPackets :
          /\ \/ /\ ctl[n].high # <<>> /\ packet = Head(ctl[n].high)
                /\ next.high = Tail(ctl[n].high) /\ next.low = ctl[n].low
             \/ /\ ctl[n].low # <<>> /\ packet = Head(ctl[n].low)
                /\ next.high = ctl[n].high /\ next.low = Tail(ctl[n].low)
          /\ packet.dst \in Nodes
          /\ Extends(inbox[packet.dst], {packet}, inbox'[packet.dst])
          /\ \A m \in Nodes \ {packet.dst} : inbox'[m] = inbox[m]
    BY <1>6 DEF Sends
  <2>3. /\ Elements(next.low) \subseteq Elements(ctl[n].low)
        /\ FromMaster(packet) => packet \in Elements(ctl[n].low)
    <3>1. CASE /\ ctl[n].high # <<>> /\ packet = Head(ctl[n].high)
               /\ next.low = ctl[n].low
      <4>1. ctl[n].high \in Seq(ControlPackets)
        BY NodeFacts DEF Controllers
      <4>2. packet \in ControlPackets
        BY <3>1, <4>1, HeadTailProperties
      <4> QED BY <3>1, <4>2 DEF FromMaster, ControlPackets
    <3>2. CASE /\ ctl[n].low # <<>> /\ packet = Head(ctl[n].low)
               /\ next.low = Tail(ctl[n].low)
      BY <3>2, QueueTypes, TailElements
    <3> QED BY <2>2, <3>1, <3>2
  <2>4. \A m \in Nodes : Elements(ctl'[m].low) \subseteq Elements(ctl[m].low)
    BY <2>1, <2>3
  <2>5. Elements(inbox'[t]) \subseteq Elements(inbox[t]) \cup {packet}
    <3>1. CASE t = packet.dst
      BY <1>0, <2>2, <3>1, QueueTypes, ExtendsElements
    <3>2. CASE t # packet.dst
      BY <1>0, <2>2, <3>2
    <3> QED BY <3>1, <3>2
  <2>6. p \in Traffic(t) \/ p = packet
    BY <2>4, <2>5 DEF Traffic
  <2>7. FromMaster(packet) => packet \in Traffic(t)
    BY <2>3 DEF Traffic
  <2> QED BY <2>6, <2>7
<1>7. ASSUME NEW n \in Nodes, NEW next, Resets(n, next)
      PROVE  p \in Traffic(t)
  <2>1. ctl'[n] = next /\ \A m \in Nodes \ {n} : ctl'[m] = ctl[m]
    BY <1>7, OtherControllers DEF Resets
  <2>2. Elements(<<>>) = {}
    BY DEF Elements
  <2>3. \A m \in Nodes : Elements(ctl'[m].low) \subseteq Elements(ctl[m].low)
    BY <1>7, <2>1, <2>2 DEF Resets
  <2>4. Elements(inbox'[t]) \subseteq Elements(inbox[t])
    BY <1>0, <1>7, <2>2 DEF Resets
  <2> QED BY <2>3, <2>4 DEF Traffic
<1>8. ASSUME NEW n \in Nodes, NEW next, Works(n, next),
             \/ Waits(n, next) \/ Takes(n, next) \/ Ranges(n, next)
             \/ Follows(n, next) \/ Leads(n, next)
      PROVE  p \in Traffic(t) \/ (IsMaster(n) /\ p \in RunPackets(n))
  <2>1. Extends(ctl[n].low, RunPackets(n), next.low)
    BY <1>3, <1>4, <1>5, <1>8, KindFacts DEF Takes, Follows
  <2> QED BY <1>2, <1>8, <2>1
<1> QED BY <1>1, <1>6, <1>7, <1>8, StepKinds

(* A master publishes of the round it runs; a follower publishes the       *)
(* packet it takes.                                                        *)
Led(t, h) ==
    IsMaster(t) /\ h.session = view[t] /\ h.round = ctl[t].round
Followed(t, h) ==
    LET packet == Head(inbox[t])
    IN  /\ inbox[t] # <<>> /\ FromMaster(packet) /\ packet.session[1] # t
        /\ h.session = packet.session /\ h.round = packet.round
        /\ Traffic(t)' \subseteq Elements(Tail(inbox[t]))
                                 \cup UNION {Elements(ctl[m].low) : m \in Nodes}

(* The lemma these predicates are for.                                     *)
LEMMA HistoryStep ==
    ASSUME IInv, [Next]_vars, NEW t \in Tags
    PROVE  /\ \/ published'[t] = published[t]
              \/ Led(t, published'[t].key) \/ Followed(t, published'[t].key)
           /\ \/ summary'[t] = summary[t]
              \/ Led(t, summary'[t]) /\ ctl[t].st = "RunningRound"
              \/ /\ Followed(t, summary'[t])
                 /\ Head(inbox[t]).type = "RangeRoundComplete"
                 /\ summary'[t] = SummaryOf(Head(inbox[t]))
<1>0. /\ t \in Nodes
      /\ published \in [Tags -> [key : [session : View, round : Nat],
                                 pairs : SUBSET (Anchors \X Tags), count : Nat]]
      /\ summary \in [Tags -> [session : View, round : Nat, size : Counts,
                               received : Nat]]
  BY DEF Nodes, IInv, TypeOK
<1>1. ASSUME NEW n \in Nodes, NEW next, Works(n, next), Follows(n, next)
      PROVE  /\ \/ published'[t] = published[t] \/ Followed(t, published'[t].key)
             /\ \/ summary'[t] = summary[t]
                \/ /\ Followed(t, summary'[t])
                   /\ Head(inbox[t]).type = "RangeRoundComplete"
                   /\ summary'[t] = SummaryOf(Head(inbox[t]))
  <2> DEFINE packet == Head(inbox[n])
  <2>1. CASE n # t
    BY <1>0, <1>1, <2>1 DEF Follows, PushMeasurement
  <2>2. CASE n = t
    <3>1. /\ inbox[t] # <<>> /\ FromMaster(packet) /\ packet.session[1] # t
          /\ inbox'[t] = Tail(inbox[t])
      BY <1>0, <1>1, <2>2, HonestInbox, SessionType DEF Follows, Consume, IsMaster
    <3>2. \A m \in Nodes : ctl'[m].low = ctl[m].low
      BY <1>1, OtherControllers DEF Follows, Works, SameQueues
    <3>3. Traffic(t)' \subseteq Elements(Tail(inbox[t]))
                                \cup UNION {Elements(ctl[m].low) : m \in Nodes}
      BY <3>1, <3>2 DEF Traffic
    <3>4. \/ published'[t] = published[t]
          \/ /\ published'[t].key.session = packet.session
             /\ published'[t].key.round = packet.round
      <4> HIDE DEF packet
      <4> QED BY <1>0, <1>1, <2>2 DEF Follows, PushMeasurement, packet
    <3>5. \/ summary'[t] = summary[t]
          \/ packet \in CompletePackets /\ summary'[t] = SummaryOf(packet)
      BY <1>0, <1>1, <2>2 DEF Follows
    <3>6. packet \in CompletePackets => packet.type = "RangeRoundComplete"
      BY DEF CompletePackets
    <3>7. /\ SummaryOf(packet).session = packet.session
          /\ SummaryOf(packet).round = packet.round
      BY DEF SummaryOf
    <3>8. packet = Head(inbox[t])
      BY <2>2
    <3> HIDE DEF packet
    <3>9. ASSUME NEW h, h.session = packet.session, h.round = packet.round
          PROVE  Followed(t, h)
      BY <3>1, <3>3, <3>8, <3>9 DEF Followed
    <3> QED BY <3>4, <3>5, <3>6, <3>7, <3>8, <3>9
  <2> QED BY <2>1, <2>2
<1>2. ASSUME NEW n \in Nodes, NEW next, Works(n, next), Leads(n, next)
      PROVE  /\ published'[t] = published[t] \/ Led(t, published'[t].key)
             /\ \/ summary'[t] = summary[t]
                \/ Led(t, summary'[t]) /\ ctl[t].st = "RunningRound"
  <2>1. CASE n # t
    BY <1>0, <1>2, <2>1 DEF Leads, PushMeasurement
  <2>2. CASE n = t
    <3>1. published'[t] = published[t] \/ Led(t, published'[t].key)
      <4>1. ASSUME NEW packet, packet.session = view[t], packet.round = ctl[t].round,
                   PushMeasurement(t, packet)
            PROVE  /\ published'[t].key.session = view[t]
                   /\ published'[t].key.round = ctl[t].round
        BY <1>0, <4>1 DEF PushMeasurement
      <4>2. /\ IsMaster(t)
            /\ \/ UNCHANGED published
               \/ \E packet \in MeasurementPackets :
                     /\ packet.session = view[t] /\ packet.round = ctl[t].round
                     /\ PushMeasurement(t, packet)
        BY <1>2, <2>2 DEF Leads
      <4> QED BY <4>1, <4>2 DEF Led
    <3>2. \/ summary'[t] = summary[t]
          \/ Led(t, summary'[t]) /\ ctl[t].st = "RunningRound"
      BY <1>0, <1>2, <2>2 DEF Leads, Led
    <3> QED BY <3>1, <3>2
  <2> QED BY <2>1, <2>2
<1>3. ASSUME NEW n \in Nodes, NEW next, Works(n, next),
             \/ Waits(n, next) \/ Takes(n, next) \/ Ranges(n, next)
      PROVE  UNCHANGED <<published, summary>>
  BY <1>3 DEF Waits, Takes, Ranges
<1>4. ASSUME NEW n \in Nodes, NEW next, Sends(n, next) \/ Resets(n, next)
      PROVE  UNCHANGED <<published, summary>>
  BY <1>4 DEF Sends, Resets
<1> QED BY <1>1, <1>2, <1>3, <1>4, StepKinds DEF Rests

(* What a follower takes is ahead of what may still reach it.              *)
LEMMA FollowedBehindTraffic ==
    ASSUME IInv, OneSummaryPerRound, MasterPublishedFirst, TrafficInOrder,
           [Next]_vars, NEW t \in Tags, NEW h, Followed(t, h)
    PROVE  /\ h.session \in Sessions /\ h.round \in Nat
           /\ Opened(h.session, h.round)
           /\ \A p \in Traffic(t)' : Behind(h, p)
<1> DEFINE packet == Head(inbox[t])
<1>1. /\ t \in Nodes /\ inbox[t] # <<>> /\ inbox[t] \in Seq(HonestPackets)
      /\ InOrder(inbox[t])
  BY QueueTypes DEF Followed, Nodes, TrafficInOrder
<1>2. packet \in Elements(inbox[t])
  BY <1>1, TailElements
<1>3. packet \in InFlight
  BY <1>1, <1>2 DEF InFlight, PacketsOf
<1>4. /\ FromMaster(packet) /\ h.session = packet.session /\ h.round = packet.round
      /\ Traffic(t)' \subseteq Elements(Tail(inbox[t]))
                               \cup UNION {Elements(ctl[m].low) : m \in Nodes}
  BY DEF Followed
<1>5. \A p \in Elements(Tail(inbox[t])) : NotBefore(packet, p)
  BY <1>1, InOrderTail
<1>6. \A m \in Nodes : \A p \in Elements(ctl[m].low) : NotBefore(packet, p)
  BY <1>1, <1>2 DEF TrafficInOrder
<1> HIDE DEF packet
<1>7. \A p \in Traffic(t)' : NotBefore(packet, p)
  BY <1>4, <1>5, <1>6
<1>8. \A p \in Traffic(t)' : Behind(h, p)
  BY <1>4, <1>7 DEF NotBefore, Behind
<1> QED BY <1>3, <1>4, <1>8, OpenedTraffic

(* What a master publishes it has opened.                                  *)
LEMMA LedIsOpened ==
    ASSUME IInv, SessionsAreOpened, NEW t \in Tags, NEW h, Led(t, h)
    PROVE  /\ h.session \in Sessions /\ h.round \in Nat /\ h.session[1] = t
           /\ Opened(h.session, h.round)
<1>1. t \in Nodes
  BY DEF Nodes
<1>2. /\ view[t] \in Sessions /\ view[t] # NoSession /\ view[t][1] = t
      /\ h.session = view[t] /\ h.round = ctl[t].round /\ ctl[t].round \in Nat
  BY <1>1, NodeFacts DEF Led, IsMaster, Controllers
<1>3. view[t][2] <= epoch[t]
  BY <1>1, <1>2 DEF SessionsAreOpened
<1> QED BY <1>2, <1>3 DEF Opened

(* The types of what a TAG has published.                                  *)
LEMMA HistoryType ==
    ASSUME IInv, NEW t \in Tags, NEW h \in Histories(t), h.session # NoSession
    PROVE  h.session \in Sessions /\ h.round \in Nat
BY DEF Histories, IInv, TypeOK, View

(* The induction step.                                                     *)
LEMMA NextHistoryBehindTraffic ==
    /\ IInv /\ SessionsAreOpened /\ OneSummaryPerRound /\ MasterPublishedFirst
    /\ TrafficInOrder /\ HistoryBehindTraffic /\ [Next]_vars
    => HistoryBehindTraffic'
<1> SUFFICES ASSUME IInv, SessionsAreOpened, OneSummaryPerRound,
                    MasterPublishedFirst, TrafficInOrder, HistoryBehindTraffic,
                    [Next]_vars, NEW t \in Tags, NEW h \in Histories(t)',
                    h.session # NoSession
             PROVE  /\ Opened(h.session, h.round)'
                    /\ h.session[1] # t => \A p \in Traffic(t)' : Behind(h, p)
  BY DEF HistoryBehindTraffic
<1>1. CASE h \in Histories(t)
  <2>1. /\ Opened(h.session, h.round)
        /\ h.session[1] # t => \A p \in Traffic(t) : Behind(h, p)
    BY <1>1 DEF HistoryBehindTraffic
  <2>2. h.session \in Sessions /\ h.round \in Nat
    BY <1>1, HistoryType
  <2>3. ASSUME h.session[1] # t, NEW p \in Traffic(t)', FromMaster(p),
               h.session = p.session
        PROVE  h.round <= p.round
    <3>1. CASE p \in Traffic(t)
      BY <2>1, <2>3, <3>1 DEF Behind
    <3>2. ASSUME NEW n \in Nodes, IsMaster(n), p \in RunPackets(n)
          PROVE  h.round <= p.round
      BY <2>1, <2>3, <3>2 DEF RunPackets, IsMaster, Opened
    <3> QED BY <2>3, <3>1, <3>2, TrafficStep
  <2> QED BY <2>1, <2>2, <2>3, OpenedStep DEF Behind
<1>2. CASE Led(t, h)
  BY <1>2, LedIsOpened, OpenedStep
<1>3. CASE Followed(t, h)
  BY <1>3, FollowedBehindTraffic, OpenedStep
<1>4. h \in Histories(t) \/ Led(t, h) \/ Followed(t, h)
  BY HistoryStep DEF Histories
<1> QED BY <1>1, <1>2, <1>3, <1>4

(* A step takes no TAG back.                                               *)
LEMMA NextRoundsAdvance ==
    ASSUME IInv, SessionsAreOpened, OneSummaryPerRound, MasterPublishedFirst,
           TrafficInOrder, HistoryBehindTraffic, [Next]_vars, NEW t \in Tags
    PROVE  /\ published'[t].key.session = published[t].key.session
              => published'[t].key.round >= published[t].key.round
           /\ /\ summary'[t].session = summary[t].session
              /\ summary'[t] # summary[t]
              => summary'[t].round > summary[t].round
<1>0. /\ t \in Nodes /\ published[t].key \in Histories(t) /\ summary[t] \in Histories(t)
      /\ published[t].key.round \in Nat /\ summary[t].round \in Nat
  BY DEF Nodes, Histories, IInv, TypeOK
<1>1. ASSUME NEW h \in Histories(t), NEW new, new.session = h.session,
             Led(t, new)
      PROVE  /\ h.round \in Nat /\ new.round \in Nat /\ new.round >= h.round
             /\ h.session # NoSession /\ h.session = view[t] /\ h.session[1] = t
             /\ new.round = ctl[t].round
  <2>1. /\ view[t] # NoSession /\ view[t][1] = t
        /\ h.session = view[t] /\ new.round = ctl[t].round
    BY <1>1 DEF Led, IsMaster
  <2>2. h.round \in Nat /\ Opened(h.session, h.round)
    BY <1>1, <2>1, HistoryType DEF HistoryBehindTraffic
  <2>3. ctl[t].round \in Nat
    BY <1>0, NodeFacts DEF Controllers
  <2> QED BY <2>1, <2>2, <2>3 DEF Opened
<1>2. ASSUME NEW h \in Histories(t), NEW new, new.session = h.session,
             Followed(t, new)
      PROVE  /\ h.round \in Nat /\ new.round \in Nat /\ new.round >= h.round
             /\ h.session # NoSession /\ Head(inbox[t]) \in InFlight
  <2> DEFINE packet == Head(inbox[t])
  <2>1. /\ inbox[t] # <<>> /\ FromMaster(packet) /\ packet.session[1] # t
        /\ new.session = packet.session /\ new.round = packet.round
    BY <1>2 DEF Followed
  <2>2. packet \in Traffic(t) /\ packet \in InFlight
    BY <1>0, <2>1, QueueTypes, TailElements DEF Traffic, InFlight, PacketsOf
  <2>3. new.session \in Sessions /\ new.round \in Nat
    BY <1>2, FollowedBehindTraffic
  <2>4. h.session # NoSession /\ h.round \in Nat
    BY <1>2, <2>3, SessionType, HistoryType
  <2>5. Behind(h, packet)
    BY <1>2, <2>1, <2>2, <2>4 DEF HistoryBehindTraffic
  <2> HIDE DEF packet
  <2>6. new.round >= h.round
    BY <1>2, <2>1, <2>5 DEF Behind
  <2> QED BY <2>2, <2>3, <2>4, <2>6 DEF packet
<1>3. published'[t].key.session = published[t].key.session
      => published'[t].key.round >= published[t].key.round
  BY <1>0, <1>1, <1>2, HistoryStep
<1>4. ASSUME summary'[t].session = summary[t].session, summary'[t] # summary[t]
      PROVE  summary'[t].round > summary[t].round
  <2>1. summary[t] \in SummaryClaims
    BY DEF SummaryClaims
  <2>2. CASE Led(t, summary'[t]) /\ ctl[t].st = "RunningRound"
    <3>1. /\ summary'[t].round \in Nat /\ summary[t].round \in Nat
          /\ summary[t].session # NoSession /\ summary[t].session = view[t]
          /\ summary[t].session[1] = t /\ summary'[t].round = ctl[t].round
      BY <1>0, <1>1, <1>4, <2>2
    <3>2. Closed(summary[t].session, summary[t].round)
      BY <2>1, <3>1 DEF OneSummaryPerRound
    <3> QED BY <2>2, <3>1, <3>2 DEF Closed
  <2>3. CASE /\ Followed(t, summary'[t])
             /\ Head(inbox[t]).type = "RangeRoundComplete"
             /\ summary'[t] = SummaryOf(Head(inbox[t]))
    <3>1. /\ summary'[t].round \in Nat /\ summary[t].round \in Nat
          /\ summary'[t].round >= summary[t].round
          /\ Head(inbox[t]) \in InFlight
      BY <1>0, <1>2, <1>4, <2>3
    <3>2. summary'[t] \in SummaryClaims
      BY <2>3, <3>1 DEF SummaryClaims, Followed
    <3>3. summary'[t].round # summary[t].round
      BY <1>4, <2>1, <3>2 DEF OneSummaryPerRound
    <3> QED BY <3>1, <3>3
  <2> QED BY <1>4, <2>2, <2>3, HistoryStep
<1> QED BY <1>3, <1>4

(* At first nothing is on its way, and nothing is published.               *)
LEMMA InitHistory == Init => /\ OneSummaryPerRound /\ MasterPublishedFirst
                             /\ TrafficInOrder /\ HistoryBehindTraffic
<1> SUFFICES ASSUME Init
             PROVE  /\ OneSummaryPerRound /\ MasterPublishedFirst
                    /\ TrafficInOrder /\ HistoryBehindTraffic
  OBVIOUS
<1>1. \A n \in Nodes : ctl[n].low = <<>> /\ inbox[n] = <<>>
  BY ResetFields DEF Init
<1>2. Elements(<<>>) = {} /\ InOrder(<<>>)
  BY DEF Elements, InOrder
<1>3. SummaryClaims = {summary[t] : t \in Tags}
  BY InitInFlight DEF SummaryClaims
<1>4. OneSummaryPerRound
  BY <1>3 DEF OneSummaryPerRound, Init
<1>5. PairClaims = {}
  BY InitInFlight DEF PairClaims, Init
<1>6. MasterPublishedFirst
  BY <1>5 DEF MasterPublishedFirst
<1>7. TrafficInOrder
  BY <1>1, <1>2 DEF TrafficInOrder
<1>8. HistoryBehindTraffic
  BY DEF HistoryBehindTraffic, Histories, Init
<1> QED BY <1>4, <1>6, <1>7, <1>8

(* The rounds a TAG publishes never go back within a session, and each     *)
(* summary is for a newer round: also when the TAG restarted in between,   *)
(* or left the session and came back to it.                                *)
THEOREM PublishedRoundsAdvance == Spec => RoundsAdvance
<1>1. /\ IInv /\ SessionsAreOpened /\ OneSummaryPerRound /\ MasterPublishedFirst
      /\ TrafficInOrder /\ HistoryBehindTraffic /\ [Next]_vars
      => [\A t \in Tags :
             /\ published'[t].key.session = published[t].key.session
                => published'[t].key.round >= published[t].key.round
             /\ /\ summary'[t].session = summary[t].session
                /\ summary'[t] # summary[t]
                => summary'[t].round > summary[t].round]_vars
  BY NextRoundsAdvance
<1> QED BY InvariantHolds, InitAgreement, InitHistory, NextSessionsAreOpened,
           NextOneSummaryPerRound, NextMasterPublishedFirst, NextTrafficInOrder,
           NextHistoryBehindTraffic, <1>1, PTL DEF Spec, RoundsAdvance
-----------------------------------------------------------------------------
(* What the steps do to one ANCHOR and its driver.                         *)

SameTask(c, next) == SamePlace(c, next) /\ next.lastControl = c.lastControl

(* It does not move on; its driver may finish.                             *)
AnchorRests(a) ==
    /\ view'[a] = view[a] /\ SameTask(ctl[a], ctl'[a])
    /\ uwb'[a].job = uwb[a].job
    /\ uwb'[a].phase = "Waiting" =>
          uwb[a].phase = "Waiting" /\ result'[a] \in {result[a], NoResult}

(* It takes a route over.                                                  *)
AnchorTakes(a) ==
    /\ view'[a] = view[a] /\ uwb'[a] = uwb[a] /\ result'[a] = result[a]
    /\ \E packet \in Elements(inbox[a]) :
          /\ packet.type = "RangeControl" /\ AcceptsControl(a, packet)
          /\ ctl'[a] = TakeRoute(ctl[a], packet)

(* It moves along its route, and starts to range its new place.            *)
AnchorRanges(a) ==
    LET c == ctl[a] d == ctl'[a]
    IN  /\ view'[a] = view[a] /\ c.st = "AnchorRanging"
        /\ d.round = c.round /\ d.route = c.route
        /\ d.anchorIndex = c.anchorIndex /\ d.lastControl = c.lastControl
        /\ uwb[a].phase = "Idle" \/ result[a] # NoResult
        /\ result'[a] = NoResult
        /\ \/ /\ uwb'[a] = uwb[a]
              /\ d.st = "AnchorRanging" => d.tagIndex > c.tagIndex
           \/ /\ d.st = "AnchorRanging" /\ d.started /\ OnRoute(d)
              /\ d.tagIndex > c.tagIndex \/ (d.tagIndex = c.tagIndex /\ ~c.started)
              /\ uwb'[a] = [phase |-> "Waiting",
                            job |-> Job(a, d.round, d.route.tags[d.tagIndex])]

(* It starts over, in another session or with its memory.                  *)
AnchorResets(a) ==
    /\ ctl'[a].st \notin {"RunningRound", "AnchorRanging"}
    /\ ctl'[a].lastControl = [round |-> 0, pair |-> 0, sequence |-> 0]
    /\ \/ /\ uwb'[a] = uwb[a] /\ view'[a] # view[a]
          /\ \/ view'[a] = NoSession /\ "masterLost" \in Faults
             \/ view'[a] \in Announced(a)
       \/ "restart" \in Faults /\ uwb'[a] = [phase |-> "Idle", job |-> NoResult]

(* UpdateAnchor from its place on.                                         *)
LEMMA ProceedAlongRouteAnchor ==
    ASSUME IInv, NEW a \in Anchors, ctl[a].st = "AnchorRanging",
           NEW count \in 0..(Len(ctl[a].route.tags) - ctl[a].tagIndex + 1),
           IF count = 0 THEN ~ctl[a].started /\ uwb[a].phase = "Idle"
           ELSE uwb[a].phase = "Idle" \/ result[a] # NoResult,
           ProceedAlongRoute(a, ctl[a], count, CurrentJob(a)),
           view' = view, result' = [result EXCEPT ![a] = NoResult]
    PROVE  AnchorRanges(a)
<1> DEFINE c == ctl[a]
           moved == IF count = 0 THEN c
                    ELSE CompleteAnchorMeasurements(a, c, count, CurrentJob(a))
           starts == moved.st = "AnchorRanging" /\ uwb[a].phase = "Idle"
           next == IF starts THEN [moved EXCEPT !.started = TRUE] ELSE moved
           target == Job(a, moved.round, moved.route.tags[moved.tagIndex])
<1>1. /\ a \in Nodes /\ c \in HonestControllers /\ view[a] \in Sessions
      /\ OnRoute(c) /\ c.tagIndex \in Nat
  <2>1. a \in Nodes
    BY DEF Nodes
  <2> QED BY <2>1, NodeFacts DEF IInv, AnchorsAreOnRoute, MayRange, Controllers
<1>2. /\ moved \in HonestControllers
      /\ moved.round = c.round /\ moved.route = c.route
      /\ moved.anchorIndex = c.anchorIndex /\ moved.lastControl = c.lastControl
      /\ moved.st = "AnchorRanging" =>
            OnRoute(moved) /\ moved.tagIndex = c.tagIndex + count
  <2>1. CASE count = 0
    BY <1>1, <2>1
  <2>2. CASE count # 0
    <3>1. /\ count \in 1..(Len(c.route.tags) - c.tagIndex + 1)
          /\ CurrentJob(a) = Job(a, c.round, c.route.tags[c.tagIndex])
      BY <2>2 DEF CurrentJob
    <3> HIDE DEF c
    <3> QED BY <1>1, <2>2, <3>1, CompleteAnchorMeasurementsType
  <2> QED BY <2>1, <2>2
<1>3. /\ ctl' = [ctl EXCEPT ![a] = next]
      /\ uwb' = IF starts THEN [uwb EXCEPT ![a] = [phase |-> "Waiting", job |-> target]]
                ELSE uwb
  BY DEF ProceedAlongRoute
<1> HIDE DEF moved
<1>4. /\ ctl'[a] = next /\ result'[a] = NoResult
      /\ uwb'[a] = IF starts THEN [phase |-> "Waiting", job |-> target] ELSE uwb[a]
  BY <1>1, <1>3 DEF IInv, TypeOK
<1>5. /\ next.st = moved.st /\ next.round = moved.round /\ next.route = moved.route
      /\ next.anchorIndex = moved.anchorIndex /\ next.tagIndex = moved.tagIndex
      /\ next.lastControl = moved.lastControl
      /\ starts => next.started
  BY <1>2 DEF HonestControllers, Controllers
<1>6. count # 0 /\ moved.st = "AnchorRanging" => moved.tagIndex > c.tagIndex
  BY <1>1, <1>2
<1>7. count = 0 => moved = c
  BY DEF moved
<1> HIDE DEF next
<1>8. CASE starts
  <2>1. /\ next.st = "AnchorRanging" /\ next.started /\ OnRoute(next)
        /\ next.tagIndex > c.tagIndex \/ (next.tagIndex = c.tagIndex /\ ~c.started)
    BY <1>2, <1>5, <1>6, <1>7, <1>8 DEF OnRoute
  <2>2. uwb'[a] = [phase |-> "Waiting",
                   job |-> Job(a, next.round, next.route.tags[next.tagIndex])]
    BY <1>4, <1>5, <1>8
  <2> HIDE DEF starts
  <2> QED BY <1>2, <1>4, <1>5, <2>1, <2>2 DEF AnchorRanges
<1>9. CASE ~starts
  <2>1. next.st = "AnchorRanging" => next.tagIndex > c.tagIndex
    BY <1>5, <1>6, <1>7, <1>9
  <2>2. uwb'[a] = uwb[a]
    BY <1>4, <1>9
  <2> HIDE DEF starts
  <2> QED BY <1>2, <1>4, <1>5, <2>1, <2>2 DEF AnchorRanges
<1> QED BY <1>8, <1>9

(* SequentialRangingController::UpdateAnchor.                              *)
LEMMA UpdateAnchorAnchor ==
    ASSUME IInv, NEW a \in Anchors, UpdateAnchor(a)
    PROVE  AnchorRests(a) \/ AnchorRanges(a)
<1> DEFINE c == ctl[a]
<1>1. /\ view' = view /\ result' = [result EXCEPT ![a] = NoResult] /\ a \in Nodes
      /\ result'[a] = NoResult
  BY DEF UpdateAnchor, Nodes, IInv, TypeOK
<1>2. CASE UNCHANGED <<ctl, uwb>>
  BY <1>1, <1>2 DEF AnchorRests, SameTask, SamePlace
<1>3. CASE /\ c.st = "AnchorRanging" /\ ~c.started
           /\ uwb[a].phase = "Idle"
           /\ \E count \in CompletedCounts(a, c, 0) :
                 ProceedAlongRoute(a, c, count,
                                   Job(a, c.round, c.route.tags[c.tagIndex]))
  <2>1. PICK count \in CompletedCounts(a, c, 0) :
           ProceedAlongRoute(a, c, count, CurrentJob(a))
    BY <1>3 DEF CurrentJob
  <2>2. /\ c.tagIndex \in 1..Len(c.route.tags) /\ Len(c.route.tags) \in Nat
    <3>1. c.route.tags \in Seq(Tags)
      BY <1>1 DEF IInv, TypeOK, Controllers, Route
    <3> QED BY <1>1, <1>3, <3>1, LenProperties DEF IInv, AnchorsAreOnRoute, OnRoute
  <2>3. count \in 0..(Len(c.route.tags) - c.tagIndex + 1)
    BY <2>2 DEF CompletedCounts
  <2> QED BY <1>1, <1>3, <2>1, <2>3, ProceedAlongRouteAnchor
<1>4. CASE /\ c.st = "AnchorRanging" /\ c.started
           /\ result[a] # NoResult
           /\ \E count \in CompletedCounts(a, c, 1) :
                 ProceedAlongRoute(a, c, count, result[a])
  <2>1. PICK count \in CompletedCounts(a, c, 1) :
           ProceedAlongRoute(a, c, count, CurrentJob(a))
    BY <1>1, <1>4 DEF IInv, StartedIsCurrent
  <2>2. /\ c.tagIndex \in 1..Len(c.route.tags) /\ Len(c.route.tags) \in Nat
    <3>1. c.route.tags \in Seq(Tags)
      BY <1>1 DEF IInv, TypeOK, Controllers, Route
    <3> QED BY <1>1, <1>4, <3>1, LenProperties DEF IInv, AnchorsAreOnRoute, OnRoute
  <2>3. count \in 0..(Len(c.route.tags) - c.tagIndex + 1) /\ count # 0
    BY <2>2 DEF CompletedCounts
  <2> QED BY <1>1, <1>4, <2>1, <2>3, ProceedAlongRouteAnchor
<1> QED BY <1>2, <1>3, <1>4 DEF UpdateAnchor

(* A step at one node leaves the others alone.                             *)
LEMMA OthersStay ==
    ASSUME IInv, NEW n \in Nodes, Cycle(n) \/ Uwb(n) \/ Environment(n),
           NEW m \in Nodes, m # n
    PROVE  /\ view'[m] = view[m] /\ ctl'[m] = ctl[m]
           /\ uwb'[m] = uwb[m] /\ result'[m] = result[m]
<1>0. /\ view \in [Nodes -> View] /\ ctl \in [Nodes -> Controllers]
      /\ uwb \in [Nodes -> [phase : {"Idle", "Waiting", "Draining"},
                            job : Jobs \cup {NoResult}]]
      /\ result \in [Nodes -> Jobs \cup {NoResult}]
  BY DEF IInv, TypeOK
<1>1. CASE Cycle(n)
  <2>1. ctl'[m] = ctl[m]
    <3>1. \E next : ctl' = [ctl EXCEPT ![n] = next]
      BY <1>1, ProcessReceivedPacketsKind, UpdateAnchorKind, UpdateMasterKind,
         TrySendNextPacketKind DEF Cycle, Works, Sends
    <3> QED BY <1>0, <3>1
  <2>2. view' = view
    BY <1>1 DEF Cycle, ProcessReceivedPackets, UpdateAnchor, TryStartRound,
                RoundDeadline, TrySendNextPacket
  <2>3. CASE ~UpdateAnchor(n)
    BY <1>1, <2>1, <2>2, <2>3 DEF Cycle, ProcessReceivedPackets, TryStartRound,
       RoundDeadline, TrySendNextPacket
  <2>4. CASE UpdateAnchor(n)
    <3>1. uwb' = uwb \/ \E value : uwb' = [uwb EXCEPT ![n] = value]
      BY <2>4 DEF UpdateAnchor, ProceedAlongRoute
    <3>2. result' = [result EXCEPT ![n] = NoResult]
      BY <2>4 DEF UpdateAnchor
    <3> QED BY <1>0, <2>1, <2>2, <3>1, <3>2
  <2> QED BY <2>3, <2>4
<1>2. CASE Uwb(n)
  <2>1. /\ UNCHANGED <<view, ctl>>
        /\ \E phase : uwb' = [uwb EXCEPT ![n].phase = phase]
        /\ result' = result \/ \E value : result' = [result EXCEPT ![n] = value]
    BY <1>2 DEF Uwb, UwbRespond, UwbTimeout, UwbComplete, UwbDrained
  <2> QED BY <1>0, <2>1
<1>3. CASE Environment(n)
  <2>1. /\ view' = view \/ \E value : view' = [view EXCEPT ![n] = value]
        /\ ctl' = ctl \/ \E value : ctl' = [ctl EXCEPT ![n] = value]
        /\ uwb' = uwb \/ \E value : uwb' = [uwb EXCEPT ![n] = value]
        /\ result' = result \/ \E value : result' = [result EXCEPT ![n] = value]
    BY <1>3 DEF Environment, OpenSession, FollowSession, LoseMaster,
                DetectMasterChange, CompleteSynchronization,
                StartResynchronization, Restart
  <2> QED BY <1>0, <2>1
<1> QED BY <1>1, <1>2, <1>3

(* Every step is of one of these kinds for an ANCHOR.                      *)
LEMMA AnchorKinds ==
    ASSUME IInv, [Next]_vars, NEW a \in Anchors
    PROVE  AnchorRests(a) \/ AnchorTakes(a) \/ AnchorRanges(a) \/ AnchorResets(a)
<1>0. /\ a \in Nodes /\ a \notin Tags /\ ~IsMaster(a)
      /\ view \in [Nodes -> View] /\ ctl \in [Nodes -> Controllers]
      /\ uwb \in [Nodes -> [phase : {"Idle", "Waiting", "Draining"},
                            job : Jobs \cup {NoResult}]]
      /\ result \in [Nodes -> Jobs \cup {NoResult}]
  <2>1. a \in Nodes /\ a \notin Tags
    BY NodeAssumption DEF Nodes
  <2> QED BY <2>1, NodeFacts DEF IInv, TypeOK
<1>1. CASE /\ view'[a] = view[a] /\ ctl'[a] = ctl[a]
           /\ uwb'[a] = uwb[a] /\ result'[a] = result[a]
  BY <1>1 DEF AnchorRests, SameTask, SamePlace
<1>2. CASE UNCHANGED vars
  BY <1>1, <1>2 DEF vars
<1>3. CASE ProcessReceivedPackets(a)
  <2>1. PICK next : /\ Works(a, next)
                    /\ \/ Waits(a, next) \/ Takes(a, next)
                       \/ Follows(a, next) \/ Leads(a, next)
    BY <1>0, <1>3, ProcessReceivedPacketsKind
  <2>2. /\ ctl'[a] = next
        /\ UNCHANGED <<view, uwb, result>>
    BY <1>0, <1>3, <2>1 DEF Works, ProcessReceivedPackets
  <2>3. CASE Waits(a, next)
    BY <1>1, <2>2, <2>3 DEF Waits
  <2>4. CASE Takes(a, next)
    BY <2>2, <2>4 DEF Takes, AnchorTakes
  <2> QED BY <1>0, <2>1, <2>3, <2>4 DEF Follows, Leads
<1>4. CASE UpdateAnchor(a)
  BY <1>4, UpdateAnchorAnchor
<1>5. CASE TrySendNextPacket(a)
  <2>1. /\ UNCHANGED <<view, uwb, result>>
        /\ \E queue : \/ ctl' = [ctl EXCEPT ![a].high = queue]
                      \/ ctl' = [ctl EXCEPT ![a].low = queue]
    BY <1>5 DEF TrySendNextPacket
  <2>2. PICK queue : \/ ctl'[a] = [ctl[a] EXCEPT !.high = queue]
                     \/ ctl'[a] = [ctl[a] EXCEPT !.low = queue]
    BY <1>0, <2>1
  <2>3. ctl[a] \in Controllers
    BY <1>0
  <2>4. SameTask(ctl[a], ctl'[a])
    BY <2>2, <2>3 DEF SameTask, SamePlace, Controllers
  <2> QED BY <2>1, <2>4 DEF AnchorRests
<1>6. CASE Uwb(a)
  <2>1. /\ UNCHANGED <<view, ctl>>
        /\ \E phase \in {"Idle", "Draining"} : uwb' = [uwb EXCEPT ![a].phase = phase]
    BY <1>6 DEF Uwb, UwbRespond, UwbTimeout, UwbComplete, UwbDrained
  <2>2. uwb'[a].job = uwb[a].job /\ uwb'[a].phase # "Waiting"
    BY <1>0, <2>1
  <2> QED BY <2>1, <2>2 DEF AnchorRests, SameTask, SamePlace
<1>7. CASE CompleteSynchronization(a) \/ StartResynchronization(a)
  BY <1>1, <1>7 DEF CompleteSynchronization, StartResynchronization
<1>8. CASE FollowSession(a) \/ LoseMaster(a)
  <2>1. PICK session :
          /\ DetectMasterChange(a, session)
          /\ \/ session = NoSession /\ "masterLost" \in Faults
             \/ session \in Announced(a)
    BY <1>8 DEF FollowSession, LoseMaster
  <2> DEFINE state == SessionState(a, session)
  <2>2. /\ view'[a] = session /\ session # view[a] /\ uwb'[a] = uwb[a]
        /\ ctl'[a] = ResetSessionState(state)
    BY <1>0, <2>1 DEF DetectMasterChange, SessionController
  <2>3. state \notin {"RunningRound", "AnchorRanging"}
    BY DEF SessionState
  <2> HIDE DEF state
  <2>4. ctl'[a].st = state
        /\ ctl'[a].lastControl = [round |-> 0, pair |-> 0, sequence |-> 0]
    BY <2>2, ResetFields
  <2> QED BY <2>1, <2>2, <2>3, <2>4 DEF AnchorResets
<1>9. CASE Restart(a)
  <2>1. /\ "restart" \in Faults /\ uwb'[a] = [phase |-> "Idle", job |-> NoResult]
        /\ ctl'[a] = ResetSessionState("WaitingForMaster")
    BY <1>0, <1>9 DEF Restart
  <2> QED BY <2>1, ResetFields DEF AnchorResets
<1>10. PICK n \in Nodes : Cycle(n) \/ Uwb(n) \/ Environment(n) \/ UNCHANGED vars
  BY <1>0 DEF Next
<1>11. CASE n # a
  BY <1>0, <1>1, <1>2, <1>10, <1>11, OthersStay
<1>12. CASE n = a
  <2>1. ~TryStartRound(a) /\ ~RoundDeadline(a) /\ ~OpenSession(a)
    BY <1>0, NodeAssumption DEF TryStartRound, RoundDeadline, OpenSession
  <2> QED BY <1>2, <1>3, <1>4, <1>5, <1>6, <1>7, <1>8, <1>9, <1>10, <1>12, <2>1
          DEF Cycle, Environment
<1> QED BY <1>11, <1>12
-----------------------------------------------------------------------------
(* An ANCHOR ranges no pair again.                                         *)

(* A step names routes of its snapshots only.                              *)
LEMMA NextRoutesAreSnapshots ==
    IInv /\ SessionsAreOpened /\ RoutesAreSnapshots /\ [Next]_vars
       => RoutesAreSnapshots'
<1> SUFFICES ASSUME IInv, SessionsAreOpened, RoutesAreSnapshots, [Next]_vars,
                    NEW c \in RouteClaims'
             PROVE  c.route \in Snapshots
  BY DEF RoutesAreSnapshots, Snapshots
<1>1. CASE c \in RouteClaims
  BY <1>1 DEF RoutesAreSnapshots
<1>2. CASE \E n \in Nodes : NewRoute(n, c)
  BY <1>2 DEF NewRoute, RouteClaim
<1> QED BY <1>1, <1>2, RouteClaimsStep

(* What a list of ids holds, and where.                                    *)
LEMMA PlaceInList ==
    ASSUME NEW S, S \subseteq Nat, NEW list \in Seq(S), NEW i \in DOMAIN list
    PROVE  i \in Nat \ {0} /\ list[i] \in S /\ list[i] \in Nat
<1>1. i \in 1..Len(list) /\ Len(list) \in Nat
  BY LenProperties
<1>2. list[i] \in S
  BY <1>1, ElementOfSeq
<1>3. list[i] \in Nat
  BY <1>2
<1>4. i \in Nat \ {0}
  BY <1>1
<1> QED BY <1>2, <1>3, <1>4

(* A snapshot lists no id twice, and its TAGs in ascending order.          *)
LEMMA SnapshotOrder ==
    ASSUME NEW route \in Snapshots
    PROVE  /\ route.anchors \in Seq(Anchors) /\ route.tags \in Seq(Tags)
           /\ route.tags # <<>>
           /\ \A i, j \in DOMAIN route.tags : i < j => route.tags[i] < route.tags[j]
           /\ \A i, j \in DOMAIN route.anchors :
                 route.anchors[i] = route.anchors[j] => i = j
<1>1. /\ route.anchors \in Seq(Anchors) /\ route.tags \in Seq(Tags)
      /\ route.tags # <<>>
      /\ \A i, j \in DOMAIN route.tags : i < j => route.tags[i] < route.tags[j]
      /\ \A i, j \in DOMAIN route.anchors : i < j => route.anchors[i] < route.anchors[j]
  BY NodeAssumption DEF Snapshots
<1>2. ASSUME NEW i \in DOMAIN route.anchors, NEW j \in DOMAIN route.anchors,
             route.anchors[i] = route.anchors[j]
      PROVE  i = j
  <2>1. /\ i \in Nat /\ j \in Nat
        /\ route.anchors[i] \in Nat /\ route.anchors[j] \in Nat
    BY <1>1, PlaceInList, NodeAssumption
  <2> QED BY <1>1, <1>2, <2>1
<1> QED BY <1>1, <1>2

(* Only a TAG that may be elected opens sessions.                          *)
LEMMA NextOnlyMastersOpen ==
    IInv /\ OnlyMastersOpen /\ [Next]_vars => OnlyMastersOpen'
<1> SUFFICES ASSUME IInv, OnlyMastersOpen, [Next]_vars,
                    NEW t \in Tags, epoch'[t] > 0
             PROVE  t \in MasterTags
  BY DEF OnlyMastersOpen
<1>1. CASE epoch' = epoch
  BY <1>1 DEF OnlyMastersOpen
<1>2. ASSUME NEW n \in MasterTags, epoch' = [epoch EXCEPT ![n] = @ + 1]
      PROVE  t \in MasterTags
  BY <1>2 DEF OnlyMastersOpen, IInv, TypeOK
<1> QED BY <1>1, <1>2, StepKinds DEF Rests, Works, Sends, Resets

(* Where on its route a control is.                                        *)
LEMMA PairSequenceType ==
    ASSUME NEW packet \in ControlPackets
    PROVE  PairSequence(packet) \in Nat \ {0} /\ Taker(packet) \in Anchors
<1>1. /\ packet.route.anchors \in Seq(Anchors) /\ packet.route.tags \in Seq(Tags)
      /\ packet.anchorIndex \in DOMAIN packet.route.anchors
  BY DEF ControlPackets, Route
<1>2. /\ packet.anchorIndex \in Nat \ {0} /\ Len(packet.route.tags) \in Nat
      /\ Taker(packet) \in Anchors
  BY <1>1, PlaceInList, LenProperties, NodeAssumption DEF Taker
<1>3. (packet.anchorIndex - 1) * Len(packet.route.tags) \in Nat
  <2>1. packet.anchorIndex - 1 \in Nat
    BY <1>2
  <2> QED BY <1>2, <2>1, ProductType
<1> QED BY <1>2, <1>3 DEF PairSequence

(* The control that an ANCHOR takes is of a round, a route and a place it  *)
(* can rely on.                                                            *)
LEMMA TakenControl ==
    ASSUME IInv, OneRoutePerRound, RoutesAreSnapshots, NEW a \in Anchors,
           NEW packet \in Elements(inbox[a]),
           packet.type = "RangeControl", AcceptsControl(a, packet)
    PROVE  /\ packet \in ControlPackets /\ packet \in InFlight
           /\ packet.session = view[a] /\ view[a] # NoSession
           /\ RouteClaim(view[a], packet.round, packet.route) \in RouteClaims
           /\ Opened(view[a], packet.round) /\ packet.route \in Snapshots
           /\ packet.anchorIndex \in DOMAIN packet.route.anchors
           /\ packet.route.anchors[packet.anchorIndex] = a
           /\ packet.round \in Nat /\ PairSequence(packet) \in Nat \ {0}
           /\ IsNewControl(ctl[a], packet)
<1>1. a \in Nodes
  BY DEF Nodes
<1>2. packet \in InFlight
  BY <1>1 DEF InFlight, PacketsOf
<1>3. packet \in ControlPackets
  BY <1>2, InFlightType, PacketKinds
<1>4. /\ packet.session = view[a] /\ view[a] # NoSession
      /\ packet.route.anchors[packet.anchorIndex] = a /\ IsNewControl(ctl[a], packet)
  BY DEF AcceptsControl, AddressesAnchor
<1> DEFINE claim == RouteClaim(view[a], packet.round, packet.route)
<1>5. claim \in RouteClaims
  BY <1>2, <1>4 DEF RouteClaims
<1>6. Opened(view[a], packet.round) /\ packet.route \in Snapshots
  BY <1>5 DEF OneRoutePerRound, RoutesAreSnapshots, RouteClaim
<1>7. /\ packet.anchorIndex \in DOMAIN packet.route.anchors
      /\ packet.anchorIndex \in Nat /\ packet.round \in Nat
  BY <1>3 DEF ControlPackets
<1> QED BY <1>2, <1>3, <1>4, <1>5, <1>6, <1>7, PairSequenceType

(* What an ANCHOR has taken over.                                          *)
LEMMA TakenFields ==
    ASSUME NEW c \in Controllers, NEW packet
    PROVE  LET next == TakeRoute(c, packet)
           IN  /\ next.st = "AnchorRanging" /\ next.started = FALSE
               /\ next.round = packet.round /\ next.route = packet.route
               /\ next.anchorIndex = packet.anchorIndex /\ next.tagIndex = 1
               /\ next.lastControl.round = packet.round
               /\ next.lastControl.pair = PairSequence(packet)
BY DEF TakeRoute, ControlTaken, Controllers

(* The induction step for what an ANCHOR remembers: a new route is for a   *)
(* later round than it remembers.                                          *)
LEMMA NextAnchorsRemember ==
    ASSUME IInv, SessionsAreOpened, OneRoutePerRound, RoutesAreSnapshots,
           AnchorsRemember, [Next]_vars
    PROVE  AnchorsRemember'
<1> SUFFICES ASSUME NEW a \in Anchors
             PROVE  /\ ctl'[a].lastControl.pair > 0 => Remembers(a)'
                    /\ ctl'[a].st = "AnchorRanging" => ctl'[a].lastControl.pair > 0
  BY DEF AnchorsRemember
<1>1. /\ a \in Nodes /\ ctl[a] \in Controllers /\ ctl'[a] \in Controllers
      /\ view[a] # NoSession => view[a] \in Sessions
      /\ ctl[a].round \in Nat
  BY NodeFacts, NextIInv DEF Nodes, IInv, TypeOK, Controllers
<1>2. OneRoutePerRound' /\ RoutesAreSnapshots'
  BY NextOneRoutePerRound, NextRoutesAreSnapshots
<1>3. CASE /\ view'[a] = view[a]
           /\ ctl'[a].round = ctl[a].round /\ ctl'[a].route = ctl[a].route
           /\ ctl'[a].anchorIndex = ctl[a].anchorIndex
           /\ ctl'[a].lastControl = ctl[a].lastControl
           /\ ctl'[a].st = "AnchorRanging" => ctl[a].st = "AnchorRanging"
  <2>1. ASSUME ctl[a].lastControl.pair > 0 PROVE Remembers(a)'
    <3>1. Remembers(a)
      BY <2>1 DEF AnchorsRemember
    <3>2. Opened(view[a], ctl[a].round)'
      BY <1>1, <1>3, <3>1, OpenedStep DEF Remembers
    <3>3. ASSUME NEW d \in RouteClaims',
                 d.session = view[a], d.round = ctl[a].round
          PROVE  d.route = ctl[a].route
      <4>1. CASE d \in RouteClaims
        BY <3>1, <3>3, <4>1 DEF Remembers
      <4>2. ASSUME NEW n \in Nodes, NewRoute(n, d) PROVE FALSE
        <5>1. d.session = view[n] /\ d.round = ctl[n].round + 1 /\ n = view[n][1]
          BY <4>2 DEF NewRoute, RouteClaim, IsMaster
        <5>2. ctl[n].round \in Nat
          BY <4>2, NodeFacts DEF Controllers
        <5> QED BY <1>1, <3>1, <3>3, <5>1, <5>2 DEF Remembers, Opened
      <4> QED BY <4>1, <4>2, RouteClaimsStep
    <3> QED BY <1>3, <3>1, <3>2, <3>3 DEF Remembers, Snapshots
  <2> QED BY <1>3, <2>1 DEF AnchorsRemember
<1>4. CASE AnchorTakes(a)
  <2>1. PICK packet \in Elements(inbox[a]) :
          /\ packet.type = "RangeControl" /\ AcceptsControl(a, packet)
          /\ ctl'[a] = TakeRoute(ctl[a], packet)
    BY <1>4 DEF AnchorTakes
  <2>2. /\ view[a] # NoSession /\ Opened(view[a], packet.round)
        /\ packet.route \in Snapshots /\ packet.round \in Nat
        /\ packet.anchorIndex \in DOMAIN packet.route.anchors
        /\ packet.route.anchors[packet.anchorIndex] = a
        /\ PairSequence(packet) \in Nat \ {0}
    BY <2>1, TakenControl
  <2>3. /\ ctl'[a].st = "AnchorRanging"
        /\ ctl'[a].round = packet.round /\ ctl'[a].route = packet.route
        /\ ctl'[a].anchorIndex = packet.anchorIndex
        /\ ctl'[a].lastControl.round = packet.round
        /\ ctl'[a].lastControl.pair = PairSequence(packet)
        /\ view'[a] = view[a]
    <3>1. view'[a] = view[a]
      BY <1>4 DEF AnchorTakes
    <3>2. ctl[a] \in Controllers
      BY <1>1
    <3>3. LET next == TakeRoute(ctl[a], packet)
          IN  /\ next.st = "AnchorRanging"
              /\ next.round = packet.round /\ next.route = packet.route
              /\ next.anchorIndex = packet.anchorIndex
              /\ next.lastControl.round = packet.round
              /\ next.lastControl.pair = PairSequence(packet)
      BY <3>2, TakenFields
    <3> QED BY <2>1, <3>1, <3>3
  <2>4. Opened(view[a], packet.round)'
    BY <1>1, <2>2, <2>3, OpenedStep
  <2>5. RouteClaim(view'[a], ctl'[a].round, ctl'[a].route) \in RouteClaims'
    BY <1>1, <2>3 DEF RouteClaims, InRound
  <2>6. \A d \in RouteClaims' :
           d.session = view'[a] /\ d.round = ctl'[a].round => d.route = ctl'[a].route
    BY <1>2, <2>5 DEF OneRoutePerRound, RouteClaim
  <2>7. ctl'[a].lastControl.pair =
           (ctl'[a].anchorIndex - 1) * Len(ctl'[a].route.tags) + 1
    BY <2>3 DEF PairSequence
  <2> QED BY <2>2, <2>3, <2>4, <2>6, <2>7 DEF Remembers, Snapshots
<1>5. CASE AnchorRests(a)
  BY <1>3, <1>5 DEF AnchorRests, SameTask, SamePlace
<1>6. CASE AnchorRanges(a)
  BY <1>3, <1>6 DEF AnchorRanges
<1>7. CASE AnchorResets(a)
  BY <1>7 DEF AnchorResets
<1> QED BY <1>4, <1>5, <1>6, <1>7, AnchorKinds

(* The session an ANCHOR changes to is a later one.                        *)
LEMMA LaterSession ==
    ASSUME OneMaster, IInv, SessionsAreOpened, OnlyMastersOpen,
           NEW a \in Nodes, view[a] # NoSession, NEW session \in Announced(a)
    PROVE  /\ view[a][2] \in Nat /\ session[2] \in Nat
           /\ view[a][2] < session[2] /\ session[2] <= epoch[session[1]]
<1>1. view[a] \in Sessions /\ session \in Sessions
  BY NodeFacts DEF Announced
<1>2. PICK u \in Tags, k \in 1..MaxEpoch : view[a] = <<u, k>>
  BY <1>1 DEF Sessions
<1>3. PICK t \in Tags, l \in 1..MaxEpoch : session = <<t, l>>
  BY <1>1 DEF Sessions
<1>4. view[a][1] = u /\ view[a][2] = k /\ session[1] = t /\ session[2] = l
  BY <1>2, <1>3
<1>5. /\ k \in Nat /\ k > 0 /\ epoch[u] \in Nat
      /\ l \in Nat /\ l > 0 /\ epoch[t] \in Nat
  BY BoundAssumption DEF IInv, TypeOK
<1>6. k <= epoch[u]
  BY <1>4 DEF SessionsAreOpened
<1>7. l <= epoch[t] /\ <<u, k>> \notin {t} \X (l..MaxEpoch)
  BY <1>2, <1>4 DEF Announced
<1>8. u = t
  BY <1>5, <1>6, <1>7 DEF OneMaster, OnlyMastersOpen
<1>9. k < l
  BY <1>5, <1>7, <1>8, BoundAssumption
<1> QED BY <1>4, <1>5, <1>7, <1>9

(* The induction step for the jobs of the drivers.                         *)
LEMMA NextJobsAreInOrder ==
    ASSUME OneMaster, "masterLost" \notin Faults,
           IInv, SessionsAreOpened, OneRoutePerRound, RoutesAreSnapshots,
           OnlyMastersOpen, AnchorsRemember, JobsAreInOrder, [Next]_vars
    PROVE  JobsAreInOrder'
<1> SUFFICES ASSUME NEW a \in Anchors, uwb'[a].job # NoResult
             PROVE  JobIsBehind(a)'
  BY DEF JobsAreInOrder
<1>1. /\ a \in Nodes /\ ctl[a] \in Controllers
      /\ view[a] # NoSession => view[a] \in Sessions
      /\ ctl[a].round \in Nat /\ ctl[a].anchorIndex \in Nat /\ ctl[a].tagIndex \in Nat
      /\ ctl[a].lastControl \in [round : Nat, pair : Nat, sequence : Nat]
      /\ uwb[a].job # NoResult => uwb[a].job \in Jobs /\ uwb[a].job.round \in Nat
  <2>1. uwb[a].job \in Jobs \cup {NoResult}
    BY DEF Nodes, IInv, TypeOK
  <2> QED BY <2>1, NodeFacts DEF Nodes, Controllers, Jobs
<1>2. uwb[a].job # NoResult => JobIsBehind(a)
  BY DEF JobsAreInOrder
<1>3. CASE AnchorRests(a)
  BY <1>2, <1>3 DEF AnchorRests, SameTask, SamePlace, JobIsBehind, Passed
<1>4. CASE AnchorTakes(a)
  <2> DEFINE job == uwb[a].job c == ctl[a]
  <2>1. PICK packet \in Elements(inbox[a]) :
          /\ packet.type = "RangeControl" /\ AcceptsControl(a, packet)
          /\ ctl'[a] = TakeRoute(ctl[a], packet)
    BY <1>4 DEF AnchorTakes
  <2>2. /\ RouteClaim(view[a], packet.round, packet.route) \in RouteClaims
        /\ packet.route \in Snapshots /\ packet.round \in Nat
        /\ packet.anchorIndex \in DOMAIN packet.route.anchors
        /\ packet.route.anchors[packet.anchorIndex] = a
        /\ PairSequence(packet) \in Nat \ {0} /\ IsNewControl(c, packet)
    BY <2>1, TakenControl
  <2>3. /\ ctl'[a].round = packet.round
        /\ ctl'[a].lastControl.pair = PairSequence(packet)
        /\ view'[a] = view[a] /\ uwb'[a].job = job
    <3>1. view'[a] = view[a] /\ uwb'[a] = uwb[a]
      BY <1>4 DEF AnchorTakes
    <3>2. LET next == TakeRoute(ctl[a], packet)
          IN  next.round = packet.round /\ next.lastControl.pair = PairSequence(packet)
      BY <1>1, TakenFields
    <3> QED BY <2>1, <3>1, <3>2
  <2>4. JobIsBehind(a) /\ job \in Jobs /\ job.round \in Nat
    BY <1>1, <1>2, <2>3
  <2>5. ASSUME job.session = view[a]
        PROVE  job.round <= packet.round /\ job.round # packet.round
    <3>1. /\ c.lastControl.pair > 0 /\ job.round <= c.round
      BY <2>4, <2>5 DEF JobIsBehind
    <3>2. Remembers(a)
      BY <3>1 DEF AnchorsRemember
    <3>3. c.round = c.lastControl.round /\ c.lastControl.round <= packet.round
      BY <1>1, <2>2, <3>2 DEF Remembers, IsNewControl
    <3>4. ASSUME packet.round = c.round PROVE FALSE
      <4>1. packet.route = c.route
        BY <2>2, <3>2, <3>4 DEF Remembers, RouteClaim
      <4>2. packet.anchorIndex = c.anchorIndex
        BY <2>2, <3>2, <4>1, SnapshotOrder DEF Remembers
      <4>3. PairSequence(packet) = c.lastControl.pair
        BY <3>2, <4>1, <4>2 DEF Remembers, PairSequence
      <4>4. PairSequence(packet) > c.lastControl.pair
        BY <2>2, <3>3, <3>4 DEF IsNewControl
      <4> QED BY <2>2, <4>3, <4>4
    <3> HIDE DEF c, job
    <3>5. c.round \in Nat /\ job.round \in Nat
      BY <1>1, <2>4 DEF c
    <3> QED BY <2>2, <3>1, <3>3, <3>4, <3>5
  <2>6. ctl'[a].lastControl.pair > 0
    BY <2>2, <2>3
  <2> QED BY <2>3, <2>4, <2>5, <2>6 DEF JobIsBehind
<1>5. CASE AnchorRanges(a)
  <2> DEFINE c == ctl[a] d == ctl'[a]
  <2>1. /\ c.lastControl.pair > 0 /\ d.lastControl = c.lastControl
        /\ d.round = c.round /\ d.route = c.route
        /\ view'[a] = view[a] /\ c.st = "AnchorRanging"
    BY <1>5 DEF AnchorRanges, AnchorsRemember
  <2>2. CASE /\ uwb'[a] = uwb[a]
             /\ d.st = "AnchorRanging" => d.tagIndex > c.tagIndex
    <3>1. JobIsBehind(a)
      BY <1>2, <2>2
    <3>2. d \in Controllers
      BY <1>1, NextIInv DEF IInv, TypeOK
    <3>3. d.tagIndex \in Nat /\ DOMAIN c.route.tags \subseteq Nat
      <4>1. c.route.tags \in Seq(Tags)
        BY <1>1 DEF Controllers, Route
      <4>2. d.tagIndex \in Nat
        BY <3>2 DEF Controllers
      <4> QED BY <4>1, <4>2, PlaceInList, NodeAssumption
    <3>4. ASSUME uwb[a].job.session = view[a], uwb[a].job.round = c.round,
                 d.st = "AnchorRanging"
          PROVE  Passed(d, uwb[a].job.tag)
      <4>1. PICK k \in DOMAIN c.route.tags :
               /\ c.route.tags[k] = uwb[a].job.tag
               /\ k < c.tagIndex \/ (k = c.tagIndex /\ c.started)
        BY <2>1, <3>1, <3>4 DEF JobIsBehind, Passed
      <4>2. k < d.tagIndex
        BY <1>1, <2>2, <3>3, <3>4, <4>1
      <4> QED BY <2>1, <4>1, <4>2 DEF Passed
    <3> QED BY <2>1, <2>2, <3>1, <3>4 DEF JobIsBehind, Passed
  <2>3. CASE /\ d.st = "AnchorRanging" /\ d.started /\ OnRoute(d)
             /\ uwb'[a] = [phase |-> "Waiting",
                           job |-> Job(a, d.round, d.route.tags[d.tagIndex])]
    <3>1. uwb'[a].job = [session |-> view[a], round |-> c.round,
                         tag |-> d.route.tags[d.tagIndex]]
      BY <2>1, <2>3 DEF Job
    <3>2. view[a] \in Sessions
      BY <1>1, <2>1 DEF IInv, AnchorsAreOnRoute, MayRange
    <3>3. view[a][2] \in Nat /\ view[a] # NoSession
      BY <3>2, NodeAssumption DEF Sessions
    <3>4. Passed(d, d.route.tags[d.tagIndex])
      BY <2>3 DEF Passed, OnRoute
    <3>5. uwb'[a].job.session[2] <= view'[a][2]
      BY <2>1, <3>1, <3>3
    <3>6. uwb'[a].job.round <= d.round
      BY <1>1, <2>1, <3>1
    <3> QED BY <2>1, <3>1, <3>3, <3>4, <3>5, <3>6 DEF JobIsBehind, Passed
  <2> QED BY <1>5, <2>2, <2>3 DEF AnchorRanges
<1>6. CASE AnchorResets(a)
  <2>1. uwb'[a] = uwb[a] /\ view'[a] # view[a] /\ view'[a] \in Announced(a)
    BY <1>6 DEF AnchorResets
  <2>2. /\ view[a] # NoSession /\ uwb[a].job.session # NoSession
        /\ uwb[a].job.session[2] <= view[a][2]
    BY <1>2, <2>1 DEF JobIsBehind
  <2>3. /\ view[a][2] \in Nat /\ view'[a][2] \in Nat
        /\ view[a][2] < view'[a][2]
    BY <1>1, <2>1, <2>2, LaterSession
  <2>4. uwb[a].job.session[2] \in Nat
    <3>1. uwb[a].job.session \in Sessions
      BY <1>1, <2>1, <2>2 DEF Jobs, View
    <3> QED BY <3>1, BoundAssumption DEF Sessions
  <2>5. uwb[a].job.session[2] <= view'[a][2] /\ uwb[a].job.session # view'[a]
    BY <2>2, <2>3, <2>4
  <2>6. view'[a] # NoSession
    BY <2>1, NodeAssumption DEF Announced
  <2> QED BY <2>1, <2>2, <2>5, <2>6 DEF JobIsBehind
<1> QED BY <1>3, <1>4, <1>5, <1>6, AnchorKinds

(* Nobody has taken a route or ranged at first.                            *)
LEMMA InitJobs ==
    Init => /\ RoutesAreSnapshots /\ OnlyMastersOpen /\ AnchorsRemember
            /\ JobsAreInOrder
<1> SUFFICES ASSUME Init
             PROVE  /\ RoutesAreSnapshots /\ OnlyMastersOpen /\ AnchorsRemember
                    /\ JobsAreInOrder
  OBVIOUS
<1>1. \A n \in Nodes : /\ ctl[n].st = "WaitingForMaster"
                       /\ ctl[n].lastControl = [round |-> 0, pair |-> 0, sequence |-> 0]
                       /\ uwb[n].job = NoResult
  BY ResetFields DEF Init
<1>2. RouteClaims = {}
  BY <1>1, InitInFlight DEF RouteClaims, InRound
<1>3. OnlyMastersOpen
  BY DEF Init, OnlyMastersOpen
<1> QED BY <1>1, <1>2, <1>3
        DEF RoutesAreSnapshots, AnchorsRemember, JobsAreInOrder, Nodes

(* What a step of a driver is for.                                         *)
LEMMA StartAdvances ==
    ASSUME IInv, AnchorsRemember, JobsAreInOrder, [Next]_vars, NEW a \in Anchors,
           uwb[a].phase # "Waiting", uwb'[a].phase = "Waiting",
           uwb[a].job # NoResult, uwb[a].job.session = uwb'[a].job.session
    PROVE  \/ uwb'[a].job.round > uwb[a].job.round
           \/ uwb'[a].job.round = uwb[a].job.round /\ uwb'[a].job.tag > uwb[a].job.tag
<1> DEFINE c == ctl[a] d == ctl'[a] old == uwb[a].job
<1>1. AnchorRanges(a) /\ uwb'[a] # uwb[a]
  BY AnchorKinds DEF AnchorRests, AnchorTakes, AnchorResets
<1>2. /\ c.st = "AnchorRanging" /\ d.round = c.round /\ d.route = c.route
      /\ OnRoute(d)
      /\ d.tagIndex > c.tagIndex \/ (d.tagIndex = c.tagIndex /\ ~c.started)
      /\ uwb'[a].job = Job(a, c.round, c.route.tags[d.tagIndex])
  BY <1>1 DEF AnchorRanges
<1>3. /\ old.session = view[a] /\ uwb'[a].job.round = c.round
      /\ uwb'[a].job.tag = c.route.tags[d.tagIndex]
  BY <1>2 DEF Job
<1>4. /\ old.round <= c.round
      /\ old.round = c.round => Passed(c, old.tag)
  BY <1>2, <1>3 DEF JobsAreInOrder, JobIsBehind
<1>5. c.route \in Snapshots
  BY <1>2 DEF AnchorsRemember, Remembers
<1>6. old.round \in Nat /\ c.round \in Nat /\ c.tagIndex \in Nat /\ d.tagIndex \in Nat
  <2>1. a \in Nodes
    BY DEF Nodes
  <2>2. c \in Controllers /\ d \in Controllers /\ old \in Jobs
    BY <2>1, NextIInv DEF IInv, TypeOK
  <2> QED BY <2>2 DEF Controllers, Jobs
<1>7. ASSUME old.round = c.round PROVE c.route.tags[d.tagIndex] > old.tag
  <2>1. PICK k \in DOMAIN c.route.tags :
           /\ c.route.tags[k] = old.tag
           /\ k < c.tagIndex \/ (k = c.tagIndex /\ c.started)
    BY <1>4, <1>7 DEF Passed
  <2>2. d.tagIndex \in DOMAIN c.route.tags /\ k \in Nat
    <3>1. c.route.tags \in Seq(Tags) /\ Tags \subseteq Nat
      BY <1>5, SnapshotOrder, NodeAssumption
    <3>2. d.tagIndex \in DOMAIN c.route.tags
      BY <1>2 DEF OnRoute
    <3> HIDE DEF c, d
    <3> QED BY <3>1, <3>2, PlaceInList
  <2>3. k < d.tagIndex
    BY <1>2, <1>6, <2>1, <2>2
  <2>4. c.route.tags[k] < c.route.tags[d.tagIndex]
    BY <1>5, <2>2, <2>3, SnapshotOrder
  <2>5. c.route.tags[k] \in Nat /\ c.route.tags[d.tagIndex] \in Nat
    <3> DEFINE tags == c.route.tags
    <3>1. tags \in Seq(Tags) /\ Tags \subseteq Nat
      BY <1>5, SnapshotOrder, NodeAssumption
    <3>2. k \in DOMAIN tags /\ d.tagIndex \in DOMAIN tags
      BY <2>1, <2>2
    <3> HIDE DEF c, d, tags
    <3>3. tags[k] \in Nat /\ tags[d.tagIndex] \in Nat
      BY <3>1, <3>2, PlaceInList
    <3> QED BY <3>3 DEF tags
  <2> QED BY <2>1, <2>4, <2>5
<1> HIDE DEF c, d, old
<1> QED BY <1>3, <1>4, <1>6, <1>7 DEF old

(* While only one TAG is ever elected and no ANCHOR loses its master:      *)
(* whatever packets are lost, duplicated or late, whichever nodes restart, *)
(* an ANCHOR starts the UWB ranging of a pair after those of all earlier   *)
(* rounds and pairs of its session, and never again.                       *)
THEOREM AnchorsRangeOnwards ==
    ASSUME OneMaster, "masterLost" \notin Faults
    PROVE  Spec => RangingAdvances
<1> DEFINE Inv == /\ IInv /\ SessionsAreOpened /\ OneRoutePerRound
                  /\ RoutesAreSnapshots /\ OnlyMastersOpen
                  /\ AnchorsRemember /\ JobsAreInOrder
           Advances == \A a \in Anchors :
              LET old == uwb[a].job new == uwb'[a].job
              IN  /\ uwb[a].phase # "Waiting" /\ uwb'[a].phase = "Waiting"
                  /\ old # NoResult /\ old.session = new.session
                  => \/ new.round > old.round
                     \/ new.round = old.round /\ new.tag > old.tag
<1>1. Init => Inv
  BY InitIInv, InitAgreement, InitJobs
<1>2. Inv /\ [Next]_vars => Inv'
  <2>1. Inv /\ [Next]_vars => /\ IInv' /\ SessionsAreOpened' /\ OneRoutePerRound'
                              /\ RoutesAreSnapshots' /\ OnlyMastersOpen'
    BY NextIInv, NextSessionsAreOpened, NextOneRoutePerRound,
       NextRoutesAreSnapshots, NextOnlyMastersOpen
  <2>2. Inv /\ [Next]_vars => AnchorsRemember' /\ JobsAreInOrder'
    BY NextAnchorsRemember, NextJobsAreInOrder
  <2> QED BY <2>1, <2>2
<1>3. Inv /\ [Next]_vars => Advances
  BY StartAdvances
<1>4. Inv /\ [Next]_vars => [Advances]_vars
  BY <1>3
<1> HIDE DEF Inv
<1> QED BY <1>1, <1>2, <1>4, PTL DEF Spec, RangingAdvances, Advances
-----------------------------------------------------------------------------
(* One token.                                                              *)

(* Every session that has been opened is the only one, and its master is   *)
(* still in it.                                                            *)
LEMMA TheSession ==
    ASSUME OneMaster, IInv, OnlyMastersOpen, OneSession,
           NEW s \in Sessions, s[2] <= epoch[s[1]],
           NEW r \in Sessions, r[2] <= epoch[r[1]]
    PROVE  s = r /\ view[s[1]] = s
<1>1. ASSUME NEW q \in Sessions, q[2] <= epoch[q[1]]
      PROVE  /\ q[1] \in MasterTags /\ q = <<q[1], 1>> /\ view[q[1]] = q
  <2>1. PICK u \in Tags, k \in 1..MaxEpoch : q = <<u, k>>
    BY DEF Sessions
  <2>2. q[1] = u /\ q[2] = k /\ k \in Nat /\ k > 0 /\ epoch[u] \in Nat
    BY <2>1, BoundAssumption DEF IInv, TypeOK
  <2>3. epoch[u] > 0 /\ k <= epoch[u]
    BY <1>1, <2>2
  <2>4. epoch[u] = 1 /\ view[u] = <<u, 1>> /\ u \in MasterTags
    BY <2>3 DEF OneSession, OnlyMastersOpen
  <2>5. k = 1
    BY <2>2, <2>3, <2>4
  <2> QED BY <2>1, <2>2, <2>4, <2>5
<1>2. s[1] = r[1]
  BY <1>1 DEF OneMaster
<1> QED BY <1>1, <1>2

(* A master in a session runs the only round.                              *)
LEMMA OneRunner ==
    ASSUME OneMaster, IInv, SessionsAreOpened, OnlyMastersOpen, OneSession,
           NEW n \in Nodes, IsMaster(n),
           NEW m \in Tags, ctl[m].st = "RunningRound"
    PROVE  m = n
<1>1. m \in Nodes /\ IsMaster(m)
  BY DEF Nodes, SessionsAreOpened
<1>2. ASSUME NEW l \in Nodes, IsMaster(l)
      PROVE  view[l] \in Sessions /\ view[l][1] = l /\ view[l][2] <= epoch[view[l][1]]
  BY <1>2, NodeFacts DEF IsMaster, SessionsAreOpened
<1>3. view[m] = view[n]
  BY <1>1, <1>2, TheSession
<1> QED BY <1>1, <1>2, <1>3

(* A node that starts over enters the session; it was in none.             *)
LEMMA ResetEnters ==
    ASSUME OneMaster, {"restart", "masterLost"} \cap Faults = {},
           IInv, SessionsAreOpened, OnlyMastersOpen, OneSession, [Next]_vars,
           NEW n \in Nodes, NEW next, Resets(n, next)
    PROVE  /\ view[n] = NoSession /\ view'[n] # NoSession
           /\ \/ /\ epoch' = epoch
                 /\ view'[n] \in Announced(n)
              \/ /\ n \in MasterTags /\ epoch[n] = 0 /\ view'[n] = <<n, 1>>
                 /\ epoch' = [epoch EXCEPT ![n] = 1]
<1>1. view'[n] # view[n]
  BY DEF Resets
<1>2. n \in Nodes /\ view' \in [Nodes -> View] /\ epoch \in [Tags -> 0..MaxEpoch]
      /\ epoch' \in [Tags -> 0..MaxEpoch]
  BY NextIInv, BoundAssumption DEF IInv, TypeOK
<1>3. CASE /\ epoch' = epoch
           /\ view'[n] \in Announced(n)
  <2>1. view'[n] \in Sessions /\ view'[n][1] \in Tags
    BY <1>3 DEF Announced, Sessions
  <2>2. view[n] = NoSession
    <3> SUFFICES ASSUME view[n] # NoSession PROVE FALSE
      OBVIOUS
    <3>1. /\ view[n] \in Sessions /\ view[n][2] <= epoch[view[n][1]]
      BY NodeFacts DEF SessionsAreOpened
    <3>2. /\ view[n][2] \in Nat /\ view'[n][2] \in Nat
          /\ view[n][2] < view'[n][2] /\ view'[n][2] <= epoch[view'[n][1]]
      BY <1>3, LaterSession
    <3>3. epoch[view'[n][1]] \in {0, 1}
      <4>1. epoch[view'[n][1]] \in Nat
        BY <1>2, <2>1, BoundAssumption
      <4> QED BY <2>1, <4>1 DEF OneSession
    <3>4. view[n][2] >= 1
      BY <3>1, BoundAssumption DEF Sessions
    <3> QED BY <3>2, <3>3, <3>4
  <2>3. view'[n] # NoSession
    BY <2>1, NodeAssumption
  <2> QED BY <1>3, <2>2, <2>3
<1>4. CASE /\ n \in MasterTags /\ ~IsMaster(n) /\ view'[n] = <<n, epoch[n] + 1>>
           /\ epoch' = [epoch EXCEPT ![n] = @ + 1]
  <2>1. n \in Tags /\ epoch[n] \in Nat
    BY <1>2, <1>4, NodeAssumption, BoundAssumption
  <2>2. epoch[n] = 0
    <3>1. ASSUME view[n] = <<n, 1>> PROVE IsMaster(n)
      <4>1. epoch'[n] \in 0..MaxEpoch /\ epoch'[n] = epoch[n] + 1
        BY <1>2, <1>4, <2>1
      <4>2. 1 \in 1..MaxEpoch
        BY <2>1, <4>1, BoundAssumption
      <4>3. view[n] \in Sessions
        BY <2>1, <3>1, <4>2 DEF Sessions
      <4> QED BY <3>1, <4>3, NodeAssumption DEF IsMaster
    <3> QED BY <1>4, <2>1, <3>1 DEF OneSession
  <2>3. view[n] = NoSession
    <3> SUFFICES ASSUME view[n] # NoSession PROVE FALSE
      OBVIOUS
    <3>1. /\ view[n] \in Sessions /\ view[n][2] <= epoch[view[n][1]]
      BY NodeFacts DEF SessionsAreOpened
    <3>2. PICK u \in Tags, k \in 1..MaxEpoch : view[n] = <<u, k>>
      BY <3>1 DEF Sessions
    <3>3. view[n][1] = u /\ view[n][2] = k /\ k > 0 /\ k \in Nat /\ epoch[u] \in Nat
      BY <1>2, <3>2, BoundAssumption
    <3>4. epoch[u] > 0
      BY <3>1, <3>3
    <3>5. u = n
      BY <1>4, <3>4 DEF OnlyMastersOpen, OneMaster
    <3> QED BY <2>2, <3>4, <3>5
  <2>4. view'[n] # NoSession
    <3>1. epoch'[n] = 1 /\ 1 \in 1..MaxEpoch
      BY <1>2, <1>4, <2>1, <2>2, BoundAssumption
    <3>2. view'[n] \in Sessions
      BY <1>4, <2>1, <2>2, <3>1 DEF Sessions
    <3> QED BY <3>2, NodeAssumption
  <2> QED BY <1>4, <2>2, <2>3, <2>4
<1> QED BY <1>3, <1>4 DEF Resets

(* The induction step for the session.                                     *)
LEMMA NextOneSession ==
    ASSUME OneMaster, {"restart", "masterLost"} \cap Faults = {},
           IInv, SessionsAreOpened, OnlyMastersOpen, OneSession, [Next]_vars
    PROVE  OneSession'
<1>0. /\ epoch \in [Tags -> 0..MaxEpoch] /\ view \in [Nodes -> View]
      /\ ctl \in [Nodes -> Controllers]
      /\ view' \in [Nodes -> View] /\ ctl' \in [Nodes -> Controllers]
  BY NextIInv DEF IInv, TypeOK
<1>1. ASSUME UNCHANGED <<view, epoch>>, NEW n \in Nodes,
             \A m \in Nodes \ {n} : ctl'[m] = ctl[m],
             view[n] # NoSession \/
                (ctl'[n].st = ctl[n].st /\ ctl'[n].lastControl = ctl[n].lastControl)
      PROVE  OneSession'
  <2>1. ASSUME NEW m \in Nodes, view[m] = NoSession
        PROVE  /\ ctl'[m].st = ctl[m].st /\ ctl'[m].lastControl = ctl[m].lastControl
    BY <1>1, <2>1
  <2> QED BY <1>1, <2>1 DEF OneSession, InRound
<1>2. CASE Rests
  BY <1>2 DEF Rests, OneSession, InRound
<1>3. ASSUME NEW n \in Nodes, NEW next, Works(n, next),
             \/ Waits(n, next) \/ Takes(n, next) \/ Ranges(n, next)
             \/ Follows(n, next) \/ Leads(n, next)
      PROVE  OneSession'
  <2>1. ctl'[n] = next /\ \A m \in Nodes \ {n} : ctl'[m] = ctl[m]
    BY <1>3, OtherControllers DEF Works
  <2>2. CASE Waits(n, next)
    BY <1>1, <1>3, <2>1, <2>2 DEF Works, Waits
  <2>3. ASSUME Takes(n, next) \/ Ranges(n, next) \/ Follows(n, next) \/ Leads(n, next)
        PROVE  view[n] # NoSession
    <3>1. Takes(n, next) => view[n] # NoSession
      BY DEF Takes, AcceptsControl, AddressesAnchor
    <3>2. Ranges(n, next) \/ Follows(n, next) => view[n] \in Sessions
      BY DEF Ranges, Follows, IInv, AnchorsAreOnRoute, MayRange
    <3> QED BY <2>3, <3>1, <3>2, NodeAssumption DEF Leads, IsMaster
  <2> QED BY <1>1, <1>3, <2>1, <2>2, <2>3 DEF Works
<1>4. ASSUME NEW n \in Nodes, NEW next, Sends(n, next)
      PROVE  OneSession'
  <2>1. ctl'[n] = next /\ \A m \in Nodes \ {n} : ctl'[m] = ctl[m]
    BY <1>4, OtherControllers DEF Sends
  <2> QED BY <1>1, <1>4, <2>1 DEF Sends, SameRound
<1>5. ASSUME NEW n \in Nodes, NEW next, Resets(n, next)
      PROVE  OneSession'
  <2>1. /\ ctl'[n] = next /\ \A m \in Nodes \ {n} : ctl'[m] = ctl[m]
        /\ \A m \in Nodes \ {n} : view'[m] = view[m]
    BY <1>5, OtherControllers DEF Resets
  <2>2. view[n] = NoSession /\ view'[n] # NoSession
    BY <1>5, ResetEnters
  <2>3. ASSUME NEW t \in Tags, epoch'[t] > 0
        PROVE  epoch'[t] = 1 /\ view'[t] = <<t, 1>>
    <3>0. t \in Nodes
      BY DEF Nodes
    <3>1. CASE epoch[t] > 0
      <4>1. epoch[t] = 1 /\ view[t] = <<t, 1>> /\ t \in MasterTags
        BY <3>1 DEF OneSession, OnlyMastersOpen
      <4>2. view[t] # NoSession
        <5>1. <<t, 1>> \in Sessions
          BY <4>1, <1>0, BoundAssumption DEF Sessions
        <5> QED BY <4>1, <5>1, NodeAssumption
      <4>3. t # n
        BY <2>2, <4>2
      <4>4. epoch'[t] = epoch[t]
        BY <1>0, <1>5, <4>3, ResetEnters
      <4> QED BY <2>1, <3>0, <4>1, <4>3, <4>4
    <3>2. CASE ~(epoch[t] > 0)
      <4>1. /\ n \in MasterTags /\ epoch[n] = 0 /\ view'[n] = <<n, 1>>
            /\ epoch' = [epoch EXCEPT ![n] = 1]
        BY <1>5, <2>3, <3>2, ResetEnters
      <4> QED BY <1>0, <2>3, <3>2, <4>1
    <3> QED BY <3>1, <3>2
  <2>4. ASSUME NEW m \in Nodes, view'[m] = NoSession
        PROVE  /\ ~InRound(m)'
               /\ ctl'[m].lastControl = [round |-> 0, pair |-> 0, sequence |-> 0]
    BY <2>1, <2>2, <2>4 DEF OneSession, InRound
  <2> QED BY <2>3, <2>4 DEF OneSession
<1> QED BY <1>2, <1>3, <1>4, <1>5, StepKinds

(* No control becomes takeable but those that a step queues, if no ANCHOR  *)
(* forgets what it has taken.                                              *)
LEMMA NewControlsStep ==
    ASSUME IInv, [Next]_vars, NEW S, InFlight' \subseteq InFlight \cup S,
           \A a \in Anchors : ctl'[a].lastControl = ctl[a].lastControl
    PROVE  NewControls' \subseteq NewControls \cup {p \in S : p.type = "RangeControl"}
<1> SUFFICES ASSUME NEW p \in NewControls', p \in InFlight PROVE p \in NewControls
  BY DEF NewControls
<1>1. p.type = "RangeControl" /\ IsNewerThan(p, ctl'[Taker(p)].lastControl)
  BY DEF NewControls
<1>2. p \in ControlPackets
  BY <1>1, InFlightType, PacketKinds
<1>3. Taker(p) \in Anchors
  BY <1>2, PairSequenceType
<1> QED BY <1>1, <1>3 DEF NewControls

(* A step that neither moves a token nor ends a round leaves it where it   *)
(* is.                                                                     *)
TokenPlaced == OneToken /\ TokenIsOfRunningRound /\ EndedRouteHasNoToken
KeepsRounds ==
    \A m \in Tags :
        /\ ctl[m].st = "RunningRound" => SameRound(ctl[m], ctl'[m])
        /\ ctl'[m].st = "RunningRound" =>
              /\ SameRound(ctl[m], ctl'[m])
              /\ Size(ctl'[m].route) \in ctl'[m].received => IsEnded(m)

(* Then the same rounds are run, and those that have ended had before.     *)
LEMMA KeepsRoundsFacts ==
    ASSUME KeepsRounds, NEW S, InFlight' \subseteq InFlight \cup S,
           \A p \in S : ~EndsRoute(p)
    PROVE  /\ \A r : RunsRound(r) => RunsRound(r)'
           /\ \A m \in Tags : (ctl[m].st = "RunningRound" /\ IsEnded(m))'
                => ctl[m].st = "RunningRound" /\ IsEnded(m)
<1>1. \A r : RunsRound(r) => RunsRound(r)'
  BY DEF RunsRound, KeepsRounds, SameRound
<1>2. ASSUME NEW m \in Tags, ctl'[m].st = "RunningRound", IsEnded(m)'
      PROVE  ctl[m].st = "RunningRound" /\ IsEnded(m)
  <2>1. SameRound(ctl[m], ctl'[m])
    BY <1>2 DEF KeepsRounds
  <2>2. CASE Size(ctl'[m].route) \in ctl'[m].received
    BY <1>2, <2>1, <2>2 DEF KeepsRounds, SameRound
  <2>3. CASE \E p \in InFlight' : EndsRoute(p) /\ p.round = ctl'[m].round
    BY <1>2, <2>1, <2>3 DEF SameRound, IsEnded
  <2> QED BY <1>2, <2>2, <2>3 DEF IsEnded, Size
<1> QED BY <1>1, <1>2

(* Packets that end a route are of rounds that were opened.                *)
LEMMA EndsRouteStep ==
    ASSUME IInv, [Next]_vars, EndedRouteHasNoToken,
           NEW S, InFlight' \subseteq InFlight \cup S,
           \A p \in S : EndsRoute(p) =>
              /\ p.session \in Sessions /\ p.round \in Nat /\ Opened(p.session, p.round)
    PROVE  \A p \in InFlight' : EndsRoute(p) => Opened(p.session, p.round)'
<1> SUFFICES ASSUME NEW p \in InFlight', EndsRoute(p)
             PROVE  Opened(p.session, p.round)'
  OBVIOUS
<1>1. CASE p \in InFlight
  <2>1. p.session \in Sessions /\ p.round \in Nat
    BY <1>1, InFlightType, PacketKinds
       DEF EndsRoute, MeasurementPackets, CompletePackets
  <2>2. Opened(p.session, p.round)
    BY <1>1 DEF EndedRouteHasNoToken
  <2> QED BY <2>1, <2>2, OpenedStep
<1>2. CASE p \in S
  BY <1>2, OpenedStep
<1> QED BY <1>1, <1>2

(* The step that does nothing to it.                                       *)
LEMMA QuietStep ==
    ASSUME IInv, [Next]_vars, TokenPlaced,
           NEW S, InFlight' \subseteq InFlight \cup S,
           \A p \in S : p.type # "RangeControl" /\ ~EndsRoute(p),
           \A a \in Anchors :
              /\ ctl'[a].lastControl = ctl[a].lastControl
              /\ ctl'[a].st = "AnchorRanging" =>
                    ctl[a].st = "AnchorRanging" /\ ctl'[a].round = ctl[a].round,
           KeepsRounds
    PROVE  TokenPlaced'
<1>1. NewControls' \subseteq NewControls
  BY NewControlsStep
<1>2. Holders' \subseteq Holders /\ \A a \in Holders' : ctl'[a].round = ctl[a].round
  BY DEF Holders
<1>3. /\ \A r : RunsRound(r) => RunsRound(r)'
      /\ \A m \in Tags : (ctl[m].st = "RunningRound" /\ IsEnded(m))'
           => ctl[m].st = "RunningRound" /\ IsEnded(m)
  BY KeepsRoundsFacts
<1>4. OneToken'
  BY <1>1, <1>2 DEF TokenPlaced, OneToken
<1>5. TokenIsOfRunningRound'
  <2>1. ASSUME NEW p \in NewControls' PROVE RunsRound(p.round)'
    BY <1>1, <1>3, <2>1 DEF TokenPlaced, TokenIsOfRunningRound
  <2>2. ASSUME NEW a \in Holders' PROVE RunsRound(ctl[a].round)'
    <3>1. RunsRound(ctl[a].round) /\ ctl'[a].round = ctl[a].round
      BY <1>2, <2>2 DEF TokenPlaced, TokenIsOfRunningRound
    <3> QED BY <1>3, <3>1 DEF RunsRound
  <2> QED BY <2>1, <2>2 DEF TokenIsOfRunningRound, RunsRound
<1>6. EndedRouteHasNoToken'
  <2>1. \A p \in InFlight' : EndsRoute(p) => Opened(p.session, p.round)'
    BY EndsRouteStep DEF TokenPlaced
  <2>2. ASSUME NEW m \in Tags, (ctl[m].st = "RunningRound" /\ IsEnded(m))'
        PROVE  NewControls' = {} /\ Holders' = {}
    BY <1>1, <1>2, <1>3, <2>2 DEF TokenPlaced, EndedRouteHasNoToken
  <2> QED BY <2>1, <2>2 DEF EndedRouteHasNoToken
<1> QED BY <1>4, <1>5, <1>6 DEF TokenPlaced

(* The control an ANCHOR accepts is the token.                             *)
LEMMA AcceptedIsToken ==
    ASSUME IInv, OneRoutePerRound, RoutesAreSnapshots, OneToken, NEW a \in Anchors,
           NEW packet \in Elements(inbox[a]),
           packet.type = "RangeControl", AcceptsControl(a, packet)
    PROVE  NewControls = {packet} /\ Holders = {} /\ Taker(packet) = a
<1>1. packet \in InFlight /\ packet.round \in Nat /\ IsNewControl(ctl[a], packet)
      /\ Taker(packet) = a
  BY TakenControl DEF Taker
<1>2. ctl[a].lastControl.round \in Nat
  BY DEF IInv, TypeOK, Nodes, Controllers
<1>3. IsNewerThan(packet, ctl[a].lastControl)
  BY <1>1, <1>2 DEF IsNewControl, IsNewerThan
<1>4. packet \in NewControls
  BY <1>1, <1>3 DEF NewControls
<1> QED BY <1>1, <1>4 DEF OneToken

(* An ANCHOR takes it.                                                     *)
LEMMA TakesToken ==
    ASSUME IInv, [Next]_vars, SessionsAreOpened, OneRoutePerRound, RoutesAreSnapshots,
           TokenPlaced, NEW n \in Nodes, NEW next, Works(n, next), Takes(n, next)
    PROVE  TokenPlaced'
<1>1. PICK packet \in Elements(inbox[n]) :
          /\ packet.type = "RangeControl" /\ AcceptsControl(n, packet)
          /\ next = TakeRoute(ctl[n], packet)
  BY DEF Takes
<1>2. n \in Anchors /\ n \notin Tags
  BY NodeAssumption DEF Takes
<1>3. NewControls = {packet} /\ Holders = {} /\ Taker(packet) = n
  BY <1>1, <1>2, AcceptedIsToken DEF TokenPlaced
<1>4. /\ ctl'[n] = next /\ \A m \in Nodes \ {n} : ctl'[m] = ctl[m]
      /\ next.round = packet.round /\ next.st = "AnchorRanging"
      /\ next.lastControl.round = packet.round
      /\ next.lastControl.pair = PairSequence(packet)
  <2>1. ctl[n] \in Controllers
    BY NodeFacts
  <2>2. LET taken == TakeRoute(ctl[n], packet)
        IN  /\ taken.round = packet.round /\ taken.st = "AnchorRanging"
            /\ taken.lastControl.round = packet.round
            /\ taken.lastControl.pair = PairSequence(packet)
    BY <2>1, TakenFields
  <2> QED BY <1>1, <2>2, OtherControllers DEF Works
<1>5. InFlight' \subseteq InFlight
  BY SameQueuesInFlight DEF Takes
<1>6. NewControls' = {}
  <2> SUFFICES ASSUME NEW q \in NewControls' PROVE FALSE
    OBVIOUS
  <2>1. /\ q \in InFlight /\ q.type = "RangeControl"
        /\ IsNewerThan(q, ctl'[Taker(q)].lastControl)
    BY <1>5 DEF NewControls
  <2>2. q \in ControlPackets /\ packet \in ControlPackets
    BY <1>1, <1>2, <2>1, InFlightType, PacketKinds, TakenControl
  <2>3. /\ Taker(q) \in Anchors /\ PairSequence(q) \in Nat /\ q.round \in Nat
        /\ PairSequence(packet) \in Nat /\ packet.round \in Nat
    BY <2>2, PairSequenceType DEF ControlPackets
  <2>4. CASE Taker(q) # n
    <3>1. ctl'[Taker(q)] = ctl[Taker(q)]
      BY <1>4, <2>3, <2>4 DEF Nodes
    <3>2. q \in NewControls
      BY <2>1, <3>1 DEF NewControls
    <3> QED BY <1>3, <2>4, <3>2
  <2>5. CASE Taker(q) = n
    <3> DEFINE last == ctl[n].lastControl
    <3>1. last.round \in Nat /\ last.pair \in Nat
      BY NodeFacts DEF Controllers
    <3>2. IsNewerThan(packet, last)
      BY <1>3 DEF NewControls
    <3>3. q.round > packet.round
          \/ (q.round = packet.round /\ PairSequence(q) > PairSequence(packet))
      BY <1>4, <2>1, <2>5 DEF IsNewerThan
    <3> HIDE DEF last
    <3>4. IsNewerThan(q, last)
      BY <2>3, <3>1, <3>2, <3>3 DEF IsNewerThan
    <3>5. q = packet
      BY <1>3, <2>1, <2>5, <3>4 DEF NewControls, last
    <3> QED BY <2>3, <3>3, <3>5
  <2> QED BY <2>4, <2>5
<1>7. Holders' \subseteq {n}
  BY <1>3, <1>4 DEF Holders, Nodes
<1>8. \A m \in Tags : ctl'[m] = ctl[m]
  BY <1>2, <1>4 DEF Nodes
<1>9. RunsRound(packet.round)
  BY <1>3 DEF TokenPlaced, TokenIsOfRunningRound
<1>10. OneToken'
  BY <1>6, <1>7 DEF OneToken
<1>11. TokenIsOfRunningRound'
  <2>1. RunsRound(ctl[n].round)'
    BY <1>4, <1>8, <1>9 DEF RunsRound
  <2> QED BY <1>6, <1>7, <2>1 DEF TokenIsOfRunningRound, RunsRound
<1>12. EndedRouteHasNoToken'
  <2>1. \A p \in InFlight' : EndsRoute(p) => Opened(p.session, p.round)'
    <3> DEFINE S == {}
    <3>1. /\ InFlight' \subseteq InFlight \cup S
          /\ \A p \in S : EndsRoute(p) =>
                p.session \in Sessions /\ p.round \in Nat /\ Opened(p.session, p.round)
      BY <1>5
    <3> HIDE DEF S
    <3> QED BY <3>1, EndsRouteStep DEF TokenPlaced
  <2>2. ASSUME NEW m \in Tags, ctl'[m].st = "RunningRound", IsEnded(m)'
        PROVE  FALSE
    <3>1. ctl[m].st = "RunningRound" /\ IsEnded(m)
      BY <1>5, <1>8, <2>2 DEF IsEnded, Size
    <3> QED BY <1>3, <3>1 DEF TokenPlaced, EndedRouteHasNoToken
  <2> QED BY <2>1, <2>2 DEF EndedRouteHasNoToken
<1> QED BY <1>10, <1>11, <1>12 DEF TokenPlaced

(* An ANCHOR keeps it, hands it over in a control, or ends the route.      *)
LEMMA RangesToken ==
    ASSUME IInv, [Next]_vars, OneRoutePerRound, TokenPlaced,
           NEW n \in Nodes, NEW next, Works(n, next), Ranges(n, next)
    PROVE  TokenPlaced'
<1> DEFINE c == ctl[n]
<1>1. n \in Anchors /\ n \notin Tags /\ c.st = "AnchorRanging"
  BY NodeAssumption DEF Ranges
<1>2. Holders = {n} /\ NewControls = {} /\ RunsRound(c.round)
  <2>1. n \in Holders
    BY <1>1 DEF Holders
  <2> QED BY <2>1 DEF TokenPlaced, OneToken, TokenIsOfRunningRound
<1>3. /\ ctl'[n] = next /\ \A m \in Nodes \ {n} : ctl'[m] = ctl[m]
      /\ next.round = c.round /\ next.lastControl = c.lastControl
  BY OtherControllers DEF Works, Ranges
<1>4. /\ \A m \in Tags : ctl'[m] = ctl[m]
      /\ \A a \in Anchors : ctl'[a].lastControl = ctl[a].lastControl
      /\ \A a \in Anchors \ {n} : ctl'[a] = ctl[a]
  BY <1>1, <1>3 DEF Nodes
<1>5. KeepsRounds
  BY <1>4 DEF KeepsRounds, SameRound, IsEnded
<1>6. Opened(view[n], c.round) /\ view[n] \in Sessions /\ c.round \in Nat
  <2>1. RouteClaim(view[n], c.round, c.route) \in RouteClaims
    BY <1>1 DEF RouteClaims, InRound
  <2>2. view[n] \in Sessions /\ c.round \in Nat
    BY <1>1, NodeFacts DEF IInv, AnchorsAreOnRoute, MayRange, Controllers
  <2> QED BY <2>1, <2>2 DEF OneRoutePerRound, RouteClaim
<1>7. Extends(c.high, {}, c.high)
  BY QueueTypes, ExtendsReflexive
<1>8. CASE /\ next.st = c.st /\ next.high = c.high
           /\ Extends(c.low, RouteResults(view[n], c.round), next.low)
  <2> DEFINE S == RouteResults(view[n], c.round)
  <2>1. InFlight' \subseteq InFlight \cup S
    BY <1>7, <1>8, WorkInFlight
  <2>2. \A p \in S : p.type # "RangeControl" /\ ~EndsRoute(p)
    BY DEF RouteResults, RouteReports, Reports
  <2>3. \A a \in Anchors : ctl'[a].st = "AnchorRanging" =>
           ctl[a].st = "AnchorRanging" /\ ctl'[a].round = ctl[a].round
    BY <1>1, <1>3, <1>4
  <2> HIDE DEF S, c
  <2> QED BY <1>4, <1>5, <2>1, <2>2, <2>3, QuietStep
<1>9. CASE /\ next.st = "AnchorIdle"
           /\ \E control \in RouteControls(view[n], c.round, c.route) :
                 Extends(c.high, {control}, next.high)
           /\ Extends(c.low, RouteResults(view[n], c.round), next.low)
  <2>1. PICK control \in RouteControls(view[n], c.round, c.route) :
           Extends(c.high, {control}, next.high)
    BY <1>9
  <2> DEFINE S == {control} \cup RouteResults(view[n], c.round)
  <2>2. InFlight' \subseteq InFlight \cup S
    BY <1>9, <2>1, WorkInFlight
  <2>3. control.type = "RangeControl" /\ control.round = c.round
    BY DEF RouteControls, RouteClaim, ControlPackets
  <2>4. /\ \A p \in S : ~EndsRoute(p)
        /\ \A p \in S : p.type = "RangeControl" => p = control
    BY <2>3 DEF RouteResults, RouteReports, Reports, EndsRoute
  <2> HIDE DEF S
  <2>5. NewControls' \subseteq {control}
    BY <1>2, <1>4, <2>2, <2>4, NewControlsStep
  <2>6. Holders' = {}
    BY <1>2, <1>3, <1>4, <1>9 DEF Holders
  <2>7. RunsRound(control.round)'
    BY <1>2, <1>4, <2>3 DEF RunsRound
  <2>8. EndedRouteHasNoToken'
    <3>1. \A p \in InFlight' : EndsRoute(p) => Opened(p.session, p.round)'
      BY <2>2, <2>4, EndsRouteStep DEF TokenPlaced
    <3>2. ASSUME NEW m \in Tags, (ctl[m].st = "RunningRound" /\ IsEnded(m))'
          PROVE  FALSE
      <4>1. ctl[m].st = "RunningRound" /\ IsEnded(m)
        BY <1>5, <2>2, <2>4, <3>2, KeepsRoundsFacts
      <4> QED BY <1>2, <4>1 DEF TokenPlaced, EndedRouteHasNoToken
    <3> QED BY <3>1, <3>2 DEF EndedRouteHasNoToken
  <2>9. OneToken' /\ TokenIsOfRunningRound'
    BY <2>5, <2>6, <2>7 DEF OneToken, TokenIsOfRunningRound, RunsRound
  <2> QED BY <2>8, <2>9 DEF TokenPlaced
<1>10. CASE /\ next.st = "AnchorIdle" /\ next.high = c.high
            /\ Extends(c.low, RouteReports(view[n], c.round), next.low)
  <2> DEFINE S == RouteReports(view[n], c.round)
  <2>1. InFlight' \subseteq InFlight \cup S
    BY <1>7, <1>10, WorkInFlight
  <2>2. /\ \A p \in S : p.type # "RangeControl"
        /\ \A p \in S : p.session = view[n] /\ p.round = c.round
    BY DEF RouteReports, Reports, OwnPackets
  <2>3. \A p \in S : EndsRoute(p) =>
           p.session \in Sessions /\ p.round \in Nat /\ Opened(p.session, p.round)
    BY <1>6, <2>2
  <2> HIDE DEF S
  <2>4. NewControls' = {}
    BY <1>2, <1>4, <2>1, <2>2, NewControlsStep
  <2>5. Holders' = {}
    BY <1>2, <1>3, <1>4, <1>10 DEF Holders
  <2>6. \A p \in InFlight' : EndsRoute(p) => Opened(p.session, p.round)'
    BY <2>1, <2>3, EndsRouteStep DEF TokenPlaced
  <2> QED BY <2>4, <2>5, <2>6
          DEF TokenPlaced, OneToken, TokenIsOfRunningRound, EndedRouteHasNoToken
<1> QED BY <1>8, <1>9, <1>10 DEF Ranges, PassesRoute

(* What a master sends of the round it runs is none of its summaries.      *)
LEMMA RunningMasterPackets ==
    ASSUME IInv, SessionsAreOpened, OneSummaryPerRound,
           NEW n \in Nodes, NEW next, Works(n, next), Leads(n, next),
           ctl[n].st = "RunningRound", SameRound(ctl[n], next)
    PROVE  /\ next.high = ctl[n].high
           /\ \A p \in MasterPackets(n) : p.type # "RangeControl" /\ ~EndsRoute(p)
<1>0. n \in Tags /\ view[n] \in Sessions /\ view[n][1] = n /\ ctl[n].round \in Nat
  BY NodeFacts DEF Leads, IsMaster, Controllers
<1>1. next.st = "RunningRound" /\ next.round = ctl[n].round
      /\ next.round # ctl[n].round + 1
  BY <1>0 DEF SameRound
<1>2. next.high = ctl[n].high /\ summary' = summary
  BY <1>1 DEF Leads
<1>3. ~(summary[n].session = view[n] /\ summary[n].round = ctl[n].round)
  <2> SUFFICES ASSUME summary[n].session = view[n], summary[n].round = ctl[n].round
               PROVE  FALSE
    OBVIOUS
  <2>1. summary[n] \in SummaryClaims
    BY <1>0 DEF SummaryClaims
  <2>2. Closed(view[n], ctl[n].round)
    BY <1>0, <2>1, NodeAssumption DEF OneSummaryPerRound
  <2> QED BY <1>0, <2>2 DEF Closed
<1>4. ASSUME NEW p \in MasterPackets(n)
      PROVE  p.type # "RangeControl" /\ ~EndsRoute(p)
  <2>1. CASE p.type = "RangeMeasurementForward"
    BY <2>1 DEF EndsRoute
  <2>2. CASE /\ p \in MasterSummaries(summary'[n])
             /\ p.session = view[n] /\ p.round = ctl[n].round
    BY <1>2, <1>3, <2>2 DEF MasterSummaries, SummaryOf
  <2> QED BY <2>1, <2>2 DEF MasterPackets, MasterForwards
<1> QED BY <1>2, <1>4

(* A master leaves its round only when it has ended, without a deadline.   *)
LEMMA LeadsWithoutToken ==
    ASSUME OneMaster, "deadline" \notin Faults,
           IInv, SessionsAreOpened, OnlyMastersOpen, OneSession, TokenPlaced,
           NEW n \in Nodes, NEW next, Leads(n, next),
           ~(ctl[n].st = "RunningRound" /\ SameRound(ctl[n], next))
    PROVE  NewControls = {} /\ Holders = {}
<1>1. n \in Tags /\ IsMaster(n)
  BY NodeFacts DEF Leads
<1>2. CASE ctl[n].st = "RunningRound"
  <2>1. IsEnded(n)
    BY <1>2 DEF Leads, MayClose
  <2> QED BY <1>1, <1>2, <2>1 DEF TokenPlaced, EndedRouteHasNoToken
<1>3. CASE ctl[n].st # "RunningRound"
  <2>1. \A r : ~RunsRound(r)
    BY <1>1, <1>3, OneRunner DEF RunsRound
  <2> QED BY <2>1 DEF TokenPlaced, TokenIsOfRunningRound
<1> QED BY <1>2, <1>3

(* The master of a round opens it with one control.                        *)
LEMMA LeadsToken ==
    ASSUME OneMaster, "deadline" \notin Faults,
           IInv, [Next]_vars, SessionsAreOpened, OneSummaryPerRound,
           OnlyMastersOpen, OneSession, TokenPlaced,
           NEW n \in Nodes, NEW next, Works(n, next), Leads(n, next)
    PROVE  TokenPlaced'
<1> DEFINE c == ctl[n]
<1>1. /\ n \in Tags /\ IsMaster(n) /\ view[n] \in Sessions
      /\ view[n][1] = n /\ view[n][2] <= epoch[n]
      /\ c.round \in Nat /\ n \notin Anchors
  BY NodeFacts, NodeAssumption DEF Leads, IsMaster, Controllers, SessionsAreOpened
<1>2. /\ ctl'[n] = next /\ \A m \in Nodes \ {n} : ctl'[m] = ctl[m]
      /\ \A a \in Anchors : ctl'[a] = ctl[a]
      /\ \A m \in Tags \ {n} : ctl'[m] = ctl[m]
  BY <1>1, OtherControllers DEF Works, Nodes
<1>3. /\ Extends(c.low, MasterPackets(n), next.low)
      /\ next.st = "RunningRound" /\ Size(next.route) \in next.received
         => SameRound(c, next) /\ IsEnded(n)
  BY DEF Leads
<1>4. Extends(c.high, {}, c.high)
  BY QueueTypes, ExtendsReflexive
<1>5. CASE c.st = "RunningRound" /\ SameRound(c, next)
  <2> DEFINE S == MasterPackets(n)
  <2>1. /\ next.high = c.high
        /\ \A p \in S : p.type # "RangeControl" /\ ~EndsRoute(p)
    BY <1>5, RunningMasterPackets
  <2>2. InFlight' \subseteq InFlight \cup S
    BY <1>3, <1>4, <2>1, WorkInFlight
  <2>3. KeepsRounds
    <3>1. ASSUME NEW m \in Tags \ {n}
          PROVE  /\ SameRound(ctl[m], ctl'[m])
                 /\ Size(ctl'[m].route) \in ctl'[m].received => IsEnded(m)
      BY <1>2, <3>1 DEF SameRound, IsEnded
    <3> QED BY <1>2, <1>3, <1>5, <3>1 DEF KeepsRounds
  <2>4. \A a \in Anchors :
           /\ ctl'[a].lastControl = ctl[a].lastControl
           /\ ctl'[a].st = "AnchorRanging" =>
                 ctl[a].st = "AnchorRanging" /\ ctl'[a].round = ctl[a].round
    BY <1>2
  <2> HIDE DEF S, c
  <2> QED BY <2>1, <2>2, <2>3, <2>4, QuietStep
<1>6. CASE ~(c.st = "RunningRound" /\ SameRound(c, next))
  <2>1. NewControls = {} /\ Holders = {} /\ Holders' = {}
    <3>1. NewControls = {} /\ Holders = {}
      BY <1>6, LeadsWithoutToken
    <3> QED BY <1>2, <3>1 DEF Holders
  <2>2. \A p \in MasterPackets(n) :
           p.type # "RangeControl" /\ p.session = view[n] /\ p.round = c.round
    BY DEF MasterPackets, MasterForwards, MasterSummaries
  <2>3. Opened(view[n], c.round)
    BY <1>1 DEF Opened
  <2>4. \A a \in Anchors : ctl'[a].lastControl = ctl[a].lastControl
    BY <1>2
  <2>5. CASE next.high = c.high
    <3> DEFINE S == MasterPackets(n)
    <3>1. InFlight' \subseteq InFlight \cup S
      BY <1>3, <1>4, <2>5, WorkInFlight
    <3>2. /\ \A p \in S : p.type # "RangeControl"
          /\ \A p \in S : EndsRoute(p) =>
               p.session \in Sessions /\ p.round \in Nat /\ Opened(p.session, p.round)
      BY <1>1, <2>2, <2>3
    <3> HIDE DEF S, c
    <3>3. NewControls' = {}
      BY <2>1, <2>4, <3>1, <3>2, NewControlsStep
    <3>4. \A p \in InFlight' : EndsRoute(p) => Opened(p.session, p.round)'
      BY <3>1, <3>2, EndsRouteStep DEF TokenPlaced
    <3> QED BY <2>1, <3>3, <3>4
            DEF TokenPlaced, OneToken, TokenIsOfRunningRound, EndedRouteHasNoToken
  <2>6. CASE /\ next.st = "RunningRound" /\ next.round = c.round + 1
             /\ \E control \in RouteControls(view[n], next.round, next.route) :
                   Extends(c.high, {control}, next.high)
    <3>1. PICK control \in RouteControls(view[n], next.round, next.route) :
             Extends(c.high, {control}, next.high)
      BY <2>6
    <3> DEFINE S == {control} \cup MasterPackets(n)
    <3>2. InFlight' \subseteq InFlight \cup S
      BY <1>3, <3>1, WorkInFlight
    <3>3. control.type = "RangeControl" /\ control.round = next.round
      BY DEF RouteControls, RouteClaim, ControlPackets
    <3>4. /\ \A p \in S : p.type = "RangeControl" => p = control
          /\ \A p \in S : EndsRoute(p) =>
               p.session \in Sessions /\ p.round \in Nat /\ Opened(p.session, p.round)
      BY <1>1, <2>2, <2>3, <3>3 DEF EndsRoute
    <3>5. \A p \in S : EndsRoute(p) => p.round # next.round
      BY <1>1, <2>2, <2>6, <3>3 DEF EndsRoute
    <3> HIDE DEF S
    <3>6. NewControls' \subseteq {control}
      BY <2>1, <2>4, <3>2, <3>4, NewControlsStep
    <3>7. RunsRound(control.round)'
      BY <1>1, <1>2, <2>6, <3>3 DEF RunsRound
    <3>8. \A p \in InFlight' : EndsRoute(p) => Opened(p.session, p.round)'
      BY <3>2, <3>4, EndsRouteStep DEF TokenPlaced
    <3>9. ~IsEnded(n)'
      <4>1. ~(Size(next.route) \in next.received)
        BY <1>1, <1>3, <2>6 DEF SameRound
      <4>2. ASSUME NEW p \in InFlight, EndsRoute(p) PROVE p.round # next.round
        <5>1. Opened(p.session, p.round)
          BY <4>2 DEF TokenPlaced, EndedRouteHasNoToken
        <5>2. p.session \in Sessions /\ p.round \in Nat
          BY <4>2, InFlightType, PacketKinds
             DEF EndsRoute, MeasurementPackets, CompletePackets
        <5>3. p.session = view[n]
          BY <1>1, <5>1, <5>2, TheSession DEF Opened
        <5> QED BY <1>1, <2>6, <5>1, <5>2, <5>3 DEF Opened
      <4> QED BY <1>2, <3>2, <3>5, <4>1, <4>2 DEF IsEnded, Size
    <3>10. ASSUME NEW m \in Tags, ctl'[m].st = "RunningRound" PROVE m = n
      BY <1>1, <1>2, <3>10, OneRunner
    <3>11. EndedRouteHasNoToken'
      BY <3>8, <3>9, <3>10 DEF EndedRouteHasNoToken
    <3>12. OneToken' /\ TokenIsOfRunningRound'
      BY <2>1, <3>6, <3>7 DEF OneToken, TokenIsOfRunningRound, RunsRound
    <3> QED BY <3>11, <3>12 DEF TokenPlaced
  <2> QED BY <2>5, <2>6 DEF Leads
<1> QED BY <1>5, <1>6

(* The induction step for the token.                                       *)
LEMMA NextTokenPlaced ==
    ASSUME OneMaster, {"deadline", "restart", "masterLost"} \cap Faults = {},
           IInv, [Next]_vars, SessionsAreOpened, OneRoutePerRound, OneSummaryPerRound,
           RoutesAreSnapshots, OnlyMastersOpen, OneSession, TokenPlaced
    PROVE  TokenPlaced'
<1>1. ASSUME InFlight' \subseteq InFlight,
             \A m \in Nodes :
                \/ /\ SameRound(ctl[m], ctl'[m]) /\ ctl'[m].received = ctl[m].received
                   /\ ctl'[m].lastControl = ctl[m].lastControl
                \/ /\ m \in Tags /\ ctl[m].st # "RunningRound"
                   /\ ctl'[m].st # "RunningRound"
                \/ /\ ~InRound(m) /\ ~InRound(m)'
                   /\ ctl'[m].lastControl = ctl[m].lastControl
      PROVE  TokenPlaced'
  <2>1. ASSUME NEW m \in Tags, ctl[m].st = "RunningRound" \/ ctl'[m].st = "RunningRound"
        PROVE  /\ SameRound(ctl[m], ctl'[m])
               /\ Size(ctl'[m].route) \in ctl'[m].received => IsEnded(m)
    <3>1. SameRound(ctl[m], ctl'[m]) /\ ctl'[m].received = ctl[m].received
      BY <1>1, <2>1 DEF Nodes, InRound
    <3> QED BY <3>1 DEF SameRound, IsEnded
  <2>2. KeepsRounds
    BY <2>1 DEF KeepsRounds
  <2>3. \A a \in Anchors :
           /\ ctl'[a].lastControl = ctl[a].lastControl
           /\ ctl'[a].st = "AnchorRanging" =>
                 ctl[a].st = "AnchorRanging" /\ ctl'[a].round = ctl[a].round
    BY <1>1, NodeAssumption DEF Nodes, SameRound, InRound
  <2> DEFINE S == {}
  <2>4. /\ InFlight' \subseteq InFlight \cup S
        /\ \A p \in S : p.type # "RangeControl" /\ ~EndsRoute(p)
    BY <1>1
  <2> HIDE DEF S
  <2> QED BY <2>2, <2>3, <2>4, QuietStep
<1>2. CASE Rests
  <2>1. InFlight' = InFlight
    BY <1>2 DEF Rests, InFlight, PacketsOf
  <2> QED BY <1>1, <1>2, <2>1 DEF Rests, SameRound
<1>3. ASSUME NEW n \in Nodes, NEW next, Works(n, next), Waits(n, next) \/ Follows(n, next)
      PROVE  TokenPlaced'
  <2>1. /\ ctl'[n] = next /\ \A m \in Nodes \ {n} : ctl'[m] = ctl[m]
    BY <1>3, OtherControllers DEF Works
  <2>2. InFlight' \subseteq InFlight
    BY <1>3, SameQueuesInFlight, KindFacts DEF Follows
  <2>3. CASE Waits(n, next)
    BY <1>1, <2>1, <2>2, <2>3 DEF Waits, SameRound
  <2>4. CASE Follows(n, next)
    <3>1. /\ n \in Tags /\ ctl[n].st # "RunningRound" /\ next.st # "RunningRound"
      BY <2>4 DEF Follows, SessionsAreOpened
    <3> QED BY <1>1, <2>1, <2>2, <3>1 DEF SameRound
  <2> QED BY <1>3, <2>3, <2>4
<1>4. ASSUME NEW n \in Nodes, NEW next, Sends(n, next) PROVE TokenPlaced'
  <2>1. /\ ctl'[n] = next /\ \A m \in Nodes \ {n} : ctl'[m] = ctl[m]
    BY <1>4, OtherControllers DEF Sends
  <2>2. InFlight' \subseteq InFlight
    BY <1>4, SendInFlight
  <2> QED BY <1>1, <1>4, <2>1, <2>2 DEF Sends, SameRound
<1>5. ASSUME NEW n \in Nodes, NEW next, Resets(n, next) PROVE TokenPlaced'
  <2>1. /\ ctl'[n] = next /\ \A m \in Nodes \ {n} : ctl'[m] = ctl[m]
    BY <1>5, OtherControllers DEF Resets
  <2>2. InFlight' \subseteq InFlight
    BY <1>5, ResetInFlight
  <2>3. view[n] = NoSession
    BY <1>5, ResetEnters
  <2>4. /\ ~InRound(n) /\ ~InRound(n)'
        /\ ctl'[n].lastControl = ctl[n].lastControl
    BY <1>5, <2>1, <2>3 DEF OneSession, Resets, InRound
  <2> QED BY <1>1, <2>1, <2>2, <2>4 DEF SameRound
<1> QED BY <1>2, <1>3, <1>4, <1>5, StepKinds, TakesToken, RangesToken, LeadsToken

(* The induction step for the drivers.                                     *)
LEMMA NextOnlyHoldersRange ==
    ASSUME OneMaster, {"restart", "masterLost"} \cap Faults = {},
           IInv, [Next]_vars, SessionsAreOpened, OneRoutePerRound,
           RoutesAreSnapshots, OnlyMastersOpen, OneSession, OneToken, OnlyHoldersRange
    PROVE  OnlyHoldersRange'
<1> SUFFICES ASSUME NEW a \in Anchors, uwb'[a].phase = "Waiting"
             PROVE  /\ ctl'[a].st = "AnchorRanging" /\ ctl'[a].started
                    /\ result'[a] = NoResult
  BY DEF OnlyHoldersRange
<1>1. uwb[a].phase = "Waiting" =>
         ctl[a].st = "AnchorRanging" /\ ctl[a].started /\ result[a] = NoResult
  BY DEF OnlyHoldersRange
<1>2. CASE AnchorRests(a)
  BY <1>1, <1>2 DEF AnchorRests, SameTask, SamePlace
<1>3. CASE AnchorTakes(a)
  <2>1. Holders = {}
    BY <1>3, AcceptedIsToken DEF AnchorTakes
  <2> QED BY <1>1, <1>3, <2>1 DEF AnchorTakes, Holders
<1>4. CASE AnchorRanges(a)
  BY <1>1, <1>4 DEF AnchorRanges
<1>5. CASE AnchorResets(a)
  <2>1. uwb'[a] = uwb[a] /\ view'[a] # view[a] /\ view'[a] \in Announced(a)
    BY <1>5 DEF AnchorResets
  <2>2. a \in Nodes /\ view[a] \in Sessions
    BY <1>1, <2>1 DEF Nodes, IInv, AnchorsAreOnRoute, MayRange
  <2>3. /\ view[a][2] \in Nat /\ view'[a][2] \in Nat
        /\ view[a][2] < view'[a][2] /\ view'[a][2] <= epoch[view'[a][1]]
    BY <2>1, <2>2, LaterSession, NodeAssumption
  <2>4. view[a][2] >= 1
    BY <2>2, BoundAssumption DEF Sessions
  <2>5. epoch[view'[a][1]] \in {0, 1}
    <3>1. view'[a][1] \in Tags
      BY <2>1 DEF Announced, Sessions
    <3>2. epoch[view'[a][1]] \in Nat
      BY <3>1, BoundAssumption DEF IInv, TypeOK
    <3> QED BY <3>1, <3>2 DEF OneSession
  <2> QED BY <2>3, <2>4, <2>5
<1> QED BY <1>2, <1>3, <1>4, <1>5, AnchorKinds

(* While only one TAG is ever elected, and no round is closed by its       *)
(* deadline, no node restarts and none loses its master: whatever packets  *)
(* are lost, duplicated or late, however often the master resynchronizes   *)
(* and whichever rangings fail to start or time out, two ANCHORs are never *)
(* ranging at the same time.                                               *)
THEOREM OneAnchorRanges ==
    ASSUME OneMaster, {"deadline", "restart", "masterLost"} \cap Faults = {}
    PROVE  Spec => []AtMostOneRanging
<1> DEFINE Inv == /\ IInv /\ SessionsAreOpened /\ OneRoutePerRound
                  /\ OneSummaryPerRound /\ RoutesAreSnapshots /\ OnlyMastersOpen
                  /\ TokenInv
<1>1. Init => Inv
  <2> SUFFICES ASSUME Init PROVE Inv
    OBVIOUS
  <2>1. /\ IInv /\ SessionsAreOpened /\ OneRoutePerRound /\ RoutesAreSnapshots
        /\ OnlyMastersOpen /\ OneSummaryPerRound /\ InFlight = {}
    BY InitIInv, InitAgreement, InitJobs, InitHistory, InitInFlight
  <2>2. \A n \in Nodes :
           /\ ctl[n].st = "WaitingForMaster" /\ uwb[n].phase = "Idle"
           /\ ctl[n].lastControl = [round |-> 0, pair |-> 0, sequence |-> 0]
    BY ResetFields DEF Init
  <2>3. NewControls = {} /\ Holders = {}
    BY <2>1, <2>2 DEF NewControls, Holders, Nodes
  <2>4. OneSession
    BY <2>2 DEF OneSession, InRound, Init
  <2>5. OnlyHoldersRange
    BY <2>2 DEF OnlyHoldersRange, Nodes
  <2> QED BY <2>1, <2>3, <2>4, <2>5
          DEF TokenInv, OneToken, TokenIsOfRunningRound, EndedRouteHasNoToken
<1>2. Inv /\ [Next]_vars => Inv'
  <2> SUFFICES ASSUME Inv, [Next]_vars PROVE Inv'
    OBVIOUS
  <2>1. /\ IInv' /\ SessionsAreOpened' /\ OneRoutePerRound' /\ OneSummaryPerRound'
        /\ RoutesAreSnapshots' /\ OnlyMastersOpen'
    BY NextIInv, NextSessionsAreOpened, NextOneRoutePerRound, NextOneSummaryPerRound,
       NextRoutesAreSnapshots, NextOnlyMastersOpen
  <2>2. OneSession' /\ OnlyHoldersRange'
    BY NextOneSession, NextOnlyHoldersRange DEF TokenInv
  <2>3. TokenPlaced'
    BY NextTokenPlaced DEF TokenInv, TokenPlaced
  <2> QED BY <2>1, <2>2, <2>3 DEF TokenInv, TokenPlaced
<1>3. Inv => AtMostOneRanging
  BY DEF TokenInv, OnlyHoldersRange, OneToken, Holders, AtMostOneRanging
<1> QED BY <1>1, <1>2, <1>3, PTL DEF Spec
-----------------------------------------------------------------------------
(* What a step publishes and forwards.                                     *)

(* A controller that goes on in its round has received no less of it.      *)
KeepsReceived(c, next) ==
    next.round >= c.round /\ (next.round = c.round => c.received \subseteq next.received)
(* A master runs the round it ran, or a later one.                         *)
RunsOnwards(c, next) ==
    next.st = "RunningRound" => SameRound(c, next) \/ next.round > c.round
NoForwards == {p \in HonestPackets : ~IsForward(p)}

(* A node at work publishes nothing and forwards nothing...                *)
PublishesNothing(n) ==
    /\ UNCHANGED published
    /\ Extends(ctl[n].low, NoForwards, ctl'[n].low)

(* ... or it is the master and takes a result, which it may forward...     *)
ForwardsOf(packet) == {p \in HonestPackets : IsForward(p) /\ PairOf(p) = PairOf(packet)}
PublishesResult(n) ==
    \E packet \in Elements(inbox[n]) :
        /\ packet \in MeasurementPackets /\ packet.type = "RangeMeasurement"
        /\ AcceptsMeasurement(n, packet) /\ PushMeasurement(n, packet)
        /\ SameRound(ctl[n], ctl'[n])
           => ctl'[n].received = ctl[n].received \cup {packet.index}
        /\ \/ Extends(ctl[n].low, NoForwards, ctl'[n].low)
           \/ \E forward \in ForwardsOf(packet) :
                 Extends(Append(ctl[n].low, forward), NoForwards, ctl'[n].low)

(* ... or it is a follower and takes a forward that is new to it.          *)
PublishesForward(n) ==
    LET packet == Head(inbox[n]) c == ctl[n] next == ctl'[n]
    IN  /\ view[n] \in Sessions /\ ~IsMaster(n)
        /\ inbox[n] # <<>> /\ Consume(n)
        /\ IsForward(packet) /\ packet.session = view[n]
        /\ packet \in MeasurementPackets /\ PushMeasurement(n, packet)
        /\ next.low = c.low
        /\ packet.round >= c.round
        /\ packet.round = c.round => packet.index \notin c.received
        /\ next.round = packet.round /\ packet.index \in next.received

Publishes(n, next) ==
    /\ Works(n, next)
    /\ n \in Tags => KeepsReceived(ctl[n], next)
    /\ RunsOnwards(ctl[n], next)
    /\ \/ PublishesNothing(n)
       \/ n \in Tags /\ (PublishesResult(n) \/ PublishesForward(n))

(* A controller that stays as it is satisfies both.                        *)
LEMMA KeepsReceivedItself ==
    ASSUME NEW c \in Controllers
    PROVE  KeepsReceived(c, c) /\ RunsOnwards(c, c)
BY DEF KeepsReceived, RunsOnwards, SameRound, Controllers

(* Opening a round discards what was received of the one before, only.     *)
LEMMA NextRoundReceived ==
    ASSUME NEW n \in Nodes, view[n] \in Sessions, NEW c \in HonestControllers,
           NEW next \in NextRoundControllers(n, c)
    PROVE  /\ KeepsReceived(c, next) /\ next.low = c.low
           /\ next.st = "RunningRound" => next.round > c.round
<1>1. c \in Controllers /\ c.round \in Nat
  BY DEF HonestControllers, Controllers
<1>2. RoundOpened(n, c, next)
  BY NextRoundEffect
<1>3. /\ next.low = c.low /\ next.round \in {c.round, c.round + 1}
      /\ next.st = "RunningRound" => next.round > c.round
  BY <1>1, <1>2 DEF RoundOpened
<1>4. next.round = c.round => next.received = c.received
  <2>1. \A state \in {"WaitingForSynchronization", "ReadyToStart"} :
           [c EXCEPT !.st = state].received = c.received
    BY <1>1 DEF Controllers
  <2>2. ASSUME NEW s \in RoundSnapshots(n)
        PROVE  LET started == StartMasterRound(n, c, s)
               IN  started.round = c.round => started.received = c.received
    BY <1>1 DEF StartMasterRound, QueueControl, Controllers
  <2> QED BY <2>1, <2>2 DEF NextRoundControllers
<1> QED BY <1>1, <1>3, <1>4 DEF KeepsReceived

(* Closing a round forwards nothing.                                       *)
LEMMA CompleteMasterRoundForwards ==
    ASSUME IInv, NEW n \in Nodes, IsMaster(n), NEW c \in HonestControllers,
           CompleteMasterRound(n, c)
    PROVE  /\ Extends(c.low, NoForwards, ctl'[n].low) /\ KeepsReceived(c, ctl'[n])
           /\ ctl'[n].st = "RunningRound" => ctl'[n].round > c.round
<1> DEFINE queued == QueueRoundCompleteForFollowers(n, c)
<1>1. view[n] \in Sessions /\ c \in Controllers /\ c.round \in Nat
      /\ ctl \in [Nodes -> Controllers]
  BY NodeFacts DEF HonestControllers, Controllers, IInv, TypeOK
<1>2. /\ queued \in HonestControllers /\ SameRound(c, queued)
      /\ Extends(c.low, MasterSummaries(PublishedSummary(n, c)), queued.low)
  BY <1>1, FollowersEffect
<1>3. queued.received = c.received
  BY <1>1 DEF QueueRoundCompleteForFollowers, Controllers
<1>4. MasterSummaries(PublishedSummary(n, c)) \subseteq NoForwards
  BY DEF MasterSummaries, NoForwards, IsForward
<1>5. Extends(c.low, NoForwards, queued.low)
  BY <1>2, <1>4, ExtendsMonotone
<1>6. PICK next \in NextRoundControllers(n, queued) : ctl' = [ctl EXCEPT ![n] = next]
  BY DEF CompleteMasterRound
<1>7. ctl'[n] = next
  BY <1>1, <1>6
<1> HIDE DEF queued
<1>8. /\ KeepsReceived(queued, next) /\ next.low = queued.low
      /\ next.st = "RunningRound" => next.round > queued.round
  BY <1>1, <1>2, <1>6, NextRoundReceived
<1> QED BY <1>2, <1>3, <1>5, <1>7, <1>8 DEF SameRound, KeepsReceived

(* SequentialRangingController::UpdateMaster.                              *)
LEMMA UpdateMasterPublishes ==
    ASSUME IInv, NEW n \in Nodes, TryStartRound(n) \/ RoundDeadline(n)
    PROVE  \E next : Publishes(n, next)
<1>1. PICK next : Works(n, next) /\ Leads(n, next)
  BY UpdateMasterKind
<1>2. /\ ctl'[n] = next /\ ctl[n] \in HonestControllers /\ view[n] \in Sessions
      /\ IsMaster(n) /\ UNCHANGED published
  BY <1>1, OtherControllers, NodeFacts DEF Works, Leads, TryStartRound, RoundDeadline
<1>3. /\ Extends(ctl[n].low, NoForwards, next.low) /\ KeepsReceived(ctl[n], next)
      /\ next.st = "RunningRound" => next.round > ctl[n].round
  <2>1. CASE TryStartRound(n)
    <3>1. PICK last \in NextRoundControllers(n, ctl[n]) : ctl' = [ctl EXCEPT ![n] = last]
      BY <2>1 DEF TryStartRound
    <3>2. last = next
      BY <1>2, <3>1, OtherControllers
    <3>3. ctl[n].low \in Seq(HonestPackets)
      BY QueueTypes
    <3>4. Extends(ctl[n].low, NoForwards, ctl[n].low)
      BY <3>3, ExtendsReflexive
    <3> QED BY <1>2, <3>1, <3>2, <3>4, NextRoundReceived
  <2>2. CASE RoundDeadline(n)
    <3>1. CompleteMasterRound(n, ctl[n])
      BY <2>2 DEF RoundDeadline
    <3> QED BY <1>2, <3>1, CompleteMasterRoundForwards
  <2> QED BY <2>1, <2>2
<1>4. Publishes(n, next)
  BY <1>1, <1>2, <1>3 DEF Publishes, PublishesNothing, RunsOnwards
<1> QED BY <1>4

(* SequentialRangingController::UpdateAnchor.                              *)
LEMMA UpdateAnchorPublishes ==
    ASSUME IInv, NEW n \in Nodes, UpdateAnchor(n)
    PROVE  \E next : Publishes(n, next)
<1>1. PICK next : Works(n, next) /\ (Waits(n, next) \/ Ranges(n, next))
  BY UpdateAnchorKind
<1>2. /\ ctl'[n] = next /\ ctl[n] \in Controllers
      /\ ctl[n].low \in Seq(HonestPackets)
  BY <1>1, OtherControllers, NodeFacts, QueueTypes DEF Works
<1>3. CASE Waits(n, next)
  <2>1. Extends(ctl[n].low, NoForwards, next.low)
    BY <1>2, <1>3, ExtendsReflexive DEF Waits
  <2>2. Publishes(n, next)
    BY <1>1, <1>2, <1>3, <2>1, KeepsReceivedItself
       DEF Waits, Publishes, PublishesNothing
  <2> QED BY <2>2
<1>4. CASE Ranges(n, next)
  <2>1. Reports(view[n]) \subseteq NoForwards
    BY DEF Reports, OwnPackets, NoForwards, IsForward
  <2>2. Extends(ctl[n].low, NoForwards, next.low)
    BY <1>4, <2>1, ExtendsMonotone DEF Ranges
  <2>3. n \notin Tags /\ next.st # "RunningRound" /\ UNCHANGED published
    BY <1>4, NodeAssumption DEF Ranges
  <2>4. Publishes(n, next)
    BY <1>1, <1>2, <2>2, <2>3 DEF Publishes, PublishesNothing, RunsOnwards
  <2> QED BY <2>4
<1> QED BY <1>1, <1>3, <1>4

(* A forward of a result goes to the end of the queue, if there is room.   *)
LEMMA ForwardIsQueued ==
    ASSUME NEW n \in Nodes, IsMaster(n), NEW c \in HonestControllers,
           NEW packet \in MeasurementPackets, packet \in HonestPackets,
           packet.session = view[n]
    PROVE  LET next == QueueMeasurementForward(n, c, packet)
           IN  /\ next \in HonestControllers /\ SameRound(c, next)
               /\ next.received = c.received
               /\ \E forward \in ForwardsOf(packet) :
                     next.low \in {c.low, Append(c.low, forward)}
<1> DEFINE forward == Forwarded(n, c, packet)
           next == QueueMeasurementForward(n, c, packet)
<1>1. c \in Controllers /\ c.nextSequence \in Nat
  BY DEF HonestControllers, Controllers
<1>2. SequenceAfter(c.nextSequence, 1) \in Nat /\ packet.tag \in Nodes
  BY <1>1, SequenceAfterType DEF MeasurementPackets, Nodes
<1>3. /\ forward \in MeasurementPackets
      /\ forward.type = "RangeMeasurementForward" /\ forward.src = n
      /\ forward.job = packet.job /\ forward.session = packet.session
      /\ forward.round = packet.round /\ forward.tag = packet.tag
      /\ forward.anchor = packet.anchor
  BY <1>2 DEF MeasurementPackets, Forwarded
<1>4. packet.job = [session |-> packet.session, round |-> packet.round,
                    tag |-> packet.tag]
  BY DEF HonestPackets, FromItsRound, IsMeasurement, MeasurementPackets
<1>5. forward \in HonestPackets
  BY <1>3, <1>4, HonestTypes
<1> HIDE DEF forward
<1>6. forward \in ForwardsOf(packet)
  BY <1>3, <1>5 DEF ForwardsOf, IsForward, FromMaster, IsMaster, PairOf
<1>7. next = [c EXCEPT !.nextSequence = SequenceAfter(@, 1),
                       !.low = Push(@, LowCapacity, forward)]
  BY DEF QueueMeasurementForward, forward
<1>8. next \in HonestControllers
  BY QueueMeasurementForwardType
<1>9. /\ next.low = Push(c.low, LowCapacity, forward)
      /\ next.received = c.received /\ SameRound(c, next)
  BY <1>1, <1>7 DEF Controllers, SameRound
<1> HIDE DEF next
<1>10. next.low \in {c.low, Append(c.low, forward)}
  BY <1>9 DEF Push
<1> QED BY <1>6, <1>8, <1>9, <1>10 DEF next

(* HandleMeasurement of a result that the master accepts.                  *)
LEMMA HandleMeasurementPublishes ==
    ASSUME IInv, NEW n \in Nodes, inbox[n] # <<>>,
           HandleMeasurement(n, Head(inbox[n])), AcceptsMeasurement(n, Head(inbox[n]))
    PROVE  /\ PublishesResult(n) /\ n \in Tags
           /\ KeepsReceived(ctl[n], ctl'[n]) /\ RunsOnwards(ctl[n], ctl'[n])
<1> DEFINE packet == Head(inbox[n])
           c == ctl[n]
           taken == TakeMeasurement(c, packet)
           room(low) == \/ Extends(c.low, NoForwards, low)
                        \/ \E forward \in ForwardsOf(packet) :
                              Extends(Append(c.low, forward), NoForwards, low)
<1>1. /\ packet \in HonestPackets /\ packet \in Elements(inbox[n])
      /\ c \in HonestControllers /\ c \in Controllers /\ c.round \in Nat
      /\ c.low \in Seq(HonestPackets)
      /\ ctl \in [Nodes -> Controllers]
  <2>1. inbox[n] \in Seq(HonestPackets) /\ c.low \in Seq(HonestPackets)
    BY QueueTypes
  <2>2. packet \in HonestPackets /\ packet \in Elements(inbox[n])
    BY <2>1, TailElements
  <2>3. c \in HonestControllers /\ c \in Controllers /\ ctl \in [Nodes -> Controllers]
    BY NodeFacts DEF IInv, TypeOK
  <2>4. c.round \in Nat
    BY <2>3 DEF Controllers
  <2> QED BY <2>1, <2>2, <2>3, <2>4
<1> HIDE DEF packet
<1>2. /\ packet \in MeasurementPackets /\ packet.type = "RangeMeasurement"
      /\ IsMaster(n) /\ packet.session = view[n] /\ AcceptsMeasurement(n, packet)
      /\ PushMeasurement(n, packet) /\ n \in Tags
  BY <1>1, PacketKinds, NodeFacts DEF HandleMeasurement, AcceptsMeasurement, packet
<1>3. /\ taken \in HonestControllers /\ SameQueues(c, taken) /\ SameRound(c, taken)
      /\ taken.received = c.received \cup {packet.index}
  BY <1>1, <1>2, TakeMeasurementType, TakeMeasurementFields
     DEF TakeMeasurement, Controllers
<1>4. PICK next \in ForwardedControllers(n, taken, packet) :
           IF next.received = Pairs(next.route)
           THEN CompleteMasterRound(n, next)
           ELSE ctl' = [ctl EXCEPT ![n] = next] /\ UNCHANGED summary
  BY <1>2 DEF HandleMeasurement, packet
<1> HIDE DEF taken, c
<1>5. /\ next \in HonestControllers /\ SameRound(c, next)
      /\ next.received = c.received \cup {packet.index}
      /\ \/ next.low = c.low
         \/ \E forward \in ForwardsOf(packet) : next.low = Append(c.low, forward)
  <2>1. CASE next = taken
    BY <1>3, <2>1 DEF SameQueues
  <2>2. CASE next = QueueMeasurementForward(n, taken, packet)
    <3>1. /\ next \in HonestControllers /\ SameRound(taken, next)
          /\ next.received = taken.received
          /\ \E forward \in ForwardsOf(packet) :
                next.low \in {taken.low, Append(taken.low, forward)}
      BY <1>1, <1>2, <1>3, <2>2, ForwardIsQueued
    <3> QED BY <1>3, <3>1 DEF SameRound, SameQueues
  <2> QED BY <1>4, <2>1, <2>2 DEF ForwardedControllers
<1>6. KeepsReceived(c, next)
  BY <1>1, <1>5 DEF KeepsReceived, SameRound
<1>7. /\ KeepsReceived(next, ctl'[n]) /\ RunsOnwards(next, ctl'[n])
      /\ Extends(next.low, NoForwards, ctl'[n].low)
      /\ SameRound(next, ctl'[n]) => ctl'[n].received = next.received
  <2>1. CASE next.received = Pairs(next.route)
    <3>1. /\ Extends(next.low, NoForwards, ctl'[n].low) /\ KeepsReceived(next, ctl'[n])
          /\ ctl'[n].st = "RunningRound" => ctl'[n].round > next.round
      BY <1>2, <1>4, <1>5, <2>1, CompleteMasterRoundForwards
    <3>2. next.st = "RunningRound" /\ next.round \in Nat
      BY <1>1, <1>2, <1>5 DEF SameRound, AcceptsMeasurement, c
    <3> QED BY <3>1, <3>2 DEF RunsOnwards, SameRound
  <2>2. CASE next.received # Pairs(next.route)
    <3>1. ctl'[n] = next /\ next \in Controllers /\ next.low \in Seq(HonestPackets)
      BY <1>1, <1>4, <1>5, <2>2 DEF HonestControllers
    <3>2. Extends(next.low, NoForwards, next.low)
      BY <3>1, ExtendsReflexive
    <3> QED BY <3>1, <3>2, KeepsReceivedItself
  <2> QED BY <2>1, <2>2
<1>8. KeepsReceived(c, ctl'[n]) /\ RunsOnwards(c, ctl'[n])
  <2>1. ctl'[n].round >= c.round
    <3>1. ctl'[n].round >= next.round /\ next.round = c.round
      BY <1>5, <1>7 DEF KeepsReceived, SameRound
    <3> QED BY <3>1
  <2> QED BY <1>5, <1>6, <1>7, <2>1 DEF KeepsReceived, RunsOnwards, SameRound
<1>9. SameRound(c, ctl'[n]) => ctl'[n].received = c.received \cup {packet.index}
  BY <1>5, <1>7 DEF SameRound
<1>10. room(ctl'[n].low)
  BY <1>5, <1>7
<1>11. PublishesResult(n)
  BY <1>1, <1>2, <1>9, <1>10 DEF PublishesResult, c
<1> QED BY <1>2, <1>8, <1>11 DEF c

(* SequentialRangingController::ProcessReceivedPackets.                    *)
LEMMA ProcessReceivedPacketsPublishes ==
    ASSUME IInv, NEW n \in Nodes, ProcessReceivedPackets(n)
    PROVE  \E next : Publishes(n, next)
<1> DEFINE packet == Head(inbox[n])
           c == ctl[n]
<1>1. PICK next : Works(n, next)
  BY ProcessReceivedPacketsKind
<1>2. /\ inbox[n] # <<>>
      /\ \/ HandleControl(n, packet)
         \/ HandleMeasurement(n, packet)
         \/ HandleMeasurementForward(n, packet)
         \/ HandleRoundComplete(n, packet)
  BY DEF ProcessReceivedPackets
<1>3. Consume(n)
  BY <1>2 DEF HandleControl, HandleMeasurement, HandleMeasurementForward,
              HandleRoundComplete, Ignore
<1>4. /\ ctl'[n] = next /\ c \in HonestControllers /\ c \in Controllers
      /\ c.low \in Seq(HonestPackets) /\ ctl \in [Nodes -> Controllers]
  BY <1>1, OtherControllers, NodeFacts, QueueTypes DEF Works, IInv, TypeOK
<1>5. c.round \in Nat
  BY <1>4 DEF Controllers
<1>6. packet \in HonestPackets
  <2>1. inbox[n] \in Seq(HonestPackets)
    BY QueueTypes
  <2> QED BY <1>2, <2>1, TailElements
<1>7. Extends(c.low, NoForwards, c.low)
  BY <1>4, ExtendsReflexive
<1> SUFFICES /\ n \in Tags => KeepsReceived(c, ctl'[n])
             /\ RunsOnwards(c, ctl'[n])
             /\ \/ PublishesNothing(n)
                \/ n \in Tags /\ (PublishesResult(n) \/ PublishesForward(n))
  BY <1>1, <1>4 DEF Publishes
<1> HIDE DEF packet, c
<1>8. CASE Ignore(n)
  <2>1. ctl'[n] = c /\ UNCHANGED published
    BY <1>8 DEF Ignore, c
  <2> QED BY <1>4, <1>7, <2>1, KeepsReceivedItself DEF PublishesNothing, c
<1>9. CASE HandleControl(n, packet) /\ ~Ignore(n)
  <2>1. /\ ctl' = [ctl EXCEPT ![n] = TakeRoute(@, packet)] /\ UNCHANGED published
        /\ n \in Anchors
    BY <1>9 DEF HandleControl, AcceptsControl, AddressesAnchor
  <2>2. ctl'[n] = TakeRoute(c, packet) /\ n \notin Tags
    BY <1>4, <2>1, NodeAssumption DEF c
  <2>3. ctl'[n].st = "AnchorRanging" /\ ctl'[n].low = c.low
    BY <1>4, <2>2 DEF TakeRoute, ControlTaken, Controllers
  <2> QED BY <1>7, <2>1, <2>2, <2>3 DEF RunsOnwards, PublishesNothing, c
<1>10. CASE HandleMeasurement(n, packet) /\ ~Ignore(n)
  <2>1. AcceptsMeasurement(n, packet)
    BY <1>10 DEF HandleMeasurement
  <2> QED BY <1>2, <1>10, <2>1, HandleMeasurementPublishes DEF packet, c
<1>11. CASE HandleRoundComplete(n, packet) /\ ~Ignore(n)
  <2>1. UNCHANGED published
    BY <1>11 DEF HandleRoundComplete
  <2>2. CASE CompleteMasterRound(n, c) /\ IsMaster(n)
    BY <1>4, <2>1, <2>2, CompleteMasterRoundForwards
       DEF PublishesNothing, RunsOnwards, c
  <2>3. CASE FollowRoundComplete(n, packet) /\ packet.round >= c.round
    <3>1. /\ ctl'[n].st = c.st /\ ctl'[n].low = c.low /\ ctl'[n].round = packet.round
          /\ ctl'[n].received = c.received /\ ctl'[n].route = c.route
      BY <1>4, <2>3 DEF FollowRoundComplete, Controllers, c
    <3>2. packet.round \in Nat
      BY <1>6, <1>11, PacketKinds DEF HandleRoundComplete, CompletePackets
    <3>3. packet.round = c.round \/ packet.round > c.round
      BY <1>5, <2>3, <3>2
    <3> QED BY <1>7, <2>1, <2>3, <3>1, <3>3
            DEF PublishesNothing, RunsOnwards, KeepsReceived, SameRound, c
  <2> QED BY <1>11, <2>2, <2>3
          DEF HandleRoundComplete, AcceptsCompleteAsMaster, AcceptsCompleteAsFollower, c
<1>12. CASE HandleMeasurementForward(n, packet) /\ ~Ignore(n)
  <2> DEFINE adopted == AdoptForwardedRound(c, packet.round)
  <2>1. packet \in MeasurementPackets /\ packet.round \in Nat
    BY <1>6, <1>12, PacketKinds DEF HandleMeasurementForward, MeasurementPackets
  <2>2. /\ n \in Tags /\ view[n] \in Sessions /\ ~IsMaster(n)
        /\ IsForward(packet) /\ packet.session = view[n]
        /\ packet.round >= c.round
    BY <1>12, NodeFacts DEF HandleMeasurementForward, IsForward, FromMaster, MasterOf, c
  <2>3. /\ adopted \in Controllers /\ adopted.st = c.st /\ adopted.low = c.low
        /\ adopted.route = c.route /\ adopted.round = packet.round
        /\ packet.round = c.round => adopted.received = c.received
    <3>1. CASE packet.round > c.round
      <4>1. adopted = [c EXCEPT !.round = packet.round, !.received = {},
                                !.lastSequence = [i \in DOMAIN @ |-> 0]]
        BY <3>1 DEF AdoptForwardedRound
      <4>2. adopted \in HonestControllers
        BY <1>4, <2>1, AdoptForwardedRoundType
      <4> HIDE DEF adopted
      <4>3. adopted.st = c.st /\ adopted.low = c.low /\ adopted.route = c.route
            /\ adopted.round = packet.round
        BY <1>4, <4>1 DEF Controllers
      <4>4. packet.round # c.round
        BY <1>5, <2>1, <3>1
      <4> QED BY <4>2, <4>3, <4>4 DEF HonestControllers
    <3>2. CASE ~(packet.round > c.round)
      <4>1. adopted = c /\ packet.round = c.round
        BY <1>5, <2>1, <2>2, <3>2 DEF AdoptForwardedRound
      <4> QED BY <1>4, <4>1
    <3> QED BY <3>1, <3>2
  <2>4. /\ IF IsFresh(adopted, packet)
           THEN /\ ctl' = [ctl EXCEPT ![n] = TakeMeasurement(adopted, packet)]
                /\ PushMeasurement(n, packet)
           ELSE ctl' = [ctl EXCEPT ![n] = adopted] /\ UNCHANGED published
    BY <1>12 DEF HandleMeasurementForward, c
  <2> HIDE DEF adopted
  <2>5. CASE IsFresh(adopted, packet)
    <3>1. ctl'[n] = TakeMeasurement(adopted, packet)
      BY <1>4, <2>4, <2>5
    <3>2. /\ ctl'[n].st = c.st /\ ctl'[n].low = c.low /\ ctl'[n].route = c.route
          /\ ctl'[n].round = packet.round
          /\ ctl'[n].received = adopted.received \cup {packet.index}
      BY <2>3, <3>1 DEF TakeMeasurement, Controllers
    <3>3. packet.round = c.round => packet.index \notin c.received
      BY <2>3, <2>5 DEF IsFresh
    <3>4. PublishesForward(n)
      BY <1>2, <1>3, <2>1, <2>2, <2>4, <2>5, <3>2, <3>3
         DEF PublishesForward, packet, c
    <3>5. KeepsReceived(c, ctl'[n]) /\ RunsOnwards(c, ctl'[n])
      <4>1. packet.round = c.round \/ packet.round > c.round
        BY <1>5, <2>1, <2>2
      <4> QED BY <2>2, <2>3, <3>2, <4>1 DEF KeepsReceived, RunsOnwards, SameRound
    <3> QED BY <2>2, <3>4, <3>5
  <2>6. CASE ~IsFresh(adopted, packet)
    <3>1. ctl'[n] = adopted /\ UNCHANGED published
      BY <1>4, <2>4, <2>6
    <3>2. packet.round = c.round \/ packet.round > c.round
      BY <1>5, <2>1, <2>2
    <3> QED BY <1>7, <2>2, <2>3, <3>1, <3>2
            DEF KeepsReceived, RunsOnwards, SameRound, PublishesNothing, c
  <2> QED BY <2>5, <2>6
<1> QED BY <1>2, <1>8, <1>9, <1>10, <1>11, <1>12

(* Every step: it publishes and forwards as said, or is one of the kinds   *)
(* that publish nothing.                                                   *)
LEMMA PublishingKinds ==
    ASSUME IInv, [Next]_vars
    PROVE  \/ Rests
           \/ \E n \in Nodes : \E next :
                 Publishes(n, next) \/ Sends(n, next) \/ Resets(n, next)
<1>1. CASE UNCHANGED vars
  BY <1>1 DEF vars, Rests
<1>2. ASSUME NEW n \in Nodes, Uwb(n) PROVE Rests
  BY <1>2 DEF Uwb, UwbRespond, UwbTimeout, UwbComplete, UwbDrained, Rests
<1>3. ASSUME NEW n \in Nodes, Cycle(n)
      PROVE  \E next : Publishes(n, next) \/ Sends(n, next)
  BY <1>3, ProcessReceivedPacketsPublishes, UpdateAnchorPublishes,
     UpdateMasterPublishes, TrySendNextPacketKind DEF Cycle
<1>4. ASSUME NEW n \in Nodes, Environment(n)
      PROVE  Rests \/ \E next : Resets(n, next)
  BY <1>4, EnvironmentKind
<1> QED BY <1>1, <1>2, <1>3, <1>4 DEF Next

(* What a master takes is a result of a place of the route it runs.        *)
LEMMA NextResultsAreOfPlaces ==
    IInv /\ ResultsAreOfPlaces /\ [Next]_vars => ResultsAreOfPlaces'
<1> SUFFICES ASSUME IInv, ResultsAreOfPlaces, [Next]_vars, NEW p \in InFlight'
             PROVE  WellIndexed(p)
  BY DEF ResultsAreOfPlaces
<1>1. CASE p \in InFlight
  BY <1>1 DEF ResultsAreOfPlaces
<1>2. CASE Rests
  BY <1>1, <1>2 DEF Rests, InFlight, PacketsOf
<1>3. ASSUME NEW n \in Nodes, NEW next, Sends(n, next) \/ Resets(n, next)
      PROVE  WellIndexed(p)
  BY <1>1, <1>3, SendInFlight, ResetInFlight
<1>4. ASSUME NEW n \in Nodes, NEW next, Works(n, next),
             \/ Waits(n, next) \/ Takes(n, next) \/ Ranges(n, next)
             \/ Follows(n, next) \/ Leads(n, next)
      PROVE  WellIndexed(p)
  <2>1. CASE Waits(n, next) \/ Takes(n, next) \/ Follows(n, next)
    <3>1. SameQueues(ctl[n], next)
      BY <2>1, KindFacts DEF Takes, Follows
    <3> QED BY <1>1, <1>4, <3>1, SameQueuesInFlight
  <2>2. CASE Ranges(n, next)
    <3> DEFINE H == RouteControls(view[n], ctl[n].round, ctl[n].route)
               L == Reports(view[n])
    <3>1. Extends(ctl[n].high, H, next.high) /\ Extends(ctl[n].low, L, next.low)
      BY <2>2 DEF Ranges
    <3>2. \A q \in H \cup L : WellIndexed(q)
      BY DEF RouteControls, ControlPackets, Reports, WellIndexed
    <3> HIDE DEF H, L
    <3>3. InFlight' \subseteq InFlight \cup H \cup L
      BY <1>4, <3>1, WorkInFlight
    <3> QED BY <1>1, <3>2, <3>3
  <2>3. CASE Leads(n, next)
    <3>1. p \in InFlight \/ p \in MasterPackets(n) \/ p.type = "RangeControl"
      BY <1>4, <2>3, LeadInFlight
    <3>2. p \in MasterPackets(n) => p.type # "RangeMeasurement"
      BY DEF MasterPackets, MasterForwards, MasterSummaries
    <3> QED BY <1>1, <3>1, <3>2 DEF WellIndexed
  <2> QED BY <1>4, <2>1, <2>2, <2>3
<1> QED BY <1>2, <1>3, <1>4, StepKinds

(* The place of a result that the master accepts.                          *)
LEMMA ResultPlace ==
    ASSUME IInv, ResultsAreOfPlaces, NEW n \in Nodes,
           NEW packet \in Elements(inbox[n]), packet \in MeasurementPackets,
           packet.type = "RangeMeasurement", AcceptsMeasurement(n, packet)
    PROVE  /\ packet.index \in Pairs(ctl[n].route)
           /\ <<packet.anchor, packet.tag>> = PairAt(ctl[n].route, packet.index)
           /\ packet.session = view[n] /\ packet.round = ctl[n].round
           /\ packet.index \notin ctl[n].received /\ ctl[n].st = "RunningRound"
           /\ IsMaster(n)
<1>1. packet \in InFlight
  BY DEF InFlight, PacketsOf
<1>2. /\ packet.index[1] \in 1..packet.size[1] /\ packet.index[2] \in 1..packet.size[2]
      /\ packet.index \in Nat \X Nat
  BY <1>1 DEF ResultsAreOfPlaces, WellIndexed, MeasurementPackets, Counts
<1>3. packet.size = <<Len(ctl[n].route.anchors), Len(ctl[n].route.tags)>>
  BY DEF AcceptsMeasurement, IsOfRound, Size
<1>4. /\ ctl[n].route.anchors[packet.index[1]] = packet.anchor
      /\ ctl[n].route.tags[packet.index[2]] = packet.tag
  BY DEF AcceptsMeasurement
<1>5. packet.index \in Pairs(ctl[n].route)
  BY <1>2, <1>3 DEF Pairs
<1> QED BY <1>4, <1>5 DEF PairAt, AcceptsMeasurement, IsOfRound, IsFresh

(* What is published is what was before and the pair of the packet.        *)
LEMMA PushedPairs ==
    ASSUME IInv, NEW n \in Tags, NEW packet, PushMeasurement(n, packet)
    PROVE  LET key == [session |-> packet.session, round |-> packet.round]
           IN  /\ published'[n].key = key
               /\ published'[n].pairs = (IF published[n].key = key
                                         THEN published[n].pairs ELSE {})
                                           \cup {<<packet.anchor, packet.tag>>}
               /\ published'[n].count = (IF published[n].key = key
                                         THEN published[n].count ELSE 0) + 1
               /\ \A t \in Tags \ {n} : published'[t] = published[t]
BY DEF PushMeasurement, IInv, TypeOK

(* The induction step.                                                     *)
LEMMA NextPublishedIsReceived ==
    /\ IInv /\ SessionsAreOpened /\ HistoryBehindTraffic /\ ResultsAreOfPlaces
    /\ PublishedIsReceived /\ [Next]_vars
    => PublishedIsReceived'
<1> SUFFICES ASSUME IInv, SessionsAreOpened, HistoryBehindTraffic,
                    ResultsAreOfPlaces, PublishedIsReceived, [Next]_vars,
                    NEW m \in Tags, ctl'[m].st = "RunningRound",
                    published'[m].key = [session |-> view'[m], round |-> ctl'[m].round],
                    NEW pair \in published'[m].pairs
             PROVE  \E index \in ctl'[m].received \cap Pairs(ctl'[m].route) :
                       pair = PairAt(ctl'[m].route, index)
  BY DEF PublishedIsReceived
<1>1. m \in Nodes
  BY DEF Nodes
<1>2. ASSUME ctl[m].st = "RunningRound", view'[m] = view[m],
             SameRound(ctl[m], ctl'[m]), ctl[m].received \subseteq ctl'[m].received,
             pair \in published[m].pairs, published[m].key = published'[m].key
      PROVE  \E index \in ctl'[m].received \cap Pairs(ctl'[m].route) :
                pair = PairAt(ctl'[m].route, index)
  <2>1. published[m].key = [session |-> view[m], round |-> ctl[m].round]
    BY <1>2 DEF SameRound
  <2>2. PICK index \in ctl[m].received \cap Pairs(ctl[m].route) :
           pair = PairAt(ctl[m].route, index)
    BY <1>2, <2>1 DEF PublishedIsReceived
  <2> QED BY <1>2, <2>2 DEF SameRound
<1>3. ASSUME published'[m] = published[m], ctl'[m] = ctl[m], view'[m] = view[m]
      PROVE  \E index \in ctl'[m].received \cap Pairs(ctl'[m].route) :
                pair = PairAt(ctl'[m].route, index)
  BY <1>2, <1>3 DEF SameRound
<1>4. CASE Rests
  BY <1>3, <1>4 DEF Rests
<1>5. ASSUME NEW n \in Nodes, NEW next, Sends(n, next)
      PROVE  \E index \in ctl'[m].received \cap Pairs(ctl'[m].route) :
                pair = PairAt(ctl'[m].route, index)
  <2>1. /\ ctl'[n] = next /\ \A k \in Nodes \ {n} : ctl'[k] = ctl[k]
        /\ SameRound(ctl[n], next) /\ next.received = ctl[n].received
        /\ UNCHANGED <<view, published>>
    BY <1>5, OtherControllers DEF Sends
  <2>2. CASE m = n
    BY <1>2, <2>1, <2>2 DEF SameRound
  <2>3. CASE m # n
    BY <1>1, <1>3, <2>1, <2>3
  <2> QED BY <2>2, <2>3
<1>6. ASSUME NEW n \in Nodes, NEW next, Resets(n, next)
      PROVE  \E index \in ctl'[m].received \cap Pairs(ctl'[m].route) :
                pair = PairAt(ctl'[m].route, index)
  <2>1. /\ ctl'[n] = next /\ \A k \in Nodes \ {n} : ctl'[k] = ctl[k] /\ view'[k] = view[k]
        /\ next.st # "RunningRound" /\ UNCHANGED published
    BY <1>6, OtherControllers DEF Resets
  <2> QED BY <1>1, <1>3, <2>1
<1>7. ASSUME NEW n \in Nodes, NEW next, Publishes(n, next)
      PROVE  \E index \in ctl'[m].received \cap Pairs(ctl'[m].route) :
                pair = PairAt(ctl'[m].route, index)
  <2>1. /\ ctl'[n] = next /\ \A k \in Nodes \ {n} : ctl'[k] = ctl[k]
        /\ UNCHANGED view
    BY <1>7, OtherControllers DEF Publishes, Works
  <2>2. CASE m # n
    <3>1. published'[m] = published[m]
      BY <1>7, <2>2, PushedPairs
         DEF Publishes, PublishesNothing, PublishesResult, PublishesForward
    <3> QED BY <1>1, <1>3, <2>1, <2>2, <3>1
  <2>3. CASE m = n
    <3>1. /\ KeepsReceived(ctl[n], next) /\ RunsOnwards(ctl[n], next)
          /\ PublishesNothing(n) \/ PublishesResult(n) \/ PublishesForward(n)
      BY <1>7, <2>3 DEF Publishes
    <3>2. IsMaster(n) /\ view[n] \in Sessions /\ ctl[n].round \in Nat /\ next.round \in Nat
      <4>1. IsMaster(n)' /\ SessionsAreOpened'
        BY <1>1, <2>3, NextSessionsAreOpened DEF SessionsAreOpened
      <4>2. IsMaster(n)
        BY <2>1, <4>1 DEF IsMaster
      <4>3. next \in Controllers /\ ctl[n] \in Controllers
        BY <1>7, NodeFacts DEF Publishes, Works, HonestControllers
      <4> QED BY <4>2, <4>3, NodeFacts DEF Controllers
    <3>3. CASE PublishesNothing(n)
      <4>1. published'[m] = published[m]
        BY <3>3 DEF PublishesNothing
      <4>2. ~(next.round > ctl[n].round)
        <5>1. published[m].key \in Histories(m) /\ published[m].key.session = view[n]
              /\ published[m].key.round = next.round
          BY <2>1, <2>3, <4>1 DEF Histories
        <5>2. view[n] # NoSession /\ view[n][1] = n
          BY <3>2 DEF IsMaster
        <5>3. Opened(view[n], next.round)
          BY <5>1, <5>2 DEF HistoryBehindTraffic
        <5>4. next.round <= ctl[n].round
          BY <5>2, <5>3 DEF Opened
        <5> QED BY <3>2, <5>4
      <4>3. SameRound(ctl[n], next) /\ ctl[n].received \subseteq next.received
            /\ ctl[n].st = "RunningRound"
        BY <2>1, <2>3, <3>1, <4>2 DEF RunsOnwards, KeepsReceived, SameRound
      <4> QED BY <1>2, <2>1, <2>3, <4>1, <4>3
    <3>4. CASE PublishesResult(n)
      <4>1. PICK packet \in Elements(inbox[n]) :
              /\ packet \in MeasurementPackets /\ packet.type = "RangeMeasurement"
              /\ AcceptsMeasurement(n, packet) /\ PushMeasurement(n, packet)
              /\ SameRound(ctl[n], ctl'[n])
                 => ctl'[n].received = ctl[n].received \cup {packet.index}
        BY <3>4 DEF PublishesResult
      <4>2. /\ packet.index \in Pairs(ctl[n].route) /\ packet.round = ctl[n].round
            /\ <<packet.anchor, packet.tag>> = PairAt(ctl[n].route, packet.index)
        BY <4>1, ResultPlace
      <4>3. /\ published'[n].key = [session |-> packet.session, round |-> packet.round]
            /\ published'[n].pairs
                  = (IF published[n].key = published'[n].key
                     THEN published[n].pairs ELSE {})
                       \cup {<<packet.anchor, packet.tag>>}
        BY <2>3, <4>1, PushedPairs
      <4>4. next.round = ctl[n].round
        BY <2>1, <2>3, <4>2, <4>3
      <4>5. /\ SameRound(ctl[n], next) /\ ctl[n].st = "RunningRound"
            /\ next.received = ctl[n].received \cup {packet.index}
        <5>1. SameRound(ctl[n], next)
          BY <2>1, <2>3, <3>1, <3>2, <4>4 DEF RunsOnwards
        <5> QED BY <2>1, <2>3, <4>1, <5>1 DEF SameRound
      <4>6. CASE pair = <<packet.anchor, packet.tag>>
        BY <2>1, <2>3, <4>2, <4>5, <4>6 DEF SameRound
      <4>7. CASE pair \in published[n].pairs /\ published[n].key = published'[n].key
        BY <1>2, <2>1, <2>3, <4>5, <4>7
      <4> QED BY <2>3, <4>3, <4>6, <4>7
    <3>5. CASE PublishesForward(n)
      BY <3>2, <3>5 DEF PublishesForward
    <3> QED BY <3>1, <3>3, <3>4, <3>5
  <2> QED BY <2>2, <2>3
<1> QED BY <1>4, <1>5, <1>6, <1>7, PublishingKinds
-----------------------------------------------------------------------------
(* A result that a master takes is of a pair it has not published yet...   *)
LEMMA ResultIsNew ==
    ASSUME IInv, RoutesAreSnapshots, ResultsAreOfPlaces, PublishedIsReceived,
           NEW n \in Tags, NEW packet \in Elements(inbox[n]),
           packet \in MeasurementPackets, packet.type = "RangeMeasurement",
           AcceptsMeasurement(n, packet),
           published[n].key = [session |-> packet.session, round |-> packet.round]
    PROVE  <<packet.anchor, packet.tag>> \notin published[n].pairs
<1> SUFFICES ASSUME <<packet.anchor, packet.tag>> \in published[n].pairs PROVE FALSE
  OBVIOUS
<1> DEFINE route == ctl[n].route
<1>1. n \in Nodes
  BY DEF Nodes
<1>2. /\ packet.index \in Pairs(route) /\ packet.index \notin ctl[n].received
      /\ <<packet.anchor, packet.tag>> = PairAt(route, packet.index)
      /\ published[n].key = [session |-> view[n], round |-> ctl[n].round]
      /\ ctl[n].st = "RunningRound"
  BY <1>1, ResultPlace
<1>3. PICK index \in ctl[n].received \cap Pairs(route) :
         PairAt(route, packet.index) = PairAt(route, index)
  BY <1>2 DEF PublishedIsReceived
<1>4. route \in Snapshots
  <2>1. RouteClaim(view[n], ctl[n].round, route) \in RouteClaims
    BY <1>1, <1>2 DEF RouteClaims, InRound
  <2> QED BY <2>1 DEF RoutesAreSnapshots, RouteClaim
<1> HIDE DEF route
<1>5. /\ route.anchors \in Seq(Anchors) /\ route.tags \in Seq(Tags)
      /\ \A i, j \in DOMAIN route.tags : i < j => route.tags[i] < route.tags[j]
      /\ \A i, j \in DOMAIN route.anchors : route.anchors[i] = route.anchors[j] => i = j
  BY <1>4, SnapshotOrder
<1>6. ASSUME NEW i \in DOMAIN route.tags, NEW j \in DOMAIN route.tags,
             route.tags[i] = route.tags[j]
      PROVE  i = j
  <2> DEFINE tags == route.tags
  <2>1. tags \in Seq(Tags) /\ Tags \subseteq Nat
    BY <1>5, NodeAssumption
  <2> HIDE DEF tags
  <2>2. i \in DOMAIN tags /\ j \in DOMAIN tags
    BY <1>6 DEF tags
  <2>3. i \in Nat /\ j \in Nat /\ tags[i] \in Nat /\ tags[j] \in Nat
    BY <2>1, <2>2, PlaceInList
  <2>4. /\ i < j => tags[i] < tags[j]
        /\ j < i => tags[j] < tags[i]
        /\ tags[i] = tags[j]
    BY <1>5, <1>6 DEF tags
  <2> QED BY <2>3, <2>4
<1>7. \A k \in Pairs(route) : /\ k = <<k[1], k[2]>>
                              /\ k[1] \in DOMAIN route.anchors
                              /\ k[2] \in DOMAIN route.tags
  BY <1>5, LenProperties DEF Pairs
<1>8. packet.index = index
  <2> DEFINE k == packet.index
  <2>1. /\ k = <<k[1], k[2]>> /\ k[1] \in DOMAIN route.anchors /\ k[2] \in DOMAIN route.tags
        /\ index = <<index[1], index[2]>>
        /\ index[1] \in DOMAIN route.anchors /\ index[2] \in DOMAIN route.tags
    BY <1>2, <1>3, <1>7
  <2>2. /\ route.anchors[k[1]] = route.anchors[index[1]]
        /\ route.tags[k[2]] = route.tags[index[2]]
    BY <1>3 DEF PairAt
  <2> HIDE DEF k
  <2>3. k[1] = index[1] /\ k[2] = index[2]
    BY <1>5, <1>6, <2>1, <2>2
  <2>4. k = index
    BY <2>1, <2>3
  <2> QED BY <2>4 DEF k
<1> QED BY <1>2, <1>3, <1>8

(* ... nor has it forwarded it, or anybody published it.                   *)
LEMMA ResultIsUnclaimed ==
    ASSUME IInv, RoutesAreSnapshots, ResultsAreOfPlaces, PublishedIsReceived,
           MasterPublishedFirst, NEW n \in Tags, NEW packet \in Elements(inbox[n]),
           packet \in MeasurementPackets, packet.type = "RangeMeasurement",
           AcceptsMeasurement(n, packet)
    PROVE  PairOf(packet) \notin PairClaims
<1> SUFFICES ASSUME PairOf(packet) \in PairClaims PROVE FALSE
  OBVIOUS
<1> DEFINE c == PairOf(packet)
           key == [session |-> packet.session, round |-> packet.round]
<1>1. n \in Nodes
  BY DEF Nodes
<1>2. /\ packet.session = view[n] /\ packet.round = ctl[n].round
      /\ view[n][1] = n
  BY <1>1, ResultPlace DEF IsMaster
<1>3. /\ c.session = packet.session /\ c.round = packet.round
      /\ c.pair = <<packet.anchor, packet.tag>>
  BY DEF PairOf
<1>4. c \in PairClaims
  OBVIOUS
<1> HIDE DEF c
<1>5. LET m == c.session[1]
      IN  /\ view[m] = c.session /\ c.round = ctl[m].round
             => published[m].key = [session |-> c.session, round |-> c.round]
          /\ published[m].key = [session |-> c.session, round |-> c.round]
             => c.pair \in published[m].pairs
  BY <1>4 DEF MasterPublishedFirst
<1>6. published[n].key = key /\ <<packet.anchor, packet.tag>> \in published[n].pairs
  BY <1>2, <1>3, <1>5
<1> QED BY <1>6, ResultIsNew

(* Every forward names such a pair.                                        *)
LEMMA ForwardIsClaim ==
    ASSUME NEW p \in InFlight, IsForward(p)
    PROVE  PairOf(p) \in PairClaims
BY DEF PairClaims, IsForward, PairOf

(* So does every pair that a TAG has published of another's session.       *)
LEMMA FollowerIsClaim ==
    ASSUME IInv, NEW t \in Tags, NEW p, HasPublished(t, p),
           p.session \in Sessions, p.session[1] # t
    PROVE  PairOf(p) \in PairClaims
<1>1. /\ published[t].key.session = p.session /\ published[t].key.round = p.round
      /\ <<p.anchor, p.tag>> \in published[t].pairs
  BY DEF HasPublished
<1>2. p.session \in (Tags \ {t}) \X (1..MaxEpoch)
  BY DEF Sessions
<1> QED BY <1>1, <1>2, PublishedClaim DEF PairOf

-----------------------------------------------------------------------------
(* Twins in a queue.                                                       *)
LEMMA NoTwinsExtends ==
    ASSUME NEW queue \in Seq(HonestPackets), NEW longer,
           Extends(queue, NoForwards, longer)
    PROVE  /\ NoTwins(queue) => NoTwins(longer)
           /\ \A p \in Elements(longer) : IsForward(p) => p \in Elements(queue)
<1>1. PICK more \in Seq(NoForwards) : longer = queue \o more
  BY DEF Extends
<1>2. /\ Len(queue) \in Nat /\ Len(more) \in Nat
      /\ DOMAIN queue = 1..Len(queue) /\ DOMAIN more = 1..Len(more)
      /\ \A i \in 1..Len(more) : more[i] \in NoForwards
  BY <1>1, LenProperties, ElementOfSeq
<1>3. more \in Seq(HonestPackets)
  BY <1>1, SeqMonotonic DEF NoForwards
<1>4. /\ DOMAIN longer = 1..(Len(queue) + Len(more))
      /\ \A i \in 1..(Len(queue) + Len(more)) :
            longer[i] = IF i <= Len(queue) THEN queue[i] ELSE more[i - Len(queue)]
  BY <1>1, <1>3, ConcatProperties, LenProperties
<1>5. ASSUME NEW i \in DOMAIN longer, IsForward(longer[i])
      PROVE  i \in DOMAIN queue /\ longer[i] = queue[i]
  <2>1. CASE i <= Len(queue)
    BY <1>2, <1>4, <2>1
  <2>2. CASE ~(i <= Len(queue))
    <3>1. i - Len(queue) \in 1..Len(more)
      BY <1>2, <1>4, <2>2
    <3>2. longer[i] \in NoForwards
      BY <1>2, <1>4, <2>2, <3>1
    <3> QED BY <1>5, <3>2 DEF NoForwards
  <2> QED BY <2>1, <2>2
<1>6. NoTwins(queue) => NoTwins(longer)
  BY <1>5 DEF NoTwins, SamePair
<1>7. \A p \in Elements(longer) : IsForward(p) => p \in Elements(queue)
  BY <1>5 DEF Elements
<1> QED BY <1>6, <1>7

(* A packet without a twin in the queue adds none...                       *)
LEMMA NoTwinsAppend ==
    ASSUME NEW queue \in Seq(HonestPackets), NEW packet \in HonestPackets,
           NoTwins(queue), \A q \in Elements(queue) : ~SamePair(q, packet)
    PROVE  NoTwins(Append(queue, packet))
<1> DEFINE longer == Append(queue, packet)
<1>1. /\ Len(queue) \in Nat /\ DOMAIN queue = 1..Len(queue)
      /\ DOMAIN longer = 1..(Len(queue) + 1)
      /\ \A i \in 1..Len(queue) : longer[i] = queue[i]
      /\ longer[Len(queue) + 1] = packet
  BY AppendProperties, LenProperties
<1> HIDE DEF longer
<1>2. \A p, q : SamePair(p, q) => SamePair(q, p)
  BY DEF SamePair
<1>3. \A i \in 1..Len(queue) : ~SamePair(queue[i], packet) /\ ~SamePair(packet, queue[i])
  BY <1>1, <1>2 DEF Elements
<1>4. ASSUME NEW i \in DOMAIN longer, NEW j \in DOMAIN longer,
             SamePair(longer[i], longer[j])
      PROVE  i = j
  <2>1. /\ i \in 1..Len(queue) \/ i = Len(queue) + 1
        /\ j \in 1..Len(queue) \/ j = Len(queue) + 1
    BY <1>1
  <2> QED BY <1>1, <1>3, <1>4, <2>1 DEF NoTwins
<1>5. NoTwins(longer)
  BY <1>4 DEF NoTwins
<1> QED BY <1>5 DEF longer

(* ... and one without its head has no twin of the head.                   *)
LEMMA NoTwinsTail ==
    ASSUME NEW queue \in Seq(HonestPackets), queue # <<>>, NoTwins(queue)
    PROVE  /\ NoTwins(Tail(queue))
           /\ \A p \in Elements(Tail(queue)) : ~SamePair(Head(queue), p)
<1>1. /\ Len(queue) \in Nat /\ Len(queue) >= 1
      /\ DOMAIN queue = 1..Len(queue)
      /\ DOMAIN Tail(queue) = 1..(Len(queue) - 1)
      /\ \A i \in 1..(Len(queue) - 1) : Tail(queue)[i] = queue[i + 1]
      /\ Head(queue) = queue[1]
  BY HeadTailProperties, EmptySeq
<1>2. \A i \in 1..(Len(queue) - 1) : i + 1 \in 1..Len(queue) /\ i + 1 # 1
  BY <1>1
<1>3. 1 \in 1..Len(queue)
  BY <1>1
<1>4. \A i, j \in 1..(Len(queue) - 1) : i + 1 = j + 1 => i = j
  BY <1>1
<1>5. NoTwins(Tail(queue))
  BY <1>1, <1>2, <1>4 DEF NoTwins
<1>6. \A i \in 1..(Len(queue) - 1) : ~SamePair(queue[1], queue[i + 1])
  BY <1>1, <1>2, <1>3 DEF NoTwins
<1> QED BY <1>1, <1>5, <1>6 DEF Elements
-----------------------------------------------------------------------------
(* The forwards that a step adds: one at most, of a pair nobody has named.  *)
NewForwards(n, N) ==
    /\ \A p, q \in N : p = q
    /\ \A p \in N : /\ IsForward(p) /\ PairOf(p) \notin PairClaims
                    /\ p.session = view[n] /\ IsMaster(n)

(* What a step adds to the queue.                                          *)
LEMMA ForwardsStep ==
    ASSUME IInv, RoutesAreSnapshots, ResultsAreOfPlaces, PublishedIsReceived,
           MasterPublishedFirst, NEW n \in Nodes, NEW next, Publishes(n, next)
    PROVE  \E N : /\ NewForwards(n, N)
                  /\ \A p \in Elements(next.low) :
                        IsForward(p) => p \in Elements(ctl[n].low) \cup N
                  /\ NoTwins(ctl[n].low) => NoTwins(next.low)
<1>1. /\ ctl'[n] = next /\ ctl[n].low \in Seq(HonestPackets)
  BY OtherControllers, QueueTypes DEF Publishes, Works
<1>2. ASSUME Extends(ctl[n].low, NoForwards, next.low)
      PROVE  \E N : /\ NewForwards(n, N)
                    /\ \A p \in Elements(next.low) :
                          IsForward(p) => p \in Elements(ctl[n].low) \cup N
                    /\ NoTwins(ctl[n].low) => NoTwins(next.low)
  <2>1. NewForwards(n, {})
    BY DEF NewForwards
  <2> QED BY <1>1, <1>2, <2>1, NoTwinsExtends
<1>3. CASE PublishesNothing(n)
  BY <1>1, <1>2, <1>3 DEF PublishesNothing
<1>4. CASE PublishesForward(n)
  <2>1. Extends(ctl[n].low, NoForwards, next.low)
    BY <1>1, <1>4, ExtendsReflexive DEF PublishesForward
  <2> QED BY <1>2, <2>1
<1>5. CASE PublishesResult(n) /\ n \in Tags
  <2>1. PICK packet \in Elements(inbox[n]) :
          /\ packet \in MeasurementPackets /\ packet.type = "RangeMeasurement"
          /\ AcceptsMeasurement(n, packet)
          /\ \/ Extends(ctl[n].low, NoForwards, ctl'[n].low)
             \/ \E forward \in ForwardsOf(packet) :
                   Extends(Append(ctl[n].low, forward), NoForwards, ctl'[n].low)
    BY <1>5 DEF PublishesResult
  <2>2. CASE \E forward \in ForwardsOf(packet) :
                Extends(Append(ctl[n].low, forward), NoForwards, next.low)
    <3>1. PICK forward \in ForwardsOf(packet) :
             Extends(Append(ctl[n].low, forward), NoForwards, next.low)
      BY <2>2
    <3>2. /\ forward \in HonestPackets /\ IsForward(forward)
          /\ PairOf(forward) = PairOf(packet)
      BY DEF ForwardsOf
    <3>3. PairOf(packet) \notin PairClaims
      BY <1>5, <2>1, ResultIsUnclaimed
    <3>4. forward.session = view[n] /\ IsMaster(n)
      BY <2>1, <3>2, ResultPlace DEF PairOf
    <3> DEFINE N == {forward}
               queue == Append(ctl[n].low, forward)
    <3>5. NewForwards(n, N)
      BY <3>2, <3>3, <3>4 DEF NewForwards
    <3>6. queue \in Seq(HonestPackets) /\ Elements(queue) = Elements(ctl[n].low) \cup N
      <4>1. /\ Len(ctl[n].low) \in Nat /\ DOMAIN ctl[n].low = 1..Len(ctl[n].low)
            /\ DOMAIN queue = 1..(Len(ctl[n].low) + 1)
            /\ \A i \in 1..Len(ctl[n].low) : queue[i] = ctl[n].low[i]
            /\ queue[Len(ctl[n].low) + 1] = forward /\ queue \in Seq(HonestPackets)
        BY <1>1, <3>2, AppendProperties, LenProperties
      <4> HIDE DEF queue
      <4>2. 1..(Len(ctl[n].low) + 1) = 1..Len(ctl[n].low) \cup {Len(ctl[n].low) + 1}
        BY <4>1
      <4> QED BY <4>1, <4>2 DEF Elements
    <3>7. NoTwins(ctl[n].low) => NoTwins(queue)
      <4>1. \A q \in Elements(ctl[n].low) : q \in InFlight
        BY DEF InFlight, PacketsOf
      <4>2. \A q \in Elements(ctl[n].low) : ~SamePair(q, forward)
        BY <3>2, <3>3, <4>1, ForwardIsClaim DEF SamePair
      <4> QED BY <1>1, <3>2, <4>2, NoTwinsAppend
    <3> HIDE DEF N, queue
    <3>8. /\ NoTwins(queue) => NoTwins(next.low)
          /\ \A p \in Elements(next.low) : IsForward(p) => p \in Elements(queue)
      BY <3>1, <3>6, NoTwinsExtends DEF queue
    <3> QED BY <3>5, <3>6, <3>7, <3>8
  <2> QED BY <1>1, <1>2, <2>1, <2>2
<1> QED BY <1>3, <1>4, <1>5 DEF Publishes

(* Where the forwards in flight after a step come from.                    *)
LEMMA ForwardsInFlight ==
    ASSUME IInv, NEW n \in Nodes, NEW next, Publishes(n, next), NEW N,
           \A p \in Elements(next.low) : IsForward(p) => p \in Elements(ctl[n].low) \cup N
    PROVE  \A p \in InFlight' : IsForward(p) => p \in InFlight \cup N
<1>1. /\ ctl'[n] = next /\ \A m \in Nodes \ {n} : ctl'[m] = ctl[m]
      /\ \A m \in Nodes : Elements(inbox'[m]) \subseteq Elements(inbox[m])
  BY OtherControllers, ConsumeElements DEF Publishes, Works
<1>2. \A p \in Elements(next.high) : ~IsForward(p)
  <2>1. next.high \in Seq(ControlPackets)
    BY DEF Publishes, Works, HonestControllers, Controllers
  <2> QED BY <2>1 DEF Elements, ControlPackets, IsForward
<1>3. ASSUME NEW m \in Nodes, NEW p \in PacketsOf(m)', IsForward(p)
      PROVE  p \in PacketsOf(m) \cup N
  <2>1. CASE m = n
    BY <1>1, <1>2, <1>3, <2>1 DEF PacketsOf
  <2>2. CASE m # n
    BY <1>1, <1>3, <2>2 DEF PacketsOf
  <2> QED BY <2>1, <2>2
<1> QED BY <1>3 DEF InFlight

(* Hence forwards of the same pair are the same packet.                    *)
LEMMA NextForwardsAreTwins ==
    /\ IInv /\ RoutesAreSnapshots /\ ResultsAreOfPlaces /\ PublishedIsReceived
    /\ MasterPublishedFirst /\ ForwardsAreTwins /\ [Next]_vars
    => ForwardsAreTwins'
<1> SUFFICES ASSUME IInv, RoutesAreSnapshots, ResultsAreOfPlaces,
                    PublishedIsReceived, MasterPublishedFirst, ForwardsAreTwins,
                    [Next]_vars, NEW p \in InFlight', NEW q \in InFlight', SamePair(p, q)
             PROVE  p = q
  BY DEF ForwardsAreTwins
<1>1. IsForward(p) /\ IsForward(q) /\ PairOf(p) = PairOf(q)
  BY DEF SamePair
<1>2. CASE p \in InFlight /\ q \in InFlight
  BY <1>2 DEF ForwardsAreTwins
<1>3. CASE Rests
  BY <1>2, <1>3 DEF Rests, InFlight, PacketsOf
<1>4. ASSUME NEW n \in Nodes, NEW next, Sends(n, next) \/ Resets(n, next)
      PROVE  p = q
  BY <1>2, <1>4, SendInFlight, ResetInFlight
<1>5. ASSUME NEW n \in Nodes, NEW next, Publishes(n, next)
      PROVE  p = q
  <2>1. PICK N : /\ NewForwards(n, N)
                 /\ \A r \in Elements(next.low) :
                       IsForward(r) => r \in Elements(ctl[n].low) \cup N
    BY <1>5, ForwardsStep
  <2>2. p \in InFlight \cup N /\ q \in InFlight \cup N
    BY <1>1, <1>5, <2>1, ForwardsInFlight
  <2>3. \A r \in InFlight, x \in N : PairOf(r) = PairOf(x) => ~IsForward(r)
    BY <2>1, ForwardIsClaim DEF NewForwards
  <2> QED BY <1>1, <1>2, <2>1, <2>2, <2>3 DEF NewForwards
<1> QED BY <1>3, <1>4, <1>5, PublishingKinds

(* What has been published at a step that was not before.                  *)
LEMMA NewlyPublished ==
    ASSUME IInv, NEW n \in Nodes, NEW next, Publishes(n, next),
           NEW t \in Tags, NEW p, HasPublished(t, p)', ~HasPublished(t, p)
    PROVE  /\ t = n
           /\ \/ p.session = view[n] /\ IsMaster(n)
              \/ PublishesForward(n) /\ PairOf(p) = PairOf(Head(inbox[n]))
<1>1. published'[t] # published[t]
  BY DEF HasPublished
<1>2. ASSUME NEW packet, PushMeasurement(n, packet), n \in Tags
      PROVE  t = n /\ PairOf(p) = PairOf(packet)
  <2>1. t = n
    <3>1. \A u \in Tags \ {n} : published'[u] = published[u]
      BY <1>2, PushedPairs
    <3> QED BY <1>1, <3>1
  <2>2. LET key == [session |-> packet.session, round |-> packet.round]
        IN  /\ published'[t].key = key
            /\ published'[t].pairs = (IF published[t].key = key
                                      THEN published[t].pairs ELSE {})
                                        \cup {<<packet.anchor, packet.tag>>}
    BY <1>2, <2>1, PushedPairs
  <2>3. /\ published'[t].key = [session |-> p.session, round |-> p.round]
        /\ <<p.anchor, p.tag>> \in published'[t].pairs
        /\ ~(/\ published[t].key = [session |-> p.session, round |-> p.round]
             /\ <<p.anchor, p.tag>> \in published[t].pairs)
    BY DEF HasPublished
  <2>4. <<p.anchor, p.tag>> = <<packet.anchor, packet.tag>>
    BY <2>2, <2>3
  <2>5. p.session = packet.session /\ p.round = packet.round
    BY <2>2, <2>3
  <2> QED BY <2>1, <2>4, <2>5 DEF PairOf
<1>3. CASE PublishesNothing(n)
  BY <1>1, <1>3 DEF PublishesNothing
<1>4. CASE n \in Tags /\ PublishesResult(n)
  <2>1. PICK packet \in Elements(inbox[n]) :
           AcceptsMeasurement(n, packet) /\ PushMeasurement(n, packet)
    BY <1>4 DEF PublishesResult
  <2>2. t = n /\ PairOf(p) = PairOf(packet)
    BY <1>2, <1>4, <2>1
  <2>3. packet.session = view[n] /\ IsMaster(n)
    BY <2>1 DEF AcceptsMeasurement
  <2> QED BY <2>2, <2>3 DEF PairOf
<1>5. CASE n \in Tags /\ PublishesForward(n)
  BY <1>2, <1>5 DEF PublishesForward
<1> QED BY <1>3, <1>4, <1>5 DEF Publishes

(* A forward that the radio takes leaves the queue.                        *)
LEMMA QueuedOnceSends ==
    ASSUME IInv, TrafficInOrder, QueuedOnce, NEW n \in Nodes, NEW next, Sends(n, next)
    PROVE  QueuedOnce'
<1>1. /\ ctl'[n] = next /\ \A m \in Nodes \ {n} : ctl'[m] = ctl[m]
      /\ UNCHANGED published
  BY OtherControllers DEF Sends
<1>2. PICK packet \in HonestPackets :
          /\ \/ /\ ctl[n].high # <<>> /\ packet = Head(ctl[n].high)
                /\ next.high = Tail(ctl[n].high) /\ next.low = ctl[n].low
             \/ /\ ctl[n].low # <<>> /\ packet = Head(ctl[n].low)
                /\ next.high = ctl[n].high /\ next.low = Tail(ctl[n].low)
          /\ packet.dst \in Nodes
          /\ Extends(inbox[packet.dst], {packet}, inbox'[packet.dst])
          /\ \A m \in Nodes \ {packet.dst} : inbox'[m] = inbox[m]
  BY DEF Sends
<1>3. \A m \in Nodes : Elements(inbox'[m]) \subseteq Elements(inbox[m]) \cup {packet}
  <2>1. Elements(inbox'[packet.dst]) \subseteq Elements(inbox[packet.dst]) \cup {packet}
    BY <1>2, QueueTypes, ExtendsElements
  <2> QED BY <1>2, <2>1
<1>4. ctl[n].low \in Seq(HonestPackets) /\ ctl[n].high \in Seq(ControlPackets)
  BY QueueTypes, NodeFacts DEF Controllers
<1>5. IsForward(packet) => /\ ctl[n].low # <<>> /\ packet = Head(ctl[n].low)
                           /\ next.low = Tail(ctl[n].low)
  <2>1. CASE ctl[n].high # <<>> /\ packet = Head(ctl[n].high)
    <3>1. packet \in ControlPackets
      BY <1>4, <2>1, HeadTailProperties
    <3> QED BY <3>1 DEF ControlPackets, IsForward
  <2> QED BY <1>2, <2>1
<1> SUFFICES ASSUME NEW m \in Nodes
             PROVE  /\ NoTwins(ctl'[m].low)
                    /\ \A p \in Elements(ctl'[m].low) : IsForward(p) =>
                          /\ \A t \in Nodes : p \notin Elements(inbox'[t])
                          /\ \A t \in Tags \ {m} : ~HasPublished(t, p)'
  BY DEF QueuedOnce
<1>6. /\ NoTwins(ctl[m].low)
      /\ \A p \in Elements(ctl[m].low) : IsForward(p) =>
            /\ \A t \in Nodes : p \notin Elements(inbox[t])
            /\ \A t \in Tags \ {m} : ~HasPublished(t, p)
  BY DEF QueuedOnce
<1>7. ASSUME NEW p \in Elements(ctl[m].low), IsForward(p), p # packet
      PROVE  /\ \A t \in Nodes : p \notin Elements(inbox'[t])
             /\ \A t \in Tags \ {m} : ~HasPublished(t, p)'
  BY <1>1, <1>3, <1>6, <1>7 DEF HasPublished
<1>8. CASE m # n
  <2>1. ctl'[m] = ctl[m]
    BY <1>1, <1>8
  <2>2. ASSUME NEW p \in Elements(ctl[m].low), IsForward(p) PROVE p # packet
    <3> SUFFICES ASSUME p = packet PROVE FALSE
      OBVIOUS
    <3>1. packet \in Elements(ctl[n].low)
      BY <1>4, <1>5, <2>2, TailElements
    <3>2. p.session[1] = m /\ p.session[1] = n
      BY <2>2, <3>1 DEF TrafficInOrder, IsForward
    <3> QED BY <1>8, <3>2
  <2> QED BY <1>6, <1>7, <2>1, <2>2
<1>9. CASE m = n
  <2>1. CASE ~IsForward(packet)
    <3>1. NoTwins(next.low) /\ Elements(next.low) \subseteq Elements(ctl[n].low)
      BY <1>2, <1>4, <1>6, <1>9, NoTwinsTail, TailElements
    <3> QED BY <1>1, <1>7, <1>9, <2>1, <3>1
  <2>2. CASE IsForward(packet)
    <3>1. /\ NoTwins(next.low) /\ Elements(next.low) \subseteq Elements(ctl[n].low)
          /\ \A p \in Elements(next.low) : ~SamePair(packet, p)
      BY <1>4, <1>5, <1>6, <1>9, <2>2, NoTwinsTail, TailElements
    <3>2. packet \notin Elements(next.low)
      BY <2>2, <3>1 DEF SamePair
    <3> QED BY <1>1, <1>7, <1>9, <3>1, <3>2
  <2> QED BY <2>1, <2>2
<1> QED BY <1>8, <1>9

(* A new forward has been received and published nowhere.                  *)
LEMMA QueuedOncePublishes ==
    ASSUME IInv, RoutesAreSnapshots, ResultsAreOfPlaces, PublishedIsReceived,
           MasterPublishedFirst, TrafficInOrder, ForwardsAreTwins, QueuedOnce,
           NEW n \in Nodes, NEW next, Publishes(n, next)
    PROVE  QueuedOnce'
<1>1. /\ ctl'[n] = next /\ \A m \in Nodes \ {n} : ctl'[m] = ctl[m]
      /\ \A m \in Nodes : Elements(inbox'[m]) \subseteq Elements(inbox[m])
  BY OtherControllers, ConsumeElements DEF Publishes, Works
<1>2. PICK N : /\ NewForwards(n, N)
               /\ \A p \in Elements(next.low) :
                     IsForward(p) => p \in Elements(ctl[n].low) \cup N
               /\ NoTwins(ctl[n].low) => NoTwins(next.low)
  BY ForwardsStep
<1> SUFFICES ASSUME NEW m \in Nodes
             PROVE  /\ NoTwins(ctl'[m].low)
                    /\ \A p \in Elements(ctl'[m].low) : IsForward(p) =>
                          /\ \A t \in Nodes : p \notin Elements(inbox'[t])
                          /\ \A t \in Tags \ {m} : ~HasPublished(t, p)'
  BY DEF QueuedOnce
<1>3. /\ NoTwins(ctl[m].low)
      /\ \A p \in Elements(ctl[m].low) : IsForward(p) =>
            /\ \A t \in Nodes : p \notin Elements(inbox[t])
            /\ \A t \in Tags \ {m} : ~HasPublished(t, p)
  BY DEF QueuedOnce
<1>4. NoTwins(ctl'[m].low)
  BY <1>1, <1>2, <1>3
<1>5. ASSUME NEW p \in Elements(ctl[m].low), IsForward(p)
      PROVE  /\ \A t \in Nodes : p \notin Elements(inbox'[t])
             /\ \A t \in Tags \ {m} : ~HasPublished(t, p)'
  <2>1. ASSUME NEW t \in Tags \ {m}, HasPublished(t, p)' PROVE FALSE
    <3>1. ~HasPublished(t, p)
      BY <1>3, <1>5
    <3>2. /\ t = n
          /\ \/ p.session = view[n] /\ IsMaster(n)
             \/ PublishesForward(n) /\ PairOf(p) = PairOf(Head(inbox[n]))
      BY <2>1, <3>1, NewlyPublished
    <3>3. p.session[1] = m
      BY <1>5 DEF TrafficInOrder, IsForward
    <3>4. CASE p.session = view[n] /\ IsMaster(n)
      BY <3>2, <3>3, <3>4 DEF IsMaster
    <3>5. CASE PublishesForward(n) /\ PairOf(p) = PairOf(Head(inbox[n]))
      <4> DEFINE packet == Head(inbox[n])
      <4>1. inbox[n] # <<>> /\ IsForward(packet)
        BY <3>5 DEF PublishesForward
      <4>2. packet \in Elements(inbox[n])
        BY <4>1, QueueTypes, TailElements
      <4>3. SamePair(p, packet)
        BY <1>5, <3>5, <4>1 DEF SamePair
      <4> HIDE DEF packet
      <4>4. p \in InFlight /\ packet \in InFlight
        BY <4>2 DEF InFlight, PacketsOf
      <4>5. p = packet
        BY <4>3, <4>4 DEF ForwardsAreTwins
      <4> QED BY <1>3, <1>5, <4>2, <4>5
    <3> QED BY <3>2, <3>4, <3>5
  <2> QED BY <1>1, <1>3, <1>5, <2>1
<1>6. ASSUME NEW p \in N, IsForward(p), m = n
      PROVE  /\ \A t \in Nodes : p \notin Elements(inbox'[t])
             /\ \A t \in Tags \ {m} : ~HasPublished(t, p)'
  <2>1. PairOf(p) \notin PairClaims /\ p.session = view[n] /\ IsMaster(n)
    BY <1>2 DEF NewForwards
  <2>2. ASSUME NEW t \in Nodes, p \in Elements(inbox[t]) PROVE FALSE
    <3>1. p \in InFlight
      BY <2>2 DEF InFlight, PacketsOf
    <3> QED BY <1>6, <2>1, <3>1, ForwardIsClaim
  <2>3. ASSUME NEW t \in Tags \ {m}, HasPublished(t, p)' PROVE FALSE
    <3>1. CASE HasPublished(t, p)
      <4>1. p.session \in Sessions /\ p.session[1] # t
        BY <1>6, <2>1, <2>3, NodeFacts DEF IsMaster
      <4> QED BY <2>1, <3>1, <4>1, FollowerIsClaim
    <3>2. CASE ~HasPublished(t, p)
      BY <1>6, <2>3, <3>2, NewlyPublished
    <3> QED BY <3>1, <3>2
  <2> QED BY <1>1, <2>2, <2>3
<1>7. ASSUME NEW p \in Elements(ctl'[m].low), IsForward(p)
      PROVE  p \in Elements(ctl[m].low) \/ (p \in N /\ m = n)
  BY <1>1, <1>2, <1>7
<1> QED BY <1>4, <1>5, <1>6, <1>7

(* The induction step.                                                     *)
LEMMA NextQueuedOnce ==
    /\ IInv /\ RoutesAreSnapshots /\ ResultsAreOfPlaces /\ PublishedIsReceived
    /\ MasterPublishedFirst /\ TrafficInOrder /\ ForwardsAreTwins /\ QueuedOnce
    /\ [Next]_vars
    => QueuedOnce'
<1> SUFFICES ASSUME IInv, RoutesAreSnapshots, ResultsAreOfPlaces,
                    PublishedIsReceived, MasterPublishedFirst, TrafficInOrder,
                    ForwardsAreTwins, QueuedOnce, [Next]_vars
             PROVE  QueuedOnce'
  OBVIOUS
<1>1. CASE Rests
  BY <1>1 DEF Rests, QueuedOnce, HasPublished
<1>2. ASSUME NEW n \in Nodes, NEW next, Resets(n, next) PROVE QueuedOnce'
  <2>1. /\ ctl'[n] = next /\ \A m \in Nodes \ {n} : ctl'[m] = ctl[m]
        /\ next.low = <<>> /\ UNCHANGED published
        /\ \A m \in Nodes : inbox'[m] \in {inbox[m], <<>>}
    BY <1>2, OtherControllers DEF Resets
  <2>2. Elements(<<>>) = {} /\ NoTwins(<<>>)
    BY DEF Elements, NoTwins
  <2>3. \A m \in Nodes : Elements(inbox'[m]) \subseteq Elements(inbox[m])
    BY <2>1, <2>2
  <2>4. \A t, p : HasPublished(t, p)' = HasPublished(t, p)
    BY <2>1 DEF HasPublished
  <2>5. \A m \in Nodes : ctl'[m].low \in {ctl[m].low, <<>>}
    BY <2>1
  <2> QED BY <2>2, <2>3, <2>4, <2>5 DEF QueuedOnce
<1> QED BY <1>1, <1>2, QueuedOnceSends, QueuedOncePublishes, PublishingKinds

(* A follower that refuses a forward goes on refusing it.                  *)
LEMMA RefusesOnwards ==
    ASSUME NEW t, NEW p, p.round \in Nat, WillRefuse(t, p), view'[t] = view[t],
           ctl[t].round \in Nat, ctl'[t].round \in Nat, KeepsReceived(ctl[t], ctl'[t])
    PROVE  WillRefuse(t, p)'
<1>1. ctl'[t].round >= ctl[t].round
      /\ (ctl'[t].round = ctl[t].round => ctl[t].received \subseteq ctl'[t].received)
  BY DEF KeepsReceived
<1>2. CASE p.session[2] < view[t][2]
  BY <1>2 DEF WillRefuse
<1>3. CASE view[t] = p.session /\ p.round < ctl[t].round
  <2>1. p.round < ctl'[t].round
    BY <1>1, <1>3
  <2> QED BY <1>3, <2>1 DEF WillRefuse
<1>4. CASE /\ view[t] = p.session /\ p.round = ctl[t].round
           /\ p.index \in ctl[t].received
  <2>1. \/ p.round < ctl'[t].round
        \/ p.round = ctl'[t].round /\ p.index \in ctl'[t].received
    BY <1>1, <1>4
  <2> QED BY <1>4, <2>1 DEF WillRefuse
<1> QED BY <1>2, <1>3, <1>4 DEF WillRefuse

(* A forward that arrives is new to its follower...                        *)
LEMMA ForwardsAreNewSends ==
    ASSUME IInv, ForwardsAreTwins, TrafficInOrder, QueuedOnce, ForwardsAreNew,
           NEW n \in Nodes, NEW next, Sends(n, next)
    PROVE  ForwardsAreNew'
<1>1. /\ ctl'[n] = next /\ \A m \in Nodes \ {n} : ctl'[m] = ctl[m]
      /\ next.round = ctl[n].round /\ next.received = ctl[n].received
      /\ UNCHANGED <<view, published>>
  BY OtherControllers DEF Sends, SameRound
<1>2. PICK packet \in HonestPackets :
          /\ \/ /\ ctl[n].high # <<>> /\ packet = Head(ctl[n].high)
                /\ next.high = Tail(ctl[n].high) /\ next.low = ctl[n].low
             \/ /\ ctl[n].low # <<>> /\ packet = Head(ctl[n].low)
                /\ next.high = ctl[n].high /\ next.low = Tail(ctl[n].low)
          /\ packet.dst \in Nodes
          /\ Extends(inbox[packet.dst], {packet}, inbox'[packet.dst])
          /\ ArrivesOnce(packet)
          /\ \A m \in Nodes \ {packet.dst} : inbox'[m] = inbox[m]
  BY DEF Sends
<1>3. \A m \in Nodes : Elements(inbox'[m]) \subseteq Elements(inbox[m]) \cup {packet}
  <2>1. Elements(inbox'[packet.dst]) \subseteq Elements(inbox[packet.dst]) \cup {packet}
    BY <1>2, QueueTypes, ExtendsElements
  <2> QED BY <1>2, <2>1
<1>4. IsForward(packet) => packet \in Elements(ctl[n].low)
  <2>1. ctl[n].low \in Seq(HonestPackets) /\ ctl[n].high \in Seq(ControlPackets)
    BY QueueTypes, NodeFacts DEF Controllers
  <2>2. CASE ctl[n].high # <<>> /\ packet = Head(ctl[n].high)
    <3>1. packet \in ControlPackets
      BY <2>1, <2>2, HeadTailProperties
    <3> QED BY <3>1 DEF ControlPackets, IsForward
  <2> QED BY <1>2, <2>1, <2>2, TailElements
<1>5. IsForward(packet) => /\ \A t \in Nodes : packet \notin Elements(inbox[t])
                           /\ \A t \in Tags \ {n} : ~HasPublished(t, packet)
                           /\ packet.session[1] = n
  BY <1>4 DEF QueuedOnce, TrafficInOrder, IsForward
<1> SUFFICES ASSUME NEW t \in Tags
             PROVE  /\ "duplicate" \notin Faults => NoTwins(inbox'[t])
                    /\ \A p \in Elements(inbox'[t]) :
                          IsForward(p) /\ p.session[1] # t /\ HasPublished(t, p)' =>
                             "duplicate" \in Faults /\ WillRefuse(t, p)'
  BY DEF ForwardsAreNew
<1>6. t \in Nodes
  BY DEF Nodes
<1>7. /\ "duplicate" \notin Faults => NoTwins(inbox[t])
      /\ \A p \in Elements(inbox[t]) :
            IsForward(p) /\ p.session[1] # t /\ HasPublished(t, p) =>
               "duplicate" \in Faults /\ WillRefuse(t, p)
  BY DEF ForwardsAreNew
<1>8. ASSUME "duplicate" \notin Faults PROVE NoTwins(inbox'[t])
  <2>1. CASE inbox'[t] = inbox[t]
    BY <1>7, <1>8, <2>1
  <2>2. CASE inbox'[t] # inbox[t]
    <3>1. t = packet.dst /\ inbox'[t] = Append(inbox[t], packet)
      BY <1>2, <1>6, <1>8, <2>2 DEF ArrivesOnce
    <3>2. ASSUME NEW q \in Elements(inbox[t]), SamePair(q, packet) PROVE FALSE
      <4>1. IsForward(packet)
        BY <3>2 DEF SamePair
      <4>2. q \in InFlight /\ packet \in InFlight
        BY <1>4, <1>6, <4>1 DEF InFlight, PacketsOf
      <4>3. q = packet
        BY <3>2, <4>2 DEF ForwardsAreTwins
      <4> QED BY <1>5, <1>6, <4>1, <4>3
    <3>3. inbox[t] \in Seq(HonestPackets)
      BY <1>6, QueueTypes
    <3> QED BY <1>7, <1>8, <3>1, <3>2, <3>3, NoTwinsAppend
  <2> QED BY <2>1, <2>2
<1>9. ASSUME NEW p \in Elements(inbox'[t]), IsForward(p), p.session[1] # t,
             HasPublished(t, p)'
      PROVE  "duplicate" \in Faults /\ WillRefuse(t, p)'
  <2>1. HasPublished(t, p)
    BY <1>1, <1>9 DEF HasPublished
  <2>2. p \in Elements(inbox[t])
    <3>1. CASE p = packet
      BY <1>5, <1>9, <2>1, <3>1
    <3> QED BY <1>3, <1>6, <1>9, <3>1
  <2>3. "duplicate" \in Faults /\ WillRefuse(t, p)
    BY <1>7, <1>9, <2>1, <2>2
  <2>4. ctl'[t].round = ctl[t].round /\ ctl'[t].received = ctl[t].received
    BY <1>1, <1>6
  <2> QED BY <1>1, <2>3, <2>4 DEF WillRefuse
<1> QED BY <1>8, <1>9

(* ... which refuses it once it has published it.                          *)
LEMMA ForwardsAreNewPublishes ==
    ASSUME IInv, ForwardsAreTwins, ForwardsAreNew,
           NEW n \in Nodes, NEW next, Publishes(n, next)
    PROVE  ForwardsAreNew'
<1>1. /\ ctl'[n] = next /\ \A m \in Nodes \ {n} : ctl'[m] = ctl[m]
      /\ \A m \in Nodes : Elements(inbox'[m]) \subseteq Elements(inbox[m])
      /\ UNCHANGED view
  BY OtherControllers, ConsumeElements DEF Publishes, Works
<1>2. \A m \in Nodes : inbox'[m] = inbox[m] \/ (inbox[m] # <<>> /\ inbox'[m] = Tail(inbox[m]))
  <2>1. inbox \in [Nodes -> Seq(HonestPackets)]
    BY HonestInbox
  <2> QED BY <2>1 DEF Publishes, Works, Consume
<1> SUFFICES ASSUME NEW t \in Tags
             PROVE  /\ "duplicate" \notin Faults => NoTwins(inbox'[t])
                    /\ \A p \in Elements(inbox'[t]) :
                          IsForward(p) /\ p.session[1] # t /\ HasPublished(t, p)' =>
                             "duplicate" \in Faults /\ WillRefuse(t, p)'
  BY DEF ForwardsAreNew
<1>3. t \in Nodes /\ inbox[t] \in Seq(HonestPackets)
  BY QueueTypes DEF Nodes
<1>4. /\ "duplicate" \notin Faults => NoTwins(inbox[t])
      /\ \A p \in Elements(inbox[t]) :
            IsForward(p) /\ p.session[1] # t /\ HasPublished(t, p) =>
               "duplicate" \in Faults /\ WillRefuse(t, p)
  BY DEF ForwardsAreNew
<1>5. "duplicate" \notin Faults => NoTwins(inbox'[t])
  BY <1>2, <1>3, <1>4, NoTwinsTail
<1>6. ASSUME NEW p \in Elements(inbox'[t]), IsForward(p), p.session[1] # t,
             HasPublished(t, p)'
      PROVE  "duplicate" \in Faults /\ WillRefuse(t, p)'
  <2>1. p \in Elements(inbox[t])
    BY <1>1, <1>3, <1>6
  <2>2. p \in HonestPackets /\ p.round \in Nat /\ p \in InFlight
    <3>1. p \in InFlight
      BY <1>3, <2>1 DEF InFlight, PacketsOf
    <3>2. p \in HonestPackets
      BY <3>1, InFlightType
    <3> QED BY <1>6, <3>1, <3>2, PacketKinds DEF IsForward, MeasurementPackets
  <2>3. CASE HasPublished(t, p)
    <3>1. "duplicate" \in Faults /\ WillRefuse(t, p)
      BY <1>4, <1>6, <2>1, <2>3
    <3>2. CASE t # n
      <4>1. ctl'[t] = ctl[t]
        BY <1>1, <1>3, <3>2
      <4> QED BY <1>1, <3>1, <4>1 DEF WillRefuse
    <3>3. CASE t = n
      <4>1. KeepsReceived(ctl[t], ctl'[t])
        BY <1>1, <3>3 DEF Publishes
      <4>2. next \in Controllers /\ ctl[n] \in Controllers
        BY NodeFacts DEF Publishes, Works, HonestControllers
      <4>3. ctl[t].round \in Nat /\ ctl'[t].round \in Nat
        BY <1>1, <3>3, <4>2 DEF Controllers
      <4> QED BY <1>1, <2>2, <3>1, <4>1, <4>3, RefusesOnwards
    <3> QED BY <3>2, <3>3
  <2>4. CASE ~HasPublished(t, p)
    <3>1. /\ t = n
          /\ \/ p.session = view[n] /\ IsMaster(n)
             \/ PublishesForward(n) /\ PairOf(p) = PairOf(Head(inbox[n]))
      BY <1>6, <2>4, NewlyPublished
    <3>2. ~(p.session = view[n] /\ IsMaster(n))
      BY <1>6, <3>1 DEF IsMaster
    <3> DEFINE packet == Head(inbox[n])
    <3>3. /\ inbox[n] # <<>> /\ IsForward(packet) /\ Consume(n)
          /\ view[n] \in Sessions /\ packet.session = view[n]
          /\ ctl'[n].round = packet.round /\ packet.index \in ctl'[n].received
      BY <3>1, <3>2 DEF PublishesForward
    <3>4. packet \in Elements(inbox[n]) /\ inbox'[n] = Tail(inbox[n])
      <4>1. inbox \in [Nodes -> Seq(HonestPackets)]
        BY HonestInbox
      <4> QED BY <1>3, <3>1, <3>3, <4>1, TailElements DEF Consume
    <3>5. SamePair(p, packet) /\ SamePair(packet, p)
      BY <1>6, <3>1, <3>2, <3>3 DEF SamePair
    <3>6. "duplicate" \in Faults
      <4>1. ASSUME "duplicate" \notin Faults PROVE FALSE
        <5>1. NoTwins(inbox[n]) /\ p \in Elements(Tail(inbox[n]))
          BY <1>4, <1>6, <3>1, <3>4, <4>1
        <5> QED BY <1>3, <3>1, <3>3, <3>5, <5>1, NoTwinsTail
      <4> QED BY <4>1
    <3> HIDE DEF packet
    <3>7. p = packet
      <4>1. packet \in InFlight
        BY <3>4 DEF InFlight, PacketsOf
      <4> QED BY <2>2, <3>5, <4>1 DEF ForwardsAreTwins
    <3>8. view'[n] = p.session /\ view'[n] # NoSession
      BY <1>1, <3>3, <3>7, NodeAssumption
    <3>9. WillRefuse(t, p)'
      BY <3>1, <3>3, <3>7, <3>8 DEF WillRefuse
    <3> QED BY <3>6, <3>9
  <2> QED BY <2>3, <2>4
<1> QED BY <1>5, <1>6

(* A follower that enters another session enters a later one, or has not   *)
(* published what is repeated, or finds its receive queue empty.           *)
LEMMA ForwardsAreNewResets ==
    ASSUME RepeatsAreRemembered, IInv, SessionsAreOpened, OnlyMastersOpen,
           ForwardsAreNew, NEW n \in Nodes, NEW next, Resets(n, next)
    PROVE  ForwardsAreNew'
<1>1. /\ ctl'[n] = next /\ \A m \in Nodes \ {n} : ctl'[m] = ctl[m] /\ view'[m] = view[m]
      /\ \A m \in Nodes : inbox'[m] \in {inbox[m], <<>>}
      /\ UNCHANGED published
  BY OtherControllers DEF Resets
<1>2. Elements(<<>>) = {} /\ NoTwins(<<>>)
  BY DEF Elements, NoTwins
<1> SUFFICES ASSUME NEW t \in Tags
             PROVE  /\ "duplicate" \notin Faults => NoTwins(inbox'[t])
                    /\ \A p \in Elements(inbox'[t]) :
                          IsForward(p) /\ p.session[1] # t /\ HasPublished(t, p)' =>
                             "duplicate" \in Faults /\ WillRefuse(t, p)'
  BY DEF ForwardsAreNew
<1>3. t \in Nodes
  BY DEF Nodes
<1>4. /\ "duplicate" \notin Faults => NoTwins(inbox[t])
      /\ \A p \in Elements(inbox[t]) :
            IsForward(p) /\ p.session[1] # t /\ HasPublished(t, p) =>
               "duplicate" \in Faults /\ WillRefuse(t, p)
  BY DEF ForwardsAreNew
<1>5. "duplicate" \notin Faults => NoTwins(inbox'[t])
  BY <1>1, <1>2, <1>3, <1>4
<1>6. ASSUME NEW p \in Elements(inbox'[t]), IsForward(p), p.session[1] # t,
             HasPublished(t, p)'
      PROVE  "duplicate" \in Faults /\ WillRefuse(t, p)'
  <2>1. inbox'[t] # <<>> /\ p \in Elements(inbox[t]) /\ HasPublished(t, p)
    BY <1>1, <1>2, <1>3, <1>6 DEF HasPublished
  <2>2. "duplicate" \in Faults /\ WillRefuse(t, p)
    BY <1>4, <1>6, <2>1
  <2>3. CASE t # n
    <3>1. ctl'[t] = ctl[t] /\ view'[t] = view[t]
      BY <1>1, <1>3, <2>3
    <3> QED BY <2>2, <3>1 DEF WillRefuse
  <2>4. CASE t = n
    <3>1. OneMaster /\ "masterLost" \notin Faults
      BY <2>2 DEF RepeatsAreRemembered
    <3>2. view'[n] # view[n] /\ view'[n] # NoSession
      BY <2>1, <2>4, <3>1 DEF Resets, LeavesSession
    <3>3. view[n] # NoSession /\ (p.session[2] < view[n][2] \/ view[n] = p.session)
      BY <2>2, <2>4 DEF WillRefuse
    <3>4. view[n] \in Sessions /\ view[n][2] <= epoch[view[n][1]]
          /\ view[n][1] \in Tags /\ view[n][2] \in Nat
      BY <3>3, NodeFacts DEF SessionsAreOpened, Sessions
    <3>5. p.session \in Sessions /\ p.session[2] \in Nat
      <4>1. p \in InFlight
        BY <1>3, <2>1 DEF InFlight, PacketsOf
      <4>2. p \in MeasurementPackets
        BY <1>6, <4>1, InFlightType, PacketKinds DEF IsForward
      <4> QED BY <4>2 DEF MeasurementPackets, Sessions
    <3>6. view'[n][2] \in Nat /\ view[n][2] < view'[n][2]
      <4>1. CASE view'[n] \in Announced(n)
        BY <3>1, <3>3, <4>1, LaterSession
      <4>2. CASE n \in MasterTags /\ n \in Tags /\ view'[n] = <<n, epoch[n] + 1>>
        <5>1. epoch \in [Tags -> Nat]
          BY BoundAssumption DEF IInv, TypeOK
        <5>2. view[n][1] = n
          <6>1. epoch[view[n][1]] > 0
            <7>1. view[n][2] > 0
              BY <3>4 DEF Sessions
            <7> QED BY <3>4, <5>1, <7>1
          <6>2. view[n][1] \in MasterTags
            BY <3>4, <6>1 DEF OnlyMastersOpen
          <6> QED BY <3>1, <4>2, <6>2 DEF OneMaster
        <5>3. epoch[n] \in Nat /\ view[n][2] <= epoch[n]
          BY <3>4, <4>2, <5>1, <5>2
        <5> QED BY <3>4, <4>2, <5>3
      <4> QED BY <3>2, <4>1, <4>2 DEF Resets
    <3>7. p.session[2] < view'[n][2]
      BY <3>3, <3>4, <3>5, <3>6
    <3> QED BY <2>2, <2>4, <3>2, <3>7 DEF WillRefuse
  <2> QED BY <2>3, <2>4
<1> QED BY <1>5, <1>6

(* The induction step.                                                     *)
LEMMA NextForwardsAreNew ==
    ASSUME RepeatsAreRemembered
    PROVE  /\ IInv /\ SessionsAreOpened /\ OnlyMastersOpen /\ TrafficInOrder
           /\ ForwardsAreTwins /\ QueuedOnce /\ ForwardsAreNew /\ [Next]_vars
           => ForwardsAreNew'
<1> SUFFICES ASSUME IInv, SessionsAreOpened, OnlyMastersOpen, TrafficInOrder,
                    ForwardsAreTwins, QueuedOnce, ForwardsAreNew, [Next]_vars
             PROVE  ForwardsAreNew'
  OBVIOUS
<1>1. CASE Rests
  BY <1>1 DEF Rests, ForwardsAreNew, HasPublished, WillRefuse
<1> QED BY <1>1, PublishingKinds, ForwardsAreNewSends, ForwardsAreNewPublishes,
           ForwardsAreNewResets

(* What a step pushes is not among what its TAG has published of the round. *)
LEMMA PushedIsNew ==
    ASSUME IInv, RoutesAreSnapshots, ResultsAreOfPlaces, PublishedIsReceived,
           ForwardsAreNew, NEW n \in Tags, NEW next, Publishes(n, next),
           published' # published
    PROVE  \E packet \in MeasurementPackets :
              /\ PushMeasurement(n, packet)
              /\ published[n].key = [session |-> packet.session, round |-> packet.round]
                 => <<packet.anchor, packet.tag>> \notin published[n].pairs
<1>1. PublishesResult(n) \/ PublishesForward(n)
  BY DEF Publishes, PublishesNothing
<1>2. CASE PublishesResult(n)
  BY <1>2, ResultIsNew DEF PublishesResult
<1>3. CASE PublishesForward(n)
  <2> DEFINE packet == Head(inbox[n])
             c == ctl[n]
  <2>1. /\ view[n] \in Sessions /\ ~IsMaster(n) /\ inbox[n] # <<>>
        /\ IsForward(packet) /\ packet.session = view[n]
        /\ packet \in MeasurementPackets /\ PushMeasurement(n, packet)
        /\ packet.round >= c.round
        /\ packet.round = c.round => packet.index \notin c.received
    BY <1>3 DEF PublishesForward
  <2>2. packet \in Elements(inbox[n])
    <3>1. n \in Nodes
      BY DEF Nodes
    <3> QED BY <2>1, <3>1, QueueTypes, TailElements
  <2>3. packet.round \in Nat /\ c.round \in Nat /\ view[n][2] \in Nat
    <3>1. n \in Nodes
      BY DEF Nodes
    <3>2. c \in Controllers
      BY <3>1, NodeFacts
    <3>3. packet.round \in Nat
      BY <2>1 DEF MeasurementPackets
    <3>4. c.round \in Nat
      BY <3>2 DEF Controllers
    <3>5. view[n][2] \in Nat
      <4> DEFINE s == view[n]
      <4>1. s \in Tags \X (1..MaxEpoch)
        BY <2>1 DEF Sessions
      <4> HIDE DEF s
      <4>2. s[2] \in Nat
        BY <4>1
      <4> QED BY <4>2 DEF s
    <3> QED BY <3>3, <3>4, <3>5
  <2> HIDE DEF packet, c
  <2>4. ~WillRefuse(n, packet)
    <3>1. ~(packet.session[2] < view[n][2])
      BY <2>1, <2>3
    <3>2. ~(packet.round < c.round)
      BY <2>1, <2>3
    <3> QED BY <2>1, <3>1, <3>2 DEF WillRefuse, c
  <2>5. packet.session[1] # n
    BY <2>1, NodeAssumption DEF IsMaster, Sessions
  <2>6. ~HasPublished(n, packet)
    BY <2>1, <2>2, <2>4, <2>5 DEF ForwardsAreNew
  <2> QED BY <2>1, <2>6 DEF HasPublished
<1> QED BY <1>1, <1>2, <1>3

(* So it counts the pairs.                                                 *)
LEMMA NextPublishedOnce ==
    /\ IInv /\ RoutesAreSnapshots /\ ResultsAreOfPlaces /\ PublishedIsReceived
    /\ ForwardsAreNew /\ PublishedOnce /\ [Next]_vars
    => PublishedOnce'
<1> SUFFICES ASSUME IInv, RoutesAreSnapshots, ResultsAreOfPlaces,
                    PublishedIsReceived, ForwardsAreNew, PublishedOnce,
                    [Next]_vars, NEW t \in Tags
             PROVE  published'[t].count = Cardinality(published'[t].pairs)
  BY DEF PublishedOnce
<1>1. published[t].count = Cardinality(published[t].pairs)
  BY DEF PublishedOnce
<1>2. CASE published' = published
  BY <1>1, <1>2
<1>3. CASE published' # published
  <2>1. PICK n \in Nodes : \E next : Publishes(n, next)
    BY <1>3, PublishingKinds DEF Rests, Sends, Resets
  <2>2. n \in Tags
    BY <1>3, <2>1 DEF Publishes, PublishesNothing
  <2>3. PICK packet \in MeasurementPackets :
           /\ PushMeasurement(n, packet)
           /\ published[n].key = [session |-> packet.session, round |-> packet.round]
              => <<packet.anchor, packet.tag>> \notin published[n].pairs
    BY <1>3, <2>1, <2>2, PushedIsNew
  <2> DEFINE same == published[n].key
                        = [session |-> packet.session, round |-> packet.round]
             before == IF same THEN published[n].pairs ELSE {}
             pair == <<packet.anchor, packet.tag>>
  <2>4. /\ published'[n].pairs = before \cup {pair}
        /\ published'[n].count = (IF same THEN published[n].count ELSE 0) + 1
        /\ \A u \in Tags \ {n} : published'[u] = published[u]
    BY <2>2, <2>3, PushedPairs
  <2>5. pair \notin before
    BY <2>3
  <2>6. IsFiniteSet(before)
    <3>1. IsFiniteSet(Anchors \X Tags)
      BY NodeAssumption, FS_Product
    <3>2. published[n].pairs \in SUBSET (Anchors \X Tags)
      BY <2>2, HistoryTypes DEF Published
    <3> QED BY <3>1, <3>2, FS_Subset, FS_EmptySet
  <2>7. Cardinality(before) = IF same THEN published[n].count ELSE 0
    <3>1. published[n].count = Cardinality(published[n].pairs)
      BY <2>2 DEF PublishedOnce
    <3> QED BY <3>1, FS_EmptySet
  <2> HIDE DEF before, pair, same
  <2>8. Cardinality(before \cup {pair}) = Cardinality(before) + 1
    BY <2>5, <2>6, FS_AddElement
  <2> QED BY <1>1, <2>4, <2>7, <2>8
<1> QED BY <1>2, <1>3

(* The initial states.                                                     *)
LEMMA InitForwards ==
    Init => /\ ResultsAreOfPlaces /\ PublishedIsReceived /\ ForwardsInv
            /\ PublishedOnce
<1> SUFFICES ASSUME Init
             PROVE  /\ ResultsAreOfPlaces /\ PublishedIsReceived /\ ForwardsInv
                    /\ PublishedOnce
  OBVIOUS
<1>1. InFlight = {}
  BY InitInFlight
<1>2. \A n \in Nodes : ctl[n].low = <<>> /\ inbox[n] = <<>>
  BY ResetFields DEF Init
<1>3. Elements(<<>>) = {} /\ NoTwins(<<>>)
  BY DEF Elements, NoTwins
<1>4. \A t \in Tags : published[t].pairs = {} /\ published[t].count = 0
  BY DEF Init
<1>5. ResultsAreOfPlaces /\ ForwardsAreTwins
  BY <1>1 DEF ResultsAreOfPlaces, ForwardsAreTwins
<1>6. PublishedIsReceived
  BY <1>4 DEF PublishedIsReceived
<1>7. QueuedOnce
  BY <1>2, <1>3 DEF QueuedOnce
<1>8. ForwardsAreNew
  BY <1>2, <1>3 DEF ForwardsAreNew, Nodes
<1>9. PublishedOnce
  BY <1>4, FS_EmptySet DEF PublishedOnce
<1> QED BY <1>5, <1>6, <1>7, <1>8, <1>9 DEF ForwardsInv

(* No TAG publishes a pair of a round twice, whatever is lost or late,     *)
(* whoever restarts and however many TAGs consider themselves master.  If  *)
(* packets are also duplicated, that holds while no follower comes back to *)
(* a session it has left.                                                  *)
THEOREM PairsArePublishedOnce ==
    ASSUME RepeatsAreRemembered
    PROVE  Spec => []PublishedOnce
<1> DEFINE Agreed == /\ IInv /\ SessionsAreOpened /\ OneRoutePerRound
                     /\ RoutesAreSnapshots /\ OnlyMastersOpen
           History == /\ OneSummaryPerRound /\ MasterPublishedFirst
                      /\ TrafficInOrder /\ HistoryBehindTraffic
           Once == /\ ResultsAreOfPlaces /\ PublishedIsReceived
                   /\ ForwardsInv /\ PublishedOnce
           Inv == Agreed /\ History /\ Once
<1>1. Init => Inv
  BY InitIInv, InitAgreement, InitHistory, InitJobs, InitForwards
<1>2. Inv /\ [Next]_vars => Inv'
  <2>1. Inv /\ [Next]_vars => Agreed'
    BY NextIInv, NextSessionsAreOpened, NextOneRoutePerRound,
       NextRoutesAreSnapshots, NextOnlyMastersOpen
  <2>2. Inv /\ [Next]_vars => History'
    BY NextOneSummaryPerRound, NextMasterPublishedFirst, NextTrafficInOrder,
       NextHistoryBehindTraffic
  <2>3. Inv /\ [Next]_vars => ResultsAreOfPlaces' /\ PublishedIsReceived'
    BY NextResultsAreOfPlaces, NextPublishedIsReceived
  <2>4. Inv /\ [Next]_vars => ForwardsInv'
    BY NextForwardsAreTwins, NextQueuedOnce, NextForwardsAreNew DEF ForwardsInv
  <2>5. Inv /\ [Next]_vars => PublishedOnce'
    BY NextPublishedOnce DEF ForwardsInv
  <2> QED BY <2>1, <2>2, <2>3, <2>4, <2>5
<1>3. Inv => PublishedOnce
  OBVIOUS
<1> HIDE DEF Inv
<1> QED BY <1>1, <1>2, <1>3, PTL DEF Spec
=============================================================================
