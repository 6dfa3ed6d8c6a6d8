---------------------------- MODULE ReceiveQueue ----------------------------
(***************************************************************************)
(* The ESP-NOW receive FIFO of one node.  EspNowTransport::OnReceive       *)
(* appends to it from the WiFi task at any moment; the measurement task    *)
(* runs, once per cycle, EspNowReceiveQueueTerminator::BeginCycle, every   *)
(* consumer in turn (each takes packets from the head while they are its   *)
(* own) and EspNowReceiveQueueTerminator::Update, which throws away a head *)
(* that no consumer wants.                                                 *)
(*                                                                         *)
(* A packet is represented by the consumer whose Is...Packet() accepts it, *)
(* or by Other.                                                            *)
(***************************************************************************)
EXTENDS Integers, Sequences

CONSTANTS
    Consumers,          \* the consumers, in the order of UpdateRangingCycle
    Begun,              \* the consumers that were begun; the others return early
    Other,              \* a packet of no consumer
    Capacity,           \* ReceivedQueueLength (16)
    CountModulus,       \* width of m_consumedReceiveCount (2^32)
    MaxArrivalsPerCycle \* bound: packets the radio delivers during one cycle

ConsumerSet == {Consumers[i] : i \in DOMAIN Consumers}
Kinds == ConsumerSet \cup {Other}

ASSUME ConsumersAssumption ==
    /\ Consumers \in Seq(ConsumerSet)
    /\ Begun \subseteq ConsumerSet
    /\ Other \notin ConsumerSet

(* The counter cannot come around within one cycle.                        *)
ASSUME CountAssumption ==
    /\ Capacity \in Nat \ {0}
    /\ MaxArrivalsPerCycle \in Nat
    /\ CountModulus \in Nat
    /\ Capacity + MaxArrivalsPerCycle < CountModulus

VARIABLES
    queue,              \* m_receivedQueue
    consumedCount,      \* m_consumedReceiveCount
    countAtCycleStart,  \* m_consumedReceiveCountAtCycleStart
    hadPacket,          \* m_hadPacketAtCycleStart
    turn,               \* 0: between cycles; i: consumer i; last: terminator
    arrivals            \* packets that arrived since the cycle began

receiveVars == <<queue, consumedCount, countAtCycleStart, hadPacket, turn, arrivals>>

TerminatorTurn == Len(Consumers) + 1

-----------------------------------------------------------------------------
(* xQueueSend without waiting: a full queue drops the packet.              *)
OnReceive(kind) ==
    /\ arrivals < MaxArrivalsPerCycle
    /\ arrivals' = arrivals + 1
    /\ queue' = IF Len(queue) < Capacity THEN Append(queue, kind) ELSE queue
    /\ UNCHANGED <<consumedCount, countAtCycleStart, hadPacket, turn>>

(* The operators named Buggy... are plausible mistakes in the definition   *)
(* that follows them.  Nothing uses them; they show which property would   *)
(* notice the mistake.                                                     *)
BuggyConsumeReceive == queue' = Tail(queue) /\ UNCHANGED consumedCount
ConsumeReceive ==
    /\ queue' = Tail(queue)
    /\ consumedCount' =
          IF consumedCount = CountModulus - 1 THEN 0 ELSE consumedCount + 1

BeginCycle ==
    /\ turn = 0
    /\ countAtCycleStart' = consumedCount
    /\ hadPacket' = (queue # <<>>)
    /\ turn' = 1
    /\ arrivals' = 0
    /\ UNCHANGED <<queue, consumedCount>>

(* The head is a packet of the consumer whose turn it is.                  *)
IsOwnPacket ==
    /\ Consumers[turn] \in Begun
    /\ queue # <<>>
    /\ Head(queue) = Consumers[turn]

Consume ==
    /\ turn \in DOMAIN Consumers
    /\ IsOwnPacket
    /\ ConsumeReceive
    /\ UNCHANGED <<countAtCycleStart, hadPacket, turn, arrivals>>

PassOn ==
    /\ turn \in DOMAIN Consumers
    /\ ~IsOwnPacket
    /\ turn' = turn + 1
    /\ UNCHANGED <<queue, consumedCount, countAtCycleStart, hadPacket, arrivals>>

(* The head stayed where BeginCycle found it.                              *)
BuggyLateHead == consumedCount = countAtCycleStart  \* drops what just came in
BuggyNoDiscard == FALSE
HeadIsStuck == hadPacket /\ consumedCount = countAtCycleStart

TerminatorUpdate ==
    /\ turn = TerminatorTurn
    /\ turn' = 0
    /\ IF HeadIsStuck /\ queue # <<>>
       THEN ConsumeReceive
       ELSE UNCHANGED <<queue, consumedCount>>
    /\ UNCHANGED <<countAtCycleStart, hadPacket, arrivals>>

-----------------------------------------------------------------------------
ReceiveInit ==
    /\ queue = <<>>
    /\ consumedCount = 0
    /\ countAtCycleStart = 0
    /\ hadPacket = FALSE
    /\ turn = 0
    /\ arrivals = 0

MeasurementTask == BeginCycle \/ Consume \/ PassOn \/ TerminatorUpdate

ReceiveNext == (\E kind \in Kinds : OnReceive(kind)) \/ MeasurementTask

ReceiveSpec == ReceiveInit /\ [][ReceiveNext]_receiveVars

(* The high priority measurement task calls UpdateRangingCycle for ever.   *)
ReceiveFairSpec == ReceiveSpec /\ WF_receiveVars(MeasurementTask)

-----------------------------------------------------------------------------
(* Type invariant of the queue and the terminator.                         *)
ReceiveTypeOK ==
    /\ queue \in Seq(Kinds)
    /\ Len(queue) <= Capacity
    /\ consumedCount \in 0..(CountModulus - 1)
    /\ countAtCycleStart \in 0..(CountModulus - 1)
    /\ hadPacket \in BOOLEAN
    /\ turn \in 0..TerminatorTurn
    /\ arrivals \in 0..MaxArrivalsPerCycle

(* The terminator never throws away a packet that a running consumer would *)
(* have taken, whenever it arrived: a packet that comes in after its       *)
(* consumer's turn waits for the next cycle.                               *)
DiscardsOnlyUnowned ==
    [][turn = TerminatorTurn /\ queue' # queue /\ arrivals' = arrivals
       => Head(queue) \notin Begun]_receiveVars

(* A cycle that begins with a packet removes at least one, and the counter *)
(* shows it: an unowned head blocks the consumers for one cycle at most.   *)
CycleMakesProgress ==
    [][turn = TerminatorTurn /\ turn' = 0 /\ hadPacket
       => consumedCount' # countAtCycleStart]_receiveVars

(* Packets of consumers that were not begun cannot stop the queue: a full  *)
(* queue gets room again.                                                  *)
FullQueueDrains == Len(queue) = Capacity ~> Len(queue) < Capacity

-----------------------------------------------------------------------------
(* The inductive invariant: within a cycle, the packets consumed so far    *)
(* and the packets still queued are together no more than were there or    *)
(* arrived, so the counter cannot have come around...                      *)
ConsumedInCycle ==
    IF consumedCount >= countAtCycleStart
    THEN consumedCount - countAtCycleStart
    ELSE consumedCount - countAtCycleStart + CountModulus

ConsumedBound ==
    turn # 0 => ConsumedInCycle + Len(queue) <= Capacity + arrivals

(* ... and while it has not moved, the head is still the packet that every *)
(* consumer so far has refused.                                            *)
HeadWasRefused ==
    turn # 0 /\ HeadIsStuck =>
        /\ queue # <<>>
        /\ \A i \in 1..(turn - 1) :
              Consumers[i] \in Begun => Head(queue) # Consumers[i]

ReceiveInv == ReceiveTypeOK /\ ConsumedBound /\ HeadWasRefused
=============================================================================
