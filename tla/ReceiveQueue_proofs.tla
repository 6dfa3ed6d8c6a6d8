------------------------- MODULE ReceiveQueue_proofs -------------------------
(***************************************************************************)
(* Proofs about ReceiveQueue for every list of consumers, every capacity   *)
(* and every counter width that one cycle cannot exhaust.                  *)
(***************************************************************************)
EXTENDS ReceiveQueue, TLAPS

(* The length of the consumer list is a natural number, so turns are.      *)
LEMMA TurnsAreNatural ==
    /\ Len(Consumers) \in Nat
    /\ DOMAIN Consumers = 1..Len(Consumers)
    /\ TerminatorTurn \in Nat
BY ConsumersAssumption DEF TerminatorTurn

(* Consuming from a nonempty queue moves the counter by one, and away from *)
(* its value at the start of the cycle.                                    *)
LEMMA ConsumeMovesCount ==
    ASSUME ReceiveInv, turn # 0, queue # <<>>, ConsumeReceive,
           UNCHANGED <<countAtCycleStart, hadPacket, arrivals>>
    PROVE  /\ queue' \in Seq(Kinds)
           /\ Len(queue') = Len(queue) - 1
           /\ consumedCount' \in 0..(CountModulus - 1)
           /\ ConsumedInCycle' = ConsumedInCycle + 1
           /\ consumedCount' # countAtCycleStart
<1>1. /\ queue' \in Seq(Kinds)
      /\ Len(queue') = Len(queue) - 1
      /\ Len(queue) \in Nat \ {0}
  BY DEF ReceiveInv, ReceiveTypeOK, ConsumeReceive
<1>2. /\ CountModulus \in Nat
      /\ Capacity \in Nat
      /\ arrivals \in Nat /\ arrivals <= MaxArrivalsPerCycle
      /\ consumedCount \in 0..(CountModulus - 1)
      /\ countAtCycleStart \in 0..(CountModulus - 1)
      /\ MaxArrivalsPerCycle \in Nat
      /\ Capacity + MaxArrivalsPerCycle < CountModulus
  BY CountAssumption DEF ReceiveInv, ReceiveTypeOK
<1>3. ConsumedInCycle + 1 < CountModulus
  BY <1>1, <1>2 DEF ReceiveInv, ConsumedBound, ConsumedInCycle
<1>4. consumedCount' =
         IF consumedCount = CountModulus - 1 THEN 0 ELSE consumedCount + 1
  BY DEF ConsumeReceive
<1> QED BY <1>1, <1>2, <1>3, <1>4 DEF ConsumedInCycle

(* ReceiveInv holds initially.                                                   *)
LEMMA InitIInv == ReceiveInit => ReceiveInv
<1> SUFFICES ASSUME ReceiveInit PROVE ReceiveInv
  OBVIOUS
<1>1. hadPacket \in BOOLEAN
  BY DEF ReceiveInit
<1>2. /\ queue \in Seq(Kinds) /\ Len(queue) <= Capacity
      /\ consumedCount \in 0..(CountModulus - 1)
      /\ countAtCycleStart \in 0..(CountModulus - 1)
      /\ turn \in 0..TerminatorTurn
      /\ arrivals \in 0..MaxArrivalsPerCycle
  BY CountAssumption, TurnsAreNatural DEF ReceiveInit
<1>3. ReceiveTypeOK
  BY <1>1, <1>2 DEF ReceiveTypeOK
<1> QED BY <1>3 DEF ReceiveInit, ReceiveInv, ConsumedBound, HeadWasRefused

(* Every step preserves ReceiveInv.                                              *)
LEMMA NextIInv == ReceiveInv /\ [ReceiveNext]_receiveVars => ReceiveInv'
<1> SUFFICES ASSUME ReceiveInv, [ReceiveNext]_receiveVars PROVE ReceiveInv'
  OBVIOUS
<1> USE CountAssumption, TurnsAreNatural
<1>0. /\ queue \in Seq(Kinds) /\ Len(queue) \in Nat
      /\ consumedCount \in 0..(CountModulus - 1)
      /\ countAtCycleStart \in 0..(CountModulus - 1)
      /\ arrivals \in Nat
      /\ ConsumedInCycle \in Nat
  BY DEF ReceiveInv, ReceiveTypeOK, ConsumedInCycle
<1>1. ASSUME NEW kind \in Kinds, OnReceive(kind) PROVE ReceiveInv'
  <2>1. /\ queue' \in Seq(Kinds)
        /\ Len(queue') <= Capacity
        /\ Len(queue') <= Len(queue) + 1
        /\ queue # <<>> => queue' # <<>> /\ Head(queue') = Head(queue)
    BY <1>1 DEF OnReceive, ReceiveInv, ReceiveTypeOK
  <2>2. ReceiveTypeOK'
    BY <1>1, <2>1 DEF OnReceive, ReceiveInv, ReceiveTypeOK
  <2>3. ConsumedBound'
    <3>1. /\ ConsumedInCycle' = ConsumedInCycle
          /\ turn' = turn /\ arrivals' = arrivals + 1
      BY <1>1 DEF OnReceive, ConsumedInCycle
    <3>2. turn # 0 => ConsumedInCycle + Len(queue) <= Capacity + arrivals
      BY DEF ReceiveInv, ConsumedBound
    <3>3. Len(queue') \in Nat
      BY <2>1
    <3> QED BY <1>0, <2>1, <3>1, <3>2, <3>3 DEF ConsumedBound
  <2>4. HeadWasRefused'
    BY <1>1, <2>1 DEF OnReceive, ReceiveInv, HeadWasRefused, HeadIsStuck
  <2> QED BY <2>2, <2>3, <2>4 DEF ReceiveInv
<1>2. CASE BeginCycle
  <2>1. ReceiveTypeOK'
    BY <1>2 DEF BeginCycle, ReceiveInv, ReceiveTypeOK, TerminatorTurn
  <2>2. ConsumedBound'
    <3>1. /\ consumedCount' = consumedCount /\ countAtCycleStart' = consumedCount
          /\ queue' = queue /\ arrivals' = 0
      BY <1>2 DEF BeginCycle
    <3>2. Len(queue) <= Capacity
      BY DEF ReceiveInv, ReceiveTypeOK
    <3> QED BY <1>0, <3>1, <3>2 DEF ConsumedBound, ConsumedInCycle
  <2>3. HeadWasRefused'
    <3>1. hadPacket' => queue' # <<>>
      BY <1>2, Zenon DEF BeginCycle
    <3>2. 1..(turn' - 1) = {}
      BY <1>2 DEF BeginCycle
    <3> QED BY <3>1, <3>2, Zenon DEF HeadWasRefused, HeadIsStuck
  <2> QED BY <2>1, <2>2, <2>3 DEF ReceiveInv
<1>3. CASE Consume
  <2>1. turn # 0 /\ queue # <<>> /\ ConsumeReceive
        /\ UNCHANGED <<countAtCycleStart, hadPacket, turn, arrivals>>
    BY <1>3 DEF Consume, IsOwnPacket
  <2>2. /\ queue' \in Seq(Kinds)
        /\ Len(queue') = Len(queue) - 1
        /\ consumedCount' \in 0..(CountModulus - 1)
        /\ ConsumedInCycle' = ConsumedInCycle + 1
        /\ consumedCount' # countAtCycleStart
    BY <2>1, ConsumeMovesCount
  <2>3. ReceiveTypeOK'
    BY <2>1, <2>2 DEF ReceiveInv, ReceiveTypeOK
  <2>4. ConsumedBound'
    <3>1. ConsumedInCycle + Len(queue) <= Capacity + arrivals
      BY <2>1 DEF ReceiveInv, ConsumedBound
    <3>2. Capacity \in Nat
      OBVIOUS
    <3> QED BY <1>0, <2>1, <2>2, <3>1, <3>2 DEF ConsumedBound
  <2>5. HeadWasRefused'
    BY <2>1, <2>2 DEF HeadWasRefused, HeadIsStuck
  <2> QED BY <2>3, <2>4, <2>5 DEF ReceiveInv
<1>4. CASE PassOn
  <2>1. ReceiveTypeOK'
    BY <1>4 DEF PassOn, ReceiveInv, ReceiveTypeOK, TerminatorTurn
  <2>2. ConsumedBound'
    BY <1>4 DEF PassOn, ReceiveInv, ConsumedBound, ConsumedInCycle
  <2>3. HeadWasRefused'
    BY <1>4 DEF PassOn, IsOwnPacket, ReceiveInv, ReceiveTypeOK, HeadWasRefused, HeadIsStuck
  <2> QED BY <2>1, <2>2, <2>3 DEF ReceiveInv
<1>5. CASE TerminatorUpdate
  <2>1. turn' = 0 /\ turn # 0
    BY <1>5 DEF TerminatorUpdate, TerminatorTurn
  <2>2. ReceiveTypeOK'
    <3>1. CASE HeadIsStuck /\ queue # <<>>
      <4>1. /\ ConsumeReceive
            /\ UNCHANGED <<countAtCycleStart, hadPacket, arrivals>>
        BY <1>5, <3>1 DEF TerminatorUpdate
      <4>2. /\ queue' \in Seq(Kinds)
            /\ Len(queue') = Len(queue) - 1
            /\ consumedCount' \in 0..(CountModulus - 1)
        BY <2>1, <3>1, <4>1, ConsumeMovesCount
      <4> QED BY <2>1, <4>1, <4>2 DEF ReceiveInv, ReceiveTypeOK
    <3>2. CASE ~(HeadIsStuck /\ queue # <<>>)
      BY <1>5, <2>1, <3>2 DEF TerminatorUpdate, ReceiveInv, ReceiveTypeOK
    <3> QED BY <3>1, <3>2
  <2> QED BY <2>1, <2>2 DEF ReceiveInv, ConsumedBound, HeadWasRefused
<1>6. CASE UNCHANGED receiveVars
  BY <1>6 DEF receiveVars, ReceiveInv, ReceiveTypeOK, ConsumedBound, ConsumedInCycle,
              HeadWasRefused, HeadIsStuck
<1> QED BY <1>1, <1>2, <1>3, <1>4, <1>5, <1>6 DEF ReceiveNext, MeasurementTask

(* The inductive invariant, and with it the type invariant, always holds.  *)
THEOREM InvariantHolds == ReceiveSpec => []ReceiveInv
BY InitIInv, NextIInv, PTL DEF ReceiveSpec

(* For every list of consumers and every subset of them that was begun,    *)
(* the terminator never discards a packet one of these would have taken.   *)
THEOREM TerminatorIsSafe == ReceiveSpec => DiscardsOnlyUnowned
<1>1. ASSUME ReceiveInv, [ReceiveNext]_receiveVars
      PROVE  [turn = TerminatorTurn /\ queue' # queue /\ arrivals' = arrivals
              => Head(queue) \notin Begun]_receiveVars
  <2> SUFFICES ASSUME turn = TerminatorTurn, queue' # queue,
                      arrivals' = arrivals
               PROVE  Head(queue) \notin Begun
    OBVIOUS
  <2>1. TerminatorUpdate
    <3>1. ASSUME NEW kind \in Kinds, OnReceive(kind) PROVE FALSE
      BY <3>1 DEF OnReceive, ReceiveInv, ReceiveTypeOK
    <3>2. ~BeginCycle /\ ~PassOn /\ ~UNCHANGED receiveVars
      BY DEF BeginCycle, PassOn, receiveVars
    <3>3. ~Consume
      BY TurnsAreNatural DEF Consume, TerminatorTurn
    <3> QED BY <1>1, <3>1, <3>2, <3>3 DEF ReceiveNext, MeasurementTask
  <2>2. turn # 0 /\ HeadIsStuck
    BY <2>1, TurnsAreNatural DEF TerminatorUpdate, TerminatorTurn
  <2>3. \A i \in 1..(turn - 1) :
           Consumers[i] \in Begun => Head(queue) # Consumers[i]
    BY <1>1, <2>2 DEF ReceiveInv, HeadWasRefused
  <2>4. 1..(turn - 1) = DOMAIN Consumers
    BY TurnsAreNatural DEF TerminatorTurn
  <2> QED BY <2>3, <2>4, ConsumersAssumption DEF ConsumerSet
<1> QED BY <1>1, InvariantHolds, PTL DEF ReceiveSpec, DiscardsOnlyUnowned

(* A cycle that begins with a packet always moves the counter, whatever    *)
(* the width of the counter: it cannot come around unnoticed.              *)
THEOREM CyclesProgress == ReceiveSpec => CycleMakesProgress
<1>1. ASSUME ReceiveInv, [ReceiveNext]_receiveVars
      PROVE  [turn = TerminatorTurn /\ turn' = 0 /\ hadPacket
              => consumedCount' # countAtCycleStart]_receiveVars
  <2> SUFFICES ASSUME turn = TerminatorTurn, turn' = 0, hadPacket
               PROVE  consumedCount' # countAtCycleStart
    OBVIOUS
  <2>1. turn # 0
    BY TurnsAreNatural DEF TerminatorTurn
  <2>2. TerminatorUpdate
    <3>1. ASSUME NEW kind \in Kinds, OnReceive(kind) PROVE FALSE
      BY <2>1, <3>1 DEF OnReceive
    <3>2. ~BeginCycle /\ ~UNCHANGED receiveVars
      BY <2>1 DEF BeginCycle, receiveVars
    <3>3. ~Consume /\ ~PassOn
      <4>1. turn \notin DOMAIN Consumers
        BY TurnsAreNatural DEF TerminatorTurn
      <4> QED BY <4>1, Zenon DEF Consume, PassOn
    <3> QED BY <1>1, <3>1, <3>2, <3>3 DEF ReceiveNext, MeasurementTask
  <2>3. CASE HeadIsStuck
    <3>1. queue # <<>>
      BY <1>1, <2>1, <2>3 DEF ReceiveInv, HeadWasRefused
    <3>2. ConsumeReceive /\ UNCHANGED <<countAtCycleStart, hadPacket, arrivals>>
      BY <2>2, <2>3, <3>1 DEF TerminatorUpdate
    <3> QED BY <1>1, <2>1, <3>1, <3>2, ConsumeMovesCount
  <2>4. CASE ~HeadIsStuck
    BY <2>2, <2>4 DEF TerminatorUpdate, HeadIsStuck
  <2> QED BY <2>3, <2>4
<1> QED BY <1>1, InvariantHolds, PTL DEF ReceiveSpec, CycleMakesProgress
=============================================================================
