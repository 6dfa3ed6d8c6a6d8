-------------------------- MODULE SendPath_proofs --------------------------
(***************************************************************************)
(* Proofs about SendPath for every set of destinations, every capacity of  *)
(* the queues and every fault of ESP-NOW.                                  *)
(***************************************************************************)
EXTENDS SendPath, SequenceTheorems, TLAPS

(* A bounded queue stays a sequence within its capacity.                   *)
LEMMA PushType ==
    ASSUME NEW S, NEW queue \in Seq(S), NEW capacity \in Nat \ {0}, NEW item \in S
    PROVE  /\ Push(queue, capacity, item) \in Seq(S)
           /\ Len(queue) <= capacity => Len(Push(queue, capacity, item)) <= capacity
           /\ queue = <<>> => Push(queue, capacity, item) = <<item>>
<1>1. /\ Append(queue, item) \in Seq(S)
      /\ Len(Append(queue, item)) = Len(queue) + 1
      /\ Len(queue) \in Nat
  BY AppendProperties
<1>2. queue = <<>> => Append(queue, item) = <<item>> /\ Len(queue) = 0
  OBVIOUS
<1> QED BY <1>1, <1>2 DEF Push

(* The capacities are positive numbers.                                    *)
LEMMA CapacitiesArePositive ==
    /\ SendCapacity \in Nat \ {0}
    /\ CallbackCapacity \in Nat \ {0}
    /\ ResultCapacity \in Nat \ {0}
BY CapacitiesAssumption

(* IInv holds initially.                                                   *)
LEMMA InitIInv == Init => IInv
<1> SUFFICES ASSUME Init PROVE IInv
  OBVIOUS
<1>1. /\ <<>> \in Seq(Destinations) /\ <<>> \in Seq(Outcomes)
      /\ Len(<<>>) = 0
  OBVIOUS
<1>2. TypeOK
  <2>1. /\ sendQueue \in Seq(Destinations) /\ Len(sendQueue) <= SendCapacity
        /\ resultQueue \in Seq(Outcomes) /\ Len(resultQueue) <= ResultCapacity
        /\ radio \in Seq(Destinations) /\ callbackQueue \in Seq(Outcomes)
    BY <1>1, CapacitiesArePositive DEF Init
  <2> QED BY <2>1 DEF Init, TypeOK, Places
<1>3. OneInFlight /\ FlightState
  BY <1>1 DEF Init, OneInFlight, FlightState
<1> QED BY <1>2, <1>3 DEF IInv

(* Every step of the measurement task and of the WiFi task preserves IInv. *)
LEMMA NextIInv == IInv /\ [Next]_vars => IInv'
<1> SUFFICES ASSUME IInv, [Next]_vars PROVE IInv'
  OBVIOUS
<1> USE CapacitiesArePositive DEF IInv
<1>0. /\ Len(sendQueue) \in Nat /\ Len(radio) \in Nat
      /\ Len(callbackQueue) \in Nat
      /\ Len(radio) = 0 <=> radio = <<>>
      /\ Len(callbackQueue) = 0 <=> callbackQueue = <<>>
  BY DEF TypeOK
<1>1. ASSUME NEW destination \in Destinations, Send(destination) PROVE IInv'
  BY <1>1 DEF Send, TypeOK, OneInFlight, FlightState, Places, flight, espNow, results
<1>2. CASE Update
  BY <1>2 DEF Update, TypeOK, OneInFlight, FlightState, Places, flight, espNow, results
<1>3. CASE ProcessSendCallback
  <2>1. /\ radio = <<>> /\ callbackQueue' = <<>>
        /\ Head(callbackQueue) \in Outcomes
    BY <1>0, <1>3 DEF ProcessSendCallback, TypeOK, OneInFlight
  <2>2. /\ resultQueue' \in Seq(Outcomes) /\ Len(resultQueue') <= ResultCapacity
        /\ recorded' \in Outcomes
    BY <1>3, <2>1, PushType DEF ProcessSendCallback, PushResult, TypeOK
  <2>3. TypeOK'
    <3>1. /\ callbackQueue' \in Seq(Outcomes) /\ inFlight' \in BOOLEAN
      <4>1. <<>> \in Seq(Outcomes)
        OBVIOUS
      <4>2. inFlight' = FALSE
        BY <1>3 DEF ProcessSendCallback
      <4> QED BY <2>1, <4>1, <4>2
    <3>2. /\ at' = at /\ taking' = taking /\ sendQueue' = sendQueue
          /\ inFlightTo' = inFlightTo /\ radio' = radio /\ silent' = silent
      BY <1>3 DEF ProcessSendCallback, task, espNow
    <3> QED BY <2>2, <3>1, <3>2 DEF TypeOK
  <2>4. OneInFlight' /\ FlightState'
    BY <1>3, <2>1 DEF ProcessSendCallback, OneInFlight, FlightState, task,
                       espNow
  <2> QED BY <2>3, <2>4
<1>4. CASE CallbacksProcessed \/ NothingToStart
  BY <1>4 DEF CallbacksProcessed, NothingToStart, TypeOK, OneInFlight,
              FlightState, Places, flight, espNow, results
<1>5. CASE HandToRadio
  <2>1. /\ radio = <<>> /\ callbackQueue = <<>> /\ sendQueue # <<>>
        /\ Head(sendQueue) \in Destinations
    BY <1>5 DEF HandToRadio, MayStart, TypeOK, OneInFlight
  <2>2. radio' = <<Head(sendQueue)>> /\ inFlightTo' = Head(sendQueue)
    BY <1>5, <2>1 DEF HandToRadio
  <2> QED BY <1>5, <2>1, <2>2
          DEF HandToRadio, TypeOK, OneInFlight, FlightState, Places, espNow, results
<1>6. CASE RadioRefuses
  <2>1. /\ radio = <<>> /\ callbackQueue = <<>> /\ sendQueue # <<>>
        /\ Head(sendQueue) \in Destinations
    BY <1>6 DEF RadioRefuses, MayStart, TypeOK, OneInFlight
  <2> QED BY <1>6, <2>1
          DEF RadioRefuses, TypeOK, OneInFlight, FlightState, Places, espNow, results
<1>7. CASE RemoveHanded
  <2>1. /\ Tail(sendQueue) \in Seq(Destinations)
        /\ Len(Tail(sendQueue)) <= SendCapacity
    BY <1>0, <1>7 DEF RemoveHanded, TypeOK, FlightState
  <2> QED BY <1>7, <2>1
          DEF RemoveHanded, TypeOK, OneInFlight, FlightState, Places, flight, espNow, results
<1>8. CASE RemoveRefused
  <2>1. /\ Tail(sendQueue) \in Seq(Destinations)
        /\ Len(Tail(sendQueue)) <= SendCapacity
        /\ Outcome(Head(sendQueue), FALSE) \in Outcomes
    BY <1>0, <1>8 DEF RemoveRefused, TypeOK, FlightState, Outcome, Outcomes
  <2>2. /\ resultQueue' \in Seq(Outcomes) /\ Len(resultQueue') <= ResultCapacity
        /\ recorded' \in Outcomes
    BY <1>8, <2>1, PushType DEF RemoveRefused, PushResult, TypeOK
  <2> QED BY <1>8, <2>1, <2>2
          DEF RemoveRefused, TypeOK, OneInFlight, FlightState, Places, espNow
<1>9. CASE Return
  <2>1. resultQueue' \in Seq(Outcomes) /\ Len(resultQueue') <= ResultCapacity
    BY <1>9 DEF Return, TypeOK
  <2> QED BY <1>9, <2>1
          DEF Return, TypeOK, OneInFlight, FlightState, Places, flight, espNow
<1>10. CASE OnSend
  <2>1. /\ radio = <<inFlightTo>> /\ callbackQueue = <<>> /\ radio' = <<>>
        /\ inFlightTo \in Destinations
    BY <1>0, <1>10 DEF OnSend, TypeOK, OneInFlight, FlightState
  <2>2. PICK sent \in BOOLEAN :
            callbackQueue' = Push(callbackQueue, CallbackCapacity,
                                  Outcome(inFlightTo, sent))
    BY <1>10, <2>1 DEF OnSend
  <2>3. Outcome(inFlightTo, sent) \in Outcomes
    BY <2>1 DEF Outcome, Outcomes
  <2>4. callbackQueue' = <<Outcome(inFlightTo, sent)>>
    <3>1. /\ callbackQueue = <<>> /\ callbackQueue \in Seq(Outcomes)
          /\ CallbackCapacity \in Nat \ {0}
      BY <2>1 DEF TypeOK
    <3>2. Push(callbackQueue, CallbackCapacity, Outcome(inFlightTo, sent))
             = <<Outcome(inFlightTo, sent)>>
      BY <2>3, <3>1, PushType
    <3> QED BY <2>2, <3>2
  <2>5. /\ callbackQueue' \in Seq(Outcomes) /\ Len(callbackQueue') = 1
        /\ callbackQueue' # <<>>
    BY <2>3, <2>4
  <2>6. /\ at' = at /\ taking' = taking /\ sendQueue' = sendQueue
        /\ inFlight' = inFlight /\ inFlightTo' = inFlightTo
        /\ resultQueue' = resultQueue /\ recorded' = recorded
        /\ silent' = silent
    BY <1>10 DEF OnSend, task, flight, espNow, results
  <2>7. TypeOK'
    BY <2>1, <2>5, <2>6 DEF TypeOK
  <2>8. OneInFlight' /\ FlightState'
    BY <1>0, <2>1, <2>5, <2>6 DEF OneInFlight, FlightState
  <2> QED BY <2>7, <2>8
<1>11. CASE LoseCallback
  BY <1>11 DEF LoseCallback, TypeOK, OneInFlight, FlightState, task, flight, results
<1>12. CASE UNCHANGED vars
  BY <1>12 DEF vars, TypeOK, OneInFlight, FlightState, task, flight, espNow, results
<1> QED BY <1>1, <1>2, <1>3, <1>4, <1>5, <1>6, <1>7, <1>8, <1>9, <1>10,
           <1>11, <1>12 DEF Next, TaskStep

(* IInv is an invariant of the send path, whatever ESP-NOW loses.          *)
THEOREM InvariantHolds == Spec => []IInv
BY InitIInv, NextIInv, PTL DEF Spec

(* At most one packet is in flight.                                        *)
THEOREM AtMostOneInFlight == Spec => []OneInFlight
<1>1. IInv => OneInFlight
  BY DEF IInv
<1> QED BY <1>1, InvariantHolds, PTL

(* The callback queue always has room for the one outcome to come.         *)
THEOREM CallbacksHaveRoom == Spec => NoCallbackDropped
<1>1. IInv /\ [Next]_vars
        => [Len(radio') < Len(radio)
            => Len(callbackQueue') = Len(callbackQueue) + 1]_vars
  <2> SUFFICES ASSUME IInv, Next, Len(radio') < Len(radio)
               PROVE  Len(callbackQueue') = Len(callbackQueue) + 1
    BY DEF vars
  <2> USE CapacitiesArePositive DEF IInv
  <2>1. /\ radio \in Seq(Destinations) /\ callbackQueue \in Seq(Outcomes)
        /\ radio # <<>>
    BY DEF TypeOK, FlightState
  <2>2. CASE OnSend
    <3>1. callbackQueue = <<>> /\ inFlightTo \in Destinations
          /\ radio = <<inFlightTo>>
      BY <2>1 DEF OneInFlight, FlightState, TypeOK
    <3>2. PICK sent \in BOOLEAN :
              callbackQueue' = Push(callbackQueue, CallbackCapacity,
                                    Outcome(inFlightTo, sent))
      BY <2>2, <3>1 DEF OnSend
    <3>3. Outcome(inFlightTo, sent) \in Outcomes
      BY <3>1 DEF Outcome, Outcomes
    <3>4. callbackQueue' = <<Outcome(inFlightTo, sent)>>
      <4>1. CallbackCapacity \in Nat \ {0} /\ callbackQueue = <<>>
        BY <3>1
      <4> QED BY <2>1, <3>2, <3>3, <4>1, PushType
    <3> QED BY <3>1, <3>4
  <2>3. CASE LoseCallback
    BY <2>1, <2>3 DEF LoseCallback
  <2>4. CASE HandToRadio
    <3>1. ~inFlight
      BY <2>4 DEF HandToRadio, MayStart
    <3> QED BY <2>1, <3>1 DEF OneInFlight
  <2>5. CASE Update \/ \E destination \in Destinations : Send(destination)
    BY <2>1, <2>5 DEF Update, Send, espNow
  <2>6. CASE TaskStep /\ ~HandToRadio
    <3>1. radio' = radio
      BY <2>6 DEF TaskStep, ProcessSendCallback, CallbacksProcessed, espNow,
                  RadioRefuses, RemoveHanded, RemoveRefused, NothingToStart,
                  Return
    <3> QED BY <2>1, <3>1
  <2> QED BY <2>2, <2>3, <2>4, <2>5, <2>6 DEF Next
<1> QED BY <1>1, InvariantHolds, PTL DEF Spec, NoCallbackDropped

(* A packet ahead of others.                                               *)
LEMMA AheadOf ==
    ASSUME NEW S, NEW x \in S, NEW rest \in Seq(S)
    PROVE  /\ (<<>> \o <<>>) \o rest = rest
           /\ (<<>> \o <<x>>) \o rest = <<x>> \o rest
           /\ (<<x>> \o <<>>) \o rest = <<x>> \o rest
           /\ <<x>> \o rest # <<>>
           /\ Head(<<x>> \o rest) = x /\ Tail(<<x>> \o rest) = rest
           /\ rest # <<>> => <<Head(rest)>> \o Tail(rest) = rest
           /\ \A y \in S : /\ <<x>> \o Append(rest, y) = Append(<<x>> \o rest, y)
                           /\ Append(rest, y) \in Seq(S)
<1>1. <<>> \in Seq(S) /\ <<x>> \in Seq(S)
  OBVIOUS
<1>2. /\ <<>> \o <<>> = <<>> /\ <<>> \o <<x>> = <<x>> /\ <<x>> \o <<>> = <<x>>
      /\ <<>> \o rest = rest
  BY <1>1, ConcatEmptySeq
<1>3. <<x>> \o rest # <<>> /\ Head(<<x>> \o rest) = x
  BY <1>1, ConcatProperties
<1>4. Tail(<<x>> \o rest) = rest
  OBVIOUS
<1>5. rest # <<>> => <<Head(rest)>> \o Tail(rest) = rest
  OBVIOUS
<1>6. ASSUME NEW y \in S
      PROVE  /\ <<x>> \o Append(rest, y) = Append(<<x>> \o rest, y)
             /\ Append(rest, y) \in Seq(S)
  BY <1>1
<1> QED BY <1>2, <1>3, <1>4, <1>5, <1>6

(* What SendService calls waiting, and how much of it is where.            *)
WaitingIsPlaced ==
    /\ Unsent \in Seq(Destinations)
    /\ radio = <<>> /\ callbackQueue = <<>> =>
          Reported \o radio \o Unsent = Unsent
    /\ radio # <<>> =>
          /\ callbackQueue = <<>> /\ radio = <<inFlightTo>>
          /\ inFlightTo \in Destinations
          /\ Reported \o radio \o Unsent = <<inFlightTo>> \o Unsent
    /\ callbackQueue # <<>> =>
          /\ radio = <<>> /\ callbackQueue = <<Head(callbackQueue)>>
          /\ Head(callbackQueue) \in Outcomes
          /\ Reported \o radio \o Unsent
                = <<Head(callbackQueue).destination>> \o Unsent

(* In every state that satisfies IInv, ...                                 *)
LEMMA WaitingPackets == IInv => WaitingIsPlaced
<1> SUFFICES ASSUME IInv PROVE WaitingIsPlaced
  OBVIOUS
<1> USE DEF IInv
<1>1. Unsent \in Seq(Destinations)
  <2>1. sendQueue \in Seq(Destinations) /\ (at = "Handed" => sendQueue # <<>>)
    BY DEF TypeOK, FlightState
  <2> QED BY <2>1, HeadTailProperties DEF Unsent
<1>2. callbackQueue = <<>> => Reported = <<>>
  BY DEF Reported
<1>3. CASE radio = <<>> /\ callbackQueue = <<>>
  <2>1. Reported \o radio \o Unsent = (<<>> \o <<>>) \o Unsent
    BY <1>2, <1>3
  <2>2. <<>> \o <<>> = <<>> /\ <<>> \o Unsent = Unsent
    BY <1>1, ConcatEmptySeq, EmptySeq
  <2> QED BY <1>1, <1>3, <2>1, <2>2 DEF WaitingIsPlaced
<1>4. CASE radio # <<>>
  <2>1. callbackQueue = <<>> /\ radio = <<inFlightTo>>
    BY <1>4 DEF TypeOK, OneInFlight, FlightState
  <2>2. inFlightTo \in Destinations
    BY <2>1 DEF TypeOK
  <2> QED BY <1>1, <1>2, <1>4, <2>1, <2>2, AheadOf DEF WaitingIsPlaced
<1>5. CASE callbackQueue # <<>>
  <2>1. radio = <<>> /\ Len(callbackQueue) = 1
    <3>1. /\ Len(callbackQueue) \in Nat /\ Len(callbackQueue) >= 1
          /\ Len(radio) \in Nat
          /\ Len(radio) = 0 => radio = <<>>
      BY <1>5 DEF TypeOK
    <3>2. Len(radio) + Len(callbackQueue) <= 1
      BY DEF OneInFlight
    <3>3. \A a, b \in Nat : a + b <= 1 /\ b >= 1 => a = 0 /\ b = 1
      OBVIOUS
    <3>4. Len(callbackQueue) = 1 /\ Len(radio) = 0
      BY <3>1, <3>2, <3>3
    <3> QED BY <3>1, <3>4
  <2>2. /\ callbackQueue = <<Head(callbackQueue)>>
        /\ Head(callbackQueue) \in Outcomes
        /\ DOMAIN callbackQueue = {1} /\ callbackQueue[1] = Head(callbackQueue)
    BY <1>5, <2>1 DEF TypeOK
  <2>3. Reported = <<Head(callbackQueue).destination>>
    BY <2>2 DEF Reported
  <2>4. Head(callbackQueue).destination \in Destinations
    BY <2>2 DEF Outcomes
  <2>5. Reported \o radio \o Unsent
           = (<<Head(callbackQueue).destination>> \o <<>>) \o Unsent
    BY <2>1, <2>3
  <2> QED BY <1>1, <1>5, <2>1, <2>2, <2>4, <2>5, AheadOf DEF WaitingIsPlaced
<1> QED BY <1>1, <1>3, <1>4, <1>5 DEF WaitingIsPlaced

(* ... and so in the next one.                                             *)
LEMMA WaitingPacketsNext == IInv' => WaitingIsPlaced'
BY WaitingPackets, PTL

(* Every step is a step of SendService or leaves it as it is.              *)
LEMMA StepsAreService ==
    IInv /\ IInv' /\ [Next]_vars => [Service!Next]_(Service!vars)
<1> DEFINE waiting == Reported \o radio \o Unsent
<1> SUFFICES ASSUME IInv, IInv', [Next]_vars
             PROVE  Service!Next \/ (waiting' = waiting /\ recorded' = recorded)
  BY DEF Service!vars
<1>0. /\ sendQueue \in Seq(Destinations)
      /\ at \in {"Handed", "Refused"} => sendQueue # <<>>
  BY DEF IInv, TypeOK, FlightState
<1>00. WaitingIsPlaced /\ WaitingIsPlaced'
  BY WaitingPackets, WaitingPacketsNext
<1>1. ASSUME NEW destination \in Destinations, Send(destination)
      PROVE  Service!Next
  <2>1. /\ Unsent = sendQueue /\ Unsent' = Append(Unsent, destination)
        /\ radio' = radio /\ callbackQueue' = callbackQueue
        /\ recorded' = recorded /\ inFlightTo' = inFlightTo
    BY <1>1 DEF Send, Unsent, flight, espNow, results
  <2>2. waiting' = Append(waiting, destination)
    <3>1. CASE radio = <<>> /\ callbackQueue = <<>>
      BY <2>1, <3>1, <1>00 DEF WaitingIsPlaced
    <3>2. CASE radio # <<>>
      <4>1. inFlightTo \in Destinations /\ Unsent \in Seq(Destinations)
        BY <3>2, <1>00 DEF WaitingIsPlaced
      <4> QED BY <2>1, <3>2, <4>1, <1>00, AheadOf DEF WaitingIsPlaced
    <3>3. CASE callbackQueue # <<>>
      <4>1. /\ Head(callbackQueue).destination \in Destinations
            /\ Unsent \in Seq(Destinations)
        BY <3>3, <1>00 DEF Outcomes, WaitingIsPlaced
      <4> QED BY <2>1, <3>3, <4>1, <1>00, AheadOf DEF WaitingIsPlaced
    <3> QED BY <3>1, <3>2, <3>3
  <2> QED BY <2>1, <2>2 DEF Service!Next, Service!Accept
<1>2. ASSUME NEW x \in Destinations, NEW sent \in BOOLEAN,
             waiting = <<x>> \o Unsent, waiting' = Unsent,
             recorded' = Outcome(x, sent)
      PROVE  Service!Next
  <2>1. Unsent \in Seq(Destinations)
    BY <1>00 DEF WaitingIsPlaced
  <2>2. waiting # <<>> /\ Head(waiting) = x /\ Tail(waiting) = Unsent
    BY <1>2, <2>1, AheadOf
  <2>3. Service!Complete
    BY <1>2, <2>2 DEF Service!Complete, Outcome
  <2> QED BY <2>3 DEF Service!Next
<1>3. CASE ProcessSendCallback
  <2>1. /\ callbackQueue # <<>> /\ callbackQueue' = Tail(callbackQueue)
        /\ radio' = radio /\ Unsent' = Unsent
        /\ recorded' = Head(callbackQueue)
    BY <1>3 DEF ProcessSendCallback, PushResult, Unsent, task, espNow
  <2>2. /\ radio = <<>> /\ Head(callbackQueue) \in Outcomes
        /\ waiting = <<Head(callbackQueue).destination>> \o Unsent
        /\ callbackQueue' = <<>>
    BY <2>1, <1>00 DEF WaitingIsPlaced
  <2>3. waiting' = Unsent
    BY <2>1, <2>2, <1>00 DEF WaitingIsPlaced
  <2>4. /\ Head(callbackQueue).destination \in Destinations
        /\ Head(callbackQueue).sent \in BOOLEAN
        /\ Head(callbackQueue) = Outcome(Head(callbackQueue).destination,
                                         Head(callbackQueue).sent)
    BY <2>2 DEF Outcomes, Outcome
  <2> HIDE DEF waiting
  <2> QED BY <1>2, <2>1, <2>2, <2>3, <2>4
<1>4. CASE HandToRadio
  <2>1. /\ sendQueue # <<>> /\ Unsent = sendQueue /\ Unsent' = Tail(sendQueue)
        /\ inFlightTo' = Head(sendQueue) /\ recorded' = recorded
        /\ callbackQueue' = callbackQueue
        /\ radio' = Append(radio, Head(sendQueue))
    BY <1>4 DEF HandToRadio, MayStart, Unsent, results
  <2>2. radio = <<>> /\ callbackQueue = <<>>
    BY <1>4 DEF HandToRadio, MayStart, IInv, OneInFlight
  <2>3. waiting = sendQueue /\ radio' # <<>>
    BY <2>1, <2>2, <1>00 DEF WaitingIsPlaced
  <2>4. waiting' = <<Head(sendQueue)>> \o Tail(sendQueue)
    BY <2>1, <2>3, <1>00 DEF WaitingIsPlaced
  <2>5. <<Head(sendQueue)>> \o Tail(sendQueue) = sendQueue
    BY <1>0, <2>1
  <2> QED BY <2>1, <2>3, <2>4, <2>5
<1>5. CASE RemoveHanded
  <2>1. /\ Unsent' = Unsent /\ radio' = radio
        /\ callbackQueue' = callbackQueue /\ recorded' = recorded
    BY <1>5 DEF RemoveHanded, Unsent, flight, espNow, results
  <2> QED BY <2>1 DEF Reported
<1>6. CASE RemoveRefused
  <2>1. /\ sendQueue # <<>> /\ Unsent = sendQueue /\ Unsent' = Tail(sendQueue)
        /\ recorded' = Outcome(Head(sendQueue), FALSE)
        /\ callbackQueue' = callbackQueue /\ radio' = radio
    BY <1>0, <1>6 DEF RemoveRefused, PushResult, Unsent, espNow
  <2>2. radio = <<>> /\ callbackQueue = <<>>
    BY <1>6 DEF RemoveRefused, IInv, FlightState
  <2>3. waiting = sendQueue /\ waiting' = Tail(sendQueue)
    BY <2>1, <2>2, <1>00 DEF WaitingIsPlaced
  <2>4. Service!Complete
    BY <2>1, <2>3 DEF Service!Complete, Outcome
  <2> QED BY <2>4 DEF Service!Next
<1>7. CASE OnSend
  <2>1. /\ radio # <<>> /\ radio' = Tail(radio) /\ Unsent' = Unsent
        /\ recorded' = recorded
    BY <1>7 DEF OnSend, Unsent, task, results
  <2>2. /\ radio = <<inFlightTo>> /\ callbackQueue = <<>>
        /\ inFlightTo \in Destinations /\ waiting = <<inFlightTo>> \o Unsent
    BY <2>1, <1>00 DEF WaitingIsPlaced
  <2>3. PICK sent \in BOOLEAN :
            callbackQueue' = Push(callbackQueue, CallbackCapacity,
                                  Outcome(inFlightTo, sent))
    BY <1>7, <2>2 DEF OnSend
  <2>4. callbackQueue' = <<Outcome(inFlightTo, sent)>>
    <3>1. /\ CallbackCapacity \in Nat \ {0}
          /\ callbackQueue \in Seq(Outcomes) /\ callbackQueue = <<>>
          /\ Outcome(inFlightTo, sent) \in Outcomes
      BY <2>2, CapacitiesArePositive DEF IInv, TypeOK, Outcomes, Outcome
    <3> QED BY <2>3, <3>1, PushType
  <2>5. callbackQueue' # <<>> /\ Head(callbackQueue').destination = inFlightTo
    BY <2>4 DEF Outcome
  <2>6. waiting' = <<inFlightTo>> \o Unsent
    BY <2>1, <2>5, <1>00 DEF WaitingIsPlaced
  <2> QED BY <2>1, <2>2, <2>6
<1>8. CASE \/ Update \/ CallbacksProcessed \/ RadioRefuses \/ LoseCallback
           \/ NothingToStart \/ Return \/ UNCHANGED vars
  <2>1. /\ Unsent' = Unsent /\ radio' = radio
        /\ callbackQueue' = callbackQueue /\ recorded' = recorded
    BY <1>8 DEF Update, CallbacksProcessed, RadioRefuses, MayStart,
                LoseCallback, NothingToStart, Return, Unsent, vars, task,
                flight, espNow, results
  <2> QED BY <2>1 DEF Reported
<1> QED BY <1>1, <1>3, <1>4, <1>5, <1>6, <1>7, <1>8 DEF Next, TaskStep

(* SendPath implements the safety part of SendService: packets leave in    *)
(* order, and each outcome names the packet it is about, also when OnSend  *)
(* gets no address.                                                        *)
THEOREM ImplementsService == Spec => SentInOrder
<1>1. Init => Service!Init
  BY DEF Init, Service!Init, Reported, Unsent
<1> QED BY <1>1, StepsAreService, InvariantHolds, PTL
        DEF Spec, SentInOrder, Service!Safety
=============================================================================
