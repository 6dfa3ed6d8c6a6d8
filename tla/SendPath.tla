------------------------------ MODULE SendPath ------------------------------
(***************************************************************************)
(* The send path of src/EspNowTransport.cpp.  The measurement task queues  *)
(* packets with Send and, once per cycle, calls Update, which collects the *)
(* outcomes that the WiFi task's OnSend callback has left, and hands the   *)
(* next packet to ESP-NOW when none is in flight.  OnSend runs at any      *)
(* moment, also between two statements of the measurement task.            *)
(*                                                                         *)
(* A packet is represented by its destination.  Begin is Init; End is not  *)
(* called once Begin has succeeded.                                        *)
(***************************************************************************)
EXTENDS Integers, Sequences

CONSTANTS
    Destinations,       \* MAC addresses
    NoDestination,      \* m_inFlightDestinationMac before the first packet
    NoOutcome,          \* no outcome was recorded yet
    SendCapacity,       \* SendQueueLength (16)
    CallbackCapacity,   \* SendCallbackQueueLength (4)
    ResultCapacity,     \* SendResultQueueLength (16)
    Faults              \* what ESP-NOW may do: subset of PossibleFaults

PossibleFaults == {"lostCallback"}

ASSUME CapacitiesAssumption ==
    /\ {SendCapacity, CallbackCapacity, ResultCapacity} \subseteq Nat \ {0}
    /\ Faults \subseteq PossibleFaults

VARIABLES
    at,             \* where the measurement task is: see Places
    taking,         \* ... and whether it is in TryGetSendResult
    sendQueue,      \* m_sendQueue
    inFlight,       \* m_sendInFlight
    inFlightTo,     \* m_inFlightDestinationMac
    radio,          \* packets ESP-NOW has accepted and not reported
    silent,         \* ... and never will
    callbackQueue,  \* m_sendCallbackQueue
    resultQueue,    \* m_sendResultQueue
    recorded        \* the outcome pushed last, whether or not there was room

task == <<at, taking>>
flight == <<inFlight, inFlightTo>>
espNow == <<radio, silent>>
results == <<resultQueue, recorded>>
vars == <<task, sendQueue, flight, espNow, callbackQueue, results>>

Places ==
    {"Idle",        \* in no method of the transport
     "Callbacks",   \* ProcessSendCallbacks
     "Start",       \* StartNextSend, at the head of its loop
     "Handed",      \* esp_now_send has succeeded
     "Refused",     \* esp_now_send has failed
     "Return"}      \* StartNextSend is done

Init ==
    /\ at = "Idle" /\ taking = FALSE
    /\ sendQueue = <<>>
    /\ inFlight = FALSE /\ inFlightTo = NoDestination
    /\ radio = <<>> /\ silent = FALSE /\ callbackQueue = <<>>
    /\ resultQueue = <<>> /\ recorded = NoOutcome

(* xQueueSend without waiting.                                             *)
Push(queue, capacity, item) ==
    IF Len(queue) < capacity THEN Append(queue, item) ELSE queue

Outcome(destination, sent) == [destination |-> destination, sent |-> sent]

-----------------------------------------------------------------------------
(* The operators named Buggy... are plausible mistakes in the definition   *)
(* that follows them.  Nothing uses them; they show which property would   *)
(* notice the mistake.                                                     *)

(* A full queue refuses the packet: nothing changes.                       *)
Send(destination) ==
    /\ at = "Idle"
    /\ Len(sendQueue) < SendCapacity
    /\ sendQueue' = Append(sendQueue, destination)
    /\ at' = "Start"
    /\ UNCHANGED <<taking, flight, espNow, callbackQueue, results>>

(* Update, or TryGetSendResult, which begins with it.                      *)
Update ==
    /\ at = "Idle"
    /\ at' = "Callbacks"
    /\ taking' \in BOOLEAN
    /\ UNCHANGED <<sendQueue, flight, espNow, callbackQueue, results>>

PushResult(outcome) ==
    /\ resultQueue' = Push(resultQueue, ResultCapacity, outcome)
    /\ recorded' = outcome

ProcessSendCallback ==
    /\ at = "Callbacks" /\ callbackQueue # <<>>
    /\ callbackQueue' = Tail(callbackQueue)
    /\ inFlight' = FALSE
    /\ PushResult(Head(callbackQueue))
    /\ UNCHANGED <<task, sendQueue, inFlightTo, espNow>>

CallbacksProcessed ==
    /\ at = "Callbacks" /\ callbackQueue = <<>>
    /\ at' = "Start"
    /\ UNCHANGED <<taking, sendQueue, flight, espNow, callbackQueue, results>>

BuggyMayStart == at = "Start" /\ sendQueue # <<>>      \* whatever is in flight
MayStart == at = "Start" /\ ~inFlight /\ sendQueue # <<>>

(* The packet stays in the queue until esp_now_send has returned.  Nothing *)
(* is with ESP-NOW before, so no callback sees the address half written.   *)
BuggyHandToRadio ==         \* the address of the packet before
    /\ MayStart
    /\ inFlight' = TRUE /\ UNCHANGED inFlightTo
    /\ radio' = Append(radio, Head(sendQueue))
    /\ at' = "Handed"
    /\ UNCHANGED <<taking, sendQueue, silent, callbackQueue, results>>
HandToRadio ==
    /\ MayStart
    /\ inFlight' = TRUE /\ inFlightTo' = Head(sendQueue)
    /\ radio' = Append(radio, Head(sendQueue))
    /\ at' = "Handed"
    /\ UNCHANGED <<taking, sendQueue, silent, callbackQueue, results>>

RadioRefuses ==
    /\ MayStart
    /\ inFlight' = TRUE /\ inFlightTo' = Head(sendQueue)
    /\ at' = "Refused"
    /\ UNCHANGED <<taking, sendQueue, espNow, callbackQueue, results>>

RemoveHanded ==
    /\ at = "Handed"
    /\ sendQueue' = Tail(sendQueue)
    /\ at' = "Return"
    /\ UNCHANGED <<taking, flight, espNow, callbackQueue, results>>

(* A packet that could not be handed over has failed; the loop goes on.    *)
BuggyRemoveRefused ==       \* leaves m_sendInFlight set
    /\ at = "Refused"
    /\ sendQueue' = Tail(sendQueue)
    /\ PushResult(Outcome(Head(sendQueue), FALSE))
    /\ at' = "Start"
    /\ UNCHANGED <<taking, flight, espNow, callbackQueue>>
RemoveRefused ==
    /\ at = "Refused"
    /\ sendQueue' = Tail(sendQueue)
    /\ inFlight' = FALSE
    /\ PushResult(Outcome(Head(sendQueue), FALSE))
    /\ at' = "Start"
    /\ UNCHANGED <<taking, inFlightTo, espNow, callbackQueue>>

NothingToStart ==
    /\ at = "Start" /\ ~MayStart
    /\ at' = "Return"
    /\ UNCHANGED <<taking, sendQueue, flight, espNow, callbackQueue, results>>

(* Back to the caller; TryGetSendResult takes a result if there is one.    *)
Return ==
    /\ at = "Return"
    /\ at' = "Idle" /\ taking' = FALSE
    /\ resultQueue' = IF taking /\ resultQueue # <<>> THEN Tail(resultQueue)
                      ELSE resultQueue
    /\ UNCHANGED <<sendQueue, flight, espNow, callbackQueue, recorded>>

-----------------------------------------------------------------------------
(* The WiFi task reports the packet; without address information OnSend    *)
(* takes the destination in flight.                                        *)
OnSend ==
    /\ radio # <<>> /\ ~silent
    /\ \E sent \in BOOLEAN, destination \in {Head(radio), inFlightTo} :
          callbackQueue' = Push(callbackQueue, CallbackCapacity,
                                Outcome(destination, sent))
    /\ radio' = Tail(radio)
    /\ UNCHANGED <<task, sendQueue, flight, silent, results>>

LoseCallback ==
    /\ "lostCallback" \in Faults
    /\ radio # <<>>
    /\ silent' = TRUE
    /\ UNCHANGED <<task, sendQueue, flight, radio, callbackQueue, results>>

TaskStep ==
    \/ ProcessSendCallback \/ CallbacksProcessed
    \/ HandToRadio \/ RadioRefuses \/ RemoveHanded \/ RemoveRefused
    \/ NothingToStart \/ Return

Next ==
    \/ \E destination \in Destinations : Send(destination)
    \/ Update
    \/ TaskStep
    \/ OnSend \/ LoseCallback

Spec == Init /\ [][Next]_vars

(* The task calls Update in every cycle, and its methods return; ESP-NOW   *)
(* reports or loses.                                                       *)
Fairness ==
    /\ SF_vars(Update) /\ WF_vars(TaskStep)
    /\ WF_vars(OnSend \/ LoseCallback)

FairSpec == Spec /\ Fairness

-----------------------------------------------------------------------------
Outcomes == [destination : Destinations, sent : BOOLEAN]

(* Type invariant of the send path.                                        *)
TypeOK ==
    /\ at \in Places /\ taking \in BOOLEAN
    /\ sendQueue \in Seq(Destinations) /\ Len(sendQueue) <= SendCapacity
    /\ inFlight \in BOOLEAN /\ inFlightTo \in Destinations \cup {NoDestination}
    /\ radio \in Seq(Destinations) /\ silent \in BOOLEAN
    /\ callbackQueue \in Seq(Outcomes) /\ resultQueue \in Seq(Outcomes)
    /\ Len(resultQueue) <= ResultCapacity
    /\ recorded \in Outcomes \cup {NoOutcome}

(* At most one packet is with ESP-NOW or has its outcome on the way        *)
(* (docs/sequential-ranging-time-sync.md:112), and then inFlight says so,  *)
(* although another task moves it from radio to callbackQueue.             *)
OneInFlight ==
    /\ Len(radio) + Len(callbackQueue) <= 1
    /\ radio # <<>> \/ callbackQueue # <<>> => inFlight

(* No step drops an outcome for want of room in the callback queue.        *)
NoCallbackDropped ==
    [][Len(radio') < Len(radio)
       => Len(callbackQueue') = Len(callbackQueue) + 1]_vars

(* Packets are sent in order and each has its own outcome.                 *)
Reported == [i \in DOMAIN callbackQueue |-> callbackQueue[i].destination]
Unsent == IF at = "Handed" THEN Tail(sendQueue) ELSE sendQueue
Service == INSTANCE SendService
    WITH waiting <- Reported \o radio \o Unsent, outcome <- recorded
SentInOrder == Service!Safety

(* Every accepted packet is sent and reported, if ESP-NOW reports.         *)
AllSent == [](~silent) => Service!Liveness

(* The wait for a send to complete ends (50 ms at most, says               *)
(* docs/sequential-ranging-time-sync.md:1052).                             *)
SendWaitEnds == inFlight ~> ~inFlight

-----------------------------------------------------------------------------
(* The inductive invariant behind OneInFlight and SentInOrder: what is in  *)
(* flight is for the address that OnSend falls back to, and while          *)
(* StartNextSend is between esp_now_send and removing the packet, it is    *)
(* the head of the queue.                                                  *)
FlightState ==
    /\ radio # <<>> => radio = <<inFlightTo>>
    /\ at \in {"Handed", "Refused"} =>
          /\ inFlight /\ sendQueue # <<>> /\ inFlightTo = Head(sendQueue)
    /\ at = "Refused" => radio = <<>> /\ callbackQueue = <<>>

IInv == TypeOK /\ OneInFlight /\ FlightState
=============================================================================
