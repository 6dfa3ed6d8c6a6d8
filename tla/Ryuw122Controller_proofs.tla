---------------------- MODULE Ryuw122Controller_proofs ----------------------
(***************************************************************************)
(* Proofs about Ryuw122Controller for every set of TAGs, every timeout,    *)
(* drain and answer time with AnswerTime < Timeout + DrainTime, and every  *)
(* clock that does not come around within one of them.                     *)
(***************************************************************************)
EXTENDS Ryuw122Controller, TLAPS

(* The constants are numbers.                                              *)
LEMMA ConstantsAreNumbers ==
    /\ Timeout \in Nat /\ DrainTime \in Nat /\ AnswerTime \in Nat
    /\ CycleTime \in Nat /\ ClockModulus \in Nat \ {0}
    /\ FifoCapacity \in Nat \ {0}
    /\ AnswerTime < Timeout + DrainTime
BY TimesAssumption

(* The time since a moment is a number, zero at that moment.               *)
LEMMA ElapsedIsNumber ==
    ASSUME now \in Times, NEW since \in Times
    PROVE  Elapsed(since) \in Nat /\ (since = now => Elapsed(since) = 0)
BY ConstantsAreNumbers DEF Elapsed, Times

(* When the clock ticks, wrapping or not, the time since a moment grows by *)
(* at most one.                                                            *)
LEMMA ElapsedGrowsByOne ==
    ASSUME now \in Times, NEW since \in Times, Tick
    PROVE  /\ now' \in Times
           /\ (IF now' >= since THEN now' - since
               ELSE now' - since + ClockModulus) <= Elapsed(since) + 1
BY ConstantsAreNumbers DEF Elapsed, Times, Tick

(* DriverInv holds initially.                                                   *)
LEMMA InitDriverInv == Init => DriverInv
<1> SUFFICES ASSUME Init PROVE DriverInv
  OBVIOUS
<1>1. /\ 0 \in Times /\ 0 \in 0..CycleTime
      /\ <<>> \in Seq(Lines) /\ {} \in SUBSET Commands
  BY ConstantsAreNumbers DEF Times
<1>2. TypeOK
  BY <1>1 DEF Init, TypeOK, Times
<1>3. OneCommand /\ OwnOnly /\ AnswerIsLast
  BY DEF Init, OneCommand, OwnOnly, AllOwn, AnswerIsLast, EndsTalk
<1>4. AnswersInTime /\ DriverState
  BY TagsAssumption DEF Init, AnswersInTime, DriverState
<1> QED BY <1>2, <1>3, <1>4 DEF DriverInv

(* A command starts with the device silent, and is then the only one.      *)
LEMMA StartRangingDriverInv ==
    ASSUME DriverInv, NEW tag \in Tags, StartRanging(tag)
    PROVE  DriverInv'
<1> DEFINE new == [tag |-> tag, left |-> AnswerTime, acknowledged |-> FALSE,
                   own |-> TRUE]
<1>1. /\ state = "Idle" /\ result = NoResult /\ ~updating
      /\ wire = <<>> /\ pending = {} /\ fifo = <<>>
  BY DEF StartRanging, IsBusy, DriverInv, DriverState
<1>2. wire' = <<>> /\ pending' = {new} /\ fifo' = <<>>
  BY <1>1 DEF StartRanging
<1>3. new \in Commands /\ new.own /\ new.left = AnswerTime
  BY ConstantsAreNumbers DEF Commands
<1>4. TypeOK'
  <2>1. wire' \in Seq(Lines) /\ fifo' \in Seq(Lines) /\ pending' \in SUBSET Commands
    BY <1>2, <1>3
  <2>2. /\ now \in Times /\ now' = now /\ startedAt' = now
        /\ active' = tag /\ state' = "WaitingForResponse"
        /\ acknowledged' = FALSE /\ trusted' = TRUE
    BY DEF StartRanging, DriverInv, TypeOK, clock
  <2> QED BY <2>1, <2>2 DEF StartRanging, DriverInv, TypeOK, clock, drain
<1>5. OneCommand' /\ OwnOnly' /\ AnswerIsLast'
  <2>1. OneCommand'
    BY <1>2 DEF OneCommand
  <2>2. trusted' = TRUE
    BY DEF StartRanging
  <2>3. OwnOnly'
    BY <1>2, <1>3, <2>2 DEF OwnOnly, AllOwn
  <2>4. AnswerIsLast'
    BY <1>2 DEF AnswerIsLast, EndsTalk
  <2> QED BY <2>1, <2>3, <2>4
<1>6. AnswersInTime'
  <2>1. Elapsed(startedAt)' = 0
    BY DEF StartRanging, Elapsed, clock, DriverInv, TypeOK, Times
  <2> QED BY <1>2, <1>3, <2>1, ConstantsAreNumbers
          DEF AnswersInTime, StartRanging
<1>7. DriverState'
  BY <1>1, <1>2, TagsAssumption DEF DriverState, StartRanging
<1> QED BY <1>4, <1>5, <1>6, <1>7 DEF DriverInv

(* A command that fails at once, and taking a result, only change results. *)
LEMMA ResultStepsDriverInv ==
    ASSUME DriverInv, (\E tag \in Tags : FailToStartRanging(tag)) \/ TryTakeResult
    PROVE  DriverInv'
<1>1. /\ UNCHANGED <<clock, state, active, drain, fifo, updating, device>>
      /\ ~updating
      /\ state # "WaitingForResponse" \/ result' = NoResult
      /\ result' \in Results \cup {NoResult}
      /\ startedAt' \in Times /\ acknowledged' \in BOOLEAN /\ trusted'
      /\ state = "WaitingForResponse" => startedAt' = startedAt
  <2>1. CASE TryTakeResult
    BY <2>1 DEF TryTakeResult, DriverInv, TypeOK, OwnOnly, command
  <2>2. ASSUME NEW tag \in Tags, FailToStartRanging(tag)
        PROVE  /\ UNCHANGED <<clock, state, active, drain, fifo, updating,
                              device>>
               /\ ~updating /\ state = "Idle"
               /\ result' \in Results
               /\ startedAt' \in Times
               /\ acknowledged' = FALSE /\ trusted' = TRUE
    BY <2>2 DEF FailToStartRanging, IsBusy, Results, Result, DriverInv, TypeOK
  <2> QED BY <2>1, <2>2
<1>2. /\ now' = now /\ sinceUpdate' = sinceUpdate /\ state' = state
      /\ active' = active /\ drainTag' = drainTag
      /\ drainStartedAt' = drainStartedAt /\ fifo' = fifo
      /\ updating' = updating /\ wire' = wire /\ pending' = pending
  BY <1>1 DEF clock, drain, device
<1>3. TypeOK'
  <2>1. trusted' \in BOOLEAN
    <3>1. CASE TryTakeResult
      BY <3>1 DEF TryTakeResult, DriverInv, TypeOK, command
    <3>2. CASE \E tag \in Tags : FailToStartRanging(tag)
      BY <3>2 DEF FailToStartRanging
    <3> QED BY <3>1, <3>2
  <2> QED BY <1>1, <1>2, <2>1 DEF DriverInv, TypeOK
<1>4. OneCommand' /\ OwnOnly' /\ AnswerIsLast'
  BY <1>1, <1>2 DEF DriverInv, OneCommand, OwnOnly, AllOwn, AnswerIsLast, EndsTalk
<1>5. AnswersInTime'
  BY <1>1, <1>2 DEF DriverInv, AnswersInTime, Elapsed
<1>6. DriverState'
  BY <1>1, <1>2 DEF DriverInv, DriverState
<1> QED BY <1>3, <1>4, <1>5, <1>6 DEF DriverInv

(* The device's acknowledgement, answer or silence: it is about the one    *)
(* pending command, and after an answer there is none.                     *)
LEMMA DeviceDriverInv ==
    ASSUME DriverInv, NEW c \in pending,
           DeviceAcknowledges(c) \/ DeviceAnswers(c) \/ DeviceStaysSilent(c)
    PROVE  DriverInv'
<1> USE DEF DriverInv
<1>1. /\ c \in Commands /\ c.own
      /\ pending = {c}
      /\ state # "Idle"
      /\ \A i \in DOMAIN wire : wire[i].kind = "OK" /\ wire[i].own
      /\ \A i \in DOMAIN fifo : fifo[i].kind = "OK" /\ fifo[i].own
      /\ wire \in Seq(Lines)
  <2>1. c \in Commands /\ c.own /\ pending = {c} /\ state # "Idle"
    BY DEF TypeOK, OwnOnly, OneCommand, DriverState
  <2>2. \A i \in DOMAIN wire : wire[i].kind = "OK" /\ wire[i].own
    BY DEF OwnOnly, AllOwn, AnswerIsLast, EndsTalk
  <2>3. \A i \in DOMAIN fifo : fifo[i].kind = "OK" /\ fifo[i].own
    BY DEF OwnOnly, AllOwn, AnswerIsLast, EndsTalk
  <2> QED BY <2>1, <2>2, <2>3 DEF TypeOK
<1>2. /\ now' = now /\ sinceUpdate' = sinceUpdate /\ state' = state
      /\ active' = active /\ startedAt' = startedAt
      /\ acknowledged' = acknowledged /\ trusted' = trusted
      /\ drainTag' = drainTag /\ drainStartedAt' = drainStartedAt
      /\ result' = result /\ fifo' = fifo /\ updating' = updating
  BY DEF DeviceAcknowledges, DeviceAnswers, DeviceStaysSilent, clock, driver,
         command, drain
<1>3. PICK left \in SUBSET Commands :
          /\ pending' = left
          /\ \A d \in left : d.own /\ d.left = c.left
          /\ \A d, e \in left : d = e
          /\ \/ wire' = wire
             \/ \E line \in Lines :
                   /\ line.own /\ wire' = Append(wire, line)
                   /\ line.kind # "OK" => left = {}
  <2>1. CASE DeviceAcknowledges(c)
    <3> DEFINE new == [c EXCEPT !.acknowledged = TRUE]
               line == Line("OK", c)
    <3>1. new \in Commands /\ new.own /\ new.left = c.left
      BY <1>1 DEF Commands
    <3>2. line \in Lines /\ line.own /\ line.kind = "OK"
      BY <1>1 DEF Commands, Lines, Line
    <3>3. pending' = {new} /\ wire' = Append(wire, line)
      BY <1>1, <2>1 DEF DeviceAcknowledges
    <3> HIDE DEF new, line
    <3>4. {new} \in SUBSET Commands
      BY <3>1
    <3> QED BY <3>1, <3>2, <3>3, <3>4
  <2>2. CASE DeviceAnswers(c)
    <3>1. PICK kind \in {"Answer", "Error"} : wire' = Append(wire, Line(kind, c))
      BY <2>2 DEF DeviceAnswers
    <3>2. Line(kind, c) \in Lines /\ Line(kind, c).own
      BY <1>1 DEF Commands, Lines, Line
    <3>3. pending' = {}
      BY <1>1, <2>2 DEF DeviceAnswers
    <3> WITNESS {} \in SUBSET Commands
    <3> QED BY <3>1, <3>2, <3>3
  <2>3. CASE DeviceStaysSilent(c)
    <3>1. pending' = {} /\ wire' = wire
      BY <1>1, <2>3 DEF DeviceStaysSilent
    <3> WITNESS {} \in SUBSET Commands
    <3> QED BY <3>1
  <2> QED BY <2>1, <2>2, <2>3
<1>4. /\ wire' \in Seq(Lines)
      /\ AllOwn(wire)'
      /\ EndsTalk(wire)'
  <2>1. CASE wire' = wire
    BY <1>1, <2>1 DEF AllOwn, EndsTalk
  <2>2. ASSUME NEW line \in Lines, line.own, wire' = Append(wire, line),
               line.kind # "OK" => left = {}
        PROVE  wire' \in Seq(Lines) /\ AllOwn(wire)' /\ EndsTalk(wire)'
    <3>1. /\ wire' \in Seq(Lines) /\ Len(wire') = Len(wire) + 1
          /\ DOMAIN wire' = 1..Len(wire') /\ DOMAIN wire = 1..Len(wire)
          /\ Len(wire) \in Nat
      BY <1>1, <2>2
    <3>2. \A i \in DOMAIN wire' :
              wire'[i] = IF i = Len(wire') THEN line ELSE wire[i]
      BY <1>1, <2>2, <3>1
    <3>3. \A i \in DOMAIN wire' : i # Len(wire') => i \in DOMAIN wire
      BY <3>1
    <3>4. AllOwn(wire)'
      BY <1>1, <2>2, <3>2, <3>3 DEF AllOwn
    <3>5. EndsTalk(wire)'
      BY <1>1, <1>3, <2>2, <3>2, <3>3 DEF EndsTalk
    <3> QED BY <3>1, <3>4, <3>5
  <2> QED BY <1>3, <2>1, <2>2
<1>5. TypeOK'
  BY <1>2, <1>3, <1>4 DEF TypeOK
<1>6. OneCommand'
  BY <1>3 DEF OneCommand
<1>7. OwnOnly'
  BY <1>2, <1>3, <1>4 DEF OwnOnly, AllOwn
<1>8. AnswerIsLast'
  BY <1>1, <1>2, <1>4 DEF AnswerIsLast, EndsTalk
<1>9. AnswersInTime'
  BY <1>1, <1>2, <1>3 DEF AnswersInTime, Elapsed
<1>10. DriverState'
  BY <1>1, <1>2 DEF DriverState
<1> QED BY <1>5, <1>6, <1>7, <1>8, <1>9, <1>10

(* A tick takes from the device's time what the clock measures at most.    *)
LEMMA TickDriverInv ==
    ASSUME DriverInv, Tick
    PROVE  DriverInv'
<1> USE DEF DriverInv
<1> DEFINE Shorter(c) == [c EXCEPT !.left = @ - 1]
<1>1. /\ state' = state /\ active' = active /\ startedAt' = startedAt
      /\ acknowledged' = acknowledged /\ trusted' = trusted
      /\ drainTag' = drainTag /\ drainStartedAt' = drainStartedAt
      /\ result' = result /\ fifo' = fifo /\ updating' = updating
      /\ wire' = wire
      /\ pending' = {Shorter(c) : c \in pending}
  BY DEF Tick, driver, command, drain
<1>2. \A c \in pending :
          /\ Shorter(c) \in Commands /\ Shorter(c).left = c.left - 1
          /\ Shorter(c).own = c.own /\ c.left \in Nat
  <2> SUFFICES ASSUME NEW c \in pending
               PROVE  /\ Shorter(c) \in Commands
                      /\ Shorter(c).left = c.left - 1
                      /\ Shorter(c).own = c.own /\ c.left \in Nat
    OBVIOUS
  <2>1. c \in Commands /\ c.left > 0
    BY DEF Tick, TypeOK
  <2>2. c.left \in 0..AnswerTime /\ c.left - 1 \in 0..AnswerTime
    BY <2>1, ConstantsAreNumbers DEF Commands
  <2> QED BY <2>1, <2>2 DEF Commands
<1>3. now' \in Times /\ sinceUpdate' \in 0..CycleTime
  BY ElapsedGrowsByOne, ConstantsAreNumbers DEF Tick, TypeOK
<1>4. /\ Elapsed(startedAt)' <= Elapsed(startedAt) + 1
      /\ Elapsed(drainStartedAt)' <= Elapsed(drainStartedAt) + 1
      /\ Elapsed(startedAt) \in Nat /\ Elapsed(drainStartedAt) \in Nat
      /\ Elapsed(startedAt)' \in Nat /\ Elapsed(drainStartedAt)' \in Nat
  <2>1. startedAt \in Times /\ drainStartedAt \in Times /\ now \in Times
    BY DEF TypeOK
  <2>2. /\ Elapsed(startedAt)' <= Elapsed(startedAt) + 1
        /\ Elapsed(drainStartedAt)' <= Elapsed(drainStartedAt) + 1
    BY <1>1, <2>1, ElapsedGrowsByOne DEF Elapsed
  <2>3. Elapsed(startedAt)' \in Nat /\ Elapsed(drainStartedAt)' \in Nat
    BY <1>1, <1>3, <2>1, ConstantsAreNumbers DEF Elapsed, Times
  <2> QED BY <2>1, <2>2, <2>3, ElapsedIsNumber
<1> HIDE DEF Shorter
<1>5. TypeOK'
  BY <1>1, <1>2, <1>3 DEF TypeOK
<1>6. OneCommand' /\ OwnOnly'
  BY <1>1, <1>2 DEF OneCommand, OwnOnly, AllOwn
<1>7. AnswerIsLast'
  BY <1>1 DEF AnswerIsLast, EndsTalk
<1>8. AnswersInTime'
  BY <1>1, <1>2, <1>4, ConstantsAreNumbers DEF AnswersInTime
<1>9. DriverState'
  BY <1>1 DEF DriverState
<1> QED BY <1>5, <1>6, <1>7, <1>8, <1>9

(* Moving the arrived lines into the FIFO keeps what is known about them,  *)
(* even if it has no room for all of them.                                 *)
LEMMA EnqueuedLines ==
    ASSUME DriverInv, BeginUpdate
    PROVE  /\ fifo' \in Seq(Lines)
           /\ AllOwn(fifo)'
           /\ EndsTalk(fifo)'
           /\ wire' = <<>> /\ pending' = pending
<1>1. fifo \o wire = wire /\ wire \in Seq(Lines)
  BY DEF DriverInv, DriverState, TypeOK, BeginUpdate
<1>2. fifo' = Enqueued(wire) /\ wire' = <<>> /\ pending' = pending
  BY <1>1 DEF BeginUpdate
<1>3. AllOwn(wire) /\ EndsTalk(wire)
  BY DEF DriverInv, OwnOnly, AnswerIsLast
<1>4. CASE Len(wire) > FifoCapacity
  <2>1. /\ fifo' \in Seq(Lines)
        /\ Len(fifo') = FifoCapacity
        /\ \A i \in 1..FifoCapacity : fifo'[i] = wire[i] /\ i \in 1..Len(wire)
    BY <1>1, <1>2, <1>4, ConstantsAreNumbers DEF Enqueued
  <2>2. AllOwn(fifo)'
    BY <1>1, <1>3, <2>1 DEF AllOwn
  <2>3. \A i \in 1..FifoCapacity : fifo'[i].kind = "OK"
    BY <1>1, <1>3, <1>4, <2>1, ConstantsAreNumbers DEF EndsTalk
  <2>4. EndsTalk(fifo)'
    BY <2>1, <2>3, ConstantsAreNumbers DEF EndsTalk
  <2> QED BY <1>2, <2>1, <2>2, <2>4
<1>5. CASE ~(Len(wire) > FifoCapacity)
  BY <1>1, <1>2, <1>3, <1>5 DEF Enqueued, AllOwn, EndsTalk
<1> QED BY <1>4, <1>5

(* The timeouts keep the time that is left to the device: none after the   *)
(* drain.                                                                  *)
LEMMA BeginUpdateDriverInv ==
    ASSUME DriverInv, BeginUpdate
    PROVE  DriverInv'
<1> USE DEF DriverInv
<1>1. /\ fifo' \in Seq(Lines) /\ AllOwn(fifo)' /\ EndsTalk(fifo)'
      /\ wire' = <<>> /\ pending' = pending
  BY EnqueuedLines
<1>2. /\ now' = now /\ sinceUpdate' = 0 /\ updating' = TRUE
      /\ startedAt' = startedAt /\ trusted' = trusted /\ trusted = TRUE
      /\ now \in Times /\ startedAt \in Times /\ drainStartedAt \in Times
  <2>1. startedAt' = startedAt /\ trusted' = trusted
    BY DEF BeginUpdate, UpdateTimeouts, CompleteRanging, command
  <2>2. trusted = TRUE
    BY DEF TypeOK, OwnOnly
  <2> QED BY <2>1, <2>2 DEF BeginUpdate, TypeOK
<1>3. /\ Elapsed(startedAt)' = Elapsed(startedAt)
      /\ Elapsed(startedAt) \in Nat /\ Elapsed(drainStartedAt) \in Nat
  BY <1>2, ElapsedIsNumber DEF Elapsed
<1>4. \A c \in pending : c.left \in Nat
  BY ConstantsAreNumbers DEF TypeOK, Commands
<1>5. OneCommand' /\ OwnOnly' /\ AnswerIsLast'
  <2>1. OneCommand'
    BY <1>1 DEF OneCommand
  <2>2. OwnOnly'
    BY <1>1, <1>2 DEF OwnOnly, AllOwn
  <2>3. AnswerIsLast'
    BY <1>1 DEF AnswerIsLast, EndsTalk
  <2> QED BY <2>1, <2>2, <2>3
<1>6. CASE /\ state = "WaitingForResponse" /\ HasElapsed(startedAt, Timeout)
           /\ CompleteRanging("TimedOut", trusted)
           /\ BeginLateResponseDrain
  <2>1. /\ state' = "DrainingLateResponse" /\ active' = NoTag
        /\ active \in Tags /\ drainTag' = active /\ drainStartedAt' = now
        /\ acknowledged' = FALSE /\ result' \in Results
    BY <1>2, <1>6 DEF CompleteRanging, BeginLateResponseDrain, DriverState,
                      TypeOK, Results, Result
  <2>2. TypeOK'
    <3>1. 0 \in 0..CycleTime /\ drainStartedAt' \in Times /\ now' \in Times
      BY <1>2, <2>1, ConstantsAreNumbers
    <3>2. /\ trusted' \in BOOLEAN /\ acknowledged' \in BOOLEAN
          /\ updating' \in BOOLEAN /\ active' \in Tags \cup {NoTag}
          /\ drainTag' \in Tags \cup {NoTag} /\ startedAt' \in Times
      BY <1>2, <2>1
    <3>3. pending' \in SUBSET Commands /\ wire' \in Seq(Lines)
      BY <1>1 DEF TypeOK
    <3> QED BY <1>1, <1>2, <2>1, <3>1, <3>2, <3>3 DEF TypeOK
  <2>3. Elapsed(drainStartedAt)' = 0
    BY <1>2, <2>1 DEF Elapsed, Times
  <2>4. \A c \in pending : c.left <= AnswerTime - Timeout
    BY <1>3, <1>4, <1>6, ConstantsAreNumbers DEF AnswersInTime, HasElapsed
  <2>5. AnswersInTime'
    BY <1>1, <1>4, <2>1, <2>3, <2>4, ConstantsAreNumbers DEF AnswersInTime
  <2>6. DriverState'
    BY <1>2, <2>1 DEF DriverState
  <2> QED BY <1>5, <2>2, <2>5, <2>6
<1>7. CASE /\ state = "DrainingLateResponse"
           /\ HasElapsed(drainStartedAt, DrainTime)
           /\ EndLateResponseDrain
           /\ UNCHANGED <<command, result>>
  <2>1. pending = {}
    <3> SUFFICES ASSUME NEW c \in pending PROVE FALSE
      OBVIOUS
    <3> QED BY <1>3, <1>4, <1>7, ConstantsAreNumbers DEF AnswersInTime, HasElapsed
  <2>2. /\ state' = "Idle" /\ active' = active /\ drainTag' = NoTag
        /\ drainStartedAt' = drainStartedAt
        /\ acknowledged' = acknowledged /\ result' = result
    BY <1>7 DEF EndLateResponseDrain, command
  <2>3. TypeOK'
    BY <1>1, <1>2, <2>2, ConstantsAreNumbers DEF TypeOK
  <2>4. AnswersInTime'
    BY <2>2 DEF AnswersInTime
  <2>5. DriverState'
    BY <1>1, <1>2, <1>7, <2>1, <2>2 DEF DriverState
  <2> QED BY <1>5, <2>3, <2>4, <2>5
<1>8. CASE UNCHANGED <<state, command, drain, result>>
  <2>1. /\ state' = state /\ active' = active /\ drainTag' = drainTag
        /\ drainStartedAt' = drainStartedAt
        /\ acknowledged' = acknowledged /\ result' = result
    BY <1>8 DEF command, drain
  <2>2. TypeOK'
    BY <1>1, <1>2, <2>1, ConstantsAreNumbers DEF TypeOK
  <2>3. AnswersInTime'
    BY <1>1, <1>2, <1>3, <2>1 DEF AnswersInTime, Elapsed
  <2>4. DriverState'
    BY <1>1, <1>2, <2>1 DEF DriverState
  <2> QED BY <1>5, <2>2, <2>3, <2>4
<1> QED BY <1>6, <1>7, <1>8 DEF BeginUpdate, UpdateTimeouts

(* A response: whatever it is, it is the pending command's own; if it is   *)
(* an answer, the device is silent, and the driver may become ready.       *)
LEMMA TakeResponseDriverInv ==
    ASSUME DriverInv, TakeResponse
    PROVE  DriverInv'
<1> USE DEF DriverInv
<1> DEFINE line == Head(fifo)
<1>1. /\ updating' = updating /\ updating = TRUE
      /\ now' = now /\ sinceUpdate' = sinceUpdate
      /\ wire' = wire /\ pending' = pending
  BY DEF TakeResponse, clock, device, TypeOK
<1>2. /\ fifo \in Seq(Lines) /\ fifo # <<>> /\ Len(fifo) \in Nat \ {0}
      /\ fifo' = Tail(fifo) /\ fifo' \in Seq(Lines)
      /\ Len(fifo') = Len(fifo) - 1
      /\ \A i \in 1..Len(fifo') : fifo'[i] = fifo[i + 1] /\ i + 1 \in 1..Len(fifo)
      /\ line \in Lines /\ line = fifo[1] /\ 1 \in DOMAIN fifo
      /\ DOMAIN fifo' = 1..Len(fifo') /\ DOMAIN fifo = 1..Len(fifo)
  BY DEF TakeResponse, TypeOK
<1>3. line.own
  BY <1>2 DEF OwnOnly, AllOwn
<1>4. line.kind # "OK" => wire = <<>> /\ pending = {}
  BY <1>2 DEF AnswerIsLast, EndsTalk
<1>5. AllOwn(fifo)' /\ AnswerIsLast'
  <2>1. AllOwn(fifo)'
    BY <1>2 DEF AllOwn, OwnOnly
  <2>2. EndsTalk(fifo)'
    <3> SUFFICES ASSUME NEW i \in 1..Len(fifo'), fifo'[i].kind # "OK"
                 PROVE  i = Len(fifo') /\ pending' = {}
      BY <1>2 DEF EndsTalk
    <3>1. i + 1 = Len(fifo) /\ pending = {}
      BY <1>2 DEF AnswerIsLast, EndsTalk
    <3>2. i \in Nat /\ Len(fifo) \in Nat /\ Len(fifo') = Len(fifo) - 1
      BY <1>2
    <3> QED BY <1>1, <3>1, <3>2
  <2>3. \A i \in DOMAIN fifo' : fifo'[i].kind # "OK" => wire' = <<>>
    BY <1>1, <1>2 DEF AnswerIsLast
  <2>4. EndsTalk(wire)'
    BY <1>1 DEF AnswerIsLast, EndsTalk
  <2> QED BY <2>1, <2>2, <2>3, <2>4 DEF AnswerIsLast
<1> HIDE DEF line
<1>6. /\ startedAt' = startedAt /\ drainStartedAt' = drainStartedAt
      /\ trusted' = TRUE /\ acknowledged' \in BOOLEAN
      /\ \/ /\ state' = state /\ active' = active /\ result' = result
            /\ drainTag' = drainTag
         \/ /\ state' = "Idle" /\ line.kind # "OK"
            /\ state = "DrainingLateResponse" /\ active' = active
            /\ result' = result /\ drainTag' = NoTag
         \/ /\ state' = "Idle" /\ line.kind # "OK"
            /\ state = "WaitingForResponse" /\ active' = NoTag
            /\ result' \in Results /\ drainTag' = drainTag
  <2>0. trusted = TRUE /\ acknowledged \in BOOLEAN
    BY DEF OwnOnly, TypeOK
  <2>1. CASE HandleAcknowledgement(line)
    <3>1. trusted' = TRUE /\ acknowledged' \in BOOLEAN
      BY <1>3, <2>0, <2>1 DEF HandleAcknowledgement
    <3> QED BY <2>1, <3>1 DEF HandleAcknowledgement, drain
  <2>2. CASE HandleDrainedResponse(line)
    BY <2>0, <2>2 DEF HandleDrainedResponse, EndLateResponseDrain, command, drain
  <2>3. CASE HandleIgnoredResponse(line)
    BY <2>0, <2>3 DEF HandleIgnoredResponse, command, drain
  <2>4. CASE HandleAnswer(line)
    <3>1. state = "WaitingForResponse" /\ active \in Tags
      BY <2>4 DEF HandleAnswer, IsForActive, DriverState, TypeOK
    <3>2. PICK status \in {"Success", "Failed"} :
              CompleteRanging(status, trusted /\ line.own)
      BY <2>4 DEF HandleAnswer
    <3>3. result' \in Results
      BY <3>1, <3>2 DEF CompleteRanging, Result, Results
    <3> QED BY <2>0, <2>4, <3>1, <3>2, <3>3 DEF HandleAnswer, CompleteRanging, drain
  <2> QED BY <2>1, <2>2, <2>3, <2>4 DEF TakeResponse, line
<1>7. TypeOK'
  BY <1>1, <1>2, <1>6 DEF TypeOK
<1>8. OneCommand' /\ OwnOnly'
  BY <1>1, <1>5, <1>6 DEF OneCommand, OwnOnly, AllOwn
<1>9. AnswersInTime'
  BY <1>1, <1>6 DEF AnswersInTime, Elapsed
<1>10. DriverState'
  BY <1>1, <1>4, <1>6 DEF DriverState
<1> QED BY <1>5, <1>7, <1>8, <1>9, <1>10

(* The end of Update leaves an empty FIFO.                                 *)
LEMMA EndUpdateDriverInv ==
    ASSUME DriverInv, EndUpdate \/ UNCHANGED vars
    PROVE  DriverInv'
<1> USE DEF DriverInv
<1>1. /\ now' = now /\ sinceUpdate' = sinceUpdate /\ state' = state
      /\ active' = active /\ startedAt' = startedAt
      /\ acknowledged' = acknowledged /\ trusted' = trusted
      /\ drainTag' = drainTag /\ drainStartedAt' = drainStartedAt
      /\ result' = result /\ fifo' = fifo /\ wire' = wire /\ pending' = pending
  BY DEF EndUpdate, vars, clock, command, drain, device
<1>2. updating' \in BOOLEAN /\ (~updating' => fifo = <<>>)
  BY DEF EndUpdate, vars, TypeOK, DriverState
<1>3. TypeOK'
  BY <1>1, <1>2 DEF TypeOK
<1>4. OneCommand' /\ OwnOnly' /\ AnswerIsLast' /\ AnswersInTime'
  BY <1>1 DEF OneCommand, OwnOnly, AllOwn, AnswerIsLast, EndsTalk,
              AnswersInTime, Elapsed
<1>5. DriverState'
  BY <1>1, <1>2 DEF DriverState
<1> QED BY <1>3, <1>4, <1>5

(* Every step preserves DriverInv.                                         *)
LEMMA NextDriverInv == DriverInv /\ [Next]_vars => DriverInv'
BY StartRangingDriverInv, ResultStepsDriverInv, DeviceDriverInv, TickDriverInv,
   BeginUpdateDriverInv, TakeResponseDriverInv, EndUpdateDriverInv DEF Next

(* An acknowledgement and an answer: no more is on the line.               *)
LEMMA NextTalkIsShort == DriverInv /\ TalkIsShort /\ [Next]_vars => TalkIsShort'
<1> SUFFICES ASSUME DriverInv, TalkIsShort, [Next]_vars PROVE TalkIsShort'
  OBVIOUS
<1> USE DEF DriverInv
<1>0. wire \in Seq(Lines) /\ Len(wire) \in Nat /\ pending \subseteq Commands
  BY DEF TypeOK
<1>1. CASE UNCHANGED <<wire, pending>>
  BY <1>1 DEF TalkIsShort
<1>2. ASSUME NEW tag \in Tags, StartRanging(tag) PROVE TalkIsShort'
  <2>1. state = "Idle" BY <1>2 DEF StartRanging, IsBusy, DriverState
  <2>2. wire = <<>> BY <2>1 DEF DriverState
  <2>3. wire' = <<>> BY <1>2, <2>2 DEF StartRanging
  <2> QED BY <2>3 DEF TalkIsShort
<1>3. CASE BeginUpdate
  BY <1>3 DEF BeginUpdate, TalkIsShort
<1>4. ASSUME NEW c \in pending, DeviceAcknowledges(c) PROVE TalkIsShort'
  <2>1. pending = {c} BY <1>4 DEF OneCommand
  <2>2. c \in Commands /\ ~c.acknowledged BY <1>0, <1>4 DEF DeviceAcknowledges
  <2>3. pending' = {[c EXCEPT !.acknowledged = TRUE]}
    BY <1>4, <2>1 DEF DeviceAcknowledges
  <2>4. \A x \in pending' : x.acknowledged BY <2>2, <2>3 DEF Commands
  <2>5. Len(wire) <= 0 BY <2>1, <2>2 DEF TalkIsShort
  <2>6. Len(wire') = Len(wire) + 1 BY <1>0, <1>4 DEF DeviceAcknowledges
  <2>7. Len(wire') <= 1 BY <1>0, <2>5, <2>6
  <2> QED BY <1>0, <2>4, <2>6, <2>7 DEF TalkIsShort
<1>5. ASSUME NEW c \in pending, DeviceAnswers(c) PROVE TalkIsShort'
  <2>1. pending = {c} BY <1>5 DEF OneCommand
  <2>2. pending' = {} BY <1>5, <2>1 DEF DeviceAnswers
  <2>3. Len(wire) <= 1 BY <1>0, <1>5 DEF TalkIsShort
  <2>4. Len(wire') = Len(wire) + 1 BY <1>0, <1>5 DEF DeviceAnswers
  <2>5. Len(wire') <= 2 BY <1>0, <2>3, <2>4
  <2> QED BY <2>2, <2>5 DEF TalkIsShort
<1>6. ASSUME NEW c \in pending, DeviceStaysSilent(c) PROVE TalkIsShort'
  <2>1. pending' \subseteq pending /\ wire' = wire
    BY <1>6 DEF DeviceStaysSilent
  <2> QED BY <2>1 DEF TalkIsShort
<1>7. CASE Tick
  <2>1. wire' = wire /\ pending' = {[c EXCEPT !.left = @ - 1] : c \in pending}
    BY <1>7 DEF Tick
  <2>2. ASSUME NEW x \in pending'
        PROVE  \E c \in pending : x.acknowledged = c.acknowledged
    <3>1. PICK c \in pending : x = [c EXCEPT !.left = @ - 1] BY <2>1
    <3>2. c \in Commands BY <1>0
    <3> QED BY <3>1, <3>2 DEF Commands
  <2> QED BY <2>1, <2>2 DEF TalkIsShort
<1> QED
  BY <1>1, <1>2, <1>3, <1>4, <1>5, <1>6, <1>7
     DEF Next, vars, FailToStartRanging, TryTakeResult, TakeResponse, EndUpdate, device

(* IInv is an invariant of the driver.                                     *)
THEOREM InvariantHolds == Spec => []IInv
<1>1. Init => IInv
  <2>1. Init => TalkIsShort BY DEF Init, TalkIsShort
  <2> QED BY <2>1, InitDriverInv DEF IInv
<1>2. IInv /\ [Next]_vars => IInv'
  BY NextDriverInv, NextTalkIsShort DEF IInv
<1> QED BY <1>1, <1>2, PTL DEF Spec

(* Between two calls of Update the device never says more than the         *)
(* response FIFO of the code (4) takes: no line is dropped.                *)
THEOREM NoLineIsDropped ==
    ASSUME FifoCapacity >= 2
    PROVE  Spec => []FifoNeverFull
<1>1. IInv => FifoNeverFull
  <2> SUFFICES ASSUME IInv PROVE Len(wire) <= FifoCapacity
    BY DEF FifoNeverFull
  <2>1. Len(wire) \in Nat /\ Len(wire) <= 2
    BY DEF IInv, DriverInv, TypeOK, TalkIsShort
  <2> QED BY <2>1, ConstantsAreNumbers
<1> QED BY <1>1, InvariantHolds, PTL

(* Whenever the driver accepts a command the device is silent: no late     *)
(* answer of an earlier command can be taken for this one's.               *)
THEOREM ReadyIsSilent == Spec => []SilentWhenReady
<1>1. IInv => SilentWhenReady
  BY DEF IInv, DriverInv, DriverState, SilentWhenReady
<1> QED BY <1>1, InvariantHolds, PTL

(* Every step of the driver is a step of the service it promises.          *)
LEMMA StepsAreService == IInv /\ [Next]_vars => [Service!Next]_(Service!vars)
<1> SUFFICES ASSUME IInv, [Next]_vars, ~ UNCHANGED <<active, result>>
             PROVE  Service!Next
  BY DEF Service!vars
<1> USE DEF IInv, DriverInv
<1>1. ASSUME NEW tag \in Tags, StartRanging(tag) PROVE Service!Next
  BY <1>1 DEF StartRanging, IsBusy, DriverState, Service!Next, Service!Start
<1>2. ASSUME NEW tag \in Tags, FailToStartRanging(tag) PROVE Service!Next
  BY <1>2 DEF FailToStartRanging, IsBusy, DriverState, Result, Service!Next,
              Service!FailToStart, Service!Result
<1>3. CASE TryTakeResult
  BY <1>3 DEF TryTakeResult, command, Service!Next, Service!Take
<1>4. ASSUME NEW status \in Service!Statuses, NEW own, own = TRUE,
             state = "WaitingForResponse", CompleteRanging(status, own)
      PROVE  Service!Next
  <2>1. Service!Complete(status)
    BY <1>4 DEF CompleteRanging, Result, DriverState, Service!Complete,
                Service!Result
  <2> QED BY <2>1 DEF Service!Next
<1>5. CASE BeginUpdate
  <2>1. trusted = TRUE
    BY DEF TypeOK, OwnOnly
  <2>2. CASE state = "WaitingForResponse" /\ CompleteRanging("TimedOut", trusted)
    BY <1>4, <2>1, <2>2 DEF Service!Statuses
  <2> QED BY <1>5, <2>2 DEF BeginUpdate, UpdateTimeouts, command
<1>6. CASE TakeResponse
  <2> DEFINE line == Head(fifo)
  <2>1. trusted = TRUE /\ line.own = TRUE
    BY <1>6 DEF TakeResponse, TypeOK, OwnOnly, AllOwn, Lines
  <2> HIDE DEF line
  <2>2. CASE HandleAnswer(line)
    <3>1. state = "WaitingForResponse" /\ (trusted /\ line.own) = TRUE
      BY <2>1, <2>2 DEF HandleAnswer, IsForActive
    <3>2. PICK status \in Service!Statuses :
              CompleteRanging(status, trusted /\ line.own)
      BY <2>2 DEF HandleAnswer, Service!Statuses
    <3> QED BY <1>4, <3>1, <3>2
  <2>3. CASE HandleAcknowledgement(line) \/ HandleDrainedResponse(line)
                \/ HandleIgnoredResponse(line)
    BY <2>3 DEF HandleAcknowledgement, HandleDrainedResponse,
                HandleIgnoredResponse, command
  <2> QED BY <1>6, <2>2, <2>3 DEF TakeResponse, line
<1>7. CASE EndUpdate
  BY <1>7 DEF EndUpdate, command
<1>8. ASSUME NEW c \in pending,
             DeviceAcknowledges(c) \/ DeviceAnswers(c) \/ DeviceStaysSilent(c)
      PROVE  Service!Next
  BY <1>8 DEF DeviceAcknowledges, DeviceAnswers, DeviceStaysSilent, driver,
              command
<1>9. CASE Tick
  BY <1>9 DEF Tick, driver, command
<1>10. CASE UNCHANGED vars
  BY <1>10 DEF vars, command
<1> QED BY <1>1, <1>2, <1>3, <1>5, <1>6, <1>7, <1>8, <1>9, <1>10 DEF Next

(* The driver implements the safety part of RangingService: one result for *)
(* every command, about its TAG and by the device's answer to this very    *)
(* command, and no command before the result was taken.                    *)
THEOREM ImplementsService == Spec => OneOwnResultPerCommand
<1>1. Init => Service!Init
  BY DEF Init, Service!Init
<1> QED BY <1>1, StepsAreService, InvariantHolds, PTL
        DEF Spec, OneOwnResultPerCommand, Service!Safety
=============================================================================
