-------------------------- MODULE Ryuw122Controller --------------------------
(***************************************************************************)
(* The driver of the RYUW122 ranging device (src/Ryuw122Controller.cpp):   *)
(* StartRanging writes a command to the UART and waits; Update completes   *)
(* the command by the device's answer or after a timeout, and after a      *)
(* timeout drains the late answer before the next command may start.  The  *)
(* device answers with the TAG's address, but nothing in an answer says    *)
(* which command it belongs to: only the drain keeps the late answer of    *)
(* one command from becoming the result of the next for the same TAG.      *)
(*                                                                         *)
(* The device and the UART are external: a command is acknowledged at most *)
(* once, then answered at most once, within AnswerTime.                    *)
(***************************************************************************)
EXTENDS Integers, Sequences

CONSTANTS
    Tags,           \* addresses of TAGs
    NoTag,          \* an empty m_activeTagAddress, or a line without address
    NoResult,       \* m_hasResult is false
    Timeout,        \* m_rangingTimeoutUs
    DrainTime,      \* m_lateResponseDrainTimeoutUs
    AnswerTime,     \* the device answers within this time or never
    CycleTime,      \* at most this time passes between two calls of Update
    ClockModulus,   \* width of micros()
    FifoCapacity    \* Ryuw122ResponseQueueCapacity

ASSUME TagsAssumption == NoTag \notin Tags

(* The device is silent when the drain ends; the clock cannot come around  *)
(* between the call of Update that should notice a timeout and the next.   *)
ASSUME TimesAssumption ==
    /\ {Timeout, DrainTime, AnswerTime, CycleTime} \subseteq Nat
    /\ ClockModulus \in Nat \ {0} /\ FifoCapacity \in Nat \ {0}
    /\ AnswerTime < Timeout + DrainTime
    /\ Timeout + CycleTime < ClockModulus
    /\ DrainTime + CycleTime < ClockModulus

VARIABLES
    now,            \* micros()
    sinceUpdate,    \* time since Update was called (bounded by CycleTime)
    state,          \* m_rangingState
    active,         \* m_activeTagAddress
    startedAt,      \* m_rangingStartedAtUs
    acknowledged,   \* m_commandAcknowledged
    drainTag,       \* m_drainTagAddress
    drainStartedAt, \* m_drainStartedAtUs
    result,         \* m_result
    fifo,           \* m_responseQueue
    updating,       \* Update is in its loop over TryTakeResponse
    trusted,        \* all that was taken into account is about this command
    wire,           \* lines that arrived and were not read
    pending         \* commands the device has neither answered nor dropped

clock == <<now, sinceUpdate>>
command == <<active, startedAt, acknowledged, trusted>>
drain == <<drainTag, drainStartedAt>>
device == <<wire, pending>>
vars == <<clock, state, command, drain, result, fifo, updating, device>>

Init ==
    /\ now \in 0..(ClockModulus - 1) /\ sinceUpdate = 0
    /\ state = "Idle" /\ active = NoTag /\ startedAt = 0
    /\ acknowledged = FALSE /\ trusted = TRUE
    /\ drainTag = NoTag /\ drainStartedAt = 0
    /\ result = NoResult
    /\ fifo = <<>> /\ updating = FALSE
    /\ wire = <<>> /\ pending = {}

-----------------------------------------------------------------------------
(* The operators named Buggy... are plausible mistakes in the definition   *)
(* that follows them.  Nothing uses them; they show which property would   *)
(* notice the mistake.                                                     *)

(* Subtraction of uint32_t, modulo 2^32.                                   *)
BuggyElapsed(since) == now - since
Elapsed(since) ==
    IF now >= since THEN now - since ELSE now - since + ClockModulus
HasElapsed(since, duration) == Elapsed(since) >= duration

BuggyIsBusy == state # "Idle"                \* forgets the untaken result
IsBusy == result # NoResult \/ state # "Idle"

Result(tag, status, own) == [tag |-> tag, status |-> status, own |-> own]

BuggyCompleteRanging(status, own) ==     \* copies the address too late
    /\ active' = NoTag
    /\ result' = Result(active', status, own)
    /\ acknowledged' = FALSE
    /\ UNCHANGED <<startedAt, trusted>>
CompleteRanging(status, own) ==     \* the state it leaves: see its uses
    /\ result' = Result(active, status, own)
    /\ active' = NoTag
    /\ acknowledged' = FALSE
    /\ UNCHANGED <<startedAt, trusted>>

(* What the device still says about an earlier command is not the new      *)
(* command's own.                                                          *)
Disowned(item) == [item EXCEPT !.own = FALSE]

(* The command is accepted by the UART, ...                                *)
StartRanging(tag) ==
    /\ ~updating /\ ~IsBusy
    /\ active' = tag /\ startedAt' = now
    /\ acknowledged' = FALSE /\ trusted' = TRUE
    /\ state' = "WaitingForResponse"
    /\ wire' = [i \in DOMAIN wire |-> Disowned(wire[i])]
    /\ pending' = {Disowned(c) : c \in pending} \cup
                     {[tag |-> tag, left |-> AnswerTime,
                       acknowledged |-> FALSE, own |-> TRUE]}
    /\ UNCHANGED <<clock, drain, result, fifo, updating>>

(* ... or does not fit into its buffer: the command fails at once.         *)
FailToStartRanging(tag) ==
    /\ ~updating /\ ~IsBusy
    /\ result' = Result(tag, "Failed", TRUE)
    /\ startedAt' = now
    /\ acknowledged' = FALSE /\ trusted' = TRUE
    /\ UNCHANGED <<clock, state, active, drain, fifo, updating, device>>

TryTakeResult ==
    /\ ~updating /\ result # NoResult
    /\ result' = NoResult
    /\ UNCHANGED <<clock, state, command, drain, fifo, updating, device>>

-----------------------------------------------------------------------------
(* Update: the two timeouts first, by one reading of the clock, ...        *)

BeginLateResponseDrain ==
    /\ drainTag' = active
    /\ drainStartedAt' = now
    /\ state' = "DrainingLateResponse"

EndLateResponseDrain ==
    /\ state' = "Idle"
    /\ drainTag' = NoTag
    /\ UNCHANGED drainStartedAt

UpdateTimeouts ==
    \/ /\ state = "WaitingForResponse" /\ HasElapsed(startedAt, Timeout)
       /\ CompleteRanging("TimedOut", trusted)
       /\ BeginLateResponseDrain
    \/ /\ state = "DrainingLateResponse"
       /\ HasElapsed(drainStartedAt, DrainTime)
       /\ EndLateResponseDrain
       /\ UNCHANGED <<command, result>>
    \/ /\ ~(state = "WaitingForResponse" /\ HasElapsed(startedAt, Timeout))
       /\ ~(state = "DrainingLateResponse"
               /\ HasElapsed(drainStartedAt, DrainTime))
       /\ UNCHANGED <<state, command, drain, result>>

(* ... then every line that has arrived is moved into the response FIFO,   *)
(* which drops what it has no room for.                                    *)
Enqueued(lines) ==
    IF Len(lines) > FifoCapacity THEN SubSeq(lines, 1, FifoCapacity) ELSE lines

BeginUpdate ==
    /\ ~updating
    /\ UpdateTimeouts
    /\ fifo' = Enqueued(fifo \o wire)
    /\ wire' = <<>>
    /\ updating' = TRUE /\ sinceUpdate' = 0
    /\ UNCHANGED <<now, pending>>

(* ... then the responses in their order.                                  *)
HandleAcknowledgement(line) ==
    /\ line.kind = "OK"
    /\ IF state = "WaitingForResponse"
       THEN acknowledged' = TRUE /\ trusted' = (trusted /\ line.own)
       ELSE UNCHANGED <<acknowledged, trusted>>
    /\ UNCHANGED <<state, active, startedAt, drain, result>>

(* Errors and lines that cannot be parsed have no address.                 *)
HasAddress(line) == line.kind = "Answer"

HandleDrainedResponse(line) ==
    /\ line.kind # "OK" /\ state = "DrainingLateResponse"
    /\ IF HasAddress(line) => line.tag = drainTag
       THEN EndLateResponseDrain
       ELSE UNCHANGED <<state, drain>>
    /\ UNCHANGED <<command, result>>

IsForActive(line) ==
    /\ state = "WaitingForResponse"
    /\ HasAddress(line) => line.tag = active

HandleIgnoredResponse(line) ==
    /\ line.kind # "OK" /\ state # "DrainingLateResponse"
    /\ ~IsForActive(line)
    /\ UNCHANGED <<state, command, drain, result>>

HandleAnswer(line) ==
    /\ line.kind # "OK" /\ IsForActive(line)
    /\ CompleteRanging(IF HasAddress(line) THEN "Success" ELSE "Failed",
                       trusted /\ line.own)
    /\ state' = "Idle"
    /\ UNCHANGED drain

TakeResponse ==
    /\ updating /\ fifo # <<>>
    /\ LET line == Head(fifo)
       IN  \/ HandleAcknowledgement(line)
           \/ HandleDrainedResponse(line)
           \/ HandleIgnoredResponse(line)
           \/ HandleAnswer(line)
    /\ fifo' = Tail(fifo)
    /\ UNCHANGED <<clock, updating, device>>

EndUpdate ==
    /\ updating /\ fifo = <<>>
    /\ updating' = FALSE
    /\ UNCHANGED <<clock, state, command, drain, result, fifo, device>>

-----------------------------------------------------------------------------
(* The device, the UART and time.                                          *)

driver == <<state, command, drain, result, fifo, updating>>

Line(kind, c) == [kind |-> kind, tag |-> c.tag, own |-> c.own]

DeviceAcknowledges(c) ==
    /\ ~c.acknowledged
    /\ pending' = (pending \ {c}) \cup {[c EXCEPT !.acknowledged = TRUE]}
    /\ wire' = Append(wire, Line("OK", c))
    /\ UNCHANGED <<clock, driver>>

(* A distance, or an error, or either of them garbled on the UART.         *)
DeviceAnswers(c) ==
    /\ \E kind \in {"Answer", "Error"} : wire' = Append(wire, Line(kind, c))
    /\ pending' = pending \ {c}
    /\ UNCHANGED <<clock, driver>>

DeviceStaysSilent(c) ==
    /\ pending' = pending \ {c}
    /\ UNCHANGED <<clock, driver, wire>>

(* No time passes over an answer that is due or a call of Update.          *)
Tick ==
    /\ sinceUpdate < CycleTime
    /\ \A c \in pending : c.left > 0
    /\ now' = IF now = ClockModulus - 1 THEN 0 ELSE now + 1
    /\ sinceUpdate' = sinceUpdate + 1
    /\ pending' = {[c EXCEPT !.left = @ - 1] : c \in pending}
    /\ UNCHANGED <<driver, wire>>

Next ==
    \/ \E tag \in Tags : StartRanging(tag) \/ FailToStartRanging(tag)
    \/ TryTakeResult
    \/ BeginUpdate \/ TakeResponse \/ EndUpdate
    \/ \E c \in pending :
          DeviceAcknowledges(c) \/ DeviceAnswers(c) \/ DeviceStaysSilent(c)
    \/ Tick

Spec == Init /\ [][Next]_vars

(* The measurement task calls Update in every cycle; time passes; what the *)
(* device owes it says or loses.                                           *)
Fairness ==
    /\ WF_vars(BeginUpdate) /\ WF_vars(TakeResponse) /\ WF_vars(EndUpdate)
    /\ WF_vars(Tick)
    /\ WF_vars(\E c \in pending : DeviceAnswers(c) \/ DeviceStaysSilent(c))

FairSpec == Spec /\ Fairness

-----------------------------------------------------------------------------
Times == 0..(ClockModulus - 1)
Lines == [kind : {"OK", "Answer", "Error"}, tag : Tags, own : BOOLEAN]
Commands == [tag : Tags, left : 0..AnswerTime, acknowledged : BOOLEAN,
             own : BOOLEAN]
Results == [tag : Tags, status : {"Success", "Failed", "TimedOut"},
            own : BOOLEAN]

(* Type invariant of the driver and its environment.                       *)
TypeOK ==
    /\ now \in Times /\ sinceUpdate \in 0..CycleTime
    /\ state \in {"Idle", "WaitingForResponse", "DrainingLateResponse"}
    /\ active \in Tags \cup {NoTag} /\ startedAt \in Times
    /\ acknowledged \in BOOLEAN /\ trusted \in BOOLEAN
    /\ drainTag \in Tags \cup {NoTag} /\ drainStartedAt \in Times
    /\ result \in Results \cup {NoResult}
    /\ fifo \in Seq(Lines) /\ wire \in Seq(Lines) /\ updating \in BOOLEAN
    /\ pending \in SUBSET Commands

(* A command starts, if at all, on a silent line: whenever the driver is   *)
(* ready again, nothing the device has to say about the last command is    *)
(* still to come (docs/sequential-ranging-time-sync.md, section 13.4).     *)
SilentWhenReady ==
    state = "Idle" /\ ~updating =>
        wire = <<>> /\ pending = {} /\ fifo = <<>>

(* The response FIFO never has to drop a line.                             *)
FifoNeverFull == ~updating => Len(wire) <= FifoCapacity

(* One result per command, about its TAG and by its own answer: no late    *)
(* answer is taken for the next command's, and no result is overwritten... *)
Service == INSTANCE RangingService
OneOwnResultPerCommand == Service!Safety

(* ... and every command has its result; the drain ends whether or not the *)
(* late answer comes, so that the next pair is ranged.                     *)
EveryCommandEnds ==
    Service!Liveness /\ (state = "DrainingLateResponse" ~> state = "Idle")

-----------------------------------------------------------------------------
(* The inductive invariant behind SilentWhenReady and                      *)
(* OneOwnResultPerCommand.  The device works on one command at most, ...   *)
OneCommand == \A c, d \in pending : c = d

(* ... nothing it says or will say is about an earlier one, ...            *)
AllOwn(lines) == \A i \in DOMAIN lines : lines[i].own
OwnOnly ==
    /\ trusted
    /\ \A c \in pending : c.own
    /\ AllOwn(wire) /\ AllOwn(fifo)

(* ... its answer is its last word, ...                                    *)
EndsTalk(lines) ==
    \A i \in DOMAIN lines :
        lines[i].kind # "OK" => i = Len(lines) /\ pending = {}
AnswerIsLast ==
    /\ EndsTalk(wire) /\ EndsTalk(fifo)
    /\ \A i \in DOMAIN fifo : fifo[i].kind # "OK" => wire = <<>>

(* ... it has no longer than AnswerTime, whatever the wrapping clock says, *)
AnswersInTime ==
    /\ state = "WaitingForResponse" =>
          \A c \in pending : Elapsed(startedAt) + c.left <= AnswerTime
    /\ state = "DrainingLateResponse" =>
          \A c \in pending :
              Elapsed(drainStartedAt) + c.left <= AnswerTime - Timeout

(* ... and the driver is ready only when the device is done.               *)
DriverState ==
    /\ state = "WaitingForResponse" <=> active # NoTag
    /\ result # NoResult => state # "WaitingForResponse"
    /\ state = "Idle" => wire = <<>> /\ pending = {}
    /\ ~updating => fifo = <<>>

DriverInv ==
    TypeOK /\ OneCommand /\ OwnOnly /\ AnswerIsLast /\ AnswersInTime /\ DriverState

(* The device says at most two lines between two calls of Update, so a     *)
(* response FIFO of that size drops none.                                  *)
TalkIsShort ==
    /\ Len(wire) <= 2
    /\ \A c \in pending : Len(wire) <= IF c.acknowledged THEN 1 ELSE 0

IInv == DriverInv /\ TalkIsShort
=============================================================================
