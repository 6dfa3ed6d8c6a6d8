----------------------------- MODULE NtpExchange -----------------------------
(***************************************************************************)
(* The four-timestamp exchange of src/NtpTimeSynchronizer.cpp between a    *)
(* master and one node, and what both compute from it: the offset of the   *)
(* node's clock, the best of several samples, and the conversion of the    *)
(* 32 bit times in packets to the 64 bit time of the master.               *)
(*                                                                         *)
(* now is the master's clock, nodeNow the node's.  Nobody can read both.   *)
(* Which packets match which is the subject of NtpTimeSynchronizer; here   *)
(* an exchange either succeeds or is given up.                             *)
(***************************************************************************)
EXTENDS Integers, Sequences

CONSTANTS
    HalfEpoch,          \* 2^31: half of TimestampEpochUs
    Skews,              \* by how much the node's clock may be ahead
    ResponseTimeout,    \* m_responseTimeoutUs
    CycleTime,          \* the master and the node act within this time
    SampleCount,        \* m_sampleCountPerNode
    NoSynchronization,  \* m_localSynchronization.isValid is false
    RunTime             \* bound: the clocks stop after this time

TimestampEpoch == 2 * HalfEpoch

ASSUME TimesAssumption ==
    /\ {HalfEpoch, SampleCount} \subseteq Nat \ {0}
    /\ {ResponseTimeout, CycleTime, RunTime} \subseteq Nat
    /\ Skews \subseteq Int
    /\ 2 * ResponseTimeout + CycleTime < HalfEpoch

VARIABLES
    now,                \* the master's esp_timer_get_time()
    skew,               \* nodeNow - now
    stage,              \* how far the exchange is: see Stages
    t1, t2, t3,         \* timestamps of the exchange, 0 between exchanges
    startedAt,          \* m_requestStartedUs
    attempts,           \* attemptCount of the target
    samples,            \* samples and validSampleCount of the target
    target,             \* synchronization of the target, in the master
    commit,             \* the commit on its way to the node
    local,              \* m_localSynchronization, in the node
    anchor              \* m_localSynchronizationAnchorUs

exchange == <<t1, t2, t3, startedAt>>
master == <<attempts, samples, target>>
node == <<local, anchor>>
vars == <<now, skew, stage, exchange, master, commit, node>>

nodeNow == now + skew

(* The later of the two has just started.                                  *)
StartTime == IF skew < 0 THEN -skew ELSE 0

Stages ==
    {"Select",      \* no request is pending
     "Requested",   \* the request is on its way
     "Received",    \* m_pendingResponse
     "Responded",   \* the response is on its way
     "Commit",      \* commitPending
     "Completed"}

EndExchange == t1' = 0 /\ t2' = 0 /\ t3' = 0 /\ startedAt' = 0

Init ==
    /\ skew \in Skews
    /\ now = StartTime
    /\ stage = "Select"
    /\ t1 = 0 /\ t2 = 0 /\ t3 = 0 /\ startedAt = 0
    /\ attempts = 0 /\ samples = <<>>
    /\ target = NoSynchronization /\ commit = NoSynchronization
    /\ local = NoSynchronization /\ anchor = 0

-----------------------------------------------------------------------------
(* Arithmetic of uint32_t and int32_t, with TimestampEpoch for 2^32.       *)

Low(time) == time % TimestampEpoch

ModuloDifference(later, earlier) ==
    LET difference == Low(later - earlier)
    IN  IF difference < HalfEpoch THEN difference
        ELSE difference - TimestampEpoch

(* Division of signed integers in C++.                                     *)
Half(x) == IF x >= 0 THEN x \div 2 ELSE -((-x) \div 2)

(* The operators named Buggy... are plausible mistakes in the definition   *)
(* that follows them.  Nothing uses them; they show which property would   *)
(* notice the mistake.                                                     *)

RoundTrip(r1, r2, r3, r4) ==
    ModuloDifference(r4, r1) - ModuloDifference(r3, r2)

BuggyOffset(r1, r2, r3, r4) ==      \* the response's way with a wrong sign
    Half(ModuloDifference(r2, r1) + ModuloDifference(r4, r3))
Offset(r1, r2, r3, r4) ==
    Half(ModuloDifference(r2, r1) + ModuloDifference(r3, r4))

IsPlausible(roundTrip) == roundTrip \in 0..ResponseTimeout

CalculateSample(r1, r2, r3, r4) ==
    [nodeMinusMaster |-> Offset(r1, r2, r3, r4),
     roundTrip |-> RoundTrip(r1, r2, r3, r4)]

AbsoluteDifference(left, right) ==
    IF left >= right THEN left - right ELSE right - left

(* The time nearest to reference whose low bits are timestamp; of two      *)
(* equally near ones that in the reference's own epoch, then the earlier.  *)
BuggyExtendTimestampNear(timestamp, reference) ==   \* its own epoch only
    reference - Low(reference) + timestamp
ExtendTimestampNear(timestamp, reference) ==
    LET selected == reference - Low(reference) + timestamp
        candidates == {time \in {selected - TimestampEpoch, selected,
                                 selected + TimestampEpoch} : time >= 0}
        distance(time) == AbsoluteDifference(time, reference)
        nearest == {time \in candidates :
                        \A other \in candidates : distance(time) <= distance(other)}
    IN  IF selected \in nearest THEN selected
        ELSE CHOOSE time \in nearest : TRUE

NoTime == -1

TranslateClockDomain(source, sourceAnchor, destinationAnchor) ==
    IF source >= sourceAnchor \/ sourceAnchor - source <= destinationAnchor
    THEN destinationAnchor + (source - sourceAnchor)
    ELSE NoTime

(* The time now of the master, for the node that has a commit.             *)
CurrentMasterTime ==
    TranslateClockDomain(nodeNow, anchor, local.synchronizedAt)

(* A 32 bit time of the node, read by the node and by the master.          *)
TryConvertLocalTimeToMaster(localTime) ==
    ExtendTimestampNear(Low(localTime - Low(local.nodeMinusMaster)),
                        CurrentMasterTime)

TryConvertNodeTimeToMaster(nodeTime, referenceMasterTime) ==
    ExtendTimestampNear(Low(nodeTime - Low(target.nodeMinusMaster)),
                        referenceMasterTime)

-----------------------------------------------------------------------------
(* The exchange.                                                           *)

(* t1 is taken before the request is handed to the transport.              *)
TrySendRequest ==
    /\ stage = "Select" /\ attempts < SampleCount
    /\ attempts' = attempts + 1
    /\ t1' = Low(now) /\ startedAt' = now
    /\ stage' = "Requested"
    /\ UNCHANGED <<now, skew, t2, t3, samples, target, commit, node>>

(* AddPeer or Send fails: an attempt without a request.                    *)
FailToSendRequest ==
    /\ stage = "Select" /\ attempts < SampleCount
    /\ attempts' = attempts + 1
    /\ UNCHANGED <<now, skew, stage, exchange, samples, target, commit, node>>

HandleRequest ==
    /\ stage = "Requested"
    /\ t2' = Low(nodeNow)
    /\ stage' = "Received"
    /\ UNCHANGED <<now, skew, t1, t3, startedAt, master, commit, node>>

TrySendPendingResponse ==
    /\ stage = "Received"
    /\ t3' = Low(nodeNow)
    /\ stage' = "Responded"
    /\ UNCHANGED <<now, skew, t1, t2, startedAt, master, commit, node>>

(* A response whose round trip is not plausible only ends the attempt.     *)
HandleResponse ==
    /\ stage = "Responded"
    /\ samples' = IF IsPlausible(RoundTrip(t1, t2, t3, Low(now)))
                  THEN Append(samples, CalculateSample(t1, t2, t3, Low(now)))
                  ELSE samples
    /\ stage' = "Select"
    /\ EndExchange
    /\ UNCHANGED <<now, skew, attempts, target, commit, node>>

(* The master gives the request up, wherever it was lost or is late.       *)
RequestTimeout ==
    /\ stage \in {"Requested", "Received", "Responded"}
    /\ now - startedAt >= ResponseTimeout
    /\ stage' = "Select"
    /\ EndExchange
    /\ UNCHANGED <<now, skew, master, commit, node>>

(* The first of the samples with the shortest round trip.                  *)
SelectBestSample ==
    CHOOSE i \in DOMAIN samples :
        \A j \in DOMAIN samples :
            /\ samples[i].roundTrip <= samples[j].roundTrip
            /\ samples[i].roundTrip = samples[j].roundTrip => i <= j

(* With a sample the target waits for its commit; without one it starts    *)
(* over.                                                                   *)
FinalizeCurrentTarget ==
    /\ stage = "Select" /\ attempts = SampleCount
    /\ IF samples # <<>>
       THEN /\ target' = samples[SelectBestSample]
            /\ stage' = "Commit"
            /\ UNCHANGED <<attempts, samples>>
       ELSE /\ attempts' = 0
            /\ UNCHANGED <<target, stage, samples>>
    /\ UNCHANGED <<now, skew, exchange, commit, node>>

(* The time in the commit is that of its departure, not of the sample.     *)
TrySendCommit ==
    /\ stage = "Commit"
    /\ commit' = [nodeMinusMaster |-> target.nodeMinusMaster,
                  roundTrip |-> target.roundTrip,
                  synchronizedAt |-> now]
    /\ stage' = "Completed"
    /\ UNCHANGED <<now, skew, exchange, master, node>>

LoseCommit ==
    /\ commit # NoSynchronization
    /\ commit' = NoSynchronization
    /\ UNCHANGED <<now, skew, stage, exchange, master, node>>

(* The node derives its own time of the commit from the master's.          *)
BuggyHandleCommit ==    \* its own time on arrival, whatever the delay
    /\ commit # NoSynchronization
    /\ local' = commit
    /\ anchor' = nodeNow
    /\ commit' = NoSynchronization
    /\ UNCHANGED <<now, skew, stage, exchange, master>>
HandleCommit ==
    /\ commit # NoSynchronization
    /\ local' = commit
    /\ anchor' = ExtendTimestampNear(
                     Low(Low(commit.synchronizedAt) + Low(commit.nodeMinusMaster)),
                     nodeNow)
    /\ commit' = NoSynchronization
    /\ UNCHANGED <<now, skew, stage, exchange, master>>

(* The master starts over, whether or not the commit has arrived; the last *)
(* result remains until there is a better one.                             *)
BuggyRebuildTargets ==      \* keeps the samples
    /\ stage \in {"Select", "Commit", "Completed"}
    /\ attempts' = 0
    /\ stage' = "Select"
    /\ UNCHANGED <<now, skew, exchange, samples, target, commit, node>>
RebuildTargets ==
    /\ stage \in {"Select", "Commit", "Completed"}
    /\ attempts' = 0 /\ samples' = <<>>
    /\ stage' = "Select"
    /\ UNCHANGED <<now, skew, exchange, target, commit, node>>

(* No request is pending for longer than its timeout and the cycle that    *)
(* notices it; a commit on its way arrives or is lost in that time.        *)
Tick ==
    /\ now < StartTime + RunTime
    /\ stage \in {"Requested", "Received", "Responded"} =>
          now - startedAt < ResponseTimeout + CycleTime
    /\ commit # NoSynchronization =>
          now - commit.synchronizedAt < ResponseTimeout + CycleTime
    /\ now' = now + 1
    /\ UNCHANGED <<skew, stage, exchange, master, commit, node>>

Next ==
    \/ TrySendRequest \/ FailToSendRequest \/ RequestTimeout
    \/ HandleRequest \/ TrySendPendingResponse \/ HandleResponse
    \/ FinalizeCurrentTarget \/ TrySendCommit \/ HandleCommit \/ LoseCommit
    \/ RebuildTargets
    \/ Tick

Spec == Init /\ [][Next]_vars

-----------------------------------------------------------------------------
(* The true offset of the node, as far as 32 bit times can tell.           *)
TrueOffset == ModuloDifference(skew, 0)

(* How long an exchange may be under way.                                  *)
MaxDelay == ResponseTimeout + CycleTime

(* The condition under which all of this works: no timestamp of an         *)
(* exchange crosses the point where the sign of a difference flips.        *)
SkewsFarFromHalf ==
    \A s \in Skews :
        AbsoluteDifference(ModuloDifference(s, 0), 0) < HalfEpoch - MaxDelay

(* The error of an offset is at most half of its round trip, and half a    *)
(* microsecond of rounding.                                                *)
WithinHalfRoundTrip(value, truth, roundTrip) ==
    2 * AbsoluteDifference(value, truth) <= roundTrip + 1

Accurate(result) ==
    WithinHalfRoundTrip(result.nodeMinusMaster, TrueOffset, result.roundTrip)

Timestamps == 0..(TimestampEpoch - 1)
Sample == [nodeMinusMaster : Int, roundTrip : 0..ResponseTimeout]
Commit == [nodeMinusMaster : Int, roundTrip : 0..ResponseTimeout,
           synchronizedAt : Nat]

(* TYPE INVARIANT.  A target has no more samples than attempts             *)
(* (FinalizeCurrentTarget and RebuildTargets drop both together).          *)
TypeOK ==
    /\ now \in Nat /\ nodeNow \in Nat
    /\ skew \in Skews
    /\ stage \in Stages
    /\ t1 \in Timestamps /\ t2 \in Timestamps /\ t3 \in Timestamps
    /\ startedAt \in 0..now
    /\ attempts \in 0..SampleCount
    /\ samples \in Seq(Sample) /\ Len(samples) <= attempts
    /\ target \in Sample \cup {NoSynchronization}
    /\ commit \in Commit \cup {NoSynchronization}
    /\ local \in Commit \cup {NoSynchronization}
    /\ anchor \in Int

(* The timestamps of the exchange are those of moments in this order; the  *)
(* attempt has no sample yet.                                              *)
StampsOfMoments ==
    /\ stage \in {"Requested", "Received", "Responded"} =>
          /\ t1 = Low(startedAt) /\ startedAt + skew >= 0
          /\ now - startedAt <= MaxDelay
          /\ Len(samples) < attempts
    /\ stage = "Received" =>
          \E received \in startedAt..now : t2 = Low(received + skew)
    /\ stage = "Responded" =>
          \E received, responded \in startedAt..now :
              /\ received <= responded
              /\ t2 = Low(received + skew) /\ t3 = Low(responded + skew)

(* Both clocks have run for at least as long as the exchange took.         *)
Measured(result, time) ==
    /\ Accurate(result)
    /\ result.roundTrip <= time /\ result.roundTrip <= time + skew

SamplesMeasured == \A i \in DOMAIN samples : Measured(samples[i], now)

TargetMeasured ==
    /\ stage = "Commit" => target \in Sample /\ Measured(target, now)
    /\ target # NoSynchronization => Measured(target, now)

CommitMeasured ==
    commit # NoSynchronization =>
        /\ Measured(commit, commit.synchronizedAt)
        /\ now - commit.synchronizedAt \in 0..MaxDelay

LocalMeasured ==
    local # NoSynchronization =>
        /\ Measured(local, local.synchronizedAt)
        /\ local.synchronizedAt <= now
        /\ anchor - (local.synchronizedAt + skew)
             = local.nodeMinusMaster - TrueOffset

(* INVARIANT.  What the master measured, sent and the node keeps is        *)
(* accurate, and the node's anchor is exactly as far off the true time of  *)
(* the commit as the offset is off the true one (HandleCommit), so that    *)
(* the error does not grow with the age of the synchronization.            *)
IInv ==
    /\ TypeOK
    /\ StampsOfMoments
    /\ SamplesMeasured /\ TargetMeasured /\ CommitMeasured /\ LocalMeasured

(* SAFETY.  However the delays of an exchange lie and wherever either      *)
(* clock wraps, the offset of a sample that CalculateSample accepts is     *)
(* that of the clocks, within half of the sample's own round trip.         *)
SamplesAccurate == \A i \in DOMAIN samples : Accurate(samples[i])

(* The times of the past that 32 bits still identify, of those after the   *)
(* master's first round trip.                                              *)
RecentTimes(roundTrip) ==
    {time \in roundTrip..now :
        now - time < HalfEpoch - ResponseTimeout /\ time + skew >= 0}

(* SAFETY.  Once it has a commit the node knows the time of the master,    *)
(* now and for every recent 32 bit time of its own, as exactly as the      *)
(* offset was measured, however long ago that was and however often either *)
(* clock has wrapped since.                                                *)
NodeKnowsMasterTime ==
    local # NoSynchronization =>
        /\ WithinHalfRoundTrip(CurrentMasterTime, now, local.roundTrip)
        /\ \A time \in RecentTimes(local.roundTrip) :
              WithinHalfRoundTrip(
                  TryConvertLocalTimeToMaster(Low(time + skew)), time,
                  local.roundTrip)

(* SAFETY.  The same for the master, which converts the 32 bit times in    *)
(* the node's distance results with its own time as the reference.         *)
MasterKnowsNodeTime ==
    target # NoSynchronization =>
        \A time \in RecentTimes(target.roundTrip) :
            WithinHalfRoundTrip(
                TryConvertNodeTimeToMaster(Low(time + skew), now), time,
                target.roundTrip)
=============================================================================
