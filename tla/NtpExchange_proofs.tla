------------------------- MODULE NtpExchange_proofs -------------------------
(***************************************************************************)
(* Proofs about NtpExchange for every epoch, timeout and cycle time that   *)
(* satisfy TimesAssumption, and all clocks that are far enough from half   *)
(* an epoch apart.                                                         *)
(***************************************************************************)
EXTENDS NtpExchange, WellFoundedInduction, TLAPS

-----------------------------------------------------------------------------
(* Arithmetic of 32 bit times.                                             *)

LEMMA EpochType ==
    /\ HalfEpoch \in Nat \ {0}
    /\ TimestampEpoch \in Nat \ {0}
    /\ TimestampEpoch = 2 * HalfEpoch
    /\ ResponseTimeout \in Nat /\ CycleTime \in Nat /\ MaxDelay \in Nat
    /\ MaxDelay = ResponseTimeout + CycleTime
    /\ 2 * ResponseTimeout + CycleTime < HalfEpoch
BY TimesAssumption DEF TimestampEpoch, MaxDelay

LEMMA RemainderFacts ==
    ASSUME NEW E \in Nat \ {0}, NEW x \in Int
    PROVE  /\ x % E \in 0..(E - 1)
           /\ \E k \in Int : x = (x % E) + k * E
<1>1. x % E \in 0..(E - 1)
  OBVIOUS
<1>2. x = E * (x \div E) + (x % E) /\ x \div E \in Int
  OBVIOUS
<1>3. x = (x % E) + (x \div E) * E
  BY <1>1, <1>2
<1> QED BY <1>1, <1>2, <1>3

LEMMA RemainderUnique ==
    ASSUME NEW E \in Nat \ {0}, NEW r \in 0..(E - 1), NEW k \in Int
    PROVE  (r + k * E) % E = r
<1>1. (k * E + r) % E = r
  OBVIOUS
<1>2. k * E + r = r + k * E
  OBVIOUS
<1> QED BY <1>1, <1>2

(* Low drops a whole number of epochs.                                     *)
LEMMA LowRemainder ==
    ASSUME NEW x \in Int
    PROVE  /\ Low(x) \in 0..(TimestampEpoch - 1)
           /\ Low(x) \in Int
           /\ \E k \in Int : x = Low(x) + k * TimestampEpoch
<1>1. TimestampEpoch \in Nat \ {0}
  BY EpochType
<1>2. /\ Low(x) \in 0..(TimestampEpoch - 1)
      /\ \E k \in Int : x = Low(x) + k * TimestampEpoch
  BY <1>1, RemainderFacts DEF Low
<1> QED BY <1>1, <1>2

(* Low of a representative and a whole number of epochs.                   *)
LEMMA LowUnique ==
    ASSUME NEW r \in 0..(TimestampEpoch - 1), NEW k \in Int
    PROVE  Low(r + k * TimestampEpoch) = r
BY EpochType, RemainderUnique DEF Low

(* Times that differ by whole epochs have the same 32 bits.                *)
LEMMA LowShift ==
    ASSUME NEW x \in Int, NEW y \in Int, NEW k \in Int,
           x = y + k * TimestampEpoch
    PROVE  Low(x) = Low(y)
<1>1. PICK q \in Int : y = Low(y) + q * TimestampEpoch
  BY LowRemainder
<1>2. Low(y) \in 0..(TimestampEpoch - 1) /\ Low(y) \in Int
  BY LowRemainder
<1>3. x = Low(y) + (q + k) * TimestampEpoch
  BY <1>1, <1>2, EpochType
<1>4. q + k \in Int
  OBVIOUS
<1> QED BY <1>2, <1>3, <1>4, LowUnique

(* The signed difference of two 32 bit times is that of the times, up to   *)
(* whole epochs, if it fits.                                               *)
LEMMA ModuloDifferenceExact ==
    ASSUME NEW a \in Int, NEW b \in Int, NEW v \in Int, NEW k \in Int,
           a - b = v + k * TimestampEpoch,
           -HalfEpoch <= v, v < HalfEpoch
    PROVE  ModuloDifference(Low(a), Low(b)) = v
<1>1. PICK i \in Int : a = Low(a) + i * TimestampEpoch
  BY LowRemainder
<1>2. PICK j \in Int : b = Low(b) + j * TimestampEpoch
  BY LowRemainder
<1>3. Low(a) \in Int /\ Low(b) \in Int
  BY LowRemainder
<1>4. Low(a) - Low(b) = v + (k - i + j) * TimestampEpoch
  <2>1. Low(a) - Low(b)
           = v + k * TimestampEpoch - i * TimestampEpoch + j * TimestampEpoch
    <3> DEFINE la == Low(a)
               lb == Low(b)
               ie == i * TimestampEpoch
               je == j * TimestampEpoch
               ke == k * TimestampEpoch
    <3>1. /\ a = la + ie /\ b = lb + je /\ a - b = v + ke
          /\ la \in Int /\ lb \in Int /\ ie \in Int /\ je \in Int /\ ke \in Int
      BY <1>1, <1>2, <1>3, EpochType
    <3> HIDE DEF la, lb, ie, je, ke
    <3>2. la - lb = v + ke - ie + je
      BY <3>1
    <3> QED BY <3>2 DEF la, lb, ie, je, ke
  <2>2. (k - i + j) * TimestampEpoch
           = k * TimestampEpoch - i * TimestampEpoch + j * TimestampEpoch
    BY EpochType
  <2> QED BY <2>1, <2>2, EpochType
<1>5. Low(Low(a) - Low(b)) = Low(v)
  <2>1. k - i + j \in Int /\ Low(a) - Low(b) \in Int
    BY <1>3
  <2> QED BY <2>1, <1>4, LowShift
<1>6. CASE v >= 0
  <2>1. v \in 0..(TimestampEpoch - 1) /\ v = v + 0 * TimestampEpoch
    BY <1>6, EpochType
  <2>2. Low(v) = v
    BY <2>1, LowUnique
  <2> QED BY <2>2, <1>5 DEF ModuloDifference
<1>7. CASE v < 0
  <2>1. /\ v + TimestampEpoch \in 0..(TimestampEpoch - 1)
        /\ v = (v + TimestampEpoch) + (-1) * TimestampEpoch
    BY <1>7, EpochType
  <2>2. Low(v) = v + TimestampEpoch
    BY <2>1, LowUnique
  <2>3. ~(Low(v) < HalfEpoch) /\ Low(v) - TimestampEpoch = v
    BY <2>2, <1>7, EpochType
  <2> QED BY <2>3, <1>5 DEF ModuloDifference
<1> QED BY <1>6, <1>7

(* TrueOffset is the skew up to whole epochs.                              *)
LEMMA TrueOffsetIsSkew ==
    ASSUME NEW s \in Int
    PROVE  /\ ModuloDifference(s, 0) \in Int
           /\ \E k \in Int : s = ModuloDifference(s, 0) + k * TimestampEpoch
<1>1. s - 0 = s
  OBVIOUS
<1>2. Low(s) \in Int
  BY LowRemainder
<1>3. PICK k \in Int : s = Low(s) + k * TimestampEpoch
  BY LowRemainder
<1>4. s = (Low(s) - TimestampEpoch) + (k + 1) * TimestampEpoch
  BY <1>2, <1>3, EpochType
<1>5. k + 1 \in Int
  OBVIOUS
<1>6. \/ ModuloDifference(s, 0) = Low(s)
      \/ ModuloDifference(s, 0) = Low(s) - TimestampEpoch
  BY <1>1 DEF ModuloDifference
<1>7. CASE ModuloDifference(s, 0) = Low(s)
  BY <1>2, <1>3, <1>7
<1>8. CASE ModuloDifference(s, 0) = Low(s) - TimestampEpoch
  BY <1>2, <1>4, <1>5, <1>8, EpochType
<1> QED BY <1>6, <1>7, <1>8

(* A 32 bit time is extended to the time it was taken from, if that is     *)
(* less than half an epoch from the reference.                             *)
LEMMA ExtendExact ==
    ASSUME NEW v \in Nat, NEW reference \in Nat,
           AbsoluteDifference(v, reference) < HalfEpoch
    PROVE  ExtendTimestampNear(Low(v), reference) = v
<1> DEFINE selected == reference - Low(reference) + Low(v)
           candidates == {time \in {selected - TimestampEpoch, selected,
                                    selected + TimestampEpoch} : time >= 0}
           distance(time) == AbsoluteDifference(time, reference)
           nearest == {time \in candidates :
                         \A other \in candidates :
                             distance(time) <= distance(other)}
<1>1. PICK i \in Int : v = Low(v) + i * TimestampEpoch
  BY LowRemainder
<1>2. PICK j \in Int : reference = Low(reference) + j * TimestampEpoch
  BY LowRemainder
<1>3. /\ Low(v) \in 0..(TimestampEpoch - 1)
      /\ Low(reference) \in 0..(TimestampEpoch - 1)
  BY LowRemainder
<1>4. selected \in Int /\ v = selected + (i - j) * TimestampEpoch
  BY <1>1, <1>2, <1>3, EpochType
<1>5. i - j \in {-1, 0, 1}
  <2>1. -TimestampEpoch < selected - reference /\ selected - reference < TimestampEpoch
    BY <1>3, EpochType
  <2>2. /\ v - reference < HalfEpoch /\ reference - v < HalfEpoch
    <3>1. v - reference <= AbsoluteDifference(v, reference)
      BY DEF AbsoluteDifference
    <3>2. reference - v <= AbsoluteDifference(v, reference)
      BY DEF AbsoluteDifference
    <3>3. AbsoluteDifference(v, reference) \in Int
      BY DEF AbsoluteDifference
    <3> QED BY <3>1, <3>2, <3>3, EpochType
  <2>3. /\ (i - j) * TimestampEpoch < 2 * TimestampEpoch
        /\ (-2) * TimestampEpoch < (i - j) * TimestampEpoch
    <3>1. (i - j) * TimestampEpoch = (v - reference) - (selected - reference)
      BY <1>4, EpochType
    <3> HIDE DEF selected
    <3> QED BY <3>1, <2>1, <2>2, <1>4, EpochType
  <2>4. ASSUME i - j >= 2 PROVE FALSE
    <3>1. (i - j - 2) * TimestampEpoch >= 0
      BY <2>4, EpochType
    <3>2. (i - j - 2) * TimestampEpoch
             = (i - j) * TimestampEpoch - 2 * TimestampEpoch
      BY EpochType
    <3> QED BY <3>1, <3>2, <2>3, EpochType
  <2>5. ASSUME i - j <= -2 PROVE FALSE
    <3>1. (-2 - (i - j)) * TimestampEpoch >= 0
      BY <2>5, EpochType
    <3>2. (-2 - (i - j)) * TimestampEpoch
             = (-2) * TimestampEpoch - (i - j) * TimestampEpoch
      BY EpochType
    <3> QED BY <3>1, <3>2, <2>3, EpochType
  <2> QED BY <2>4, <2>5
<1>6. v \in candidates
  BY <1>4, <1>5, EpochType
<1>7. ASSUME NEW other \in candidates, other # v
      PROVE  distance(v) < distance(other)
  <2>1. other \in Int /\ (other >= v + TimestampEpoch \/ other <= v - TimestampEpoch)
    BY <1>7, <1>4, <1>5, EpochType
  <2> QED BY <2>1, EpochType DEF AbsoluteDifference
<1>8. nearest = {v}
  <2>1. \A time \in candidates : distance(time) \in Int
    BY <1>4, EpochType DEF AbsoluteDifference
  <2>2. v \in nearest
    <3>1. \A other \in candidates : distance(v) <= distance(other)
      <4>1. SUFFICES ASSUME NEW other \in candidates
                     PROVE  distance(v) <= distance(other)
        OBVIOUS
      <4>2. CASE other = v
        BY <4>2, <1>6, <2>1
      <4>3. CASE other # v
        <5> HIDE DEF candidates, distance
        <5> QED BY <4>3, <1>6, <1>7, <2>1
      <4> QED BY <4>2, <4>3
    <3> QED BY <1>6, <3>1
  <2>3. ASSUME NEW other \in nearest, other # v PROVE FALSE
    <3>1. other \in candidates /\ distance(other) <= distance(v)
      BY <2>3, <1>6
    <3> HIDE DEF candidates, distance
    <3> QED BY <3>1, <2>3, <1>6, <1>7, <2>1
  <2> HIDE DEF nearest
  <2> QED BY <2>2, <2>3
<1>9. (IF selected \in nearest THEN selected
       ELSE CHOOSE time \in nearest : TRUE) = v
  BY <1>8
<1> QED BY <1>9 DEF ExtendTimestampNear

-----------------------------------------------------------------------------
(* What an exchange measures.                                              *)

LEMMA HalfBounds ==
    ASSUME NEW x \in Int
    PROVE  /\ Half(x) \in Int
           /\ x - 1 <= 2 * Half(x) /\ 2 * Half(x) <= x + 1
BY DEF Half

(* The true offset of a clock that is far from half an epoch away leaves   *)
(* room for the delays of an exchange.                                     *)
LEMMA TrueOffsetHasRoom ==
    ASSUME SkewsFarFromHalf, NEW s \in Skews
    PROVE  /\ s \in Int /\ ModuloDifference(s, 0) \in Int
           /\ \A d \in -MaxDelay..MaxDelay :
                 /\ -HalfEpoch <= ModuloDifference(s, 0) + d
                 /\ ModuloDifference(s, 0) + d < HalfEpoch
<1>1. s \in Int /\ ModuloDifference(s, 0) \in Int
  BY TimesAssumption, TrueOffsetIsSkew
<1>2. AbsoluteDifference(ModuloDifference(s, 0), 0) < HalfEpoch - MaxDelay
  BY DEF SkewsFarFromHalf
<1> QED BY <1>1, <1>2, EpochType DEF AbsoluteDifference

(* An exchange whose moments are in order and not too far apart: the round *)
(* trip is the time spent under way, the offset is off by at most half of  *)
(* it.                                                                     *)
LEMMA SampleAccurate ==
    ASSUME SkewsFarFromHalf, NEW s \in Skews,
           NEW sent \in Int, NEW received \in Int,
           NEW responded \in Int, NEW back \in Int,
           sent <= received, received <= responded, responded <= back,
           back - sent <= MaxDelay
    PROVE  LET r1 == Low(sent)
               r2 == Low(received + s)
               r3 == Low(responded + s)
               r4 == Low(back)
           IN  /\ RoundTrip(r1, r2, r3, r4)
                    = (back - sent) - (responded - received)
               /\ Offset(r1, r2, r3, r4) \in Int
               /\ WithinHalfRoundTrip(Offset(r1, r2, r3, r4),
                                      ModuloDifference(s, 0),
                                      RoundTrip(r1, r2, r3, r4))
<1> DEFINE true == ModuloDifference(s, 0)
           r1 == Low(sent)
           r2 == Low(received + s)
           r3 == Low(responded + s)
           r4 == Low(back)
<1>1. s \in Int /\ true \in Int /\ MaxDelay \in Nat /\ MaxDelay < HalfEpoch
  BY TrueOffsetHasRoom, EpochType
<1>2. PICK k \in Int : s = true + k * TimestampEpoch
  BY <1>1, TrueOffsetIsSkew
<1>3. ModuloDifference(r4, r1) = back - sent
  <2>1. back - sent = (back - sent) + 0 * TimestampEpoch
    BY EpochType
  <2>2. /\ -HalfEpoch <= back - sent /\ back - sent < HalfEpoch
        /\ back - sent \in Int
    BY <1>1, EpochType
  <2> QED BY <2>1, <2>2, ModuloDifferenceExact
<1>4. ModuloDifference(r3, r2) = responded - received
  <2>1. /\ (responded + s) - (received + s)
              = (responded - received) + 0 * TimestampEpoch
        /\ responded + s \in Int /\ received + s \in Int
    BY <1>1, EpochType
  <2>2. /\ -HalfEpoch <= responded - received
        /\ responded - received < HalfEpoch
        /\ responded - received \in Int
    BY <1>1, EpochType
  <2> QED BY <2>1, <2>2, ModuloDifferenceExact
<1>5. ModuloDifference(r2, r1) = true + (received - sent)
  <2>1. received - sent \in -MaxDelay..MaxDelay
    BY <1>1
  <2>2. /\ -HalfEpoch <= true + (received - sent)
        /\ true + (received - sent) < HalfEpoch
    BY <2>1, TrueOffsetHasRoom
  <2>3. /\ (received + s) - sent
              = (true + (received - sent)) + k * TimestampEpoch
        /\ received + s \in Int /\ true + (received - sent) \in Int
    BY <1>1, <1>2, EpochType
  <2> QED BY <2>2, <2>3, ModuloDifferenceExact
<1>6. ModuloDifference(r3, r4) = true + (responded - back)
  <2>1. responded - back \in -MaxDelay..MaxDelay
    BY <1>1
  <2>2. /\ -HalfEpoch <= true + (responded - back)
        /\ true + (responded - back) < HalfEpoch
    BY <2>1, TrueOffsetHasRoom
  <2>3. /\ (responded + s) - back
              = (true + (responded - back)) + k * TimestampEpoch
        /\ responded + s \in Int /\ true + (responded - back) \in Int
    BY <1>1, <1>2, EpochType
  <2> QED BY <2>2, <2>3, ModuloDifferenceExact
<1>7. RoundTrip(r1, r2, r3, r4) = (back - sent) - (responded - received)
  BY <1>3, <1>4 DEF RoundTrip
<1> DEFINE sum == ModuloDifference(r2, r1) + ModuloDifference(r3, r4)
<1>8. sum \in Int /\ sum = 2 * true + (received - sent) - (back - responded)
  BY <1>1, <1>5, <1>6
<1>9. Offset(r1, r2, r3, r4) = Half(sum)
  BY DEF Offset
<1> HIDE DEF sum, true
<1>10. /\ Half(sum) \in Int
       /\ sum - 1 <= 2 * Half(sum) /\ 2 * Half(sum) <= sum + 1
  BY <1>8, HalfBounds
<1>11. /\ 2 * (Half(sum) - true) <= RoundTrip(r1, r2, r3, r4) + 1
       /\ 2 * (true - Half(sum)) <= RoundTrip(r1, r2, r3, r4) + 1
  BY <1>1, <1>7, <1>8, <1>10
<1>12. WithinHalfRoundTrip(Half(sum), true, RoundTrip(r1, r2, r3, r4))
  BY <1>11 DEF WithinHalfRoundTrip, AbsoluteDifference
<1> QED BY <1>7, <1>9, <1>10, <1>12 DEF true

-----------------------------------------------------------------------------
(* The invariant.                                                          *)

LEMMA InitIInv == Init => IInv
<1> SUFFICES ASSUME Init PROVE IInv
  OBVIOUS
<1>1. TypeOK
  <2>1. /\ skew \in Int /\ 0 \in 0..(TimestampEpoch - 1) /\ SampleCount \in Nat
    BY TimesAssumption, EpochType DEF Init
  <2>2. now \in Nat /\ nodeNow \in Nat
    BY <2>1 DEF Init, nodeNow, StartTime
  <2>3. samples \in Seq(Sample) /\ Len(samples) <= attempts
    BY DEF Init
  <2> QED BY <2>1, <2>2, <2>3 DEF Init, TypeOK, Stages, Timestamps
<1>2. StampsOfMoments
  BY DEF Init, StampsOfMoments
<1>3. SamplesMeasured /\ TargetMeasured /\ CommitMeasured /\ LocalMeasured
  BY DEF Init, SamplesMeasured, TargetMeasured, CommitMeasured, LocalMeasured
<1> QED BY <1>1, <1>2, <1>3 DEF IInv

(* Types that the proofs below share.                                      *)
LEMMA Types ==
    ASSUME IInv
    PROVE  /\ skew \in Skews /\ skew \in Int
           /\ now \in Nat /\ now + skew \in Nat
           /\ TrueOffset \in Int
           /\ startedAt \in Nat /\ startedAt <= now
           /\ \A i \in DOMAIN samples : samples[i] \in Sample
<1>1. skew \in Skews /\ skew \in Int
  BY TimesAssumption DEF IInv, TypeOK
<1>2. TrueOffset \in Int
  BY <1>1, TrueOffsetIsSkew DEF TrueOffset
<1>3. now \in Nat /\ now + skew \in Nat /\ startedAt \in Nat /\ startedAt <= now
  BY DEF IInv, TypeOK, nodeNow
<1>4. \A i \in DOMAIN samples : samples[i] \in Sample
  BY DEF IInv, TypeOK
<1> QED BY <1>1, <1>2, <1>3, <1>4

(* A measurement remains one as time passes.                               *)
LEMMA MeasuredLater ==
    ASSUME NEW r, r.roundTrip \in Int, NEW time \in Int, NEW later \in Int,
           skew \in Int, time <= later, Measured(r, time)
    PROVE  Measured(r, later)
BY DEF Measured

(* What a step leaves alone remains measured.                              *)
LEMMA MeasuredFrame ==
    ASSUME IInv, skew' = skew, now' \in Nat, now <= now'
    PROVE  /\ samples' = samples => SamplesMeasured'
           /\ target' = target /\ (stage' = "Commit" => stage = "Commit")
                => TargetMeasured'
           /\ commit' = commit
              /\ (commit # NoSynchronization =>
                     now' - commit.synchronizedAt <= MaxDelay)
                => CommitMeasured'
           /\ local' = local /\ anchor' = anchor => LocalMeasured'
<1>1. skew \in Int /\ now \in Int /\ now' \in Int
  BY Types
<1>2. ASSUME samples' = samples PROVE SamplesMeasured'
  <2>1. \A i \in DOMAIN samples : samples[i].roundTrip \in Int
    BY Types, EpochType DEF Sample
  <2>2. \A i \in DOMAIN samples : Measured(samples[i], now')
    BY <1>1, <2>1, MeasuredLater DEF IInv, SamplesMeasured
  <2> QED BY <1>2, <2>2 DEF SamplesMeasured, Measured, Accurate, TrueOffset
<1>3. ASSUME target' = target, stage' = "Commit" => stage = "Commit"
      PROVE  TargetMeasured'
  <2>1. /\ target # NoSynchronization => target.roundTrip \in Int
        /\ stage = "Commit" => target \in Sample /\ target.roundTrip \in Int
    BY EpochType DEF IInv, TypeOK, Sample, TargetMeasured
  <2>2. /\ target # NoSynchronization => Measured(target, now')
        /\ stage = "Commit" => Measured(target, now')
    BY <1>1, <2>1, MeasuredLater DEF IInv, TargetMeasured
  <2> QED BY <1>3, <2>1, <2>2 DEF TargetMeasured, Measured, Accurate, TrueOffset
<1>4. ASSUME commit' = commit,
             commit # NoSynchronization =>
                 now' - commit.synchronizedAt <= MaxDelay
      PROVE  CommitMeasured'
  <2>1. commit # NoSynchronization =>
          /\ commit.synchronizedAt \in Nat
          /\ now' - commit.synchronizedAt \in 0..MaxDelay
    BY <1>4, EpochType DEF IInv, TypeOK, Commit, CommitMeasured
  <2> QED BY <1>4, <2>1
          DEF IInv, CommitMeasured, Measured, Accurate, TrueOffset
<1>5. ASSUME local' = local, anchor' = anchor PROVE LocalMeasured'
  <2>1. local # NoSynchronization =>
          local.synchronizedAt \in Nat /\ local.synchronizedAt <= now'
    BY DEF IInv, TypeOK, Commit, LocalMeasured
  <2> QED BY <1>5, <2>1
          DEF IInv, LocalMeasured, Measured, Accurate, TrueOffset
<1> QED BY <1>2, <1>3, <1>4, <1>5

(* The error of a measured offset is at most its round trip: a whole       *)
(* microsecond of rounding counts only if there was a round trip.          *)
LEMMA ErrorBound ==
    ASSUME NEW o \in Int, NEW truth \in Int, NEW roundTrip \in Nat,
           WithinHalfRoundTrip(o, truth, roundTrip)
    PROVE  -roundTrip <= o - truth /\ o - truth <= roundTrip
BY DEF WithinHalfRoundTrip, AbsoluteDifference

(* Adding an offset to a 32 bit time of the master, or subtracting it from *)
(* one of the node, errs by as much as the offset does.                    *)
LEMMA ConversionOfLow ==
    ASSUME IInv, NEW x \in Int, NEW o \in Int
    PROVE  /\ Low(Low(x) + Low(o)) = Low(x + skew + (o - TrueOffset))
           /\ Low(Low(x + skew) - Low(o)) = Low(x - (o - TrueOffset))
<1> DEFINE lx == Low(x)
           lo == Low(o)
           ls == Low(x + skew)
<1>1. skew \in Int /\ TrueOffset \in Int
  BY Types
<1>2. PICK k \in Int : skew = TrueOffset + k * TimestampEpoch
  BY <1>1, TrueOffsetIsSkew DEF TrueOffset
<1>3. PICK i \in Int : x = lx + i * TimestampEpoch
  BY LowRemainder
<1>4. PICK j \in Int : o = lo + j * TimestampEpoch
  BY LowRemainder
<1>5. PICK n \in Int : x + skew = ls + n * TimestampEpoch
  BY <1>1, LowRemainder
<1>6. lx \in Int /\ lo \in Int /\ ls \in Int
  BY <1>1, LowRemainder
<1> DEFINE ie == i * TimestampEpoch
           je == j * TimestampEpoch
           ke == k * TimestampEpoch
           ne == n * TimestampEpoch
<1>7. ie \in Int /\ je \in Int /\ ke \in Int /\ ne \in Int
  BY EpochType
<1>8. /\ skew = TrueOffset + ke /\ x = lx + ie
      /\ o = lo + je /\ x + skew = ls + ne
  BY <1>2, <1>3, <1>4, <1>5
<1>9. /\ lx + lo = (x + skew + (o - TrueOffset)) + (-ie - je - ke)
      /\ ls - lo = (x - (o - TrueOffset)) + (ke - ne + je)
  <2> HIDE DEF lx, lo, ls, ie, je, ke, ne
  <2> QED BY <1>1, <1>6, <1>7, <1>8
<1>10. /\ -ie - je - ke = (-i - j - k) * TimestampEpoch
       /\ ke - ne + je = (k - n + j) * TimestampEpoch
  BY EpochType
<1>11. /\ lx + lo \in Int /\ ls - lo \in Int
       /\ x + skew + (o - TrueOffset) \in Int /\ x - (o - TrueOffset) \in Int
       /\ -i - j - k \in Int /\ k - n + j \in Int
  BY <1>1, <1>6
<1>12. /\ lx + lo = (x + skew + (o - TrueOffset)) + (-i - j - k) * TimestampEpoch
       /\ ls - lo = (x - (o - TrueOffset)) + (k - n + j) * TimestampEpoch
  BY <1>9, <1>10
<1> HIDE DEF lx, lo, ls, ie, je, ke, ne
<1>13. Low(lx + lo) = Low(x + skew + (o - TrueOffset))
  BY <1>11, <1>12, LowShift
<1>14. Low(ls - lo) = Low(x - (o - TrueOffset))
  BY <1>11, <1>12, LowShift
<1> QED BY <1>13, <1>14 DEF lx, lo, ls

(* The node's anchor is the true time of the commit, but for the error of  *)
(* the offset.                                                             *)
LEMMA AnchorExact ==
    ASSUME IInv, commit # NoSynchronization
    PROVE  ExtendTimestampNear(
               Low(Low(commit.synchronizedAt) + Low(commit.nodeMinusMaster)),
               nodeNow)
             = commit.synchronizedAt + skew
                 + (commit.nodeMinusMaster - TrueOffset)
<1> DEFINE at == commit.synchronizedAt
           error == commit.nodeMinusMaster - TrueOffset
           rt == commit.roundTrip
<1>1. /\ skew \in Int /\ now \in Nat /\ now + skew \in Nat /\ TrueOffset \in Int
  BY Types
<1>2. /\ at \in Nat /\ commit.nodeMinusMaster \in Int
      /\ rt \in Nat /\ rt <= ResponseTimeout
  BY EpochType DEF IInv, TypeOK, Commit
<1>3. /\ Accurate(commit) /\ rt <= at + skew
      /\ now - at \in 0..MaxDelay
  BY DEF IInv, CommitMeasured, Measured
<1>4. error \in Int /\ -rt <= error /\ error <= rt
  BY <1>1, <1>2, <1>3, ErrorBound DEF Accurate
<1>5. Low(Low(at) + Low(commit.nodeMinusMaster)) = Low(at + skew + error)
  BY <1>2, ConversionOfLow
<1> HIDE DEF at, error, rt
<1>6. at + skew + error \in Nat
  BY <1>1, <1>2, <1>3, <1>4
<1>7. AbsoluteDifference(at + skew + error, now + skew) < HalfEpoch
  BY <1>1, <1>2, <1>3, <1>4, EpochType DEF AbsoluteDifference
<1>8. ExtendTimestampNear(Low(at + skew + error), now + skew) = at + skew + error
  BY <1>1, <1>6, <1>7, ExtendExact
<1> QED BY <1>5, <1>8 DEF at, error, nodeNow

(* A response in time is a sample of moments in order; its round trip is   *)
(* no longer than both clocks have run.                                    *)
LEMMA HandleResponseMeasures ==
    ASSUME IInv, SkewsFarFromHalf, HandleResponse
    PROVE  /\ samples' \in Seq(Sample)
           /\ Len(samples') <= Len(samples) + 1
           /\ \A i \in DOMAIN samples' : Measured(samples'[i], now)
<1> DEFINE sample == CalculateSample(t1, t2, t3, Low(now))
           roundTrip == RoundTrip(t1, t2, t3, Low(now))
<1>1. samples \in Seq(Sample)
  BY DEF IInv, TypeOK
<1>2. \A i \in DOMAIN samples : Measured(samples[i], now)
  BY DEF IInv, SamplesMeasured
<1>3. CASE ~IsPlausible(roundTrip)
  BY <1>1, <1>2, <1>3 DEF HandleResponse
<1>4. CASE IsPlausible(roundTrip)
  <2>1. stage = "Responded" /\ samples' = Append(samples, sample)
    BY <1>4 DEF HandleResponse
  <2>2. PICK received \in startedAt..now, responded \in startedAt..now :
            /\ received <= responded
            /\ t2 = Low(received + skew) /\ t3 = Low(responded + skew)
    BY <2>1 DEF IInv, StampsOfMoments
  <2>3. /\ now \in Int /\ startedAt \in Int /\ startedAt >= 0
        /\ skew \in Skews /\ skew \in Int
        /\ now - startedAt <= MaxDelay /\ t1 = Low(startedAt)
        /\ startedAt + skew >= 0
    BY <2>1, Types DEF IInv, StampsOfMoments
  <2>4. /\ roundTrip = (now - startedAt) - (responded - received)
        /\ Offset(t1, t2, t3, Low(now)) \in Int
        /\ WithinHalfRoundTrip(Offset(t1, t2, t3, Low(now)), TrueOffset,
                               roundTrip)
    <3>1. /\ received \in Int /\ responded \in Int
          /\ startedAt <= received /\ responded <= now
      BY <2>2, <2>3
    <3>2. /\ RoundTrip(t1, t2, t3, Low(now))
               = (now - startedAt) - (responded - received)
          /\ Offset(t1, t2, t3, Low(now)) \in Int
          /\ WithinHalfRoundTrip(Offset(t1, t2, t3, Low(now)),
                                 ModuloDifference(skew, 0),
                                 RoundTrip(t1, t2, t3, Low(now)))
      <4> HIDE DEF roundTrip, sample
      <4>1. /\ received <= responded
            /\ t2 = Low(received + skew) /\ t3 = Low(responded + skew)
        BY <2>2
      <4>2. LET r1 == Low(startedAt)
                r2 == Low(received + skew)
                r3 == Low(responded + skew)
                r4 == Low(now)
            IN  /\ RoundTrip(r1, r2, r3, r4)
                     = (now - startedAt) - (responded - received)
                /\ Offset(r1, r2, r3, r4) \in Int
                /\ WithinHalfRoundTrip(Offset(r1, r2, r3, r4),
                                       ModuloDifference(skew, 0),
                                       RoundTrip(r1, r2, r3, r4))
        BY <4>1, <2>3, <3>1, SampleAccurate
      <4> QED BY <4>1, <4>2, <2>3
    <3> QED BY <3>2 DEF TrueOffset
  <2>5. sample \in Sample
    BY <1>4, <2>4 DEF CalculateSample, Sample, IsPlausible
  <2>6. roundTrip <= now /\ roundTrip <= now + skew
    <3>1. now - startedAt <= now /\ now - startedAt <= now + skew
      BY <2>3
    <3> QED BY <2>2, <2>3, <2>4, <3>1
  <2>7. Measured(sample, now)
    BY <2>4, <2>6 DEF Measured, Accurate, CalculateSample
  <2> HIDE DEF sample
  <2> QED BY <1>1, <1>2, <2>1, <2>5, <2>7
<1> QED BY <1>3, <1>4

(* Every nonempty set of natural numbers has a smallest element.           *)
LEMMA LeastElement ==
    ASSUME NEW S \in SUBSET Nat, NEW n \in S
    PROVE  \E m \in S : \A k \in S : m <= k
<1> DEFINE Less == OpToRel(<, Nat)
<1>1. \A j, k \in Nat : <<j, k>> \in Less <=> j < k
  BY DEF OpToRel
<1>2. IsWellFoundedOn(Less, Nat)
  BY NatLessThanWellFounded
<1> HIDE DEF Less
<1>3. PICK m \in S : \A k \in S : ~(<<k, m>> \in Less)
  BY <1>2, WFMin
<1>4. \A k \in S : m \in Nat /\ k \in Nat /\ ~(k < m)
  BY <1>1, <1>3
<1>5. \A k \in S : m <= k
  BY <1>4
<1> QED BY <1>5

(* There is a first of the samples with the shortest round trip.           *)
LEMMA BestSampleExists ==
    ASSUME IInv, samples # <<>>
    PROVE  \E i \in DOMAIN samples :
               \A j \in DOMAIN samples :
                   /\ samples[i].roundTrip <= samples[j].roundTrip
                   /\ samples[i].roundTrip = samples[j].roundTrip => i <= j
<1> DEFINE Trip(i) == samples[i].roundTrip
           Trips == {Trip(i) : i \in DOMAIN samples}
           Best == {i \in DOMAIN samples : \A j \in DOMAIN samples : Trip(i) <= Trip(j)}
<1>1. DOMAIN samples \in SUBSET Nat /\ 1 \in DOMAIN samples
  BY DEF IInv, TypeOK
<1>2. \A i \in DOMAIN samples : Trip(i) \in Nat
  BY Types, EpochType DEF Sample
<1>3. PICK i \in DOMAIN samples : Trip(i) \in Trips /\ \A t \in Trips : Trip(i) <= t
  <2>1. Trips \in SUBSET Nat /\ Trip(1) \in Trips
    BY <1>1, <1>2
  <2>2. PICK t \in Trips : \A other \in Trips : t <= other
    <3> HIDE DEF Trips
    <3> QED BY <2>1, LeastElement
  <2> QED BY <2>2
<1>4. i \in Best
  BY <1>3
<1>5. PICK first \in Best : \A j \in Best : first <= j
  <2>1. Best \in SUBSET Nat
    BY <1>1
  <2> HIDE DEF Best
  <2> QED BY <1>4, <2>1, LeastElement
<1>6. ASSUME NEW j \in DOMAIN samples
      PROVE  Trip(first) <= Trip(j) /\ (Trip(first) = Trip(j) => first <= j)
  <2>1. Trip(first) = Trip(j) => j \in Best
    BY <1>5
  <2> QED BY <1>5, <2>1
<1> QED BY <1>5, <1>6

(* Every step preserves IInv.                                              *)
LEMMA StepIInv ==
    ASSUME SkewsFarFromHalf, IInv, [Next]_vars
    PROVE  IInv'
<1> DEFINE Untouched == SamplesMeasured' /\ TargetMeasured'
                        /\ CommitMeasured' /\ LocalMeasured'
<1>1. /\ now \in Nat /\ now + skew \in Nat /\ skew \in Int
      /\ startedAt \in Nat /\ startedAt <= now
      /\ 0 \in Timestamps /\ \A x \in Int : Low(x) \in Timestamps
  <2>1. \A x \in Int : Low(x) \in Timestamps
    BY LowRemainder DEF Timestamps
  <2>2. 0 \in Timestamps
    BY EpochType DEF Timestamps
  <2> QED BY <2>1, <2>2, Types
<1>2. commit # NoSynchronization => now - commit.synchronizedAt <= MaxDelay
  BY EpochType DEF IInv, TypeOK, Commit, CommitMeasured
<1>3. CASE TrySendRequest
  <2>1. TypeOK'
    BY <1>1, <1>3, TimesAssumption
       DEF TrySendRequest, IInv, TypeOK, Stages, nodeNow, node
  <2>2. StampsOfMoments'
    <3>1. Len(samples) < attempts + 1
      BY TimesAssumption DEF IInv, TypeOK
    <3> QED BY <1>1, <1>3, <3>1, EpochType
            DEF TrySendRequest, StampsOfMoments, nodeNow
  <2>3. Untouched
    BY <1>1, <1>2, <1>3, MeasuredFrame DEF TrySendRequest, node
  <2> QED BY <2>1, <2>2, <2>3 DEF IInv
<1>4. CASE FailToSendRequest
  <2>1. TypeOK'
    BY <1>4, TimesAssumption
       DEF FailToSendRequest, IInv, TypeOK, nodeNow, node, exchange
  <2>2. StampsOfMoments'
    BY <1>4 DEF FailToSendRequest, IInv, StampsOfMoments, exchange
  <2>3. Untouched
    BY <1>1, <1>2, <1>4, MeasuredFrame DEF FailToSendRequest, node
  <2> QED BY <2>1, <2>2, <2>3 DEF IInv
<1>5. CASE HandleRequest
  <2>1. TypeOK'
    BY <1>1, <1>5 DEF HandleRequest, IInv, TypeOK, Stages, nodeNow, node, master
  <2>2. StampsOfMoments'
    BY <1>1, <1>5 DEF HandleRequest, IInv, StampsOfMoments, nodeNow, master
  <2>3. Untouched
    BY <1>1, <1>2, <1>5, MeasuredFrame DEF HandleRequest, node, master
  <2> QED BY <2>1, <2>2, <2>3 DEF IInv
<1>6. CASE TrySendPendingResponse
  <2>1. TypeOK'
    BY <1>1, <1>6
       DEF TrySendPendingResponse, IInv, TypeOK, Stages, nodeNow, node, master
  <2>2. StampsOfMoments'
    <3>1. PICK received \in startedAt..now : t2 = Low(received + skew)
      BY <1>6 DEF TrySendPendingResponse, IInv, StampsOfMoments
    <3>2. received <= now /\ now \in startedAt..now /\ t3' = Low(now + skew)
      BY <1>1, <1>6 DEF TrySendPendingResponse, nodeNow
    <3> QED BY <1>6, <3>1, <3>2
            DEF TrySendPendingResponse, IInv, StampsOfMoments, master
  <2>3. Untouched
    BY <1>1, <1>2, <1>6, MeasuredFrame DEF TrySendPendingResponse, node, master
  <2> QED BY <2>1, <2>2, <2>3 DEF IInv
<1>7. CASE HandleResponse
  <2>1. TypeOK'
    <3>1. Len(samples') <= attempts
      <4>1. Len(samples) < attempts /\ attempts \in Nat /\ Len(samples) \in Nat
        BY <1>7, TimesAssumption
           DEF HandleResponse, IInv, TypeOK, StampsOfMoments
      <4>2. Len(samples') \in Nat /\ Len(samples') <= Len(samples) + 1
        BY <1>7, HandleResponseMeasures
      <4> QED BY <4>1, <4>2
    <3> QED BY <1>1, <1>7, <3>1, HandleResponseMeasures
            DEF HandleResponse, EndExchange, IInv, TypeOK, Stages, nodeNow, node
  <2>2. StampsOfMoments'
    BY <1>7 DEF HandleResponse, StampsOfMoments
  <2>3. SamplesMeasured'
    BY <1>7, HandleResponseMeasures
       DEF HandleResponse, SamplesMeasured, Measured, Accurate, TrueOffset
  <2>4. TargetMeasured' /\ CommitMeasured' /\ LocalMeasured'
    BY <1>1, <1>2, <1>7, MeasuredFrame DEF HandleResponse, node
  <2> QED BY <2>1, <2>2, <2>3, <2>4 DEF IInv
<1>8. CASE RequestTimeout
  <2>1. TypeOK'
    BY <1>1, <1>8 DEF RequestTimeout, EndExchange, IInv, TypeOK, Stages,
                      nodeNow, node, master
  <2>2. StampsOfMoments'
    BY <1>8 DEF RequestTimeout, StampsOfMoments
  <2>3. Untouched
    BY <1>1, <1>2, <1>8, MeasuredFrame DEF RequestTimeout, node, master
  <2> QED BY <2>1, <2>2, <2>3 DEF IInv
<1>9. CASE FinalizeCurrentTarget
  <2>1. CASE samples # <<>>
    <3>1. \E i \in DOMAIN samples : target' = samples[i]
      <4>1. SelectBestSample \in DOMAIN samples
        BY <2>1, BestSampleExists DEF SelectBestSample
      <4> QED BY <1>9, <2>1, <4>1 DEF FinalizeCurrentTarget
    <3>2. TypeOK'
      BY <1>9, <2>1, <3>1, Types
         DEF FinalizeCurrentTarget, IInv, TypeOK, Stages, nodeNow, node, exchange
    <3>3. TargetMeasured'
      <4>1. PICK i \in DOMAIN samples : target' = samples[i]
        BY <3>1
      <4>2. Measured(samples[i], now)
        BY DEF IInv, SamplesMeasured
      <4>3. samples[i] \in Sample
        BY Types
      <4> QED BY <1>9, <2>1, <4>1, <4>2, <4>3
              DEF FinalizeCurrentTarget, TargetMeasured, Measured, Accurate, TrueOffset
    <3>4. StampsOfMoments'
      BY <1>9, <2>1 DEF FinalizeCurrentTarget, StampsOfMoments
    <3>5. SamplesMeasured' /\ CommitMeasured' /\ LocalMeasured'
      BY <1>1, <1>2, <1>9, <2>1, MeasuredFrame DEF FinalizeCurrentTarget, node
    <3> QED BY <3>2, <3>3, <3>4, <3>5 DEF IInv
  <2>2. CASE samples = <<>>
    <3>1. TypeOK'
      BY <1>9, <2>2, TimesAssumption
         DEF FinalizeCurrentTarget, IInv, TypeOK, nodeNow, node, exchange
    <3>2. StampsOfMoments'
      BY <1>9, <2>2 DEF FinalizeCurrentTarget, IInv, StampsOfMoments, exchange
    <3>3. Untouched
      BY <1>1, <1>2, <1>9, <2>2, MeasuredFrame DEF FinalizeCurrentTarget, node
    <3> QED BY <3>1, <3>2, <3>3 DEF IInv
  <2> QED BY <2>1, <2>2
<1>10. CASE TrySendCommit
  <2>1. target \in Sample /\ Measured(target, now)
    BY <1>10 DEF TrySendCommit, IInv, TargetMeasured
  <2>2. commit' \in Commit
    BY <1>1, <1>10, <2>1 DEF TrySendCommit, Sample, Commit
  <2>3. TypeOK'
    BY <1>10, <2>2
       DEF TrySendCommit, IInv, TypeOK, Stages, nodeNow, node, exchange, master
  <2>4. StampsOfMoments'
    BY <1>10 DEF TrySendCommit, StampsOfMoments
  <2>5. CommitMeasured'
    BY <1>1, <1>10, <2>1, EpochType
       DEF TrySendCommit, CommitMeasured, Measured, Accurate, TrueOffset
  <2>6. SamplesMeasured' /\ TargetMeasured' /\ LocalMeasured'
    BY <1>1, <1>10, MeasuredFrame DEF TrySendCommit, node, master
  <2> QED BY <2>3, <2>4, <2>5, <2>6 DEF IInv
<1>11. CASE LoseCommit
  <2>1. TypeOK'
    BY <1>11 DEF LoseCommit, IInv, TypeOK, nodeNow, node, exchange, master
  <2>2. StampsOfMoments'
    BY <1>11 DEF LoseCommit, IInv, StampsOfMoments, exchange, master
  <2>3. SamplesMeasured' /\ TargetMeasured' /\ LocalMeasured'
    BY <1>1, <1>11, MeasuredFrame DEF LoseCommit, node, master
  <2>4. CommitMeasured'
    BY <1>11 DEF LoseCommit, CommitMeasured
  <2> QED BY <2>1, <2>2, <2>3, <2>4 DEF IInv
<1>12. CASE HandleCommit
  <2>1. /\ commit # NoSynchronization /\ commit \in Commit
        /\ local' = commit /\ commit' = NoSynchronization
    BY <1>12 DEF HandleCommit, IInv, TypeOK
  <2>2. anchor' = commit.synchronizedAt + skew
                    + (commit.nodeMinusMaster - TrueOffset)
    BY <1>12, <2>1, AnchorExact DEF HandleCommit
  <2>3. /\ commit.synchronizedAt \in Nat /\ commit.nodeMinusMaster \in Int
        /\ TrueOffset \in Int
    BY <2>1, Types DEF Commit
  <2>4. TypeOK'
    BY <1>1, <1>12, <2>1, <2>2, <2>3
       DEF HandleCommit, IInv, TypeOK, nodeNow, exchange, master
  <2>5. StampsOfMoments'
    BY <1>12 DEF HandleCommit, IInv, StampsOfMoments, exchange, master
  <2>6. SamplesMeasured' /\ TargetMeasured'
    BY <1>1, <1>12, MeasuredFrame DEF HandleCommit, master
  <2>7. CommitMeasured'
    BY <2>1 DEF CommitMeasured
  <2>8. LocalMeasured'
    <3>1. /\ Measured(commit, commit.synchronizedAt)
          /\ commit.synchronizedAt <= now
      BY <1>1, <2>1, <2>3, EpochType DEF IInv, CommitMeasured
    <3>2. anchor' - (commit.synchronizedAt + skew)
            = commit.nodeMinusMaster - TrueOffset
      BY <1>1, <2>2, <2>3
    <3>3. skew' = skew /\ now' = now
      BY <1>12 DEF HandleCommit
    <3> QED BY <2>1, <3>1, <3>2, <3>3
            DEF LocalMeasured, Measured, Accurate, TrueOffset
  <2> QED BY <2>4, <2>5, <2>6, <2>7, <2>8 DEF IInv
<1>13. CASE RebuildTargets
  <2>1. TypeOK'
    BY <1>13, TimesAssumption
       DEF RebuildTargets, IInv, TypeOK, Stages, nodeNow, node, exchange
  <2>2. StampsOfMoments'
    BY <1>13 DEF RebuildTargets, StampsOfMoments
  <2>3. SamplesMeasured'
    BY <1>13 DEF RebuildTargets, SamplesMeasured
  <2>4. TargetMeasured' /\ CommitMeasured' /\ LocalMeasured'
    BY <1>1, <1>2, <1>13, MeasuredFrame DEF RebuildTargets, node
  <2> QED BY <2>1, <2>2, <2>3, <2>4 DEF IInv
<1>14. CASE Tick
  <2>1. now' = now + 1 /\ skew' = skew
    BY <1>14 DEF Tick
  <2>2. TypeOK'
    BY <1>1, <1>14, <2>1
       DEF Tick, IInv, TypeOK, nodeNow, node, exchange, master
  <2>3. StampsOfMoments'
    <3>1. stage' = stage /\ UNCHANGED <<t1, t2, t3, startedAt, samples, attempts>>
      BY <1>14 DEF Tick, exchange, master
    <3>2. startedAt..now \subseteq startedAt..now'
      BY <1>1, <2>1
    <3>3. stage \in {"Requested", "Received", "Responded"} =>
            now' - startedAt <= MaxDelay
      BY <1>1, <1>14, <2>1, EpochType DEF Tick
    <3> QED BY <2>1, <3>1, <3>2, <3>3 DEF IInv, StampsOfMoments
  <2>4. commit # NoSynchronization => now' - commit.synchronizedAt <= MaxDelay
    BY <1>1, <1>14, <2>1, EpochType DEF Tick, IInv, TypeOK, Commit
  <2>5. Untouched
    BY <1>1, <1>14, <2>1, <2>4, MeasuredFrame DEF Tick, node, master
  <2> QED BY <2>2, <2>3, <2>5 DEF IInv
<1>15. CASE UNCHANGED vars
  <2>1. TypeOK'
    BY <1>15 DEF vars, IInv, TypeOK, nodeNow, node, exchange, master
  <2>2. StampsOfMoments'
    BY <1>15 DEF vars, IInv, StampsOfMoments, exchange, master
  <2>3. Untouched
    BY <1>1, <1>2, <1>15, MeasuredFrame DEF vars, node, master
  <2> QED BY <2>1, <2>2, <2>3 DEF IInv
<1> QED
  BY <1>3, <1>4, <1>5, <1>6, <1>7, <1>8, <1>9, <1>10, <1>11, <1>12, <1>13,
     <1>14, <1>15 DEF Next

-----------------------------------------------------------------------------
(* What the node and the master compute from it.                           *)

(* The node's notion of the master's time is off by the error of its       *)
(* offset and nothing else.                                                *)
LEMMA CurrentMasterTimeExact ==
    ASSUME IInv, local # NoSynchronization
    PROVE  CurrentMasterTime = now - (local.nodeMinusMaster - TrueOffset)
<1> DEFINE error == local.nodeMinusMaster - TrueOffset
<1>1. /\ skew \in Int /\ now \in Nat /\ TrueOffset \in Int
  BY Types
<1>2. /\ local.synchronizedAt \in Nat /\ local.nodeMinusMaster \in Int
      /\ local.roundTrip \in Nat /\ anchor \in Int
  BY EpochType DEF IInv, TypeOK, Commit
<1>3. /\ anchor = local.synchronizedAt + skew + error
      /\ local.roundTrip <= local.synchronizedAt
      /\ local.synchronizedAt <= now /\ Accurate(local)
  BY <1>1, <1>2 DEF IInv, LocalMeasured, Measured
<1>4. error \in Int /\ error <= local.roundTrip
  BY <1>1, <1>2, <1>3, ErrorBound DEF Accurate
<1>5. nodeNow >= anchor \/ anchor - nodeNow <= local.synchronizedAt
  <2> HIDE DEF error
  <2> QED BY <1>1, <1>2, <1>3, <1>4 DEF nodeNow
<1>6. CurrentMasterTime = local.synchronizedAt + (nodeNow - anchor)
  BY <1>5 DEF CurrentMasterTime, TranslateClockDomain
<1> HIDE DEF error
<1>7. CurrentMasterTime = now - error
  BY <1>1, <1>2, <1>3, <1>4, <1>6 DEF nodeNow
<1> QED BY <1>7 DEF error

(* A recent 32 bit time of the node, read with an accurate offset and a    *)
(* reference that is off by no more, is off by the offset's error only.    *)
LEMMA ConversionExact ==
    ASSUME IInv, NEW o \in Int, NEW roundTrip \in 0..ResponseTimeout,
           WithinHalfRoundTrip(o, TrueOffset, roundTrip),
           NEW time \in RecentTimes(roundTrip),
           NEW reference, reference \in {now, now - (o - TrueOffset)}
    PROVE  /\ ExtendTimestampNear(Low(Low(time + skew) - Low(o)), reference)
                = time - (o - TrueOffset)
           /\ WithinHalfRoundTrip(time - (o - TrueOffset), time, roundTrip)
<1> DEFINE error == o - TrueOffset
<1>1. skew \in Int /\ now \in Nat /\ TrueOffset \in Int
  BY Types
<1>2. /\ roundTrip \in Nat /\ roundTrip <= ResponseTimeout
      /\ time \in Int /\ roundTrip <= time /\ time <= now
      /\ now - time < HalfEpoch - ResponseTimeout
  BY <1>1, EpochType DEF RecentTimes
<1>3. error \in Int /\ -roundTrip <= error /\ error <= roundTrip
  BY <1>1, <1>2, ErrorBound
<1>4. Low(Low(time + skew) - Low(o)) = Low(time - error)
  BY <1>2, ConversionOfLow
<1>5. WithinHalfRoundTrip(time - error, time, roundTrip)
  <2>1. AbsoluteDifference(time - error, time) = AbsoluteDifference(o, TrueOffset)
    BY <1>1, <1>2 DEF AbsoluteDifference
  <2> QED BY <2>1 DEF WithinHalfRoundTrip
<1>6. reference \in {now, now - error}
  OBVIOUS
<1> HIDE DEF error
<1>7. time - error \in Nat /\ reference \in Nat
  BY <1>1, <1>2, <1>3, <1>6
<1>8. AbsoluteDifference(time - error, reference) < HalfEpoch
  BY <1>1, <1>2, <1>3, <1>6, EpochType DEF AbsoluteDifference
<1>9. ExtendTimestampNear(Low(time - error), reference) = time - error
  BY <1>7, <1>8, ExtendExact
<1> QED BY <1>4, <1>5, <1>9 DEF error

LEMMA IInvNodeKnows == IInv => NodeKnowsMasterTime
<1> SUFFICES ASSUME IInv, local # NoSynchronization
             PROVE  /\ WithinHalfRoundTrip(CurrentMasterTime, now, local.roundTrip)
                    /\ \A time \in RecentTimes(local.roundTrip) :
                          WithinHalfRoundTrip(
                              TryConvertLocalTimeToMaster(Low(time + skew)), time,
                              local.roundTrip)
  BY DEF NodeKnowsMasterTime
<1>1. /\ local.nodeMinusMaster \in Int /\ local.roundTrip \in 0..ResponseTimeout
      /\ WithinHalfRoundTrip(local.nodeMinusMaster, TrueOffset, local.roundTrip)
  BY DEF IInv, TypeOK, Commit, LocalMeasured, Measured, Accurate
<1>2. CurrentMasterTime = now - (local.nodeMinusMaster - TrueOffset)
  BY CurrentMasterTimeExact
<1>3. WithinHalfRoundTrip(CurrentMasterTime, now, local.roundTrip)
  <2>1. AbsoluteDifference(CurrentMasterTime, now)
          = AbsoluteDifference(local.nodeMinusMaster, TrueOffset)
    BY <1>1, <1>2, Types DEF AbsoluteDifference
  <2> QED BY <1>1, <2>1 DEF WithinHalfRoundTrip
<1>4. ASSUME NEW time \in RecentTimes(local.roundTrip)
      PROVE  WithinHalfRoundTrip(
                 TryConvertLocalTimeToMaster(Low(time + skew)), time,
                 local.roundTrip)
  <2>1. TryConvertLocalTimeToMaster(Low(time + skew))
          = time - (local.nodeMinusMaster - TrueOffset)
    BY <1>1, <1>2, ConversionExact DEF TryConvertLocalTimeToMaster
  <2> QED BY <1>1, <1>2, <2>1, ConversionExact
<1> QED BY <1>3, <1>4

LEMMA IInvMasterKnows == IInv => MasterKnowsNodeTime
<1> SUFFICES ASSUME IInv, target # NoSynchronization,
                    NEW time \in RecentTimes(target.roundTrip)
             PROVE  WithinHalfRoundTrip(
                        TryConvertNodeTimeToMaster(Low(time + skew), now), time,
                        target.roundTrip)
  BY DEF MasterKnowsNodeTime
<1>1. /\ target.nodeMinusMaster \in Int /\ target.roundTrip \in 0..ResponseTimeout
      /\ WithinHalfRoundTrip(target.nodeMinusMaster, TrueOffset, target.roundTrip)
  BY DEF IInv, TypeOK, Sample, TargetMeasured, Measured, Accurate
<1>2. TryConvertNodeTimeToMaster(Low(time + skew), now)
        = time - (target.nodeMinusMaster - TrueOffset)
  BY <1>1, ConversionExact DEF TryConvertNodeTimeToMaster
<1> QED BY <1>1, <1>2, ConversionExact

-----------------------------------------------------------------------------
(* The theorems.  All of them are about clocks that are far from half an   *)
(* epoch apart; for the others SamplesAccurate is false.                   *)

(* IInv is an invariant: offsets, commits and the node's anchor are        *)
(* accurate for every epoch, timeout and skew.                             *)
THEOREM InvariantHolds == SkewsFarFromHalf => (Spec => []IInv)
<1> SUFFICES ASSUME SkewsFarFromHalf PROVE Spec => []IInv
  OBVIOUS
<1>1. Init => IInv
  BY InitIInv
<1>2. IInv /\ [Next]_vars => IInv'
  BY StepIInv
<1> QED BY <1>1, <1>2, PTL DEF Spec

(* A sample that CalculateSample accepts is accurate to half of its round  *)
(* trip, wherever the clocks wrap.                                         *)
THEOREM SamplesAreAccurate == SkewsFarFromHalf => (Spec => []SamplesAccurate)
<1>1. IInv => SamplesAccurate
  BY DEF IInv, SamplesMeasured, Measured, SamplesAccurate
<1> QED BY <1>1, InvariantHolds, PTL

(* A node that has a commit knows the time of the master, and converts its *)
(* recent 32 bit times to it (TryGetCurrentMasterTime,                     *)
(* TryConvertLocalTimeToMaster), however old the commit is.                *)
THEOREM NodeKnows == SkewsFarFromHalf => (Spec => []NodeKnowsMasterTime)
BY IInvNodeKnows, InvariantHolds, PTL

(* The master converts the recent 32 bit times of a node it has measured   *)
(* (TryConvertNodeTimeToMaster).                                           *)
THEOREM MasterKnows == SkewsFarFromHalf => (Spec => []MasterKnowsNodeTime)
BY IInvMasterKnows, InvariantHolds, PTL
=============================================================================
