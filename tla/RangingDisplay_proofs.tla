------------------------ MODULE RangingDisplay_proofs ------------------------
(***************************************************************************)
(* Theorems about RangingDisplay, for any ANCHORs, distances, nodes and    *)
(* length of the lists.                                                    *)
(***************************************************************************)
EXTENDS RangingDisplay, FiniteSetTheorems, WellFoundedInduction, TLAPS

-----------------------------------------------------------------------------
(* Lowest                                                                  *)

Below(ids, a) == {b \in ids : b < a}

LEMMA FiniteParts ==
    ASSUME NEW U \in SUBSET Nat, IsFiniteSet(U), NEW S \in SUBSET U
    PROVE  /\ IsFiniteSet(S) /\ Cardinality(S) \in Nat
           /\ \A T \in SUBSET S : Cardinality(T) <= Cardinality(S)
BY FS_Subset, FS_CardinalityType

LEMMA BelowIsMonotone ==
    ASSUME NEW U \in SUBSET Nat, IsFiniteSet(U), NEW S \in SUBSET U,
           NEW T \in SUBSET S, NEW a \in Nat, NEW b \in Nat, b <= a
    PROVE  /\ Cardinality(Below(T, b)) <= Cardinality(Below(S, a))
           /\ Cardinality(Below(T, b)) \in Nat /\ Cardinality(Below(S, a)) \in Nat
<1>1. Below(T, b) \in SUBSET Below(S, a) /\ Below(S, a) \in SUBSET U
  <2>1. ASSUME NEW e \in T, e < b PROVE e \in S /\ e < a
    <3>1. e \in S /\ e \in Nat BY <2>1
    <3> QED BY <2>1, <3>1
  <2> QED BY <2>1 DEF Below
<1>2. Below(T, b) \in SUBSET U BY <1>1
<1> QED BY <1>1, <1>2, FiniteParts

LEMMA LowestBelow ==
    ASSUME NEW S, NEW a
    PROVE  a \in Lowest(S) <=> a \in S /\ Cardinality(Below(S, a)) < Visible
BY DEF Lowest, Below

LEMMA LowestOfShort ==
    ASSUME NEW U \in SUBSET Nat, IsFiniteSet(U), NEW S \in SUBSET U,
           Cardinality(S) <= Visible
    PROVE  Lowest(S) = S
<1> SUFFICES ASSUME NEW a \in S PROVE Cardinality(Below(S, a)) < Visible
  BY DEF Lowest, Below
<1>1. Below(S, a) \in SUBSET (S \ {a}) BY DEF Below
<1>2. IsFiniteSet(S) /\ Cardinality(S) \in Nat BY FiniteParts
<1>3. IsFiniteSet(S \ {a}) /\ Cardinality(S \ {a}) = Cardinality(S) - 1
  BY <1>2, FS_RemoveElement
<1>4. Cardinality(Below(S, a)) <= Cardinality(S) - 1 /\ Cardinality(Below(S, a)) \in Nat
  BY <1>1, <1>3, FS_Subset, FS_CardinalityType
<1> QED BY <1>2, <1>4, DisplayAssumption

(* If ids are put out, the lowest of them has a full list below it.        *)
LEMMA LowestPutOut ==
    ASSUME NEW U \in SUBSET Nat, IsFiniteSet(U), NEW S \in SUBSET U,
           NEW c \in S \ Lowest(S)
    PROVE  \E d \in S : /\ d <= c
                        /\ Below(S, d) \subseteq Lowest(S)
                        /\ ~(Cardinality(Below(S, d)) < Visible)
<1> DEFINE T == {Below(S, d) : d \in S \ Lowest(S)}
<1>1. IsWellFoundedOn(StrictSubsetOrdering(U), FiniteSubsetsOf(U))
  BY FS_StrictSubsetOrderingWellFounded
<1>2. T \subseteq FiniteSubsetsOf(U)
  <2> SUFFICES ASSUME NEW d \in S PROVE Below(S, d) \in FiniteSubsetsOf(U)
    OBVIOUS
  <2>1. Below(S, d) \in SUBSET U BY DEF Below
  <2> QED BY <2>1, FiniteParts DEF FiniteSubsetsOf
<1>3. T # {} OBVIOUS
<1> HIDE DEF T
<1>4. PICK x \in T : \A y \in T : ~(<<y, x>> \in StrictSubsetOrdering(U))
  BY <1>1, <1>2, <1>3, WFMin
<1>5. PICK d \in S \ Lowest(S) : x = Below(S, d)
  BY DEF T
<1>6. ASSUME NEW e \in Below(S, d), e \notin Lowest(S) PROVE FALSE
  <2>1. e \in S /\ e < d /\ e \in Nat /\ d \in Nat BY <1>6 DEF Below
  <2>2. Below(S, e) \subseteq Below(S, d)
    <3>1. ASSUME NEW f \in S, f < e PROVE f < d
      <4>1. f \in Nat OBVIOUS
      <4> QED BY <2>1, <3>1, <4>1
    <3> QED BY <3>1 DEF Below
  <2>3. e \notin Below(S, e) BY <2>1 DEF Below
  <2>4. Below(S, e) \in T BY <2>1, <1>6 DEF T
  <2>5. Below(S, e) \in SUBSET U /\ Below(S, d) \in SUBSET U BY DEF Below
  <2>6. <<Below(S, e), Below(S, d)>> \in StrictSubsetOrdering(U)
    BY <2>2, <2>3, <2>5, <1>6 DEF StrictSubsetOrdering
  <2> QED BY <1>4, <1>5, <2>4, <2>6
<1>7. CASE d <= c
  BY <1>6, <1>5, <1>7, LowestBelow
<1>8. CASE ~(d <= c)
  <2>1. c < d /\ c \in Below(S, d) BY <1>8 DEF Below
  <2> QED BY <1>6, <2>1
<1> QED BY <1>7, <1>8

(* Inserting into the kept part keeps what inserting into all would.       *)
LEMMA LowestOfInserted ==
    ASSUME NEW U \in SUBSET Nat, IsFiniteSet(U), NEW S \in SUBSET U, NEW a \in U
    PROVE  Lowest(Lowest(S) \cup {a}) = Lowest(S \cup {a})
<1> DEFINE K == Lowest(S) \cup {a}
           A == S \cup {a}
<1>1. K \in SUBSET A /\ A \in SUBSET U BY DEF Lowest
<1>2. ASSUME NEW b \in Lowest(A) PROVE b \in Lowest(K)
  <2>1. b \in A /\ b \in Nat /\ Cardinality(Below(A, b)) < Visible
    BY <1>1, <1>2, LowestBelow
  <2>2. Cardinality(Below(K, b)) < Visible
    BY <1>1, <2>1, BelowIsMonotone, DisplayAssumption
  <2>3. b \in S => b \in Lowest(S)
    <3> HAVE b \in S
    <3>1. Cardinality(Below(S, b)) < Visible
      <4>1. S \in SUBSET A OBVIOUS
      <4> QED BY <1>1, <2>1, <4>1, BelowIsMonotone, DisplayAssumption
    <3> QED BY <3>1, LowestBelow
  <2> QED BY <2>1, <2>2, <2>3, LowestBelow
<1>3. ASSUME NEW b \in Lowest(K), b \notin Lowest(A) PROVE FALSE
  <2>1. b \in K /\ b \in A /\ b \in Nat /\ Cardinality(Below(K, b)) < Visible
    BY <1>1, <1>3, LowestBelow
  <2>2. ~(Cardinality(Below(A, b)) < Visible) BY <1>3, <2>1, LowestBelow
  <2>3. PICK c \in A \ K : c < b
    <3>1. CASE Below(A, b) = Below(K, b) BY <2>1, <2>2, <3>1
    <3>2. CASE Below(A, b) # Below(K, b) BY <1>1, <3>2 DEF Below
    <3> QED BY <3>1, <3>2
  <2>4. PICK d \in S : /\ d <= c
                       /\ Below(S, d) \subseteq Lowest(S)
                       /\ ~(Cardinality(Below(S, d)) < Visible)
    <3>1. c \in S \ Lowest(S) BY <2>3
    <3> QED BY <3>1, LowestPutOut
  <2>5. d < b /\ d \in Nat /\ c \in Nat BY <1>1, <2>1, <2>3, <2>4
  <2>6. Below(S, d) \in SUBSET Below(K, b)
    <3>1. ASSUME NEW e \in Below(S, d) PROVE e \in K /\ e < b
      <4>1. e \in S /\ e < d /\ e \in Nat BY <3>1 DEF Below
      <4>2. e \in Lowest(S) BY <2>4
      <4> QED BY <2>5, <2>1, <4>1, <4>2
    <3> QED BY <3>1 DEF Below
  <2>7. Below(K, b) \in SUBSET U BY <1>1 DEF Below
  <2>8. /\ Cardinality(Below(S, d)) <= Cardinality(Below(K, b))
        /\ Cardinality(Below(S, d)) \in Nat /\ Cardinality(Below(K, b)) \in Nat
    <3>1. Below(S, d) \in SUBSET U BY <2>6, <2>7
    <3> QED BY <2>6, <2>7, <3>1, FiniteParts
  <2> QED BY <2>1, <2>4, <2>8, DisplayAssumption
<1> QED BY <1>2, <1>3

(* An id that a list refuses leaves it as it is.                           *)
LEMMA RefusedChangesNothing ==
    ASSUME NEW U \in SUBSET Nat, IsFiniteSet(U), NEW L \in SUBSET U, NEW a \in U,
           Lowest(L) = L, a \notin Lowest(L \cup {a})
    PROVE  Lowest(L \cup {a}) = L
<1> DEFINE A == L \cup {a}
<1>1. A \in SUBSET U OBVIOUS
<1>2. ~(Cardinality(Below(A, a)) < Visible) BY LowestBelow
<1>3. Below(A, a) = Below(L, a) BY <1>1 DEF Below
<1>4. a \notin L BY <1>2, <1>3, LowestBelow
<1>5. Lowest(A) \subseteq L BY DEF Lowest
<1>6. ASSUME NEW b \in L PROVE b \in Lowest(A)
  <2>1. Cardinality(Below(L, b)) < Visible BY LowestBelow
  <2>2. b < a
    <3> SUFFICES ASSUME ~(b < a) PROVE FALSE OBVIOUS
    <3>1. a <= b /\ a \in Nat /\ b \in Nat BY <1>1
    <3>2. /\ Cardinality(Below(L, a)) <= Cardinality(Below(L, b))
          /\ Cardinality(Below(L, a)) \in Nat /\ Cardinality(Below(L, b)) \in Nat
      BY <3>1, BelowIsMonotone
    <3> QED BY <1>2, <1>3, <2>1, <3>2, DisplayAssumption
  <2>3. Below(A, b) = Below(L, b) BY <1>1, <2>2 DEF Below
  <2> QED BY <2>1, <2>3, LowestBelow
<1> QED BY <1>5, <1>6

-----------------------------------------------------------------------------
(* What a result does to the lists                                         *)

LEMMA AnchorsAreFinite ==
    /\ Anchors \in SUBSET Nat /\ IsFiniteSet(Anchors)
    /\ \A S \in SUBSET Anchors : Lowest(S) \in SUBSET Anchors
    /\ \A S \in SUBSET Nodes : Lowest(S) \in SUBSET Nodes
BY DisplayAssumption DEF Lowest

LEMMA ListedIsLowest ==
    ASSUME SuccessesFollow
    PROVE  /\ Listed = Lowest(Succeeded)
           /\ successes = [a \in Anchors |-> IF a \in Listed THEN succeeded[a]
                                             ELSE NoDistance]
BY DEF SuccessesFollow, Listed, Succeeded, Lowest

LEMMA LowestOfPart ==
    ASSUME NEW S \in SUBSET Anchors, NEW T \in SUBSET S, Lowest(S) = S
    PROVE  Lowest(T) = T
<1> SUFFICES ASSUME NEW a \in T PROVE Cardinality(Below(T, a)) < Visible
  BY DEF Lowest, Below
<1>1. a \in Nat /\ Cardinality(Below(S, a)) < Visible
  BY AnchorsAreFinite, LowestBelow
<1> QED BY <1>1, AnchorsAreFinite, BelowIsMonotone, DisplayAssumption

LEMMA LowestIsShort ==
    ASSUME NEW S \in SUBSET Anchors
    PROVE  Lowest(Lowest(S)) = Lowest(S)
<1> SUFFICES ASSUME NEW a \in Lowest(S)
             PROVE  Cardinality(Below(Lowest(S), a)) < Visible
  BY DEF Lowest, Below
<1>1. a \in Nat /\ Cardinality(Below(S, a)) < Visible
  BY AnchorsAreFinite, LowestBelow DEF Lowest
<1>2. Lowest(S) \in SUBSET S BY DEF Lowest
<1> QED BY <1>1, <1>2, AnchorsAreFinite, BelowIsMonotone, DisplayAssumption

LEMMA SuccessStored ==
    ASSUME DisplayTypeOK, HistoryInv, ~masterChanged,
           NEW a \in Anchors, NEW d \in Distances, StoreSuccess(a, d),
           succeeded' = [succeeded EXCEPT ![a] = d],
           failing' = failing \ {a}, UNCHANGED crowded
    PROVE  /\ successes' \in [Anchors -> Distances \cup {NoDistance}]
           /\ SuccessesFollow' /\ FailuresFollow'
           /\ Lowest(failures') = failures'
           /\ ~crowded' => Cardinality(failing') <= Visible
           /\ changed' \in BOOLEAN
           /\ ~changed' => ~changed /\ UNCHANGED lists
<1> DEFINE kept == Lowest(Listed \cup {a})
<1>0. /\ Listed = Lowest(Succeeded) /\ Succeeded \in SUBSET Anchors
      /\ Listed \in SUBSET Anchors
      /\ successes = [b \in Anchors |-> IF b \in Listed THEN succeeded[b]
                                        ELSE NoDistance]
  BY ListedIsLowest DEF HistoryInv, Succeeded, Listed
<1>1. Succeeded' = Succeeded \cup {a}
  BY DisplayAssumption DEF Succeeded, DisplayTypeOK
<1>2. kept = Lowest(Succeeded')
  BY <1>0, <1>1, AnchorsAreFinite, LowestOfInserted
<1>3. successes' = [b \in Anchors |-> IF b \in Lowest(Succeeded') THEN succeeded'[b]
                                     ELSE NoDistance]
  <2> SUFFICES ASSUME NEW b \in Anchors
               PROVE  (IF b \notin kept THEN NoDistance
                       ELSE IF b = a THEN d ELSE successes[b])
                      = (IF b \in kept THEN succeeded'[b] ELSE NoDistance)
    BY <1>2 DEF StoreSuccess
  <2>1. b \in kept => b \in Listed \cup {a} BY DEF Lowest
  <2>2. succeeded'[b] = IF b = a THEN d ELSE succeeded[b] BY DEF DisplayTypeOK
  <2>3. b \in Listed => successes[b] = succeeded[b] BY <1>0
  <2> QED BY <2>1, <2>2, <2>3
<1>4. SuccessesFollow' BY <1>3 DEF SuccessesFollow
<1>5. successes' \in [Anchors -> Distances \cup {NoDistance}]
  BY DEF StoreSuccess, DisplayTypeOK
<1>6. FailuresFollow' /\ Lowest(failures') = failures'
  <2>1. failures' = failures \ {a} BY DEF StoreSuccess
  <2>2. failures \in SUBSET Anchors /\ Lowest(failures) = failures
    BY DEF DisplayTypeOK, HistoryInv
  <2>3. Lowest(failures \ {a}) = failures \ {a} BY <2>2, LowestOfPart
  <2> QED BY <2>1, <2>3 DEF FailuresFollow, HistoryInv
<1>7. ~crowded' => Cardinality(failing') <= Visible
  <2>1. failing \in SUBSET Anchors BY DEF DisplayTypeOK
  <2>2. IsFiniteSet(failing) /\ Cardinality(failing) \in Nat
    BY <2>1, AnchorsAreFinite, FS_Subset, FS_CardinalityType
  <2>3. /\ Cardinality(failing \ {a}) <= Cardinality(failing)
        /\ Cardinality(failing \ {a}) \in Nat
    BY <2>2, FS_Subset, FS_CardinalityType
  <2> QED BY <2>2, <2>3, DisplayAssumption DEF HistoryInv
<1>8. ~changed' => ~changed /\ UNCHANGED lists
  <2> HAVE ~changed'
  <2>1. ~changed /\ a \notin kept /\ a \notin failures BY DEF StoreSuccess
  <2>2. Lowest(Listed) = Listed BY <1>0, LowestIsShort
  <2>3. kept = Listed
    BY <1>0, <2>1, <2>2, AnchorsAreFinite, RefusedChangesNothing
  <2>4. successes' = successes
    <3> SUFFICES ASSUME NEW b \in Anchors
                 PROVE  (IF b \notin kept THEN NoDistance
                         ELSE IF b = a THEN d ELSE successes[b]) = successes[b]
      BY DEF StoreSuccess, DisplayTypeOK
    <3> QED BY <2>1, <2>3 DEF Listed
  <2>5. failures' = failures BY <2>1 DEF StoreSuccess
  <2> QED BY <2>1, <2>4, <2>5 DEF lists
<1>9. changed' \in BOOLEAN BY DEF StoreSuccess
<1> QED BY <1>4, <1>5, <1>6, <1>7, <1>8, <1>9

LEMMA FailureStored ==
    ASSUME DisplayTypeOK, HistoryInv, ~masterChanged,
           NEW a \in Anchors, StoreFailure(a),
           failing' = failing \cup {a},
           crowded' = (crowded \/ Cardinality(failing') > Visible),
           UNCHANGED succeeded
    PROVE  /\ failures' \in SUBSET Anchors
           /\ SuccessesFollow' /\ FailuresFollow'
           /\ Lowest(failures') = failures'
           /\ ~crowded' => Cardinality(failing') <= Visible
           /\ changed' \in BOOLEAN
           /\ ~changed' => ~changed /\ UNCHANGED lists
<1>1. /\ failures \in SUBSET Anchors /\ Lowest(failures) = failures
      /\ failing \in SUBSET Anchors
      /\ failures \cup {a} \in SUBSET Anchors /\ failing' \in SUBSET Anchors
  BY DEF DisplayTypeOK, HistoryInv
<1>2. failures' = Lowest(failures \cup {a}) BY DEF StoreFailure
<1>3. failures' \in SUBSET Anchors /\ failures' \subseteq failures \cup {a}
  BY <1>1, <1>2 DEF Lowest
<1>4. Lowest(failures') = failures' BY <1>1, <1>2, LowestIsShort
<1>5. SuccessesFollow'
  BY DEF HistoryInv, SuccessesFollow, Succeeded, StoreFailure
<1>6. ~crowded' => Cardinality(failing') <= Visible
  <2>1. Cardinality(failing') \in Nat
    BY <1>1, AnchorsAreFinite, FS_Subset, FS_CardinalityType
  <2>2. ASSUME ~crowded' PROVE ~(Cardinality(failing') > Visible)
    BY <2>2
  <2> QED BY <2>1, <2>2, DisplayAssumption
<1>7. FailuresFollow'
  <2>1. failures' \subseteq failing'
    BY <1>3 DEF HistoryInv, FailuresFollow
  <2>2. ASSUME ~crowded' PROVE failures' = failing'
    <3>1. failures = failing BY <2>2 DEF HistoryInv, FailuresFollow
    <3>2. Lowest(failing') = failing'
      BY <1>1, <1>6, <2>2, AnchorsAreFinite, LowestOfShort
    <3> QED BY <1>2, <3>1, <3>2
  <2> QED BY <2>1, <2>2 DEF FailuresFollow
<1>8. ~changed' => ~changed /\ UNCHANGED lists
  <2> HAVE ~changed'
  <2>1. ~changed /\ a \notin Lowest(failures \cup {a}) BY DEF StoreFailure
  <2>2. failures' = failures
    BY <1>1, <1>2, <2>1, AnchorsAreFinite, RefusedChangesNothing
  <2> QED BY <2>1, <2>2 DEF StoreFailure, lists
<1>9. changed' \in BOOLEAN BY DEF StoreFailure
<1> QED BY <1>3, <1>4, <1>5, <1>6, <1>7, <1>8, <1>9

-----------------------------------------------------------------------------
(* The invariant                                                           *)

LEMMA CaptureType ==
    ASSUME DisplayTypeOK
    PROVE  CaptureSnapshot \in Snapshots /\ CaptureSnapshot # NoSnapshot
<1>1. CaptureSnapshot \in Snapshots
  BY AnchorsAreFinite DEF CaptureSnapshot, Snapshots, DisplayTypeOK
<1> QED BY <1>1, DisplayAssumption

LEMMA DisplayInitInv == DisplayInit => DisplayInv
<1> SUFFICES ASSUME DisplayInit PROVE DisplayInv OBVIOUS
<1>1. Lowest({}) = {} BY DEF Lowest
<1>2. CaptureSnapshot \in Snapshots
  <2>1. Lowest(nodes) \in SUBSET Nodes BY <1>1 DEF DisplayInit
  <2> QED BY <2>1 DEF CaptureSnapshot, Snapshots, DisplayInit, NoSuccesses
<1>3. CaptureSnapshot # NoSnapshot BY <1>2, DisplayAssumption
<1>4. DisplayTypeOK
  <2>1. published \in Seq(Measurements) BY DEF DisplayInit
  <2>2. NoSuccesses \in [Anchors -> Distances \cup {NoDistance}] BY DEF NoSuccesses
  <2> QED BY <1>2, <2>1, <2>2 DEF DisplayInit, DisplayTypeOK, Steps, Pages
<1>5. SuccessesFollow /\ FailuresFollow
  <2>1. Succeeded = {} BY DEF Succeeded, DisplayInit, NoSuccesses
  <2> QED BY <2>1, <1>1 DEF SuccessesFollow, FailuresFollow, DisplayInit, NoSuccesses
<1>6. Cardinality(failing) <= Visible
  BY FS_EmptySet, DisplayAssumption DEF DisplayInit
<1>7. PublishedInv BY <1>3 DEF DisplayInit, PublishedInv, ToBeShown
<1> QED BY <1>1, <1>4, <1>5, <1>6, <1>7 DEF DisplayInv, HistoryInv, DisplayInit

LEMMA BeginDisplayCycleInv ==
    ASSUME DisplayInv, BeginDisplayCycle
    PROVE  DisplayInv'
<1> USE DEF DisplayInv
<1>1. DisplayTypeOK'
  <2>1. /\ nodes' \subseteq Nodes /\ statusWaiting' \in BOOLEAN
    BY DEF DisplayTypeOK, BeginDisplayCycle
  <2>2. /\ published' \in Seq(Measurements) /\ masterChanged' \in BOOLEAN
        /\ succeeded' \in [Anchors -> Distances \cup {NoDistance}]
        /\ failing' \subseteq Anchors /\ crowded' \in BOOLEAN
    <3>1. CASE UNCHANGED <<masterChanged, published, history>>
      BY <3>1 DEF DisplayTypeOK, history
    <3>2. CASE /\ masterChanged' = TRUE /\ published' = <<>>
               /\ succeeded' = NoSuccesses /\ failing' = {} /\ crowded' = FALSE
      <4>1. published' \in Seq(Measurements) BY <3>2
      <4>2. NoSuccesses \in [Anchors -> Distances \cup {NoDistance}]
        BY DEF NoSuccesses
      <4> QED BY <3>2, <4>1, <4>2
    <3> QED BY <3>1, <3>2 DEF BeginDisplayCycle
  <2> QED
    BY <2>1, <2>2 DEF DisplayTypeOK, BeginDisplayCycle, Steps, lists, display
<1>2. HistoryInv'
  <2>1. CASE /\ masterChanged' = TRUE /\ published' = <<>>
             /\ succeeded' = NoSuccesses /\ failing' = {} /\ crowded' = FALSE
    <3>1. Cardinality(failing') <= Visible
      BY <2>1, FS_EmptySet, DisplayAssumption
    <3> QED BY <2>1, <3>1 DEF HistoryInv, BeginDisplayCycle, lists
  <2>2. CASE UNCHANGED <<masterChanged, published, history>>
    BY <2>2 DEF HistoryInv, BeginDisplayCycle, lists, history, SuccessesFollow,
       FailuresFollow, Succeeded
  <2> QED BY <2>1, <2>2 DEF BeginDisplayCycle
<1>3. PublishedInv'
  <2>1. CASE statusWaiting' = TRUE
    BY <2>1 DEF PublishedInv, Unpublished, BeginDisplayCycle
  <2>2. CASE UNCHANGED <<nodes, statusWaiting>>
    BY <2>2 DEF PublishedInv, Unpublished, ToBeShown, CaptureSnapshot,
       BeginDisplayCycle, lists, display
  <2> QED BY <2>1, <2>2 DEF BeginDisplayCycle
<1> QED BY <1>1, <1>2, <1>3

LEMMA PublishMeasurementInv ==
    ASSUME DisplayInv, NEW m \in Measurements, PublishMeasurement(m)
    PROVE  DisplayInv'
<1> USE DEF DisplayInv
<1>1. DisplayTypeOK'
  BY DEF DisplayTypeOK, PublishMeasurement, history, lists, display
<1>2. HistoryInv'
  BY DEF HistoryInv, PublishMeasurement, lists, history, SuccessesFollow,
     FailuresFollow, Succeeded
<1>3. PublishedInv'
  BY DEF PublishedInv, Unpublished, ToBeShown, CaptureSnapshot,
     PublishMeasurement, lists, display
<1> QED BY <1>1, <1>2, <1>3

LEMMA BeginModelUpdateInv ==
    ASSUME DisplayInv, BeginModelUpdate
    PROVE  DisplayInv'
<1> USE DEF DisplayInv
<1>1. DisplayTypeOK'
  BY DEF DisplayTypeOK, BeginModelUpdate, ClearTagMeasurements, Steps,
     NoSuccesses, history, lists, display
<1>2. HistoryInv'
  <2>1. Lowest({}) = {} BY DEF Lowest
  <2>2. CASE masterChanged
    <3>1. Succeeded' = {}
      BY <2>2 DEF Succeeded, HistoryInv, BeginModelUpdate, history, NoSuccesses
    <3>2. SuccessesFollow'
      BY <2>1, <2>2, <3>1 DEF SuccessesFollow, HistoryInv, BeginModelUpdate,
         ClearTagMeasurements, NoSuccesses
    <3>3. FailuresFollow' /\ Lowest(failures') = failures'
      BY <2>1, <2>2 DEF FailuresFollow, HistoryInv, BeginModelUpdate,
         ClearTagMeasurements, history
    <3> QED BY <3>2, <3>3, <2>2 DEF HistoryInv, BeginModelUpdate, history
  <2>3. CASE ~masterChanged
    BY <2>3 DEF HistoryInv, BeginModelUpdate, ClearTagMeasurements, lists,
       history, SuccessesFollow, FailuresFollow, Succeeded
  <2> QED BY <2>2, <2>3
<1>3. PublishedInv'
  <2>1. CASE masterChanged
    BY <2>1 DEF PublishedInv, Unpublished, BeginModelUpdate
  <2>2. CASE ~masterChanged
    BY <2>2 DEF PublishedInv, Unpublished, ToBeShown, CaptureSnapshot,
       BeginModelUpdate, ClearTagMeasurements, lists, display
  <2> QED BY <2>1, <2>2
<1> QED BY <1>1, <1>2, <1>3

LEMMA StoreTagMeasurementInv ==
    ASSUME DisplayInv, StoreTagMeasurement
    PROVE  DisplayInv'
<1> USE DEF DisplayInv
<1> DEFINE m == Head(published)
<1>0. m \in Measurements /\ published' \in Seq(Measurements) /\ ~masterChanged
  BY DEF StoreTagMeasurement, DisplayTypeOK, HistoryInv
<1>1. /\ m.anchor \in Anchors
      /\ m.distance # NoDistance => m.distance \in Distances
  BY <1>0 DEF Measurements
<1> HIDE DEF m
<1>2. /\ step = "Take" /\ step' = "Take"
      /\ UNCHANGED <<masterChanged, nodes, statusWaiting, heading, shownHeading,
                     snapshotQueue, snapshot, page, screen>>
  BY DEF StoreTagMeasurement, display
(* The lists follow the history, and "changed" tells when they change.     *)
<1>3. /\ successes' \in [Anchors -> Distances \cup {NoDistance}]
      /\ failures' \in SUBSET Anchors /\ failing' \in SUBSET Anchors
      /\ succeeded' \in [Anchors -> Distances \cup {NoDistance}]
      /\ changed' \in BOOLEAN /\ crowded' \in BOOLEAN
      /\ SuccessesFollow' /\ FailuresFollow'
      /\ Lowest(failures') = failures'
      /\ ~crowded' => Cardinality(failing') <= Visible
      /\ ~changed' => ~changed /\ UNCHANGED lists
  <2>1. CASE UNCHANGED <<lists, changed, history>>
    <3>1. SuccessesFollow' /\ FailuresFollow'
      BY <1>0, <2>1 DEF HistoryInv, SuccessesFollow, FailuresFollow, Succeeded,
         lists, history
    <3>2. /\ Lowest(failures') = failures'
          /\ ~crowded' => Cardinality(failing') <= Visible
      BY <2>1 DEF HistoryInv, lists, history
    <3> QED BY <2>1, <3>1, <3>2 DEF DisplayTypeOK, lists, history
  <2>2. CASE /\ m.distance = NoDistance
             /\ StoreFailure(m.anchor) /\ Remember(m)
    <3>1. /\ failing' = failing \cup {m.anchor}
          /\ crowded' = (crowded \/ Cardinality(failing') > Visible)
          /\ UNCHANGED succeeded
      BY <2>2 DEF Remember
    <3>2. successes' = successes BY <2>2 DEF StoreFailure
    <3>3. crowded' \in BOOLEAN BY <3>1
    <3>4. failing' \in SUBSET Anchors BY <3>1, <1>1 DEF DisplayTypeOK
    <3>5. /\ failures' \in SUBSET Anchors
          /\ SuccessesFollow' /\ FailuresFollow'
          /\ Lowest(failures') = failures'
          /\ ~crowded' => Cardinality(failing') <= Visible
          /\ changed' \in BOOLEAN
          /\ ~changed' => ~changed /\ UNCHANGED lists
      BY <1>0, <1>1, <2>2, <3>1, FailureStored
    <3> QED BY <3>1, <3>2, <3>3, <3>4, <3>5 DEF DisplayTypeOK
  <2>3. CASE /\ m.distance # NoDistance
             /\ StoreSuccess(m.anchor, m.distance) /\ Remember(m)
    <3>1. /\ succeeded' = [succeeded EXCEPT ![m.anchor] = m.distance]
          /\ failing' = failing \ {m.anchor}
          /\ UNCHANGED crowded
      BY <2>3 DEF Remember
    <3>2. succeeded' \in [Anchors -> Distances \cup {NoDistance}]
      BY <3>1, <1>1, <2>3 DEF DisplayTypeOK
    <3>3. failures' \in SUBSET Anchors /\ failing' \in SUBSET Anchors
      BY <2>3, <3>1 DEF StoreSuccess, DisplayTypeOK
    <3>4. /\ successes' \in [Anchors -> Distances \cup {NoDistance}]
          /\ SuccessesFollow' /\ FailuresFollow'
          /\ Lowest(failures') = failures'
          /\ ~crowded' => Cardinality(failing') <= Visible
          /\ changed' \in BOOLEAN
          /\ ~changed' => ~changed /\ UNCHANGED lists
      BY <1>0, <1>1, <2>3, <3>1, SuccessStored
    <3> QED BY <3>1, <3>2, <3>3, <3>4 DEF DisplayTypeOK
  <2> QED BY <2>1, <2>2, <2>3 DEF StoreTagMeasurement, m
<1>4. DisplayTypeOK'
  BY <1>0, <1>2, <1>3 DEF DisplayTypeOK
<1>5. HistoryInv' BY <1>0, <1>2, <1>3 DEF HistoryInv
<1>6. PublishedInv'
  BY <1>2, <1>3 DEF PublishedInv, Unpublished, ToBeShown, CaptureSnapshot, lists
<1> QED BY <1>4, <1>5, <1>6

LEMMA EndModelUpdateInv ==
    ASSUME DisplayInv, EndModelUpdate
    PROVE  DisplayInv'
<1> USE DEF DisplayInv
<1>1. DisplayTypeOK'
  <2>1. changed' \in BOOLEAN BY DEF EndModelUpdate
  <2> QED BY <2>1 DEF DisplayTypeOK, EndModelUpdate, Steps, history, lists, display
<1>2. HistoryInv'
  BY DEF HistoryInv, EndModelUpdate, lists, history, SuccessesFollow,
     FailuresFollow, Succeeded
<1>3. PublishedInv'
  <2>1. CASE changed'
    BY <2>1 DEF PublishedInv, Unpublished, EndModelUpdate
  <2>2. CASE ~changed'
    <3>1. ~changed /\ ~statusWaiting /\ shownHeading' = shownHeading
      BY <2>2 DEF EndModelUpdate
    <3> QED BY <3>1 DEF PublishedInv, Unpublished, ToBeShown, CaptureSnapshot,
            EndModelUpdate, lists, display
  <2> QED BY <2>1, <2>2
<1> QED BY <1>1, <1>2, <1>3

LEMMA PublishSnapshotInv ==
    ASSUME DisplayInv, PublishSnapshot
    PROVE  DisplayInv'
<1> USE DEF DisplayInv
<1>1. CaptureSnapshot \in Snapshots /\ CaptureSnapshot # NoSnapshot
  BY CaptureType
<1>2. DisplayTypeOK'
  BY <1>1 DEF DisplayTypeOK, PublishSnapshot, Steps, outside, history, lists, display
<1>3. HistoryInv'
  BY DEF HistoryInv, PublishSnapshot, outside, lists, history, SuccessesFollow,
     FailuresFollow, Succeeded
<1>4. PublishedInv'
  <2>1. CaptureSnapshot' = CaptureSnapshot
    BY DEF PublishSnapshot, CaptureSnapshot, outside, lists
  <2> QED BY <1>1, <2>1 DEF PublishedInv, Unpublished, ToBeShown, PublishSnapshot,
          HistoryInv, outside
<1> QED BY <1>2, <1>3, <1>4

LEMMA RunDisplayTaskInv ==
    ASSUME DisplayInv, NEW pressed \in BOOLEAN, RunDisplayTask(pressed)
    PROVE  DisplayInv'
<1> USE DEF DisplayInv
<1>1. /\ snapshot' = IF snapshotQueue # NoSnapshot THEN snapshotQueue ELSE snapshot
      /\ snapshotQueue' = NoSnapshot
      /\ page' = IF snapshot' # NoSnapshot THEN PageAfter(pressed) ELSE page
      /\ \/ screen' = screen
         \/ /\ snapshot' # NoSnapshot
            /\ screen' = [page |-> page', content |-> snapshot']
      /\ UNCHANGED <<outside, lists, shownHeading, changed, step, history>>
  BY DEF RunDisplayTask
<1>2. DisplayTypeOK'
  <2>1. PageAfter(pressed) \in Pages
    BY DEF PageAfter, Pages, DisplayTypeOK
  <2>2. page' \in Pages BY <1>1, <2>1 DEF DisplayTypeOK
  <2>3. /\ snapshot' \in Snapshots \cup {NoSnapshot}
        /\ snapshotQueue' \in Snapshots \cup {NoSnapshot}
    BY <1>1 DEF DisplayTypeOK
  <2>4. screen' \in [page : Pages, content : Snapshots] \cup {NoSnapshot}
    BY <1>1, <2>2, <2>3 DEF DisplayTypeOK
  <2> QED BY <1>1, <2>2, <2>3, <2>4 DEF DisplayTypeOK, outside, lists, history
<1>3. HistoryInv'
  BY <1>1 DEF HistoryInv, outside, lists, history, SuccessesFollow,
     FailuresFollow, Succeeded
<1>4. PublishedInv'
  <2>1. ToBeShown' = ToBeShown BY <1>1 DEF ToBeShown
  <2> QED BY <1>1, <2>1 DEF PublishedInv, Unpublished, CaptureSnapshot,
          outside, lists
<1> QED BY <1>2, <1>3, <1>4

LEMMA DisplayNextInv == DisplayInv /\ [DisplayNext]_displayVars => DisplayInv'
<1> SUFFICES ASSUME DisplayInv, [DisplayNext]_displayVars PROVE DisplayInv'
  OBVIOUS
<1>1. CASE BeginDisplayCycle BY <1>1, BeginDisplayCycleInv
<1>2. CASE BeginModelUpdate BY <1>2, BeginModelUpdateInv
<1>3. CASE StoreTagMeasurement BY <1>3, StoreTagMeasurementInv
<1>4. CASE EndModelUpdate BY <1>4, EndModelUpdateInv
<1>5. CASE PublishSnapshot BY <1>5, PublishSnapshotInv
<1>6. ASSUME NEW m \in Measurements, PublishMeasurement(m) PROVE DisplayInv'
  BY <1>6, PublishMeasurementInv
<1>7. ASSUME NEW pressed \in BOOLEAN, RunDisplayTask(pressed) PROVE DisplayInv'
  BY <1>7, RunDisplayTaskInv
<1>8. CASE UNCHANGED displayVars
  BY <1>8 DEF DisplayInv, DisplayTypeOK, HistoryInv, SuccessesFollow,
     FailuresFollow, Succeeded, PublishedInv, Unpublished, ToBeShown,
     CaptureSnapshot, displayVars, outside, lists, display, history
<1> QED
  BY <1>1, <1>2, <1>3, <1>4, <1>5, <1>6, <1>7, <1>8 DEF DisplayNext, UpdateRangingCycle

(* The invariant of the way from the controller's results to the screen.   *)
THEOREM DisplayInvariant == DisplaySpec => []DisplayInv
<1> QED BY DisplayInitInv, DisplayNextInv, PTL DEF DisplaySpec

-----------------------------------------------------------------------------
(* Whatever the order of results, changes of the master and overflowing    *)
(* lists, the two lists of SequentialRangingDisplay are about the current  *)
(* master and agree with the last result of each ANCHOR.                   *)
THEOREM ListsAreCurrent == DisplaySpec => []ListsFollowResults
<1>1. DisplayInv => ListsFollowResults
  BY DEF DisplayInv, HistoryInv, ListsFollowResults
<1> QED BY <1>1, DisplayInvariant, PTL

(* However slow the display task is, the snapshot queue of length one      *)
(* never keeps it from the latest state of the model.                      *)
THEOREM NoChangeIsLost == DisplaySpec => []NothingUnpublished
<1>1. DisplayInv => NothingUnpublished
  BY DEF DisplayInv, PublishedInv, Unpublished, NothingUnpublished
<1> QED BY <1>1, DisplayInvariant, PTL
=============================================================================
