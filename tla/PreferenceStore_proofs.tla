----------------------- MODULE PreferenceStore_proofs -----------------------
(***************************************************************************)
(* Theorems about PreferenceStore, for any types, storage formats, values  *)
(* and default.                                                            *)
(***************************************************************************)
EXTENDS PreferenceStore, TLAPS

(* What the calls of NVS do to a pair of namespaces.                       *)
IsPair(content) == content = [value |-> content.value, type |-> content.type]

LEMMA WriteValue ==
    ASSUME view \in Contents, NEW content, NEW next, NEW failed,
           \/ Write("value", content, next) /\ failed = "Reopen"
           \/ Erase("value", next, failed) /\ content = Nothing
    PROVE  /\ IsPair(view')
           /\ view'.value \in {view.value, content}
           /\ view'.type = view.type
           /\ \/ step' = next /\ view'.value = content
              \/ step' = failed
BY DEF Write, Erase, Contents, Content, ItemOf, IsPair

LEMMA WriteType ==
    ASSUME view \in Contents, NEW content, NEW next, NEW failed,
           \/ Write("type", content, next) /\ failed = "Reopen"
           \/ Erase("type", next, failed) /\ content = NoType
    PROVE  /\ IsPair(view')
           /\ view'.type \in {view.type, content}
           /\ view'.value = view.value
           /\ \/ step' = next /\ view'.type = content
              \/ step' = failed
BY DEF Write, Erase, Contents, Content, TypeOf, IsPair

LEMMA CommitEffect ==
    ASSUME {stored, view} \subseteq Contents, NEW namespace \in {"value", "type"},
           NEW next, Commit(namespace, next)
    PROVE  /\ IsPair(stored')
           /\ stored'.value \in {stored.value, view.value}
           /\ stored'.type \in {stored.type, view.type}
           /\ \/ step' = next /\ stored'[namespace] = view[namespace]
                 /\ \A other \in {"value", "type"} \ {namespace} :
                       stored'[other] = stored[other]
              \/ step' = "Reopen" /\ stored' = stored
BY DEF Commit, Contents, IsPair

(* Pairs whose parts are those of settings are well formed.                *)
LEMMA PairOfParts ==
    ASSUME NEW content, IsPair(content),
           NEW settings \in SUBSET (Settings \cup {Nothing}),
           \E s \in settings : content.value = ItemOf(s),
           \E s \in settings : content.type = TypeOf(s)
    PROVE  content \in Contents
BY DEF IsPair, Contents

LEMMA PartsOfPair ==
    ASSUME NEW content \in Contents
    PROVE  IsPair(content)
BY DEF IsPair, Contents

-----------------------------------------------------------------------------
(* The invariant                                                           *)

LEMMA InitIInv == Init => IInv
<1> SUFFICES ASSUME Init PROVE IInv OBVIOUS
<1>1. {stored, view} \subseteq Contents
  BY DEF Init, Contents, Content
<1> QED
  BY <1>1, SettingsAssumption DEF Init, IInv, TypeOK, PartsArePromised, Written,
     Content, Settings, Steps

(* A step that leaves the promises, or adds its target to them, keeps the  *)
(* parts among the promised ones.                                          *)
Parts(content, settings) ==
    /\ IsPair(content)
    /\ \E s \in settings : content.value = ItemOf(s)
    /\ \E s \in settings : content.type = TypeOf(s)

LEMMA PartsOfIInv ==
    ASSUME IInv
    PROVE  Parts(view, promised) /\ Parts(stored, promised)
BY PartsOfPair DEF IInv, TypeOK, PartsArePromised, Parts

LEMMA PartsMakeIInv ==
    ASSUME promised' \subseteq Settings \cup {Nothing},
           Parts(view', promised'), Parts(stored', promised'),
           step' \in Steps, target' \in Settings \cup {Nothing},
           phase' \in {"off", "boot", "shell"},
           current' \in Accepted \cup {Default.data},
           Written'
    PROVE  IInv'
<1>1. {stored', view'} \subseteq Contents
  BY PairOfParts DEF Parts
<1> QED
  BY <1>1 DEF IInv, TypeOK, PartsArePromised, Parts

(* Set, from the shell or for the default of a boot.                       *)
LEMMA SetIInv ==
    ASSUME IInv, NEW s \in Settings, Set(s), phase = "boot" => s = Default
    PROVE  IInv'
<1>1. /\ IsPair(view')
      /\ view'.value \in {view.value, ItemOf(s)}
      /\ view'.type = view.type
      /\ \/ step' = "SetMetadata" /\ view'.value = ItemOf(s)
         \/ step' = "Reopen"
  <2>1. view \in Contents /\ Write("value", ItemOf(s), "SetMetadata")
    BY DEF IInv, TypeOK, Set
  <2> QED BY <2>1, WriteValue
<1>2. Parts(view', promised') /\ Parts(stored', promised')
  BY <1>1, PartsOfIInv DEF Parts, Set
<1>3. step' \in Steps BY <1>1 DEF Steps
<1>4. Written'
  BY <1>1, SettingsAssumption DEF Written, Set, IInv, TypeOK, Steps
<1> QED
  BY <1>2, <1>3, <1>4, PartsMakeIInv DEF Set, IInv, TypeOK

LEMMA SetMetadataIInv ==
    ASSUME IInv, SetMetadata PROVE IInv'
<1>1. /\ IsPair(view')
      /\ view'.type \in {view.type, target.type}
      /\ view'.value = view.value
      /\ \/ step' = "CommitValue" /\ view'.type = target.type
         \/ step' = "Reopen"
  <2>1. view \in Contents /\ Write("type", target.type, "CommitValue")
    BY DEF IInv, TypeOK, SetMetadata
  <2> QED BY <2>1, WriteType
<1>2. target \in promised /\ target.type = TypeOf(target)
  BY DEF IInv, Written, SetMetadata, TypeOf, Steps
<1>3. Parts(view', promised') /\ Parts(stored', promised')
  BY <1>1, <1>2, PartsOfIInv DEF Parts, SetMetadata
<1>4. step' \in Steps BY <1>1 DEF Steps
<1>5. Written'
  BY <1>1, <1>2 DEF Written, SetMetadata, IInv, TypeOK, Steps
<1> QED
  BY <1>3, <1>4, <1>5, PartsMakeIInv DEF SetMetadata, IInv, TypeOK

LEMMA BeginEraseIInv ==
    ASSUME IInv, NEW failed \in {"EraseFailed", "Reopen"}, BeginErase(failed)
    PROVE  IInv'
<1>1. /\ IsPair(view')
      /\ view'.value \in {view.value, Nothing}
      /\ view'.type = view.type
      /\ \/ step' = "EraseMetadata" /\ view'.value = Nothing
         \/ step' = failed
  <2>1. view \in Contents /\ Erase("value", "EraseMetadata", failed)
    BY DEF IInv, TypeOK, BeginErase
  <2> QED BY <2>1, WriteValue
<1>2. Nothing = ItemOf(Nothing) BY DEF ItemOf
<1>3. Parts(view', promised') /\ Parts(stored', promised')
  BY <1>1, <1>2, PartsOfIInv DEF Parts, BeginErase
<1>4. step' \in Steps BY <1>1 DEF Steps
<1>5. Written'
  BY <1>1, <1>2 DEF Written, BeginErase, IInv, TypeOK, Steps
<1> QED
  BY <1>3, <1>4, <1>5, PartsMakeIInv DEF BeginErase, IInv, TypeOK

LEMMA EraseMetadataIInv ==
    ASSUME IInv, EraseMetadata PROVE IInv'
<1> DEFINE next == IF step = "EraseFailed" THEN "Reopen" ELSE "CommitValue"
<1>1. /\ IsPair(view')
      /\ view'.type \in {view.type, NoType}
      /\ view'.value = view.value
      /\ \/ step' = next /\ view'.type = NoType
         \/ step' = "Reopen"
  <2>1. view \in Contents /\ Erase("type", next, "Reopen")
    BY DEF IInv, TypeOK, EraseMetadata
  <2> QED BY <2>1, WriteType
<1>2. target = Nothing /\ Nothing \in promised /\ NoType = TypeOf(Nothing)
  BY DEF IInv, Written, EraseMetadata, TypeOf, Steps
<1>3. Parts(view', promised') /\ Parts(stored', promised')
  BY <1>1, <1>2, PartsOfIInv DEF Parts, EraseMetadata
<1>4. step' \in Steps BY <1>1 DEF Steps
<1>5. Written'
  BY <1>1, <1>2 DEF Written, EraseMetadata, IInv, TypeOK, Steps
<1> QED
  BY <1>3, <1>4, <1>5, PartsMakeIInv DEF EraseMetadata, IInv, TypeOK

LEMMA CommitValueIInv ==
    ASSUME IInv, CommitValue PROVE IInv'
<1>1. /\ IsPair(stored')
      /\ stored'.value \in {stored.value, view.value}
      /\ stored'.type \in {stored.type, view.type}
      /\ \/ step' = "CommitMetadata" /\ stored'.value = view.value
         \/ step' = "Reopen"
  <2>1. {stored, view} \subseteq Contents /\ Commit("value", "CommitMetadata")
    BY DEF IInv, TypeOK, CommitValue
  <2> QED BY <2>1, CommitEffect
<1>2. Parts(view', promised') /\ Parts(stored', promised')
  BY <1>1, PartsOfIInv DEF Parts, CommitValue
<1>3. step' \in Steps BY <1>1 DEF Steps
<1>4. Written'
  BY <1>1 DEF Written, CommitValue, IInv, TypeOK, Steps
<1> QED
  BY <1>2, <1>3, <1>4, PartsMakeIInv DEF CommitValue, IInv, TypeOK

(* The acknowledgement: both namespaces hold the target, and nothing else  *)
(* is promised from now on.                                                *)
LEMMA CommitMetadataIInv ==
    ASSUME IInv, CommitMetadata PROVE IInv'
<1>1. /\ IsPair(stored')
      /\ stored'.value \in {stored.value, view.value}
      /\ stored'.type \in {stored.type, view.type}
      /\ \/ step' = "Idle" /\ stored'.type = view.type
            /\ stored'.value = stored.value
         \/ step' = "Reopen"
  <2>1. {stored, view} \subseteq Contents /\ Commit("type", "Idle")
    BY DEF IInv, TypeOK, CommitMetadata
  <2> QED BY <2>1, CommitEffect
<1>2. IsPair(view) BY PartsOfIInv DEF Parts
<1>3. /\ target \in promised
      /\ view.value = ItemOf(target) /\ view.type = TypeOf(target)
      /\ stored.value = ItemOf(target)
  BY DEF IInv, Written, CommitMetadata, Steps
<1>4. step' \in Steps BY <1>1 DEF Steps
<1>5. CASE step' = "Idle"
  <2>1. promised' = {target} /\ phase' = "shell" /\ view' = view
    BY <1>5 DEF CommitMetadata
  <2>2. stored'.value = ItemOf(target) /\ stored'.type = TypeOf(target)
    BY <1>1, <1>3, <1>5
  <2>3. Parts(view', promised') /\ Parts(stored', promised')
    BY <1>1, <1>2, <1>3, <2>1, <2>2 DEF Parts
  <2>4. view' = stored'
    BY <1>1, <1>2, <1>3, <2>1, <2>2 DEF IsPair
  <2>5. Written' BY <1>5, <2>1, <2>4 DEF Written, Steps
  <2> QED
    BY <1>4, <2>1, <2>3, <2>5, PartsMakeIInv DEF CommitMetadata, IInv, TypeOK
<1>6. CASE step' # "Idle"
  <2>1. UNCHANGED <<promised, phase, view>> /\ step' = "Reopen"
    BY <1>1, <1>6 DEF CommitMetadata
  <2>2. Parts(view', promised') /\ Parts(stored', promised')
    BY <1>1, <2>1, PartsOfIInv DEF Parts
  <2>3. Written'
    BY <1>3, <2>1 DEF Written, CommitMetadata, IInv, TypeOK, Steps
  <2> QED
    BY <1>4, <2>1, <2>2, <2>3, PartsMakeIInv DEF CommitMetadata, IInv, TypeOK
<1> QED BY <1>5, <1>6

(* Whatever survives has its parts from what was stored and written.       *)
LEMMA SurvivorParts ==
    ASSUME IInv, NEW content \in Survivors PROVE Parts(content, promised)
BY PartsOfIInv DEF Parts, Survivors, IsPair

LEMMA ReopenIInv ==
    ASSUME IInv, ReopenAfterWriteFailure PROVE IInv'
<1>1. Parts(view', promised') /\ Parts(stored', promised')
  BY SurvivorParts DEF ReopenAfterWriteFailure
<1>2. step' \in Steps /\ Written'
  BY DEF ReopenAfterWriteFailure, Written, Steps
<1> QED
  BY <1>1, <1>2, PartsMakeIInv DEF ReopenAfterWriteFailure, IInv, TypeOK

LEMMA PowerLossIInv ==
    ASSUME IInv, PowerLoss PROVE IInv'
<1>1. Parts(view', promised') /\ Parts(stored', promised')
  BY SurvivorParts DEF PowerLoss
<1>2. step' \in Steps /\ Written'
  BY DEF PowerLoss, Written, Steps
<1> QED
  BY <1>1, <1>2, PartsMakeIInv DEF PowerLoss, IInv, TypeOK

LEMMA ConfiguredType ==
    ASSUME NEW settings PROVE Configured(settings) \in Accepted \cup {Default.data}
BY DEF Configured

LEMMA BootIInv ==
    ASSUME IInv, PowerOn \/ Load \/ BootWithoutStore PROVE IInv'
<1>1. Parts(view', promised') /\ Parts(stored', promised')
  BY PartsOfIInv DEF PowerOn, Load, BootWithoutStore
<1>2. step' \in Steps /\ phase' \in {"off", "boot", "shell"}
  BY DEF PowerOn, Load, BootWithoutStore, IInv, TypeOK, Steps
<1>3. current' \in Accepted \cup {Default.data}
  BY ConfiguredType DEF PowerOn, Load, BootWithoutStore, IInv, TypeOK
<1>4. Written'
  BY DEF PowerOn, Load, BootWithoutStore, Written, IInv, Steps
<1> QED
  BY <1>1, <1>2, <1>3, <1>4, PartsMakeIInv
  DEF PowerOn, Load, BootWithoutStore, IInv, TypeOK

LEMMA NextIInv == IInv /\ [Next]_vars => IInv'
<1> SUFFICES ASSUME IInv, [Next]_vars PROVE IInv' OBVIOUS
<1>1. CASE PowerLoss BY <1>1, PowerLossIInv
<1>2. CASE Boot
  <2>1. CASE SaveDefault
    BY <2>1, SetIInv, SettingsAssumption DEF SaveDefault
  <2> QED BY <1>2, <2>1, BootIInv DEF Boot
<1>3. CASE Shell
  BY <1>3, SetIInv, BeginEraseIInv DEF Shell, Remove, Clear
<1>4. CASE StoreStep
  BY <1>4, SetMetadataIInv, EraseMetadataIInv, CommitValueIInv,
     CommitMetadataIInv, ReopenIInv DEF StoreStep
<1>5. CASE UNCHANGED vars
  BY <1>5 DEF vars, IInv, TypeOK, PartsArePromised, Written
<1> QED BY <1>1, <1>2, <1>3, <1>4, <1>5 DEF Next

(* Between any two writes, and after any loss of power, each namespace     *)
(* holds a part of a setting that was acknowledged or attempted since.     *)
THEOREM StoreInvariant == Spec => []IInv
BY InitIInv, NextIInv, PTL DEF Spec

-----------------------------------------------------------------------------
(* What reads return                                                       *)

(* No value of one type can be read back as a value of another.            *)
DistinctTypes ==
    \A t, u \in Types :
        Storage[t] = Storage[u] /\ Values[t] \cap Values[u] # {} => t = u

LEMMA SettingFields ==
    ASSUME NEW s \in Settings
    PROVE  s.type \in Types /\ s.data \in Values[s.type]
           /\ s = [type |-> s.type, data |-> s.data] /\ s # Nothing
BY SettingsAssumption DEF Settings

(* What is stored when nothing but s can be.                               *)
LEMMA OnePromise ==
    ASSUME IInv, NEW s \in promised, promised = {s}
    PROVE  view.value = ItemOf(s) /\ view.type = TypeOf(s)
BY DEF IInv, PartsArePromised

(* An acknowledged command that no other followed is what reads find,      *)
(* however often power was lost or a boot failed.                          *)
THEOREM AcknowledgedCommandSurvives == Spec => []AcknowledgedSurvives
<1>1. IInv => AcknowledgedSurvives
  <2> SUFFICES ASSUME IInv, NEW s \in promised, promised = {s}
               PROVE  Shown = {s} \ {Nothing}
    BY DEF AcknowledgedSurvives
  <2>1. view.value = ItemOf(s) /\ view.type = TypeOf(s)
    BY OnePromise
  <2>2. CASE s = Nothing
    BY <2>1, <2>2 DEF Shown, ItemOf
  <2>3. CASE s # Nothing
    <3>1. s \in Settings BY <2>3 DEF IInv, TypeOK
    <3>2. /\ view.value = [storage |-> Storage[s.type], data |-> s.data]
          /\ view.type = s.type /\ view.value # Nothing
      BY <2>1, <3>1, SettingsAssumption DEF ItemOf, TypeOf
    <3>3. IsReadableAs(s.type)
      BY <3>1, <3>2, SettingFields DEF IsReadableAs
    <3>4. {t \in Types : view.value # Nothing /\ view.type = t
                           /\ IsReadableAs(t)} = {s.type}
      BY <3>1, <3>2, <3>3, SettingFields
    <3>5. Shown = {[type |-> s.type, data |-> view.value.data]}
      BY <3>4 DEF Shown
    <3> QED BY <2>3, <3>1, <3>2, <3>5, SettingFields
  <2> QED BY <2>2, <2>3
<1> QED BY <1>1, StoreInvariant, PTL

LEMMA ShownPromised ==
    ASSUME IInv, DistinctTypes PROVE Shown \subseteq promised
<1> SUFFICES ASSUME NEW t \in Types, view.value # Nothing, view.type = t,
                    IsReadableAs(t)
             PROVE  [type |-> t, data |-> view.value.data] \in promised
  BY DEF Shown
<1>1. PICK r \in promised : view.value = ItemOf(r)
  BY DEF IInv, PartsArePromised
<1>2. PICK s \in promised : t = TypeOf(s)
  BY DEF IInv, PartsArePromised
<1>3. r \in Settings /\ s \in Settings
  BY <1>1, <1>2, SettingsAssumption DEF ItemOf, TypeOf, IInv, TypeOK
<1>4. view.value = [storage |-> Storage[r.type], data |-> r.data]
  BY <1>1, <1>3, SettingFields DEF ItemOf
<1>5. Storage[r.type] = Storage[t] /\ r.data \in Values[t]
  BY <1>4 DEF IsReadableAs
<1>6. r.type = t
  BY <1>3, <1>5, SettingFields DEF DistinctTypes
<1> QED BY <1>1, <1>3, <1>4, <1>6, SettingFields

(* As long as no value can be read back as another type, a command that    *)
(* was cut off leaves nothing that a read takes for a setting nobody set.  *)
THEOREM InterruptionsAreNoticed ==
    ASSUME DistinctTypes PROVE Spec => []ReadsWhatWasSet
<1>1. IInv => ReadsWhatWasSet BY ShownPromised DEF ReadsWhatWasSet
<1> QED BY <1>1, StoreInvariant, PTL

-----------------------------------------------------------------------------
(* Boots                                                                   *)

(* The default replaces nothing but a missing setting.                     *)
THEOREM BootKeepsWhatIsStored == Spec => BootKeepsSettings
<1>1. ASSUME IInv, [Next]_vars
      PROVE  [phase = "boot" /\ step = "Idle" /\ promised' # promised
              => Nothing \in promised]_vars
  <2> SUFFICES ASSUME Next, phase = "boot", step = "Idle", promised' # promised
               PROVE  Nothing \in promised
    BY <1>1
  <2>1. SaveDefault
    BY DEF Next, PowerLoss, Boot, PowerOn, Load, BootWithoutStore, Shell,
       StoreStep, SetMetadata, EraseMetadata, CommitValue, CommitMetadata,
       ReopenAfterWriteFailure
  <2>2. PICK s \in promised : Nothing = ItemOf(s)
    BY <1>1, <2>1 DEF SaveDefault, IsMissing, IInv, PartsArePromised
  <2> QED BY <1>1, <2>2, SettingsAssumption DEF IInv, TypeOK
<1> QED BY <1>1, StoreInvariant, PTL DEF Spec, BootKeepsSettings

LEMMA ConfiguredOne ==
    ASSUME NEW d \in Accepted,
           NEW settings, settings = {[type |-> Default.type, data |-> d]}
    PROVE  Configured(settings) = d
<1>1. {e \in Accepted : [type |-> Default.type, data |-> e] \in settings} = {d}
  OBVIOUS
<1> QED BY <1>1 DEF Configured

LEMMA ConfiguredDefault ==
    ASSUME NEW settings,
           \A d \in Accepted : [type |-> Default.type, data |-> d] \notin settings
    PROVE  Configured(settings) = Default.data
<1>1. {d \in Accepted : [type |-> Default.type, data |-> d] \in settings} = {}
  OBVIOUS
<1> QED BY <1>1 DEF Configured

LEMMA LoadUsesSetting ==
    ASSUME IInv, DistinctTypes, view.value # Nothing
    PROVE  \E s \in promised : Configured(Shown) = Configured({s})
<1>1. CASE \E d \in Accepted : [type |-> Default.type, data |-> d] \in Shown
  <2>1. PICK d \in Accepted : [type |-> Default.type, data |-> d] \in Shown
    BY <1>1
  <2>2. Shown = {[type |-> Default.type, data |-> d]}
    BY <2>1 DEF Shown
  <2> QED BY <2>2, ShownPromised
<1>2. CASE \A d \in Accepted : [type |-> Default.type, data |-> d] \notin Shown
  <2>1. SUFFICES ASSUME \A s \in promised : \E d \in Accepted :
                           s = [type |-> Default.type, data |-> d]
                 PROVE  FALSE
    <3>1. SUFFICES ASSUME NEW s \in promised,
                          \A d \in Accepted :
                             s # [type |-> Default.type, data |-> d]
                   PROVE  Configured({s}) = Default.data
      BY <1>2, ConfiguredDefault
    <3> QED BY <3>1, ConfiguredDefault
  <2>2. PICK r \in promised : view.value = ItemOf(r)
    BY DEF IInv, PartsArePromised
  <2>3. PICK s \in promised : view.type = TypeOf(s)
    BY DEF IInv, PartsArePromised
  <2>4. r \in Settings /\ r # Nothing
    BY <2>2, SettingsAssumption DEF ItemOf, IInv, TypeOK
  <2>5. PICK d \in Accepted : r = [type |-> Default.type, data |-> d]
    BY <2>1
  <2>6. s.type = Default.type /\ s \in Settings \cup {Nothing}
    BY <2>1 DEF IInv, TypeOK
  <2>7. r.type = Default.type /\ r.data = d
    BY <2>5
  <2>8. s \in Settings
    <3>1. PICK e \in Accepted : s = [type |-> Default.type, data |-> e]
      BY <2>1
    <3>2. s.type \in Types /\ e \in Values[s.type]
      BY <3>1, SettingsAssumption, SettingFields
    <3> QED BY <3>1, <3>2 DEF Settings
  <2>9. view.type = Default.type /\ Default.type \in Types
    BY <2>3, <2>6, <2>8, SettingsAssumption, SettingFields DEF TypeOf
  <2>10. view.value = [storage |-> Storage[Default.type], data |-> d]
    BY <2>2, <2>4, <2>7 DEF ItemOf
  <2>11. IsReadableAs(Default.type)
    BY <2>4, <2>7, <2>10, SettingFields DEF IsReadableAs
  <2>12. [type |-> Default.type, data |-> d] \in Shown
    BY <2>9, <2>10, <2>11 DEF Shown
  <2> QED BY <1>2, <2>12
<1> QED BY <1>1, <1>2

(* A boot whose store works runs with a setting that may be stored.        *)
THEOREM BootUsesWhatIsStored ==
    ASSUME DistinctTypes PROVE Spec => BootUsesSetting
<1>1. ASSUME IInv, [Next]_vars
      PROVE  [phase = "boot" /\ phase' = "shell" /\ step \in {"Idle", "CommitMetadata"}
              => \E s \in promised : current' = Configured({s})]_vars
  <2> SUFFICES ASSUME Next, phase = "boot", phase' = "shell",
                      step \in {"Idle", "CommitMetadata"}
               PROVE  \E s \in promised : current' = Configured({s})
    BY <1>1
  <2>1. Load \/ CommitMetadata
    BY DEF Next, PowerLoss, Boot, PowerOn, SaveDefault, Set, BootWithoutStore,
       Shell, StoreStep, SetMetadata, EraseMetadata, CommitValue,
       ReopenAfterWriteFailure
  <2>2. CASE Load
    BY <1>1, <2>2, LoadUsesSetting DEF Load, IsMissing
  <2>3. CASE CommitMetadata
    <3>1. Default \in promised /\ current' = Default.data
      BY <1>1, <2>3 DEF CommitMetadata, IInv, Written, Steps
    <3>2. Default = [type |-> Default.type, data |-> Default.data]
      BY SettingsAssumption, SettingFields
    <3>3. Configured({Default}) = Default.data
      <4>1. CASE Default.data \in Accepted BY <3>2, <4>1, ConfiguredOne
      <4>2. CASE Default.data \notin Accepted
        <5>1. \A d \in Accepted : [type |-> Default.type, data |-> d] \notin {Default}
          BY <3>2, <4>2
        <5> QED BY <5>1, ConfiguredDefault
      <4> QED BY <4>1, <4>2
    <3> QED BY <3>1, <3>3
  <2> QED BY <2>1, <2>2, <2>3
<1> QED BY <1>1, StoreInvariant, PTL DEF Spec, BootUsesSetting
=============================================================================
