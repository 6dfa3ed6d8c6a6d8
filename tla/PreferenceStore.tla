--------------------------- MODULE PreferenceStore ---------------------------
(***************************************************************************)
(* The settings of one node: src/NvsPreferenceStore.cpp, which keeps a     *)
(* value and its type in two NVS namespaces that no transaction joins, the *)
(* shell commands of src/PreferenceCommands.cpp that change them, and the  *)
(* configuration read at boot (ConfigPreference.cpp, ConfigRuntime.cpp).   *)
(* Power may go at any point and every write may fail.                     *)
(*                                                                         *)
(* The module follows one key: no call relates two keys, and Clear does to *)
(* each of them the same.  Commands that are refused before they write     *)
(* (bad key, type or value; store not started; Remove of a missing key)    *)
(* and commands that only read change nothing and are not actions.         *)
(***************************************************************************)
CONSTANTS
    Types,      \* EnNvsValueType
    Storage,    \* Storage[t]: the NVS type that holds values of type t
    Values,     \* Values[t]: what is accepted, and read back, as a t
    Default,    \* the setting that the boot saves when there is none
    Accepted,   \* values of its type that the configuration accepts
    Nothing,    \* no value
    NoType      \* no type

Settings == UNION {{[type |-> t, data |-> d] : d \in Values[t]} : t \in Types}

(* What NVS holds when s is stored: a value in one namespace, its type in  *)
(* the other.                                                              *)
ItemOf(s) == IF s = Nothing THEN Nothing
             ELSE [storage |-> Storage[s.type], data |-> s.data]
TypeOf(s) == IF s = Nothing THEN NoType ELSE s.type
Content(s) == [value |-> ItemOf(s), type |-> TypeOf(s)]

ASSUME SettingsAssumption ==
    /\ Default \in Settings /\ Accepted \subseteq Values[Default.type]
    /\ Nothing \notin Settings /\ NoType \notin Types
    /\ \A s \in Settings : ItemOf(s) # Nothing

VARIABLES
    stored,     \* what survives a loss of power for certain
    view,       \* what calls of NVS return
    step,       \* where the store is in a command: see Steps
    target,     \* what the command in progress writes
    phase,      \* "off", "boot" until ConfigRuntime::Init returns, "shell"
    current,    \* the value in ConfigRuntime
    promised    \* history: what was acknowledged last, and every setting
                \* whose command has begun since

vars == <<stored, view, step, target, phase, current, promised>>

Steps ==
    {"Closed",          \* m_started is false
     "Idle",            \* started, in no command
     "SetMetadata",     \* the value is set
     "EraseMetadata",   \* the value is erased
     "EraseFailed",     \* ... or not, and Remove goes on all the same
     "CommitValue",     \* both namespaces are written
     "CommitMetadata",  \* the value is committed
     "Reopen"}          \* ReopenAfterWriteFailure

Init ==
    /\ stored = Content(Nothing) /\ view = stored
    /\ step = "Closed" /\ target = Nothing
    /\ phase = "off" /\ current = Default.data
    /\ promised = {Nothing}

-----------------------------------------------------------------------------
(* NVS.  A call that fails may have taken effect; what is written and not  *)
(* committed may or may not survive.                                       *)
Write(namespace, content, next) ==
    LET written == [view EXCEPT ![namespace] = content]
    IN  \/ view' = written /\ step' = next
        \/ view' \in {view, written} /\ step' = "Reopen"

(* The same for nvs_erase_key of Remove, which goes on after a failure.    *)
Erase(namespace, next, failed) ==
    LET erased == [view EXCEPT ![namespace] = Content(Nothing)[namespace]]
    IN  \/ view' = erased /\ step' = next
        \/ view' \in {view, erased} /\ step' = failed

Commit(namespace, next) ==
    \/ stored' = [stored EXCEPT ![namespace] = view[namespace]] /\ step' = next
    \/ stored' = stored /\ step' = "Reopen"

Survivors ==
    {[value |-> v, type |-> t] :
        v \in {stored.value, view.value}, t \in {stored.type, view.type}}

-----------------------------------------------------------------------------
(* The operators named Buggy... are plausible mistakes in the definition   *)
(* that follows them.  Nothing uses them; they show which property would   *)
(* notice the mistake.                                                     *)

(* ValidateRead and ValidateStoredValue: the value has the NVS type of t,  *)
(* and a length or range that fits it.                                     *)
BuggyIsReadableAs(t) == view.value.storage = Storage[t]
IsReadableAs(t) == view.value.storage = Storage[t] /\ view.value.data \in Values[t]

(* The setting that Get of the right type, and List, return, if any.       *)
Shown ==
    {[type |-> t, data |-> view.value.data] :
        t \in {t \in Types : view.value # Nothing /\ view.type = t
                               /\ IsReadableAs(t)}}

Set(s) ==
    /\ step = "Idle"
    /\ Write("value", ItemOf(s), "SetMetadata")
    /\ target' = s
    /\ promised' = promised \cup {s}
    /\ UNCHANGED <<stored, phase, current>>

BuggySetMetadata ==         \* the type only when there was none
    /\ step = "SetMetadata"
    /\ IF view.type = NoType THEN Write("type", target.type, "CommitValue")
       ELSE step' = "CommitValue" /\ UNCHANGED view
    /\ UNCHANGED <<stored, target, phase, current, promised>>
SetMetadata ==
    /\ step = "SetMetadata"
    /\ Write("type", target.type, "CommitValue")
    /\ UNCHANGED <<stored, target, phase, current, promised>>

BeginErase(failed) ==
    /\ phase = "shell" /\ step = "Idle"
    /\ Erase("value", "EraseMetadata", failed)
    /\ target' = Nothing
    /\ promised' = promised \cup {Nothing}
    /\ UNCHANGED <<stored, phase, current>>

(* Remove erases the type even when the value could not be erased; Clear   *)
(* stops at the first failure.                                             *)
Remove == view.value # Nothing /\ BeginErase("EraseFailed")
Clear == BeginErase("Reopen")

EraseMetadata ==
    /\ step \in {"EraseMetadata", "EraseFailed"}
    /\ Erase("type", IF step = "EraseFailed" THEN "Reopen" ELSE "CommitValue",
             "Reopen")
    /\ UNCHANGED <<stored, target, phase, current, promised>>

CommitValue ==
    /\ step = "CommitValue"
    /\ Commit("value", "CommitMetadata")
    /\ UNCHANGED <<view, target, phase, current, promised>>

(* The last step: with its success the command is acknowledged.            *)
BuggyCommitMetadata ==      \* acknowledges without committing the type
    /\ step = "CommitMetadata"
    /\ step' = "Idle" /\ phase' = "shell" /\ promised' = {target}
    /\ UNCHANGED <<stored, view, target, current>>
CommitMetadata ==
    /\ step = "CommitMetadata"
    /\ Commit("type", "Idle")
    /\ IF step' = "Idle" THEN phase' = "shell" /\ promised' = {target}
                         ELSE UNCHANGED <<phase, promised>>
    /\ UNCHANGED <<view, target, current>>

(* Closes and opens both namespaces; the command fails.                    *)
ReopenAfterWriteFailure ==
    /\ step = "Reopen"
    /\ stored' \in Survivors /\ view' = stored'
    /\ step' \in {"Idle", "Closed"}
    /\ phase' = "shell"
    /\ UNCHANGED <<target, current, promised>>

-----------------------------------------------------------------------------
PowerLoss ==
    /\ phase # "off"
    /\ stored' \in Survivors /\ view' = stored'
    /\ step' = "Closed" /\ phase' = "off"
    /\ UNCHANGED <<target, current, promised>>

(* setup(): Begin of the store, which may fail, and then the defaults of   *)
(* ConfigRuntime until Init has read the key.                              *)
PowerOn ==
    /\ phase = "off"
    /\ phase' = "boot"
    /\ step' \in {"Idle", "Closed"}
    /\ current' = Default.data
    /\ UNCHANGED <<stored, view, target, promised>>

(* ConfigPreference::Get... saves the default if NVS knows no such key ... *)
BuggyIsMissing == Shown = {}        \* ... or cannot read it
IsMissing == view.value = Nothing
SaveDefault == phase = "boot" /\ IsMissing /\ Set(Default)

(* ... and ConfigRuntime::Init takes what it finds, or stays with the      *)
(* default after any other error.                                          *)
Configured(settings) ==
    LET usable == {d \in Accepted : [type |-> Default.type, data |-> d] \in settings}
    IN  IF usable = {} THEN Default.data ELSE CHOOSE d \in usable : TRUE

BuggyLoad ==                \* the value, whatever its type
    /\ phase = "boot" /\ step = "Idle" /\ ~IsMissing
    /\ phase' = "shell"
    /\ current' = IF view.value.data \in Accepted THEN view.value.data
                  ELSE Default.data
    /\ UNCHANGED <<stored, view, step, target, promised>>
Load ==
    /\ phase = "boot" /\ step = "Idle" /\ ~IsMissing
    /\ phase' = "shell"
    /\ current' = Configured(Shown)
    /\ UNCHANGED <<stored, view, step, target, promised>>

BootWithoutStore ==
    /\ phase = "boot" /\ step = "Closed"
    /\ phase' = "shell"
    /\ UNCHANGED <<stored, view, step, target, current, promised>>

Shell == phase = "shell" /\ (Remove \/ Clear \/ \E s \in Settings : Set(s))

StoreStep ==
    \/ SetMetadata \/ EraseMetadata
    \/ CommitValue \/ CommitMetadata
    \/ ReopenAfterWriteFailure

Boot == PowerOn \/ SaveDefault \/ Load \/ BootWithoutStore

Next == PowerLoss \/ Boot \/ Shell \/ StoreStep

Spec == Init /\ [][Next]_vars

-----------------------------------------------------------------------------
(* Type invariant of the store.                                            *)
Contents == [value : {ItemOf(s) : s \in Settings \cup {Nothing}},
             type : {TypeOf(s) : s \in Settings \cup {Nothing}}]

TypeOK ==
    /\ {stored, view} \subseteq Contents
    /\ step \in Steps
    /\ target \in Settings \cup {Nothing}
    /\ phase \in {"off", "boot", "shell"}
    /\ current \in Accepted \cup {Default.data}
    /\ promised \subseteq Settings \cup {Nothing}

(* A command that was acknowledged, and that no other command followed, is *)
(* what every read finds, after any number of losses of power, failed      *)
(* starts and boots.                                                       *)
AcknowledgedSurvives ==
    step = "Idle" =>
        \A s \in promised : promised = {s} => Shown = {s} \ {Nothing}

(* A read never returns a setting that was not set: a command that was cut *)
(* off in the middle leaves the old setting, the new one or an error       *)
(* (docs/preferences-commands.md:84).                                      *)
ReadsWhatWasSet == step = "Idle" => Shown \subseteq promised

(* A boot writes the default only where the user may have left nothing; it *)
(* never replaces a setting that it cannot read or does not accept.        *)
BootKeepsSettings ==
    [][phase = "boot" /\ step = "Idle" /\ promised' # promised
       => Nothing \in promised]_vars

(* A boot whose store works configures the node with a setting that may    *)
(* have been saved, and with the one that was acknowledged last if nothing *)
(* has happened since.                                                     *)
BootUsesSetting ==
    [][phase = "boot" /\ phase' = "shell" /\ step \in {"Idle", "CommitMetadata"}
       => \E s \in promised : current' = Configured({s})]_vars

-----------------------------------------------------------------------------
(* The inductive invariant.  Both namespaces hold parts of settings that   *)
(* are promised ...                                                        *)
PartsArePromised ==
    \A content \in {stored, view} :
        /\ \E s \in promised : content.value = ItemOf(s)
        /\ \E s \in promised : content.type = TypeOf(s)

(* ... and what a command has written so far is its target, which during a *)
(* boot is the default.                                                    *)
Written ==
    /\ step \in Steps \ {"Closed", "Idle"} => target \in promised
    /\ step = "SetMetadata" => target # Nothing
    /\ step \in {"EraseMetadata", "EraseFailed"} => target = Nothing
    /\ step \in {"SetMetadata", "EraseMetadata", "CommitValue", "CommitMetadata"}
          => view.value = ItemOf(target)
    /\ step \in {"CommitValue", "CommitMetadata"} => view.type = TypeOf(target)
    /\ step = "CommitMetadata" => stored.value = ItemOf(target)
    /\ step \in {"Closed", "Idle"} => view = stored
    /\ phase = "off" => step = "Closed"
    /\ phase = "boot" =>
          /\ current = Default.data
          /\ step \in Steps \ {"Closed", "Idle"} => target = Default

IInv == TypeOK /\ PartsArePromised /\ Written
=============================================================================
