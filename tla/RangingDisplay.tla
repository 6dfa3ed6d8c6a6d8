--------------------------- MODULE RangingDisplay ---------------------------
(***************************************************************************)
(* From a published distance to the screen of a TAG.  The measurement task *)
(* ends each cycle with SequentialRangingDisplay::Update, which takes the  *)
(* controller's results into two short lists, and, if anything changed,    *)
(* overwrites the one-place snapshot queue.  The display task, on the      *)
(* other core and of low priority, takes the snapshot when it comes        *)
(* around, turns the page when BtnA is pressed and draws.                  *)
(*                                                                         *)
(* Both lists are sorted by ANCHOR id, so a set (or a function on the ids) *)
(* stands for each.  "heading" is all else that the list page shows: the   *)
(* controller's state and the second of the master's time.  The screens of *)
(* a failed initialization and the position graph itself are left out.     *)
(***************************************************************************)
EXTENDS Integers, FiniteSets, Sequences

CONSTANTS
    Anchors,        \* node ids of ANCHORs
    Distances,      \* what a successful ranging returns
    NoDistance,     \* no success is listed
    Nodes,          \* MAC addresses of other nodes, in the order of m_nodes
    Headings,
    Visible,        \* m_maxAnchorResultCount = m_visibleNodeCount (5)
    IsTag,          \* the node's mode; an ANCHOR lists and pages nothing
    NoSnapshot,     \* the snapshot queue is empty, or none was received yet
    MaxPerCycle     \* bound: results published in one cycle

Snapshots ==
    [successes : [Anchors -> Distances \cup {NoDistance}],
     failures : SUBSET Anchors, heading : Headings, nodes : SUBSET Nodes]

ASSUME DisplayAssumption ==
    /\ Anchors \subseteq Nat /\ IsFiniteSet(Anchors)
    /\ Nodes \subseteq Nat /\ IsFiniteSet(Nodes)
    /\ NoDistance \notin Distances
    /\ NoSnapshot \notin Snapshots
    /\ Visible \in Nat \ {0}
    /\ IsTag \in BOOLEAN
    /\ MaxPerCycle \in Nat

Pages == {"RangingResults", "PositionGraph"}

(* A result for this TAG or for another one that its master collects.      *)
Measurements ==
    [anchor : Anchors, distance : Distances \cup {NoDistance}, mine : BOOLEAN]

VARIABLES
    (* the other components, as the measurement task finds them            *)
    published,      \* m_measurementQueue of the controller
    masterChanged,  \* m_resetGeneration # m_latestResetGeneration
    nodes,          \* keys of EspNowBroadcast::m_nodes
    statusWaiting,  \* m_receivedNodeStatusQueue is not empty
    heading,
    (* SequentialRangingDisplay                                            *)
    successes,      \* m_successMeasurements
    failures,       \* m_failureMeasurements
    shownHeading,   \* m_latestState and m_currentMasterTimeUs
    changed,        \* changed, in Update
    step,           \* where the measurement task is: see Steps
    (* RangingDisplayTaskController                                        *)
    snapshotQueue,  \* m_snapshotQueue
    snapshot,       \* snapshot, in RunDisplayTask
    page,           \* TagPositionViewController::m_page
    screen,         \* what was drawn last
    (* History, since the master changed last; the code has none of it     *)
    succeeded,      \* last distance of each ANCHOR
    failing,        \* ANCHORs whose last ranging failed
    crowded         \* more were failing at once than a list can show

outside == <<published, masterChanged, nodes, statusWaiting, heading>>
lists == <<successes, failures>>
model == <<lists, shownHeading, nodes>>
display == <<snapshot, page, screen>>
history == <<succeeded, failing, crowded>>
displayVars ==
    <<outside, lists, shownHeading, changed, step, snapshotQueue, display, history>>

Steps ==
    {"Delay",       \* vTaskDelay, between two cycles
     "Work",        \* the controller handles its packets
     "Take",        \* SequentialRangingDisplay::Update
     "Publish"}     \* ... has returned true

-----------------------------------------------------------------------------
(* The operators named Buggy... are plausible mistakes in the definition   *)
(* that follows them.  Nothing uses them; they show which property would   *)
(* notice the mistake.                                                     *)

(* What a list of Visible places keeps of some ids: an id that comes in    *)
(* puts out the highest one, and one that would itself be the highest is   *)
(* refused.                                                                *)
Lowest(ids) == {a \in ids : Cardinality({b \in ids : b < a}) < Visible}

Listed == {a \in Anchors : successes[a] # NoDistance}

NoSuccesses == [a \in Anchors |-> NoDistance]

CaptureSnapshot ==
    [successes |-> successes, failures |-> failures,
     heading |-> shownHeading, nodes |-> Lowest(nodes)]

(* Begin publishes the first snapshot before it starts the tasks.          *)
DisplayInit ==
    /\ published = <<>> /\ masterChanged = FALSE
    /\ nodes = {} /\ statusWaiting = FALSE
    /\ heading \in Headings /\ shownHeading = heading
    /\ successes = NoSuccesses /\ failures = {}
    /\ changed = FALSE /\ step = "Delay"
    /\ snapshotQueue = CaptureSnapshot
    /\ snapshot = NoSnapshot /\ screen = NoSnapshot
    /\ page = "RangingResults"
    /\ succeeded = NoSuccesses /\ failing = {} /\ crowded = FALSE

-----------------------------------------------------------------------------
(* A cycle of the measurement task, as far as the display can tell: a      *)
(* status may come in; the master may change, which empties the            *)
(* controller's queues, before the cycle's packets are handled.            *)
BeginDisplayCycle ==
    /\ step = "Delay" /\ step' = "Work"
    /\ heading' \in Headings
    /\ \/ \E n \in Nodes : nodes' = nodes \cup {n} /\ statusWaiting' = TRUE
       \/ UNCHANGED <<nodes, statusWaiting>>
    /\ \/ /\ masterChanged' = TRUE /\ published' = <<>>
          /\ succeeded' = NoSuccesses /\ failing' = {} /\ crowded' = FALSE
       \/ UNCHANGED <<masterChanged, published, history>>
    /\ UNCHANGED <<lists, shownHeading, changed, snapshotQueue, display>>

PublishMeasurement(measurement) ==
    /\ step = "Work"
    /\ Len(published) < MaxPerCycle
    /\ published' = Append(published, measurement)
    /\ UNCHANGED <<masterChanged, nodes, statusWaiting, heading, lists,
                   shownHeading, changed, step, snapshotQueue, display, history>>

(* Update begins by forgetting the results of an earlier master.           *)
BuggyClearTagMeasurements ==        \* clears the lists but one
    IF masterChanged THEN successes' = NoSuccesses /\ UNCHANGED failures
    ELSE UNCHANGED lists
ClearTagMeasurements ==
    IF masterChanged THEN successes' = NoSuccesses /\ failures' = {}
    ELSE UNCHANGED lists

BeginModelUpdate ==
    /\ step = "Work" /\ step' = "Take"
    /\ ClearTagMeasurements
    /\ changed' = masterChanged /\ masterChanged' = FALSE
    /\ UNCHANGED <<published, nodes, statusWaiting, heading, shownHeading,
                   snapshotQueue, display, history>>

(* The results for this TAG; those for others are taken and dropped.       *)
IsOwn(measurement) == IsTag /\ measurement.mine

(* A later failure does not touch the last success, a success takes its    *)
(* ANCHOR off the failures.                                                *)
BuggyStoreSuccess(anchor, distance) ==  \* reports the success list only
    LET kept == Lowest(Listed \cup {anchor}) IN
    /\ successes' =
          [a \in Anchors |-> IF a \notin kept THEN NoDistance
                             ELSE IF a = anchor THEN distance ELSE successes[a]]
    /\ failures' = failures \ {anchor}
    /\ changed' = (changed \/ anchor \in kept)
StoreSuccess(anchor, distance) ==
    LET kept == Lowest(Listed \cup {anchor}) IN
    /\ successes' =
          [a \in Anchors |-> IF a \notin kept THEN NoDistance
                             ELSE IF a = anchor THEN distance ELSE successes[a]]
    /\ failures' = failures \ {anchor}
    /\ changed' = (changed \/ anchor \in kept \/ anchor \in failures)

StoreFailure(anchor) ==
    LET kept == Lowest(failures \cup {anchor}) IN
    /\ failures' = kept
    /\ changed' = (changed \/ anchor \in kept)
    /\ UNCHANGED successes

(* What the history makes of the same result.                              *)
Remember(measurement) ==
    IF measurement.distance = NoDistance
    THEN /\ failing' = failing \cup {measurement.anchor}
         /\ crowded' = (crowded \/ Cardinality(failing') > Visible)
         /\ UNCHANGED succeeded
    ELSE /\ succeeded' =
               [succeeded EXCEPT ![measurement.anchor] = measurement.distance]
         /\ failing' = failing \ {measurement.anchor}
         /\ UNCHANGED crowded

StoreTagMeasurement ==
    /\ step = "Take" /\ published # <<>>
    /\ published' = Tail(published)
    /\ \E measurement \in {Head(published)} :
          IF ~IsOwn(measurement) THEN UNCHANGED <<lists, changed, history>>
          ELSE /\ IF measurement.distance = NoDistance
                  THEN StoreFailure(measurement.anchor)
                  ELSE StoreSuccess(measurement.anchor, measurement.distance)
               /\ Remember(measurement)
    /\ UNCHANGED <<masterChanged, nodes, statusWaiting, heading, shownHeading,
                   step, snapshotQueue, display>>

(* The rest of Update; UpdateRangingCycle publishes if it returns true.    *)
EndModelUpdate ==
    /\ step = "Take" /\ published = <<>>
    /\ statusWaiting' = FALSE
    /\ shownHeading' = heading
    /\ changed' = (changed \/ statusWaiting \/ heading # shownHeading)
    /\ step' = IF changed' THEN "Publish" ELSE "Delay"
    /\ UNCHANGED <<published, masterChanged, nodes, heading, lists,
                   snapshotQueue, display, history>>

(* xQueueOverwrite: a snapshot that was not drawn yet is replaced.         *)
BuggyPublishSnapshot ==             \* xQueueSend: the new one is dropped
    /\ step = "Publish" /\ step' = "Delay"
    /\ snapshotQueue' =
          IF snapshotQueue = NoSnapshot THEN CaptureSnapshot ELSE snapshotQueue
    /\ UNCHANGED <<outside, lists, shownHeading, changed, display, history>>
PublishSnapshot ==
    /\ step = "Publish" /\ step' = "Delay"
    /\ snapshotQueue' = CaptureSnapshot
    /\ UNCHANGED <<outside, lists, shownHeading, changed, display, history>>

-----------------------------------------------------------------------------
(* One pass of RunDisplayTask's loop.  xQueueReceive does not wait; from    *)
(* then on the pass works on its own copy only, so it is one step.         *)
PageAfter(pressed) ==       \* TagPositionViewController::Update
    IF ~IsTag THEN "RangingResults"
    ELSE IF pressed THEN CHOOSE p \in Pages : p # page ELSE page

BuggyRedrawRequired(received, turned) == turned
RedrawRequired(received, turned) == received \/ turned

RunDisplayTask(pressed) ==
    \E received \in {snapshotQueue # NoSnapshot} :
       /\ snapshot' = IF received THEN snapshotQueue ELSE snapshot
       /\ snapshotQueue' = NoSnapshot
       /\ page' = IF snapshot' # NoSnapshot THEN PageAfter(pressed) ELSE page
       /\ screen' = IF snapshot' # NoSnapshot
                       /\ RedrawRequired(received, page' # page)
                    THEN [page |-> page', content |-> snapshot']
                    ELSE screen
       /\ UNCHANGED <<outside, lists, shownHeading, changed, step, history>>

-----------------------------------------------------------------------------
UpdateRangingCycle ==
    \/ BeginDisplayCycle
    \/ BeginModelUpdate \/ StoreTagMeasurement \/ EndModelUpdate
    \/ PublishSnapshot

DisplayNext ==
    \/ UpdateRangingCycle
    \/ \E measurement \in Measurements : PublishMeasurement(measurement)
    \/ \E pressed \in BOOLEAN : RunDisplayTask(pressed)

DisplaySpec == DisplayInit /\ [][DisplayNext]_displayVars

(* Both tasks are endless loops on cores of their own.                     *)
DisplayFairSpec ==
    /\ DisplaySpec
    /\ WF_displayVars(UpdateRangingCycle)
    /\ WF_displayVars(\E pressed \in BOOLEAN : RunDisplayTask(pressed))

-----------------------------------------------------------------------------
(* Type invariant of the display model and of the display task.            *)
DisplayTypeOK ==
    /\ published \in Seq(Measurements) /\ masterChanged \in BOOLEAN
    /\ nodes \subseteq Nodes /\ statusWaiting \in BOOLEAN
    /\ heading \in Headings /\ shownHeading \in Headings
    /\ successes \in [Anchors -> Distances \cup {NoDistance}]
    /\ failures \subseteq Anchors
    /\ changed \in BOOLEAN /\ step \in Steps
    /\ snapshotQueue \in Snapshots \cup {NoSnapshot}
    /\ snapshot \in Snapshots \cup {NoSnapshot}
    /\ page \in Pages
    /\ screen \in [page : Pages, content : Snapshots] \cup {NoSnapshot}
    /\ succeeded \in [Anchors -> Distances \cup {NoDistance}]
    /\ failing \subseteq Anchors /\ crowded \in BOOLEAN

(* Between two cycles the lists are about the current master only: the     *)
(* last distance of each of the lowest ANCHORs that ever succeeded, also   *)
(* after it failed, and only ANCHORs whose last ranging failed; all of     *)
(* these unless there were once more than fit                              *)
(* (docs/sequential-ranging-time-sync.md:1160, :1180).                     *)
Succeeded == {a \in Anchors : succeeded[a] # NoDistance}

SuccessesFollow ==
    \E shown \in {Lowest(Succeeded)} :
       successes =
          [a \in Anchors |-> IF a \in shown THEN succeeded[a] ELSE NoDistance]

FailuresFollow ==
    /\ failures \subseteq failing
    /\ ~crowded => failures = failing

ListsFollowResults == step = "Delay" => SuccessesFollow /\ FailuresFollow

(* What the display task has not drawn yet, or else what it drew last, is  *)
(* what the model shows between two cycles: no change stays unpublished,   *)
(* and overwriting loses only what has been superseded.                    *)
ToBeShown == IF snapshotQueue # NoSnapshot THEN snapshotQueue ELSE snapshot

NothingUnpublished == step = "Delay" => ToBeShown = CaptureSnapshot

(* Once the model stays as it is, the screen shows it.                     *)
ScreenCatchesUp ==
    []<><<TRUE>>_model
    \/ <>[](screen # NoSnapshot /\ screen.content = CaptureSnapshot)

-----------------------------------------------------------------------------
(* The inductive invariant behind the two.  The lists follow the history   *)
(* except between a change of the master and Update...                     *)
HistoryInv ==
    /\ masterChanged =>
          /\ step = "Work"
          /\ succeeded = NoSuccesses /\ failing = {} /\ ~crowded
    /\ ~masterChanged => SuccessesFollow /\ FailuresFollow
    /\ Lowest(failures) = failures
    /\ ~crowded => Cardinality(failing) <= Visible

(* ... and what is to be shown is the model, except for what a status, or  *)
(* "changed", will have published.                                         *)
Unpublished ==
    statusWaiting \/ step = "Publish" \/ (step = "Take" /\ changed)

PublishedInv ==
    /\ step \in {"Delay", "Publish"} => ~statusWaiting
    /\ ~Unpublished => ToBeShown = CaptureSnapshot

DisplayInv == DisplayTypeOK /\ HistoryInv /\ PublishedInv
=============================================================================
