# TLA+ models of the RYUW122 / M5StickS3 ranging firmware

The firmware turns a set of M5StickS3 devices with RYUW122 UWB modules into a
ranging network.  Every device is a node with an id and a mode, TAG or ANCHOR.
One TAG is the master: it synchronizes the clocks of all nodes over ESP-NOW and
then opens round after round, in which every ANCHOR in turn ranges every TAG
over UWB.  No message is acknowledged and almost none is repeated, so the
interesting questions are about order, loss, repetition, sessions and deadlines.

The models are written from the code in `src/src` and `src/include`.  Paths
below are relative to the repository (`src/...`).

## 1. Inventory

| part | state it keeps | operations | talks to |
| --- | --- | --- | --- |
| `EspNowTransport` | FreeRTOS queues: received 16, send 16, send callbacks 4, results 16; in-flight flag; consumed counter | `Begin`, `End`, `Send`, `Update`, `PeekReceive`, `ConsumeReceive`; callbacks `OnReceive`, `OnSend` from the WiFi task | every component that sends or receives |
| `EspNowReceiveQueueTerminator` | counter and "had a packet" at the beginning of the cycle | `BeginCycle`, `Update` | transport |
| `EspNowBroadcast`, `NodeStatus` | local status, table of nodes with time stamps | `Update`, `SetMasterState`, `HandleReceivedPacket` | transport; read by election, synchronizer, ranging |
| `TagMasterCoordinator` | current master (id, MAC, session id), start of election | `Update` | node table; read by synchronizer and ranging |
| `NtpTimeSynchronizer`, codec | per target samples, phase, offsets; per node committed offset | `Update`: request, response, commit, resynchronization | transport, coordinator; read by ranging |
| `Ryuw122Controller`, parser, initializer | ranging state (idle, waiting, draining), untaken result, clocks, response FIFO of 4 | `Begin`, `Update`, `StartRanging`, `TryTakeResult` | UART; used by ranging |
| `SequentialRangingController`, codec | state, route, place on it, received pairs, sequence numbers, outbound queues of 4 and 80, publish queues 64/4/8 | `Begin`, `Update` and its steps | everything above |
| `SequentialRangingDisplay` | two lists of 5: last distances, failures; heading | `Update`, `CaptureSnapshot`, `Draw` | takes the publish queues, reads the node table |
| `RangingDisplayTaskController`, `main` | snapshot queue (1) and diagnostic queue between two tasks | one cycle per tick; display loop | calls all of the above in order |
| `TagPositionEstimator`, graph, view, input | position fit, page | pure | display task |
| `NvsPreferenceStore`, `ConfigPreference`, `ConfigRuntime`, `PreferenceCommands`, `NtShell` | NVS value and metadata namespaces | set, get, remove, clear, list | shell task |

The measurement task runs `UpdateRangingCycle` for ever
(`RangingDisplayTaskController.cpp:233`): transport, terminator `BeginCycle`,
broadcast, coordinator, synchronizer, RYUW122, ranging, diagnostics, terminator
`Update`, display snapshot.  Concurrent with it are the WiFi task (the two
ESP-NOW callbacks), the display task and, of course, all the other nodes.

What is hard, and what makes each part correct:

* **Ranging rounds.**  The right to use the UWB channel is a token that travels
  as `RangeControl`; loss, repetition, restart, a change of master and the
  deadline all interfere with it.  Correct: at most one ANCHOR ranges, no pair
  is ranged or published twice, a distance belongs to the round it is reported
  for, a summary agrees with what was published, rounds end.
* **Receive queue.**  One FIFO, three consumers that only look at the head, a
  producer in another task.  Correct: no packet of a running consumer is thrown
  away, no packet of nobody blocks the others.
* **Send path.**  One packet in flight, completion by callback.  Correct:
  callbacks match their packet; a sender is never stuck.
* **UWB driver.**  A late answer after a timeout.  Correct: it is not taken for
  the answer of a later ranging.
* **Election.**  Tables that expire and disagree.  Correct: eventually one
  master; an ambiguous table makes nobody master.
* **Time synchronization.**  Retries, late responses, lost commits, 32 bit
  wrap.  Correct: an offset comes from one matched exchange of this session and
  is off by at most half of its round trip.
* **Display.**  Two short lists, a snapshot queue of one place between two cores.
  Correct: the screen ends up with the last results under the current master.
* **Preferences.**  Two namespaces per value, no transaction, power that goes at
  any point.  Correct: an acknowledged setting survives; an interrupted one is
  never taken for another; a boot does not replace what it cannot read.

`PROJECT.json` lists the components with what is modelled of them and every
hazard found, at the line where it bites.

## 2. Modules

| module | what it is |
| --- | --- |
| `SequentialRanging` | the round protocol of all nodes together |
| `RangingAgreement` | why the nodes of a session agree on routes and summaries: inductive invariants |
| `RangingToken` | why at most one ANCHOR ranges, and none ranges a pair again: inductive invariants |
| `RangingForwards` | why no TAG publishes a pair of a round twice: inductive invariants |
| `SequentialRanging_proofs` | that these and `IInv` are inductive, and what follows |
| `MCSequentialRanging`, `MCRangingToken`, `SequentialRanging_*.cfg` | instances for TLC |
| `ReceiveQueue` | one node's receive queue, consumers and terminator |
| `ReceiveQueue_proofs` | its inductive invariant and theorems |
| `Ryuw122Controller` | one node's UWB driver, its device, UART and clock |
| `RangingService` | what the driver promises: implemented by `Ryuw122Controller` |
| `Ryuw122Controller_proofs` | its inductive invariant and theorems |
| `MCRyuw122Controller` (and `.cfg`) | instance for TLC |
| `SendPath` | one node's send queue, packet in flight and callbacks |
| `SendService` | what the transport promises a sender: implemented by `SendPath` |
| `SendPath_proofs` | its inductive invariant and theorems |
| `MCSendPath`, `MCSendPath_lost_callback.cfg` | instance for TLC |
| `MasterElection` | node statuses, node tables and the election of all nodes together |
| `NtpTimeSynchronizer` | extends it by the synchronization: targets, requests, commits, changes of the master |
| `TimeAgreement` | why synchronized clocks agree: the inductive invariant |
| `MasterElection_proofs` | that the invariants of both are inductive, and that the synchronizer implements the election |
| `MCNtpTimeSynchronizer`, `NtpTimeSynchronizer_network.cfg` | instance for TLC |
| `NtpExchange` | the four timestamps of one synchronization, samples, commit, conversions, over wrapping clocks |
| `NtpExchange_proofs` | its inductive invariant and theorems |
| `MCNtpExchange`, `MCNtpExchange*.cfg` | instances for TLC |
| `RangingDisplay` | from a published distance to the screen: display model, snapshot queue, display task |
| `RangingDisplay_proofs` | its inductive invariant and theorems |
| `MCTaskQueues` (and `.cfg`) | `SendPath`, `ReceiveQueue` and `RangingDisplay` for TLC |
| `PreferenceStore` | one setting in NVS, the shell commands that change it, the boot that reads it |
| `PreferenceStore_proofs` | its inductive invariant and theorems |
| `MCPreferenceStore`, `PreferenceStore_*.cfg` | instances for TLC |

`Buggy...` operators are deliberate mistakes next to the definition they would
replace.  Nothing uses them; each shows that a property does notice a plausible
mistake in that place (the table is in `PROJECT.json`, "mutants").

### SequentialRanging

A node's `SequentialRangingController` is the record `ctl[n]`.  Fields are the
members they are named after: `st` is `m_state`, `route` the arrays `m_anchors`
and `m_tags` with their counts, `received` the set of pairs of
`m_receivedMeasurementBits`, `lastControl` and `lastComplete` the three and two
`m_last...` members.  `lastSequence` stands for `m_lastMeasurementSequence` in a
master and for `m_lastForwardSequence` in a follower: a node is only ever one of
the two within a session, and both are reset with it.  Indices count from 1.

Other components appear as what the controller reads of them: `view[n]` is the
master and session of the last `DetectMasterChange`, `synced[n]` the answer of
`IsSynchronizationComplete`, `uwb[n]` and `result[n]` the driver.  `published`
and `summary` are histories of what the application was given.  A node may follow
any session that another TAG has opened (`Announced`), because a table keeps the
last status of a TAG that has since stepped down or restarted; only while it
follows a TAG it changes to none but a later session of it.  The code cannot
return to an earlier session either after it followed somebody else in between,
so the model does more than the code there.

* The steps of `Update` are actions of their own (`ProcessReceivedPackets`
  handles one packet, `UpdateAnchor`, `TryStartRound`, `RoundDeadline`,
  `TrySendNextPacket`).  The code runs them in one fixed order without being
  interrupted, so the model has more interleavings than one node has, and every
  interleaving between nodes.
* A handler is one action with everything it calls: `HandleMeasurement`
  publishes, forwards, and when the last pair came in summarizes the round,
  queues the followers' summaries and opens the next round.
* The recursion between `UpdateAnchor` and `CompleteAnchorMeasurement` (the
  ranging of a TAG fails to start, so the next one is tried at once) is in
  closed form: `CompletedCounts` says how many TAGs may be completed in one
  call, `CompleteAnchorMeasurements` queues their results.
* Transmission puts the packet at the end of the destination's receive queue;
  air time adds nothing since a receiver handles its queue at any later time.
  `Faults` chooses what the environment may do: lose or repeat a packet, let a
  deadline pass, fail to start a ranging, resynchronize, lose the master,
  restart a node.
* Not modelled: a handler's rejection because a node of the list cannot be
  resolved (to the sender the same as a lost packet, which `"loss"` covers),
  encoding errors, statistics, the limits of the publish queues (the display
  empties them in the cycle that fills them), truncation at 8 nodes, and the
  wrap of the round id after 2^32 rounds.  Packet sequence numbers do wrap
  (`SequenceModulus`).

### ReceiveQueue

A packet is the consumer that owns it.  `turn` is the place in the task cycle;
`OnReceive` can happen between any two steps.  `Begun` are the consumers that
run: on a node whose RYUW122 did not initialize, `SequentialRangingController`
was never begun and its packets belong to nobody (`main.cpp:87`).

### Ryuw122Controller

`now` is `micros()` and wraps; `Elapsed` subtracts as `uint32_t` does.
`Update` is `BeginUpdate` (timeouts, then all arrived lines into the FIFO of
`Ryuw122HardwarePort`), one `TakeResponse` per line and `EndUpdate`; the device
may speak and time may pass in between.  A line is an acknowledgement, an answer
with a TAG's address, or an error; what cannot be parsed is an error without
address, as in `ProcessLine`.

The device is external.  It acknowledges a command at most once and answers it
at most once, within `AnswerTime` or never.  `AnswerTime < Timeout + DrainTime`
(300 ms each) is what the drain relies on; a device that answers later than
that would defeat any driver that cannot tell answers apart.  The histories
`own` and `trusted` say which command an answer belongs to; the code cannot see
them, and no guard of the driver reads them.

`Begin` is `Init`; the node is an ANCHOR whose device initialized.  The command
is written to the UART completely or not at all, since `availableForWrite` was
asked first.

### SendPath

A packet is its destination.  `at` is the place of the measurement task in
`Send`, `Update`, `TryGetSendResult` and in `StartNextSend`, which all of them
call; `OnSend` of the WiFi task may run between any two of its steps, in
particular between `esp_now_send` and the removal of the packet from the queue.
`radio` holds what ESP-NOW has accepted and not reported (and never will, once it
is `silent`), `recorded` the outcome
of the last packet, kept or not by the result queue.  `OnSend` may or may not
be told the address; without it, it uses the one in flight.  `Faults` lets
ESP-NOW lose a callback.  `End` (destructor, failed `Begin`) and the peer table
are left out.

### NtpExchange

`now` is the master's 64 bit clock, `now + skew` the node's; packets carry the
low 32 bits (`Low`), of which `TimestampEpoch = 2 * HalfEpoch` stands for 2^32.
Drift of the clocks is left out: the offset is one number for the whole run.
`stage` is how far the exchange with one target is, on both sides; an exchange
succeeds, times out wherever it is, or was never sent.  Matching by session and
sequence number is not part of this module.  `commit` is on its way, arrives at
any time within `MaxDelay`, or is lost.  `HandleResponse`, `FinalizeCurrentTarget`,
`TrySendCommit`, `HandleCommit` and `RebuildTargets` are the functions of these
names; `TryConvertLocalTimeToMaster`, `TryConvertNodeTimeToMaster` and
`CurrentMasterTime` (`TryGetCurrentMasterTime`) are operators over the state.
`Tick` keeps a pending request within its timeout and one task cycle, since
`UpdateMaster` looks at the timeout in every cycle.

### MasterElection and NtpTimeSynchronizer

`MasterElection` is a node's broadcast and its `TagMasterCoordinator`.  `phase`
is how far the coordinator has come (`m_startupElectionWaitMs` is
`"Waiting"`), `sent` the last status a node has broadcast, `table[n]` what is
left of `m_nodes` of `n` after expiry (`SelectCandidate` looks at the age of an
entry, the table itself never drops one), `master` the coordinator's `m_master`.
A node is its MAC address; `NodeIds` lets several have the same id.  `Elect` is
`Update` after the wait, with `SelectCandidate`, `ApplyCandidate` and
`ClearMaster`; it is part of every action that changes a node's table or ends its
startup wait.  Only the last status of a node can still be received, at any time
and any number of times; a node expires when it is off, or, as a disturbance,
while it is on (all its statuses of that time were lost).  A session id is the node
that drew it and a number, since ids are drawn at random; ids that are still
remembered somewhere are not drawn again.

`NtpTimeSynchronizer` EXTENDS it: each step of the election takes
`DetectMasterChange` with it, which runs later in the same cycle.  A clock is the
boot of its node (`boot`), an offset the pair of clocks it was measured between,
so an offset is right or wrong, never inaccurate: accuracy is `NtpExchange`'s
subject.  `targets`, `request`, `reply` and `local` are `m_targets`, the request
under way, `m_pendingResponse` and `m_localSynchronization`.  What is simplified:

* a sender has one packet under way, as `IsSendIdle` makes it wait; a packet may
  be lost, arrive again, or outlive the request or session it belongs to;
* the order in which ready targets are served is left open; the limit of 16
  targets is not modelled; a round trip above the limit counts as a lost packet;
* retry delay and period are only assumed to outlast the exchange they follow
  (`RequestTimesOut`, `RetryDelayPasses`, `PeriodPasses` have no clock).  With
  four or more targets that never answer, their retries may starve a fifth until
  they expire or the targets are rebuilt, 60 s at most; this the model leaves
  out;
* `BootOutlastsExchange`: the wait of 500 ms after a boot outlasts the 3 x 100 ms
  of the exchange with the node that restarted;
* a node finds its new master and `DetectMasterChange` resets the synchronizer
  in one step, since both are in one cycle.

A commit that is lost leaves its node unsynchronized although the master
believes it synchronized, until the next period (30 s) repairs it:
`SynchronizationConverges` says that it is repaired, and no stronger property
holds.

### RangingDisplay

The measurement task's side is `BeginDisplayCycle` (what the rest of a cycle may
do to the display: a status is received, the master changes, the state or the
second of the master's time changes), `PublishMeasurement`, and the steps of
`SequentialRangingDisplay::Update` and `UpdateRangingCycle`.  Both lists are
kept sorted by ANCHOR id in the code, so a function and a set stand for them,
and insertion into a full list is `Lowest`.  A pass of `RunDisplayTask` is one
step, since after `xQueueReceive` it works on its own copy.  `succeeded`,
`failing` and `crowded` are a history of what was published; no guard reads it.
Left out: drawing, the position graph, the screens of a failed initialization,
the diagnostic queue (which only drops).

Three things the code does on purpose or by omission, and that the properties
take as they are: `m_nodes` never drops an entry, so the list of nodes shows the
five lowest MAC addresses ever heard, TAGs included, and an ANCHOR that was
replaced keeps its id ambiguous for the graph; a failing ANCHOR that is pushed
out of a full failure list comes back only with its next failure, even when
places become free (hence `crowded`).

### PreferenceStore

One key of `NvsPreferenceStore`, whose calls never relate two keys.  `view` is
what calls of NVS return, `stored` what survives a loss of power for certain.
A write that was not committed may or may not survive, a call that fails may
have taken effect, reads do not fail while the store is open.  `step` is the
place in `FinishSet`, `Remove` or `Clear`; each `nvs_...` call is an action, and
power may go between any two.  `Set` is any setter, `SaveDefault` and `Load` the
getters of `ConfigPreference` as `ConfigRuntime::Init` calls them in `setup()`.
If the store cannot be opened at all the node runs with the defaults
(`BootWithoutStore`).  `promised` is the history of what was acknowledged last
and asked for since.

## 3. Runs

| run | instance | what it shows |
| --- | --- | --- |
| `token` | master and follower TAG with 2 ANCHORs and 1 round, or 1 ANCHOR and 2 rounds; packets repeated, lost and dropped by queues of 2; rangings that fail to start | the token is never forked, no pair is ranged or published again, a follower publishes nothing its master has not, all TAGs publish the same summary |
| `deadlines` | any subset of 2 ANCHORs per round, 1 TAG, 2 rounds, deadlines at any moment, loss, fairness | rounds that overlap because one was cut short do not mix, nodes of a round use the master's lists, every round and route ends |
| `sessions` | 1 ANCHOR, two TAGs that both open sessions; restarts, lost masters, resynchronization, queues of 1 and 2 | nothing of the old session stays queued; nobody ranges unsynchronized |
| `incomplete_round` | 1 round, loss, no deadline | expected violation, see below |
| `ranging_driver` | 2 TAGs, timeout and drain of 2, answers within 3, a clock of 6, FIFO of 4 | one own result per command, whatever is late; nothing dropped; every command and every drain ends |
| `lost_callback` | 2 destinations, send, callback and result queues of 3, 1, 2; callbacks may be lost | expected violation, see below |
| `task_queues` | the same send path; 3 consumers of which 2 run, a receive queue of 3, 4 arrivals per cycle; 2 ANCHORs, lists of one place, a result per cycle | packets leave in order, one at a time, each with its own outcome, all of them while ESP-NOW reports; nothing owned is discarded and a full receive queue drains; lists and screen follow the results of the current master |
| `network` | TAGs 1 and 2 and an ANCHOR that was given the id 1 too: all three electing, and two of them (TAG 2 and the ANCHOR, or both TAGs) electing and measuring with 2 samples; 1 or 2 disturbances (power, statuses, packets, sends) | one rightful master in the end, everybody with an id of its own synchronized; no offset to a clock that no longer runs; two masters are strangers |
| `time_exchange` | an epoch of 8, 2 samples, timeout and cycle of 1, a node 7 behind or 15 ahead, for 11 units of time | offsets are accurate to half the round trip; node and master convert times as accurately ever after |
| `half_epoch` | the same, clocks 4 apart | expected violation, see below |
| `power_loss` | types u8, u16, float, double; set, remove, clear and boots; power and any call of NVS may fail at any point, without a bound | an acknowledged setting survives, an interrupted one is noticed, a boot keeps and uses what is stored |
| `interrupted_set` | types u8 and bool | expected violation, see below |

Bounds: `RoundBound` stops the master after the last round, `MaxEpoch` limits
the sessions of a TAG; both are guards of the actions that would exceed them,
so the bounded system stops and deadlock is not checked in these runs.  Two
rounds are the smallest number in which one round can disturb the next; two
sessions likewise.  Two ANCHORs are needed for the token and two TAGs for the
order within an ANCHOR and for a follower; runs use both only where their
question needs it.  The capacities of the code (4, 80, 16) are never reached in
small instances, so `token` and `sessions` have queues that do overflow, while
`deadlines` keeps the code's.  The scenarios of `token` are chosen once, in the
initial state (`MCRangingToken`).  One session per TAG is enough in
`sessions` because the nodes change between the sessions of two TAGs and back.
That a node may follow an earlier session of a restarted TAG needs two sessions
of it: this was also explored with TLC (`sessions` with one master TAG), and is
covered by the theorems, which hold for every `MaxEpoch`.

Fairness (`FairSpec`): the measurement task calls every step again and again;
the driver answers or times out and later ends its drain; time passes, so a
round that stays open meets its deadline.  Nothing is assumed about the radio.
Driver: `Update` is called in every cycle and returns, time passes, and what the
device owes it says or loses (it need not answer).  The caller need not take a
result.  Send path: the task calls `Update` again and again, although it may
call `Send` in between (hence strong fairness of `Update`), and ESP-NOW reports
or loses.  Nothing is assumed about which of them.

In the driver's instance answers may arrive before the timeout, with it, and
until the last moment of the drain; the clock wraps within a ranging.  All times
are small numbers because only their order matters.  In `task_queues` a callback
queue of one is enough (the code has 4), which is itself part of what
`NoCallbackDropped` says; result and send queues overflow.

`time_exchange` covers an exchange in which either clock wraps, and more than one
epoch after it; the skews are more than half an epoch and more than one epoch,
so neither clock's 64 bit time can be taken for the other's.  A response may be
late enough to be rejected.  The arithmetic is
proved for all sizes, so the small epoch loses nothing.

In `task_queues` the three parts share no variable, so nothing would be gained
by interleaving them: each behaviour runs one and leaves the others as they
began (`side`).  Properties of all three are therefore checked on their own
behaviours.  Lists of one place for two ANCHORs overflow as 5 do for 6; the
display part was also explored with three ANCHORs, lists of two and two nodes,
for its invariants.  Nothing is assumed of the display task but that it comes
around again, nor of the caller.

`network` has few disturbances, and each counts: a loss of power, a node that is
not heard although it is on, a packet that is lost or comes again, a send that
fails, a timeout while the answer is on its way.  Statuses may be late or lost
(overtaken by the next one) without limit.  Five
session ids per node are enough that one is free whenever it is drawn.
Fairness is weaker than one condition per node: while a status has news for
somebody, some node takes a step of the election; while some exchange can go on,
some exchange goes on; and the period passes again and again.  Each task cycle
is endless and on a core of its own, so every node does more than that.
Deadlock is not checked: when nobody has news the modelled system rests.

`power_loss` needs no bound: a setting has few values and power may go for ever.
Float and double share the NVS type and are told apart by their length, which is
why they are in it; u8 and bool are not told apart by anything (below).

`AtMostOneRanging` is checked without deadlines: the deadline of the model can
pass at any moment, also while an ANCHOR still ranges, and then the next round's
first ANCHOR may join it.  Whether the real budget (300 ms per pair and 50 ms
per hop) excludes this depends on time, which this module leaves out.

### Divergences from the documentation

`docs/sequential-ranging-time-sync.md:693` says that a round is closed when
everything was received or at the round timeout.  In the code the master also
closes it when the last ANCHOR's `RangeRoundComplete` arrives
(`SequentialRangingController.cpp:568`), whatever was lost before.  Run
`incomplete_round` shows it with one lost measurement.  The summary counts what
was received.

The table of timeouts, `docs/sequential-ranging-time-sync.md:1052`, gives the
wait for the completion of an ESP-NOW send 50 ms.  `StartNextSend`
(`EspNowTransport.cpp:364`) waits for the callback without bound, and nothing
else clears `m_sendInFlight`.  Run `lost_callback` shows it with one callback
that does not come.

`docs/sequential-ranging-time-sync.md:380` says that the offset is computed in
signed 64 bit with regard to the 32 bit wrap.  `CalculateSample` reduces both
one-way differences to 32 bits before it adds them
(`NtpTimeSynchronizer.cpp:252`).  Between clocks that are 2^31 us (35.8 minutes,
or an odd multiple of it) apart, give or take the delays of an exchange, one of
the two wraps and the other does not; the offset is then wrong by half a period
although the round trip is short.  Run `half_epoch` shows it; a later sample
whose differences wrap alike is correct again.  For all other clocks
`SamplesAreAccurate` proves that it cannot happen (`SkewsFarFromHalf`).

`docs/preferences-commands.md:84` says that a set which is cut off in the middle
is detected by the next read, as missing or mismatching type information.
`FinishSet` (`NvsPreferenceStore.cpp:793`) writes the value, then the type, into
two namespaces; the read compares the type with the NVS type of the value, which
is the same for `bool` and `u8`.  Run `interrupted_set`: after `set u8`, a
`set bool` that loses power in between leaves the new value to be read as `u8`
without an error.  `InterruptionsAreNoticed` proves that it cannot happen among
types that NVS tells apart (`DistinctTypes`).

## 4. Proofs

`SequentialRanging_proofs` proves for all values of the constants:

* `InvariantHolds`: `IInv` is an invariant.  It says that the state is well
  typed, that every packet in a queue is honest (a measurement carries the job
  it was ranged for), that an ANCHOR in `AnchorRanging` is synchronized and at
  a place of its route, and that if it has started its ranging, the driver's job
  and an untaken result are the ones of that place.
* `TypeCorrect`, `NoStaleMeasurement`: consequences of `IInv`.
* `RangesWhenSynchronized`: the action property of section 14 of the document.
* `NothingQueuedForOldSession`: `QueuedForCurrentSession`.  Next to `IInv` it needs
  that both outgoing queues are sequences of packets of the node's own session
  (`QueuesAreOwn`); each operator that queues is shown to keep that, and only
  `DetectMasterChange` and a restart change the session, emptying both queues.
* `NodesAgreeOnRoute`: `RouteAgreement`, under every fault.
* `PublishedSummariesAgree`: `SummariesAgree`, under every fault.
* `FollowersPublishAfterMaster`: `FollowersTrailMaster`, under every fault.
* `PublishedRoundsAdvance`: the action property `RoundsAdvance`, under every
  fault.
* `AnchorsRangeOnwards`: the action property `RangingAdvances`, if one TAG at
  most is ever elected (`OneMaster`) and no node loses its master.
* `OneAnchorRanges`: `AtMostOneRanging`, if one TAG at most is ever elected and
  there are no round deadlines, restarts or lost masters.  Loss, duplication,
  resynchronization, driver timeouts and failed starts are all allowed.
* `PairsArePublishedOnce`: `PublishedOnce`, under every fault but one
  combination: where packets may be duplicated, one TAG at most is ever elected
  and no node loses its master (`RepeatsAreRemembered`).

Why the strengthening: `MeasurementsFromTheirRound` speaks of packets, but
whether a packet is honest is decided when `UpdateAnchor` builds it from the
driver's result, so the invariant must tie result, driver and route together;
and that tie is only there while `started` is set, which is why the code's
`m_anchorRangingStarted = false` in `HandleControl` matters.  The proof has one
lemma per action and lemmas about the operators (queues, sequence numbers,
packet constructors) that build the new controller.

Why the nodes agree (`RangingAgreement`): an invariant about two nodes is not
inductive, because what the second one will say of the round is still on its
way.  So each invariant is stated over everything that says something of a
round: controllers, both outgoing queues, receive queues and histories.
`OneRoutePerRound` says it of routes and `OneSummaryPerRound` of summaries; what
is said is never of a round its master has yet to open (`Opened`), or to close
(`Closed`), so what a master says first is new.  `MasterPublishedFirst` says it
of pairs.  Published rounds advance because a master's messages leave and arrive
in the order of their rounds (`TrafficInOrder`), also when lost or duplicated,
and what was published is not ahead of them (`HistoryBehindTraffic`).  For these
proofs an action is taken as one of a few step kinds (it reports a result, hands
a route over, leads or follows a round, sends, resets, ...); one lemma per
action establishes its kind, and each invariant is then shown to survive every
kind.  Of the election they need only that a TAG draws a new session id whenever
it becomes master.

Why one ANCHOR ranges (`RangingToken`): the right to range is a token.  It is a
`RangeControl` that its ANCHOR may still take, or an ANCHOR on its route; there
is one at most (`OneToken`), it belongs to the round its master runs
(`TokenIsOfRunningRound`), and it is gone once the last ANCHOR's last result or
completion is on its way (`EndedRouteHasNoToken`), which is what lets the master
open the next round.  A duplicated control is no second token because its ANCHOR
remembers the first.  The driver only works for the holder (`OnlyHoldersRange`).
The hypotheses are those of run `token`.  None can be dropped: as soon as one of
deadlines, restarts with a second epoch, lost masters with duplication, or a
second master is allowed, TLC finds two ANCHORs that range at a time.

Why no pair is published twice (`RangingForwards`): a master takes a result only
of a place it has not received, it has received whatever it has published of the
round it runs (`PublishedIsReceived`), and the ids of a route are distinct, so
what it takes is new to it.  By `MasterPublishedFirst` it is then new to everybody,
so the forward that is queued for it has no twin in flight (`ForwardsAreTwins`)
and has been neither received nor published by the follower (`QueuedOnce`).  A
follower that has published it refuses it from then on, because it is of an
earlier session or round, or of a place already received (`ForwardsAreNew`).  That
memory is cleared when a node leaves the session; without duplication nothing is
left then that could be published again, and an emptied receive queue leaves
nothing either.  With duplication and a lost master (one TAG elected, no other
fault) TLC finds a follower that publishes a pair, loses its master, comes back
to the session and publishes the second copy; hence the hypothesis.

Why an ANCHOR does not range a pair again: its last job is behind it on its
route, or in progress there (`JobsAreInOrder`); it remembers the last control it
took and the route of it, on which all agree (`AnchorsRemember`); and the ids on
a route ascend (`RoutesAreSnapshots`).  Deadlines and restarts do no harm here.
An ANCHOR that leaves a session and comes back to it has forgotten its control:
with a lost master, or a second one, and a duplicated control TLC finds a pair
that is ranged again.

`ReceiveQueue_proofs` proves `InvariantHolds`, `TerminatorIsSafe` and
`CyclesProgress`.  The strengthening there is that the counter cannot come
around within a cycle (`ConsumedBound`, which rests on
`Capacity + MaxArrivalsPerCycle < CountModulus`), and that while the counter has
not moved every consumer so far has refused the head (`HeadWasRefused`).

`Ryuw122Controller_proofs` proves `InvariantHolds`, `ReadyIsSilent` and
`ImplementsService`, the refinement of `RangingService` step by step.  The
strengthening there: the device works on at most one command (`OneCommand`) and
its answer is its last word (`AnswerIsLast`); the time that an answer may still
take fits into what is left of timeout and drain although the clock wraps
(`AnswersInTime`, which rests on `AnswerTime < Timeout + DrainTime` and on the
clock being wider than a timeout plus a cycle); so the driver is ready only when
the device is done (`DriverState`), and nothing about another command is on its
way (`OwnOnly`).

`NoLineIsDropped` adds that the response FIFO of four never overflows (two
places are enough): between two calls of `Update` the device says at most an
acknowledgement and an answer (`TalkIsShort`, part of `IInv`).

`SendPath_proofs` proves `InvariantHolds`, `AtMostOneInFlight`,
`CallbacksHaveRoom` and `ImplementsService`, lost callbacks included.  The
strengthening says what `StartNextSend` has done of its three writes at each of
its places (`FlightState`).

`NtpExchange_proofs` proves `InvariantHolds`, `SamplesAreAccurate`, `NodeKnows`
and `MasterKnows` under `SkewsFarFromHalf`.  It begins with lemmas about 32 bit
times for an arbitrary epoch: `ModuloDifferenceExact` (a signed difference that
fits is exact), `ExtendExact` (a time less than half an epoch from the reference
is recovered), `ConversionOfLow` (what an offset does to a 32 bit time).  From
them `SampleAccurate` follows for any four moments in order.  The strengthening:
the timestamps of a pending exchange are those of moments in this order
(`StampsOfMoments`), both clocks have run at least as long as a round trip, so
that no conversion goes below zero (`Measured`), and the node's anchor is off by
exactly the error of its offset (`LocalMeasured`), which is why that error does
not grow with the age of the commit.  `2 * ResponseTimeout + CycleTime <
HalfEpoch` is what the extension of a commit's time needs.

`MasterElection_proofs` proves `ElectionInvariant`: a node that has a master
would elect it again from what it knows (`WouldElectAgain`), so a master is never
kept on evidence that is gone; the lemmas say what one change of one table does
to the selection.  `SynchronizerImplementsElection` shows that the synchronizer,
step by step, is a behaviour of the election, so that `ElectionInvariant` and
`MastersAreStrangers` hold of the two together.  `TwoMastersAreStrangers` follows
from the invariant because the selection takes the lowest unambiguous id.
`ClocksAgree` proves `SynchronizedClocksAgree`: a node that is synchronized holds
the time base of its master's present session, although requests, responses and
commits of earlier sessions and boots may still arrive.  The strengthening
(`TimeInv` of `TimeAgreement`) follows a time from the moment it is measured: a
synchronizing node's own times are those of its present exchange, times belong to
the boot that measured them, and a commit on its way that its target would still
take is of the master's present session.  It needs that a node is not back from a
restart before the answers to the boot before have expired
(`BootOutlastsExchange`).

`RangingDisplay_proofs` proves `DisplayInvariant`, `ListsAreCurrent` and
`NoChangeIsLost` for any number of ANCHORs, nodes and places.  The strengthening:
the lists are what the history says (`HistoryInv`), for which lemmas state how
`Lowest` of a set changes when an id is added or taken out; and what is still to
be shown differs from the model only while something will publish it
(`PublishedInv`).

`PreferenceStore_proofs` proves `StoreInvariant`, `AcknowledgedCommandSurvives`,
`InterruptionsAreNoticed` (for `DistinctTypes`), `BootKeepsWhatIsStored` and
`BootUsesWhatIsStored`.  The strengthening: each namespace, in NVS and as it is
read, holds a part of a setting that is promised (`PartsArePromised`), and the
command in progress has written its target so far (`Written`).

Assumptions are those of the modules (the operators named `...Assumption`); TLC
evaluates them in every run.

The inductive invariants named above were checked with TLC on instances like
those of section 3, with each fault in turn, before they were proved.

Only model-checked: the liveness properties `RoundTerminates`,
`RouteTerminates`, `EveryCommandEnds`, `AllSent`, `FullQueueDrains`,
`DisplayCatchesUp`, `ElectionConverges` and `SynchronizationConverges` (liveness
under fairness is out of the prover's reach).

## 5. Not modelled, and what is left

* Time between nodes: whether the deadline of a round leaves every ANCHOR the
  time for its timeouts and drains (`SequentialRangingController.cpp:732`).  It
  would take all nodes' task cycles, hops and drivers in one clock.
* The peer table of ESP-NOW: what happens to the head of the outbound queue when
  a peer cannot be added (`SequentialRangingController.cpp:1010`,
  `EspNowTransport.cpp:359`) depends on code outside the repository.
* The packet codecs: nodes of one firmware decode what they encode; the models
  exchange records.  `Ryuw122ResponseParser` is modelled by the three kinds of
  lines it yields.
* `Ryuw122Initializer`: runs once, alone, before the tasks exist.
* The position fit (floating point), the graph, drawing, texts, the parsing of
  shell lines, and vendored code (`src/lib`).
* `End` of transport, store and task controller: no code path of the program
  reaches them after a successful start.

Next would be: an abstract specification of rounds, implemented by
`SequentialRanging`.
