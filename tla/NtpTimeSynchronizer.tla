-------------------------- MODULE NtpTimeSynchronizer --------------------------
(***************************************************************************)
(* Time synchronization over a network whose master may change             *)
(* (src/NtpTimeSynchronizer.cpp on top of src/TagMasterCoordinator.cpp).   *)
(*                                                                         *)
(* The master takes samples of the clock of one node after the other,      *)
(* commits the best to the node, and repeats this periodically; a node     *)
(* answers requests and keeps the last commit.  A change of the master     *)
(* resets both sides.  NtpExchange has the arithmetic of one exchange;     *)
(* here a clock is the boot of the node that runs it, and an offset the    *)
(* pair of clocks it was measured between, so that an offset is right as   *)
(* long as both nodes stay up.                                             *)
(*                                                                         *)
(* Update is cut into steps: the election with DetectMasterChange, one     *)
(* received packet, TrySendPendingResponse and UpdateMaster.  A sender has *)
(* one packet under way; until it is received IsSendIdle is false.         *)
(***************************************************************************)
EXTENDS MasterElection, FiniteSetsExt

CONSTANTS
    SampleCount,    \* m_sampleCountPerNode
    Measuring,      \* bound: the networks whose clocks are measured
    Nothing         \* no packet, request, reply or synchronization

ASSUME SynchronizerAssumption ==
    /\ SampleCount \in Nat \ {0}
    /\ Measuring \subseteq Networks

VARIABLES
    boot,       \* [Nodes -> how often it has started: its clock]
    air,        \* [Nodes -> the packet a node has under way]
    targets,    \* [Nodes -> m_targets of a master, by node]
    request,    \* [Nodes -> the request a master awaits a response to]
    complete,   \* [Nodes -> m_synchronizationComplete]
    due,        \* [Nodes -> the periodic resynchronization interval is over]
    reply,      \* [Nodes -> m_pendingResponse]
    local       \* [Nodes -> m_localSynchronization]

masterVars == <<targets, request, complete, due>>
nodeVars == <<reply, local>>
synchronizerVars == <<boot, air, masterVars, nodeVars>>
vars == <<electionVars, synchronizerVars>>

(* The offset between the clocks of a master and a node.                   *)
Offset(m, n) == [master |-> boot[m], node |-> boot[n]]

IsSendIdle(n) == air[n] = Nothing
IsFollower(n) == master[n] # NoMaster /\ ~IsSelfMaster(n)

-----------------------------------------------------------------------------
(* Targets of a master.                                                    *)

NoTargets == [m \in Nodes |-> Nothing]
NewTarget(nodeId) ==
    [id |-> nodeId, attempts |-> 0, samples |-> {}, result |-> Nothing,
     state |-> "Sampling"]
Tracked(known) == {m \in Nodes : known[m] # Nothing}

(* DiscoverNewTargets: nodes heard of lately whose id is theirs alone, and *)
(* not that of a target.                                                   *)
DiscoverNewTargets(n, nodes, known) ==
    [m \in Nodes |->
        IF /\ known[m] = Nothing
           /\ m \in Seen(n, nodes) \ {n} /\ IsUnique(n, nodes, m)
           /\ \A other \in Tracked(known) : known[other].id # nodes[m].id
        THEN NewTarget(nodes[m].id) ELSE known[m]]

(* RebuildTargets: the nodes still heard of are measured again; what is    *)
(* known of them stays.                                                    *)
RebuildTargets(n, known) ==
    [m \in Nodes |->
        LET new == DiscoverNewTargets(n, table[n], NoTargets)[m]
        IN  IF new # Nothing /\ known[m] # Nothing /\ known[m].id = new.id
            THEN [new EXCEPT !.result = known[m].result] ELSE new]

CurrentTargets(n) ==
    DiscoverNewTargets(n, table[n],
        IF due[n] THEN RebuildTargets(n, targets[n]) ELSE targets[n])

InState(known, states) == {m \in Tracked(known) : known[m].state \in states}
Ready(known) == InState(known, {"Sampling", "Committing"})

(* TrySelectTarget finds no target that is not completed.                  *)
BuggyIsComplete(known) ==       \* a master that is alone never finishes
    Tracked(known) # {} /\ Tracked(known) = InState(known, {"Completed"})
IsComplete(known) == Tracked(known) = InState(known, {"Completed"})

-----------------------------------------------------------------------------
(* DetectMasterChange in the cycle that has just elected: whoever has got  *)
(* another master forgets everything.  (A new master discovers its targets *)
(* here and, in the same cycle, in UpdateMaster.)                          *)
Reset(old, new) == [n \in Nodes |-> IF master'[n] = master[n] THEN old[n] ELSE new]
DetectMasterChange ==
    /\ targets' = Reset(targets, NoTargets)
    /\ request' = Reset(request, Nothing)
    /\ complete' = Reset(complete, FALSE)
    /\ due' = Reset(due, FALSE)
    /\ reply' = Reset(reply, Nothing)
    /\ local' = Reset(local, Nothing)
    /\ UNCHANGED air

-----------------------------------------------------------------------------
(* Packets.  NextSequence counts; a number is free again when no packet    *)
(* under way or kept carries it.                                           *)
Carried(holders) == {holders[m].sequence : m \in {m \in Nodes : holders[m] # Nothing}}
IsNextSequence(s) ==
    LET free == (0..2 * Cardinality(Nodes)) \ (Carried(air) \cup Carried(reply))
    IN  s = Min(free)

Packet(type, to, nodeId, sequence, content) ==
    [type |-> type, to |-> to, id |-> nodeId, sequence |-> sequence,
     content |-> content]

(* The conditions HandleRequest, HandleResponse and HandleCommit share.    *)
BuggyIsFromMaster(n, m, packet) ==  \* whatever session the packet belongs to
    IsFollower(n) /\ master[n].node = m /\ packet.id = id[n]
IsFromMaster(n, m, packet) ==
    /\ IsFollower(n)
    /\ master[n].node = m /\ packet.content.session = master[n].session
    /\ packet.id = id[n]

HandleRequest(n, m, packet) ==
    /\ IF IsFromMaster(n, m, packet) /\ reply[n] = Nothing
       THEN reply' = [reply EXCEPT ![n] =
               [to |-> m, sequence |-> packet.sequence,
                content |-> [session |-> packet.content.session,
                             t1 |-> packet.content.t1, t2 |-> boot[n]]]]
       ELSE UNCHANGED reply
    /\ UNCHANGED <<masterVars, local>>

(* A response whose round trip CalculateSample refuses counts as lost.     *)
IsAwaited(n, m, packet) ==
    /\ IsSelfMaster(n) /\ request[n] # Nothing
    /\ packet.content.session = master[n].session
    /\ request[n].node = m /\ request[n].id = packet.id
    /\ request[n].sequence = packet.sequence /\ request[n].t1 = packet.content.t1
HandleResponse(n, m, packet) ==
    /\ IF IsAwaited(n, m, packet)
       THEN /\ request' = [request EXCEPT ![n] = Nothing]
            /\ targets' = [targets EXCEPT ![n][m].samples = @ \cup
                   {[master |-> packet.content.t1, node |-> packet.content.t2]}]
       ELSE UNCHANGED <<request, targets>>
    /\ UNCHANGED <<complete, due, nodeVars>>

HandleCommit(n, m, packet) ==
    /\ local' = IF IsFromMaster(n, m, packet)
                THEN [local EXCEPT ![n] = packet.content.offset] ELSE local
    /\ UNCHANGED <<masterVars, reply>>

-----------------------------------------------------------------------------
(* UpdateMaster for a target m that is neither done nor waiting; the code  *)
(* takes the first, here it may be any.                                    *)

TrySendRequest(n, m, target) ==
    /\ target.state = "Sampling" /\ target.attempts < SampleCount
    /\ IsSendIdle(n)
    /\ \/ \E s \in 0..2 * Cardinality(Nodes) :
             /\ IsNextSequence(s)
             /\ air' = [air EXCEPT ![n] = Packet("Request", m, target.id, s,
                    [session |-> master[n].session, t1 |-> boot[n]])]
             /\ request' = [request EXCEPT ![n] =
                    [node |-> m, id |-> target.id, sequence |-> s, t1 |-> boot[n]]]
             /\ UNDISTURBED
       \/ UNCHANGED <<air, request>> /\ Disturb     \* AddPeer or Send fails
    /\ targets' = [targets EXCEPT ![n][m] = [target EXCEPT !.attempts = @ + 1]]

FinalizeCurrentTarget(n, m, target) ==
    /\ target.state = "Sampling" /\ target.attempts >= SampleCount
    /\ \/ \E sample \in target.samples :        \* the quickest
             targets' = [targets EXCEPT ![n][m] =
                 [target EXCEPT !.result = sample, !.state = "Committing"]]
       \/ /\ target.samples = {}
          /\ targets' = [targets EXCEPT ![n][m] =
                 [target EXCEPT !.attempts = 0, !.state = "Waiting"]]
    /\ UNCHANGED <<air, request>> /\ UNDISTURBED

TrySendCommit(n, m, target) ==
    /\ target.state = "Committing"
    /\ IsSendIdle(n)
    /\ air' = [air EXCEPT ![n] = Packet("Commit", m, target.id, 0,
           [session |-> master[n].session, offset |-> target.result])]
    /\ targets' = [targets EXCEPT ![n][m] =
           [target EXCEPT !.attempts = 0, !.samples = {}, !.state = "Completed"]]
    /\ UNCHANGED request /\ UNDISTURBED

UpdateMaster(n) ==
    /\ IsSelfMaster(n) /\ request[n] = Nothing
    /\ \E known \in {CurrentTargets(n)} :
          /\ complete' = [complete EXCEPT ![n] = IsComplete(known)]
          /\ \/ \E m \in Ready(known) :
                   \/ TrySendRequest(n, m, known[m])
                   \/ FinalizeCurrentTarget(n, m, known[m])
                   \/ TrySendCommit(n, m, known[m])
             \/ /\ Ready(known) = {} \/ ~IsSendIdle(n)
                /\ targets' = [targets EXCEPT ![n] = known]
                /\ UNCHANGED <<air, request>> /\ UNDISTURBED
    /\ due' = [due EXCEPT ![n] = FALSE]
    /\ UNCHANGED nodeVars

-----------------------------------------------------------------------------
TrySendPendingResponse(n) ==
    /\ IsFollower(n) /\ reply[n] # Nothing
    /\ IsSendIdle(n)
    /\ air' = [air EXCEPT ![n] =
           Packet("Response", reply[n].to, id[n], reply[n].sequence, reply[n].content)]
    /\ reply' = [reply EXCEPT ![n] = Nothing]
    /\ UNCHANGED <<masterVars, local>> /\ UNDISTURBED

(* ProcessReceivedPackets takes the packet of m, which may come again.     *)
ProcessReceivedPacket(m) ==
    /\ air[m] # Nothing
    /\ LET packet == air[m]
           n == packet.to
       IN  \/ /\ packet.type = "Request" /\ HandleRequest(n, m, packet)
           \/ /\ packet.type = "Response" /\ HandleResponse(n, m, packet)
           \/ /\ packet.type = "Commit" /\ HandleCommit(n, m, packet)
    /\ \/ air' = [air EXCEPT ![m] = Nothing] /\ UNDISTURBED
       \/ UNCHANGED air /\ Disturb

LosePacket(m) ==
    /\ air[m] # Nothing /\ Disturb
    /\ air' = [air EXCEPT ![m] = Nothing]
    /\ UNCHANGED <<masterVars, nodeVars>>

(* m_responseTimeoutUs without a response, or before a late one.           *)
IsUnderWay(n) ==
    \/ air[n] # Nothing
    \/ LET m == request[n].node IN air[m] # Nothing \/ reply[m] # Nothing
RequestTimesOut(n) ==
    /\ request[n] # Nothing
    /\ request' = [request EXCEPT ![n] = Nothing]
    /\ IF IsUnderWay(n) THEN Disturb ELSE UNDISTURBED
    /\ UNCHANGED <<air, targets, complete, due, nodeVars>>

(* FailedTargetRetryDelayUs is longer than the exchanges with the other    *)
(* targets, as is PeriodicResynchronizationIntervalUs.                     *)
RetryDelayPasses(n) ==
    /\ Ready(targets[n]) = {}
    /\ \E m \in InState(targets[n], {"Waiting"}) :
          targets' = [targets EXCEPT ![n][m].state = "Sampling"]
    /\ UNCHANGED <<air, request, complete, due, nodeVars>> /\ UNDISTURBED

PeriodPasses(n) ==
    /\ IsSelfMaster(n) /\ ~due[n]
    /\ Ready(targets[n]) = {}
    /\ complete[n] \/ InState(targets[n], {"Waiting"}) # {}
    /\ due' = [due EXCEPT ![n] = TRUE]
    /\ UNCHANGED <<air, targets, request, complete, nodeVars>> /\ UNDISTURBED
-----------------------------------------------------------------------------
Init ==
    /\ InitElection
    /\ boot = [n \in Nodes |-> 0]
    /\ air = [n \in Nodes |-> Nothing]
    /\ targets = [n \in Nodes |-> NoTargets]
    /\ request = [n \in Nodes |-> Nothing]
    /\ complete = [n \in Nodes |-> FALSE]
    /\ due = [n \in Nodes |-> FALSE]
    /\ reply = [n \in Nodes |-> Nothing]
    /\ local = [n \in Nodes |-> Nothing]

(* m_startupElectionWaitMs outlasts the exchange (3 x m_responseTimeoutUs) *)
(* that was going on when n restarted: nothing on its way to n, from n or  *)
(* to be committed to n has a time of the clock before.                    *)
BootOutlastsExchange(n) ==
    /\ \A m \in Nodes : air[m] # Nothing =>
          /\ (air[m].type = "Commit" /\ air[m].to = n) => air[m].content.offset.node = boot[n]
          /\ (air[m].type = "Response" /\ m = n) => air[m].content.t2 = boot[n]
    /\ \A m \in {m \in Nodes : n \in Tracked(targets[m])} :
          /\ \A sample \in targets[m][n].samples : sample.node = boot[n]
          /\ targets[m][n].state = "Committing" => targets[m][n].result.node = boot[n]

(* A session id under way in a packet is not drawn again either, and of    *)
(* the ids that may be drawn one stands for all.                           *)
DrawsFreshSession(n) ==
    LET drawn == master'[n].session
        carried == {air[m].content.session : m \in {m \in Nodes : air[m] # Nothing}}
        drawable == FreshSessions(n) \ carried
    IN  (IsSelfMaster(n)' /\ ~IsSelfMaster(n)) =>
            drawn \in drawable /\ \A s \in drawable : drawn[2] <= s[2]

(* A step of the election, with the synchronizer's DetectMasterChange in   *)
(* the same cycle, and a step of the synchronizer alone.                   *)
Electing(n, step) ==
    step /\ DrawsFreshSession(n) /\ DetectMasterChange /\ UNCHANGED boot
Exchanging(step) ==
    /\ Network \in Measuring
    /\ step /\ UNCHANGED <<phase, id, sent, table, master, boot>>

Announces(n) == SendNodeStatus(n) \/ (BootOutlastsExchange(n) /\ StartElection(n))
Forgets(n, m) == ~IsOn(m) /\ NodeExpires(n, m)
Hears(n, m) == HandleNodeStatus(n, m) \/ Forgets(n, m)
TimePasses(n) == RequestTimesOut(n) \/ RetryDelayPasses(n) \/ PeriodPasses(n)

Restart(n) ==
    /\ \E nodeId \in NodeIds[n] : Boot(n, nodeId)
    /\ boot' = [boot EXCEPT ![n] = @ + 1]
    /\ DetectMasterChange

Next ==
    \E n \in Nodes :
        \/ Electing(n, Announces(n))
        \/ \E m \in Nodes : Electing(n, Hears(n, m) \/ NodeExpires(n, m))
        \/ Electing(n, PowerOff(n))
        \/ Restart(n)
        \/ Exchanging(UpdateMaster(n) \/ TrySendPendingResponse(n))
        \/ Exchanging(ProcessReceivedPacket(n) \/ LosePacket(n))
        \/ Exchanging(TimePasses(n))

(* Every node performs its cycles for ever and hears and receives what is  *)
(* not lost; all that is needed of this is that the election goes on while *)
(* a status has news for somebody, and the exchanges while they can.       *)
Fairness ==
    /\ WF_vars(\E n \in Nodes :
           Electing(n, Announces(n) \/ \E m \in Nodes : Hears(n, m)))
    /\ WF_vars(UNDISTURBED /\ \E n \in Nodes : Exchanging(
           \/ UpdateMaster(n) \/ TrySendPendingResponse(n)
           \/ ProcessReceivedPacket(n) \/ TimePasses(n)))
    /\ SF_vars(\E n \in Nodes : Exchanging(PeriodPasses(n)))

Spec == Init /\ [][Next]_vars /\ Fairness

-----------------------------------------------------------------------------
(* A node that is synchronized with the session it follows holds the       *)
(* offset between the clocks that run now, and the master, if it knows any *)
(* for that node, the same.                                                *)
SynchronizedClocksAgree ==
    \A n \in Nodes : (IsFollower(n) /\ local[n] # Nothing) =>
        LET m == master[n].node
        IN  (IsSelfMaster(m) /\ master[m].session = master[n].session) =>
                /\ local[n] = Offset(m, n)
                /\ n \in Tracked(targets[m]) =>
                      targets[m][n].result \in {Nothing, local[n]}

(* Once disturbances stop, every node with an id of its own is            *)
(* synchronized with the master it follows for good (lost commits are      *)
(* repaired by the next period), and the master finishes again and again.  *)
Synchronized ==
    \A n \in Nodes :
        (IsFollower(n) /\ \A m \in Nodes \ {n} : IsOn(m) => id[m] # id[n])
            => local[n] # Nothing
MasterFinished == \A n \in Nodes : IsSelfMaster(n) => complete[n]
SynchronizationConverges ==
    /\ <>[](Network \in Measuring => Synchronized)
    /\ []<>(Network \in Measuring => MasterFinished)
=============================================================================
