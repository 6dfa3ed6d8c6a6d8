------------------------ MODULE MasterElection_proofs ------------------------
(***************************************************************************)
(* Proofs about MasterElection for every network and every fault bound,    *)
(* and that NtpTimeSynchronizer, which adds the exchanges, still performs  *)
(* that election.                                                          *)
(***************************************************************************)
EXTENDS TimeAgreement, TLAPS

(* What the initial state satisfies.                                       *)
LEMMA ElectionInit ==
    ASSUME ElectionAssumption, InitElection
    PROVE  ElectionInv
<1>1. ElectionTypeOK
  <2>1. PICK network \in Networks :
            phase = [n \in Nodes |-> IF n \in network THEN "Off" ELSE "Absent"]
    BY DEF InitElection
  <2>2. Network = network
    <3>1. network \subseteq Nodes
      BY DEF ElectionAssumption
    <3>2. \A n \in Nodes : phase[n] # "Absent" <=> n \in network
      BY <2>1
    <3> QED
      BY <3>1, <3>2 DEF Network
  <2>3. phase \in [Nodes -> Phases]
    BY <2>1 DEF Phases
  <2> QED
    BY <2>2, <2>3, SMT DEF InitElection, ElectionTypeOK, ElectionAssumption
<1>2. MasterIsElected
  BY DEF InitElection, MasterIsElected
<1> QED
  BY <1>1, <1>2 DEF ElectionInv

(* The outcome of an election is the node that was selected.               *)
LEMMA ElectOutcome ==
    ASSUME ElectionAssumption, ElectionInv,
           NEW n \in Nodes, NEW nodes \in [Nodes -> Status \cup {NotSeen}],
           Elect(n, nodes)
    PROVE  \/ master' = master /\ IsSelfMaster(n) /\ IsSelected(n, nodes, n)
           \/ \E new \in Masters \cup {NoMaster} :
                 /\ master' = [master EXCEPT ![n] = new]
                 /\ new # NoMaster =>
                       /\ IsSelected(n, nodes, new.node)
                       /\ IF new.node = n THEN new.id = id[n]
                          ELSE /\ new.id = nodes[new.node].id
                               /\ new.session = nodes[new.node].session
<1>1. CASE IsSelected(n, nodes, n) /\ ElectSelf(n)
  <2>1. CASE IsSelfMaster(n)
    BY <1>1, <2>1 DEF ElectSelf
  <2>2. CASE ~IsSelfMaster(n)
    <3>1. PICK session \in FreshSessions(n) :
              master' = [master EXCEPT ![n] =
                  [node |-> n, id |-> id[n], session |-> session]]
      BY <1>1, <2>2 DEF ElectSelf, Identity
    <3>2. [node |-> n, id |-> id[n], session |-> session] \in Masters
      BY <3>1 DEF FreshSessions, Masters, Sessions, ElectionInv, ElectionTypeOK
    <3> DEFINE new == [node |-> n, id |-> id[n], session |-> session]
    <3>3. /\ master' = [master EXCEPT ![n] = new]
          /\ IsSelected(n, nodes, new.node) /\ new.node = n /\ new.id = id[n]
      BY <1>1, <3>1
    <3> HIDE DEF new
    <3>4. new \in Masters \cup {NoMaster}
      BY <3>2 DEF new
    <3> QED
      BY <3>3, <3>4
  <2> QED
    BY <2>1, <2>2
<1>2. ASSUME NEW m \in Nodes \ {n}, IsSelected(n, nodes, m), Follow(n, m, nodes[m])
      PROVE  \E new \in Masters \cup {NoMaster} :
                 /\ master' = [master EXCEPT ![n] = new]
                 /\ new # NoMaster =>
                       /\ IsSelected(n, nodes, new.node)
                       /\ IF new.node = n THEN new.id = id[n]
                          ELSE /\ new.id = nodes[new.node].id
                               /\ new.session = nodes[new.node].session
  <2>1. nodes[m] \in Status
    BY <1>2 DEF IsSelected, Candidates, Seen
  <2>2. CASE nodes[m].session # NoSession
    <3>1. Identity(m, nodes[m]) \in Masters
      BY <2>1, <2>2 DEF Identity, Masters, Status
    <3> DEFINE new == Identity(m, nodes[m])
    <3>2. /\ master' = [master EXCEPT ![n] = new]
          /\ new.node = m /\ new.id = nodes[m].id /\ new.session = nodes[m].session
      BY <1>2, <2>2 DEF Follow, Identity
    <3> HIDE DEF new
    <3>3. new \in Masters \cup {NoMaster}
      BY <3>1 DEF new
    <3> QED
      BY <1>2, <3>2, <3>3
  <2>3. CASE nodes[m].session = NoSession
    BY <1>2, <2>3 DEF Follow
  <2> QED
    BY <2>2, <2>3
<1>3. CASE Candidates(n, nodes) = {} /\ ClearMaster(n)
  BY <1>3 DEF ClearMaster
<1> QED
  BY <1>1, <1>2, <1>3 DEF Elect
(* A step that leaves what n decided on alone keeps its decision.          *)
LEMMA DecisionKept ==
    ASSUME NEW n \in Nodes, MasterIsElected,
           phase'[n] = phase[n], id'[n] = id[n], table'[n] = table[n],
           master'[n] = master[n]
    PROVE  master'[n] # NoMaster => phase'[n] = "Electing" /\ WouldElectAgain(n)'
<1>1. \A m \in Nodes : IdOf(n, table[n], m)' = IdOf(n, table[n], m)
  BY DEF IdOf
<1>2. Seen(n, table[n])' = Seen(n, table[n])
  BY DEF Seen
<1>3. \A m \in Nodes : IsUnique(n, table[n], m)' <=> IsUnique(n, table[n], m)
  BY <1>1, <1>2 DEF IsUnique, Seen
<1>4. Candidates(n, table[n])' = Candidates(n, table[n])
  BY <1>2, <1>3 DEF Candidates, Seen
<1>5. \A m \in Nodes : IsSelected(n, table[n], m)' <=> IsSelected(n, table[n], m)
  BY <1>1, <1>4 DEF IsSelected, Candidates, Seen
<1>6. IsSelected(n, table[n], master[n].node) => master[n].node \in Nodes
  BY DEF IsSelected, Candidates, Seen
<1>7. IsSelected(n, table[n], master[n].node) =>
          IsSelected(n, table[n], master[n].node)'
  BY <1>5, <1>6 DEF IsSelected
<1> QED
  BY <1>7 DEF MasterIsElected, WouldElectAgain

(* A cycle that elects leaves what n would decide again.                   *)
LEMMA DecisionMade ==
    ASSUME ElectionAssumption, ElectionInv, NEW n \in Nodes,
           Elect(n, table'[n]),
           table'[n] \in [Nodes -> Status \cup {NotSeen}], UNCHANGED id
    PROVE  /\ master' \in [Nodes -> Masters \cup {NoMaster}]
           /\ \A k \in Nodes \ {n} : master'[k] = master[k]
           /\ master'[n] # NoMaster => WouldElectAgain(n)'
<1> DEFINE nodes == table'[n]
           decided == /\ IsSelected(n, nodes, master'[n].node)
                      /\ IF master'[n].node = n THEN master'[n].id = id[n]
                         ELSE /\ master'[n].id = nodes[master'[n].node].id
                              /\ master'[n].session = nodes[master'[n].node].session
<1>1. decided => WouldElectAgain(n)'
  BY DEF WouldElectAgain, IsSelected, Candidates, Seen, IsUnique, IdOf
<1>2. nodes \in [Nodes -> Status \cup {NotSeen}] /\ Elect(n, nodes)
  OBVIOUS
<1>3. master \in [Nodes -> Masters \cup {NoMaster}]
  BY DEF ElectionInv, ElectionTypeOK
<1> HIDE DEF nodes
<1>4. \/ master' = master /\ IsSelfMaster(n) /\ IsSelected(n, nodes, n)
      \/ \E new \in Masters \cup {NoMaster} :
            /\ master' = [master EXCEPT ![n] = new]
            /\ new # NoMaster =>
                  /\ IsSelected(n, nodes, new.node)
                  /\ IF new.node = n THEN new.id = id[n]
                     ELSE /\ new.id = nodes[new.node].id
                          /\ new.session = nodes[new.node].session
  BY <1>2, ElectOutcome
<1>5. CASE master' = master /\ IsSelfMaster(n) /\ IsSelected(n, nodes, n)
  <2>1. decided
    BY <1>5 DEF IsSelfMaster, ElectionInv, MasterIsElected, WouldElectAgain
  <2> QED
    BY <1>1, <1>3, <1>5, <2>1
<1>6. ASSUME NEW new \in Masters \cup {NoMaster},
             master' = [master EXCEPT ![n] = new],
             new # NoMaster =>
                  /\ IsSelected(n, nodes, new.node)
                  /\ IF new.node = n THEN new.id = id[n]
                     ELSE /\ new.id = nodes[new.node].id
                          /\ new.session = nodes[new.node].session
      PROVE  /\ master' \in [Nodes -> Masters \cup {NoMaster}]
             /\ \A k \in Nodes \ {n} : master'[k] = master[k]
             /\ master'[n] # NoMaster => decided
  BY <1>3, <1>6
<1> QED
  BY <1>1, <1>4, <1>5, <1>6
(* What a step of n must leave for the invariant to hold again.            *)
LEMMA OneNodeSteps ==
    ASSUME ElectionInv, ElectionTypeOK', NEW n \in Nodes,
           \A k \in Nodes \ {n} :
               /\ phase'[k] = phase[k] /\ id'[k] = id[k]
               /\ table'[k] = table[k] /\ master'[k] = master[k],
           master'[n] # NoMaster => phase'[n] = "Electing" /\ WouldElectAgain(n)'
    PROVE  ElectionInv'
<1>1. \A k \in Nodes \ {n} :
          master'[k] # NoMaster => phase'[k] = "Electing" /\ WouldElectAgain(k)'
  BY DecisionKept DEF ElectionInv
<1> QED
  BY <1>1 DEF ElectionInv, MasterIsElected

LEMMA FaultsBounded ==
    ASSUME ElectionAssumption, ElectionTypeOK, Disturb \/ UNDISTURBED,
           Network' = Network
    PROVE  faults' \in Nat /\ faults' <= MaxFaults[Network]' /\ Network' \in Networks
<1>1. Network \in Networks /\ MaxFaults[Network] \in Nat /\ faults \in Nat
  BY DEF ElectionTypeOK, ElectionAssumption
<1>2. MaxFaults[Network]' = MaxFaults[Network]
  OBVIOUS
<1>3. faults' \in Nat /\ faults' <= MaxFaults[Network]
  BY <1>1 DEF Disturb, UNDISTURBED, ElectionTypeOK
<1> QED
  BY <1>1, <1>2, <1>3

LEMMA StatusesTyped ==
    ASSUME ElectionTypeOK, NEW n \in Nodes
    PROVE  /\ LocalStatus(n) \in Status
           /\ \A nodeId \in Nat : [id |-> nodeId, session |-> NoSession] \in Status
BY DEF ElectionTypeOK, LocalStatus, Status, Masters, IsSelfMaster

(* A cycle of n in which the entry of m becomes status.                    *)
LEMMA CycleKeepsInv ==
    ASSUME ElectionAssumption, ElectionInv, NEW n \in Nodes, NEW m \in Nodes,
           NEW status \in Status \cup {NotSeen},
           Cycle(n, m, status), Disturb \/ UNDISTURBED
    PROVE  ElectionInv'
<1>1. /\ table' \in [Nodes -> [Nodes -> Status \cup {NotSeen}]]
      /\ \A k \in Nodes \ {n} : table'[k] = table[k]
  BY DEF Cycle, ElectionInv, ElectionTypeOK
<1>2. Network' = Network
  BY DEF Cycle, Network
<1>3. CASE phase[n] = "Electing"
  <2>1. Elect(n, table'[n]) /\ UNCHANGED id
    BY <1>3 DEF Cycle
  <2>2. /\ master' \in [Nodes -> Masters \cup {NoMaster}]
        /\ \A k \in Nodes \ {n} : master'[k] = master[k]
        /\ master'[n] # NoMaster => WouldElectAgain(n)'
    BY <1>1, <2>1, DecisionMade
  <2>3. ElectionTypeOK'
    BY <1>1, <1>2, <2>2, FaultsBounded DEF Cycle, ElectionInv, ElectionTypeOK
  <2> QED
    BY <1>1, <1>3, <2>2, <2>3, OneNodeSteps DEF Cycle
<1>4. CASE phase[n] # "Electing"
  <2>1. UNCHANGED master /\ master[n] = NoMaster
    BY <1>4 DEF Cycle, ElectionInv, MasterIsElected
  <2>2. ElectionTypeOK'
    BY <1>1, <1>2, <2>1, FaultsBounded DEF Cycle, ElectionInv, ElectionTypeOK
  <2> QED
    BY <1>1, <2>1, <2>2, OneNodeSteps DEF Cycle
<1> QED
  BY <1>3, <1>4

(* Every step keeps the invariant.                                         *)
LEMMA ElectionStepKeepsInv ==
    ASSUME ElectionAssumption, ElectionInv, NEW n \in Nodes, ElectionStep(n)
    PROVE  ElectionInv'
<1> USE DEF ElectionInv
<1>1. CASE SendNodeStatus(n)
  <2>1. sent' \in [Nodes -> Status \cup {NotSeen}]
    BY <1>1, StatusesTyped DEF SendNodeStatus, ElectionTypeOK
  <2>2. Network' = Network
    BY <1>1 DEF SendNodeStatus, Network
  <2>3. ElectionTypeOK'
    BY <1>1, <2>1, <2>2, FaultsBounded DEF SendNodeStatus, ElectionTypeOK
  <2> QED
    BY <1>1, <2>3, DecisionKept, OneNodeSteps DEF SendNodeStatus
<1>2. ASSUME NEW m \in Nodes, HandleNodeStatus(n, m)
      PROVE  ElectionInv'
  <2>1. sent[m] \in Status \cup {NotSeen}
    BY DEF ElectionTypeOK
  <2> QED
    BY <1>2, <2>1, CycleKeepsInv DEF HandleNodeStatus
<1>3. ASSUME NEW m \in Nodes, NodeExpires(n, m)
      PROVE  ElectionInv'
  BY <1>3, CycleKeepsInv DEF NodeExpires
<1>4. CASE StartElection(n)
  <2>1. UNCHANGED <<id, sent, table>> /\ Elect(n, table'[n])
    BY <1>4 DEF StartElection
  <2>2. table'[n] \in [Nodes -> Status \cup {NotSeen}]
    BY <2>1 DEF ElectionTypeOK
  <2>3. /\ master' \in [Nodes -> Masters \cup {NoMaster}]
        /\ \A k \in Nodes \ {n} : master'[k] = master[k]
        /\ master'[n] # NoMaster => WouldElectAgain(n)'
    BY <2>1, <2>2, DecisionMade
  <2>4. /\ phase' \in [Nodes -> Phases] /\ phase'[n] = "Electing"
        /\ \A k \in Nodes \ {n} : phase'[k] = phase[k]
        /\ phase[n] = "Waiting"
    BY <1>4 DEF StartElection, ElectionTypeOK, Phases
  <2>5. Network' = Network
    BY <2>4 DEF Network
  <2>6. ElectionTypeOK'
    BY <1>4, <2>1, <2>3, <2>4, <2>5, FaultsBounded DEF StartElection, ElectionTypeOK
  <2> QED
    BY <2>1, <2>3, <2>4, <2>6, OneNodeSteps
<1>5. ASSUME NEW nodeId \in NodeIds[n], Boot(n, nodeId)
      PROVE  ElectionInv'
  <2>1. nodeId \in Nat
    BY <1>5 DEF ElectionAssumption
  <2>2. /\ phase' \in [Nodes -> Phases] /\ phase[n] = "Off" /\ phase'[n] = "Waiting"
        /\ \A k \in Nodes \ {n} : phase'[k] = phase[k] /\ id'[k] = id[k]
        /\ id' \in [Nodes -> Nat]
    BY <1>5, <2>1 DEF Boot, ElectionTypeOK, Phases
  <2>3. sent' \in [Nodes -> Status \cup {NotSeen}]
    BY <1>5, <2>1, StatusesTyped DEF Boot, ElectionTypeOK
  <2>4. Network' = Network
    BY <2>2 DEF Network
  <2>5. ElectionTypeOK'
    BY <1>5, <2>2, <2>3, <2>4, FaultsBounded DEF Boot, ElectionTypeOK
  <2>6. master'[n] = NoMaster
    BY <1>5, <2>2 DEF Boot, MasterIsElected
  <2> QED
    BY <1>5, <2>2, <2>5, <2>6, OneNodeSteps DEF Boot
<1>6. CASE PowerOff(n)
  <2>1. /\ phase' \in [Nodes -> Phases] /\ phase[n] # "Absent" /\ phase'[n] = "Off"
        /\ \A k \in Nodes \ {n} :
               /\ phase'[k] = phase[k] /\ id'[k] = id[k]
               /\ table'[k] = table[k] /\ master'[k] = master[k]
        /\ master'[n] = NoMaster
    BY <1>6 DEF PowerOff, IsOn, ElectionTypeOK, Phases
  <2>2. Network' = Network
    BY <2>1 DEF Network
  <2>3. ElectionTypeOK'
    BY <1>6, <2>1, <2>2, FaultsBounded DEF PowerOff, ElectionTypeOK
  <2> QED
    BY <2>1, <2>3, OneNodeSteps
<1> QED
  BY <1>1, <1>2, <1>3, <1>4, <1>5, <1>6 DEF ElectionStep

(* A step that changes nothing but the count of disturbances.              *)
LEMMA DisturbedKeepsInv ==
    ASSUME ElectionAssumption, ElectionInv,
           UNCHANGED <<phase, id, sent, table, master>>, UNDISTURBED \/ Disturb
    PROVE  ElectionInv'
<1>1. ElectionTypeOK'
  BY FaultsBounded DEF ElectionInv, ElectionTypeOK, Network
<1>2. \A n \in Nodes :
          master'[n] # NoMaster => phase'[n] = "Electing" /\ WouldElectAgain(n)'
  BY DecisionKept DEF ElectionInv
<1> QED
  BY <1>1, <1>2 DEF ElectionInv, MasterIsElected

(* Nodes keep electing the master they have: the inductive invariant of    *)
(* the election (TagMasterCoordinator::Update runs in every cycle).        *)
THEOREM ElectionInvariant == ASSUME ElectionAssumption PROVE ElectionSpec => []ElectionInv
<1>1. InitElection => ElectionInv
  BY ElectionInit
<1>2. ElectionInv /\ [ElectionNext]_electionVars => ElectionInv'
  <2> SUFFICES ASSUME ElectionInv, [ElectionNext]_electionVars
               PROVE  ElectionInv'
    OBVIOUS
  <2>1. CASE \E n \in Nodes : ElectionStep(n)
    BY <2>1, ElectionStepKeepsInv
  <2>2. CASE DisturbedElsewhere
    BY <2>2, DisturbedKeepsInv DEF DisturbedElsewhere
  <2>3. CASE UNCHANGED electionVars
    BY <2>3, DisturbedKeepsInv DEF electionVars, UNDISTURBED
  <2> QED
    BY <2>1, <2>2, <2>3 DEF ElectionNext
<1> QED
  BY <1>1, <1>2, PTL DEF ElectionSpec

(* In any state the election reaches, of two masters the one that should   *)
(* yield cannot know better (SelectCandidate, TagMasterCoordinator::Update). *)
LEMMA YieldingMasterIsStranger ==
    ASSUME ElectionInv PROVE TwoMastersAreStrangers
<1> SUFFICES ASSUME NEW m \in Nodes, NEW n \in Nodes,
                    m # n, IsSelfMaster(m), IsSelfMaster(n), id[m] <= id[n],
                    table[n][m] # NotSeen, table[n][m].id = id[m],
                    IsUnique(n, table[n], m)
             PROVE  FALSE
  BY DEF TwoMastersAreStrangers
<1>1. /\ IsSelected(n, table[n], n) /\ master[m] # NoMaster
      /\ IsSelected(m, table[m], m)
  BY DEF ElectionInv, MasterIsElected, WouldElectAgain, IsSelfMaster
<1>2. m \in Candidates(n, table[n])
  BY <1>1 DEF Candidates, Seen, IsSelected
<1>3. id[n] <= id[m]
  BY <1>1, <1>2 DEF IsSelected, IdOf
<1>4. n \in Seen(n, table[n]) \ {m}
  BY DEF Seen
<1>5. IdOf(n, table[n], n) # IdOf(n, table[n], m)
  BY <1>4 DEF IsUnique
<1>6. id[n] # id[m]
  BY <1>5 DEF IdOf
<1>7. id[m] \in Nat /\ id[n] \in Nat
  BY DEF ElectionInv, ElectionTypeOK
<1> QED
  BY <1>3, <1>6, <1>7

-----------------------------------------------------------------------------
(* What the synchronizer does leaves the election alone.                   *)

LEMMA SynchronizerDisturbs ==
    ASSUME NEW n \in Nodes,
           \/ UpdateMaster(n) \/ TrySendPendingResponse(n)
           \/ ProcessReceivedPacket(n) \/ LosePacket(n)
           \/ TimePasses(n)
    PROVE  UNDISTURBED \/ Disturb
<1>1. CASE UpdateMaster(n)
  <2>1. \A known, m : TrySendRequest(n, m, known) => UNDISTURBED \/ Disturb
    BY DEF TrySendRequest
  <2>2. \A known, m : FinalizeCurrentTarget(n, m, known) => UNDISTURBED
    BY DEF FinalizeCurrentTarget
  <2>3. \A known, m : TrySendCommit(n, m, known) => UNDISTURBED
    BY DEF TrySendCommit
  <2>4. PICK known \in {CurrentTargets(n)} :
            \/ \E m \in Ready(known) :
                  \/ TrySendRequest(n, m, known[m])
                  \/ FinalizeCurrentTarget(n, m, known[m])
                  \/ TrySendCommit(n, m, known[m])
            \/ UNDISTURBED
    BY <1>1 DEF UpdateMaster
  <2> QED
    BY <2>1, <2>2, <2>3, <2>4
<1>2. CASE TrySendPendingResponse(n)
  BY <1>2 DEF TrySendPendingResponse
<1>3. CASE ProcessReceivedPacket(n)
  BY <1>3 DEF ProcessReceivedPacket
<1>4. CASE LosePacket(n)
  BY <1>4 DEF LosePacket
<1>5. CASE TimePasses(n)
  BY <1>5 DEF TimePasses, RequestTimesOut, RetryDelayPasses, PeriodPasses
<1> QED
  BY <1>1, <1>2, <1>3, <1>4, <1>5

(* NtpTimeSynchronizer runs on top of the election without disturbing it:  *)
(* it reads the master and never changes it.                               *)
THEOREM SynchronizerImplementsElection == Spec => ElectionSpec
<1>1. Init => InitElection
  BY DEF Init
<1>2. [Next]_vars => [ElectionNext]_electionVars
  <2> SUFFICES ASSUME [Next]_vars PROVE [ElectionNext]_electionVars
    OBVIOUS
  <2>1. CASE UNCHANGED vars
    BY <2>1 DEF vars, electionVars
  <2>2. ASSUME NEW n \in Nodes,
               \/ Electing(n, Announces(n))
               \/ \E m \in Nodes : Electing(n, Hears(n, m) \/ NodeExpires(n, m))
               \/ Electing(n, PowerOff(n))
               \/ Restart(n)
        PROVE  ElectionStep(n)
    BY <2>2 DEF Electing, Announces, Hears, Forgets, Restart, ElectionStep
  <2>3. ASSUME NEW n \in Nodes,
               \/ Exchanging(UpdateMaster(n) \/ TrySendPendingResponse(n))
               \/ Exchanging(ProcessReceivedPacket(n) \/ LosePacket(n))
               \/ Exchanging(TimePasses(n))
        PROVE  DisturbedElsewhere \/ UNCHANGED electionVars
    <3>1. /\ \/ UpdateMaster(n) \/ TrySendPendingResponse(n)
             \/ ProcessReceivedPacket(n) \/ LosePacket(n)
             \/ TimePasses(n)
          /\ UNCHANGED <<phase, id, sent, table, master>>
      BY <2>3 DEF Exchanging
    <3> QED
      BY <3>1, SynchronizerDisturbs DEF DisturbedElsewhere, electionVars, UNDISTURBED
  <2> QED
    BY <2>1, <2>2, <2>3 DEF Next, ElectionNext
<1> QED
  BY <1>1, <1>2, PTL DEF Spec, ElectionSpec

(* The two together: in the composed system nodes keep electing the master *)
(* they have.                                                              *)
THEOREM SynchronizerKeepsElection ==
    ASSUME ElectionAssumption PROVE Spec => []ElectionInv
BY SynchronizerImplementsElection, ElectionInvariant, PTL

(* Two masters exist only while the one that should yield does not know    *)
(* the other, or takes its id for an ambiguous one.                        *)
THEOREM MastersAreStrangers ==
    ASSUME ElectionAssumption PROVE Spec => []TwoMastersAreStrangers
BY SynchronizerKeepsElection, YieldingMasterIsStranger, PTL

-----------------------------------------------------------------------------
(* The clocks that are synchronized agree.                                 *)

(* A node without power has no master, and keeps no time.                  *)
LEMMA OffKeepsNothing ==
    ASSUME ElectionInv, OwnTimesAreCurrent, NEW n \in Nodes, phase[n] # "Electing"
    PROVE  /\ master[n] = NoMaster /\ ~IsSelfMaster(n) /\ ~IsFollower(n)
           /\ request[n] = Nothing /\ reply[n] = Nothing
           /\ Tracked(targets[n]) = {}
<1>1. master[n] = NoMaster /\ ~IsSelfMaster(n) /\ ~IsFollower(n)
  BY DEF ElectionInv, MasterIsElected, IsSelfMaster, IsFollower
<1> QED BY <1>1 DEF OwnTimesAreCurrent

(* A master that is elected again stays in its session.                    *)
LEMMA ElectedAgain ==
    ASSUME ElectionInv, NEW n \in Nodes, NEW nodes, Elect(n, nodes),
           IsSelfMaster(n), IsSelfMaster(n)'
    PROVE  master'[n] = master[n]
<1>1. master \in [Nodes -> Masters \cup {NoMaster}]
  BY DEF ElectionInv, ElectionTypeOK
<1>2. ASSUME NEW m \in Nodes \ {n}, Follow(n, m, nodes[m])
      PROVE  FALSE
  BY <1>1, <1>2 DEF Follow, Identity, IsSelfMaster
<1>3. CASE ElectSelf(n)
  BY <1>3 DEF ElectSelf
<1>4. CASE ClearMaster(n)
  BY <1>1, <1>4 DEF ClearMaster, IsSelfMaster
<1> QED BY <1>2, <1>3, <1>4 DEF Elect

(* A step of the election, as the synchronizer sees it: one node starts,   *)
(* stops or elects, and draws a session that nobody else knows of.         *)
Elects(n) ==
    /\ \A k \in Nodes \ {n} :
          master'[k] = master[k] /\ phase'[k] = phase[k] /\ boot'[k] = boot[k]
    /\ DetectMasterChange
    /\ boot' \in [Nodes -> Nat]
    /\ IsSelfMaster(n)' /\ master'[n] # master[n] =>
          \A m \in Nodes :
             /\ air[m] # Nothing => air[m].content.session # master'[n].session
             /\ master[m] # NoMaster => master[m].session # master'[n].session
    /\ \/ phase'[n] = phase[n] /\ boot'[n] = boot[n]
       \/ /\ phase[n] = "Waiting" /\ phase'[n] = "Electing" /\ boot'[n] = boot[n]
          /\ BootOutlastsExchange(n)
       \/ phase'[n] = "Off" /\ boot'[n] = boot[n] /\ master'[n] = NoMaster
       \/ /\ phase[n] = "Off" /\ phase'[n] = "Waiting" /\ boot'[n] = boot[n] + 1
          /\ master'[n] = NoMaster

(* The lemma this predicate is for.                                        *)
LEMMA ElectionEffect ==
    ASSUME ElectionInv, boot \in [Nodes -> Nat], NEW n \in Nodes,
           \/ Electing(n, Announces(n))
           \/ \E m \in Nodes : Electing(n, Hears(n, m) \/ NodeExpires(n, m))
           \/ Electing(n, PowerOff(n))
           \/ Restart(n)
    PROVE  Elects(n)
<1>0. /\ master \in [Nodes -> Masters \cup {NoMaster}]
      /\ phase \in [Nodes -> Phases]
  BY DEF ElectionInv, ElectionTypeOK
<1>1. ASSUME NEW nodes, Elect(n, nodes), DrawsFreshSession(n)
      PROVE  /\ \A k \in Nodes \ {n} : master'[k] = master[k]
             /\ IsSelfMaster(n)' /\ master'[n] # master[n] =>
                   \A m \in Nodes :
                      /\ air[m] # Nothing => air[m].content.session # master'[n].session
                      /\ master[m] # NoMaster => master[m].session # master'[n].session
  <2>1. \A k \in Nodes \ {n} : master'[k] = master[k]
    BY <1>0, <1>1 DEF Elect, ElectSelf, Follow, ClearMaster
  <2>2. ASSUME IsSelfMaster(n)', master'[n] # master[n], NEW m \in Nodes
        PROVE  /\ air[m] # Nothing => air[m].content.session # master'[n].session
               /\ master[m] # NoMaster => master[m].session # master'[n].session
    <3>1. ~IsSelfMaster(n)
      BY <1>1, <2>2, ElectedAgain
    <3> DEFINE carried == {air[k].content.session : k \in {k \in Nodes : air[k] # Nothing}}
    <3>2. master'[n].session \in FreshSessions(n) \ carried
      BY <1>1, <2>2, <3>1 DEF DrawsFreshSession
    <3>3. air[m] # Nothing => air[m].content.session \in carried
      OBVIOUS
    <3>4. master[m] # NoMaster => master[m].session # master'[n].session
      BY <3>2 DEF FreshSessions
    <3> HIDE DEF carried
    <3> QED BY <3>2, <3>3, <3>4
  <2> QED BY <2>1, <2>2
<1>2. CASE Electing(n, Announces(n))
  <2>1. DrawsFreshSession(n) /\ DetectMasterChange /\ boot' = boot
    BY <1>2 DEF Electing
  <2>2. CASE SendNodeStatus(n)
    <3>1. UNCHANGED <<phase, master>>
      BY <2>2 DEF SendNodeStatus
    <3> QED BY <2>1, <3>1 DEF Elects, IsSelfMaster
  <2>3. CASE BootOutlastsExchange(n) /\ StartElection(n)
    <3>1. /\ Elect(n, table[n])
          /\ phase[n] = "Waiting" /\ phase'[n] = "Electing"
          /\ \A k \in Nodes \ {n} : phase'[k] = phase[k]
      BY <1>0, <2>3 DEF StartElection
    <3>2. /\ \A k \in Nodes \ {n} : master'[k] = master[k]
          /\ IsSelfMaster(n)' /\ master'[n] # master[n] =>
                \A m \in Nodes :
                   /\ air[m] # Nothing => air[m].content.session # master'[n].session
                   /\ master[m] # NoMaster => master[m].session # master'[n].session
      BY <1>1, <2>1, <3>1
    <3> QED BY <2>1, <2>3, <3>1, <3>2 DEF Elects
  <2> QED BY <1>2, <2>2, <2>3 DEF Electing, Announces
<1>3. ASSUME NEW m \in Nodes, Electing(n, Hears(n, m) \/ NodeExpires(n, m))
      PROVE  Elects(n)
  <2>1. DrawsFreshSession(n) /\ DetectMasterChange /\ boot' = boot
    BY <1>3 DEF Electing
  <2>2. PICK status : Cycle(n, m, status)
    BY <1>3 DEF Electing, Hears, Forgets, HandleNodeStatus, NodeExpires
  <2>3. phase' = phase
    BY <2>2 DEF Cycle
  <2>4. CASE UNCHANGED master
    BY <2>1, <2>3, <2>4 DEF Elects
  <2>5. CASE Elect(n, table'[n])
    <3>1. /\ \A k \in Nodes \ {n} : master'[k] = master[k]
          /\ IsSelfMaster(n)' /\ master'[n] # master[n] =>
                \A k \in Nodes :
                   /\ air[k] # Nothing => air[k].content.session # master'[n].session
                   /\ master[k] # NoMaster => master[k].session # master'[n].session
      BY <1>1, <2>1, <2>5
    <3> QED BY <2>1, <2>3, <3>1 DEF Elects
  <2> QED BY <2>2, <2>4, <2>5 DEF Cycle
<1>4. CASE Electing(n, PowerOff(n))
  <2>1. DetectMasterChange /\ boot' = boot /\ PowerOff(n)
    BY <1>4 DEF Electing
  <2>2. /\ phase'[n] = "Off" /\ master'[n] = NoMaster
        /\ \A k \in Nodes \ {n} : phase'[k] = phase[k] /\ master'[k] = master[k]
    BY <1>0, <2>1 DEF PowerOff
  <2> QED BY <2>1, <2>2 DEF Elects, IsSelfMaster
<1>5. CASE Restart(n)
  <2>1. PICK nodeId : Boot(n, nodeId)
    BY <1>5 DEF Restart
  <2>2. /\ DetectMasterChange /\ boot' = [boot EXCEPT ![n] = @ + 1]
    BY <1>5 DEF Restart
  <2>3. /\ phase[n] = "Off" /\ phase'[n] = "Waiting" /\ UNCHANGED master
        /\ \A k \in Nodes \ {n} : phase'[k] = phase[k]
    BY <1>0, <2>1 DEF Boot
  <2>4. master[n] = NoMaster
    BY <2>3 DEF ElectionInv, MasterIsElected
  <2> QED BY <2>2, <2>3, <2>4 DEF Elects
<1> QED BY <1>2, <1>3, <1>4, <1>5

(* What DetectMasterChange leaves to a node.                               *)
LEMMA ResetEffect ==
    ASSUME DetectMasterChange, NEW n \in Nodes
    PROVE  /\ air' = air
           /\ IF master'[n] = master[n]
              THEN /\ targets'[n] = targets[n] /\ request'[n] = request[n]
                   /\ reply'[n] = reply[n] /\ local'[n] = local[n]
              ELSE /\ targets'[n] = NoTargets /\ request'[n] = Nothing
                   /\ reply'[n] = Nothing /\ local'[n] = Nothing
BY DEF DetectMasterChange, Reset

(* So an election keeps the invariant.                                     *)
LEMMA ElectingKeepsTime ==
    ASSUME ElectionInv, ElectionInv', TimeInv, NEW n \in Nodes, Elects(n)
    PROVE  TimeInv'
<1> USE DEF TimeInv
<1>1. /\ air' = air /\ boot \in [Nodes -> Nat] /\ boot' \in [Nodes -> Nat]
      /\ \A k \in Nodes \ {n} : /\ master'[k] = master[k]
                                /\ phase'[k] = phase[k] /\ boot'[k] = boot[k]
  BY DEF Elects, DetectMasterChange, SynchronizerTypeOK
<1>2. SynchronizerTypeOK'
  <2>1. NoTargets \in [Nodes -> Targets \cup {Nothing}]
    BY DEF NoTargets
  <2>2. targets' \in [Nodes -> [Nodes -> Targets \cup {Nothing}]]
    BY <2>1 DEF Elects, DetectMasterChange, Reset, SynchronizerTypeOK
  <2>3. /\ request' \in [Nodes -> [node : Nodes, id : Nat, sequence : Sequences, t1 : Nat]
                             \cup {Nothing}]
        /\ reply' \in [Nodes -> [to : Nodes, sequence : Sequences,
                            content : [session : Sessions, t1 : Nat, t2 : Nat]]
                           \cup {Nothing}]
        /\ local' \in [Nodes -> Offsets \cup {Nothing}]
    BY DEF Elects, DetectMasterChange, Reset, SynchronizerTypeOK
  <2> QED BY <1>1, <2>2, <2>3 DEF SynchronizerTypeOK
<1>3. ASSUME NEW k \in Nodes, master'[k] # NoMaster
      PROVE  boot'[k] = boot[k]
  BY <1>1, <1>3 DEF Elects, ElectionInv, MasterIsElected
<1>4. ASSUME NEW k \in Nodes, Tracked(targets'[k]) # {}
      PROVE  targets'[k] = targets[k] /\ master'[k] = master[k]
  <2>1. Tracked(NoTargets) = {}
    BY DEF NoTargets, Tracked
  <2> QED BY <1>4, <2>1, ResetEffect DEF Elects
<1>5. OwnTimesAreCurrent'
  <2> SUFFICES ASSUME NEW k \in Nodes
               PROVE  /\ request'[k] # Nothing
                         => /\ IsSelfMaster(k)' /\ request'[k].t1 = boot'[k]
                            /\ request'[k].node \in Tracked(targets'[k])
                      /\ reply'[k] # Nothing
                         => IsFollower(k)' /\ reply'[k].content.t2 = boot'[k]
                      /\ \A m \in Tracked(targets'[k]) :
                            /\ IsSelfMaster(k)'
                            /\ \A sample \in targets'[k][m].samples :
                                  sample.master = boot'[k]
                            /\ targets'[k][m].state = "Committing"
                               => targets'[k][m].result.master = boot'[k]
    BY DEF OwnTimesAreCurrent
  <2>1. request'[k] # Nothing => /\ IsSelfMaster(k)' /\ request'[k].t1 = boot'[k]
                                 /\ request'[k].node \in Tracked(targets'[k])
    BY <1>3, ResetEffect DEF Elects, OwnTimesAreCurrent, IsSelfMaster
  <2>2. reply'[k] # Nothing => IsFollower(k)' /\ reply'[k].content.t2 = boot'[k]
    BY <1>3, ResetEffect DEF Elects, OwnTimesAreCurrent, IsSelfMaster, IsFollower
  <2>3. ASSUME NEW m \in Tracked(targets'[k])
        PROVE  /\ IsSelfMaster(k)'
               /\ \A sample \in targets'[k][m].samples : sample.master = boot'[k]
               /\ targets'[k][m].state = "Committing"
                  => targets'[k][m].result.master = boot'[k]
    <3>1. targets'[k] = targets[k] /\ master'[k] = master[k]
      BY <1>4, <2>3
    <3> QED BY <1>3, <2>3, <3>1 DEF OwnTimesAreCurrent, IsSelfMaster
  <2> QED BY <2>1, <2>2, <2>3
<1> DEFINE Timely(k, time) == /\ time <= boot'[k]
                              /\ phase'[k] = "Waiting" => time < boot'[k]
                              /\ phase'[k] = "Electing" => time = boot'[k]
<1>6. ASSUME NEW k \in Nodes, NEW time \in Nat, IsTimeOf(k, time),
             k = n /\ BootOutlastsExchange(n) => time = boot[k]
      PROVE  Timely(k, time)
  <2>1. CASE k # n
    BY <1>1, <1>6, <2>1 DEF IsTimeOf
  <2>2. CASE k = n
    BY <1>1, <1>6, <2>2 DEF IsTimeOf, Elects
  <2> QED BY <2>1, <2>2
<1> HIDE DEF Timely
<1>7. TimesAreOfTheirBoot'
  <2>1. ASSUME NEW k \in Nodes, air[k] # Nothing, air[k].type = "Response"
        PROVE  Timely(k, air[k].content.t2)
    <3>1. IsTimeOf(k, air[k].content.t2)
      BY <2>1 DEF TimesAreOfTheirBoot
    <3>2. air[k].content.t2 \in Nat
      BY <2>1 DEF SynchronizerTypeOK, Requests, Responses, Commits
    <3>3. BootOutlastsExchange(k) => air[k].content.t2 = boot[k]
      BY <2>1 DEF BootOutlastsExchange
    <3> QED BY <1>6, <3>1, <3>2, <3>3
  <2>2. ASSUME NEW k \in Nodes, NEW m \in Nodes, IsCommitTo(m, k)
        PROVE  Timely(k, air[m].content.offset.node)
    <3>1. IsTimeOf(k, air[m].content.offset.node)
      BY <2>2 DEF TimesAreOfTheirBoot
    <3>2. air[m].content.offset.node \in Nat
      BY <2>2 DEF SynchronizerTypeOK, Requests, Responses, Commits, IsCommitTo, Offsets
    <3>3. BootOutlastsExchange(k) => air[m].content.offset.node = boot[k]
      BY <2>2 DEF BootOutlastsExchange, IsCommitTo
    <3> QED BY <1>6, <3>1, <3>2, <3>3
  <2>3. ASSUME NEW k \in Nodes, NEW m \in Nodes, k \in Tracked(targets'[m])
        PROVE  /\ \A sample \in targets'[m][k].samples : Timely(k, sample.node)
               /\ targets'[m][k].state = "Committing"
                  => Timely(k, targets'[m][k].result.node)
    <3>1. targets'[m] = targets[m] /\ k \in Tracked(targets[m])
      BY <1>4, <2>3
    <3>2. targets[m][k] \in Targets
      BY <3>1 DEF SynchronizerTypeOK, Tracked
    <3>3. ASSUME NEW sample \in targets[m][k].samples
          PROVE  Timely(k, sample.node)
      <4>1. IsTimeOf(k, sample.node) /\ sample.node \in Nat
        BY <3>1, <3>2 DEF TimesAreOfTheirBoot, Targets, Offsets
      <4>2. BootOutlastsExchange(k) => sample.node = boot[k]
        BY <3>1 DEF BootOutlastsExchange
      <4> QED BY <1>6, <4>1, <4>2
    <3>4. ASSUME targets[m][k].state = "Committing"
          PROVE  Timely(k, targets[m][k].result.node)
      <4>1. /\ IsTimeOf(k, targets[m][k].result.node)
            /\ targets[m][k].result.node \in Nat
        BY <3>1, <3>2, <3>4 DEF TimesAreOfTheirBoot, Targets, Offsets
      <4>2. BootOutlastsExchange(k) => targets[m][k].result.node = boot[k]
        BY <3>1, <3>4 DEF BootOutlastsExchange
      <4> QED BY <1>6, <4>1, <4>2
    <3> QED BY <3>1, <3>3, <3>4
  <2>4. \A m, k \in Nodes : IsCommitTo(m, k)' <=> IsCommitTo(m, k)
    BY <1>1 DEF IsCommitTo
  <2> QED BY <1>1, <2>1, <2>2, <2>3, <2>4 DEF TimesAreOfTheirBoot, IsTimeOf, Timely
<1>8. CommitsAreCurrent'
  <2> SUFFICES ASSUME NEW m \in Nodes, NEW k \in Nodes, IsCommitTo(m, k),
                      IsSelfMaster(m)', air[m].content.session = master'[m].session
               PROVE  /\ air[m].content.offset.master = boot'[m]
                      /\ phase'[k] = "Electing" /\ k \in Tracked(targets'[m])
                         => targets'[m][k].result \in {Nothing, Offset(m, k)'}
    BY <1>1 DEF CommitsAreCurrent, IsCommitTo
  <2>1. master'[m] = master[m] /\ boot'[m] = boot[m]
    BY <1>1, <1>3 DEF Elects, IsSelfMaster, IsCommitTo
  <2>2. /\ air[m].content.offset.master = boot[m]
        /\ phase[k] = "Electing" /\ k \in Tracked(targets[m])
           => targets[m][k].result \in {Nothing, Offset(m, k)}
    BY <2>1 DEF CommitsAreCurrent, IsSelfMaster
  <2>3. ASSUME phase'[k] = "Electing", k \in Tracked(targets'[m])
        PROVE  targets'[m][k].result \in {Nothing, Offset(m, k)'}
    <3>1. targets'[m] = targets[m]
      BY <1>4, <2>3
    <3>2. CASE phase[k] = "Electing"
      <4>1. boot'[k] = boot[k]
        BY <1>1, <2>3, <3>2 DEF Elects
      <4> QED BY <2>1, <2>2, <2>3, <3>1, <3>2, <4>1 DEF Offset
    <3>3. CASE phase[k] # "Electing"
      <4>1. k = n /\ phase[n] = "Waiting" /\ BootOutlastsExchange(n)
        BY <1>1, <2>3, <3>3 DEF Elects
      <4>2. air[m].content.offset.node < boot[k]
        BY <4>1 DEF TimesAreOfTheirBoot, IsTimeOf
      <4>3. air[m].content.offset.node = boot[k]
        BY <4>1 DEF BootOutlastsExchange, IsCommitTo
      <4>4. boot[k] \in Nat
        BY <1>1
      <4> QED BY <4>2, <4>3, <4>4
    <3> QED BY <3>2, <3>3
  <2> QED BY <2>1, <2>2, <2>3
<1>9. SynchronizedClocksAgree'
  <2> SUFFICES ASSUME NEW k \in Nodes, IsFollower(k)', local'[k] # Nothing,
                      NEW m, m = master'[k].node,
                      IsSelfMaster(m)', master'[m].session = master'[k].session
               PROVE  /\ local'[k] = Offset(m, k)'
                      /\ k \in Tracked(targets'[m]) =>
                            targets'[m][k].result \in {Nothing, local'[k]}
    BY DEF SynchronizedClocksAgree
  <2>1. master'[k] # NoMaster /\ master'[k] = master[k] /\ local'[k] = local[k]
    BY ResetEffect DEF IsFollower, Elects
  <2>2. m \in Nodes
    BY <2>1 DEF ElectionInv, ElectionTypeOK, Masters
  <2>3. master'[m] = master[m]
    BY <1>1, <2>1, <2>2 DEF Elects
  <2>4. boot'[k] = boot[k] /\ boot'[m] = boot[m]
    BY <1>3, <2>1, <2>2 DEF IsSelfMaster
  <2>5. /\ local[k] = Offset(m, k)
        /\ k \in Tracked(targets[m]) => targets[m][k].result \in {Nothing, local[k]}
    BY <2>1, <2>2, <2>3 DEF SynchronizedClocksAgree, IsFollower, IsSelfMaster
  <2>6. targets'[m] = targets[m]
    BY <2>2, <2>3, ResetEffect DEF Elects
  <2> QED BY <2>1, <2>4, <2>5, <2>6 DEF Offset
<1> QED BY <1>2, <1>5, <1>7, <1>8, <1>9

(* An offset that is right for the clocks that run, as far as the node     *)
(* takes part.                                                             *)
IsOffsetOf(n, m, offset) ==
    offset \in Offsets /\ offset.master = boot[n] /\ IsTimeOf(m, offset.node)

(* What a master holds of a node is of that kind.                          *)
LEMMA HeldOffsets ==
    ASSUME TimeInv, NEW n \in Nodes, NEW m \in Tracked(targets[n])
    PROVE  /\ targets[n][m] \in Targets /\ m \in Nodes /\ IsSelfMaster(n)
           /\ \A sample \in targets[n][m].samples : IsOffsetOf(n, m, sample)
           /\ targets[n][m].state = "Committing"
              => IsOffsetOf(n, m, targets[n][m].result)
<1>1. targets[n][m] \in Targets /\ m \in Nodes /\ IsSelfMaster(n)
  BY DEF TimeInv, SynchronizerTypeOK, Tracked, OwnTimesAreCurrent
<1>2. \A sample \in targets[n][m].samples : IsOffsetOf(n, m, sample)
  BY <1>1 DEF TimeInv, TimesAreOfTheirBoot, OwnTimesAreCurrent, IsOffsetOf, Targets
<1>3. targets[n][m].state = "Committing" => IsOffsetOf(n, m, targets[n][m].result)
  BY <1>1 DEF TimeInv, TimesAreOfTheirBoot, OwnTimesAreCurrent, IsOffsetOf, Targets
<1> QED BY <1>1, <1>2, <1>3

(* A step of the exchanges, by where the times it writes come from.        *)
Requesting(n) ==
    request'[n] # Nothing =>
        /\ request'[n].node \in Tracked(targets'[n])
        /\ \/ request'[n] = request[n]
           \/ IsSelfMaster(n) /\ request'[n].t1 = boot[n]
Replying(n) ==
    reply'[n] # Nothing =>
        \/ reply'[n] = reply[n]
        \/ IsFollower(n) /\ reply'[n].content.t2 = boot[n]
Measured(n, m) ==
    targets'[n][m] # Nothing =>
        /\ IsSelfMaster(n)
        /\ \A sample \in targets'[n][m].samples : IsOffsetOf(n, m, sample)
        /\ targets'[n][m].state = "Committing"
           => IsOffsetOf(n, m, targets'[n][m].result)
        /\ \/ targets'[n][m].result = Nothing
           \/ IsOffsetOf(n, m, targets'[n][m].result)
           \/ /\ m \in Tracked(targets[n])
              /\ targets'[n][m].result = targets[n][m].result
Sending(n) ==
    air'[n] # Nothing =>
        \/ air'[n] = air[n]
        \/ air'[n].type = "Request"
        \/ /\ air'[n].type = "Response" /\ IsFollower(n)
           /\ air'[n].content.t2 = boot[n]
        \/ /\ air'[n].type = "Commit"
           /\ IsOffsetOf(n, air'[n].to, air'[n].content.offset)
           /\ targets'[n][air'[n].to].result = air'[n].content.offset
Committed(n) ==
    local'[n] # Nothing =>
        \/ local'[n] = local[n]
        \/ /\ IsFollower(n) /\ IsCommitTo(master[n].node, n)
           /\ air[master[n].node].content.session = master[n].session
           /\ local'[n] = air[master[n].node].content.offset
Exchanges ==
    /\ UNCHANGED <<phase, master, boot>>
    /\ \A n \in Nodes :
          /\ Requesting(n) /\ Replying(n) /\ Sending(n) /\ Committed(n)
          /\ \A m \in Nodes : Measured(n, m)

(* Such a step keeps the invariant.                                        *)
LEMMA ExchangesKeepTime ==
    ASSUME ElectionInv, TimeInv, Exchanges, SynchronizerTypeOK'
    PROVE  TimeInv'
<1> USE DEF TimeInv
<1>0. /\ phase' = phase /\ master' = master /\ boot' = boot
      /\ boot \in [Nodes -> Nat]
      /\ \A n \in Nodes : IsFollower(n) => phase[n] = "Electing" /\ master[n].node \in Nodes
      /\ \A n \in Nodes : /\ IsSelfMaster(n)' <=> IsSelfMaster(n)
                          /\ IsFollower(n)' <=> IsFollower(n)
      /\ \A n, m \in Nodes : Offset(n, m)' = Offset(n, m)
      /\ \A n \in Nodes, time \in Nat : IsTimeOf(n, time)' <=> IsTimeOf(n, time)
  BY DEF Exchanges, SynchronizerTypeOK, IsFollower, ElectionInv, MasterIsElected,
         ElectionTypeOK, Masters, IsSelfMaster, Offset, IsTimeOf
<1>1. ASSUME NEW n \in Nodes, NEW m \in Nodes, NEW offset, IsOffsetOf(n, m, offset),
             phase[m] = "Electing"
      PROVE  offset = Offset(n, m)
  BY <1>1 DEF IsOffsetOf, IsTimeOf, Offsets, Offset
<1>2. \A n \in Nodes :
         /\ Requesting(n) /\ Replying(n) /\ Sending(n) /\ Committed(n)
         /\ \A m \in Nodes : Measured(n, m)
  BY DEF Exchanges
<1>3. OwnTimesAreCurrent'
  <2> SUFFICES ASSUME NEW n \in Nodes
               PROVE  /\ request'[n] # Nothing
                         => /\ IsSelfMaster(n) /\ request'[n].t1 = boot[n]
                            /\ request'[n].node \in Tracked(targets'[n])
                      /\ reply'[n] # Nothing
                         => IsFollower(n) /\ reply'[n].content.t2 = boot[n]
                      /\ \A m \in Nodes : targets'[n][m] # Nothing =>
                            /\ IsSelfMaster(n)
                            /\ \A sample \in targets'[n][m].samples :
                                  sample.master = boot[n]
                            /\ targets'[n][m].state = "Committing"
                               => targets'[n][m].result.master = boot[n]
    BY <1>0 DEF OwnTimesAreCurrent, Tracked
  <2>1. request'[n] # Nothing => /\ IsSelfMaster(n) /\ request'[n].t1 = boot[n]
                                 /\ request'[n].node \in Tracked(targets'[n])
    BY <1>2 DEF Requesting, OwnTimesAreCurrent
  <2>2. reply'[n] # Nothing => IsFollower(n) /\ reply'[n].content.t2 = boot[n]
    BY <1>2 DEF Replying, OwnTimesAreCurrent
  <2>3. \A m \in Nodes : targets'[n][m] # Nothing =>
           /\ IsSelfMaster(n)
           /\ \A sample \in targets'[n][m].samples : sample.master = boot[n]
           /\ targets'[n][m].state = "Committing"
              => targets'[n][m].result.master = boot[n]
    BY <1>2 DEF Measured, IsOffsetOf
  <2> QED BY <2>1, <2>2, <2>3
<1>4. TimesAreOfTheirBoot'
  <2>1. ASSUME NEW n \in Nodes, air'[n] # Nothing, air'[n].type = "Response"
        PROVE  IsTimeOf(n, air'[n].content.t2)
    <3>1. CASE air'[n] = air[n]
      BY <2>1, <3>1 DEF TimesAreOfTheirBoot
    <3>2. CASE IsFollower(n) /\ air'[n].content.t2 = boot[n]
      BY <1>0, <3>2 DEF IsTimeOf
    <3> QED BY <1>2, <2>1, <3>1, <3>2 DEF Sending
  <2>2. ASSUME NEW n \in Nodes, NEW m \in Nodes, air'[m] # Nothing,
               air'[m].type = "Commit", air'[m].to = n
        PROVE  IsTimeOf(n, air'[m].content.offset.node)
    <3>1. CASE air'[m] = air[m]
      BY <2>2, <3>1 DEF TimesAreOfTheirBoot, IsCommitTo
    <3>2. CASE IsOffsetOf(m, n, air'[m].content.offset)
      BY <3>2 DEF IsOffsetOf
    <3> QED BY <1>2, <2>2, <3>1, <3>2 DEF Sending
  <2>3. ASSUME NEW n \in Nodes, NEW m \in Nodes, targets'[m][n] # Nothing
        PROVE  /\ \A sample \in targets'[m][n].samples : IsTimeOf(n, sample.node)
               /\ targets'[m][n].state = "Committing"
                  => IsTimeOf(n, targets'[m][n].result.node)
    BY <1>2, <2>3 DEF Measured, IsOffsetOf
  <2> QED BY <1>0, <2>1, <2>2, <2>3
          DEF TimesAreOfTheirBoot, IsTimeOf, IsCommitTo, Tracked
<1>5. ASSUME NEW m \in Nodes, NEW k \in Nodes, phase[k] = "Electing",
             targets'[m][k] # Nothing,
             k \in Tracked(targets[m])
             => targets[m][k].result \in {Nothing, Offset(m, k)}
      PROVE  targets'[m][k].result \in {Nothing, Offset(m, k)}
  BY <1>1, <1>2, <1>5 DEF Measured
<1>6. CommitsAreCurrent'
  <2> SUFFICES ASSUME NEW m \in Nodes, NEW k \in Nodes, air'[m] # Nothing,
                      air'[m].type = "Commit", air'[m].to = k, IsSelfMaster(m),
                      air'[m].content.session = master[m].session
               PROVE  /\ air'[m].content.offset.master = boot[m]
                      /\ phase[k] = "Electing" /\ targets'[m][k] # Nothing
                         => targets'[m][k].result \in {Nothing, Offset(m, k)}
    BY <1>0 DEF CommitsAreCurrent, IsCommitTo, Tracked
  <2>1. CASE air'[m] = air[m]
    <3>1. /\ air[m].content.offset.master = boot[m]
          /\ phase[k] = "Electing" /\ k \in Tracked(targets[m])
             => targets[m][k].result \in {Nothing, Offset(m, k)}
      BY <2>1 DEF CommitsAreCurrent, IsCommitTo
    <3> QED BY <1>5, <2>1, <3>1
  <2>2. CASE /\ IsOffsetOf(m, k, air'[m].content.offset)
             /\ targets'[m][k].result = air'[m].content.offset
    BY <1>1, <2>2 DEF IsOffsetOf
  <2> QED BY <1>2, <2>1, <2>2 DEF Sending
<1>7. SynchronizedClocksAgree'
  <2> SUFFICES ASSUME NEW n \in Nodes, IsFollower(n), local'[n] # Nothing,
                      NEW m, m = master[n].node, IsSelfMaster(m),
                      master[m].session = master[n].session
               PROVE  /\ local'[n] = Offset(m, n)
                      /\ targets'[m][n] # Nothing =>
                            targets'[m][n].result \in {Nothing, local'[n]}
    BY <1>0 DEF SynchronizedClocksAgree, Tracked
  <2>0. m \in Nodes /\ phase[n] = "Electing"
    BY <1>0
  <2>1. CASE local'[n] = local[n]
    <3>1. /\ local[n] = Offset(m, n)
          /\ n \in Tracked(targets[m]) => targets[m][n].result \in {Nothing, local[n]}
      BY <2>1 DEF SynchronizedClocksAgree
    <3> QED BY <1>5, <2>0, <2>1, <3>1
  <2>2. CASE /\ IsCommitTo(m, n) /\ air[m].content.session = master[n].session
             /\ local'[n] = air[m].content.offset
    <3>1. /\ air[m].content.offset.master = boot[m]
          /\ n \in Tracked(targets[m])
             => targets[m][n].result \in {Nothing, Offset(m, n)}
      BY <2>0, <2>2 DEF CommitsAreCurrent
    <3>2. air[m].content.offset \in Offsets
      BY <2>0, <2>2 DEF SynchronizerTypeOK, Requests, Responses, Commits, IsCommitTo
    <3>3. IsTimeOf(n, air[m].content.offset.node)
      BY <2>0, <2>2 DEF TimesAreOfTheirBoot
    <3>4. local'[n] = Offset(m, n)
      BY <1>1, <2>0, <2>2, <3>1, <3>2, <3>3 DEF IsOffsetOf
    <3> QED BY <1>5, <2>0, <3>1, <3>4
  <2> QED BY <1>2, <2>1, <2>2 DEF Committed
<1> QED BY <1>3, <1>4, <1>6, <1>7

(* What a step leaves as it is.                                            *)
LEMMA Unwritten ==
    ASSUME TimeInv, NEW n \in Nodes
    PROVE  /\ request'[n] = request[n] /\ Tracked(targets[n]) \subseteq Tracked(targets'[n])
              => Requesting(n)
           /\ reply'[n] = reply[n] => Replying(n)
           /\ air'[n] = air[n] => Sending(n)
           /\ local'[n] = local[n] => Committed(n)
           /\ \A m \in Nodes : targets'[n][m] = targets[n][m] => Measured(n, m)
<1>1. ASSUME NEW m \in Nodes, targets'[n][m] = targets[n][m]
      PROVE  Measured(n, m)
  <2>1. CASE targets[n][m] = Nothing
    BY <1>1, <2>1 DEF Measured
  <2>2. CASE m \in Tracked(targets[n])
    BY <1>1, <2>2, HeldOffsets DEF Measured
  <2> QED BY <2>1, <2>2 DEF Tracked
<1> QED BY <1>1 DEF Requesting, Replying, Sending, Committed, TimeInv, OwnTimesAreCurrent

(* The master of a session, and the session.                               *)
LEMMA MasterType ==
    ASSUME ElectionInv, NEW n \in Nodes, master[n] # NoMaster
    PROVE  master[n].node \in Nodes /\ master[n].session \in Sessions
BY DEF ElectionInv, ElectionTypeOK, Masters

(* What a master works with in a cycle: what it has, or targets to measure *)
(* anew, with the result of the last time.                                 *)
IsNewTarget(n, m, target) ==
    /\ target \in Targets /\ target.state = "Sampling" /\ target.samples = {}
    /\ \/ target.result = Nothing
       \/ m \in Tracked(targets[n]) /\ target.result = targets[n][m].result

(* The lemma this predicate is for.                                        *)
LEMMA CurrentTargetsFacts ==
    ASSUME ElectionInv, TimeInv, NEW n \in Nodes
    PROVE  /\ CurrentTargets(n) \in [Nodes -> Targets \cup {Nothing}]
           /\ \A m \in Nodes : CurrentTargets(n)[m] # Nothing =>
                 \/ CurrentTargets(n)[m] = targets[n][m]
                 \/ IsNewTarget(n, m, CurrentTargets(n)[m])
<1>1. /\ targets[n] \in [Nodes -> Targets \cup {Nothing}]
      /\ table[n] \in [Nodes -> Status \cup {NotSeen}]
  BY DEF TimeInv, SynchronizerTypeOK, ElectionInv, ElectionTypeOK
<1>2. ASSUME NEW nodeId \in Nat
      PROVE  /\ NewTarget(nodeId) \in Targets /\ NewTarget(nodeId).state = "Sampling"
             /\ NewTarget(nodeId).samples = {} /\ NewTarget(nodeId).result = Nothing
  BY DEF NewTarget, Targets
<1>3. ASSUME NEW m \in Nodes, m \in Seen(n, table[n]) \ {n}
      PROVE  table[n][m].id \in Nat
  BY <1>1, <1>3 DEF Seen, Status
<1>4. ASSUME NEW known, NEW m \in Nodes
      PROVE  \/ DiscoverNewTargets(n, table[n], known)[m] = known[m]
             \/ /\ table[n][m].id \in Nat
                /\ DiscoverNewTargets(n, table[n], known)[m] = NewTarget(table[n][m].id)
  BY <1>3 DEF DiscoverNewTargets
<1>5. ASSUME NEW m \in Nodes, RebuildTargets(n, targets[n])[m] # Nothing
      PROVE  IsNewTarget(n, m, RebuildTargets(n, targets[n])[m])
  <2> DEFINE new == DiscoverNewTargets(n, table[n], NoTargets)[m]
  <2>1. RebuildTargets(n, targets[n])[m] =
           IF new # Nothing /\ targets[n][m] # Nothing /\ targets[n][m].id = new.id
           THEN [new EXCEPT !.result = targets[n][m].result] ELSE new
    BY DEF RebuildTargets
  <2>2. new = Nothing \/ (table[n][m].id \in Nat /\ new = NewTarget(table[n][m].id))
    BY <1>4 DEF NoTargets
  <2>3. new # Nothing => /\ new \in Targets /\ new.state = "Sampling"
                         /\ new.samples = {} /\ new.result = Nothing
    BY <1>2, <2>2
  <2> HIDE DEF new
  <2>4. CASE RebuildTargets(n, targets[n])[m] = new
    BY <1>5, <2>3, <2>4 DEF IsNewTarget
  <2>5. CASE /\ new # Nothing /\ targets[n][m] # Nothing
             /\ RebuildTargets(n, targets[n])[m] =
                   [new EXCEPT !.result = targets[n][m].result]
    <3>1. targets[n][m].result \in Offsets \cup {Nothing}
      BY <1>1, <2>5 DEF Targets
    <3> QED BY <2>3, <2>5, <3>1 DEF IsNewTarget, Targets, Tracked
  <2> QED BY <2>1, <2>4, <2>5
<1> DEFINE known == IF due[n] THEN RebuildTargets(n, targets[n]) ELSE targets[n]
           current == DiscoverNewTargets(n, table[n], known)
<1>6. current = CurrentTargets(n)
  BY DEF CurrentTargets
<1>7. ASSUME NEW m \in Nodes, current[m] # Nothing
      PROVE  \/ current[m] = targets[n][m]
             \/ IsNewTarget(n, m, current[m])
  <2>1. CASE table[n][m].id \in Nat /\ current[m] = NewTarget(table[n][m].id)
    BY <1>2, <2>1 DEF IsNewTarget
  <2>2. CASE current[m] = known[m]
    BY <1>5, <1>7, <2>2
  <2> QED BY <1>4, <2>1, <2>2
<1>8. DOMAIN current = Nodes /\ current = [m \in Nodes |-> current[m]]
  BY DEF DiscoverNewTargets
<1>9. ASSUME NEW m \in Nodes PROVE current[m] \in Targets \cup {Nothing}
  BY <1>1, <1>7 DEF IsNewTarget
<1> HIDE DEF current
<1>10. current \in [Nodes -> Targets \cup {Nothing}]
  BY <1>8, <1>9
<1> QED BY <1>6, <1>7, <1>10

(* Measuring anew keeps what is known.                                     *)
LEMMA NewTargetMeasures ==
    ASSUME TimeInv, NEW n \in Nodes, IsSelfMaster(n), NEW m \in Nodes,
           \/ targets'[n][m] = targets[n][m]
           \/ IsNewTarget(n, m, targets'[n][m])
    PROVE  Measured(n, m)
BY Unwritten DEF IsNewTarget, Measured

(* A master's entry for one node changes.                                  *)
LEMMA OneTarget ==
    ASSUME TimeInv, NEW n \in Nodes, NEW m \in Nodes, NEW target \in Targets,
           targets' = [targets EXCEPT ![n][m] = target]
    PROVE  /\ targets' \in [Nodes -> [Nodes -> Targets \cup {Nothing}]]
           /\ targets'[n][m] = target
           /\ \A k, l \in Nodes : k # n \/ l # m => targets'[k][l] = targets[k][l]
BY DEF TimeInv, SynchronizerTypeOK

(* NtpTimeSynchronizer::UpdateMaster.                                      *)
LEMMA UpdateMasterExchanges ==
    ASSUME ElectionInv, TimeInv, NEW n \in Nodes, UpdateMaster(n),
           UNCHANGED <<phase, master, boot>>
    PROVE  Exchanges /\ SynchronizerTypeOK'
<1> DEFINE known == CurrentTargets(n)
<1>1. /\ IsSelfMaster(n) /\ request[n] = Nothing /\ UNCHANGED <<reply, local>>
      /\ \/ \E m \in Ready(known) :
               \/ TrySendRequest(n, m, known[m])
               \/ FinalizeCurrentTarget(n, m, known[m])
               \/ TrySendCommit(n, m, known[m])
         \/ targets' = [targets EXCEPT ![n] = known] /\ UNCHANGED <<air, request>>
  BY DEF UpdateMaster, nodeVars
<1>2. /\ known \in [Nodes -> Targets \cup {Nothing}]
      /\ \A m \in Nodes : known[m] # Nothing =>
            known[m] = targets[n][m] \/ IsNewTarget(n, m, known[m])
  BY CurrentTargetsFacts
<1>3. master[n].session \in Sessions /\ boot[n] \in Nat
      /\ boot' = boot /\ boot \in [Nodes -> Nat]
  BY <1>1, MasterType DEF IsSelfMaster, TimeInv, SynchronizerTypeOK
<1>4. \A k \in Nodes : Replying(k) /\ Committed(k)
  BY <1>1, Unwritten
<1>5. /\ air \in [Nodes -> Requests \cup Responses \cup Commits \cup {Nothing}]
      /\ request \in [Nodes -> [node : Nodes, id : Nat, sequence : Sequences, t1 : Nat]
                               \cup {Nothing}]
      /\ targets \in [Nodes -> [Nodes -> Targets \cup {Nothing}]]
      /\ reply' \in [Nodes -> [to : Nodes, sequence : Sequences,
                              content : [session : Sessions, t1 : Nat, t2 : Nat]]
                             \cup {Nothing}]
      /\ local' \in [Nodes -> Offsets \cup {Nothing}]
  BY <1>1 DEF TimeInv, SynchronizerTypeOK
<1>6. ASSUME NEW m \in Ready(known)
      PROVE  /\ m \in Nodes /\ known[m] \in Targets /\ known[m] # Nothing
             /\ \/ known[m] = targets[n][m] /\ m \in Tracked(targets[n])
                \/ IsNewTarget(n, m, known[m])
  BY <1>2 DEF Ready, InState, Tracked
<1>11. ASSUME NEW k \in Nodes, request'[k] = request[k],
              k = n \/ \A l \in Nodes : targets'[k][l] = targets[k][l]
       PROVE  Requesting(k)
  BY <1>1, <1>11, Unwritten DEF Requesting, Tracked
<1> HIDE DEF known
<1>7. ASSUME NEW m \in Ready(known), TrySendRequest(n, m, known[m])
      PROVE  Exchanges /\ SynchronizerTypeOK'
  <2> DEFINE target == [known[m] EXCEPT !.attempts = @ + 1]
  <2>1. target \in Targets
    BY <1>6 DEF Targets
  <2>2. targets' = [targets EXCEPT ![n][m] = target]
    BY <1>7 DEF TrySendRequest
  <2>3. \/ IsNewTarget(n, m, target)
        \/ /\ m \in Tracked(targets[n])
           /\ target.samples = targets[n][m].samples
           /\ target.state = targets[n][m].state
           /\ target.result = targets[n][m].result
    BY <1>6, <2>1 DEF IsNewTarget, Targets
  <2> HIDE DEF target
  <2>4. /\ targets' \in [Nodes -> [Nodes -> Targets \cup {Nothing}]]
        /\ targets'[n][m] = target
        /\ \A k, l \in Nodes : k # n \/ l # m => targets'[k][l] = targets[k][l]
    BY <1>6, <2>1, <2>2, OneTarget
  <2>5. Measured(n, m)
    <3>1. CASE IsNewTarget(n, m, target)
      BY <1>1, <1>6, <2>4, <3>1, NewTargetMeasures
    <3>2. CASE /\ m \in Tracked(targets[n])
               /\ target.samples = targets[n][m].samples
               /\ target.state = targets[n][m].state
               /\ target.result = targets[n][m].result
      BY <2>4, <3>2, HeldOffsets DEF Measured
    <3> QED BY <2>3, <3>1, <3>2
  <2>6. \A k, l \in Nodes : Measured(k, l)
    BY <2>4, <2>5, Unwritten
  <2>7. CASE UNCHANGED <<air, request>>
    <3>1. \A k \in Nodes : Requesting(k) /\ Sending(k)
      BY <1>11, <2>4, <2>7, Unwritten
    <3> QED BY <1>3, <1>4, <1>5, <2>4, <2>6, <2>7, <3>1 DEF Exchanges, SynchronizerTypeOK
  <2>8. ASSUME NEW s \in Sequences,
               air' = [air EXCEPT ![n] = Packet("Request", m, known[m].id, s,
                          [session |-> master[n].session, t1 |-> boot[n]])],
               request' = [request EXCEPT ![n] =
                          [node |-> m, id |-> known[m].id, sequence |-> s, t1 |-> boot[n]]]
        PROVE  Exchanges /\ SynchronizerTypeOK'
    <3>1. known[m].id \in Nat
      BY <1>6 DEF Targets
    <3> DEFINE packet == Packet("Request", m, known[m].id, s,
                                [session |-> master[n].session, t1 |-> boot[n]])
               awaited == [node |-> m, id |-> known[m].id, sequence |-> s, t1 |-> boot[n]]
    <3>2. packet \in Requests /\ packet.type = "Request"
      BY <1>3, <1>6, <3>1 DEF Packet, Requests
    <3>3. /\ awaited \in [node : Nodes, id : Nat, sequence : Sequences, t1 : Nat]
          /\ awaited.t1 = boot[n]
      BY <1>3, <1>6, <3>1
    <3>4. air' = [air EXCEPT ![n] = packet] /\ request' = [request EXCEPT ![n] = awaited]
      BY <2>8
    <3>8. awaited.node = m
      OBVIOUS
    <3> HIDE DEF packet, awaited
    <3>5. /\ air' \in [Nodes -> Requests \cup Responses \cup Commits \cup {Nothing}]
          /\ request' \in [Nodes -> [node : Nodes, id : Nat, sequence : Sequences, t1 : Nat]
                                    \cup {Nothing}]
          /\ air'[n] = packet /\ request'[n] = awaited
          /\ \A k \in Nodes \ {n} : air'[k] = air[k] /\ request'[k] = request[k]
      BY <1>5, <3>2, <3>3, <3>4
    <3>6. Requesting(n) /\ Sending(n)
      <4>1. awaited.node = m /\ targets'[n][m] # Nothing
        BY <2>1, <2>4, <3>8, NothingAssumption
      <4> QED BY <1>1, <1>6, <3>2, <3>3, <3>5, <4>1 DEF Requesting, Sending, Tracked
    <3>7. \A k \in Nodes : Requesting(k) /\ Sending(k)
      BY <1>11, <2>4, <3>5, <3>6, Unwritten
    <3> QED BY <1>3, <1>4, <1>5, <2>4, <2>6, <3>5, <3>7 DEF Exchanges, SynchronizerTypeOK
  <2> QED BY <1>7, <2>7, <2>8 DEF TrySendRequest, Sequences
<1>8. ASSUME NEW m \in Ready(known), FinalizeCurrentTarget(n, m, known[m])
      PROVE  Exchanges /\ SynchronizerTypeOK'
  <2>1. UNCHANGED <<air, request>>
    BY <1>8 DEF FinalizeCurrentTarget
  <2>2. ASSUME NEW target \in Targets, targets' = [targets EXCEPT ![n][m] = target],
               \A sample \in target.samples : IsOffsetOf(n, m, sample),
               target.state = "Committing" => IsOffsetOf(n, m, target.result),
               \/ target.result = Nothing \/ IsOffsetOf(n, m, target.result)
               \/ m \in Tracked(targets[n]) /\ target.result = targets[n][m].result
        PROVE  Exchanges /\ SynchronizerTypeOK'
    <3>1. /\ targets' \in [Nodes -> [Nodes -> Targets \cup {Nothing}]]
          /\ targets'[n][m] = target
          /\ \A k, l \in Nodes : k # n \/ l # m => targets'[k][l] = targets[k][l]
      BY <1>6, <2>2, OneTarget
    <3>2. Measured(n, m)
      BY <1>1, <2>2, <3>1 DEF Measured
    <3>3. \A k, l \in Nodes : Measured(k, l)
      BY <3>1, <3>2, Unwritten
    <3>4. \A k \in Nodes : Requesting(k) /\ Sending(k)
      BY <1>11, <2>1, <3>1, Unwritten
    <3> QED BY <1>3, <1>4, <1>5, <2>1, <3>1, <3>3, <3>4 DEF Exchanges, SynchronizerTypeOK
  <2>3. \A sample \in known[m].samples :
           sample \in Offsets /\ IsOffsetOf(n, m, sample)
    BY <1>6, HeldOffsets DEF IsNewTarget, Targets
  <2>4. ASSUME NEW sample \in known[m].samples,
               targets' = [targets EXCEPT ![n][m] =
                              [known[m] EXCEPT !.result = sample, !.state = "Committing"]]
        PROVE  Exchanges /\ SynchronizerTypeOK'
    <3> DEFINE target == [known[m] EXCEPT !.result = sample, !.state = "Committing"]
    <3>1. /\ target \in Targets /\ target.samples = known[m].samples
          /\ target.result = sample
      BY <1>6, <2>3, <2>4 DEF Targets
    <3>2. targets' = [targets EXCEPT ![n][m] = target]
      BY <2>4
    <3> HIDE DEF target
    <3> QED BY <2>2, <2>3, <2>4, <3>1, <3>2
  <2>5. ASSUME known[m].samples = {},
               targets' = [targets EXCEPT ![n][m] =
                              [known[m] EXCEPT !.attempts = 0, !.state = "Waiting"]]
        PROVE  Exchanges /\ SynchronizerTypeOK'
    <3> DEFINE target == [known[m] EXCEPT !.attempts = 0, !.state = "Waiting"]
    <3>1. /\ target \in Targets /\ target.samples = {} /\ target.state = "Waiting"
          /\ target.result = known[m].result
      BY <1>6, <2>5 DEF Targets
    <3>2. targets' = [targets EXCEPT ![n][m] = target]
      BY <2>5
    <3>3. \/ known[m].result = Nothing
          \/ m \in Tracked(targets[n]) /\ known[m].result = targets[n][m].result
      BY <1>6 DEF IsNewTarget
    <3> HIDE DEF target
    <3> QED BY <2>2, <3>1, <3>2, <3>3
  <2> QED BY <1>8, <2>4, <2>5 DEF FinalizeCurrentTarget
<1>9. ASSUME NEW m \in Ready(known), TrySendCommit(n, m, known[m])
      PROVE  Exchanges /\ SynchronizerTypeOK'
  <2> DEFINE target == [known[m] EXCEPT !.attempts = 0, !.samples = {},
                                        !.state = "Completed"]
             packet == Packet("Commit", m, known[m].id, 0,
                              [session |-> master[n].session, offset |-> known[m].result])
  <2>1. known[m].state = "Committing" /\ request' = request
    BY <1>9 DEF TrySendCommit
  <2>2. /\ known[m] = targets[n][m] /\ m \in Tracked(targets[n])
        /\ IsOffsetOf(n, m, known[m].result) /\ known[m].result \in Offsets
    BY <1>6, <2>1, HeldOffsets DEF IsNewTarget, IsOffsetOf
  <2>3. /\ target \in Targets /\ target.samples = {} /\ target.state = "Completed"
        /\ target.result = known[m].result
    BY <1>6 DEF Targets
  <2>4. /\ packet \in Commits /\ packet.type = "Commit" /\ packet.to = m
        /\ packet.content.offset = known[m].result
    BY <1>3, <1>6, <2>2 DEF Packet, Commits, Targets
  <2>5. targets' = [targets EXCEPT ![n][m] = target] /\ air' = [air EXCEPT ![n] = packet]
    BY <1>9 DEF TrySendCommit
  <2> HIDE DEF target, packet
  <2>6. /\ targets' \in [Nodes -> [Nodes -> Targets \cup {Nothing}]]
        /\ targets'[n][m] = target
        /\ \A k, l \in Nodes : k # n \/ l # m => targets'[k][l] = targets[k][l]
    BY <1>6, <2>3, <2>5, OneTarget
  <2>7. /\ air' \in [Nodes -> Requests \cup Responses \cup Commits \cup {Nothing}]
        /\ air'[n] = packet /\ \A k \in Nodes \ {n} : air'[k] = air[k]
    BY <1>5, <2>4, <2>5
  <2>8. Measured(n, m)
    BY <1>1, <2>2, <2>3, <2>6 DEF Measured
  <2>9. Sending(n)
    BY <2>2, <2>3, <2>4, <2>6, <2>7 DEF Sending
  <2>10. \A k \in Nodes : /\ Requesting(k) /\ Sending(k)
                          /\ \A l \in Nodes : Measured(k, l)
    BY <1>11, <2>1, <2>6, <2>7, <2>8, <2>9, Unwritten
  <2> QED BY <1>3, <1>4, <1>5, <2>1, <2>6, <2>7, <2>10 DEF Exchanges, SynchronizerTypeOK
<1>10. CASE targets' = [targets EXCEPT ![n] = known] /\ UNCHANGED <<air, request>>
  <2>1. /\ targets' \in [Nodes -> [Nodes -> Targets \cup {Nothing}]]
        /\ targets'[n] = known /\ \A k \in Nodes \ {n} : targets'[k] = targets[k]
    BY <1>2, <1>5, <1>10
  <2>2. ASSUME NEW m \in Nodes PROVE Measured(n, m)
    <3>1. CASE known[m] = Nothing
      BY <2>1, <3>1 DEF Measured
    <3>2. CASE known[m] # Nothing
      BY <1>1, <1>2, <2>1, <3>2, NewTargetMeasures
    <3> QED BY <3>1, <3>2
  <2>3. \A k \in Nodes : /\ Requesting(k) /\ Sending(k)
                         /\ \A m \in Nodes : Measured(k, m)
    BY <1>10, <1>11, <2>1, <2>2, Unwritten
  <2> QED BY <1>3, <1>4, <1>5, <1>10, <2>1, <2>3 DEF Exchanges, SynchronizerTypeOK
<1> QED BY <1>1, <1>7, <1>8, <1>9, <1>10

(* The packets, by their type.                                             *)
LEMMA PacketTypes ==
    ASSUME TimeInv, NEW m \in Nodes, air[m] # Nothing
    PROVE  /\ air[m].to \in Nodes
           /\ air[m].type = "Request" => air[m] \in Requests
           /\ air[m].type = "Response" => air[m] \in Responses
           /\ air[m].type = "Commit" => air[m] \in Commits
BY DEF TimeInv, SynchronizerTypeOK, Requests, Responses, Commits

(* NtpTimeSynchronizer::ProcessReceivedPackets.                            *)
LEMMA ReceivingExchanges ==
    ASSUME ElectionInv, TimeInv, NEW m \in Nodes, ProcessReceivedPacket(m),
           UNCHANGED <<phase, master, boot>>
    PROVE  Exchanges /\ SynchronizerTypeOK'
<1> DEFINE packet == air[m]
           n == packet.to
<1>1. /\ packet # Nothing
      /\ \/ packet.type = "Request" /\ HandleRequest(n, m, packet)
         \/ packet.type = "Response" /\ HandleResponse(n, m, packet)
         \/ packet.type = "Commit" /\ HandleCommit(n, m, packet)
      /\ air' = [air EXCEPT ![m] = Nothing] \/ air' = air
  BY DEF ProcessReceivedPacket
<1>2. /\ n \in Nodes
      /\ packet.type = "Request" => packet \in Requests
      /\ packet.type = "Response" => packet \in Responses
      /\ packet.type = "Commit" => packet \in Commits
  BY <1>1, PacketTypes
<1>3. /\ air' \in [Nodes -> Requests \cup Responses \cup Commits \cup {Nothing}]
      /\ \A k \in Nodes : air'[k] \in {Nothing, air[k]}
  BY <1>1 DEF TimeInv, SynchronizerTypeOK
<1>4. \A k \in Nodes : Sending(k)
  BY <1>3, Unwritten DEF Sending
<1>5. /\ boot' = boot /\ boot \in [Nodes -> Nat]
      /\ targets \in [Nodes -> [Nodes -> Targets \cup {Nothing}]]
      /\ request \in [Nodes -> [node : Nodes, id : Nat, sequence : Sequences, t1 : Nat]
                               \cup {Nothing}]
      /\ reply \in [Nodes -> [to : Nodes, sequence : Sequences,
                              content : [session : Sessions, t1 : Nat, t2 : Nat]]
                             \cup {Nothing}]
      /\ local \in [Nodes -> Offsets \cup {Nothing}]
  BY DEF TimeInv, SynchronizerTypeOK
<1>6. packet.type = "Response" => IsTimeOf(m, packet.content.t2)
  BY <1>1 DEF TimeInv, TimesAreOfTheirBoot
<1>7. packet.type = "Commit" => IsCommitTo(m, n)
  BY <1>1 DEF IsCommitTo
<1>8. ASSUME UNCHANGED <<targets, request>>
      PROVE  \A k \in Nodes : Requesting(k) /\ \A l \in Nodes : Measured(k, l)
  BY <1>8, Unwritten
<1> HIDE DEF packet, n
<1>9. CASE packet.type = "Request" /\ HandleRequest(n, m, packet)
  <2>1. UNCHANGED <<targets, request, local>>
    BY <1>9 DEF HandleRequest, masterVars
  <2>2. /\ reply' \in [Nodes -> [to : Nodes, sequence : Sequences,
                                content : [session : Sessions, t1 : Nat, t2 : Nat]]
                               \cup {Nothing}]
        /\ \A k \in Nodes : Replying(k)
    <3>1. CASE UNCHANGED reply
      BY <1>5, <3>1, Unwritten
    <3>2. CASE /\ IsFromMaster(n, m, packet)
               /\ reply' = [reply EXCEPT ![n] =
                     [to |-> m, sequence |-> packet.sequence,
                      content |-> [session |-> packet.content.session,
                                   t1 |-> packet.content.t1, t2 |-> boot[n]]]]
      <4> DEFINE answer == [to |-> m, sequence |-> packet.sequence,
                            content |-> [session |-> packet.content.session,
                                         t1 |-> packet.content.t1, t2 |-> boot[n]]]
      <4>1. /\ answer \in [to : Nodes, sequence : Sequences,
                           content : [session : Sessions, t1 : Nat, t2 : Nat]]
            /\ answer.content.t2 = boot[n]
        BY <1>2, <1>5, <1>9 DEF Requests
      <4>2. reply' = [reply EXCEPT ![n] = answer]
        BY <3>2
      <4> HIDE DEF answer
      <4>3. reply'[n] = answer /\ \A k \in Nodes \ {n} : reply'[k] = reply[k]
        BY <1>2, <1>5, <4>2
      <4>4. Replying(n)
        BY <3>2, <4>1, <4>3 DEF Replying, IsFromMaster
      <4>5. \A k \in Nodes : Replying(k)
        BY <4>3, <4>4, Unwritten
      <4> QED BY <1>2, <1>5, <4>1, <4>2, <4>5
    <3> QED BY <1>9, <3>1, <3>2 DEF HandleRequest
  <2>3. \A k \in Nodes : Committed(k)
    BY <2>1, Unwritten
  <2> QED BY <1>3, <1>4, <1>5, <1>8, <2>1, <2>2, <2>3 DEF Exchanges, SynchronizerTypeOK
<1>10. CASE packet.type = "Response" /\ HandleResponse(n, m, packet)
  <2>1. UNCHANGED <<reply, local>>
    BY <1>10 DEF HandleResponse, nodeVars
  <2>2. \A k \in Nodes : Replying(k) /\ Committed(k)
    BY <2>1, Unwritten
  <2>3. CASE UNCHANGED <<request, targets>>
    BY <1>3, <1>4, <1>5, <1>8, <2>1, <2>2, <2>3 DEF Exchanges, SynchronizerTypeOK
  <2>4. CASE IsAwaited(n, m, packet)
    <3> DEFINE sample == [master |-> packet.content.t1, node |-> packet.content.t2]
               target == [targets[n][m] EXCEPT !.samples = @ \cup {sample}]
    <3>1. /\ request' = [request EXCEPT ![n] = Nothing]
          /\ targets' = [targets EXCEPT ![n][m] = target]
      BY <1>2, <1>5, <1>10, <2>4 DEF HandleResponse
    <3>2. m \in Tracked(targets[n]) /\ packet.content.t1 = boot[n]
      BY <1>2, <2>4 DEF IsAwaited, TimeInv, OwnTimesAreCurrent
    <3>3. sample \in Offsets /\ IsOffsetOf(n, m, sample)
      BY <1>2, <1>6, <1>10, <3>2 DEF IsOffsetOf, Offsets, Responses
    <3> HIDE DEF sample
    <3>4. /\ targets[n][m] \in Targets /\ IsSelfMaster(n)
          /\ \A old \in targets[n][m].samples : IsOffsetOf(n, m, old)
          /\ targets[n][m].state = "Committing" => IsOffsetOf(n, m, targets[n][m].result)
      BY <1>2, <3>2, HeldOffsets
    <3>5. /\ target \in Targets /\ target.samples = targets[n][m].samples \cup {sample}
          /\ target.state = targets[n][m].state /\ target.result = targets[n][m].result
      BY <3>3, <3>4 DEF Targets
    <3> HIDE DEF target
    <3>6. /\ targets' \in [Nodes -> [Nodes -> Targets \cup {Nothing}]]
          /\ targets'[n][m] = target
          /\ \A k, l \in Nodes : k # n \/ l # m => targets'[k][l] = targets[k][l]
      BY <1>2, <3>1, <3>5, OneTarget
    <3>7. Measured(n, m)
      BY <3>2, <3>3, <3>4, <3>5, <3>6 DEF Measured
    <3>8. \A k, l \in Nodes : Measured(k, l)
      BY <3>6, <3>7, Unwritten
    <3>9. /\ request' \in [Nodes -> [node : Nodes, id : Nat, sequence : Sequences, t1 : Nat]
                                    \cup {Nothing}]
          /\ request'[n] = Nothing /\ \A k \in Nodes \ {n} : request'[k] = request[k]
      BY <1>2, <1>5, <3>1
    <3>10. \A k \in Nodes \ {n} : Tracked(targets[k]) \subseteq Tracked(targets'[k])
      BY <3>6 DEF Tracked
    <3>11. \A k \in Nodes : Requesting(k)
      BY <3>9, <3>10, Unwritten DEF Requesting
    <3> QED BY <1>3, <1>4, <1>5, <2>1, <2>2, <3>6, <3>8, <3>9, <3>11
            DEF Exchanges, SynchronizerTypeOK
  <2> QED BY <1>10, <2>3, <2>4 DEF HandleResponse
<1>11. CASE packet.type = "Commit" /\ HandleCommit(n, m, packet)
  <2>1. UNCHANGED <<targets, request, reply>>
    BY <1>11 DEF HandleCommit, masterVars
  <2>2. \A k \in Nodes : Replying(k)
    BY <2>1, Unwritten
  <2>3. /\ local' \in [Nodes -> Offsets \cup {Nothing}]
        /\ \A k \in Nodes : Committed(k)
    <3>1. CASE UNCHANGED local
      BY <1>5, <3>1, Unwritten
    <3>2. CASE /\ IsFromMaster(n, m, packet)
               /\ local' = [local EXCEPT ![n] = packet.content.offset]
      <4>1. packet.content.offset \in Offsets
        BY <1>2, <1>11 DEF Commits
      <4>2. /\ local'[n] = packet.content.offset
            /\ \A k \in Nodes \ {n} : local'[k] = local[k]
        BY <1>2, <1>5, <3>2
      <4>3. Committed(n)
        BY <1>7, <1>11, <3>2, <4>2 DEF Committed, IsFromMaster, packet
      <4>4. \A k \in Nodes : Committed(k)
        BY <4>2, <4>3, Unwritten
      <4> QED BY <1>2, <1>5, <3>2, <4>1, <4>4
    <3> QED BY <1>11, <3>1, <3>2 DEF HandleCommit
  <2> QED BY <1>3, <1>4, <1>5, <1>8, <2>1, <2>2, <2>3 DEF Exchanges, SynchronizerTypeOK
<1> QED BY <1>1, <1>9, <1>10, <1>11 DEF packet, n

(* NtpTimeSynchronizer::TrySendPendingResponse.                            *)
LEMMA RespondingExchanges ==
    ASSUME ElectionInv, TimeInv, NEW n \in Nodes, TrySendPendingResponse(n),
           UNCHANGED <<phase, master, boot>>
    PROVE  Exchanges /\ SynchronizerTypeOK'
<1> DEFINE packet == Packet("Response", reply[n].to, id[n], reply[n].sequence,
                            reply[n].content)
<1>1. /\ IsFollower(n) /\ reply[n] # Nothing
      /\ air' = [air EXCEPT ![n] = packet]
      /\ reply' = [reply EXCEPT ![n] = Nothing]
      /\ UNCHANGED <<targets, request, local>>
  BY DEF TrySendPendingResponse, masterVars
<1>2. SynchronizerTypeOK /\ id[n] \in Nat
  <2>1. id \in [Nodes -> Nat]
    BY DEF ElectionInv, ElectionTypeOK
  <2> QED BY <2>1 DEF TimeInv
<1>3. packet \in Responses /\ packet.type = "Response" /\ packet.content = reply[n].content
  BY <1>1, <1>2 DEF SynchronizerTypeOK, Packet, Responses
<1>4. reply[n].content.t2 = boot[n]
  BY <1>1 DEF TimeInv, OwnTimesAreCurrent
<1> HIDE DEF packet
<1>5. /\ air' \in [Nodes -> Requests \cup Responses \cup Commits \cup {Nothing}]
      /\ air'[n] = packet /\ \A k \in Nodes \ {n} : air'[k] = air[k]
  BY <1>1, <1>2, <1>3 DEF SynchronizerTypeOK
<1>6. /\ reply' \in [Nodes -> [to : Nodes, sequence : Sequences,
                              content : [session : Sessions, t1 : Nat, t2 : Nat]]
                             \cup {Nothing}]
      /\ reply'[n] = Nothing /\ \A k \in Nodes \ {n} : reply'[k] = reply[k]
  BY <1>1, <1>2 DEF SynchronizerTypeOK
<1>7. Sending(n) /\ Replying(n)
  BY <1>1, <1>3, <1>4, <1>5, <1>6 DEF Sending, Replying
<1>8. \A k \in Nodes : /\ Sending(k) /\ Replying(k) /\ Requesting(k) /\ Committed(k)
                       /\ \A l \in Nodes : Measured(k, l)
  BY <1>1, <1>5, <1>6, <1>7, Unwritten
<1> QED BY <1>1, <1>2, <1>5, <1>6, <1>8 DEF Exchanges, SynchronizerTypeOK

(* A packet is lost.                                                       *)
LEMMA LosingExchanges ==
    ASSUME TimeInv, NEW m \in Nodes, LosePacket(m), UNCHANGED <<phase, master, boot>>
    PROVE  Exchanges /\ SynchronizerTypeOK'
<1>1. UNCHANGED <<targets, request, reply, local>> /\ air' = [air EXCEPT ![m] = Nothing]
  BY DEF LosePacket, masterVars, nodeVars
<1>2. /\ air' \in [Nodes -> Requests \cup Responses \cup Commits \cup {Nothing}]
      /\ \A k \in Nodes : air'[k] \in {Nothing, air[k]}
  BY <1>1 DEF TimeInv, SynchronizerTypeOK
<1>3. \A k \in Nodes : Sending(k)
  BY <1>2 DEF Sending
<1>4. \A k \in Nodes : /\ Replying(k) /\ Requesting(k) /\ Committed(k)
                       /\ \A l \in Nodes : Measured(k, l)
  BY <1>1, Unwritten
<1> QED BY <1>1, <1>2, <1>3, <1>4 DEF Exchanges, SynchronizerTypeOK, TimeInv

(* Time passes for the master: a request or a period is over.              *)
LEMMA WaitingExchanges ==
    ASSUME TimeInv, NEW n \in Nodes, TimePasses(n), UNCHANGED <<phase, master, boot>>
    PROVE  Exchanges /\ SynchronizerTypeOK'
<1>0. SynchronizerTypeOK
  BY DEF TimeInv
<1>1. UNCHANGED <<air, reply, local>>
  BY DEF TimePasses, RequestTimesOut, RetryDelayPasses, PeriodPasses, nodeVars
<1>2. \A k \in Nodes : Sending(k) /\ Replying(k) /\ Committed(k)
  BY <1>1, Unwritten
<1>3. CASE request' = [request EXCEPT ![n] = Nothing] /\ UNCHANGED targets
  <2>1. /\ request' \in [Nodes -> [node : Nodes, id : Nat, sequence : Sequences, t1 : Nat]
                                  \cup {Nothing}]
        /\ \A k \in Nodes : request'[k] \in {Nothing, request[k]}
    BY <1>0, <1>3 DEF SynchronizerTypeOK
  <2>2. \A k \in Nodes : Requesting(k) /\ \A l \in Nodes : Measured(k, l)
    BY <1>3, <2>1, Unwritten DEF Requesting
  <2> QED BY <1>0, <1>1, <1>2, <1>3, <2>1, <2>2 DEF Exchanges, SynchronizerTypeOK
<1>4. ASSUME NEW m \in InState(targets[n], {"Waiting"}), UNCHANGED request,
             targets' = [targets EXCEPT ![n][m].state = "Sampling"]
      PROVE  Exchanges /\ SynchronizerTypeOK'
  <2> DEFINE target == [targets[n][m] EXCEPT !.state = "Sampling"]
  <2>1. m \in Tracked(targets[n]) /\ m \in Nodes
    BY DEF InState, Tracked
  <2>2. targets' = [targets EXCEPT ![n][m] = target]
    BY <1>0, <1>4, <2>1 DEF SynchronizerTypeOK
  <2>3. /\ targets[n][m] \in Targets /\ IsSelfMaster(n)
        /\ \A old \in targets[n][m].samples : IsOffsetOf(n, m, old)
    BY <2>1, HeldOffsets
  <2>4. /\ target \in Targets /\ target.samples = targets[n][m].samples
        /\ target.state = "Sampling" /\ target.result = targets[n][m].result
    BY <2>3 DEF Targets
  <2> HIDE DEF target
  <2>5. /\ targets' \in [Nodes -> [Nodes -> Targets \cup {Nothing}]]
        /\ targets'[n][m] = target
        /\ \A k, l \in Nodes : k # n \/ l # m => targets'[k][l] = targets[k][l]
    BY <2>1, <2>2, <2>4, OneTarget
  <2>6. Measured(n, m)
    BY <2>1, <2>3, <2>4, <2>5 DEF Measured
  <2>7. \A k, l \in Nodes : Measured(k, l)
    BY <2>5, <2>6, Unwritten
  <2>8. \A k \in Nodes : Tracked(targets[k]) \subseteq Tracked(targets'[k])
    BY <2>4, <2>5, NothingAssumption DEF Tracked
  <2>9. \A k \in Nodes : Requesting(k)
    BY <1>4, <2>8, Unwritten
  <2> QED BY <1>0, <1>1, <1>2, <1>4, <2>5, <2>7, <2>9 DEF Exchanges, SynchronizerTypeOK
<1>5. CASE UNCHANGED <<request, targets>>
  <2>1. \A k \in Nodes : Requesting(k) /\ \A l \in Nodes : Measured(k, l)
    BY <1>5, Unwritten
  <2> QED BY <1>0, <1>1, <1>2, <1>5, <2>1 DEF Exchanges, SynchronizerTypeOK
<1> QED BY <1>3, <1>4, <1>5 DEF TimePasses, RequestTimesOut, RetryDelayPasses, PeriodPasses

(* The invariant holds at the start, ...                                   *)
LEMMA InitTime == Init => TimeInv
<1> SUFFICES ASSUME Init PROVE TimeInv
  OBVIOUS
<1>1. /\ boot = [n \in Nodes |-> 0] /\ air = [n \in Nodes |-> Nothing]
      /\ targets = [n \in Nodes |-> NoTargets] /\ request = [n \in Nodes |-> Nothing]
      /\ reply = [n \in Nodes |-> Nothing] /\ local = [n \in Nodes |-> Nothing]
  BY DEF Init
<1>2. NoTargets = [n \in Nodes |-> Nothing]
  BY DEF NoTargets
<1>3. SynchronizerTypeOK
  BY <1>1, <1>2 DEF SynchronizerTypeOK
<1>4. \A n, m \in Nodes :
         /\ air[n] = Nothing /\ request[n] = Nothing /\ reply[n] = Nothing
         /\ local[n] = Nothing /\ targets[n][m] = Nothing
  BY <1>1, <1>2
<1> QED BY <1>3, <1>4 DEF TimeInv, OwnTimesAreCurrent, TimesAreOfTheirBoot,
           CommitsAreCurrent, SynchronizedClocksAgree, Tracked, IsCommitTo

(* ... and every step keeps it.                                            *)
LEMMA NextTime ==
    ASSUME ElectionInv, ElectionInv', TimeInv, [Next]_vars
    PROVE  TimeInv'
<1>1. CASE UNCHANGED vars
  <2>1. UNCHANGED <<phase, master, boot, air, targets, request, reply, local>>
    BY <1>1 DEF vars, electionVars, synchronizerVars, masterVars, nodeVars
  <2>2. \A n \in Nodes : /\ Sending(n) /\ Replying(n) /\ Requesting(n) /\ Committed(n)
                         /\ \A m \in Nodes : Measured(n, m)
    BY <2>1, Unwritten
  <2>3. SynchronizerTypeOK'
    BY <2>1 DEF TimeInv, SynchronizerTypeOK
  <2> QED BY <2>1, <2>2, <2>3, ExchangesKeepTime DEF Exchanges
<1>2. ASSUME NEW n \in Nodes,
             \/ Electing(n, Announces(n))
             \/ \E m \in Nodes : Electing(n, Hears(n, m) \/ NodeExpires(n, m))
             \/ Electing(n, PowerOff(n))
             \/ Restart(n)
      PROVE  TimeInv'
  BY <1>2, ElectionEffect, ElectingKeepsTime DEF TimeInv, SynchronizerTypeOK
<1>3. ASSUME NEW n \in Nodes,
             \/ Exchanging(UpdateMaster(n) \/ TrySendPendingResponse(n))
             \/ Exchanging(ProcessReceivedPacket(n) \/ LosePacket(n))
             \/ Exchanging(TimePasses(n))
      PROVE  TimeInv'
  <2>1. /\ UNCHANGED <<phase, master, boot>>
        /\ \/ UpdateMaster(n) \/ TrySendPendingResponse(n)
           \/ ProcessReceivedPacket(n) \/ LosePacket(n) \/ TimePasses(n)
    BY <1>3 DEF Exchanging
  <2>2. Exchanges /\ SynchronizerTypeOK'
    BY <2>1, UpdateMasterExchanges, RespondingExchanges, ReceivingExchanges,
       LosingExchanges, WaitingExchanges
  <2> QED BY <2>2, ExchangesKeepTime
<1> QED BY <1>1, <1>2, <1>3 DEF Next

(* A node that is synchronized holds the offset between the clocks that    *)
(* run now, whatever was restarted, lost, repeated or late, and its master *)
(* the same.                                                               *)
THEOREM ClocksAgree ==
    ASSUME ElectionAssumption PROVE Spec => []SynchronizedClocksAgree
<1>1. TimeInv => SynchronizedClocksAgree
  BY DEF TimeInv
<1>2. Spec => []TimeInv
  <2>1. Init => TimeInv
    BY InitTime
  <2>2. TimeInv /\ ElectionInv /\ ElectionInv' /\ [Next]_vars => TimeInv'
    BY NextTime
  <2> QED BY <2>1, <2>2, SynchronizerKeepsElection, PTL DEF Spec
<1> QED BY <1>1, <1>2, PTL
=============================================================================
