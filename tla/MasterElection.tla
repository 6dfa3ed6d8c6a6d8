---------------------------- MODULE MasterElection ----------------------------
(***************************************************************************)
(* How the nodes agree on a master: each broadcasts its NodeStatus         *)
(* (src/EspNowBroadcast.cpp), keeps the last status of every other node,   *)
(* and elects in each cycle the TAG with the lowest node id among those it *)
(* has heard of lately (src/TagMasterCoordinator.cpp).                     *)
(*                                                                         *)
(* A node is known by its MAC address; its node id is configured and may   *)
(* be given to several nodes by mistake.  The cycle of a node (broadcast,  *)
(* then coordinator) is one step.  A status counts as lost when its sender *)
(* has sent the next one before it is received.                            *)
(***************************************************************************)
EXTENDS Integers

CONSTANTS
    Nodes,          \* MAC addresses
    Tags,           \* nodes whose mode is EnRunMode::Tag; the others are ANCHORs
    Networks,       \* sets of nodes that may be installed together
    NodeIds,        \* [Nodes -> ids the node may be configured with]
    NotSeen,        \* no status of the node, or none for m_nodeExpirationMs
    NoSession,      \* session id 0
    NoMaster,       \* m_master.isValid is false
    MaxSessions,    \* bound: session ids of one node that are remembered
    MaxFaults       \* bound: [Networks -> disturbances of all kinds in it]

ASSUME ElectionAssumption ==
    /\ Tags \subseteq Nodes
    /\ NodeIds \in [Nodes -> SUBSET Nat]
    /\ Networks \subseteq SUBSET Nodes
    /\ MaxSessions \in Nat /\ MaxFaults \in [Networks -> Nat]

VARIABLES
    phase,      \* [Nodes -> Phases]: how far the coordinator has come
    id,         \* [Nodes -> node id of m_localStatus]
    sent,       \* [Nodes -> the status a node has sent last]
    table,      \* [Nodes -> [Nodes -> status]]: m_nodes, without expired entries
    master,     \* [Nodes -> m_master of the TagMasterCoordinator]
    faults      \* disturbances so far

electionVars == <<phase, id, sent, table, master, faults>>

(* Before Begin and without power, before the startup wait is over, after. *)
Phases == {"Absent", "Off", "Waiting", "Electing"}

Sessions == Nodes \X (1..MaxSessions)
Status == [id : Nat, session : Sessions \cup {NoSession}]
Masters == [node : Nodes, id : Nat, session : Sessions]

Network == {n \in Nodes : phase[n] # "Absent"}
Disturb == faults < MaxFaults[Network] /\ faults' = faults + 1
UNDISTURBED == UNCHANGED faults

IsOn(n) == phase[n] \in {"Waiting", "Electing"}
IsSelfMaster(n) == master[n] # NoMaster /\ master[n].node = n

(* m_localStatus, as NodeStatusCodec encodes it: a session only of a       *)
(* declared master.                                                        *)
LocalStatus(n) ==
    [id |-> id[n], session |-> IF IsSelfMaster(n) THEN master[n].session
                               ELSE NoSession]

-----------------------------------------------------------------------------
(* The operators named Buggy... are plausible mistakes in the definition   *)
(* that follows them.  Nothing uses them; they show which property would   *)
(* notice the mistake.                                                     *)

(* The nodes n knows, and itself, with their ids.                          *)
Seen(n, nodes) == {m \in Nodes : m = n \/ nodes[m] # NotSeen}
IdOf(n, nodes, m) == IF m = n THEN id[n] ELSE nodes[m].id

(* nodeIdCounts: an id that several nodes use identifies none of them.     *)
IsUnique(n, nodes, m) ==
    \A other \in Seen(n, nodes) \ {m} :
        IdOf(n, nodes, other) # IdOf(n, nodes, m)

(* What SelectCandidate may choose from, and what it does choose.          *)
BuggyCandidates(n, nodes) ==    \* ambiguous ids are not left out
    Seen(n, nodes) \cap Tags
Candidates(n, nodes) ==
    {m \in Seen(n, nodes) \cap Tags : IsUnique(n, nodes, m)}

IsSelected(n, nodes, m) ==
    /\ m \in Candidates(n, nodes)
    /\ \A other \in Candidates(n, nodes) :
          IdOf(n, nodes, m) <= IdOf(n, nodes, other)

Identity(m, status) ==
    [node |-> m, id |-> status.id, session |-> status.session]

(* GenerateSessionId draws 32 random bits; ids that any node remembers are *)
(* not drawn again.                                                        *)
FreshSessions(n) ==
    {s \in {n} \X (1..MaxSessions) :
        \A m \in Nodes :
            /\ sent[m] # NotSeen => sent[m].session # s
            /\ master[m] # NoMaster => master[m].session # s
            /\ table[m][n] # NotSeen => table[m][n].session # s}

(* A TAG that is elected anew opens a session.                             *)
ElectSelf(n) ==
    IF IsSelfMaster(n)
    THEN UNCHANGED master
    ELSE \E session \in FreshSessions(n) :
            master' = [master EXCEPT ![n] =
                Identity(n, [id |-> id[n], session |-> session])]

(* The lowest TAG is followed once it declares itself; until then there is *)
(* no master.                                                              *)
BuggyFollow(n, m, status) ==    \* keeps its mastership until then
    IF status.session = NoSession /\ IsSelfMaster(n) THEN UNCHANGED master
    ELSE master' = [master EXCEPT ![n] =
                       IF status.session # NoSession THEN Identity(m, status)
                       ELSE NoMaster]
Follow(n, m, status) ==
    master' = [master EXCEPT ![n] =
                  IF status.session # NoSession THEN Identity(m, status)
                  ELSE NoMaster]

ClearMaster(n) ==
    master' = [master EXCEPT ![n] = NoMaster]

(* TagMasterCoordinator::Update after its startup wait.                    *)
BuggyElect(n, nodes) ==         \* a master stays until it is not heard of
    IF master[n] # NoMaster /\ master[n].node \in Seen(n, nodes)
    THEN UNCHANGED master
    ELSE \/ IsSelected(n, nodes, n) /\ ElectSelf(n)
         \/ \E m \in Nodes \ {n} :
               IsSelected(n, nodes, m) /\ Follow(n, m, nodes[m])
         \/ Candidates(n, nodes) = {} /\ ClearMaster(n)
Elect(n, nodes) ==
    \/ IsSelected(n, nodes, n) /\ ElectSelf(n)
    \/ \E m \in Nodes \ {n} :
          IsSelected(n, nodes, m) /\ Follow(n, m, nodes[m])
    \/ Candidates(n, nodes) = {} /\ ClearMaster(n)

(* One cycle of n that finds another status of m in its table.             *)
Cycle(n, m, status) ==
    /\ table' = [table EXCEPT ![n][m] = status]
    /\ IF phase[n] = "Electing" THEN Elect(n, table'[n])
       ELSE UNCHANGED master
    /\ UNCHANGED <<phase, id, sent>>

-----------------------------------------------------------------------------
(* EspNowBroadcast::SendNodeStatus, every second or after a change.        *)
SendNodeStatus(n) ==
    /\ IsOn(n)
    /\ sent' = [sent EXCEPT ![n] = LocalStatus(n)]
    /\ UNCHANGED <<phase, id, table, master>> /\ UNDISTURBED

HandleNodeStatus(n, m) ==
    /\ IsOn(n) /\ m # n /\ sent[m] # NotSeen
    /\ Cycle(n, m, sent[m])
    /\ UNDISTURBED

(* m has not been heard for m_nodeExpirationMs: it is off, or all of its   *)
(* statuses were lost.                                                     *)
NodeExpires(n, m) ==
    /\ IsOn(n) /\ m # n /\ table[n][m] # NotSeen
    /\ Cycle(n, m, NotSeen)
    /\ IF IsOn(m) THEN Disturb ELSE UNDISTURBED

(* The first cycle after m_startupElectionWaitMs.                          *)
StartElection(n) ==
    /\ phase[n] = "Waiting"
    /\ phase' = [phase EXCEPT ![n] = "Electing"]
    /\ Elect(n, table[n])
    /\ UNCHANGED <<id, sent, table>> /\ UNDISTURBED

(* setup() with the node id of the preferences: Begin of the broadcast     *)
(* sends a status at once.                                                 *)
Boot(n, nodeId) ==
    /\ phase[n] = "Off"
    /\ phase' = [phase EXCEPT ![n] = "Waiting"]
    /\ id' = [id EXCEPT ![n] = nodeId]
    /\ sent' = [sent EXCEPT ![n] = [id |-> nodeId, session |-> NoSession]]
    /\ UNCHANGED <<table, master>> /\ UNDISTURBED

(* Power is cut, or the node is reset.                                     *)
PowerOff(n) ==
    /\ IsOn(n) /\ Disturb
    /\ phase' = [phase EXCEPT ![n] = "Off"]
    /\ sent' = [sent EXCEPT ![n] = NotSeen]
    /\ table' = [table EXCEPT ![n] = [m \in Nodes |-> NotSeen]]
    /\ master' = [master EXCEPT ![n] = NoMaster]
    /\ id' = [id EXCEPT ![n] = 0]

-----------------------------------------------------------------------------
InitElection ==
    /\ \E network \in Networks :
          phase = [n \in Nodes |-> IF n \in network THEN "Off" ELSE "Absent"]
    /\ id = [n \in Nodes |-> 0]
    /\ sent = [n \in Nodes |-> NotSeen]
    /\ table = [n \in Nodes |-> [m \in Nodes |-> NotSeen]]
    /\ master = [n \in Nodes |-> NoMaster]
    /\ faults = 0

(* A disturbance of what is built on the election.                         *)
DisturbedElsewhere == Disturb /\ UNCHANGED <<phase, id, sent, table, master>>

ElectionStep(n) ==
    \/ SendNodeStatus(n)
    \/ \E m \in Nodes : HandleNodeStatus(n, m)
    \/ \E m \in Nodes : NodeExpires(n, m)
    \/ StartElection(n)
    \/ \E nodeId \in NodeIds[n] : Boot(n, nodeId)
    \/ PowerOff(n)

ElectionNext == DisturbedElsewhere \/ \E n \in Nodes : ElectionStep(n)
ElectionSpec == InitElection /\ [][ElectionNext]_electionVars

-----------------------------------------------------------------------------
ElectionTypeOK ==
    /\ phase \in [Nodes -> Phases]
    /\ id \in [Nodes -> Nat]
    /\ sent \in [Nodes -> Status \cup {NotSeen}]
    /\ table \in [Nodes -> [Nodes -> Status \cup {NotSeen}]]
    /\ master \in [Nodes -> Masters \cup {NoMaster}]
    /\ faults \in Nat /\ faults <= MaxFaults[Network]
    /\ Network \in Networks

(* A node that has a master would elect it again from what it knows now.   *)
WouldElectAgain(n) ==
    LET m == master[n].node
    IN  /\ IsSelected(n, table[n], m)
        /\ IF m = n THEN master[n].id = id[n]
           ELSE /\ master[n].id = table[n][m].id
                /\ master[n].session = table[n][m].session
MasterIsElected ==
    \A n \in Nodes : master[n] # NoMaster =>
        phase[n] = "Electing" /\ WouldElectAgain(n)

(* The inductive invariant of the election.                                *)
ElectionInv == ElectionTypeOK /\ MasterIsElected

(* Two TAGs are masters at the same time only while the one that should    *)
(* yield has not heard of the other under its present id, or while the id  *)
(* of the other seems to belong to several nodes (SelectCandidate).        *)
TwoMastersAreStrangers ==
    \A m, n \in Nodes :
        (m # n /\ IsSelfMaster(m) /\ IsSelfMaster(n) /\ id[m] <= id[n]) =>
            \/ table[n][m] = NotSeen
            \/ table[n][m].id # id[m]
            \/ ~IsUnique(n, table[n], m)

(* What the election must end with: the TAG with the lowest id among those *)
(* whose id nobody else on the air uses.                                   *)
Eligible == {t \in Tags : IsOn(t) /\ \A n \in Nodes \ {t} : IsOn(n) => id[n] # id[t]}
IsRightfulMaster(t) == t \in Eligible /\ \A other \in Eligible : id[t] <= id[other]

(* Once disturbances stop, all nodes follow the current session of the     *)
(* same TAG, the rightful one; without a TAG to choose, nobody has a       *)
(* master.                                                                 *)
Elected ==
    \A n \in Nodes : IsOn(n) =>
        IF Eligible = {} THEN master[n] = NoMaster
        ELSE /\ master[n] # NoMaster
             /\ IsRightfulMaster(master[n].node)
             /\ master[n] = master[master[n].node]
ElectionConverges == <>[]Elected
=============================================================================
