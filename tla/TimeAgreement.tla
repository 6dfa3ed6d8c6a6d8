---------------------------- MODULE TimeAgreement ----------------------------
(***************************************************************************)
(* Why the clocks of NtpTimeSynchronizer agree: the inductive invariant    *)
(* over every time that is kept or on its way.                             *)
(***************************************************************************)
EXTENDS NtpTimeSynchronizer

Offsets == [master : Nat, node : Nat]
Sequences == 0..2 * Cardinality(Nodes)
Requests ==
    [type : {"Request"}, to : Nodes, id : Nat, sequence : Sequences,
     content : [session : Sessions, t1 : Nat]]
Responses ==
    [type : {"Response"}, to : Nodes, id : Nat, sequence : Sequences,
     content : [session : Sessions, t1 : Nat, t2 : Nat]]
Commits ==
    [type : {"Commit"}, to : Nodes, id : Nat, sequence : {0},
     content : [session : Sessions, offset : Offsets]]
Targets ==
    {target \in [id : Nat, attempts : Nat, samples : SUBSET Offsets,
                 result : Offsets \cup {Nothing},
                 state : {"Sampling", "Waiting", "Committing", "Completed"}] :
        target.state = "Committing" => target.result \in Offsets}

ASSUME NothingAssumption == Nothing \notin Targets

SynchronizerTypeOK ==
    /\ boot \in [Nodes -> Nat]
    /\ air \in [Nodes -> Requests \cup Responses \cup Commits \cup {Nothing}]
    /\ targets \in [Nodes -> [Nodes -> Targets \cup {Nothing}]]
    /\ request \in [Nodes -> [node : Nodes, id : Nat, sequence : Sequences, t1 : Nat]
                             \cup {Nothing}]
    /\ reply \in [Nodes -> [to : Nodes, sequence : Sequences,
                            content : [session : Sessions, t1 : Nat, t2 : Nat]]
                           \cup {Nothing}]
    /\ local \in [Nodes -> Offsets \cup {Nothing}]

(* What a node keeps of its own clock is of the clock that runs, and it    *)
(* keeps it only in the role it has taken it in.                           *)
OwnTimesAreCurrent ==
    \A n \in Nodes :
        /\ request[n] # Nothing =>
              /\ IsSelfMaster(n) /\ request[n].t1 = boot[n]
              /\ request[n].node \in Tracked(targets[n])
        /\ reply[n] # Nothing => IsFollower(n) /\ reply[n].content.t2 = boot[n]
        /\ \A m \in Tracked(targets[n]) :
              /\ IsSelfMaster(n)
              /\ \A sample \in targets[n][m].samples : sample.master = boot[n]
              /\ targets[n][m].state = "Committing"
                 => targets[n][m].result.master = boot[n]

(* A time of the clock of n that is not with n is one of n's boots: of the *)
(* boot that runs once n takes part, and of an earlier one before.         *)
IsTimeOf(n, time) ==
    /\ time <= boot[n]
    /\ phase[n] = "Waiting" => time < boot[n]
    /\ phase[n] = "Electing" => time = boot[n]
IsCommitTo(m, n) == air[m] # Nothing /\ air[m].type = "Commit" /\ air[m].to = n
TimesAreOfTheirBoot ==
    \A n \in Nodes :
        /\ air[n] # Nothing /\ air[n].type = "Response"
           => IsTimeOf(n, air[n].content.t2)
        /\ \A m \in Nodes :
              /\ IsCommitTo(m, n) => IsTimeOf(n, air[m].content.offset.node)
              /\ n \in Tracked(targets[m]) =>
                    /\ \A sample \in targets[m][n].samples : IsTimeOf(n, sample.node)
                    /\ targets[m][n].state = "Committing"
                       => IsTimeOf(n, targets[m][n].result.node)

(* A commit under way in the session that still is its sender's has the    *)
(* offset that the sender knows.                                           *)
CommitsAreCurrent ==
    \A m, n \in Nodes :
        /\ IsCommitTo(m, n) /\ IsSelfMaster(m)
        /\ air[m].content.session = master[m].session
        => /\ air[m].content.offset.master = boot[m]
           /\ phase[n] = "Electing" /\ n \in Tracked(targets[m])
              => targets[m][n].result \in {Nothing, Offset(m, n)}

(* The inductive invariant, beside that of the election.                   *)
TimeInv ==
    /\ SynchronizerTypeOK
    /\ OwnTimesAreCurrent
    /\ TimesAreOfTheirBoot
    /\ CommitsAreCurrent
    /\ SynchronizedClocksAgree
=============================================================================
