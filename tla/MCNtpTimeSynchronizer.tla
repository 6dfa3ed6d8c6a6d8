------------------------ MODULE MCNtpTimeSynchronizer ------------------------
(* Instances of NtpTimeSynchronizer for TLC: TAGs t1 and t2 and an ANCHOR  *)
(* a that has been given the id of t1 by mistake.                          *)
EXTENDS TimeAgreement, TLC

CONSTANTS t1, t2, a

(* All three, where only the election is followed, and pairs that measure. *)
MCMaxFaults == ({t1, t2, a} :> 1) @@ ({t2, a} :> 2) @@ ({t1, t2} :> 1)
MCNetworks == DOMAIN MCMaxFaults
MCMeasuring == {{t2, a}, {t1, t2}}
MCNodeIds == (t1 :> {1}) @@ (t2 :> {2}) @@ (a :> {1})
=============================================================================
