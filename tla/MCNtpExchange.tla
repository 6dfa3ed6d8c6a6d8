---------------------------- MODULE MCNtpExchange ----------------------------
(***************************************************************************)
(* NtpExchange with an epoch of 8 and times short enough to try every      *)
(* delay, across several epochs of both clocks.                            *)
(***************************************************************************)
EXTENDS NtpExchange

(* Behind by less than an epoch and ahead by more than one; both further   *)
(* from half an epoch than an exchange lasts.                              *)
MCSkews == {-7, 15}

(* Half an epoch ahead.                                                    *)
MCHalfSkews == {HalfEpoch}
=============================================================================
