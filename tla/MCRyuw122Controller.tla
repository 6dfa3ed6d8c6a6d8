------------------------ MODULE MCRyuw122Controller ------------------------
(* Instance of Ryuw122Controller for TLC: the clock wraps every six units, *)
(* that is within a ranging and its drain; the device may answer after the *)
(* timeout but not after the drain.                                        *)
EXTENDS Ryuw122Controller
=============================================================================
