----------------------------- MODULE MCSendPath -----------------------------
(* Instances of SendPath for TLC: two destinations, short queues.          *)
EXTENDS SendPath
=============================================================================
