-------------------------- MODULE MCPreferenceStore --------------------------
(* Instances of PreferenceStore for TLC.  U8 and Bool share an NVS type,   *)
(* as do Float and Double, which their length (4 or 8 bytes, all that is   *)
(* modelled of them) tells apart.  The key is run_mode: a U8, 1 by default. *)
EXTENDS PreferenceStore

Everywhere == [t \in Types |->
    CASE t \in {"Bool", "U8"} -> "NVS_TYPE_U8"
      [] t = "U16" -> "NVS_TYPE_U16"
      [] t \in {"Float", "Double"} -> "NVS_TYPE_BLOB"]

SomeValues == [t \in Types |->
    CASE t = "Bool" -> {0, 1}
      [] t = "U8" -> {0, 1, 2}
      [] t = "U16" -> {0}
      [] t = "Float" -> {4}
      [] t = "Double" -> {8}]

Anchor == [type |-> "U8", data |-> 1]
RunModes == {0, 1}
=============================================================================
