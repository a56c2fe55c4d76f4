----------------------------- MODULE MCSdramTop ------------------------------
(* Instances of SdramTop for TLC. *)
EXTENDS SdramTop

MCPages == {0, 5}
=============================================================================
