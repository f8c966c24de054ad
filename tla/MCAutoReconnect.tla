-------------------------- MODULE MCAutoReconnect --------------------------
(* AutoReconnect for one drive. *)
EXTENDS AutoReconnect
CONSTANT Release
MCArmings == 1..MaxArmings
=============================================================================
