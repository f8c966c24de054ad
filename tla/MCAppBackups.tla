---------------------------- MODULE MCAppBackups ----------------------------
(***************************************************************************)
(* AppBackups with every parameter a number: nothing to define but that    *)
(* the assumptions on them are evaluated.                                  *)
(***************************************************************************)
EXTENDS AppBackups
=============================================================================
