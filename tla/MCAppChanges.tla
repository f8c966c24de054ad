---------------------------- MODULE MCAppChanges ----------------------------
(***************************************************************************)
(* An app with one sidecar. Docker answers or does not, or answers for     *)
(* some of the containers.                                                 *)
(***************************************************************************)
EXTENDS AppChanges

CONSTANTS app, db

MCAnswers == {{app, db}, {}}
MCAnyAnswers == SUBSET {app, db}
=============================================================================
