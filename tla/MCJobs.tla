------------------------------- MODULE MCJobs -------------------------------
EXTENDS Jobs

CONSTANTS j1, j2, ana, ben

MCReq == Job \X {1, 2}

(* Operations by what the registry says of them: a share with a password,  *)
(* and a download, a root task that may be given more time.                *)
share == [secret |-> TRUE, rootTask |-> FALSE, restarts |-> FALSE, attended |-> FALSE, repeatable |-> FALSE, moreTime |-> 0]
download == [share EXCEPT !.secret = FALSE, !.rootTask = TRUE, !.moreTime = 1]
MCOps == {share, download}
=============================================================================
