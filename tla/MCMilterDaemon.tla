--------------------------- MODULE MCMilterDaemon ---------------------------
(***************************************************************************)
(* Small instances of MilterDaemon: more task slots than permits, so that  *)
(* finished but unjoined tasks and overload both happen.                   *)
(***************************************************************************)
EXTENDS MilterDaemon
=============================================================================
