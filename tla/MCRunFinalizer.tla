--------------------------- MODULE MCRunFinalizer ---------------------------
(* Small instances of RunFinalizer for TLC.                                  *)
EXTENDS RunFinalizer

CONSTANTS user, poller, cron
=============================================================================
