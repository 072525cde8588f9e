----------------------------- MODULE MCDailyJob -----------------------------
(* DailyJob on small instances: one runner of CI and, in some runs, one    *)
(* operator's machine.                                                     *)
EXTENDS DailyJob

CONSTANTS ci, desk
=============================================================================
