----------------------------- MODULE MCDataSync -----------------------------
(* DataSync on small instances: key 1 stands for the data/ tree, keys 2 to  *)
(* 4 for one archive on each of three run dates.                            *)
EXTENDS DataSync

CONSTANTS laptop, desk, ci

Dates == [k \in ReportKeys |-> k - 1]

(* The workflow pulls with a window, an operator pulls everything. *)
ProtocolWindows == [m \in Machines |-> IF m \in Runners THEN {1} ELSE {Full}]
WindowTwo == [m \in Machines |-> {2}]
AnyWindow == [m \in Machines |-> {Full, 1}]

AllSteps == Steps \ {"idle"}
AfterCommit == AllSteps \ {"upload"}
=============================================================================
