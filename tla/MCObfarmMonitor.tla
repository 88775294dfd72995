-------------------------- MODULE MCObfarmMonitor --------------------------
(* Model-checking instance of ObfarmMonitor.  A deadline of 12 s admits    *)
(* three polls (each takes 6 to 6 + 3 * MaxLatency seconds), enough for a  *)
(* poll that finds the log fully read and one that finds it grown again.  *)
EXTENDS ObfarmMonitor

MCTimeout == 12
MCLatency == {0, 1}
MCMaxLog == 3
\* running, stopping (non-terminal), success, fail, kill
MCCodes == {2, 3, 4, -1, -2}
\* the same with 5, a code >= success outside TaskStatusEnum
MCCodesUnknown == MCCodes \cup {5}
=============================================================================
