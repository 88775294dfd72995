------------------------- MODULE MCUnitTestRanking -------------------------
(* Two classes over two cycles, the second running its one method twice  *)
(* per report: enough for method and class ties on errors and failures   *)
(* that only the average duration or the first-seen order decides, for   *)
(* the listdir order to vary, and for histories with several records per *)
(* cycle.                                                                 *)
EXTENDS UnitTestRanking, TLC

CONSTANTS C1, C2, m1, m3

MCClasses == {C1, C2}
\* m3 run twice in each report of C2 (a parameterised or repeated test)
MCClassMethodsRepeated == C1 :> <<m1>> @@ C2 :> <<m3, m3>>
\* surefire-reports-<i> absent, or holding a report of every class from an
\* earlier invocation
MCLeftovers == {NoDir, MCClasses}
=============================================================================
