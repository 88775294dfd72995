CONSTANTS
  C1 = C1
  C2 = C2
  m1 = m1
  m3 = m3
  Classes <- MCClasses
  ClassMethods <- MCClassMethodsRepeated
  RepeatTimes = 2
  NumberOfShown = 2
  Outcomes = {"pass", "error", "failure"}
  Times = {1, 2}
  SkipTest = {FALSE, TRUE}
  Selected <- MCClasses
  PartialRuns = FALSE
  Leftovers <- MCLeftovers
  NoDir = NoDir
  OutputTypes = {"csv", "xlsx"}
SPECIFICATION Spec
INVARIANT TypeOK
INVARIANT TablesAreTopRanked
\* The script ends after writing the tables, or at exit(-1).
CHECK_DEADLOCK FALSE
