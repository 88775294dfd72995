\* number_of_shown below the number of methods and of classes: the tables
\* are cut.
CONSTANTS
  C1 = C1
  C2 = C2
  m1 = m1
  m3 = m3
  Classes <- MCClasses
  ClassMethods <- MCClassMethodsRepeated
  RepeatTimes = 2
  NumberOfShown = 1
  Outcomes = {"pass", "error", "failure"}
  Times = {1, 2}
  SkipTest = {FALSE}
  Selected <- MCClasses
  PartialRuns = FALSE
  Leftovers = {NoDir}
  NoDir = NoDir
  OutputTypes = {"csv"}
SPECIFICATION Spec
INVARIANT TablesAreTopRanked
\* The script ends after writing the tables, or at exit(-1).
CHECK_DEADLOCK FALSE
