\* One clean run; the tables saved with -e xlsx.
CONSTANTS
  C1 = C1
  C2 = C2
  m1 = m1
  m3 = m3
  Classes <- MCClasses
  ClassMethods <- MCClassMethodsRepeated
  RepeatTimes = 1
  NumberOfShown = 2
  Outcomes = {"pass"}
  Times = {1}
  SkipTest = {FALSE}
  Selected <- MCClasses
  PartialRuns = FALSE
  Leftovers = {NoDir}
  NoDir = NoDir
  OutputTypes = {"xlsx"}
SPECIFICATION Spec
INVARIANT BothTablesSaved
\* The script ends after writing the tables, or at exit(-1).
CHECK_DEADLOCK FALSE
