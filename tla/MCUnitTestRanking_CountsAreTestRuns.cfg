\* Test runs that may stop early, over report directories that may hold
\* reports of an earlier invocation; C2's reports name m3 twice.
CONSTANTS
  C1 = C1
  C2 = C2
  m1 = m1
  m3 = m3
  Classes <- MCClasses
  ClassMethods <- MCClassMethodsRepeated
  RepeatTimes = 1
  NumberOfShown = 2
  Outcomes = {"pass", "error"}
  Times = {1}
  SkipTest = {FALSE}
  Selected <- MCClasses
  PartialRuns = TRUE
  Leftovers <- MCLeftovers
  NoDir = NoDir
  OutputTypes = {"csv"}
SPECIFICATION Spec
INVARIANT CountsAreTestRuns
\* The script ends after writing the tables, or at exit(-1).
CHECK_DEADLOCK FALSE
