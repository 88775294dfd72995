\* Reliable network, four arguments, job found: the path that must report.
CONSTANTS
  Timeout <- MCTimeout
  Latency <- MCLatency
  MaxLog <- MCMaxLog
  Codes <- MCCodes
  NetFailures = FALSE
  Chars = {"a", "n", "w"}
  ArgsGiven = {TRUE}
  JobLookups = {"run"}
  Malformed = FALSE
  Hangs = FALSE
  NoStatus = NoStatus
  None = None
SPECIFICATION Spec
PROPERTY ReportsOutcome
PROPERTY Terminates
CHECK_DEADLOCK FALSE
