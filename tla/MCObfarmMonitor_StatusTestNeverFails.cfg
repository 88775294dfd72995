\* Documents without "status" and the code 5 (>= success, not in the enum); ASCII log.
CONSTANTS
  Timeout <- MCTimeout
  Latency <- MCLatency
  MaxLog <- MCMaxLog
  Codes <- MCCodesUnknown
  NetFailures = FALSE
  Chars = {"a"}
  ArgsGiven = {TRUE}
  JobLookups = {"run"}
  Malformed = TRUE
  Hangs = FALSE
  NoStatus = NoStatus
  None = None
SPECIFICATION Spec
PROPERTY StatusTestNeverFails
CHECK_DEADLOCK FALSE
