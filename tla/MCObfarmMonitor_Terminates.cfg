\* A server that never answers one call; ASCII log.
CONSTANTS
  Timeout <- MCTimeout
  Latency <- MCLatency
  MaxLog <- MCMaxLog
  Codes <- MCCodes
  NetFailures = FALSE
  Chars = {"a"}
  ArgsGiven = {TRUE}
  JobLookups = {"run"}
  Malformed = FALSE
  Hangs = TRUE
  NoStatus = NoStatus
  None = None
SPECIFICATION Spec
PROPERTY Terminates
CHECK_DEADLOCK FALSE
