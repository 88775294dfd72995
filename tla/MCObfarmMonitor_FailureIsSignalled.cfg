\* Does a failing exit carry success=-1?  Arguments and job lookup fine,
\* so the check reaches the loop's own exits.
CONSTANTS
  Timeout <- MCTimeout
  Latency <- MCLatency
  MaxLog <- MCMaxLog
  Codes <- MCCodes
  NetFailures = FALSE
  Chars = {"a"}
  ArgsGiven = {TRUE}
  JobLookups = {"run"}
  Malformed = FALSE
  Hangs = FALSE
  NoStatus = NoStatus
  None = None
SPECIFICATION Spec
INVARIANT FailureIsSignalled
CHECK_DEADLOCK FALSE
