\* Does the relayed log equal the job's log?  ASCII only, so the result
\* does not depend on the character/byte mismatch.
CONSTANTS
  Timeout <- MCTimeout
  Latency <- MCLatency
  MaxLog <- MCMaxLog
  Codes <- MCCodes
  NetFailures = FALSE
  Chars = {"a", "n"}
  ArgsGiven = {TRUE}
  JobLookups = {"run"}
  Malformed = FALSE
  Hangs = FALSE
  NoStatus = NoStatus
  None = None
SPECIFICATION Spec
INVARIANT OutputIsLogPrefix
CHECK_DEADLOCK FALSE
