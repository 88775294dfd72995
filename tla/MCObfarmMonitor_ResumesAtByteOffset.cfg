\* Is `end` a byte offset?  Two-byte characters in the log.
CONSTANTS
  Timeout <- MCTimeout
  Latency <- MCLatency
  MaxLog <- MCMaxLog
  Codes <- MCCodes
  NetFailures = FALSE
  Chars = {"a", "w"}
  ArgsGiven = {TRUE}
  JobLookups = {"run"}
  Malformed = FALSE
  Hangs = FALSE
  NoStatus = NoStatus
  None = None
SPECIFICATION Spec
INVARIANT ResumesAtByteOffset
CHECK_DEADLOCK FALSE
