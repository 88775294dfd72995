\* Every input: bad argv, missing job, lost or hung HTTP calls, all
\* characters, documents without "status", a code outside the enum.
CONSTANTS
  Timeout <- MCTimeout
  Latency <- MCLatency
  MaxLog <- MCMaxLog
  Codes <- MCCodesUnknown
  NetFailures = TRUE
  Chars = {"a", "n", "w"}
  ArgsGiven = {TRUE, FALSE}
  JobLookups = {"run", "not_found", "error", "exception"}
  Malformed = TRUE
  Hangs = TRUE
  NoStatus = NoStatus
  None = None
SPECIFICATION Spec
INVARIANT TypeOK
INVARIANT BoundedOverrun
PROPERTY ImplementsAbstract
\* The process exits; after that, and once the farm job has finished, no
\* step is left.
CHECK_DEADLOCK FALSE
