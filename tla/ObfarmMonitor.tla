--------------------------- MODULE ObfarmMonitor ---------------------------
(***************************************************************************)
(* .github/obfarm/obfarm.py: the CI step that waits for a job dispatched   *)
(* to the OceanBase farm.  The script (one Python process, run once)       *)
(* checks its arguments, asks GitHub for the run's attempt number, then    *)
(* polls two objects of an object store that the farm job writes: the     *)
(* result document <id>.json (a status code) and the growing log          *)
(* <id>.output, which it relays from a byte offset `end`.  It stops on a  *)
(* terminal status or when the wall-clock deadline has passed, appends    *)
(* the OUTPUT dict to $GITHUB_OUTPUT and exits.                            *)
(*                                                                         *)
(* The farm job is the environment: it appends whole characters to the    *)
(* log and publishes status codes; once it publishes a terminal code it   *)
(* writes nothing more.  Every HTTP call takes a duration from Latency;    *)
(* with NetFailures it may also fail (a lost answer), with Hangs it may    *)
(* never answer.  With Malformed the farm may write a status document     *)
(* without a "status" field (NoStatus); Codes may hold codes outside      *)
(* TaskStatusEnum.                                                        *)
(***************************************************************************)
EXTENDS Integers, Sequences, SequencesExt, FiniteSets

CONSTANTS
  Timeout,      \* argv[3]: seconds monitor_tasks keeps polling
  Latency,      \* the durations (seconds) one HTTP call may take
  NetFailures,  \* whether an HTTP call may fail (connection error, 5xx)
  MaxLog,       \* bound on the bytes the farm job writes to <id>.output
  Chars,        \* characters it writes: "a" ASCII, "n" whitespace, "w" 2-byte UTF-8
  Codes,        \* status codes it publishes in <id>.json
  ArgsGiven,    \* whether sys.argv carries the four arguments
  JobLookups,   \* answers of the GitHub runs API: "run" (200), "not_found"
                \* (404), "error" (another status), "exception"
  Malformed,    \* whether the farm may publish a document without "status"
  Hangs,        \* whether an HTTP call may never answer (no timeout= given)
  NoStatus,     \* a JSON status document without the "status" key
  None          \* Python None, an absent object, an empty OUTPUT dict

\* class TaskStatusEnum
TaskStatusEnum ==
  [submitting |-> 0, pending |-> 1, running |-> 2, stopping |-> 3,
   success |-> 4, fail |-> -1, kill |-> -2, timeout |-> -3,
   submit_task_fail |-> -4]
StatusValues == {TaskStatusEnum[k] : k \in DOMAIN TaskStatusEnum}

ASSUME Timeout \in Nat /\ Latency \subseteq Nat /\ Latency # {}
ASSUME NetFailures \in BOOLEAN /\ MaxLog \in Nat
ASSUME Chars \subseteq {"a", "n", "w"} /\ Codes \subseteq Int
ASSUME Malformed \in BOOLEAN /\ Hangs \in BOOLEAN
ASSUME ArgsGiven \subseteq BOOLEAN /\ JobLookups \subseteq {"run", "not_found", "error", "exception"}

MaxLatency == CHOOSE l \in Latency : \A k \in Latency : k <= l

\* The status documents the farm job may write to <id>.json.
Docs == Codes \cup (IF Malformed THEN {NoStatus} ELSE {})

\* A status after which the farm job writes nothing more.
Finished(s) ==
  s \in Codes /\ (s <= TaskStatusEnum.fail \/ s >= TaskStatusEnum.success)

(***************************************************************************)
(* Bytes and UTF-8.  The log holds bytes; "h","t" are the lead and         *)
(* continuation byte of a two-byte character.  res.content.decode() turns  *)
(* a byte range into characters and raises on a range that starts on a    *)
(* continuation byte or ends on a lead byte.                               *)
(***************************************************************************)
Bytes(c) == IF c = "w" THEN <<"h", "t">> ELSE <<c>>
ValidUtf8(bs) == bs # <<>> => (bs[1] # "t" /\ bs[Len(bs)] # "h")
Decoded(bs) == SelectSeq(ReplaceAll(bs, "h", "w"), LAMBDA b : b # "t")

\* The body of a GET with header "range: bytes=<start>-" (_make_range_string):
\* the bytes from offset `start` to the end of the object.
RangeGet(bs, from) == SubSeq(bs, from + 1, Len(bs))

VARIABLES
  pc,        \* where the script is
  now,       \* time.time(), seconds since monitor_tasks computed end_time
  taskData,  \* task_data: status read by get_task_res, or None
  start,     \* start in get_task_stage_output
  end,       \* end: offset monitor_tasks resumes the log from
  result,    \* value monitor_tasks returned: TRUE, FALSE or None
  OUTPUT,    \* OUTPUT["success"], or None while the dict is empty
  ghOut,     \* the line appended to $GITHUB_OUTPUT, "unwritten" if none
  exitCode,  \* process exit status, None while running
  log,       \* farm: bytes of <id>.output
  rstatus,   \* farm: status in <id>.json, None until it is written
  consumed,  \* history: characters get_task_stage_output returned
  pos        \* history: byte offset after the last bytes received

farm == <<log, rstatus>>
history == <<consumed, pos>>
vars == <<pc, now, taskData, start, end, result, OUTPUT, ghOut, exitCode,
          farm, history>>

PCs == {"argv", "loop", "status", "meta", "get", "decide", "report", "exited",
        "hung"}

TypeOK ==
  /\ pc \in PCs
  /\ now \in Nat /\ start \in Nat /\ end \in Nat /\ pos \in Nat
  /\ taskData \in Docs \cup {None} /\ rstatus \in Docs \cup {None}
  /\ result \in {TRUE, FALSE, None} /\ OUTPUT \in {1, -1, None}
  /\ ghOut \in {"unwritten", "", "success=1", "success=-1"}
  /\ exitCode \in {0, 1, None}
  /\ log \in Seq({"a", "n", "h", "t"}) /\ consumed \in Seq(Chars)

Init ==
  /\ pc = "argv" /\ now = 0 /\ taskData = None /\ start = 0 /\ end = 0
  /\ result = None /\ OUTPUT = None /\ ghOut = "unwritten" /\ exitCode = None
  /\ log = <<>> /\ rstatus = None /\ consumed = <<>> /\ pos = 0

\* An uncaught exception: Python prints the traceback and exits with 1.
Crash ==
  /\ pc' = "exited" /\ exitCode' = 1
  /\ UNCHANGED <<taskData, start, end, result, OUTPUT, ghOut, farm, history>>

-----------------------------------------------------------------------------
(* The script. *)

\* __main__ with fewer than four arguments: the dict is filled, never written.
BadArgs ==
  /\ pc = "argv" /\ FALSE \in ArgsGiven
  /\ OUTPUT' = -1 /\ exitCode' = 1 /\ pc' = "exited"
  /\ UNCHANGED <<now, taskData, start, end, result, ghOut, farm, history>>

\* GithubProxy.get_job_by_id, as the keys of the dict it returns: the run's
\* JSON; {} for a 404 or an exception (traceback printed); res.json() of
\* any other status as it is, an error body {"message", ...}.
get_job_by_id(answer) ==
  CASE answer = "run"   -> {"run_attempt"}
    [] answer = "error" -> {"message"}
    [] OTHER            -> {}

\* main() up to monitor_tasks: job_info["run_attempt"] raises KeyError
\* unless get_job_by_id returned the run.
main ==
  /\ pc = "argv" /\ TRUE \in ArgsGiven
  /\ \E j \in JobLookups :
       IF "run_attempt" \in get_job_by_id(j)
       THEN /\ pc' = "loop"
            /\ UNCHANGED <<now, taskData, start, end, result, OUTPUT, ghOut,
                           exitCode, farm, history>>
       ELSE /\ Crash /\ UNCHANGED now

\* Mutant: the loop never tests the deadline.
LoopTestNoDeadline ==
  /\ pc = "loop" /\ pc' = "status"
  /\ UNCHANGED <<now, taskData, start, end, result, OUTPUT, ghOut, exitCode,
                 farm, history>>

\* while time.time() <= end_time, else return None
LoopTest ==
  /\ pc = "loop"
  /\ IF now <= Timeout THEN pc' = "status" /\ UNCHANGED result
                       ELSE pc' = "report" /\ result' = None
  /\ UNCHANGED <<now, taskData, start, end, OUTPUT, ghOut, exitCode, farm,
                 history>>

\* Mutant: `if start:` dropped, the HEAD and clamp run at offset 0 too.
get_task_res_always_head ==
  /\ pc = "status"
  /\ \E d \in Latency : now' = now + d
  /\ \E got \in {rstatus} \cup (IF NetFailures THEN {None} ELSE {}) :
       taskData' = got
  /\ start' = end /\ pc' = "meta"
  /\ UNCHANGED <<end, result, OUTPUT, ghOut, exitCode, farm, history>>

\* get_task_res, then entry of get_task_stage_output(end).  A failed GET or
\* an absent object makes json.loads raise, which yields None.
get_task_res ==
  /\ pc = "status"
  /\ \E d \in Latency : now' = now + d
  /\ \E got \in {rstatus} \cup (IF NetFailures THEN {None} ELSE {}) :
       taskData' = got
  /\ start' = end
  /\ pc' = IF end # 0 THEN "meta" ELSE "get"
  /\ UNCHANGED <<end, result, OUTPUT, ghOut, exitCode, farm, history>>

\* get_task_stage_output: HEAD for Content-Length and clamp start to
\* filesize - 1.  requests.head is outside the try: a failure is a crash.
get_object_meta ==
  /\ pc = "meta"
  /\ \E d \in Latency : now' = now + d
  /\ \/ /\ start' = IF start >= Len(log) THEN Len(log) - 1 ELSE start
        /\ pc' = "get"
        /\ UNCHANGED <<taskData, end, result, OUTPUT, ghOut, exitCode, farm,
                       history>>
     \/ NetFailures /\ Crash

\* Mutant: get_object returns None (a bare `return`) for a status >= 400,
\* so monitor_tasks takes its `continue` and polls again without sleeping.
get_object_none_on_4xx ==
  /\ pc = "get"
  /\ \E d \in Latency, ok \in {TRUE} \cup (IF NetFailures THEN {FALSE} ELSE {}) :
       LET slice == RangeGet(log, start)
           got   == ok /\ start < Len(log) /\ ValidUtf8(slice)
           output == IF got THEN Decoded(slice) ELSE <<>>
       IN IF ok /\ start >= Len(log)
          THEN now' = now + d /\ pc' = "loop" /\ UNCHANGED <<end, history>>
          ELSE /\ now' = now + d + 1
               /\ end' = end + Len(output)
               /\ consumed' = consumed \o output
               /\ pos' = IF got THEN start + Len(slice) ELSE pos
               /\ pc' = "decide"
  /\ UNCHANGED <<taskData, start, result, OUTPUT, ghOut, exitCode, farm>>

\* get_object(output_key, _range=start) inside the try of
\* get_task_stage_output; then end += len(output) and time.sleep(1).
\* A status >= 400 (404 absent object, 416 range) returns "", a failure or
\* a decode error is caught and returns "".
get_object ==
  /\ pc = "get"
  /\ \E d \in Latency, ok \in {TRUE} \cup (IF NetFailures THEN {FALSE} ELSE {}) :
       LET slice == RangeGet(log, start)
           got   == ok /\ start < Len(log) /\ ValidUtf8(slice)
           output == IF got THEN Decoded(slice) ELSE <<>>
       IN /\ now' = now + d + 1
          /\ end' = end + Len(output)
          /\ consumed' = consumed \o output
          /\ pos' = IF got THEN start + Len(slice) ELSE pos
  /\ pc' = "decide"
  /\ UNCHANGED <<taskData, start, result, OUTPUT, ghOut, exitCode, farm>>

\* Mutants of the status test: success from `stopping` on, and a failure
\* test that misses `fail` itself (< instead of <=).
IsSuccessFromStopping(t) == t >= TaskStatusEnum.stopping
IsFailureExclusive(t) == t < TaskStatusEnum.fail

\* The two thresholds of the status test.
IsFailure(t) == t <= TaskStatusEnum.fail
IsSuccess(t) == t >= TaskStatusEnum.success

\* The status test of the loop body, else time.sleep(5).  The status is
\* int(task_data["status"]) (KeyError for a document without it), and a
\* terminal code is printed through _value2member_map_ (KeyError for a code
\* outside TaskStatusEnum) before OUTPUT is updated: both are crashes.
Decide ==
  /\ pc = "decide"
  /\ CASE taskData = NoStatus -> Crash /\ UNCHANGED now
       [] taskData # None /\ (IsFailure(taskData) \/ IsSuccess(taskData)) ->
            IF taskData \notin StatusValues THEN Crash /\ UNCHANGED now
            ELSE /\ OUTPUT' = IF IsFailure(taskData) THEN -1 ELSE 1
                 /\ result' = ~IsFailure(taskData)
                 /\ pc' = "report"
                 /\ UNCHANGED <<now, taskData, start, end, ghOut, exitCode,
                                farm, history>>
       [] OTHER ->
            /\ now' = now + 5 /\ pc' = "loop"
            /\ UNCHANGED <<taskData, start, end, result, OUTPUT, ghOut,
                           exitCode, farm, history>>

\* main after monitor_tasks: set_output(OUTPUT), then exit(1) unless result.
set_output ==
  /\ pc = "report"
  /\ ghOut' = IF OUTPUT = None THEN ""
              ELSE IF OUTPUT = 1 THEN "success=1" ELSE "success=-1"
  /\ exitCode' = IF result = TRUE THEN 0 ELSE 1
  /\ pc' = "exited"
  /\ UNCHANGED <<now, taskData, start, end, result, OUTPUT, farm, history>>

\* requests.get / requests.head are called without timeout=: a server that
\* accepts the connection and never answers blocks the process for good
\* (get_job_by_id in main, then the three calls of an iteration).
Hang ==
  /\ Hangs
  /\ \/ pc = "argv" /\ TRUE \in ArgsGiven
     \/ pc \in {"status", "meta", "get"}
  /\ pc' = "hung"
  /\ UNCHANGED <<now, taskData, start, end, result, OUTPUT, ghOut, exitCode,
                 farm, history>>

Monitor ==
  \/ BadArgs \/ main \/ LoopTest \/ get_task_res \/ get_object_meta
  \/ get_object \/ Decide \/ set_output \/ Hang

-----------------------------------------------------------------------------
(* The farm job (environment). *)

AppendOutput ==
  /\ ~Finished(rstatus)
  /\ \E c \in Chars :
       /\ Len(log) + Len(Bytes(c)) <= MaxLog
       /\ log' = log \o Bytes(c)
  /\ UNCHANGED <<rstatus, pc, now, taskData, start, end, result, OUTPUT,
                 ghOut, exitCode, history>>

Publish ==
  /\ ~Finished(rstatus)
  /\ \E s \in Docs \ {rstatus} : rstatus' = s
  /\ UNCHANGED <<log, pc, now, taskData, start, end, result, OUTPUT, ghOut,
                 exitCode, history>>

Farm == AppendOutput \/ Publish

Next == Monitor \/ Farm

\* The script runs to completion: every sleep returns and every call
\* answers within Latency.  The farm job need not make progress.
Spec == Init /\ [][Next]_vars /\ WF_vars(Monitor)

-----------------------------------------------------------------------------
(* Properties. *)

\* Longest time one loop iteration takes: three HTTP calls and both sleeps.
PollSpan == 3 * MaxLatency + 1 + 5

\* The deadline is advisory but bounded (spec 5): monitor_tasks tests
\* time.time() <= end_time once per iteration, so the clock never passes
\* end_time by more than one poll.
BoundedOverrun == now <= Timeout + PollSpan

\* Spec 8: a terminal status (<= fail or >= success) that is published
\* while the monitor still has a poll to make ends up as the matching
\* signal in $GITHUB_OUTPUT.
ReportsOutcome ==
  \A s \in {c \in Codes : Finished(c)} :
    (rstatus = s /\ pc = "loop" /\ now <= Timeout)
      ~> (ghOut = IF s >= TaskStatusEnum.success THEN "success=1"
                                                 ELSE "success=-1")

\* The relayed log is the farm job's log: every character the monitor read
\* extends what it read before, with nothing repeated or skipped.
OutputIsLogPrefix == IsPrefix(consumed, Decoded(log))

\* Spec 4.1: the log is resumed from a byte offset: `end` is the offset
\* just past the bytes the monitor has received.
ResumesAtByteOffset == end = pos

\* Spec 4.1/7: a failure or timeout exit leaves the negative signal
\* success=-1 in $GITHUB_OUTPUT.
FailureIsSignalled ==
  (pc = "exited" /\ exitCode = 1) => ghOut = "success=-1"

\* Spec 5: the deadline ends the wait; the script does not run forever.
Terminates == <>(pc = "exited")

\* Spec 7 and 8: the status test ends the loop only with a verdict: a
\* malformed status document is treated as "pending" (back to the loop),
\* and every code <= fail or >= success is reported.
StatusTestNeverFails ==
  [][(pc = "decide" /\ pc' # "decide") => pc' \in {"loop", "report"}]_vars

-----------------------------------------------------------------------------
(* Refinement: the script implements MonitorAbstract.  The verdict is the  *)
(* value monitor_tasks returned; the job's status is <id>.json.            *)

Abstract == INSTANCE MonitorAbstract WITH
  Documents <- Docs,
  status <- rstatus,
  verdict <- CASE result = TRUE -> "success"
               [] result = FALSE -> "failure"
               [] OTHER -> None,
  signal <- ghOut,
  exitStatus <- exitCode

\* The script's behaviours are behaviours of MonitorAbstract: it settles
\* on a verdict only when the job's status is terminal and the verdict
\* matches it (though task_data was read several steps and farm writes
\* earlier), it writes that verdict's signal before exiting, and exit 0
\* goes with success.
ImplementsAbstract == Abstract!Spec

=============================================================================
