# TLA+ models of the odc CI and test-evaluation scripts

This directory holds TLA+ models of the two Python scripts in this repository,
plus the TLC configurations that check them:

- `.github/obfarm/obfarm.py` is the **CI job monitor**. It waits for a job
  dispatched to the OceanBase farm and turns the job's result into a
  `success=` value for GitHub Actions.
- `server/test-script/unit_test_evaluation_tool.py` is the **test report
  analyzer**. It aggregates surefire reports over several runs, ranks the
  worst methods and classes, and looks up their owners with `git blame`.

The two scripts share nothing. Each one runs once, in one thread. The only
real concurrency is between the monitor and the remote farm job. The farm job
writes the objects that the monitor polls.

## Inventory

### CI job monitor (obfarm.py)

| part | state | operations |
|---|---|---|
| `__main__` | `sys.argv`, global `OUTPUT` dict | arity check (sets `OUTPUT`, `sys.exit(1)`), calls `main` |
| `main` | `RESULT_FILE_KEY`, proxies | `get_job_by_id` (answers `{}` on 404/exception, so `["run_attempt"]` raises), `monitor_tasks`, `set_output`, `exit(1)` unless the result is true |
| `monitor_tasks` | `end_time`, `end` (log offset), `task_data` | loop while `time() <= end_time`: `get_task_res`, `get_task_stage_output(end)`, `end += len(output)`, print, `sleep(1)`, status test (`<= fail` → `success=-1`, `>= success` → `success=1`), `sleep(5)`; `else:` does nothing and returns `None` |
| `get_task_res` | – | GET `<id>.json`, `json.loads`; any exception → `None` (a valid document without `status` is returned as is) |
| `get_task_stage_output` | `start` | if `start`: HEAD for Content-Length (outside the try) and clamp `start` to `filesize - 1`; GET with `range: bytes=start-`; exception → `""` |
| `OssProxy.get_object` | – | status `>= 400` → `""`, else `content.decode()` (UTF-8, may raise) |
| `set_output` | `$GITHUB_OUTPUT` | appends `k=v;...` of `OUTPUT` (an empty line if `OUTPUT` is empty) |
| farm job (not in repo) | `<id>.json`, `<id>.output` | publishes status codes and appends to the log |

These behaviours are hard to test:

- The farm job runs concurrently with every step of the loop.
- Each HTTP call can fail or be slow.
- A timeout can race a terminal status.
- The log offset is counted in characters but used as a byte offset.
- The clamp at end-of-file is an off-by-one.
- The bad-argument, timeout and crash exits each leave a different trace in
  `$GITHUB_OUTPUT`.
- No `requests` call passes `timeout=`, so one call can block for good.
- The status test indexes `task_data["status"]` and
  `TaskStatusEnum._value2member_map_` outside any `try`.

Correctness means these things:

- The signal and the exit status match the job's published status.
- The deadline is kept, up to one poll, and the script exits.
- A terminal status published in time is reported.
- A malformed status document counts as "pending".
- The relayed log is the job's log, with nothing repeated or skipped.

### Test report analyzer (unit_test_evaluation_tool.py)

| part | state | operations |
|---|---|---|
| CLI (`argparse`, `str2boolean`, `str2directory`) | arguments | validation and conversion; exits on bad values |
| mvn loop | `surefire-reports-<i>` directories (on disk, kept between invocations) | unless `-s`, runs `mvn test` `repeat_times` times, each run adding one report per class it completes; the exit status is not read and the directory is not cleared |
| `get_surefire_reports` | – | lists the `.xml` files of a cycle's directory; `exit(-1)` when it is missing or holds none |
| analysis loop | `methods_ut_results`, `classes_ut_results` (dicts keyed by name, insertion-ordered), per-cycle `results`, `all_results`, `success_times` | per cycle, per report (in `os.listdir` order): build `TestClass`/`TestMethod`, append to histories, add to totals; end of cycle: add to `all_results`, count a clean cycle |
| ranking | sorted item lists | `sorted(..., key=cmp_to_key(cmp_method/cmp_class))`, first `number_of_shown` rows |
| owner lookup | – | `glob` for the source file (0 → "lookup failed", >1 → "name collision"), `grep -n` + `awk` for the declaration line, `int()` of the output with the newlines removed, `git blame -p -L n,n`, `split(" ")[-1]`, `name_mapper` |
| output | files in the results directory | the two tables written to `test_methods_results.csv` and `test_classes_results.csv`, or both to `test_results.xlsx` (sheets `methods`, `classes`) |

Correctness means these things:

- The tables are the first N rows of the documented ranking. That ranking
  puts more errors first, then more failures, then a longer average time,
  with ties in a fixed order.
- The summary counts clean cycles correctly, and a cycle it counts as a
  success is a run of every selected class. "Error times" counts test runs.
- The owner is the author of the declaration line.

## Modules

| module | models | state ↔ code |
|---|---|---|
| `MonitorAbstract` | what obfarm.py promises, without time, polling or offsets | `status` (the job's document), `verdict`, `signal` (line in `$GITHUB_OUTPUT`), `exitStatus`; actions `Publish`, `Conclude`, `Emit`, `Die` |
| `ObfarmMonitor` | obfarm.py, whole script, with the farm job as environment | `pc` is the script position; `now` is `time.time()`; `end`, `start`, `taskData`, `result`, `OUTPUT`, `ghOut` (line appended to `$GITHUB_OUTPUT`), `exitCode`; farm: `log` (bytes), `rstatus`; history: `consumed` (characters relayed), `pos` (byte offset received) |
| `UnitTestRanking` | mvn loop, report listing, analysis loop, comparators, sort, top-N rows, saved files | `pc` (`mvn`, `list`, `parse`, `done`, `saved`, `exited`), `skip` (`-s`), `reportDir` (classes with a report in each directory, or `NoDir`), `cycleClasses`/`allCycles` (`results.classes`, `all_results.results`); history: `fresh` (classes each run of this invocation wrote); `pending` (reports of the cycle not read yet, any listdir order), `methodKeys`/`classKeys` (dict insertion order), `methodHist`/`classHist`, `results`, `allResults`, `successTimes`, `shownMethods`/`shownClasses`, `files` (results directory: file name to the tables it holds) |
| `OwnerLookup` | `get_owner_by_domain`, `get_owner_by_file` | `nfiles` (glob result), `fileLen`, `decl` (lines grep matches), `row` (what `int()` produced), `blamed` (author git reports; none past the end of the file or for an untracked file), `owner` |
| `MC*` | model-checking instances | constants |

### ObfarmMonitor actions

Each action is one step of the script between two interactions with the farm
job:

- `BadArgs`: `__main__` with fewer than four arguments.
- `main`: up to `monitor_tasks`, including the job lookup
  (`get_job_by_id`: the run, `{}` on a 404 or an exception, the error body
  of any other status). Anything but the run is a `Crash` on
  `["run_attempt"]`.
- `LoopTest`: the `while` test. Its `else` returns `None`.
- `get_task_res`: one status read, then entry into `get_task_stage_output`.
- `get_object_meta`: HEAD and clamp. A HEAD failure is a crash.
- `get_object`: the range GET, decode, `end += len(output)` and `sleep(1)`.
- `Decide`: the status test, or `sleep(5)`. A document without `status`,
  or a terminal code outside `TaskStatusEnum`, raises `KeyError`: a crash.
  `IsFailure` and `IsSuccess` are its two thresholds.
- `set_output`: the write to `$GITHUB_OUTPUT` and the exit status.
- `Hang`: with `Hangs`, one of the HTTP calls (`get_job_by_id`, or one of
  the three calls of an iteration) never answers.

The farm job is the environment. `AppendOutput` appends whole characters to
the log. `Publish` writes a status document from `Docs`: a code of `Codes`
(which may include 5, a code `>= success` that the enum does not list) or,
with `Malformed`, `NoStatus`, a JSON document without `status`.

### Refinement

`ObfarmMonitor` instantiates `MonitorAbstract` with the mapping below.
The abstract spec allows the monitor to die at any time, and to exit with
an empty signal, so the refinement puts no limit on crashes or on the
timeout exit. Those are checked by the violation runs. It also relies on
`Finished`, the farm's assumption that it writes nothing after a terminal
status; without that assumption, a verdict read from an older document
could disagree with the current one.

The mapping:

- `status <- rstatus`;
- `verdict <-` the value `monitor_tasks` returned (`True`/`False`/`None`);
- `signal <- ghOut`;
- `exitStatus <- exitCode`.

`ImplementsAbstract` (that is, `Abstract!Spec`) is checked as a property.

- `Decide` on a terminal status is `Conclude`. It must see the job's
  *current* status as terminal and agree with it, although `task_data` was
  read two HTTP calls, a sleep and any number of farm writes earlier.
- `set_output` is `Emit`.
- `BadArgs` and every crash are `Die`.
- Every other step leaves the mapped variables alone.

The abstract spec has no liveness. Termination needs every call to return,
so it is the separate property `Terminates`.

Bytes are abstracted to `"a"` (ASCII), `"n"` (whitespace), and `"h"`/`"t"`
(the lead and continuation byte of a two-byte UTF-8 character). `Decoded` and
`ValidUtf8` model `bytes.decode()`: a range that starts on a continuation
byte raises. Printing is left out because it only filters what is already in
`consumed`.

## Runs

| run | expect | what it shows |
|---|---|---|
| `obfarm_safety` | pass | It covers every input: bad argv, a missing job, lost or hung HTTP calls, ASCII/whitespace/2-byte characters, latency 0–1 s per call, documents without `status`, and the code 5. `ImplementsAbstract` holds: a verdict comes only from the job's current terminal status, its signal is written before the exit, and exit 0 goes only with `success=1`. `BoundedOverrun` holds: the clock never passes the deadline by more than one poll. 366k states. |
| `obfarm_liveness` | pass | On a reliable network, `Terminates` holds: the script always exits. `ReportsOutcome` holds: a terminal enum status that is published while the monitor has a poll left ends as the matching signal. |
| `obfarm_log_prefix` | violation | `OutputIsLogPrefix`: once the log has been fully read, the next poll clamps to `filesize - 1`, relays the last byte again and moves `end` past the log. |
| `obfarm_byte_offset` | violation | `ResumesAtByteOffset`: after a 2-byte character, `end` is 1 while 2 bytes were received. |
| `obfarm_failure_signal` | violation | `FailureIsSignalled`: a timeout exits 1 and appends an empty line, not `success=-1`. |
| `obfarm_hang` | violation | `Terminates`: a call that never answers blocks the script for good. Spec §5 says the deadline can be overrun by one poll at most. |
| `obfarm_status_document` | violation | `StatusTestNeverFails`: a document without `status` crashes on `KeyError`, although spec §7 says "pending". The code 5 crashes on `_value2member_map_`, although spec §8 says "success". |
| `ranking` | pass | It covers all pass/error/failure outcomes, durations 1–2, both listing orders over two cycles, and a method run twice per report, with and without `-s`, over directories that are absent (so `-s` exits) or hold an earlier invocation's reports, with the tables saved as CSV or xlsx. 623k states, 1 min. `TablesAreTopRanked` holds: both tables equal the first `number_of_shown` entries of the unique stable ranking by the documented key, checked against a declarative reference over all permutations. Here the count equals N. |
| `ranking_cut` | pass | The same with `number_of_shown = 1`, so the row loops (lines 482 and 519) cut both tables. `TablesAreTopRanked` still holds. 237k states. |
| `ranking_counts` | violation | `CountsAreTestRuns`: the only mvn run stops after C1's report, and the cycle is read from that one report and counted in "Success times". The same happens when C2's missing report is an earlier invocation's. The property's second half fails too: a method run twice per report gets one history record per run, so its "Error times" exceeds "Test times". TLC reports the shortest of these. |
| `ranking_saved_tables` | violation | `BothTablesSaved`: with `-e xlsx` the methods table is written to `test_results.xlsx` and then replaced by the classes table. |
| `owner_declaration` | violation | `OwnerIsDeclarationAuthor`: matches on lines 1 and 2 make `int("12")`, so line 12 is blamed; and the author "Zhang San" is reported as "San". TLC reports one of the two. |

The spec also contradicts itself on the method order. Spec §4.2 says the
slower of two methods with equal errors ranks first, and spec §8 says the
faster does. The code follows §4.2, and `TablesAreTopRanked` checks it
against §4.2.

Every property of a passing run has a mutant in `PROJECT.json`. The mutant is
a plausible bug in the mapped code, and TLC finds it:

- a deadline test dropped;
- `>= stopping` instead of `>= success` (breaks the refinement);
- `< fail` instead of `<= fail`;
- `get_object` answering `None` for a 4xx, so the loop's `continue` polls
  again without sleeping (breaks `Terminates`);
- `if start:` dropped, which gives offset −1 on an empty log;
- the duration tie-break reversed;
- `range(repeat_times + 1)` in the mvn loop, which writes a directory past
  the last one (breaks the ranking `TypeOK`);
- the row-count comparison the other way round, which shows every row
  (breaks `TablesAreTopRanked` in `ranking_cut`).

The owner lookup has no passing run. Each of its hazards is a violation in
`owner_declaration`. What would hold there only restates one assignment,
for example that the owner is the last word of the author line.

### Bounds and why they are enough

- **Monitor.** `Timeout = 12` gives three polls, because one poll takes 6 s,
  or up to 9 s with latency. That covers these sequences:
  - a poll that reads the whole log;
  - a poll that finds no new output (the clamp);
  - a poll after the log grows again;
  - a status published between polls and after the last poll.

  `MaxLog = 3` bytes allows one 2-byte character next to an ASCII one. The
  status codes are `running`, `stopping` (non-terminal, and the edge below
  `success`), `success`, `fail` (the edge of the failure test) and `kill`.
- **Ranking.** Two classes over two cycles, with durations {1, 2}. The
  second class runs its one method twice per report. This produces ties on
  errors and failures that only the average decides, exact ties that only
  insertion order decides, both listing orders, and histories with more
  records than cycles. `number_of_shown = 2` sits at the boundary, where
  the count equals N. `ranking_cut` uses 1, which is below both counts. Each directory starts absent or with a report of
  every class, which is what a previous invocation with the same filter
  leaves. Partial runs are checked in `ranking_counts` instead, with
  one cycle and one outcome: a single missing report already shows the
  fault there.
  - The earlier instance, with three distinct methods, also passed. The
    instance with three methods and a repeated one passes too, over 4.3M
    states, but it takes 10 minutes.
- **Statuses.** 5 is the smallest code that is `>= success` and outside
  the enum. `NoStatus` stands for every JSON document without `status`,
  including `{}`.
- **Owner lookup.** The bounds are files of up to 12 lines, up to 2 matches
  and up to 2 glob hits. Twelve lines is the smallest length at which two
  one-digit matches concatenate to a line that exists. The file may or may
  not be tracked by git.

### Fairness

Only the monitor is fair: `WF_vars(Monitor)`. It is one sequential process,
and each of its steps finishes, because every sleep returns and every HTTP
call is bounded by `Latency`. The one exception is `Hangs`: after `Hang`, no
step of the monitor is enabled, so fairness does not force one. That is how
`obfarm_hang` shows a script that never exits. The farm job gets no fairness, since it may
stall forever. The analyzer and the owner lookup are checked for safety only.

## Not modelled, and why

- **Time during a hang.** `Hang` stops the clock. `BoundedOverrun` is about
  the steps the script takes, and a hung script takes none.
- **The relay stall as liveness.** After a decode error the relay stops for
  good. That stall is reached through the offset error that
  `ResumesAtByteOffset` catches. A separate "eventually relayed" property
  would need the job to stop before the deadline, and the deadline always
  ends the relay anyway.
- **`request()`.** This helper is never called.
- **External processes and I/O.** This covers the analyzer's CLI conversion,
  the `mvn` command line (its effect, the reports written, is `RunMvn`),
  and printing. The saved files are modelled, by the tables they hold.
  - `to_excel(..., encoding=...)` is rejected by pandas 2, where the
    keyword was removed. Which pandas is installed is outside the code, so
    this is not modelled.
- **Analyzer CLI.** `argparse`, `str2boolean`, `str2directory` and the
  range checks only produce the constants (`RepeatTimes >= 1`,
  `NumberOfShown >= 1`, enforced by `ASSUME`, and `OutputTypes`). Each
  check either exits before any other step or passes. `str2directory`
  creating a missing directory is `NoFiles`, the empty results directory.
- **Owners of the shown rows.** Each shown row calls `get_owner_by_domain`,
  and `OwnerLookup` checks that call over every file system in its bounds.
  The rows do not influence each other's lookups. A composed module would
  only repeat `OwnerLookup` once per row.
- **An abstract ranking spec.** Such a spec would build the tables in one
  step from all the reports. `TablesAreTopRanked` already states this
  directly, as a declarative reference over all permutations. A refinement
  would restate the same check.

## Plan

Done first:

1. `ObfarmMonitor`: the only concurrent interaction.
2. `UnitTestRanking`: aggregation and ranking.
3. `OwnerLookup`.

Done second:

4. `MonitorAbstract` and its refinement. The log relay is left out of the
   abstract spec because it is already known to be broken
   (`obfarm_log_prefix`).
5. Hung calls with `Terminates`, malformed status documents and codes
   outside the enum (`StatusTestNeverFails`).
6. Repeated testcase names in `UnitTestRanking`
   (the "Error times" half of `CountsAreTestRuns`, and a ranking that holds
   with them).

Done third:

7. The mvn loop and `get_surefire_reports` in `UnitTestRanking`: report
   directories that outlive the process, runs that stop early, `-s`, and
   the `exit(-1)` on a missing or empty directory (the "Success times" half
   of `CountsAreTestRuns`). The two owner violations are one property,
   `OwnerIsDeclarationAuthor`.

Done fourth:

8. The saved result files (`SaveResults`, `BothTablesSaved`) and
   `GithubProxy.get_job_by_id` with its four kinds of answer.

The remaining parts are listed under "Not modelled", each with its reason.
