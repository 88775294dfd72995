-------------------------- MODULE UnitTestRanking --------------------------
(***************************************************************************)
(* server/test-script/unit_test_evaluation_tool.py, __main__ after the    *)
(* argument checks.  Unless -s, it runs `mvn test` repeat_times times,    *)
(* each run writing one report per test class it completes into          *)
(* surefire-reports-<i>, a directory that outlives the process (reports  *)
(* of earlier invocations stay there).  Then for each cycle it lists     *)
(* that directory (exit(-1) when it is missing or empty) and reads every  *)
(* report of surefire-reports-<i> (one per test class, in os.listdir     *)
(* order), appends each method's and each class's record to a history    *)
(* keyed by name (a dict, so keys keep their first-insertion order),      *)
(* sums per-cycle totals into the summary, then sorts both histories      *)
(* with cmp_method / cmp_class and keeps the first number_of_shown.       *)
(*                                                                         *)
(* The reports are the input: each method of a class gets an outcome and  *)
(* a duration (integer milliseconds; the script's floats are compared     *)
(* exactly here).  Printing is not state; the tables saved to the       *)
(* results directory are, as whole files (rows = the shown names).        *)
(***************************************************************************)
EXTENDS Integers, Sequences, SequencesExt, FiniteSets

CONSTANTS
  Classes,        \* test classes, one report file each per cycle
  ClassMethods,   \* [Classes -> Seq(method)]: testcase names of a report, in
                  \* order; a name repeats for a test run several times
  RepeatTimes,    \* -r: number of cycles analysed
  NumberOfShown,  \* -n: rows kept in each ranked table
  Outcomes,       \* testcase outcomes: "pass", "error", "failure", "skipped"
  Times,          \* testcase durations
  SkipTest,       \* values of -s that are tried
  Selected,       \* classes the -t filter selects
  PartialRuns,    \* whether a mvn run may stop before every selected class
                  \* has written its report (forked VM crash, build error)
  Leftovers,      \* what surefire-reports-<i> may hold before the process
  NoDir,          \* a directory that does not exist
  OutputTypes     \* values of -e that pass its check: "csv", "xlsx"

Methods == UNION {ToSet(ClassMethods[c]) : c \in Classes}

ASSUME RepeatTimes \in Nat \ {0} /\ NumberOfShown \in Nat \ {0}
ASSUME Outcomes \subseteq {"pass", "error", "failure", "skipped"}
ASSUME Times \subseteq Nat /\ Classes # {} /\ Selected \subseteq Classes
ASSUME SkipTest \subseteq BOOLEAN /\ PartialRuns \in BOOLEAN
ASSUME Leftovers \subseteq SUBSET Classes \cup {NoDir}
ASSUME OutputTypes \subseteq {"csv", "xlsx"}

Cycles == 1..RepeatTimes

\* A TestMethod record: time and error (<error> nested in the testcase).
MethodRecord == [time : Times, error : BOOLEAN]
\* A TestClass record: the attributes of the report's root element.
ClassRecord == [time : Nat, tests : Nat, errors : Nat, skipped : Nat,
                failures : Nat]
Totals == [tests : Nat, errors : Nat, failures : Nat, skipped : Nat, time : Nat]
NoTotals == [tests |-> 0, errors |-> 0, failures |-> 0, skipped |-> 0, time |-> 0]

VARIABLES
  pc,            \* "mvn", "list", "parse" (the cycle loop), "done", "saved",
                 \* "exited"
  skip,          \* skip_test
  reportDir,     \* report files (their classes) in each surefire-reports-<i>
  cycle,         \* i + 1 of the mvn loop, then of the cycle loop
  pending,       \* classes whose report of this cycle is not read yet
  results,       \* UnitTestResultsPerCycle totals of the current cycle
  cycleClasses,  \* results.classes: the TestClass read per class this cycle
  allCycles,     \* all_results.results: the cycles' classes, in order
  allResults,    \* AllTestResults totals
  successTimes,  \* all_results.success_times
  methodKeys,    \* keys of methods_ut_results in insertion order
  methodHist,    \* methods_ut_results
  classKeys,     \* keys of classes_ut_results in insertion order
  classHist,     \* classes_ut_results
  shownMethods,  \* Method column of df_methods
  shownClasses,  \* Class column of df_classes
  files,         \* results directory: file name -> the tables it holds
  fresh          \* history: classes whose report run i of this process wrote

vars == <<pc, skip, reportDir, cycle, pending, results, cycleClasses,
          allCycles, allResults, successTimes, methodKeys, methodHist,
          classKeys, classHist, shownMethods, shownClasses, files, fresh>>

\* A per-class map of the TestClass records read in one cycle.
IsClassMap(f) == DOMAIN f \subseteq Classes /\ \A c \in DOMAIN f : f[c] \in ClassRecord

NoClasses == [c \in {} |-> NoTotals]

\* A saved table: which of the two it is and its first column, in order.
Tables == [kind : {"methods"}, rows : Seq(Methods)]
            \cup [kind : {"classes"}, rows : Seq(Classes)]
NoFiles == [f \in {} |-> {}]

TypeOK ==
  /\ pc \in {"mvn", "list", "parse", "done", "saved", "exited"}
  /\ skip \in BOOLEAN
  /\ cycle \in 1..RepeatTimes + 1
  /\ reportDir \in [Cycles -> SUBSET Classes \cup {NoDir}]
  /\ fresh \in [Cycles -> SUBSET Classes]
  /\ pending \subseteq Classes
  /\ IsClassMap(cycleClasses)
  /\ DOMAIN allCycles = 1..Len(allCycles) /\ Len(allCycles) <= RepeatTimes
  /\ \A k \in DOMAIN allCycles : IsClassMap(allCycles[k])
  /\ results \in Totals /\ allResults \in Totals
  /\ successTimes \in 0..RepeatTimes
  /\ methodHist \in [Methods -> Seq(MethodRecord)]
  /\ classHist \in [Classes -> Seq(ClassRecord)]
  /\ methodKeys \in Seq(Methods) /\ classKeys \in Seq(Classes)
  /\ IsInjective(methodKeys) /\ IsInjective(classKeys)   \* dict keys
  /\ shownMethods \in Seq(Methods) /\ shownClasses \in Seq(Classes)
  /\ \A f \in DOMAIN files : files[f] \subseteq Tables

Init ==
  /\ skip \in SkipTest /\ pc = IF skip THEN "list" ELSE "mvn"
  /\ reportDir \in [Cycles -> Leftovers]
  /\ fresh = [i \in Cycles |-> {}]
  /\ cycle = 1 /\ pending = {} /\ cycleClasses = NoClasses /\ allCycles = <<>>
  /\ results = NoTotals /\ allResults = NoTotals /\ successTimes = 0
  /\ methodKeys = <<>> /\ methodHist = [m \in Methods |-> <<>>]
  /\ classKeys = <<>> /\ classHist = [c \in Classes |-> <<>>]
  /\ shownMethods = <<>> /\ shownClasses = <<>> /\ files = NoFiles

-----------------------------------------------------------------------------
(* Operators on records and histories. *)

SumOf(s, f(_)) == FoldLeft(LAMBDA acc, r : acc + f(r), 0, s)
CountOf(s, P(_)) == Len(SelectSeq(s, P))

\* `if key in d: d[key].append(v) else: d[key] = [v]` for a sequence of
\* keys: each new key goes to the end of the insertion order, once.
AddKeys(keys, new) ==
  FoldLeft(LAMBDA ks, k : IF Contains(ks, k) THEN ks ELSE Append(ks, k),
           keys, new)

\* The summed time of a history and the number of its records; the average
\* x_time / len(x[1]) is compared as a fraction.
HistTime(h) == SumOf(h, LAMBDA r : r.time)

\* avg(hx) < avg(hy), cross-multiplied (both histories are non-empty).
AvgLess(hx, hy) == HistTime(hx) * Len(hy) < HistTime(hy) * Len(hx)

\* Mutant: the duration tie-break the other way (faster first).
cmp_method_fastest_first(x, y) ==
  LET hx == methodHist[x]  hy == methodHist[y]
      ex == CountOf(hx, LAMBDA r : r.error)
      ey == CountOf(hy, LAMBDA r : r.error)
  IN CASE ex > ey -> -1
       [] ex < ey -> 1
       [] AvgLess(hx, hy) -> -1
       [] AvgLess(hy, hx) -> 1
       [] OTHER -> 0

\* cmp_method(x, y): -1, 0 or 1.
cmp_method(x, y) ==
  LET hx == methodHist[x]  hy == methodHist[y]
      ex == CountOf(hx, LAMBDA r : r.error)
      ey == CountOf(hy, LAMBDA r : r.error)
  IN CASE ex > ey -> -1
       [] ex < ey -> 1
       [] AvgLess(hx, hy) -> 1
       [] AvgLess(hy, hx) -> -1
       [] OTHER -> 0

\* cmp_class(x, y): -1, 0 or 1.
cmp_class(x, y) ==
  LET hx == classHist[x]  hy == classHist[y]
      ex == SumOf(hx, LAMBDA r : r.errors)
      ey == SumOf(hy, LAMBDA r : r.errors)
      fx == SumOf(hx, LAMBDA r : r.failures)
      fy == SumOf(hy, LAMBDA r : r.failures)
  IN CASE ex > ey -> -1
       [] ex < ey -> 1
       [] fx > fy -> -1
       [] fx < fy -> 1
       [] AvgLess(hx, hy) -> 1
       [] AvgLess(hy, hx) -> -1
       [] OTHER -> 0

\* sorted(s, key=cmp_to_key(cmp)): a stable sort that only asks whether
\* cmp(a, b) < 0.  For a comparator that is a total preorder the stable
\* sorted permutation is unique, so insertion sort yields Timsort's result:
\* each element goes after the elements it does not sort before.
SortedBy(s, Cmp(_, _)) ==
  LET Insert(acc, x) ==
        LET k == Len(SelectSeq(acc, LAMBDA e : ~(Cmp(x, e) < 0)))
        IN SubSeq(acc, 1, k) \o <<x>> \o SubSeq(acc, k + 1, Len(acc))
  IN FoldLeft(Insert, <<>>, s)

\* Mutant: the comparison the other way round, `methods_num if methods_num >
\* number_of_shown else number_of_shown` (past the rows when fewer).
ShownSwapped(s) ==
  SubSeq(s, 1, IF Len(s) > NumberOfShown THEN Len(s) ELSE NumberOfShown)

\* range(methods_num if methods_num < number_of_shown else number_of_shown)
Shown(s) == SubSeq(s, 1, IF Len(s) < NumberOfShown THEN Len(s) ELSE NumberOfShown)

-----------------------------------------------------------------------------
(* The mvn loop and the analysis loop. *)

\* What a test run leaves in surefire-reports-<i>: the files already there
\* plus one report for each class it completed.  Maven creates the
\* directory with the first report it writes.
AfterRun(dir, written) ==
  IF dir = NoDir /\ written = {} THEN NoDir
  ELSE (IF dir = NoDir THEN {} ELSE dir) \cup written

\* Mutant: `range(repeat_times + 1)`, one test run too many, into a new
\* directory surefire-reports-<repeat_times + 1>.
RunMvnExtraRun ==
  /\ pc = "mvn"
  /\ \E written \in IF PartialRuns THEN SUBSET Selected ELSE {Selected} :
       LET old == IF cycle \in DOMAIN reportDir THEN reportDir[cycle] ELSE NoDir
       IN /\ reportDir' = (cycle :> AfterRun(old, written)) @@ reportDir
          /\ fresh' = (cycle :> written) @@ fresh
  /\ IF cycle <= RepeatTimes
     THEN cycle' = cycle + 1 /\ UNCHANGED pc
     ELSE cycle' = 1 /\ pc' = "list"
  /\ UNCHANGED <<skip, pending, results, cycleClasses, allCycles, allResults,
                 successTimes, methodKeys, methodHist, classKeys, classHist,
                 shownMethods, shownClasses, files>>

\* One iteration of `for i in range(repeat_times)`: os.system runs mvn with
\* -DsurefireReportsDirectory=surefire-reports-<i+1> and the -Dtest filter.
\* Its exit status is not looked at, and nothing clears the directory.
RunMvn ==
  /\ pc = "mvn"
  /\ \E written \in IF PartialRuns THEN SUBSET Selected ELSE {Selected} :
       /\ reportDir' = [reportDir EXCEPT ![cycle] = AfterRun(@, written)]
       /\ fresh' = [fresh EXCEPT ![cycle] = written]
  /\ IF cycle < RepeatTimes
     THEN cycle' = cycle + 1 /\ UNCHANGED pc
     ELSE cycle' = 1 /\ pc' = "list"
  /\ UNCHANGED <<skip, pending, results, cycleClasses, allCycles, allResults,
                 successTimes, methodKeys, methodHist, classKeys, classHist,
                 shownMethods, shownClasses, files>>

\* get_surefire_reports(surefire-reports-<i+1>) at the top of the cycle: the
\* .xml files of the directory, or exit(-1) when it is missing or holds none.
ListReports ==
  /\ pc = "list"
  /\ IF reportDir[cycle] \in {NoDir, {}}
     THEN pc' = "exited" /\ UNCHANGED pending
     ELSE pc' = "parse" /\ pending' = reportDir[cycle]
  /\ UNCHANGED <<skip, reportDir, cycle, results, cycleClasses, allCycles,
                 allResults, successTimes, methodKeys, methodHist, classKeys,
                 classHist, shownMethods, shownClasses, files, fresh>>

\* One report of the current cycle, the next one os.listdir yields: build
\* TestClass and its TestMethods, append them to both histories and add the
\* class attributes to the cycle totals.
ParseReport ==
  /\ pc = "parse" /\ pending # {}
  /\ \E c \in pending : \E out \in [1..Len(ClassMethods[c]) -> Outcomes \X Times] :
       LET ms   == ClassMethods[c]
           idx  == [i \in 1..Len(ms) |-> i]
           rec(i) == [time |-> out[i][2], error |-> out[i][1] = "error"]
           cnt(o) == Cardinality({i \in 1..Len(ms) : out[i][1] = o})
           tc   == [time |-> SumOf(idx, LAMBDA i : out[i][2]),
                    tests |-> Len(ms), errors |-> cnt("error"),
                    skipped |-> cnt("skipped"), failures |-> cnt("failure")]
       IN /\ methodHist' = FoldLeft(LAMBDA h, i : [h EXCEPT ![ms[i]] = Append(@, rec(i))],
                                    methodHist, idx)
          /\ methodKeys' = AddKeys(methodKeys, ms)
          /\ classHist' = [classHist EXCEPT ![c] = Append(@, tc)]
          /\ classKeys' = AddKeys(classKeys, <<c>>)
          /\ results' = [tests |-> results.tests + tc.tests,
                         errors |-> results.errors + tc.errors,
                         failures |-> results.failures + tc.failures,
                         skipped |-> results.skipped + tc.skipped,
                         time |-> results.time + tc.time]
          /\ cycleClasses' = (c :> tc) @@ cycleClasses
          /\ pending' = pending \ {c}
  /\ UNCHANGED <<pc, skip, reportDir, cycle, allCycles, allResults,
                 successTimes, shownMethods, shownClasses, files, fresh>>

\* All reports of the cycle are read: add the totals to all_results and
\* count the cycle as a success when it had no error and no failure.  After
\* the last cycle: sort both histories and keep the rows shown.
EndCycle ==
  /\ pc = "parse" /\ pending = {}
  /\ allResults' = [k \in DOMAIN allResults |-> allResults[k] + results[k]]
  /\ successTimes' = IF results.errors = 0 /\ results.failures = 0
                     THEN successTimes + 1 ELSE successTimes
  /\ results' = NoTotals /\ cycleClasses' = NoClasses
  /\ allCycles' = Append(allCycles, cycleClasses)
  /\ cycle' = cycle + 1
  /\ IF cycle < RepeatTimes
     THEN /\ pc' = "list"
          /\ UNCHANGED <<pending, shownMethods, shownClasses>>
     ELSE /\ pc' = "done" /\ pending' = {}
          /\ shownMethods' = Shown(SortedBy(methodKeys, cmp_method))
          /\ shownClasses' = Shown(SortedBy(classKeys, cmp_class))
  /\ UNCHANGED <<skip, reportDir, methodKeys, methodHist, classKeys, classHist,
                 files, fresh>>

\* DataFrame.to_csv / to_excel given a file name: the file is created or
\* replaced, and holds this table only (to_excel writes a new workbook).
WriteTable(fs, name, table) == (name :> {table}) @@ fs

\* "Save results (Existing files will be overwritten!)": both tables, to two
\* CSV files or twice to test_results.xlsx (sheets "methods", "classes").
\* -e is checked at start-up and read only here, so it is chosen here.
SaveResults ==
  /\ pc = "done"
  /\ \E type \in OutputTypes :
       LET m == [kind |-> "methods", rows |-> shownMethods]
           c == [kind |-> "classes", rows |-> shownClasses]
       IN files' =
            IF type = "csv"
            THEN WriteTable(WriteTable(files, "test_methods_results.csv", m),
                            "test_classes_results.csv", c)
            ELSE WriteTable(WriteTable(files, "test_results.xlsx", m),
                            "test_results.xlsx", c)
  /\ pc' = "saved"
  /\ UNCHANGED <<skip, reportDir, cycle, pending, results, cycleClasses,
                 allCycles, allResults, successTimes, methodKeys, methodHist,
                 classKeys, classHist, shownMethods, shownClasses, fresh>>

Next == RunMvn \/ ListReports \/ ParseReport \/ EndCycle \/ SaveResults

Spec == Init /\ [][Next]_vars

-----------------------------------------------------------------------------
(* Properties. *)

\* The ranking spec 4.2 documents: more errors first, then (classes) more
\* failures, then the higher average duration first.
MethodWorse(x, y) ==
  LET ex == CountOf(methodHist[x], LAMBDA r : r.error)
      ey == CountOf(methodHist[y], LAMBDA r : r.error)
  IN ex > ey \/ (ex = ey /\ AvgLess(methodHist[y], methodHist[x]))
ClassWorse(x, y) ==
  LET T(h) == <<SumOf(h, LAMBDA r : r.errors), SumOf(h, LAMBDA r : r.failures)>>
      tx == T(classHist[x])  ty == T(classHist[y])
  IN \/ tx[1] > ty[1]
     \/ tx[1] = ty[1] /\ tx[2] > ty[2]
     \/ tx = ty /\ AvgLess(classHist[y], classHist[x])

\* r is s sorted worst first, entries that rank alike in their order in s.
IsStableRanking(r, s, Worse(_, _)) ==
  LET At(q, k) == CHOOSE i \in 1..Len(q) : q[i] = k
  IN /\ Len(r) = Len(s) /\ ToSet(r) = ToSet(s)
     /\ \A i, j \in 1..Len(r) : i < j =>
          /\ ~Worse(r[j], r[i])
          /\ ~Worse(r[i], r[j]) => At(s, r[i]) < At(s, r[j])

\* The tables the tool writes are the first number_of_shown rows of the
\* documented ranking of all methods and all classes seen in any cycle,
\* ties in first-seen order (cmp_method, cmp_class, sorted, the row loop).
TablesAreTopRanked ==
  LET IsTop(t, r) == IsPrefix(t, r) /\ Len(t) = Min({Len(r), NumberOfShown})
  IN pc \in {"done", "saved"} =>
       /\ \E r \in SetToSeqs(ToSet(methodKeys)) :
            IsStableRanking(r, methodKeys, MethodWorse) /\ IsTop(shownMethods, r)
       /\ \E r \in SetToSeqs(ToSet(classKeys)) :
            IsStableRanking(r, classKeys, ClassWorse) /\ IsTop(shownClasses, r)

\* A cycle's reports had no error and no failure.
CleanCycle(f) == \A c \in DOMAIN f : f[c].errors = 0 /\ f[c].failures = 0

\* The summary counts test runs: "Test times: repeat_times", "Success times"
\* the runs in which every test passed.  So a cycle counted as a success
\* is a run of this invocation (not -s) that completed every class the -t
\* filter selects, read from the reports that run wrote (no class missing,
\* no report left over from an earlier run); and the "Error times" of a
\* shown method, which the row loop counts from its history records, is at
\* most the number of runs.
CountsAreTestRuns ==
  /\ ~skip =>
       \A k \in DOMAIN allCycles :
         CleanCycle(allCycles[k]) =>
           DOMAIN allCycles[k] = Selected /\ Selected \subseteq fresh[k]
  /\ pc \in {"done", "saved"} =>
       \A i \in 1..Len(shownMethods) :
         CountOf(methodHist[shownMethods[i]], LAMBDA r : r.error) <= RepeatTimes

\* The tables of this invocation as the tool saves them.
SavedTables == UNION {files[f] : f \in DOMAIN files}

\* The tool "writes two ranked tables to disk" (spec) and then reports "The
\* evaluation results have been saved": once it has saved, the methods
\* table and the classes table it printed can both be read back from the
\* results directory.
BothTablesSaved ==
  pc = "saved" =>
    {[kind |-> "methods", rows |-> shownMethods],
     [kind |-> "classes", rows |-> shownClasses]} \subseteq SavedTables

=============================================================================
