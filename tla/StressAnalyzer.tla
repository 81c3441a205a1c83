--------------------------- MODULE StressAnalyzer ---------------------------
(***************************************************************************)
(* The stress-test log analyzer of                                         *)
(* src/simulation/scripts/analysis/stress_analyzer.py: the driving loop of *)
(* analyze_files over the files glob returns, the per-file scenario        *)
(* segmentation of analyze_entries (ScenarioSegmenter), the threshold pass *)
(* of apply_thresholds (ThresholdEvaluator) and the summary and exit       *)
(* status of generate_summary and main (VerdictAssembler).                 *)
(*                                                                         *)
(* A log line is abstracted to the parsed LogEntry shape it carries: the   *)
(* places a scenario name can be recovered from, its level, whether it is  *)
(* a "completed" line and its numeric fields, whether it is an assertion   *)
(* and whether that assertion passed, whether its "fields" payload is a   *)
(* JSON-encoded string (as the Lua scenarios emit it), and whether its     *)
(* duration field is absent, numeric or text float() rejects.              *)
(***************************************************************************)
EXTENDS Integers, Sequences, FiniteSets, TLC, SequencesExt

CONSTANTS
    Names,      \* scenario identifiers a log entry can name
    Metrics,    \* names of the numeric fields of a "completed" entry
    Values,     \* values of those fields
    Entries,    \* the LogEntry shapes an input line can parse to
    Configs,    \* the ThresholdConfigs a readable policy file can give
    None,       \* Python's None
    MaxFiles,   \* bound on the number of files glob.glob returns
    MaxLines,   \* bound on the lines read over the whole run
    ErrorLimit, \* error count above which get_recommendations flags a run
    ReadFaults  \* what can end parse_log_file early: "io", "nonobject"

ASSUME MaxFiles \in Nat /\ MaxLines \in Nat /\ ErrorLimit \in Nat
ASSUME ReadFaults \subseteq {"io", "nonobject"}

\* The literal extract_scenario_name falls back to.
Unknown == "unknown"
RunName == Names \cup {Unknown}

VARIABLES
    nfiles,     \* len(glob.glob(file_pattern))
    fileNo,     \* index of the file being analysed
    linesRead,  \* lines read so far, over all files
    phase,      \* "reading" | "thresholds" | "analyzed" | "done" | "crashed"
    config,     \* self.threshold_config
    current,    \* current_scenario, local to analyze_entries
    open,       \* scenario_analysis, the run being accumulated
    finished,   \* self.scenarios, flattened in append order
    nextId,     \* identity of the next ScenarioAnalysis created
    exitCode,   \* the process exit status
    hist,       \* history: the entries analysed, per file
    cfgSource,  \* the --thresholds file: "absent", "found", "missing", "invalid"
    recs,       \* get_recommendations() as written to the report
    readErrors  \* history: "nonobject" once a malformed line ended a file

vars == <<nfiles, fileNo, linesRead, phase, config, current, open, finished,
          nextId, exitCode, hist, cfgSource, recs, readErrors>>

-----------------------------------------------------------------------------
(***************************************************************************)
(* LogEntry and extract_scenario_name.                                     *)
(***************************************************************************)

\* get_field('scenario'): the fields payload first, then the span.  A key
\* present with an empty value ("") is returned as is and masks the span.
ScenarioField(e) == IF e.fscen # None THEN e.fscen ELSE e.sscen

\* get_field('name')
NameField(e) == e.nm

\* The ordered chain of extract_scenario_name: a truthy scenario field, the
\* identifier after "scenario" in the message, then the scenario-runner
\* target falling back to the name field or "unknown".
ExtractScenarioName(e) ==
    IF ScenarioField(e) \in Names THEN ScenarioField(e)
    ELSE IF e.mscen # None THEN e.mscen
    ELSE IF e.tscen THEN (IF NameField(e) \in Names THEN NameField(e) ELSE Unknown)
    ELSE None

\* With "fields" a JSON string, get_field indexes a str by a key it finds as
\* a substring, and a completed line calls .items() on it; a completed
\* line's duration that is not a number makes float() raise.  Nothing in
\* analyze_entries catches these exceptions.
Crashes(e, run) ==
    \/ e.encoded /\ (e.fscen # None \/ (run # None /\ e.completed))
    \/ run # None /\ e.completed /\ e.dur = "text"

-----------------------------------------------------------------------------
(***************************************************************************)
(* ScenarioAnalysis and its update by one entry.                           *)
(***************************************************************************)

NewRun(n) ==
    [id |-> nextId, name |-> n, passed |-> None, nerr |-> 0, nwarn |-> 0,
     metrics |-> [m \in {} |-> 0], assertions |-> <<>>]

\* Mutant of Observe: a passing assertion sets the status to passed even
\* after a failure (the `elif passed is None` guard dropped).
ObserveResetsVerdict(r, e) ==
    [r EXCEPT
        !.nerr       = @ + (IF e.lvl = "ERROR" THEN 1 ELSE 0),
        !.nwarn      = @ + (IF e.lvl = "WARN" THEN 1 ELSE 0),
        !.metrics    = IF e.completed THEN e.metrics @@ @ ELSE @,
        !.assertions = IF e.assertion THEN Append(@, e.passed) ELSE @,
        !.passed     = IF ~e.assertion THEN @ ELSE e.passed]

\* The body of the entries loop once a run is open: error and warning
\* lists, the numeric fields of a completed line (each overwrites the last
\* value), the assertion list and the pass/fail status.
Observe(r, e) ==
    [r EXCEPT
        !.nerr       = @ + (IF e.lvl = "ERROR" THEN 1 ELSE 0),
        !.nwarn      = @ + (IF e.lvl = "WARN" THEN 1 ELSE 0),
        !.metrics    = IF e.completed THEN e.metrics @@ @ ELSE @,
        !.assertions = IF e.assertion THEN Append(@, e.passed) ELSE @,
        !.passed     = IF ~e.assertion THEN @
                       ELSE IF ~e.passed THEN FALSE
                       ELSE IF @ = None THEN TRUE
                       ELSE @]

\* A threshold entry declares the bound k.
HasBound(t, k) == k \in DOMAIN t

\* Mutant of CheckMetric: 'max' only looked at when there is no 'min'.
CheckMetricElifBounds(cfg, m, v) ==
    \/ m \notin DOMAIN cfg
    \/ IF HasBound(cfg[m], "min") THEN ~(v < cfg[m]["min"])
       ELSE ~(HasBound(cfg[m], "max") /\ v > cfg[m]["max"])

\* ThresholdConfig.check_metric: a metric without an entry passes; a
\* present 'min' or 'max' bound it breaks fails it.
CheckMetric(cfg, m, v) ==
    \/ m \notin DOMAIN cfg
    \/ /\ ~(HasBound(cfg[m], "min") /\ v < cfg[m]["min"])
       /\ ~(HasBound(cfg[m], "max") /\ v > cfg[m]["max"])

\* Mutant of CheckRun: the status is overwritten by the threshold outcome.
CheckRunOverwrites(cfg, r) ==
    IF \A m \in DOMAIN r.metrics : CheckMetric(cfg, m, r.metrics[m])
    THEN [r EXCEPT !.passed = IF DOMAIN r.metrics = {} THEN @ ELSE TRUE]
    ELSE [r EXCEPT !.passed = FALSE, !.assertions = Append(@, FALSE)]

\* apply_thresholds for one run.
CheckRun(cfg, r) ==
    IF \A m \in DOMAIN r.metrics : CheckMetric(cfg, m, r.metrics[m])
    THEN r
    ELSE [r EXCEPT !.passed = FALSE, !.assertions = Append(@, FALSE)]

-----------------------------------------------------------------------------
(***************************************************************************)
(* Actions.                                                                *)
(***************************************************************************)

\* main and load_threshold_config: without --thresholds there is no
\* configuration; a missing file, or one json.load rejects, is reported
\* and also gives None.
LoadedConfigs(src) == IF src = "found" THEN Configs ELSE {None}

\* StressAnalyzer.__init__ and analyze_files: glob returns the files; with
\* none, analyze_files returns before apply_thresholds.
Init ==
    /\ cfgSource \in {"absent", "found", "missing", "invalid"}
    /\ config \in LoadedConfigs(cfgSource)
    /\ recs = None
    /\ readErrors = {}
    /\ nfiles \in 0..MaxFiles
    /\ fileNo = 1
    /\ linesRead = 0
    /\ phase = IF nfiles = 0 THEN "analyzed" ELSE "reading"
    /\ current = None
    /\ open = None
    /\ finished = <<>>
    /\ nextId = 1
    /\ exitCode = None
    /\ hist = [f \in 1..MaxFiles |-> <<>>]

\* parse_log_file: a blank line, or one json.loads rejects, is skipped.
SkipLine ==
    /\ phase = "reading"
    /\ linesRead < MaxLines
    /\ linesRead' = linesRead + 1
    /\ UNCHANGED <<readErrors, cfgSource, recs, nfiles, fileNo, phase, config, current, open, finished,
                   nextId, exitCode, hist>>

\* Mutant of AnalyzeEntry: a new scenario replaces the open run without
\* appending it to self.scenarios.
AnalyzeEntrySwitchWithoutFlush(e) ==
    LET n      == ExtractScenarioName(e)
        switch == n # None /\ n # current
        run    == IF switch THEN NewRun(n) ELSE open
    IN  /\ phase = "reading"
        /\ linesRead < MaxLines
        /\ ~Crashes(e, run)
        /\ linesRead' = linesRead + 1
        /\ hist' = [hist EXCEPT ![fileNo] = Append(@, e)]
        /\ current' = IF switch THEN n ELSE current
        /\ nextId' = IF switch THEN nextId + 1 ELSE nextId
        /\ open' = IF run = None THEN None ELSE Observe(run, e)
        /\ UNCHANGED <<readErrors, cfgSource, recs, nfiles, fileNo, phase, config, exitCode,
                       finished>>

\* One iteration of the loop of analyze_entries.
AnalyzeEntry(e) ==
    LET n      == ExtractScenarioName(e)
        switch == n # None /\ n # current
        run    == IF switch THEN NewRun(n) ELSE open
    IN  /\ phase = "reading"
        /\ linesRead < MaxLines
        /\ ~Crashes(e, run)
        /\ linesRead' = linesRead + 1
        /\ hist' = [hist EXCEPT ![fileNo] = Append(@, e)]
        /\ finished' = IF switch /\ open # None THEN Append(finished, open)
                       ELSE finished
        /\ current' = IF switch THEN n ELSE current
        /\ nextId' = IF switch THEN nextId + 1 ELSE nextId
        /\ open' = IF run = None THEN None ELSE Observe(run, e)
        /\ UNCHANGED <<readErrors, cfgSource, recs, nfiles, fileNo, phase, config, exitCode>>

\* The same iteration on an entry whose string payload it indexes: the
\* uncaught TypeError/AttributeError ends the process with status 1.
CrashOnEntry(e) ==
    LET n      == ExtractScenarioName(e)
        run    == IF n # None /\ n # current THEN NewRun(n) ELSE open
    IN  /\ phase = "reading"
        /\ linesRead < MaxLines
        /\ Crashes(e, run)
        /\ linesRead' = linesRead + 1
        /\ hist' = [hist EXCEPT ![fileNo] = Append(@, e)]
        /\ phase' = "crashed"
        /\ exitCode' = 1
        /\ UNCHANGED <<readErrors, cfgSource, recs, nfiles, fileNo, config, current, open, finished, nextId>>

\* Mutant of CloseFile: the run still open at the end of a file is dropped.
CloseFileDropsLast ==
    /\ phase = "reading"
    /\ open' = None
    /\ current' = None
    /\ IF fileNo = nfiles
       THEN phase' = "thresholds" /\ fileNo' = fileNo
       ELSE phase' = phase /\ fileNo' = fileNo + 1
    /\ UNCHANGED <<cfgSource, recs, nfiles, linesRead, config, nextId, exitCode, hist, finished>>

\* The end of analyze_entries for one file: the run still open is appended,
\* and analyze_files moves to the next file or, after the last, to
\* apply_thresholds.
CloseFile ==
    /\ phase = "reading"
    /\ finished' = IF open # None /\ current # None THEN Append(finished, open)
                   ELSE finished
    /\ open' = None
    /\ current' = None
    /\ IF fileNo = nfiles
       THEN phase' = "thresholds" /\ fileNo' = fileNo
       ELSE phase' = phase /\ fileNo' = fileNo + 1
    /\ UNCHANGED <<cfgSource, recs, nfiles, linesRead, config, nextId, exitCode, hist>>

\* parse_log_file reaches the end of the file.
EndFile == CloseFile /\ UNCHANGED readErrors

\* parse_log_file's outer except: an I/O error ("io"), or a line that is
\* valid JSON but not an object ("nonobject": LogEntry calls .get on it and
\* the AttributeError escapes the JSONDecodeError handler), is printed and
\* ends the reading of the file.  The entries read so far are analysed as
\* if the file ended there.  The message is logging; readErrors keeps only
\* the malformed line, which NeverAborts judges.
ReadAborts(cause) ==
    /\ CloseFile
    /\ readErrors' = readErrors \cup ({cause} \cap {"nonobject"})

\* apply_thresholds: nothing without a configuration.
ApplyThresholds ==
    /\ phase = "thresholds"
    /\ finished' = IF config = None THEN finished
                   ELSE [i \in DOMAIN finished |-> CheckRun(config, finished[i])]
    /\ phase' = "analyzed"
    /\ UNCHANGED <<readErrors, cfgSource, recs, nfiles, fileNo, linesRead, config, current, open, nextId,
                   exitCode, hist>>

\* get_recommendations: a hint per failure pattern some failed run of the
\* scenario shows, and the all-passed line when there is no hint at all.
AllPassedHint == [name |-> None, hint |-> "all_passed"]
MetricOr(r, m, default) == IF m \in DOMAIN r.metrics THEN r.metrics[m] ELSE default
Shows(r, h) ==
    CASE h = "high_error_rate"   -> r.nerr > ErrorLimit
      [] h = "low_delivery_rate" -> MetricOr(r, "delivery_rate", 100) < 90
      [] h = "high_latency"      -> MetricOr(r, "avg_latency_ms", 0) > 1000
Hints ==
    UNION {{[name |-> r.name, hint |-> h] :
              h \in {h \in {"high_error_rate", "low_delivery_rate", "high_latency"} :
                      Shows(r, h)}} :
           r \in {r \in Range(finished) : r.passed = FALSE}}
Recommendations == IF Hints = {} THEN {AllPassedHint} ELSE Hints

\* generate_summary: the runs whose passed is False.
FailedCount == Cardinality({i \in DOMAIN finished : finished[i].passed = FALSE})

\* Mutant of Finish: the number of failed runs used as the exit status.
FinishExitsWithCount ==
    /\ phase = "analyzed"
    /\ recs' = Recommendations
    /\ exitCode' = FailedCount
    /\ phase' = "done"
    /\ UNCHANGED <<readErrors, cfgSource, nfiles, fileNo, linesRead, config, current, open,
                   finished, nextId, hist>>

\* The end of main: the report (with its recommendations) is written, then
\* the process exits with status 1 iff some run failed.
Finish ==
    /\ phase = "analyzed"
    /\ recs' = Recommendations
    /\ exitCode' = IF FailedCount > 0 THEN 1 ELSE 0
    /\ phase' = "done"
    /\ UNCHANGED <<readErrors, cfgSource, nfiles, fileNo, linesRead, config, current, open,
                   finished, nextId, hist>>

Next ==
    \/ SkipLine
    \/ \E e \in Entries : AnalyzeEntry(e)
    \/ \E e \in Entries : CrashOnEntry(e)
    \/ EndFile
    \/ \E c \in ReadFaults : ReadAborts(c)
    \/ ApplyThresholds
    \/ Finish

Spec == Init /\ [][Next]_vars

-----------------------------------------------------------------------------
(***************************************************************************)
(* What the specification says of the analysis, stated over the history   *)
(* of entries analysed.                                                    *)
(***************************************************************************)

\* Every ScenarioAnalysis built so far, in append order.
AllRuns == IF open = None THEN finished ELSE Append(finished, open)

Outcomes(es) == LET a == SelectSeq(es, LAMBDA e : e.assertion)
                IN  [i \in 1..Len(a) |-> a[i].passed]
CountLevel(es, l) == Len(SelectSeq(es, LAMBDA e : e.lvl = l))
\* The numeric fields of the last completed line that named each metric.
LatestMetrics(es) ==
    FoldLeft(LAMBDA acc, e : IF e.completed THEN e.metrics @@ acc ELSE acc,
             [m \in {} |-> 0], es)

\* Spec 4.4: a metric breaches the policy when a declared bound rejects it,
\* each bound evaluated on its own.
Breached(cfg, ms) ==
    \E m \in DOMAIN ms \cap DOMAIN cfg :
        \/ HasBound(cfg[m], "min") /\ ms[m] < cfg[m]["min"]
        \/ HasBound(cfg[m], "max") /\ ms[m] > cfg[m]["max"]

\* The verdict signals of one run's entries under policy p: a failing
\* assertion or a breach fails it; a passing assertion is a positive signal.
FailsUnder(es, p) ==
    FALSE \in Range(Outcomes(es)) \/ (p # None /\ Breached(p, LatestMetrics(es)))
PassesUnder(es, p) == TRUE \in Range(Outcomes(es))

\* Refinement mapping: the files read so far (none when glob found none),
\* and the report once apply_thresholds has run (or, with no files, once
\* main has written it).
SR == INSTANCE ScenarioRuns WITH
        Policies <- Configs \cup {None},
        NameOf   <- ExtractScenarioName,
        Fails    <- FailsUnder,
        Passes   <- PassesUnder,
        files    <- IF nfiles = 0 THEN <<>> ELSE [f \in 1..fileNo |-> hist[f]],
        policy   <- config,
        report   <- IF phase = "done" \/ (phase = "analyzed" /\ nfiles > 0)
                    THEN [i \in DOMAIN finished |->
                            [name |-> finished[i].name, verdict |-> finished[i].passed]]
                    ELSE None

\* Spec 4.2 applied to each file on its own.
SpecRuns == FlattenSeq([f \in 1..MaxFiles |-> SR!Split(hist[f], <<>>)])

ThresholdsApplied == phase \in {"analyzed", "done"} /\ config # None
SpecFails(b) == FailsUnder(b.entries, IF ThresholdsApplied THEN config ELSE None)

\* The assertion outcomes spec 4.4 gives a run with entries es: its own, then
\* one failing threshold check when its metrics breach the policy applied.
SpecAssertions(es) ==
    Outcomes(es) \o
    (IF ThresholdsApplied /\ Breached(config, LatestMetrics(es)) THEN <<FALSE>> ELSE <<>>)

\* Spec 4.2 applied to every entry read, as one file in glob order.
SingleFileRuns == SR!Split(FlattenSeq(hist), <<>>)

\* The assertion outcomes of the runs named n, concatenated in order.
MergedAssertions(runs, n, Outs(_)) ==
    LET named == SelectSeq(runs, LAMBDA r : r.name = n)
    IN  FlattenSeq([i \in DOMAIN named |-> Outs(named[i])])

\* The tri-state verdict of spec 3 for a list of assertion outcomes.
VerdictOf(as) == IF FALSE \in Range(as) THEN FALSE
                 ELSE IF as = <<>> THEN None ELSE TRUE

-----------------------------------------------------------------------------
(***************************************************************************)
(* Invariants and properties.                                              *)
(***************************************************************************)

RunType == [id : Nat, name : RunName, passed : {None, TRUE, FALSE},
            nerr : Nat, nwarn : Nat,
            metrics : UNION {[D -> Values] : D \in SUBSET Metrics},
            assertions : Seq(BOOLEAN)]

TypeOK ==
    /\ nfiles \in 0..MaxFiles
    /\ fileNo \in 1..Max({nfiles, 1})
    /\ linesRead \in 0..MaxLines
    /\ phase \in {"reading", "thresholds", "analyzed", "done", "crashed"}
    /\ cfgSource \in {"absent", "found", "missing", "invalid"}
    /\ config \in Configs \cup {None}
    /\ readErrors \subseteq {"nonobject"}
    /\ recs \in {None} \cup SUBSET ({AllPassedHint} \cup
                  [name : RunName, hint : {"high_error_rate", "low_delivery_rate",
                                           "high_latency"}])
    /\ current \in RunName \cup {None}
    /\ open \in RunType \cup {None}
    /\ finished \in Seq(RunType)
    /\ nextId \in Nat
    /\ exitCode \in {None, 0, 1}
    /\ hist \in [1..MaxFiles -> Seq(Entries)]

\* Segmentation (analyze_entries): the runs built so far are, in order,
\* the runs of spec 4.2 for the entries analysed: same names, the errors,
\* warnings and assertion outcomes of exactly the entries attributed to
\* each, followed by the one failing "Threshold checks" assertion that
\* apply_thresholds adds to a run whose metrics breach the policy.
RunsMatchSpec ==
    phase # "crashed" =>
        LET code == AllRuns
            ref  == SpecRuns
        IN  /\ Len(code) = Len(ref)
            /\ \A i \in 1..Len(ref) :
                LET es == ref[i].entries IN
                /\ code[i].name = ref[i].name
                /\ code[i].nerr = CountLevel(es, "ERROR")
                /\ code[i].nwarn = CountLevel(es, "WARN")
                /\ code[i].assertions = SpecAssertions(es)

\* The passed status kept by analyze_entries and apply_thresholds is the
\* verdict of the run's assertion list: Fail once any assertion failed,
\* Pass when some passed and none failed, Unknown with none.
VerdictReflectsAssertions ==
    \A i \in DOMAIN AllRuns :
        AllRuns[i].passed = VerdictOf(AllRuns[i].assertions)

\* Spec 3: a run's verdict never leaves Fail, whatever entries or threshold
\* checks follow, and the run is never lost.
VerdictMonotonic ==
    [][\A r \in Range(AllRuns) :
          r.passed = FALSE =>
              \E s \in Range(AllRuns') : s.id = r.id /\ s.passed = FALSE]_vars

\* main: the process exits with status 1 exactly when some run of the
\* segmentation has a failing assertion or, with a configuration loaded,
\* breaches a threshold.
ExitStatusReflectsFailures ==
    phase = "done" =>
        (exitCode = 1 <=> \E i \in DOMAIN SpecRuns : SpecFails(SpecRuns[i]))

\* The reading loop, the end-of-file flush and apply_thresholds implement
\* the segmentation and verdicts of spec 3, 4.2 and 4.4: every step of the
\* analyzer is a step of ScenarioRuns under the refinement mapping SR.
ScenarioRunsSafety == SR!SafetySpec

\* Spec 6, the process exit contract: the process exits 0 only when every
\* scenario run passed.  main exits 1 only when some run has passed ==
\* False, so a run that saw neither an assertion nor a breach (passed is
\* None) counts as success.
ExitZeroOnlyIfAllPass ==
    phase = "done" /\ exitCode = 0 =>
        \A i \in DOMAIN finished : finished[i].passed = TRUE

\* Spec 7 (NoMatchingFiles): when the input cannot be located the analysis
\* is fatal and no partial report is produced.  analyze_files only prints a
\* warning when glob finds no file and returns, and main goes on to write a
\* report.
NoInputIsFatal == phase = "done" => nfiles > 0

\* get_recommendations writes "All tests passed!" only when no run failed.
AllPassedOnlyWhenNoneFailed ==
    recs # None /\ AllPassedHint \in recs =>
        \A r \in Range(finished) : r.passed # FALSE

\* Spec 3: a run with no failure passes once a positive signal, an
\* assertion or a threshold check, has passed; apply_thresholds never sets
\* passed to True for a run whose checked metrics are all within bounds.
CheckPassIsPositiveSignal ==
    ThresholdsApplied =>
        \A r \in Range(finished) :
            r.passed # FALSE /\ DOMAIN r.metrics \cap DOMAIN config # {} =>
                r.passed = TRUE

\* Spec 8 (idempotence): splitting one file's lines into two files processed
\* one after the other, and merging the runs of the same name, gives each
\* scenario the verdict of processing the combined file directly.  The
\* open run and current_scenario are reset at every file (analyze_entries,
\* l. 151-152), so unnamed lines at the head of the second file are lost.
SplitFilesKeepVerdicts ==
    phase = "done" =>
        \A n \in RunName :
            VerdictOf(MergedAssertions(finished, n, LAMBDA r : r.assertions))
              = VerdictOf(MergedAssertions(SingleFileRuns, n,
                                           LAMBDA b : SpecAssertions(b.entries)))

\* Spec 4.1, 7 and 8: a line the analyzer cannot use is skipped and the
\* lines after it are still analysed; parsing failures abort neither the
\* analysis (an exception escaping analyze_entries) nor the rest of a file
\* (a non-object line caught by parse_log_file's outer except).
NeverAborts == phase # "crashed" /\ "nonobject" \notin readErrors


=============================================================================
