# TLA+ models of the simulation log analyzers

This directory holds TLA+ models of the two log analyzers under
`src/simulation/scripts/analysis/`:

- `stress_analyzer.py` turns the JSONL logs of stress-test scenarios into runs,
  one verdict per run, a report and an exit status.
- `pq_analyzer.py` aggregates post-quantum crypto benchmark logs into latency
  statistics, threshold checks and an exit status.

Both are sequential batch programs. `glob.glob` gives files in an arbitrary
order, each file is read line by line, and a report is produced at the end.
Nothing runs concurrently. What makes these programs hard to get right is the
order of the data:

- which file and which line come first;
- what happens at the boundaries: file ends, empty files, zero totals, sample
  caps, percentile indices;
- how one malformed line affects the rest.

The models therefore let every input line, file boundary and configuration be
a nondeterministic choice. They check that the results agree with reference
definitions written from `spec.md`.

## Inventory

### stress_analyzer.py

| Part | Code | State | Operations |
|---|---|---|---|
| EventParser | `parse_log_file`, `LogEntry` (l. 20-37, 102-126) | the list of parsed entries | skip a blank or undecodable line; keep a parsed one; end the file early on an I/O error or a non-object line |
| ScenarioSegmenter | `extract_scenario_name`, `analyze_entries` (l. 128-224) | `current_scenario`, the open `ScenarioAnalysis`, `self.scenarios` | start a run when a new name appears; update the open run; flush the open run at end of file |
| ThresholdEvaluator | `ThresholdConfig.check_metric`, `apply_thresholds` (l. 74-91, 226-246) | `passed` and `assertions` of each run | fail a run whose metric is outside a declared min/max |
| VerdictAssembler | `generate_summary`, `get_recommendations`, `main` (l. 266-324, 686-725) | counts, recommendations, exit status | hint per failure pattern of a failed run; exit 1 iff a run failed |
| Renderers | `to_json`, `to_markdown`, `to_html` | none | formatting only |

How the parts interact: `main` loads the threshold configuration, which is
`None` when the file is missing or invalid. `analyze_files` then runs
`parse_log_file` and `analyze_entries` for each file, and calls
`apply_thresholds` once. `main` finally writes the report and derives the exit
status from `generate_summary`.

### pq_analyzer.py

| Part | Code | State | Operations |
|---|---|---|---|
| MetricsAggregator | `OperationMetrics`, `calculate_stats` (l. 25-70) | per operation: successes, failures, latency samples | add capped synthetic samples; merge counters by max; add the average fallback; compute percentiles and throughput |
| EventParser | `parse_log_file`, `_process_log_entry` (l. 139-265) | the four accumulators, invite counters, scenario name | process one line |
| ThresholdEvaluator / report | `check_thresholds`, `generate_report` (l. 267-393) | the list of checks, the status | p99 and throughput bounds; failure-rate and invite-rate checks |
| CLI | `main` (l. 396-472) | | glob, read every file, report, exit 0 iff "pass" |

`src/scripts/collect_ecoregions.py` is a one-shot web scraper. It is pure I/O
and is not modelled.

### What makes each part correct

- **Segmentation.** Runs are the maximal stretches of one scenario within a
  file. The run still open at the end of a file is kept. A run recurring after
  another scenario is a new run.
- **Verdict.** A run fails iff an assertion failed or a metric broke a bound.
  It passes iff it had only passing assertions and no breach. Otherwise it is
  unknown. A failure is never undone.
- **Exit status.** The stress analyzer exits 1 iff some run failed. The spec
  asks for success only when every run passed.
- **Aggregation.**
  - Counters are the maximum value any line restated.
  - Samples are truncated averages.
  - Statistics are nearest-rank percentiles of the samples.
  - The result should not depend on how the logs are split or ordered.
- **Checks.** Only the bounds the policy declares are evaluated.

The hazards that a test hardly reaches are listed, each at its line, in
`PROJECT.json` under `"hazards"`.

## Modules

| Module | Models | Kind |
|---|---|---|
| `StressAnalyzer.tla` | stress_analyzer.py: glob loop, reading with its outer `except`, segmentation, per-entry update, the crashes on a Lua payload or a text duration, thresholds, recommendations, exit status | state machine |
| `ScenarioRuns.tla` | what the segmenter and threshold evaluator promise (spec 3, 4.2, 4.4): the report as a function of the whole input, with no reading loop | abstract specification |
| `MCStressAnalyzer.tla` | entry shapes and threshold configurations for TLC | MC module |
| `OperationMetrics.tla` | `OperationMetrics`, `LatencyMetrics`, `calculate_stats`, and the per-operation updates of `_process_log_entry` | pure operators plus a nearest-rank reference |
| `PQAnalyzer.tla` | `PQAnalyzer`: `_process_log_entry` as a function, `generate_report`, `main` | state machine (extends OperationMetrics) |
| `MCPQAnalyzer.tla` | log lines, the default thresholds and test policies | MC module |

### How the state corresponds to the code

**StressAnalyzer.**

- A log line is abstracted to the shape of the `LogEntry` it parses to:
  - where a scenario name can be found: the fields, the span, the message, or a
    scenario-runner target with its `name` field;
  - its level;
  - whether it is a "completed" line, and its numeric fields;
  - whether it is an assertion, and whether that assertion passed;
  - whether `fields` is a JSON string.
- The variables are the locals and attributes of the same names:
  - `current` is `current_scenario`;
  - `open` is `scenario_analysis`;
  - `finished` is `self.scenarios`, flattened in append order;
  - `config` is `threshold_config`.
- `hist` is a history variable: the entries of each file. The properties
  compare against it.
- The actions:
  - `AnalyzeEntry` is one loop iteration of `analyze_entries`, with the whole
    body (l. 154-220).
  - `CrashOnEntry` is the same iteration on an entry that raises: an encoded
    payload, or a completed line whose duration `float()` rejects.
  - `CloseFile` is the flush at l. 222-224, followed by the next file or
    `apply_thresholds`, as the loop of `analyze_files` (l. 256-264, which
    `Next` stands for) goes on. `EndFile` is `CloseFile` when the file is read to its
    end.
  - `ReadAborts(cause)` is `CloseFile` after `parse_log_file`'s outer
    `except` (l. 122-123): an I/O error (`"io"`), or a JSON line that is not
    an object (`"nonobject"`: `LogEntry` calls `.get` on it). The printed
    message is logging. The history variable `readErrors` keeps only the
    malformed-line case, which `NeverAborts` judges. The constant
    `ReadFaults` says which causes a run lets happen.
  - `ApplyThresholds` models `apply_thresholds`.
  - `Finish` models the end of `main`: the report is written, with
    `get_recommendations` (the variable `recs`), then the exit status.
- `cfgSource` records what `--thresholds` gave: no flag, a loaded file, a
  missing file or invalid JSON. `LoadedConfigs` is `load_threshold_config`,
  which gives `None` in the last two cases.
- **Refinement.** `SR == INSTANCE ScenarioRuns WITH ...` maps the detailed
  state to the abstract one:
  - `files` are the files opened so far, with the entries analysed in each;
  - `policy` is `config`;
  - `report` is the runs of `finished` with their `passed`, once
    `apply_thresholds` has run (or, with no file, once `main` has written
    the report).
  - The abstract spec is parameterised by the name recovery and the two
    verdict signals. It is instantiated with the code's
    `extract_scenario_name` and with "a passing assertion" as the positive
    signal.
  - Where the code departs from the spec's own choices, a violation run
    shows it (`stress_check_pass`).
  - `SpecRuns`, which `RunsMatchSpec` compares against, reuses the abstract
    `Split`.

**PQAnalyzer.**

- `ProcessEntry` models `_process_log_entry` as one function. It applies, in
  the code's order:
  1. `AfterSummary` (l. 180-207);
  2. `AfterTotals` (l. 209-239);
  3. the invite maxima (l. 241-247);
  4. `AfterAverages` (l. 249-265).
- `ReadEntry` is one iteration of the loop in `parse_log_file` on a line
  that decodes, or is skipped as undecodable. `CrashOnEntry` is the same
  iteration on a line that is not an object (or whose `fields` is a number):
  it raises outside the `JSONDecodeError` handler, and the process ends with
  status 1.
- Latencies are in tenths of a microsecond, so `IntUs` models `int()`.
- Threshold rates are fractions `[num, den]` compared by cross-multiplication,
  as the float division would compare them.
- A check is identified by its category and policy key. Names and targets are
  formatting.

## Runs

| Run | Expect | What it shows |
|---|---|---|
| `stress_core` | pass | For every sequence of up to 4 entries over up to 2 files, with I/O errors ending a file early and every `--thresholds` outcome, these hold. `RunsMatchSpec`: the runs equal a recursive reference segmentation. `VerdictReflectsAssertions`: each verdict is the one the spec derives from its assertions and threshold breaches. `VerdictMonotonic`: no step turns a failed verdict back. `ExitStatusReflectsFailures`: exit 1 iff some run failed. `ScenarioRunsSafety`: every step of the analyzer, crashes and I/O aborts included, is a step of `ScenarioRuns` under `SR`. |
| `stress_exit_unknown` | violation | `ExitZeroOnlyIfAllPass`: a run with no assertion and no breach keeps an Unknown verdict, and the process exits 0 (finding 1). |
| `stress_no_input` | violation | `NoInputIsFatal`: with no matching file the analyzer still writes a report (finding 6). |
| `stress_all_passed_hint` | violation | `AllPassedOnlyWhenNoneFailed`: "All tests passed!" is recommended although a run failed (finding). |
| `stress_check_pass` | violation | `CheckPassIsPositiveSignal`: a run whose only signal is a passing threshold check stays Unknown (finding). |
| `stress_lua_crash` | violation | `NeverAborts`: a Lua-encoded `fields` or a text duration aborts the analysis, and a non-object line drops the rest of its file (findings). |
| `stress_split_files` | violation | `SplitFilesKeepVerdicts`: splitting a log into two files turns a Fail into Unknown (finding). |
| `pq_core` | pass | After any 4 lines, these hold. `CountersAreMaxObserved`: every counter is the largest value restated for it. `SamplesFromObservedAverages`: every sample is the truncated average some line gave for that operation. `StatsMatchReference`: for each operation, the p50/p95/p99, min, max and count equal a nearest-rank reference. |
| `pq_baseline` | violation | `BaselineScenarioPasses`: the spec's §8 end-to-end example reports "fail" (finding). |
| `pq_unbounded_rate` | violation | `NoCheckWithoutBound`: a failure-rate check appears that the policy does not declare (finding). |
| `pq_split_order` | violation | `SplitOrderIndependent`: the same lines in another order change the status (finding). |
| `pq_nonobject_crash` | violation | `NeverAborts`: a JSON line that is not an object ends the analysis with a traceback and no report (finding 12). |

Every property of a passing run has a mutant in `PROJECT.json`: a plausible bug
in the mapped code, written as an operator just before the original. TLC finds
each mutant's property violated. Examples of these bugs:

- dropping the `elif passed is None` guard;
- turning the two bound checks into an elif;
- overwriting the verdict in `apply_thresholds`;
- dropping the flush at end of file;
- forgetting the sort before the percentile;
- copy-pasting a counter key.

### Findings

Each finding was reproduced by running the Python code on the input TLC
reported.

1. `stress_analyzer.py:721`: the program exits 0 when some run has no verdict,
   although §6 asks for success only when every run passes.
2. `stress_analyzer.py:33,197`: a JSON-string `fields` raises an uncaught
   `TypeError` or `AttributeError`.
3. `pq_analyzer.py:280`: throughput bounds are checked for operations without
   samples, so the spec's baseline example fails.
4. `pq_analyzer.py:311,333`: hard-coded default rate bounds are applied where
   the policy declares none.
5. `pq_analyzer.py:250`: the average fallback depends on line order, and glob
   order is arbitrary.
6. `stress_analyzer.py:252`: when glob finds no file, `analyze_files` only
   prints a warning. `main` then writes an empty report and exits 0, while
   §7 makes `NoMatchingFiles` fatal with no partial report. (§7 lets an
   invalid policy fall back with a warning, so the `None` that
   `load_threshold_config` returns at l. 643 is not claimed as a finding.)
7. `stress_analyzer.py:321`: `get_recommendations` says "All tests passed!"
   whenever no failure pattern matched, including when a run failed.
8. `stress_analyzer.py:235`: a passing threshold check is never a positive
   signal. A run with in-bound metrics and no assertion stays Unknown, while
   spec §3 makes it Pass.
9. `stress_analyzer.py:151`: the open run is reset at every file, so a
   failing assertion with no scenario name at the head of the second file is
   dropped. The same log fails as one file and exits 0 when split in two,
   while §8 asks for identical verdicts.
10. `stress_analyzer.py:204`: `float("12ms")` raises `ValueError` and the
    process ends with a traceback and no report.
11. `stress_analyzer.py:117,123`: a JSON line that is not an object makes
    `LogEntry` raise `AttributeError`. The outer `except` prints "Error
    reading file" and drops every later line of that file.
12. `pq_analyzer.py:155,165`: `parse_log_file` catches only
    `JSONDecodeError`. A line such as `[1,2]` makes `entry.get` raise
    `AttributeError`, and a numeric `fields` makes `"scenario" in fields`
    raise `TypeError`. The process ends with no report, while §8 says a
    malformed line never aborts the run.

## Bounds

- **StressAnalyzer:**
  - 2 scenario names, 2 files, 4 lines in total.
  - The metrics `delivery_rate` and `avg_latency_ms`, the two that
    `get_recommendations` reads. Their values are 85, 90 and 1500, which put
    each recommendation bound (90 and 1000) on both sides.
  - `ErrorLimit` is the code's literal 10, scaled to 1. The comparison
    `len(errors) > limit` is unchanged, and two ERROR lines then reach it
    within 4 lines.
  - Every `--thresholds` outcome: absent, found, missing, invalid.
  - 10 entry shapes, covering each branch of `extract_scenario_name`, both
    verdict outcomes, a completed line on each side of the bound, and the
    three crash paths.
  - `ReadFaults` is `{"io"}` in `stress_core` and `{"nonobject"}` in the
    crash run. An I/O error ends a file with the same state as its end,
    since the message is not state, so it costs no extra states. It is
    still a separate step, which the refinement property judges. The
    non-object case is a malformed line, which `NeverAborts` is about.
  - A loaded policy bounds `delivery_rate` to min = max = 85, so one value
    passes, one breaks max, and with min present the max bound still
    applies.
  - 4 lines suffice for the interesting interleavings: a name switch and its
    return; a run that spans a file boundary; a failure followed by a pass; a
    breach after a pass.
  - About 620k states, in about 2 min, refinement check included.
- **PQAnalyzer:**
  - 11 line shapes, covering the summary, completion, invite, undecodable,
    non-object and scenario-name cases.
  - 4 lines, with the sample cap at 2 standing in for 100 (the same code
    path, with the cap reached after 2 samples). Up to 8 samples, including
    a fallback sample above two later zero samples (decapsulation), so the
    percentile index hits the top rank, interior ranks and unsorted
    arrival. (The clamp to `count - 1` in `percentile` never applies: for
    p <= 99, floor(count * p / 100) <= count - 1.)
  - The violation runs use the real cap of 100 and the default thresholds.

## Fairness

Every property is a safety property, so no run assumes fairness. The
abstract `ScenarioRuns!Spec` asks for `WF_vars(Conclude)`. For the analyzer
that eventuality would only say that a loop bounded by the lines and files
ends, which holds by the bounds of the model. The one real way the program
ends without a report is a crash, and `NeverAborts` covers it. So the
refinement is checked against `ScenarioRuns!SafetySpec`.

The runs set `CHECK_DEADLOCK FALSE` because the program really stops after
writing its report or crashing.

## Not modelled

- **Report rendering.** `to_json`, `to_markdown`, `to_html` and the console
  output are formatting without state changes.
- **Trace ids and event counts.** They never influence a verdict or a status,
  and the `test_run_id` choice is listed as a hazard.
- **`collect_ecoregions.py`.** It is a web scraper.
- **Startup failures of `pq_analyzer.py`.** `pq_analyzer.py` loads `--thresholds` with
  `json.load` outside any `try`, so an invalid file ends that program with
  a traceback.
  - Its `thresholds or DEFAULT_THRESHOLDS` is modelled by
    `EffectiveThresholds`.
  - `pq_core` runs with no thresholds file.

## Plan for later work

- The completion message "Scenario completed" read as a scenario named
  "completed" (`stress_analyzer.py:139`).
- The stress metrics merge: the code lets the last writer win, while the spec
  takes the maximum.
- An abstract specification of the PQ aggregation, with `PQAnalyzer`
  refining it.
- Properties on the invite-rate and failure-rate boundaries.
