----------------------------- MODULE PQAnalyzer -----------------------------
(***************************************************************************)
(* The PQ crypto stress-test analyzer of                                   *)
(* src/simulation/scripts/analysis/pq_analyzer.py: one PQAnalyzer object   *)
(* fed every line of every file glob returns (_process_log_entry), then    *)
(* generate_report and the exit status of main.  The four accumulators are *)
(* OperationMetrics records.                                               *)
(*                                                                         *)
(* A log line is abstracted to its top-level "scenario", its "fields"      *)
(* payload as a function from key to value, and whether that payload is a  *)
(* string json.loads cannot decode, and whether the line, or its fields,  *)
(* is JSON that is not a mapping (a list or string line, a number,        *)
(* boolean or null payload).  Rate thresholds are fractions [num, den].   *)
(***************************************************************************)
EXTENDS OperationMetrics

CONSTANTS
    Names,       \* scenario names
    Entries,     \* the parsed log entries a line can carry
    Thresholds,  \* json.load of --thresholds (category -> key -> bound), or None
    None,        \* Python's None
    MaxLines     \* bound on the lines read over the whole run

VARIABLES
    an,          \* the PQAnalyzer object: ops, invite counters, scenario_name
    phase,       \* "reading" | "done" | "crashed"
    status,      \* report["status"]
    checks,      \* report["thresholds"]["checks"]
    exitCode,    \* the process exit status
    hist         \* history: the entries processed, in order

vars == <<an, phase, status, checks, exitCode, hist>>

Ops == {"sign", "verify", "kem_encap", "kem_decap"}
NoFields == [k \in {} |-> 0]

\* fields.get(k, 0)
Get(f, k) == IF k \in DOMAIN f THEN f[k] ELSE 0

\* A "fields" string json.loads rejects becomes {}.
Fields(e) == IF e.undecodable THEN NoFields ELSE e.fields

-----------------------------------------------------------------------------
(***************************************************************************)
(* The field names _process_log_entry recognises, and the accumulator each *)
(* feeds.                                                                  *)
(***************************************************************************)

\* The "operation" of a summary line.
SummaryOp == [sign |-> "sign", verify |-> "verify",
              encapsulate |-> "kem_encap", decapsulate |-> "kem_decap"]

\* Mutant of SuccessKey: the decapsulation total copied onto kem_encap.
SuccessKeyCopyPaste ==
    [total_signatures_created |-> "sign", total_signatures_verified |-> "verify",
     total_kem_encapsulations |-> "kem_encap", total_kem_decapsulations |-> "kem_encap"]

\* Cumulative success totals of a completion line.
SuccessKey ==
    [total_signatures_created |-> "sign", total_signatures_verified |-> "verify",
     total_kem_encapsulations |-> "kem_encap", total_kem_decapsulations |-> "kem_decap"]

\* Cumulative failure totals.
FailureKey == [signature_failures |-> "verify", kem_failures |-> "kem_decap"]

\* Mutant of AverageKey: the decapsulation average fed to kem_encap.
AverageKeySwapped ==
    [avg_sign_latency_us |-> "sign", avg_verify_latency_us |-> "verify",
     avg_encap_latency_us |-> "kem_encap", avg_decap_latency_us |-> "kem_encap"]

\* Per-operation averages of a completion line.
AverageKey ==
    [avg_sign_latency_us |-> "sign", avg_verify_latency_us |-> "verify",
     avg_encap_latency_us |-> "kem_encap", avg_decap_latency_us |-> "kem_decap"]

InviteKey == [created |-> "invites_created", accepted |-> "invites_accepted",
              failed |-> "invites_failed"]

\* The values the fields f carry under the keys keymap sends to o.
KeyedValues(f, keymap, o) ==
    {f[k] : k \in {k \in DOMAIN keymap \cap DOMAIN f : keymap[k] = o}}

-----------------------------------------------------------------------------
(***************************************************************************)
(* _process_log_entry, as a function of the analyzer and the entry.        *)
(***************************************************************************)

NewAnalyzer ==
    [ops |-> [o \in Ops |-> NewOperation],
     invites |-> [c \in DOMAIN InviteKey |-> 0],
     scenario |-> "unknown"]

\* Mutant of ScenarioName: entry.get("scenario") or fields.get("scenario").
ScenarioNameGet(a, e, f) ==
    IF e.scenario # None THEN e.scenario
    ELSE IF "scenario" \in DOMAIN f THEN f["scenario"]
    ELSE None

\* "scenario" at the top level, else in the fields.
ScenarioName(a, e, f) ==
    IF e.scenario # None THEN e.scenario
    ELSE IF "scenario" \in DOMAIN f THEN f["scenario"]
    ELSE a.scenario

\* The summary branch: a recognised operation with count > 0.
AfterSummary(ops, f) ==
    IF /\ "operation" \in DOMAIN f
       /\ f["operation"] \in DOMAIN SummaryOp
       /\ Get(f, "count") > 0
    THEN [ops EXCEPT ![SummaryOp[f["operation"]]] =
              RecordSummary(@, Get(f, "count"), Get(f, "latency_avg_us"))]
    ELSE ops

\* The completion-summary branch: every restated total, kept by max.
AfterTotals(ops, f) ==
    [o \in Ops |->
        RecordFailures(
            RecordSuccesses(ops[o], Max({0} \cup KeyedValues(f, SuccessKey, o))),
            Max({0} \cup KeyedValues(f, FailureKey, o)))]

\* The fallback samples, looked at after this line's summary samples.
AfterAverages(ops, f) ==
    [o \in Ops |->
        IF KeyedValues(f, AverageKey, o) = {} THEN ops[o]
        ELSE RecordAverage(ops[o], CHOOSE v \in KeyedValues(f, AverageKey, o) : TRUE)]

ProcessEntry(a, e) ==
    LET f == Fields(e) IN
    [ops      |-> AfterAverages(AfterTotals(AfterSummary(a.ops, f), f), f),
     invites  |-> [c \in DOMAIN InviteKey |->
                     Max({a.invites[c]} \cup
                         (IF InviteKey[c] \in DOMAIN f THEN {f[InviteKey[c]]} ELSE {}))],
     scenario |-> ScenarioName(a, e, f)]

-----------------------------------------------------------------------------
(***************************************************************************)
(* generate_report: the threshold checks and the overall status.  A check  *)
(* is named by its category and the policy key it evaluates.               *)
(***************************************************************************)

\* check_thresholds' category for each accumulator.
Category == [signature |-> "sign", verification |-> "verify",
             kem_encap |-> "kem_encap", kem_decap |-> "kem_decap"]

\* PQAnalyzer.DEFAULT_THRESHOLDS; rates as fractions.
DefaultThresholds ==
    [signature    |-> [latency_p99_us |-> 1000, throughput_min |-> 1000,
                       failure_rate_max |-> [num |-> 1, den |-> 100]],
     verification |-> [latency_p99_us |-> 500, throughput_min |-> 2000,
                       failure_rate_max |-> [num |-> 1, den |-> 100]],
     kem_encap    |-> [latency_p99_us |-> 200, throughput_min |-> 5000],
     kem_decap    |-> [latency_p99_us |-> 200, throughput_min |-> 5000,
                       failure_rate_max |-> [num |-> 1, den |-> 100]],
     invite       |-> [success_rate_min |-> [num |-> 95, den |-> 100]]]

\* `thresholds or self.DEFAULT_THRESHOLDS`: no file, or an empty one, gives
\* the defaults; any other policy replaces them as a whole.
EffectiveThresholds ==
    IF Thresholds = None \/ DOMAIN Thresholds = {} THEN DefaultThresholds
    ELSE Thresholds

\* self.thresholds.get(category, {})
Policy(c) == IF c \in DOMAIN EffectiveThresholds THEN EffectiveThresholds[c]
             ELSE NoFields

\* .get(key, default) of a rate bound.
RateBound(c, k, default) == IF k \in DOMAIN Policy(c) THEN Policy(c)[k] ELSE default

Check(c, k, ok) == [category |-> c, key |-> k, passed |-> ok]

\* check_thresholds over the four categories.
BoundChecks(a) ==
    LET st(c) == CalculateStats(a.ops[Category[c]]) IN
    {Check(c, "latency_p99_us", st(c).p99_us <= Policy(c)["latency_p99_us"]) :
        c \in {c \in DOMAIN Category : "latency_p99_us" \in DOMAIN Policy(c)}}
    \cup
    {Check(c, "throughput_min", OpsPerSecAtLeast(st(c), Policy(c)["throughput_min"])) :
        c \in {c \in DOMAIN Category : "throughput_min" \in DOMAIN Policy(c)}}

\* failures / total <= bound, with a zero total giving no check.
FailureRateChecks(a) ==
    LET rate(c) ==
          LET om == a.ops[Category[c]]
              t  == om.successes + om.failures
              b  == RateBound(c, "failure_rate_max", [num |-> 1, den |-> 100])
          IN  IF t = 0 THEN {}
              ELSE {Check(c, "failure_rate_max", om.failures * b.den <= b.num * t)}
    IN  rate("verification") \cup rate("kem_decap")

\* accepted / (accepted + failed) >= bound.
InviteChecks(a) ==
    LET t == a.invites.accepted + a.invites.failed
        b == RateBound("invite", "success_rate_min", [num |-> 95, den |-> 100])
    IN  IF t = 0 THEN {}
        ELSE {Check("invite", "success_rate_min", a.invites.accepted * b.den >= b.num * t)}

AllChecks(a) == BoundChecks(a) \cup FailureRateChecks(a) \cup InviteChecks(a)
ReportStatus(a) == IF \A c \in AllChecks(a) : c.passed THEN "pass" ELSE "fail"

-----------------------------------------------------------------------------

Init ==
    /\ an = NewAnalyzer
    /\ phase = "reading"
    /\ status = None
    /\ checks = {}
    /\ exitCode = None
    /\ hist = <<>>

\* parse_log_file: one parsed line, handed to _process_log_entry.
ReadEntry(e) ==
    /\ phase = "reading"
    /\ Len(hist) < MaxLines
    /\ ~e.nonobject
    /\ an' = ProcessEntry(an, e)
    /\ hist' = Append(hist, e)
    /\ UNCHANGED <<phase, status, checks, exitCode>>

\* The same line when it is not a mapping: entry.get, or `"scenario" in
\* fields` on a number, raises; parse_log_file only catches
\* JSONDecodeError, so the process ends with status 1 and no report.
CrashOnEntry(e) ==
    /\ phase = "reading"
    /\ Len(hist) < MaxLines
    /\ e.nonobject
    /\ hist' = Append(hist, e)
    /\ phase' = "crashed"
    /\ exitCode' = 1
    /\ UNCHANGED <<an, status, checks>>

\* main after the last file: generate_report, then exit 0 iff "pass".
GenerateReport ==
    /\ phase = "reading"
    /\ checks' = AllChecks(an)
    /\ status' = ReportStatus(an)
    /\ exitCode' = IF ReportStatus(an) = "pass" THEN 0 ELSE 1
    /\ phase' = "done"
    /\ UNCHANGED <<an, hist>>

Next ==
    \/ \E e \in Entries : ReadEntry(e)
    \/ \E e \in Entries : CrashOnEntry(e)
    \/ GenerateReport

Spec == Init /\ [][Next]_vars

-----------------------------------------------------------------------------
(***************************************************************************)
(* Invariants and properties.                                              *)
(***************************************************************************)

OpType == [successes : Nat, failures : Nat, latencies : Seq(Nat)]

TypeOK ==
    /\ an \in [ops : [Ops -> OpType],
               invites : [DOMAIN InviteKey -> Nat],
               scenario : Names \cup {"unknown"}]
    /\ phase \in {"reading", "done", "crashed"}
    /\ status \in {None, "pass", "fail"}
    /\ checks \in SUBSET [category : STRING, key : STRING, passed : BOOLEAN]
    /\ exitCode \in {None, 0, 1}
    /\ hist \in Seq(Entries)

\* Spec 6: the recognised fields of a line, by the accumulator they concern.
OperationName == [sign |-> "sign", verify |-> "verify",
                  kem_encap |-> "encapsulate", kem_decap |-> "decapsulate"]
TotalField == [sign |-> {"total_signatures_created"},
               verify |-> {"total_signatures_verified"},
               kem_encap |-> {"total_kem_encapsulations"},
               kem_decap |-> {"total_kem_decapsulations"}]
FailureField == [sign |-> {}, verify |-> {"signature_failures"},
                 kem_encap |-> {}, kem_decap |-> {"kem_failures"}]
AverageField == [sign |-> "avg_sign_latency_us", verify |-> "avg_verify_latency_us",
                 kem_encap |-> "avg_encap_latency_us", kem_decap |-> "avg_decap_latency_us"]

\* A summary line for accumulator o with a positive count.
IsSummaryFor(f, o) ==
    /\ "operation" \in DOMAIN f
    /\ f["operation"] = OperationName[o]
    /\ Get(f, "count") > 0

Restated(keys) ==
    UNION {{Fields(hist[i])[k] : k \in keys \cap DOMAIN Fields(hist[i])} : i \in DOMAIN hist}

\* Spec 3 and 4.3 (counters take the maximum of old and new): after any
\* sequence of lines, each success and failure counter, and each invite
\* counter, is the largest value any processed line reported for it, so
\* neither the order of lines nor of files can lower it.
CountersAreMaxObserved ==
    /\ \A o \in Ops :
        /\ an.ops[o].successes =
             Max({0} \cup Restated(TotalField[o])
                     \cup {Fields(hist[i])["count"] : i \in {i \in DOMAIN hist : IsSummaryFor(Fields(hist[i]), o)}})
        /\ an.ops[o].failures = Max({0} \cup Restated(FailureField[o]))
    /\ \A c \in DOMAIN InviteKey :
        an.invites[c] = Max({0} \cup Restated({InviteKey[c]}))

\* Spec 4.3: every latency sample of an operation is the truncated average
\* of a summary line for that operation or of its own avg_<op>_latency_us
\* field; no sample is attributed to another operation.
SamplesFromObservedAverages ==
    \A o \in Ops :
        Range(an.ops[o].latencies) \subseteq
            {IntUs(Get(Fields(hist[i]), "latency_avg_us")) :
                i \in {i \in DOMAIN hist : IsSummaryFor(Fields(hist[i]), o)}}
            \cup {IntUs(v) : v \in Restated({AverageField[o]})}

\* Spec 4.3: for each of the four accumulators, calculate_stats (sort, then
\* the nearest-rank index with truncation and clamping) yields the extreme
\* samples and the nearest-rank p50, p95 and p99 of the multiset of
\* samples, however the summary, completion and fallback lines that
\* synthesised them were interleaved.
StatsMatchReference ==
    \A o \in Ops :
        an.ops[o].latencies # <<>> =>
            LET st == CalculateStats(an.ops[o])
                s  == an.ops[o].latencies
            IN  /\ st.count = Len(s)
                /\ st.min_us = Min(Range(s))
                /\ st.max_us = Max(Range(s))
                /\ st.p50_us = NearestRank(s, 50)
                /\ st.p95_us = NearestRank(s, 95)
                /\ st.p99_us = NearestRank(s, 99)

\* Spec 4.4: a check is emitted only for a bound the policy declares;
\* absence of a bound means no check, not a check against a default.
NoCheckWithoutBound ==
    \A c \in checks : c.key \in DOMAIN Policy(c.category)

\* Spec 4.1 and 8 (malformed-line resilience): a line the analyzer cannot
\* use is skipped with a warning; it never aborts the analysis.
NeverAborts == phase # "crashed"

\* The report of the same lines read in another order, as glob may list the
\* files they were split into.
RECURSIVE FoldEntries(_, _)
FoldEntries(a, es) ==
    IF es = <<>> THEN a ELSE FoldEntries(ProcessEntry(a, Head(es)), Tail(es))
Rotate(s, k) == SubSeq(s, k + 1, Len(s)) \o SubSeq(s, 1, k)
Outcome(a) == <<[o \in Ops |-> CalculateStats(a.ops[o])], ReportStatus(a)>>

\* Spec 5 and 8: splitting the input into two files and processing them in
\* either order yields the same latency statistics and the same verdict.
SplitOrderIndependent ==
    phase = "done" =>
        \A k \in 0..Len(hist) :
            Outcome(FoldEntries(NewAnalyzer, Rotate(hist, k))) = Outcome(an)

=============================================================================
