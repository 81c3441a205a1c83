---------------------------- MODULE MCPQAnalyzer ----------------------------
(***************************************************************************)
(* Model-checking instances of PQAnalyzer.  Latency averages are in tenths *)
(* of a microsecond; latency and throughput bounds in microseconds and     *)
(* operations per second, as in DEFAULT_THRESHOLDS.                        *)
(***************************************************************************)
EXTENDS PQAnalyzer

Entry(scen, f) == [scenario |-> scen, fields |-> f, undecodable |-> FALSE,
                   nonobject |-> FALSE]

\* A custom --thresholds file that only bounds signature latency.
SignatureOnlyThresholds == [signature |-> [latency_p99_us |-> 1000]]

\* Summary, completion and invite lines of the Lua scenarios, including a
\* zero count, a total restated lower, a sub-microsecond average and a
\* payload string json.loads rejects.
MCEntries == {
    Entry("baseline", [operation |-> "sign", count |-> 3, latency_avg_us |-> 3000]),
    Entry(None, [operation |-> "sign", count |-> 0, latency_avg_us |-> 9000]),
    Entry(None, [operation |-> "verify", count |-> 1, latency_avg_us |-> 25000]),
    Entry(None, [operation |-> "decapsulate", count |-> 2, latency_avg_us |-> 5]),
    Entry(None, [total_signatures_created |-> 5, total_signatures_verified |-> 4,
                 signature_failures |-> 1, avg_sign_latency_us |-> 2000,
                 avg_verify_latency_us |-> 4000]),
    Entry(None, [total_signatures_created |-> 2]),
    Entry(None, [total_kem_encapsulations |-> 2, total_kem_decapsulations |-> 2,
                 kem_failures |-> 0, avg_decap_latency_us |-> 1500]),
    Entry(None, [invites_created |-> 3, invites_accepted |-> 2, invites_failed |-> 1]),
    Entry(None, [scenario |-> "stress"]),
    [scenario |-> None, fields |-> [scenario |-> "stress"], undecodable |-> TRUE,
     nonobject |-> FALSE],
    \* a line that is a JSON list, or whose "fields" is a number
    [scenario |-> None, fields |-> NoFields, undecodable |-> FALSE, nonobject |-> TRUE]
}

\* Spec 8, end-to-end: a "baseline" sign summary of 500 operations at
\* 300us, then the completion line with total_signatures_created = 500.
BaselineSummary ==
    Entry("baseline", [operation |-> "sign", count |-> 500, latency_avg_us |-> 3000])
BaselineCompletion == Entry(None, [total_signatures_created |-> 500])
BaselineEntries == {BaselineSummary, BaselineCompletion}

\* Spec 8: under the default policy this input passes (sign p99 300us,
\* about 3333 ops/s), i.e. generate_report's status is "pass".
BaselineScenarioPasses ==
    phase = "done" /\ hist = <<BaselineSummary, BaselineCompletion>> =>
        status = "pass"

\* Verification totals with a failure, checked under a policy that does
\* not bound the verification failure rate.
RateEntries == {
    Entry("baseline", [operation |-> "sign", count |-> 1, latency_avg_us |-> 3000]),
    Entry(None, [total_signatures_verified |-> 9, signature_failures |-> 1])
}

\* A sign summary at 300us and a completion line whose avg_sign_latency_us
\* is 2000us: the fallback sample is taken only if it comes first.
OrderEntries == {
    Entry("baseline", [operation |-> "sign", count |-> 1, latency_avg_us |-> 3000]),
    Entry(None, [avg_sign_latency_us |-> 20000])
}

=============================================================================
