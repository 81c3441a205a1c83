-------------------------- MODULE MCStressAnalyzer --------------------------
(***************************************************************************)
(* Model-checking instance of StressAnalyzer: two scenario names, the two  *)
(* metrics get_recommendations looks at, and the entry shapes that        *)
(* exercise every branch of extract_scenario_name and of the entries loop. *)
(***************************************************************************)
EXTENDS StressAnalyzer

\* An INFO line with nothing recognised in it; each shape overrides it.
Plain ==
    [lvl |-> "INFO", fscen |-> None, sscen |-> None, mscen |-> None,
     tscen |-> FALSE, nm |-> None, completed |-> FALSE,
     metrics |-> [m \in {} |-> 0], assertion |-> FALSE, passed |-> FALSE,
     encoded |-> FALSE, dur |-> None]
Shape(r) == [k \in DOMAIN Plain |-> IF k \in DOMAIN r THEN r[k] ELSE Plain[k]]

MCEntries == {
    \* fields.scenario = "a", with a passing assertion
    Shape([fscen |-> "a", assertion |-> TRUE, passed |-> TRUE]),
    \* span.scenario = "b", at WARN level
    Shape([sscen |-> "b", lvl |-> "WARN"]),
    \* an ERROR line asserting a failure, no scenario of its own
    Shape([lvl |-> "ERROR", assertion |-> TRUE, passed |-> FALSE]),
    \* "Scenario completed" with delivery_rate = 85; and with 90 and an
    \* average latency of 1500 ms
    Shape([completed |-> TRUE, metrics |-> [delivery_rate |-> 85]]),
    Shape([completed |-> TRUE,
           metrics |-> [delivery_rate |-> 90, avg_latency_ms |-> 1500]]),
    \* fields.scenario = "" masks span.scenario = "b"; the message names "a"
    Shape([fscen |-> "", sscen |-> "b", mscen |-> "a"]),
    \* a scenario-runner target with no name field
    Shape([tscen |-> TRUE]),
    \* Lua string payloads: one carrying a scenario, one a completed line
    Shape([encoded |-> TRUE, fscen |-> "b"]),
    Shape([encoded |-> TRUE, completed |-> TRUE]),
    \* a completed line whose duration_ms is "12ms"
    Shape([completed |-> TRUE, dur |-> "text"])
}

\* The same shapes without those that raise in analyze_entries: the Lua
\* string payloads and the text duration.
MCDecodedEntries == {e \in MCEntries : ~e.encoded /\ e.dur # "text"}

\* A readable policy file bounds delivery_rate to exactly 85.
MCConfigs == {[delivery_rate |-> [min |-> 85, max |-> 85]]}

=============================================================================
