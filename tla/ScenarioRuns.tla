---------------------------- MODULE ScenarioRuns ----------------------------
(***************************************************************************)
(* What the ScenarioSegmenter and ThresholdEvaluator promise (spec 3, 4.2, *)
(* 4.4), with no reading loop, open run or flush: the input is a sequence  *)
(* of files, each a sequence of log events, and the report, once produced, *)
(* is the list of runs the segmentation rule gives for the whole input,    *)
(* each with its tri-state verdict.                                        *)
(*                                                                         *)
(* The scenario-name recovery and the two verdict signals are parameters:  *)
(* NameOf(e) recovers a name or None, Fails(es, p) and Passes(es, p) say   *)
(* whether the events es of one run carry a failure, or a positive signal, *)
(* under policy p.                                                         *)
(***************************************************************************)
EXTENDS Sequences, SequencesExt

CONSTANTS
    Entries,        \* the events a line can carry
    Policies,       \* the threshold policies in force, None for no policy
    None,
    NameOf(_),
    Fails(_, _),
    Passes(_, _)

VARIABLES
    files,      \* the events read so far, per file, in discovery order
    policy,     \* the policy the analysis runs under
    report      \* None until the report exists, then <<[name, verdict]>>

vars == <<files, policy, report>>

\* Spec 4.2: one file's events split into runs.  A recovered name that
\* differs from the open run's opens a run; an event with no name joins the
\* open run and is dropped when no run is open.
RECURSIVE Split(_, _)
Split(es, runs) ==
    IF es = <<>> THEN runs
    ELSE LET e == Head(es)
             n == NameOf(e)
         IN  Split(Tail(es),
                IF n # None /\ (runs = <<>> \/ n # Last(runs).name)
                THEN Append(runs, [name |-> n, entries |-> <<e>>])
                ELSE IF runs = <<>> THEN runs
                ELSE [runs EXCEPT ![Len(runs)].entries = Append(@, e)])

\* Runs never span files.
Runs == FlattenSeq([f \in DOMAIN files |-> Split(files[f], <<>>)])

\* Spec 3: Fail on any failure, else Pass on a positive signal, else Unknown.
Verdict(es, p) == IF Fails(es, p) THEN FALSE
                  ELSE IF Passes(es, p) THEN TRUE
                  ELSE None

Report == [i \in DOMAIN Runs |->
              [name |-> Runs[i].name, verdict |-> Verdict(Runs[i].entries, policy)]]

\* The input starts with no file, or with the first file opened.
Init ==
    /\ files \in {<<>>, <<<<>>>>}
    /\ policy \in Policies
    /\ report = None

OpenFile ==
    /\ report = None
    /\ files' = Append(files, <<>>)
    /\ UNCHANGED <<policy, report>>

Read(e) ==
    /\ report = None
    /\ files # <<>>
    /\ files' = [files EXCEPT ![Len(files)] = Append(@, e)]
    /\ UNCHANGED <<policy, report>>

Conclude ==
    /\ report = None
    /\ report' = Report
    /\ UNCHANGED <<files, policy>>

Next == OpenFile \/ (\E e \in Entries : Read(e)) \/ Conclude

SafetySpec == Init /\ [][Next]_vars

\* The analysis is a finite fold: the report is eventually produced.
Spec == SafetySpec /\ WF_vars(Conclude)

=============================================================================
