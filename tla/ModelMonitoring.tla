---------------------------- MODULE ModelMonitoring ----------------------------
(***************************************************************************)
(* What watches models: the drift detector with its window of scores       *)
(* (shared/drift_detector.py), and the registry of model versions, whose   *)
(* versions Redis keeps as one key each and a list of their names, and     *)
(* whose evaluations count sample by sample (shared/model_registry.py).    *)
(* And how experiments are tracked in MLflow, which shares nothing with    *)
(* them.                                                                   *)
(* A score is 0 or 1, for the bins below and above one half.               *)
(***************************************************************************)
EXTENDS Absence, Integers, Sequences, FiniteSets

CONSTANTS
  WindowSize,   \* DEFAULT_WINDOW_SIZE, 1000 in the code
  CheckEvery,   \* 100 in the code
  MaxScores,    \* bound: samples added
  Baselines,    \* sequences of scores a baseline is made from
  Registrations, \* calls of register_version
  VersionNames,
  ListKeeps,    \* names LTRIM keeps, 100 in the code
  Comparisons,  \* calls of detect_drift
  TestSamples       \* of the evaluation

(* as in the code: a full window is checked at every sample *)
ASSUME WindowAssumption ==
  /\ CheckEvery \in Nat \ {0} /\ WindowSize \in Nat \ {0} /\ WindowSize % CheckEvery = 0
ASSUME MonitoringAssumption == MaxScores \in Nat /\ ListKeeps \in Nat \ {0}
ASSUME KeyAssumption == None \notin {"measured", "bare"}

VARIABLES
  (* the drift detector *)
  baseline,  \* histogram and toxicity rate, as sequences of scores, or None
  window,    \* _current_scores
  alerts,    \* per alert: the number of the sample that raised it
  added,     \* samples so far
  (* the registry *)
  registration, \* per call: version, whether it has metrics, step
  version_keys, \* per version: its key, "measured" or "bare" (without metrics), or None
  names,     \* the list, newest first
  in_table,  \* rows of model_versions
  comparison, \* per call: step, the version taken for baseline, whether it was found
  (* an evaluation *)
  evaluation \* samples done, those failed, and those right in toxicity, PII, action and all

drift_vars == <<baseline, window, alerts, added>>
registry_vars == <<registration, version_keys, names, in_table, comparison>>
monitoring_vars == <<drift_vars, registry_vars, evaluation>>

-----------------------------------------------------------------------------
NoBaseline == [histogram |-> None, rate |-> None]

DriftInit == baseline = NoBaseline /\ window = <<>> /\ alerts = <<>> /\ added = 0

Highs(scores) == Cardinality({i \in DOMAIN scores : scores[i] = 1})

(* The measures are distances of two histograms; with this few samples a   *)
(* difference of one is beyond every threshold.                            *)
Differ(one, other) == Highs(one) * Len(other) # Highs(other) * Len(one)

(* set_baseline; nothing from no scores *)
SetBaseline(scores) ==
  /\ baseline' = IF scores = <<>> THEN baseline ELSE [histogram |-> scores, rate |-> scores]
  /\ UNCHANGED <<window, alerts, added, registry_vars, evaluation>>

(* set_baseline_from_stats: without a histogram the one there is is kept *)
SetBaselineFromStats(scores, with_histogram) ==
  /\ baseline' = [histogram |-> IF with_histogram THEN scores ELSE baseline.histogram, rate |-> scores]
  /\ UNCHANGED <<window, alerts, added, registry_vars, evaluation>>

(* mutant: the oldest goes only when the next one comes *)
WindowWithOneMore(score) ==
  LET longer == Append(window, score)
  IN  IF Len(longer) > WindowSize + 1 THEN Tail(longer) ELSE longer

WindowWith(score) ==
  LET longer == Append(window, score)
  IN  IF Len(longer) > WindowSize THEN Tail(longer) ELSE longer

(* _check_drift *)
Drifted(scores) ==
  /\ baseline.histogram # None
  /\ \/ Differ(baseline.histogram, scores)
     \/ baseline.rate # None /\ Differ(baseline.rate, scores)

(* add_sample; whatever the callback raises, the alert stands *)
AddSample(score) ==
  /\ added < MaxScores
  /\ added' = added + 1
  /\ window' = WindowWith(score)
  /\ alerts' = IF Len(window') >= CheckEvery /\ Len(window') % CheckEvery = 0 /\ Drifted(window')
               THEN Append(alerts, added') ELSE alerts
  /\ UNCHANGED <<baseline, registry_vars, evaluation>>

ResetDetector ==
  /\ baseline' = NoBaseline /\ window' = <<>> /\ alerts' = <<>>
  /\ UNCHANGED <<added, registry_vars, evaluation>>

DriftNext ==
  \/ \E score \in {0, 1} : AddSample(score)
  \/ \E scores \in Baselines : SetBaseline(scores)
  \/ \E scores \in Baselines, with_histogram \in BOOLEAN :
       scores # <<>> /\ SetBaselineFromStats(scores, with_histogram)
  \/ ResetDetector

-----------------------------------------------------------------------------
RegistryInit ==
  /\ registration \in [Registrations -> [version : VersionNames, metrics : {"measured", "bare"}, step : {"set"}]]
  /\ version_keys = [v \in VersionNames |-> None] /\ names = <<>> /\ in_table = {}
  /\ comparison = [c \in Comparisons |-> [step |-> "names", version |-> None, found |-> FALSE]]

Goes(r, step) == registration' = [registration EXCEPT ![r].step = step]

(* mutant: a SET that fails is passed over *)
SetVersionAnyhow(r) ==
  /\ registration[r].step = "set"
  /\ version_keys' \in {version_keys, [version_keys EXCEPT ![registration[r].version] = registration[r].metrics]}
  /\ Goes(r, "push")
  /\ UNCHANGED <<drift_vars, names, in_table, comparison, evaluation>>

(* register_version: SET, LPUSH, LTRIM, and the row, which may fail *)
SetVersion(r) ==
  /\ registration[r].step = "set"
  /\ version_keys' = [version_keys EXCEPT ![registration[r].version] = registration[r].metrics]
  /\ Goes(r, "push")
  /\ UNCHANGED <<drift_vars, names, in_table, comparison, evaluation>>

PushName(r) ==
  /\ registration[r].step = "push"
  /\ names' = <<registration[r].version>> \o names
  /\ Goes(r, "trim")
  /\ UNCHANGED <<drift_vars, version_keys, in_table, comparison, evaluation>>

TrimNames(r) ==
  /\ registration[r].step = "trim"
  /\ names' = IF Len(names) > ListKeeps THEN SubSeq(names, 1, ListKeeps) ELSE names
  /\ Goes(r, "table")
  /\ UNCHANGED <<drift_vars, version_keys, in_table, comparison, evaluation>>

SaveVersion(r) ==
  /\ registration[r].step = "table"
  /\ in_table' \in {in_table, in_table \cup {registration[r].version}}
  /\ Goes(r, "done")
  /\ UNCHANGED <<drift_vars, version_keys, names, comparison, evaluation>>

(* a statement to Redis that fails ends the call *)
RegistrationFails(r) ==
  /\ registration[r].step \in {"set", "push", "trim"}
  /\ Goes(r, "failed")
  /\ UNCHANGED <<drift_vars, version_keys, names, in_table, comparison, evaluation>>

(* detect_drift without a baseline: the first name, then its key, whose    *)
(* metrics may be none                                                     *)
GetVersions(c) ==
  /\ comparison[c].step = "names"
  /\ comparison' = [comparison EXCEPT ![c] =
       IF names = <<>> THEN [@ EXCEPT !.step = "done"] ELSE [@ EXCEPT !.step = "get", !.version = names[1]]]
  /\ UNCHANGED <<drift_vars, registration, version_keys, names, in_table, evaluation>>

GetBaseline(c) ==
  /\ comparison[c].step = "get"
  /\ comparison' = [comparison EXCEPT ![c].step = "done", ![c].found = version_keys[comparison[c].version] = "measured"]
  /\ UNCHANGED <<drift_vars, registration, version_keys, names, in_table, evaluation>>

RegistryNext ==
  \/ \E r \in Registrations :
       SetVersion(r) \/ PushName(r) \/ TrimNames(r) \/ SaveVersion(r) \/ RegistrationFails(r)
  \/ \E c \in Comparisons : GetVersions(c) \/ GetBaseline(c)

-----------------------------------------------------------------------------
Checks == {"toxic", "pii", "action"}

EvaluationInit ==
  evaluation = [done |-> {}, failed |-> {}, right |-> [c \in Checks |-> 0], correct |-> 0]

(* mutant: one that is right in anything is correct *)
CorrectInAny(right) == right # {}

Correct(right) == right = Checks

(* run_evaluation, one sample: in what the prediction agrees *)
EvaluateSample(s, right) ==
  /\ s \notin evaluation.done
  /\ evaluation' = [evaluation EXCEPT
       !.done = @ \cup {s},
       !.right = [c \in Checks |-> @[c] + (IF c \in right THEN 1 ELSE 0)],
       !.correct = @ + (IF Correct(right) THEN 1 ELSE 0)]
  /\ UNCHANGED <<drift_vars, registry_vars>>

(* a failed prediction is skipped; toxicity and PII are then rated without *)
(* it, the action and the whole with it                                    *)
PredictionFails(s) ==
  /\ s \notin evaluation.done
  /\ evaluation' = [evaluation EXCEPT !.done = @ \cup {s}, !.failed = @ \cup {s}]
  /\ UNCHANGED <<drift_vars, registry_vars>>

EvaluationNext ==
  \E s \in TestSamples : PredictionFails(s) \/ \E right \in SUBSET Checks : EvaluateSample(s, right)

MonitoringInit == DriftInit /\ RegistryInit /\ EvaluationInit
MonitoringNext == DriftNext \/ RegistryNext \/ EvaluationNext
MonitoringSpec == MonitoringInit /\ [][MonitoringNext]_monitoring_vars

-----------------------------------------------------------------------------
MonitoringTypeOK ==
  /\ window \in Seq({0, 1}) /\ Len(window) <= WindowSize /\ added \in 0..MaxScores
  /\ version_keys \in [VersionNames -> {None, "measured", "bare"}] /\ in_table \subseteq VersionNames
  /\ evaluation.done \subseteq TestSamples /\ evaluation.failed \subseteq evaluation.done

(***************************************************************************)
(* A drift is alerted at each sample once the window is full: while it     *)
(* fills, only every CheckEvery samples.  No sample raises two alerts, and *)
(* none is raised without a baseline's histogram.                          *)
(***************************************************************************)
DriftIsNoticed ==
  [][ /\ added' = added + 1 /\ Len(window) = WindowSize /\ Drifted(window') => Len(alerts') = Len(alerts) + 1
      /\ Len(alerts') > Len(alerts) => baseline.histogram # None /\ alerts'[Len(alerts')] = added' ]_monitoring_vars

(***************************************************************************)
(* A version that is listed can be read: when the list names one,          *)
(* detect_drift finds metrics only if that version was registered with     *)
(* some, and none only if it was registered without, however registrations *)
(* of the same version overlap or fail.                                    *)
(***************************************************************************)
ListedIsReadable ==
  \A c \in Comparisons :
    comparison[c].step = "done" /\ comparison[c].version # None =>
      \E r \in Registrations :
        /\ registration[r].version = comparison[c].version
        /\ registration[r].metrics = IF comparison[c].found THEN "measured" ELSE "bare"

(***************************************************************************)
(* A sample counts as correct only if it counts as right in all three, and *)
(* what failed counts in nothing.                                          *)
(***************************************************************************)
EvaluationAddsUp ==
  LET done == Cardinality(evaluation.done \ evaluation.failed) IN
    /\ \A c \in Checks : evaluation.correct <= evaluation.right[c] /\ evaluation.right[c] <= done
    /\ evaluation.right["toxic"] + evaluation.right["pii"] + evaluation.right["action"]
         <= 2 * done + evaluation.correct

-----------------------------------------------------------------------------
(***************************************************************************)
(* Experiment tracking: the reports of shared/mlflow_integration.py, one   *)
(* at a time, through the one tracker of shared/mlflow_client.py, whose    *)
(* calls catch every error and answer whether there was one.  MLflow has   *)
(* one run open, in which entries land, and starts none beside it; without *)
(* one, an entry opens a run by itself.                                    *)
(***************************************************************************)

CONSTANTS
  Reports, \* calls of the functions that log
  MaxItems \* bound: alerts, classifiers and the like in one report

ASSUME TrackingAssumption == MaxItems \in Nat /\ None \notin Nat /\ "stray" \notin Reports

VARIABLES
  tracker,  \* _init_attempted, _enabled, _active_run
  open_run, \* MLflow's: index in runs, or None
  runs,     \* on the server: who started it, who logged into it, entries of the first, whether it ended
  report,   \* per report: step, its run, its entries, those left and lost, whether it raises, its answer
  mishaps   \* what else went wrong: "start", "end", "stray"

experiment_vars == <<tracker, open_run, runs, report, mishaps>>

ExperimentsInit ==
  /\ tracker = [attempted |-> FALSE, enabled |-> FALSE, active |-> None]
  /\ open_run = None /\ runs = <<>> /\ mishaps = {}
  /\ report = [r \in Reports |->
       [step |-> "new", run |-> None, entries |-> 0, left |-> 0, lost |-> 0, raised |-> FALSE, answer |-> None]]

Free == \A r \in Reports : report[r].step \in {"new", "done"}

(* _initialize is attempted once, whatever comes of it; a report on a      *)
(* tracker that is not enabled answers False                               *)
BeginReport(r, entries) ==
  /\ Free /\ report[r].step = "new"
  /\ \E enabled \in IF tracker.attempted THEN {tracker.enabled} ELSE BOOLEAN :
       /\ tracker' = [tracker EXCEPT !.attempted = TRUE, !.enabled = enabled]
       /\ report' = [report EXCEPT ![r] =
            IF enabled THEN [@ EXCEPT !.step = "start", !.entries = entries, !.left = entries]
            ELSE [@ EXCEPT !.step = "done", !.answer = FALSE]]
  /\ UNCHANGED <<open_run, runs, mishaps>>

(* what each logs: its figures, then one thing after the other, of which a *)
(* benchmark's classifiers are all, and the outcome                        *)
LogDriftAlert(r, items) == BeginReport(r, items + 2)
LogModelEvaluation(r, items) == BeginReport(r, items + 2)
LogCostSummary(r, items) == BeginReport(r, items + 1)
LogBenchmarkComparison(r, items) == BeginReport(r, items)
LogModelTraining(r) == BeginReport(r, 2)

NewRun(by, from, count) == [by |-> by, from |-> from, count |-> count, ended |-> FALSE]

Refused(r) == report' = [report EXCEPT ![r].step = "done", ![r].answer = FALSE]

(* mutant: that a run is open already is passed over *)
StartRunAnyhow(r) ==
  /\ report[r].step = "start"
  /\ IF open_run # None
     THEN /\ tracker' = [tracker EXCEPT !.active = open_run]
          /\ report' = [report EXCEPT ![r].step = "log", ![r].run = open_run]
          /\ UNCHANGED <<open_run, runs>>
     ELSE /\ runs' = Append(runs, NewRun(r, {}, 0))
          /\ open_run' = Len(runs') /\ tracker' = [tracker EXCEPT !.active = Len(runs')]
          /\ report' = [report EXCEPT ![r].step = "log", ![r].run = Len(runs')]
  /\ UNCHANGED mishaps

StartRun(r) ==
  /\ report[r].step = "start"
  /\ \/ /\ open_run = None
        /\ runs' = Append(runs, NewRun(r, {}, 0))
        /\ open_run' = Len(runs') /\ tracker' = [tracker EXCEPT !.active = Len(runs')]
        /\ report' = [report EXCEPT ![r].step = "log", ![r].run = Len(runs')]
        /\ UNCHANGED mishaps
     \/ /\ open_run # None
        /\ Refused(r)
        /\ UNCHANGED <<tracker, open_run, runs, mishaps>>
     \/ /\ mishaps' = mishaps \cup {"start"}
        /\ Refused(r)
        /\ UNCHANGED <<tracker, open_run, runs>>

(* log_params, log_metrics, ...: nobody asks for the answer *)
LogEntry(r) ==
  /\ report[r].step = "log" /\ report[r].left > 0
  /\ \/ /\ runs' = [runs EXCEPT ![open_run].from = @ \cup {r}, ![open_run].count = @ + 1]
        /\ report' = [report EXCEPT ![r].left = @ - 1]
     \/ /\ report' = [report EXCEPT ![r].left = @ - 1, ![r].lost = @ + 1]
        /\ UNCHANGED runs
  /\ UNCHANGED <<tracker, open_run, mishaps>>

(* mutant: the run is not ended on the way out *)
ReportRaisesAndStops(r) ==
  /\ report[r].step = "log"
  /\ report' = [report EXCEPT ![r].step = "done", ![r].raised = TRUE, ![r].answer = FALSE]
  /\ UNCHANGED <<tracker, open_run, runs, mishaps>>

(* figures that are no numbers *)
ReportRaises(r) ==
  /\ report[r].step = "log"
  /\ report' = [report EXCEPT ![r].step = "end", ![r].raised = TRUE, ![r].answer = FALSE]
  /\ UNCHANGED <<tracker, open_run, runs, mishaps>>

FinishReport(r) ==
  /\ report[r].step = "log" /\ report[r].left = 0
  /\ report' = [report EXCEPT ![r].step = "end", ![r].answer = TRUE]
  /\ UNCHANGED <<tracker, open_run, runs, mishaps>>

(* end_run; one that fails may leave the run open *)
EndRun(r) ==
  /\ report[r].step = "end"
  /\ report' = [report EXCEPT ![r].step = "done"]
  /\ tracker' = [tracker EXCEPT !.active = None]
  /\ IF tracker.active = None THEN UNCHANGED <<open_run, runs, mishaps>>
     ELSE \/ /\ runs' = [runs EXCEPT ![open_run].ended = TRUE]
             /\ open_run' = None
             /\ UNCHANGED mishaps
          \/ /\ mishaps' = mishaps \cup {"end"}
             /\ open_run' \in {open_run, None}
             /\ UNCHANGED runs

(* a caller of the tracker's own logs, without a run *)
LogStray ==
  /\ Free /\ tracker.enabled /\ "stray" \notin mishaps
  /\ IF open_run = None
     THEN runs' = Append(runs, NewRun("stray", {"stray"}, 1)) /\ open_run' = Len(runs')
     ELSE runs' = [runs EXCEPT ![open_run].from = @ \cup {"stray"}] /\ UNCHANGED open_run
  /\ mishaps' = mishaps \cup {"stray"}
  /\ UNCHANGED <<tracker, report>>

ExperimentsNext ==
  \/ \E r \in Reports :
       \/ \E items \in 0..MaxItems :
            \/ LogDriftAlert(r, items) \/ LogModelEvaluation(r, items)
            \/ LogCostSummary(r, items) \/ LogBenchmarkComparison(r, items)
       \/ LogModelTraining(r)
       \/ StartRun(r) \/ LogEntry(r) \/ ReportRaises(r) \/ FinishReport(r) \/ EndRun(r)
  \/ LogStray

ExperimentsSpec == ExperimentsInit /\ [][ExperimentsNext]_experiment_vars

-----------------------------------------------------------------------------
ExperimentsTypeOK ==
  /\ open_run \in DOMAIN runs \cup {None} /\ tracker.active \in DOMAIN runs \cup {None}
  /\ tracker.enabled => tracker.attempted
  /\ \A i \in DOMAIN runs : runs[i].by \in Reports \cup {"stray"}
  /\ \A r \in Reports : report[r].answer \in BOOLEAN \cup {None}

(***************************************************************************)
(* What a report logged is found in a run of its own, to which no other    *)
(* report and no stray entry added, but for one left open when its end     *)
(* failed.  A report that says True has it complete, but for the entries   *)
(* that were lost, and ended, but for an end that failed.  One that says   *)
(* False is turned away for a cause: a tracker not enabled, an error of    *)
(* its own, a server that failed, or an entry that opened a run.           *)
(***************************************************************************)
ReportsHaveTheirRun ==
  /\ \A i \in DOMAIN runs : runs[i].from \subseteq {runs[i].by} \cup (IF "end" \in mishaps THEN {"stray"} ELSE {})
  /\ \A r \in Reports :
       /\ Cardinality({i \in DOMAIN runs : runs[i].by = r}) <= 1
       /\ report[r].step = "done" /\ report[r].answer =>
            LET run == runs[report[r].run] IN
            /\ run.by = r /\ run.count + report[r].lost = report[r].entries
            /\ (run.ended \/ "end" \in mishaps)
       /\ report[r].step = "done" /\ ~report[r].answer =>
            ~tracker.enabled \/ report[r].raised \/ mishaps # {}
================================================================================
