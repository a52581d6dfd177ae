------------------------------ MODULE MCOperations ------------------------------
(***************************************************************************)
(* The record keepers, the libraries of model operations and the scripts   *)
(* of operation side by side.  They share no variable, so a behaviour is   *)
(* one of theirs, the others stay as they begin.                           *)
(***************************************************************************)
EXTENDS ComplianceRecords, ModelOperations, ModelMonitoring, Journals, Deployment, Maintenance,
        ReadinessChecks, Assessments, TLC

VARIABLE focus \* the part that moves

Monitors == {"drift", "registry", "evaluation", "experiments"}
Opinions == {"feedback", "overrides", "escalation"}
Chores == {"scaler", "backup", "training"}
Readiness == {"accuracy", "settings", "preflight"}
Parts ==
  {"records", "soc2", "snapshots", "routing", "audit", "events", "deployment", "survey", "trial"}
    \cup Opinions \cup Monitors \cup Chores \cup Readiness

MCBaselines == {<<>>, <<0, 0>>, <<0, 1>>, <<1, 1>>}

MCLimits == [toxicity |-> [min_f1 |-> 82, max_fp |-> 5], pii |-> None]
Figures(f1, fp) == [f1 |-> f1, fp |-> fp]
Flat(f1, fp) == [nested |-> FALSE, figures |-> Figures(f1, fp), classifiers |-> <<>>]
Nested(of) == [nested |-> TRUE, figures |-> None, classifiers |-> of]
Classifier(rank, figures) == [rank |-> rank, figures |-> figures]
(* figures a step apart, above and below the limits; an ensemble that ran, *)
(* one that failed, and nothing that ran                                   *)
MCGateReports ==
  {Flat(86, 3), Flat(85, 3), Flat(84, 3), Flat(82, 5), Flat(81, 3), Flat(None, 6),
   Nested(<<Classifier(5, Figures(70, 9)), Classifier(1, Figures(90, 2))>>),
   Nested(<<Classifier(1, None), Classifier(5, Figures(70, 9))>>),
   Nested(<<Classifier(1, None)>>)}

(* a container left by "docker compose run" has the gateway's name in its own *)
MCMatching == [gateway |-> {"gateway-run", "gateway"}, frontend |-> {"frontend"}, guardrails |-> {"guardrails"}]
MCListing == <<"gateway-run", "guardrails", "frontend", "gateway">>

(* no trace, no incident, all incidents, and rates on both sides of each   *)
(* threshold; cases told rightly and wrongly, and one that raises          *)
Group(total, toxic, pii) == [total |-> total, toxic |-> toxic, pii |-> pii]
MCCounts ==
  {Group(0, 0, 0), Group(2, 1, 0), Group(2, 2, 0), Group(80, 0, 0), Group(40, 1, 0), Group(16, 4, 2),
   Group(16, 12, 0), Group(16, 15, 0)}
MCCases ==
  {[label |-> label, predicted |-> told, above |-> told] : label, told \in BOOLEAN}
    \cup {[label |-> TRUE, predicted |-> TRUE, above |-> FALSE], None}

(* parts that do not move have one of their initial states *)
MCInit ==
  /\ focus \in Parts
  /\ RecordsInit /\ (focus = "records" \/ register = "consents")
  /\ Soc2Init /\ (focus = "soc2" \/ kind = "incident")
  /\ SnapshotsInit
  /\ RoutingInit /\ (focus = "routing" \/ primary.model = CHOOSE m \in Models : TRUE)
  /\ MonitoringInit /\ ExperimentsInit
  /\ \/ focus = "registry"
     \/ \A r \in Registrations : registration[r].version = (CHOOSE v \in VersionNames : TRUE) /\ registration[r].metrics = "bare"
  /\ JournalsInit
  /\ DeploymentInit /\ (focus = "deployment" \/ (checkout = Expected /\ env = None))
  /\ MaintenanceInit
  /\ (focus = "scaler" \/ containers = 0) /\ (focus = "training" \/ training.asked = Stages)
  /\ AccuracyInit
  /\ SettingsInit
  /\ \/ focus = "settings"
     \/ settings.secret = "long" /\ settings.mtls /\ settings.cert /\ settings.key /\ settings.database = "own"
          /\ settings.redis /\ settings.lax = {} /\ ~settings.fail_open
  /\ AssessmentsInit /\ OpinionsInit
  /\ PreflightInit /\ (focus = "preflight" \/ \A c \in DOMAIN condition : condition[c] = "up")

MonitorMoves ==
  IF focus = "experiments" THEN ExperimentsNext /\ UNCHANGED monitoring_vars
  ELSE /\ UNCHANGED experiment_vars
       /\ CASE focus = "drift" -> DriftNext [] focus = "registry" -> RegistryNext [] focus = "evaluation" -> EvaluationNext
ChoreMoves ==
  CASE focus = "scaler" -> ScalerNext [] focus = "backup" -> BackupNext [] focus = "training" -> TrainingNext
CheckMoves ==
  /\ IF focus = "accuracy" THEN AccuracyNext ELSE UNCHANGED accuracy_vars
  /\ IF focus = "settings" THEN RunPreflightChecks ELSE UNCHANGED settings
  /\ IF focus = "preflight" THEN PreflightNext ELSE UNCHANGED preflight_vars
AssessmentMoves ==
  IF focus = "survey" THEN SurveyNext ELSE TrialNext
OpinionMoves ==
  CASE focus = "feedback" -> FeedbackNext [] focus = "overrides" -> OverridesNext [] focus = "escalation" -> EscalationNext
JournalMoves ==
  IF focus = "audit" THEN AuditNext ELSE BusNext

MCNext ==
  /\ UNCHANGED focus
  /\ IF focus = "records" THEN RecordsNext ELSE UNCHANGED record_vars
  /\ IF focus = "soc2" THEN Soc2Next ELSE UNCHANGED soc2_vars
  /\ IF focus = "snapshots" THEN SnapshotsNext ELSE UNCHANGED snapshot_vars
  /\ IF focus = "routing" THEN RoutingNext ELSE UNCHANGED routing_vars
  /\ IF focus \in Monitors THEN MonitorMoves ELSE UNCHANGED <<monitoring_vars, experiment_vars>>
  /\ IF focus \in {"audit", "events"} THEN JournalMoves ELSE UNCHANGED journal_vars
  /\ IF focus = "deployment" THEN DeploymentNext ELSE UNCHANGED deployment_vars
  /\ IF focus \in Chores THEN ChoreMoves ELSE UNCHANGED maintenance_vars
  /\ IF focus \in Readiness THEN CheckMoves ELSE UNCHANGED readiness_vars
  /\ IF focus \in {"survey", "trial"} THEN AssessmentMoves ELSE UNCHANGED assessment_vars
  /\ IF focus \in Opinions THEN OpinionMoves ELSE UNCHANGED opinion_vars

mc_vars ==
  <<focus, record_vars, soc2_vars, snapshot_vars, routing_vars, monitoring_vars, experiment_vars, journal_vars,
    deployment_vars, maintenance_vars, readiness_vars, assessment_vars, opinion_vars>>
MCSpec == MCInit /\ [][MCNext]_mc_vars

-----------------------------------------------------------------------------
(* The type invariants of the parts. *)
OperationsTypeOK ==
  /\ RecordsTypeOK /\ Soc2TypeOK /\ SnapshotsTypeOK /\ RoutingTypeOK /\ MonitoringTypeOK /\ ExperimentsTypeOK
  /\ JournalsTypeOK /\ DeploymentTypeOK /\ MaintenanceTypeOK /\ ReadinessTypeOK /\ AssessmentsTypeOK

(***************************************************************************)
(* The figures: each has its type and its range, and those computed twice  *)
(* agree - the libraries' measures of the same groups, and a               *)
(* cross-validation with an evaluation of the same cases.                  *)
(***************************************************************************)
FiguresAgree == OperationsTypeOK /\ MeasuresAgree /\ EachCaseIsTestedOnce

(***************************************************************************)
(* What was recorded is found again as it was, across restarts, rotations  *)
(* and failed writes, but for the troubles each conjunct names: consents,  *)
(* breaches and controls in files, the SOC 2 lists, audit events and the   *)
(* event table's pages, snapshots of data, versions of models, reports to  *)
(* MLflow.                                                                 *)
(***************************************************************************)
RecordedIsKept ==
  /\ WithdrawnStaysWithdrawn /\ RecordsSurvive
  /\ UpdatesReachTheirRecord /\ RedisKeepsTheNewest
  /\ ListedIsLoadable /\ ListedOnce /\ ListedIsReadable /\ ReportsHaveTheirRun
  /\ RotationLosesNothing /\ ChainIsOne /\ HandlersMissNothing /\ PagesMissNothing

(***************************************************************************)
(* What is said to be better, complete or ready has been seen to be: a     *)
(* model worth promoting, an evaluation's figures, a deployment's gates,   *)
(* an installation's receipt, the password printed, a backup that          *)
(* completed, a model registered, a benchmark accepted, a preflight passed, *)
(* opinions counted.                                                        *)
(***************************************************************************)
ClaimsAreEarned ==
  /\ ResultsCountOnce /\ DecidedOnEvidence /\ EvaluationAddsUp
  /\ ApprovedMeansPassed /\ ReceiptIsEarned /\ PrintedOpens
  /\ CompletedIsWhole /\ RegisteredWasTrained
  /\ AcceptedIsMet /\ StartedIsSafe /\ PassedDidRun
  /\ OpinionsAddUp

(* Drift, decline and repeated violations are noticed, and the autoscaler  *)
(* keeps its limits.                                                       *)
WatchersAct == DriftIsNoticed /\ ScaledWithinLimits /\ []DeclineIsReported /\ []EscalatedInTime
=================================================================================
