--------------------------- MODULE ReadinessChecks ---------------------------
(***************************************************************************)
(* What is asked before the system is trusted: whether the benchmark meets *)
(* its thresholds (check_accuracy_thresholds.py) and has not declined from *)
(* its baseline (alert_accuracy_regression.py), whether the environment is *)
(* safe to start in (shared/preflight.py), and whether the containers are  *)
(* up before the browser tests (preflight-check.js).  Figures are in       *)
(* hundredths; differences equal to a limit, which floating point decides, *)
(* are left to it: the instances have none.                                *)
(***************************************************************************)
EXTENDS Absence, Integers, Sequences, FiniteSets, Functions

CONSTANTS
  Gates,       \* of the benchmark: toxicity, pii, injection, hallucination
  Limits,      \* per gate [min_f1, max_fp], as in thresholds.yaml
  GateReports, \* what a benchmark may report of a gate
  LastWeek,    \* bound: benchmarks run
  Matching,    \* per expected service, the containers whose names contain its name
  Listing,     \* the containers, in the order docker ps lists them
  MaxShifts    \* bound: containers that start, stop or fall ill

ASSUME MatchingAssumption == DOMAIN Matching \subseteq {"gateway", "frontend", "guardrails"}
(* the figures of a gate or a classifier *)
Measured == [f1 : Nat \cup {None}, fp : Nat \cup {None}]

ASSUME VerdictsAssumption == None \notin {"accepted", "quiet"} /\ None \notin BOOLEAN
ASSUME ReportsAssumption ==
  /\ None \notin Measured
  /\ \A report \in GateReports :
       IF report.nested THEN report.classifiers \in Seq([rank : Nat, figures : Measured \cup {None}])
       ELSE report.figures \in Measured

VARIABLES
  results,    \* the results file, None if it is not there
  saved_baseline,   \* the baseline file: figures per gate, None if it is not there
  reviewed,   \* the figures saved when there was no baseline, or on request
  week, verdict,
  settings,   \* the environment of a starting service, and whether it started
  condition,  \* per container: what docker ps says of it
  shifts, preflight

accuracy_vars == <<results, saved_baseline, reviewed, week, verdict>>
preflight_vars == <<condition, shifts, preflight>>
readiness_vars == <<accuracy_vars, settings, preflight_vars>>

NoVerdict == [thresholds |-> None, drift |-> None]

AccuracyInit ==
  /\ results = None /\ saved_baseline = None /\ reviewed = None
  /\ week = 0 /\ verdict = NoVerdict

-----------------------------------------------------------------------------
(* A gate's report is flat, figures as such, or lists its classifiers with *)
(* the figures of each, None for one that failed.  Ranks 1 to 4 are        *)
(* "ensemble", "keyword", "pii_detector", "injection_detector", 5 the rest.*)
Ran(report) == {i \in DOMAIN report.classifiers : report.classifiers[i].figures # None}

(* mutant: the preferred one even if it failed *)
ChosenAnyhow(report) ==
  LET of == report.classifiers
      best(i) == \A j \in DOMAIN of : of[i].rank < of[j].rank \/ (of[i].rank = of[j].rank /\ i <= j)
  IN  IF of = <<>> THEN None ELSE of[CHOOSE i \in DOMAIN of : best(i)].figures

(* the classifier a gate is judged by: the first preferred one that ran,   *)
(* else the first that ran                                                 *)
Chosen(report) ==
  LET of == report.classifiers
      best(i) == \A j \in Ran(report) : of[i].rank < of[j].rank \/ (of[i].rank = of[j].rank /\ i <= j)
  IN  IF Ran(report) = {} THEN None ELSE of[CHOOSE i \in Ran(report) : best(i)].figures

(* a figure that is missing is compared with nothing *)
Meets(figures, limits) ==
  /\ figures.f1 = None \/ figures.f1 >= limits.min_f1
  /\ figures.fp = None \/ figures.fp <= limits.max_fp

(* compare: gates without a limit or without a classifier that ran pass *)
Fails(gate) ==
  LET report == results[gate]
      judged == IF report.nested THEN Chosen(report) ELSE report.figures
  IN  Limits[gate] # None /\ judged # None /\ ~Meets(judged, Limits[gate])

(* the benchmark is run; it writes its file unless it breaks *)
Benchmark ==
  /\ week < LastWeek /\ week' = week + 1
  /\ \E reported \in SUBSET Gates : results' \in [reported -> GateReports] \cup {None}
  /\ verdict' = NoVerdict
  /\ UNCHANGED <<saved_baseline, reviewed>>

(* main of check_accuracy_thresholds.py: no results, no objection *)
CheckThresholds ==
  /\ week > 0 /\ verdict.thresholds = None
  /\ verdict' = [verdict EXCEPT !.thresholds =
       IF results # None /\ \E gate \in DOMAIN results : Fails(gate) THEN "refused" ELSE "accepted"]
  /\ UNCHANGED <<results, saved_baseline, reviewed, week>>

(* extract_gate_metrics: top-level figures only, missing ones are 0 *)
Extracted ==
  LET flat == {gate \in DOMAIN results : ~results[gate].nested /\ results[gate].figures # [f1 |-> None, fp |-> None]}
      or0(n) == IF n = None THEN 0 ELSE n
  IN  [gate \in flat |-> [f1 |-> or0(results[gate].figures.f1), fp |-> or0(results[gate].figures.fp)]]

(* detect_regressions: a gate without a baseline has none *)
Regressed(current, base) ==
  \E gate \in DOMAIN current \cap DOMAIN base :
    current[gate].f1 - base[gate].f1 < -2 \/ current[gate].fp - base[gate].fp > 1

SavesBaseline ==
  /\ saved_baseline' = Extracted /\ reviewed' = Extracted
  /\ verdict' = [verdict EXCEPT !.drift = "saved"]

(* mutant: what passed is the next run's baseline *)
WatchForDriftRolling(save) ==
  /\ results # None /\ verdict.drift = None
  /\ IF saved_baseline = None \/ save THEN SavesBaseline
     ELSE LET regressed == Regressed(Extracted, saved_baseline) IN
          /\ verdict' = [verdict EXCEPT !.drift = IF regressed THEN "regressed" ELSE "quiet"]
          /\ saved_baseline' = IF regressed THEN saved_baseline ELSE Extracted
          /\ UNCHANGED reviewed
  /\ UNCHANGED <<results, week>>

(* main of alert_accuracy_regression.py *)
WatchForDrift(save) ==
  /\ results # None /\ verdict.drift = None
  /\ IF saved_baseline = None \/ save THEN SavesBaseline
     ELSE /\ verdict' = [verdict EXCEPT !.drift = IF Regressed(Extracted, saved_baseline) THEN "regressed" ELSE "quiet"]
          /\ UNCHANGED <<saved_baseline, reviewed>>
  /\ UNCHANGED <<results, week>>

(* weekly-drift-check.yml begins with a checkout, which has no baseline *)
FreshCheckout ==
  /\ saved_baseline # None
  /\ results' = None /\ saved_baseline' = None /\ reviewed' = None /\ verdict' = NoVerdict
  /\ UNCHANGED week

AccuracyNext ==
  \/ Benchmark \/ CheckThresholds \/ FreshCheckout
  \/ \E save \in BOOLEAN : WatchForDrift(save)

-----------------------------------------------------------------------------
(* preflight.py.  lax: the checks that fail without being critical; the    *)
(* known default secrets are all shorter than 32 characters, so that check *)
(* is never reached.  An address "postgresql+asyncpg://postgres:postgres@" *)
(* is not one of the default ones.                                         *)
SettingsInit ==
  settings \in [secret : {None, "short", "long"}, mtls : BOOLEAN, cert : BOOLEAN, key : BOOLEAN,
                database : {None, "default", "default+asyncpg", "own"}, redis : BOOLEAN,
                lax : SUBSET {"encryption_key", "rate_limiting"}, fail_open : BOOLEAN, started : {None}]

JwtFails == settings.secret \in {None, "short"}
MtlsFails == settings.mtls /\ ~(settings.cert /\ settings.key)

(* mutant: a missing certificate is as bad as none asked for *)
CriticalWithoutMtls ==
  \/ JwtFails
  \/ settings.database = None \/ ~settings.redis
  \/ settings.database = "default"

(* has_critical_failures, of every check run *)
CriticalFailure ==
  \/ JwtFails \/ MtlsFails
  \/ settings.database = None \/ ~settings.redis \* _check_environment_variables
  \/ settings.database = "default"               \* _check_weak_passwords

(* run_preflight_checks; disabled mTLS and those in lax are only logged *)
RunPreflightChecks ==
  /\ settings.started = None
  /\ settings' = [settings EXCEPT !.started = ~CriticalFailure \/ settings.fail_open]

-----------------------------------------------------------------------------
(* preflight-check.js *)
CriticalServices == DOMAIN Matching \cap {"gateway", "frontend"}
Conditions == {"up", "unhealthy", "exited", "absent"}

PreflightInit ==
  /\ condition \in [Range(Listing) -> Conditions]
  /\ shifts = 0
  /\ preflight = [step |-> "idle", listed |-> {}, healthy |-> TRUE, asked |-> {}, ran |-> {}]

(* the container a service really runs in is the last its name is part of *)
Own(service) ==
  LET named == SelectSeq(Listing, LAMBDA c : c \in Matching[service]) IN named[Len(named)]
Runs(service) == condition[Own(service)] \in {"up", "unhealthy"}

ContainerShifts ==
  /\ shifts < MaxShifts /\ shifts' = shifts + 1
  /\ \E c \in Range(Listing), to \in Conditions : condition' = [condition EXCEPT ![c] = to]
  /\ UNCHANGED preflight

(* docker ps -a, each service's first match and whether it is healthy: one *)
(* that is not, or is nowhere, ends the check if it is critical            *)
ListContainers ==
  /\ preflight.step = "idle"
  /\ LET present == SelectSeq(Listing, LAMBDA c : condition[c] # "absent")
         match(s) == SelectSeq(present, LAMBDA c : c \in Matching[s])
         sick == {s \in DOMAIN Matching : match(s) = <<>> \/ condition[Head(match(s))] # "up"}
     IN  preflight' = [preflight EXCEPT !.step = IF sick \cap CriticalServices # {} THEN "failed" ELSE "asking",
                                        !.listed = DOMAIN Matching \ sick]
  /\ UNCHANGED <<condition, shifts>>

(* mutant: an endpoint that cannot be reached is only printed *)
AskEndpointLeniently(service) ==
  /\ preflight.step = "asking" /\ service \notin preflight.asked
  /\ \E answers \in BOOLEAN :
       /\ answers => Runs(service)
       /\ preflight' = [preflight EXCEPT !.asked = @ \cup {service},
            !.ran = IF answers THEN @ \cup {service} ELSE @]
  /\ UNCHANGED <<condition, shifts>>

(* checkApiHealth, one endpoint: one that runs may answer *)
AskEndpoint(service) ==
  /\ preflight.step = "asking" /\ service \notin preflight.asked
  /\ \E answers \in BOOLEAN :
       /\ answers => Runs(service)
       /\ preflight' = [preflight EXCEPT !.asked = @ \cup {service},
            !.healthy = @ /\ (answers \/ service \notin CriticalServices),
            !.ran = IF answers THEN @ \cup {service} ELSE @]
  /\ UNCHANGED <<condition, shifts>>

AllAsked ==
  /\ preflight.step = "asking" /\ preflight.asked = DOMAIN Matching
  /\ preflight' = [preflight EXCEPT !.step = IF preflight.healthy THEN "passed" ELSE "failed"]
  /\ UNCHANGED <<condition, shifts>>

PreflightNext ==
  \/ ContainerShifts \/ ListContainers \/ AllAsked
  \/ \E service \in DOMAIN Matching : AskEndpoint(service)

-----------------------------------------------------------------------------
ReadinessTypeOK ==
  /\ week \in 0..LastWeek /\ (results = None \/ DOMAIN results \subseteq Gates)
  /\ verdict.thresholds \in {None, "accepted", "refused"}
  /\ verdict.drift \in {None, "saved", "quiet", "regressed"}
  /\ saved_baseline = None \/ DOMAIN saved_baseline \subseteq Gates
  /\ settings.started \in {None, TRUE, FALSE}
  /\ condition \in [Range(Listing) -> Conditions]
  /\ preflight.step \in {"idle", "asking", "passed", "failed"}

(***************************************************************************)
(* A benchmark that is accepted has, for every gate of which a classifier  *)
(* ran, one that meets every limit it was measured against.                *)
(***************************************************************************)
AcceptedIsMet ==
  verdict.thresholds = "accepted" /\ results # None =>
    \A gate \in DOMAIN results : Limits[gate] # None =>
      LET report == results[gate] IN
      IF report.nested
      THEN Ran(report) # {} => \E i \in Ran(report) : Meets(report.classifiers[i].figures, Limits[gate])
      ELSE Meets(report.figures, Limits[gate])

(***************************************************************************)
(* A decline is reported however slowly it came: while the weekly check    *)
(* says nothing, no gate is further below the figures somebody saved than  *)
(* one week's limit.  Only gates that report figures of their own count.   *)
(***************************************************************************)
DeclineIsReported ==
  verdict.drift = "quiet" =>
    \A gate \in DOMAIN results \cap DOMAIN reviewed :
      ~results[gate].nested /\ results[gate].figures.f1 # None =>
        results[gate].figures.f1 >= reviewed[gate].f1 - 2

(***************************************************************************)
(* A service that started, without being told to start anyhow, has a long  *)
(* secret, both its addresses, no default password it recognises, and its  *)
(* certificate and key if it is to use them.                               *)
(***************************************************************************)
StartedIsSafe ==
  settings.started = TRUE /\ ~settings.fail_open =>
    /\ settings.secret = "long" /\ settings.redis
    /\ settings.database \in {"own", "default+asyncpg"}
    /\ settings.mtls => settings.cert /\ settings.key

(***************************************************************************)
(* When the check has passed, gateway and frontend did run at some moment  *)
(* of it, though containers come and go under it and the one listed may be *)
(* another whose name contains theirs.                                     *)
(***************************************************************************)
PassedDidRun == preflight.step = "passed" => CriticalServices \subseteq preflight.ran \cap preflight.listed
===============================================================================
