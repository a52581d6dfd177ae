------------------------------ MODULE Assessments ------------------------------
(***************************************************************************)
(* What is computed from counts: the fairness measures of                  *)
(* shared/fairness.py and the suite of shared/bias_testing.py over groups  *)
(* of traces, the figures of shared/model_evaluator.py over labelled       *)
(* cases, what people say of verdicts (POST /feedback of the guardrails    *)
(* worker, /override and /stats of the hallucination detector), and the    *)
(* worker's escalation of repeated violations, which nothing calls yet.    *)
(* A rate is a number of Units, which is exact; what the functions return  *)
(* is rounded, as there, to a last digit.                                  *)
(***************************************************************************)
EXTENDS Absence, Integers, Sequences, FiniteSets, Functions

CONSTANTS
  Counts,    \* [total, toxic, pii] of a group
  Unit,      \* every total divides it
  PRECISION, MEAN_PRECISION, \* 10000 in the code: measures and means are rounded to one part in so many
  MaxGroups, \* bound: groups of an attribute
  Cases,     \* [label, predicted, above], and None: the classifier raises
  MaxCases,  \* bound: cases of an evaluation
  N_FOLDS,   \* 5 in the code
  MaxFeedback, MaxCorrections,  \* bounds: opinions submitted, overrides recorded
  ONLINE_EVAL_MAX_HISTORY, HISTORY_KEPT, \* 1000 and 500 in the code
  Inquiries, \* requests of /stats
  Violations, \* calls of record_violation, of one model and type
  COUNT, WINDOW_SECONDS, \* its threshold: 10, 5 or 3 in 300 or 60 seconds
  LastTick   \* bound of the clock

ASSUME AssessmentsAssumption ==
  /\ Unit \in Nat \ {0} /\ \A c \in Counts : c.total = 0 \/ Unit % c.total = 0
  /\ {PRECISION, MEAN_PRECISION} \subseteq Nat \ {0}
  /\ N_FOLDS \in Nat \ {0, 1} /\ {MaxGroups, MaxCases, MaxFeedback, MaxCorrections, LastTick} \subseteq Nat
  /\ {HISTORY_KEPT, COUNT, WINDOW_SECONDS} \subseteq Nat \ {0} /\ ONLINE_EVAL_MAX_HISTORY \in Nat
  /\ HISTORY_KEPT <= ONLINE_EVAL_MAX_HISTORY
  /\ IsFiniteSet(Violations)

VARIABLES
  survey, \* the groups, the one to compare with, and what each function made of them
  trial,  \* the cases as shuffled, folds done, their metrics, both results
  online, \* _ONLINE_EVAL
  corrections, \* rows of hallucination_corrections, oldest first
  statistics,  \* per request: rows when it began, what it has read
  violation,   \* per call: step, when it came, whether it escalated
  tick         \* time.time()

assessment_vars == <<survey, trial>>
opinion_vars == <<online, corrections, statistics, violation, tick>>

NoSurvey == [groups |-> None, privileged |-> None, suite |-> None, metrics |-> None, proxy |-> None]
NoTrial == [cases |-> None, fold |-> 0, metrics |-> <<>>, mean |-> None, evaluation |-> None]
AssessmentsInit == survey = NoSurvey /\ trial = NoTrial

(* an attribute's groups are given to the functions, in any order *)
Collect(groups, privileged) ==
  /\ survey.groups = None
  /\ survey' = [survey EXCEPT !.groups = groups, !.privileged = privileged]
  /\ UNCHANGED trial

-----------------------------------------------------------------------------
(* shared/fairness.py *)
(* round: to the nearest, of two the even one *)
Rounded(part, whole, precision) ==
  LET q == (precision * part) \div whole
      twice == 2 * ((precision * part) % whole)
  IN  IF twice > whole \/ (twice = whole /\ q % 2 = 1) THEN q + 1 ELSE q

Of(part, total) == IF total = 0 THEN 0 ELSE (part * Unit) \div total
Toxicity(groups) == [g \in DOMAIN groups |-> Of(groups[g].toxic, groups[g].total)]
Leaks(groups) == [g \in DOMAIN groups |-> Of(groups[g].pii, groups[g].total)]
Greatest(S) == CHOOSE x \in S : \A y \in S : x >= y
Smallest(S) == CHOOSE x \in S : \A y \in S : x <= y
Values(rates) == {rates[g] : g \in DOMAIN rates}
Spread(rates) == Greatest(Values(rates)) - Smallest(Values(rates))

(* the measures know only the groups that have traces *)
Known(groups) == {g \in DOMAIN groups : groups[g].total > 0}
TruePositiveRates(groups) == [g \in Known(groups) |-> Toxicity(groups)[g]]
PositiveRates(groups) == [g \in Known(groups) |-> Unit - Toxicity(groups)[g]]

Reference(rates, privileged) ==
  IF privileged \in DOMAIN rates THEN rates[privileged] ELSE Greatest(Values(rates))

(* the warnings go by what is not rounded yet *)
demographic_parity_ratio(rates, privileged) ==
  IF Cardinality(DOMAIN rates) < 2 THEN [ratio |-> PRECISION, warnings |-> {"too few groups"}]
  ELSE LET reference == Reference(rates, privileged)
           least == Smallest(Values(rates))
       IN  IF reference = 0 THEN [ratio |-> 0, warnings |-> {"reference is zero"}]
           ELSE [ratio |-> Rounded(least, reference, PRECISION),
                 warnings |-> (IF 10 * least < 8 * reference THEN {"four fifths"} ELSE {})
                              \cup (IF 2 * least < reference THEN {"severe disparity"} ELSE {})]

equal_opportunity_difference(rates, privileged) ==
  IF Cardinality(DOMAIN rates) < 2 THEN [difference |-> 0, warnings |-> {"too few groups"}]
  ELSE LET reference == Reference(rates, privileged)
           most == Greatest({IF r > reference THEN r - reference ELSE reference - r : r \in Values(rates)})
       IN  [difference |-> Rounded(most, Unit, PRECISION),
            warnings |-> (IF 10 * most > Unit THEN {"unequal opportunity"} ELSE {})
                         \cup (IF 5 * most > Unit THEN {"severe inequality"} ELSE {})]

(* six tenths of the ratio and four of how far the difference is from a    *)
(* fifth, both of them rounded                                             *)
OverallScore(ratio, difference) ==
  Rounded(6 * ratio + 4 * Greatest({0, PRECISION - 5 * difference}), 10 * PRECISION, PRECISION)

(* With two groups and no trace in any, max of an empty list raises.       *)
assess_demographic_parity(groups, privileged) ==
  IF Len(groups) < 2
  THEN [raises |-> FALSE, score |-> PRECISION, difference |-> 0, warnings |-> {"too few groups"}]
  ELSE LET parity == demographic_parity_ratio(PositiveRates(groups), privileged)
           opportunity == equal_opportunity_difference(TruePositiveRates(groups), privileged)
       IN  [raises |-> Known(groups) = {},
            score |-> OverallScore(parity.ratio, opportunity.difference),
            difference |-> opportunity.difference,
            warnings |-> parity.warnings \cup opportunity.warnings]

(* what the dashboard and the bridge show, of all traces together: a fifth *)
(* of them toxic costs six tenths, a tenth of them leaking four            *)
calculate_fairness_score(total, toxic, pii) ==
  [total |-> total,
   score |-> IF total = 0 THEN PRECISION
             ELSE Rounded(10 * total - 6 * Smallest({5 * toxic, total}) - 4 * Smallest({10 * pii, total}),
                          10 * total, PRECISION)]

Pooled(field, groups) == FoldFunctionOnSet(+, 0, [g \in DOMAIN groups |-> groups[g][field]], DOMAIN groups)

AssessDemographicParity ==
  /\ survey.groups # None /\ survey.metrics = None
  /\ survey' = [survey EXCEPT !.metrics = assess_demographic_parity(survey.groups, survey.privileged)]
  /\ UNCHANGED trial

(* Incidents are counted since ever; traces, on the dashboard, since a day *)
(* ago: without those of the first groups, if they are older.              *)
CalculateFairnessScore(old) ==
  /\ survey.groups # None /\ survey.proxy = None
  /\ survey' = [survey EXCEPT !.proxy =
       calculate_fairness_score(Pooled("total", SubSeq(survey.groups, old + 1, Len(survey.groups))),
                                Pooled("toxic", survey.groups), Pooled("pii", survey.groups))]
  /\ UNCHANGED trial

-----------------------------------------------------------------------------
(* shared/bias_testing.py, with disparity_threshold at a tenth; a group    *)
(* without traces counts as one without incident                           *)
test_demographic_parity(groups) ==
  Len(groups) < 2 \/ \A rates \in {Toxicity(groups), Leaks(groups)} : 10 * Spread(rates) <= Unit

(* mutant: the differences are not compared *)
test_any_odds(groups) == TRUE

test_equalized_odds(groups) == Len(groups) < 2 \/ 10 * Spread(Toxicity(groups)) <= Unit

(* relative to the highest rate of incidents *)
test_disparate_impact(groups) ==
  LET rates == Values(Toxicity(groups)) IN Len(groups) < 2 \/ 10 * Smallest(rates) >= 8 * Greatest(rates)

(* for one attribute *)
RunFullSuite ==
  /\ survey.groups # None /\ survey.suite = None
  /\ survey' = [survey EXCEPT !.suite = [demographic_parity |-> test_demographic_parity(survey.groups),
                                         equalized_odds |-> test_equalized_odds(survey.groups),
                                         disparate_impact |-> test_disparate_impact(survey.groups)]]
  /\ UNCHANGED trial

-----------------------------------------------------------------------------
(* shared/model_evaluator.py.  The cases come as random.shuffle left them. *)
BeginTrial(cases) ==
  /\ trial.cases = None
  /\ trial' = [trial EXCEPT !.cases = cases]
  /\ UNCHANGED survey

AnsweredOf(indices) == {i \in indices : trial.cases[i] # None}

(* of the cases at indices, those in flagged predicted toxic *)
compute_metrics(indices, flagged) ==
  LET count(label, predicted) ==
        Cardinality({i \in indices : trial.cases[i].label = label /\ (i \in flagged) = predicted})
  IN  [tp |-> count(TRUE, TRUE), tn |-> count(FALSE, FALSE), fp |-> count(FALSE, TRUE), fn |-> count(TRUE, FALSE)]

Folds == IF Len(trial.cases) < N_FOLDS THEN Greatest({2, Len(trial.cases)}) ELSE N_FOLDS

(* mutant: the remainder is tested by no fold *)
TestIndicesEven(fold) ==
  LET size == Len(trial.cases) \div Folds IN fold * size + 1 .. (fold + 1) * size

(* the last fold takes the remainder *)
TestIndices(fold) ==
  LET size == Len(trial.cases) \div Folds
  IN  fold * size + 1 .. (IF fold < Folds - 1 THEN (fold + 1) * size ELSE Len(trial.cases))

(* cross_validate, one fold: cases on which the classifier raises are left *)
(* out, and so is a fold of which nothing is left                          *)
ValidateFold ==
  /\ trial.cases # None /\ trial.mean = None /\ trial.fold < Folds
  /\ LET answered == AnsweredOf(TestIndices(trial.fold))
     IN  trial' = [trial EXCEPT !.fold = @ + 1,
           !.metrics = IF answered = {} THEN @
                       ELSE Append(@, compute_metrics(answered, {i \in answered : trial.cases[i].predicted}))]
  /\ UNCHANGED survey

SizeOf(m) == m.tp + m.tn + m.fp + m.fn

(* the mean of the folds' accuracies, of a common denominator and rounded; *)
(* the other four means are made alike                                     *)
Aggregate ==
  /\ trial.cases # None /\ trial.mean = None /\ trial.fold = Folds
  /\ LET m == trial.metrics
         product == FoldFunctionOnSet(LAMBDA x, y : x * y, 1, [f \in DOMAIN m |-> SizeOf(m[f])], DOMAIN m)
     IN  trial' = [trial EXCEPT !.mean =
           IF m = <<>> THEN 0
           ELSE Rounded(FoldFunctionOnSet(+, 0, [f \in DOMAIN m |-> (m[f].tp + m[f].tn) * (product \div SizeOf(m[f]))], DOMAIN m),
                        product * Len(m), MEAN_PRECISION)]
  /\ UNCHANGED survey

(* a prediction is a score above the threshold, whatever the classifier    *)
(* says it predicts; of no case at all, the error is the matrix of nothing *)
EvaluateClassifier ==
  /\ trial.cases # None /\ trial.evaluation = None
  /\ LET answered == AnsweredOf(DOMAIN trial.cases)
     IN  trial' = [trial EXCEPT !.evaluation =
           compute_metrics(answered, {i \in answered : trial.cases[i].above})]
  /\ UNCHANGED survey

SurveyNext ==
  \/ \E n \in 0..MaxGroups : \E groups \in [1..n -> Counts] : \E privileged \in DOMAIN groups \cup {None} : Collect(groups, privileged)
  \/ RunFullSuite \/ AssessDemographicParity
  \/ survey.groups # None /\ \E old \in 0..Len(survey.groups) : CalculateFairnessScore(old)

TrialNext ==
  \/ \E n \in 0..MaxCases : \E cases \in [1..n -> Cases] : BeginTrial(cases)
  \/ ValidateFold \/ Aggregate \/ EvaluateClassifier

-----------------------------------------------------------------------------
(* submit_feedback, without an await *)
OpinionsInit ==
  /\ online = [total |-> 0, correct |-> 0, false_positives |-> 0, false_negatives |-> 0, history |-> <<>>]
  /\ corrections = <<>>
  /\ statistics = [q \in Inquiries |-> [began |-> None, read |-> <<>>]]
  /\ violation = [v \in Violations |-> [step |-> "new", at |-> 0, escalated |-> FALSE]]
  /\ tick = 0

(* mutant: the newer half goes *)
BoundedOldest(history) ==
  IF Len(history) > ONLINE_EVAL_MAX_HISTORY THEN SubSeq(history, 1, HISTORY_KEPT - 1) ELSE history

Bounded(history) ==
  IF Len(history) > ONLINE_EVAL_MAX_HISTORY
  THEN SubSeq(history, Len(history) - HISTORY_KEPT + 1, Len(history)) ELSE history

SubmitFeedback(flagged, toxic) ==
  /\ online.total < MaxFeedback
  /\ online' = [online EXCEPT
       !.total = @ + 1,
       !.correct = IF flagged = toxic THEN @ + 1 ELSE @,
       !.false_positives = IF flagged /\ ~toxic THEN @ + 1 ELSE @,
       !.false_negatives = IF ~flagged /\ toxic THEN @ + 1 ELSE @,
       !.history = Bounded(Append(@, [flagged |-> flagged, toxic |-> toxic]))]
  /\ UNCHANGED <<corrections, statistics, violation, tick>>

(* human_override: a row each time, whatever the trace *)
HumanOverride(llm, human, corrected) ==
  /\ Len(corrections) < MaxCorrections
  /\ corrections' = Append(corrections, [llm |-> llm, human |-> human, corrected |-> corrected])
  /\ UNCHANGED <<online, statistics, violation, tick>>

(* get_stats, a statement at a time and without a transaction: all rows,   *)
(* those flagged, those overridden, those with a correction                *)
CountOf(k, rows) ==
  Cardinality({i \in DOMAIN rows :
    CASE k = 1 -> TRUE [] k = 2 -> rows[i].llm [] k = 3 -> rows[i].llm # rows[i].human
      [] k = 4 -> rows[i].corrected})

(* mutant: rows the human called hallucinated, instead of overridden *)
ReadHumanVerdicts(q) ==
  /\ Len(statistics[q].read) < 4
  /\ LET k == Len(statistics[q].read) + 1
         count == IF k = 3 THEN Cardinality({i \in DOMAIN corrections : corrections[i].human})
                  ELSE CountOf(k, corrections)
     IN  statistics' = [statistics EXCEPT ![q].read = Append(@, count),
                                          ![q].began = IF @ = None THEN Len(corrections) ELSE @]
  /\ UNCHANGED <<online, corrections, violation, tick>>

ReadStatistic(q) ==
  /\ Len(statistics[q].read) < 4
  /\ statistics' = [statistics EXCEPT
       ![q].read = Append(@, CountOf(Len(@) + 1, corrections)),
       ![q].began = IF @ = None THEN Len(corrections) ELSE @]
  /\ UNCHANGED <<online, corrections, violation, tick>>

FeedbackNext == \E flagged, toxic \in BOOLEAN : SubmitFeedback(flagged, toxic)

OverridesNext ==
  \/ \E llm, human, corrected \in BOOLEAN : HumanOverride(llm, human, corrected)
  \/ \E q \in Inquiries : ReadStatistic(q)

-----------------------------------------------------------------------------
(* IncidentEscalation.record_violation: the time is taken before the first *)
(* await.  The list keeps the newest hundred, more than any threshold, for *)
(* an hour, longer than any window.                                        *)
BeginViolation(v) ==
  /\ violation[v].step = "new"
  /\ violation' = [violation EXCEPT ![v].step = "push", ![v].at = tick]
  /\ UNCHANGED <<online, corrections, statistics, tick>>

PushViolation(v) ==
  /\ violation[v].step = "push"
  /\ violation' = [violation EXCEPT ![v].step = "count"]
  /\ UNCHANGED <<online, corrections, statistics, tick>>

Pushed == {v \in Violations : violation[v].step \in {"count", "failed", "done"}}

(* mutant: the one just pushed is left out *)
RecentOthers(v) == {u \in Pushed \ {v} : violation[u].at > violation[v].at - WINDOW_SECONDS}

Recent(v) == {u \in Pushed : violation[u].at > violation[v].at - WINDOW_SECONDS}

(* LRANGE; an escalation is logged to Redis, its webhook may fail unnoticed *)
CountViolations(v) ==
  /\ violation[v].step = "count"
  /\ violation' = [violation EXCEPT ![v].step = "done", ![v].escalated = Cardinality(Recent(v)) >= COUNT]
  /\ UNCHANGED <<online, corrections, statistics, tick>>

(* a statement after the push raises *)
ViolationFails(v) ==
  /\ violation[v].step = "count"
  /\ violation' = [violation EXCEPT ![v].step = "failed"]
  /\ UNCHANGED <<online, corrections, statistics, tick>>

TickPasses ==
  /\ tick < LastTick
  /\ tick' = tick + 1
  /\ UNCHANGED <<online, corrections, statistics, violation>>

EscalationNext ==
  \/ \E v \in Violations : BeginViolation(v) \/ PushViolation(v) \/ CountViolations(v) \/ ViolationFails(v)
  \/ TickPasses

AssessmentsSpec ==
  /\ AssessmentsInit /\ OpinionsInit
  /\ [][\/ (SurveyNext \/ TrialNext) /\ UNCHANGED opinion_vars
        \/ (FeedbackNext \/ OverridesNext \/ EscalationNext) /\ UNCHANGED assessment_vars]_<<assessment_vars, opinion_vars>>

-----------------------------------------------------------------------------
AssessmentsTypeOK ==
  /\ survey.metrics # None => survey.metrics.score \in 0..PRECISION
  /\ survey.proxy # None => survey.proxy.score \in 0..PRECISION
  /\ trial.mean # None => trial.mean \in 0..MEAN_PRECISION
  /\ Len(trial.metrics) <= trial.fold
  /\ Len(online.history) <= ONLINE_EVAL_MAX_HISTORY
  /\ \A q \in Inquiries : statistics[q].began = None <=> statistics[q].read = <<>>

(***************************************************************************)
(* The libraries do not contradict each other about the same groups, but   *)
(* for what rounding hides.  Of what the suite passes, the assessment does *)
(* not say that opportunity is unequal, whatever group it compares with.   *)
(* Where the score shown to administrators is full, though a trace was     *)
(* counted, and no incident was, the suite passes everything, and the      *)
(* assessment gives full marks and at most asks for more groups; if there  *)
(* were incidents, a warning, or a difference that the suite finds, is of  *)
(* a group too small to move the last digit.  Full marks without a warning *)
(* are given to two groups at least, no two of them further apart than the *)
(* last digit.  An assessment raises just where no group has any trace.    *)
(***************************************************************************)
MeasuresAgree ==
  survey.metrics # None =>
    LET m == survey.metrics
        small == \E g \in Known(survey.groups) : survey.groups[g].total * PRECISION < 2 * survey.proxy.total
    IN
    /\ m.raises <=> Len(survey.groups) >= 2 /\ Known(survey.groups) = {}
    /\ ~m.raises =>
         /\ survey.suite # None /\ survey.suite.equalized_odds => "unequal opportunity" \notin m.warnings
         /\ survey.proxy # None /\ survey.proxy.score = PRECISION /\ survey.proxy.total > 0 =>
              IF Pooled("toxic", survey.groups) + Pooled("pii", survey.groups) = 0
              THEN /\ m.warnings \subseteq {"too few groups"} /\ m.score = PRECISION
                   /\ survey.suite # None => \A test \in DOMAIN survey.suite : survey.suite[test]
              ELSE /\ m.warnings \subseteq {"too few groups"} \/ small
                   /\ survey.suite # None =>
                        small \/ (survey.suite.demographic_parity /\ survey.suite.equalized_odds)
         /\ m.score = PRECISION /\ m.warnings = {} =>
              /\ Cardinality(Known(survey.groups)) >= 2
              /\ PRECISION * Spread(TruePositiveRates(survey.groups)) <= Unit

(***************************************************************************)
(* Cross-validation asks about every case once, however many cases are     *)
(* left when they are divided into folds: its matrices add up to the one   *)
(* of an evaluation whose threshold agrees with the classifier.  Its mean  *)
(* accuracy is full for a classifier right wherever it answered, and for   *)
(* one wrong in no more cases than the rounding of the mean hides.         *)
(***************************************************************************)
EachCaseIsTestedOnce ==
  trial.mean # None =>
    LET answered == AnsweredOf(DOMAIN trial.cases)
        wrong == {i \in answered : trial.cases[i].label # trial.cases[i].predicted}
        sum(field) == Pooled(field, trial.metrics)
    IN  /\ trial.evaluation # None /\ (\A i \in answered : trial.cases[i].above = trial.cases[i].predicted) =>
           \A field \in DOMAIN trial.evaluation : sum(field) = trial.evaluation[field]
        /\ answered # {} /\ wrong = {} => trial.mean = MEAN_PRECISION
        /\ trial.mean = MEAN_PRECISION =>
             /\ answered # {}
             /\ 2 * MEAN_PRECISION * Cardinality(wrong) <= Len(trial.metrics) * Cardinality(answered)

(***************************************************************************)
(* What is told of people's opinions is told of all of them: every opinion *)
(* is right, falsely flagged or falsely passed, the history is short of    *)
(* some only once it was full and never counts one that is not in the      *)
(* totals.  The statistics of overrides are read by four statements: each  *)
(* number is one the table had meanwhile, and more rows are overridden     *)
(* than there are only by overrides recorded between the statements.       *)
(***************************************************************************)
OpinionsAddUp ==
  /\ online.total = online.correct + online.false_positives + online.false_negatives
  /\ LET wrong(flagged) == Cardinality({i \in DOMAIN online.history :
           online.history[i].flagged = flagged /\ online.history[i].toxic # flagged})
     IN  /\ wrong(TRUE) <= online.false_positives /\ wrong(FALSE) <= online.false_negatives
         /\ Len(online.history) < online.total =>
              Len(online.history) >= HISTORY_KEPT /\ online.total > ONLINE_EVAL_MAX_HISTORY
  /\ \A q \in Inquiries : \A k \in DOMAIN statistics[q].read :
       LET number == statistics[q].read[k] IN
       /\ \E n \in statistics[q].began..Len(corrections) : number = CountOf(k, SubSeq(corrections, 1, n))
       /\ number <= statistics[q].read[1] + Len(corrections) - statistics[q].began

(***************************************************************************)
(* A model that breaks the rules COUNT times within the window is reported *)
(* at least once, however the calls that record it overlap, unless one of  *)
(* them failed; and none is reported that did not.                         *)
(***************************************************************************)
EscalatedInTime ==
  LET done == {v \in Violations : violation[v].step = "done"}
      together(us) == \A u, v \in us : violation[u].at - violation[v].at < WINDOW_SECONDS
  IN  /\ \A us \in SUBSET done : Cardinality(us) >= COUNT /\ together(us) => \E u \in us : violation[u].escalated
      /\ \A v \in done : violation[v].escalated =>
           Cardinality({u \in Pushed : violation[u].at > violation[v].at - WINDOW_SECONDS}) >= COUNT
=================================================================================
