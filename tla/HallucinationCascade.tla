------------------------- MODULE HallucinationCascade -------------------------
(***************************************************************************)
(* One detection of the hallucination detector: CascadeOrchestrator.detect *)
(* (hd_cascade/cascade_orchestrator.py) inside POST                        *)
(* /api/v1/hallucination/detect (hd_cascade/main.py), asked either by the  *)
(* gateway's safety pipeline, which gives up after a timeout, or by a      *)
(* client of its own that names a domain.                                  *)
(*                                                                         *)
(* What the texts say is not modelled: the rules, the NLI models and the   *)
(* judges may find whatever they can return.  Scores, confidences and      *)
(* thresholds are hundredths.  Detections share no state, so one suffices. *)
(***************************************************************************)
EXTENDS Absence, Naturals, Sequences

CONSTANTS
  Domains,     \* domains a client may name
  NliScores    \* what the smaller contradiction score of the two models may be

ASSUME NliAssumption == NliScores \subseteq 0..100

Verdicts == {"SUPPORTED", "CONTRADICTED", "NOT_ENOUGH_EVIDENCE"}

CascadeResult == [hallucination_score : 0..100, confidence : 0..100,
                  is_hallucination : BOOLEAN, resolved_at_stage : 0..4]

GuardrailRow == [toxic : BOOLEAN, toxic_score : 0..100]

ASSUME NoneAssumption ==
  /\ None \notin Verdicts \cup {"null"}
  /\ None \notin BOOLEAN
  /\ None \notin CascadeResult
  /\ None \notin GuardrailRow

HIGH_STAKES_DOMAINS == {"healthcare", "finance", "legal", "medical", "compliance"}

(* debate_confidence of DOMAIN_ESCALATION_THRESHOLDS; other domains as general *)
DebateConfidence(d) ==
  CASE d \in {"healthcare", "medical"} -> 80
    [] d \in {"finance", "compliance"} -> 75
    [] d = "legal" -> 85
    [] OTHER -> 70

(* policies/confidence_thresholds.yaml.  It has no "general" entry, so a      *)
(* domain it does not list gets main.py's defaults                            *)
Threshold(d) ==
  CASE d = "healthcare" -> 98
    [] d \in {"banking", "legal"} -> 95
    [] d = "government" -> 90
    [] d = "education" -> 80
    [] d = "internal_summary" -> 60
    [] d = "creative" -> 50
    [] OTHER -> 70

DomainAction(d) ==
  CASE d \in {"banking", "healthcare", "legal", "government"} -> "block"
    [] d \in {"internal_summary", "creative"} -> "log_only"
    [] OTHER -> "flag_with_warning"

VARIABLES
  caller,    \* "gateway" or "client"
  domain,
  traced,    \* whether the request names a trace
  worker,    \* the guardrails worker's verdict on that trace, None before it stored it
  row,       \* toxic and toxic_score of that trace in guardrail_results, or None
  pc,        \* the stage to run next, "act", "done"
  prefilter, \* its verdict
  nli,       \* the ensemble's minimum score, None also when it could not be had
  light,     \* the single judge's verdict, None also when it could not be had
  judges,    \* the verdicts of judge A and judge B, in that order; "null" for no text
  llm_calls, \* LLM calls made
  result,    \* the CascadeResult
  action,    \* the action answered
  hallucinated  \* what the gateway makes of the answer, or of its timeout

request == <<caller, domain, traced>>
vars == <<request, worker, row, pc, prefilter, nli, light, judges, llm_calls, result, action,
          hallucinated>>

Result(score, confidence, is, stage) ==
  [hallucination_score |-> score, confidence |-> confidence, is_hallucination |-> is,
   resolved_at_stage |-> stage]

Init ==
  /\ \/ caller = "gateway" /\ domain = "general" /\ traced = FALSE
     \/ caller = "client" /\ domain \in Domains /\ traced \in BOOLEAN
  /\ worker = None /\ row = None
  /\ pc = "prefilter"
  /\ prefilter = None /\ nli = None /\ light = None /\ judges = <<>>
  /\ llm_calls = 0
  /\ result = None /\ action = None /\ hallucinated = None

Resolve(r) == result' = r /\ pc' = "act"
Escalate(stage) == pc' = stage /\ UNCHANGED result

-----------------------------------------------------------------------------
(* Stage 1: the rules *)
Prefilter ==
  /\ pc = "prefilter"
  /\ prefilter' \in {"SAFE", "HALLUCINATED", "AMBIGUOUS"}
  /\ \/ /\ prefilter' = "SAFE"
        /\ \E confidence \in {90, 70, 85} : Resolve(Result(0, confidence, FALSE, 1))
     \/ prefilter' = "HALLUCINATED" /\ Resolve(Result(100, 75, TRUE, 1))
     \/ prefilter' = "AMBIGUOUS" /\ Escalate("nli")
  /\ UNCHANGED <<request, worker, row, nli, light, judges, llm_calls, action, hallucinated>>

(* Stage 2: the ensemble's confidence in its minimum contradiction score *)
NliConfidence(score) ==
  CASE score >= 85 -> "high"
    [] score >= 65 /\ score < 85 -> "medium"
    [] 100 - score >= 85 -> "high"
    [] OTHER -> "low"

(* mutant: a medium confidence resolves, too *)
NliEnsembleEager ==
  /\ pc = "nli"
  /\ nli' \in NliScores \cup {None}
  /\ IF nli' # None /\ NliConfidence(nli') # "low"
     THEN Resolve(Result(nli', nli', nli' >= 65, 2))
     ELSE Escalate("light")
  /\ UNCHANGED <<request, worker, row, prefilter, light, judges, llm_calls, action, hallucinated>>

NliEnsemble ==
  /\ pc = "nli"
  /\ nli' \in NliScores \cup {None}
  /\ IF nli' # None /\ NliConfidence(nli') = "high"
     THEN Resolve(Result(nli', nli', nli' >= 85, 2))
     ELSE Escalate("light")
  /\ UNCHANGED <<request, worker, row, prefilter, light, judges, llm_calls, action, hallucinated>>

(* What a model writes: the last of its lines that is a verdict and no     *)
(* more, and the verdicts found anywhere in its text ("UNSUPPORTED" holds  *)
(* SUPPORTED).  A call that fails or times out is an empty answer.         *)
LlmAnswers ==
  {a \in [line : Verdicts \cup {None}, words : SUBSET Verdicts] : a.line = None \/ a.line \in a.words}

ExtractVerdict(a) ==
  IF a.line # None THEN a.line
  ELSE IF "CONTRADICTED" \in a.words THEN "CONTRADICTED"
  ELSE IF "SUPPORTED" \in a.words THEN "SUPPORTED"
  ELSE IF "NOT_ENOUGH_EVIDENCE" \in a.words THEN "NOT_ENOUGH_EVIDENCE"
  ELSE None

Heard == {ExtractVerdict(a) : a \in LlmAnswers}

(* Stage 3: one judge argues both sides *)
Lightweight(verdict) ==
  CASE verdict = "CONTRADICTED" -> Result(85, 75, TRUE, 3)
    [] verdict = "SUPPORTED" -> Result(15, 75, FALSE, 3)
    [] OTHER -> Result(50, 50, FALSE, 3)

LightDebate ==
  /\ pc = "light"
  /\ light' \in Heard
  /\ llm_calls' = llm_calls + 1
  /\ IF /\ domain \notin HIGH_STAKES_DOMAINS
        /\ Lightweight(light').confidence >= DebateConfidence(domain)
     THEN Resolve(Lightweight(light'))
     ELSE Escalate("judge_a")
  /\ UNCHANGED <<request, worker, row, prefilter, nli, judges, action, hallucinated>>

(* Stage 4: two judges, one after the other *)
VerdictPriority(v) ==
  CASE v = "CONTRADICTED" -> 3 [] v = "NOT_ENOUGH_EVIDENCE" -> 2
    [] v = "SUPPORTED" -> 1 [] OTHER -> 0

(* mutant: the milder verdict breaks the tie *)
FinalVerdictMild(a, b) ==
  IF a = b THEN (IF a = None THEN "NOT_ENOUGH_EVIDENCE" ELSE a)
  ELSE IF VerdictPriority(a) <= VerdictPriority(b) THEN a ELSE b

FinalVerdict(a, b) ==
  IF a = b THEN (IF a = None THEN "NOT_ENOUGH_EVIDENCE" ELSE a)
  ELSE IF VerdictPriority(a) >= VerdictPriority(b) THEN a ELSE b

HighStakes(a, b) ==
  LET is == FinalVerdict(a, b) = "CONTRADICTED"
  IN  IF a # b THEN Result(IF is THEN 70 ELSE 30, 50, is, 4)
               ELSE Result(IF is THEN 95 ELSE 5, 90, is, 4)

(* the default when stage 4 raises *)
Fallback == Result(50, 30, FALSE, 0)

(* An answer that is not a text is an error: null has no verdict, and its  *)
(* trace cannot be cut after both were asked.                              *)
Judged(a, b) == IF "null" \in {a, b} THEN Fallback ELSE HighStakes(a, b)

(* any other answer that is not a text raises as soon as it is read *)
JudgeA ==
  /\ pc = "judge_a"
  /\ \/ \E v \in Heard \cup {"null"} : judges' = <<v>> /\ Escalate("judge_b")
     \/ Resolve(Fallback) /\ UNCHANGED judges
  /\ llm_calls' = llm_calls + 1
  /\ UNCHANGED <<request, worker, row, prefilter, nli, light, action, hallucinated>>

(* mutant: judge B is not asked when judge A gave no verdict *)
JudgeBWaits ==
  /\ pc = "judge_b" /\ judges[1] # None
  /\ \E v \in Heard : judges' = <<judges[1], v>> /\ Resolve(Judged(judges[1], v))
  /\ llm_calls' = llm_calls + 1
  /\ UNCHANGED <<request, worker, row, prefilter, nli, light, action, hallucinated>>

JudgeB ==
  /\ pc = "judge_b"
  /\ \/ \E v \in Heard \cup {"null"} :
          judges' = <<judges[1], v>> /\ Resolve(Judged(judges[1], v))
     \/ Resolve(Fallback) /\ UNCHANGED judges
  /\ llm_calls' = llm_calls + 1
  /\ UNCHANGED <<request, worker, row, prefilter, nli, light, action, hallucinated>>

-----------------------------------------------------------------------------
(* the action: the confidence decides as soon as the score is not zero *)
ActionFor(r, d) ==
  IF r.hallucination_score = 0 THEN DomainAction(d)
  ELSE IF r.confidence >= Threshold(d) THEN "block"
  ELSE IF 10 * r.confidence >= 7 * Threshold(d) THEN "flag_with_warning"
  ELSE "log_only"

(* mutant: the gateway compares with the service's own threshold *)
GatewayVerdictHigh(r) == r.hallucination_score >= 80

(* LocalSafetyProvider: the score against its own threshold of 0.5 *)
GatewayVerdict(r) == r.hallucination_score >= 50

(* mutant: DO UPDATE writes toxic, too *)
UpsertAll(r) == [toxic |-> r.is_hallucination, toxic_score |-> r.hallucination_score]

(* INSERT ... ON CONFLICT (trace_id) DO UPDATE leaves toxic alone *)
Upsert(r) ==
  [toxic |-> IF row = None THEN r.is_hallucination ELSE row.toxic,
   toxic_score |-> r.hallucination_score]

Answer ==
  /\ action' = ActionFor(result, domain)
  /\ hallucinated' = IF caller = "gateway" /\ hallucinated = None
                     THEN GatewayVerdict(result) ELSE hallucinated

Respond ==
  /\ pc = "act"
  /\ pc' = "done"
  /\ \/ ~traced /\ Answer /\ UNCHANGED row
     \/ traced /\ row' = Upsert(result) /\ Answer
     \/ (* the write fails: 500 *)
        traced /\ UNCHANGED <<row, action, hallucinated>>
  /\ UNCHANGED <<request, worker, prefilter, nli, light, judges, llm_calls, result>>

(* store_in_db of the guardrails worker: its DO UPDATE writes every column it has *)
WorkerStores ==
  /\ traced /\ worker = None
  /\ worker' \in BOOLEAN
  /\ row' = [toxic |-> worker', toxic_score |-> IF worker' THEN 90 ELSE 0]
  /\ UNCHANGED <<request, pc, prefilter, nli, light, judges, llm_calls, result, action,
                 hallucinated>>

(* the gateway's call times out or fails, and it takes the answer as not    *)
(* hallucinated; the detector goes on                                       *)
GatewayGivesUp ==
  /\ caller = "gateway" /\ hallucinated = None /\ pc # "done"
  /\ hallucinated' = FALSE
  /\ UNCHANGED <<request, worker, row, pc, prefilter, nli, light, judges, llm_calls, result, action>>

Stage == Prefilter \/ NliEnsemble \/ LightDebate \/ JudgeA \/ JudgeB \/ Respond
Next == Stage \/ GatewayGivesUp \/ WorkerStores

(* every model call returns or times out after 30 seconds *)
Spec == Init /\ [][Next]_vars /\ WF_vars(Stage)

-----------------------------------------------------------------------------
HeardSoFar ==
  LET V == Verdicts \cup {None, "null"} IN {<<>>} \cup {<<a>> : a \in V} \cup (V \X V)

TypeOK ==
  /\ caller \in {"gateway", "client"}
  /\ domain \in Domains \cup {"general"}
  /\ traced \in BOOLEAN
  /\ worker \in BOOLEAN \cup {None}
  /\ row \in GuardrailRow \cup {None}
  /\ pc \in {"prefilter", "nli", "light", "judge_a", "judge_b", "act", "done"}
  /\ prefilter \in {"SAFE", "HALLUCINATED", "AMBIGUOUS", None}
  /\ nli \in NliScores \cup {None}
  /\ light \in Verdicts \cup {None}
  /\ judges \in HeardSoFar
  /\ llm_calls \in 0..3
  /\ result \in CascadeResult \cup {None}
  /\ action \in {"block", "flag_with_warning", "log_only", None}
  /\ hallucinated \in BOOLEAN \cup {None}

(***************************************************************************)
(* A hallucination is only reported on evidence: a rule, both NLI models   *)
(* or a judge said so.  Models that are down, time out or mumble add none. *)
(***************************************************************************)
FlaggedOnEvidence ==
  result # None /\ result.is_hallucination =>
    \/ prefilter = "HALLUCINATED"
    \/ nli \in NliScores /\ nli >= 85
    \/ light = "CONTRADICTED"
    \/ "CONTRADICTED" \in {judges[i] : i \in DOMAIN judges}

(* a judge was asked whose answer could not be read *)
JudgeUnread == Len(judges) < 2 \/ "null" \in {judges[1], judges[2]}

(***************************************************************************)
(* In a high-stakes domain what the rules and the NLI models leave open is *)
(* put before both judges, and one of them saying CONTRADICTED is enough,  *)
(* whatever the other one or the lightweight debate said.  Only when an    *)
(* answer is not a text nothing is flagged, not even what the other judge  *)
(* contradicted.                                                           *)
(***************************************************************************)
HighStakesAreDebated ==
  result # None /\ domain \in HIGH_STAKES_DOMAINS =>
    /\ result.resolved_at_stage \in {0, 1, 2, 4}
    /\ result.resolved_at_stage = 2 => NliConfidence(nli) = "high"
    /\ result.resolved_at_stage = 4 =>
         /\ ~JudgeUnread
         /\ result.is_hallucination <=> "CONTRADICTED" \in {judges[1], judges[2]}
    /\ result.resolved_at_stage = 0 => JudgeUnread /\ ~result.is_hallucination

(***************************************************************************)
(* The gateway, which ignores the verdict and compares the score with a    *)
(* threshold of its own, comes to the detector's verdict when it waits;    *)
(* but it takes the default of stages that all failed for a hallucination, *)
(* which the detector does not.                                            *)
(***************************************************************************)
GatewayAgrees ==
  [][hallucinated = None /\ hallucinated' # None /\ pc' = "done" =>
       hallucinated' = (result.is_hallucination \/ result.resolved_at_stage = 0)]_vars

(***************************************************************************)
(* Without a domain of its own a hallucination never goes through with a   *)
(* mere log line, though the judges' disagreement lowers the confidence.   *)
(***************************************************************************)
NeverOnlyLoggedByDefault ==
  pc = "done" /\ Threshold(domain) = 70 /\ result.is_hallucination =>
    action \in {"block", "flag_with_warning", None}

(***************************************************************************)
(* The two writers of a trace's row may come in either order: it is marked *)
(* toxic exactly when the worker found it toxic, whatever the detector     *)
(* made of it.                                                             *)
(***************************************************************************)
WorkerVerdictStands == worker # None => row.toxic = worker

(* Every detection is answered, with at most three LLM calls. *)
Answered == <>(pc = "done" /\ llm_calls <= 3)
=============================================================================
