--------------------------- MODULE DetectionProofs ---------------------------
(***************************************************************************)
(* Proofs about the two that judge an answer and write its row: the        *)
(* detector (HallucinationCascade), for any domains and any scores of the  *)
(* NLI models, and the guardrails worker (TraceWorker), for any number of  *)
(* workers and traces, any size of a read and any entries and faults.      *)
(*                                                                         *)
(* The verdict of a detection is read long after the stage that made it.   *)
(* ResultIff ties the result to the label (no stage runs once there is     *)
(* one, so its evidence stands), Consistent says what every stage makes of *)
(* score, verdict and confidence: the gateway, which only looks at the     *)
(* score, and the choice of the action rest on it.                         *)
(*                                                                         *)
(* That the worker handles an entry once needs to know that no entry is    *)
(* held twice (HeldOnce) and that what a worker has not come to yet was    *)
(* never published nor dead-lettered (NotYetPublished, NotYetDead); that   *)
(* nothing is lost needs to know that an entry leaves the pending list     *)
(* only behind its row or its dead letter (StoredWhileAcked,               *)
(* StillPending).                                                          *)
(***************************************************************************)
EXTENDS HallucinationCascade, TraceWorker, SequenceTheorems, TLAPS

(* The detector. *)
Stages == {"prefilter", "nli", "light", "judge_a", "judge_b"}

ResultIff == result = None <=> pc \in Stages

JudgesInOrder ==
  /\ pc \in {"prefilter", "nli", "light", "judge_a"} => judges = <<>>
  /\ pc = "judge_b" => judges \in {<<a>> : a \in Verdicts \cup {None, "null"}}
  /\ pc = "light" => llm_calls = 0
  /\ pc = "judge_a" => llm_calls = 1
  /\ pc = "judge_b" => llm_calls = 2
  /\ pc \in {"prefilter", "nli"} => llm_calls = 0

Consistent ==
  result # None =>
    /\ (result.hallucination_score >= 50) <=>
         (result.is_hallucination \/ result.resolved_at_stage = 0)
    /\ result.is_hallucination => result.confidence >= 50

WorkerRow == worker # None => row # None /\ row.toxic = worker

IInv ==
  /\ TypeOK
  /\ ResultIff
  /\ JudgesInOrder
  /\ Consistent
  /\ WorkerRow
  /\ FlaggedOnEvidence
  /\ HighStakesAreDebated

-----------------------------------------------------------------------------
(* A result is never None. *)
LEMMA ResultNotNone == ASSUME NEW r \in CascadeResult PROVE r # None
BY NoneAssumption

(* _extract_lightweight_verdict finds a verdict only where the text has it. *)
LEMMA VerdictIsInTheText ==
  ASSUME NEW a \in LlmAnswers
  PROVE  ExtractVerdict(a) = None \/ ExtractVerdict(a) \in a.words
BY DEF LlmAnswers, ExtractVerdict

LEMMA HeardIsVerdict == Heard \subseteq Verdicts \cup {None}
<1> SUFFICES ASSUME NEW a \in LlmAnswers PROVE ExtractVerdict(a) \in Verdicts \cup {None}
  BY DEF Heard
<1>1. a.words \subseteq Verdicts
  BY DEF LlmAnswers
<1> QED
  BY <1>1, VerdictIsInTheText

(* The judges' common verdict is CONTRADICTED as soon as one of theirs is. *)
LEMMA FinalVerdictStrict ==
  ASSUME NEW a \in Verdicts \cup {None}, NEW b \in Verdicts \cup {None}
  PROVE  (FinalVerdict(a, b) = "CONTRADICTED") = ("CONTRADICTED" \in {a, b})
BY NoneAssumption DEF FinalVerdict, VerdictPriority, Verdicts

(* What the two judges resolve is a result that agrees with itself. *)
LEMMA HighStakesResult ==
  ASSUME NEW a \in Verdicts \cup {None}, NEW b \in Verdicts \cup {None}
  PROVE  /\ HighStakes(a, b) \in CascadeResult
         /\ HighStakes(a, b) # None
         /\ HighStakes(a, b).is_hallucination <=> ("CONTRADICTED" \in {a, b})
         /\ (HighStakes(a, b).hallucination_score >= 50) <=> HighStakes(a, b).is_hallucination
         /\ HighStakes(a, b).confidence >= 50
         /\ HighStakes(a, b).resolved_at_stage = 4
<1>1. CASE FinalVerdict(a, b) = "CONTRADICTED"
  <2>1. "CONTRADICTED" \in {a, b}
    BY <1>1, FinalVerdictStrict
  <2>2. (FinalVerdict(a, b) = "CONTRADICTED") = TRUE
    BY <1>1
  <2>3. CASE a # b
    <3>1. HighStakes(a, b) = Result(70, 50, TRUE, 4)
      BY <2>2, <2>3, Zenon DEF HighStakes
    <3>2. HighStakes(a, b) \in CascadeResult
      BY <3>1 DEF Result, CascadeResult
    <3>3. /\ HighStakes(a, b).hallucination_score = 70 /\ HighStakes(a, b).confidence = 50
          /\ HighStakes(a, b).is_hallucination = TRUE /\ HighStakes(a, b).resolved_at_stage = 4
      BY <3>1 DEF Result
    <3> QED
      BY <2>1, <3>2, <3>3, ResultNotNone
  <2>4. CASE a = b
    <3>1. HighStakes(a, b) = Result(95, 90, TRUE, 4)
      BY <2>2, <2>4, Zenon DEF HighStakes
    <3>2. HighStakes(a, b) \in CascadeResult
      BY <3>1 DEF Result, CascadeResult
    <3>3. /\ HighStakes(a, b).hallucination_score = 95 /\ HighStakes(a, b).confidence = 90
          /\ HighStakes(a, b).is_hallucination = TRUE /\ HighStakes(a, b).resolved_at_stage = 4
      BY <3>1 DEF Result
    <3> QED
      BY <2>1, <3>2, <3>3, ResultNotNone
  <2> QED
    BY <2>3, <2>4
<1>2. CASE FinalVerdict(a, b) # "CONTRADICTED"
  <2>1. "CONTRADICTED" \notin {a, b}
    BY <1>2, FinalVerdictStrict
  <2>2. (FinalVerdict(a, b) = "CONTRADICTED") = FALSE
    BY <1>2
  <2>3. CASE a # b
    <3>1. HighStakes(a, b) = Result(30, 50, FALSE, 4)
      BY <2>2, <2>3, Zenon DEF HighStakes
    <3>2. HighStakes(a, b) \in CascadeResult
      BY <3>1 DEF Result, CascadeResult
    <3>3. /\ HighStakes(a, b).hallucination_score = 30 /\ HighStakes(a, b).confidence = 50
          /\ HighStakes(a, b).is_hallucination = FALSE /\ HighStakes(a, b).resolved_at_stage = 4
      BY <3>1 DEF Result
    <3> QED
      BY <2>1, <3>2, <3>3, ResultNotNone
  <2>4. CASE a = b
    <3>1. HighStakes(a, b) = Result(5, 90, FALSE, 4)
      BY <2>2, <2>4, Zenon DEF HighStakes
    <3>2. HighStakes(a, b) \in CascadeResult
      BY <3>1 DEF Result, CascadeResult
    <3>3. /\ HighStakes(a, b).hallucination_score = 5 /\ HighStakes(a, b).confidence = 90
          /\ HighStakes(a, b).is_hallucination = FALSE /\ HighStakes(a, b).resolved_at_stage = 4
      BY <3>1 DEF Result
    <3> QED
      BY <2>1, <3>2, <3>3, ResultNotNone
  <2> QED
    BY <2>3, <2>4
<1> QED
  BY <1>1, <1>2

(* The lightweight debate: only a verdict reaches a confidence of 70. *)
LEMMA LightweightResult ==
  ASSUME NEW v \in Verdicts \cup {None}
  PROVE  /\ Lightweight(v) \in CascadeResult
         /\ Lightweight(v) # None
         /\ Lightweight(v).is_hallucination <=> (v = "CONTRADICTED")
         /\ Lightweight(v).confidence >= 70 =>
              (Lightweight(v).hallucination_score >= 50 <=> Lightweight(v).is_hallucination)
         /\ Lightweight(v).confidence >= 50
         /\ Lightweight(v).resolved_at_stage = 3
<1>1. CASE v = "CONTRADICTED"
  <2>1. Lightweight(v) = Result(85, 75, TRUE, 3)
    BY <1>1 DEF Lightweight
  <2>2. Lightweight(v) \in CascadeResult
    BY <2>1 DEF Result, CascadeResult
  <2>3. /\ Lightweight(v).hallucination_score = 85 /\ Lightweight(v).confidence = 75
        /\ Lightweight(v).is_hallucination = TRUE /\ Lightweight(v).resolved_at_stage = 3
    BY <2>1 DEF Result
  <2> QED
    BY <1>1, <2>2, <2>3, ResultNotNone
<1>2. CASE v = "SUPPORTED"
  <2>1. Lightweight(v) = Result(15, 75, FALSE, 3)
    BY <1>2 DEF Lightweight
  <2>2. Lightweight(v) \in CascadeResult
    BY <2>1 DEF Result, CascadeResult
  <2>3. /\ Lightweight(v).hallucination_score = 15 /\ Lightweight(v).confidence = 75
        /\ Lightweight(v).is_hallucination = FALSE /\ Lightweight(v).resolved_at_stage = 3
    BY <2>1 DEF Result
  <2> QED
    BY <1>2, <2>2, <2>3, ResultNotNone
<1>3. CASE v # "CONTRADICTED" /\ v # "SUPPORTED"
  <2>1. Lightweight(v) = Result(50, 50, FALSE, 3)
    BY <1>3 DEF Lightweight
  <2>2. Lightweight(v) \in CascadeResult
    BY <2>1 DEF Result, CascadeResult
  <2>3. /\ Lightweight(v).hallucination_score = 50 /\ Lightweight(v).confidence = 50
        /\ Lightweight(v).is_hallucination = FALSE /\ Lightweight(v).resolved_at_stage = 3
    BY <2>1 DEF Result
  <2> QED
    BY <1>3, <2>2, <2>3, ResultNotNone
<1> QED
  BY <1>1, <1>2, <1>3

(* A confident ensemble has a score on one side of both thresholds. *)
LEMMA ConfidentScore ==
  ASSUME NEW s \in 0..100, NliConfidence(s) = "high"
  PROVE  s >= 50 <=> s >= 85
BY DEF NliConfidence

-----------------------------------------------------------------------------
LEMMA InitIInv == Init => IInv
<1> SUFFICES ASSUME Init PROVE IInv
  OBVIOUS
<1>1. TypeOK
  <2>1. caller \in {"gateway", "client"} /\ domain \in Domains \cup {"general"}
    BY DEF Init
  <2>2. traced \in BOOLEAN
    BY Zenon DEF Init
  <2>3. worker \in BOOLEAN \cup {None} /\ hallucinated \in BOOLEAN \cup {None}
    BY Zenon DEF Init
  <2>4. row \in GuardrailRow \cup {None} /\ result \in CascadeResult \cup {None} /\ judges \in HeardSoFar
    BY Zenon DEF Init, HeardSoFar
  <2>5. nli \in NliScores \cup {None} /\ light \in Verdicts \cup {None}
    BY Zenon DEF Init
  <2> QED
    BY <2>1, <2>2, <2>3, <2>4, <2>5 DEF Init, TypeOK
<1>2. ResultIff /\ JudgesInOrder
  BY DEF Init, ResultIff, JudgesInOrder, Stages
<1>3. Consistent /\ WorkerRow /\ FlaggedOnEvidence /\ HighStakesAreDebated
  BY DEF Init, Consistent, WorkerRow, FlaggedOnEvidence, HighStakesAreDebated
<1> QED
  BY <1>1, <1>2, <1>3 DEF IInv

LEMMA PrefilterIInv == IInv /\ Prefilter => IInv'
<1> SUFFICES ASSUME IInv, Prefilter PROVE IInv'
  OBVIOUS
<1> USE DEF IInv, Prefilter, request
<1>1. result = None /\ llm_calls = 0
  BY DEF ResultIff, JudgesInOrder, Stages
<1>2. CASE prefilter' = "AMBIGUOUS" /\ Escalate("nli")
  <2>1. TypeOK'
    BY <1>2 DEF TypeOK, Escalate
  <2> QED
    BY <1>1, <1>2, <2>1 DEF Escalate, ResultIff, JudgesInOrder, Stages, Consistent, WorkerRow,
       FlaggedOnEvidence, HighStakesAreDebated
<1>3. CASE \E c \in {90, 70, 85} : prefilter' = "SAFE" /\ Resolve(Result(0, c, FALSE, 1))
  <2>1. PICK c \in {90, 70, 85} :
          prefilter' = "SAFE" /\ result' = Result(0, c, FALSE, 1) /\ pc' = "act"
    BY <1>3 DEF Resolve
  <2>2. result' \in CascadeResult
    BY <2>1 DEF Result, CascadeResult
  <2>3. /\ result'.is_hallucination = FALSE
        /\ result'.hallucination_score = 0 /\ result'.resolved_at_stage = 1
    BY <2>1 DEF Result
  <2>4. TypeOK'
    <3>1. /\ prefilter' \in {"SAFE", "HALLUCINATED", "AMBIGUOUS", None}
          /\ result' \in CascadeResult \cup {None}
          /\ pc' \in {"prefilter", "nli", "light", "judge_a", "judge_b", "act", "done"}
      BY <2>1, <2>2
    <3> QED
      BY <3>1 DEF TypeOK
  <2>5. ResultIff'
    BY <2>1, <2>2, ResultNotNone DEF ResultIff, Stages
  <2>6. HighStakesAreDebated'
    BY <2>3 DEF HighStakesAreDebated
  <2>7. Consistent' /\ FlaggedOnEvidence'
    BY <2>3 DEF Consistent, FlaggedOnEvidence
  <2> QED
    BY <2>1, <2>4, <2>5, <2>6, <2>7 DEF JudgesInOrder, WorkerRow
<1>4. CASE prefilter' = "HALLUCINATED" /\ Resolve(Result(100, 75, TRUE, 1))
  <2>1. result' = Result(100, 75, TRUE, 1) /\ pc' = "act"
    BY <1>4 DEF Resolve
  <2>2. result' \in CascadeResult
    BY <2>1 DEF Result, CascadeResult
  <2>3. /\ result'.is_hallucination = TRUE
        /\ result'.hallucination_score = 100 /\ result'.confidence = 75
        /\ result'.resolved_at_stage = 1
    BY <2>1 DEF Result
  <2>4. TypeOK'
    <3>1. /\ prefilter' \in {"SAFE", "HALLUCINATED", "AMBIGUOUS", None}
          /\ result' \in CascadeResult \cup {None}
          /\ pc' \in {"prefilter", "nli", "light", "judge_a", "judge_b", "act", "done"}
      BY <1>4, <2>1, <2>2
    <3> QED
      BY <3>1 DEF TypeOK
  <2>5. ResultIff'
    BY <2>1, <2>2, ResultNotNone DEF ResultIff, Stages
  <2>6. HighStakesAreDebated'
    BY <2>3 DEF HighStakesAreDebated
  <2>7. Consistent' /\ FlaggedOnEvidence'
    BY <1>4, <2>3 DEF Consistent, FlaggedOnEvidence
  <2> QED
    BY <2>1, <2>4, <2>5, <2>6, <2>7 DEF JudgesInOrder, WorkerRow
<1> QED
  BY <1>2, <1>3, <1>4

LEMMA NliEnsembleIInv == IInv /\ NliEnsemble => IInv'
<1> SUFFICES ASSUME IInv, NliEnsemble PROVE IInv'
  OBVIOUS
<1> USE DEF IInv, NliEnsemble, request
<1>1. result = None /\ llm_calls = 0
  BY DEF ResultIff, JudgesInOrder, Stages
<1>2. CASE Escalate("light")
  <2>1. TypeOK'
    BY <1>2 DEF TypeOK, Escalate
  <2> QED
    BY <1>1, <1>2, <2>1 DEF Escalate, ResultIff, JudgesInOrder, Stages, Consistent, WorkerRow,
       FlaggedOnEvidence, HighStakesAreDebated
<1>3. CASE /\ nli' # None /\ NliConfidence(nli') = "high"
           /\ Resolve(Result(nli', nli', nli' >= 85, 2))
  <2>1. nli' \in NliScores /\ nli' \in 0..100 /\ (nli' >= 85) \in BOOLEAN
    BY <1>3, NliAssumption
  <2>2. result' = Result(nli', nli', nli' >= 85, 2) /\ pc' = "act"
    BY <1>3 DEF Resolve
  <2>3. /\ result' \in CascadeResult
        /\ result'.is_hallucination <=> (nli' >= 85)
        /\ result'.hallucination_score = nli' /\ result'.confidence = nli'
        /\ result'.resolved_at_stage = 2
    <3>1. CASE nli' >= 85
      <4>1. result' = Result(nli', nli', TRUE, 2)
        BY <2>2, <3>1
      <4> QED
        BY <2>1, <3>1, <4>1 DEF Result, CascadeResult
    <3>2. CASE ~(nli' >= 85)
      <4>1. (nli' >= 85) = FALSE
        BY <3>2
      <4>2. result' = Result(nli', nli', FALSE, 2)
        BY <2>2, <4>1, Zenon
      <4> QED
        BY <2>1, <3>2, <4>2 DEF Result, CascadeResult
    <3> QED
      BY <3>1, <3>2
  <2>4. TypeOK'
    BY <1>3, <2>2, <2>3 DEF TypeOK
  <2>5. nli' >= 50 <=> nli' >= 85
    BY <1>3, <2>1, ConfidentScore
  <2>6. Consistent'
    BY <2>3, <2>5 DEF Consistent
  <2> QED
    BY <1>1, <1>3, <2>1, <2>2, <2>3, <2>4, <2>6, ResultNotNone DEF ResultIff, JudgesInOrder, Stages, WorkerRow,
       FlaggedOnEvidence, HighStakesAreDebated
<1> QED
  BY <1>2, <1>3

LEMMA LightDebateIInv == IInv /\ LightDebate => IInv'
<1> SUFFICES ASSUME IInv, LightDebate PROVE IInv'
  OBVIOUS
<1> USE HeardIsVerdict DEF IInv, LightDebate, request
<1>1. result = None /\ llm_calls = 0 /\ llm_calls' = 1
  BY DEF ResultIff, JudgesInOrder, Stages
<1>2. CASE Escalate("judge_a")
  <2>1. TypeOK'
    BY <1>1, <1>2 DEF TypeOK, Escalate
  <2> QED
    BY <1>1, <1>2, <2>1 DEF Escalate, ResultIff, JudgesInOrder, Stages, Consistent, WorkerRow,
       FlaggedOnEvidence, HighStakesAreDebated
<1>3. CASE /\ domain \notin HIGH_STAKES_DOMAINS
           /\ Lightweight(light').confidence >= DebateConfidence(domain)
           /\ Resolve(Lightweight(light'))
  <2>1. result' = Lightweight(light') /\ pc' = "act"
    BY <1>3 DEF Resolve
  <2>2. DebateConfidence(domain) \in {70, 75, 80, 85}
    BY DEF DebateConfidence
  <2>3. /\ result' \in CascadeResult /\ result' # None
        /\ result'.is_hallucination <=> (light' = "CONTRADICTED")
        /\ result'.confidence >= 50 /\ result'.resolved_at_stage = 3
    BY <2>1, LightweightResult
  <2>4. result'.confidence \in 0..100
    BY <2>3 DEF CascadeResult
  <2>5. (result'.hallucination_score >= 50) <=> result'.is_hallucination
    <3>1. Lightweight(light').confidence >= 70
      BY <1>3, <2>1, <2>2, <2>4
    <3> QED
      BY <2>1, <3>1, LightweightResult
  <2>6. TypeOK'
    BY <1>1, <2>1, <2>3 DEF TypeOK
  <2>7. Consistent'
    BY <2>3, <2>5 DEF Consistent
  <2> QED
    BY <1>1, <1>3, <2>1, <2>3, <2>6, <2>7 DEF ResultIff, JudgesInOrder, Stages, WorkerRow,
       FlaggedOnEvidence, HighStakesAreDebated
<1> QED
  BY <1>2, <1>3

(* The default of stages that failed: nothing is flagged. *)
LEMMA FallbackResult ==
  /\ Fallback \in CascadeResult /\ Fallback # None
  /\ Fallback.is_hallucination = FALSE /\ Fallback.hallucination_score = 50
  /\ Fallback.resolved_at_stage = 0
<1>1. Fallback \in CascadeResult
  BY DEF Fallback, Result, CascadeResult
<1> QED
  BY <1>1, ResultNotNone DEF Fallback, Result

(* A judge whose answer is no text at all ends the debate on the default. *)
LEMMA FallbackIInv ==
  ASSUME IInv, UNCHANGED <<request, worker, row, prefilter, nli, light, action, hallucinated>>,
         Resolve(Fallback), judges' = judges, Len(judges) < 2, llm_calls' \in 0..3
  PROVE  IInv'
<1> USE DEF IInv, request
<1>1. result' = Fallback /\ pc' = "act"
  BY DEF Resolve
<1>2. TypeOK'
  BY <1>1, FallbackResult DEF TypeOK
<1>3. HighStakesAreDebated'
  BY <1>1, FallbackResult DEF HighStakesAreDebated, JudgeUnread
<1>4. Consistent' /\ FlaggedOnEvidence'
  BY <1>1, FallbackResult DEF Consistent, FlaggedOnEvidence
<1> QED
  BY <1>1, <1>2, <1>3, <1>4, FallbackResult DEF ResultIff, JudgesInOrder, Stages, WorkerRow

LEMMA JudgeAIInv == IInv /\ JudgeA => IInv'
<1> SUFFICES ASSUME IInv, JudgeA PROVE IInv'
  OBVIOUS
<1>1. /\ result = None /\ llm_calls = 1 /\ llm_calls' = 2 /\ judges = <<>>
      /\ UNCHANGED <<request, worker, row, prefilter, nli, light, action, hallucinated>>
  BY DEF IInv, JudgeA, ResultIff, JudgesInOrder, Stages
<1>2. CASE \E v \in Heard \cup {"null"} : judges' = <<v>> /\ Escalate("judge_b")
  <2>1. PICK v \in Heard \cup {"null"} : judges' = <<v>> /\ Escalate("judge_b")
    BY <1>2
  <2>2. v \in Verdicts \cup {None, "null"}
    BY HeardIsVerdict
  <2>3. judges' \in {<<a>> : a \in Verdicts \cup {None, "null"}}
    BY <2>1, <2>2
  <2>4. TypeOK'
    BY <1>1, <2>1, <2>3 DEF IInv, TypeOK, HeardSoFar, Escalate, request
  <2> QED
    BY <1>1, <2>1, <2>3, <2>4 DEF IInv, request, Escalate, ResultIff, JudgesInOrder, Stages,
       Consistent, WorkerRow, FlaggedOnEvidence, HighStakesAreDebated
<1>3. CASE Resolve(Fallback) /\ UNCHANGED judges
  BY <1>1, <1>3, FallbackIInv
<1> QED
  BY <1>2, <1>3 DEF JudgeA

LEMMA JudgeBIInv == IInv /\ JudgeB => IInv'
<1> SUFFICES ASSUME IInv, JudgeB PROVE IInv'
  OBVIOUS
<1>1. /\ result = None /\ llm_calls = 2 /\ llm_calls' = 3
      /\ UNCHANGED <<request, worker, row, prefilter, nli, light, action, hallucinated>>
  BY DEF IInv, JudgeB, ResultIff, JudgesInOrder, Stages
<1>2. PICK a \in Verdicts \cup {None, "null"} : judges = <<a>>
  BY DEF IInv, JudgeB, JudgesInOrder
<1>3. CASE \E b \in Heard \cup {"null"} : judges' = <<a, b>> /\ Resolve(Judged(a, b))
  <2>1. PICK b \in Heard \cup {"null"} : judges' = <<a, b>> /\ Resolve(Judged(a, b))
    BY <1>3
  <2>2. b \in Verdicts \cup {None, "null"}
    BY HeardIsVerdict
  <2>3. result' = Judged(a, b) /\ pc' = "act"
    BY <2>1 DEF Resolve
  <2>4. /\ Len(judges') = 2 /\ judges'[1] = a /\ judges'[2] = b
        /\ judges' \in HeardSoFar
    BY <2>1, <2>2 DEF HeardSoFar
  <2>5. CASE "null" \in {a, b}
    <3>1. result' = Fallback
      BY <2>3, <2>5 DEF Judged
    <3>2. TypeOK'
      BY <1>1, <2>3, <2>4, <3>1, FallbackResult DEF IInv, TypeOK, request
    <3>3. HighStakesAreDebated'
      BY <2>4, <2>5, <3>1, FallbackResult DEF HighStakesAreDebated, JudgeUnread
    <3>4. Consistent' /\ FlaggedOnEvidence'
      BY <3>1, FallbackResult DEF Consistent, FlaggedOnEvidence
    <3> QED
      BY <1>1, <2>3, <3>1, <3>2, <3>3, <3>4, FallbackResult
         DEF IInv, ResultIff, JudgesInOrder, Stages, WorkerRow
  <2>6. CASE "null" \notin {a, b}
    <3>1. a \in Verdicts \cup {None} /\ b \in Verdicts \cup {None}
      BY <2>2, <2>6
    <3>2. result' = HighStakes(a, b)
      BY <2>3, <2>6 DEF Judged
    <3>3. /\ result' \in CascadeResult /\ result' # None
          /\ result'.is_hallucination <=> ("CONTRADICTED" \in {a, b})
          /\ (result'.hallucination_score >= 50) <=> result'.is_hallucination
          /\ result'.confidence >= 50 /\ result'.resolved_at_stage = 4
      BY <3>1, <3>2, HighStakesResult
    <3>4. TypeOK'
      BY <1>1, <2>3, <2>4, <3>3 DEF IInv, TypeOK, request
    <3>5. FlaggedOnEvidence'
      <4>1. "CONTRADICTED" \in {a, b} => "CONTRADICTED" \in {judges'[i] : i \in DOMAIN judges'}
        BY <2>1
      <4> QED
        BY <3>3, <4>1 DEF FlaggedOnEvidence
    <3>6. HighStakesAreDebated'
      BY <2>4, <2>6, <3>3 DEF HighStakesAreDebated, JudgeUnread
    <3>7. Consistent'
      BY <3>3 DEF Consistent
    <3> QED
      BY <1>1, <2>3, <3>3, <3>4, <3>5, <3>6, <3>7
         DEF IInv, ResultIff, JudgesInOrder, Stages, WorkerRow
  <2> QED
    BY <2>5, <2>6
<1>4. CASE Resolve(Fallback) /\ UNCHANGED judges
  <2>1. Len(judges) = 1
    BY <1>2
  <2> QED
    BY <1>1, <1>4, <2>1, FallbackIInv
<1> QED
  BY <1>2, <1>3, <1>4 DEF JudgeB

LEMMA RespondIInv == IInv /\ Respond => IInv'
<1> SUFFICES ASSUME IInv, Respond PROVE IInv'
  OBVIOUS
<1> USE DEF IInv, Respond, request
<1>1. result \in CascadeResult
  BY DEF TypeOK, ResultIff, Stages
<1>2. /\ result.hallucination_score \in 0..100 /\ result.is_hallucination \in BOOLEAN
  BY <1>1 DEF CascadeResult
<1>3. /\ action' \in {"block", "flag_with_warning", "log_only", None}
      /\ hallucinated' \in BOOLEAN \cup {None}
  <2>1. CASE Answer
    <3>1. action' \in {"block", "flag_with_warning", "log_only"}
      BY <2>1 DEF Answer, ActionFor, DomainAction
    <3>2. hallucinated' = (result.hallucination_score >= 50) \/ hallucinated' = hallucinated
      BY <2>1, Zenon DEF Answer, GatewayVerdict
    <3>3. (result.hallucination_score >= 50) \in BOOLEAN
      OBVIOUS
    <3>4. hallucinated' \in BOOLEAN \cup {None}
      BY <3>2, <3>3, Zenon DEF TypeOK
    <3> QED
      BY <3>1, <3>4
  <2>2. CASE UNCHANGED <<action, hallucinated>>
    BY <2>2 DEF TypeOK
  <2> QED
    BY <2>1, <2>2
<1>4. row' = row \/ row' = Upsert(result)
  OBVIOUS
<1>5. row' \in GuardrailRow \cup {None} /\ WorkerRow'
  <2>1. CASE row' = row
    BY <2>1 DEF TypeOK, WorkerRow
  <2>2. CASE row' = Upsert(result)
    <3>1. row # None => row.toxic \in BOOLEAN
      BY DEF TypeOK, GuardrailRow
    <3>2. row' \in GuardrailRow
      BY <1>2, <2>2, <3>1 DEF Upsert, GuardrailRow
    <3> QED
      BY <2>2, <3>2, NoneAssumption DEF Upsert, WorkerRow
  <2> QED
    BY <1>4, <2>1, <2>2
<1>6. TypeOK'
  BY <1>3, <1>5 DEF TypeOK
<1>7. HighStakesAreDebated' /\ FlaggedOnEvidence'
  <2>1. UNCHANGED <<result, domain, nli, light, prefilter, judges>>
    OBVIOUS
  <2> QED
    BY <2>1 DEF HighStakesAreDebated, FlaggedOnEvidence, JudgeUnread
<1> QED
  BY <1>5, <1>6, <1>7 DEF ResultIff, JudgesInOrder, Stages, Consistent

LEMMA WorkerStoresIInv == IInv /\ WorkerStores => IInv'
<1> SUFFICES ASSUME IInv, WorkerStores PROVE IInv'
  OBVIOUS
<1> USE DEF IInv, WorkerStores, request
<1>1. row' \in GuardrailRow /\ row'.toxic = worker' /\ row' # None
  BY NoneAssumption DEF GuardrailRow
<1>2. TypeOK'
  BY <1>1 DEF TypeOK
<1> QED
  BY <1>1, <1>2 DEF ResultIff, JudgesInOrder, Stages, Consistent, WorkerRow, FlaggedOnEvidence,
     HighStakesAreDebated, JudgeUnread

(* The steps that leave every stage's findings alone. *)
LEMMA GatewayGivesUpIInv == IInv /\ (GatewayGivesUp \/ UNCHANGED vars) => IInv'
<1> SUFFICES ASSUME IInv, GatewayGivesUp \/ UNCHANGED vars PROVE IInv'
  OBVIOUS
<1>1. UNCHANGED <<request, worker, row, pc, prefilter, nli, light, judges, llm_calls, result, action>>
  BY DEF GatewayGivesUp, vars
<1>2. hallucinated' \in BOOLEAN \cup {None}
  BY Zenon DEF IInv, TypeOK, GatewayGivesUp, vars
<1>3. TypeOK'
  BY <1>1, <1>2 DEF IInv, TypeOK, request
<1> QED
  BY <1>1, <1>3 DEF IInv, request, ResultIff, JudgesInOrder, Consistent, WorkerRow,
     FlaggedOnEvidence, HighStakesAreDebated, JudgeUnread

LEMMA NextIInv == IInv /\ [Next]_vars => IInv'
BY PrefilterIInv, NliEnsembleIInv, LightDebateIInv, JudgeAIInv, JudgeBIInv, RespondIInv,
   WorkerStoresIInv, GatewayGivesUpIInv DEF Next, Stage

(* The inductive invariant holds in every reachable state. *)
THEOREM Invariance == Spec => []IInv
BY InitIInv, NextIInv, PTL DEF Spec

-----------------------------------------------------------------------------
(* The variables of a detection keep their types. *)
THEOREM TypeCorrect == Spec => []TypeOK
<1>1. IInv => TypeOK
  BY DEF IInv
<1> QED
  BY <1>1, Invariance, PTL

(* A response is only reported as a hallucination when a rule, the NLI     *)
(* models or a judge said so: no failure adds up to a verdict.             *)
THEOREM OnEvidence == Spec => []FlaggedOnEvidence
<1>1. IInv => FlaggedOnEvidence
  BY DEF IInv
<1> QED
  BY <1>1, Invariance, PTL

(* In a high-stakes domain both judges are heard on what the rules and the *)
(* NLI models leave open, and one CONTRADICTED is enough; only an answer   *)
(* that is no text at all leaves the detection with the unflagged default. *)
THEOREM Debated == Spec => []HighStakesAreDebated
<1>1. IInv => HighStakesAreDebated
  BY DEF IInv
<1> QED
  BY <1>1, Invariance, PTL

(* The worker's verdict on a trace survives the detector's row. *)
THEOREM WorkerStands == Spec => []WorkerVerdictStands
<1>1. IInv => WorkerVerdictStands
  BY DEF IInv, WorkerRow, WorkerVerdictStands
<1> QED
  BY <1>1, Invariance, PTL

(* Where the default threshold of 0.7 applies, a hallucination is answered *)
(* with a block or a warning.                                              *)
DefaultIsLoud ==
  /\ pc # "done" => action = None
  /\ action # None => action = ActionFor(result, domain)

THEOREM NotOnlyLogged == Spec => []NeverOnlyLoggedByDefault
<1>1. Init => DefaultIsLoud
  BY DEF Init, DefaultIsLoud
<1>2. DefaultIsLoud /\ [Next]_vars => DefaultIsLoud'
  <2> SUFFICES ASSUME DefaultIsLoud, [Next]_vars PROVE DefaultIsLoud'
    OBVIOUS
  <2>1. CASE Prefilter \/ NliEnsemble \/ LightDebate \/ JudgeA \/ JudgeB
    <3>1. pc # "done" /\ UNCHANGED action
      BY <2>1 DEF Prefilter, NliEnsemble, LightDebate, JudgeA, JudgeB
    <3> QED
      BY <3>1 DEF DefaultIsLoud
  <2>2. CASE Respond
    <3>1. UNCHANGED <<result, domain>>
      BY <2>2 DEF Respond, request
    <3>2. CASE Answer
      BY <2>2, <3>1, <3>2 DEF Respond, Answer, DefaultIsLoud
    <3>3. CASE UNCHANGED action
      BY <2>2, <3>1, <3>3 DEF Respond, DefaultIsLoud
    <3> QED
      BY <2>2, <3>2, <3>3 DEF Respond
  <2>3. CASE WorkerStores \/ GatewayGivesUp \/ UNCHANGED vars
    BY <2>3, Zenon DEF DefaultIsLoud, WorkerStores, GatewayGivesUp, vars, request
  <2> QED
    BY <2>1, <2>2, <2>3 DEF Next, Stage
<1>3. IInv /\ DefaultIsLoud => NeverOnlyLoggedByDefault
  <2> SUFFICES ASSUME IInv, DefaultIsLoud, pc = "done", Threshold(domain) = 70,
                      result.is_hallucination, action # None
               PROVE  action \in {"block", "flag_with_warning"}
    BY DEF NeverOnlyLoggedByDefault
  <2>1. result # None /\ result \in CascadeResult
    BY DEF IInv, TypeOK, ResultIff, Stages
  <2>2. result.confidence \in 0..100 /\ result.hallucination_score \in 0..100
    BY <2>1 DEF CascadeResult
  <2>3. result.hallucination_score >= 50 /\ result.confidence >= 50
    BY <2>1 DEF IInv, Consistent
  <2>4. result.hallucination_score # 0 /\ 10 * result.confidence >= 7 * 70
    BY <2>2, <2>3
  <2>5. action = ActionFor(result, domain)
    BY DEF DefaultIsLoud
  <2> QED
    BY <2>4, <2>5 DEF ActionFor
<1> QED
  BY <1>1, <1>2, <1>3, Invariance, PTL DEF Spec

(* A gateway that waits for the answer comes to the detector's verdict,    *)
(* though it compares the score with a threshold of its own; only the      *)
(* default of stages that failed it takes for a hallucination.             *)
THEOREM Agreement == Spec => GatewayAgrees
<1>1. IInv /\ [Next]_vars =>
        [hallucinated = None /\ hallucinated' # None /\ pc' = "done" =>
           hallucinated' = (result.is_hallucination \/ result.resolved_at_stage = 0)]_vars
  <2> SUFFICES ASSUME IInv, Next, hallucinated = None, hallucinated' # None, pc' = "done"
               PROVE  hallucinated' =
                        (result.is_hallucination \/ result.resolved_at_stage = 0)
    OBVIOUS
  <2>1. Respond
    BY DEF Next, Stage, Prefilter, NliEnsemble, LightDebate, JudgeA, JudgeB, WorkerStores,
       GatewayGivesUp
  <2>2. Answer
    BY <2>1 DEF Respond
  <2>3. hallucinated' = GatewayVerdict(result)
    BY <2>2 DEF Answer
  <2>4. result # None /\ result \in CascadeResult
    BY <2>1 DEF IInv, TypeOK, ResultIff, Stages, Respond
  <2>5. result.is_hallucination \in BOOLEAN
    BY <2>4 DEF CascadeResult
  <2>6. result.hallucination_score >= 50 <=>
          (result.is_hallucination \/ result.resolved_at_stage = 0)
    BY <2>4 DEF IInv, Consistent
  <2>7. (result.hallucination_score >= 50) \in BOOLEAN
    OBVIOUS
  <2> QED
    BY <2>3, <2>5, <2>6, <2>7, Zenon DEF GatewayVerdict
<1> QED
  BY <1>1, Invariance, PTL DEF Spec, GatewayAgrees

-----------------------------------------------------------------------------
(* The worker. *)
(* an entry stands in one batch, at one place *)
HeldOnce ==
  \A v, w \in Workers : \A i \in DOMAIN batch[v], j \in DOMAIN batch[w] :
    batch[v][i] = batch[w][j] => v = w /\ i = j

ResultsAreDelivered ==
  \A k \in DOMAIN results : results[k].entry \in 1..last_delivered

(* the entries of w at which the calls up to the labels in S are still to come *)
ToCome(w, S) == {i \in DOMAIN batch[w] : i > 1 \/ step[w] \in S}

NotYetPublished ==
  \A w \in Workers : \A i \in ToCome(w, {"publish"}) :
    \A k \in DOMAIN results : results[k].entry # batch[w][i]

NotYetDead ==
  \A w \in Workers : \A i \in ToCome(w, {"publish", "store", "ack", "dlq"}) :
    \A k \in DOMAIN dead_letters : dead_letters[k] # batch[w][i]

PublishedBeforeStored ==
  \A w \in Workers : step[w] = "store" =>
    verdict[w] \in BOOLEAN /\ \E k \in DOMAIN results : results[k] = ResultOf(w, verdict[w])

StoredWhileAcked == \A w \in Workers : step[w] = "ack" => Current(w) \in stored
DeadWhileAcked == \A w \in Workers : step[w] = "dlq_ack" => InDeadLetters(Current(w))

(* ">" gives what nobody was given, and what is given is pending *)
StillPending ==
  \A w \in Workers : \A i \in ToCome(w, {"publish", "store"}) : batch[w][i] \in pending

FailedAckIsStored ==
  \A w \in Workers : step[w] = "dlq" => Current(w) \in pending \/ Current(w) \in stored

WorkerInv ==
  /\ WorkerTypeOK
  /\ HeldOnce
  /\ ResultsAreDelivered
  /\ NotYetPublished /\ NotYetDead
  /\ PublishedBeforeStored /\ StoredWhileAcked /\ DeadWhileAcked
  /\ StillPending /\ FailedAckIsStored
  /\ AcknowledgedIsKept
  /\ HandledOnce
-----------------------------------------------------------------------------
LEMMA WorkerInitInv == WorkerInit => WorkerInv
<1> SUFFICES ASSUME WorkerInit PROVE WorkerInv
  OBVIOUS
<1> USE BoundsAssumption DEF WorkerInit
<1>1. WorkerTypeOK
  BY DEF WorkerTypeOK
<1>2. HeldOnce /\ ResultsAreDelivered /\ NotYetPublished /\ NotYetDead /\ StillPending
  BY DEF HeldOnce, ResultsAreDelivered, NotYetPublished, NotYetDead, StillPending, ToCome
<1>3. PublishedBeforeStored /\ StoredWhileAcked /\ DeadWhileAcked /\ FailedAckIsStored
  BY DEF PublishedBeforeStored, StoredWhileAcked, DeadWhileAcked, FailedAckIsStored
<1>4. AcknowledgedIsKept /\ HandledOnce
  BY DEF AcknowledgedIsKept, HandledOnce
<1> QED
  BY <1>1, <1>2, <1>3, <1>4 DEF WorkerInv

(* Appending keeps every element where it is and adds one. *)
LEMMA Appended ==
  ASSUME NEW S, NEW s \in Seq(S), NEW e \in S
  PROVE  /\ Append(s, e) \in Seq(S)
         /\ Len(s) + 1 \in DOMAIN Append(s, e) /\ Append(s, e)[Len(s) + 1] = e
         /\ \A i \in DOMAIN s : i \in DOMAIN Append(s, e) /\ Append(s, e)[i] = s[i]
         /\ \A i \in DOMAIN Append(s, e) : i \in DOMAIN s \/ i = Len(s) + 1
<1>1. DOMAIN s = 1..Len(s) /\ Len(s) \in Nat
  BY LenProperties
<1>2. DOMAIN Append(s, e) = 1..(Len(s) + 1)
  BY AppendProperties, LenProperties
<1> QED
  BY <1>1, <1>2, AppendProperties

(* What a worker holds was delivered. *)
LEMMA HeldIsDelivered ==
  ASSUME WorkerTypeOK, NEW w \in Workers
  PROVE  /\ DOMAIN batch[w] = 1..Len(batch[w]) /\ Len(batch[w]) \in Nat
         /\ \A i \in DOMAIN batch[w] : batch[w][i] \in 1..last_delivered
<1>1. batch[w] \in Seq(1..last_delivered)
  BY DEF WorkerTypeOK
<1> QED
  BY <1>1, LenProperties, ElementOfSeq

(* The entry a worker is at is the first of its batch. *)
LEMMA CurrentIsFirst ==
  ASSUME WorkerTypeOK, NEW w \in Workers, step[w] \notin {"down", "read"}
  PROVE  /\ batch[w] \in Seq(1..last_delivered) /\ batch[w] # <<>>
         /\ 1 \in DOMAIN batch[w] /\ Current(w) = batch[w][1]
         /\ Current(w) \in 1..last_delivered /\ Current(w) \in 1..MaxEntries
<1>1. batch[w] \in Seq(1..last_delivered) /\ batch[w] # <<>>
  BY DEF WorkerTypeOK
<1>2. Len(batch[w]) \in Nat /\ Len(batch[w]) # 0 /\ DOMAIN batch[w] = 1..Len(batch[w])
  BY <1>1, LenProperties, EmptySeq
<1>3. last_delivered \in 0..MaxEntries
  BY BoundsAssumption DEF WorkerTypeOK
<1>4. Current(w) = batch[w][1] /\ Current(w) \in 1..last_delivered
  <2>1. 1 \in 1..Len(batch[w])
    BY <1>2
  <2>2. batch[w][1] \in 1..last_delivered
    BY <1>1, <2>1, ElementOfSeq
  <2> QED
    BY <1>1, <2>2 DEF Current
<1> QED
  BY <1>1, <1>2, <1>3, <1>4, BoundsAssumption

-----------------------------------------------------------------------------
(* A read hands out the entries behind last_delivered, which nobody holds  *)
(* and nothing mentions.                                                   *)
LEMMA ReadStep ==
  ASSUME WorkerInv, NEW w \in Workers, Read(w)
  PROVE  WorkerInv'
<1>0. WorkerTypeOK
  BY DEF WorkerInv
<1> DEFINE n == IF Len(stream) - last_delivered < Count THEN Len(stream) - last_delivered ELSE Count
           read == [i \in 1..n |-> last_delivered + i]
<1>1. /\ last_delivered \in Nat /\ Len(stream) \in Nat /\ n \in Nat \ {0}
      /\ last_delivered + n <= Len(stream)
  BY <1>0, CountAssumption DEF Read, WorkerTypeOK
<1>2. /\ step' = [step EXCEPT ![w] = "publish"]
      /\ batch' = [batch EXCEPT ![w] = read]
      /\ pending' = pending \cup (last_delivered + 1)..(last_delivered + n)
      /\ last_delivered' = last_delivered + n
      /\ UNCHANGED <<stream, results, dead_letters, trace_row, stored, verdict, faults>>
  BY DEF Read, database
<1> HIDE DEF n
<1>3. read \in Seq(1..(last_delivered + n)) /\ Len(read) = n /\ DOMAIN read = 1..n /\ read # <<>>
  BY <1>1
<1>4. \A v \in Workers : batch'[v] = IF v = w THEN read ELSE batch[v]
  BY <1>0, <1>2 DEF WorkerTypeOK
<1>5. \A v \in Workers : step'[v] = IF v = w THEN "publish" ELSE step[v]
  BY <1>0, <1>2 DEF WorkerTypeOK
<1>6. \A v \in Workers : batch[v] \in Seq(1..last_delivered)
  BY <1>0 DEF WorkerTypeOK
<1>7. 1..last_delivered \subseteq 1..(last_delivered + n)
  BY <1>1
<1>8. WorkerTypeOK'
  <2>1. batch' \in [Workers -> Seq(1..last_delivered')]
    <3>1. \A v \in Workers : batch'[v] \in Seq(1..(last_delivered + n))
      BY <1>3, <1>4, <1>6, <1>7, SeqMonotonic
    <3> QED
      BY <3>1, <1>0, <1>2 DEF WorkerTypeOK
  <2>2. \A v \in Workers : batch'[v] = <<>> <=> step'[v] \in {"down", "read"}
    BY <1>0, <1>3, <1>4, <1>5 DEF WorkerTypeOK
  <2>3. dead_letters' \in Seq(1..last_delivered')
    BY <1>0, <1>2, <1>7, SeqMonotonic DEF WorkerTypeOK
  <2>4. pending' \subseteq 1..last_delivered' /\ stored' \subseteq 1..last_delivered'
    BY <1>0, <1>1, <1>2 DEF WorkerTypeOK
  <2>5. last_delivered' \in 0..Len(stream')
    BY <1>1, <1>2
  <2>6. step' \in [Workers -> {"down", "read", "publish", "store", "ack", "dlq", "dlq_ack"}]
    BY <1>0, <1>2 DEF WorkerTypeOK
  <2> QED
    BY <1>0, <1>2, <2>1, <2>2, <2>3, <2>4, <2>5, <2>6 DEF WorkerTypeOK
<1>9. HeldOnce'
  <2>1. \A v \in Workers : \A i \in DOMAIN batch[v] : batch[v][i] \in 1..last_delivered
    BY <1>0, HeldIsDelivered
  <2>2. \A i \in DOMAIN read : read[i] = last_delivered + i /\ read[i] \notin 1..last_delivered
    BY <1>1, <1>3
  <2>3. \A i, j \in DOMAIN read : read[i] = read[j] => i = j
    BY <1>1, <1>3
  <2> HIDE DEF read
  <2> SUFFICES ASSUME NEW u \in Workers, NEW v \in Workers,
                      NEW i \in DOMAIN batch'[u], NEW j \in DOMAIN batch'[v],
                      batch'[u][i] = batch'[v][j]
               PROVE  u = v /\ i = j
    BY DEF HeldOnce
  <2> QED
    BY <1>4, <2>1, <2>2, <2>3 DEF WorkerInv, HeldOnce
<1> HIDE DEF read
<1>10. ResultsAreDelivered'
  BY <1>1, <1>2 DEF WorkerInv, ResultsAreDelivered, WorkerTypeOK
<1>11. \A v \in Workers : \A S, i : v # w /\ i \in ToCome(v, S)' => i \in ToCome(v, S)
  BY <1>4, <1>5 DEF ToCome
<1>12. \A i \in DOMAIN read : read[i] \notin 1..last_delivered /\ read[i] \in pending'
  BY <1>1, <1>2, <1>3 DEF read
<1>13. \A S, i : i \in ToCome(w, S)' => i \in DOMAIN read
  BY <1>4 DEF ToCome
<1>14. NotYetPublished'
  BY <1>2, <1>4, <1>11, <1>12, <1>13 DEF WorkerInv, NotYetPublished, ResultsAreDelivered
<1>15. \A k \in DOMAIN dead_letters : dead_letters[k] \in 1..last_delivered
  BY <1>0, LenProperties, ElementOfSeq DEF WorkerTypeOK
<1>16. NotYetDead'
  BY <1>2, <1>4, <1>11, <1>12, <1>13, <1>15 DEF WorkerInv, NotYetDead
<1>17. StillPending'
  BY <1>2, <1>4, <1>11, <1>12, <1>13 DEF WorkerInv, StillPending
<1>18. \A v \in Workers : step[v] \notin {"down", "read"} /\ v # w => Current(v)' = Current(v)
  BY <1>4 DEF Current
<1>19. PublishedBeforeStored' /\ StoredWhileAcked' /\ DeadWhileAcked' /\ FailedAckIsStored'
  BY <1>2, <1>5, <1>18
  DEF WorkerInv, PublishedBeforeStored, StoredWhileAcked, DeadWhileAcked, FailedAckIsStored,
      ResultOf, InDeadLetters
<1>20. AcknowledgedIsKept' /\ HandledOnce'
  BY <1>0, <1>1, <1>2 DEF WorkerInv, WorkerTypeOK, AcknowledgedIsKept, HandledOnce, InDeadLetters
<1> QED
  BY <1>8, <1>9, <1>10, <1>14, <1>16, <1>17, <1>19, <1>20 DEF WorkerInv
-----------------------------------------------------------------------------
(* Whenever a worker ends, what it was at is either pending or done with:  *)
(* only the calls of the dead-letter branch may have taken effect.         *)
LEMMA DownStep ==
  ASSUME WorkerInv, NEW w \in Workers, Down(w),
         UNCHANGED <<stream, last_delivered, results, trace_row, stored>>,
         faults' \in 0..MaxFaults,
         \/ dead_letters' = dead_letters
         \/ step[w] = "dlq" /\ dead_letters' = Append(dead_letters, Current(w)),
         \/ pending' = pending
         \/ step[w] = "dlq_ack" /\ pending' = pending \ {Current(w)}
  PROVE  WorkerInv'
<1>0. WorkerTypeOK
  BY DEF WorkerInv
<1>1. /\ \A v \in Workers : batch'[v] = IF v = w THEN <<>> ELSE batch[v]
      /\ \A v \in Workers : step'[v] = IF v = w THEN "down" ELSE step[v]
      /\ \A v \in Workers : v # w => verdict'[v] = verdict[v]
  BY <1>0 DEF Down, WorkerTypeOK
<1>2. /\ dead_letters' \in Seq(1..last_delivered)
      /\ \A e : InDeadLetters(e) => InDeadLetters(e)'
      /\ \A k \in DOMAIN dead_letters' : dead_letters'[k] = Current(w) \/ InDeadLetters(dead_letters'[k])
      /\ \A i, j \in DOMAIN dead_letters' : dead_letters'[i] = dead_letters'[j] => i = j
  <2>1. CASE dead_letters' = dead_letters
    BY <1>0, <2>1 DEF WorkerTypeOK, InDeadLetters, WorkerInv, HandledOnce
  <2>2. CASE step[w] = "dlq" /\ dead_letters' = Append(dead_letters, Current(w))
    <3>1. Current(w) \in 1..last_delivered /\ 1 \in DOMAIN batch[w] /\ Current(w) = batch[w][1]
      BY <1>0, <2>2, CurrentIsFirst
    <3>2. \A k \in DOMAIN dead_letters : dead_letters[k] # Current(w)
      BY <2>2, <3>1 DEF WorkerInv, NotYetDead, ToCome
    <3>3. /\ dead_letters' \in Seq(1..last_delivered)
          /\ \A k \in DOMAIN dead_letters : k \in DOMAIN dead_letters' /\ dead_letters'[k] = dead_letters[k]
          /\ dead_letters'[Len(dead_letters) + 1] = Current(w)
          /\ \A k \in DOMAIN dead_letters' : k \in DOMAIN dead_letters \/ k = Len(dead_letters) + 1
      BY <1>0, <2>2, <3>1, Appended DEF WorkerTypeOK
    <3> QED
      BY <3>2, <3>3 DEF InDeadLetters, WorkerInv, HandledOnce
  <2> QED
    BY <2>1, <2>2
<1>3. WorkerTypeOK'
  <2>1. batch' \in [Workers -> Seq(1..last_delivered)]
    BY <1>0 DEF Down, WorkerTypeOK
  <2>2. step' \in [Workers -> {"down", "read", "publish", "store", "ack", "dlq", "dlq_ack"}]
    BY <1>0 DEF Down, WorkerTypeOK
  <2>3. verdict' \in [Workers -> BOOLEAN \cup {None}]
    BY <1>0 DEF Down, WorkerTypeOK
  <2>4. \A v \in Workers : batch'[v] = <<>> <=> step'[v] \in {"down", "read"}
    BY <1>0, <1>1 DEF WorkerTypeOK
  <2>5. pending' \subseteq 1..last_delivered
    BY <1>0 DEF WorkerTypeOK
  <2> QED
    BY <1>0, <1>2, <2>1, <2>2, <2>3, <2>4, <2>5 DEF WorkerTypeOK
<1>4. \A S, i : i \notin ToCome(w, S)'
  BY <1>1 DEF ToCome
<1>5. \A v \in Workers : v # w =>
        batch'[v] = batch[v] /\ \A S, i : i \in ToCome(v, S)' => i \in ToCome(v, S)
  BY <1>1 DEF ToCome
<1>6. HeldOnce' /\ ResultsAreDelivered' /\ NotYetPublished'
  BY <1>1, <1>4, <1>5 DEF WorkerInv, HeldOnce, ResultsAreDelivered, NotYetPublished
(* no other worker holds what w was at *)
<1>7. step[w] \in {"dlq", "dlq_ack"} =>
        \A v \in Workers : v # w => \A i \in DOMAIN batch[v] : batch[v][i] # Current(w)
  BY <1>0, CurrentIsFirst DEF WorkerInv, HeldOnce
<1>8. NotYetDead'
  <2> SUFFICES ASSUME NEW v \in Workers, v # w,
                      NEW i \in ToCome(v, {"publish", "store", "ack", "dlq"}),
                      NEW k \in DOMAIN dead_letters'
               PROVE  dead_letters'[k] # batch[v][i]
    BY <1>4, <1>5 DEF NotYetDead
  <2>1. i \in DOMAIN batch[v] /\ ~InDeadLetters(batch[v][i])
    BY DEF WorkerInv, NotYetDead, ToCome, InDeadLetters
  <2>2. CASE dead_letters' = dead_letters
    BY <2>1, <2>2 DEF InDeadLetters
  <2>3. CASE step[w] = "dlq"
    BY <1>2, <1>7, <2>1, <2>3
  <2> QED
    BY <2>2, <2>3
<1>9. StillPending'
  <2> SUFFICES ASSUME NEW v \in Workers, v # w, NEW i \in ToCome(v, {"publish", "store"})
               PROVE  batch[v][i] \in pending'
    BY <1>4, <1>5 DEF StillPending
  <2>1. i \in DOMAIN batch[v] /\ batch[v][i] \in pending
    BY DEF WorkerInv, StillPending, ToCome
  <2> QED
    BY <1>7, <2>1
<1>10. FailedAckIsStored'
  <2> SUFFICES ASSUME NEW v \in Workers, v # w, step[v] = "dlq"
               PROVE  Current(v) \in pending' \/ Current(v) \in stored
    BY <1>1 DEF FailedAckIsStored, Current
  <2>1. 1 \in DOMAIN batch[v] /\ Current(v) = batch[v][1]
    BY <1>0, CurrentIsFirst
  <2> QED
    BY <1>7, <2>1 DEF WorkerInv, FailedAckIsStored
<1>11. PublishedBeforeStored' /\ StoredWhileAcked' /\ DeadWhileAcked'
  BY <1>1, <1>2
  DEF WorkerInv, PublishedBeforeStored, StoredWhileAcked, DeadWhileAcked, ResultOf, Current
<1>12. AcknowledgedIsKept' /\ HandledOnce'
  BY <1>2 DEF WorkerInv, AcknowledgedIsKept, DeadWhileAcked, HandledOnce
<1> QED
  BY <1>3, <1>6, <1>8, <1>9, <1>10, <1>11, <1>12 DEF WorkerInv

-----------------------------------------------------------------------------
(* Whenever a worker goes on, what it acknowledged is stored or dead.      *)
LEMMA NextEntryStep ==
  ASSUME WorkerInv, NEW w \in Workers, NextEntry(w), step[w] \in {"ack", "dlq_ack"},
         pending' = pending \ {Current(w)},
         UNCHANGED <<stream, last_delivered, results, dead_letters, trace_row, stored, verdict, faults>>
  PROVE  WorkerInv'
<1>0. WorkerTypeOK
  BY DEF WorkerInv
<1>1. /\ batch[w] \in Seq(1..last_delivered) /\ batch[w] # <<>>
      /\ 1 \in DOMAIN batch[w] /\ Current(w) = batch[w][1]
      /\ Len(batch[w]) \in Nat /\ DOMAIN batch[w] = 1..Len(batch[w])
  BY <1>0, CurrentIsFirst, HeldIsDelivered
<1> DEFINE rest == Tail(batch[w])
<1>2. /\ rest \in Seq(1..last_delivered)
      /\ Len(rest) = Len(batch[w]) - 1 /\ DOMAIN rest = 1..Len(rest)
      /\ \A i \in DOMAIN rest : i + 1 \in DOMAIN batch[w] /\ i + 1 > 1 /\ rest[i] = batch[w][i + 1]
      /\ rest = <<>> <=> Len(batch[w]) = 1
  <2>1. rest \in Seq(1..last_delivered) /\ Len(rest) = Len(batch[w]) - 1
    BY <1>1, HeadTailProperties
  <2>2. DOMAIN rest = 1..Len(rest)
    BY <2>1, LenProperties
  <2>3. \A i \in DOMAIN rest : rest[i] = batch[w][i + 1]
    BY <1>1, <2>1, <2>2, HeadTailProperties
  <2>4. rest = <<>> <=> Len(batch[w]) = 1
    <3> HIDE DEF rest
    <3>1. rest # <<>> => Len(rest) \in Nat \ {0}
      BY <2>1, EmptySeq
    <3>2. rest = <<>> => Len(rest) = 0
      BY EmptySeq, Zenon
    <3> QED
      BY <1>1, <2>1, <3>1, <3>2
  <2> QED
    BY <1>1, <2>1, <2>2, <2>3, <2>4
<1>3. /\ \A v \in Workers : batch'[v] = IF v = w THEN rest ELSE batch[v]
      /\ \A v \in Workers : step'[v] =
           IF v = w THEN IF Len(batch[w]) = 1 THEN "read" ELSE "publish" ELSE step[v]
  BY <1>0 DEF NextEntry, WorkerTypeOK
<1> HIDE DEF rest
<1>4. WorkerTypeOK'
  <2>1. batch' \in [Workers -> Seq(1..last_delivered)]
    BY <1>0, <1>2, <1>3 DEF NextEntry, WorkerTypeOK
  <2>2. step' \in [Workers -> {"down", "read", "publish", "store", "ack", "dlq", "dlq_ack"}]
    BY <1>0 DEF NextEntry, WorkerTypeOK
  <2>3. \A v \in Workers : batch'[v] = <<>> <=> step'[v] \in {"down", "read"}
    BY <1>0, <1>2, <1>3 DEF WorkerTypeOK
  <2>4. pending' \subseteq 1..last_delivered
    BY <1>0 DEF WorkerTypeOK
  <2> QED
    BY <1>0, <2>1, <2>2, <2>3, <2>4 DEF WorkerTypeOK
(* what comes now came later before, for every worker *)
<1>5. \A v \in Workers : \A i \in DOMAIN batch'[v] :
        \E j \in DOMAIN batch[v] :
          /\ batch'[v][i] = batch[v][j]
          /\ j = IF v = w THEN i + 1 ELSE i
          /\ \A S : i \in ToCome(v, S)' => j \in ToCome(v, S)
  BY <1>2, <1>3 DEF ToCome
<1>6. \A v \in Workers : \A i \in DOMAIN batch'[v] : batch'[v][i] # Current(w)
  <2> SUFFICES ASSUME NEW v \in Workers, NEW i \in DOMAIN batch'[v]
               PROVE  batch'[v][i] # Current(w)
    OBVIOUS
  <2>1. PICK j \in DOMAIN batch[v] : batch'[v][i] = batch[v][j] /\ j = IF v = w THEN i + 1 ELSE i
    BY <1>5
  <2>2. v = w => j # 1
    BY <1>2, <1>3, <2>1
  <2> QED
    BY <1>1, <2>1, <2>2 DEF WorkerInv, HeldOnce
<1>7. HeldOnce'
  <2> SUFFICES ASSUME NEW u \in Workers, NEW v \in Workers,
                      NEW i \in DOMAIN batch'[u], NEW j \in DOMAIN batch'[v],
                      batch'[u][i] = batch'[v][j]
               PROVE  u = v /\ i = j
    BY DEF HeldOnce
  <2>1. PICK k \in DOMAIN batch[u] : batch'[u][i] = batch[u][k] /\ k = IF u = w THEN i + 1 ELSE i
    BY <1>5
  <2>2. PICK l \in DOMAIN batch[v] : batch'[v][j] = batch[v][l] /\ l = IF v = w THEN j + 1 ELSE j
    BY <1>5
  <2>3. batch[u][k] = batch[v][l]
    BY <2>1, <2>2
  <2>4. u = v /\ k = l
    BY <2>3 DEF WorkerInv, HeldOnce
  <2>5. i \in Nat /\ j \in Nat
    <3>1. ASSUME NEW x \in Workers, NEW n \in DOMAIN batch'[x] PROVE n \in Nat
      <4>1. batch'[x] \in Seq(1..last_delivered')
        BY <1>4 DEF WorkerTypeOK
      <4> QED
        BY <4>1, LenProperties
    <3> QED
      BY <3>1
  <2> QED
    BY <2>1, <2>2, <2>4, <2>5
<1>8. \A v \in Workers : \A S, i : i \in ToCome(v, S)' => i \in DOMAIN batch'[v]
  BY DEF ToCome
<1>9. NotYetPublished' /\ NotYetDead'
  BY <1>5, <1>8 DEF WorkerInv, NotYetPublished, NotYetDead
<1>10. StillPending'
  BY <1>5, <1>6, <1>8 DEF WorkerInv, StillPending
<1>11. \A v \in Workers : v # w => Current(v)' = Current(v)
  BY <1>3 DEF Current
<1>12. FailedAckIsStored'
  <2> SUFFICES ASSUME NEW v \in Workers, v # w, step[v] = "dlq"
               PROVE  Current(v) \in pending' \/ Current(v) \in stored
    BY <1>3, <1>11 DEF FailedAckIsStored
  <2>1. Current(v) # Current(w)
    BY <1>0, <1>1, CurrentIsFirst DEF WorkerInv, HeldOnce
  <2> QED
    BY <2>1 DEF WorkerInv, FailedAckIsStored
<1>13. PublishedBeforeStored' /\ StoredWhileAcked' /\ DeadWhileAcked'
  BY <1>3, <1>11
  DEF WorkerInv, PublishedBeforeStored, StoredWhileAcked, DeadWhileAcked, ResultOf, InDeadLetters
<1>14. ResultsAreDelivered' /\ HandledOnce'
  BY DEF WorkerInv, ResultsAreDelivered, HandledOnce
<1>15. AcknowledgedIsKept'
  BY DEF WorkerInv, AcknowledgedIsKept, StoredWhileAcked, DeadWhileAcked, InDeadLetters
<1> QED
  BY <1>4, <1>7, <1>9, <1>10, <1>12, <1>13, <1>14, <1>15 DEF WorkerInv

-----------------------------------------------------------------------------
(* What a worker that stays at its entry leaves as it is. *)
LEMMA GotoFacts ==
  ASSUME WorkerTypeOK, NEW w \in Workers, NEW label, Goto(w, label),
         step[w] \notin {"down", "read"},
         label \in {"publish", "store", "ack", "dlq", "dlq_ack"},
         UNCHANGED last_delivered
  PROVE  /\ step' \in [Workers -> {"down", "read", "publish", "store", "ack", "dlq", "dlq_ack"}]
         /\ batch' \in [Workers -> Seq(1..last_delivered')]
         /\ \A v \in Workers : batch'[v] = <<>> <=> step'[v] \in {"down", "read"}
         /\ batch' = batch
         /\ \A v \in Workers : Current(v)' = Current(v)
         /\ \A v \in Workers : step'[v] = IF v = w THEN label ELSE step[v]
<1>1. batch' = batch /\ step' = [step EXCEPT ![w] = label]
  BY DEF Goto
<1>2. \A v \in Workers : step'[v] = IF v = w THEN label ELSE step[v]
  BY <1>1 DEF WorkerTypeOK
<1>3. \A v \in Workers : batch'[v] = <<>> <=> step'[v] \in {"down", "read"}
  BY <1>1, <1>2 DEF WorkerTypeOK
<1> QED
  BY <1>1, <1>2, <1>3 DEF WorkerTypeOK, Current

(* A worker publishes an entry when nothing was published for it. *)
LEMMA PublishStep ==
  ASSUME WorkerInv, NEW w \in Workers, Publish(w)
  PROVE  WorkerInv'
<1>0. WorkerTypeOK
  BY DEF WorkerInv
<1>1. PICK toxic \in BOOLEAN :
        /\ verdict' = [verdict EXCEPT ![w] = toxic]
        /\ \/ /\ results' = Append(results, ResultOf(w, toxic))
              /\ Goto(w, "store") /\ UNCHANGED faults
           \/ /\ results' \in {results, Append(results, ResultOf(w, toxic))}
              /\ Goto(w, "dlq") /\ Fault
  BY DEF Publish
<1>2. PICK label \in {"store", "dlq"} :
        /\ Goto(w, label)
        /\ label = "store" => results' = Append(results, ResultOf(w, toxic))
        /\ results' \in {results, Append(results, ResultOf(w, toxic))}
  BY <1>1
<1>3. step[w] = "publish" /\ UNCHANGED <<stream, last_delivered, pending, dead_letters, trace_row, stored>>
  BY DEF Publish, database
<1>4. /\ 1 \in DOMAIN batch[w] /\ Current(w) = batch[w][1]
      /\ Current(w) \in 1..last_delivered /\ Current(w) \in 1..MaxEntries
  BY <1>0, <1>3, CurrentIsFirst
<1>5. /\ step' \in [Workers -> {"down", "read", "publish", "store", "ack", "dlq", "dlq_ack"}]
      /\ batch' \in [Workers -> Seq(1..last_delivered')]
      /\ \A v \in Workers : batch'[v] = <<>> <=> step'[v] \in {"down", "read"}
      /\ batch' = batch
      /\ \A v \in Workers : Current(v)' = Current(v)
      /\ \A v \in Workers : step'[v] = IF v = w THEN label ELSE step[v]
  BY <1>0, <1>2, <1>3, GotoFacts
<1>6. /\ results' \in Seq(Verdict)
      /\ \A k \in DOMAIN results : k \in DOMAIN results' /\ results'[k] = results[k]
      /\ \A k \in DOMAIN results' : k \in DOMAIN results \/ (k = Len(results) + 1 /\ results'[k] = ResultOf(w, toxic))
      /\ label = "store" => \E k \in DOMAIN results' : results'[k] = ResultOf(w, toxic)
  <2>1. ResultOf(w, toxic) \in Verdict /\ results \in Seq(Verdict)
    BY <1>0, <1>4 DEF ResultOf, Verdict, WorkerTypeOK
  <2>2. CASE results' = results
    <3>1. results # Append(results, ResultOf(w, toxic))
      BY <2>1, AppendProperties, LenProperties
    <3> QED
      BY <1>2, <2>1, <2>2, <3>1
  <2>3. CASE results' = Append(results, ResultOf(w, toxic))
    BY <2>1, <2>3, Appended
  <2> QED
    BY <1>2, <2>2, <2>3
<1>7. WorkerTypeOK'
  <2>1. faults' \in 0..MaxFaults
    BY <1>0, <1>1, BoundsAssumption DEF Fault, WorkerTypeOK
  <2>2. verdict' \in [Workers -> BOOLEAN \cup {None}]
    BY <1>0, <1>1 DEF WorkerTypeOK
  <2> QED
    BY <1>0, <1>3, <1>5, <1>6, <2>1, <2>2 DEF WorkerTypeOK
<1>8. HeldOnce' /\ ResultsAreDelivered'
  <2>1. ResultOf(w, toxic).entry \in 1..last_delivered
    BY <1>4 DEF ResultOf
  <2> QED
    BY <1>3, <1>5, <1>6, <2>1 DEF WorkerInv, HeldOnce, ResultsAreDelivered
<1>9. \A v \in Workers : \A i : i \in ToCome(v, {"publish"})' =>
        i \in ToCome(v, {"publish"}) /\ i \in DOMAIN batch[v] /\ ~(v = w /\ i = 1)
  BY <1>2, <1>5 DEF ToCome
<1>10. NotYetPublished'
  <2> SUFFICES ASSUME NEW v \in Workers, NEW i \in ToCome(v, {"publish"})',
                      NEW k \in DOMAIN results'
               PROVE  results'[k].entry # batch'[v][i]
    BY DEF NotYetPublished
  <2>1. i \in ToCome(v, {"publish"}) /\ i \in DOMAIN batch[v] /\ ~(v = w /\ i = 1)
    BY <1>9
  <2>2. batch[v][i] # Current(w)
    BY <1>4, <2>1 DEF WorkerInv, HeldOnce
  <2>3. CASE k \in DOMAIN results
    BY <1>5, <1>6, <2>1, <2>3 DEF WorkerInv, NotYetPublished
  <2>4. CASE results'[k] = ResultOf(w, toxic)
    BY <1>5, <2>2, <2>4 DEF ResultOf
  <2> QED
    BY <1>6, <2>3, <2>4
<1>11. NotYetDead'
  <2>1. \A v \in Workers : \A i : i \in ToCome(v, {"publish", "store", "ack", "dlq"})' =>
          i \in ToCome(v, {"publish", "store", "ack", "dlq"})
    BY <1>3, <1>5 DEF ToCome
  <2> QED
    BY <1>3, <1>5, <2>1 DEF WorkerInv, NotYetDead
<1>12. StillPending' /\ FailedAckIsStored'
  <2>1. \A v \in Workers : \A i : i \in ToCome(v, {"publish", "store"})' =>
          i \in ToCome(v, {"publish", "store"})
    BY <1>3, <1>5 DEF ToCome
  <2>2. Current(w) \in pending
    BY <1>3, <1>4 DEF WorkerInv, StillPending, ToCome
  <2> QED
    BY <1>3, <1>5, <2>1, <2>2 DEF WorkerInv, StillPending, FailedAckIsStored
<1>13. PublishedBeforeStored'
  <2> SUFFICES ASSUME NEW v \in Workers, step'[v] = "store"
               PROVE  verdict'[v] \in BOOLEAN
                        /\ \E k \in DOMAIN results' : results'[k] = ResultOf(v, verdict[v])'
    BY DEF PublishedBeforeStored
  <2>1. verdict'[v] = IF v = w THEN toxic ELSE verdict[v]
    BY <1>0, <1>1 DEF WorkerTypeOK
  <2>2. Current(v)' = Current(v)
    BY <1>5
  <2>3. ResultOf(v, verdict[v])' = ResultOf(v, verdict'[v])
    BY <2>2, Zenon DEF ResultOf
  <2>4. CASE v = w
    BY <1>2, <1>5, <1>6, <2>1, <2>3, <2>4
  <2>5. CASE v # w
    <3>1. verdict[v] \in BOOLEAN /\ \E k \in DOMAIN results : results[k] = ResultOf(v, verdict[v])
      BY <1>5, <2>5 DEF WorkerInv, PublishedBeforeStored
    <3> QED
      BY <1>6, <2>1, <2>3, <2>5, <3>1
  <2> QED
    BY <2>4, <2>5
<1>14. StoredWhileAcked' /\ DeadWhileAcked' /\ AcknowledgedIsKept'
  <2>1. StoredWhileAcked'
    BY <1>2, <1>3, <1>5 DEF WorkerInv, StoredWhileAcked
  <2>2. \A e : InDeadLetters(e)' <=> InDeadLetters(e)
    BY <1>3 DEF InDeadLetters
  <2>3. DeadWhileAcked'
    BY <1>2, <1>5, <2>2 DEF WorkerInv, DeadWhileAcked
  <2>4. AcknowledgedIsKept'
    BY <1>3, <2>2 DEF WorkerInv, AcknowledgedIsKept
  <2> QED
    BY <2>1, <2>3, <2>4
<1>15. HandledOnce'
  <2>1. \A k \in DOMAIN results : results[k].entry # Current(w)
    BY <1>3, <1>4 DEF WorkerInv, NotYetPublished, ToCome
  <2>2. \A i, j \in DOMAIN results' : results'[i].entry = results'[j].entry => i = j
    BY <1>6, <2>1 DEF WorkerInv, HandledOnce, ResultOf
  <2> QED
    BY <1>3, <1>6, <2>2 DEF WorkerInv, HandledOnce
<1> QED
  BY <1>7, <1>8, <1>10, <1>11, <1>12, <1>13, <1>14, <1>15 DEF WorkerInv

-----------------------------------------------------------------------------
(* A worker turns to the dead letters with its entry pending or stored. *)
LEMMA GiveUpStep ==
  ASSUME WorkerInv, NEW w \in Workers, Goto(w, "dlq"), step[w] \in {"publish", "store", "ack"},
         \/ pending' = pending
         \/ step[w] = "ack" /\ pending' = pending \ {Current(w)},
         UNCHANGED <<stream, last_delivered, results, dead_letters, trace_row, stored, verdict>>,
         faults' \in 0..MaxFaults
  PROVE  WorkerInv'
<1>0. WorkerTypeOK
  BY DEF WorkerInv
<1>1. 1 \in DOMAIN batch[w] /\ Current(w) = batch[w][1]
  BY <1>0, CurrentIsFirst
<1>2. /\ step' \in [Workers -> {"down", "read", "publish", "store", "ack", "dlq", "dlq_ack"}]
      /\ batch' \in [Workers -> Seq(1..last_delivered')]
      /\ \A v \in Workers : batch'[v] = <<>> <=> step'[v] \in {"down", "read"}
      /\ batch' = batch
      /\ \A v \in Workers : Current(v)' = Current(v)
      /\ \A v \in Workers : step'[v] = IF v = w THEN "dlq" ELSE step[v]
  BY <1>0, GotoFacts
<1>3. WorkerTypeOK'
  <2>1. pending' \subseteq 1..last_delivered
    BY <1>0 DEF WorkerTypeOK
  <2> QED
    BY <1>0, <1>2, <2>1 DEF WorkerTypeOK
<1>4. \A v \in Workers : \A i :
        /\ i \in ToCome(v, {"publish"})' => i \in ToCome(v, {"publish"})
        /\ i \in ToCome(v, {"publish", "store"})' =>
             /\ i \in ToCome(v, {"publish", "store"})
             /\ i \in DOMAIN batch[v]
             /\ ~(v = w /\ i = 1)
        /\ i \in ToCome(v, {"publish", "store", "ack", "dlq"})' =>
             i \in ToCome(v, {"publish", "store", "ack", "dlq"})
  BY <1>2 DEF ToCome
<1>5. HeldOnce' /\ ResultsAreDelivered' /\ NotYetPublished' /\ NotYetDead'
  BY <1>2, <1>4 DEF WorkerInv, HeldOnce, ResultsAreDelivered, NotYetPublished, NotYetDead
<1>6. StillPending'
  <2> SUFFICES ASSUME NEW v \in Workers, NEW i \in ToCome(v, {"publish", "store"})'
               PROVE  batch[v][i] \in pending'
    BY <1>2 DEF StillPending
  <2>1. /\ i \in DOMAIN batch[v] /\ ~(v = w /\ i = 1)
        /\ i \in ToCome(v, {"publish", "store"})
    BY <1>4
  <2>2. batch[v][i] # Current(w)
    BY <1>1, <2>1 DEF WorkerInv, HeldOnce
  <2> QED
    BY <2>1, <2>2 DEF WorkerInv, StillPending
<1>7. FailedAckIsStored'
  <2> SUFFICES ASSUME NEW v \in Workers, step'[v] = "dlq"
               PROVE  Current(v) \in pending' \/ Current(v) \in stored
    BY <1>2 DEF FailedAckIsStored
  <2>1. CASE v = w
    <3>1. step[w] = "ack" => Current(w) \in stored
      BY DEF WorkerInv, StoredWhileAcked
    <3>2. step[w] \in {"publish", "store"} => Current(w) \in pending
      BY <1>1 DEF WorkerInv, StillPending, ToCome
    <3> QED
      BY <2>1, <3>1, <3>2
  <2>2. CASE v # w
    <3>1. step[v] = "dlq"
      BY <1>2, <2>2
    <3>2. Current(v) # Current(w)
      BY <1>0, <1>1, <2>2, <3>1, CurrentIsFirst DEF WorkerInv, HeldOnce
    <3> QED
      BY <3>1, <3>2 DEF WorkerInv, FailedAckIsStored
  <2> QED
    BY <2>1, <2>2
<1>8. PublishedBeforeStored'
  <2> SUFFICES ASSUME NEW v \in Workers, step'[v] = "store"
               PROVE  verdict[v] \in BOOLEAN
                        /\ \E k \in DOMAIN results : results[k] = ResultOf(v, verdict[v])'
    BY DEF PublishedBeforeStored
  <2>1. Current(v)' = Current(v) /\ step[v] = "store"
    BY <1>2
  <2>2. ResultOf(v, verdict[v])' = ResultOf(v, verdict[v])
    BY <2>1, Zenon DEF ResultOf
  <2> QED
    BY <2>1, <2>2 DEF WorkerInv, PublishedBeforeStored
<1>9. \A e : InDeadLetters(e)' <=> InDeadLetters(e)
  BY DEF InDeadLetters
<1>10. StoredWhileAcked' /\ DeadWhileAcked'
  BY <1>2, <1>9 DEF WorkerInv, StoredWhileAcked, DeadWhileAcked
<1>11. AcknowledgedIsKept'
  BY <1>9 DEF WorkerInv, AcknowledgedIsKept, StoredWhileAcked
<1>12. HandledOnce'
  BY DEF WorkerInv, HandledOnce
<1> QED
  BY <1>3, <1>5, <1>6, <1>7, <1>8, <1>10, <1>11, <1>12 DEF WorkerInv

(* A row says what was published for its entry. *)
LEMMA StoredStep ==
  ASSUME WorkerInv, NEW w \in Workers, Goto(w, "ack"), step[w] = "store",
         trace_row' = [trace_row EXCEPT ![stream[Current(w)].trace] = ResultOf(w, verdict[w])],
         stored' = stored \cup {Current(w)},
         UNCHANGED <<stream, last_delivered, pending, results, dead_letters, verdict, faults>>
  PROVE  WorkerInv'
<1>0. WorkerTypeOK
  BY DEF WorkerInv
<1>1. /\ 1 \in DOMAIN batch[w] /\ Current(w) = batch[w][1]
      /\ Current(w) \in 1..last_delivered /\ Current(w) \in 1..MaxEntries
  BY <1>0, CurrentIsFirst
<1>2. /\ step' \in [Workers -> {"down", "read", "publish", "store", "ack", "dlq", "dlq_ack"}]
      /\ batch' \in [Workers -> Seq(1..last_delivered')]
      /\ \A v \in Workers : batch'[v] = <<>> <=> step'[v] \in {"down", "read"}
      /\ batch' = batch
      /\ \A v \in Workers : Current(v)' = Current(v)
      /\ \A v \in Workers : step'[v] = IF v = w THEN "ack" ELSE step[v]
  BY <1>0, GotoFacts
<1>3. /\ verdict[w] \in BOOLEAN
      /\ \E k \in DOMAIN results : results[k] = ResultOf(w, verdict[w])
  BY DEF WorkerInv, PublishedBeforeStored
<1>4. WorkerTypeOK'
  <2>1. ResultOf(w, verdict[w]) \in Verdict
    BY <1>1, <1>3 DEF ResultOf, Verdict
  <2>2. trace_row' \in [Traces -> Verdict \cup {None}]
    BY <1>0, <2>1 DEF WorkerTypeOK
  <2>3. stored' \subseteq 1..last_delivered
    BY <1>0, <1>1 DEF WorkerTypeOK
  <2> QED
    BY <1>0, <1>2, <2>2, <2>3 DEF WorkerTypeOK
<1>5. \A v \in Workers : \A i :
        /\ i \in ToCome(v, {"publish"})' => i \in ToCome(v, {"publish"})
        /\ i \in ToCome(v, {"publish", "store"})' => i \in ToCome(v, {"publish", "store"})
        /\ i \in ToCome(v, {"publish", "store", "ack", "dlq"})' =>
             i \in ToCome(v, {"publish", "store", "ack", "dlq"})
  BY <1>2 DEF ToCome
<1>6. HeldOnce' /\ ResultsAreDelivered' /\ NotYetPublished' /\ NotYetDead' /\ StillPending'
  BY <1>2, <1>5
  DEF WorkerInv, HeldOnce, ResultsAreDelivered, NotYetPublished, NotYetDead, StillPending
<1>7. \A e : InDeadLetters(e)' <=> InDeadLetters(e)
  BY DEF InDeadLetters
<1>8. FailedAckIsStored' /\ StoredWhileAcked' /\ DeadWhileAcked'
  BY <1>2, <1>7 DEF WorkerInv, FailedAckIsStored, StoredWhileAcked, DeadWhileAcked
<1>9. PublishedBeforeStored'
  <2> SUFFICES ASSUME NEW v \in Workers, step'[v] = "store"
               PROVE  verdict[v] \in BOOLEAN
                        /\ \E k \in DOMAIN results : results[k] = ResultOf(v, verdict[v])'
    BY DEF PublishedBeforeStored
  <2>1. Current(v)' = Current(v) /\ step[v] = "store"
    BY <1>2
  <2>2. ResultOf(v, verdict[v])' = ResultOf(v, verdict[v])
    BY <2>1, Zenon DEF ResultOf
  <2> QED
    BY <2>1, <2>2 DEF WorkerInv, PublishedBeforeStored
<1>10. AcknowledgedIsKept'
  BY <1>7 DEF WorkerInv, AcknowledgedIsKept
<1>11. HandledOnce'
  <2>1. \A t \in Traces : trace_row'[t] = trace_row[t] \/ trace_row'[t] = ResultOf(w, verdict[w])
    BY <1>0 DEF WorkerTypeOK
  <2> QED
    BY <1>3, <2>1 DEF WorkerInv, HandledOnce
<1> QED
  BY <1>4, <1>6, <1>8, <1>9, <1>10, <1>11 DEF WorkerInv

(* An entry that is dead-lettered was not before. *)
LEMMA DeadLetterStep ==
  ASSUME WorkerInv, NEW w \in Workers, Goto(w, "dlq_ack"), step[w] = "dlq",
         dead_letters' = Append(dead_letters, Current(w)),
         UNCHANGED <<stream, last_delivered, pending, results, trace_row, stored, verdict, faults>>
  PROVE  WorkerInv'
<1>0. WorkerTypeOK
  BY DEF WorkerInv
<1>1. /\ 1 \in DOMAIN batch[w] /\ Current(w) = batch[w][1]
      /\ Current(w) \in 1..last_delivered
  BY <1>0, CurrentIsFirst
<1>2. /\ step' \in [Workers -> {"down", "read", "publish", "store", "ack", "dlq", "dlq_ack"}]
      /\ batch' \in [Workers -> Seq(1..last_delivered')]
      /\ \A v \in Workers : batch'[v] = <<>> <=> step'[v] \in {"down", "read"}
      /\ batch' = batch
      /\ \A v \in Workers : Current(v)' = Current(v)
      /\ \A v \in Workers : step'[v] = IF v = w THEN "dlq_ack" ELSE step[v]
  BY <1>0, GotoFacts
<1>3. /\ dead_letters' \in Seq(1..last_delivered)
      /\ Len(dead_letters) + 1 \in DOMAIN dead_letters' /\ dead_letters'[Len(dead_letters) + 1] = Current(w)
      /\ \A k \in DOMAIN dead_letters : k \in DOMAIN dead_letters' /\ dead_letters'[k] = dead_letters[k]
      /\ \A k \in DOMAIN dead_letters' : k \in DOMAIN dead_letters \/ k = Len(dead_letters) + 1
  BY <1>0, <1>1, Appended DEF WorkerTypeOK
<1>4. \A k \in DOMAIN dead_letters : dead_letters[k] # Current(w)
  BY <1>1 DEF WorkerInv, NotYetDead, ToCome
<1>5. \A e : InDeadLetters(e)' <=> InDeadLetters(e) \/ e = Current(w)
  BY <1>3 DEF InDeadLetters
<1>6. WorkerTypeOK'
  BY <1>0, <1>2, <1>3 DEF WorkerTypeOK
<1>7. \A v \in Workers : \A i :
        /\ i \in ToCome(v, {"publish"})' => i \in ToCome(v, {"publish"})
        /\ i \in ToCome(v, {"publish", "store"})' => i \in ToCome(v, {"publish", "store"})
        /\ i \in ToCome(v, {"publish", "store", "ack", "dlq"})' =>
             /\ i \in ToCome(v, {"publish", "store", "ack", "dlq"})
             /\ i \in DOMAIN batch[v]
             /\ ~(v = w /\ i = 1)
  BY <1>2 DEF ToCome
<1>8. HeldOnce' /\ ResultsAreDelivered' /\ NotYetPublished' /\ StillPending'
  BY <1>2, <1>7 DEF WorkerInv, HeldOnce, ResultsAreDelivered, NotYetPublished, StillPending
<1>9. NotYetDead'
  <2> SUFFICES ASSUME NEW v \in Workers, NEW i \in ToCome(v, {"publish", "store", "ack", "dlq"})'
               PROVE  ~InDeadLetters(batch[v][i])'
    BY <1>2 DEF NotYetDead, InDeadLetters
  <2>1. /\ i \in ToCome(v, {"publish", "store", "ack", "dlq"})
        /\ i \in DOMAIN batch[v] /\ ~(v = w /\ i = 1)
    BY <1>7
  <2>2. batch[v][i] # Current(w)
    BY <1>1, <2>1 DEF WorkerInv, HeldOnce
  <2>3. ~InDeadLetters(batch[v][i])
    BY <2>1 DEF WorkerInv, NotYetDead, InDeadLetters
  <2> QED
    BY <1>2, <1>3, <2>2, <2>3 DEF InDeadLetters
<1>10. FailedAckIsStored' /\ StoredWhileAcked' /\ DeadWhileAcked'
  BY <1>2, <1>5 DEF WorkerInv, FailedAckIsStored, StoredWhileAcked, DeadWhileAcked
<1>11. PublishedBeforeStored'
  <2> SUFFICES ASSUME NEW v \in Workers, step'[v] = "store"
               PROVE  verdict[v] \in BOOLEAN
                        /\ \E k \in DOMAIN results : results[k] = ResultOf(v, verdict[v])'
    BY DEF PublishedBeforeStored
  <2>1. Current(v)' = Current(v) /\ step[v] = "store"
    BY <1>2
  <2>2. ResultOf(v, verdict[v])' = ResultOf(v, verdict[v])
    BY <2>1, Zenon DEF ResultOf
  <2> QED
    BY <2>1, <2>2 DEF WorkerInv, PublishedBeforeStored
<1>12. AcknowledgedIsKept'
  BY <1>5 DEF WorkerInv, AcknowledgedIsKept
<1>13. HandledOnce'
  BY <1>3, <1>4 DEF WorkerInv, HandledOnce
<1> QED
  BY <1>6, <1>8, <1>9, <1>10, <1>11, <1>12, <1>13 DEF WorkerInv

-----------------------------------------------------------------------------
(* A worker that is started again holds nothing, and the producers only    *)
(* add entries nobody was given.                                           *)
LEMMA RestartStep ==
  ASSUME WorkerInv, NEW w \in Workers, Restart(w)
  PROVE  WorkerInv'
<1>0. WorkerTypeOK
  BY DEF WorkerInv
<1>1. /\ batch' = batch /\ batch[w] = <<>>
      /\ \A v \in Workers : step'[v] = IF v = w THEN "read" ELSE step[v]
      /\ UNCHANGED <<stream, last_delivered, pending, results, dead_letters, trace_row, stored, verdict, faults>>
  BY <1>0 DEF Restart, Goto, redis, database, WorkerTypeOK
<1>2. WorkerTypeOK'
  <2>1. step' \in [Workers -> {"down", "read", "publish", "store", "ack", "dlq", "dlq_ack"}]
    BY <1>0 DEF Restart, Goto, WorkerTypeOK
  <2>2. \A v \in Workers : batch'[v] = <<>> <=> step'[v] \in {"down", "read"}
    BY <1>0, <1>1 DEF WorkerTypeOK
  <2> QED
    BY <1>0, <1>1, <2>1, <2>2 DEF WorkerTypeOK
<1>3. \A v \in Workers : \A S, i : i \in ToCome(v, S)' => v # w /\ i \in ToCome(v, S)
  BY <1>1 DEF ToCome
<1>4. HeldOnce' /\ ResultsAreDelivered' /\ NotYetPublished' /\ NotYetDead' /\ StillPending'
  BY <1>1, <1>3
  DEF WorkerInv, HeldOnce, ResultsAreDelivered, NotYetPublished, NotYetDead, StillPending
<1>5. PublishedBeforeStored' /\ StoredWhileAcked' /\ DeadWhileAcked' /\ FailedAckIsStored'
  BY <1>1
  DEF WorkerInv, PublishedBeforeStored, StoredWhileAcked, DeadWhileAcked, FailedAckIsStored,
      ResultOf, Current, InDeadLetters
<1>6. AcknowledgedIsKept' /\ HandledOnce'
  BY <1>1 DEF WorkerInv, AcknowledgedIsKept, HandledOnce, InDeadLetters
<1> QED
  BY <1>2, <1>4, <1>5, <1>6 DEF WorkerInv

LEMMA ProduceStep ==
  ASSUME WorkerInv, Produce
  PROVE  WorkerInv'
<1>0. WorkerTypeOK
  BY DEF WorkerInv
<1>1. /\ UNCHANGED <<last_delivered, pending, results, dead_letters, trace_row, stored, step, batch, verdict, faults>>
      /\ Len(stream) < MaxEntries
  BY DEF Produce, database, workers
<1>2. PICK entry \in [trace : Traces, body : Bodies] : stream' = Append(stream, entry)
  BY DEF Produce
<1>3. /\ stream' \in Seq([trace : Traces, body : Bodies])
      /\ Len(stream') = Len(stream) + 1 /\ Len(stream) \in Nat
  BY <1>0, <1>2, AppendProperties, LenProperties DEF WorkerTypeOK
<1>4. WorkerTypeOK'
  BY <1>0, <1>1, <1>3, BoundsAssumption DEF WorkerTypeOK
<1>5. \A v \in Workers : \A S, i : i \in ToCome(v, S)' => i \in ToCome(v, S)
  BY <1>1 DEF ToCome
<1>6. HeldOnce' /\ ResultsAreDelivered' /\ NotYetPublished' /\ NotYetDead' /\ StillPending'
  BY <1>1, <1>5
  DEF WorkerInv, HeldOnce, ResultsAreDelivered, NotYetPublished, NotYetDead, StillPending
<1>7. PublishedBeforeStored' /\ StoredWhileAcked' /\ DeadWhileAcked' /\ FailedAckIsStored'
  BY <1>1
  DEF WorkerInv, PublishedBeforeStored, StoredWhileAcked, DeadWhileAcked, FailedAckIsStored,
      ResultOf, Current, InDeadLetters
<1>8. AcknowledgedIsKept' /\ HandledOnce'
  BY <1>1 DEF WorkerInv, AcknowledgedIsKept, HandledOnce, InDeadLetters
<1> QED
  BY <1>4, <1>6, <1>7, <1>8 DEF WorkerInv

-----------------------------------------------------------------------------
(* The failures end in DownStep or GiveUpStep, the rest in a lemma each. *)
LEMMA WorkerStep ==
  ASSUME WorkerInv, NEW w \in Workers, Work(w) \/ ReadFails(w) \/ Kill(w)
  PROVE  WorkerInv'
<1>0. WorkerTypeOK
  BY DEF WorkerInv
<1>1. Fault => faults' \in 0..MaxFaults
  BY <1>0, BoundsAssumption DEF Fault, WorkerTypeOK
<1>2. faults \in 0..MaxFaults
  BY <1>0 DEF WorkerTypeOK
<1>3. CASE Read(w)
  BY <1>3, ReadStep
<1>4. CASE Publish(w)
  BY <1>4, PublishStep
<1>5. CASE EvaluateFails(w)
  BY <1>2, <1>5, GiveUpStep DEF EvaluateFails, redis, database
<1>6. CASE HandlerFails(w)
  BY <1>2, <1>6, DownStep DEF HandlerFails, redis, database
<1>7. CASE Store(w)
  <2>1. step[w] = "store" /\ UNCHANGED <<stream, last_delivered, pending, results, dead_letters, verdict>>
    BY <1>7 DEF Store, redis
  <2>2. CASE /\ trace_row' = [trace_row EXCEPT ![stream[Current(w)].trace] = ResultOf(w, verdict[w])]
             /\ stored' = stored \cup {Current(w)}
             /\ Goto(w, "ack") /\ UNCHANGED faults
    BY <2>1, <2>2, StoredStep
  <2>3. CASE Goto(w, "dlq") /\ Fault /\ UNCHANGED database
    BY <1>1, <2>1, <2>3, GiveUpStep DEF database
  <2> QED
    BY <1>7, <2>2, <2>3 DEF Store
<1>8. CASE Ack(w)
  <2>1. /\ step[w] = "ack"
        /\ UNCHANGED <<stream, last_delivered, results, dead_letters, trace_row, stored, verdict>>
    BY <1>8 DEF Ack, database
  <2>2. CASE pending' = pending \ {Current(w)} /\ NextEntry(w) /\ UNCHANGED faults
    BY <2>1, <2>2, NextEntryStep
  <2>3. CASE pending' \in {pending, pending \ {Current(w)}} /\ Goto(w, "dlq") /\ Fault
    BY <1>1, <2>1, <2>3, GiveUpStep
  <2> QED
    BY <1>8, <2>2, <2>3 DEF Ack
<1>9. CASE DeadLetter(w)
  <2>1. /\ step[w] = "dlq"
        /\ UNCHANGED <<stream, last_delivered, pending, results, trace_row, stored>>
    BY <1>9 DEF DeadLetter, database
  <2>2. CASE dead_letters' = Append(dead_letters, Current(w)) /\ Goto(w, "dlq_ack")
               /\ UNCHANGED <<verdict, faults>>
    BY <2>1, <2>2, DeadLetterStep
  <2>3. CASE dead_letters' \in {dead_letters, Append(dead_letters, Current(w))} /\ Down(w) /\ Fault
    BY <1>1, <2>1, <2>3, DownStep
  <2> QED
    BY <1>9, <2>2, <2>3 DEF DeadLetter
<1>10. CASE AckDead(w)
  <2>1. /\ step[w] = "dlq_ack"
        /\ UNCHANGED <<stream, last_delivered, results, dead_letters, trace_row, stored>>
    BY <1>10 DEF AckDead, database
  <2>2. CASE pending' = pending \ {Current(w)} /\ NextEntry(w) /\ UNCHANGED <<verdict, faults>>
    BY <2>1, <2>2, NextEntryStep
  <2>3. CASE pending' \in {pending, pending \ {Current(w)}} /\ Down(w) /\ Fault
    BY <1>1, <2>1, <2>3, DownStep
  <2> QED
    BY <1>10, <2>2, <2>3 DEF AckDead
<1>11. CASE Restart(w)
  BY <1>11, RestartStep
<1>12. CASE ReadFails(w) \/ Kill(w)
  BY <1>1, <1>12, DownStep DEF ReadFails, Kill, redis, database
<1> QED
  BY <1>3, <1>4, <1>5, <1>6, <1>7, <1>8, <1>9, <1>10, <1>11, <1>12 DEF Work

LEMMA StutterStep ==
  ASSUME WorkerInv, UNCHANGED worker_vars
  PROVE  WorkerInv'
  BY DEF worker_vars, redis, database, workers, WorkerInv, WorkerTypeOK, HeldOnce, ResultsAreDelivered,
         NotYetPublished, NotYetDead, PublishedBeforeStored, StoredWhileAcked, DeadWhileAcked,
         StillPending, FailedAckIsStored, AcknowledgedIsKept, HandledOnce,
         ToCome, Current, ResultOf, InDeadLetters

(* The inductive invariant holds in every state of every behaviour. *)
THEOREM WorkerInvariance == WorkerSpec => []WorkerInv
<1>1. WorkerInv /\ [WorkerNext]_worker_vars => WorkerInv'
  BY ProduceStep, WorkerStep, StutterStep DEF WorkerNext
<1> QED
  BY WorkerInitInv, <1>1, PTL DEF WorkerSpec

(***************************************************************************)
(* Whatever fails and whichever worker is killed, the state is well formed *)
(* and an entry the group no longer holds has its verdict written or waits *)
(* in the dead-letter stream (GuardrailsWorker.run).                       *)
(***************************************************************************)
THEOREM NothingLost == WorkerSpec => []NothingIsLost
<1>1. WorkerInv => NothingIsLost
  BY DEF WorkerInv, NothingIsLost
<1> QED
  BY WorkerInvariance, <1>1, PTL

(***************************************************************************)
(* Each entry is published at most once and dead-lettered at most once,    *)
(* and a row of guardrail_results only says what was published.            *)
(***************************************************************************)
THEOREM Once == WorkerSpec => []HandledOnce
<1>1. WorkerInv => HandledOnce
  BY DEF WorkerInv
<1> QED
  BY WorkerInvariance, <1>1, PTL
================================================================================
