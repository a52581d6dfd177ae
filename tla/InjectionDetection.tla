-------------------------- MODULE InjectionDetection --------------------------
(***************************************************************************)
(* The two detectors of prompt injection.  shared/injection: a text is     *)
(* normalised and decoded, matched with the patterns, and if those do not  *)
(* report it, put to a language model that may be late or unclear.         *)
(* shared/prompt_injection_detector.py: categories are matched one after   *)
(* the other.  Scores are in hundredths; of a text, only which patterns    *)
(* match it before and after decoding is kept.                             *)
(***************************************************************************)
EXTENDS Absence, Integers, Sequences, FiniteSets

CONSTANTS
  Texts,       \* [plain, decoded : sets of patterns, decodes, short : BOOLEAN]
  Confidences  \* those the judge may answer

VARIABLES
  check, \* of the pipeline: text, step, whether the judge answered, the result
  scan   \* of the detector: next category, matched ones, weight and severity so far

injection_vars == <<check, scan>>

(* _PATTERNS: score and category, of equal ones the first *)
Patterns ==
  <<<<95, "system_override">>, <<90, "system_override">>, <<92, "system_override">>,
    <<91, "system_override">>, <<88, "system_override">>, <<93, "system_override">>,
    <<94, "system_override">>, <<95, "jailbreak_keyword">>, <<94, "jailbreak_keyword">>,
    <<96, "jailbreak_keyword">>, <<85, "role_switch">>, <<84, "role_switch">>,
    <<93, "role_switch">>, <<93, "prompt_leak">>, <<88, "prompt_leak">>,
    <<91, "prompt_leak">>, <<90, "prompt_leak">>, <<86, "safety_bypass">>,
    <<89, "safety_bypass">>, <<92, "safety_bypass">>, <<88, "safety_bypass">>,
    <<88, "unrestricted_mode">>, <<92, "unrestricted_mode">>, <<92, "harm_generation">>,
    <<97, "harm_generation">>, <<91, "harm_generation">>, <<87, "social_engineering">>,
    <<78, "social_engineering">>, <<82, "social_engineering">>, <<91, "social_engineering">>,
    <<85, "social_engineering">>, <<72, "generic">>, <<90, "generic">>, <<94, "generic">>,
    <<93, "generic">>, <<86, "generic">>>>

Thresholds ==
  [system_override |-> 95, role_switch |-> 85, prompt_leak |-> 90, safety_bypass |-> 80,
   harm_generation |-> 90, jailbreak_keyword |-> 94, social_engineering |-> 88,
   unrestricted_mode |-> 88, generic |-> 85]

(* what InjectionResult holds *)
Results ==
  [detected : BOOLEAN, score : Int, action : {"allow", "flag", "redact", "block", "block_and_alert"},
   layer : {"regex", "llm_judge", "fallback", "error"}]

ASSUME InjectionAssumption ==
  /\ Texts \subseteq [plain : SUBSET DOMAIN Patterns, decoded : SUBSET DOMAIN Patterns, decodes : BOOLEAN, short : BOOLEAN]
  /\ Confidences \subseteq Int
  /\ None \notin [injection : BOOLEAN, confidence : Confidences]
  /\ None \notin Results

(* mutant: the generic patterns count from 70 on *)
LowThreshold(category) == IF category = "generic" THEN 70 ELSE Thresholds[category]

(* CATEGORY_THRESHOLDS *)
Threshold(category) == Thresholds[category]

Severity(score) ==
  CASE score >= 95 -> "critical" [] score \in 80..94 -> "high" [] score \in 55..79 -> "medium"
    [] score \in 30..54 -> "low" [] OTHER -> "none"

ActionOf(severity) ==
  [none |-> "allow", low |-> "flag", medium |-> "redact", high |-> "block",
   critical |-> "block_and_alert"][severity]

Result(detected, score, severity, layer) ==
  [detected |-> detected, score |-> score, action |-> ActionOf(severity), layer |-> layer]

Allow(layer) == Result(FALSE, 0, "none", layer)

CappedAt(a, b) == IF a < b THEN a ELSE b

(* TextNormalizer, then EncodingDecoder: what is decoded takes the place   *)
(* of the text.  Either gives the text back if it fails.                   *)
Examined(text) == IF ~text.short /\ text.decodes THEN text.decoded ELSE text.plain

(* RegexDetector.detect of the matched patterns, as places in Patterns *)
Match(matched) ==
  LET best == CHOOSE i \in matched : \A j \in matched :
                Patterns[i][1] > Patterns[j][1] \/ (Patterns[i][1] = Patterns[j][1] /\ i <= j)
      escalates == Cardinality({Patterns[i][2] : i \in matched}) >= 2
      score == IF escalates THEN CappedAt(100, Patterns[best][1] + 5) ELSE Patterns[best][1]
      severity == IF escalates /\ Severity(score) \in {"none", "low", "medium"} THEN "high" ELSE Severity(score)
  IN  IF matched = {} \/ score < Threshold(Patterns[best][2]) THEN Allow("regex")
      ELSE Result(TRUE, score, severity, "regex")

CategoryTable ==
  <<<<"dan_jailbreak", "critical", 100>>, <<"prefix_injection", "high", 80>>,
    <<"attention_shift", "medium", 50>>, <<"payload_split", "medium", 60>>,
    <<"encoding_obfuscation", "high", 70>>, <<"token_smuggling", "medium", 50>>>>

Order == [none |-> 0, low |-> 1, medium |-> 2, high |-> 3, critical |-> 4]

InjectionInit ==
  /\ check \in [text : Texts, step : {"prepare"}, judge : {None}, result : {None}]
  /\ scan = [next |-> 1, matched |-> {}, weight |-> 0, severity |-> "none"]

CheckEnds(result) == check' = [check EXCEPT !.step = "done", !.result = result]

RunPatterns ==
  /\ check.step = "prepare"
  /\ LET result == Match(Examined(check.text))
     IN  IF result.detected THEN CheckEnds(result) ELSE check' = [check EXCEPT !.step = "judge"]
  /\ UNCHANGED scan

(* LlamaJudgeDetector.detect: too short a text is not put to it *)
SkipJudge ==
  /\ check.step = "judge" /\ check.text.short
  /\ CheckEnds(Allow("llm_judge"))
  /\ UNCHANGED scan

JudgeAnswers(injection, confidence) ==
  /\ check.step = "judge" /\ ~check.text.short
  /\ check' = [check EXCEPT !.step = "done", !.judge = [injection |-> injection, confidence |-> confidence],
       !.result = IF ~injection \/ confidence < 50 THEN Allow("llm_judge")
                  ELSE Result(TRUE, confidence, Severity(confidence), "llm_judge")]
  /\ UNCHANGED scan

(* late, another status, nothing that can be parsed: _handle_fallback,     *)
(* which was constructed with "pass" whatever the configuration says       *)
JudgeFails ==
  /\ check.step = "judge" /\ ~check.text.short
  /\ CheckEnds(Allow("fallback"))
  /\ UNCHANGED scan

(* InjectionPipeline.run: whatever is raised lets the text through *)
PipelineFails ==
  /\ check.step \in {"prepare", "judge"}
  /\ CheckEnds(Allow("error"))
  /\ UNCHANGED scan

(* PromptInjectionDetector.detect, one category *)
ScanCategory(matches) ==
  /\ scan.next <= Len(CategoryTable)
  /\ LET c == CategoryTable[scan.next]
     IN  scan' = IF matches
                 THEN [next |-> scan.next + 1, matched |-> scan.matched \cup {c[1]},
                       weight |-> IF c[3] > scan.weight THEN c[3] ELSE scan.weight,
                       severity |-> IF Order[c[2]] > Order[scan.severity] THEN c[2] ELSE scan.severity]
                 ELSE [scan EXCEPT !.next = @ + 1]
  /\ UNCHANGED check

Confidence(weight, categories) ==
  IF categories = 0 THEN 0
  ELSE CappedAt(95, weight + (IF categories >= 2 THEN 15 ELSE 0) + (IF categories >= 3 THEN 10 ELSE 0))

InjectionNext ==
  \/ RunPatterns \/ SkipJudge \/ JudgeFails \/ PipelineFails
  \/ \E injection \in BOOLEAN, confidence \in Confidences : JudgeAnswers(injection, confidence)
  \/ \E matches \in BOOLEAN : ScanCategory(matches)

InjectionSpec == InjectionInit /\ [][InjectionNext]_injection_vars

-----------------------------------------------------------------------------
InjectionTypeOK ==
  /\ check.step \in {"prepare", "judge", "done"}
  /\ check.step = "done" <=> check.result # None
  /\ scan.next \in 1..(Len(CategoryTable) + 1) /\ scan.weight \in 0..100

(***************************************************************************)
(* What the patterns report is blocked: with their scores, the thresholds  *)
(* of their categories and the escalation, none of it is only flagged or   *)
(* redacted.  Those two come from the judge, unsure at least by half; and  *)
(* a text is let through only when the judge let it, was not to be had, or *)
(* the text is too short to ask.  The other detector reports a text if and *)
(* only if a category matches, sure by half at least and never entirely.   *)
(***************************************************************************)
VerdictsAreGraded ==
  /\ check.step = "done" =>
       /\ check.result.layer = "regex" => check.result.action \in {"block", "block_and_alert"}
       /\ check.result.action \in {"flag", "redact"} =>
            check.judge # None /\ check.judge.injection /\ check.judge.confidence \in 50..79
       /\ check.result.detected <=> check.result.action # "allow"
  /\ scan.next > Len(CategoryTable) =>
       LET sure == Confidence(scan.weight, Cardinality(scan.matched))
       IN  /\ (sure >= 30) <=> (scan.matched # {})
           /\ sure >= 30 => sure \in 50..95 /\ scan.severity \in {"medium", "high", "critical"}
================================================================================
