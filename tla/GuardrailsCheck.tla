---------------------------- MODULE GuardrailsCheck ----------------------------
(***************************************************************************)
(* The HTTP half of the guardrails service at tier 2: POST /check, /shap   *)
(* and /reload-model, and the evaluation of a stream trace                 *)
(* (guardrails/worker.py), with the response cache, the lazily loaded      *)
(* toxicity models and the policy engine they use.                         *)
(*                                                                         *)
(* The event loop runs one job at a time and leaves it only where the      *)
(* handler awaits, in /check for the LLM that verifies personal data.      *)
(* Meanwhile a thread preloads RoBERTa into the same module variables      *)
(* (app/bert_model_manager.py), so loading is split at every access to     *)
(* them.  A model may fail to load, or to answer, at any time.             *)
(*                                                                         *)
(* A text is what the models, the keywords and the PII patterns make of    *)
(* it; scores are percentages.                                             *)
(***************************************************************************)
EXTENDS Naturals, FiniteSets, Sequences, Functions

CONSTANTS
  Checks, Traces, Reloads, Shaps,  \* the jobs, by the handlers that may run them
  Texts,     \* [RoBERTa, BERT, keyword : percentages, pii : a set of types]
  Policies,  \* the rules of the policy file, in order
  MaxSize,   \* entries the cache holds, 10000 in the code
  Ttl,       \* ticks they are served, 300 seconds in the code
  MaxTime,   \* bound: ticks of the clock
  None

Jobs == Checks \cup Traces \cup Reloads \cup Shaps
Scores == 0..100

Strictness == [allow |-> 1, flag |-> 2, mask |-> 3, block |-> 4]
Thresholds == [low |-> 30, medium |-> 60, high |-> 90, critical |-> 95]

ASSUME CacheAssumption == MaxSize \in Nat \ {0} /\ Ttl \in Nat /\ MaxTime \in Nat
ASSUME JobsAssumption ==
  Checks \cap (Traces \cup Reloads \cup Shaps) = {} /\ None \notin Jobs
ASSUME TextsAssumption ==
  /\ None \notin Texts
  /\ \A t \in Texts : t.RoBERTa \in Scores /\ t.BERT \in Scores /\ t.keyword \in Scores

(* the actions and severities _is_stricter and _match_toxicity know *)
ASSUME PoliciesAssumption ==
  /\ Policies \in Seq(Range(Policies))
  /\ \A rule \in Range(Policies) :
       /\ rule.action \in DOMAIN Strictness /\ rule.severity \in {"off"} \cup DOMAIN Thresholds
       /\ rule.patterns \in BOOLEAN

VARIABLES
  (* app.bert_model_manager *)
  model_pipeline,     \* the model that is loaded, or None
  model_name_loaded,
  preload,            \* the preload thread: "check", "load", "name", "done"
  (* app.models.ModelLoader: the pipeline each user of a model got hold of *)
  roberta, bert, shap,
  (* the response cache *)
  cache,              \* per text the result and when it was stored, or None
  now,
  (* the event loop *)
  step,               \* per job: "new", "verify" while it awaits, "running", "done"
  local,              \* per job: its text, and the PII types found in it
  loop,               \* the handler that runs: its job, place, load and what it heard
  answer              \* what the check or trace that ended last came to: text, result,
                      \* when it was made and given; None once the loop runs on

manager == <<model_pipeline, model_name_loaded>>
models == <<roberta, bert, shap>>
jobs == <<step, local, answer>>
vars == <<manager, preload, models, cache, now, jobs, loop>>

-------------------------------------------------------------------------------
(* Policies *)

(* Only toxicity rules can be switched off. *)
Matches(rule, toxic, score, types) ==
  IF rule.type = "toxicity"
  THEN /\ rule.enabled /\ rule.severity # "off"
       /\ toxic /\ score >= Thresholds[rule.severity]
  ELSE rule.category \in types

(* mutant: rules as strict as the decision apply too *)
AppliedIfAsStrict(decision, rule, toxic, score, types, shown) ==
  IF /\ Matches(rule, toxic, score, types)
     /\ Strictness[rule.action] >= Strictness[decision.action]
  THEN [action |-> rule.action,
        hidden |-> IF rule.action = "block" THEN shown
                   ELSE IF rule.action = "mask" /\ rule.patterns
                        THEN decision.hidden \cup {rule.category}
                   ELSE decision.hidden]
  ELSE decision

(* A rule's turn.  hidden is what no longer shows in rewritten_text: a block *)
(* replaces the text, a mask the matches of its own rule's patterns.         *)
Applied(decision, rule, toxic, score, types, shown) ==
  IF /\ Matches(rule, toxic, score, types)
     /\ Strictness[rule.action] > Strictness[decision.action]
  THEN [action |-> rule.action,
        hidden |-> IF rule.action = "block" THEN shown
                   ELSE IF rule.action = "mask" /\ rule.patterns
                        THEN decision.hidden \cup {rule.category}
                   ELSE decision.hidden]
  ELSE decision

(* PolicyEngine.evaluate: the decision after the first i rules, for every i *)
Evaluated(toxic, score, types, shown) ==
  LET after[i \in 0..Len(Policies)] ==
        IF i = 0 THEN [action |-> "allow", hidden |-> {}]
        ELSE Applied(after[i - 1], Policies[i], toxic, score, types, shown)
  IN  after

Evaluate(toxic, score, types, shown) == Evaluated(toxic, score, types, shown)[Len(Policies)]

-------------------------------------------------------------------------------
Nothing == [roberta |-> None, bert |-> None]
NoLocals == [text |-> None, pii |-> {}]
Idle == [job |-> None, at |-> "idle", load |-> "check", heard |-> Nothing]

Init ==
  /\ model_pipeline = None /\ model_name_loaded = None
  /\ preload = "check"
  /\ roberta = None /\ bert = None /\ shap = None
  /\ cache = [t \in Texts |-> None] /\ now = 0
  /\ step = [j \in Jobs |-> "new"]
  /\ local = [j \in Jobs |-> NoLocals]
  /\ loop = Idle
  /\ answer = None

(* job j has the event loop, and goes on at a place of its handler *)
Runs(j, at) ==
  /\ step' = [step EXCEPT ![j] = "running"]
  /\ loop' = [Idle EXCEPT !.job = j, !.at = at]
  /\ answer' = None

GoTo(at) ==
  /\ loop' = [loop EXCEPT !.at = at, !.load = "check"]
  /\ UNCHANGED <<step, local>>

(* the running job's handler returns, or raises *)
Returns ==
  /\ step' = [step EXCEPT ![loop.job] = "done"]
  /\ local' = [local EXCEPT ![loop.job] = NoLocals]
  /\ loop' = Idle

-------------------------------------------------------------------------------
(* The model manager *)

(* mutant: the name is not compared *)
LoadedAny(model) == model_pipeline # None

Loaded(model) == model_pipeline # None /\ model_name_loaded = model

(* the model the running handler wants, and the one it holds already *)
Wanted ==
  IF loop.at \in {"getRoberta", "reloadRoberta"} THEN "RoBERTa" ELSE "BERT"
Held ==
  IF loop.at = "getRoberta" THEN roberta
  ELSE IF loop.at \in {"askBert", "getBert"} THEN bert ELSE None

Getting(load) ==
  /\ loop.at \in {"getRoberta", "askBert", "getBert", "reloadBert", "reloadRoberta",
                  "getShap", "scoreShap"}
  /\ loop.load = load

(* what the getter hands back, None when the model could not be loaded *)
Obtain(got) ==
  \/ /\ loop.at = "getRoberta" /\ roberta' = got /\ GoTo("runRoberta")
     /\ UNCHANGED <<bert, shap>>
  \/ /\ loop.at = "askBert" /\ bert' = got /\ GoTo("compare")
     /\ UNCHANGED <<roberta, shap>>
  \/ /\ loop.at = "getBert" /\ bert' = got /\ GoTo("runBert")
     /\ UNCHANGED <<roberta, shap>>
  \/ /\ loop.at = "reloadBert" /\ bert' = got /\ roberta' = None /\ GoTo("reloadRoberta")
     /\ UNCHANGED shap
  \/ /\ loop.at = "reloadRoberta" /\ roberta' = got /\ Returns
     /\ UNCHANGED <<bert, shap>>
  \/ /\ loop.at = "getShap" /\ shap' = got
     /\ IF got = None THEN Returns ELSE GoTo("scoreShap")
     /\ UNCHANGED <<roberta, bert>>
  \/ /\ loop.at = "scoreShap" /\ Returns
     /\ UNCHANGED models

HasModel ==
  /\ Getting("check") /\ Held # None
  /\ Obtain(Held)
  /\ UNCHANGED <<manager, preload, cache, now, answer>>

LooksUpModel ==
  /\ Getting("check") /\ Held = None
  /\ loop' = [loop EXCEPT !.load = IF Loaded(Wanted) THEN "return" ELSE "load"]
  /\ UNCHANGED <<manager, preload, models, cache, now, jobs>>

LoadsModel ==
  /\ Getting("load")
  /\ model_pipeline' = Wanted
  /\ loop' = [loop EXCEPT !.load = "name"]
  /\ UNCHANGED <<model_name_loaded, preload, models, cache, now, jobs>>

(* mutant: a load that failed is tried until it succeeds *)
LoadFailsRetries ==
  /\ Getting("load")
  /\ loop' = [loop EXCEPT !.load = "check"]
  /\ UNCHANGED <<manager, preload, models, cache, now, jobs>>

LoadFails ==
  /\ Getting("load")
  /\ Obtain(None)
  /\ UNCHANGED <<manager, preload, cache, now, answer>>

NamesModel ==
  /\ Getting("name")
  /\ model_name_loaded' = Wanted
  /\ loop' = [loop EXCEPT !.load = "return"]
  /\ UNCHANGED <<model_pipeline, preload, models, cache, now, jobs>>

GetsModel ==
  /\ Getting("return")
  /\ Obtain(model_pipeline)
  /\ UNCHANGED <<manager, preload, cache, now, answer>>

(* the same steps in the preload thread; a load that fails ends it *)
PreloadLooksUp ==
  /\ preload = "check"
  /\ preload' = IF Loaded("RoBERTa") THEN "done" ELSE "load"
  /\ UNCHANGED <<manager, models, cache, now, jobs, loop>>

PreloadLoads ==
  /\ preload = "load"
  /\ \/ model_pipeline' = "RoBERTa" /\ preload' = "name"
     \/ preload' = "done" /\ UNCHANGED model_pipeline
  /\ UNCHANGED <<model_name_loaded, models, cache, now, jobs, loop>>

PreloadNames ==
  /\ preload = "name"
  /\ model_name_loaded' = "RoBERTa"
  /\ preload' = "done"
  /\ UNCHANGED <<model_pipeline, models, cache, now, jobs, loop>>

-------------------------------------------------------------------------------
(* The toxicity ensemble, and the decision about its verdict *)

Current == local[loop.job].text

(* PIIDetector.scan and check_toxic_keywords *)
Scan(t) == t.pii
Keywords(t) == t.keyword

(* what a classifier says of the current text with the pipeline it holds, *)
(* or None: it has none, or it fails                                      *)
Predictions(pipeline) ==
  IF pipeline = None THEN {None} ELSE {Current[pipeline], None}

RobertaSays == Predictions(roberta)
BertSays == Predictions(bert)

(* cache.set: an old entry makes room in a full cache *)
Stored(result) ==
  LET Kept == {t \in Texts : cache[t] # None}
      Oldest == {t \in Kept : \A u \in Kept : cache[t].at <= cache[u].at}
      Entry == [result |-> result, at |-> now]
  IN  IF Cardinality(Kept) >= MaxSize
      THEN \E old \in Oldest :
             cache' = [cache EXCEPT ![old] = None, ![Current] = Entry]
      ELSE cache' = [cache EXCEPT ![Current] = Entry]

(* the verdict is reached: the policies decide, a check stores the result *)
Conclude(toxic, score, heard) ==
  LET found == local[loop.job].pii
      decision == Evaluate(toxic, score, found, Scan(Current))
      result == [toxic |-> toxic, score |-> score, pii |-> found,
                 action |-> decision.action, hidden |-> decision.hidden, heard |-> heard]
  IN  /\ answer' = [text |-> Current, result |-> result, made |-> now, at |-> now]
      /\ IF loop.job \in Checks THEN Stored(result) ELSE UNCHANGED cache
      /\ Returns

Goes(at, heard) ==
  /\ loop' = [loop EXCEPT !.at = at, !.load = "check", !.heard = heard]
  /\ UNCHANGED <<cache, step, local, answer>>

RunsRoberta ==
  /\ loop.at = "runRoberta"
  /\ \E score \in RobertaSays :
       LET heard == [loop.heard EXCEPT !.roberta = score]
       IN  IF score = None \/ score < 50 THEN Goes("getBert", heard)
           ELSE IF score >= 70 THEN Conclude(TRUE, score, heard)
           ELSE Goes("askBert", heard)
  /\ UNCHANGED <<manager, preload, models, now>>

(* RoBERTa is unsure.  Without a classifier the code does not get to asking it *)
ComparesWithBert ==
  /\ loop.at = "compare"
  /\ \E score \in BertSays :
       LET unsure == loop.heard.roberta
           heard == [loop.heard EXCEPT !.bert = score]
       IN  IF bert = None THEN Goes("getBert", heard)
           ELSE IF score = None THEN Conclude(TRUE, unsure, heard)
           ELSE IF score >= 50
                THEN Conclude(TRUE, IF score > unsure THEN score ELSE unsure, heard)
           ELSE Goes("getBert", heard)
  /\ UNCHANGED <<manager, preload, models, now>>

(* BERT decides if it finds the text toxic, the keywords otherwise *)
RunsBert ==
  /\ loop.at = "runBert"
  /\ \E score \in BertSays :
       LET heard == IF score = None THEN loop.heard ELSE [loop.heard EXCEPT !.bert = score]
       IN  IF score # None /\ score >= 50 THEN Conclude(TRUE, score, heard)
           ELSE Conclude(Keywords(Current) > 0, Keywords(Current), heard)
  /\ UNCHANGED <<manager, preload, models, now>>

-------------------------------------------------------------------------------
(* The handlers *)

Ready(j) == loop = Idle /\ step[j] = "new"

Fresh(t) == cache[t] # None /\ now - cache[t].at <= Ttl

CheckIsCached(j, t) ==
  /\ Ready(j) /\ Fresh(t)
  /\ answer' = [text |-> t, result |-> cache[t].result, made |-> cache[t].at, at |-> now]
  /\ step' = [step EXCEPT ![j] = "done"]
  /\ UNCHANGED <<manager, preload, models, cache, now, local, loop>>

(* a miss drops an expired entry; the handler awaits only if it found something *)
CheckScans(j, t) ==
  /\ Ready(j) /\ ~Fresh(t)
  /\ cache' = [cache EXCEPT ![t] = None]
  /\ local' = [local EXCEPT ![j] = [text |-> t, pii |-> Scan(t)]]
  /\ IF Scan(t) = {}
     THEN Runs(j, "getRoberta")
     ELSE step' = [step EXCEPT ![j] = "verify"] /\ answer' = None /\ UNCHANGED loop
  /\ UNCHANGED <<manager, preload, models, now>>

(* mutant: an LLM that confirms nothing clears the text *)
CheckVerifiedAway(j) ==
  /\ loop = Idle /\ step[j] = "verify"
  /\ \E confirmed \in SUBSET local[j].pii :
       local' = [local EXCEPT ![j].pii = confirmed]
  /\ Runs(j, "getRoberta")
  /\ UNCHANGED <<manager, preload, models, cache, now>>

(* the LLM confirms some of the types; none, or no answer, confirms all *)
CheckVerified(j) ==
  /\ loop = Idle /\ step[j] = "verify"
  /\ \E confirmed \in (SUBSET local[j].pii) \ {{}} :
       local' = [local EXCEPT ![j].pii = confirmed]
  /\ Runs(j, "getRoberta")
  /\ UNCHANGED <<manager, preload, models, cache, now>>

(* GuardrailsWorker.evaluate: the same without cache and verification *)
TraceArrives(j, t) ==
  /\ Ready(j)
  /\ local' = [local EXCEPT ![j] = [text |-> t, pii |-> Scan(t)]]
  /\ Runs(j, "getRoberta")
  /\ UNCHANGED <<manager, preload, models, cache, now>>

ReloadArrives(j) ==
  /\ Ready(j)
  /\ bert' = None
  /\ Runs(j, "reloadBert")
  /\ UNCHANGED <<manager, preload, roberta, shap, cache, now, local>>

ShapArrives(j) ==
  /\ Ready(j)
  /\ Runs(j, IF shap = None THEN "getShap" ELSE "scoreShap")
  /\ UNCHANGED <<manager, preload, models, cache, now, local>>

Tick ==
  /\ now < MaxTime
  /\ now' = now + 1
  /\ UNCHANGED <<manager, preload, models, cache, jobs, loop>>

Starts(j) ==
  \/ j \in Checks /\ \E t \in Texts : CheckIsCached(j, t) \/ CheckScans(j, t)
  \/ j \in Checks /\ CheckVerified(j)
  \/ j \in Traces /\ \E t \in Texts : TraceArrives(j, t)
  \/ j \in Reloads /\ ReloadArrives(j)
  \/ j \in Shaps /\ ShapArrives(j)

LoopSteps ==
  \/ HasModel \/ LooksUpModel \/ LoadsModel \/ LoadFails \/ NamesModel \/ GetsModel
  \/ RunsRoberta \/ ComparesWithBert \/ RunsBert

PreloadSteps == PreloadLooksUp \/ PreloadLoads \/ PreloadNames

Next ==
  \/ \E j \in Jobs : Starts(j)
  \/ LoopSteps \/ PreloadSteps \/ Tick

(* The loop and the thread keep running, asyncio resumes what is ready, and *)
(* the LLM call ends with its timeout.  Clients need not come.              *)
Spec ==
  /\ Init /\ [][Next]_vars
  /\ WF_vars(LoopSteps) /\ WF_vars(PreloadSteps)
  /\ WF_vars(\E j \in Checks : CheckVerified(j))

-------------------------------------------------------------------------------
(* Properties *)

Pipelines == {"RoBERTa", "BERT", None}

Results ==
  [toxic : BOOLEAN, score : Scores, pii : SUBSET UNION {t.pii : t \in Texts},
   action : DOMAIN Strictness,
   hidden : SUBSET ((UNION {t.pii : t \in Texts}) \cup {r.category : r \in Range(Policies)}),
   heard : [roberta : Scores \cup {None}, bert : Scores \cup {None}]]

Answers == [text : Texts, result : Results, made : 0..MaxTime, at : 0..MaxTime]

(* The values of all variables; a job runs exactly when the loop has it, and *)
(* has a text exactly while it works on one; the cache never holds more than *)
(* MaxSize entries, and none from the future.                                *)
TypeOK ==
  /\ {model_pipeline, model_name_loaded, roberta, bert, shap} \subseteq Pipelines
  /\ preload \in {"check", "load", "name", "done"}
  /\ Cardinality({t \in Texts : cache[t] # None}) <= MaxSize
  /\ \A t \in Texts : cache[t] # None =>
       cache[t].result \in Results /\ cache[t].at \in 0..now
  /\ \A j \in Jobs :
       /\ step[j] \in {"new", "verify", "running", "done"}
       /\ step[j] = "running" <=> loop.job = j
       /\ local[j].text \in Texts => step[j] \in {"verify", "running"}
       /\ j \in Checks /\ step[j] \in {"verify", "running"} => local[j].text \in Texts
  /\ answer # None => answer \in Answers

(* What the answer to a check or a trace rests on, wherever it came from: it *)
(* is at most Ttl old; toxic only if RoBERTa was not sure of the contrary,   *)
(* or BERT or the keywords said so; not toxic only if every model that       *)
(* answered and the keywords agreed; and personal data that was found is     *)
(* never verified away (enforce_check, detect_toxicity_ensemble).            *)
VerdictsAreJustified ==
  answer # None =>
    LET r == answer.result
        Said(score, least) == score # None /\ score >= least
    IN  /\ answer.at - answer.made <= Ttl
        /\ r.toxic =>
             Said(r.heard.roberta, 50) \/ Said(r.heard.bert, 50) \/ answer.text.keyword > 0
        /\ ~r.toxic =>
             /\ ~Said(r.heard.roberta, 70) /\ ~Said(r.heard.bert, 50)
             /\ answer.text.keyword = 0
        /\ r.pii \subseteq answer.text.pii
        /\ r.pii = {} => answer.text.pii = {}

(* The state is well formed, with a cache within its size and a job running  *)
(* exactly when the loop has it, and answers rest on what was heard.         *)
VerdictsHold == TypeOK /\ VerdictsAreJustified

(* PolicyEngine.evaluate against what its rules say: the strictest rule that *)
(* matches decides, and of the rules that mask only the first one is applied *)
StrictestRuleDecides ==
  answer # None =>
    LET r == answer.result
        Rule(i) == Policies[i]
        Hit == {i \in DOMAIN Policies : Matches(Rule(i), r.toxic, r.score, r.pii)}
        Level(i) == Strictness[Rule(i).action]
        First(i) == \A k \in Hit : Level(k) = Level(i) => i <= k
    IN  \/ r.action = "allow" /\ r.hidden = {} /\ \A i \in Hit : Level(i) = 1
        \/ \E i \in Hit :
             /\ Level(i) > 1 /\ First(i) /\ \A k \in Hit : Level(k) <= Level(i)
             /\ r.action = Rule(i).action
             /\ r.action = "block" => r.hidden = answer.text.pii
             /\ r.action = "mask" =>
                  r.hidden = IF Rule(i).patterns THEN {Rule(i).category} ELSE {}

(* The module variables name the model they hold and every user of a model   *)
(* holds the one it asked for.                                               *)
ModelsAreTheirOwn ==
  /\ model_pipeline = IF loop.load = "name" THEN Wanted ELSE model_name_loaded
  /\ loop.load = "return" => model_pipeline = Wanted
  /\ roberta \in {"RoBERTa", None} /\ bert \in {"BERT", None} /\ shap \in {"BERT", None}

(* A classifier can end up with another model's pipeline, but only while the *)
(* preload thread and the event loop load at the same time: once the thread  *)
(* has ended with everything in place it stays so, whatever is reloaded and  *)
(* whichever loads fail (get_model_pipeline, ModelLoader).                   *)
ModelsStayTheirOwn ==
  [][preload = "done" /\ ModelsAreTheirOwn => ModelsAreTheirOwn']_vars

(* No check that began stays unanswered, although every load and every model *)
(* may fail and the loop may be taken by other jobs first: time and again    *)
(* none is waiting.                                                          *)
ChecksEnd == []<>(\A j \in Checks : step[j] \notin {"verify", "running"})
===============================================================================
