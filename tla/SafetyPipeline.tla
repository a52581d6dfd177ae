---------------------------- MODULE SafetyPipeline ----------------------------
(***************************************************************************)
(* A chat request on its way through the gateway: SafetyPipelineService    *)
(* (gateway/app/safety/pipeline_service.py) for /completions, and the      *)
(* event generators of routers/chat.py and routers/proxy.py for            *)
(* /completions/stream.                                                    *)
(*                                                                         *)
(* Every await of the pipeline is a step; requests interleave, on one      *)
(* event loop or on several replicas.  A text is abstracted to the set of  *)
(* findings the detectors make in it when they are up.  Every detector but *)
(* the blocklist is a remote or model call that fails open, each on its    *)
(* own.  Faults names the failures an instance admits.                     *)
(***************************************************************************)
EXTENDS Naturals, FiniteSets

CONSTANTS
  Requests,  \* chat requests
  Prompts,   \* what prompts may contain: sets of findings
  Answers,   \* what model answers may contain
  Budgets,   \* team_budgets rows a request's team may have, or None
  Faults,    \* the failures admitted, a subset of FaultKinds
  None

Findings == {"toxic", "pii", "injection", "blocklisted"}
FaultKinds == {"guardrails", "injection", "provider", "db", "redis", "process", "client"}
Budget == [hard_cutoff : BOOLEAN, spent : Nat, monthly : Nat]

ASSUME TextsAssumption == Prompts \subseteq SUBSET Findings /\ Answers \subseteq SUBSET Findings
ASSUME BudgetsAssumption == Budgets \subseteq Budget \cup {None} /\ None \notin Budget
ASSUME FaultsAssumption == Faults \subseteq FaultKinds

VARIABLES
  (* the request, as the client sent it *)
  mode,      \* "run" (/completions) or "stream" (/completions/stream)
  prompt,    \* findings in the prompt
  budget,    \* the row check_quota finds for the request's team
  (* its coroutine *)
  pc,        \* the next await
  input_check, output_check,
  quota,     \* what check_quota found: "within", "exceeded" or "unread"; None before
  answer,    \* findings in the provider's answer
  status,    \* HTTP status answered, None while running
  (* the world *)
  provider_calls,     \* calls the model provider received, per request
  delivered,          \* requests whose client received text of the answer
  usage_logs,         \* rows written per request
  guardrail_results,  \* the event recorded per request
  audit,              \* the audit action logged per request
  dashboard_summary   \* the Redis key: the requests it counts, or None

request == <<mode, prompt, budget>>
coroutine == <<input_check, quota, output_check, answer>>
world == <<provider_calls, delivered, usage_logs, guardrail_results, audit, dashboard_summary>>
vars == <<request, pc, coroutine, status, world>>

May(fault) == fault \in Faults

-----------------------------------------------------------------------------
(* Guardrails *)

Check == [toxic : BOOLEAN, pii : BOOLEAN, injection : BOOLEAN, blocklisted : BOOLEAN,
          severity : {"level", "none"}]

ASSUME NoneAssumption ==
  /\ None \notin Check \cup {200, 402, 403, 502}
  /\ None \notin {"chat_blocked", "chat_completed", "stream_completed", "within", "exceeded", "unread"}

(* a detector behind the guardrails service: not flagged when the call fails *)
Detected(kind, text) == {kind \in text} \cup (IF May("guardrails") THEN {FALSE} ELSE {})

(* injection_severity is the int of the Severity enum, but the string "none" *)
(* when the injection pipeline raised                                        *)
InjectionOutcome(text) ==
  {<<"injection" \in text, "level">>} \cup (IF May("injection") THEN {<<FALSE, "none">>} ELSE {})

(* run_input_guardrails: the checks it may return for a text *)
Guardrails(text) ==
  {[toxic |-> t, pii |-> p, injection |-> i[1], severity |-> i[2],
    blocklisted |-> "blocklisted" \in text] :
      t \in Detected("toxic", text), p \in Detected("pii", text), i \in InjectionOutcome(text)}

(* mutant: "and" for "or" *)
BlocksOnBoth(check) == check.blocklisted /\ check.injection

Blocks(check) == check.blocklisted \/ check.injection

HasInput(check) == check.toxic \/ check.pii \/ check.injection
HasOutput(check) == check.toxic \/ check.pii \/ check.blocklisted \/ check.injection

(* mutant: the branches swapped *)
CompletedEventSwapped(in, out) == IF HasInput(in) THEN out ELSE in

(* the event written after a completed call: the input's flags hide the output's *)
CompletedEvent(in, out) == IF HasInput(in) THEN in ELSE out

(* guardrail_results has pii_types TEXT[] and injection_severity INTEGER; the *)
(* repository binds a comma-joined string and input_check's severity          *)
InsertAccepted(event) == ~event.pii /\ event.severity = "level"

(* mutant: the last dollar of a budget does not count *)
QuotaAllowsAtLimit(b) == ~(b # None /\ b.hard_cutoff /\ b.spent > b.monthly)

(* check_quota: only a hard cutoff that is reached denies *)
QuotaAllows(b) == ~(b # None /\ b.hard_cutoff /\ b.spent >= b.monthly)

-----------------------------------------------------------------------------
Init ==
  /\ mode \in [Requests -> {"run", "stream"}]
  /\ prompt \in [Requests -> Prompts]
  /\ budget \in [Requests -> Budgets]
  /\ pc = [r \in Requests |-> "guard_in"]
  /\ input_check = [r \in Requests |-> None]
  /\ quota = [r \in Requests |-> None]
  /\ output_check = [r \in Requests |-> None]
  /\ answer = [r \in Requests |-> {}]
  /\ status = [r \in Requests |-> None]
  /\ provider_calls = [r \in Requests |-> 0]
  /\ delivered = {}
  /\ usage_logs = [r \in Requests |-> 0]
  /\ guardrail_results = [r \in Requests |-> None]
  /\ audit = [r \in Requests |-> None]
  /\ dashboard_summary = None

At(r, m, label) == mode[r] = m /\ pc[r] = label
Goto(r, label) == pc' = [pc EXCEPT ![r] = label] /\ UNCHANGED status
Answered(r, code) ==
  /\ pc' = [pc EXCEPT ![r] = "done"]
  /\ status' = [status EXCEPT ![r] = code]

(* mutant: a blocked stream request is left without an answer *)
GuardInputNoAnswer(r) ==
  /\ pc[r] = "guard_in"
  /\ \E check \in Guardrails(prompt[r]) :
       /\ input_check' = [input_check EXCEPT ![r] = check]
       /\ \/ Blocks(check) /\ mode[r] = "run" /\ Goto(r, "record_blocked")
          \/ ~Blocks(check) /\ mode[r] = "run" /\ Goto(r, "quota")
          \/ ~Blocks(check) /\ mode[r] = "stream" /\ Goto(r, "stream")
  /\ UNCHANGED <<request, quota, output_check, answer, world>>

(* The input guardrails; blocked requests go on to be recorded, except     *)
(* that the stream routes only answer 403.                                 *)
GuardInput(r) ==
  /\ pc[r] = "guard_in"
  /\ \E check \in Guardrails(prompt[r]) :
       /\ input_check' = [input_check EXCEPT ![r] = check]
       /\ \/ Blocks(check) /\ mode[r] = "run" /\ Goto(r, "record_blocked")
          \/ Blocks(check) /\ mode[r] = "stream" /\ Answered(r, 403)
          \/ ~Blocks(check) /\ mode[r] = "run" /\ Goto(r, "quota")
          \/ ~Blocks(check) /\ mode[r] = "stream" /\ Goto(r, "stream")
  /\ UNCHANGED <<request, quota, output_check, answer, world>>

(* guardrail_repository.record inside try/except: written or lost *)
Record(r, event) ==
  \/ /\ InsertAccepted(event)
     /\ guardrail_results' = [guardrail_results EXCEPT ![r] = event]
  \/ /\ ~InsertAccepted(event) \/ May("db")
     /\ UNCHANGED guardrail_results

(* log_audit: written, or lost without a word *)
Audit(r, action) ==
  \/ audit' = [audit EXCEPT ![r] = action]
  \/ May("db") /\ UNCHANGED audit

RecordBlocked(r) ==
  /\ At(r, "run", "record_blocked")
  /\ Record(r, input_check[r])
  /\ Goto(r, "audit_blocked")
  /\ UNCHANGED <<request, coroutine, provider_calls, delivered, usage_logs, audit,
                 dashboard_summary>>

AuditBlocked(r) ==
  /\ At(r, "run", "audit_blocked")
  /\ Audit(r, "chat_blocked")
  /\ Goto(r, "reject")
  /\ UNCHANGED <<request, coroutine, provider_calls, delivered, usage_logs,
                 guardrail_results, dashboard_summary>>

(* mutant: no raise after the audit entry *)
RejectGoesOn(r) ==
  /\ At(r, "run", "reject")
  /\ Goto(r, "quota")
  /\ UNCHANGED <<request, coroutine, world>>

(* raise HTTPException(403) *)
Reject(r) ==
  /\ At(r, "run", "reject")
  /\ Answered(r, 403)
  /\ UNCHANGED <<request, coroutine, world>>

(* the budget pre-check fails open *)
CheckQuota(r) ==
  /\ At(r, "run", "quota")
  /\ \/ /\ QuotaAllows(budget[r])
        /\ quota' = [quota EXCEPT ![r] = "within"] /\ Goto(r, "forward")
     \/ /\ ~QuotaAllows(budget[r])
        /\ quota' = [quota EXCEPT ![r] = "exceeded"] /\ Answered(r, 402)
     \/ /\ May("db")
        /\ quota' = [quota EXCEPT ![r] = "unread"] /\ Goto(r, "forward")
  /\ UNCHANGED <<request, input_check, output_check, answer, world>>

(* mutant: a failed call is sent again *)
ForwardRetries(r) ==
  /\ At(r, "run", "forward")
  /\ provider_calls' = [provider_calls EXCEPT ![r] = @ + 1]
  /\ \/ \E a \in Answers : answer' = [answer EXCEPT ![r] = a] /\ Goto(r, "usage")
     \/ May("provider") /\ Goto(r, "forward") /\ UNCHANGED answer
  /\ UNCHANGED <<request, input_check, quota, output_check, delivered, usage_logs,
                 guardrail_results, audit, dashboard_summary>>

(* provider.chat: one call, never retried *)
Forward(r) ==
  /\ At(r, "run", "forward")
  /\ provider_calls' = [provider_calls EXCEPT ![r] = @ + 1]
  /\ \/ \E a \in Answers : answer' = [answer EXCEPT ![r] = a] /\ Goto(r, "usage")
     \/ May("provider") /\ Answered(r, 502) /\ UNCHANGED answer
  /\ UNCHANGED <<request, input_check, quota, output_check, delivered, usage_logs,
                 guardrail_results, audit, dashboard_summary>>

RecordUsage(r) ==
  /\ At(r, "run", "usage")
  /\ \/ usage_logs' = [usage_logs EXCEPT ![r] = @ + 1]
     \/ May("db") /\ UNCHANGED usage_logs
  /\ Goto(r, "guard_out")
  /\ UNCHANGED <<request, coroutine, provider_calls, delivered, guardrail_results, audit,
                 dashboard_summary>>

(* mutant: an answer that would be blocked as a prompt is a rejection *)
GuardOutputRejects(r) ==
  /\ At(r, "run", "guard_out")
  /\ \E check \in Guardrails(answer[r]) :
       /\ output_check' = [output_check EXCEPT ![r] = check]
       /\ IF Blocks(check) THEN Answered(r, 403) ELSE Goto(r, "record")
  /\ UNCHANGED <<request, input_check, quota, answer, world>>

GuardOutput(r) ==
  /\ At(r, "run", "guard_out")
  /\ \E check \in Guardrails(answer[r]) : output_check' = [output_check EXCEPT ![r] = check]
  /\ Goto(r, "record")
  /\ UNCHANGED <<request, input_check, quota, answer, world>>

RecordCompleted(r) ==
  /\ At(r, "run", "record")
  /\ IF HasInput(input_check[r]) \/ HasOutput(output_check[r])
     THEN Record(r, CompletedEvent(input_check[r], output_check[r]))
     ELSE UNCHANGED guardrail_results
  /\ Goto(r, "invalidate")
  /\ UNCHANGED <<request, coroutine, provider_calls, delivered, usage_logs, audit,
                 dashboard_summary>>

InvalidateDashboard(r) ==
  /\ At(r, "run", "invalidate")
  /\ \/ dashboard_summary' = None
     \/ May("redis") /\ UNCHANGED dashboard_summary
  /\ Goto(r, "audit")
  /\ UNCHANGED <<request, coroutine, provider_calls, delivered, usage_logs,
                 guardrail_results, audit>>

AuditCompleted(r) ==
  /\ At(r, "run", "audit")
  /\ Audit(r, "chat_completed")
  /\ Goto(r, "respond")
  /\ UNCHANGED <<request, coroutine, provider_calls, delivered, usage_logs, guardrail_results,
                 dashboard_summary>>

(***************************************************************************)
(* The stream routes: the chunks go out as they arrive, then the whole     *)
(* text is checked and the verdict is sent as one more event.  No quota,   *)
(* usage row, recorded event or invalidation.                              *)
(***************************************************************************)
Stream(r) ==
  /\ At(r, "stream", "stream")
  /\ provider_calls' = [provider_calls EXCEPT ![r] = @ + 1]
  /\ \/ \E a \in Answers : answer' = [answer EXCEPT ![r] = a] /\ Goto(r, "stream_guard")
                           /\ delivered' = delivered \cup {r}
     \/ (* the provider raised, before or after its first chunk: an error event *)
        /\ May("provider") /\ Answered(r, 200) /\ UNCHANGED answer
        /\ delivered' \in {delivered, delivered \cup {r}}
  /\ UNCHANGED <<request, input_check, quota, output_check, usage_logs, guardrail_results, audit,
                 dashboard_summary>>

StreamGuard(r) ==
  /\ At(r, "stream", "stream_guard")
  /\ \E check \in Guardrails(answer[r]) : output_check' = [output_check EXCEPT ![r] = check]
  /\ Goto(r, "stream_audit")
  /\ UNCHANGED <<request, input_check, quota, answer, world>>

StreamAudit(r) ==
  /\ At(r, "stream", "stream_audit")
  /\ Audit(r, "stream_completed")
  /\ Goto(r, "respond")
  /\ UNCHANGED <<request, coroutine, provider_calls, delivered, usage_logs,
                 guardrail_results, dashboard_summary>>

(* the response is returned, or the stream ended with [DONE] *)
Respond(r) ==
  /\ pc[r] = "respond"
  /\ Answered(r, 200)
  /\ delivered' = delivered \cup {r}
  /\ UNCHANGED <<request, coroutine, provider_calls, usage_logs, guardrail_results, audit,
                 dashboard_summary>>

(* the client of a stream disconnects: the generator is cancelled *)
Disconnect(r) ==
  /\ May("client")
  /\ mode[r] = "stream" /\ pc[r] \in {"stream_guard", "stream_audit", "respond"}
  /\ Answered(r, 200)
  /\ UNCHANGED <<request, coroutine, world>>

(* the gateway process stops: the request is never answered *)
Crash(r) ==
  /\ May("process")
  /\ pc[r] # "done"
  /\ pc' = [pc EXCEPT ![r] = "done"]
  /\ UNCHANGED <<request, coroutine, status, world>>

Handle(r) ==
  \/ GuardInput(r) \/ RecordBlocked(r) \/ AuditBlocked(r) \/ Reject(r) \/ CheckQuota(r)
  \/ Forward(r) \/ RecordUsage(r) \/ GuardOutput(r) \/ RecordCompleted(r)
  \/ InvalidateDashboard(r) \/ AuditCompleted(r) \/ Stream(r) \/ StreamGuard(r)
  \/ StreamAudit(r) \/ Respond(r)

RequestStep(r) == Handle(r) \/ Disconnect(r) \/ Crash(r)

Next == \E r \in Requests : RequestStep(r)

Spec == Init /\ [][Next]_vars

-----------------------------------------------------------------------------
TypeOK ==
  /\ mode \in [Requests -> {"run", "stream"}]
  /\ prompt \in [Requests -> Prompts]
  /\ budget \in [Requests -> Budgets]
  /\ pc \in [Requests -> {"guard_in", "record_blocked", "audit_blocked", "reject", "quota",
                          "forward", "usage", "guard_out", "record", "invalidate", "audit",
                          "stream", "stream_guard", "stream_audit", "respond", "done"}]
  /\ input_check \in [Requests -> Check \cup {None}]
  /\ quota \in [Requests -> {None, "within", "exceeded", "unread"}]
  /\ output_check \in [Requests -> Check \cup {None}]
  /\ answer \in [Requests -> SUBSET Findings]
  /\ status \in [Requests -> {None, 200, 402, 403, 502}]
  /\ provider_calls \in [Requests -> Nat]
  /\ delivered \subseteq Requests
  /\ usage_logs \in [Requests -> Nat]
  /\ guardrail_results \in [Requests -> Check \cup {None}]
  /\ audit \in [Requests -> {None, "chat_blocked", "chat_completed", "stream_completed"}]
  /\ dashboard_summary \in (SUBSET Requests) \cup {None}

(* the team has reached a cutoff that its budget says is hard *)
OverCutoff(r) == budget[r] # None /\ budget[r].hard_cutoff /\ budget[r].spent >= budget[r].monthly

(***************************************************************************)
(* What the provider is never sent, whatever fails: a prompt with a        *)
(* blocklisted word; an injection, unless the injection pipeline itself    *)
(* raised; on /completions a call of a team over its hard cutoff, unless   *)
(* the budget table could not be read for this very call.                  *)
(***************************************************************************)
RejectedNeverForwarded ==
  \A r \in Requests : provider_calls[r] > 0 =>
    /\ "blocklisted" \notin prompt[r]
    /\ "injection" \in prompt[r] => input_check[r].severity = "none"
    /\ mode[r] = "run" /\ OverCutoff(r) => quota[r] = "unread"

(***************************************************************************)
(* The provider is called at most once per request, and usage is recorded  *)
(* at most once and only for a call it answered: a request that ends in    *)
(* 402, 403 or 502 costs nobody anything.                                  *)
(***************************************************************************)
UsageIsForAnsweredCalls ==
  \A r \in Requests :
    /\ provider_calls[r] <= 1
    /\ usage_logs[r] <= provider_calls[r]
    /\ usage_logs[r] > 0 => status[r] \notin {402, 403, 502}

(* between the audit entry and the answer it is about, or stopped there *)
YetToAnswer(r) == status[r] = None /\ pc[r] \in {"reject", "respond", "done"}

(***************************************************************************)
(* The audit trail agrees with what happened: "chat_blocked" is logged for *)
(* requests that never reached the provider and are answered 403, if they  *)
(* are answered; "chat_completed" and "stream_completed" for answers whose *)
(* output guardrails ran, and which were delivered but for a process that  *)
(* stopped between the entry and the answer.                               *)
(***************************************************************************)
AuditIsTruthful ==
  \A r \in Requests :
    /\ audit[r] = "chat_blocked" =>
         provider_calls[r] = 0 /\ r \notin delivered /\ (status[r] = 403 \/ YetToAnswer(r))
    /\ audit[r] \in {"chat_completed", "stream_completed"} =>
         provider_calls[r] = 1 /\ output_check[r] # None
    /\ audit[r] = "chat_completed" => (r \in delivered /\ status[r] = 200) \/ YetToAnswer(r)
    /\ audit[r] = "stream_completed" => r \in delivered

(***************************************************************************)
(* An incident on the dashboard stands for something a detector found in   *)
(* the prompt or the answer of that request, and never for PII.            *)
(***************************************************************************)
RecordedIsFound ==
  \A r \in Requests : guardrail_results[r] # None =>
    LET event == guardrail_results[r]
        seen == prompt[r] \cup answer[r]
    IN  /\ event.toxic \/ event.injection \/ event.blocklisted
        /\ event.toxic => "toxic" \in seen
        /\ event.injection => "injection" \in seen
        /\ event.blocklisted => "blocklisted" \in seen

(***************************************************************************)
(* The promise the chat routes rely on: this module implements             *)
(* PipelinePromise.                                                        *)
(***************************************************************************)
Outcome(r) ==
  CASE pc[r] # "done" -> IF output_check[r] = None THEN "pending" ELSE "screened"
    [] pc[r] = "done" /\ status[r] = None -> "dropped"
    [] pc[r] = "done" /\ status[r] \in {402, 403} -> "rejected"
    [] pc[r] = "done" /\ status[r] = 200 /\ (mode[r] = "run" \/ output_check[r] # None) -> "answered"
    [] OTHER -> "failed"

outcomes == [r \in Requests |-> Outcome(r)]

Promise == INSTANCE PipelinePromise WITH outcome <- outcomes, calls <- provider_calls

PromiseKept == Promise!PromiseSpec

(***************************************************************************)
(* "Write ALL flagged traces (toxic, PII, injection - always persisted)"   *)
(* (pipeline_service.py:150), in an instance without failures.             *)
(***************************************************************************)
FlaggedTracesPersisted ==
  \A r \in Requests :
    mode[r] = "run" /\ status[r] = 200 /\ (HasInput(input_check[r]) \/ HasOutput(output_check[r]))
      => guardrail_results[r] # None
=============================================================================
