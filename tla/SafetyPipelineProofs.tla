------------------------- MODULE SafetyPipelineProofs -------------------------
(***************************************************************************)
(* Proofs about SafetyPipeline, for any requests, texts, budgets and       *)
(* failures.                                                               *)
(*                                                                         *)
(* RejectedNeverForwarded speaks of requests the provider was called for;  *)
(* to be inductive it has to say what holds of a request on its way there: *)
(* it passed the check of its own prompt (Screened) and, on /completions,  *)
(* the budget (WithinBudget).  UsageIsForAnsweredCalls needs to know which *)
(* labels come before the call and before the usage row (InOrder).         *)
(*                                                                         *)
(* The last part is about GatewayDashboard, the pipeline together with the *)
(* dashboards that count what it records.                                  *)
(***************************************************************************)
EXTENDS GatewayDashboard, TLAPS

Screened ==
  \A r \in Requests : pc[r] \in {"quota", "forward", "stream"} \/ provider_calls[r] > 0 =>
    input_check[r] \in Guardrails(prompt[r]) /\ ~Blocks(input_check[r])

WithinBudget ==
  \A r \in Requests : mode[r] = "run" /\ (pc[r] = "forward" \/ provider_calls[r] > 0) =>
    (OverCutoff(r) => quota[r] = "unread")

BeforeCall == {"guard_in", "record_blocked", "audit_blocked", "reject", "quota", "forward", "stream"}
AfterCall ==
  {"usage", "guard_out", "record", "invalidate", "audit", "stream_guard", "stream_audit", "respond"}

InOrder ==
  \A r \in Requests :
    /\ provider_calls[r] <= 1
    /\ pc[r] \in BeforeCall => provider_calls[r] = 0
    /\ pc[r] \in AfterCall => provider_calls[r] = 1
    /\ pc[r] \in {"usage", "stream_guard", "stream_audit"} => usage_logs[r] = 0
    /\ usage_logs[r] <= provider_calls[r]
    /\ pc[r] # "done" => status[r] = None
    /\ usage_logs[r] > 0 => status[r] \in {None, 200}

(* whether the output guardrails ran shows in the label *)
ScreenedInOrder ==
  \A r \in Requests :
    /\ pc[r] \in BeforeCall \cup {"usage", "guard_out", "stream_guard"} => output_check[r] = None
    /\ pc[r] \in {"record", "invalidate", "audit", "stream_audit", "respond"} => output_check[r] \in Check

IInv == TypeOK /\ Screened /\ WithinBudget /\ InOrder /\ ScreenedInOrder

-----------------------------------------------------------------------------
(* What every check of a text says, whichever detectors were up: the       *)
(* blocklist is never missed, an injection only with severity "none".      *)
LEMMA GuardrailsSay ==
  ASSUME NEW text \in SUBSET Findings, NEW check \in Guardrails(text)
  PROVE  /\ check \in Check
         /\ check.blocklisted = ("blocklisted" \in text)
         /\ "injection" \in text /\ ~check.injection => check.severity = "none"
<1>1. PICK t \in Detected("toxic", text), p \in Detected("pii", text), i \in InjectionOutcome(text) :
        check = [toxic |-> t, pii |-> p, injection |-> i[1], severity |-> i[2],
                 blocklisted |-> "blocklisted" \in text]
  BY DEF Guardrails
<1>2. t \in BOOLEAN /\ p \in BOOLEAN
  BY DEF Detected
<1>3. i = <<"injection" \in text, "level">> \/ i = <<FALSE, "none">>
  BY DEF InjectionOutcome
<1>4. /\ i[1] \in BOOLEAN /\ i[2] \in {"level", "none"}
      /\ "injection" \in text /\ ~i[1] => i[2] = "none"
  <2>1. CASE i = <<FALSE, "none">>
    BY <2>1
  <2>2. CASE i = <<"injection" \in text, "level">> /\ "injection" \in text
    <3>1. i = <<TRUE, "level">>
      BY <2>2
    <3> QED
      BY <3>1
  <2>3. CASE i = <<"injection" \in text, "level">> /\ "injection" \notin text
    <3>1. ("injection" \in text) = FALSE
      BY <2>3
    <3>2. i = <<FALSE, "level">>
      BY <2>3, <3>1, Zenon
    <3> QED
      BY <2>3, <3>2
  <2> QED
    BY <1>3, <2>1, <2>2, <2>3
<1>5. check.blocklisted = ("blocklisted" \in text) /\ check.injection = i[1] /\ check.severity = i[2]
  BY <1>1
<1>7. check \in Check
  BY <1>1, <1>2, <1>4 DEF Check
<1> QED
  BY <1>4, <1>5, <1>7

LEMMA PromptsAreTexts ==
  ASSUME TypeOK, NEW r \in Requests
  PROVE  prompt[r] \in SUBSET Findings
  BY TextsAssumption DEF TypeOK

LEMMA InitIInv == Init => IInv
<1> SUFFICES ASSUME Init PROVE IInv
  OBVIOUS
<1>1. TypeOK
  BY DEF Init, TypeOK
<1>2. Screened /\ WithinBudget /\ InOrder /\ ScreenedInOrder
  BY DEF Init, Screened, WithinBudget, InOrder, AfterCall,
            ScreenedInOrder, BeforeCall
<1> QED
  BY <1>1, <1>2 DEF IInv

-----------------------------------------------------------------------------
LEMMA TypeStep ==
  ASSUME TypeOK, [Next]_vars
  PROVE  TypeOK'
<1>1. CASE UNCHANGED vars
  BY <1>1 DEF TypeOK, vars, request, coroutine, world
<1>2. ASSUME NEW r \in Requests, RequestStep(r) PROVE TypeOK'
  <2> USE DEF TypeOK, request, coroutine, world, At, Goto, Answered
  <2>1. CASE GuardInput(r)
    <3>1. PICK check \in Guardrails(prompt[r]) :
            /\ input_check' = [input_check EXCEPT ![r] = check]
            /\ \/ Goto(r, "record_blocked") \/ Goto(r, "quota") \/ Goto(r, "stream")
               \/ Answered(r, 403)
      BY <2>1 DEF GuardInput
    <3>2. check \in Check
      BY PromptsAreTexts, GuardrailsSay
    <3>3. UNCHANGED <<request, quota, output_check, answer, world>>
      BY <2>1 DEF GuardInput
    <3> QED
      BY <3>1, <3>2, <3>3
  <2>2. CASE RecordBlocked(r)
    BY <2>2 DEF RecordBlocked, Record
  <2>3. CASE AuditBlocked(r)
    BY <2>3 DEF AuditBlocked, Audit
  <2>4. CASE CheckQuota(r)
    BY <2>4 DEF CheckQuota
  <2>5. CASE Forward(r)
    BY <2>5, TextsAssumption DEF Forward
  <2>6. CASE RecordUsage(r)
    BY <2>6 DEF RecordUsage
  <2>7. CASE GuardOutput(r)
    <3>1. PICK check \in Guardrails(answer[r]) :
            output_check' = [output_check EXCEPT ![r] = check]
      BY <2>7 DEF GuardOutput
    <3>2. check \in Check
      BY GuardrailsSay
    <3> QED
      BY <2>7, <3>1, <3>2 DEF GuardOutput
  <2>8. CASE RecordCompleted(r)
    BY <2>8 DEF RecordCompleted, Record, CompletedEvent
  <2>9. CASE InvalidateDashboard(r)
    BY <2>9 DEF InvalidateDashboard
  <2>10. CASE AuditCompleted(r)
    BY <2>10 DEF AuditCompleted, Audit
  <2>11. CASE Stream(r)
    BY <2>11, TextsAssumption DEF Stream
  <2>12. CASE StreamGuard(r)
    <3>1. PICK check \in Guardrails(answer[r]) :
            output_check' = [output_check EXCEPT ![r] = check]
      BY <2>12 DEF StreamGuard
    <3>2. check \in Check
      BY GuardrailsSay
    <3> QED
      BY <2>12, <3>1, <3>2 DEF StreamGuard
  <2>13. CASE StreamAudit(r)
    BY <2>13 DEF StreamAudit, Audit
  <2>14. CASE Disconnect(r)
    BY <2>14 DEF Disconnect
  <2>15. CASE Crash(r)
    BY <2>15 DEF Crash
  <2>16. CASE Reject(r)
    BY <2>16 DEF Reject
  <2>17. CASE Respond(r)
    BY <2>17 DEF Respond
  <2> HIDE DEF TypeOK, request, coroutine, world, At, Goto, Answered
  <2> QED
    BY <1>2, <2>1, <2>2, <2>3, <2>4, <2>5, <2>6, <2>7, <2>8, <2>9, <2>10, <2>11, <2>12,
       <2>13, <2>14, <2>15, <2>16, <2>17 DEF RequestStep, Handle
<1> QED
  BY <1>1, <1>2 DEF Next

(* A request only gets on its way to the provider past its own check. *)
LEMMA ScreenedStep ==
  ASSUME TypeOK, Screened, InOrder, [Next]_vars
  PROVE  Screened'
<1>1. CASE UNCHANGED vars
  BY <1>1 DEF Screened, vars, request, coroutine, world
<1>2. ASSUME NEW r \in Requests, RequestStep(r) PROVE Screened'
  <2> USE DEF TypeOK, Screened, InOrder, BeforeCall, AfterCall, request, coroutine, world,
         At, Goto, Answered
  <2>1. CASE GuardInput(r)
    BY <2>1 DEF GuardInput
  <2>2. CASE RecordBlocked(r)
    BY <2>2 DEF RecordBlocked
  <2>3. CASE AuditBlocked(r)
    BY <2>3 DEF AuditBlocked
  <2>4. CASE CheckQuota(r)
    BY <2>4 DEF CheckQuota
  <2>5. CASE Forward(r)
    BY <2>5 DEF Forward
  <2>6. CASE RecordUsage(r)
    BY <2>6 DEF RecordUsage
  <2>7. CASE GuardOutput(r)
    BY <2>7 DEF GuardOutput
  <2>8. CASE RecordCompleted(r)
    BY <2>8 DEF RecordCompleted
  <2>9. CASE InvalidateDashboard(r)
    BY <2>9 DEF InvalidateDashboard
  <2>10. CASE AuditCompleted(r)
    BY <2>10 DEF AuditCompleted
  <2>11. CASE Stream(r)
    BY <2>11 DEF Stream
  <2>12. CASE StreamGuard(r)
    BY <2>12 DEF StreamGuard
  <2>13. CASE StreamAudit(r)
    BY <2>13 DEF StreamAudit
  <2>14. CASE Disconnect(r)
    BY <2>14 DEF Disconnect
  <2>15. CASE Crash(r)
    BY <2>15 DEF Crash
  <2>16. CASE Reject(r)
    BY <2>16 DEF Reject
  <2>17. CASE Respond(r)
    BY <2>17 DEF Respond
  <2> HIDE DEF TypeOK, Screened, InOrder, BeforeCall, AfterCall, request, coroutine, world,
         At, Goto, Answered
  <2> QED
    BY <1>2, <2>1, <2>2, <2>3, <2>4, <2>5, <2>6, <2>7, <2>8, <2>9, <2>10, <2>11, <2>12,
           <2>13, <2>14, <2>15, <2>16, <2>17 DEF RequestStep, Handle
<1> QED
  BY <1>1, <1>2 DEF Next

(* /completions calls the provider after the budget check. *)
LEMMA WithinBudgetStep ==
  ASSUME TypeOK, WithinBudget, InOrder, [Next]_vars
  PROVE  WithinBudget'
<1>1. CASE UNCHANGED vars
  BY <1>1 DEF WithinBudget, OverCutoff, vars, request, coroutine, world
<1>2. ASSUME NEW r \in Requests, RequestStep(r) PROVE WithinBudget'
  <2> USE DEF TypeOK, WithinBudget, InOrder, BeforeCall, AfterCall, request, coroutine,
         world, At, Goto, Answered, OverCutoff
  <2>1. CASE GuardInput(r)
    BY <2>1 DEF GuardInput
  <2>2. CASE RecordBlocked(r)
    BY <2>2 DEF RecordBlocked
  <2>3. CASE AuditBlocked(r)
    BY <2>3 DEF AuditBlocked
  <2>4. CASE CheckQuota(r)
    BY <2>4 DEF CheckQuota, QuotaAllows
  <2>5. CASE Forward(r)
    BY <2>5 DEF Forward
  <2>6. CASE RecordUsage(r)
    BY <2>6 DEF RecordUsage
  <2>7. CASE GuardOutput(r)
    BY <2>7 DEF GuardOutput
  <2>8. CASE RecordCompleted(r)
    BY <2>8 DEF RecordCompleted
  <2>9. CASE InvalidateDashboard(r)
    BY <2>9 DEF InvalidateDashboard
  <2>10. CASE AuditCompleted(r)
    BY <2>10 DEF AuditCompleted
  <2>11. CASE Stream(r)
    BY <2>11 DEF Stream
  <2>12. CASE StreamGuard(r)
    BY <2>12 DEF StreamGuard
  <2>13. CASE StreamAudit(r)
    BY <2>13 DEF StreamAudit
  <2>14. CASE Disconnect(r)
    BY <2>14 DEF Disconnect
  <2>15. CASE Crash(r)
    BY <2>15 DEF Crash
  <2>16. CASE Reject(r)
    BY <2>16 DEF Reject
  <2>17. CASE Respond(r)
    BY <2>17 DEF Respond
  <2> HIDE DEF TypeOK, WithinBudget, InOrder, BeforeCall, AfterCall, request, coroutine,
         world, At, Goto, Answered, OverCutoff
  <2> QED
    BY <1>2, <2>1, <2>2, <2>3, <2>4, <2>5, <2>6, <2>7, <2>8, <2>9, <2>10, <2>11, <2>12,
           <2>13, <2>14, <2>15, <2>16, <2>17 DEF RequestStep, Handle
<1> QED
  BY <1>1, <1>2 DEF Next

(* Calls, usage rows and answers come in the order of the labels. *)
LEMMA InOrderStep ==
  ASSUME TypeOK, InOrder, [Next]_vars
  PROVE  InOrder'
<1>1. CASE UNCHANGED vars
  BY <1>1 DEF InOrder, vars, request, coroutine, world
<1>2. ASSUME NEW r \in Requests, RequestStep(r) PROVE InOrder'
  <2> USE DEF TypeOK, InOrder, BeforeCall, AfterCall, request, coroutine, world, At, Goto,
         Answered
  <2>1. CASE GuardInput(r)
    BY <2>1, NoneAssumption DEF GuardInput
  <2>2. CASE RecordBlocked(r)
    BY <2>2, NoneAssumption DEF RecordBlocked
  <2>3. CASE AuditBlocked(r)
    BY <2>3, NoneAssumption DEF AuditBlocked
  <2>4. CASE CheckQuota(r)
    BY <2>4, NoneAssumption DEF CheckQuota
  <2>5. CASE Forward(r)
    BY <2>5, NoneAssumption DEF Forward
  <2>6. CASE RecordUsage(r)
    BY <2>6, NoneAssumption DEF RecordUsage
  <2>7. CASE GuardOutput(r)
    BY <2>7, NoneAssumption DEF GuardOutput
  <2>8. CASE RecordCompleted(r)
    BY <2>8, NoneAssumption DEF RecordCompleted
  <2>9. CASE InvalidateDashboard(r)
    BY <2>9, NoneAssumption DEF InvalidateDashboard
  <2>10. CASE AuditCompleted(r)
    BY <2>10, NoneAssumption DEF AuditCompleted
  <2>11. CASE Stream(r)
    BY <2>11, NoneAssumption DEF Stream
  <2>12. CASE StreamGuard(r)
    BY <2>12, NoneAssumption DEF StreamGuard
  <2>13. CASE StreamAudit(r)
    BY <2>13, NoneAssumption DEF StreamAudit
  <2>14. CASE Disconnect(r)
    BY <2>14, NoneAssumption DEF Disconnect
  <2>15. CASE Crash(r)
    BY <2>15, NoneAssumption DEF Crash
  <2>16. CASE Reject(r)
    BY <2>16, NoneAssumption DEF Reject
  <2>17. CASE Respond(r)
    BY <2>17, NoneAssumption DEF Respond
  <2> HIDE DEF TypeOK, InOrder, BeforeCall, AfterCall, request, coroutine, world, At, Goto,
         Answered
  <2> QED
    BY <1>2, <2>1, <2>2, <2>3, <2>4, <2>5, <2>6, <2>7, <2>8, <2>9, <2>10, <2>11, <2>12,
           <2>13, <2>14, <2>15, <2>16, <2>17 DEF RequestStep, Handle
<1> QED
  BY <1>1, <1>2 DEF Next

(* The output guardrails run once, between the call and what is recorded. *)
LEMMA ScreenedInOrderStep ==
  ASSUME TypeOK, ScreenedInOrder, [Next]_vars
  PROVE  ScreenedInOrder'
<1>1. CASE UNCHANGED vars
  BY <1>1 DEF ScreenedInOrder, vars, request, coroutine, world
<1>2. ASSUME NEW r \in Requests, RequestStep(r) PROVE ScreenedInOrder'
  <2> USE DEF TypeOK, ScreenedInOrder, BeforeCall, request, coroutine, world, At, Goto, Answered
  <2>1. CASE GuardInput(r)
    BY <2>1 DEF GuardInput
  <2>2. CASE RecordBlocked(r)
    BY <2>2 DEF RecordBlocked
  <2>3. CASE AuditBlocked(r)
    BY <2>3 DEF AuditBlocked
  <2>4. CASE CheckQuota(r)
    BY <2>4 DEF CheckQuota
  <2>5. CASE Forward(r)
    BY <2>5 DEF Forward
  <2>6. CASE RecordUsage(r)
    BY <2>6 DEF RecordUsage
  <2>7. CASE GuardOutput(r)
    <3>1. PICK check \in Guardrails(answer[r]) :
            output_check' = [output_check EXCEPT ![r] = check]
      BY <2>7 DEF GuardOutput
    <3>2. check \in Check
      BY GuardrailsSay
    <3> QED
      BY <2>7, <3>1, <3>2 DEF GuardOutput
  <2>8. CASE RecordCompleted(r)
    BY <2>8 DEF RecordCompleted
  <2>9. CASE InvalidateDashboard(r)
    BY <2>9 DEF InvalidateDashboard
  <2>10. CASE AuditCompleted(r)
    BY <2>10 DEF AuditCompleted
  <2>11. CASE Stream(r)
    BY <2>11 DEF Stream
  <2>12. CASE StreamGuard(r)
    <3>1. PICK check \in Guardrails(answer[r]) :
            output_check' = [output_check EXCEPT ![r] = check]
      BY <2>12 DEF StreamGuard
    <3>2. check \in Check
      BY GuardrailsSay
    <3> QED
      BY <2>12, <3>1, <3>2 DEF StreamGuard
  <2>13. CASE StreamAudit(r)
    BY <2>13 DEF StreamAudit
  <2>14. CASE Disconnect(r)
    BY <2>14 DEF Disconnect
  <2>15. CASE Crash(r)
    BY <2>15 DEF Crash
  <2>16. CASE Reject(r)
    BY <2>16 DEF Reject
  <2>17. CASE Respond(r)
    BY <2>17 DEF Respond
  <2> HIDE DEF TypeOK, ScreenedInOrder, BeforeCall, request, coroutine, world, At, Goto,
         Answered
  <2> QED
    BY <1>2, <2>1, <2>2, <2>3, <2>4, <2>5, <2>6, <2>7, <2>8, <2>9, <2>10, <2>11, <2>12,
           <2>13, <2>14, <2>15, <2>16, <2>17 DEF RequestStep, Handle
<1> QED
  BY <1>1, <1>2 DEF Next

THEOREM Invariance == Spec => []IInv
<1>1. Init => IInv
  BY InitIInv
<1>2. IInv /\ [Next]_vars => IInv'
  BY TypeStep, ScreenedStep, WithinBudgetStep, InOrderStep, ScreenedInOrderStep DEF IInv
<1> QED
  BY <1>1, <1>2, PTL DEF Spec

(* Every variable of the pipeline keeps its type. *)
THEOREM TypeCorrect == Spec => []TypeOK
<1>1. IInv => TypeOK
  BY DEF IInv
<1> QED
  BY <1>1, Invariance, PTL

LEMMA ScreenedMeans == IInv => RejectedNeverForwarded
<1> SUFFICES ASSUME IInv, NEW r \in Requests, provider_calls[r] > 0
             PROVE  /\ "blocklisted" \notin prompt[r]
                    /\ "injection" \in prompt[r] => input_check[r].severity = "none"
                    /\ mode[r] = "run" /\ OverCutoff(r) => quota[r] = "unread"
  BY DEF RejectedNeverForwarded
<1>1. input_check[r] \in Guardrails(prompt[r]) /\ ~Blocks(input_check[r])
  BY DEF IInv, Screened
<1>2. prompt[r] \in SUBSET Findings
  BY PromptsAreTexts DEF IInv
<1>3. /\ input_check[r].blocklisted = ("blocklisted" \in prompt[r])
      /\ "injection" \in prompt[r] /\ ~input_check[r].injection =>
           input_check[r].severity = "none"
  BY <1>1, <1>2, GuardrailsSay
<1>4. mode[r] = "run" /\ OverCutoff(r) => quota[r] = "unread"
  BY DEF IInv, WithinBudget
<1> QED
  BY <1>1, <1>3, <1>4 DEF Blocks

(***************************************************************************)
(* The provider is never called for a blocklisted prompt, for an injection *)
(* the pipeline could judge, or by /completions for a team over its hard   *)
(* cutoff whose budget could be read.                                      *)
(***************************************************************************)
THEOREM NeverForwarded == Spec => []RejectedNeverForwarded
<1>1. IInv => RejectedNeverForwarded
  BY ScreenedMeans
<1> QED
  BY <1>1, Invariance, PTL

(* One call at most, one usage row at most, and only for an answered call. *)
THEOREM UsageAnswered == Spec => []UsageIsForAnsweredCalls
<1>1. IInv => UsageIsForAnsweredCalls
  BY NoneAssumption DEF IInv, InOrder, UsageIsForAnsweredCalls
<1> QED
  BY <1>1, Invariance, PTL

-----------------------------------------------------------------------------
(***************************************************************************)
(* The refinement: what a step of request r does to outcomes.              *)
(***************************************************************************)
LEMMA OnlyItsOwnOutcome ==
  ASSUME TypeOK, NEW r \in Requests, RequestStep(r), NEW o, Outcome(r)' = o
  PROVE  outcomes' = [outcomes EXCEPT ![r] = o]
<1>1. \A q \in Requests \ {r} : Outcome(q)' = Outcome(q)
  <2> SUFFICES ASSUME NEW q \in Requests \ {r} PROVE Outcome(q)' = Outcome(q)
    OBVIOUS
  <2>1. mode' = mode
    BY DEF RequestStep, Handle, request, GuardInput, RecordBlocked, AuditBlocked, CheckQuota,
           Forward, RecordUsage, GuardOutput, RecordCompleted, InvalidateDashboard,
           AuditCompleted, Stream, StreamGuard, StreamAudit, Disconnect, Crash, Reject, Respond
  <2>2. pc'[q] = pc[q] /\ status'[q] = status[q]
    BY DEF TypeOK, RequestStep, Handle, GuardInput, RecordBlocked, AuditBlocked, CheckQuota,
           Forward, RecordUsage, GuardOutput, RecordCompleted, InvalidateDashboard,
           AuditCompleted, Stream, StreamGuard, StreamAudit, Disconnect, Crash, Reject, Respond, Goto, Answered
  <2>3. output_check'[q] = output_check[q]
    BY DEF TypeOK, RequestStep, Handle, coroutine, GuardInput, RecordBlocked, AuditBlocked,
           CheckQuota, Forward, RecordUsage, GuardOutput, RecordCompleted, InvalidateDashboard,
           AuditCompleted, Stream, StreamGuard, StreamAudit, Disconnect, Crash, Reject, Respond
  <2> QED
    BY <2>1, <2>2, <2>3 DEF Outcome
<1> QED
  BY <1>1 DEF outcomes

(* Outcome by label, for a request whose coroutine is running. *)
LEMMA RunningOutcome ==
  ASSUME IInv, NEW r \in Requests
  PROVE  /\ pc[r] \in BeforeCall \cup {"usage", "guard_out", "stream_guard"} =>
              outcomes[r] = "pending"
         /\ pc[r] \in {"record", "invalidate", "audit", "stream_audit", "respond"} =>
              outcomes[r] = "screened"
  BY NoneAssumption DEF IInv, ScreenedInOrder, BeforeCall, Outcome, outcomes

(* Every step of a request is a step of the promise, or none at all. *)
LEMMA StepKeepsPromise ==
  ASSUME IInv, IInv', NEW r \in Requests, RequestStep(r)
  PROVE  Promise!PromiseNext \/ UNCHANGED <<outcomes, provider_calls>>
<1>1. outcomes = [outcomes EXCEPT ![r] = outcomes[r]] /\ DOMAIN outcomes = Requests
  BY DEF outcomes
<1>2. ASSUME NEW o, Outcome(r)' = o PROVE outcomes' = [outcomes EXCEPT ![r] = o]
  BY <1>2, OnlyItsOwnOutcome DEF IInv
<1>3. CASE GuardInput(r)
  <2>1. \/ outcomes[r] = "pending" /\ Outcome(r)' = "pending" /\ provider_calls' = provider_calls
        \/ outcomes[r] = "pending" /\ provider_calls[r] = 0 /\ Outcome(r)' = "rejected"
           /\ provider_calls' = provider_calls
    BY <1>3, RunningOutcome, NoneAssumption
       DEF GuardInput, Outcome, IInv, InOrder, ScreenedInOrder, TypeOK,
           request, coroutine, world, At, Goto, Answered, BeforeCall, AfterCall
  <2> QED
    BY <1>1, <1>2, <2>1 DEF Promise!PromiseNext, Promise!Becomes, Promise!Running,
       Promise!Reject
<1>4. CASE RecordBlocked(r)
  <2>1. outcomes[r] = "pending" /\ Outcome(r)' = "pending" /\ provider_calls' = provider_calls
    BY <1>4, RunningOutcome, NoneAssumption
       DEF RecordBlocked, Outcome, IInv, InOrder, ScreenedInOrder, TypeOK,
           request, coroutine, world, At, Goto, Answered, BeforeCall, AfterCall
  <2> QED
    BY <1>1, <1>2, <2>1
<1>5. CASE AuditBlocked(r)
  <2>1. outcomes[r] = "pending" /\ Outcome(r)' = "pending" /\ provider_calls' = provider_calls
    BY <1>5, RunningOutcome, NoneAssumption
       DEF AuditBlocked, Outcome, IInv, InOrder, ScreenedInOrder, TypeOK,
           request, coroutine, world, At, Goto, Answered, BeforeCall, AfterCall
  <2> QED
    BY <1>1, <1>2, <2>1
<1>6. CASE CheckQuota(r)
  <2>1. \/ outcomes[r] = "pending" /\ Outcome(r)' = "pending" /\ provider_calls' = provider_calls
        \/ outcomes[r] = "pending" /\ provider_calls[r] = 0 /\ Outcome(r)' = "rejected"
           /\ provider_calls' = provider_calls
    BY <1>6, RunningOutcome, NoneAssumption
       DEF CheckQuota, Outcome, IInv, InOrder, ScreenedInOrder, TypeOK,
           request, coroutine, world, At, Goto, Answered, BeforeCall, AfterCall
  <2> QED
    BY <1>1, <1>2, <2>1 DEF Promise!PromiseNext, Promise!Becomes, Promise!Running,
       Promise!Reject
<1>7. CASE Forward(r)
  <2>1. outcomes[r] = "pending" /\ provider_calls[r] = 0
    BY <1>7, RunningOutcome DEF Forward, IInv, InOrder, At, BeforeCall
  <2>2. Outcome(r)' \in {"pending", "failed"}
    BY <1>7, NoneAssumption DEF Forward, Outcome, IInv, InOrder, ScreenedInOrder, TypeOK,
           request, At,
       Goto, Answered, BeforeCall
  <2>3. provider_calls' = [provider_calls EXCEPT ![r] = provider_calls[r] + 1]
    BY <1>7 DEF Forward
  <2>4. provider_calls' = [provider_calls EXCEPT ![r] = 1]
    BY <2>1, <2>3
  <2> QED
    BY <1>2, <2>1, <2>2, <2>4 DEF Promise!PromiseNext, Promise!Becomes, Promise!CallProvider
<1>8. CASE RecordUsage(r)
  <2>1. outcomes[r] = "pending" /\ Outcome(r)' = "pending" /\ provider_calls' = provider_calls
    BY <1>8, RunningOutcome, NoneAssumption
       DEF RecordUsage, Outcome, IInv, InOrder, ScreenedInOrder, TypeOK,
           request, coroutine, world, At, Goto, Answered, BeforeCall, AfterCall
  <2> QED
    BY <1>1, <1>2, <2>1
<1>9. CASE GuardOutput(r)
  <2>1. outcomes[r] = "pending" /\ provider_calls[r] = 1 /\ Outcome(r)' = "screened"
           /\ provider_calls' = provider_calls
    BY <1>9, RunningOutcome, NoneAssumption
       DEF GuardOutput, Outcome, IInv, InOrder, ScreenedInOrder, TypeOK,
           request, coroutine, world, At, Goto, Answered, BeforeCall, AfterCall
  <2> QED
    BY <1>1, <1>2, <2>1 DEF Promise!PromiseNext, Promise!Becomes, Promise!Running,
       Promise!Screen
<1>10. CASE RecordCompleted(r)
  <2>1. outcomes[r] = "screened" /\ Outcome(r)' = "screened" /\ provider_calls' = provider_calls
    BY <1>10, RunningOutcome, NoneAssumption
       DEF RecordCompleted, Outcome, IInv, InOrder, ScreenedInOrder, TypeOK,
           request, coroutine, world, At, Goto, Answered, BeforeCall, AfterCall
  <2> QED
    BY <1>1, <1>2, <2>1
<1>11. CASE InvalidateDashboard(r)
  <2>1. outcomes[r] = "screened" /\ Outcome(r)' = "screened" /\ provider_calls' = provider_calls
    BY <1>11, RunningOutcome, NoneAssumption
       DEF InvalidateDashboard, Outcome, IInv, InOrder, ScreenedInOrder, TypeOK,
           request, coroutine, world, At, Goto, Answered, BeforeCall, AfterCall
  <2> QED
    BY <1>1, <1>2, <2>1
<1>12. CASE AuditCompleted(r)
  <2>1. outcomes[r] = "screened" /\ Outcome(r)' = "screened" /\ provider_calls' = provider_calls
    BY <1>12, RunningOutcome, NoneAssumption
       DEF AuditCompleted, Outcome, IInv, InOrder, ScreenedInOrder, TypeOK,
           request, coroutine, world, At, Goto, Answered, BeforeCall, AfterCall
  <2> QED
    BY <1>1, <1>2, <2>1
<1>13. CASE Stream(r)
  <2>1. outcomes[r] = "pending" /\ provider_calls[r] = 0
    BY <1>13, RunningOutcome DEF Stream, IInv, InOrder, At, BeforeCall
  <2>2. Outcome(r)' \in {"pending", "failed"}
    BY <1>13, NoneAssumption DEF Stream, Outcome, IInv, InOrder, ScreenedInOrder, TypeOK,
           request, At,
       Goto, Answered, BeforeCall
  <2>3. provider_calls' = [provider_calls EXCEPT ![r] = provider_calls[r] + 1]
    BY <1>13 DEF Stream
  <2>4. provider_calls' = [provider_calls EXCEPT ![r] = 1]
    BY <2>1, <2>3
  <2> QED
    BY <1>2, <2>1, <2>2, <2>4 DEF Promise!PromiseNext, Promise!Becomes, Promise!CallProvider
<1>14. CASE StreamGuard(r)
  <2>1. outcomes[r] = "pending" /\ provider_calls[r] = 1 /\ Outcome(r)' = "screened"
           /\ provider_calls' = provider_calls
    BY <1>14, RunningOutcome, NoneAssumption
       DEF StreamGuard, Outcome, IInv, InOrder, ScreenedInOrder, TypeOK,
           request, coroutine, world, At, Goto, Answered, BeforeCall, AfterCall
  <2> QED
    BY <1>1, <1>2, <2>1 DEF Promise!PromiseNext, Promise!Becomes, Promise!Running,
       Promise!Screen
<1>15. CASE StreamAudit(r)
  <2>1. outcomes[r] = "screened" /\ Outcome(r)' = "screened" /\ provider_calls' = provider_calls
    BY <1>15, RunningOutcome, NoneAssumption
       DEF StreamAudit, Outcome, IInv, InOrder, ScreenedInOrder, TypeOK,
           request, coroutine, world, At, Goto, Answered, BeforeCall, AfterCall
  <2> QED
    BY <1>1, <1>2, <2>1
<1>16. CASE Disconnect(r)
  <2>1. \/ outcomes[r] = "pending" /\ provider_calls[r] = 1 /\ Outcome(r)' = "failed"
           /\ provider_calls' = provider_calls
        \/ outcomes[r] = "screened" /\ Outcome(r)' = "answered"
           /\ provider_calls' = provider_calls
    BY <1>16, RunningOutcome, NoneAssumption
       DEF Disconnect, Outcome, IInv, InOrder, ScreenedInOrder, TypeOK,
           request, coroutine, world, At, Goto, Answered, BeforeCall, AfterCall
  <2> QED
    BY <1>1, <1>2, <2>1 DEF Promise!PromiseNext, Promise!Becomes, Promise!Running,
       Promise!Answer, Promise!Leave
<1>17. CASE Crash(r)
  <2>1. outcomes[r] \in {"pending", "screened"} /\ Outcome(r)' = "dropped"
           /\ provider_calls' = provider_calls
    BY <1>17, RunningOutcome, NoneAssumption
       DEF Crash, Outcome, IInv, InOrder, ScreenedInOrder, TypeOK,
           request, coroutine, world, At, Goto, Answered, BeforeCall, AfterCall
  <2> QED
    BY <1>1, <1>2, <2>1 DEF Promise!PromiseNext, Promise!Becomes, Promise!Running,
       Promise!Drop
<1>18. CASE Reject(r)
  <2>1. outcomes[r] = "pending" /\ provider_calls[r] = 0 /\ Outcome(r)' = "rejected"
           /\ provider_calls' = provider_calls
    BY <1>18, RunningOutcome, NoneAssumption
       DEF Reject, Outcome, IInv, InOrder, ScreenedInOrder, TypeOK,
           request, coroutine, world, At, Goto, Answered, BeforeCall, AfterCall
  <2> QED
    BY <1>1, <1>2, <2>1 DEF Promise!PromiseNext, Promise!Becomes, Promise!Running,
       Promise!Reject
<1>19. CASE Respond(r)
  <2>1. outcomes[r] = "screened" /\ Outcome(r)' = "answered"
           /\ provider_calls' = provider_calls
    BY <1>19, RunningOutcome, NoneAssumption
       DEF Respond, Outcome, IInv, InOrder, ScreenedInOrder, TypeOK,
           request, coroutine, world, At, Goto, Answered, BeforeCall, AfterCall
  <2> QED
    BY <1>1, <1>2, <2>1 DEF Promise!PromiseNext, Promise!Becomes, Promise!Running,
       Promise!Answer
<1> QED
  BY <1>3, <1>4, <1>5, <1>6, <1>7, <1>8, <1>9, <1>10, <1>11, <1>12, <1>13, <1>14, <1>15,
         <1>16, <1>17, <1>18, <1>19 DEF RequestStep, Handle

(***************************************************************************)
(* SafetyPipeline implements PipelinePromise, on which Conversations rests *)
(* and of which the run checks an instance.                                *)
(***************************************************************************)
THEOREM Refinement == Spec => PromiseKept
<1>1. Init => Promise!PromiseInit
  BY DEF Init, Promise!PromiseInit, outcomes, Outcome
<1>2. IInv /\ IInv' /\ [Next]_vars => [Promise!PromiseNext]_<<outcomes, provider_calls>>
  <2> SUFFICES ASSUME IInv, IInv', [Next]_vars
               PROVE  Promise!PromiseNext \/ UNCHANGED <<outcomes, provider_calls>>
    OBVIOUS
  <2>1. CASE UNCHANGED vars
    BY <2>1 DEF vars, request, coroutine, world, outcomes, Outcome
  <2>2. CASE \E r \in Requests : RequestStep(r)
    BY <2>2, StepKeepsPromise
  <2> QED
    BY <2>1, <2>2 DEF Next
<1> QED
  BY <1>1, <1>2, Invariance, PTL DEF Spec, PromiseKept, Promise!PromiseSpec, Promise!promised

-----------------------------------------------------------------------------
(***************************************************************************)
(* The pipeline with dashboards.  RecordsAgree needs to know of every      *)
(* check of which text it is (Heard), up to which label nothing is logged  *)
(* or recorded yet (Logged, Found), and of a viewer in the middle of a     *)
(* request that what it counted is recorded (ViewersOK): a row is never    *)
(* removed, so what was counted before stays true.                         *)
(***************************************************************************)
Heard ==
  \A r \in Requests :
    /\ input_check[r] # None => input_check[r] \in Guardrails(prompt[r])
    /\ output_check[r] # None => output_check[r] \in Guardrails(answer[r])
    /\ pc[r] = "record_blocked" => input_check[r] # None /\ Blocks(input_check[r])

Logged ==
  \A r \in Requests :
    /\ pc[r] \notin {"reject", "respond", "done"} => audit[r] = None
    /\ audit[r] = "chat_blocked" => provider_calls[r] = 0 /\ (status[r] = 403 \/ YetToAnswer(r))
    /\ audit[r] \in {"chat_completed", "stream_completed"} =>
         provider_calls[r] = 1 /\ output_check[r] # None
    /\ audit[r] = "chat_completed" =>
         mode[r] = "run" /\ ((r \in delivered /\ status[r] = 200) \/ YetToAnswer(r))
    /\ audit[r] = "stream_completed" => r \in delivered
    /\ r \in delivered => provider_calls[r] = 1
    /\ pc[r] \in {"stream_guard", "stream_audit"} => r \in delivered

BeforeRecord ==
  {"guard_in", "record_blocked", "quota", "forward", "usage", "guard_out", "record", "stream",
   "stream_guard", "stream_audit"}

Shows(event, seen) ==
  /\ event.toxic \/ event.injection \/ event.blocklisted
  /\ event.toxic => "toxic" \in seen
  /\ event.injection => "injection" \in seen
  /\ event.blocklisted => "blocklisted" \in seen

Found ==
  \A r \in Requests :
    /\ pc[r] \in BeforeRecord => guardrail_results[r] = None
    /\ guardrail_results[r] # None => Shows(guardrail_results[r], prompt[r] \cup answer[r])

ViewersOK ==
  /\ viewer_pc \in [Viewers -> {"idle", "count", "fill"}]
  /\ counted \in [Viewers -> SUBSET Recorded]
  /\ shown \in [Viewers -> SUBSET Recorded]
  /\ dashboard_summary # None => dashboard_summary \subseteq Recorded

DashboardInv == IInv /\ Heard /\ Logged /\ Found /\ ViewersOK

(* A detector only flags what is in the text. *)
LEMMA FlagsShow ==
  ASSUME NEW text, NEW check \in Guardrails(text)
  PROVE  /\ check.toxic => "toxic" \in text
         /\ check.injection => "injection" \in text
         /\ check.blocklisted => "blocklisted" \in text
<1>1. PICK t \in Detected("toxic", text), p \in Detected("pii", text), i \in InjectionOutcome(text) :
        check = [toxic |-> t, pii |-> p, injection |-> i[1], severity |-> i[2],
                 blocklisted |-> "blocklisted" \in text]
  BY DEF Guardrails
<1>2. check.toxic = t /\ check.injection = i[1] /\ check.blocklisted = ("blocklisted" \in text)
  BY <1>1
<1>3. t => "toxic" \in text
  BY DEF Detected
<1>4. i[1] => "injection" \in text
  <2>1. i = <<"injection" \in text, "level">> \/ i = <<FALSE, "none">>
    BY DEF InjectionOutcome
  <2>2. CASE i = <<FALSE, "none">>
    BY <2>2
  <2>3. CASE i = <<"injection" \in text, "level">> /\ "injection" \notin text
    <3>1. ("injection" \in text) = FALSE
      BY <2>3
    <3>2. i = <<FALSE, "level">>
      BY <2>3, <3>1, Zenon
    <3> QED
      BY <3>2
  <2> QED
    BY <2>1, <2>2, <2>3
<1> QED
  BY <1>2, <1>3, <1>4

(* Checks are of the request's own texts, and the answer does not change under one. *)
LEMMA HeardStep ==
  ASSUME TypeOK, Heard, ScreenedInOrder, [Next]_vars
  PROVE  Heard'
<1>1. CASE UNCHANGED vars
  BY <1>1 DEF Heard, vars, request, coroutine, world
<1>2. ASSUME NEW r \in Requests, RequestStep(r) PROVE Heard'
  <2> USE DEF TypeOK, Heard, ScreenedInOrder, BeforeCall, request, coroutine, world, At, Goto, Answered
  <2>1. CASE GuardInput(r)
    <3>1. PICK check \in Guardrails(prompt[r]) :
            /\ input_check' = [input_check EXCEPT ![r] = check]
            /\ \/ Blocks(check) /\ (Goto(r, "record_blocked") \/ Answered(r, 403))
               \/ Goto(r, "quota") \/ Goto(r, "stream")
      BY <2>1 DEF GuardInput
    <3>2. check # None
      BY GuardrailsSay, PromptsAreTexts, NoneAssumption
    <3>3. UNCHANGED <<request, quota, output_check, answer, world>>
      BY <2>1 DEF GuardInput
    <3>4. \A q \in Requests : q # r => pc'[q] = pc[q] /\ input_check'[q] = input_check[q]
      BY <3>1
    <3>5. input_check'[r] = check /\ (pc'[r] = "record_blocked" => Blocks(check))
      BY <3>1
    <3> QED
      BY <3>2, <3>3, <3>4, <3>5
  <2>2. CASE RecordBlocked(r)
    BY <2>2 DEF RecordBlocked
  <2>3. CASE AuditBlocked(r)
    BY <2>3 DEF AuditBlocked
  <2>4. CASE CheckQuota(r)
    BY <2>4 DEF CheckQuota
  <2>5. CASE Forward(r)
    BY <2>5 DEF Forward
  <2>6. CASE RecordUsage(r)
    BY <2>6 DEF RecordUsage
  <2>7. CASE GuardOutput(r)
    BY <2>7 DEF GuardOutput
  <2>8. CASE RecordCompleted(r)
    BY <2>8 DEF RecordCompleted
  <2>9. CASE InvalidateDashboard(r)
    BY <2>9 DEF InvalidateDashboard
  <2>10. CASE AuditCompleted(r)
    BY <2>10 DEF AuditCompleted
  <2>11. CASE Stream(r)
    BY <2>11 DEF Stream
  <2>12. CASE StreamGuard(r)
    BY <2>12 DEF StreamGuard
  <2>13. CASE StreamAudit(r)
    BY <2>13 DEF StreamAudit
  <2>14. CASE Disconnect(r)
    BY <2>14 DEF Disconnect
  <2>15. CASE Crash(r)
    BY <2>15 DEF Crash
  <2>16. CASE Reject(r)
    BY <2>16 DEF Reject
  <2>17. CASE Respond(r)
    BY <2>17 DEF Respond
  <2> HIDE DEF TypeOK, Heard, ScreenedInOrder, BeforeCall, request, coroutine, world, At, Goto, Answered
  <2> QED
    BY <1>2, <2>1, <2>2, <2>3, <2>4, <2>5, <2>6, <2>7, <2>8, <2>9, <2>10, <2>11,
       <2>12, <2>13, <2>14, <2>15, <2>16, <2>17 DEF RequestStep, Handle
<1> QED
  BY <1>1, <1>2 DEF Next

(* The one audit entry is written by the step that ends the request. *)
LEMMA LoggedStep ==
  ASSUME TypeOK, Logged, InOrder, ScreenedInOrder, [Next]_vars
  PROVE  Logged'
<1>1. CASE UNCHANGED vars
  BY <1>1 DEF Logged, YetToAnswer, vars, request, coroutine, world
<1>2. ASSUME NEW r \in Requests, RequestStep(r) PROVE Logged'
  <2> USE DEF TypeOK, Logged, InOrder, ScreenedInOrder, BeforeCall, AfterCall, request, coroutine, world, At, Goto, Answered, YetToAnswer
  <2>1. CASE GuardInput(r)
    BY <2>1, NoneAssumption DEF GuardInput
  <2>2. CASE RecordBlocked(r)
    BY <2>2, NoneAssumption DEF RecordBlocked
  <2>3. CASE AuditBlocked(r)
    BY <2>3, NoneAssumption DEF AuditBlocked, Audit
  <2>4. CASE CheckQuota(r)
    BY <2>4, NoneAssumption DEF CheckQuota
  <2>5. CASE Forward(r)
    BY <2>5, NoneAssumption DEF Forward
  <2>6. CASE RecordUsage(r)
    BY <2>6, NoneAssumption DEF RecordUsage
  <2>7. CASE GuardOutput(r)
    BY <2>7, NoneAssumption DEF GuardOutput
  <2>8. CASE RecordCompleted(r)
    BY <2>8, NoneAssumption DEF RecordCompleted
  <2>9. CASE InvalidateDashboard(r)
    BY <2>9, NoneAssumption DEF InvalidateDashboard
  <2>10. CASE AuditCompleted(r)
    BY <2>10, NoneAssumption DEF AuditCompleted, Audit
  <2>11. CASE Stream(r)
    BY <2>11, NoneAssumption DEF Stream
  <2>12. CASE StreamGuard(r)
    BY <2>12, NoneAssumption DEF StreamGuard
  <2>13. CASE StreamAudit(r)
    BY <2>13, NoneAssumption DEF StreamAudit, Audit
  <2>14. CASE Disconnect(r)
    BY <2>14, NoneAssumption DEF Disconnect
  <2>15. CASE Crash(r)
    BY <2>15, NoneAssumption DEF Crash
  <2>16. CASE Reject(r)
    BY <2>16, NoneAssumption DEF Reject
  <2>17. CASE Respond(r)
    BY <2>17, NoneAssumption DEF Respond
  <2> HIDE DEF TypeOK, Logged, InOrder, ScreenedInOrder, BeforeCall, AfterCall, request, coroutine, world, At, Goto, Answered, YetToAnswer
  <2> QED
    BY <1>2, <2>1, <2>2, <2>3, <2>4, <2>5, <2>6, <2>7, <2>8, <2>9, <2>10, <2>11,
       <2>12, <2>13, <2>14, <2>15, <2>16, <2>17 DEF RequestStep, Handle
<1> QED
  BY <1>1, <1>2 DEF Next

(* What a recorded event is, when the insert accepts it. *)
LEMMA RecordedShows ==
  ASSUME NEW r \in Requests, NEW event, NEW text \in SUBSET Findings,
         event \in Guardrails(text), InsertAccepted(event),
         HasInput(event) \/ HasOutput(event)
  PROVE  Shows(event, text)
<1>1. event.toxic \/ event.injection \/ event.blocklisted
  BY DEF InsertAccepted, HasInput, HasOutput
<1> QED
  BY <1>1, FlagsShow DEF Shows

(* A row is written once, of a check of the request's prompt or answer. *)
LEMMA FoundStep ==
  ASSUME TypeOK, Heard, Screened, InOrder, ScreenedInOrder, Found, [Next]_vars
  PROVE  Found' /\ \A r \in Requests : guardrail_results[r] # None => guardrail_results'[r] # None
<1>0. \A t \in Requests : prompt[t] \in SUBSET Findings /\ answer[t] \in SUBSET Findings
  BY PromptsAreTexts DEF TypeOK
<1>1. CASE UNCHANGED vars
  BY <1>1 DEF Found, vars, request, coroutine, world
<1>2. ASSUME NEW r \in Requests, RequestStep(r)
      PROVE  Found' /\ \A q \in Requests : guardrail_results[q] # None => guardrail_results'[q] # None
  <2>1. prompt' = prompt /\ \A q \in Requests \ {r} : pc'[q] = pc[q] /\ answer'[q] = answer[q]
    BY <1>2 DEF TypeOK, RequestStep, Handle, GuardInput, RecordBlocked, AuditBlocked, CheckQuota,
           Forward, RecordUsage, GuardOutput, RecordCompleted, InvalidateDashboard,
           AuditCompleted, Stream, StreamGuard, StreamAudit, Disconnect, Crash, Reject, Respond, Goto, Answered,
           request, coroutine
  <2>2. ASSUME NEW event, Record(r, event), pc[r] \in BeforeRecord, pc'[r] \notin BeforeRecord,
               answer' = answer,
               InsertAccepted(event) => Shows(event, prompt[r] \cup answer[r]),
               event \in Check
        PROVE  Found' /\ \A q \in Requests : guardrail_results[q] # None => guardrail_results'[q] # None
    <3>1. \/ UNCHANGED guardrail_results
          \/ /\ guardrail_results' = [guardrail_results EXCEPT ![r] = event]
             /\ Shows(event, prompt[r] \cup answer[r])
      BY <2>2 DEF Record
    <3>2. CASE UNCHANGED guardrail_results
      BY <2>1, <2>2, <3>2 DEF Found
    <3>3. CASE guardrail_results' = [guardrail_results EXCEPT ![r] = event]
               /\ Shows(event, prompt[r] \cup answer[r])
      <4>1. /\ guardrail_results'[r] = event /\ event # None
            /\ \A q \in Requests \ {r} : guardrail_results'[q] = guardrail_results[q]
        BY <2>2, <3>3, NoneAssumption DEF TypeOK
      <4> QED
        BY <2>1, <2>2, <3>3, <4>1 DEF Found
    <3> QED
      BY <3>1, <3>2, <3>3
  <2>3. ASSUME UNCHANGED guardrail_results,
               pc[r] \in BeforeRecord \/ (pc'[r] \notin BeforeRecord /\ answer'[r] = answer[r])
        PROVE  Found' /\ \A q \in Requests : guardrail_results[q] # None => guardrail_results'[q] # None
    BY <2>1, <2>3 DEF Found
  <2>4. CASE RecordBlocked(r)
    <3>1. /\ pc[r] = "record_blocked" /\ Record(r, input_check[r]) /\ answer' = answer
          /\ pc'[r] = "audit_blocked"
      BY <2>4 DEF RecordBlocked, At, Goto, TypeOK, coroutine
    <3>2. input_check[r] \in Guardrails(prompt[r]) /\ Blocks(input_check[r])
      BY <3>1 DEF Heard
    <3>3. input_check[r] \in Check
      BY <1>0, <3>2, GuardrailsSay
    <3>4. InsertAccepted(input_check[r]) => Shows(input_check[r], prompt[r])
      BY <1>0, <3>2, RecordedShows DEF Blocks, HasOutput
    <3> QED
      BY <2>2, <3>1, <3>3, <3>4 DEF BeforeRecord, Shows
  <2>5. CASE RecordCompleted(r)
    <3>1. /\ pc[r] = "record" /\ pc'[r] = "invalidate" /\ answer' = answer
          /\ IF HasInput(input_check[r]) \/ HasOutput(output_check[r])
             THEN Record(r, CompletedEvent(input_check[r], output_check[r]))
             ELSE UNCHANGED guardrail_results
      BY <2>5 DEF RecordCompleted, At, Goto, TypeOK, coroutine
    <3>2. /\ input_check[r] \in Guardrails(prompt[r])
          /\ output_check[r] \in Check /\ output_check[r] \in Guardrails(answer[r])
      BY <3>1, NoneAssumption DEF Screened, InOrder, AfterCall, ScreenedInOrder, Heard
    <3>3. input_check[r] \in Check
      BY <1>0, <3>2, GuardrailsSay
    <3>4. CASE HasInput(input_check[r])
      <4>1. Record(r, input_check[r])
        BY <3>1, <3>4 DEF CompletedEvent
      <4>2. InsertAccepted(input_check[r]) => Shows(input_check[r], prompt[r])
        BY <1>0, <3>2, <3>4, RecordedShows
      <4> QED
        BY <2>2, <3>1, <3>3, <4>1, <4>2 DEF BeforeRecord, Shows
    <3>5. CASE ~HasInput(input_check[r]) /\ HasOutput(output_check[r])
      <4>1. Record(r, output_check[r])
        BY <3>1, <3>5 DEF CompletedEvent
      <4>2. InsertAccepted(output_check[r]) => Shows(output_check[r], answer[r])
        BY <1>0, <3>2, <3>5, RecordedShows
      <4> QED
        BY <2>2, <3>1, <3>2, <4>1, <4>2 DEF BeforeRecord, Shows
    <3>6. CASE ~HasInput(input_check[r]) /\ ~HasOutput(output_check[r])
      BY <2>3, <3>1, <3>6 DEF BeforeRecord
    <3> QED
      BY <3>4, <3>5, <3>6
  <2>6. CASE GuardInput(r) \/ CheckQuota(r) \/ GuardOutput(r) \/ StreamGuard(r)
             \/ RecordUsage(r) \/ Forward(r) \/ Stream(r)
    <3>1. UNCHANGED guardrail_results /\ pc[r] \in BeforeRecord
      BY <2>6 DEF GuardInput, CheckQuota, GuardOutput, StreamGuard, RecordUsage, Forward, Stream,
         At, BeforeRecord, world
    <3> QED
      BY <2>3, <3>1
  <2>7. CASE AuditBlocked(r) \/ InvalidateDashboard(r) \/ AuditCompleted(r) \/ StreamAudit(r)
             \/ Disconnect(r) \/ Crash(r) \/ Reject(r) \/ Respond(r)
    <3>1. UNCHANGED guardrail_results /\ answer' = answer /\ pc'[r] \in {"done", "audit", "reject", "respond"}
      BY <2>7 DEF AuditBlocked, InvalidateDashboard, AuditCompleted, StreamAudit, Disconnect,
         Crash, Reject, Respond, Answered, Goto, world, coroutine, TypeOK
    <3> QED
      BY <2>3, <3>1 DEF BeforeRecord
  <2> QED
    BY <1>2, <2>4, <2>5, <2>6, <2>7 DEF RequestStep, Handle
<1> QED
  BY <1>1, <1>2 DEF Next

(* The pipeline's own steps delete the key, and never a row. *)
LEMMA ViewersUnderPipeline ==
  ASSUME TypeOK, ViewersOK, [Next]_vars, UNCHANGED viewer, Recorded \subseteq Recorded'
  PROVE  ViewersOK'
<1>1. dashboard_summary' \in {dashboard_summary, None}
  BY DEF Next, vars, world, RequestStep, Handle, GuardInput, RecordBlocked, AuditBlocked,
         CheckQuota, Forward, RecordUsage, GuardOutput, RecordCompleted, InvalidateDashboard,
         AuditCompleted, Stream, StreamGuard, StreamAudit, Disconnect, Crash, Reject, Respond
<1>2. dashboard_summary' # None => dashboard_summary' \subseteq Recorded'
  BY <1>1 DEF ViewersOK
<1>3. \A S \in SUBSET Recorded : S \in SUBSET Recorded'
  OBVIOUS
<1>4. counted' \in [Viewers -> SUBSET Recorded'] /\ shown' \in [Viewers -> SUBSET Recorded']
  BY <1>3 DEF ViewersOK, viewer
<1> QED
  BY <1>2, <1>4 DEF ViewersOK, viewer

(* A viewer counts rows that stay, and shows what it counted or found. *)
LEMMA ViewersUnderViewer ==
  ASSUME ViewersOK, NEW v \in Viewers, ViewerStep(v)
  PROVE  ViewersOK' /\ UNCHANGED <<request, pc, coroutine, status, provider_calls, delivered,
                                   usage_logs, guardrail_results, audit>>
         /\ dashboard_summary' \in {dashboard_summary} \cup (SUBSET Recorded)
<1> USE DEF ViewersOK
<1>1. CASE GetSummary(v)
  BY <1>1 DEF GetSummary, vars, world, Recorded
<1>2. CASE CountIncidents(v)
  BY <1>2 DEF CountIncidents, vars, world, Recorded
<1>3. CASE CountFails(v)
  BY <1>3 DEF CountFails, vars, world, Recorded
<1>4. CASE FillSummary(v)
  <2>1. Recorded' = Recorded
    BY <1>4 DEF FillSummary, Recorded
  <2>2. counted[v] \in SUBSET Recorded
    OBVIOUS
  <2> QED
    BY <1>4, <2>1, <2>2 DEF FillSummary
<1> QED
  BY <1>1, <1>2, <1>3, <1>4 DEF ViewerStep

(* Nothing the pipeline relies on is in the key. *)
LEMMA KeyDoesNotMatter ==
  ASSUME DashboardInv, dashboard_summary' \in (SUBSET Requests) \cup {None},
         UNCHANGED <<request, pc, coroutine, status, provider_calls, delivered, usage_logs,
                     guardrail_results, audit>>
  PROVE  IInv' /\ Heard' /\ Logged' /\ Found'
<1>1. TypeOK'
  BY DEF DashboardInv, IInv, TypeOK, request, coroutine
<1>2. Screened' /\ WithinBudget' /\ InOrder' /\ ScreenedInOrder'
  BY DEF DashboardInv, IInv, Screened, WithinBudget, OverCutoff, InOrder, ScreenedInOrder, request, coroutine
<1>3. Heard' /\ Logged' /\ Found'
  BY DEF DashboardInv, Heard, Logged, YetToAnswer, Found, request, coroutine
<1> QED
  BY <1>1, <1>2, <1>3 DEF IInv

LEMMA InitDashboardInv == DashboardInit => DashboardInv
<1> SUFFICES ASSUME DashboardInit PROVE DashboardInv
  OBVIOUS
<1>1. Init
  BY DEF DashboardInit
<1>2. \A r \in Requests :
        /\ pc[r] = "guard_in" /\ input_check[r] = None /\ output_check[r] = None
        /\ audit[r] = None /\ guardrail_results[r] = None /\ r \notin delivered
  BY <1>1 DEF Init
<1>4. \A r \in Requests : audit[r] \notin {"chat_blocked", "chat_completed", "stream_completed"}
  BY <1>2, NoneAssumption
<1>5. Heard /\ Logged /\ Found
  BY <1>2, <1>4 DEF Heard, Logged, Found
<1>3. ViewersOK
  BY <1>1 DEF Init, DashboardInit, ViewersOK
<1> QED
  BY <1>1, <1>3, <1>5, InitIInv DEF DashboardInv

LEMMA NextDashboardInv == DashboardInv /\ [DashboardNext]_<<vars, viewer>> => DashboardInv'
<1> SUFFICES ASSUME DashboardInv, [DashboardNext]_<<vars, viewer>> PROVE DashboardInv'
  OBVIOUS
<1>1. ASSUME [Next]_vars, UNCHANGED viewer PROVE DashboardInv'
  <2>1. IInv'
    BY <1>1, TypeStep, ScreenedStep, WithinBudgetStep, InOrderStep, ScreenedInOrderStep
       DEF DashboardInv, IInv
  <2>2. Heard' /\ Logged'
    BY <1>1, HeardStep, LoggedStep DEF DashboardInv, IInv
  <2>3. Found' /\ \A r \in Requests : guardrail_results[r] # None => guardrail_results'[r] # None
    BY <1>1, FoundStep DEF DashboardInv, IInv
  <2>4. ViewersOK'
    BY <1>1, <2>3, ViewersUnderPipeline DEF DashboardInv, IInv, Recorded
  <2> QED
    BY <2>1, <2>2, <2>3, <2>4 DEF DashboardInv
<1>2. ASSUME NEW v \in Viewers, ViewerStep(v) PROVE DashboardInv'
  <2>1. ViewersOK' /\ UNCHANGED <<request, pc, coroutine, status, provider_calls, delivered,
                                  usage_logs, guardrail_results, audit>>
        /\ dashboard_summary' \in {dashboard_summary} \cup (SUBSET Recorded)
    BY <1>2, ViewersUnderViewer DEF DashboardInv
  <2>2. dashboard_summary' \in (SUBSET Requests) \cup {None}
    BY <2>1 DEF Recorded, DashboardInv, IInv, TypeOK
  <2> QED
    BY <2>1, <2>2, KeyDoesNotMatter DEF DashboardInv
<1>3. CASE ExpireSummary
  <2>1. ViewersOK'
    BY <1>3 DEF ExpireSummary, DashboardInv, ViewersOK, viewer, Recorded
  <2> QED
    BY <1>3, <2>1, KeyDoesNotMatter DEF ExpireSummary, DashboardInv
<1>4. CASE UNCHANGED <<vars, viewer>>
  BY <1>1, <1>4
<1> QED
  BY <1>1, <1>2, <1>3, <1>4 DEF DashboardNext

LEMMA DashboardInvariance == DashboardSpec => []DashboardInv
<1> QED
  BY InitDashboardInv, NextDashboardInv, PTL DEF DashboardSpec

(***************************************************************************)
(* Whatever fails and however requests, viewers and the expiry of the key  *)
(* interleave: usage is for answered calls, an audit entry tells what      *)
(* happened, a recorded incident was found in the request's own texts, and *)
(* no dashboard shows one that is not recorded.                            *)
(***************************************************************************)
THEOREM Agreement == DashboardSpec => []RecordsAgree
<1>1. DashboardInv => RecordsAgree
  <2> SUFFICES ASSUME DashboardInv PROVE RecordsAgree
    OBVIOUS
  <2>1. DashboardTypeOK /\ NothingInvented
    <3>1. SUBSET Recorded \subseteq SUBSET Requests
      BY DEF Recorded
    <3> QED
      BY <3>1 DEF DashboardInv, IInv, ViewersOK, DashboardTypeOK, NothingInvented
  <2>2. UsageIsForAnsweredCalls
    BY NoneAssumption DEF DashboardInv, IInv, InOrder, UsageIsForAnsweredCalls
  <2>3. AuditIsTruthful
    <3>1. \A r \in Requests : audit[r] = "chat_blocked" => r \notin delivered
      BY DEF DashboardInv, Logged
    <3> QED
      BY <3>1 DEF DashboardInv, Logged, AuditIsTruthful, YetToAnswer
  <2>4. RecordedIsFound
    BY DEF DashboardInv, Found, Shows, RecordedIsFound
  <2> QED
    BY <2>1, <2>2, <2>3, <2>4 DEF RecordsAgree
<1> QED
  BY <1>1, DashboardInvariance, PTL

(* What NeverForwarded says of the pipeline holds under open dashboards, too. *)
THEOREM NeverForwardedWatched == DashboardSpec => []RejectedNeverForwarded
<1>1. IInv => RejectedNeverForwarded
  BY ScreenedMeans
<1> QED
  BY <1>1, DashboardInvariance, PTL DEF DashboardInv

(* Viewers and the expiry of the key are stutters of PipelinePromise. *)
THEOREM RefinementWatched == DashboardSpec => PromiseKept
<1>1. DashboardInit => Promise!PromiseInit
  BY DEF DashboardInit, Init, Promise!PromiseInit, outcomes, Outcome
<1>2. DashboardInv /\ DashboardInv' /\ [DashboardNext]_<<vars, viewer>>
        => [Promise!PromiseNext]_<<outcomes, provider_calls>>
  <2> SUFFICES ASSUME DashboardInv, DashboardInv', [DashboardNext]_<<vars, viewer>>
               PROVE  Promise!PromiseNext \/ UNCHANGED <<outcomes, provider_calls>>
    OBVIOUS
  <2>1. CASE \E r \in Requests : RequestStep(r)
    BY <2>1, StepKeepsPromise DEF DashboardInv
  <2>2. ASSUME UNCHANGED <<request, pc, coroutine, status, provider_calls>>
        PROVE  UNCHANGED <<outcomes, provider_calls>>
    BY <2>2 DEF request, coroutine, outcomes, Outcome
  <2>3. CASE UNCHANGED vars
    BY <2>2, <2>3 DEF vars, world
  <2>4. ASSUME NEW v \in Viewers, ViewerStep(v)
        PROVE  UNCHANGED <<request, pc, coroutine, status, provider_calls>>
    BY <2>4, ViewersUnderViewer DEF DashboardInv
  <2>5. CASE ExpireSummary
    BY <2>2, <2>5 DEF ExpireSummary
  <2> QED
    BY <2>1, <2>2, <2>3, <2>4, <2>5 DEF DashboardNext, Next
<1> QED
  BY <1>1, <1>2, DashboardInvariance, PTL
     DEF DashboardSpec, PromiseKept, Promise!PromiseSpec, Promise!promised
================================================================================
