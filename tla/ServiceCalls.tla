----------------------------- MODULE ServiceCalls -----------------------------
(***************************************************************************)
(* Calls between services through shared/circuit_breaker.py and the        *)
(* callers around it: the gateway's SHAP endpoint, the guardrails worker's *)
(* /generate, the tiers of an AIDA report and its warm-up, and the Ollama  *)
(* toxicity classifier.                                                    *)
(*                                                                         *)
(* call_with_circuit_breaker decorates each call with a circuit made for   *)
(* it; service_circuit keeps one circuit per decorated function, but the   *)
(* only function it decorates catches every exception itself.  The circuit *)
(* is that of the circuitbreaker library, modelled from how it is used:    *)
(* open after `failure_threshold' failures in a row that the predicate     *)
(* accepts, reset by anything else.                                        *)
(***************************************************************************)
EXTENDS Absence, Naturals, Sequences

CONSTANTS
  Tasks,       \* coroutines that call a service
  Threshold,   \* failure_threshold, 5 in the code
  Recent,      \* failures _detect_pattern looks at, 5 in the code
  MaxHistory,  \* max_history of FailureDiagnostics, 100 in the code
  MaxCalls     \* bound: calls begun

ASSUME ServiceCallsAssumption ==
  /\ {Threshold, Recent, MaxHistory, MaxCalls} \subseteq Nat \ {0}
  /\ Recent <= MaxHistory

JobKinds == {"shap", "generate", "report", "warmup", "predict"}

(* what a call may come to: a result, a status, a timeout, a refused or a  *)
(* lost connection, a body that is no JSON                                 *)
Answers == {"ok", "401", "503", "timeout", "refused", "lost", "garbled"}

ASSUME NoAnswerAssumption == None \notin Answers \cup JobKinds \cup {"note", "text"}

VARIABLES
  job,      \* per task: kind, tier of the report asked now, requests sent per tier
  step,     \* "idle", "call", "asked"
  circuit,  \* failures counted and whether it is open, per circuit
  history,  \* FailureDiagnostics.history of the process
  alarm,    \* whether the last failure recorded raised the pattern alarm
  outcome_of, \* what the caller made of the task's last call
  begun     \* calls begun, a bound

service_vars == <<job, step, circuit, history, alarm, outcome_of, begun>>

IsTransient(a) == a \in {"503", "timeout", "refused"}
(* mutant: what failed is taken for a status *)
StatusCodeAny(a) == a

StatusCode(a) == IF a \in {"401", "503"} THEN a ELSE None
IsHTTPError(a) == a \in {"401", "503", "timeout", "refused", "lost"}
Service(k, tier) == IF k \in {"shap", "warmup"} \/ tier = 2 THEN "guardrails" ELSE "ollama"

(* The guardrails service wants a token; the AIDA bridge sends none. *)
MayAnswer(k, tier) ==
  IF k = "warmup" \/ tier = 2 THEN Answers \ {"ok", "garbled"} ELSE Answers

(* the library's circuit *)
Closed == [open |-> FALSE, failures |-> 0]
AfterFailure(c) == [open |-> c.open \/ c.failures + 1 >= Threshold,
                    failures |-> IF c.failures < Threshold THEN c.failures + 1 ELSE c.failures]
AfterAnswer(c, a) == IF IsTransient(a) THEN AfterFailure(c) ELSE Closed

Circuits == {"predict"} \cup Tasks

(* the circuit a task's call goes through *)
CircuitOf(t) == IF job[t].kind = "predict" THEN "predict" ELSE t

(* the last Recent failures of a service *)
RecentOf(h, s) ==
  LET of == SelectSeq(h, LAMBDA f : f.service = s)
  IN  IF Len(of) <= Recent THEN of ELSE SubSeq(of, Len(of) - Recent + 1, Len(of))

(* mutant: any failure with a status raises the alarm *)
DetectPatternAny(h, s) ==
  \E i \in DOMAIN RecentOf(h, s) : RecentOf(h, s)[i].status_code # None

(* Recent failures and, among their status codes, only one, a client error: *)
(* failures without a status are passed over                                *)
DetectPattern(h, s) ==
  LET recent == RecentOf(h, s)
      codes == {recent[i].status_code : i \in DOMAIN recent} \ {None}
  IN  Len(recent) = Recent /\ codes = {"401"}

Push(h, f) ==
  LET longer == Append(h, f) IN IF Len(longer) > MaxHistory THEN Tail(longer) ELSE longer

RecordFailure(t, a) ==
  LET s == Service(job[t].kind, job[t].tier)
      f == [service |-> s, status_code |-> StatusCode(a), transient |-> IsTransient(a)]
  IN  history' = Push(history, f) /\ alarm' = DetectPattern(history', s)

ServiceInit ==
  /\ job = [t \in Tasks |-> [kind |-> None, tier |-> 0, sent |-> <<0, 0, 0>>]]
  /\ step = [t \in Tasks |-> "idle"]
  /\ circuit = [c \in Circuits |-> Closed]
  /\ history = <<>> /\ alarm = FALSE
  /\ outcome_of = [t \in Tasks |-> None]
  /\ begun = 0

(* A task begins; a report starts with the tier the host can run. *)
Begin(t) ==
  /\ step[t] = "idle" /\ begun < MaxCalls
  /\ begun' = begun + 1
  /\ \E k \in JobKinds, n \in {1, 2, 3} :
       /\ n = 1 \/ k = "report"
       /\ job' = [job EXCEPT ![t] = [kind |-> k, tier |-> n, sent |-> <<0, 0, 0>>]]
       /\ \/ ~(k = "report" /\ n = 1) /\ step' = [step EXCEPT ![t] = "call"]
             /\ outcome_of' = [outcome_of EXCEPT ![t] = None]
          \/ k = "report" /\ n = 1 /\ UNCHANGED step
             /\ outcome_of' = [outcome_of EXCEPT ![t] = "note"]
  /\ UNCHANGED <<circuit, history, alarm>>

(* The request is sent, unless the circuit is open.  All but predict make  *)
(* a circuit for the call.                                                 *)
Ask(t) ==
  /\ step[t] = "call"
  /\ circuit' = IF job[t].kind = "predict" THEN circuit ELSE [circuit EXCEPT ![t] = Closed]
  /\ ~circuit'[CircuitOf(t)].open
  /\ job' = [job EXCEPT ![t].sent[job[t].tier] = @ + 1]
  /\ step' = [step EXCEPT ![t] = "asked"]
  /\ UNCHANGED <<history, alarm, outcome_of, begun>>

EndTask(t, what) ==
  /\ step' = [step EXCEPT ![t] = "idle"]
  /\ outcome_of' = [outcome_of EXCEPT ![t] = what]
  /\ UNCHANGED job

(* mutant: tenacity without stop_after_attempt *)
RetriesForever(t, a) == a \in {"401", "503", "timeout"}

(* tier 3 is tried three times after a timeout or an error status *)
RetriesTier3(t, a) == job[t].sent[3] < 3 /\ a \in {"401", "503", "timeout"}

(* what the caller does with an answer or an exception *)
Continue(t, a) ==
  CASE job[t].kind = "shap" ->
         EndTask(t, IF a = "ok" THEN "ok" ELSE IF IsHTTPError(a) THEN "fallback" ELSE "error")
    [] job[t].kind = "generate" -> EndTask(t, IF a = "ok" THEN "ok" ELSE "error")
    [] job[t].kind = "warmup" -> EndTask(t, "ok")
    [] job[t].kind = "predict" -> EndTask(t, IF a = "ok" THEN "ok" ELSE "fallback")
    [] job[t].kind = "report" ->
         \/ a = "ok" /\ EndTask(t, "text")
         \/ /\ RetriesTier3(t, a) /\ job[t].tier = 3
            /\ step' = [step EXCEPT ![t] = "call"]
            /\ UNCHANGED <<job, outcome_of>>
         \/ /\ ~RetriesTier3(t, a) /\ job[t].tier = 3
            /\ step' = [step EXCEPT ![t] = "call"]
            /\ job' = [job EXCEPT ![t].tier = 2]
            /\ UNCHANGED outcome_of
         \/ a # "ok" /\ job[t].tier = 2 /\ EndTask(t, "note")

(* The answer, as the decorated function passes it on: predict turns any   *)
(* exception into a keyword verdict before the circuit sees it.            *)
Reply(t) ==
  /\ step[t] = "asked"
  /\ \E a \in MayAnswer(job[t].kind, job[t].tier) :
       /\ Continue(t, a)
       /\ circuit' = [circuit EXCEPT ![CircuitOf(t)] =
                        AfterAnswer(@, IF job[t].kind = "predict" THEN "ok" ELSE a)]
       /\ IF a = "ok" \/ job[t].kind = "predict"
          THEN UNCHANGED <<history, alarm>> ELSE RecordFailure(t, a)
  /\ UNCHANGED begun

(* A tier 3 answer too short or apologetic to use: tier 2 is next. *)
Unusable(t) ==
  /\ step[t] = "asked" /\ job[t].kind = "report" /\ job[t].tier = 3
  /\ step' = [step EXCEPT ![t] = "call"]
  /\ job' = [job EXCEPT ![t].tier = 2]
  /\ circuit' = [circuit EXCEPT ![t] = AfterAnswer(@, "ok")]
  /\ UNCHANGED <<history, alarm, outcome_of, begun>>

Working(t) == Ask(t) \/ Reply(t) \/ Unusable(t)
ServiceNext == \E t \in Tasks : Begin(t) \/ Working(t)

(* Every request has a timeout. *)
ServiceFairness == \A t \in Tasks : WF_service_vars(Working(t))

ServiceSpec == ServiceInit /\ [][ServiceNext]_service_vars /\ ServiceFairness

-----------------------------------------------------------------------------
Circuit == [open : BOOLEAN, failures : 0..Threshold]
Failure == [service : {"guardrails", "ollama"}, status_code : {"401", "503", None},
            transient : BOOLEAN]

ServiceTypeOK ==
  /\ job \in [Tasks -> [kind : JobKinds \cup {None}, tier : 0..3, sent : Seq(Nat)]]
  /\ step \in [Tasks -> {"idle", "call", "asked"}]
  /\ circuit \in [Circuits -> Circuit]
  /\ \A i \in DOMAIN history : history[i] \in Failure
  /\ alarm \in BOOLEAN
  /\ outcome_of \in [Tasks -> {"ok", "fallback", "error", "note", "text", None}]
  /\ begun \in 0..MaxCalls

(***************************************************************************)
(* A report costs Ollama at most three requests and the guardrails service *)
(* one, in that order, whatever fails; and it ends in a text or a note,    *)
(* never in an error (generate_report_text and _call_ollama_with_retry).   *)
(***************************************************************************)
ReportsAreBounded ==
  \A t \in Tasks : job[t].kind = "report" =>
    /\ job[t].sent[3] <= 3 /\ job[t].sent[2] <= 1
    /\ job[t].tier = 3 => job[t].sent[2] = 0
    /\ step[t] = "idle" => outcome_of[t] \in {"text", "note"}
    /\ outcome_of[t] = "text" => job[t].tier = 3

(***************************************************************************)
(* The pattern alarm, which says that the caller's code is at fault, is    *)
(* raised only when a recent failure of that service was a client error    *)
(* and none was an overload, and it rests on no more entries than the      *)
(* history keeps (FailureDiagnostics).                                     *)
(***************************************************************************)
AlarmsNameAClientError ==
  /\ Len(history) <= MaxHistory
  /\ alarm => \E s \in {"guardrails", "ollama"} :
       LET recent == RecentOf(history, s) IN
         /\ \E i \in DOMAIN recent : recent[i].status_code = "401"
         /\ \A i \in DOMAIN recent : recent[i].status_code # "503"

(***************************************************************************)
(* Every task comes to an end: no caller waits for a circuit or retries    *)
(* for ever.                                                               *)
(***************************************************************************)
TasksEnd == \A t \in Tasks : step[t] # "idle" ~> step[t] = "idle"
=============================================================================
