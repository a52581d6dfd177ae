------------------------------- MODULE SdkCalls -------------------------------
(***************************************************************************)
(* The Python SDK (sdk/polarisgate/client.py) and the gateway it calls.    *)
(* PolarisGate._request sends an attempt, waits, and after a timeout, a    *)
(* lost connection, a 429 or a 5xx sends another one, whatever the method. *)
(* The gateway knows nothing of attempts: each is a request of its own,    *)
(* which keeps running when nobody waits for it any more.  A chat attempt  *)
(* goes through the safety pipeline as PipelinePromise describes it; the   *)
(* other endpoints answer at once.                                         *)
(***************************************************************************)
EXTENDS PipelinePromise, Absence, FiniteSets

CONSTANTS
  Calls,       \* calls of the SDK's methods
  Kinds,       \* the methods called
  MaxRetries,  \* max_retries of the client, 3 by default
  Durations    \* seconds a gateway may take for a request

AllKinds == {"chat", "check", "batch", "list", "health", "upload", "check_stream"}

ASSUME SdkAssumption ==
  /\ MaxRetries \in Nat
  /\ Kinds \subseteq AllKinds
  /\ Durations \subseteq Nat
  /\ Requests = Calls \X (1..(MaxRetries + 1))
  /\ None \notin AllKinds \cup {"response", "blocked", "refused", "unauthorized",
                                "unavailable", "http_error"}

VARIABLES
  kind,       \* the method, None before the call
  phase,      \* "idle", "waiting", "sleeping", "done"
  attempt,    \* attempts sent
  took,       \* seconds the gateway takes, per request
  given_up,   \* requests the SDK stopped waiting for
  turned_away, \* requests answered 429, or 503 by the proxy before the gateway saw them
  result      \* what the method returned or raised

sdk_vars == <<kind, phase, attempt, took, given_up, turned_away, result>>
calls_vars == <<promised, sdk_vars>>

DEFAULT_TIMEOUT == 30

(* the timeout= a method passes *)
GivenTimeout(k) ==
  CASE k = "chat" -> 120
    [] k \in {"batch", "check_stream"} -> 60
    [] k = "list" -> 10
    [] k = "health" -> 5
    [] OTHER -> DEFAULT_TIMEOUT

(* kwargs.pop("timeout", self.timeout): only the first attempt finds it *)
Timeout(k, n) == IF n = 1 THEN GivenTimeout(k) ELSE DEFAULT_TIMEOUT

CurrentRequest(c) == <<c, attempt[c]>>
Patient(c) == took[CurrentRequest(c)] <= Timeout(kind[c], attempt[c])
Retried(k) == k # "check_stream"

SdkInit ==
  /\ PromiseInit
  /\ kind = [c \in Calls |-> None]
  /\ phase = [c \in Calls |-> "idle"]
  /\ attempt = [c \in Calls |-> 0]
  /\ took = [r \in Requests |-> 0]
  /\ given_up = {} /\ turned_away = {}
  /\ result = [c \in Calls |-> None]

-----------------------------------------------------------------------------
(* The SDK *)

Return(c, what) ==
  /\ phase' = [phase EXCEPT ![c] = "done"]
  /\ result' = [result EXCEPT ![c] = what]

SendAttempt(c) ==
  /\ phase' = [phase EXCEPT ![c] = "waiting"]
  /\ attempt' = [attempt EXCEPT ![c] = @ + 1]
  /\ \E d \in Durations : took' = [took EXCEPT ![<<c, attempt'[c]>>] = d]

(* a method of the client is called *)
Call(c) ==
  /\ phase[c] = "idle"
  /\ \E k \in Kinds : kind' = [kind EXCEPT ![c] = k]
  /\ SendAttempt(c)
  /\ UNCHANGED <<promised, given_up, turned_away, result>>

(* time.sleep is over: the next turn of the loop *)
Retry(c) ==
  /\ phase[c] = "sleeping"
  /\ SendAttempt(c)
  /\ UNCHANGED <<promised, kind, given_up, turned_away, result>>

(* ConnectionError, Timeout, ServiceUnavailableError and 429: sleep and go *)
(* on, unless this was attempt max_retries + 1                             *)
OnceMore(c) ==
  /\ Retried(kind[c])
  /\ attempt[c] <= MaxRetries
  /\ phase' = [phase EXCEPT ![c] = "sleeping"]
  /\ UNCHANGED result

GiveUp(c) ==
  /\ Retried(kind[c]) => attempt[c] > MaxRetries
  /\ Return(c, IF Retried(kind[c]) THEN "unavailable" ELSE "http_error")

(* mutant: only the first attempt has a timeout *)
TimesOutOnce(c) ==
  /\ phase[c] = "waiting" /\ attempt[c] = 1
  /\ ~Patient(c) \/ outcome[CurrentRequest(c)] \in Running
  /\ CurrentRequest(c) \notin turned_away
  /\ given_up' = given_up \cup {CurrentRequest(c)}
  /\ OnceMore(c) \/ GiveUp(c)
  /\ UNCHANGED <<promised, kind, attempt, took, turned_away>>

(* the timeout passes before the gateway has an answer *)
TimesOut(c) ==
  /\ phase[c] = "waiting"
  /\ ~Patient(c) \/ outcome[CurrentRequest(c)] \in Running
  /\ CurrentRequest(c) \notin turned_away
  /\ given_up' = given_up \cup {CurrentRequest(c)}
  /\ OnceMore(c) \/ GiveUp(c)
  /\ UNCHANGED <<promised, kind, attempt, took, turned_away>>

(* a 429 or a proxy's 503, sent in place of the gateway *)
TurnedAway(c) ==
  /\ phase[c] = "waiting"
  /\ outcome[CurrentRequest(c)] = "pending" /\ calls[CurrentRequest(c)] = 0
  /\ turned_away' = turned_away \cup {CurrentRequest(c)}
  /\ OnceMore(c) \/ GiveUp(c)
  /\ UNCHANGED <<promised, kind, attempt, took, given_up>>

(* mutant: a refusal is tried again, too *)
GatewayFailedAny(c) ==
  /\ phase[c] = "waiting" /\ Patient(c)
  /\ outcome[CurrentRequest(c)] \in {"failed", "dropped", "rejected"}
  /\ OnceMore(c) \/ GiveUp(c)
  /\ UNCHANGED <<promised, kind, attempt, took, given_up, turned_away>>

(* a 5xx, or the connection is lost with the gateway's process *)
GatewayFailed(c) ==
  /\ phase[c] = "waiting" /\ Patient(c)
  /\ outcome[CurrentRequest(c)] \in {"failed", "dropped"}
  /\ OnceMore(c) \/ GiveUp(c)
  /\ UNCHANGED <<promised, kind, attempt, took, given_up, turned_away>>

(* 401, 403 for a blocked prompt, other 4xx: raised at once.  chat() names *)
(* a refusal a SafetyBlockedError when its text says so.                   *)
Refused(c) ==
  /\ phase[c] = "waiting" /\ Patient(c)
  /\ outcome[CurrentRequest(c)] = "rejected"
  /\ \/ kind[c] = "chat" /\ Return(c, "blocked")
     \/ kind[c] \notin {"check_stream", "health"} /\ Return(c, "refused")
     \/ kind[c] \notin {"check_stream", "health"} /\ Return(c, "unauthorized")
     \/ kind[c] = "check_stream" /\ Return(c, "http_error")
  /\ UNCHANGED <<promised, kind, attempt, took, given_up, turned_away>>

(* mutant: an answer is taken after its time *)
ReceiveLate(c) ==
  /\ phase[c] = "waiting"
  /\ outcome[CurrentRequest(c)] = "answered"
  /\ Return(c, "response")
  /\ UNCHANGED <<promised, kind, attempt, took, given_up, turned_away>>

Receive(c) ==
  /\ phase[c] = "waiting" /\ Patient(c)
  /\ outcome[CurrentRequest(c)] = "answered"
  /\ Return(c, "response")
  /\ UNCHANGED <<promised, kind, attempt, took, given_up, turned_away>>

-----------------------------------------------------------------------------
(* The gateway, for every attempt that reached it *)

Arrived(r) == r[2] <= attempt[r[1]] /\ r \notin turned_away

(* a chat attempt: the pipeline keeps its promise *)
Pipeline(r) ==
  /\ Arrived(r) /\ kind[r[1]] = "chat"
  /\ Reject(r) \/ CallProvider(r) \/ Screen(r) \/ Answer(r) \/ Drop(r)
  /\ UNCHANGED sdk_vars

(* the other endpoints.  An upload always carries the session's            *)
(* Content-Type, application/json, and is refused for it; /health has      *)
(* nothing to refuse.                                                      *)
Serve(r) ==
  /\ Arrived(r) /\ kind[r[1]] # "chat" /\ outcome[r] = "pending"
  /\ \/ kind[r[1]] # "health" /\ Becomes(r, "rejected")
     \/ kind[r[1]] # "upload" /\ Becomes(r, "answered")
     \/ Becomes(r, "failed") \/ Becomes(r, "dropped")
  /\ UNCHANGED <<calls, sdk_vars>>

Sdk(c) ==
  Call(c) \/ Retry(c) \/ TimesOut(c) \/ TurnedAway(c) \/ GatewayFailed(c) \/ Refused(c) \/ Receive(c)

SdkNext ==
  \/ \E c \in Calls : Sdk(c)
  \/ \E r \in Requests : Pipeline(r) \/ Serve(r)

(* A timeout always comes: only the SDK's own steps need be fair. *)
SdkFairness ==
  \A c \in Calls :
    WF_calls_vars(Retry(c) \/ TimesOut(c) \/ GatewayFailed(c) \/ Refused(c) \/ Receive(c))

SdkSpec == SdkInit /\ [][SdkNext]_calls_vars /\ SdkFairness

-----------------------------------------------------------------------------
Results == {"response", "blocked", "refused", "unauthorized", "unavailable", "http_error"}

SdkTypeOK ==
  /\ outcome \in [Requests -> Outcomes]
  /\ calls \in [Requests -> {0, 1}]
  /\ kind \in [Calls -> AllKinds \cup {None}]
  /\ phase \in [Calls -> {"idle", "waiting", "sleeping", "done"}]
  /\ attempt \in [Calls -> 0..(MaxRetries + 1)]
  /\ took \in [Requests -> Durations \cup {0}]
  /\ given_up \subseteq Requests /\ turned_away \subseteq Requests
  /\ result \in [Calls -> Results \cup {None}]

(***************************************************************************)
(* _request repeats a POST that may have been served, so the damage must   *)
(* be limited to attempts whose fate the SDK could not know or that the    *)
(* gateway failed: no attempt follows one whose verdict was received, and  *)
(* the model is asked at most once per attempt sent.                       *)
(***************************************************************************)
RetriedOnlyUnsettled ==
  \A c \in Calls : \A n \in 1..(MaxRetries + 1) :
    LET r == <<c, n>> IN
      /\ n < attempt[c] =>
           r \in given_up \cup turned_away \/ outcome[r] \in {"failed", "dropped"}
      /\ calls[r] > 0 => kind[c] = "chat" /\ n <= attempt[c]

(***************************************************************************)
(* What a method returns or raises is what the gateway decided about its   *)
(* last attempt: a response was answered, a refusal refused before the     *)
(* model was asked, and "unavailable" never hides an answer that came in   *)
(* time (client.py, _request and the except clauses of chat).              *)
(***************************************************************************)
ResultIsTheLastVerdict ==
  \A c \in Calls : phase[c] = "done" =>
    LET r == CurrentRequest(c) IN
      /\ result[c] = "response" => outcome[r] = "answered" /\ Patient(c)
      /\ result[c] \in {"blocked", "refused", "unauthorized"} =>
           outcome[r] = "rejected" /\ calls[r] = 0
      /\ result[c] = "unavailable" =>
           /\ attempt[c] = MaxRetries + 1
           /\ \A n \in 1..attempt[c] :
                outcome[<<c, n>>] = "answered" => <<c, n>> \in given_up

(***************************************************************************)
(* Every call returns or raises, even when the gateway never answers: the  *)
(* attempts are counted and each of them times out.                        *)
(***************************************************************************)
CallsReturn == \A c \in Calls : phase[c] # "idle" ~> phase[c] = "done"
=============================================================================
