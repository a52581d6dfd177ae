---------------------------- MODULE PipelinePromise ----------------------------
(***************************************************************************)
(* What the safety pipeline promises the routes that call it, whatever the *)
(* detectors, the database or the provider do: a request that is rejected  *)
(* never reaches the provider, no request reaches it twice, and it counts  *)
(* as answered only once the output guardrails have looked at the answer.  *)
(***************************************************************************)
EXTENDS Naturals

CONSTANT Requests

Outcomes == {"pending", "screened", "answered", "rejected", "failed", "dropped"}
Running == {"pending", "screened"}

VARIABLES
  outcome, \* what became of each request
  calls    \* provider calls made for it

promised == <<outcome, calls>>

PromiseInit ==
  /\ outcome = [r \in Requests |-> "pending"]
  /\ calls = [r \in Requests |-> 0]

Becomes(r, o) == outcome' = [outcome EXCEPT ![r] = o]

(* refused before the provider was called *)
Reject(r) ==
  outcome[r] = "pending" /\ calls[r] = 0 /\ Becomes(r, "rejected") /\ UNCHANGED calls

(* mutant: a failed call is made again *)
CallProviderAgain(r) ==
  /\ outcome[r] = "pending"
  /\ calls' = [calls EXCEPT ![r] = @ + 1]
  /\ Becomes(r, "pending")

(* the one call, which the provider may fail *)
CallProvider(r) ==
  /\ outcome[r] = "pending" /\ calls[r] = 0
  /\ calls' = [calls EXCEPT ![r] = 1]
  /\ Becomes(r, "pending") \/ Becomes(r, "failed")

(* the output guardrails ran *)
Screen(r) ==
  outcome[r] = "pending" /\ calls[r] = 1 /\ Becomes(r, "screened") /\ UNCHANGED calls

Answer(r) == outcome[r] = "screened" /\ Becomes(r, "answered") /\ UNCHANGED calls

(* a stream's client left before the answer was screened *)
Leave(r) == outcome[r] = "pending" /\ calls[r] = 1 /\ Becomes(r, "failed") /\ UNCHANGED calls

(* the process stopped *)
Drop(r) == outcome[r] \in Running /\ Becomes(r, "dropped") /\ UNCHANGED calls

PromiseNext ==
  \E r \in Requests :
    Reject(r) \/ CallProvider(r) \/ Screen(r) \/ Answer(r) \/ Leave(r) \/ Drop(r)

PromiseSpec == PromiseInit /\ [][PromiseNext]_promised
================================================================================
