--------------------------- MODULE GatewayDashboard ---------------------------
(***************************************************************************)
(* The safety pipeline together with GET /api/v1/dashboard/summary         *)
(* (gateway/app/routers/dashboard.py), which answers from the Redis key    *)
(* the pipeline deletes, or counts the rows the pipeline writes and fills  *)
(* the key for 30 seconds.  The counts of the summary are represented by   *)
(* the requests they count.                                                *)
(***************************************************************************)
EXTENDS SafetyPipeline

CONSTANT Viewers  \* open dashboards; each asks again every 5 seconds (app.js)

VARIABLES
  viewer_pc,  \* "idle", "count" (cache missed) or "fill" (counted)
  counted,    \* what the viewer's request counted
  shown       \* what its last answer showed

viewer == <<viewer_pc, counted, shown>>

Recorded == {r \in Requests : guardrail_results[r] # None}

DashboardInit ==
  /\ Init
  /\ viewer_pc = [v \in Viewers |-> "idle"]
  /\ counted = [v \in Viewers |-> {}]
  /\ shown = [v \in Viewers |-> {}]

(* redis.get answers, or misses, or raises *)
GetSummary(v) ==
  /\ viewer_pc[v] = "idle"
  /\ \/ /\ dashboard_summary # None
        /\ shown' = [shown EXCEPT ![v] = dashboard_summary]
        /\ UNCHANGED viewer_pc
     \/ /\ dashboard_summary = None \/ May("redis")
        /\ viewer_pc' = [viewer_pc EXCEPT ![v] = "count"]
        /\ UNCHANGED shown
  /\ UNCHANGED <<vars, counted>>

(* mutant: what was flagged is counted, recorded or not *)
CountFlagged(v) ==
  /\ viewer_pc[v] = "count"
  /\ viewer_pc' = [viewer_pc EXCEPT ![v] = "fill"]
  /\ counted' = [counted EXCEPT ![v] =
                   {r \in Requests : input_check[r] # None /\ HasInput(input_check[r])}]
  /\ UNCHANGED <<vars, shown>>

(* the COUNT queries *)
CountIncidents(v) ==
  /\ viewer_pc[v] = "count"
  /\ viewer_pc' = [viewer_pc EXCEPT ![v] = "fill"]
  /\ counted' = [counted EXCEPT ![v] = Recorded]
  /\ UNCHANGED <<vars, shown>>

(* the database is down: the viewer's request fails *)
CountFails(v) ==
  /\ May("db")
  /\ viewer_pc[v] = "count"
  /\ viewer_pc' = [viewer_pc EXCEPT ![v] = "idle"]
  /\ UNCHANGED <<vars, counted, shown>>

(* redis.setex with what was counted before, then the answer *)
FillSummary(v) ==
  /\ viewer_pc[v] = "fill"
  /\ \/ dashboard_summary' = counted[v]
     \/ May("redis") /\ UNCHANGED dashboard_summary
  /\ shown' = [shown EXCEPT ![v] = counted[v]]
  /\ counted' = [counted EXCEPT ![v] = {}]
  /\ viewer_pc' = [viewer_pc EXCEPT ![v] = "idle"]
  /\ UNCHANGED <<request, pc, coroutine, status, provider_calls, delivered, usage_logs,
                 guardrail_results, audit>>

(* mutant: the key is set without an expiry *)
ExpireNever == FALSE /\ UNCHANGED <<vars, viewer>>

(* the 30 seconds of the key are over *)
ExpireSummary ==
  /\ dashboard_summary # None
  /\ dashboard_summary' = None
  /\ UNCHANGED <<request, pc, coroutine, status, provider_calls, delivered, usage_logs,
                 guardrail_results, audit, viewer>>

ViewerStep(v) == GetSummary(v) \/ CountIncidents(v) \/ CountFails(v) \/ FillSummary(v)

DashboardNext ==
  \/ Next /\ UNCHANGED viewer
  \/ \E v \in Viewers : ViewerStep(v)
  \/ ExpireSummary

(* asyncio runs every ready coroutine, and every await of the pipeline has *)
(* a timeout; an open dashboard keeps asking and does not meet a failing    *)
(* database every time; Redis expires the key.                             *)
Fairness ==
  /\ \A r \in Requests : WF_vars(Handle(r))
  /\ \A v \in Viewers : WF_<<vars, viewer>>(ViewerStep(v))
                        /\ SF_<<vars, viewer>>(CountIncidents(v))
  /\ WF_<<vars, viewer>>(ExpireSummary)

DashboardSpec == DashboardInit /\ [][DashboardNext]_<<vars, viewer>> /\ Fairness

-----------------------------------------------------------------------------
DashboardTypeOK ==
  /\ TypeOK
  /\ viewer_pc \in [Viewers -> {"idle", "count", "fill"}]
  /\ counted \in [Viewers -> SUBSET Requests]
  /\ shown \in [Viewers -> SUBSET Requests]

(***************************************************************************)
(* Neither the cache nor a dashboard ever shows an incident that is not in *)
(* guardrail_results, however fills, invalidations and expiry interleave.  *)
(***************************************************************************)
NothingInvented ==
  /\ dashboard_summary # None => dashboard_summary \subseteq Recorded
  /\ \A v \in Viewers : shown[v] \subseteq Recorded

(***************************************************************************)
(* What is kept of a request agrees, whichever of the writes failed: usage *)
(* for an answered call, an audit entry that tells what happened, a stored *)
(* row that the dashboard finds, and nothing counted that is not there.    *)
(***************************************************************************)
RecordsAgree ==
  /\ DashboardTypeOK
  /\ UsageIsForAnsweredCalls /\ AuditIsTruthful /\ RecordedIsFound /\ NothingInvented

(* Every request comes to an end: answered, or lost with its process. *)
RequestsEnd == \A r \in Requests : <>(pc[r] = "done")

(***************************************************************************)
(* An incident reaches every open dashboard in the end, also when a viewer *)
(* that counted before it was recorded fills the cache after the pipeline  *)
(* invalidated it: the key expires and the next viewer counts again.       *)
(***************************************************************************)
IncidentsGetShown ==
  \A r \in Requests, v \in Viewers : (r \in Recorded) ~> [](r \in shown[v])
=============================================================================
