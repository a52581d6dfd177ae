----------------------------- MODULE DashboardApp -----------------------------
(***************************************************************************)
(* The administrator's page (frontend/public/js/app.js).  Each view is     *)
(* drawn by an async function that awaits its reads one after the other    *)
(* and then, in one piece, replaces the main content and the variables     *)
(* behind it.  Nothing cancels a drawing: those of views left since, of    *)
(* the timer and of edits all finish, in any order.  One of the timer's    *)
(* two views, the policies, the deny list and one other stand for all.     *)
(***************************************************************************)
EXTENDS Absence, Naturals, Sequences

CONSTANTS
  Drawings,   \* calls of the render functions
  Rules,      \* rules an administrator may add to the deny list
  LastState   \* bound: changes to what the gateway returns

VARIABLES
  token,
  selected,   \* state.tab and state.sub
  main,       \* what is in main-content: the view, and what it was made from
  incident_cache, \* _incidentCache: the rows it was filled with
  policyEdits, denyEdits,  \* denyEdits: _denyCategories and _customRules
  drawing,    \* per drawing: its view, the reads it awaits, what they returned
  returned,   \* what the gateway now returns: a number that changes
  staged      \* rules added by the administrator since the view was opened

app_vars == <<token, selected, main, incident_cache, policyEdits, denyEdits, drawing, returned, staged>>

(* what each render function awaits; "numbers" are what renderDashboard    *)
(* shows beside the rows: the trend or the detections, and the alerts      *)
Reads == [overview |-> <<"summary", "rows", "numbers">>, incidents |-> <<"rows">>,
          guardrails |-> <<"rows">>, denylist |-> <<"rows">>, models |-> <<"rows">>,
          testing |-> <<>>]
Views == DOMAIN Reads

NoDrawing == [view |-> None, left |-> <<>>, got |-> [summary |-> FALSE, list |-> None]]
NoDenyList == [list |-> None, rules |-> {}]
Loaded(list) == [list |-> list, edited |-> FALSE]
Shows(view, of) == [view |-> view, of |-> of]

AppInit ==
  /\ token = None
  /\ selected = "overview" /\ main = Shows("nothing", None)
  /\ incident_cache = None /\ policyEdits = Loaded(None) /\ denyEdits = NoDenyList
  /\ drawing = [d \in Drawings |-> NoDrawing]
  /\ returned = 1
  /\ staged = {}

-----------------------------------------------------------------------------
(* a render function is called; renderDenyList clears its lists first *)
Draws(d, view) ==
  /\ drawing[d].view = None
  /\ drawing' = [drawing EXCEPT ![d] = [NoDrawing EXCEPT !.view = view, !.left = Reads[view]]]

(* render: with a token, "Loading" is shown until the view is drawn *)
Render(d, view) ==
  IF token' = None THEN UNCHANGED <<main, drawing, denyEdits>>
  ELSE /\ Draws(d, view)
       /\ main' = Shows("loading", None)
       /\ denyEdits' = IF view = "denylist" THEN NoDenyList ELSE denyEdits

(* handleLogin, when the gateway has given a token *)
Login(d) ==
  /\ token = None
  /\ token' = "token"
  /\ Render(d, selected)
  /\ UNCHANGED <<selected, incident_cache, policyEdits, returned, staged>>

(* handleLogout: drawings go on *)
HandleLogout ==
  /\ token # None
  /\ token' = None
  /\ UNCHANGED <<selected, main, incident_cache, policyEdits, denyEdits, drawing, returned, staged>>

(* setTab *)
SetTab(d, view) ==
  /\ token # None
  /\ selected' = view /\ incident_cache' = None
  /\ UNCHANGED <<token, policyEdits, returned>>
  /\ Render(d, view)
  /\ staged' = {}

(* the filter buttons and setLang *)
RenderAgain(d) ==
  /\ token # None
  /\ UNCHANGED <<token, selected, incident_cache, policyEdits, returned>>
  /\ Render(d, selected)
  /\ staged' = {}

(* startAutoRefresh: every five seconds, also when nobody is logged in *)
AutoRefresh(d) ==
  /\ selected \in {"overview", "incidents"}
  /\ Draws(d, selected)
  /\ UNCHANGED <<token, selected, main, incident_cache, policyEdits, denyEdits, returned, staged>>

(* get: an answer, or null for any failure; without a token it sends       *)
(* "Bearer null", which the endpoints that authenticate nobody answer too  *)
ReadAnswered(d) ==
  /\ drawing[d].left # <<>>
  /\ \E answer \in {None, returned} :
       LET read == Head(drawing[d].left) IN
       drawing' = [drawing EXCEPT
         ![d].got.summary = IF read = "summary" THEN answer # None ELSE @,
         ![d].got.list = IF read = "rows" /\ drawing[d].view # "models" THEN answer ELSE @,
         ![d].left = Tail(@)]
  /\ UNCHANGED <<token, selected, main, incident_cache, policyEdits, denyEdits, returned, staged>>

Finishes(d) ==
  /\ drawing[d].view # None /\ drawing[d].left = <<>>
  /\ drawing' = [drawing EXCEPT ![d] = NoDrawing]
  /\ UNCHANGED <<token, selected, returned, staged>>

(* mutant: the details are forgotten and filled in when the drawing is late *)
FinishIncidentsWithoutDetails(d) ==
  /\ drawing[d].view = "incidents" /\ Finishes(d)
  /\ incident_cache' = IF selected = "incidents" THEN drawing[d].got.list ELSE incident_cache
  /\ main' = Shows("incidents", drawing[d].got.list)
  /\ UNCHANGED <<policyEdits, denyEdits>>

(* renderIncidents, and renderDashboard unless there is no summary, fill   *)
(* the cache with the rows they show                                       *)
FinishIncidents(d) ==
  /\ drawing[d].view = "incidents" /\ Finishes(d)
  /\ incident_cache' = drawing[d].got.list
  /\ main' = Shows("incidents", drawing[d].got.list)
  /\ UNCHANGED <<policyEdits, denyEdits>>

FinishOverview(d) ==
  /\ drawing[d].view = "overview" /\ Finishes(d)
  /\ IF ~drawing[d].got.summary
     THEN main' = Shows("no_data", None) /\ UNCHANGED incident_cache
     ELSE main' = Shows("overview", drawing[d].got.list) /\ incident_cache' = drawing[d].got.list
  /\ UNCHANGED <<policyEdits, denyEdits>>

(* renderPolicyGuardrails: an unanswered read shows, and keeps, no policies *)
FinishPolicies(d) ==
  /\ drawing[d].view = "guardrails" /\ Finishes(d)
  /\ LET loaded == Loaded(drawing[d].got.list)
     IN  policyEdits' = loaded /\ main' = Shows("guardrails", loaded)
  /\ UNCHANGED <<incident_cache, denyEdits>>

(* renderDenyList: the built-in list if the read was not answered *)
FinishDenyList(d) ==
  /\ drawing[d].view = "denylist" /\ Finishes(d)
  /\ LET list == IF drawing[d].got.list = None THEN 0 ELSE drawing[d].got.list IN
       /\ denyEdits' = [list |-> list, rules |-> {}]
       /\ main' = Shows("denylist", list)
  /\ UNCHANGED <<incident_cache, policyEdits>>

(* renderModels, renderPolicyTest and every view that is only shown *)
FinishOther(d) ==
  /\ drawing[d].view \in {"models", "testing"} /\ Finishes(d)
  /\ main' = Shows(drawing[d].view, drawing[d].got.list)
  /\ UNCHANGED <<incident_cache, policyEdits, denyEdits>>

(* an onchange of a policy: the edit, and rP, which loads the policies     *)
(* again and with them replaces the edit                                   *)
EditPolicy(d) ==
  /\ main.view = "guardrails" /\ policyEdits.list # None
  /\ LET edited == [policyEdits EXCEPT !.edited = TRUE]
     IN  policyEdits' = edited /\ main' = Shows("guardrails", edited)
  /\ Draws(d, "guardrails")
  /\ UNCHANGED <<token, selected, incident_cache, denyEdits, returned, staged>>

(* savePolicies posts policyEdits as they are at the click *)
SavePolicies ==
  /\ main.view = "guardrails" /\ returned < LastState
  /\ returned' = returned + 1
  /\ UNCHANGED <<token, selected, main, incident_cache, policyEdits, denyEdits, drawing, staged>>

(* addCustomRule: the rule is kept in _customRules, and renderDenyList,    *)
(* called to show it, clears _customRules                                  *)
AddCustomRule(d, rule) ==
  /\ main.view = "denylist"
  /\ staged' = staged \cup {rule}
  /\ denyEdits' = NoDenyList
  /\ Draws(d, "denylist")
  /\ UNCHANGED <<token, selected, main, incident_cache, policyEdits, returned>>

(* traces arrive, other administrators save *)
DataChanges ==
  /\ returned < LastState
  /\ returned' = returned + 1
  /\ UNCHANGED <<token, selected, main, incident_cache, policyEdits, denyEdits, drawing, staged>>

AppNext ==
  \/ \E d \in Drawings :
       \/ Login(d) \/ RenderAgain(d) \/ AutoRefresh(d) \/ ReadAnswered(d)
       \/ FinishIncidents(d) \/ FinishOverview(d) \/ FinishPolicies(d)
       \/ FinishDenyList(d) \/ FinishOther(d) \/ EditPolicy(d)
       \/ \E view \in Views : SetTab(d, view)
       \/ \E rule \in Rules : AddCustomRule(d, rule)
  \/ HandleLogout \/ SavePolicies \/ DataChanges

AppSpec == AppInit /\ [][AppNext]_app_vars

-----------------------------------------------------------------------------
AppTypeOK ==
  /\ token \in {None, "token"} /\ selected \in Views
  /\ main.view \in Views \cup {"nothing", "loading", "no_data"}
  /\ staged \subseteq Rules

(***************************************************************************)
(* The row that is clicked opens its own details, and "Save Changes" sends *)
(* the policies on the screen, however many drawings finish, in whatever   *)
(* order, for views that were left long ago.                               *)
(***************************************************************************)
ScreenMatchesState ==
  /\ main.view \in {"overview", "incidents"} => incident_cache = main.of
  /\ main.view = "guardrails" => policyEdits = main.of

(***************************************************************************)
(* addCustomRule says: 'Custom rule staged ... Click "Save to YAML" to     *)
(* persist.'  So what saveDenyList would send has the rules staged.        *)
(***************************************************************************)
StagedRulesAreKept ==
  main.view = "denylist" => staged \subseteq denyEdits.rules
=============================================================================
