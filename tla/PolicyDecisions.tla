------------------------------ MODULE PolicyDecisions ------------------------------
(***************************************************************************)
(* Who decides what may be done: OPA behind its circuit, and the policy    *)
(* file of tools. The two parts share nothing.                             *)
(***************************************************************************)
EXTENDS Absence, Naturals, FiniteSets, Sequences

-----------------------------------------------------------------------------
(***************************************************************************)
(* OpaClient (shared/opa_client.py): one circuit for all evaluations of a  *)
(* process.  An evaluation reads the circuit when it begins, awaits OPA,   *)
(* and writes the circuit when the answer comes, by then perhaps another   *)
(* circuit than the one it read.                                           *)
(***************************************************************************)

CONSTANTS
  Evaluations,
  OPA_CIRCUIT_THRESHOLD,
  OPA_CIRCUIT_RESET_SECONDS,
  LastInstant  \* bound of the clock

ASSUME OpaAssumption ==
  /\ OPA_CIRCUIT_THRESHOLD \in Nat \ {0}
  /\ OPA_CIRCUIT_RESET_SECONDS \in Nat /\ LastInstant \in Nat
  /\ None \notin {"failure", "open circuit"}

ASSUME AllowedAssumption == None \notin BOOLEAN

VARIABLES
  OPA_FAIL_MODE,
  instant,    \* time.time()
  circuit,    \* open, failures, since: _circuit_open, _circuit_failures, _circuit_opened_at
  evaluation  \* per evaluation: state, risk, what it was decided by, how, and when

opa_vars == <<OPA_FAIL_MODE, instant, circuit, evaluation>>

Closed == [open |-> FALSE, failures |-> 0, since |-> 0]

OpaInit ==
  /\ OPA_FAIL_MODE \in {"fail_open", "fail_closed", "risk_based"}
  /\ instant = 0
  /\ circuit = Closed
  /\ evaluation \in [Evaluations -> [state : {"new"}, risk : {"low", "critical"},
                                     allowed : {None}, by : {None}, at : {0}]]

Decides(e, allowed, by) ==
  evaluation' = [evaluation EXCEPT ![e].state = "done", ![e].allowed = allowed,
                                   ![e].by = by, ![e].at = instant]

(* What an evaluation without an answer of OPA decides. *)
Unavailable == OPA_FAIL_MODE # "fail_closed"

(* _check_circuit_breaker: an open circuit whose time is over is closed,   *)
(* and this evaluation and those after it ask.                             *)
BeginEvaluate(e) ==
  /\ evaluation[e].state = "new"
  /\ IF circuit.open /\ instant - circuit.since < OPA_CIRCUIT_RESET_SECONDS
     THEN Decides(e, Unavailable, "open circuit") /\ UNCHANGED circuit
     ELSE /\ evaluation' = [evaluation EXCEPT ![e].state = "asked"]
          /\ circuit' = IF circuit.open THEN Closed ELSE circuit
  /\ UNCHANGED <<OPA_FAIL_MODE, instant>>

(* 200, with the policy's own decision, or allowed if it has none *)
OpaAnswers(e, allow) ==
  /\ evaluation[e].state = "asked"
  /\ Decides(e, allow, "policy")
  /\ circuit' = Closed
  /\ UNCHANGED <<OPA_FAIL_MODE, instant>>

(* mutant: it opens one failure early *)
CountedTooSoon ==
  LET failures == circuit.failures + 1
  IN  IF failures >= OPA_CIRCUIT_THRESHOLD - 1
      THEN [open |-> TRUE, failures |-> failures, since |-> instant]
      ELSE [circuit EXCEPT !.failures = failures]

(* one failure more; _open_circuit at the threshold, again if it is open *)
Counted ==
  LET failures == circuit.failures + 1
  IN  IF failures >= OPA_CIRCUIT_THRESHOLD
      THEN [open |-> TRUE, failures |-> failures, since |-> instant]
      ELSE [circuit EXCEPT !.failures = failures]

(* another status, a timeout, any other exception *)
OpaFails(e) ==
  /\ evaluation[e].state = "asked"
  /\ Decides(e, Unavailable, "failure")
  /\ circuit' = Counted
  /\ UNCHANGED <<OPA_FAIL_MODE, instant>>

(* reset_circuit_breaker *)
Reset ==
  /\ circuit # Closed
  /\ circuit' = Closed
  /\ UNCHANGED <<OPA_FAIL_MODE, instant, evaluation>>

Wait ==
  /\ instant < LastInstant
  /\ instant' = instant + 1
  /\ UNCHANGED <<OPA_FAIL_MODE, circuit, evaluation>>

OpaNext ==
  \/ \E e \in Evaluations :
       \/ BeginEvaluate(e) \/ OpaFails(e)
       \/ \E allow \in BOOLEAN : OpaAnswers(e, allow)
  \/ Reset \/ Wait

OpaSpec == OpaInit /\ [][OpaNext]_opa_vars

-----------------------------------------------------------------------------
(* effective_allowed, with OPA_ENFORCED *)
Effective(e) ==
  \/ evaluation[e].allowed = TRUE
  \/ OPA_FAIL_MODE = "fail_open"
  \/ OPA_FAIL_MODE = "risk_based" /\ evaluation[e].risk \notin {"critical", "high"}

OpaTypeOK ==
  /\ instant \in 0..LastInstant
  /\ circuit \in [open : BOOLEAN, failures : Nat, since : 0..LastInstant]
  /\ \A e \in Evaluations : evaluation[e].state = "done" <=> evaluation[e].allowed \in BOOLEAN

(***************************************************************************)
(* An evaluation is turned away without asking OPA only after as many      *)
(* evaluations have failed as the threshold says, the last of them less    *)
(* than the reset time ago, whatever requests that were under way when the *)
(* circuit was opened, reset or half-opened report later; and while OPA    *)
(* does not answer, only fail_closed refuses: in risk_based mode a         *)
(* critical action goes ahead too.                                         *)
(***************************************************************************)
TurnedAwayForCause ==
  LET failed == {e \in Evaluations : evaluation[e].by = "failure"} IN
  \A e \in Evaluations :
    /\ evaluation[e].by = "open circuit" =>
         /\ \E recent \in failed : evaluation[e].at - evaluation[recent].at < OPA_CIRCUIT_RESET_SECONDS
         /\ Cardinality({f \in failed : evaluation[f].at <= evaluation[e].at}) >= OPA_CIRCUIT_THRESHOLD
    /\ evaluation[e].by \in {"open circuit", "failure"} => (Effective(e) <=> OPA_FAIL_MODE # "fail_closed")

-----------------------------------------------------------------------------
(***************************************************************************)
(* Which tool calls of an answer go ahead (gateway/app/mcp): the policy    *)
(* file, read once, and the layers asked in order, the first that matches  *)
(* deciding.  A pattern is the set of tools it matches.  Roles as in       *)
(* policies/tool_access_policies.yaml may say what they add in adds_allow  *)
(* and adds_deny; neither is read.                                         *)
(***************************************************************************)

CONSTANTS
  Tools, Targets, Users, Contexts,
  RoleNames,   \* that a caller may have
  PolicyFiles, \* [deny, confirm, overrides, role, roles], or None: it cannot be read
  MaxToolCalls \* bound: calls of one answer

ASSUME ToolsAssumption == None \notin Users /\ MaxToolCalls \in Nat

VARIABLES
  POLICIES, \* _POLICIES, None until it is read
  answer    \* the calls of an answer, how many are done, where each went, for whom

tool_vars == <<POLICIES, answer>>

(* what _load_policies makes of a file that cannot be read *)
NoPolicies ==
  [deny |-> {}, confirm |-> [c \in Contexts |-> {}], overrides |-> [u \in Users |-> <<>>],
   role |-> [u \in Users |-> None], roles |-> [r \in {} |-> {}]]

ToolInit ==
  /\ POLICIES = None
  /\ answer = [calls |-> <<>>, done |-> 0, allowed |-> {}, blocked |-> {}, approval |-> {},
               user |-> None, role |-> None, context |-> None, failed |-> FALSE]

LoadPolicies(file) ==
  /\ POLICIES = None
  /\ POLICIES' = IF file = None THEN NoPolicies ELSE file
  /\ UNCHANGED answer

-----------------------------------------------------------------------------
(* evaluate_tool_call *)
HasRole(role) == role \in DOMAIN POLICIES.roles

(* the role of the file before the caller's, and the intern's in default *)
RoleOf(user, role) ==
  LET named == IF POLICIES.role[user] = None THEN role ELSE POLICIES.role[user]
  IN  IF HasRole(named) THEN POLICIES.roles[named]
      ELSE IF HasRole("intern") THEN POLICIES.roles["intern"] ELSE None

Inherited(policy) == IF HasRole(policy.inherits) THEN POLICIES.roles[policy.inherits].allow ELSE {}

Applies(override, tool, target) ==
  tool \in override.tools /\ (override.targets = None \/ target \in override.targets)

(* mutant: what a role denies comes before what it allows *)
DeniesFirst(policy, tool) ==
  IF tool \in policy.deny THEN "deny"
  ELSE IF tool \in policy.allow \cup Inherited(policy) THEN "allow"
  ELSE IF tool \in policy.approve THEN "require_approval"
  ELSE "deny"

(* allowed by the role or the one it inherits from, before what it denies; *)
(* the inherited role's own parent is not asked                            *)
ByRole(policy, tool) ==
  IF tool \in policy.allow \cup Inherited(policy) THEN "allow"
  ELSE IF tool \in policy.deny THEN "deny"
  ELSE IF tool \in policy.approve THEN "require_approval"
  ELSE "deny"

(* None stands for the AttributeError where no role is to be had *)
EvaluateToolCall(user, role, context, tool, target) ==
  LET overrides == POLICIES.overrides[user]
      applying == {k \in DOMAIN overrides : Applies(overrides[k], tool, target)}
      first == CHOOSE k \in applying : \A l \in applying : k <= l
  IN  IF tool \in POLICIES.deny THEN "deny"
      ELSE IF tool \in POLICIES.confirm[context] THEN "require_approval"
      ELSE IF applying # {} THEN overrides[first].permission
      ELSE IF RoleOf(user, role) = None THEN None
      ELSE ByRole(RoleOf(user, role), tool)

(* get_user_effective_policy: by the caller's role alone *)
ListedAllows(role) ==
  LET policy == IF HasRole(role) THEN POLICIES.roles[role]
                ELSE IF HasRole("intern") THEN POLICIES.roles["intern"] ELSE None
  IN  IF policy = None THEN {} ELSE policy.allow \cup Inherited(policy)

-----------------------------------------------------------------------------
AnswerArrives(user, role, context, calls) ==
  /\ POLICIES # None /\ answer.user = None
  /\ answer' = [answer EXCEPT !.calls = calls, !.user = user, !.role = role, !.context = context]
  /\ UNCHANGED POLICIES

(* intercept_tool_calls, one call: any effect but two blocks it *)
InterceptToolCall ==
  /\ answer.done < Len(answer.calls) /\ ~answer.failed
  /\ LET i == answer.done + 1
         call == answer.calls[i]
         effect == EvaluateToolCall(answer.user, answer.role, answer.context, call.tool, call.target)
     IN  answer' = IF effect = None THEN [answer EXCEPT !.failed = TRUE]
                   ELSE [answer EXCEPT !.done = i,
                           !.allowed = IF effect = "allow" THEN @ \cup {i} ELSE @,
                           !.approval = IF effect = "require_approval" THEN @ \cup {i} ELSE @,
                           !.blocked = IF effect \notin {"allow", "require_approval"} THEN @ \cup {i} ELSE @]
  /\ UNCHANGED POLICIES

ToolNext ==
  \/ \E file \in PolicyFiles : LoadPolicies(file)
  \/ \E user \in Users, role \in RoleNames, context \in Contexts, n \in 0..MaxToolCalls :
       \E calls \in [1..n -> [tool : Tools, target : Targets]] : AnswerArrives(user, role, context, calls)
  \/ InterceptToolCall

ToolSpec == ToolInit /\ [][ToolNext]_tool_vars

-----------------------------------------------------------------------------
ToolTypeOK ==
  /\ POLICIES \in {None, NoPolicies} \cup PolicyFiles
  /\ answer.done \in 0..Len(answer.calls)
  /\ answer.allowed \cup answer.blocked \cup answer.approval = 1..answer.done

(***************************************************************************)
(* Every call ends on one list.  One that goes ahead is on no deny list    *)
(* and needs no confirmation, and was allowed by an override of this user  *)
(* or by the role.  And the listing an administrator sees is what is       *)
(* enforced: a call of a tool listed as allowed goes ahead unless one of   *)
(* the earlier layers takes it or the file gives the user another role.    *)
(***************************************************************************)
ListingIsEnforced ==
  POLICIES # None /\ answer.user # None =>
    LET user == answer.user
        tool(i) == answer.calls[i].tool
        overridden(i) == \E k \in DOMAIN POLICIES.overrides[user] :
          Applies(POLICIES.overrides[user][k], tool(i), answer.calls[i].target)
    IN  /\ Cardinality(answer.allowed) + Cardinality(answer.blocked) + Cardinality(answer.approval) = answer.done
        /\ \A i \in answer.allowed :
             /\ tool(i) \notin POLICIES.deny \cup POLICIES.confirm[answer.context]
             /\ overridden(i) \/ POLICIES.role[user] # None \/ tool(i) \in ListedAllows(answer.role)
        /\ \A i \in answer.blocked \cup answer.approval :
             tool(i) \in ListedAllows(answer.role) =>
               \/ tool(i) \in POLICIES.deny \cup POLICIES.confirm[answer.context]
               \/ overridden(i) \/ POLICIES.role[user] # None
=============================================================================
