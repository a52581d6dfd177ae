------------------------------- MODULE Deployment -------------------------------
(***************************************************************************)
(* The scripts that install and deploy: scripts/deploy.sh, install.sh and  *)
(* the gates they run, scripts/run_gates.sh; and scripts/gate_e2e.sh.  All *)
(* run under `set -euo pipefail`: a command that fails where its status is *)
(* not asked for, and one that is not defined, ends the script.  One       *)
(* script runs at a time.                                                  *)
(***************************************************************************)
EXTENDS Absence, Naturals, Sequences

CONSTANTS
  MaxScripts  \* bound: scripts run

ASSUME ScriptsAssumption ==
  /\ MaxScripts \in Nat
  /\ None \notin {"gates", "pull", "infrastructure", "models", "all", "admin", "receipt", "approved", "aborted"}

(* two passwords that a shell may hold in DEPLOY_ADMIN_PASSWORD *)
OwnPasswords == {1001, 1002}

Infrastructure == {"postgres", "redis", "ollama"}
Critical == {"gateway", "frontend", "postgres", "redis", "hallucination-detector"}
Services == Infrastructure \cup Critical

(* What the scripts expect of a checkout: files, the gateway on port 8000, *)
(* and a detector that starts with the others.  This commit has not all of *)
(* them: its docker-compose.yml publishes 8002, and keeps the detector to  *)
(* a profile that deploy.sh does not name.                                 *)
Missing == {"gate_toxicity.py", "gate_hallucination.py", "mcp-server", "callback.py", "k8s_informer.py",
            "port 8000", "detector", "endpoints"}
Expected == Missing \cup {"gate_toxicity_api.py", "gate_cascade.py", "eu_aia"}

VARIABLES
  checkout,    \* what of Expected the checkout has
  up,       \* services that run
  script,   \* the script that runs: its name, its arguments, its next step
  gates,    \* the gates run by it: outcomes so far, GATE_FAIL, the exit status
  receipt,  \* .install_receipt.json: None, "counted", or "no JSON"
  begun, \* history: the services that the installation which left it started
  env,      \* .env: None, or its DEPLOY_ADMIN_PASSWORD, 0 for none
  kept,     \* /tmp/polarisgate_admin_pass.txt
  admin,    \* the administrator's password, and (history) what the shell of that deployment held
  printed,  \* the password last printed at the end of a deployment, and likewise
  fresh,    \* passwords made
  meddled,  \* .env was exchanged, or somebody else set the administrator up
  ran       \* scripts so far

receipts == <<receipt, begun>>
secrets == <<env, kept, admin, printed, fresh, meddled>>
deployment_vars == <<checkout, up, script, gates, receipts, secrets, ran>>

NoScript == [name |-> None, skip |-> FALSE, full |-> FALSE, own |-> None, at |-> None, up_before |-> {}, started |-> {}]
NoGates == [outcomes |-> <<>>, failed |-> 0, status |-> None]

DeploymentInit ==
  /\ checkout \in {Expected, Expected \ Missing}
  /\ up = {} /\ script = NoScript /\ gates = NoGates /\ receipt = None /\ begun = {}
  /\ env \in {None, 0} /\ kept = None /\ admin = None /\ printed = None
  /\ fresh = 0 /\ meddled = FALSE /\ ran = 0

-----------------------------------------------------------------------------
(* The gates.  "abort": the script ends there.                             *)

(* F1=$(docker compose run ... python SCRIPT | tail | tr): pipefail *)
ScriptOutcomes(file) == IF file \in checkout THEN {"pass", "fail", "abort"} ELSE {"abort"}

(* the health check, which needs jq; what fails it counts twice *)
CheckedOutcomes(file) ==
  {"fail twice", "abort"} \cup
  (IF "hallucination-detector" \in up THEN ScriptOutcomes(file) ELSE {})

(* gate 4 looks for PASS in the output, then for FAIL, which is always     *)
(* added to a failing one's; without a line of the score it aborts         *)
CascadeOutcomes ==
  {"fail twice", "abort"} \cup
  (IF "hallucination-detector" \in up
   THEN IF "gate_cascade.py" \in checkout THEN {"pass", "fail"} ELSE {"fail"}
   ELSE {})

(* `warn` is not defined: an output that is not clear aborts *)
PlaywireOutcomes ==
  {"fail", "abort"} \cup (IF Critical \subseteq up THEN {"pass"} ELSE {})

RegoOutcomes == IF "eu_aia" \in checkout THEN {"pass", "fail"} ELSE {"abort"}

ArtifactOutcomes ==
  IF {"callback.py", "k8s_informer.py"} \subseteq checkout THEN {"pass", "fail"} ELSE {"abort"}

GateOutcomes ==
  << ScriptOutcomes("gate_toxicity.py"),
     IF script.full THEN ScriptOutcomes("gate_toxicity_api.py") ELSE {"skip"},
     CheckedOutcomes("gate_hallucination.py"),
     CascadeOutcomes,
     PlaywireOutcomes,
     {"pass", "fail"},   \* the kill switch: whatever listens on port 10001
     RegoOutcomes,
     IF "mcp-server" \in checkout THEN {"pass"} ELSE {"fail"},
     ArtifactOutcomes >>

Answers == "gateway" \in up /\ "port 8000" \in checkout

(* gate_e2e.sh, through the gateway: a token or exit 1; toxicity, PII and  *)
(* hallucination, an error being a negative answer; the login, of which it *)
(* only warns; the page; ten endpoints, of which three are not served.     *)
EndToEndOutcomes ==
  LET asked(outcomes) == IF Answers THEN outcomes \cup {"abort"} ELSE {"abort"} IN
  << asked({"pass"}), asked({"pass", "fail"}), asked({"pass", "fail"}),
     {"fail", "abort"} \cup (IF "hallucination-detector" \in up THEN asked({"pass"}) ELSE {}),
     asked({"pass", "warned"}),
     {"fail", "abort"} \cup (IF Critical \subseteq up THEN {"pass", "undetermined"} ELSE {}),
     asked({"fail"} \cup (IF "endpoints" \in checkout THEN {"pass"} ELSE {})) >>

Outcomes == IF script.name = "e2e" THEN EndToEndOutcomes ELSE GateOutcomes

Failures(outcome) == CASE outcome = "fail" -> 1 [] outcome = "fail twice" -> 2 [] OTHER -> 0

Ends == script' = NoScript
GoesTo(step) == script' = [script EXCEPT !.at = step]

(* mutant: the scripts are not stopped by what fails *)
RunGateUnstopped ==
  /\ script.at = "gates" /\ gates.status = None
  /\ Len(gates.outcomes) < Len(Outcomes)
  /\ \E outcome \in Outcomes[Len(gates.outcomes) + 1] :
       gates' = [gates EXCEPT !.outcomes = Append(@, outcome), !.failed = @ + Failures(outcome)]
  /\ UNCHANGED <<checkout, up, script, receipts, secrets, ran>>

RunGate ==
  /\ script.at = "gates" /\ gates.status = None
  /\ Len(gates.outcomes) < Len(Outcomes)
  /\ \E outcome \in Outcomes[Len(gates.outcomes) + 1] :
       gates' = [gates EXCEPT !.outcomes = Append(@, outcome),
                              !.failed = @ + Failures(outcome),
                              !.status = IF outcome = "abort" THEN "aborted" ELSE @]
  /\ UNCHANGED <<checkout, up, script, receipts, secrets, ran>>

SumUp ==
  /\ script.at = "gates" /\ gates.status = None
  /\ Len(gates.outcomes) = Len(Outcomes)
  /\ gates' = [gates EXCEPT !.status = IF gates.failed > 0 THEN "blocked" ELSE "approved"]
  /\ UNCHANGED <<checkout, up, script, receipts, secrets, ran>>

(* whoever ran the gates: a deployment goes on only if they exit with 0 *)
GatesEnd ==
  /\ script.at = "gates" /\ gates.status # None
  /\ IF script.name = "deploy" /\ gates.status = "approved" THEN GoesTo("pull") ELSE Ends
  /\ gates' = NoGates
  /\ UNCHANGED <<checkout, up, receipts, secrets, ran>>

-----------------------------------------------------------------------------
Begin(name, skip, full, own, step) ==
  /\ script = NoScript /\ ran < MaxScripts
  /\ ran' = ran + 1
  /\ script' = [name |-> name, skip |-> skip, full |-> full, own |-> own, at |-> step,
                up_before |-> up, started |-> {}]
  /\ gates' = NoGates

RunGates(full) ==
  Begin("gates", FALSE, full, None, "gates") /\ UNCHANGED <<checkout, up, receipts, secrets>>

RunEndToEnd ==
  Begin("e2e", FALSE, FALSE, None, "gates") /\ UNCHANGED <<checkout, up, receipts, secrets>>

(* deploy.sh: .env is made with a new password, or its password is kept    *)
(* for the end; a build that fails is passed over.  The shell it runs in   *)
(* may hold a password of its own.                                         *)
BeginDeploy(skip, own) ==
  /\ Begin("deploy", skip, FALSE, own, IF skip THEN "pull" ELSE "gates")
  /\ IF env = None THEN env' = fresh + 1 /\ kept' = fresh + 1 /\ fresh' = fresh + 1
     ELSE kept' = (IF env # 0 THEN env ELSE kept) /\ UNCHANGED <<env, fresh>>
  /\ UNCHANGED <<checkout, up, receipts, admin, printed, meddled>>

PullImages ==
  /\ script.at = "pull"
  /\ GoesTo("infrastructure") \/ Ends
  /\ UNCHANGED <<checkout, up, gates, receipts, secrets, ran>>

(* services that start: deploy.sh passes over those that do not, install.sh *)
(* ends; both wait, and go on whether or not they became healthy            *)
StartInfrastructure ==
  /\ script.at = "infrastructure"
  /\ \E started \in SUBSET Infrastructure :
       /\ up' = up \cup started
       /\ IF script.name = "install" /\ started # Infrastructure THEN Ends
          ELSE script' = [script EXCEPT !.at = "models", !.started = started]
  /\ UNCHANGED <<checkout, gates, receipts, secrets, ran>>

PullModels ==
  /\ script.at = "models"
  /\ IF script.name = "install" THEN GoesTo("all")
     ELSE (GoesTo("all") /\ "ollama" \in up) \/ Ends
  /\ UNCHANGED <<checkout, up, gates, receipts, secrets, ran>>

(* what `docker compose up -d` starts with this checkout *)
Composed(started) == IF "detector" \in checkout THEN started ELSE started \ {"hallucination-detector"}

(* mutant: as deploy.sh does, the installation passes over what did not start *)
StartAllAnyhow ==
  /\ script.at = "all"
  /\ \E started \in {Services, Services \ {"gateway"}} :
       /\ up' = up \cup Composed(started)
       /\ script' = [script EXCEPT !.started = @ \cup Composed(started),
                                   !.at = CASE script.name = "deploy" -> "admin"
                                            [] script.name # "deploy" /\ script.skip -> "receipt"
                                            [] OTHER -> "validate"]
  /\ UNCHANGED <<checkout, gates, receipts, secrets, ran>>

StartAll ==
  /\ script.at = "all"
  /\ \E started \in {Services, Services \ {"gateway"}} :
       /\ up' = up \cup Composed(started)
       /\ IF script.name # "deploy" /\ started # Services THEN Ends
          ELSE script' = [script EXCEPT !.started = @ \cup Composed(started),
                                        !.at = CASE script.name = "deploy" -> "admin"
                                                 [] script.name # "deploy" /\ script.skip -> "receipt"
                                                 [] OTHER -> "validate"]
  /\ UNCHANGED <<checkout, gates, receipts, secrets, ran>>

(* mutant: the one kept is not read, every deployment makes another *)
PasswordForgotten == 100 + ran

(* the shell's own, the one kept, or a new one *)
Password == CASE script.own # None -> script.own
              [] script.own = None /\ kept # None -> kept
              [] OTHER -> fresh + 1

(* /auth/setup: 200, 400 if there is an administrator, or no answer *)
SetUpAdmin ==
  /\ script.at = "admin"
  /\ LET made == [password |-> Password, own |-> script.own] IN
       /\ printed' = made
       /\ admin' \in {admin} \cup (IF admin = None /\ Answers THEN {made} ELSE {})
  /\ fresh' = IF script.own = None /\ kept = None THEN fresh + 1 ELSE fresh
  /\ meddled' = (meddled \/ (script.own = None /\ env = 0))
  /\ kept' = None
  /\ Ends
  /\ UNCHANGED <<checkout, up, gates, receipts, env, ran>>

-----------------------------------------------------------------------------
(* install.sh: .env from the example, which has no such password *)
BeginInstall(skip) ==
  /\ Begin("install", skip, FALSE, None, "infrastructure")
  /\ env' = IF env = None THEN 0 ELSE env
  /\ UNCHANGED <<checkout, up, receipts, kept, admin, printed, fresh, meddled>>

(* The first service: if it does not answer, `fail` exits; if it does,     *)
(* `pass`, which this script does not define, ends it too.                 *)
Validate ==
  /\ script.at = "validate"
  /\ Ends
  /\ UNCHANGED <<checkout, up, gates, receipts, secrets, ran>>

(* The receipt counts the healthy among the containers; where there is     *)
(* none, grep says 0 and so does `|| echo 0`, and two lines are no JSON.   *)
(* Where docker does not answer, the script ends before it.                *)
WriteReceipt ==
  /\ script.at = "receipt"
  /\ \/ receipt' \in {"no JSON"} \cup (IF up # {} THEN {"counted"} ELSE {}) /\ begun' = script.started
     \/ UNCHANGED receipts
  /\ Ends
  /\ UNCHANGED <<checkout, up, gates, secrets, ran>>

(* A service stops, but while gates run, which fail as if it had (bound);   *)
(* somebody exchanges .env.                                                *)
StopService(service) ==
  /\ service \in up /\ script.at # "gates"
  /\ up' = up \ {service}
  /\ UNCHANGED <<checkout, script, gates, receipts, secrets, ran>>

ExchangeEnv ==
  /\ script = NoScript /\ env # None
  /\ env' \in {None, 0} /\ meddled' = TRUE
  /\ UNCHANGED <<checkout, up, script, gates, receipts, kept, admin, printed, fresh, ran>>

DeploymentNext ==
  \/ RunGate \/ SumUp \/ GatesEnd \/ RunEndToEnd
  \/ \E full \in BOOLEAN : RunGates(full)
  \/ \E skip \in BOOLEAN : BeginInstall(skip) \/ \E own \in {None} \cup OwnPasswords : BeginDeploy(skip, own)
  \/ PullImages \/ StartInfrastructure \/ PullModels \/ StartAll \/ SetUpAdmin
  \/ Validate \/ WriteReceipt \/ ExchangeEnv
  \/ \E service \in {"gateway", "hallucination-detector"} : StopService(service)

DeploymentSpec == DeploymentInit /\ [][DeploymentNext]_deployment_vars

-----------------------------------------------------------------------------
DeploymentTypeOK ==
  /\ checkout \subseteq Expected /\ up \subseteq Services
  /\ script.name \in {None, "gates", "e2e", "deploy", "install"}
  /\ gates.status \in {None, "aborted", "blocked", "approved"}
  /\ {env, kept} \subseteq Nat \cup {None} /\ fresh \in Nat
  /\ {admin, printed} \subseteq [password : Nat, own : {None} \cup OwnPasswords] \cup {None}
  /\ receipt \in {None, "counted", "no JSON"} /\ begun \subseteq Services

Past == {"pull", "infrastructure", "models", "all", "admin"}

(***************************************************************************)
(* Nothing is approved that did not pass, whatever aborts; so a deployment *)
(* that does not skip its gates goes on only over services that ran before *)
(* it, a first one never, and this commit's never.                         *)
(***************************************************************************)
ApprovedMeansPassed ==
  /\ gates.status = "approved" =>
       \A i \in DOMAIN gates.outcomes : gates.outcomes[i] \in {"pass", "skip", "warned", "undetermined"}
  /\ script.name = "deploy" /\ script.at \in Past /\ ~script.skip =>
       /\ Critical \subseteq script.up_before
       /\ Missing \subseteq checkout

(***************************************************************************)
(* A receipt is left by an installation that started every service this    *)
(* checkout can start, whatever stopped meanwhile.                         *)
(***************************************************************************)
ReceiptIsEarned == receipt # None => Composed(Services) \subseteq begun

(***************************************************************************)
(* The password printed is the administrator's, over any number of blocked *)
(* and repeated deployments, unless .env was exchanged or had none, or the *)
(* shell of one of the two deployments held a password that the other's    *)
(* did not.                                                                *)
(***************************************************************************)
PrintedOpens ==
  printed # None /\ admin # None /\ ~meddled /\ printed.own = admin.own => printed.password = admin.password
=================================================================================
