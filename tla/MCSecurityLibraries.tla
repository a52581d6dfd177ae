-------------------------- MODULE MCSecurityLibraries --------------------------
(***************************************************************************)
(* The security libraries of shared/ side by side; they share no variable, *)
(* so a behaviour is one of theirs, the others stay as they begin.         *)
(***************************************************************************)
EXTENDS Sessions, Quotas, PolicyDecisions, InjectionDetection, Credentials, DataProtection, TLC

VARIABLE focus \* the library that moves

Data == {"ring", "dlp", "classifier", "filter"}
Libraries ==
  {"sessions", "limits", "spending", "opa", "injection", "detector", "tools", "keys", "vault", "users"} \cup Data

-----------------------------------------------------------------------------
MCRates == {[rate |-> 1, burst |-> 2], [rate |-> 2, burst |-> 1]}

MCTiers ==
  [free |-> [daily |-> 2, monthly |-> 3, rpm |-> 1, models |-> {"cheap"}],
   enterprise |-> [daily |-> 3, monthly |-> 5, rpm |-> 2, models |-> None]]
MCPrice == [cheap |-> 1, dear |-> 2]

(* every text that one or two patterns match, in plain or once decoded *)
Text(plain, decoded, decodes, short) ==
  [plain |-> plain, decoded |-> decoded, decodes |-> decodes, short |-> short]
Plain == {{i, j} : i, j \in DOMAIN Patterns} \cup {{}}
MCTexts ==
  {Text(plain, {}, FALSE, FALSE) : plain \in Plain}
    \cup {Text({}, {i}, TRUE, FALSE) : i \in DOMAIN Patterns}
    \cup {Text({}, {}, FALSE, TRUE)}
MCConfidences == {0, 30, 49, 50, 54, 55, 79, 80, 95, 100}

(* a policy file that denies what it lets be inherited, one that contradicts itself and is       *)
(* overridden for a user, and one that gives a user a role                 *)
ToolRole(allow, deny, approve, inherits) ==
  [allow |-> allow, deny |-> deny, approve |-> approve, inherits |-> inherits]
Layered ==
  [deny |-> {"exec"}, confirm |-> ("chat_ui" :> {"deploy"} @@ "api_key" :> {}),
   overrides |-> [u \in Users |-> <<>>], role |-> [u \in Users |-> None],
   roles |-> ("intern" :> ToolRole({"read"}, {"deploy"}, {}, None)
              @@ "senior_developer" :> ToolRole({}, {"read"}, {}, "intern")
              @@ "admin" :> ToolRole({}, {}, {"deploy"}, "senior_developer"))]
Overridden ==
  [deny |-> {}, confirm |-> ("chat_ui" :> {} @@ "api_key" :> {"exec"}),
   overrides |-> [u \in Users |-> <<[tools |-> {"exec"}, targets |-> {"staging"}, permission |-> "allow"],
                                    [tools |-> {"exec", "read"}, targets |-> None, permission |-> "deny"]>>],
   role |-> [u \in Users |-> None],
   roles |-> ("intern" :> ToolRole({"read"}, {"read"}, {}, None)
              @@ "admin" :> ToolRole({"deploy"}, {"read", "exec"}, {"exec"}, "intern"))]
Assigned == [Overridden EXCEPT !.role = [u \in Users |-> "intern"], !.overrides = [u \in Users |-> <<>>]]
MCPolicyFiles == {None, Layered, Overridden, Assigned}

Rule(name, action) == [name |-> name, action |-> action, enabled |-> TRUE, contextual |-> FALSE]
MCDefaultRules == <<Rule("ssn", "block"), Rule("email", "mask"), Rule("ip", "alert")>>

-----------------------------------------------------------------------------
(* a library that does not move has one of its initial states *)
MCInit ==
  /\ focus \in Libraries
  /\ SessionsInit /\ (focus = "sessions" \/ (created = 0 /\ index = {}))
  /\ ToolInit /\ KeysInit /\ VaultInit /\ UsersInit
  /\ LimiterInit /\ (focus = "limits" \/ \A t \in LimitTypes : limits[t].rate = 1)
  /\ SpendInit /\ (focus = "spending" \/ tier = "free")
  /\ OpaInit
  /\ focus = "opa" \/ (OPA_FAIL_MODE = "fail_closed" /\ \A e \in Evaluations : evaluation[e].risk = "low")
  /\ InjectionInit /\ (focus = "injection" \/ check.text.short)
  /\ DLPInit
  /\ RingInit /\ (focus = "ring" \/ \A h \in Holders : ring[h].keyed)
  /\ ItemInit /\ (focus = "classifier" \/ (item.text = None /\ item.context = None))
  /\ FilterInit /\ (focus = "filter" \/ (filtered.attacks = {} /\ ~filtered.exempt /\ filtered.method = "GET"))

DataMoves ==
  CASE focus = "ring" -> RingNext
    [] focus = "dlp" -> DLPNext
    [] focus = "classifier" -> ClassifyItem
    [] focus = "filter" -> FilterNext

PipelineOrDetector == InjectionNext /\ IF focus = "injection" THEN UNCHANGED scan ELSE UNCHANGED check

MCNext ==
  /\ UNCHANGED focus
  /\ IF focus = "sessions" THEN SessionsNext ELSE UNCHANGED session_vars
  /\ IF focus = "limits" THEN LimiterNext ELSE UNCHANGED limiter_vars
  /\ IF focus = "spending" THEN SpendNext ELSE UNCHANGED spend_vars
  /\ IF focus = "opa" THEN OpaNext ELSE UNCHANGED opa_vars
  /\ IF focus \in {"injection", "detector"} THEN PipelineOrDetector ELSE UNCHANGED injection_vars
  /\ IF focus = "tools" THEN ToolNext ELSE UNCHANGED tool_vars
  /\ IF focus = "keys" THEN KeysNext ELSE UNCHANGED key_vars
  /\ IF focus = "vault" THEN VaultNext ELSE UNCHANGED vault_vars
  /\ IF focus = "users" THEN UsersNext ELSE UNCHANGED user_vars
  /\ IF focus \in Data THEN DataMoves ELSE UNCHANGED data_vars

mc_vars ==
  <<focus, session_vars, limiter_vars, spend_vars, opa_vars, injection_vars, tool_vars, key_vars,
    vault_vars, user_vars, data_vars>>
MCSpec == MCInit /\ [][MCNext]_mc_vars

-----------------------------------------------------------------------------
(* The type invariants of the libraries. *)
SecurityTypeOK ==
  /\ SessionsTypeOK /\ LimiterTypeOK /\ SpendTypeOK /\ OpaTypeOK /\ InjectionTypeOK
  /\ ToolTypeOK /\ KeysTypeOK /\ VaultTypeOK /\ UsersTypeOK /\ DataTypeOK

(***************************************************************************)
(* What was taken back stays taken back, whatever calls overlap: a session *)
(* that was revoked (session.py), an API key that was revoked or rotated   *)
(* (api_keys.py), a user that was deactivated (rbac.py), a secret that     *)
(* this process replaced (vault.py).                                       *)
(***************************************************************************)
RevocationHolds ==
  RevokedStaysRevoked /\ OneActivePerLine /\ RevokedIsNeverValid /\ RetiredForGood /\ SecretsAreFresh

(***************************************************************************)
(* Who is let in was to be let in, and who was to be let in goes on being: *)
(* tokens, budgets and their counters, OPA's circuit, the listed policies  *)
(* of tools, logins, the session just made and the line of a key.          *)
(***************************************************************************)
AdmissionIsDue ==
  /\ GrantsAreBounded /\ RetryIsServed /\ CountersAreTrue /\ OverrunIsBounded /\ RecommendedIsUsable
  /\ TurnedAwayForCause
  /\ ListingIsEnforced /\ LoginsWereDue /\ OwnSessionSurvives /\ LineGoesOn

(***************************************************************************)
(* What content is taken for is graded as the tables say, the strictest    *)
(* rule is the one taken, what is masked shows nothing of what was found,  *)
(* and what was encrypted opens to its own record and key only.            *)
(***************************************************************************)
ContentIsGuarded ==
  VerdictsAreGraded /\ StrongestIsTaken /\ MaskedIsClean /\ PassedUnseen /\ OpensToItsOwn
================================================================================
