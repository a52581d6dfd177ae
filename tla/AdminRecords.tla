----------------------------- MODULE AdminRecords -----------------------------
(***************************************************************************)
(* What an administrator changes through the gateway: users, API keys,     *)
(* blocklist, webhook, thresholds, policies, provider configurations, tool *)
(* approvals and overrides, erasure and purge; and a trace being ingested. *)
(*                                                                         *)
(* A handler is the sequence of its awaited statements (one that awaits    *)
(* nothing in between is one statement); none of them runs in a            *)
(* transaction, so other requests and the end of the process come between  *)
(* any two.  A value written is the request that wrote it.                 *)
(***************************************************************************)
EXTENDS Absence, Naturals, Sequences, FiniteSets

CONSTANT Requests

Removable == {"mistral"}           \* also groq, deepseek, xai, together
Shipped == {"openai"} \cup Removable  \* _providers as imported
ProviderNames == Shipped \cup {"vllm"}

VARIABLES
  store,    \* the tables and files; an earlier process may have filled them
  registry, \* _providers of the process
  request,  \* per request: kind, provider, id of a configuration, statements left, status
  trail,    \* requests whose audit entry was tried; log_audit swallows its failure
  history   \* per request: whether it changed the store, and what ran beside it

admin_vars == <<store, registry, request, trail, history>>

AdminInit ==
  /\ \E tables \in SUBSET {"configs", "approvals"}, names \in SUBSET Shipped :
       /\ "configs" \notin tables => names = {}
       /\ store = [tables |-> tables, configs |-> {[id |-> n, provider |-> n] : n \in names},
                   user |-> None, keys |-> {}, words |-> {}, webhook |-> None,
                   policies |-> None, thresholds |-> <<None, None>>,
                   results |-> {}, overrides |-> {}, feedback |-> {},
                   traces |-> {"before"}, usage_logs |-> {"before"}]
  /\ registry = Shipped
  /\ request = [r \in Requests |-> [kind |-> None, provider |-> None, id |-> None,
                                    todo |-> <<>>, status |-> None]]
  /\ trail = {}
  /\ history = [changed |-> {}, beside |-> {}, dropped |-> {}, restarts |-> 0]

-----------------------------------------------------------------------------
(* The handlers.  "identify" is current_user.get(...), which fails for a   *)
(* caller who is not signed in: nothing refuses him before.                *)
create_user == <<"find_user", "insert_user", "identify", "audit">>
deactivate_user == <<"deactivate_user", "identify", "audit">>
create_api_key == <<"identify", "insert_key", "audit">>
revoke_api_key == <<"delete_key", "identify", "audit">>
add_blocklist_word == <<"add_word", "identify", "audit">>
remove_blocklist_word == <<"remove_word", "identify", "audit">>
save_webhooks == <<"write_webhook">>
save_domain_thresholds == <<"upsert_1", "upsert_2", "identify", "audit">>

(* mutant: the entry is made after the file *)
save_policies_then_audit == <<"identify", "write_policies", "audit">>
save_policies == <<"identify", "audit", "write_policies">>

list_provider_configs == <<"create_configs_table", "read_configs">>

(* mutant: no look for a configuration of that provider *)
create_provider_config_blindly == <<"insert_config", "identify", "audit">>
create_provider_config == <<"find_config", "insert_config", "identify", "audit">>
update_provider_config == <<"get_config", "update_config", "identify", "audit">>
delete_provider_config == <<"get_config", "delete_config", "unregister", "identify", "audit">>

(* mutant: the usage rows are left *)
erase_traces_only == <<"erase_traces">>
erase_user_data == <<"erase_traces", "erase_usage_logs">>
force_purge == <<"purge_traces">>
list_approvals == <<"create_approvals_table", "read_approvals">>
approve_tool == <<"identify", "approve">>
deny_tool == <<"identify", "approve">>
add_user_override == <<"create_overrides_table", "identify", "insert_override", "identify", "audit">>
ingest_trace == <<"insert_trace", "insert_result">>
submit_feedback == <<"insert_feedback">>

Handler == [create_user |-> create_user, deactivate_user |-> deactivate_user,
            create_api_key |-> create_api_key, revoke_api_key |-> revoke_api_key,
            add_blocklist_word |-> add_blocklist_word, remove_blocklist_word |-> remove_blocklist_word,
            save_webhooks |-> save_webhooks, save_domain_thresholds |-> save_domain_thresholds,
            save_policies |-> save_policies, list_provider_configs |-> list_provider_configs,
            create_provider_config |-> create_provider_config,
            update_provider_config |-> update_provider_config,
            delete_provider_config |-> delete_provider_config,
            erase_user_data |-> erase_user_data, force_purge |-> force_purge,
            list_approvals |-> list_approvals, approve_tool |-> approve_tool, deny_tool |-> deny_tool,
            add_user_override |-> add_user_override, ingest_trace |-> ingest_trace,
            submit_feedback |-> submit_feedback]

ASSUME HandlersAssumption == None \notin DOMAIN Handler \cup {"ok"}

-----------------------------------------------------------------------------
Running(r) == request[r].todo # <<>>
At(r, s) == Running(r) /\ Head(request[r].todo) = s

Proceed(r) ==
  request' = [request EXCEPT ![r].todo = Tail(@),
                             ![r].status = IF Len(request[r].todo) = 1 THEN "ok" ELSE @]
Stop(r, status) ==
  request' = [request EXCEPT ![r].todo = <<>>, ![r].status = status]

Arrives(r, kind, provider) ==
  /\ request[r].kind = None
  /\ request' = [request EXCEPT ![r].kind = kind, ![r].provider = provider,
                                ![r].todo = Handler[kind]]
  /\ history' = [history EXCEPT !.beside = @ \cup {{r, other} : other \in {o \in Requests : Running(o)}}]
  /\ UNCHANGED <<store, registry, trail>>

(* who has changed something *)
Noted(r) == history' = [history EXCEPT !.changed = IF store' = store THEN @ ELSE @ \cup {r}]

Changes(r, new) == store' = new /\ Noted(r)

(* statements that write: what they make of the store *)
Written(r, s) ==
  \/ s = "insert_user" /\ store' = [store EXCEPT !.user = r]
  \/ s = "deactivate_user" /\ store' = [store EXCEPT !.user = IF @ = None THEN None ELSE "inactive"]
  \/ s = "insert_key" /\ store' = [store EXCEPT !.keys = @ \cup {r}]
  \/ s = "add_word" /\ store' = [store EXCEPT !.words = {"word"}]
  \/ s = "remove_word" /\ store' = [store EXCEPT !.words = {}]
  \/ s = "write_webhook" /\ store' = [store EXCEPT !.webhook = r]
  \/ s = "upsert_1" /\ store' = [store EXCEPT !.thresholds[1] = r]
  \/ s = "upsert_2" /\ store' = [store EXCEPT !.thresholds[2] = r]
  \/ s = "write_policies" /\ store' = [store EXCEPT !.policies = r]
  \/ s = "insert_config" /\
       store' = [store EXCEPT !.configs = @ \cup {[id |-> r, provider |-> request[r].provider]}]
  \/ s = "delete_config" /\ store' = [store EXCEPT !.configs = {c \in @ : c.id # request[r].id}]
  \/ s = "create_configs_table" /\ store' = [store EXCEPT !.tables = @ \cup {"configs"}]
  \/ s = "create_approvals_table" /\ store' = [store EXCEPT !.tables = @ \cup {"approvals"}]
  \/ s = "create_overrides_table" /\ store' = store
  \/ s = "insert_override" /\ store' = [store EXCEPT !.overrides = @ \cup {r}]
  \/ s = "erase_traces" /\ store' = [store EXCEPT !.traces = {}]
  \/ s = "erase_usage_logs" /\ store' = [store EXCEPT !.usage_logs = {}]
  \/ s = "insert_trace" /\ store' = [store EXCEPT !.traces = @ \cup {"later"}]
  \/ s = "insert_result" /\ store' = [store EXCEPT !.results = @ \cup {r}]
  \/ s = "insert_feedback" /\ store' = [store EXCEPT !.feedback = @ \cup {r}]

Writes == {"insert_user", "deactivate_user", "insert_key", "add_word", "remove_word",
           "write_webhook", "upsert_1", "upsert_2", "write_policies", "insert_config",
           "delete_config", "create_configs_table", "create_approvals_table",
           "create_overrides_table", "insert_override", "erase_traces", "erase_usage_logs",
           "insert_trace", "insert_result", "insert_feedback"}

(* Tables that only the listing of their rows creates, and the users'      *)
(* primary key.                                                            *)
Possible(s) ==
  /\ s \in {"find_config", "insert_config", "get_config"} => "configs" \in store.tables
  /\ s = "approve" => "approvals" \in store.tables
  /\ s = "insert_user" => store.user = None

StatementWrites(r, s) ==
  /\ At(r, s) /\ s \in Writes /\ Possible(s)
  /\ Written(r, s) /\ Noted(r)
  /\ Proceed(r)
  /\ UNCHANGED <<registry, trail>>

(* Any statement may fail, and then the answer is a 500; what was written  *)
(* before stays.                                                           *)
StatementFails(r) ==
  /\ Running(r) /\ ~At(r, "audit") /\ ~At(r, "unregister")
  /\ Stop(r, "error")
  /\ UNCHANGED <<store, registry, trail, history>>

(* save_policies: the file may not be opened, which is passed over; or it  *)
(* fails when it was already truncated, and the defaults apply.            *)
PoliciesNotWritten(r) ==
  /\ At(r, "write_policies")
  /\ \/ Proceed(r) /\ UNCHANGED <<store, history>>
     \/ Stop(r, "error") /\ Changes(r, [store EXCEPT !.policies = None])
  /\ UNCHANGED <<registry, trail>>

(* The SELECT before a write. *)
FindUser(r) ==
  /\ At(r, "find_user")
  /\ IF store.user = None THEN Proceed(r) ELSE Stop(r, "refused")
  /\ UNCHANGED <<store, registry, trail, history>>

FindConfig(r) ==
  /\ At(r, "find_config") /\ Possible("find_config")
  /\ IF \E c \in store.configs : c.provider = request[r].provider
     THEN Stop(r, "refused") ELSE Proceed(r)
  /\ UNCHANGED <<store, registry, trail, history>>

GetConfig(r) ==
  /\ At(r, "get_config") /\ Possible("get_config")
  /\ \/ Stop(r, "refused")
     \/ \E c \in store.configs :
          request' = [request EXCEPT ![r].id = c.id, ![r].provider = c.provider,
                                     ![r].todo = Tail(@)]
  /\ UNCHANGED <<store, registry, trail, history>>

(* An update that names a field sends a statement that is no SQL; one that *)
(* names none answers at once.                                             *)
UpdateConfig(r) ==
  /\ At(r, "update_config")
  /\ Stop(r, "ok") \/ Stop(r, "error")
  /\ UNCHANGED <<store, registry, trail, history>>

(* unregister_provider: names outside Removable are refused or unknown *)
Unregister(name) == registry \ (Removable \cap {name})

UnregisterProvider(r) ==
  /\ At(r, "unregister")
  /\ registry' = Unregister(request[r].provider)
  /\ history' = [history EXCEPT !.dropped = @ \cup {request[r].provider}]
  /\ Proceed(r)
  /\ UNCHANGED <<store, trail>>

(* Rows are read; an approval changes none, for nothing enters any. *)
ReadsOnly(r) ==
  /\ \E s \in {"read_configs", "read_approvals", "approve", "identify"} : At(r, s) /\ Possible(s)
  /\ Proceed(r)
  /\ UNCHANGED <<store, registry, trail, history>>

RevokeKey(r) ==
  /\ At(r, "delete_key")
  /\ \E key \in store.keys \cup {None} : Changes(r, [store EXCEPT !.keys = @ \ {key}])
  /\ Proceed(r)
  /\ UNCHANGED <<registry, trail>>

(* DELETE of the traces older than so many days *)
PurgeTraces(r) ==
  /\ At(r, "purge_traces")
  /\ \E old \in SUBSET store.traces : Changes(r, [store EXCEPT !.traces = @ \ old])
  /\ Proceed(r)
  /\ UNCHANGED <<registry, trail>>

Audit(r) ==
  /\ At(r, "audit")
  /\ trail' = trail \cup {r}
  /\ Proceed(r)
  /\ UNCHANGED <<store, registry, history>>

(* The pipeline records the usage of a call meanwhile. *)
UsageArrives ==
  /\ "later" \notin store.usage_logs
  /\ store' = [store EXCEPT !.usage_logs = @ \cup {"later"}]
  /\ UNCHANGED <<registry, request, trail, history>>

(* The process ends and starts anew. *)
GatewayRestarts ==
  /\ history.restarts = 0
  /\ history' = [history EXCEPT !.restarts = 1, !.dropped = {}]
  /\ registry' = Shipped
  /\ request' = [r \in Requests |-> IF Running(r)
                   THEN [request[r] EXCEPT !.todo = <<>>, !.status = "error"] ELSE request[r]]
  /\ UNCHANGED <<store, trail>>

AdminNext ==
  \/ \E r \in Requests :
       \/ \E kind \in DOMAIN Handler \ {"create_provider_config"} : Arrives(r, kind, None)
       \/ \E name \in ProviderNames : Arrives(r, "create_provider_config", name)
       \/ \E s \in Writes : StatementWrites(r, s)
       \/ StatementFails(r) \/ PoliciesNotWritten(r)
       \/ FindUser(r) \/ FindConfig(r) \/ GetConfig(r) \/ UpdateConfig(r)
       \/ UnregisterProvider(r) \/ ReadsOnly(r) \/ RevokeKey(r) \/ PurgeTraces(r) \/ Audit(r)
  \/ UsageArrives
  \/ GatewayRestarts

AdminSpec == AdminInit /\ [][AdminNext]_admin_vars

-----------------------------------------------------------------------------
Audited == DOMAIN Handler \ {"save_webhooks", "list_provider_configs", "erase_user_data",
                             "force_purge", "list_approvals", "approve_tool", "deny_tool",
                             "ingest_trace", "submit_feedback"}

AdminTypeOK ==
  /\ store.tables \subseteq {"configs", "approvals"}
  /\ \A c \in store.configs : c.id \in Requests \cup Shipped /\ c.provider \in ProviderNames
  /\ registry \subseteq Shipped
  /\ \A r \in Requests : request[r].status \in {"ok", "refused", "error", None}
  /\ trail \subseteq Requests

(***************************************************************************)
(* Nothing but a handler's look keeps a provider from having two           *)
(* configurations (the table has no such constraint), and the look is an   *)
(* await before the insert: there are two only if their requests           *)
(* overlapped.                                                             *)
(***************************************************************************)
OneConfigPerProvider ==
  \A c, d \in store.configs :
    c.provider = d.provider /\ c # d => {c.id, d.id} \in history.beside

(***************************************************************************)
(* A provider the gateway ships with is missing from its registry, so that *)
(* no chat can name it, only because a configuration of it was deleted     *)
(* since the process started; and those that must stay always do.          *)
(***************************************************************************)
ProvidersVanishOnlyByDeletion ==
  Shipped \ registry \subseteq history.dropped \cap Removable

(***************************************************************************)
(* An erasure that answers "erased" leaves none of the rows that carried   *)
(* the user's name before it began, in either table; one that fails half   *)
(* way says so.  Rows that arrive meanwhile may stay.                      *)
(***************************************************************************)
ErasedWhole ==
  \A r \in Requests :
    request[r].kind = "erase_user_data" /\ request[r].status = "ok" =>
      "before" \notin store.traces \cup store.usage_logs

(***************************************************************************)
(* What an audited handler changed without coming to its audit entry, it   *)
(* did not report as done; and no policies are in the file that were not   *)
(* handed to the audit log before.                                         *)
(***************************************************************************)
ChangesAreAudited ==
  \A r \in history.changed :
    LET k == request[r].kind IN
      /\ k \in Audited /\ request[r].status = "ok" => r \in trail
      /\ k = "save_policies" => r \in trail
=============================================================================
