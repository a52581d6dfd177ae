# PolarisGate: a TLA+ verification project

PolarisGate is a safety gateway for LLM calls.  A FastAPI gateway sends each chat request
through input guardrails, a budget check, the model provider and output guardrails, records
what it found, and leaves an audit trail; worker services classify text over HTTP and traces
over a Redis stream; two web pages and a Python SDK call it; shell scripts deploy and maintain
it.  This directory holds TLA+ modules translated from that code, TLC configurations that
check them on small instances, and TLAPS proofs of the properties that matter most, for every
instance.  Paths below are relative to `src/services/` unless they begin with `src/`, `scripts/`
or `frontend/`.

Contents: [Inventory](#inventory), [Modules and code](#modules-and-code), [Runs](#runs),
[Bounds](#bounds), [Fairness](#fairness), [Proofs](#proofs), [Findings](#findings),
[Divergences met](#divergences-met), [Not modelled](#not-modelled), [Plan](#plan).

## Inventory

What runs: one or more gateway processes (`gateway/`), the guardrails service
(`guardrails/`), the hallucination detector (`hallucination-detector/`), and smaller services
(collector, cost tracker, bias monitor, AIDA bridge, agent host, RAG pipeline, accuracy
monitor), all importing `shared/`.  They meet in PostgreSQL (through one connection pool per
process), in Redis (a cache key and two streams) and over HTTP.  Each process runs one
asyncio event loop: between two awaits nothing else of that process runs, except one preload
thread in the guardrails service; at an await every other coroutine may.

| Component | State | Operations | Talks to | Hard because | Correct when |
|---|---|---|---|---|---|
| Audit log, `shared/audit.py` | table `audit_logs`, ids, two hash columns | `log_audit`, `verify_audit_chain` | PostgreSQL; called by every router | newest hash read before an await and used after it; both statements swallow errors; rows appear in commit order | a broken link has an excuse; tampering is located; a break never heals |
| Safety pipeline, `gateway/app/safety/` and the stream generators of `routers/chat.py`, `routers/proxy.py` | the request; tables `usage_logs`, `guardrail_results`, `audit_logs`; Redis key `dashboard_summary` | input guardrails, quota, provider call, output guardrails, usage, record, invalidate, audit | guardrails and detector services, provider, PostgreSQL, Redis | nine calls that fail on their own; a second, shorter copy of the sequence for streams; clients leave, processes stop | nothing rejected is forwarded; nobody is called or charged twice; the audit trail is true |
| Dashboard, `gateway/app/routers/dashboard.py` | a Redis key with a 30 s expiry | `GET /summary` | Redis, PostgreSQL | fills the cache with counts taken before an await, against the pipeline's invalidation | shows only what is recorded, and in the end all of it |
| Conversations, `gateway/app/chat_store.py`, `context_limits.py` | tables `conversations`, `chat_messages` | create, append, history, trim, delete | PostgreSQL; wraps the pipeline | four transactions and two model calls per request; requests to one conversation overlap; two cuts of the history | only answered exchanges are remembered, question before answer; a follow-up is answered in context |
| Pages, `frontend/public/chat.html`, `js/app.js` | lists and variables behind the screen | send, load, select; draw, edit, save | gateway | every draw awaits its reads and then replaces the screen, in any order | the screen shows one conversation; what is clicked or saved is what is shown |
| Providers and streams, `shared/providers/`, `gateway/app/providers/` | the request, the vendor's lines | translate, stream, check, save, audit | model vendors, client | each part of a stream fails after a part of it was shown; five shapes of messages | one text is shown, judged, saved and logged; the prompt checked is the prompt sent |
| Python SDK, `src/sdk/polarisgate/` | none | `chat`, `proxy_chat`, ... | gateway | retries POSTs that may have succeeded | sent again only while unsettled; the last verdict is returned |
| Calls between services, `shared/circuit_breaker.py` | circuits, failure history | wrapped calls | every outgoing HTTP call | a circuit per call; retries around it | requests stay bounded, alarms name a cause |
| Hallucination detector, `hallucination-detector/hd_cascade/` | none of its own; a row of `guardrail_results` | rules, NLI ensemble, one judge, two judges, action | LLM, gateway, PostgreSQL | three scales of confidence; models that time out; a row two services write; a caller that gives up | a hallucination is reported on evidence; high stakes reach both judges; callers agree with it |
| Guardrails stream worker, `guardrails/worker.py` | consumer group, result and dead-letter streams, `guardrail_results` | read, evaluate, publish, store, acknowledge | Redis, PostgreSQL | three effects in two systems; killed workers; entries without a field | nothing acknowledged is lost; nothing handled twice; nothing blocks the stream |
| Guardrails check, `guardrails/worker.py`, `guardrails/app/`, `shared/policy_engine.py` | response cache, two module variables with the loaded model, classifiers that keep it | `/check`, `/shap`, `/reload-model`, trace evaluation | LLM (verification of personal data) | a preload thread writes the same variables without a lock; models that fail to load; verdicts served from a cache | verdicts rest on what was heard; the strictest rule decides; a classifier keeps its own model |
| Authentication, `gateway/app/routers/auth.py`, `shared/security/auth.py` | failure lists and used refresh tokens per process; the administrator's row | setup, login, refresh, logout | PostgreSQL | look and entry an await apart; state per process | guessing is held off; a token refreshes once per process; setup happens once |
| Administration, `gateway/app/routers/` (users, API keys, settings, policies, providers, GDPR, canary), `cost-tracker/app/budgets.py` | tables, YAML and JSON files, the provider registry, a cache per process | the handlers | PostgreSQL, file system, audit log | sequences of statements without a transaction; read-merge-write | nothing half done and called done, nothing unaudited, nothing lost but by an overlap |
| Clients, `shared/db.py`, `shared/redis_client.py` | pool and client of a process | get, close | PostgreSQL, Redis | made by the first caller, or by two | what was opened is held or closed |
| Security libraries, `shared/security/`, `rate_limiter.py`, `cost_tracker.py`, `opa_client.py`, `injection/`, `gateway/app/mcp/` | sessions, keys, users, secrets; buckets, counts, a circuit; rules | issue, validate, revoke; admit; detect, mask, encrypt | Redis, PostgreSQL, Vault, OPA, LLM | every command an await; stores that fail; clocks and boundaries | what was revoked stays so; who is admitted was due; content is graded and masked |
| Record keepers, `shared/security/{consent,breach_notification,pci,compliance,audit}.py`, `compliance/soc2.py`, `events.py`, `system_logs.py` | JSON files, lists, chains | record, update, rotate, page | file system, Redis, PostgreSQL | rewritten files, restarts, rotations, pages by offset | what was recorded is found again |
| Model operations, `shared/data_versioning.py`, `model_router.py`, `model_registry.py`, `drift_detector.py` | files and a manifest; versions and counts; a window | snapshot, route, promote, register, watch | file system, Redis | two writes per record; results that come after a promotion | promoted on evidence; registered is loadable; drift is noticed |
| Scripts, `scripts/*.sh`, `scripts/*accuracy*.py`, `scripts/preflight-check.js`, `shared/preflight.py`, `install.sh` | files, containers, figures | deploy, gate, back up, scale, compare | Docker, services | shells that stop or go on at a failure; a baseline that may move | what is claimed to have passed has passed |

`PROJECT.json` repeats this list with the files and the status of each component, and lists
under `hazards` the places where the code is hard to test, with the properties that would
catch them going wrong.

## Modules and code

Each definition carries the name of what it models where TLA+ allows it; `PROJECT.json`
("map") gives the source lines of each.  A definition whose comment begins with "mutant" is
not part of a specification: it is a plausible bug of the definition after it, used to show
that a property can fail.  `Absence` declares `None`, which the modules share.

### The gateway and its services

**AuditChain** models `log_audit` and `verify_audit_chain`.  A call is four steps, one per
await or database event: read the newest hash, draw the SERIAL id, commit, return; the read
and the insert may each fail unnoticed.  A hash is represented by what was hashed, so equal
hashes mean equal history.  `suspect` and `excused` are history variables: callers that
overlapped another call or failed to read, and the rows they wrote.

**SafetyPipeline** models a chat request as one step per await of
`SafetyPipelineService.run` (mode "run") or of the stream generators (mode "stream").  A
text is the set of findings detectors would make in it, a check the set they did make given
which of them were down, a `Faults` constant says what may fail.  `quota` keeps what a request
found when it asked for its budget.  The audit entry is committed in one step and the answer given
in a later one (`Reject`, `Respond`), so a process that stops in between leaves an entry of a
request that nobody was answered (`YetToAnswer`).  **PipelinePromise** is the
abstract specification the routes rely on: rejected requests never reach the provider, no
request reaches it twice, answers have been screened.  SafetyPipeline implements it under the
mapping `outcome`, `calls` defined at its end.  **GatewayDashboard** extends SafetyPipeline
with viewers of `GET /summary`: the two share the Redis key and the table.

**Conversations** models `POST /completions`, its stream and `DELETE /conversations/{id}` as
far as they create, load, trim and save; in between it takes the pipeline at its promise
(INSTANCE PipelinePromise).  A history is a sequence of messages by role and request; tokens
are a weight per role.  **BrowserChat** is the page in front of it: one list on the screen,
sends that push onto whichever list is there when they are answered, loads that replace it.  The
gateway answers also when creating the conversation or saving the reply failed, with a conversation
that is null or does not hold it; such a reply is on the screen and not stored (`unsaved`).

**SdkCalls** composes the SDK's attempts with a gateway that keeps PipelinePromise for each: an
attempt that timed out goes on at the gateway, and its answer arrives when nobody waits.
**ServiceCalls** models the calls between services with the circuits around them,
**ProviderStreams** a streamed chat from prompt to `[DONE]` with the adapter that translates it
and the client that may leave.

**HallucinationCascade** models one detection from its arrival to the answer, the row it
upserts and the caller's conclusion, with the guardrails worker writing the same row at any
time.  Confidences, scores and thresholds are in hundredths; what rules, NLI models and
judges say is free among the values they can return.  A judge's answer that is no text raises in
stage 4, whose default, no hallucination with a score of 0.5, drops what the other judge said.

**TraceWorker** models `GuardrailsWorker.run`: delivery through the consumer group, the three
effects per entry, dead letters, and workers that end and are restarted.  A failing Redis call
may have taken effect.

**GuardrailsCheck** models the HTTP half of the same service at tier 2.  The event loop holds
one handler at a time (`loop`), and leaves it only at the LLM verification; loading a model
is one step per access to `_model_pipeline` and `_model_name_loaded`, because the preload
thread runs the same code concurrently.  A text is the score each model would give it, the
score of its keywords and its types of personal data; policies are a sequence of rules, as in
the YAML file; `Evaluate` is the fold that `PolicyEngine.evaluate` is.

### Administration

**ProcessState** holds what a process keeps in variables of its own, in three parts that share
nothing: failed logins and used refresh tokens, the cache of canary tokens, pool and Redis client
with their retries and their closing.  **RowEdits** is the administrator's row and the budgets,
read, merged and written back; **AdminRecords** twenty-one handlers, each the sequence of its
awaited statements, interleaved with others, with a failure or a restart between any two;
**DashboardApp** the administrator's page: its timer, every drawing as the sequence of its reads,
the views with edits of their own.

### Libraries and scripts

The libraries below have no caller in the services, or only some of their operations have one;
their modules let a program call the operations in any order and overlap them where they await.
**Sessions**, **Credentials** (API keys, Vault, users), **Quotas** (token buckets with the
middleware in front, spending tiers with the totals and the model they recommend),
**PolicyDecisions** (OPA behind its circuit, the tool policies), **InjectionDetection**,
**DataProtection** (key ring, DLP, classifier, request filter); **ComplianceRecords** (registers
in JSON files, SOC 2 lists), **Journals** (the file journal, the event bus), **ModelOperations**
(snapshots, routing), **ModelMonitoring** (drift, registry, evaluation, experiment tracking in
MLflow), **Assessments** (fairness measures, bias tests and mean accuracies, rounded where the
code rounds; folds and confusion matrices; feedback, overrides and their statistics; escalation).
**Deployment**, **Maintenance** and **ReadinessChecks** model scripts: a command succeeds or
fails, and the script goes on or stops as its shell options and its conditions say.

What these modules make of data: the classifier masks pattern after pattern, as the code
substitutes, over a text that is a set of things with their pieces, so one pattern can cut another's
find.  Journals have files by day and archives by name, whose names repeat within a second; a file
that cannot be read gives no hash.  Registers in files are lost by a failed read and the save that
follows it; SOC 2 lists end with their process.  Deployment keeps the three places a password comes
from (the shell, the file in /tmp, a new one) and, as history, the services an installation started.
A fairness figure is a count of its last digit: `Rounded` takes the nearest, of two the even one,
as Python's `round` does of a number that is exactly between them.

The MC modules compose what a run checks together.  Where the parts share no state
(MCOutboundCalls, MCConversations, MCAdministration, MCSecurityLibraries, MCOperations) a
variable `focus` names the part that moves and the others stay as they began: the state space
is the sum, not the product.  Parts that do interact are composed by sharing variables
(GatewayDashboard) or by instantiating the other's promise (Conversations, SdkCalls).

## Runs

| Run | Instance | What it shows |
|---|---|---|
| `audit_chain` | 3 callers, 2 entries, 4 ids, symmetric callers | Every break has an excuse, links lead back to GENESIS, a tampered or deleted row is located, breaks are permanent |
| `gateway_dashboard` | 1 request, 2 viewers, every kind of fault | Nothing rejected is forwarded; usage, audit, row and dashboard agree whichever write failed; the promise (refinement); requests end; dashboards show every recorded incident in the end |
| `flagged_persisted_claim` | 2 requests, no faults | violation: a flagged event with personal data is not recorded |
| `hallucination` | 9 domains (one per distinct row of the threshold tables, and one unknown to them), a score on each side of every comparison | Evidence, debate in high stakes, agreement of gateway and detector, the shared row, termination |
| `conversations` | 3 requests, 2 conversations, limit 3, window 5; on the page 2 sends, 2 loads, 2 conversations | What is remembered, in which order, what a follow-up sees, that deletion is final; and that the screen shows the selected conversation unless something was begun while something was under way |
| `trace_worker` | 2 workers, 1 trace, 3 entries, batches of 2, 2 faults | Acknowledged is kept, handled at most once, every entry ends or was in the hands of a worker that died |
| `guardrails_check` | 2 checks and one trace, reload or explanation, 2 texts, 5 rules, a cache of 1 | What verdicts rest on, that the strictest rule decides, that models stay with their users after the preload, that checks are answered |
| `outbound_calls` | SDK: 1 call of 5 kinds, 2 retries, answers before and after its timeout; services: 2 tasks, circuits of 2; streams: 7 bodies, 3 lines | Calls are sent again only while unsettled and bounded in number, late answers are not taken for verdicts, streams show, judge, save and log one text, everything ends |
| `administration` | 2 clients at 2 processes; 2 edits; 2 of 21 handlers; 3 canary requests at 2 processes; 3 callers of pool and client; 2 drawings | What requests that interleave, fail or are cut off leave in tables, files, per-process state and on the screen |
| `staged_rules_claim` | 2 drawings, 1 rule | violation: a rule just staged is gone from what is saved |
| `security_libraries` | each library alone, 2 or 3 overlapping calls, clocks of 3 to 5 | Revocation holds, admission was due, content is guarded |
| `operations` | each keeper, library or script alone, 2 processes or calls, 3 to 6 records | Records survive, claims are earned, watchers act |

Properties of the last five rows are conjunctions of named parts, one or two per component;
the comment of each part, in the component's module, says what it is about and which
interleavings it excuses.  Excuses are history variables (an overlap, a look that failed, a
process that restarted): the properties say that what goes wrong goes wrong for no other reason.

## Bounds

*Audit:* a fork takes two overlapping callers, a row that lands between two linked ones a third;
four ids leave room for a row before and after.  *Gateway:* requests share nothing but the Redis
key and rows of their own; what another request does to the key (delete it) its expiry does at any
time, so one request with two viewers meets every interleaving; the run without faults uses two.
*Hallucination:* detections share no state.  *Conversations:* an interleaving of questions and
answers takes two requests, a follow-up of both a third; the limit 3 and window 5 are crossed by
the second exchange (4 rows, 6 tokens); on the page a mix-up takes one load or send overtaking
another.  *Worker:* two workers and batches of two make entries wait behind one that fails; two
faults allow a fault and one while recovering from it.  *Check:* a mix-up takes one thread and one
loading handler; a stale or evicted entry takes two checks of two texts; the texts lie on the
thresholds 0.5 and 0.7 and the policies hold a rule of each kind and two that mask.  *Outbound:*
two retries give a first, a middle and a last attempt; two tasks share a history of three
failures.  *Administration:* lost updates, duplicates and leaks take two requests that overlap;
three callers of a pool give one that finds what two made.  *Libraries:* limits are 1 to 3, so
that each is reached and passed; two changes of a register give one that is interrupted or
overlapped and one that comes after, in another process or the same; four audit events give two
rotations in one second, and one write that fails is enough to lose one in an archive; six drift
scores fill a window of four and replace half of it; three weeks make a slow decline differ from a
fast one.  Two scripts in a row give a deployment after a blocked or different one; two
registrations, one with metrics and one without, and a list that keeps one name make a listed
version differ from the last.  *Rounding:* figures have one digit (`PRECISION` 10) and mean
accuracies halves (`MEAN_PRECISION` 2) instead of four digits, so that groups of a few traces are
small enough to round away, as groups of two beside a hundred thousand are in the code.

Bounds that are not in the code (`MaxId`, `MaxEntries`, `MaxFaults`, `MaxTime`, `Last...`,
`Max...`) are constants named in the modules, and so are limits the code has but larger ones
(5 failed logins, 5 sessions, the lengths of lists and journals).  Runs that say
`CHECK_DEADLOCK FALSE` are of systems that come to rest when their requests are done.

## Fairness

Every liveness property assumes only that what the code schedules goes on: asyncio runs
coroutines that are ready (weak fairness of a request's next step) and the awaits in question
have timeouts (the modelled HTTP calls have one; database and Redis errors are steps).  Beyond
that: Redis expires a key (weak fairness of `ExpireSummary`); a dashboard polls, and does not
meet a failing database each time (strong fairness of `CountIncidents`; without it
`IncidentsGetShown` is false); Docker restarts a worker that ended (`restart:
unless-stopped`); the preload thread runs; a client of a stream that does not leave reads on.
Faults, kills and the clock are never assumed to act.

## Proofs

tlapm checks every proof to its leaves.  Constants are arbitrary except for the named
assumptions of the modules (`NoneAssumption`, `CacheAssumption`, `HandlersAssumption`, ...: None
is not a value, a size is positive, and the like), which TLC evaluates in the runs.  The theorems
are of the modules' own specifications, or of the compositions the runs check.  Every property
proved is checked by TLC on the run's instance too.

* **SharedLibrariesProofs**.  *Of the audit chain:* `TypeCorrect`, `BreaksExcused`, `LinksBack`,
  `Tampering`, `BrokenForever`.  That breaks are excused is not inductive: it needs that a caller
  that is not suspect is alone (`Alone`), hence what it read is still the newest hash when its row
  commits (`StillNewest`) and its row is the last (`NothingLater`), and that a row committed late
  lands only before excused rows.  `Tampering` and `BrokenForever` need an induction along the
  table: in a chain that verifies the hashes get longer from row to row, so no two rows share one,
  and a row changed or missing leaves a gap that no other row's hash fits, now or later.
  *Of the ten security libraries:* `LibrariesSideBySide` (a behaviour of the composition is one of
  each library), `Typing`, `Revocation`, `Admission`, `Content`, and with names of their own
  `OwnSession`, `Logins`, `Lines`, `OpaCircuit`, `ListedTools`.  Each library has its invariant:
  - sessions: two calls under way have met (`Met`), so a validation about to write back a session
    that was revoked ran beside the revocation (`TouchedBeside`); what nobody has stored yet is in
    nobody's hands (`UnstoredIsUnseen`); a creation that enforces the limit has itself left out
    (`OwnIsSpared`).  This last part, `OwnSession` and with it `Admission` are proved for every
    limit but 0; with 0 the session just made is taken too, and nothing sets it so.
  - keys: while a key is rotated, no other rotation of its line is under way and no other key of
    it active (`OneRotation`, `OthersInactive`), and a line without an active key has a call that
    broke off (`LineStands`); Vault: a cached secret is the newest or has not outlived the one that
    replaced it (`EntryOK`); users: who was found fitted when read (`LetIn`).
  - buckets: between any two moments what was granted *and what is left* are within burst and rate
    (`Budgeted`), and the advice given to who was refused stays good until somebody else is served
    (`AdviceHolds`); spending: counters are sums over the ledger (`CountersStand`,
    `TrackedStands`), and with what those let through have still to pay they are within the limit,
    but for one request of each other spender (`BudgetsStand`).
  - OPA: the circuit counts failures that happened and opened at one of them (`CircuitStands`);
    tools: the calls looked at are divided among three lists as the policies say (`ListsStand`,
    `Decided`); detectors: what a scan has summed is what its matches allow (`ScanStands`), an
    answer goes with its layer (`CheckGraded`).
  - encryption: a ring has every version up to its current one (`RingStands`) and what its holder
    wrote is under one of them (`StoredStands`); DLP: picking the matching rules from the
    sequence of rules, a recursive function (`Among`), finds all that match and no other.
* **SafetyPipelineProofs**, about the pipeline with dashboards around it: `TypeCorrect`,
  `NeverForwarded`, `UsageAnswered`, `Refinement`, and, for the composition, `Agreement`,
  `NeverForwardedWatched`, `RefinementWatched`.  The invariant ties where a coroutine is to what
  was decided on the way: past the guard its check let it pass (`Screened`), past the quota it was
  found within budget, or its own check of it could not be read (`WithinBudget`), calls and usage
  rows are counted by place (`InOrder`), and only screened requests are answered
  (`ScreenedInOrder`).  Refinement is one lemma per action: a step of PipelinePromise or a
  stutter; the dashboards' steps leave the promise's variables alone. That the records agree needs
  to know of every check of which text it is (`Heard`), up to which step nothing is logged or
  recorded (`Logged`, `Found`), and of a viewer that what it counted is recorded (`ViewersOK`).
* **DetectionProofs**, about the detector and the stream worker: `TypeCorrect`, `OnEvidence`,
  `Debated`, `NotOnlyLogged`, `WorkerStands`, `Agreement`; `NothingLost`, `Once`.  The detector's
  invariant says that a result is there exactly after the stages (`ResultIff`), that later stages
  have run only after earlier ones (`JudgesInOrder`), which verdicts a result is consistent with
  (`Consistent`), and that the worker's verdict is in the row once it wrote it (`WorkerRow`).  Of
  the worker: no entry is held twice (`HeldOnce`), what a worker has not come to was never
  published nor dead-lettered (`NotYetPublished`, `NotYetDead`), and an entry leaves the pending
  list only behind its row or its dead letter (`StoredWhileAcked`, `StillPending`).
* **ConversationsProofs**: `Typing`, `Memory`, `Screen`, `SideBySide`.  What is saved and replied
  is not inductive: what holds of a request on its way there (`Progress`), whose messages a
  conversation can hold (`Written`), that an answer is saved only after its question
  (`QuestionSaved`), and what the prompt holds before the call (`EndsWithOwn`, `ContextComplete`):
  a message saved later is of a request not replied to when this one was sent (`EarlierReplied`).
  The token count is a recursive function; that it grows with the messages is an induction.  Of
  the page: what is being stored or loaded has its conversation, unless its saving failed
  (`Placed`), an indicator belongs to a send under way (`Indicators`); as long as nothing was
  begun while something was under way, one call is (`OneAtATime`), so the list is the
  conversation's own, or nothing, until it ends (`ScreenShows`).  Taking the indicator out leaves
  the other messages in their order (`IsLeft`).
* **GuardrailsCheckProofs**: `Verdicts`, `Strictest`, and the action property `OwnModels`. The
  invariant follows a job around the loop: its text and what was found in it (`WorkOK`), what the
  models have said on the way to the next one (`HeardOK`), and that every result kept or given
  rests on that (`CacheOK`, `AnswerOK`).  `PolicyEngine.evaluate` is a fold over the rules; that
  it yields the first rule of the greatest strictness is an induction over the rules seen so far.
* **AdministrationProofs**, about the five parts side by side and the page: `Typing`,
  `StateHolds`, `RecordsHold`, `ScreenHolds`.  A refresh token's uses are bounded by the processes
  that have it in their blacklist (`UsesAreBlacklisted`); what a canary check puts into a cache
  was read before the revocation (`ReadBeforehand`); an open connection is in its variable unless
  a second caller made one meanwhile (`OpenIsHeld`).  What a handler has still to do is the end of
  the sequence it is made of (`Handled`), so what came before is done; two that run at the same
  time have met (`RunningTogether`, `NotedTogether`), so what a look found can only have been
  changed by a request that overlapped (`Looked`, `ReadIsThere`).
* **OutboundCallsProofs**, about the SDK, the calls between services and the streams side by
  side: `Typing`, `CallsSettled`, `StreamsGuarded`.  Of the SDK: an attempt that another one
  follows *or may follow* is unsettled (`EarlierUnsettled`), and the gateway has no trace of one
  that was not sent or was turned away (`UnsentIsUnseen`).  Of a report: how many requests its
  tier still has (`ReportProgress`); the alarm is that of the history as it stands
  (`AlarmIsCurrent`).  Of a stream: what it has shown, judged, saved and logged is a function of
  where it is (`Account`).  That the prompt checked is the one sent is proved for every body and
  history: taking the members of a set from a sequence finds all of them (`AmongFinds`), twice is
  once (`AmongTwice`), and a new last user message is the last (`LastUserTextOfNew`).
* **OperationsProofs**, about the record keepers, model operations and scripts side by side:
  `RecordsKept`, `ClaimsHeld`, `WatchersDo`, each from the theorems of its parts.  MCOperations
  leaves all parts but one as they begin, so that each part's own specification holds
  (`RecordsBeside`, `ModelsBeside`, `ScriptsBeside`).
  - files: what memory and file have is what was acknowledged, but for the trouble that is noted,
    and what a failed read or a save cut short leaves is blank or as acknowledged, never older
    (`AsAcknowledged`, `NothingRevived`); SOC 2: a list is what its process made, in its order, and
    Redis has the newest of what was pushed (`ListOfMade`, `NewestFirst`);
  - snapshots: a file is whole from its writing on, unless the same second made it twice
    (`SnapshotsInv`); the registry lists a name after its version, and a version's key says
    measured exactly if a registration of it did (`RegistryInv`); a run of MLflow is open exactly
    while its report goes on, or its end failed (`OpenRunOK`);
  - audit events: while one process writes, where each hash came from decides whether it is of the
    event before: from memory it is, from a file it is unless the event before went with its
    process, and was unwritten or behind an archive (`OneChain`); the bus: a handler has been
    given an event, or is still among those to call (`HandlersInv`); pages: while no two events
    are of the same time, what was there at first and is not returned comes after the offset,
    whatever was put in before it (`PagesInv`);
  - routing: what is counted is of an inference that was routed to it and recorded (`Rests`,
    `Inferred`); evaluation: the three counts are of samples rated (`EvaluationInv`); drift:
    a window that is full is looked at with every sample (`FullWindowIsChecked`);
  - deployment: while the gates run nothing starts or stops, what did not pass is counted, and
    the services the fifth one found are those that ran before (`GatesInv`); an installation that
    comes to its receipt started everything (`ReceiptInv`); while nobody meddles the password
    printed, set and kept is that of `.env`, or the shell's own (`SecretsAgree`);
  - backups: the files of the run under way are those of the stores done with, of completed runs
    those they said (`UnderWay`, `Settled`); training: the stage that trains is never passed over,
    so what is registered was trained (`TrainingInv`); thresholds, settings and containers: one of
    the readings best by rank exists because there are finitely many (`OneIsPreferred`);
  - escalation: of calls within the window the last one to count has seen all that pushed before
    (`OneEscalates`); opinions: a history that lost its oldest counts no opinion that is not in
    the totals (`OnlineInv`), and a request's numbers are of prefixes of the table
    (`StatisticsInv`).

**Induction over data.** The library's induction theorems take an operator as a parameter, which
the installed provers cannot instantiate.  The proofs take induction from its theorem that < is
well founded on Nat instead, which needs none: a set of naturals has a least element
(`LeastNatural`), so a set that has 0 and with every number the next has all (`SetInduction`).
So what the recursive functions of the model compute (hashes along the table, sums over the
ledger, the pruned list of failures, the strictest rule, the messages of a role) is proved for
arguments of every length.

Only model-checked: all liveness properties and ENABLED (out of the prover's reach); the two
properties of the runs that expect a violation; and `FiguresAgree`: the types of the operations
modules and what their measures say of sums over groups and folds.  These are folds of the
library over sets, of which tlapm has no theorem, and quotients of their results; TLC
explores every survey and trial of the instance completely.

## Findings

Two disagreements between the code and its own words are shown by runs (`findings` in
`PROJECT.json` has the lines): flagged traces with personal data are not persisted, and the
page says of a deny-list rule that it is staged after dropping it.

## Divergences met

Seen while modelling; the modules have what the code does, and properties excuse or delimit it.

**Gateway.** Overlapping `log_audit` calls break the chain without tampering
(`shared/audit.py:99`, against line 4: "A broken chain means the log has been tampered with");
`BreaksAreExcused` says exactly when.  Stream routes never check the budget
(`chat.py:261`, `proxy.py:141`, against `docs/architecture/TAD.md:238`).  Histories beyond 100
rows lose their newest messages (`chat_store.py:194`).  A "message" beside "messages" is dropped
unless there is a conversation; the Cohere adapter sends a "message" the routes have already
taken out; a vendor's error lines in a stream are skipped.  `get_current_user` returns no "sub",
so everybody is "system".

**Detector and guardrails.** A banking answer found hallucinated is shown with a warning
(`hd_cascade/main.py:200`, against `policies/confidence_thresholds.yaml:7`: "Never show
hallucinated content").  An answer of a judge that is no text lets a high-stakes claim pass
unflagged, though the other judge may have contradicted it (`cascade_orchestrator.py:246`); the
gateway, which asks whether the score of 0.5 is at least 0.5, takes the same answer for a
hallucination (`HighStakesAreDebated` and `GatewayAgrees` name it).  RoBERTa below 0.7 is not
believed when BERT cannot be loaded (`guardrails/worker.py:243`).  A classifier keeps another
model's pipeline when preload thread and first check load together.  Policies of type "pii" ignore
`enabled`; of two types to mask the first is masked.  Entries pending at a worker that died are
never claimed.  Saved policies reach the guardrails service when it restarts.

**Calls.** Circuits made per call never open (`circuit_breaker.py:305`); the one kept decorates
a function that catches everything.  The failure pattern passes over failures without a status.
SDK attempts after the first wait 30 seconds, not the 120 asked for.

**Administration.** Of two overlapping edits one is lost; setup may run twice at once; failed
logins sent together pass the check together.  Logout awaits a boolean: the token is blacklisted
and the caller gets 500; the blacklist is asked at refresh only.  `update_settings` with a
timeout meets an undefined name; `update_provider_config` has a stray backslash in its SQL and
fails whenever a field is given.  Policies: the entry precedes the file, and a file that could
not be written answers "saved".  Canary tokens cannot be created (a text for a timestamp); an
empty cache never asks the table (`canary.py:98`: "Falls back to database on cache miss").

**Pages.** Editing a policy loads the policies again and loses the edit; a failed load shows an
empty list, and saving then empties the file; toasts say success whatever the answer; a late
drawing replaces a newer view.  In the chat a reply appears in whichever conversation is on the
screen; a reply whose saving failed is
shown and gone when the conversation is loaded, or stands there with no conversation selected; an
attached file's text is never sent; `deleteServerConversation` is not defined.

**Security libraries.** Validating a session revives one revoked meanwhile; the index of a user's
sessions expires before them, so that revoking all misses some.  After a rotation that fails
half-way a key's line has no active key.  OPA: after the pause all requests go, not "the next";
critical actions pass when OPA is not available and the mode is risk-based.  The judge's fallback
setting is never passed on, and the gateway blocks every detected text whatever the recommended
action.  Tool policies: `adds_allow` and `adds_deny` are not read, roles inherit one level deep.
Vault: the environment fallback drops the path, so two secrets share a variable. Encryption: salts
of rotated keys are kept nowhere, so what was encrypted after a rotation does not open after a
restart; without a master key values are stored as they are. The ZIP code's pattern runs into a
card number whose groups are separated and leaves its middle ("3782 822463 10005" becomes
"[REDACTED] 822463 [REDACTED]", `data_classification.py:58`, `:184`); `MaskedIsClean` says that
nothing else is left.  `get_action_for_content` ignores the context and `mask_content` whether
rules are enabled; the result of sanitizing a body is thrown away.  `require_role("auditor")`
admits operators who lack the auditor's permissions.

**Keepers and operations.** Frameworks are reloaded under other names, so after a restart only one
is found; a resolved breach is reopened by marking it notified; a register that could not be read,
just then or at all, counts as empty and is saved over.  SOC 2 lists in memory end with the
process, so that later updates find nothing, and updates do not reach Redis.  Archives of the
journal sort after the days, so a restart after a rotation links to the archive's end and the
chain forks; a last file that cannot be read starts it anew, in the middle of a process; two
rotations in one second write one archive over the other (`ChainIsOne` and `RotationLosesNothing`
say that nothing else does).  A version registered without metrics counts as no baseline.  The
score of the fairness assessment is rounded and its warnings are not, so full marks stand beside a
warning when a group is tiny; a mean accuracy of 1.0 may hide a wrong case.  A manifest that
cannot be read counts as empty and is then overwritten; of two snapshots at once one is not
listed.  Alerts of drift are raised again with every sample; a metric that falls to zero counts as
no drift.  The bias monitor's score mixes the totals of a day with flags of all time; a summary of
spending by tier never resets its counters.  A tracker's log calls answer "True if logged
successfully" although the entry may be lost, and a stray one opens a run in which later reports
are refused.

**Scripts.** Gates run before the services start, so the first deployment is always blocked.  An
installation that checks what it installed never leaves a receipt: `pass` is not defined in
`install.sh`, so the first service that answers ends it, as the first that does not; one with
`--skip-checks` does, with the number of healthy containers docker names as
"health_checks_passed", and with none of them healthy it writes two lines that are no JSON.  A
password of the shell takes precedence over the one kept (`deploy.sh:186`), so a later deployment
without it prints one that is not the administrator's (`PrintedOpens` names it).  Elsewhere,
undefined shell functions end scripts under `set -e`; waiting for health prints "healthy" after a
timeout too; build failures are ignored.  `gate_e2e.sh` asks for endpoints nobody serves.  An
aborted backup leaves its dumps unencrypted; a run that finds neither database "completed", and
retention then removes older ones.  A container removed between two commands ends the autoscaler.
The training pipeline names programs that are not there.  The benchmark's result files in CI have
no "gates", so thresholds are always met (`tests/thresholds.yaml:5` says they are enforced) and a
fresh checkout has no baseline, so the weekly check saves one each time and reports no drift;
reports with classifiers give the weekly check no figures at all. `preflight-check.js` takes the
first container whose name contains a service's; the default-secret check of `preflight.py` comes
after one that all default secrets fail, and nobody calls it.

## Not modelled

* Formatting, parsing and wording: regular expressions, prompts and response bodies appear as
  what they find.  Rate limits of slowapi, Prometheus metrics and logs change nothing modelled.
* Passwords that a form or a JSON text would have to encode (`deploy.sh` does not); the chi-squared
  test of `fairness.py`; figures that differ from a fraction by the last bit of a float.
* Benchmarks, dataset and training programs, demonstrations, seeds and migrations: sequential
  programs over files, with floating-point results.
* Shared libraries that only report texts or that nothing calls: see PROJECT.json.
* Views of the page that only show what they read; the buttons whose effect is a handler of
  AdminRecords or RowEdits.
* Guardrails: `/generate` (the same ensemble over a model's answer), tier 1; the gateway's own
  guardrails and hallucination endpoints, which hand a text on.
* Handlers that cannot succeed as written (bias monitor, AIDA export and collector ingest
  await a function that is not a coroutine; `shared/audit_chain.py` hands its driver a text for a
  time), agent host, RAG pipeline and accuracy monitor, which
  are stubs.

## Plan

Order followed: what decides whether a call is forwarded and what it leaves behind came first
(audit, pipeline, dashboard, detector, conversations, worker, check), then what calls and is
called (SDK, services, streams), administration, the pages, libraries and scripts.  Next:

1. The fairness measures and cross-validation with sums as functions of the number of groups, of
   which `FiguresAgree` could be proved.
2. Policies that change under a running guardrails check.
3. The composition of ProcessState and RowEdits with the page's sessions.
