------------------------------ MODULE Quotas ------------------------------
(***************************************************************************)
(* Two libraries of quotas, token buckets and cost tiers. They share       *)
(* nothing.                                                                *)
(***************************************************************************)
EXTENDS Absence, Naturals, Sequences, FiniteSets

-----------------------------------------------------------------------------
(***************************************************************************)
(* The token buckets of shared/rate_limiter.py, one for each limit type    *)
(* and key, with tokens and time in whole units.  The middleware asks one  *)
(* bucket for each request, by the path's type and the client's address,   *)
(* the decorator the one it names; a caller that waits asks again and      *)
(* again.                                                                  *)
(***************************************************************************)

CONSTANTS
  Endpoints,  \* kinds of paths: "auth", "static", "assets", "other"
  LimitTypes, \* "auth", "static", "api": each has its rate and burst
  Keys,       \* clients
  Rates,      \* configurations [rate, burst] that are given to a type
  Waiters,    \* callers of wait_and_acquire
  Timeout,    \* theirs, in units of time
  LastTick    \* bound: the clock stops here

ASSUME RateLimitsAssumption ==
  /\ Rates \subseteq [rate : Nat \ {0}, burst : Nat]
  /\ Timeout \in Nat /\ LastTick \in Nat
  /\ None \notin [rate : Nat, burst : Nat, tokens : Nat, refilled : Nat]
  /\ None \notin [count : Nat, until : Nat, granted : Nat]

VARIABLES
  tick,    \* time.monotonic()
  limits,  \* _default_limits, None where the built-in (10, 20) would apply
  bucket,  \* _buckets: [rate, burst, tokens, refilled, made], None if there is none
  granted, \* what each bucket has granted by each tick (history)
  advised, \* per bucket, who was last refused: number, Retry-After, and what was granted by then (history)
  waiter   \* per waiting caller: its bucket, count, when it began, how it ended

limiter_vars == <<tick, limits, bucket, granted, advised, waiter>>

Buckets == LimitTypes \X Keys

LimiterInit ==
  /\ tick = 0
  /\ limits \in [LimitTypes -> Rates]
  /\ bucket = [b \in Buckets |-> None]
  /\ granted = [b \in Buckets |-> [t \in 0..LastTick |-> 0]]
  /\ advised = [b \in Buckets |-> None]
  /\ waiter = [w \in Waiters |-> [of |-> None, count |-> 0, since |-> 0, end |-> None]]

AtMost(a, b) == IF a < b THEN a ELSE b

(* mutant: the burst is no bound *)
RefilledBeyond(b) == b.tokens + (tick - b.refilled) * b.rate

(* available_tokens *)
Refilled(b) == AtMost(b.burst, b.tokens + (tick - b.refilled) * b.rate)

(* _get_bucket: a new one is full *)
GetBucket(b) ==
  IF bucket[b] # None THEN bucket[b]
  ELSE [rate |-> limits[b[1]].rate, burst |-> limits[b[1]].burst,
        tokens |-> limits[b[1]].burst, refilled |-> tick]

Enough(b, count) == Refilled(GetBucket(b)) >= count

(* acquire, under the bucket's lock: refill, and take if there is enough *)
Acquire(b, count) ==
  /\ bucket' = [bucket EXCEPT ![b] =
       [GetBucket(b) EXCEPT !.tokens = Refilled(GetBucket(b)) - (IF Enough(b, count) THEN count ELSE 0),
                            !.refilled = tick]]
  /\ granted' = [granted EXCEPT ![b] =
       [t \in 0..LastTick |-> @[t] + (IF t >= tick /\ Enough(b, count) THEN count ELSE 0)]]

GrantedBetween(b, from, to) == granted[b][to] - (IF from = 0 THEN 0 ELSE granted[b][from - 1])

(* mutant: the fraction of a second is cut off *)
RetryAtOnce(b, count) ==
  LET deficit == count - Refilled(GetBucket(b)) IN tick + deficit \div GetBucket(b).rate

(* int(wait_time) + 1 seconds; of a rate of 0 there is no such number *)
RetryAfter(b, count) ==
  LET deficit == count - Refilled(GetBucket(b)) IN tick + deficit \div GetBucket(b).rate + 1

(* check_rate_limit.  check_rate_limit_multi makes one after the other,    *)
(* awaiting each; what the first gave is not returned when the second      *)
(* refuses.                                                                *)
CheckRateLimit(b, count) ==
  /\ Acquire(b, count)
  /\ advised' = IF Enough(b, count) THEN advised
                ELSE [advised EXCEPT ![b] = [count |-> count, until |-> RetryAfter(b, count),
                                             granted |-> GrantedBetween(b, 0, tick)]]
  /\ UNCHANGED <<tick, limits, waiter>>

LimitTypeOf(endpoint) ==
  IF endpoint = "auth" THEN "auth" ELSE IF endpoint \in {"static", "assets"} THEN "static" ELSE "api"

(* the middleware knows the limit of every path it is asked for *)
ASSUME EndpointsAssumption == \A endpoint \in Endpoints : LimitTypeOf(endpoint) \in LimitTypes

(* RateLimitMiddleware: one token for an HTTP request, or a 429 *)
Request(endpoint, client) == CheckRateLimit(<<LimitTypeOf(endpoint), client>>, 1)

(* the decorator rate_limit: the function is called if there are tokens *)
Decorated(b, count) == CheckRateLimit(b, count)

(* get_usage_stats, which compares with the limits as they are now *)
UsedTokens(b) == limits[b[1]].burst - Refilled(bucket[b])

(* configure: buckets that are there keep what they were made with *)
Configure(type, limit) ==
  /\ limits[type] # limit
  /\ limits' = [limits EXCEPT ![type] = limit]
  /\ UNCHANGED <<tick, bucket, granted, advised, waiter>>

(* reset_key, of one type or of all *)
ResetKey(types, key) ==
  /\ \E type \in types : bucket[<<type, key>>] # None
  /\ bucket' = [b \in Buckets |-> IF b[1] \in types /\ b[2] = key THEN None ELSE bucket[b]]
  /\ granted' = [b \in Buckets |-> IF b[1] \in types /\ b[2] = key
                                   THEN [t \in 0..LastTick |-> 0] ELSE granted[b]]
  /\ advised' = [b \in Buckets |-> IF b[1] \in types /\ b[2] = key THEN None ELSE advised[b]]
  /\ UNCHANGED <<tick, limits, waiter>>

(* wait_and_acquire: it asks, and asks again until it has the tokens or,   *)
(* after a refusal, its time is over.                                      *)
BeginWait(w, b, count) ==
  /\ waiter[w].of = None
  /\ waiter' = [waiter EXCEPT ![w] = [of |-> b, count |-> count, since |-> tick, end |-> None]]
  /\ UNCHANGED <<tick, limits, bucket, granted, advised>>

AskAgain(w) ==
  /\ waiter[w].of # None /\ waiter[w].end = None
  /\ LET b == waiter[w].of
         enough == Enough(b, waiter[w].count)
     IN  /\ Acquire(b, waiter[w].count)
         /\ waiter' = [waiter EXCEPT ![w].end =
              IF enough THEN "granted" ELSE IF tick - waiter[w].since >= Timeout THEN "refused" ELSE None]
  /\ UNCHANGED <<tick, limits, advised>>

Tick ==
  /\ tick < LastTick
  /\ tick' = tick + 1
  /\ UNCHANGED <<limits, bucket, granted, advised, waiter>>

LimiterNext ==
  \/ \E endpoint \in Endpoints, client \in Keys : Request(endpoint, client)
  \/ \E b \in Buckets, count \in 1..2 : Decorated(b, count)
  \/ \E type \in LimitTypes, limit \in Rates : Configure(type, limit)
  \/ \E types \in SUBSET LimitTypes, key \in Keys : ResetKey(types, key)
  \/ \E w \in Waiters, b \in Buckets, count \in 1..2 : BeginWait(w, b, count)
  \/ \E w \in Waiters : AskAgain(w)
  \/ Tick

LimiterSpec == LimiterInit /\ [][LimiterNext]_limiter_vars

-----------------------------------------------------------------------------
LimiterTypeOK ==
  /\ tick \in 0..LastTick /\ limits \in [LimitTypes -> Rates]
  /\ \A b \in Buckets : bucket[b] # None =>
       bucket[b].tokens \in 0..bucket[b].burst /\ bucket[b].refilled \in 0..tick

(***************************************************************************)
(* In no span of time does a bucket grant more than its burst and what it  *)
(* is refilled with meanwhile, whoever asks: requests and waiting callers, *)
(* in any order, however the limits are changed.  Only reset_key begins    *)
(* anew.                                                                   *)
(***************************************************************************)
GrantsAreBounded ==
  \A b \in Buckets : bucket[b] # None =>
    \A from \in 0..tick : \A to \in from..tick :
      GrantedBetween(b, from, to) <= bucket[b].burst + (to - from) * bucket[b].rate

(***************************************************************************)
(* Who is refused and comes back when it was told to is served, if no one  *)
(* was before it and it does not ask for more than the burst; and the      *)
(* statistics of a bucket with the present limits call no more used than   *)
(* was granted.                                                            *)
(***************************************************************************)
RetryIsServed ==
  \A b \in Buckets : bucket[b] # None =>
    /\ LET a == advised[b] IN
         a # None => (a.count <= bucket[b].burst /\ tick >= a.until /\ GrantedBetween(b, 0, tick) = a.granted
                        => Enough(b, a.count))
    /\ bucket[b].burst = limits[b[1]].burst => UsedTokens(b) <= GrantedBetween(b, 0, tick)

-----------------------------------------------------------------------------
(***************************************************************************)
(* Cost tiers (CostTracker and CostOptimizer of shared/cost_tracker.py):   *)
(* a caller asks whether the user may use a model, is within the rate and  *)
(* within the day's and the month's budget, and records what it spent when *)
(* the model has answered.  The counters are cleared by the first call of  *)
(* a new day or month.  One user, amounts in whole units.                  *)
(***************************************************************************)

CONSTANTS
  Spenders,   \* callers on behalf of the user, one request each at a time
  Tiers,      \* per tier: daily and monthly limit, rpm, models (None: all)
  Price,      \* per model: what a request costs
  DaysAMonth, \* a month's days
  LastMinute, \* bound: the clock, in minutes; a day has two
  MaxAnswers  \* bound: requests answered

ASSUME SpendAssumption ==
  /\ DOMAIN Price # {} /\ IsFiniteSet(DOMAIN Price) /\ \A m \in DOMAIN Price : Price[m] \in Nat
  /\ \A t \in DOMAIN Tiers :
       /\ Tiers[t].daily \in Nat /\ Tiers[t].monthly \in Nat
       /\ Tiers[t].models = None \/ (Tiers[t].models # {} /\ Tiers[t].models \subseteq DOMAIN Price)
  /\ Spenders # {} /\ IsFiniteSet(Spenders)
  /\ DaysAMonth \in Nat \ {0} /\ LastMinute \in Nat /\ MaxAnswers \in Nat
  /\ None \notin Nat

VARIABLES
  minute,    \* the clock
  tier,      \* the user's tier
  stamps,    \* _request_counts
  daily, monthly, \* _daily_spend and _monthly_spend
  resets,    \* _last_reset_day and _last_reset_month, None at first
  spender,   \* per caller: step and model
  tracked,   \* CostTracker: _model_counts and _model_costs, and the totals
  raised,    \* whether the tier was ever changed (history)
  ledger     \* what was spent: day, month and model of each (history)

spend_vars == <<minute, tier, stamps, daily, monthly, resets, spender, tracked, raised, ledger>>

Today == minute \div 2
ThisMonth == Today \div DaysAMonth

SpendInit ==
  /\ minute = 0 /\ tier \in DOMAIN Tiers
  /\ stamps = <<>> /\ daily = 0 /\ monthly = 0
  /\ resets = [day |-> None, month |-> None]
  /\ spender = [s \in Spenders |-> [step |-> "idle", model |-> None]]
  /\ tracked = [models |-> <<>>, requests |-> 0, cost |-> 0]
  /\ raised = FALSE /\ ledger = <<>>

(* mutant: the month is not looked at *)
ResetDay(spent) ==
  [day |-> IF resets.day = Today THEN spent.day ELSE 0, month |-> spent.month]

(* _reset_if_needed *)
ResetIfNeeded(spent) ==
  [day |-> IF resets.day = Today THEN spent.day ELSE 0,
   month |-> IF resets.month = ThisMonth THEN spent.month ELSE 0]

Spent == ResetIfNeeded([day |-> daily, month |-> monthly])

SetsSpend(d, m) ==
  /\ daily' = d /\ monthly' = m
  /\ resets' = [day |-> Today, month |-> ThisMonth]

SetUserTier(t) ==
  /\ tier # t /\ tier' = t /\ raised' = TRUE
  /\ SetsSpend(Spent.day, Spent.month)
  /\ UNCHANGED <<minute, stamps, spender, tracked, ledger>>

(* recommend_model: the cheapest, the dearest, or the one in the middle    *)
(* when they are sorted by price                                           *)
Cheapest(models) == CHOOSE m \in models : \A n \in models : Price[m] <= Price[n]
Dearest(models) == CHOOSE m \in models : \A n \in models : Price[n] <= Price[m]
InTheMiddle(models) ==
  LET half == Cardinality(models) \div 2
  IN  CHOOSE m \in models : /\ Cardinality({n \in models : Price[n] < Price[m]}) <= half
                            /\ half < Cardinality({n \in models : Price[n] <= Price[m]})

RecommendFrom(models, quality) ==
  IF quality = "basic" THEN Cheapest(models)
  ELSE IF quality = "high" THEN Dearest(models) ELSE InTheMiddle(models)

(* mutant: from all models, whatever the tier *)
RecommendOfAll(quality) == RecommendFrom(DOMAIN Price, quality)

RecommendModel(quality) ==
  RecommendFrom(IF Tiers[tier].models = None THEN DOMAIN Price ELSE Tiers[tier].models, quality)

CanUseModel(m) == IF Tiers[tier].models = None THEN TRUE ELSE m \in Tiers[tier].models
InLastMinute(seq) == SelectSeq(seq, LAMBDA t : t = minute)

(* can_use_model, check_rate_limit, which takes a place, ... *)
AskRate(s, m) ==
  /\ spender[s].step = "idle" /\ CanUseModel(m)
  /\ LET recent == InLastMinute(stamps)
         place == Len(recent) < Tiers[tier].rpm
     IN  /\ stamps' = IF place THEN Append(recent, minute) ELSE recent
         /\ spender' = IF place THEN [spender EXCEPT ![s] = [step |-> "budget", model |-> m]]
                       ELSE spender
  /\ UNCHANGED <<minute, tier, daily, monthly, resets, tracked, raised, ledger>>

(* mutant: the estimated cost is left at 0 *)
AskBudgetWithoutCost(s) ==
  /\ spender[s].step = "budget"
  /\ LET within == Spent.day <= Tiers[tier].daily /\ Spent.month <= Tiers[tier].monthly
     IN  spender' = [spender EXCEPT ![s].step = IF within THEN "waits" ELSE "idle"]
  /\ SetsSpend(Spent.day, Spent.month)
  /\ UNCHANGED <<minute, tier, stamps, tracked, raised, ledger>>

(* ... check_daily_budget and check_monthly_budget with the estimated cost *)
AskBudget(s) ==
  /\ spender[s].step = "budget"
  /\ LET within == /\ Spent.day + Price[spender[s].model] <= Tiers[tier].daily
                   /\ Spent.month + Price[spender[s].model] <= Tiers[tier].monthly
     IN  spender' = [spender EXCEPT ![s].step = IF within THEN "waits" ELSE "idle"]
  /\ SetsSpend(Spent.day, Spent.month)
  /\ UNCHANGED <<minute, tier, stamps, tracked, raised, ledger>>

(* mutant: a model seen before keeps its costs *)
TrackedOnce(m) ==
  LET old == IF m \in DOMAIN tracked.models THEN tracked.models[m] ELSE [requests |-> 0, cost |-> Price[m]]
  IN  [models |-> [n \in DOMAIN tracked.models \cup {m} |->
                     IF n = m THEN [requests |-> old.requests + 1, cost |-> old.cost] ELSE tracked.models[n]],
       requests |-> tracked.requests + 1, cost |-> tracked.cost + Price[m]]

(* record_inference *)
TrackedWith(m) ==
  LET old == IF m \in DOMAIN tracked.models THEN tracked.models[m] ELSE [requests |-> 0, cost |-> 0]
  IN  [models |-> [n \in DOMAIN tracked.models \cup {m} |->
                     IF n = m THEN [requests |-> old.requests + 1, cost |-> old.cost + Price[m]] ELSE tracked.models[n]],
       requests |-> tracked.requests + 1, cost |-> tracked.cost + Price[m]]

(* get_summary and get_prometheus_metrics; get_tier_summary, which does    *)
(* not clear the counters of another day                                   *)
GetSummary == tracked
GetTierSummary == [daily |-> daily, monthly |-> monthly]

(* record_inference and record_spend, when the model has answered *)
RecordSpend(s) ==
  /\ spender[s].step = "waits" /\ Len(ledger) < MaxAnswers
  /\ spender' = [spender EXCEPT ![s].step = "idle"]
  /\ LET cost == Price[spender[s].model] IN
       /\ SetsSpend(Spent.day + cost, Spent.month + cost)
       /\ tracked' = TrackedWith(spender[s].model)
       /\ ledger' = Append(ledger, [day |-> Today, month |-> ThisMonth, model |-> spender[s].model])
  /\ UNCHANGED <<minute, tier, stamps, raised>>

MinutePasses ==
  /\ minute < LastMinute
  /\ minute' = minute + 1
  /\ UNCHANGED <<tier, stamps, daily, monthly, resets, spender, tracked, raised, ledger>>

SpendNext ==
  \/ \E t \in DOMAIN Tiers : SetUserTier(t)
  \/ \E s \in Spenders : AskBudget(s) \/ RecordSpend(s) \/ \E m \in DOMAIN Price : AskRate(s, m)
  \/ MinutePasses

SpendSpec == SpendInit /\ [][SpendNext]_spend_vars

-----------------------------------------------------------------------------
SpendTypeOK ==
  /\ tier \in DOMAIN Tiers /\ {daily, monthly} \subseteq Nat
  /\ resets.day \in 0..Today \cup {None} /\ resets.month \in 0..ThisMonth \cup {None}
  /\ \A s \in Spenders : /\ spender[s].step \in {"idle", "budget", "waits"}
                         /\ spender[s].model \in DOMAIN Price \cup {None}

SpentOn(entries) ==
  LET sum[i \in 0..Len(ledger)] ==
        IF i = 0 THEN 0
        ELSE IF i \in entries THEN sum[i - 1] + Price[ledger[i].model] ELSE sum[i - 1]
  IN  sum[Len(ledger)]

HighestPrice == Price[Dearest(DOMAIN Price)]

(***************************************************************************)
(* Though the counters are cleared only by the next call that looks, what  *)
(* a check goes by is what was spent this day and this month, to the unit, *)
(* across any boundary and with answers that come in after it.  The        *)
(* summary of a tier shows the counters as they stand, which may be those  *)
(* of a day or a month before, but never less than was spent; and the      *)
(* tracker counts each model's requests and costs, and all of them.        *)
(***************************************************************************)
CountersAreTrue ==
  LET today == SpentOn({i \in DOMAIN ledger : ledger[i].day = Today})
      month == SpentOn({i \in DOMAIN ledger : ledger[i].month = ThisMonth})
      of(m) == {i \in DOMAIN ledger : ledger[i].model = m}
  IN  /\ Spent.day = today /\ Spent.month = month
      /\ GetTierSummary.daily >= today /\ GetTierSummary.monthly >= month
      /\ DOMAIN GetSummary.models = {ledger[i].model : i \in DOMAIN ledger}
      /\ \A m \in DOMAIN GetSummary.models :
           GetSummary.models[m] = [requests |-> Cardinality(of(m)), cost |-> SpentOn(of(m))]
      /\ GetSummary.requests = Len(ledger) /\ GetSummary.cost = SpentOn(DOMAIN ledger)

(***************************************************************************)
(* The model recommended is one the user may use, as long as the tier is   *)
(* not changed; where the one for basic quality is beyond the budget, so   *)
(* is every other.                                                         *)
(***************************************************************************)
RecommendedIsUsable ==
  /\ \A quality \in {"basic", "standard", "high"} : CanUseModel(RecommendModel(quality))
  /\ \A m \in DOMAIN Price : CanUseModel(m) =>
       /\ Price[RecommendModel("basic")] <= Price[m] /\ Price[m] <= Price[RecommendModel("high")]

(***************************************************************************)
(* A budget is checked before the model answers and charged after, so it   *)
(* may be exceeded, but by no more than one request of each other caller,  *)
(* also when some were let through the day or the month before.            *)
(***************************************************************************)
OverrunIsBounded ==
  LET others == Cardinality(Spenders) - 1 IN
  ~raised =>
    /\ Spent.day <= Tiers[tier].daily + HighestPrice * others
    /\ Spent.month <= Tiers[tier].monthly + HighestPrice * others
=============================================================================
