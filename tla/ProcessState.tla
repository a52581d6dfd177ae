------------------------------ MODULE ProcessState ------------------------------
(***************************************************************************)
(* What a process keeps in variables of its own: failed logins and used    *)
(* refresh tokens, the cache of canary tokens, the database pool and the   *)
(* Redis client. The three parts share nothing.                            *)
(***************************************************************************)
EXTENDS Absence, Naturals, Sequences, FiniteSets

-----------------------------------------------------------------------------
(***************************************************************************)
(* Logging in at the gateway (gateway/app/routers/auth.py and              *)
(* shared/security/auth.py).  Every process keeps its own list of failed   *)
(* attempts per name and its own set of refresh tokens that were used;     *)
(* both are lost with it.  The check of the list comes before an await,    *)
(* the entry of the failure after it.  One administrator is configured.    *)
(***************************************************************************)

CONSTANTS
  Processes,   \* gateway processes
  Clients,     \* clients that log in, one request at a time
  Names,       \* names they give; the administrator's is "admin_email"
  MAX_FAILURES, FAILURE_WINDOW, \* 5 and 300 seconds in the code
  LastSecond,  \* bound: the clock stops here
  MaxRefresh   \* bound: refresh tokens issued

ASSUME LoginsAssumption ==
  /\ {MAX_FAILURES, FAILURE_WINDOW, LastSecond} \subseteq Nat \ {0}
  /\ MaxRefresh \in Nat
  /\ IsFiniteSet(Processes) /\ IsFiniteSet(Clients)

VARIABLES
  now,        \* time.time()
  failures,   \* _LOGIN_FAILURES of each process: times, per name
  login,      \* per client: the status and, while it waits, the name and process
  tokens,     \* refresh tokens issued so far: 1..tokens
  blacklist,  \* _blacklisted_tokens of each process
  granted,    \* access tokens obtained with each refresh token
  restarts    \* processes started anew

login_vars == <<now, failures, login, tokens, blacklist, granted, restarts>>

Answered(status) == [name |-> None, process |-> None, status |-> status]

LoginsInit ==
  /\ now = 1
  /\ failures = [p \in Processes |-> [n \in Names |-> <<>>]]
  /\ login = [c \in Clients |-> Answered("none")]
  /\ tokens = 0
  /\ blacklist = [p \in Processes |-> {}]
  /\ granted = [r \in 1..MaxRefresh |-> 0]
  /\ restarts = 0

(* the times less than a window before t; SelectSeq, which the provers do  *)
(* not know                                                                *)
Younger(times, t) ==
  LET kept[i \in 0..Len(times)] ==
        IF i = 0 THEN <<>>
        ELSE IF times[i] + FAILURE_WINDOW > t THEN Append(kept[i - 1], times[i]) ELSE kept[i - 1]
  IN  kept[Len(times)]

InWindow(times) == Younger(times, now)

(* mutant: one attempt more *)
TooManyByOne(times) == Len(times) > MAX_FAILURES

(* _check_brute_force *)
TooMany(times) == Len(times) >= MAX_FAILURES

(* Login up to its first await: the list is pruned and counted. *)
LoginBegins(c) ==
  /\ login[c].status # "loading"
  /\ \E p \in Processes, n \in Names :
       LET attempts == InWindow(failures[p][n]) IN
         /\ failures' = [failures EXCEPT ![p][n] = attempts]
         /\ login' = [login EXCEPT ![c] =
              IF TooMany(attempts) THEN Answered("429")
              ELSE [name |-> n, process |-> p, status |-> "loading"]]
  /\ UNCHANGED <<now, tokens, blacklist, granted, restarts>>

(* The administrator's row has been read.  Only its name and password let  *)
(* in; without the row (also when reading it failed) nothing is counted.   *)
LoginEnds(c) ==
  /\ login[c].status = "loading"
  /\ LET p == login[c].process
         n == login[c].name
     IN  \/ /\ n = "admin_email" /\ tokens < MaxRefresh
            /\ tokens' = tokens + 1
            /\ failures' = [failures EXCEPT ![p][n] = <<>>]
            /\ login' = [login EXCEPT ![c] = Answered("200")]
         \/ /\ failures' = [failures EXCEPT ![p][n] = Append(InWindow(@), now)]
            /\ login' = [login EXCEPT ![c] = Answered("401")]
            /\ UNCHANGED tokens
         \/ /\ login' = [login EXCEPT ![c] = Answered("401")]
            /\ UNCHANGED <<failures, tokens>>
  /\ UNCHANGED <<now, blacklist, granted, restarts>>

(* mutant: a refresh token is not used up *)
RefreshAgain(p, r) ==
  /\ r <= tokens /\ r \notin blacklist[p] /\ granted[r] < 4
  /\ granted' = [granted EXCEPT ![r] = @ + 1]
  /\ UNCHANGED <<now, failures, login, tokens, blacklist, restarts>>

(* refresh_access_token, without an await *)
Refresh(p, r) ==
  /\ r <= tokens /\ r \notin blacklist[p]
  /\ blacklist' = [blacklist EXCEPT ![p] = @ \cup {r}]
  /\ granted' = [granted EXCEPT ![r] = @ + 1]
  /\ UNCHANGED <<now, failures, login, tokens, restarts>>

(* logout blacklists the token it was sent with and then awaits a Boolean: *)
(* the token counts as used although the answer is a 500.                  *)
Logout(p, r) ==
  /\ r <= tokens /\ r \notin blacklist[p]
  /\ blacklist' = [blacklist EXCEPT ![p] = @ \cup {r}]
  /\ UNCHANGED <<now, failures, login, tokens, granted, restarts>>

(* A process is replaced; what it was doing is lost. *)
ProcessRestarts(p) ==
  /\ restarts < 1
  /\ restarts' = restarts + 1
  /\ failures' = [failures EXCEPT ![p] = [n \in Names |-> <<>>]]
  /\ blacklist' = [blacklist EXCEPT ![p] = {}]
  /\ login' = [c \in Clients |-> IF login[c].process = p /\ login[c].status = "loading"
                                THEN Answered("none") ELSE login[c]]
  /\ UNCHANGED <<now, tokens, granted>>

SecondPasses ==
  /\ now < LastSecond
  /\ now' = now + 1
  /\ UNCHANGED <<failures, login, tokens, blacklist, granted, restarts>>

LoginsNext ==
  \/ \E c \in Clients : LoginBegins(c) \/ LoginEnds(c)
  \/ \E p \in Processes, r \in 1..MaxRefresh : Refresh(p, r) \/ Logout(p, r)
  \/ \E p \in Processes : ProcessRestarts(p)
  \/ SecondPasses

LoginsSpec == LoginsInit /\ [][LoginsNext]_login_vars

-----------------------------------------------------------------------------
LoginsTypeOK ==
  /\ now \in 1..LastSecond
  /\ \A p \in Processes : /\ blacklist[p] \subseteq 1..tokens
                          /\ \A n \in Names : \A i \in DOMAIN failures[p][n] :
                               failures[p][n][i] \in 1..now
  /\ \A c \in Clients : login[c].status \in {"none", "loading", "200", "401", "429"}
  /\ tokens \in 0..MaxRefresh /\ restarts \in 0..1

Waiting(p, n) ==
  Cardinality({c \in Clients : login[c].status = "loading" /\ login[c].process = p
                               /\ login[c].name = n})

(***************************************************************************)
(* Guessing is held off.  The list is checked before an await and filled   *)
(* after it, so clients that come at the same time slip through together;  *)
(* but of one name a process never has more failures within the window     *)
(* than the limit lets through plus those already waiting.                 *)
(***************************************************************************)
GuessingIsHeldOff ==
  \A p \in Processes, n \in Names :
    Len(InWindow(failures[p][n])) + Waiting(p, n) <= MAX_FAILURES - 1 + Cardinality(Clients)

(***************************************************************************)
(* A refresh token yields one access token in the life of each process:    *)
(* the blacklist is a variable of the process and is looked at without an  *)
(* await in between.                                                       *)
(***************************************************************************)
RefreshedOncePerProcess ==
  \A r \in 1..MaxRefresh : granted[r] <= Cardinality(Processes) + restarts

-----------------------------------------------------------------------------
(***************************************************************************)
(* Canary tokens (gateway/app/routers/canary.py): every process caches the *)
(* active ones; checking a text loads the cache first, and asks the table  *)
(* about a text the cache does not know; revoking a token empties the      *)
(* cache of the process that was asked.  Tokens are planted from outside:  *)
(* create_token hands the driver a string for a timestamp and fails.       *)
(***************************************************************************)

CONSTANTS
  Workers, \* gateway processes
  Planted, \* tokens
  Tasks    \* requests: each a check or a revocation

ASSUME CanaryAssumption ==
  None \notin Planted \cup Workers \cup {"active", "revoked", "none", "check", "revoke"}

VARIABLES
  status,  \* column status of each token, None before it is planted
  cache,   \* _TOKEN_CACHE of each process
  loaded,  \* _CACHE_LOADED of each process
  task,    \* per request: kind, process, token, what it has read, step, outcome
  meanwhile \* pairs of requests that were under way together

canary_vars == <<status, cache, loaded, task, meanwhile>>

CanaryInit ==
  /\ status = [t \in Planted |-> None]
  /\ cache = [w \in Workers |-> {}]
  /\ loaded = [w \in Workers |-> FALSE]
  /\ task = [k \in Tasks |-> [kind |-> None, worker |-> None, token |-> None, known |-> FALSE,
                              read |-> {}, step |-> "idle", outcome |-> None]]
  /\ meanwhile = {}

ActiveTokens == {t \in Planted : status[t] = "active"}
Busy(k) == task[k].step \notin {"idle", "done"}

Plant(t) ==
  /\ status[t] = None
  /\ status' = [status EXCEPT ![t] = "active"]
  /\ UNCHANGED <<cache, loaded, task, meanwhile>>

(* what the check c makes of the cache, without an await *)
Scanned(c, cached) ==
  IF cached = {} THEN [c EXCEPT !.step = "done", !.outcome = "none, empty"]
  ELSE IF c.token \in cached THEN [c EXCEPT !.step = "done", !.outcome = "triggered"]
  ELSE [c EXCEPT !.step = "look up"]

(* A text that holds the token comes in. *)
BeginCheck(k, w, t) ==
  /\ task[k].step = "idle"
  /\ LET c == [kind |-> "check", worker |-> w, token |-> t, known |-> status[t] = "active",
               read |-> {}, step |-> "load", outcome |-> None]
     IN  task' = [task EXCEPT ![k] = IF loaded[w] THEN Scanned(c, cache[w]) ELSE c]
  /\ meanwhile' = meanwhile \cup {{k, other} : other \in {o \in Tasks : Busy(o)}}
  /\ UNCHANGED <<status, cache, loaded>>

(* _load_cache: the rows as the table has them, then, when they arrive,    *)
(* into the cache, which is scanned at once *)
LoadRows(k) ==
  /\ task[k].step = "load"
  /\ task' = [task EXCEPT ![k].read = ActiveTokens, ![k].step = "fill"]
  /\ UNCHANGED <<status, cache, loaded, meanwhile>>

FillCache(k) ==
  /\ task[k].step = "fill"
  /\ LET w == task[k].worker
         cached == cache[w] \cup task[k].read
     IN  /\ cache' = [cache EXCEPT ![w] = cached]
         /\ loaded' = [loaded EXCEPT ![w] = TRUE]
         /\ task' = [task EXCEPT ![k] = Scanned(task[k], cached)]
  /\ UNCHANGED <<status, meanwhile>>

LookUp(k) ==
  /\ task[k].step = "look up"
  /\ task' = [task EXCEPT ![k].read = ActiveTokens \cap {task[k].token}, ![k].step = "answer"]
  /\ UNCHANGED <<status, cache, loaded, meanwhile>>

AnswerLookUp(k) ==
  /\ task[k].step = "answer"
  /\ cache' = [cache EXCEPT ![task[k].worker] = @ \cup task[k].read]
  /\ task' = [task EXCEPT ![k].step = "done",
                          ![k].outcome = IF task[k].read = {} THEN "none" ELSE "triggered"]
  /\ UNCHANGED <<status, loaded, meanwhile>>

BeginRevoke(k, w, t) ==
  /\ task[k].step = "idle" /\ status[t] # None
  /\ task' = [task EXCEPT ![k] = [kind |-> "revoke", worker |-> w, token |-> t, known |-> FALSE,
                                  read |-> {}, step |-> "update", outcome |-> None]]
  /\ meanwhile' = meanwhile \cup {{k, other} : other \in {o \in Tasks : Busy(o)}}
  /\ UNCHANGED <<status, cache, loaded>>

UpdateStatus(k) ==
  /\ task[k].step = "update"
  /\ status' = [status EXCEPT ![task[k].token] = "revoked"]
  /\ task' = [task EXCEPT ![k].step = "clear"]
  /\ UNCHANGED <<cache, loaded, meanwhile>>

(* mutant: the cache is only marked to be loaded again *)
KeepCache(k) ==
  /\ task[k].step = "clear"
  /\ loaded' = [loaded EXCEPT ![task[k].worker] = FALSE]
  /\ task' = [task EXCEPT ![k].step = "done", ![k].outcome = "revoked"]
  /\ UNCHANGED <<status, cache, meanwhile>>

ClearCache(k) ==
  /\ task[k].step = "clear"
  /\ cache' = [cache EXCEPT ![task[k].worker] = {}]
  /\ loaded' = [loaded EXCEPT ![task[k].worker] = FALSE]
  /\ task' = [task EXCEPT ![k].step = "done", ![k].outcome = "revoked"]
  /\ UNCHANGED <<status, meanwhile>>

(* A statement fails; what is lost is the request. *)
CanaryFails(k) ==
  /\ task[k].step \in {"load", "look up", "update"}
  /\ task' = [task EXCEPT ![k].step = "done", ![k].outcome = "error"]
  /\ UNCHANGED <<status, cache, loaded, meanwhile>>

CanaryNext ==
  \/ \E t \in Planted : Plant(t)
  \/ \E k \in Tasks, w \in Workers, t \in Planted : BeginCheck(k, w, t) \/ BeginRevoke(k, w, t)
  \/ \E k \in Tasks :
       \/ LoadRows(k) \/ FillCache(k) \/ LookUp(k) \/ AnswerLookUp(k)
       \/ UpdateStatus(k) \/ ClearCache(k) \/ CanaryFails(k)

CanarySpec == CanaryInit /\ [][CanaryNext]_canary_vars

-----------------------------------------------------------------------------
CanaryTypeOK ==
  /\ status \in [Planted -> {"active", "revoked", None}]
  /\ cache \in [Workers -> SUBSET Planted]
  /\ loaded \in [Workers -> BOOLEAN]
  /\ \A k \in Tasks : task[k].outcome \in
       {"none", "none, empty", "triggered", "revoked", "error", None}

(***************************************************************************)
(* A process that has revoked a token does not keep it in its cache,       *)
(* unless a check ran beside the revocation: rows read before the update   *)
(* may be put into the cache after it was emptied.                         *)
(***************************************************************************)
RevokedIsForgotten ==
  \A k \in Tasks :
    task[k].outcome = "revoked" /\ task[k].token \in cache[task[k].worker] =>
      \E c \in Tasks : task[c].kind = "check" /\ {c, k} \in meanwhile

(***************************************************************************)
(* A text with a token that was active when the check began is missed only *)
(* by a process whose cache is empty, which does not ask the table, or     *)
(* when the token is revoked meanwhile.                                    *)
(***************************************************************************)
MissedOnlyByAnEmptyCache ==
  \A k \in Tasks :
    task[k].outcome = "none" /\ task[k].known => status[task[k].token] = "revoked"

-----------------------------------------------------------------------------
(***************************************************************************)
(* The database pool and the Redis client of a process (shared/db.py and   *)
(* shared/redis_client.py): each is made by the first caller and kept in a *)
(* module variable, with up to five attempts, and closed at shutdown.      *)
(* The pool is put into its variable when it stands, the client before it  *)
(* is asked whether it does.                                               *)
(***************************************************************************)

CONSTANTS
  Callers,     \* coroutines that call get_pool or get_redis once
  Attempts,    \* 5 in the code
  Resources    \* bound: pools and clients made

ASSUME ConnectionsAssumption == Attempts \in Nat \ {0} /\ Resources \in Nat /\ None \notin 0..Resources

VARIABLES
  variable, \* _pool and _redis: a number or None
  open,     \* resources that are open
  made,     \* how many were made
  asked,    \* clients whose ping failed or has not answered yet
  caller,   \* per caller: what it wants, step, attempts begun, what it makes, result
  closing,  \* the resource close_pool or close_redis waits for, of each kind
  together  \* pairs of callers that were making a pool at the same time

connection_vars == <<variable, open, made, asked, caller, closing, together>>

Kinds == {"pool", "redis"}
Error == 0 \* a result that is no resource

ConnectionsInit ==
  /\ variable = [k \in Kinds |-> None]
  /\ open = {} /\ made = 0 /\ asked = {}
  /\ caller = [c \in Callers |-> [kind |-> None, step |-> "idle", attempts |-> 0,
                                  makes |-> None, result |-> None]]
  /\ closing = [k \in Kinds |-> None]
  /\ together = {}

Goes(c, kind, step, makes, result, attempts) ==
  caller' = [caller EXCEPT ![c] = [kind |-> kind, step |-> step, attempts |-> attempts,
                                   makes |-> makes, result |-> result]]

Making(c) == caller[c].step = "making" /\ caller[c].kind = "pool"

(* One attempt of get_pool up to its await. *)
AskPool(c) ==
  /\ caller[c].step = "idle" \/ (caller[c].step = "waits" /\ caller[c].kind = "pool")
  /\ IF variable["pool"] = None
     THEN /\ Goes(c, "pool", "making", None, None, caller[c].attempts + 1)
          /\ together' = together \cup {{c, d} : d \in {e \in Callers : Making(e)}}
     ELSE /\ Goes(c, "pool", "done", None, variable["pool"], caller[c].attempts)
          /\ UNCHANGED together
  /\ UNCHANGED <<variable, open, made, asked, closing>>

(* create_pool has made the pool. *)
PoolStands(c) ==
  /\ Making(c) /\ made < Resources
  /\ made' = made + 1
  /\ open' = open \cup {made'}
  /\ variable' = [variable EXCEPT !["pool"] = made']
  /\ Goes(c, "pool", "done", None, made', caller[c].attempts)
  /\ UNCHANGED <<asked, closing, together>>

(* One attempt of get_redis: the client is in the variable before its ping.*)
AskRedis(c) ==
  /\ caller[c].step = "idle" \/ (caller[c].step = "waits" /\ caller[c].kind = "redis")
  /\ IF variable["redis"] = None
     THEN /\ made < Resources
          /\ made' = made + 1
          /\ open' = open \cup {made'}
          /\ asked' = asked \cup {made'}
          /\ variable' = [variable EXCEPT !["redis"] = made']
          /\ Goes(c, "redis", "making", made', None, caller[c].attempts + 1)
     ELSE /\ Goes(c, "redis", "done", None, variable["redis"], caller[c].attempts)
          /\ UNCHANGED <<variable, open, made, asked>>
  /\ UNCHANGED <<closing, together>>

(* The ping answers: the caller gets what the variable holds by now. *)
PingAnswers(c) ==
  /\ caller[c].step = "making" /\ caller[c].kind = "redis"
  /\ asked' = asked \ {caller[c].makes}
  /\ Goes(c, "redis", "done", None, variable["redis"], caller[c].attempts)
  /\ UNCHANGED <<variable, open, made, closing, together>>

(* mutant: the attempts are not counted *)
AttemptFailsForEver(c) ==
  /\ caller[c].step = "making"
  /\ caller' = [caller EXCEPT ![c].step = "waits", ![c].makes = None]
  /\ UNCHANGED <<variable, open, made, asked, closing, together>>

(* An attempt fails: another one after a pause, or the error. *)
AttemptFails(c) ==
  /\ caller[c].step = "making"
  /\ LET again == caller[c].attempts < Attempts IN
       caller' = [caller EXCEPT ![c].step = IF again THEN "waits" ELSE "done",
                                ![c].makes = None,
                                ![c].result = IF again THEN None ELSE Error]
  /\ UNCHANGED <<variable, open, made, asked, closing, together>>

(* An error that is not retried, or a health check's timeout of 5 seconds. *)
GivesUp(c) ==
  /\ caller[c].step \in {"making", "waits"}
  /\ caller' = [caller EXCEPT ![c].step = "done", ![c].makes = None, ![c].result = Error]
  /\ UNCHANGED <<variable, open, made, asked, closing, together>>

CloseBegins(k) ==
  /\ closing[k] = None /\ variable[k] # None
  /\ closing' = [closing EXCEPT ![k] = variable[k]]
  /\ UNCHANGED <<variable, open, made, asked, caller, together>>

(* mutant: the variable keeps what was closed *)
CloseEndsOnly(k) ==
  /\ closing[k] # None
  /\ open' = open \ {closing[k]}
  /\ closing' = [closing EXCEPT ![k] = None]
  /\ UNCHANGED <<variable, made, asked, caller, together>>

CloseEnds(k) ==
  /\ closing[k] # None
  /\ open' = open \ {closing[k]}
  /\ variable' = [variable EXCEPT ![k] = None]
  /\ closing' = [closing EXCEPT ![k] = None]
  /\ UNCHANGED <<made, asked, caller, together>>

ConnectionsNext ==
  \/ \E c \in Callers :
       \/ AskPool(c) \/ PoolStands(c) \/ AskRedis(c) \/ PingAnswers(c)
       \/ AttemptFails(c) \/ GivesUp(c)
  \/ \E k \in Kinds : CloseBegins(k) \/ CloseEnds(k)

ConnectionsSpec == ConnectionsInit /\ [][ConnectionsNext]_connection_vars

-----------------------------------------------------------------------------
ConnectionsTypeOK ==
  /\ \A k \in Kinds : variable[k] \in 1..made \cup {None} /\ closing[k] \in 1..made \cup {None}
  /\ open \cup asked \subseteq 1..made
  /\ \A c \in Callers : /\ caller[c].step \in {"idle", "making", "waits", "done"}
                        /\ caller[c].attempts \in 0..Attempts
                        /\ caller[c].result \in 0..made \cup {None}

(***************************************************************************)
(* A pool that is open and no longer in the variable, so that nobody will  *)
(* close it, was made by two callers at the same time: get_pool looks at   *)
(* the variable before an await and sets it after.  And the variable never *)
(* keeps a resource that was closed, unless such a pair made it.           *)
(***************************************************************************)
LeakedOnlyByOverlap ==
  together = {} =>
    /\ Cardinality(open) <= Cardinality({k \in Kinds : variable[k] # None})
    /\ \A k \in Kinds : variable[k] = None \/ variable[k] \in open
=============================================================================
