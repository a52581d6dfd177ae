------------------------------- MODULE Sessions -------------------------------
(***************************************************************************)
(* The sessions of one user in Redis (shared/security/session.py): a key   *)
(* of its own for each session, which expires unless it is used, and a set *)
(* of their ids, which expires unless a session is added.  Every command   *)
(* is an await; what was read by one is written back by another.  The      *)
(* library has no caller; a run calls its operations in any order, on      *)
(* whatever earlier ones, interrupted or expired, have left.               *)
(***************************************************************************)
EXTENDS Absence, Naturals, FiniteSets, Sequences

CONSTANTS
  Operations,  \* calls of the library
  MAX_CONCURRENT_SESSIONS,
  LastSession  \* bound: sessions made, numbered as they are created

ASSUME SessionsAssumption ==
  MAX_CONCURRENT_SESSIONS \in Nat /\ LastSession \in Nat /\ None \notin BOOLEAN

SessionIds == 1..LastSession

VARIABLES
  data,      \* is_active of each stored session, None if there is no key
  index,     \* the user's set of ids
  created,   \* sessions made so far
  op,        \* per operation: kind, session, step, ids left, ids found, then ("after")
  alongside, \* pairs of operations that were under way together
  revoked    \* who revoked which session: pairs of operation and session

session_vars == <<data, index, created, op, alongside, revoked>>

Idle == [kind |-> None, sid |-> 0, step |-> "idle", left |-> {}, found |-> {}, after |-> None]

SessionsInit ==
  /\ created \in 0..(LastSession - 1)
  /\ data \in {d \in [SessionIds -> {TRUE, FALSE, None}] : \A s \in SessionIds : s > created => d[s] = None}
  /\ index \in SUBSET (1..created)
  /\ op = [o \in Operations |-> Idle]
  /\ alongside = {} /\ revoked = {}

Active(o) == op[o].step \notin {"idle", "done"}

Begins(o, kind, sid, step) ==
  /\ op[o].step = "idle"
  /\ op' = [op EXCEPT ![o] = [Idle EXCEPT !.kind = kind, !.sid = sid, !.step = step]]
  /\ alongside' = alongside \cup {{o, other} : other \in {p \in Operations : Active(p)}}

Goes(o, step) ==
  op' = [op EXCEPT ![o].step = step,
                   ![o].found = IF step = "done" THEN {} ELSE @,
                   ![o].after = IF step = "done" THEN None ELSE @]

-----------------------------------------------------------------------------
(* create_session: the key, the id, and the limit *)
BeginCreate(o) ==
  /\ created < LastSession
  /\ created' = created + 1
  /\ Begins(o, "create", created', "store")
  /\ UNCHANGED <<data, index, revoked>>

Store(o) ==
  /\ op[o].step = "store"
  /\ data' = [data EXCEPT ![op[o].sid] = TRUE]
  /\ Goes(o, "index")
  /\ UNCHANGED <<index, created, alongside, revoked>>

AddToIndex(o) ==
  /\ op[o].step = "index"
  /\ index' = index \cup {op[o].sid}
  /\ Goes(o, "members")
  /\ UNCHANGED <<data, created, alongside, revoked>>

(* smembers, of create_session's limit, of revoke_all and of the cleanup *)
Members(o) ==
  /\ op[o].step = "members"
  /\ IF op[o].kind = "create" /\ Cardinality(index) <= MAX_CONCURRENT_SESSIONS
     THEN Goes(o, "done")
     ELSE op' = [op EXCEPT ![o].left = index,
                           ![o].step = CASE op[o].kind = "create" -> "read"
                                         [] op[o].kind = "revoke all" -> "next"
                                         [] op[o].kind = "cleanup" -> "exists"]
  /\ UNCHANGED <<data, index, created, alongside, revoked>>

(* the n that were created first among ids *)
Oldest(ids, n) == {s \in ids : Cardinality({t \in ids : t < s}) < n}

(* mutant: the newest go *)
SurplusNewest(ids) == ids \ Oldest(ids, MAX_CONCURRENT_SESSIONS)

(* sessions[:len(sessions) - MAX]: with fewer than MAX stored sessions the *)
(* bound is negative and counts from the end, and the first ones are taken *)
(* although the user is under the limit.                                   *)
Surplus(ids) ==
  LET g == Cardinality(ids)
  IN  IF g >= MAX_CONCURRENT_SESSIONS THEN Oldest(ids, g - MAX_CONCURRENT_SESSIONS)
      ELSE IF 2 * g > MAX_CONCURRENT_SESSIONS THEN Oldest(ids, 2 * g - MAX_CONCURRENT_SESSIONS)
      ELSE {}

ReadSession(o) ==
  /\ op[o].step = "read"
  /\ IF op[o].left # {}
     THEN \E s \in op[o].left :
            op' = [op EXCEPT ![o].left = @ \ {s},
                             ![o].found = IF data[s] = None THEN @ ELSE @ \cup {s}]
     ELSE op' = [op EXCEPT ![o].left = Surplus(op[o].found), ![o].found = {}, ![o].step = "next"]
  /\ UNCHANGED <<data, index, created, alongside, revoked>>

(* The next session to revoke, or the end of the loop. *)
NextToRevoke(o) ==
  /\ op[o].step = "next"
  /\ IF op[o].left = {}
     THEN Goes(o, IF op[o].kind = "revoke all" THEN "drop index" ELSE "done")
     ELSE LET s == CHOOSE s \in op[o].left : \A t \in op[o].left : s <= t
          IN  op' = [op EXCEPT ![o].left = @ \ {s}, ![o].after = s, ![o].step = "get"]
  /\ UNCHANGED <<data, index, created, alongside, revoked>>

(* revoke_session of op.after, by itself or in a loop *)
BeginRevokeSession(o, s) ==
  /\ op[o].step = "idle"
  /\ op' = [op EXCEPT ![o] = [Idle EXCEPT !.kind = "revoke", !.sid = s, !.after = s, !.step = "get"]]
  /\ alongside' = alongside \cup {{o, other} : other \in {p \in Operations : Active(p)}}
  /\ UNCHANGED <<data, index, created, revoked>>

Revoked(o) == IF op[o].kind = "revoke" THEN "done" ELSE "next"

GetToRevoke(o) ==
  /\ op[o].step = "get"
  /\ Goes(o, IF data[op[o].after] = None THEN Revoked(o) ELSE "deactivate")
  /\ UNCHANGED <<data, index, created, alongside, revoked>>

Deactivate(o) ==
  /\ op[o].step = "deactivate"
  /\ data' = [data EXCEPT ![op[o].after] = FALSE]
  /\ revoked' = revoked \cup {<<o, op[o].after>>}
  /\ Goes(o, "remove")
  /\ UNCHANGED <<index, created, alongside>>

RemoveFromIndex(o) ==
  /\ op[o].step = "remove"
  /\ index' = index \ {op[o].after}
  /\ Goes(o, Revoked(o))
  /\ UNCHANGED <<data, created, alongside, revoked>>

BeginRevokeAll(o) ==
  /\ Begins(o, "revoke all", 0, "members")
  /\ UNCHANGED <<data, index, created, revoked>>

DropIndex(o) ==
  /\ op[o].step = "drop index"
  /\ index' = {}
  /\ Goes(o, "done")
  /\ UNCHANGED <<data, created, alongside, revoked>>

BeginValidate(o, s) ==
  /\ Begins(o, "validate", s, "look")
  /\ UNCHANGED <<data, index, created, revoked>>

(* mutant: a session is touched whether or not it is active *)
LookAnyway(o) ==
  /\ op[o].step = "look"
  /\ Goes(o, IF data[op[o].sid] # None THEN "touch" ELSE "done")
  /\ UNCHANGED <<data, index, created, alongside, revoked>>

Look(o) ==
  /\ op[o].step = "look"
  /\ Goes(o, IF data[op[o].sid] = TRUE THEN "touch" ELSE "done")
  /\ UNCHANGED <<data, index, created, alongside, revoked>>

(* last_activity is written with the whole session, as it was read *)
Touch(o) ==
  /\ op[o].step = "touch"
  /\ data' = [data EXCEPT ![op[o].sid] = TRUE]
  /\ Goes(o, "done")
  /\ UNCHANGED <<index, created, alongside, revoked>>

BeginCleanup(o) ==
  /\ Begins(o, "cleanup", 0, "members")
  /\ UNCHANGED <<data, index, created, revoked>>

CleanUp(o) ==
  /\ op[o].step = "exists"
  /\ IF op[o].left = {} THEN Goes(o, "done") /\ UNCHANGED index
     ELSE \E s \in op[o].left :
            /\ op' = [op EXCEPT ![o].left = @ \ {s}]
            /\ index' = IF data[s] = None THEN index \ {s} ELSE index
  /\ UNCHANGED <<data, created, alongside, revoked>>

(* SESSION_TTL_SECONDS *)
SessionExpires(s) ==
  /\ data[s] # None
  /\ data' = [data EXCEPT ![s] = None]
  /\ UNCHANGED <<index, created, op, alongside, revoked>>

IndexExpires ==
  /\ index # {}
  /\ index' = {}
  /\ UNCHANGED <<data, created, op, alongside, revoked>>

SessionsNext ==
  \/ \E o \in Operations :
       \/ BeginCreate(o) \/ Store(o) \/ AddToIndex(o) \/ Members(o) \/ ReadSession(o)
       \/ NextToRevoke(o) \/ GetToRevoke(o) \/ Deactivate(o) \/ RemoveFromIndex(o)
       \/ BeginRevokeAll(o) \/ DropIndex(o) \/ Look(o) \/ Touch(o)
       \/ BeginCleanup(o) \/ CleanUp(o)
       \/ \E s \in 1..created : BeginRevokeSession(o, s) \/ BeginValidate(o, s)
  \/ \E s \in SessionIds : SessionExpires(s)
  \/ IndexExpires

SessionsSpec == SessionsInit /\ [][SessionsNext]_session_vars

-----------------------------------------------------------------------------
SessionsTypeOK ==
  /\ data \in [SessionIds -> {TRUE, FALSE, None}]
  /\ index \subseteq 1..created /\ created \in 0..LastSession
  /\ \A o \in Operations : op[o].left \cup op[o].found \subseteq 1..created

Alongside(o, kind) == \E p \in Operations : op[p].kind = kind /\ {o, p} \in alongside

(***************************************************************************)
(* A session that was revoked counts as active again only by a validation  *)
(* that ran beside the revocation: it had read the session before and      *)
(* writes it back active (validate_session's get and setex).               *)
(***************************************************************************)
RevokedStaysRevoked ==
  \A r \in revoked : data[r[2]] = TRUE => Alongside(r[1], "validate")

(***************************************************************************)
(* Enforcing the limit never takes the session it was called for, however  *)
(* many of the ids in the set have expired: those created first go first.  *)
(***************************************************************************)
OwnSessionSurvives ==
  \A r \in revoked : op[r[1]].kind = "create" => r[2] # op[r[1]].sid \/ Alongside(r[1], "create")
===============================================================================
