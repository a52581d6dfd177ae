------------------------------ MODULE Credentials ------------------------------
(***************************************************************************)
(* The libraries that hold credentials: API keys, the Vault client, and the*)
(* users with their roles. They share nothing.                             *)
(***************************************************************************)
EXTENDS Absence, Naturals, FiniteSets

-----------------------------------------------------------------------------
(***************************************************************************)
(* API keys (shared/security/api_keys.py): made, validated, revoked and    *)
(* rotated by statements of their own.  Rotating revokes the old key on    *)
(* one connection and makes a new one on another.  A key remembers which   *)
(* first key it descends from; this and `excused_lines' are history.       *)
(***************************************************************************)

CONSTANTS
  KeyIds,   \* keys that may be made
  KeyCalls  \* calls of the manager

ASSUME KeysAssumption == None \notin KeyIds \cup {"made"}

VARIABLES
  key,           \* per key: whether its row exists, is active, has expired; its line
  call,          \* per call: kind, key, what it read, step, outcome
  excused_lines  \* lines with overlapping rotations, or one of a key not active

key_vars == <<key, call, excused_lines>>

KeysInit ==
  /\ key = [k \in KeyIds |-> [row |-> FALSE, active |-> FALSE, expired |-> FALSE, line |-> None]]
  /\ call = [c \in KeyCalls |-> [kind |-> None, key |-> None, revoked |-> FALSE,
                                 step |-> "idle", outcome |-> None]]
  /\ excused_lines = {}

Rows == {k \in KeyIds : key[k].row}
LineOf(k) == key[k].line
Rotating(l) == {c \in KeyCalls : call[c].step \in {"revoke old", "make new"} /\ LineOf(call[c].key) = l}

BeginCall(c, kind, k, step) ==
  call' = [call EXCEPT ![c] = [kind |-> kind, key |-> k, step |-> step, outcome |-> None,
                               revoked |-> k \in Rows /\ ~key[k].active]]
Ends(c, outcome) ==
  call' = [call EXCEPT ![c].step = "done", ![c].outcome = outcome]

(* CREATE TABLE, then INSERT; expiry is a year away *)
MakeKey(k, line) ==
  /\ k \notin Rows
  /\ key' = [key EXCEPT ![k] = [row |-> TRUE, active |-> TRUE, expired |-> FALSE, line |-> line]]

CreateKey(c, k) ==
  /\ call[c].step = "idle"
  /\ MakeKey(k, k)
  /\ call' = [call EXCEPT ![c] = [kind |-> "create", key |-> k, revoked |-> FALSE,
                                  step |-> "done", outcome |-> "made"]]
  /\ UNCHANGED excused_lines

(* mutant: an inactive key is let through *)
MayPassInactive(row) == ~row.expired

(* what validate_key wants of a row *)
MayPass(row) == row.active /\ ~row.expired

(* The row is read and looked at; a good one is then stamped as used, and  *)
(* only after this await the answer is given.                              *)
ValidateReads(c, k) ==
  /\ call[c].step = "idle"
  /\ IF k \in Rows /\ MayPass(key[k])
     THEN BeginCall(c, "validate", k, "stamp")
     ELSE call' = [call EXCEPT ![c] = [kind |-> "validate", key |-> k, step |-> "done",
                                       outcome |-> "none", revoked |-> FALSE]]
  /\ UNCHANGED <<key, excused_lines>>

ValidateAnswers(c) ==
  /\ call[c].step = "stamp"
  /\ Ends(c, "valid")
  /\ UNCHANGED <<key, excused_lines>>

(* revoke_key compares the status text with 0 after the update: the key is *)
(* revoked and the caller gets an error.                                   *)
RevokeKeyRow(c, k) ==
  /\ call[c].step = "idle"
  /\ key' = [key EXCEPT ![k].active = FALSE]
  /\ call' = [call EXCEPT ![c] = [kind |-> "revoke", key |-> k, revoked |-> FALSE,
                                  step |-> "done", outcome |-> "error"]]
  /\ UNCHANGED excused_lines

(* rotate_key reads the row, active or not, ... *)
RotateReads(c, k) ==
  /\ call[c].step = "idle" /\ k \in Rows
  /\ BeginCall(c, "rotate", k, "revoke old")
  /\ excused_lines' = IF Rotating(LineOf(k)) # {} \/ ~key[k].active
                THEN excused_lines \cup {LineOf(k)} ELSE excused_lines
  /\ UNCHANGED key

(* mutant: the old key stays *)
RotateKeeps(c) ==
  /\ call[c].step = "revoke old"
  /\ call' = [call EXCEPT ![c].step = "make new"]
  /\ UNCHANGED <<key, excused_lines>>

(* ... revokes it ... *)
RotateRevokes(c) ==
  /\ call[c].step = "revoke old"
  /\ key' = [key EXCEPT ![call[c].key].active = FALSE]
  /\ call' = [call EXCEPT ![c].step = "make new"]
  /\ UNCHANGED excused_lines

(* ... and makes a new one with its role and permissions. *)
RotateMakes(c, k) ==
  /\ call[c].step = "make new"
  /\ MakeKey(k, LineOf(call[c].key))
  /\ Ends(c, "made")
  /\ UNCHANGED excused_lines

(* A statement fails, or the process ends between two. *)
KeyCallFails(c) ==
  /\ call[c].step \notin {"idle", "done"}
  /\ Ends(c, "error")
  /\ UNCHANGED <<key, excused_lines>>

Expires(k) ==
  /\ k \in Rows /\ ~key[k].expired
  /\ key' = [key EXCEPT ![k].expired = TRUE]
  /\ UNCHANGED <<call, excused_lines>>

KeysNext ==
  \/ \E c \in KeyCalls, k \in KeyIds :
       \/ CreateKey(c, k) \/ ValidateReads(c, k) \/ RevokeKeyRow(c, k)
       \/ RotateReads(c, k) \/ RotateMakes(c, k)
  \/ \E c \in KeyCalls : ValidateAnswers(c) \/ RotateRevokes(c) \/ KeyCallFails(c)
  \/ \E k \in KeyIds : Expires(k)

KeysSpec == KeysInit /\ [][KeysNext]_key_vars

-----------------------------------------------------------------------------
KeysTypeOK ==
  /\ \A k \in KeyIds : key[k].line \in KeyIds \cup {None} /\ (key[k].row <=> key[k].line # None)
  /\ \A c \in KeyCalls : /\ call[c].step \in {"idle", "stamp", "revoke old", "make new", "done"}
                         /\ call[c].outcome \in {"made", "valid", "none", "error", None}
  /\ excused_lines \subseteq KeyIds

(***************************************************************************)
(* Of a key and all that rotations made of it at most one is active,       *)
(* although nothing is done in a transaction: more only after two          *)
(* rotations of the line overlapped, or of a key that was revoked already. *)
(***************************************************************************)
OneActivePerLine ==
  \A j, k \in Rows :
    j # k /\ key[j].active /\ key[k].active /\ LineOf(j) = LineOf(k) => LineOf(j) \in excused_lines

(***************************************************************************)
(* A key revoked, by itself or by rotation, before a call begins is never  *)
(* found valid by it: only a validation under way may still be answered.   *)
(***************************************************************************)
RevokedIsNeverValid ==
  \A c \in KeyCalls : call[c].kind = "validate" /\ call[c].outcome = "valid" => ~call[c].revoked

(***************************************************************************)
(* A line that began with a key keeps an active one, unless a key of it    *)
(* was revoked or a rotation of it failed half way or has yet to end.      *)
(***************************************************************************)
LineGoesOn ==
  \A l \in Rows :
    \/ \E k \in Rows : LineOf(k) = LineOf(l) /\ key[k].active
    \/ \E c \in KeyCalls : /\ call[c].key \in Rows /\ LineOf(call[c].key) = LineOf(l)
                           /\ call[c].kind \in {"revoke", "rotate"} /\ call[c].outcome # "made"

-----------------------------------------------------------------------------
(***************************************************************************)
(* The Vault client of one process (shared/security/vault.py): secrets are *)
(* cached for a while, under their path or under path and key, and other   *)
(* clients change them meanwhile.  A secret is the number of its change.   *)
(***************************************************************************)

CONSTANTS
  Paths,
  CacheTtl,    \* cache_ttl
  LastMoment,  \* bound of the clock
  LastChange   \* bound: changes of a secret

ASSUME VaultAssumption == CacheTtl \in Nat /\ LastMoment \in Nat /\ LastChange \in Nat \ {0}

Parts == {"password", "all"}  \* a key of the secret, or all of it

VARIABLES
  moment,
  client,   \* whether _client is there; authenticated or not
  vault,    \* per path: the secret
  replaced, \* per path and change: when the next one was made (history)
  own,      \* per path: this process's last change (history)
  secret_cache, \* per path and part: value and expiry
  obtained  \* the last secret obtained: path, value, whether from the environment

vault_vars == <<moment, client, vault, replaced, own, secret_cache, obtained>>

VaultInit ==
  /\ moment = 0 /\ client = FALSE
  /\ vault = [p \in Paths |-> 1]
  /\ replaced = [p \in Paths |-> [c \in 1..LastChange |-> None]]
  /\ own = [p \in Paths |-> 0]
  /\ secret_cache = [p \in Paths |-> [part \in Parts |-> None]]
  /\ obtained = None

(* _connect: once made, the client counts as connected, though its token   *)
(* and the pod's account were both refused                                 *)
Connects(connected) ==
  \/ connected /\ client' = TRUE
  \/ ~connected /\ ~client /\ client' \in BOOLEAN

Cached(p, part) ==
  IF secret_cache[p][part] = None THEN FALSE ELSE moment < secret_cache[p][part].expiry

Obtains(p, value) == obtained' = [path |-> p, value |-> value]

GetCached(p, part) ==
  /\ Cached(p, part)
  /\ Obtains(p, secret_cache[p][part].value)
  /\ UNCHANGED <<moment, client, vault, replaced, own, secret_cache>>

GetFromVault(p, part) ==
  /\ ~Cached(p, part)
  /\ Connects(TRUE)
  /\ secret_cache' = [secret_cache EXCEPT ![p][part] = [value |-> vault[p], expiry |-> moment + CacheTtl]]
  /\ Obtains(p, vault[p])
  /\ UNCHANGED <<moment, vault, replaced, own>>

(* the variable of the environment with the key's name, the same one for   *)
(* every path, or nothing; neither is cached                               *)
FallsBack(p) ==
  /\ \E value \in {"environment", None} : Obtains(p, value)
  /\ UNCHANGED <<moment, vault, replaced, own, secret_cache>>

VaultNotConnected(p, part) == ~Cached(p, part) /\ Connects(FALSE) /\ FallsBack(p)

(* the read raises, or has nothing under this key: the client counts as    *)
(* connected, and what an earlier call cached has expired                  *)
VaultReadFails(p, part) == ~Cached(p, part) /\ Connects(TRUE) /\ FallsBack(p)

Changed(p) ==
  /\ vault[p] < LastChange
  /\ vault' = [vault EXCEPT ![p] = @ + 1]
  /\ replaced' = [replaced EXCEPT ![p][vault[p]] = moment]

(* mutant: only all of it is forgotten *)
ForgetsAll(p) == secret_cache' = [secret_cache EXCEPT ![p]["all"] = None]

(* every cache key that begins with the path *)
Forgets(p) == secret_cache' = [secret_cache EXCEPT ![p] = [part \in Parts |-> None]]

(* set_secret and rotate_secret *)
SetSecret(p) ==
  /\ Connects(TRUE) /\ Changed(p) /\ Forgets(p)
  /\ own' = [own EXCEPT ![p] = vault[p] + 1]
  /\ UNCHANGED <<moment, obtained>>

(* Not connected, or an error, perhaps after Vault had taken it: what is   *)
(* cached stays.                                                           *)
SetSecretFails(p) ==
  /\ \/ Connects(FALSE) /\ UNCHANGED <<vault, replaced>>
     \/ Connects(TRUE) /\ (Changed(p) \/ UNCHANGED <<vault, replaced>>)
  /\ UNCHANGED <<moment, own, secret_cache, obtained>>

OthersSet(p) ==
  /\ Changed(p)
  /\ UNCHANGED <<moment, client, own, secret_cache, obtained>>

MomentPasses ==
  /\ moment < LastMoment
  /\ moment' = moment + 1
  /\ UNCHANGED <<client, vault, replaced, own, secret_cache, obtained>>

VaultNext ==
  \/ \E p \in Paths :
       \/ SetSecret(p) \/ SetSecretFails(p) \/ OthersSet(p)
       \/ \E part \in Parts :
            GetCached(p, part) \/ GetFromVault(p, part) \/ VaultNotConnected(p, part) \/ VaultReadFails(p, part)
  \/ MomentPasses

VaultSpec == VaultInit /\ [][VaultNext]_vault_vars

-----------------------------------------------------------------------------
VaultTypeOK ==
  /\ moment \in 0..LastMoment /\ client \in BOOLEAN
  /\ \A p \in Paths : vault[p] \in 1..LastChange /\ own[p] <= vault[p]

(***************************************************************************)
(* A secret obtained from the cache, whole or in part, is never older than *)
(* what this process has set or rotated since, and if it is no longer      *)
(* Vault's it was replaced less than the cache's time ago.                 *)
(***************************************************************************)
SecretsAreFresh ==
  \A p \in Paths, part \in Parts : Cached(p, part) =>
    LET value == secret_cache[p][part].value IN
    /\ value >= own[p]
    /\ value = vault[p] \/ moment - replaced[p][value] < CacheTtl

-----------------------------------------------------------------------------
(***************************************************************************)
(* Users and what their roles allow (shared/security/rbac.py).  A user is  *)
(* a row of a table that single statements change; logging in reads it,    *)
(* compares passwords and stamps it before the user is returned, with the  *)
(* role that was read, which is what later requests are checked by.        *)
(***************************************************************************)

CONSTANTS
  Emails,
  Authentications, \* calls of authenticate
  Passwords,
  MaxUserEdits     \* bound: changes of rows

VARIABLES
  account,        \* per email: None, or the row: password, role, active
  authentication, \* per call: step, email, password, the user it returned
  user_edits,
  retired,        \* emails that were deactivated once
  fitted          \* per call: whether its password let an active user in, at some time since it began

user_vars == <<account, authentication, user_edits, retired, fitted>>

Viewing == {"auth:login", "dashboard:view", "policies:read", "agents:read", "audit:read",
            "logs:read", "events:read", "compliance:read"}

(* ROLE_PERMISSIONS; an unknown role has none *)
RolePermissions ==
  [viewer |-> Viewing,
   auditor |-> Viewing \cup {"audit:export", "audit:verify", "compliance:export"},
   operator |-> Viewing \cup
     {"agents:write", "agents:kill", "guardrails:check", "settings:read", "budget:read",
      "hallucination:read", "hallucination:write", "opa:read", "opa:evaluate"},
   admin |-> Viewing \cup
     {"auth:manage", "policies:write", "agents:write", "agents:kill", "guardrails:check",
      "guardrails:reload", "audit:export", "audit:verify", "settings:read", "settings:write",
      "budget:read", "budget:write", "hallucination:read", "hallucination:write", "opa:read",
      "opa:evaluate", "opa:reload", "data:delete", "data:export", "users:manage",
      "compliance:export", "setup:configure"}]
Roles == DOMAIN RolePermissions
Permissions == UNION {RolePermissions[r] : r \in Roles}

(* require_permission's has_permission *)
HasPermission(user, permission) ==
  user # None /\ (user.role = "admin" \/ permission \in RolePermissions[user.role])

ASSUME UsersAssumption ==
  MaxUserEdits \in Nat /\ None \notin [password : Passwords, role : Roles, active : BOOLEAN]

Level == [viewer |-> 1, auditor |-> 2, operator |-> 3, admin |-> 4]

(* require_role, as a minimum *)
MeetsRole(user, required) == user # None /\ Level[user.role] >= Level[required]

UsersInit ==
  /\ account = [e \in Emails |-> None]
  /\ authentication = [a \in Authentications |-> [step |-> "new", email |-> None, password |-> None, user |-> None]]
  /\ user_edits = 0 /\ retired = {}
  /\ fitted = [a \in Authentications |-> FALSE]

-----------------------------------------------------------------------------
LetsIn(row, password) == row # None /\ row.active /\ row.password = password

Edited(rows) ==
  /\ user_edits < MaxUserEdits
  /\ user_edits' = user_edits + 1
  /\ account' = rows
  /\ fitted' = [a \in Authentications |->
       fitted[a] \/ (authentication[a].step = "stamp" /\ LetsIn(rows[authentication[a].email], authentication[a].password))]
  /\ UNCHANGED authentication

(* mutant: the upsert makes a user active again *)
UpsertedActive(row, password, role) == [password |-> password, role |-> role, active |-> TRUE]

(* ON CONFLICT DO UPDATE: password and role, nothing else *)
Upserted(row, password, role) ==
  [password |-> password, role |-> role, active |-> row = None \/ row.active]

CreateUser(e, password, role) ==
  /\ Edited([account EXCEPT ![e] = Upserted(account[e], password, role)])
  /\ UNCHANGED retired

UpdateRole(e, role) ==
  /\ account[e] # None
  /\ Edited([account EXCEPT ![e].role = role])
  /\ UNCHANGED retired

DeactivateUser(e) ==
  /\ account[e] # None
  /\ Edited([account EXCEPT ![e].active = FALSE])
  /\ retired' = retired \cup {e}

-----------------------------------------------------------------------------
(* mutant: the row's password is compared, whether it is active or not *)
AdmitsInactive(row, password) == row # None /\ row.password = password

Admits(row, password) == LetsIn(row, password)

(* authenticate: the row is read and the password checked against it *)
ReadUser(a, e, password) ==
  /\ authentication[a].step = "new"
  /\ authentication' = [authentication EXCEPT ![a] =
       IF Admits(account[e], password)
       THEN [step |-> "stamp", email |-> e, password |-> password, user |-> [email |-> e, role |-> account[e].role]]
       ELSE [step |-> "done", email |-> e, password |-> password, user |-> None]]
  /\ fitted' = [fitted EXCEPT ![a] = LetsIn(account[e], password)]
  /\ UNCHANGED <<account, user_edits, retired>>

(* last_login is written, and what was read before is returned *)
StampLogin(a) ==
  /\ authentication[a].step = "stamp"
  /\ authentication' = [authentication EXCEPT ![a].step = "done"]
  /\ UNCHANGED <<account, user_edits, retired, fitted>>

StampFails(a) ==
  /\ authentication[a].step = "stamp"
  /\ authentication' = [authentication EXCEPT ![a].step = "done", ![a].user = None]
  /\ UNCHANGED <<account, user_edits, retired, fitted>>

UsersNext ==
  \/ \E e \in Emails :
       \/ DeactivateUser(e)
       \/ \E role \in Roles : UpdateRole(e, role) \/ \E password \in Passwords : CreateUser(e, password, role)
       \/ \E a \in Authentications, password \in Passwords : ReadUser(a, e, password)
  \/ \E a \in Authentications : StampLogin(a) \/ StampFails(a)

UsersSpec == UsersInit /\ [][UsersNext]_user_vars

-----------------------------------------------------------------------------
UsersTypeOK ==
  /\ user_edits \in 0..MaxUserEdits
  /\ \A e \in Emails : account[e] # None => account[e].role \in Roles /\ account[e].active \in BOOLEAN
  /\ \A a \in Authentications : authentication[a].user # None => authentication[a].user.email \in Emails

LoggedIn == {a \in Authentications : authentication[a].step = "done" /\ authentication[a].user # None}

(***************************************************************************)
(* Whoever is logged in had the password of an active user at some moment  *)
(* of the call, whatever was edited meanwhile; and what one may as logged  *)
(* in, one may by role: an administrator everything, and no minimum role   *)
(* lets in someone without what every lower role but the auditor's allows. *)
(***************************************************************************)
LoginsWereDue ==
  \A a \in LoggedIn :
    LET user == authentication[a].user IN
      /\ fitted[a]
      /\ MeetsRole(user, "admin") => \A p \in Permissions : HasPermission(user, p)
      /\ \A r \in Roles \ {"auditor"} : MeetsRole(user, r) =>
           \A p \in RolePermissions[r] : HasPermission(user, p)

(***************************************************************************)
(* A deactivated user stays so, also when created again: no statement of   *)
(* the library makes a row active.                                         *)
(***************************************************************************)
RetiredForGood == \A e \in retired : ~account[e].active
=============================================================================
