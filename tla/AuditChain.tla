------------------------------ MODULE AuditChain ------------------------------
(***************************************************************************)
(* The hash-chained audit log of shared/audit.py.                          *)
(*                                                                         *)
(* Every service coroutine that calls log_audit reads the chain hash of    *)
(* the newest row, computes its own from it, and inserts a row; the three  *)
(* steps are separate awaits, each on a pooled connection of its own, and  *)
(* both the read and the insert swallow their exceptions.  PostgreSQL      *)
(* draws the SERIAL id of a row before the row becomes visible, so the two *)
(* halves of the INSERT are steps of their own.                            *)
(*                                                                         *)
(* HMAC-SHA256 is taken to be injective: a hash is represented by what it  *)
(* was computed from, which along the chain is the sequence of entries     *)
(* since GENESIS.                                                          *)
(***************************************************************************)
EXTENDS Absence, Naturals, Sequences, FiniteSets, TLC

CONSTANTS
  Callers,   \* the coroutines (of any gateway process) that may be in log_audit
  Entries,   \* what entry_data can be: user|action|resource|id|ip
  MaxId      \* bound: the last id the sequence of audit_logs hands out

ASSUME MaxIdAssumption == MaxId \in Nat
ASSUME NoneAssumption == None \notin Seq(Entries)

VARIABLES
  (* the table *)
  audit_logs,  \* committed rows, a function from their ids
  next_id,     \* the SERIAL sequence behind audit_logs.id
  (* the calls in progress *)
  pc,          \* where each caller is in log_audit
  entry_data,  \* what each caller logs
  prev_hash,   \* what each caller read as the newest chain hash
  row_id,      \* the id drawn for each caller's row
  (* history, not in the code *)
  suspect,     \* callers whose call overlapped another one, or whose read failed
  excused      \* ids of the rows such callers wrote

vars == <<audit_logs, next_id, pc, entry_data, prev_hash, row_id, suspect, excused>>

GENESIS == <<>>

(* mutant: the hash of the predecessor alone *)
ChainHmacWithoutEntry(prev, e) ==
  IF prev = None THEN Append(GENESIS, e) ELSE Append(prev, None)

(* chain_hash_input: the entry hashed together with its predecessor's hash *)
ChainHmac(prev, e) == IF prev = None THEN Append(GENESIS, e) ELSE Append(prev, e)

Ids == 1..MaxId
Hashes == Seq(Entries)
Row == [entry : Entries, chain_hash : Hashes, prev_hash : Hashes \cup {None}]

InFlight == {c \in Callers : pc[c] # "idle"}

(* j is the row that precedes position i in ORDER BY id *)
IsPred(log, j, i) ==
  /\ j \in DOMAIN log /\ j < i
  /\ \A k \in DOMAIN log : k < i => k <= j

(* mutant: ORDER BY id ASC LIMIT 1 *)
FirstChainHash(log) ==
  IF DOMAIN log = {} THEN None
  ELSE LET first == CHOOSE i \in DOMAIN log : \A k \in DOMAIN log : i <= k
       IN  log[first].chain_hash

(* SELECT chain_hash ... ORDER BY id DESC LIMIT 1 *)
LastChainHash(log) ==
  IF DOMAIN log = {} THEN None
  ELSE LET last == CHOOSE i \in DOMAIN log : \A k \in DOMAIN log : k <= i
       IN  log[last].chain_hash

(***************************************************************************)
(* verify_audit_chain: each row is recomputed from the stored hash of the  *)
(* row before it.  A row that does not match is a broken link; the report  *)
(* names the first.                                                        *)
(***************************************************************************)
LinkHolds(log, i) ==
  \/ \E j \in DOMAIN log :
        IsPred(log, j, i) /\ log[i].chain_hash = ChainHmac(log[j].chain_hash, log[i].entry)
  \/ /\ \A j \in DOMAIN log : ~ j < i
     /\ log[i].chain_hash = ChainHmac(None, log[i].entry)

(* mutant: only the newest row is verified *)
BrokenNewestLink(log) ==
  {i \in DOMAIN log : ~LinkHolds(log, i) /\ \A k \in DOMAIN log : k <= i}

BrokenLinks(log) == {i \in DOMAIN log : ~LinkHolds(log, i)}

Valid(log) == BrokenLinks(log) = {}

BrokenAt(log) ==
  IF Valid(log) THEN None
  ELSE CHOOSE i \in BrokenLinks(log) : \A k \in BrokenLinks(log) : i <= k

-----------------------------------------------------------------------------
Init ==
  /\ audit_logs = <<>>
  /\ next_id = 1
  /\ pc = [c \in Callers |-> "idle"]
  /\ entry_data = [c \in Callers |-> None]
  /\ prev_hash = [c \in Callers |-> None]
  /\ row_id = [c \in Callers |-> 0]
  /\ suspect = {}
  /\ excused = {}

(* log_audit is called; it runs to its first await *)
Call(c, e) ==
  /\ pc[c] = "idle"
  /\ pc' = [pc EXCEPT ![c] = "read"]
  /\ entry_data' = [entry_data EXCEPT ![c] = e]
  /\ suspect' = IF InFlight = {} THEN suspect ELSE suspect \cup InFlight \cup {c}
  /\ UNCHANGED <<audit_logs, next_id, prev_hash, row_id, excused>>

ReadLastHash(c) ==
  /\ pc[c] = "read"
  /\ pc' = [pc EXCEPT ![c] = "insert"]
  /\ prev_hash' = [prev_hash EXCEPT ![c] = LastChainHash(audit_logs)]
  /\ UNCHANGED <<audit_logs, next_id, entry_data, row_id, suspect, excused>>

(* the pool or the query raises: _get_last_chain_hash returns None *)
ReadLastHashFails(c) ==
  /\ pc[c] = "read"
  /\ pc' = [pc EXCEPT ![c] = "insert"]
  /\ prev_hash' = [prev_hash EXCEPT ![c] = None]
  /\ suspect' = suspect \cup {c}
  /\ UNCHANGED <<audit_logs, next_id, entry_data, row_id, excused>>

(* the server starts the INSERT: nextval of the id sequence *)
DrawId(c) ==
  /\ pc[c] = "insert"
  /\ next_id <= MaxId
  /\ pc' = [pc EXCEPT ![c] = "commit"]
  /\ row_id' = [row_id EXCEPT ![c] = next_id]
  /\ next_id' = next_id + 1
  /\ UNCHANGED <<audit_logs, entry_data, prev_hash, suspect, excused>>

(* mutant: the two hash columns swapped *)
NewRowSwapped(c) == [entry      |-> entry_data[c],
                     chain_hash |-> ChainHmac(prev_hash[c], entry_data[c]),
                     prev_hash  |-> ChainHmac(prev_hash[c], entry_data[c])]

NewRow(c) == [entry      |-> entry_data[c],
              chain_hash |-> ChainHmac(prev_hash[c], entry_data[c]),
              prev_hash  |-> prev_hash[c]]

(* log_audit returns: its locals are gone *)
Return(c) ==
  /\ pc' = [pc EXCEPT ![c] = "idle"]
  /\ entry_data' = [entry_data EXCEPT ![c] = None]
  /\ prev_hash' = [prev_hash EXCEPT ![c] = None]
  /\ row_id' = [row_id EXCEPT ![c] = 0]
  /\ suspect' = suspect \ {c}

(* the INSERT commits *)
CommitInsert(c) ==
  /\ pc[c] = "commit"
  /\ audit_logs' = [i \in DOMAIN audit_logs \cup {row_id[c]} |->
                       IF i = row_id[c] THEN NewRow(c) ELSE audit_logs[i]]
  /\ excused' = IF c \in suspect THEN excused \cup {row_id[c]} ELSE excused
  /\ Return(c)
  /\ UNCHANGED next_id

(* the INSERT raises, before or after its id was drawn, or the process     *)
(* stops: nothing is written and the caller is not told                    *)
InsertFails(c) ==
  /\ pc[c] \in {"insert", "commit"}
  /\ Return(c)
  /\ UNCHANGED <<audit_logs, next_id, excused>>

Next ==
  \E c \in Callers :
    \/ \E e \in Entries : Call(c, e)
    \/ ReadLastHash(c)
    \/ ReadLastHashFails(c)
    \/ DrawId(c)
    \/ CommitInsert(c)
    \/ InsertFails(c)

Spec == Init /\ [][Next]_vars

-----------------------------------------------------------------------------
TypeOK ==
  /\ DOMAIN audit_logs \subseteq Ids
  /\ \A i \in DOMAIN audit_logs : audit_logs[i] \in Row
  /\ next_id \in 1..(MaxId + 1)
  /\ pc \in [Callers -> {"idle", "read", "insert", "commit"}]
  /\ entry_data \in [Callers -> Entries \cup {None}]
  /\ \A c \in InFlight : entry_data[c] \in Entries
  /\ prev_hash \in [Callers -> Hashes \cup {None}]
  /\ row_id \in [Callers -> 0..MaxId]
  /\ suspect \subseteq InFlight
  /\ excused \subseteq Ids

(***************************************************************************)
(* A row breaks the chain only if its log_audit call overlapped another    *)
(* one or failed to read the newest hash: as long as the calls come one at *)
(* a time and the read succeeds, verify_audit_chain answers valid, however *)
(* many inserts were lost.                                                 *)
(***************************************************************************)
BreaksAreExcused == BrokenLinks(audit_logs) \subseteq excused

(***************************************************************************)
(* The prev_hash column always names the hash of a row committed under a   *)
(* smaller id, so the rows form a forest that can be walked back to rows   *)
(* linked to GENESIS, also where concurrent calls forked the chain.        *)
(***************************************************************************)
LinksPointBack ==
  \A i \in DOMAIN audit_logs :
    /\ audit_logs[i].chain_hash = ChainHmac(audit_logs[i].prev_hash, audit_logs[i].entry)
    /\ audit_logs[i].prev_hash # None =>
         \E j \in DOMAIN audit_logs :
            j < i /\ audit_logs[j].chain_hash = audit_logs[i].prev_hash

(***************************************************************************)
(* What verification is for: in a chain that verifies, a changed entry is  *)
(* reported at the row that was changed, and a row removed before the      *)
(* newest one at the row that followed it.                                 *)
(***************************************************************************)
Altered(log, i, e) == [log EXCEPT ![i].entry = e]
Removed(log, i) == [k \in DOMAIN log \ {i} |-> log[k]]

TamperingIsLocated ==
  Valid(audit_logs) =>
    \A i \in DOMAIN audit_logs :
      /\ \A e \in Entries \ {audit_logs[i].entry} : BrokenAt(Altered(audit_logs, i, e)) = i
      /\ \A k \in DOMAIN audit_logs :
           IsPred(audit_logs, i, k) => BrokenAt(Removed(audit_logs, i)) = k

(***************************************************************************)
(* Once the chain fails to verify, no later call makes it verify again,    *)
(* not even a row committed late between two rows that do not fit.         *)
(***************************************************************************)
BreaksAreForever == [][~Valid(audit_logs) => ~Valid(audit_logs')]_vars

(* for TLC: callers are interchangeable *)
CallerSymmetry == Permutations(Callers)
=============================================================================
