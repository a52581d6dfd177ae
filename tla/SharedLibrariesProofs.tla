-------------------------- MODULE SharedLibrariesProofs ------------------------
(***************************************************************************)
(* Proofs about the libraries of shared/: the audit log chain (AuditChain) *)
(* and the ten libraries of MCSecurityLibraries, for any number of callers *)
(* and any bounds.                                                         *)
(*                                                                         *)
(* BreaksAreExcused is not inductive: it needs to know that a caller that  *)
(* is not suspect is alone (Alone), so that what it read is still the      *)
(* newest hash when its row commits (StillNewest) and its row comes after  *)
(* every committed one (NothingLater), and that a row committed late lands *)
(* only in front of excused rows (LateOnlyBeforeExcused).                  *)
(*                                                                         *)
(* Nor is RevocationHolds.  A validation that may yet write a session back *)
(* as it read it runs beside whoever revoked that session (TouchedBeside,  *)
(* by Met).  While a line of keys is rotated no other rotation of it is    *)
(* under way and no other key of it is active (OneRotation,                *)
(* OthersInactive).  An entry of the Vault cache is the newest secret, or  *)
(* has not outlived the one that replaced it (EntryOK).  Whoever was found *)
(* in the users' table fitted when it was read (LetIn).                    *)
(*                                                                         *)
(* Of a bucket: what it granted since any moment and what it still holds   *)
(* are within burst and rate together (Budgeted), and who was refused      *)
(* finds enough when it was told to return (AdviceHolds).  Of spending:    *)
(* the counters are sums over the ledger (CountersStand), and within the   *)
(* limit with what those let through have still to pay, but for one        *)
(* request of each other spender (BudgetsStand).  Of OPA's circuit: it     *)
(* counts failures that happened (CircuitStands).  Of tools: the calls     *)
(* looked at are divided among the lists as the policies say (Decided).    *)
(* Of encryption: a key ring has every version up to its current one       *)
(* (RingStands), and what its holder encrypted is under one of them        *)
(* (StoredStands).                                                         *)
(*                                                                         *)
(* Sums over the ledger and matches among rules are recursive functions;   *)
(* what they compute is shown with the least number for which it would not *)
(* hold (LeastNatural).                                                    *)
(***************************************************************************)
EXTENDS AuditChain, MCSecurityLibraries, FiniteSetTheorems, SequenceTheorems, WellFoundedInduction, TLAPS

LEMMA LeastNatural ==
  ASSUME NEW S \in SUBSET Nat, S # {}
  PROVE  \E m \in S : \A k \in S : m <= k
<1> DEFINE R == OpToRel(<, Nat)
<1>1. IsWellFoundedOn(R, Nat)
  BY NatLessThanWellFounded
<1>2. \A x, y \in Nat : <<y, x>> \in R <=> y < x
  BY DEF OpToRel
<1> HIDE DEF R
<1>3. PICK x \in S : \A y \in S : ~(<<y, x>> \in R)
  BY <1>1, WFMin
<1>4. x \in Nat /\ \A y \in S : y \in Nat
  OBVIOUS
<1>5. \A y \in S : ~(y < x)
  BY <1>2, <1>3, <1>4
<1>6. \A y \in S : x <= y
  BY <1>4, <1>5
<1> QED
  BY <1>6

-----------------------------------------------------------------------------
(* The audit log chain. *)
Alone == \A c \in InFlight \ suspect : InFlight = {c}

StillNewest ==
  \A c \in InFlight \ suspect :
    pc[c] \in {"insert", "commit"} => prev_hash[c] = LastChainHash(audit_logs)

IdsDrawn ==
  /\ \A i \in DOMAIN audit_logs : i < next_id
  /\ \A c \in Callers : pc[c] = "commit" =>
       row_id[c] \in Ids /\ row_id[c] < next_id /\ row_id[c] \notin DOMAIN audit_logs
  /\ \A c, d \in Callers :
       pc[c] = "commit" /\ pc[d] = "commit" /\ c # d => row_id[c] # row_id[d]

NothingLater ==
  \A c \in InFlight \ suspect : pc[c] = "commit" =>
    \A i \in DOMAIN audit_logs : i < row_id[c]

LateOnlyBeforeExcused ==
  \A c \in Callers : pc[c] = "commit" =>
    \A i \in DOMAIN audit_logs : row_id[c] < i => i \in excused

(* a finite table has a newest row *)
HasNewest ==
  DOMAIN audit_logs = {} \/ \E i \in DOMAIN audit_logs : \A k \in DOMAIN audit_logs : k <= i

(* what a caller read was committed before its own id was drawn *)
ReadIsCommitted ==
  \A c \in Callers : pc[c] \in {"insert", "commit"} /\ prev_hash[c] # None =>
    \E j \in DOMAIN audit_logs :
      /\ audit_logs[j].chain_hash = prev_hash[c]
      /\ pc[c] = "commit" => j < row_id[c]

IInv ==
  /\ TypeOK
  /\ Alone
  /\ StillNewest
  /\ IdsDrawn
  /\ NothingLater
  /\ LateOnlyBeforeExcused
  /\ HasNewest
  /\ ReadIsCommitted
  /\ BreaksAreExcused
  /\ LinksPointBack

-----------------------------------------------------------------------------
(* ChainHmac maps a stored hash, or None, and an entry to a hash. *)
LEMMA ChainHmacType ==
  ASSUME NEW h \in Hashes \cup {None}, NEW e \in Entries
  PROVE  ChainHmac(h, e) \in Hashes
  BY DEF ChainHmac, Hashes, GENESIS

(* LastChainHash returns the hash of the row with the greatest id. *)
LEMMA LastChainHashIs ==
  ASSUME NEW log, DOMAIN log \subseteq Ids,
         NEW i \in DOMAIN log, \A k \in DOMAIN log : k <= i
  PROVE  LastChainHash(log) = log[i].chain_hash
<1>1. DOMAIN log # {}
  OBVIOUS
<1>2. PICK j \in DOMAIN log : \A k \in DOMAIN log : k <= j
  OBVIOUS
<1> DEFINE last == CHOOSE m \in DOMAIN log : \A k \in DOMAIN log : k <= m
<1>3. last \in DOMAIN log /\ \A k \in DOMAIN log : k <= last
  BY <1>2
<1>4. last = i
  BY <1>3, MaxIdAssumption DEF Ids
<1> QED
  BY <1>1, <1>4 DEF LastChainHash

LEMMA LastChainHashEmpty ==
  ASSUME NEW log, DOMAIN log = {}
  PROVE  LastChainHash(log) = None
  BY DEF LastChainHash

(* What LastChainHash returns is None or the hash of a committed row. *)
LEMMA LastChainHashCommitted ==
  ASSUME TypeOK, HasNewest
  PROVE  /\ LastChainHash(audit_logs) \in Hashes \cup {None}
         /\ LastChainHash(audit_logs) # None =>
              \E j \in DOMAIN audit_logs :
                audit_logs[j].chain_hash = LastChainHash(audit_logs)
<1>1. CASE DOMAIN audit_logs = {}
  BY <1>1, LastChainHashEmpty
<1>2. CASE DOMAIN audit_logs # {}
  <2>1. PICK i \in DOMAIN audit_logs : \A k \in DOMAIN audit_logs : k <= i
    BY <1>2 DEF HasNewest
  <2>2. LastChainHash(audit_logs) = audit_logs[i].chain_hash
    BY <2>1, LastChainHashIs DEF TypeOK
  <2>3. audit_logs[i].chain_hash \in Hashes
    BY DEF TypeOK, Row
  <2> QED
    BY <2>2, <2>3
<1> QED
  BY <1>1, <1>2

LEMMA InitIInv == Init => IInv
<1> SUFFICES ASSUME Init PROVE IInv
  OBVIOUS
<1> USE MaxIdAssumption DEF Init
<1>1. DOMAIN audit_logs = {}
  OBVIOUS
<1>2. InFlight = {}
  BY DEF InFlight
<1>3. TypeOK
  BY <1>1, <1>2 DEF TypeOK, Ids
<1>4. Alone /\ StillNewest /\ NothingLater
  BY <1>2 DEF Alone, StillNewest, NothingLater
<1>5. IdsDrawn /\ LateOnlyBeforeExcused /\ HasNewest /\ ReadIsCommitted
  BY <1>1 DEF IdsDrawn, LateOnlyBeforeExcused, HasNewest, ReadIsCommitted
<1>6. BreaksAreExcused /\ LinksPointBack
  BY <1>1 DEF BreaksAreExcused, BrokenLinks, LinksPointBack
<1> QED
  BY <1>3, <1>4, <1>5, <1>6 DEF IInv

-----------------------------------------------------------------------------
(* Every step keeps the types. *)
LEMMA TypeStep ==
  ASSUME IInv, [Next]_vars
  PROVE  TypeOK'
<1> USE MaxIdAssumption
<1>0. TypeOK /\ HasNewest /\ IdsDrawn
  BY DEF IInv
<1>1. ASSUME NEW c \in Callers, NEW e \in Entries, Call(c, e)
      PROVE  TypeOK'
  BY <1>0, <1>1 DEF Call, TypeOK, InFlight
<1>2. ASSUME NEW c \in Callers, ReadLastHash(c)
      PROVE  TypeOK'
  BY <1>0, <1>2, LastChainHashCommitted DEF ReadLastHash, TypeOK, InFlight
<1>3. ASSUME NEW c \in Callers, ReadLastHashFails(c)
      PROVE  TypeOK'
  BY <1>0, <1>3 DEF ReadLastHashFails, TypeOK, InFlight
<1>4. ASSUME NEW c \in Callers, DrawId(c)
      PROVE  TypeOK'
  BY <1>0, <1>4 DEF DrawId, TypeOK, InFlight
<1>5. ASSUME NEW c \in Callers, CommitInsert(c)
      PROVE  TypeOK'
  <2>1. NewRow(c) \in Row
    BY <1>0, <1>5, ChainHmacType DEF CommitInsert, NewRow, Row, TypeOK, InFlight
  <2>2. row_id[c] \in Ids
    BY <1>0, <1>5 DEF CommitInsert, IdsDrawn
  <2>3. DOMAIN audit_logs' \subseteq Ids /\ \A i \in DOMAIN audit_logs' : audit_logs'[i] \in Row
    BY <1>0, <1>5, <2>1, <2>2 DEF CommitInsert, TypeOK
  <2>4. excused' \subseteq Ids
    BY <1>0, <1>5, <2>2 DEF CommitInsert, TypeOK
  <2>5. Return(c) /\ next_id' = next_id
    BY <1>5 DEF CommitInsert
  <2>6. InFlight' = InFlight \ {c}
    BY <1>0, <2>5 DEF Return, TypeOK, InFlight
  <2>7. /\ pc' \in [Callers -> {"idle", "read", "insert", "commit"}]
        /\ entry_data' \in [Callers -> Entries \cup {None}]
        /\ \A d \in InFlight' : entry_data'[d] \in Entries
        /\ prev_hash' \in [Callers -> Hashes \cup {None}]
        /\ row_id' \in [Callers -> 0..MaxId]
        /\ suspect' \subseteq InFlight'
    BY <1>0, <2>5, <2>6 DEF Return, TypeOK, InFlight
  <2> QED
    BY <1>0, <2>3, <2>4, <2>5, <2>7 DEF TypeOK
<1>6. ASSUME NEW c \in Callers, InsertFails(c)
      PROVE  TypeOK'
  BY <1>0, <1>6 DEF InsertFails, Return, TypeOK, InFlight
<1>7. ASSUME UNCHANGED vars
      PROVE  TypeOK'
  BY <1>0, <1>7 DEF vars, TypeOK, InFlight
<1> QED
  BY <1>1, <1>2, <1>3, <1>4, <1>5, <1>6, <1>7 DEF Next
-----------------------------------------------------------------------------
(* A call that begins makes every call in flight suspect, itself included, *)
(* unless it is the only one.                                              *)
LEMMA CallStep ==
  ASSUME IInv, TypeOK', NEW c \in Callers, NEW e \in Entries, Call(c, e)
  PROVE  IInv'
<1>0. TypeOK
  BY DEF IInv
<1>1. InFlight' = InFlight \cup {c} /\ (InFlight' \ suspect' \subseteq {c})
  BY <1>0 DEF Call, InFlight, TypeOK
<1>2. /\ pc'[c] = "read"
      /\ \A d \in Callers : d # c => pc'[d] = pc[d]
      /\ UNCHANGED <<audit_logs, next_id, prev_hash, row_id, excused>>
  BY <1>0 DEF Call, TypeOK
<1>3. Alone'
  BY <1>0, <1>1 DEF Alone, Call, InFlight, TypeOK
<1>4. StillNewest' /\ NothingLater'
  BY <1>1, <1>2 DEF StillNewest, NothingLater
<1>5. IdsDrawn' /\ LateOnlyBeforeExcused'
  BY <1>2 DEF IInv, IdsDrawn, LateOnlyBeforeExcused
<1>6. ReadIsCommitted'
  BY <1>2 DEF IInv, ReadIsCommitted
<1>7. HasNewest' /\ BreaksAreExcused' /\ LinksPointBack'
  BY <1>2 DEF IInv, HasNewest, BreaksAreExcused, BrokenLinks, LinksPointBack
<1> QED
  BY <1>3, <1>4, <1>5, <1>6, <1>7 DEF IInv

LEMMA ReadLastHashStep ==
  ASSUME IInv, TypeOK', NEW c \in Callers, ReadLastHash(c)
  PROVE  IInv'
<1>0. TypeOK /\ HasNewest
  BY DEF IInv
<1>1. InFlight' = InFlight /\ suspect' = suspect
  BY <1>0 DEF ReadLastHash, InFlight, TypeOK
<1>2. /\ pc'[c] = "insert" /\ prev_hash'[c] = LastChainHash(audit_logs)
      /\ \A d \in Callers : d # c => pc'[d] = pc[d] /\ prev_hash'[d] = prev_hash[d]
      /\ UNCHANGED <<audit_logs, next_id, row_id, excused>>
  BY <1>0 DEF ReadLastHash, TypeOK
<1>3. Alone'
  BY <1>1 DEF IInv, Alone
<1>4. StillNewest' /\ NothingLater'
  BY <1>1, <1>2 DEF IInv, StillNewest, NothingLater, InFlight
<1>5. IdsDrawn' /\ LateOnlyBeforeExcused'
  BY <1>2 DEF IInv, IdsDrawn, LateOnlyBeforeExcused
<1>6. ReadIsCommitted'
  BY <1>0, <1>2, LastChainHashCommitted DEF IInv, ReadIsCommitted
<1>7. HasNewest' /\ BreaksAreExcused' /\ LinksPointBack'
  BY <1>2 DEF IInv, HasNewest, BreaksAreExcused, BrokenLinks, LinksPointBack
<1> QED
  BY <1>3, <1>4, <1>5, <1>6, <1>7 DEF IInv

LEMMA ReadLastHashFailsStep ==
  ASSUME IInv, TypeOK', NEW c \in Callers, ReadLastHashFails(c)
  PROVE  IInv'
<1>0. TypeOK
  BY DEF IInv
<1>1. InFlight' = InFlight /\ suspect' = suspect \cup {c}
  BY <1>0 DEF ReadLastHashFails, InFlight, TypeOK
<1>2. /\ pc'[c] = "insert" /\ prev_hash'[c] = None
      /\ \A d \in Callers : d # c => pc'[d] = pc[d] /\ prev_hash'[d] = prev_hash[d]
      /\ UNCHANGED <<audit_logs, next_id, row_id, excused>>
  BY <1>0 DEF ReadLastHashFails, TypeOK
<1>3. Alone'
  BY <1>1 DEF IInv, Alone
<1>4. StillNewest' /\ NothingLater'
  BY <1>1, <1>2 DEF IInv, StillNewest, NothingLater, InFlight
<1>5. IdsDrawn' /\ LateOnlyBeforeExcused'
  BY <1>2 DEF IInv, IdsDrawn, LateOnlyBeforeExcused
<1>6. ReadIsCommitted'
  BY <1>2 DEF IInv, ReadIsCommitted
<1>7. HasNewest' /\ BreaksAreExcused' /\ LinksPointBack'
  BY <1>2 DEF IInv, HasNewest, BreaksAreExcused, BrokenLinks, LinksPointBack
<1> QED
  BY <1>3, <1>4, <1>5, <1>6, <1>7 DEF IInv

(* The id drawn is greater than every id drawn before it. *)
LEMMA DrawIdStep ==
  ASSUME IInv, TypeOK', NEW c \in Callers, DrawId(c)
  PROVE  IInv'
<1> USE MaxIdAssumption
<1>0. TypeOK /\ IdsDrawn
  BY DEF IInv
<1>1. InFlight' = InFlight /\ suspect' = suspect
  BY <1>0 DEF DrawId, InFlight, TypeOK
<1>2. /\ pc[c] = "insert" /\ pc'[c] = "commit" /\ row_id'[c] = next_id
      /\ next_id \in Ids /\ next_id' = next_id + 1
      /\ \A d \in Callers : d # c => pc'[d] = pc[d] /\ row_id'[d] = row_id[d]
      /\ UNCHANGED <<audit_logs, prev_hash, excused>>
  BY <1>0 DEF DrawId, TypeOK, Ids
<1>3. Alone'
  BY <1>1 DEF IInv, Alone
<1>4. StillNewest' /\ NothingLater'
  BY <1>0, <1>1, <1>2 DEF IInv, StillNewest, NothingLater, InFlight, IdsDrawn
<1>5. IdsDrawn'
  BY <1>0, <1>2 DEF IdsDrawn, Ids, TypeOK
<1>6. LateOnlyBeforeExcused'
  BY <1>0, <1>2 DEF IInv, LateOnlyBeforeExcused, IdsDrawn, TypeOK, Ids
<1>7. ReadIsCommitted'
  BY <1>0, <1>2 DEF IInv, ReadIsCommitted, IdsDrawn
<1>8. HasNewest' /\ BreaksAreExcused' /\ LinksPointBack'
  BY <1>2 DEF IInv, HasNewest, BreaksAreExcused, BrokenLinks, LinksPointBack
<1> QED
  BY <1>3, <1>4, <1>5, <1>6, <1>7, <1>8 DEF IInv

(* A failed insert leaves the table alone and takes the caller out. *)
LEMMA InsertFailsStep ==
  ASSUME IInv, TypeOK', NEW c \in Callers, InsertFails(c)
  PROVE  IInv'
<1>0. TypeOK
  BY DEF IInv
<1>1. InFlight' = InFlight \ {c} /\ suspect' = suspect \ {c}
  BY <1>0 DEF InsertFails, Return, InFlight, TypeOK
<1>2. /\ pc'[c] = "idle"
      /\ \A d \in Callers : d # c =>
           pc'[d] = pc[d] /\ prev_hash'[d] = prev_hash[d] /\ row_id'[d] = row_id[d]
      /\ UNCHANGED <<audit_logs, next_id, excused>>
  BY <1>0 DEF InsertFails, Return, TypeOK
<1>3. Alone'
  BY <1>1 DEF IInv, Alone
<1>4. StillNewest' /\ NothingLater'
  BY <1>1, <1>2 DEF IInv, StillNewest, NothingLater, InFlight
<1>5. IdsDrawn' /\ LateOnlyBeforeExcused'
  BY <1>2 DEF IInv, IdsDrawn, LateOnlyBeforeExcused
<1>6. ReadIsCommitted'
  BY <1>2 DEF IInv, ReadIsCommitted
<1>7. HasNewest' /\ BreaksAreExcused' /\ LinksPointBack'
  BY <1>2 DEF IInv, HasNewest, BreaksAreExcused, BrokenLinks, LinksPointBack
<1> QED
  BY <1>3, <1>4, <1>5, <1>6, <1>7 DEF IInv
(***************************************************************************)
(* The step that changes the table.  A row of a caller that is not suspect *)
(* goes to the end and links to the row that was last when it was read; a  *)
(* row before the new one keeps its predecessor; a row after it is excused *)
(* already.                                                                *)
(***************************************************************************)
LEMMA CommitInsertStep ==
  ASSUME IInv, TypeOK', NEW c \in Callers, CommitInsert(c)
  PROVE  IInv'
<1> USE MaxIdAssumption
<1> DEFINE r == row_id[c]
<1>0. TypeOK /\ IdsDrawn /\ HasNewest
  BY DEF IInv
<1>1. /\ pc[c] = "commit" /\ Return(c) /\ next_id' = next_id
      /\ r \in Ids /\ r < next_id /\ r \notin DOMAIN audit_logs
      /\ c \in InFlight
  BY <1>0 DEF CommitInsert, IdsDrawn, InFlight
<1>2. /\ DOMAIN audit_logs' = DOMAIN audit_logs \cup {r}
      /\ audit_logs'[r] = NewRow(c)
      /\ \A i \in DOMAIN audit_logs : audit_logs'[i] = audit_logs[i]
  BY <1>1 DEF CommitInsert
<1>3. excused' = IF c \in suspect THEN excused \cup {r} ELSE excused
  BY DEF CommitInsert
<1>4. /\ InFlight' = InFlight \ {c} /\ suspect' = suspect \ {c}
      /\ pc'[c] = "idle"
      /\ \A d \in Callers : d # c =>
           pc'[d] = pc[d] /\ prev_hash'[d] = prev_hash[d] /\ row_id'[d] = row_id[d]
  BY <1>0, <1>1 DEF Return, InFlight, TypeOK
<1>5. DOMAIN audit_logs \subseteq Nat /\ r \in Nat
  BY <1>0, <1>1 DEF TypeOK, Ids
<1>6. \A d \in InFlight : d # c => c \in suspect /\ d \in suspect
  BY <1>1 DEF IInv, Alone
<1>7. Alone' /\ StillNewest' /\ NothingLater'
  BY <1>4, <1>6 DEF Alone, StillNewest, NothingLater
<1>8. IdsDrawn'
  <2>1. \A i \in DOMAIN audit_logs' : i < next_id'
    BY <1>0, <1>1, <1>2 DEF IdsDrawn
  <2>2. \A d \in Callers : pc'[d] = "commit" => row_id'[d] \in Ids /\ row_id'[d] < next_id'
                                                /\ row_id'[d] \notin DOMAIN audit_logs'
    BY <1>0, <1>1, <1>2, <1>4 DEF IdsDrawn
  <2>3. \A d, f \in Callers :
          pc'[d] = "commit" /\ pc'[f] = "commit" /\ d # f => row_id'[d] # row_id'[f]
    BY <1>0, <1>4 DEF IdsDrawn
  <2> QED
    BY <2>1, <2>2, <2>3 DEF IdsDrawn
<1>9. LateOnlyBeforeExcused'
  <2> SUFFICES ASSUME NEW d \in Callers, pc'[d] = "commit",
                      NEW i \in DOMAIN audit_logs', row_id'[d] < i
               PROVE  i \in excused'
    BY DEF LateOnlyBeforeExcused
  <2>1. d # c /\ pc[d] = "commit" /\ row_id[d] < i /\ d \in InFlight
    BY <1>4 DEF InFlight
  <2>2. CASE i = r
    BY <2>1, <2>2, <1>3, <1>6
  <2>3. CASE i \in DOMAIN audit_logs
    BY <2>1, <2>3, <1>3 DEF IInv, LateOnlyBeforeExcused
  <2> QED
    BY <2>2, <2>3, <1>2
<1>10. HasNewest'
  <2>1. CASE \A k \in DOMAIN audit_logs : k <= r
    BY <2>1, <1>2, <1>5 DEF HasNewest
  <2>2. CASE \E k \in DOMAIN audit_logs : ~ k <= r
    <3>1. PICK n \in DOMAIN audit_logs : \A k \in DOMAIN audit_logs : k <= n
      BY <2>2, <1>0 DEF HasNewest
    <3>2. r <= n
      BY <3>1, <2>2, <1>5
    <3> QED
      BY <3>1, <3>2, <1>2 DEF HasNewest
  <2> QED
    BY <2>1, <2>2
<1>11. ReadIsCommitted'
  BY <1>2, <1>4 DEF IInv, ReadIsCommitted
<1>12. LinksPointBack'
  <2>1. /\ audit_logs'[r].chain_hash = ChainHmac(audit_logs'[r].prev_hash, audit_logs'[r].entry)
        /\ audit_logs'[r].prev_hash = prev_hash[c]
    BY <1>2 DEF NewRow
  <2>2. prev_hash[c] # None =>
          \E j \in DOMAIN audit_logs : j < r /\ audit_logs[j].chain_hash = prev_hash[c]
    BY <1>1 DEF IInv, ReadIsCommitted
  <2> QED
    BY <2>1, <2>2, <1>2 DEF IInv, LinksPointBack
<1>13. BreaksAreExcused'
  <2> SUFFICES ASSUME NEW i \in DOMAIN audit_logs', ~LinkHolds(audit_logs', i)
               PROVE  i \in excused'
    BY DEF BreaksAreExcused, BrokenLinks
  <2>1. CASE i = r /\ c \in suspect
    BY <2>1, <1>3
  <2>2. ASSUME i = r, c \notin suspect
        PROVE  LinkHolds(audit_logs', r)
    <3>1. \A k \in DOMAIN audit_logs : k < r
      BY <2>2, <1>1 DEF IInv, NothingLater
    <3>2. prev_hash[c] = LastChainHash(audit_logs)
      BY <2>2, <1>1 DEF IInv, StillNewest
    <3>3. /\ audit_logs'[r].entry = entry_data[c]
          /\ audit_logs'[r].chain_hash = ChainHmac(prev_hash[c], entry_data[c])
      BY <1>2 DEF NewRow
    <3>4. CASE DOMAIN audit_logs = {}
      <4>1. \A j \in DOMAIN audit_logs' : ~ j < r
        BY <3>4, <1>2, <1>5
      <4>2. prev_hash[c] = None
        BY <3>2, <3>4, LastChainHashEmpty
      <4> QED
        BY <4>1, <4>2, <3>3 DEF LinkHolds
    <3>5. CASE DOMAIN audit_logs # {}
      <4>1. PICK n \in DOMAIN audit_logs : \A k \in DOMAIN audit_logs : k <= n
        BY <3>5, <1>0 DEF HasNewest
      <4>2. prev_hash[c] = audit_logs[n].chain_hash
        BY <4>1, <3>2, <1>0, LastChainHashIs DEF TypeOK
      <4>3. IsPred(audit_logs', n, r)
        BY <4>1, <3>1, <1>2, <1>5 DEF IsPred
      <4> QED
        BY <4>1, <4>2, <4>3, <3>3, <1>2 DEF LinkHolds
    <3> QED
      BY <3>4, <3>5
  <2>3. ASSUME i \in DOMAIN audit_logs, i < r
        PROVE  i \in BrokenLinks(audit_logs)
    <3> SUFFICES ASSUME LinkHolds(audit_logs, i)
                 PROVE  LinkHolds(audit_logs', i)
      BY <2>3 DEF BrokenLinks
    <3>1. audit_logs'[i] = audit_logs[i]
      BY <2>3, <1>2
    <3>2. \A k \in DOMAIN audit_logs' : k < i => k \in DOMAIN audit_logs
      BY <2>3, <1>2, <1>5
    <3>3. ASSUME NEW j \in DOMAIN audit_logs, IsPred(audit_logs, j, i)
          PROVE  IsPred(audit_logs', j, i) /\ audit_logs'[j] = audit_logs[j]
      BY <3>2, <3>3, <1>2 DEF IsPred
    <3>4. CASE \A j \in DOMAIN audit_logs : ~ j < i
      BY <3>1, <3>2, <3>4 DEF LinkHolds, IsPred
    <3>5. CASE \E j \in DOMAIN audit_logs : IsPred(audit_logs, j, i) /\
                 audit_logs[i].chain_hash = ChainHmac(audit_logs[j].chain_hash, audit_logs[i].entry)
      <4>1. PICK j \in DOMAIN audit_logs : IsPred(audit_logs, j, i) /\
                 audit_logs[i].chain_hash = ChainHmac(audit_logs[j].chain_hash, audit_logs[i].entry)
        BY <3>5
      <4>2. j \in DOMAIN audit_logs' /\ IsPred(audit_logs', j, i) /\ audit_logs'[j] = audit_logs[j]
        BY <4>1, <3>3, <1>2
      <4> QED
        BY <4>1, <4>2, <3>1 DEF LinkHolds
    <3> QED
      BY <3>4, <3>5 DEF LinkHolds
  <2>4. CASE i \in DOMAIN audit_logs /\ i < r
    BY <2>3, <2>4, <1>3 DEF IInv, BreaksAreExcused
  <2>5. CASE i \in DOMAIN audit_logs /\ r < i
    BY <2>5, <1>1, <1>3 DEF IInv, LateOnlyBeforeExcused
  <2> QED
    BY <2>1, <2>2, <2>4, <2>5, <1>1, <1>2, <1>5
<1> QED
  BY <1>7, <1>8, <1>9, <1>10, <1>11, <1>12, <1>13 DEF IInv

-----------------------------------------------------------------------------
LEMMA NextIInv == IInv /\ [Next]_vars => IInv'
<1> SUFFICES ASSUME IInv, [Next]_vars
             PROVE  IInv'
  OBVIOUS
<1>1. TypeOK'
  BY TypeStep
<1>2. CASE Next
  BY <1>1, <1>2, CallStep, ReadLastHashStep, ReadLastHashFailsStep, DrawIdStep,
     CommitInsertStep, InsertFailsStep DEF Next
<1>3. CASE UNCHANGED vars
  <2>1. InFlight' = InFlight
    BY <1>3 DEF vars, InFlight
  <2> QED
    BY <1>1, <1>3, <2>1 DEF vars, IInv, Alone, StillNewest, IdsDrawn, NothingLater,
       LateOnlyBeforeExcused, HasNewest, ReadIsCommitted, BreaksAreExcused, BrokenLinks,
       LinksPointBack
<1> QED
  BY <1>2, <1>3

(* The strengthened invariant of the audit log. *)
THEOREM Invariance == Spec => []IInv
  BY InitIInv, NextIInv, PTL DEF Spec

(* Every variable of the model of log_audit keeps its type. *)
THEOREM TypeCorrect == Spec => []TypeOK
<1>1. IInv => TypeOK
  BY DEF IInv
<1> QED
  BY <1>1, Invariance, PTL

(* verify_audit_chain finds a broken link only at a row whose log_audit    *)
(* call overlapped another or failed to read the newest hash.              *)
THEOREM BreaksExcused == Spec => []BreaksAreExcused
<1>1. IInv => BreaksAreExcused
  BY DEF IInv
<1> QED
  BY <1>1, Invariance, PTL

(* Every prev_hash written by log_audit is the hash of an earlier row. *)
THEOREM LinksBack == Spec => []LinksPointBack
<1>1. IInv => LinksPointBack
  BY DEF IInv
<1> QED
  BY <1>1, Invariance, PTL

-----------------------------------------------------------------------------
(***************************************************************************)
(* What verification finds.  A hash determines what it was computed from,  *)
(* so a row fits at most one predecessor's hash and one entry; and along a *)
(* chain that verifies the hashes get longer, so no two rows share one.    *)
(***************************************************************************)
LEMMA HashesDiffer ==
  ASSUME NEW g \in Hashes \cup {None}, NEW d \in Entries,
         NEW h \in Hashes \cup {None}, NEW e \in Entries
  PROVE  /\ ChainHmac(g, d) = ChainHmac(h, e) => d = e
         /\ g # None /\ h # None /\ ChainHmac(g, d) = ChainHmac(h, e) => g = h
         /\ ChainHmac(g, d) # None
         /\ Len(ChainHmac(g, d)) = IF g = None THEN 1 ELSE Len(g) + 1
<1> DEFINE s == IF g = None THEN GENESIS ELSE g
           t == IF h = None THEN GENESIS ELSE h
<1>1. s \in Seq(Entries) /\ t \in Seq(Entries)
  BY DEF Hashes, GENESIS
<1>2. ChainHmac(g, d) = Append(s, d) /\ ChainHmac(h, e) = Append(t, e)
  BY DEF ChainHmac
<1>3. Append(s, d) = Append(t, e) <=> s = t /\ d = e
  <2> HIDE DEF s, t
  <2> QED
    BY <1>1, AppendInjective
<1>4. Append(s, d) \in Seq(Entries) /\ Len(Append(s, d)) = Len(s) + 1
  <2> HIDE DEF s
  <2>1. \A S : \A x \in Seq(S), a \in S : Append(x, a) \in Seq(S) /\ Len(Append(x, a)) = Len(x) + 1
    BY AppendProperties
  <2> QED
    BY <1>1, <2>1, Zenon
<1>5. g = None => Len(s) = 0
  BY DEF GENESIS
<1>6. Len(ChainHmac(g, d)) = IF g = None THEN 1 ELSE Len(g) + 1
  <2>1. CASE g = None
    BY <1>2, <1>4, <1>5, <2>1
  <2>2. CASE g # None
    BY <1>2, <1>4, <2>2
  <2> QED
    BY <2>1, <2>2
<1> HIDE DEF s, t
<1>7. ChainHmac(g, d) # None
  BY <1>2, <1>4, NoneAssumption
<1>8. ChainHmac(g, d) = ChainHmac(h, e) => d = e /\ s = t
  BY <1>2, <1>3
<1>9. g # None /\ h # None => s = g /\ t = h
  BY DEF s, t
<1> QED
  BY <1>6, <1>7, <1>8, <1>9

(* a table as audit_logs may be *)
IsLog(log) == DOMAIN log \subseteq Ids /\ \A i \in DOMAIN log : log[i] \in Row

(* what the row before i hashes to, if there is one *)
LEMMA LinkMeans ==
  ASSUME NEW log, IsLog(log), NEW i \in DOMAIN log
  PROVE  /\ \A j \in DOMAIN log : IsPred(log, j, i) =>
              (LinkHolds(log, i) <=> log[i].chain_hash = ChainHmac(log[j].chain_hash, log[i].entry))
         /\ (\A j \in DOMAIN log : ~ j < i) =>
              (LinkHolds(log, i) <=> log[i].chain_hash = ChainHmac(None, log[i].entry))
         /\ LinkHolds(log, i) =>
              (\E j \in DOMAIN log : IsPred(log, j, i)) \/ \A j \in DOMAIN log : ~ j < i
<1>1. DOMAIN log \subseteq Nat
  BY DEF IsLog, Ids
<1>2. \A j, k \in DOMAIN log : IsPred(log, j, i) /\ IsPred(log, k, i) => j = k
  BY <1>1 DEF IsPred
<1>3. \A j \in DOMAIN log : IsPred(log, j, i) => j < i
  BY DEF IsPred
<1> QED
  BY <1>2, <1>3 DEF LinkHolds

(* the report names the only broken link *)
LEMMA OnlyBreak ==
  ASSUME NEW log, NEW i, BrokenLinks(log) = {i}, i \in Nat
  PROVE  BrokenAt(log) = i
<1>1. \A k \in BrokenLinks(log) : i <= k
  OBVIOUS
<1> DEFINE first == CHOOSE m \in BrokenLinks(log) : \A k \in BrokenLinks(log) : m <= k
<1>2. first \in BrokenLinks(log)
  BY <1>1
<1>3. BrokenAt(log) = first
  BY DEF BrokenAt, Valid
<1> QED
  BY <1>2, <1>3

LEMMA AlteredIsFound ==
  ASSUME NEW log, IsLog(log), Valid(log), NEW i \in DOMAIN log,
         NEW e \in Entries \ {log[i].entry}
  PROVE  BrokenAt(Altered(log, i, e)) = i
<1> DEFINE new == Altered(log, i, e)
<1>1. /\ DOMAIN new = DOMAIN log /\ i \in Nat
      /\ \A k \in DOMAIN log : log[k].entry \in Entries /\ log[k].chain_hash \in Hashes
  BY DEF Altered, IsLog, Row, Ids
<1>2. \A k \in DOMAIN log : new[k].chain_hash = log[k].chain_hash
  BY DEF Altered, IsLog, Row
<1>3. new[i].entry = e /\ \A k \in DOMAIN log : k # i => new[k].entry = log[k].entry
  BY DEF Altered, IsLog, Row
<1>4. IsLog(new)
  <2>1. \A k \in DOMAIN log : new[k] \in Row
    BY DEF Altered, IsLog, Row
  <2> QED
    BY <1>1, <2>1 DEF IsLog
<1> HIDE DEF new
<1>5. \A j, k \in DOMAIN log : IsPred(new, j, k) <=> IsPred(log, j, k)
  BY <1>1 DEF IsPred
<1>6. \A k \in DOMAIN log : LinkHolds(log, k)
  BY DEF Valid, BrokenLinks
<1>7. ASSUME NEW k \in DOMAIN log, k # i PROVE LinkHolds(new, k)
  <2>1. new[k].chain_hash = log[k].chain_hash /\ new[k].entry = log[k].entry
    BY <1>2, <1>3, <1>7
  <2> QED
    BY <1>1, <1>2, <1>5, <1>6, <2>1 DEF LinkHolds
<1>8. ~LinkHolds(new, i)
  <2>1. CASE \E j \in DOMAIN log : IsPred(log, j, i)
    <3>1. PICK j \in DOMAIN log : IsPred(log, j, i)
      BY <2>1
    <3>2. log[i].chain_hash = ChainHmac(log[j].chain_hash, log[i].entry)
      BY <1>6, <3>1, LinkMeans
    <3>3. ChainHmac(log[j].chain_hash, log[i].entry) # ChainHmac(log[j].chain_hash, e)
      BY <1>1, HashesDiffer
    <3> QED
      BY <1>1, <1>2, <1>3, <1>4, <1>5, <3>1, <3>2, <3>3, LinkMeans
  <2>2. CASE \A j \in DOMAIN log : ~ j < i
    <3>1. log[i].chain_hash = ChainHmac(None, log[i].entry)
      BY <1>6, <2>2, LinkMeans
    <3>2. ChainHmac(None, log[i].entry) # ChainHmac(None, e)
      BY <1>1, HashesDiffer
    <3> QED
      BY <1>1, <1>2, <1>3, <1>4, <2>2, <3>1, <3>2, LinkMeans
  <2> QED
    BY <1>6, <2>1, <2>2, LinkMeans
<1>9. BrokenLinks(new) = {i}
  BY <1>1, <1>7, <1>8 DEF BrokenLinks
<1> QED
  BY <1>1, <1>9, OnlyBreak DEF new

LEMMA RemovalIsFound ==
  ASSUME NEW log, IsLog(log), Valid(log), NEW i \in DOMAIN log, NEW k \in DOMAIN log,
         IsPred(log, i, k)
  PROVE  BrokenAt(Removed(log, i)) = k
<1> DEFINE new == Removed(log, i)
<1>1. /\ DOMAIN new = DOMAIN log \ {i} /\ \A m \in DOMAIN new : new[m] = log[m]
      /\ DOMAIN log \subseteq Nat
      /\ \A m \in DOMAIN log : log[m].entry \in Entries /\ log[m].chain_hash \in Hashes
  BY DEF Removed, IsLog, Row, Ids
<1>2. IsLog(new)
  BY <1>1 DEF IsLog
<1> HIDE DEF new
<1>3. \A m \in DOMAIN log : LinkHolds(log, m)
  BY DEF Valid, BrokenLinks
<1>4. i < k /\ k \in DOMAIN new
  BY <1>1 DEF IsPred
<1>5. ASSUME NEW m \in DOMAIN new, m # k PROVE LinkHolds(new, m)
  <2>1. m \in DOMAIN log /\ new[m] = log[m]
    BY <1>1
  <2>2. CASE \E j \in DOMAIN log : IsPred(log, j, m)
    <3>1. PICK j \in DOMAIN log : IsPred(log, j, m)
      BY <2>2
    <3>2. j # i
      <4>1. m < k \/ k < m
        BY <1>1, <1>4, <1>5
      <4> QED
        BY <1>1, <1>4, <2>1, <3>1, <4>1 DEF IsPred
    <3>3. j \in DOMAIN new /\ IsPred(new, j, m) /\ new[j] = log[j]
      BY <1>1, <3>1, <3>2 DEF IsPred
    <3>4. log[m].chain_hash = ChainHmac(log[j].chain_hash, log[m].entry)
      BY <1>3, <2>1, <3>1, LinkMeans
    <3> QED
      BY <1>2, <2>1, <3>3, <3>4, LinkMeans
  <2>3. CASE \A j \in DOMAIN log : ~ j < m
    <3>1. log[m].chain_hash = ChainHmac(None, log[m].entry)
      BY <1>3, <2>1, <2>3, LinkMeans
    <3> QED
      BY <1>1, <1>2, <2>1, <2>3, <3>1, LinkMeans
  <2> QED
    BY <1>3, <2>1, <2>2, <2>3, LinkMeans
<1>6. ~LinkHolds(new, k)
  <2> DEFINE h == log[i].chain_hash
  <2>1. log[k].chain_hash = ChainHmac(h, log[k].entry) /\ new[k] = log[k]
    BY <1>1, <1>3, <1>4, LinkMeans
  <2>2. CASE \E j \in DOMAIN log : IsPred(log, j, i)
    <3>1. PICK j \in DOMAIN log : IsPred(log, j, i)
      BY <2>2
    <3>2. j \in DOMAIN new /\ IsPred(new, j, k) /\ new[j] = log[j]
      <4>1. j < i /\ j \in DOMAIN new /\ j < k
        BY <1>1, <1>4, <3>1 DEF IsPred
      <4>2. \A m \in DOMAIN new : m < k => m <= j
        BY <1>1, <1>4, <3>1 DEF IsPred
      <4> QED
        BY <1>1, <4>1, <4>2 DEF IsPred
    <3>3. h = ChainHmac(log[j].chain_hash, log[i].entry)
      BY <1>3, <3>1, LinkMeans
    <3>4. Len(h) = Len(log[j].chain_hash) + 1 /\ log[j].chain_hash # None /\ h # None
      BY <1>1, <3>3, HashesDiffer, NoneAssumption DEF Hashes
    <3>5. h # log[j].chain_hash
      <4>1. Len(log[j].chain_hash) \in Nat
        BY <1>1, LenProperties DEF Hashes
      <4> QED
        BY <3>4, <4>1
    <3>6. ChainHmac(h, log[k].entry) # ChainHmac(log[j].chain_hash, log[k].entry)
      BY <1>1, <3>4, <3>5, HashesDiffer
    <3> QED
      BY <1>2, <1>4, <2>1, <3>2, <3>6, LinkMeans
  <2>3. CASE \A j \in DOMAIN log : ~ j < i
    <3>1. \A j \in DOMAIN new : ~ j < k
      BY <1>1, <1>4, <2>3 DEF IsPred
    <3>2. h = ChainHmac(None, log[i].entry)
      BY <1>3, <2>3, LinkMeans
    <3>3. Len(h) = 1 /\ h # None
      BY <1>1, <3>2, HashesDiffer
    <3>4. h \in Hashes /\ log[k].entry \in Entries
      BY <1>1
    <3>5. Len(ChainHmac(h, log[k].entry)) = 2
      <4>1. Len(ChainHmac(h, log[k].entry)) = IF h = None THEN 1 ELSE Len(h) + 1
        BY <3>4, HashesDiffer
      <4> QED
        BY <3>3, <4>1
    <3>6. Len(ChainHmac(None, log[k].entry)) = 1
      BY <3>4, HashesDiffer
    <3>7. log[k].chain_hash # ChainHmac(None, log[k].entry)
      BY <2>1, <3>5, <3>6
    <3> QED
      BY <1>2, <1>4, <2>1, <3>1, <3>7, LinkMeans
  <2> QED
    BY <1>3, <2>2, <2>3, LinkMeans
<1>7. BrokenLinks(new) = {k}
  BY <1>4, <1>5, <1>6 DEF BrokenLinks
<1> QED
  BY <1>1, <1>7, OnlyBreak DEF new

(* verify_audit_chain on a table somebody edited: it reports the row that   *)
(* was changed, or the one that followed the row that was removed.          *)
THEOREM Tampering == Spec => []TamperingIsLocated
<1>1. ASSUME TypeOK PROVE TamperingIsLocated
  <2>1. IsLog(audit_logs)
    BY <1>1 DEF TypeOK, IsLog
  <2> QED
    BY <2>1, AlteredIsFound, RemovalIsFound DEF TamperingIsLocated
<1> QED
  BY <1>1, TypeCorrect, PTL

LEMMA LengthsGrow ==
  ASSUME NEW log, IsLog(log), Valid(log),
         NEW x \in DOMAIN log, NEW y \in DOMAIN log, x < y
  PROVE  Len(log[x].chain_hash) < Len(log[y].chain_hash)
<1> DEFINE Length(i) == Len(log[i].chain_hash)
           S == {b \in DOMAIN log : \E a \in DOMAIN log : a < b /\ ~(Length(a) < Length(b))}
<1>1. /\ DOMAIN log \subseteq Nat
      /\ \A m \in DOMAIN log :
           log[m].entry \in Entries /\ log[m].chain_hash \in Hashes /\ Length(m) \in Nat
  BY LenProperties DEF IsLog, Row, Ids, Hashes
<1>2. \A m \in DOMAIN log : LinkHolds(log, m)
  BY DEF Valid, BrokenLinks
<1>3. ASSUME S # {} PROVE FALSE
  <2>1. S \in SUBSET Nat
    BY <1>1
  <2>2. PICK b \in S : \A m \in S : b <= m
    BY <1>3, <2>1, LeastNatural
  <2>3. PICK a \in DOMAIN log : a < b /\ ~(Length(a) < Length(b))
    BY <2>2
  <2>4. b \in DOMAIN log
    BY <2>2
  <2>5. PICK p \in DOMAIN log : IsPred(log, p, b)
    BY <1>2, <2>3, <2>4, LinkMeans
  <2>6. p < b /\ a <= p
    BY <2>3, <2>5 DEF IsPred
  <2>7. Length(b) = Length(p) + 1
    <3>1. log[b].chain_hash = ChainHmac(log[p].chain_hash, log[b].entry)
      BY <1>2, <2>4, <2>5, LinkMeans
    <3>2. log[p].chain_hash # None /\ log[p].chain_hash \in Hashes /\ log[b].entry \in Entries
      BY <1>1, <2>4, NoneAssumption DEF Hashes
    <3>3. Len(ChainHmac(log[p].chain_hash, log[b].entry)) =
            IF log[p].chain_hash = None THEN 1 ELSE Len(log[p].chain_hash) + 1
      BY <3>2, HashesDiffer
    <3> QED
      BY <3>1, <3>2, <3>3
  <2>8. CASE a = p
    BY <1>1, <2>3, <2>7, <2>8
  <2>9. CASE a # p
    <3>1. a < p /\ p \notin S
      BY <1>1, <2>1, <2>2, <2>4, <2>6, <2>9
    <3>2. Length(a) < Length(p)
      BY <3>1
    <3> QED
      BY <1>1, <2>3, <2>4, <2>7, <3>2
  <2> QED
    BY <2>8, <2>9
<1> QED
  BY <1>3

(* A row that commits late repairs no broken link: it would have to hash   *)
(* to what a row before it hashes to already.                              *)
LEMMA LateRowRepairsNothing ==
  ASSUME IInv, TypeOK', NEW c \in Callers, CommitInsert(c), Valid(audit_logs')
  PROVE  Valid(audit_logs)
<1> DEFINE r == row_id[c]
           old == audit_logs
           new == audit_logs'
<1>1. /\ pc[c] = "commit" /\ r \in Ids /\ r \notin DOMAIN old
      /\ IsLog(old) /\ IsLog(new)
  BY DEF IInv, CommitInsert, IdsDrawn, TypeOK, IsLog
<1>2. DOMAIN new = DOMAIN old \cup {r} /\ \A i \in DOMAIN old : new[i] = old[i]
  BY <1>1 DEF CommitInsert
<1>3. /\ DOMAIN new \subseteq Nat
      /\ \A m \in DOMAIN new : new[m].entry \in Entries /\ new[m].chain_hash \in Hashes
                               /\ new[m].chain_hash # None
  BY <1>1, NoneAssumption DEF IsLog, Ids, Row, Hashes
<1>4. /\ \A m \in DOMAIN new : LinkHolds(new, m)
      /\ \A x, y \in DOMAIN new : x < y => Len(new[x].chain_hash) < Len(new[y].chain_hash)
  BY <1>1, LengthsGrow DEF Valid, BrokenLinks
<1>5. Len(new[r].chain_hash) > 0 /\ Len(new[r].chain_hash) \in Nat
  <2>1. r \in DOMAIN new /\ Len(new[r].chain_hash) \in Nat
    BY <1>2, <1>3, LenProperties DEF Hashes
  <2>2. new[r].chain_hash = ChainHmac(prev_hash[c], entry_data[c])
    BY <1>1 DEF CommitInsert, NewRow
  <2>3. prev_hash[c] \in Hashes \cup {None} /\ entry_data[c] \in Entries
    BY <1>1 DEF IInv, TypeOK, InFlight
  <2>4. Len(ChainHmac(prev_hash[c], entry_data[c])) =
          IF prev_hash[c] = None THEN 1 ELSE Len(prev_hash[c]) + 1
    BY <2>3, HashesDiffer
  <2>5. prev_hash[c] # None => Len(prev_hash[c]) \in Nat
    BY <2>3, LenProperties DEF Hashes
  <2> QED
    BY <2>1, <2>2, <2>4, <2>5
<1> SUFFICES ASSUME NEW i \in DOMAIN old PROVE LinkHolds(old, i)
  BY DEF Valid, BrokenLinks
<1>6. i \in DOMAIN new /\ new[i] = old[i] /\ LinkHolds(new, i)
  BY <1>2, <1>4
<1> HIDE DEF new, old, r
<1>7. CASE \A j \in DOMAIN new : ~ j < i
  BY <1>1, <1>2, <1>6, <1>7, LinkMeans
<1>8. CASE \E j \in DOMAIN new : j # r /\ IsPred(new, j, i)
  <2>1. PICK j \in DOMAIN new : j # r /\ IsPred(new, j, i)
    BY <1>8
  <2>2. j \in DOMAIN old /\ IsPred(old, j, i) /\ new[j] = old[j]
    BY <1>2, <2>1 DEF IsPred
  <2> QED
    BY <1>1, <1>6, <2>1, <2>2, LinkMeans
<1>9. ASSUME r \in DOMAIN new, IsPred(new, r, i) PROVE FALSE
  <2>1. new[i].chain_hash = ChainHmac(new[r].chain_hash, new[i].entry)
    BY <1>1, <1>6, <1>9, LinkMeans
  <2>2. /\ old[i].chain_hash = ChainHmac(old[i].prev_hash, old[i].entry)
        /\ old[i].prev_hash # None =>
             \E j \in DOMAIN old : j < i /\ old[j].chain_hash = old[i].prev_hash
        /\ old[i].prev_hash \in Hashes \cup {None}
    BY <1>1 DEF IInv, LinksPointBack, IsLog, Row, old
  <2>3. old[i].prev_hash # None
    <3>1. Len(ChainHmac(new[r].chain_hash, new[i].entry)) = Len(new[r].chain_hash) + 1
      BY <1>3, <1>6, <1>9, HashesDiffer
    <3>2. Len(ChainHmac(None, new[i].entry)) = 1
      BY <1>3, <1>6, HashesDiffer
    <3>3. ChainHmac(new[r].chain_hash, new[i].entry) # ChainHmac(None, new[i].entry)
      <4>1. Len(ChainHmac(new[r].chain_hash, new[i].entry)) # 1
        BY <1>5, <3>1
      <4> QED
        BY <3>2, <4>1
    <3>4. old[i].chain_hash = ChainHmac(new[r].chain_hash, new[i].entry)
      BY <1>6, <2>1
    <3>5. old[i].entry = new[i].entry
      BY <1>6
    <3> QED
      BY <2>2, <3>3, <3>4, <3>5
  <2>4. old[i].prev_hash = new[r].chain_hash
    BY <1>3, <1>6, <1>9, <2>1, <2>2, <2>3, HashesDiffer
  <2>5. PICK j \in DOMAIN old : j < i /\ old[j].chain_hash = new[r].chain_hash
    BY <2>2, <2>3, <2>4
  <2>6. j \in DOMAIN new /\ j < r /\ new[j].chain_hash = new[r].chain_hash
    <3>1. j \in DOMAIN new /\ j # r /\ j <= r
      BY <1>1, <1>2, <1>9, <2>5 DEF IsPred
    <3> QED
      BY <1>2, <1>3, <1>9, <2>5, <3>1
  <2> QED
    BY <1>4, <1>5, <1>9, <2>6
<1> QED
  BY <1>1, <1>6, <1>7, <1>8, <1>9, LinkMeans

(* log_audit never repairs a chain that verify_audit_chain reports broken. *)
THEOREM BrokenForever == Spec => BreaksAreForever
<1>1. ASSUME IInv, TypeOK', [Next]_vars PROVE ~Valid(audit_logs) => ~Valid(audit_logs')
  <2>1. CASE UNCHANGED audit_logs
    BY <2>1 DEF Valid, BrokenLinks
  <2>2. ASSUME NEW c \in Callers, CommitInsert(c)
        PROVE  ~Valid(audit_logs) => ~Valid(audit_logs')
    BY <1>1, <2>2, LateRowRepairsNothing
  <2> QED
    BY <1>1, <2>1, <2>2 DEF Next, Call, ReadLastHash, ReadLastHashFails, DrawId, InsertFails, vars
<1>2. IInv => TypeOK
  BY DEF IInv
<1> QED
  BY <1>1, <1>2, Invariance, PTL DEF Spec, BreaksAreForever

-----------------------------------------------------------------------------
SessionKinds == {"create", "revoke", "revoke all", "validate", "cleanup"}
Revoking == {"get", "deactivate", "remove"}
SessionSteps ==
  {"idle", "store", "index", "members", "read", "next", "drop index", "look", "touch", "exists", "done"} \cup Revoking
SessionOps ==
  [kind : SessionKinds \cup {None}, sid : Nat, step : SessionSteps, left : SUBSET Nat, found : SUBSET Nat,
   after : Nat \cup {None}]

(* a call as it may be when n sessions have been made *)
Fits(call_of, n) ==
  /\ call_of \in SessionOps
  /\ call_of.left \cup call_of.found \subseteq 1..n
  /\ call_of.step \in {"store", "index"} => call_of.kind = "create" /\ call_of.sid \in 1..n
  /\ call_of.step \in {"look", "touch"} => call_of.kind = "validate" /\ call_of.sid \in 1..n
  /\ call_of.step = "members" => call_of.kind \in {"create", "revoke all", "cleanup"}
  /\ call_of.step = "read" => call_of.kind = "create"
  /\ call_of.step \in Revoking => call_of.after \in 1..n

SessionData ==
  /\ data \in [SessionIds -> BOOLEAN \cup {None}]
  /\ created \in 0..LastSession /\ index \subseteq 1..created
  /\ op \in [Operations -> SessionOps]
  /\ \A o \in Operations : Fits(op[o], created)

Met ==
  /\ \A pair \in alongside : \A o \in pair : o \in Operations /\ op[o].step # "idle"
  /\ \A r \in revoked : r \in Operations \X (1..created) /\ op[r[1]].step # "idle"
  /\ \A o, p \in Operations : o # p /\ Active(o) /\ Active(p) => {o, p} \in alongside

Unstored(s) == s > created \/ \E p \in Operations : op[p].step = "store" /\ op[p].sid = s

UnstoredIsUnseen ==
  \A s \in SessionIds : Unstored(s) =>
    /\ data[s] = None
    /\ \A r \in revoked : r[2] # s
    /\ \A q \in Operations : /\ op[q].step = "touch" => op[q].sid # s
                             /\ op[q].step = "deactivate" => op[q].after # s

StoredOnce ==
  \A p, q \in Operations :
    op[p].step = "store" /\ op[q].step = "store" /\ op[p].sid = op[q].sid => p = q

TouchedBeside ==
  \A r \in revoked : \A q \in Operations :
    op[q].step = "touch" /\ op[q].sid = r[2] => Alongside(r[1], "validate")

NewestIsOwn ==
  \A o \in Operations : Active(o) /\ op[o].kind = "create" =>
    created = op[o].sid \/ Alongside(o, "create")

(* unless the limit is 0, which takes every session *)
OwnIsSpared ==
  \A o \in Operations : MAX_CONCURRENT_SESSIONS # 0 /\ op[o].kind = "create" /\ op[o].step \in {"next"} \cup Revoking =>
    \/ op[o].sid \notin op[o].left /\ (op[o].step \in Revoking => op[o].after # op[o].sid)
    \/ Alongside(o, "create")

SInv ==
  /\ SessionData /\ Met /\ UnstoredIsUnseen /\ StoredOnce /\ TouchedBeside
  /\ RevokedStaysRevoked /\ NewestIsOwn /\ OwnIsSpared
  /\ MAX_CONCURRENT_SESSIONS # 0 => OwnSessionSurvives

-----------------------------------------------------------------------------
Halfway == {"revoke old", "make new"}
KeyRow == [row : BOOLEAN, active : BOOLEAN, expired : BOOLEAN, line : KeyIds \cup {None}]

KeyCallRecord ==
  [kind : {"create", "validate", "revoke", "rotate", None}, key : KeyIds \cup {None}, revoked : BOOLEAN,
   step : {"idle", "stamp", "revoke old", "make new", "done"}, outcome : {"made", "valid", "none", "error", None}]

KeyData ==
  /\ key \in [KeyIds -> KeyRow] /\ call \in [KeyCalls -> KeyCallRecord] /\ excused_lines \subseteq KeyIds
  /\ \A k \in KeyIds : key[k].row <=> key[k].line # None
  /\ \A k \in Rows : LineOf(k) \in Rows
  /\ \A c \in KeyCalls :
       /\ call[c].step \in Halfway =>
            call[c].key \in Rows /\ call[c].kind = "rotate" /\ call[c].outcome # "made"
       /\ call[c].step = "stamp" => call[c].kind = "validate"
       /\ call[c].kind = "validate" => call[c].revoked = FALSE

(* of a line that is not excused one rotation is under way at a time *)
OneRotation ==
  \A c, d \in KeyCalls :
    call[c].step \in Halfway /\ call[d].step \in Halfway /\ LineOf(call[c].key) = LineOf(call[d].key) =>
      c = d \/ LineOf(call[c].key) \in excused_lines

(* while it is, the key it began with is the only one that may be active, and none once it is revoked *)
OthersInactive ==
  \A c \in KeyCalls : \A k \in Rows :
    call[c].step \in Halfway /\ LineOf(call[c].key) = LineOf(k) /\ key[k].active =>
      LineOf(k) \in excused_lines \/ (call[c].step = "revoke old" /\ k = call[c].key)

BrokenOff(c, l) ==
  /\ call[c].step # "idle" /\ call[c].key \in Rows /\ LineOf(call[c].key) = l
  /\ call[c].kind \in {"revoke", "rotate"} /\ call[c].outcome # "made"

LineStands ==
  \A l \in Rows : \/ \E k \in Rows : LineOf(k) = LineOf(l) /\ key[k].active
                  \/ \E c \in KeyCalls : BrokenOff(c, LineOf(l))

KInv == KeyData /\ OneRotation /\ OthersInactive /\ OneActivePerLine /\ LineStands

CacheEntry == [value : Nat, expiry : Nat]

(* an entry of the cache: not older than what this process set, and if it was replaced, when *)
EntryOK(entry, p) ==
  entry # None =>
    /\ own[p] <= entry.value /\ 1 <= entry.value
    /\ \/ entry.value = vault[p] /\ entry.expiry <= moment + CacheTtl
       \/ /\ entry.value < vault[p] /\ replaced[p][entry.value] \in Nat
          /\ entry.expiry <= replaced[p][entry.value] + CacheTtl

VInv ==
  /\ moment \in 0..LastMoment /\ client \in BOOLEAN
  /\ vault \in [Paths -> 1..LastChange] /\ own \in [Paths -> Nat]
  /\ \A p \in Paths : own[p] <= vault[p]
  /\ replaced \in [Paths -> [1..LastChange -> Nat \cup {None}]]
  /\ secret_cache \in [Paths -> [Parts -> CacheEntry \cup {None}]]
  /\ \A p \in Paths : \A part \in Parts : EntryOK(secret_cache[p][part], p)

UserRow == [password : Passwords, role : Roles, active : BOOLEAN]

LoginRecord ==
  [step : {"new", "stamp", "done"}, email : Emails \cup {None}, password : Passwords \cup {None},
   user : [email : Emails, role : Roles] \cup {None}]

LetIn ==
  \A a \in Authentications :
    /\ authentication[a].step = "new" => authentication[a].user = None
    /\ authentication[a].user # None => fitted[a] = TRUE

UserData ==
  /\ user_edits \in 0..MaxUserEdits
  /\ account \in [Emails -> UserRow \cup {None}]
  /\ \A e \in retired : e \in Emails /\ account[e] # None /\ account[e].active = FALSE
  /\ DOMAIN fitted = Authentications
  /\ authentication \in [Authentications -> LoginRecord]

UInv == UserData /\ LetIn

-----------------------------------------------------------------------------
(* the others stay as they were *)
Turns(o) ==
  /\ op' \in [Operations -> SessionOps]
  /\ \A p \in Operations \ {o} : op'[p] = op[p]

LEMMA OpTurns ==
  ASSUME SInv, NEW o \in Operations, NEW r \in SessionOps, op' = [op EXCEPT ![o] = r]
  PROVE  Turns(o) /\ op'[o] = r
  BY DEF SInv, SessionData, Turns

LEMMA AlongsideStays ==
  ASSUME Met, \A p \in Operations : op[p].step # "idle" => op'[p].kind = op[p].kind,
         alongside \subseteq alongside', NEW o, NEW kind, Alongside(o, kind)
  PROVE  Alongside(o, kind)'
<1>1. PICK p \in Operations : op[p].kind = kind /\ {o, p} \in alongside
  BY DEF Alongside
<1>2. op[p].step # "idle"
  BY <1>1 DEF Met
<1> QED
  BY <1>1, <1>2 DEF Alongside

LEMMA QuietKeeps ==
  ASSUME SInv, NEW o \in Operations, NEW r, op' = [op EXCEPT ![o] = r],
         Active(o), op[o].step # "store", Fits(r, created), r.kind = op[o].kind, r.sid = op[o].sid,
         r.step \notin {"idle", "store"},
         r.step = "touch" =>
           ~Unstored(r.sid) /\ \A v \in revoked : v[2] = r.sid => Alongside(v[1], "validate"),
         r.step = "deactivate" => ~Unstored(r.after),
         MAX_CONCURRENT_SESSIONS # 0 /\ r.kind = "create" /\ r.step \in {"next"} \cup Revoking =>
           (r.sid \notin r.left /\ (r.step \in Revoking => r.after # r.sid)) \/ Alongside(o, "create"),
         index' \subseteq 1..created, UNCHANGED <<data, created, alongside, revoked>>
  PROVE  SInv'
<1>1. Turns(o) /\ op'[o] = r
  BY OpTurns DEF Fits
<1>2. op[o].step \notin {"idle", "done"}
  BY DEF Active
<1>3. \A p \in Operations :
        /\ op'[p].kind = op[p].kind /\ op'[p].sid = op[p].sid
        /\ op'[p].step = "idle" <=> op[p].step = "idle"
        /\ op'[p].step = "store" <=> op[p].step = "store"
        /\ Active(p)' => Active(p)
  BY <1>1, <1>2 DEF Turns, Active
<1>4. \A p, kind : Alongside(p, kind) => Alongside(p, kind)'
  BY <1>3, AlongsideStays DEF SInv
<1>5. \A s : Unstored(s)' <=> Unstored(s)
  BY <1>3 DEF Unstored
<1>6. SessionData'
  BY <1>1 DEF SInv, SessionData, Turns
<1>7. Met'
  BY <1>3 DEF SInv, Met
<1>8. UnstoredIsUnseen'
  <2> SUFFICES ASSUME NEW s \in SessionIds, Unstored(s)
               PROVE  /\ data[s] = None
                      /\ \A v \in revoked : v[2] # s
                      /\ \A q \in Operations : /\ op'[q].step = "touch" => op'[q].sid # s
                                               /\ op'[q].step = "deactivate" => op'[q].after # s
    BY <1>5 DEF UnstoredIsUnseen
  <2>1. /\ data[s] = None
        /\ \A v \in revoked : v[2] # s
        /\ \A q \in Operations : /\ op[q].step = "touch" => op[q].sid # s
                                 /\ op[q].step = "deactivate" => op[q].after # s
    BY DEF SInv, UnstoredIsUnseen
  <2> QED
    BY <1>1, <2>1 DEF Turns
<1>9. StoredOnce'
  BY <1>3 DEF SInv, StoredOnce
<1>10. TouchedBeside'
  <2> SUFFICES ASSUME NEW v \in revoked, NEW q \in Operations, op'[q].step = "touch", op'[q].sid = v[2]
               PROVE  Alongside(v[1], "validate")
    BY <1>4 DEF TouchedBeside
  <2> QED
    BY <1>1 DEF Turns, SInv, TouchedBeside
<1>11. RevokedStaysRevoked' /\ NewestIsOwn' /\ (MAX_CONCURRENT_SESSIONS # 0 => OwnSessionSurvives')
  BY <1>3, <1>4 DEF SInv, RevokedStaysRevoked, NewestIsOwn, OwnSessionSurvives, SessionData, Met
<1>12. OwnIsSpared'
  <2> SUFFICES ASSUME NEW p \in Operations, MAX_CONCURRENT_SESSIONS # 0, op'[p].kind = "create", op'[p].step \in {"next"} \cup Revoking
               PROVE  \/ op'[p].sid \notin op'[p].left /\ (op'[p].step \in Revoking => op'[p].after # op'[p].sid)
                      \/ Alongside(p, "create")
    BY <1>4 DEF OwnIsSpared
  <2> QED
    BY <1>1 DEF Turns, SInv, OwnIsSpared
<1> QED
  BY <1>6, <1>7, <1>8, <1>9, <1>10, <1>11, <1>12 DEF SInv

LEMMA StartsKeeps ==
  ASSUME SInv, NEW o \in Operations, NEW r, op' = [op EXCEPT ![o] = r],
         op[o].step = "idle", Fits(r, created), r.kind # "create",
         r.step \notin {"idle", "store", "touch", "deactivate"},
         alongside' = alongside \cup {{o, other} : other \in {p \in Operations : Active(p)}},
         UNCHANGED <<data, index, created, revoked>>
  PROVE  SInv'
<1>1. Turns(o) /\ op'[o] = r
  BY OpTurns DEF Fits
<1>2. \A p \in Operations :
        /\ op[p].step # "idle" => op'[p] = op[p]
        /\ op'[p].step # "idle" => p = o \/ op'[p] = op[p]
        /\ op'[p].step = "store" <=> op[p].step = "store"
        /\ p # o => op'[p] = op[p]
  BY <1>1 DEF Turns
<1>3. \A p, kind : Alongside(p, kind) => Alongside(p, kind)'
  BY <1>2, AlongsideStays DEF SInv
<1>4. \A s : Unstored(s)' <=> Unstored(s)
  BY <1>1, <1>2 DEF Unstored
<1>5. SessionData'
  BY <1>1 DEF SInv, SessionData, Turns
<1>6. Met'
  <2>1. ASSUME NEW pair \in alongside', NEW p \in pair PROVE p \in Operations /\ op'[p].step # "idle"
    <3>1. CASE pair \in alongside
      BY <1>2, <2>1, <3>1 DEF SInv, Met
    <3>2. CASE \E other \in Operations : Active(other) /\ pair = {o, other}
      BY <1>1, <1>2, <2>1, <3>2 DEF Active
    <3> QED
      BY <2>1, <3>1, <3>2
  <2>2. ASSUME NEW p \in Operations, NEW q \in Operations, p # q, Active(p)', Active(q)' PROVE {p, q} \in alongside'
    <3>1. CASE p = o
      <4>1. Active(q)
        BY <1>2, <2>2, <3>1 DEF Active
      <4> QED
        BY <3>1, <4>1
    <3>2. CASE q = o
      <4>1. Active(p) /\ {p, q} = {o, p}
        BY <1>2, <2>2, <3>2 DEF Active
      <4> QED
        BY <4>1
    <3>3. CASE p # o /\ q # o
      BY <1>2, <2>2, <3>3 DEF Active, SInv, Met
    <3> QED
      BY <3>1, <3>2, <3>3
  <2>3. \A v \in revoked : v \in Operations \X (1..created) /\ op'[v[1]].step # "idle"
    BY <1>2 DEF SInv, Met
  <2> QED
    BY <2>1, <2>2, <2>3 DEF Met
<1>7. UnstoredIsUnseen'
  <2> SUFFICES ASSUME NEW s \in SessionIds, Unstored(s)
               PROVE  /\ data[s] = None
                      /\ \A v \in revoked : v[2] # s
                      /\ \A q \in Operations : /\ op'[q].step = "touch" => op'[q].sid # s
                                               /\ op'[q].step = "deactivate" => op'[q].after # s
    BY <1>4 DEF UnstoredIsUnseen
  <2> QED
    BY <1>1, <1>2 DEF SInv, UnstoredIsUnseen
<1>8. StoredOnce'
  BY <1>1, <1>2 DEF SInv, StoredOnce
<1>9. TouchedBeside'
  <2> SUFFICES ASSUME NEW v \in revoked, NEW q \in Operations, op'[q].step = "touch", op'[q].sid = v[2]
               PROVE  Alongside(v[1], "validate")
    BY <1>3 DEF TouchedBeside
  <2> QED
    BY <1>1, <1>2 DEF SInv, TouchedBeside
<1>10. RevokedStaysRevoked'
  BY <1>3 DEF SInv, RevokedStaysRevoked
<1>11. NewestIsOwn'
  BY <1>1, <1>2, <1>3 DEF SInv, NewestIsOwn, Active
<1>12. MAX_CONCURRENT_SESSIONS # 0 => OwnSessionSurvives'
  BY <1>2, <1>3 DEF SInv, OwnSessionSurvives, Met
<1>13. OwnIsSpared'
  <2> SUFFICES ASSUME NEW p \in Operations, MAX_CONCURRENT_SESSIONS # 0, op'[p].kind = "create",
                      op'[p].step \in {"next"} \cup Revoking
               PROVE  \/ op'[p].sid \notin op'[p].left /\ (op'[p].step \in Revoking => op'[p].after # op'[p].sid)
                      \/ Alongside(p, "create")
    BY <1>3 DEF OwnIsSpared
  <2> QED
    BY <1>1, <1>2 DEF SInv, OwnIsSpared
<1> QED
  BY <1>5, <1>6, <1>7, <1>8, <1>9, <1>10, <1>11, <1>12, <1>13 DEF SInv

-----------------------------------------------------------------------------
(* what Goes makes of a call *)
Gone(o, step) ==
  [op[o] EXCEPT !.step = step, !.found = IF step = "done" THEN {} ELSE @, !.after = IF step = "done" THEN None ELSE @]

LEMMA GoesToGone ==
  ASSUME SInv, NEW o \in Operations, NEW step, Goes(o, step)
  PROVE  /\ op' = [op EXCEPT ![o] = Gone(o, step)]
         /\ Gone(o, step).kind = op[o].kind /\ Gone(o, step).sid = op[o].sid
         /\ Gone(o, step).step = step /\ Gone(o, step).left = op[o].left
         /\ step # "done" => Gone(o, step).after = op[o].after
         /\ step \in SessionSteps => Gone(o, step) \in SessionOps
         /\ Gone(o, step).found \subseteq op[o].found
  BY DEF SInv, SessionData, SessionOps, Goes, Gone

LEMMA IsAsItFits ==
  ASSUME SInv, NEW o \in Operations
  PROVE  /\ op[o] \in SessionOps /\ Fits(op[o], created)
         /\ created \in Nat /\ 1..created \subseteq SessionIds
  BY SessionsAssumption DEF SInv, SessionData, SessionIds

(* a call that goes to a step where nothing but its kind counts *)
LEMMA PlainKeeps ==
  ASSUME SInv, NEW o \in Operations, NEW step, Goes(o, step), Active(o), op[o].step # "store",
         step \in {"members", "drop index", "done"} \/ (step = "next" /\ op[o].step \in Revoking),
         step = "members" => op[o].kind \in {"create", "revoke all", "cleanup"},
         index' \subseteq 1..created, UNCHANGED <<data, created, alongside, revoked>>
  PROVE  SInv'
<1> DEFINE r == Gone(o, step)
<1>1. /\ op' = [op EXCEPT ![o] = r]
      /\ r.kind = op[o].kind /\ r.sid = op[o].sid /\ r.step = step /\ r.left = op[o].left
      /\ r \in SessionOps /\ r.found \subseteq op[o].found
  BY GoesToGone DEF SessionSteps
<1>2. Fits(op[o], created)
  BY IsAsItFits
<1>3. Fits(r, created)
  BY <1>1, <1>2 DEF Fits, Revoking
<1>4. MAX_CONCURRENT_SESSIONS # 0 /\ r.kind = "create" /\ r.step \in {"next"} \cup Revoking =>
        (r.sid \notin r.left /\ (r.step \in Revoking => r.after # r.sid)) \/ Alongside(o, "create")
  BY <1>1 DEF SInv, OwnIsSpared, Revoking
<1> HIDE DEF r
<1> QED
  BY <1>1, <1>3, <1>4, QuietKeeps

LEMMA AddToIndexKeeps ==
  ASSUME SInv, NEW o \in Operations, AddToIndex(o)
  PROVE  SInv'
<1>1. op[o].kind = "create" /\ op[o].sid \in 1..created
  BY IsAsItFits DEF AddToIndex, Fits
<1>2. index' \subseteq 1..created
  BY <1>1 DEF AddToIndex, SInv, SessionData
<1> QED
  BY <1>1, <1>2, PlainKeeps DEF AddToIndex, Active

LEMMA MembersKeeps ==
  ASSUME SInv, NEW o \in Operations, Members(o)
  PROVE  SInv'
<1>1. Fits(op[o], created) /\ op[o].kind \in {"create", "revoke all", "cleanup"} /\ index \subseteq 1..created
  BY IsAsItFits DEF Members, Fits, SInv, SessionData
<1>2. CASE op[o].kind = "create" /\ Cardinality(index) <= MAX_CONCURRENT_SESSIONS
  <2>1. op[o].step = "members" /\ Goes(o, "done") /\ UNCHANGED <<data, index, created, alongside, revoked>>
    BY <1>2 DEF Members
  <2> QED
    BY <1>1, <2>1, PlainKeeps DEF Active
<1>3. CASE ~(op[o].kind = "create" /\ Cardinality(index) <= MAX_CONCURRENT_SESSIONS)
  <2> DEFINE step == CASE op[o].kind = "create" -> "read"
                       [] op[o].kind = "revoke all" -> "next"
                       [] op[o].kind = "cleanup" -> "exists"
             r == [op[o] EXCEPT !.left = index, !.step = step]
  <2>1. op' = [op EXCEPT ![o].left = index, ![o].step = step]
    BY <1>3 DEF Members
  <2>2. /\ step = "read" => op[o].kind = "create"
        /\ step \in {"read", "exists"} \/ (step = "next" /\ op[o].kind = "revoke all")
    BY <1>1
  <2> HIDE DEF step
  <2>7. \A i \in 1..created : i \in Nat
    OBVIOUS
  <2>6. index \in SUBSET Nat /\ op[o] \in SessionOps
    BY <1>1, <2>7, IsAsItFits, Zenon
  <2>3. /\ r.kind = op[o].kind /\ r.sid = op[o].sid /\ r.step = step /\ r.left = index
        /\ r.found = op[o].found /\ r \in SessionOps
    BY <2>2, <2>6 DEF SessionOps, SessionSteps
  <2>5. op' = [op EXCEPT ![o] = r]
    BY <2>1 DEF SInv, SessionData
  <2>4. Fits(r, created)
    BY <1>1, <2>2, <2>3 DEF Fits, Revoking
  <2> HIDE DEF r
  <2> QED
    BY <1>1, <2>2, <2>3, <2>4, <2>5, QuietKeeps DEF Members, Active, Revoking
<1> QED
  BY <1>2, <1>3

(* Oldest(ids, m) with fewer than all of them leaves the newest *)
LEMMA NewestIsSpared ==
  ASSUME NEW n \in Nat, NEW ids \in SUBSET (1..n), MAX_CONCURRENT_SESSIONS # 0
  PROVE  n \notin Surplus(ids)
<1> DEFINE g == Cardinality(ids)
<1>1. IsFiniteSet(ids) /\ g \in Nat
  <2>1. IsFiniteSet(1..n)
    BY FS_Interval
  <2>2. IsFiniteSet(ids)
    BY <2>1, FS_Subset
  <2> QED
    BY <2>2, FS_CardinalityType
<1>2. ASSUME NEW m \in Int, n \in Oldest(ids, m) PROVE g <= m
  <2>1. n \in ids /\ Cardinality({t \in ids : t < n}) < m
    BY <1>2, Zenon DEF Oldest
  <2>4. \A t \in ids : t < n <=> t # n
    OBVIOUS
  <2>2. {t \in ids : t < n} = ids \ {n}
    BY <2>4, Zenon
  <2>3. Cardinality(ids \ {n}) = g - 1
    BY <1>1, <2>1, FS_RemoveElement
  <2> QED
    BY <1>1, <2>1, <2>2, <2>3
<1> HIDE DEF g
<1>3. Surplus(ids) = IF g >= MAX_CONCURRENT_SESSIONS THEN Oldest(ids, g - MAX_CONCURRENT_SESSIONS)
                     ELSE IF 2 * g > MAX_CONCURRENT_SESSIONS THEN Oldest(ids, 2 * g - MAX_CONCURRENT_SESSIONS)
                     ELSE {}
  BY Zenon DEF Surplus, g
<1>4. MAX_CONCURRENT_SESSIONS \in Nat
  BY SessionsAssumption
<1>5. CASE g >= MAX_CONCURRENT_SESSIONS
  BY <1>1, <1>2, <1>3, <1>4, <1>5
<1>6. CASE ~(g >= MAX_CONCURRENT_SESSIONS)
  BY <1>1, <1>2, <1>3, <1>4, <1>6
<1> QED
  BY <1>5, <1>6

LEMMA ReadSessionKeeps ==
  ASSUME SInv, NEW o \in Operations, ReadSession(o)
  PROVE  SInv'
<1>1. Fits(op[o], created) /\ op[o] \in SessionOps /\ op[o].kind = "create" /\ created \in Nat
  BY IsAsItFits DEF ReadSession, Fits
<1>2. index' \subseteq 1..created
  BY DEF ReadSession, SInv, SessionData
<1>3. ASSUME NEW s \in op[o].left,
             op' = [op EXCEPT ![o].left = @ \ {s}, ![o].found = IF data[s] = None THEN @ ELSE @ \cup {s}]
      PROVE  SInv'
  <2> DEFINE r == [op[o] EXCEPT !.left = @ \ {s}, !.found = IF data[s] = None THEN @ ELSE @ \cup {s}]
  <2>1. op' = [op EXCEPT ![o] = r]
    BY <1>3 DEF SInv, SessionData
  <2>2. /\ r.kind = op[o].kind /\ r.sid = op[o].sid /\ r.step = "read" /\ r.left = op[o].left \ {s}
        /\ r.found \subseteq op[o].found \cup {s} /\ r \in SessionOps
    BY <1>1 DEF ReadSession, SessionOps
  <2>3. Fits(r, created)
    BY <1>1, <2>2 DEF Fits, Revoking
  <2> HIDE DEF r
  <2> QED
    BY <1>1, <1>2, <2>1, <2>2, <2>3, QuietKeeps DEF ReadSession, Active, Revoking
<1>4. CASE op' = [op EXCEPT ![o].left = Surplus(op[o].found), ![o].found = {}, ![o].step = "next"]
  <2> DEFINE r == [op[o] EXCEPT !.left = Surplus(op[o].found), !.found = {}, !.step = "next"]
  <2>1. op' = [op EXCEPT ![o] = r]
    BY <1>4 DEF SInv, SessionData
  <2>2. op[o].found \subseteq 1..created
    BY <1>1 DEF Fits
  <2>3. Surplus(op[o].found) \subseteq op[o].found
    BY DEF Surplus, Oldest
  <2>4. /\ r.kind = op[o].kind /\ r.sid = op[o].sid /\ r.step = "next" /\ r.left = Surplus(op[o].found)
        /\ r.found = {} /\ r \in SessionOps
    BY <1>1, <2>2, <2>3 DEF SessionOps, SessionSteps
  <2>5. Fits(r, created)
    BY <1>1, <2>2, <2>3, <2>4 DEF Fits, Revoking
  <2>6. MAX_CONCURRENT_SESSIONS # 0 => r.sid \notin r.left \/ Alongside(o, "create")
    <3>1. created = op[o].sid \/ Alongside(o, "create")
      BY <1>1 DEF SInv, NewestIsOwn, Active, ReadSession
    <3>2. MAX_CONCURRENT_SESSIONS # 0 => created \notin Surplus(op[o].found)
      BY <1>1, <2>2, NewestIsSpared
    <3> QED
      BY <2>4, <3>1, <3>2
  <2> HIDE DEF r
  <2> QED
    BY <1>1, <1>2, <2>1, <2>4, <2>5, <2>6, QuietKeeps DEF ReadSession, Active, Revoking
<1> QED
  BY <1>3, <1>4 DEF ReadSession

LEMMA NextToRevokeKeeps ==
  ASSUME SInv, NEW o \in Operations, NextToRevoke(o)
  PROVE  SInv'
<1>1. Fits(op[o], created) /\ op[o] \in SessionOps
  BY IsAsItFits
<1>2. index' \subseteq 1..created
  BY DEF NextToRevoke, SInv, SessionData
<1>3. CASE op[o].left = {}
  BY <1>2, <1>3, PlainKeeps DEF NextToRevoke, Active
<1>4. CASE op[o].left # {}
  <2> DEFINE s == CHOOSE s \in op[o].left : \A t \in op[o].left : s <= t
             r == [op[o] EXCEPT !.left = @ \ {s}, !.after = s, !.step = "get"]
  <2>1. op' = [op EXCEPT ![o] = r]
    BY <1>4 DEF NextToRevoke, SInv, SessionData
  <2>2. op[o].left \in SUBSET Nat
    BY <1>1 DEF SessionOps
  <2>3. s \in op[o].left
    BY <1>4, <2>2, LeastNatural
  <2> HIDE DEF s
  <2>4. s \in 1..created /\ s \in Nat
    BY <1>1, <2>2, <2>3, Zenon DEF Fits
  <2>5. /\ r.kind = op[o].kind /\ r.sid = op[o].sid /\ r.step = "get" /\ r.left = op[o].left \ {s}
        /\ r.after = s /\ r.found = op[o].found /\ r \in SessionOps
    BY <1>1, <2>4 DEF SessionOps, SessionSteps, Revoking
  <2>6. Fits(r, created)
    BY <1>1, <2>4, <2>5 DEF Fits, Revoking
  <2>7. MAX_CONCURRENT_SESSIONS # 0 /\ r.kind = "create" =>
          (r.sid \notin r.left /\ r.after # r.sid) \/ Alongside(o, "create")
    BY <2>3, <2>5 DEF SInv, OwnIsSpared, NextToRevoke
  <2> HIDE DEF r
  <2> QED
    BY <1>2, <2>1, <2>5, <2>6, <2>7, QuietKeeps DEF NextToRevoke, Active
<1> QED
  BY <1>3, <1>4

(* what is stored was made, and its maker is past storing it *)
LEMMA StoredIsSeen ==
  ASSUME SInv, NEW s \in SessionIds, data[s] # None
  PROVE  ~Unstored(s)
  BY DEF SInv, UnstoredIsUnseen

LEMMA GetToRevokeKeeps ==
  ASSUME SInv, NEW o \in Operations, GetToRevoke(o)
  PROVE  SInv'
<1>1. Fits(op[o], created) /\ op[o] \in SessionOps /\ op[o].after \in 1..created /\ op[o].after \in SessionIds
  BY IsAsItFits DEF GetToRevoke, Fits, Revoking
<1>2. index' \subseteq 1..created
  BY DEF GetToRevoke, SInv, SessionData
<1>3. CASE data[op[o].after] = None
  BY <1>2, <1>3, PlainKeeps DEF GetToRevoke, Active, Revoked, Revoking
<1>4. CASE data[op[o].after] # None
  <2> DEFINE r == Gone(o, "deactivate")
  <2>1. /\ op' = [op EXCEPT ![o] = r]
        /\ r.kind = op[o].kind /\ r.sid = op[o].sid /\ r.step = "deactivate" /\ r.left = op[o].left
        /\ r.after = op[o].after /\ r.found \subseteq op[o].found /\ r \in SessionOps
    <3>1. Goes(o, "deactivate") /\ "deactivate" \in SessionSteps
      BY <1>4 DEF GetToRevoke, SessionSteps, Revoking
    <3> QED
      BY <3>1, GoesToGone
  <2> HIDE DEF r
  <2>2. Fits(r, created)
    BY <1>1, <2>1 DEF Fits, Revoking
  <2>3. MAX_CONCURRENT_SESSIONS # 0 /\ r.kind = "create" =>
          (r.sid \notin r.left /\ r.after # r.sid) \/ Alongside(o, "create")
    BY <2>1 DEF SInv, OwnIsSpared, GetToRevoke, Revoking
  <2>4. ~Unstored(r.after)
    BY <1>1, <1>4, <2>1, StoredIsSeen
  <2> QED
    BY <1>2, <2>1, <2>2, <2>3, <2>4, QuietKeeps DEF GetToRevoke, Active
<1> QED
  BY <1>3, <1>4

LEMMA RemoveFromIndexKeeps ==
  ASSUME SInv, NEW o \in Operations, RemoveFromIndex(o)
  PROVE  SInv'
<1>1. index' \subseteq 1..created
  BY DEF RemoveFromIndex, SInv, SessionData
<1> QED
  BY <1>1, PlainKeeps DEF RemoveFromIndex, Active, Revoked, Revoking

LEMMA DropIndexKeeps ==
  ASSUME SInv, NEW o \in Operations, DropIndex(o)
  PROVE  SInv'
  BY PlainKeeps DEF DropIndex, Active

LEMMA LookKeeps ==
  ASSUME SInv, NEW o \in Operations, Look(o)
  PROVE  SInv'
<1>1. Fits(op[o], created) /\ op[o].kind = "validate" /\ op[o].sid \in 1..created /\ op[o].sid \in SessionIds
  BY IsAsItFits DEF Look, Fits
<1>2. index' \subseteq 1..created
  BY DEF Look, SInv, SessionData
<1>3. CASE data[op[o].sid] = TRUE
  <2> DEFINE r == Gone(o, "touch")
  <2>1. /\ op' = [op EXCEPT ![o] = r]
        /\ r.kind = op[o].kind /\ r.sid = op[o].sid /\ r.step = "touch" /\ r.left = op[o].left
        /\ r.found \subseteq op[o].found /\ r \in SessionOps
    BY <1>3, GoesToGone DEF Look, SessionSteps
  <2> HIDE DEF r
  <2>2. Fits(r, created)
    BY <1>1, <2>1 DEF Fits, Revoking
  <2>3. ~Unstored(r.sid)
    <3>1. data[op[o].sid] # None
      BY <1>3, SessionsAssumption
    <3> QED
      BY <1>1, <2>1, <3>1, StoredIsSeen
  <2>4. \A v \in revoked : v[2] = r.sid => Alongside(v[1], "validate")
    BY <1>3, <2>1 DEF SInv, RevokedStaysRevoked
  <2> QED
    BY <1>1, <1>2, <2>1, <2>2, <2>3, <2>4, QuietKeeps DEF Look, Active, Revoking
<1>4. CASE data[op[o].sid] # TRUE
  BY <1>2, <1>4, PlainKeeps DEF Look, Active
<1> QED
  BY <1>3, <1>4

LEMMA CleanUpKeeps ==
  ASSUME SInv, NEW o \in Operations, CleanUp(o)
  PROVE  SInv'
<1>1. Fits(op[o], created) /\ op[o] \in SessionOps /\ index \subseteq 1..created
  BY IsAsItFits DEF SInv, SessionData
<1>2. CASE op[o].left = {}
  BY <1>1, <1>2, PlainKeeps DEF CleanUp, Active
<1>3. CASE op[o].left # {}
  <2>1. PICK s \in op[o].left :
          /\ op' = [op EXCEPT ![o].left = @ \ {s}]
          /\ index' = IF data[s] = None THEN index \ {s} ELSE index
    BY <1>3 DEF CleanUp
  <2> DEFINE r == [op[o] EXCEPT !.left = @ \ {s}]
  <2>2. op' = [op EXCEPT ![o] = r]
    BY <2>1 DEF SInv, SessionData
  <2>3. /\ r.kind = op[o].kind /\ r.sid = op[o].sid /\ r.step = "exists" /\ r.left = op[o].left \ {s}
        /\ r.found = op[o].found /\ r \in SessionOps
    BY <1>1 DEF CleanUp, SessionOps
  <2> HIDE DEF r
  <2>4. Fits(r, created)
    BY <1>1, <2>3 DEF Fits, Revoking
  <2>5. index' \subseteq 1..created
    BY <1>1, <2>1
  <2> QED
    BY <2>2, <2>3, <2>4, <2>5, QuietKeeps DEF CleanUp, Active, Revoking
<1> QED
  BY <1>2, <1>3

-----------------------------------------------------------------------------
(* what Begins makes of an idle call *)
Begun(kind, sid, step) == [Idle EXCEPT !.kind = kind, !.sid = sid, !.step = step]

LEMMA BeginKeeps ==
  ASSUME SInv, NEW o \in Operations, NEW kind \in SessionKinds, NEW sid \in Nat, NEW step \in SessionSteps,
         Begins(o, kind, sid, step),
         \/ step = "members" /\ kind \in {"revoke all", "cleanup"}
         \/ step = "look" /\ kind = "validate" /\ sid \in 1..created,
         UNCHANGED <<data, index, created, revoked>>
  PROVE  SInv'
<1> DEFINE r == Begun(kind, sid, step)
<1>1. op' = [op EXCEPT ![o] = r]
  BY DEF Begins, Begun
<1>2. /\ r \in SessionOps
      /\ r.kind = kind /\ r.sid = sid /\ r.step = step /\ r.left = {} /\ r.found = {} /\ r.after = None
  BY DEF Begun, Idle, SessionOps
<1> HIDE DEF r
<1>3. Fits(r, created)
  BY <1>2 DEF Fits, Revoking
<1> QED
  BY <1>1, <1>2, <1>3, StartsKeeps DEF Begins

LEMMA BeginRevokeSessionKeeps ==
  ASSUME SInv, NEW o \in Operations, NEW s \in 1..created, BeginRevokeSession(o, s)
  PROVE  SInv'
<1> DEFINE r == [Idle EXCEPT !.kind = "revoke", !.sid = s, !.after = s, !.step = "get"]
<1>1. op' = [op EXCEPT ![o] = r]
  BY DEF BeginRevokeSession
<1>2. s \in Nat
  OBVIOUS
<1>3. /\ r.kind = "revoke" /\ r.sid = s /\ r.step = "get" /\ r.left = {} /\ r.found = {} /\ r.after = s
      /\ r \in SessionOps
  BY <1>2 DEF Idle, SessionOps, SessionKinds, SessionSteps, Revoking
<1> HIDE DEF r
<1>4. Fits(r, created)
  BY <1>3 DEF Fits, Revoking
<1> QED
  BY <1>1, <1>3, <1>4, StartsKeeps DEF BeginRevokeSession

LEMMA BeginCreateKeeps ==
  ASSUME SInv, NEW o \in Operations, BeginCreate(o)
  PROVE  SInv'
<1>1. /\ created \in Nat /\ LastSession \in Nat /\ created < LastSession /\ created' = created + 1
      /\ Begins(o, "create", created + 1, "store") /\ op[o].step = "idle"
      /\ UNCHANGED <<data, index, revoked>>
  BY SessionsAssumption, IsAsItFits DEF BeginCreate, Begins
<1> DEFINE r == Begun("create", created + 1, "store")
<1>19. op' = [op EXCEPT ![o] = r]
  BY <1>1 DEF Begins, Begun
<1>2. /\ r \in SessionOps
      /\ r.kind = "create" /\ r.sid = created + 1 /\ r.step = "store" /\ r.left = {} /\ r.found = {}
  <2>1. "create" \in SessionKinds /\ "store" \in SessionSteps /\ created + 1 \in Nat
    BY <1>1 DEF SessionKinds, SessionSteps
  <2> QED
    BY <2>1 DEF Begun, Idle, SessionOps
<1> HIDE DEF r
<1>3. Turns(o) /\ op'[o] = r
  BY <1>2, <1>19, OpTurns
<1>4. \A p \in Operations :
        /\ op[p].step # "idle" => op'[p] = op[p]
        /\ op'[p].step # "idle" => p = o \/ op'[p] = op[p]
        /\ p # o => op'[p] = op[p]
  BY <1>1, <1>3 DEF Turns
<1>5. alongside' = alongside \cup {{o, other} : other \in {p \in Operations : Active(p)}}
  BY <1>1 DEF Begins
<1>6. \A p, kind : Alongside(p, kind) => Alongside(p, kind)'
  BY <1>4, <1>5, AlongsideStays DEF SInv
<1>7. 1..created \subseteq 1..created' /\ created + 1 \in 1..created' /\ created' \in 0..LastSession
  BY <1>1
<1>8. \A p \in Operations : op[p].step = "store" => op[p].sid \in 1..created
  BY IsAsItFits DEF Fits
<1>9. \A s \in SessionIds : Unstored(s)' => Unstored(s)
  <2> SUFFICES ASSUME NEW s \in SessionIds, Unstored(s)' PROVE Unstored(s)
    OBVIOUS
  <2>1. CASE s > created'
    BY <1>1, <2>1 DEF Unstored, SessionIds
  <2>2. CASE \E p \in Operations : op'[p].step = "store" /\ op'[p].sid = s
    BY <1>1, <1>2, <1>3, <1>4, <2>2 DEF Unstored
  <2> QED
    BY <2>1, <2>2 DEF Unstored
<1>10. SessionData'
  <2>1. index' \subseteq 1..created' /\ data' \in [SessionIds -> BOOLEAN \cup {None}]
    BY <1>1, <1>7 DEF SInv, SessionData
  <2>2. ASSUME NEW p \in Operations PROVE Fits(op'[p], created')
    <3>1. CASE p = o
      BY <1>2, <1>3, <1>7, <3>1 DEF Fits, Revoking
    <3>2. CASE p # o
      BY <1>4, <1>7, <3>2, IsAsItFits DEF Fits
    <3> QED
      BY <3>1, <3>2
  <2> QED
    BY <1>3, <1>7, <2>1, <2>2 DEF SessionData, Turns
<1>11. Met'
  <2>1. ASSUME NEW pair \in alongside', NEW p \in pair PROVE p \in Operations /\ op'[p].step # "idle"
    <3>1. CASE pair \in alongside
      BY <1>4, <2>1, <3>1 DEF SInv, Met
    <3>2. CASE \E other \in Operations : Active(other) /\ pair = {o, other}
      BY <1>2, <1>3, <1>4, <2>1, <3>2 DEF Active
    <3> QED
      BY <1>5, <2>1, <3>1, <3>2
  <2>2. ASSUME NEW p \in Operations, NEW q \in Operations, p # q, Active(p)', Active(q)'
        PROVE  {p, q} \in alongside'
    <3>1. CASE p = o
      <4>1. Active(q)
        BY <1>4, <2>2, <3>1 DEF Active
      <4> QED
        BY <1>5, <3>1, <4>1
    <3>2. CASE q = o
      <4>1. Active(p) /\ {p, q} = {o, p}
        BY <1>4, <2>2, <3>2 DEF Active
      <4> QED
        BY <1>5, <4>1
    <3>3. CASE p # o /\ q # o
      BY <1>4, <1>5, <2>2, <3>3 DEF Active, SInv, Met
    <3> QED
      BY <3>1, <3>2, <3>3
  <2>3. \A v \in revoked' : v \in Operations \X (1..created') /\ op'[v[1]].step # "idle"
    BY <1>1, <1>4, <1>7 DEF SInv, Met
  <2> QED
    BY <2>1, <2>2, <2>3 DEF Met
<1>12. UnstoredIsUnseen'
  <2> SUFFICES ASSUME NEW s \in SessionIds, Unstored(s)
               PROVE  /\ data[s] = None
                      /\ \A v \in revoked : v[2] # s
                      /\ \A q \in Operations : /\ op'[q].step = "touch" => op'[q].sid # s
                                               /\ op'[q].step = "deactivate" => op'[q].after # s
    BY <1>1, <1>9 DEF UnstoredIsUnseen
  <2> QED
    BY <1>2, <1>3, <1>4 DEF SInv, UnstoredIsUnseen
<1>13. StoredOnce'
  <2> SUFFICES ASSUME NEW p \in Operations, NEW q \in Operations, op'[p].step = "store", op'[q].step = "store",
                      op'[p].sid = op'[q].sid
               PROVE  p = q
    BY DEF StoredOnce
  <2>1. ASSUME NEW t \in Operations, t # o, op'[t].step = "store" PROVE op'[t].sid # created + 1
    BY <1>1, <1>4, <1>8, <2>1
  <2> QED
    BY <1>2, <1>3, <1>4, <2>1 DEF SInv, StoredOnce
<1>14. TouchedBeside'
  <2> SUFFICES ASSUME NEW v \in revoked, NEW q \in Operations, op'[q].step = "touch", op'[q].sid = v[2]
               PROVE  Alongside(v[1], "validate")
    BY <1>1, <1>6 DEF TouchedBeside
  <2> QED
    BY <1>2, <1>3, <1>4 DEF SInv, TouchedBeside
<1>15. RevokedStaysRevoked'
  BY <1>1, <1>6 DEF SInv, RevokedStaysRevoked
<1>16. NewestIsOwn'
  <2> SUFFICES ASSUME NEW p \in Operations, Active(p)', op'[p].kind = "create"
               PROVE  created' = op'[p].sid \/ Alongside(p, "create")'
    BY DEF NewestIsOwn
  <2>1. CASE p = o
    BY <1>1, <1>2, <1>3, <2>1
  <2>2. CASE p # o
    <3>1. Active(p) /\ {p, o} = {o, p}
      BY <1>4, <2>2 DEF Active
    <3> QED
      BY <1>2, <1>3, <1>5, <3>1 DEF Alongside
  <2> QED
    BY <2>1, <2>2
<1>17. MAX_CONCURRENT_SESSIONS # 0 => OwnSessionSurvives'
  BY <1>1, <1>4, <1>6 DEF SInv, OwnSessionSurvives, Met
<1>18. OwnIsSpared'
  <2> SUFFICES ASSUME NEW p \in Operations, MAX_CONCURRENT_SESSIONS # 0, op'[p].kind = "create",
                      op'[p].step \in {"next"} \cup Revoking
               PROVE  \/ op'[p].sid \notin op'[p].left /\ (op'[p].step \in Revoking => op'[p].after # op'[p].sid)
                      \/ Alongside(p, "create")
    BY <1>6 DEF OwnIsSpared
  <2> QED
    BY <1>2, <1>3, <1>4 DEF SInv, OwnIsSpared, Revoking
<1> QED
  BY <1>10, <1>11, <1>12, <1>13, <1>14, <1>15, <1>16, <1>17, <1>18 DEF SInv

-----------------------------------------------------------------------------
(* what a step of one call that is under way leaves of the others *)
LEMMA StepsAside ==
  ASSUME SInv, NEW o \in Operations, NEW step \in SessionSteps \ {"idle", "store"}, Goes(o, step), Active(o),
         UNCHANGED <<created, alongside>>
  PROVE  /\ Turns(o) /\ op'[o] = Gone(o, step)
         /\ \A p \in Operations :
              /\ op'[p].kind = op[p].kind /\ op'[p].sid = op[p].sid
              /\ op'[p].step = "idle" <=> op[p].step = "idle"
              /\ op'[p].step = "store" => op[p].step = "store" /\ p # o
              /\ Active(p)' => Active(p)
         /\ \A p, kind : Alongside(p, kind) => Alongside(p, kind)'
         /\ \A s : Unstored(s)' => Unstored(s)
<1>1. /\ op' = [op EXCEPT ![o] = Gone(o, step)] /\ Gone(o, step) \in SessionOps
      /\ Gone(o, step).kind = op[o].kind /\ Gone(o, step).sid = op[o].sid /\ Gone(o, step).step = step
  BY GoesToGone
<1>2. Turns(o) /\ op'[o] = Gone(o, step)
  BY <1>1, OpTurns
<1>3. \A p \in Operations :
        /\ op'[p].kind = op[p].kind /\ op'[p].sid = op[p].sid
        /\ op'[p].step = "idle" <=> op[p].step = "idle"
        /\ op'[p].step = "store" => op[p].step = "store" /\ p # o
        /\ Active(p)' => Active(p)
  BY <1>1, <1>2 DEF Turns, Active
<1>4. \A p, kind : Alongside(p, kind) => Alongside(p, kind)'
  BY <1>3, AlongsideStays DEF SInv
<1>5. \A s : Unstored(s)' => Unstored(s)
  BY <1>3 DEF Unstored
<1> QED
  BY <1>2, <1>3, <1>4, <1>5

(* the parts that such a step keeps whatever it writes *)
LEMMA WriteKeeps ==
  ASSUME SInv, NEW o \in Operations, NEW step \in {"index", "remove", "done"},
         Goes(o, step), Active(o),
         step = "index" => op[o].kind = "create" /\ op[o].sid \in 1..created,
         step = "remove" => op[o].step = "deactivate",
         UNCHANGED <<index, created, alongside>>,
         NEW s \in 1..created, ~Unstored(s)',
         data' \in [SessionIds -> BOOLEAN \cup {None}], \A t \in SessionIds : t # s => data'[t] = data[t],
         \/ revoked' = revoked
         \/ revoked' = revoked \cup {<<o, s>>} /\ step = "remove" /\ op[o].after = s
  PROVE  /\ SessionData' /\ Met' /\ UnstoredIsUnseen' /\ StoredOnce' /\ NewestIsOwn' /\ OwnIsSpared'
         /\ (MAX_CONCURRENT_SESSIONS # 0 => OwnSessionSurvives')
<1>1. /\ Turns(o) /\ op'[o] = Gone(o, step)
      /\ \A p \in Operations :
           /\ op'[p].kind = op[p].kind /\ op'[p].sid = op[p].sid
           /\ op'[p].step = "idle" <=> op[p].step = "idle"
           /\ op'[p].step = "store" => op[p].step = "store" /\ p # o
           /\ Active(p)' => Active(p)
      /\ \A p, kind : Alongside(p, kind) => Alongside(p, kind)'
      /\ \A t : Unstored(t)' => Unstored(t)
  BY StepsAside DEF SessionSteps, Revoking
<1>2. /\ Gone(o, step) \in SessionOps /\ Gone(o, step).kind = op[o].kind /\ Gone(o, step).sid = op[o].sid
      /\ Gone(o, step).step = step /\ Gone(o, step).left = op[o].left
      /\ step # "done" => Gone(o, step).after = op[o].after
      /\ Gone(o, step).found \subseteq op[o].found
  BY GoesToGone DEF SessionSteps, Revoking
<1>3. Fits(op[o], created)
  BY IsAsItFits
<1>4. Fits(Gone(o, step), created)
  BY <1>2, <1>3 DEF Fits, Revoking
<1>5. op[o].step \notin {"idle", "done"}
  BY DEF Active
<1>6. SessionData'
  BY <1>1, <1>4 DEF SInv, SessionData, Turns
<1>7. Met'
  <2>1. \A v \in revoked' : v \in Operations \X (1..created) /\ op'[v[1]].step # "idle"
    BY <1>1, <1>5 DEF SInv, Met
  <2> QED
    BY <1>1, <2>1 DEF SInv, Met
<1>8. UnstoredIsUnseen'
  <2> SUFFICES ASSUME NEW t \in SessionIds, Unstored(t)'
               PROVE  /\ data'[t] = None
                      /\ \A v \in revoked' : v[2] # t
                      /\ \A q \in Operations : /\ op'[q].step = "touch" => op'[q].sid # t
                                               /\ op'[q].step = "deactivate" => op'[q].after # t
    BY DEF UnstoredIsUnseen
  <2>1. t # s /\ Unstored(t)
    BY <1>1
  <2>2. data'[t] = None /\ \A v \in revoked' : v[2] # t
    BY <2>1 DEF SInv, UnstoredIsUnseen, SessionData
  <2> QED
    BY <1>1, <1>2, <2>1, <2>2 DEF Turns, SInv, UnstoredIsUnseen
<1>9. StoredOnce'
  <2> SUFFICES ASSUME NEW p \in Operations, NEW q \in Operations, op'[p].step = "store", op'[q].step = "store",
                      op'[p].sid = op'[q].sid
               PROVE  p = q
    BY DEF StoredOnce
  <2> QED
    BY <1>1 DEF SInv, StoredOnce
<1>10. NewestIsOwn'
  BY <1>1 DEF SInv, NewestIsOwn
<1>11. OwnIsSpared'
  <2> SUFFICES ASSUME NEW p \in Operations, MAX_CONCURRENT_SESSIONS # 0, op'[p].kind = "create",
                      op'[p].step \in {"next"} \cup Revoking
               PROVE  \/ op'[p].sid \notin op'[p].left /\ (op'[p].step \in Revoking => op'[p].after # op'[p].sid)
                      \/ Alongside(p, "create")
    BY <1>1 DEF OwnIsSpared
  <2> QED
    BY <1>1, <1>2 DEF Turns, SInv, OwnIsSpared, Revoking
<1>12. MAX_CONCURRENT_SESSIONS # 0 => OwnSessionSurvives'
  <2> SUFFICES ASSUME MAX_CONCURRENT_SESSIONS # 0, NEW v \in revoked', op[v[1]].kind = "create", v[1] \in Operations
               PROVE  v[2] # op[v[1]].sid \/ Alongside(v[1], "create")
    BY <1>1, <1>7 DEF OwnSessionSurvives, Met
  <2>1. CASE v \in revoked
    BY <2>1 DEF SInv, OwnSessionSurvives
  <2>2. CASE v = <<o, s>> /\ op[o].step = "deactivate" /\ op[o].after = s
    BY <2>2 DEF SInv, OwnIsSpared, Revoking
  <2> QED
    BY <2>1, <2>2
<1> QED
  BY <1>6, <1>7, <1>8, <1>9, <1>10, <1>11, <1>12

LEMMA StoreKeeps ==
  ASSUME SInv, NEW o \in Operations, Store(o)
  PROVE  SInv'
<1>0. PICK s : s = op[o].sid
  OBVIOUS
<1>1. /\ op[o].kind = "create" /\ s \in 1..created /\ s \in SessionIds /\ created \in Nat /\ op[o].step = "store"
      /\ Active(o)
  BY <1>0, IsAsItFits DEF Store, Fits, Active
<1>2. /\ Turns(o) /\ op'[o] = Gone(o, "index")
      /\ \A p \in Operations :
           /\ op'[p].kind = op[p].kind /\ op'[p].sid = op[p].sid
           /\ op'[p].step = "store" => op[p].step = "store" /\ p # o
      /\ \A p, kind : Alongside(p, kind) => Alongside(p, kind)'
  BY <1>1, StepsAside DEF Store, SessionSteps
<1>3. Gone(o, "index").step = "index"
  BY GoesToGone DEF Store
<1>4. ~Unstored(s)'
  BY <1>0, <1>1, <1>2 DEF Unstored, SInv, StoredOnce, Store
<1>5. Unstored(s)
  BY <1>0, <1>1 DEF Unstored
<1>6. /\ SessionData' /\ Met' /\ UnstoredIsUnseen' /\ StoredOnce' /\ NewestIsOwn' /\ OwnIsSpared'
      /\ (MAX_CONCURRENT_SESSIONS # 0 => OwnSessionSurvives')
  <2>1. Goes(o, "index") /\ UNCHANGED <<index, created, alongside>> /\ revoked' = revoked
    BY <1>0 DEF Store
  <2>2. data' \in [SessionIds -> BOOLEAN \cup {None}] /\ \A t \in SessionIds : t # s => data'[t] = data[t]
    BY <1>0, <1>1 DEF Store, SInv, SessionData
  <2> QED
    BY <1>0, <1>1, <1>4, <2>1, <2>2, WriteKeeps
<1>7. TouchedBeside'
  <2> SUFFICES ASSUME NEW v \in revoked, NEW q \in Operations, op'[q].step = "touch", op'[q].sid = v[2]
               PROVE  Alongside(v[1], "validate")
    BY <1>2 DEF TouchedBeside, Store
  <2> QED
    BY <1>2, <1>3 DEF Turns, SInv, TouchedBeside
<1>8. RevokedStaysRevoked'
  <2> SUFFICES ASSUME NEW v \in revoked, data'[v[2]] = TRUE PROVE Alongside(v[1], "validate")
    BY <1>2 DEF RevokedStaysRevoked, Store
  <2>1. v[2] # s
    BY <1>1, <1>5 DEF SInv, UnstoredIsUnseen
  <2> QED
    BY <1>0, <2>1 DEF SInv, RevokedStaysRevoked, SessionData, Store
<1> QED
  BY <1>6, <1>7, <1>8 DEF SInv

LEMMA DeactivateKeeps ==
  ASSUME SInv, NEW o \in Operations, Deactivate(o)
  PROVE  SInv'
<1>0. PICK s : s = op[o].after
  OBVIOUS
<1>1. /\ s \in 1..created /\ s \in SessionIds /\ created \in Nat /\ op[o].step = "deactivate" /\ Active(o)
  BY <1>0, IsAsItFits DEF Deactivate, Fits, Active, Revoking
<1>2. /\ Turns(o) /\ op'[o] = Gone(o, "remove")
      /\ \A p \in Operations : op'[p].kind = op[p].kind /\ op'[p].sid = op[p].sid
      /\ \A p, kind : Alongside(p, kind) => Alongside(p, kind)'
      /\ \A t : Unstored(t)' => Unstored(t)
  BY <1>1, StepsAside DEF Deactivate, SessionSteps, Revoking
<1>3. Gone(o, "remove").step = "remove"
  BY GoesToGone DEF Deactivate
<1>4. ~Unstored(s)'
  <2>1. ~Unstored(s)
    BY <1>0, <1>1 DEF SInv, UnstoredIsUnseen
  <2> QED
    BY <1>2, <2>1
<1>5. /\ SessionData' /\ Met' /\ UnstoredIsUnseen' /\ StoredOnce' /\ NewestIsOwn' /\ OwnIsSpared'
      /\ (MAX_CONCURRENT_SESSIONS # 0 => OwnSessionSurvives')
  <2>1. Goes(o, "remove") /\ UNCHANGED <<index, created, alongside>> /\ revoked' = revoked \cup {<<o, s>>}
    BY <1>0 DEF Deactivate
  <2>2. data' \in [SessionIds -> BOOLEAN \cup {None}] /\ \A t \in SessionIds : t # s => data'[t] = data[t]
    BY <1>0, <1>1 DEF Deactivate, SInv, SessionData
  <2> QED
    BY <1>0, <1>1, <1>4, <2>1, <2>2, WriteKeeps
<1>6. TouchedBeside'
  <2> SUFFICES ASSUME NEW v \in revoked', NEW q \in Operations, op'[q].step = "touch", op'[q].sid = v[2]
               PROVE  Alongside(v[1], "validate")
    BY <1>2 DEF TouchedBeside
  <2>1. q # o /\ op[q].step = "touch" /\ op[q].sid = v[2]
    BY <1>2, <1>3 DEF Turns
  <2>2. CASE v \in revoked
    BY <2>1, <2>2 DEF SInv, TouchedBeside
  <2>3. CASE v = <<o, s>>
    <3>1. Active(q) /\ op[q].kind = "validate"
      BY <2>1, IsAsItFits DEF Active, Fits
    <3>2. {o, q} \in alongside
      BY <1>1, <2>1, <3>1 DEF SInv, Met
    <3> QED
      BY <2>3, <3>1, <3>2 DEF Alongside
  <2> QED
    BY <1>0, <2>2, <2>3 DEF Deactivate
<1>7. RevokedStaysRevoked'
  <2> SUFFICES ASSUME NEW v \in revoked', data'[v[2]] = TRUE PROVE Alongside(v[1], "validate")
    BY <1>2 DEF RevokedStaysRevoked
  <2>1. data'[s] = FALSE
    BY <1>0, <1>1 DEF SInv, SessionData, Deactivate
  <2>2. v[2] # s /\ v \in revoked
    BY <1>0, <2>1 DEF Deactivate
  <2>3. data'[v[2]] = data[v[2]]
    <3>1. v[2] \in SessionIds
      BY <2>2, IsAsItFits DEF SInv, Met
    <3> QED
      BY <1>0, <2>2, <3>1 DEF SInv, SessionData, Deactivate
  <2> QED
    BY <2>2, <2>3 DEF SInv, RevokedStaysRevoked
<1> QED
  BY <1>5, <1>6, <1>7 DEF SInv

LEMMA TouchKeeps ==
  ASSUME SInv, NEW o \in Operations, Touch(o)
  PROVE  SInv'
<1>0. PICK s : s = op[o].sid
  OBVIOUS
<1>1. /\ s \in 1..created /\ s \in SessionIds /\ op[o].step = "touch" /\ Active(o)
  BY <1>0, IsAsItFits DEF Touch, Fits, Active
<1>2. /\ Turns(o) /\ op'[o] = Gone(o, "done")
      /\ \A p \in Operations : op'[p].kind = op[p].kind /\ op'[p].sid = op[p].sid
      /\ \A p, kind : Alongside(p, kind) => Alongside(p, kind)'
      /\ \A t : Unstored(t)' => Unstored(t)
  BY <1>1, StepsAside DEF Touch, SessionSteps
<1>3. Gone(o, "done").step = "done"
  BY GoesToGone DEF Touch
<1>4. ~Unstored(s)'
  <2>1. ~Unstored(s)
    BY <1>0, <1>1 DEF SInv, UnstoredIsUnseen
  <2> QED
    BY <1>2, <2>1
<1>5. /\ SessionData' /\ Met' /\ UnstoredIsUnseen' /\ StoredOnce' /\ NewestIsOwn' /\ OwnIsSpared'
      /\ (MAX_CONCURRENT_SESSIONS # 0 => OwnSessionSurvives')
  <2>1. Goes(o, "done") /\ UNCHANGED <<index, created, alongside>> /\ revoked' = revoked
    BY <1>0 DEF Touch
  <2>2. data' \in [SessionIds -> BOOLEAN \cup {None}] /\ \A t \in SessionIds : t # s => data'[t] = data[t]
    BY <1>0, <1>1 DEF Touch, SInv, SessionData
  <2> QED
    BY <1>0, <1>1, <1>4, <2>1, <2>2, WriteKeeps
<1>6. TouchedBeside'
  <2> SUFFICES ASSUME NEW v \in revoked, NEW q \in Operations, op'[q].step = "touch", op'[q].sid = v[2]
               PROVE  Alongside(v[1], "validate")
    BY <1>2 DEF TouchedBeside, Touch
  <2> QED
    BY <1>2, <1>3 DEF Turns, SInv, TouchedBeside
<1>7. RevokedStaysRevoked'
  <2> SUFFICES ASSUME NEW v \in revoked, data'[v[2]] = TRUE PROVE Alongside(v[1], "validate")
    BY <1>2 DEF RevokedStaysRevoked, Touch
  <2>1. CASE v[2] = s
    BY <1>0, <1>1, <2>1 DEF SInv, TouchedBeside
  <2>2. CASE v[2] # s
    <3>1. v[2] \in SessionIds
      BY IsAsItFits DEF SInv, Met
    <3>2. data'[v[2]] = data[v[2]]
      BY <1>0, <2>2, <3>1 DEF SInv, SessionData, Touch
    <3> QED
      BY <3>2 DEF SInv, RevokedStaysRevoked
  <2> QED
    BY <2>1, <2>2
<1> QED
  BY <1>5, <1>6, <1>7 DEF SInv

(* the keys and the set expire by themselves *)
LEMMA ExpiryKeeps ==
  ASSUME SInv, UNCHANGED <<created, op, alongside, revoked>>,
         index' \subseteq index, data' \in [SessionIds -> BOOLEAN \cup {None}],
         \A s \in SessionIds : data'[s] \in {data[s], None}
  PROVE  SInv'
<1>1. SessionData'
  BY DEF SInv, SessionData
<1>2. Met' /\ StoredOnce' /\ TouchedBeside' /\ NewestIsOwn' /\ OwnIsSpared'
  <2>1. Met /\ StoredOnce /\ TouchedBeside /\ NewestIsOwn /\ OwnIsSpared
    BY DEF SInv
  <2>2. \A o, kind : Alongside(o, kind)' <=> Alongside(o, kind)
    BY DEF Alongside
  <2>3. Met' /\ StoredOnce'
    BY <2>1 DEF Met, StoredOnce, Active
  <2>4. TouchedBeside'
    BY <2>1, <2>2 DEF TouchedBeside
  <2>5. NewestIsOwn'
    BY <2>1, <2>2 DEF NewestIsOwn, Active
  <2>6. OwnIsSpared'
    BY <2>1, <2>2 DEF OwnIsSpared
  <2> QED
    BY <2>3, <2>4, <2>5, <2>6
<1>3. UnstoredIsUnseen'
  BY DEF SInv, UnstoredIsUnseen, Unstored
<1>4. RevokedStaysRevoked'
  <2> SUFFICES ASSUME NEW v \in revoked, data'[v[2]] = TRUE PROVE Alongside(v[1], "validate")
    BY DEF RevokedStaysRevoked, Alongside
  <2>1. v[2] \in SessionIds
    BY IsAsItFits DEF SInv, Met
  <2>2. data[v[2]] = TRUE
    BY <2>1, SessionsAssumption
  <2> QED
    BY <2>2 DEF SInv, RevokedStaysRevoked
<1>5. MAX_CONCURRENT_SESSIONS # 0 => OwnSessionSurvives'
  BY DEF SInv, OwnSessionSurvives, Alongside
<1> QED
  BY <1>1, <1>2, <1>3, <1>4, <1>5 DEF SInv

LEMMA SessionExpiresKeeps ==
  ASSUME SInv, NEW s \in SessionIds, SessionExpires(s)
  PROVE  SInv'
<1>1. data' \in [SessionIds -> BOOLEAN \cup {None}] /\ \A t \in SessionIds : data'[t] \in {data[t], None}
  BY DEF SessionExpires, SInv, SessionData
<1> QED
  BY <1>1, ExpiryKeeps DEF SessionExpires

LEMMA IndexExpiresKeeps ==
  ASSUME SInv, IndexExpires
  PROVE  SInv'
<1>1. data' \in [SessionIds -> BOOLEAN \cup {None}] /\ \A t \in SessionIds : data'[t] \in {data[t], None}
  BY DEF IndexExpires, SInv, SessionData
<1> QED
  BY <1>1, ExpiryKeeps DEF IndexExpires

-----------------------------------------------------------------------------
LEMMA SessionsInitInv ==
  ASSUME SessionsInit
  PROVE  SInv
<1>1. created \in 0..LastSession /\ created \in Nat /\ index \subseteq 1..created
  BY SessionsAssumption DEF SessionsInit
<1>2. \A o \in Operations : op[o] = Idle
  BY DEF SessionsInit
<1>3. Idle \in SessionOps /\ Idle.step = "idle" /\ Idle.kind = None /\ Idle.left = {} /\ Idle.found = {}
  BY DEF Idle, SessionOps, SessionSteps
<1>4. data \in [SessionIds -> BOOLEAN \cup {None}] /\ \A s \in SessionIds : s > created => data[s] = None
  BY DEF SessionsInit
<1>5. SessionData
  <2>1. Fits(Idle, created)
    BY <1>3 DEF Fits, Revoking
  <2> QED
    BY <1>1, <1>2, <1>3, <1>4, <2>1 DEF SessionData, SessionsInit
<1>6. Met
  BY <1>2, <1>3 DEF Met, SessionsInit, Active
<1>7. UnstoredIsUnseen
  BY <1>2, <1>3, <1>4 DEF UnstoredIsUnseen, Unstored, SessionsInit
<1>8. StoredOnce /\ TouchedBeside /\ RevokedStaysRevoked /\ NewestIsOwn /\ OwnSessionSurvives
  BY <1>2, <1>3 DEF StoredOnce, TouchedBeside, RevokedStaysRevoked, NewestIsOwn, OwnSessionSurvives,
                     SessionsInit, Active
<1>9. OwnIsSpared
  BY <1>2, <1>3 DEF OwnIsSpared, Revoking
<1> QED
  BY <1>5, <1>6, <1>7, <1>8, <1>9 DEF SInv

LEMMA SessionsNextKeeps ==
  ASSUME SInv, [SessionsNext]_session_vars
  PROVE  SInv'
<1>1. ASSUME NEW o \in Operations, BeginCreate(o) PROVE SInv'
  BY <1>1, BeginCreateKeeps
<1>2. ASSUME NEW o \in Operations, Store(o) PROVE SInv'
  BY <1>2, StoreKeeps
<1>3. ASSUME NEW o \in Operations, AddToIndex(o) PROVE SInv'
  BY <1>3, AddToIndexKeeps
<1>4. ASSUME NEW o \in Operations, Members(o) PROVE SInv'
  BY <1>4, MembersKeeps
<1>5. ASSUME NEW o \in Operations, ReadSession(o) PROVE SInv'
  BY <1>5, ReadSessionKeeps
<1>6. ASSUME NEW o \in Operations, NextToRevoke(o) PROVE SInv'
  BY <1>6, NextToRevokeKeeps
<1>7. ASSUME NEW o \in Operations, GetToRevoke(o) PROVE SInv'
  BY <1>7, GetToRevokeKeeps
<1>8. ASSUME NEW o \in Operations, Deactivate(o) PROVE SInv'
  BY <1>8, DeactivateKeeps
<1>9. ASSUME NEW o \in Operations, RemoveFromIndex(o) PROVE SInv'
  BY <1>9, RemoveFromIndexKeeps
<1>10. ASSUME NEW o \in Operations, BeginRevokeAll(o) \/ BeginCleanup(o) PROVE SInv'
  <2>1. /\ {"revoke all", "cleanup"} \subseteq SessionKinds /\ "members" \in SessionSteps /\ 0 \in Nat
        /\ UNCHANGED <<data, index, created, revoked>>
        /\ Begins(o, "revoke all", 0, "members") \/ Begins(o, "cleanup", 0, "members")
    BY <1>10 DEF SessionKinds, SessionSteps, BeginRevokeAll, BeginCleanup
  <2> QED
    BY <2>1, BeginKeeps
<1>11. ASSUME NEW o \in Operations, DropIndex(o) PROVE SInv'
  BY <1>11, DropIndexKeeps
<1>12. ASSUME NEW o \in Operations, Look(o) PROVE SInv'
  BY <1>12, LookKeeps
<1>13. ASSUME NEW o \in Operations, Touch(o) PROVE SInv'
  BY <1>13, TouchKeeps
<1>14. ASSUME NEW o \in Operations, CleanUp(o) PROVE SInv'
  BY <1>14, CleanUpKeeps
<1>15. ASSUME NEW o \in Operations, NEW s \in 1..created, BeginRevokeSession(o, s) PROVE SInv'
  BY <1>15, BeginRevokeSessionKeeps
<1>16. ASSUME NEW o \in Operations, NEW s \in 1..created, BeginValidate(o, s) PROVE SInv'
  <2>1. s \in Nat /\ "validate" \in SessionKinds /\ "look" \in SessionSteps
    BY DEF SessionKinds, SessionSteps
  <2>2. Begins(o, "validate", s, "look") /\ UNCHANGED <<data, index, created, revoked>>
    BY <1>16 DEF BeginValidate
  <2> QED
    BY <2>1, <2>2, BeginKeeps
<1>17. ASSUME NEW s \in SessionIds, SessionExpires(s) PROVE SInv'
  BY <1>17, SessionExpiresKeeps
<1>18. CASE IndexExpires
  BY <1>18, IndexExpiresKeeps
<1>19. CASE UNCHANGED session_vars
  <2>1. data' \in [SessionIds -> BOOLEAN \cup {None}] /\ \A t \in SessionIds : data'[t] \in {data[t], None}
    BY <1>19 DEF session_vars, SInv, SessionData
  <2> QED
    BY <1>19, <2>1, ExpiryKeeps DEF session_vars
<1> QED
  BY <1>1, <1>2, <1>3, <1>4, <1>5, <1>6, <1>7, <1>8, <1>9, <1>10, <1>11, <1>12, <1>13, <1>14, <1>15, <1>16,
     <1>17, <1>18, <1>19, Zenon DEF SessionsNext

-----------------------------------------------------------------------------
LEMMA KeysInitInv == KeysInit => KInv
<1> SUFFICES ASSUME KeysInit PROVE KInv
  OBVIOUS
<1>1. Rows = {} /\ call \in [KeyCalls -> KeyCallRecord] /\ excused_lines = {}
  BY DEF KeysInit, Rows, KeyCallRecord
<1>2. \A c \in KeyCalls : call[c].step = "idle" /\ call[c].revoked = FALSE
  BY DEF KeysInit
<1>3. key \in [KeyIds -> KeyRow] /\ \A k \in KeyIds : key[k].row <=> key[k].line # None
  BY DEF KeysInit, KeyRow
<1> QED
  BY <1>1, <1>2, <1>3 DEF KInv, KeyData, OneRotation, OthersInactive, LineStands, OneActivePerLine, Halfway

(* a row more, the others as they were *)
LEMMA MakesRow ==
  ASSUME KInv, NEW k \in KeyIds, NEW l \in KeyIds, MakeKey(k, l)
  PROVE  /\ Rows' = Rows \cup {k} /\ k \notin Rows /\ key' \in [KeyIds -> KeyRow]
         /\ \A j \in KeyIds : key'[j].row <=> key'[j].line # None
         /\ LineOf(k)' = l /\ key'[k].active
         /\ \A j \in Rows : LineOf(j)' = LineOf(j) /\ key'[j].active = key[j].active
<1> USE DEF KInv, KeyData, MakeKey, KeyRow
<1>1. /\ key'[k] = [row |-> TRUE, active |-> TRUE, expired |-> FALSE, line |-> l]
      /\ \A j \in KeyIds : j # k => key'[j] = key[j]
  OBVIOUS
<1>2. Rows' = Rows \cup {k} /\ k \notin Rows
  BY <1>1 DEF Rows
<1>3. \A j \in Rows : j \in KeyIds /\ j # k
  BY <1>2 DEF Rows
<1>4. key' \in [KeyIds -> KeyRow]
  OBVIOUS
<1>5. \A j \in KeyIds : key'[j].row <=> key'[j].line # None
  BY <1>1, KeysAssumption
<1> HIDE DEF KInv, KeyData, MakeKey, KeyRow
<1> QED
  BY <1>1, <1>2, <1>3, <1>4, <1>5 DEF LineOf

(* rows that only lose: no key becomes active, no line another *)
Fades ==
  /\ Rows' = Rows /\ key' \in [KeyIds -> KeyRow]
  /\ \A j \in KeyIds : key'[j].row <=> key'[j].line # None
  /\ \A j \in Rows : LineOf(j)' = LineOf(j) /\ (key'[j].active => key[j].active)

LEMMA KeyFades ==
  ASSUME KInv, NEW k,
         \/ key' = [key EXCEPT ![k].active = FALSE]
         \/ key' = [key EXCEPT ![k].expired = TRUE]
         \/ key' = key
  PROVE  Fades
<1> USE DEF KInv, KeyData, KeyRow
<1>1. /\ key' \in [KeyIds -> KeyRow]
      /\ \A j \in KeyIds : key'[j].row = key[j].row /\ key'[j].line = key[j].line /\ (key'[j].active => key[j].active)
  <2>1. CASE key' = [key EXCEPT ![k].active = FALSE]
    <3>1. \A r \in KeyRow : /\ [r EXCEPT !.active = FALSE] \in KeyRow
                            /\ [r EXCEPT !.active = FALSE].row = r.row /\ [r EXCEPT !.active = FALSE].line = r.line
                            /\ [r EXCEPT !.active = FALSE].active = FALSE
      OBVIOUS
    <3>2. key \in [KeyIds -> KeyRow]
      OBVIOUS
    <3> HIDE DEF KInv, KeyData, KeyRow
    <3>3. \A j \in KeyIds : key'[j] = IF j = k THEN [key[j] EXCEPT !.active = FALSE] ELSE key[j]
      BY <2>1, <3>2
    <3>4. key' \in [KeyIds -> KeyRow]
      BY <2>1, <3>1, <3>2
    <3>5. \A j \in KeyIds : key[j] \in KeyRow
      BY <3>2
    <3>6. ASSUME NEW j \in KeyIds
          PROVE  key'[j].row = key[j].row /\ key'[j].line = key[j].line /\ (key'[j].active => key[j].active)
      <4>1. CASE j = k
        BY <3>1, <3>3, <3>5, <4>1
      <4>2. CASE j # k
        BY <3>3, <4>2
      <4> QED
        BY <4>1, <4>2
    <3> QED
      BY <3>4, <3>6
  <2>2. CASE key' = [key EXCEPT ![k].expired = TRUE]
    BY <2>2
  <2>3. CASE key' = key
    BY <2>3
  <2> QED
    BY <2>1, <2>2, <2>3
<1>3. Rows' = Rows
  BY <1>1 DEF Rows
<1> QED
  BY <1>1, <1>3 DEF Fades, LineOf, Rows

(* the call that moves, and the others, which stay as they were *)
Moves(c) ==
  /\ call' \in [KeyCalls -> KeyCallRecord]
  /\ \A d \in KeyCalls \ {c} : call'[d] = call[d]

LEMMA CreateKeyKeeps ==
  ASSUME KInv, NEW c \in KeyCalls, NEW k \in KeyIds, CreateKey(c, k)
  PROVE  KInv'
<1> USE DEF LineOf
<1>1. /\ Rows' = Rows \cup {k} /\ k \notin Rows /\ key' \in [KeyIds -> KeyRow]
      /\ \A j \in KeyIds : key'[j].row <=> key'[j].line # None
      /\ LineOf(k)' = k /\ key'[k].active
      /\ \A j \in Rows : LineOf(j)' = LineOf(j) /\ key'[j].active = key[j].active
  BY MakesRow DEF CreateKey
<1>2. /\ Moves(c) /\ excused_lines' = excused_lines
      /\ call[c].step = "idle" /\ call'[c].step = "done" /\ call'[c].kind = "create"
  BY <1>1 DEF CreateKey, KInv, KeyData, Moves, KeyCallRecord
<1>3. \A j \in Rows : LineOf(j) \in Rows /\ LineOf(j) # k
  BY <1>1 DEF KInv, KeyData
<1>4. \A d \in KeyCalls : call'[d].step \in Halfway =>
        /\ d # c /\ call'[d] = call[d] /\ call[d].key \in Rows
        /\ LineOf(call[d].key)' = LineOf(call[d].key) /\ LineOf(call[d].key) # k
  <2> SUFFICES ASSUME NEW d \in KeyCalls, call'[d].step \in Halfway
               PROVE  /\ d # c /\ call'[d] = call[d] /\ call[d].key \in Rows
                      /\ LineOf(call[d].key)' = LineOf(call[d].key) /\ LineOf(call[d].key) # k
    OBVIOUS
  <2>1. d # c
    BY <1>2 DEF Halfway
  <2>2. call'[d] = call[d]
    BY <1>2, <2>1 DEF Moves
  <2>3. call[d].key \in Rows
    BY <2>2 DEF KInv, KeyData
  <2>4. key'[call[d].key].line = key[call[d].key].line /\ key[call[d].key].line # k
    BY <1>1, <1>3, <2>3
  <2> QED
    BY <2>1, <2>2, <2>3, <2>4
<1>5. KeyData'
  <2>1. \A j \in Rows' : (LineOf(j) \in Rows)'
    BY <1>1, <1>3
  <2>2. \A d \in KeyCalls : /\ call'[d].step = "stamp" => call'[d].kind = "validate"
                            /\ call'[d].kind = "validate" => call'[d].revoked = FALSE
    BY <1>2 DEF KInv, KeyData, Moves
  <2>3. \A d \in KeyCalls : call'[d].step \in Halfway =>
          call'[d].key \in Rows' /\ call'[d].kind = "rotate" /\ call'[d].outcome # "made"
    BY <1>1, <1>4 DEF KInv, KeyData
  <2>4. excused_lines' \subseteq KeyIds /\ call' \in [KeyCalls -> KeyCallRecord]
    BY <1>2 DEF KInv, KeyData, Moves
  <2> QED
    BY <2>1, <2>2, <2>3, <2>4, <1>1 DEF KeyData
<1>6. OneRotation'
  BY <1>2, <1>4 DEF KInv, OneRotation
<1>7. OthersInactive'
  <2> SUFFICES ASSUME NEW d \in KeyCalls, NEW j \in Rows', call'[d].step \in Halfway,
                      (LineOf(call[d].key) = LineOf(j))', key'[j].active
               PROVE  (LineOf(j) \in excused_lines)' \/ (call'[d].step = "revoke old" /\ j = call'[d].key)
    BY DEF OthersInactive
  <2>1. call'[d] = call[d] /\ key'[call[d].key].line = key[call[d].key].line /\ key[call[d].key].line # k
    BY <1>4
  <2>2. j \in Rows /\ key[j].active /\ key'[j].line = key[j].line
    BY <1>1, <2>1
  <2>3. OthersInactive
    BY DEF KInv
  <2> QED
    <3>1. call[d].step \in Halfway /\ key[call[d].key].line = key[j].line
      BY <2>1, <2>2
    <3>2. key[j].line \in excused_lines \/ (call[d].step = "revoke old" /\ j = call[d].key)
      BY <2>2, <2>3, <3>1 DEF OthersInactive
    <3> QED
      BY <1>2, <2>1, <2>2, <3>2
<1>8. OneActivePerLine'
  <2> SUFFICES ASSUME NEW i \in Rows', NEW j \in Rows', i # j, key'[i].active, key'[j].active,
                      LineOf(i)' = LineOf(j)'
               PROVE  (LineOf(i) \in excused_lines)'
    BY DEF OneActivePerLine
  <2>1. i \in Rows /\ j \in Rows
    BY <1>1, <1>3
  <2> QED
    BY <2>1, <1>1, <1>2 DEF KInv, OneActivePerLine
<1>9. LineStands'
  <2> SUFFICES ASSUME NEW l \in Rows'
               PROVE  \/ \E j \in Rows' : LineOf(j)' = LineOf(l)' /\ key'[j].active
                      \/ \E d \in KeyCalls : BrokenOff(d, LineOf(l))'
    BY DEF LineStands
  <2>1. CASE l = k
    BY <2>1, <1>1
  <2>2. CASE l \in Rows
    <3>1. CASE \E j \in Rows : LineOf(j) = LineOf(l) /\ key[j].active
      BY <3>1, <2>2, <1>1
    <3>2. CASE \E d \in KeyCalls : BrokenOff(d, LineOf(l))
      BY <3>2, <2>2, <1>1, <1>2 DEF BrokenOff, Moves
    <3> QED
      BY <3>1, <3>2, <2>2 DEF KInv, LineStands
  <2> QED
    BY <2>1, <2>2, <1>1
<1> QED
  BY <1>5, <1>6, <1>7, <1>8, <1>9 DEF KInv

(* where no rotation begins, one under way stays the only one of its line *)
LEMMA StillOne ==
  ASSUME KInv, Fades, excused_lines' = excused_lines,
         \A d \in KeyCalls :
           call'[d].step \in Halfway => call[d].step \in Halfway /\ call'[d].key = call[d].key
  PROVE  /\ OneRotation' /\ OneActivePerLine'
         /\ \A d \in KeyCalls : call'[d].step \in Halfway =>
              call[d].key \in Rows /\ key'[call[d].key].line = key[call[d].key].line
<1> USE DEF LineOf
<1>1. \A d \in KeyCalls : call'[d].step \in Halfway =>
        call[d].key \in Rows /\ key'[call[d].key].line = key[call[d].key].line
  BY DEF KInv, KeyData, Fades
<1>2. OneRotation'
  <2> SUFFICES ASSUME NEW c \in KeyCalls, NEW d \in KeyCalls, call'[c].step \in Halfway, call'[d].step \in Halfway,
                      key'[call'[c].key].line = key'[call'[d].key].line
               PROVE  c = d \/ key'[call'[c].key].line \in excused_lines
    BY DEF OneRotation
  <2>1. key'[call'[c].key].line = key[call[c].key].line /\ key'[call'[d].key].line = key[call[d].key].line
    BY <1>1
  <2>2. call[c].step \in Halfway /\ call[d].step \in Halfway
    OBVIOUS
  <2> QED
    BY <2>1, <2>2 DEF KInv, OneRotation
<1>3. OneActivePerLine'
  BY DEF KInv, OneActivePerLine, Fades
<1> QED
  BY <1>1, <1>2, <1>3

(* and so does the key it began with, if it stays where it is *)
LEMMA StillInactive ==
  ASSUME KInv, Fades, excused_lines' = excused_lines,
         \A d \in KeyCalls : call'[d].step \in Halfway => call[d].step = call'[d].step /\ call'[d].key = call[d].key
  PROVE  OthersInactive'
<1> USE DEF LineOf
<1> SUFFICES ASSUME NEW d \in KeyCalls, NEW j \in Rows, call'[d].step \in Halfway,
                    key'[call'[d].key].line = key'[j].line, key'[j].active
             PROVE  key'[j].line \in excused_lines \/ (call'[d].step = "revoke old" /\ j = call'[d].key)
  BY DEF OthersInactive, Fades
<1>1. call[d].key \in Rows /\ key'[call[d].key].line = key[call[d].key].line
  BY DEF KInv, KeyData, Fades
<1>2. key'[j].line = key[j].line /\ key[j].active
  BY DEF Fades
<1>3. OthersInactive
  BY DEF KInv
<1> QED
  BY <1>1, <1>2, <1>3 DEF OthersInactive

(* a call that does not begin a rotation, nor go on with one, while keys fade *)
LEMMA OffTheLine ==
  ASSUME KInv, Fades, NEW c \in KeyCalls, Moves(c), excused_lines' = excused_lines,
         call'[c].step \notin Halfway,
         call'[c].step = "stamp" => call'[c].kind = "validate",
         call'[c].kind = "validate" => call'[c].revoked = FALSE,
         \A l \in KeyIds : BrokenOff(c, l) => BrokenOff(c, l)',
         \A j \in Rows : key'[j].active = key[j].active \/ BrokenOff(c, LineOf(j))'
  PROVE  KInv'
<1> USE DEF LineOf
<1>1. \A d \in KeyCalls : call'[d].step \in Halfway => d # c /\ call'[d] = call[d]
  BY DEF Moves
<1>2. /\ OneRotation' /\ OneActivePerLine' /\ OthersInactive'
      /\ \A d \in KeyCalls : call'[d].step \in Halfway => call[d].key \in Rows
  BY <1>1, StillOne, StillInactive
<1>3. KeyData'
  <2>1. \A k \in Rows' : (LineOf(k) \in Rows)'
    BY DEF KInv, KeyData, Fades
  <2>2. \A d \in KeyCalls : /\ call'[d].step = "stamp" => call'[d].kind = "validate"
                            /\ call'[d].kind = "validate" => call'[d].revoked = FALSE
    BY DEF KInv, KeyData, Moves
  <2>3. \A d \in KeyCalls : call'[d].step \in Halfway =>
          call'[d].key \in Rows' /\ call'[d].kind = "rotate" /\ call'[d].outcome # "made"
    BY <1>1, <1>2 DEF KInv, KeyData, Fades
  <2>4. /\ key' \in [KeyIds -> KeyRow] /\ call' \in [KeyCalls -> KeyCallRecord]
        /\ excused_lines' \subseteq KeyIds /\ \A j \in KeyIds : key'[j].row <=> key'[j].line # None
    BY DEF Fades, Moves, KInv, KeyData
  <2> QED
    BY <2>1, <2>2, <2>3, <2>4 DEF KeyData
<1>4. LineStands'
  <2> SUFFICES ASSUME NEW l \in Rows
               PROVE  \/ \E j \in Rows : LineOf(j)' = LineOf(l)' /\ key'[j].active
                      \/ \E d \in KeyCalls : BrokenOff(d, LineOf(l))'
    BY DEF LineStands, Fades
  <2>0. LineOf(l)' = LineOf(l) /\ LineOf(l) \in KeyIds
    BY DEF KInv, KeyData, Fades, Rows
  <2>1. ASSUME NEW j \in Rows, LineOf(j) = LineOf(l), key[j].active
        PROVE  LineOf(j)' = LineOf(l)' /\ (key'[j].active \/ BrokenOff(c, LineOf(l))')
    <3>1. LineOf(j)' = LineOf(j)
      BY DEF Fades
    <3> QED
      BY <2>0, <2>1, <3>1
  <2>2. ASSUME NEW d \in KeyCalls, BrokenOff(d, LineOf(l)) PROVE BrokenOff(d, LineOf(l))'
    <3>1. CASE d = c
      BY <2>0, <2>2, <3>1
    <3>2. CASE d # c
      BY <2>0, <2>2, <3>2 DEF BrokenOff, Moves, Fades
    <3> QED
      BY <3>1, <3>2
  <2> QED
    BY <2>1, <2>2 DEF KInv, LineStands
<1> QED
  BY <1>2, <1>3, <1>4 DEF KInv

LEMMA ValidateReadsKeeps ==
  ASSUME KInv, NEW c \in KeyCalls, NEW k \in KeyIds, ValidateReads(c, k)
  PROVE  KInv'
<1>1. Fades /\ key' = key /\ excused_lines' = excused_lines /\ call[c].step = "idle"
  BY KeyFades DEF ValidateReads
<1>2. \E step \in {"stamp", "done"} : \E outcome \in {"none", None} :
        call' = [call EXCEPT ![c] = [kind |-> "validate", key |-> k, step |-> step, outcome |-> outcome, revoked |-> FALSE]]
  <2>1. CASE k \in Rows /\ MayPass(key[k])
    <3>1. (k \in Rows /\ ~key[k].active) = FALSE
      BY <2>1 DEF MayPass
    <3> QED
      BY <2>1, <3>1 DEF ValidateReads, BeginCall
  <2>2. CASE ~(k \in Rows /\ MayPass(key[k]))
    BY <2>2 DEF ValidateReads
  <2> QED
    BY <2>1, <2>2
<1>3. Moves(c) /\ call'[c].kind = "validate" /\ call'[c].step \in {"stamp", "done"} /\ call'[c].revoked = FALSE
  <2>1. PICK step \in {"stamp", "done"}, outcome \in {"none", None} :
          call' = [call EXCEPT ![c] = [kind |-> "validate", key |-> k, step |-> step, outcome |-> outcome, revoked |-> FALSE]]
    BY <1>2
  <2>2. [kind |-> "validate", key |-> k, step |-> step, outcome |-> outcome, revoked |-> FALSE] \in KeyCallRecord
    BY DEF KeyCallRecord
  <2> QED
    BY <2>1, <2>2 DEF Moves, KInv, KeyData
<1> QED
  BY <1>1, <1>3, OffTheLine DEF BrokenOff, Halfway

(* a call that ends with an outcome, whatever it was *)
LEMMA EndsOff ==
  ASSUME KInv, NEW c \in KeyCalls, NEW outcome \in {"made", "valid", "error"}, Ends(c, outcome)
  PROVE  /\ Moves(c) /\ call'[c].step = "done" /\ call'[c].outcome = outcome
         /\ call'[c].kind = call[c].kind /\ call'[c].key = call[c].key /\ call'[c].revoked = call[c].revoked
<1>1. call[c] \in KeyCallRecord /\ call'[c] = [call[c] EXCEPT !.step = "done", !.outcome = outcome]
  BY DEF Ends, KInv, KeyData
<1>2. Moves(c)
  <2>1. [call[c] EXCEPT !.step = "done", !.outcome = outcome] \in KeyCallRecord
    BY <1>1 DEF KeyCallRecord
  <2> QED
    BY <1>1, <2>1 DEF Ends, Moves, KInv, KeyData
<1> QED
  BY <1>1, <1>2 DEF KeyCallRecord

LEMMA ValidateAnswersKeeps ==
  ASSUME KInv, NEW c \in KeyCalls, ValidateAnswers(c)
  PROVE  KInv'
<1>1. Fades /\ key' = key /\ excused_lines' = excused_lines
  BY KeyFades DEF ValidateAnswers
<1>2. call[c].kind = "validate" /\ call[c].revoked = FALSE
  BY DEF ValidateAnswers, KInv, KeyData
<1>3. Moves(c) /\ call'[c].kind = "validate" /\ call'[c].step = "done" /\ call'[c].revoked = FALSE
  BY <1>2, EndsOff DEF ValidateAnswers
<1> QED
  BY <1>1, <1>2, <1>3, OffTheLine DEF BrokenOff, Halfway

LEMMA RevokeKeeps ==
  ASSUME KInv, NEW c \in KeyCalls, NEW k \in KeyIds, RevokeKeyRow(c, k)
  PROVE  KInv'
<1> USE DEF LineOf
<1>1. Moves(c) /\ Fades /\ excused_lines' = excused_lines
  BY KeyFades DEF RevokeKeyRow, Moves, KInv, KeyData, KeyCallRecord
<1>2. /\ call[c].step = "idle" /\ call'[c].kind = "revoke" /\ call'[c].step = "done"
      /\ call'[c].outcome = "error" /\ call'[c].key = k
  BY DEF RevokeKeyRow, KInv, KeyData
<1>3. \A j \in Rows : key'[j].active = key[j].active \/ j = k
  BY DEF RevokeKeyRow, KInv, KeyData, Rows
<1>4. k \in Rows => BrokenOff(c, LineOf(k))'
  BY <1>1, <1>2 DEF BrokenOff, Fades
<1> QED
  BY <1>1, <1>2, <1>3, <1>4, OffTheLine DEF BrokenOff, Halfway

LEMMA KeyCallFailsKeeps ==
  ASSUME KInv, NEW c \in KeyCalls, KeyCallFails(c)
  PROVE  KInv'
<1> USE DEF LineOf
<1>1. Fades /\ key' = key /\ excused_lines' = excused_lines
  BY KeyFades DEF KeyCallFails
<1>2. /\ call'[c].kind = call[c].kind /\ call'[c].key = call[c].key /\ call'[c].revoked = call[c].revoked
      /\ call'[c].step = "done" /\ call'[c].outcome = "error" /\ Moves(c)
  BY EndsOff DEF KeyCallFails
<1>3. \A l : BrokenOff(c, l) => BrokenOff(c, l)'
  BY <1>1, <1>2 DEF BrokenOff, Fades
<1> QED
  BY <1>1, <1>2, <1>3, OffTheLine DEF Halfway, KInv, KeyData

LEMMA ExpiresKeeps ==
  ASSUME KInv, NEW k \in KeyIds, Expires(k)
  PROVE  KInv'
<1> USE DEF LineOf
<1>1. Fades /\ call' = call /\ excused_lines' = excused_lines
  BY KeyFades DEF Expires
<1>2. \A j \in Rows : key'[j].active = key[j].active
  <2>1. key \in [KeyIds -> KeyRow] /\ key' = [key EXCEPT ![k].expired = TRUE]
    BY DEF Expires, KInv, KeyData
  <2> QED
    BY <2>1 DEF KeyRow, Rows
<1>3. KeyData' /\ OneRotation' /\ OthersInactive' /\ OneActivePerLine'
  <2>1. KeyData'
    BY <1>1 DEF KInv, KeyData, Fades
  <2>2. OneRotation' /\ OneActivePerLine'
    BY <1>1, StillOne
  <2>3. OthersInactive'
    BY <1>1, StillInactive
  <2> QED
    BY <2>1, <2>2, <2>3
<1>4. \A c \in KeyCalls : \A l \in Rows : BrokenOff(c, LineOf(l)) => BrokenOff(c, LineOf(l))'
  BY <1>1 DEF BrokenOff, Fades
<1>5. LineStands'
  BY <1>1, <1>2, <1>4 DEF KInv, LineStands, Fades
<1> QED
  BY <1>3, <1>5 DEF KInv

LEMMA RotateReadsKeeps ==
  ASSUME KInv, NEW c \in KeyCalls, NEW k \in KeyIds, RotateReads(c, k)
  PROVE  KInv'
<1> USE DEF LineOf
<1>1. /\ Moves(c) /\ key' = key /\ Rows' = Rows /\ k \in Rows /\ \A j : LineOf(j)' = LineOf(j)
      /\ call[c].step = "idle" /\ call'[c].step = "revoke old" /\ call'[c].kind = "rotate"
      /\ call'[c].key = k /\ call'[c].outcome = None
  BY DEF RotateReads, BeginCall, Moves, KInv, KeyData, KeyCallRecord, Rows, LineOf
<1>2. excused_lines \subseteq excused_lines'
  BY DEF RotateReads
<1>3. ASSUME LineOf(k) \notin excused_lines'
      PROVE  /\ key[k].active
             /\ \A d \in KeyCalls : call[d].step \in Halfway => LineOf(call[d].key) # LineOf(k)
  BY <1>3 DEF RotateReads, Rotating, Halfway
<1>4. KeyData'
  <2>1. \A j \in Rows' : (LineOf(j) \in Rows)'
    BY <1>1 DEF KInv, KeyData
  <2>2. \A d \in KeyCalls : /\ call'[d].step = "stamp" => call'[d].kind = "validate"
                            /\ call'[d].kind = "validate" => call'[d].revoked = FALSE
    BY <1>1 DEF KInv, KeyData, Moves
  <2>3. \A d \in KeyCalls : call'[d].step \in Halfway =>
          call'[d].key \in Rows' /\ call'[d].kind = "rotate" /\ call'[d].outcome # "made"
    BY <1>1, KeysAssumption DEF KInv, KeyData, Moves
  <2>4. excused_lines' \subseteq KeyIds
    <3>1. key[k].line \in KeyIds
      BY <1>1 DEF KInv, KeyData, Rows
    <3> QED
      BY <3>1 DEF RotateReads, KInv, KeyData
  <2> QED
    BY <2>1, <2>2, <2>3, <2>4, <1>1 DEF KeyData, KInv, Moves
<1>5. OneRotation'
  <2> SUFFICES ASSUME NEW d \in KeyCalls, NEW e \in KeyCalls, call'[d].step \in Halfway, call'[e].step \in Halfway,
                      LineOf(call[d].key)' = LineOf(call[e].key)', d # e, LineOf(call[d].key)' \notin excused_lines'
               PROVE  FALSE
    BY DEF OneRotation
  <2>1. CASE d = c
    BY <2>1, <1>1, <1>3 DEF Moves, LineOf
  <2>2. CASE e = c
    BY <2>2, <1>1, <1>3 DEF Moves, LineOf
  <2>3. CASE d # c /\ e # c
    <3>1. OneRotation
      BY DEF KInv
    <3>2. call'[d] = call[d] /\ call'[e] = call[e]
      BY <2>3, <1>1 DEF Moves
    <3> QED
      BY <3>1, <3>2, <1>1, <1>2 DEF OneRotation
  <2> QED
    BY <2>1, <2>2, <2>3
<1>6. OthersInactive'
  <2> SUFFICES ASSUME NEW d \in KeyCalls, NEW j \in Rows, call'[d].step \in Halfway,
                      (LineOf(call[d].key) = LineOf(j))', key[j].active, LineOf(j) \notin excused_lines'
               PROVE  call'[d].step = "revoke old" /\ j = call'[d].key
    BY <1>1 DEF OthersInactive
  <2>1. CASE d = c
    <3>1. LineOf(k) = LineOf(j)
      BY <2>1, <1>1 DEF LineOf
    <3>2. key[k].active /\ LineOf(j) \notin excused_lines
      BY <3>1, <1>2, <1>3
    <3>3. j = k
      <4>1. OneActivePerLine
        BY DEF KInv
      <4> QED
        BY <3>1, <3>2, <4>1, <1>1 DEF OneActivePerLine
    <3> QED
      BY <2>1, <3>3, <1>1
  <2>2. CASE d # c
    <3>1. call'[d] = call[d] /\ key[call[d].key].line = key[j].line
      BY <2>2, <1>1 DEF Moves
    <3>2. OthersInactive
      BY DEF KInv
    <3>3. key[j].line \in excused_lines \/ (call[d].step = "revoke old" /\ j = call[d].key)
      BY <3>1, <3>2 DEF OthersInactive
    <3> QED
      BY <3>1, <3>3, <1>1, <1>2
  <2> QED
    BY <2>1, <2>2
<1>7. OneActivePerLine'
  BY <1>1, <1>2 DEF KInv, OneActivePerLine
<1>8. \A d \in KeyCalls : \A l : BrokenOff(d, l) => BrokenOff(d, l)'
  BY <1>1 DEF BrokenOff, Moves, LineOf
<1>9. LineStands'
  BY <1>1, <1>8 DEF KInv, LineStands
<1> QED
  BY <1>4, <1>5, <1>6, <1>7, <1>9 DEF KInv

LEMMA RotateRevokesKeeps ==
  ASSUME KInv, NEW c \in KeyCalls, RotateRevokes(c)
  PROVE  KInv'
<1> USE DEF LineOf
<1>1. /\ Moves(c) /\ Fades /\ excused_lines' = excused_lines
      /\ call[c].step = "revoke old" /\ call'[c] = [call[c] EXCEPT !.step = "make new"]
  <2>1. /\ call[c].step = "revoke old" /\ call' = [call EXCEPT ![c].step = "make new"]
        /\ key' = [key EXCEPT ![call[c].key].active = FALSE] /\ excused_lines' = excused_lines
    BY DEF RotateRevokes
  <2>2. call \in [KeyCalls -> KeyCallRecord]
    BY DEF KInv, KeyData
  <2>3. Moves(c)
    BY <2>1, <2>2 DEF Moves, KeyCallRecord
  <2>4. Fades
    BY <2>1, KeyFades
  <2> QED
    BY <2>1, <2>2, <2>3, <2>4
<1>2. call[c].key \in Rows /\ call[c].kind = "rotate" /\ call[c].outcome # "made"
  BY <1>1 DEF KInv, KeyData, Halfway
<1>3. /\ call'[c].step = "make new" /\ call'[c].key = call[c].key /\ call'[c].kind = call[c].kind
      /\ call'[c].outcome = call[c].outcome /\ call'[c].revoked = call[c].revoked
  BY <1>1 DEF KInv, KeyData, KeyCallRecord
<1>4. key'[call[c].key].active = FALSE /\ \A j \in Rows : j # call[c].key => key'[j].active = key[j].active
  BY <1>2 DEF RotateRevokes, KInv, KeyData, KeyRow, Rows
<1>5. \A d \in KeyCalls : call'[d].step \in Halfway =>
        /\ call[d].step \in Halfway /\ call'[d].key = call[d].key /\ call[d].key \in Rows
        /\ (d # c => call'[d] = call[d])
        /\ key'[call[d].key].line = key[call[d].key].line
  BY <1>1, <1>3 DEF KInv, KeyData, Moves, Halfway, Fades, LineOf
<1>6. KeyData'
  <2>1. \A k \in Rows' : (LineOf(k) \in Rows)'
    BY <1>1 DEF KInv, KeyData, Fades
  <2>2. \A d \in KeyCalls : /\ call'[d].step = "stamp" => call'[d].kind = "validate"
                            /\ call'[d].kind = "validate" => call'[d].revoked = FALSE
    BY <1>1, <1>2, <1>3 DEF KInv, KeyData, Moves
  <2>3. \A d \in KeyCalls : call'[d].step \in Halfway =>
          call'[d].key \in Rows' /\ call'[d].kind = "rotate" /\ call'[d].outcome # "made"
    <3> SUFFICES ASSUME NEW d \in KeyCalls, call'[d].step \in Halfway
                 PROVE  call'[d].key \in Rows' /\ call'[d].kind = "rotate" /\ call'[d].outcome # "made"
      OBVIOUS
    <3>1. call'[d].key = call[d].key /\ call[d].key \in Rows /\ Rows' = Rows /\ call[d].step \in Halfway
      BY <1>1, <1>5 DEF Fades
    <3>2. CASE d = c
      BY <1>2, <1>3, <3>1, <3>2
    <3>3. CASE d # c
      BY <1>5, <3>1, <3>3 DEF KInv, KeyData
    <3> QED
      BY <3>2, <3>3
  <2>4. /\ key' \in [KeyIds -> KeyRow] /\ call' \in [KeyCalls -> KeyCallRecord]
        /\ excused_lines' \subseteq KeyIds /\ \A j \in KeyIds : key'[j].row <=> key'[j].line # None
    BY <1>1 DEF Fades, Moves, KInv, KeyData
  <2> QED
    BY <2>1, <2>2, <2>3, <2>4 DEF KeyData
<1>7. OneRotation' /\ OneActivePerLine'
  BY <1>1, <1>5, StillOne
<1>8. OthersInactive'
  <2> SUFFICES ASSUME NEW d \in KeyCalls, NEW j \in Rows, call'[d].step \in Halfway,
                      (LineOf(call[d].key) = LineOf(j))', key'[j].active, LineOf(j)' \notin excused_lines
               PROVE  call'[d].step = "revoke old" /\ j = call'[d].key
    BY <1>1 DEF OthersInactive, Fades
  <2>1. LineOf(j)' = LineOf(j) /\ key[j].active
    BY <1>1 DEF Fades
  <2>2. LineOf(call[d].key) = LineOf(j)
    BY <2>1, <1>5 DEF LineOf
  <2>3. call[d].step = "revoke old" /\ j = call[d].key
    BY <2>1, <2>2, <1>5 DEF KInv, OthersInactive
  <2>4. d # c
    BY <2>3, <1>4
  <2> QED
    BY <2>3, <2>4, <1>5
<1>10. LineStands'
  <2> SUFFICES ASSUME NEW l \in Rows
               PROVE  \/ \E j \in Rows : LineOf(j)' = LineOf(l)' /\ key'[j].active
                      \/ \E d \in KeyCalls : BrokenOff(d, LineOf(l))'
    BY <1>1 DEF LineStands, Fades
  <2>1. CASE LineOf(l) = LineOf(call[c].key)
    <3>1. call'[c].key \in Rows' /\ key'[call'[c].key].line = key'[l].line
      <4>1. \A j \in Rows : j \in Rows' /\ key'[j].line = key[j].line
        BY <1>1 DEF Fades
      <4> QED
        BY <4>1, <2>1, <1>2, <1>3
    <3>2. BrokenOff(c, key[l].line)'
      BY <3>1, <2>1, <1>1, <1>2, <1>3 DEF BrokenOff, Fades
    <3> QED
      BY <3>2, <1>1 DEF Fades
  <2>2. CASE LineOf(l) # LineOf(call[c].key)
    <3>1. ASSUME NEW j \in Rows, LineOf(j) = LineOf(l), key[j].active PROVE key'[j].active /\ LineOf(j)' = LineOf(l)'
      BY <3>1, <2>2, <1>1, <1>4 DEF Fades
    <3>2. ASSUME NEW d \in KeyCalls, BrokenOff(d, LineOf(l)) PROVE BrokenOff(d, LineOf(l))'
      BY <3>2, <2>2, <1>1 DEF BrokenOff, Moves, Fades
    <3> QED
      BY <3>1, <3>2 DEF KInv, LineStands
  <2> QED
    BY <2>1, <2>2
<1> QED
  BY <1>6, <1>7, <1>8, <1>10 DEF KInv

LEMMA RotateMakesKeeps ==
  ASSUME KInv, NEW c \in KeyCalls, NEW k \in KeyIds, RotateMakes(c, k)
  PROVE  KInv'
<1> USE DEF LineOf
<1> DEFINE l == LineOf(call[c].key)
<1>1. call[c].step = "make new" /\ call[c].key \in Rows /\ l \in Rows /\ l \in KeyIds /\ call[c].kind = "rotate"
  BY DEF RotateMakes, KInv, KeyData, Halfway, Rows
<1>2. /\ Rows' = Rows \cup {k} /\ k \notin Rows /\ key' \in [KeyIds -> KeyRow]
      /\ \A j \in KeyIds : key'[j].row <=> key'[j].line # None
      /\ LineOf(k)' = l /\ key'[k].active
      /\ \A j \in Rows : LineOf(j)' = LineOf(j) /\ key'[j].active = key[j].active
  BY <1>1, MakesRow DEF RotateMakes
<1>3. Moves(c) /\ excused_lines' = excused_lines /\ call'[c].step = "done" /\ call'[c].kind = "rotate"
  BY <1>1, EndsOff DEF RotateMakes
<1>4. \A d \in KeyCalls : call'[d].step \in Halfway =>
        /\ d # c /\ call'[d] = call[d] /\ call[d].key \in Rows
        /\ key'[call[d].key].line = key[call[d].key].line
        /\ LineOf(call[d].key) = l => l \in excused_lines
  BY <1>1, <1>2, <1>3 DEF KInv, KeyData, OneRotation, Moves, Halfway, LineOf
<1>5. KeyData'
  <2>1. \A j \in Rows' : (LineOf(j) \in Rows)'
    BY <1>1, <1>2 DEF KInv, KeyData
  <2>2. \A d \in KeyCalls : /\ call'[d].step = "stamp" => call'[d].kind = "validate"
                            /\ call'[d].kind = "validate" => call'[d].revoked = FALSE
    BY <1>3 DEF KInv, KeyData, Moves
  <2>3. \A d \in KeyCalls : call'[d].step \in Halfway =>
          call'[d].key \in Rows' /\ call'[d].kind = "rotate" /\ call'[d].outcome # "made"
    BY <1>2, <1>4 DEF KInv, KeyData
  <2>4. excused_lines' \subseteq KeyIds /\ call' \in [KeyCalls -> KeyCallRecord]
    BY <1>3 DEF KInv, KeyData, Moves
  <2> QED
    BY <2>1, <2>2, <2>3, <2>4, <1>2 DEF KeyData
<1>6. OneRotation'
  BY <1>3, <1>4 DEF KInv, OneRotation, LineOf
<1>7. OthersInactive'
  <2> SUFFICES ASSUME NEW d \in KeyCalls, NEW j \in Rows', call'[d].step \in Halfway,
                      (LineOf(call[d].key) = LineOf(j))', key'[j].active, LineOf(j)' \notin excused_lines'
               PROVE  call'[d].step = "revoke old" /\ j = call'[d].key
    BY DEF OthersInactive
  <2>1. /\ call'[d] = call[d] /\ key[call[d].key].line = key'[j].line
        /\ key[call[d].key].line = l => l \in excused_lines
    BY <1>4
  <2>2. j \in Rows /\ key[j].active /\ key'[j].line = key[j].line
    BY <2>1, <1>2, <1>3
  <2>3. OthersInactive
    BY DEF KInv
  <2> QED
    BY <2>1, <2>2, <2>3, <1>3 DEF OthersInactive
<1>8. OneActivePerLine'
  <2>1. ASSUME NEW j \in Rows, key[j].active, LineOf(j) = l PROVE l \in excused_lines
    BY <2>1, <1>1 DEF KInv, OthersInactive, Halfway
  <2> SUFFICES ASSUME NEW i \in Rows', NEW j \in Rows', i # j, key'[i].active, key'[j].active,
                      LineOf(i)' = LineOf(j)'
               PROVE  (LineOf(i) \in excused_lines)'
    BY DEF OneActivePerLine
  <2>2. CASE i \in Rows /\ j \in Rows
    BY <2>2, <1>2, <1>3 DEF KInv, OneActivePerLine
  <2>3. CASE i = k
    BY <2>3, <2>1, <1>2, <1>3
  <2>4. CASE j = k
    BY <2>4, <2>1, <1>2, <1>3
  <2> QED
    BY <2>2, <2>3, <2>4, <1>2
<1>9. LineStands'
  <2> SUFFICES ASSUME NEW m \in Rows'
               PROVE  \/ \E j \in Rows' : LineOf(j)' = LineOf(m)' /\ key'[j].active
                      \/ \E d \in KeyCalls : BrokenOff(d, LineOf(m))'
    BY DEF LineStands
  <2>1. CASE LineOf(m)' = l
    BY <2>1, <1>2
  <2>2. CASE LineOf(m)' # l
    <3>1. m \in Rows /\ LineOf(m)' = LineOf(m)
      BY <2>2, <1>2
    <3>2. ASSUME NEW d \in KeyCalls, BrokenOff(d, LineOf(m)) PROVE BrokenOff(d, LineOf(m))'
      BY <3>1, <3>2, <2>2, <1>2, <1>3 DEF BrokenOff, Moves, LineOf
    <3> QED
      BY <3>1, <3>2, <1>2 DEF KInv, LineStands
  <2> QED
    BY <2>1, <2>2
<1> QED
  BY <1>5, <1>6, <1>7, <1>8, <1>9 DEF KInv

LEMMA KeysNextKeeps ==
  ASSUME KInv, [KeysNext]_key_vars
  PROVE  KInv'
<1> USE DEF LineOf
<1>1. CASE UNCHANGED key_vars
  <2>1. key' = key /\ call' = call /\ excused_lines' = excused_lines
    BY <1>1 DEF key_vars
  <2>2. Rows' = Rows
    BY <2>1 DEF Rows
  <2> QED
    BY <2>1, <2>2 DEF KInv, KeyData, OneRotation, OthersInactive, OneActivePerLine, LineStands, BrokenOff
<1>2. CASE KeysNext
  BY <1>2, CreateKeyKeeps, ValidateReadsKeeps, RevokeKeeps, RotateReadsKeeps, RotateMakesKeeps, ValidateAnswersKeeps,
     RotateRevokesKeeps, KeyCallFailsKeeps, ExpiresKeeps DEF KeysNext
<1> QED
  BY <1>1, <1>2

-----------------------------------------------------------------------------
LEMMA VaultInitInv == VaultInit => VInv
<1> SUFFICES ASSUME VaultInit PROVE VInv
  OBVIOUS
<1>1. /\ moment \in 0..LastMoment /\ client \in BOOLEAN
      /\ vault \in [Paths -> 1..LastChange] /\ own \in [Paths -> Nat]
      /\ \A p \in Paths : own[p] <= vault[p]
  <2>1. 0 \in 0..LastMoment /\ 1 \in 1..LastChange
    BY VaultAssumption
  <2>2. vault \in [Paths -> 1..LastChange] /\ own \in [Paths -> Nat]
    BY <2>1 DEF VaultInit
  <2>3. \A p \in Paths : own[p] = 0 /\ vault[p] = 1
    BY DEF VaultInit
  <2>4. moment = 0
    BY DEF VaultInit
  <2>5. client \in BOOLEAN
    BY DEF VaultInit
  <2>6. moment \in 0..LastMoment
    BY <2>1, <2>4
  <2>7. \A p \in Paths : own[p] <= vault[p]
    BY <2>3
  <2> QED
    BY <2>2, <2>5, <2>6, <2>7
<1>2. replaced \in [Paths -> [1..LastChange -> Nat \cup {None}]]
  BY DEF VaultInit
<1>3. secret_cache \in [Paths -> [Parts -> CacheEntry \cup {None}]]
  BY DEF VaultInit
<1>4. \A p \in Paths : \A part \in Parts : secret_cache[p][part] = None
  BY DEF VaultInit
<1> QED
  BY <1>1, <1>2, <1>3, <1>4 DEF VInv, EntryOK

(* where nothing is put into the cache and no secret is changed *)
LEMMA VaultStands ==
  ASSUME VInv, moment' \in moment..LastMoment, client' \in BOOLEAN,
         UNCHANGED <<vault, replaced, own, secret_cache>>
  PROVE  VInv'
<1>1. \A p \in Paths : \A part \in Parts : EntryOK(secret_cache[p][part], p)'
  <2> SUFFICES ASSUME NEW p \in Paths, NEW part \in Parts PROVE EntryOK(secret_cache[p][part], p)'
    OBVIOUS
  <2>1. EntryOK(secret_cache[p][part], p) /\ secret_cache[p][part] \in CacheEntry \cup {None}
    BY DEF VInv
  <2>2. moment' >= moment /\ moment \in Nat /\ moment' \in Nat
    BY VaultAssumption DEF VInv
  <2> QED
    BY <2>1, <2>2, VaultAssumption DEF EntryOK, CacheEntry
<1> QED
  BY <1>1, VaultAssumption DEF VInv

(* a secret is replaced, by anyone: what is cached of it was replaced just now *)
LEMMA EntriesAge ==
  ASSUME VInv, NEW p \in Paths, Changed(p), moment' = moment, own' = own,
         NEW q \in Paths, NEW entry \in CacheEntry \cup {None}, EntryOK(entry, q)
  PROVE  EntryOK(entry, q)'
<1>1. /\ moment \in Nat /\ vault[q] \in 1..LastChange /\ vault[p] \in 1..LastChange /\ own[q] \in Nat
      /\ vault'[q] = IF q = p THEN vault[p] + 1 ELSE vault[q]
  BY VaultAssumption DEF VInv, Changed
<1>2. \A c \in 1..LastChange : replaced'[q][c] = IF q = p /\ c = vault[p] THEN moment ELSE replaced[q][c]
  BY <1>1 DEF VInv, Changed
<1> SUFFICES ASSUME entry # None PROVE EntryOK(entry, q)'
  BY DEF EntryOK
<1>3. entry.value \in Nat /\ entry.expiry \in Nat
  BY DEF CacheEntry
<1>4. CASE entry.value = vault[q] /\ entry.expiry <= moment + CacheTtl
  <2>1. CASE q = p
    BY <1>1, <1>2, <1>3, <1>4, <2>1, VaultAssumption DEF EntryOK
  <2>2. CASE q # p
    BY <1>1, <1>2, <1>3, <1>4, <2>2, VaultAssumption DEF EntryOK
  <2> QED
    BY <2>1, <2>2
<1>5. CASE /\ entry.value < vault[q] /\ replaced[q][entry.value] \in Nat
           /\ entry.expiry <= replaced[q][entry.value] + CacheTtl
  <2>1. entry.value \in 1..LastChange /\ ~(q = p /\ entry.value = vault[p])
    BY <1>1, <1>3, <1>5, VaultAssumption DEF EntryOK
  <2>2. replaced'[q][entry.value] = replaced[q][entry.value]
    BY <1>2, <2>1
  <2>3. vault[q] <= vault'[q] /\ vault'[q] \in Nat
    BY <1>1, VaultAssumption
  <2> QED
    BY <1>1, <1>3, <1>5, <2>2, <2>3 DEF EntryOK
<1> QED
  BY <1>4, <1>5 DEF EntryOK

LEMMA ChangedTypes ==
  ASSUME VInv, NEW p \in Paths, Changed(p)
  PROVE  /\ vault' \in [Paths -> 1..LastChange]
         /\ replaced' \in [Paths -> [1..LastChange -> Nat \cup {None}]]
         /\ vault'[p] = vault[p] + 1 /\ \A q \in Paths : q # p => vault'[q] = vault[q]
<1>1. vault[p] + 1 \in 1..LastChange /\ vault[p] \in 1..LastChange /\ moment \in Nat
  BY VaultAssumption DEF VInv, Changed
<1>2. [replaced[p] EXCEPT ![vault[p]] = moment] \in [1..LastChange -> Nat \cup {None}]
  BY <1>1 DEF VInv
<1> QED
  BY <1>1, <1>2 DEF VInv, Changed

LEMMA SetSecretKeeps ==
  ASSUME VInv, NEW p \in Paths, SetSecret(p)
  PROVE  VInv'
<1>1. /\ vault' \in [Paths -> 1..LastChange]
      /\ replaced' \in [Paths -> [1..LastChange -> Nat \cup {None}]]
      /\ vault'[p] = vault[p] + 1 /\ \A q \in Paths : q # p => vault'[q] = vault[q]
  BY ChangedTypes DEF SetSecret
<1>2. own' \in [Paths -> Nat] /\ \A q \in Paths : own'[q] <= vault'[q] /\ (q # p => own'[q] = own[q])
  <2>1. vault[p] + 1 \in Nat /\ \A q \in Paths : own[q] \in Nat /\ vault[q] \in Nat /\ own[q] <= vault[q]
    BY VaultAssumption DEF VInv
  <2> QED
    BY <1>1, <2>1 DEF SetSecret, VInv
<1>3. secret_cache' = [secret_cache EXCEPT ![p] = [part \in Parts |-> None]]
  BY DEF SetSecret, Forgets
<1>4. secret_cache' \in [Paths -> [Parts -> CacheEntry \cup {None}]]
  BY <1>3 DEF VInv
<1>5. ASSUME NEW q \in Paths, NEW part \in Parts PROVE EntryOK(secret_cache[q][part], q)'
  <2>1. CASE q = p
    <3>1. secret_cache'[q][part] = None
      BY <1>3, <2>1 DEF VInv
    <3> QED
      BY <3>1 DEF EntryOK
  <2>2. CASE q # p
    <3>1. /\ secret_cache'[q][part] = secret_cache[q][part] /\ own'[q] = own[q] /\ vault'[q] = vault[q]
          /\ replaced'[q] = replaced[q] /\ moment' = moment
      BY <1>1, <1>2, <1>3, <2>2 DEF VInv, SetSecret, Changed
    <3> QED
      BY <3>1 DEF VInv, EntryOK
  <2> QED
    BY <2>1, <2>2
<1>6. moment' = moment /\ client' \in BOOLEAN
  BY DEF SetSecret, Connects
<1> QED
  BY <1>1, <1>2, <1>4, <1>5, <1>6 DEF VInv

LEMMA OthersSetKeeps ==
  ASSUME VInv, NEW p \in Paths, Changed(p), client' \in BOOLEAN, UNCHANGED <<moment, own, secret_cache>>
  PROVE  VInv'
<1>1. /\ vault' \in [Paths -> 1..LastChange]
      /\ replaced' \in [Paths -> [1..LastChange -> Nat \cup {None}]]
      /\ vault'[p] = vault[p] + 1 /\ \A q \in Paths : q # p => vault'[q] = vault[q]
  BY ChangedTypes
<1>2. \A q \in Paths : own'[q] <= vault'[q]
  <2>1. \A q \in Paths : own[q] \in Nat /\ vault[q] \in Nat /\ own[q] <= vault[q]
    BY VaultAssumption DEF VInv
  <2> QED
    BY <1>1, <2>1
<1>3. \A q \in Paths : \A part \in Parts : EntryOK(secret_cache[q][part], q)'
  <2> SUFFICES ASSUME NEW q \in Paths, NEW part \in Parts PROVE EntryOK(secret_cache[q][part], q)'
    OBVIOUS
  <2>1. secret_cache[q][part] \in CacheEntry \cup {None} /\ EntryOK(secret_cache[q][part], q)
    BY DEF VInv
  <2> QED
    BY <2>1, EntriesAge DEF EntryOK
<1> QED
  BY <1>1, <1>2, <1>3 DEF VInv

LEMMA GetFromVaultKeeps ==
  ASSUME VInv, NEW p \in Paths, NEW part \in Parts, GetFromVault(p, part)
  PROVE  VInv'
<1> DEFINE entry == [value |-> vault[p], expiry |-> moment + CacheTtl]
<1>1. entry \in CacheEntry /\ EntryOK(entry, p)
  BY VaultAssumption DEF VInv, CacheEntry, EntryOK
<1>2. /\ secret_cache' = [secret_cache EXCEPT ![p][part] = entry]
      /\ UNCHANGED <<moment, vault, replaced, own>> /\ client' = TRUE
  BY DEF GetFromVault, Connects
<1> HIDE DEF entry
<1>3. /\ secret_cache' \in [Paths -> [Parts -> CacheEntry \cup {None}]]
      /\ \A q \in Paths : \A other \in Parts :
           secret_cache'[q][other] = IF q = p /\ other = part THEN entry ELSE secret_cache[q][other]
  <2>1. [secret_cache[p] EXCEPT ![part] = entry] \in [Parts -> CacheEntry \cup {None}]
    BY <1>1 DEF VInv
  <2> QED
    BY <1>2, <2>1 DEF VInv
<1>4. \A q \in Paths : \A other \in Parts : EntryOK(secret_cache[q][other], q)'
  BY <1>1, <1>2, <1>3 DEF VInv, EntryOK
<1> QED
  BY <1>2, <1>3, <1>4 DEF VInv

LEMMA VaultNextKeeps ==
  ASSUME VInv, [VaultNext]_vault_vars
  PROVE  VInv'
<1>0. moment \in Nat /\ moment <= LastMoment /\ LastMoment \in Nat
  BY VaultAssumption DEF VInv
<1>1. CASE UNCHANGED vault_vars
  BY <1>0, <1>1, VaultStands DEF vault_vars, VInv
<1>2. CASE MomentPasses
  <2>1. moment' \in moment..LastMoment
    BY <1>0, <1>2 DEF MomentPasses
  <2> QED
    BY <1>2, <2>1, VaultStands DEF MomentPasses, VInv
<1>3. ASSUME NEW p \in Paths, SetSecretFails(p) PROVE VInv'
  <2>1. client' \in BOOLEAN
    BY <1>3 DEF SetSecretFails, Connects
  <2>2. CASE Changed(p)
    BY <1>3, <2>1, <2>2, OthersSetKeeps DEF SetSecretFails
  <2>3. CASE UNCHANGED <<vault, replaced>>
    BY <1>0, <1>3, <2>1, <2>3, VaultStands DEF SetSecretFails
  <2> QED
    BY <1>3, <2>2, <2>3 DEF SetSecretFails
<1>4. ASSUME NEW p \in Paths, NEW part \in Parts, GetCached(p, part) \/ VaultNotConnected(p, part) \/ VaultReadFails(p, part)
      PROVE  VInv'
  <2>1. client' \in BOOLEAN /\ UNCHANGED <<moment, vault, replaced, own, secret_cache>>
    BY <1>4 DEF GetCached, VaultNotConnected, VaultReadFails, FallsBack, Connects, VInv
  <2> QED
    BY <1>0, <2>1, VaultStands
<1>5. ASSUME NEW p \in Paths, OthersSet(p) PROVE VInv'
  BY <1>5, OthersSetKeeps DEF OthersSet, VInv
<1> QED
  BY <1>1, <1>2, <1>3, <1>4, <1>5, SetSecretKeeps, GetFromVaultKeeps DEF VaultNext

LEMMA FreshByInvariant == VInv => SecretsAreFresh
<1> SUFFICES ASSUME VInv, NEW p \in Paths, NEW part \in Parts, Cached(p, part)
             PROVE  /\ secret_cache[p][part].value >= own[p]
                    /\ \/ secret_cache[p][part].value = vault[p]
                       \/ moment - replaced[p][secret_cache[p][part].value] < CacheTtl
  BY DEF SecretsAreFresh
<1>1. secret_cache[p][part] # None /\ moment < secret_cache[p][part].expiry
  BY DEF Cached
<1>2. secret_cache[p][part] \in CacheEntry /\ EntryOK(secret_cache[p][part], p)
  BY <1>1 DEF VInv
<1>3. moment \in Nat /\ own[p] \in Nat
  BY VaultAssumption DEF VInv
<1> QED
  BY <1>1, <1>2, <1>3, VaultAssumption DEF EntryOK, CacheEntry

-----------------------------------------------------------------------------
LEMMA UsersInitInv == UsersInit => UInv
  BY UsersAssumption DEF UsersInit, UInv, UserData, LetIn, LoginRecord

LEMMA EditedKeeps ==
  ASSUME UInv, NEW e \in Emails, NEW row \in UserRow, Edited([account EXCEPT ![e] = row]),
         \/ retired' = retired /\ (e \in retired => row.active = FALSE)
         \/ retired' = retired \cup {e} /\ row.active = FALSE
  PROVE  UInv'
<1>1. account' = [account EXCEPT ![e] = row] /\ authentication' = authentication /\ user_edits' \in 0..MaxUserEdits
  BY UsersAssumption DEF Edited, UInv, UserData, LetIn, LoginRecord
<1>2. account' \in [Emails -> UserRow \cup {None}] /\ row # None
  BY <1>1, UsersAssumption DEF UInv, UserData, LetIn, LoginRecord, UserRow
<1>3. \A f \in retired' : f \in Emails /\ account'[f] # None /\ account'[f].active = FALSE
  BY <1>1, <1>2 DEF UInv, UserData, LetIn, LoginRecord
<1>4. DOMAIN fitted' = Authentications /\ \A a \in Authentications : fitted[a] = TRUE => fitted'[a] = TRUE
  BY DEF Edited
<1> QED
  BY <1>1, <1>2, <1>3, <1>4 DEF UInv, UserData, LetIn, LoginRecord

LEMMA UsersNextKeeps ==
  ASSUME UInv, [UsersNext]_user_vars
  PROVE  UInv'
<1>0. \A e \in Emails : account[e] # None => account[e] \in UserRow
  BY DEF UInv, UserData, LetIn, LoginRecord
<1>1. CASE UNCHANGED user_vars
  BY <1>1 DEF user_vars, UInv, UserData, LetIn, LoginRecord
<1>2. ASSUME NEW e \in Emails, DeactivateUser(e) PROVE UInv'
  <2> DEFINE row == [account[e] EXCEPT !.active = FALSE]
  <2>1. row \in UserRow /\ row.active = FALSE
    BY <1>0, <1>2 DEF DeactivateUser, UserRow
  <2>2. [account EXCEPT ![e].active = FALSE] = [account EXCEPT ![e] = row]
    BY DEF UInv, UserData, LetIn, LoginRecord
  <2> QED
    BY <1>2, <2>1, <2>2, EditedKeeps DEF DeactivateUser
<1>3. ASSUME NEW e \in Emails, NEW role \in Roles, UpdateRole(e, role) PROVE UInv'
  <2> DEFINE row == [account[e] EXCEPT !.role = role]
  <2>1. row \in UserRow /\ row.active = account[e].active
    BY <1>0, <1>3 DEF UpdateRole, UserRow
  <2>2. [account EXCEPT ![e].role = role] = [account EXCEPT ![e] = row]
    BY DEF UInv, UserData, LetIn, LoginRecord
  <2>3. e \in retired => row.active = FALSE
    BY <2>1 DEF UInv, UserData, LetIn, LoginRecord
  <2> QED
    BY <1>3, <2>1, <2>2, <2>3, EditedKeeps DEF UpdateRole
<1>4. ASSUME NEW e \in Emails, NEW password \in Passwords, NEW role \in Roles, CreateUser(e, password, role) PROVE UInv'
  <2> DEFINE row == Upserted(account[e], password, role)
  <2>1. row \in UserRow
    BY <1>0 DEF Upserted, UserRow
  <2>2. e \in retired => row.active = FALSE
    BY DEF UInv, UserData, LetIn, LoginRecord, Upserted
  <2> QED
    BY <1>4, <2>1, <2>2, EditedKeeps DEF CreateUser
<1>5. ASSUME NEW a \in Authentications, NEW e \in Emails, NEW password \in Passwords, ReadUser(a, e, password) PROVE UInv'
  <2>1. CASE Admits(account[e], password)
    <3>1. account[e] \in UserRow
      BY <1>0, <2>1 DEF Admits, LetsIn
    <3>2. /\ [step |-> "stamp", email |-> e, password |-> password, user |-> [email |-> e, role |-> account[e].role]]
                \in LoginRecord
      BY <3>1 DEF UserRow, LoginRecord
    <3>3. LetsIn(account[e], password) = TRUE
      BY <2>1 DEF Admits, LetsIn
    <3> QED
      BY <1>5, <2>1, <3>2, <3>3 DEF ReadUser, UInv, UserData, LetIn, LoginRecord
  <2>2. CASE ~Admits(account[e], password)
    BY <1>5, <2>2 DEF ReadUser, UInv, UserData, LetIn, LoginRecord
  <2> QED
    BY <2>1, <2>2
<1>6. ASSUME NEW a \in Authentications, StampLogin(a) \/ StampFails(a) PROVE UInv'
  <2>1. CASE StampLogin(a)
    BY <2>1 DEF StampLogin, UInv, UserData, LetIn, LoginRecord
  <2>2. CASE StampFails(a)
    <3>1. /\ authentication[a] \in LoginRecord
          /\ authentication' = [authentication EXCEPT ![a] = [authentication[a] EXCEPT !.step = "done", !.user = None]]
      BY <2>2 DEF StampFails, UInv, UserData
    <3>2. /\ [authentication[a] EXCEPT !.step = "done", !.user = None] \in LoginRecord
          /\ [authentication[a] EXCEPT !.step = "done", !.user = None].user = None
      BY <3>1 DEF LoginRecord
    <3> QED
      BY <2>2, <3>1, <3>2 DEF StampFails, UInv, UserData, LetIn
  <2> QED
    BY <1>6, <2>1, <2>2
<1> QED
  BY <1>1, <1>2, <1>3, <1>4, <1>5, <1>6 DEF UsersNext

LEMMA RetiredByInvariant == UInv => RetiredForGood
  BY DEF UInv, UserData, LetIn, LoginRecord, RetiredForGood

LEMMA DueByInvariant == UInv => LoginsWereDue
<1> SUFFICES ASSUME UInv, NEW a \in Authentications, authentication[a].user # None
             PROVE  LET user == authentication[a].user IN
                      /\ fitted[a]
                      /\ MeetsRole(user, "admin") => \A p \in Permissions : HasPermission(user, p)
                      /\ \A r \in Roles \ {"auditor"} : MeetsRole(user, r) =>
                           \A p \in RolePermissions[r] : HasPermission(user, p)
  BY DEF LoginsWereDue, LoggedIn
<1> DEFINE user == authentication[a].user
<1>1. user \in [email : Emails, role : Roles] /\ user # None /\ fitted[a] = TRUE
  <2>1. authentication[a].user \in [email : Emails, role : Roles] \cup {None}
    BY DEF UInv, UserData, LetIn, LoginRecord
  <2>2. LetIn
    BY DEF UInv
  <2>3. fitted[a] = TRUE
    BY <2>2 DEF LetIn
  <2> QED
    BY <2>1, <2>3
<1>2. Roles = {"viewer", "auditor", "operator", "admin"}
  BY DEF Roles, RolePermissions
<1>3. /\ Level["viewer"] = 1 /\ Level["auditor"] = 2 /\ Level["operator"] = 3 /\ Level["admin"] = 4
  BY DEF Level
<1>4. user.role \in Roles
  BY <1>1
<1> HIDE DEF user
<1>5. MeetsRole(user, "admin") => user.role = "admin"
  BY <1>2, <1>3, <1>4 DEF MeetsRole
<1>6. RolePermissions["viewer"] \subseteq RolePermissions["operator"] /\ RolePermissions["viewer"] \subseteq RolePermissions["auditor"]
  BY DEF RolePermissions
<1>7. ASSUME NEW r \in Roles \ {"auditor"}, MeetsRole(user, r), user.role # "admin"
      PROVE  RolePermissions[r] \subseteq RolePermissions[user.role]
  BY <1>2, <1>3, <1>4, <1>6, <1>7 DEF MeetsRole
<1> QED
  BY <1>1, <1>5, <1>7 DEF HasPermission, user

-----------------------------------------------------------------------------
(* The detectors of prompt injection. *)

(* what a check that ended says, and how a scan stands *)
CheckGraded ==
  /\ check.text \in Texts
  /\ check.step = "done" =>
       /\ check.result.layer = "regex" => check.result.action \in {"block", "block_and_alert"}
       /\ check.result.action \in {"flag", "redact"} =>
            check.judge # None /\ check.judge.injection /\ check.judge.confidence \in 50..79
       /\ check.result.detected <=> check.result.action # "allow"

CheckRecord == [text : Texts, step : {"prepare", "judge", "done"}, judge : [injection : BOOLEAN, confidence : Confidences] \cup {None},
                result : Results \cup {None}]

(* the names of its categories, and how a scan of them stands *)
CategoryNames == {CategoryTable[i][1] : i \in DOMAIN CategoryTable}

ScanStands ==
  /\ scan \in [next : 1..7, matched : SUBSET CategoryNames, weight : 0..100, severity : DOMAIN Order]
  /\ IsFiniteSet(scan.matched)
  /\ scan.matched = {} => scan.weight = 0
  /\ scan.matched # {} => scan.weight \in 50..100 /\ scan.severity \in {"medium", "high", "critical"}

JInv == check \in CheckRecord /\ CheckGraded /\ ScanStands

(* every score is one of 72..97, every threshold one of 80..95 *)
LEMMA PatternTable ==
  \A i \in DOMAIN Patterns : /\ i \in 1..36 /\ Patterns[i][1] \in 72..97
                             /\ Threshold(Patterns[i][2]) \in 80..95
<1>1. DOMAIN Patterns = 1..36
  BY DEF Patterns
<1>2. ASSUME NEW i \in 1..36 PROVE Patterns[i][1] \in 72..97 /\ Patterns[i][2] \in DOMAIN Thresholds
  BY DEF Patterns, Thresholds
<1>3. \A c \in DOMAIN Thresholds : Threshold(c) \in 80..95
  BY DEF Thresholds, Threshold
<1> QED
  BY <1>1, <1>2, <1>3

(* of patterns that matched one is the best: the greatest score, of equal ones the first *)
LEMMA BestExists ==
  ASSUME NEW matched \in SUBSET DOMAIN Patterns, matched # {}
  PROVE  \E i \in matched : \A j \in matched :
           Patterns[i][1] > Patterns[j][1] \/ (Patterns[i][1] = Patterns[j][1] /\ i <= j)
<1> DEFINE rank(i) == 100 * (97 - Patterns[i][1]) + i
           ranks == {rank(i) : i \in matched}
<1>1. \A i \in matched : i \in 1..36 /\ Patterns[i][1] \in 72..97
  BY PatternTable
<1>2. \A i \in matched : rank(i) \in Nat
  BY <1>1
<1>3. ranks \in SUBSET Nat /\ ranks # {}
  BY <1>2
<1>4. PICK m \in ranks : \A k \in ranks : m <= k
  BY <1>3, LeastNatural
<1>5. PICK i \in matched : m = rank(i)
  OBVIOUS
<1>6. ASSUME NEW j \in matched PROVE Patterns[i][1] > Patterns[j][1] \/ (Patterns[i][1] = Patterns[j][1] /\ i <= j)
  <2>1. rank(i) <= rank(j)
    BY <1>4, <1>5
  <2>2. /\ i \in 1..36 /\ j \in 1..36 /\ Patterns[i][1] \in 72..97 /\ Patterns[j][1] \in 72..97
    BY <1>1
  <2> QED
    BY <2>1, <2>2
<1> QED
  BY <1>6

(* what the patterns report is blocked *)
LEMMA MatchGraded ==
  ASSUME NEW matched \in SUBSET DOMAIN Patterns
  PROVE  LET r == Match(matched)
         IN  /\ r \in [detected : BOOLEAN, score : Int, action : {"allow", "block", "block_and_alert"}, layer : {"regex"}]
             /\ r.detected => r.action # "allow"
<1>1. CASE matched = {}
  BY <1>1 DEF Match, Allow, Result, ActionOf
<1>2. CASE matched # {}
  <2> DEFINE best == CHOOSE i \in matched : \A j \in matched :
                       Patterns[i][1] > Patterns[j][1] \/ (Patterns[i][1] = Patterns[j][1] /\ i <= j)
             escalates == Cardinality({Patterns[i][2] : i \in matched}) >= 2
             score == IF escalates THEN CappedAt(100, Patterns[best][1] + 5) ELSE Patterns[best][1]
             severity == IF escalates /\ Severity(score) \in {"none", "low", "medium"} THEN "high" ELSE Severity(score)
  <2>1. best \in matched
    BY <1>2, BestExists
  <2>2. Match(matched) = IF matched = {} \/ score < Threshold(Patterns[best][2]) THEN Allow("regex")
                         ELSE Result(TRUE, score, severity, "regex")
    BY Zenon DEF Match
  <2> HIDE DEF best, escalates
  <2>3. Patterns[best][1] \in 72..97 /\ Threshold(Patterns[best][2]) \in 80..95
    BY <2>1, PatternTable
  <2>4. score \in Int
    BY <2>3 DEF CappedAt
  <2> HIDE DEF score
  <2>5. ASSUME score >= 80 PROVE Severity(score) \in {"high", "critical"}
    BY <2>4, <2>5 DEF Severity
  <2>6. CASE score < Threshold(Patterns[best][2])
    BY <1>2, <2>2, <2>6 DEF Allow, Result, ActionOf
  <2>7. CASE ~(score < Threshold(Patterns[best][2]))
    <3>1. severity \in {"high", "critical"}
      BY <2>3, <2>4, <2>5, <2>7
    <3> HIDE DEF severity
    <3> QED
      BY <1>2, <2>2, <2>4, <2>7, <3>1 DEF Result, ActionOf
  <2> QED
    BY <2>6, <2>7
<1> QED
  BY <1>1, <1>2

LEMMA InjectionInitInv == InjectionInit => JInv
<1> SUFFICES ASSUME InjectionInit PROVE JInv
  OBVIOUS
<1>1. check \in CheckRecord /\ CheckGraded
  BY DEF InjectionInit, CheckRecord, CheckGraded
<1>2. ScanStands
  BY FS_EmptySet DEF InjectionInit, ScanStands, Order
<1> QED
  BY <1>1, <1>2 DEF JInv

(* a check ends with what its layer let through *)
LEMMA EndsAllowed ==
  ASSUME JInv, check.step # "done", NEW layer \in {"llm_judge", "fallback", "error"}, CheckEnds(Allow(layer)), scan' = scan
  PROVE  JInv'
<1>1. /\ check' = [check EXCEPT !.step = "done", !.result = Allow(layer)]
      /\ Allow(layer) = [detected |-> FALSE, score |-> 0, action |-> "allow", layer |-> layer]
  BY DEF CheckEnds, Allow, Result, ActionOf
<1>2. Allow(layer) \in Results
  BY <1>1 DEF Results
<1>3. check' \in CheckRecord
  BY <1>1, <1>2 DEF JInv, CheckRecord
<1>4. check'.text = check.text /\ check'.result = Allow(layer)
  BY <1>1 DEF JInv, CheckRecord
<1>5. CheckGraded'
  BY <1>1, <1>4 DEF JInv, CheckGraded
<1> QED
  BY <1>3, <1>5 DEF JInv, ScanStands

LEMMA RunPatternsKeeps ==
  ASSUME JInv, RunPatterns
  PROVE  JInv'
<1> DEFINE result == Match(Examined(check.text))
<1>1. check \in CheckRecord /\ check.text \in Texts
  BY DEF JInv, CheckGraded
<1>2. Examined(check.text) \in SUBSET DOMAIN Patterns
  BY <1>1, InjectionAssumption DEF Examined
<1>3. /\ result \in [detected : BOOLEAN, score : Int, action : {"allow", "block", "block_and_alert"}, layer : {"regex"}]
      /\ result.detected => result.action # "allow"
  BY <1>2, MatchGraded
<1>4. IF result.detected THEN check' = [check EXCEPT !.step = "done", !.result = result]
      ELSE check' = [check EXCEPT !.step = "judge"]
  BY DEF RunPatterns, CheckEnds
<1> HIDE DEF result
<1>5. result \in Results
  BY <1>3 DEF Results
<1>6. check' \in CheckRecord /\ CheckGraded'
  BY <1>1, <1>3, <1>4, <1>5 DEF CheckRecord, CheckGraded
<1> QED
  BY <1>6 DEF JInv, ScanStands, RunPatterns

LEMMA JudgeAnswersKeeps ==
  ASSUME JInv, NEW injection \in BOOLEAN, NEW confidence \in Confidences, JudgeAnswers(injection, confidence)
  PROVE  JInv'
<1> DEFINE judge == [injection |-> injection, confidence |-> confidence]
           result == IF ~injection \/ confidence < 50 THEN Allow("llm_judge")
                     ELSE Result(TRUE, confidence, Severity(confidence), "llm_judge")
<1>1. check \in CheckRecord /\ check.text \in Texts /\ confidence \in Int
      /\ judge \in [injection : BOOLEAN, confidence : Confidences] /\ judge # None
  BY InjectionAssumption DEF JInv, CheckGraded
<1>2. check' = [check EXCEPT !.step = "done", !.judge = judge, !.result = result]
  BY DEF JudgeAnswers
<1>3. /\ result \in [detected : BOOLEAN, score : Int, action : {"allow", "flag", "redact", "block", "block_and_alert"},
                     layer : {"llm_judge"}]
      /\ result.detected <=> result.action # "allow"
      /\ result.action \in {"flag", "redact"} => injection /\ confidence \in 50..79
  <2>1. CASE ~injection \/ confidence < 50
    BY <2>1 DEF Allow, Result, ActionOf
  <2>2. CASE injection /\ ~(confidence < 50)
    <3>1. result = [detected |-> TRUE, score |-> confidence, action |-> ActionOf(Severity(confidence)), layer |-> "llm_judge"]
      BY <2>2 DEF Result
    <3>2. \/ confidence >= 95 /\ Severity(confidence) = "critical"
          \/ confidence \in 80..94 /\ Severity(confidence) = "high"
          \/ confidence \in 50..79 /\ Severity(confidence) \in {"low", "medium"}
      BY <1>1, <2>2 DEF Severity
    <3>3. \/ ActionOf(Severity(confidence)) \in {"block", "block_and_alert"}
          \/ confidence \in 50..79 /\ ActionOf(Severity(confidence)) \in {"flag", "redact"}
      BY <3>2 DEF ActionOf
    <3> DEFINE action == ActionOf(Severity(confidence))
    <3> HIDE DEF action
    <3>4. action \in {"flag", "redact", "block", "block_and_alert"}
          /\ (action \in {"flag", "redact"} => confidence \in 50..79)
      BY <3>3 DEF action
    <3>5. result = [detected |-> TRUE, score |-> confidence, action |-> action, layer |-> "llm_judge"]
      BY <3>1 DEF action
    <3> HIDE DEF result
    <3>6. result.action = action /\ result.detected = TRUE /\ result.score = confidence /\ result.layer = "llm_judge"
      BY <3>5
    <3>7. result \in [detected : BOOLEAN, score : Int, action : {"allow", "flag", "redact", "block", "block_and_alert"},
                     layer : {"llm_judge"}]
      BY <1>1, <3>4, <3>5
    <3>8. action # "allow"
      BY <3>4
    <3> QED
      BY <2>2, <3>4, <3>6, <3>7, <3>8
  <2> QED
    BY <2>1, <2>2
<1> HIDE DEF judge, result
<1>4. check' \in CheckRecord
  <2>1. result \in Results
    BY <1>3 DEF Results
  <2> QED
    BY <1>1, <1>2, <2>1 DEF CheckRecord
<1>5. /\ check'.judge = judge /\ check'.result = result /\ check'.text = check.text
  BY <1>1, <1>2 DEF CheckRecord
<1>6. CheckGraded'
  BY <1>1, <1>3, <1>5 DEF CheckGraded, judge
<1> QED
  BY <1>4, <1>6 DEF JInv, ScanStands, JudgeAnswers

LEMMA ScanCategoryKeeps ==
  ASSUME JInv, NEW matches \in BOOLEAN, ScanCategory(matches)
  PROVE  JInv'
<1> DEFINE c == CategoryTable[scan.next]
<1>1. Len(CategoryTable) = 6
  BY DEF CategoryTable
<1>2. \A i \in 1..6 : CategoryTable[i][2] \in {"medium", "high", "critical"} /\ CategoryTable[i][3] \in 50..100
  BY DEF CategoryTable
<1>3. scan.next \in 1..6
  BY <1>1 DEF JInv, ScanStands, ScanCategory
<1>4. c[1] \in CategoryNames /\ c[2] \in {"medium", "high", "critical"} /\ c[3] \in 50..100
  <2>1. DOMAIN CategoryTable = 1..6
    BY DEF CategoryTable
  <2> QED
    BY <1>2, <1>3, <2>1 DEF CategoryNames
<1> HIDE DEF c
<1>5. ScanStands'
  <2>1. CASE ~matches
    <3>1. scan' = [scan EXCEPT !.next = @ + 1]
      BY <2>1 DEF ScanCategory
    <3> QED
      BY <1>3, <3>1 DEF JInv, ScanStands
  <2>2. CASE matches
    <3> DEFINE weight == IF c[3] > scan.weight THEN c[3] ELSE scan.weight
               severity == IF Order[c[2]] > Order[scan.severity] THEN c[2] ELSE scan.severity
    <3>1. scan' = [next |-> scan.next + 1, matched |-> scan.matched \cup {c[1]}, weight |-> weight, severity |-> severity]
      BY <2>2 DEF ScanCategory, c
    <3>2. weight \in 50..100
      BY <1>4 DEF JInv, ScanStands
    <3>3. severity \in {"medium", "high", "critical"}
      BY <1>4 DEF JInv, ScanStands, Order
    <3> HIDE DEF weight, severity
    <3>4. IsFiniteSet(scan.matched \cup {c[1]}) /\ scan.matched \cup {c[1]} \in SUBSET CategoryNames
      BY <1>4, FS_AddElement DEF JInv, ScanStands
    <3>5. weight \in 0..100 /\ severity \in DOMAIN Order /\ scan.next + 1 \in 1..7 /\ scan.matched \cup {c[1]} # {}
      BY <1>3, <3>2, <3>3 DEF Order
    <3> QED
      BY <3>1, <3>2, <3>3, <3>4, <3>5 DEF ScanStands
  <2> QED
    BY <2>1, <2>2
<1> QED
  BY <1>5 DEF JInv, CheckGraded, ScanCategory

LEMMA InjectionNextKeeps ==
  ASSUME JInv, [InjectionNext]_injection_vars
  PROVE  JInv'
<1>1. CASE SkipJudge \/ JudgeFails \/ PipelineFails
  BY <1>1, EndsAllowed DEF SkipJudge, JudgeFails, PipelineFails
<1>2. CASE UNCHANGED injection_vars
  BY <1>2 DEF injection_vars, JInv, CheckGraded, ScanStands
<1> QED
  BY <1>1, <1>2, RunPatternsKeeps, JudgeAnswersKeeps, ScanCategoryKeeps DEF InjectionNext

LEMMA GradedByInvariant == JInv => VerdictsAreGraded
<1> SUFFICES ASSUME JInv PROVE VerdictsAreGraded
  OBVIOUS
<1> DEFINE n == Cardinality(scan.matched)
           sure == Confidence(scan.weight, n)
<1>1. n \in Nat /\ (n = 0 <=> scan.matched = {})
  BY FS_EmptySet, FS_CardinalityType DEF JInv, ScanStands
<1> HIDE DEF n
<1>2. CASE scan.matched = {}
  <2>1. sure = 0
    BY <1>1, <1>2 DEF Confidence
  <2> QED
    BY <1>2, <2>1 DEF VerdictsAreGraded, JInv, CheckGraded, n
<1>3. CASE scan.matched # {}
  <2>1. scan.weight \in 50..100 /\ scan.severity \in {"medium", "high", "critical"}
    BY <1>3 DEF JInv, ScanStands
  <2>2. sure \in 50..95
    BY <1>1, <1>3, <2>1 DEF Confidence, CappedAt
  <2> HIDE DEF sure
  <2>3. sure >= 30
    BY <2>2
  <2> QED
    BY <1>3, <2>1, <2>2, <2>3 DEF VerdictsAreGraded, JInv, CheckGraded, n, sure
<1> QED
  BY <1>2, <1>3

-----------------------------------------------------------------------------
(* The encryption of fields. *)

KeyMaps == (UNION {[0..n -> Nat] : n \in Nat}) \cup {FreshRing(FALSE).keys}

LEMMA IsKeyMap ==
  ASSUME NEW n \in Nat, NEW keys \in [0..n -> Nat]
  PROVE  keys \in KeyMaps
<1>1. keys \in UNION {[0..m -> Nat] : m \in Nat}
  OBVIOUS
<1> QED
  BY <1>1 DEF KeyMaps

(* a key ring has every version up to the current one, the first made of the master key *)
RingStands ==
  /\ ring \in [Holders -> [keyed : BOOLEAN, current : Nat, keys : KeyMaps]]
  /\ \A h \in Holders : ring[h].keyed => ring[h].keys \in [0..ring[h].current -> Nat] /\ ring[h].keys[0] = 0

StoredRecord == [version : Nat \cup {None}, key : Nat \cup {None}, field : Fields, by : Holders \cup {None}]

(* what is stored was encrypted with a key its writer still has, or with the first one *)
StoredStands ==
  \A e \in encrypted :
    /\ e \in StoredRecord
    /\ e.key # None =>
         /\ e.version = 0 => e.key = 0
         /\ \A h \in Holders : e.by = h =>
              ring[h].keyed /\ e.version \in 0..ring[h].current /\ ring[h].keys[e.version] = e.key

RInv == cut_keys \in Nat /\ RingStands /\ StoredStands

LEMMA FreshStands ==
  ASSUME NEW keyed \in BOOLEAN
  PROVE  /\ FreshRing(keyed) \in [keyed : BOOLEAN, current : Nat, keys : KeyMaps]
         /\ FreshRing(keyed).keyed = keyed /\ FreshRing(keyed).current = 0
         /\ keyed => FreshRing(keyed).keys \in [0..0 -> Nat] /\ FreshRing(keyed).keys[0] = 0
<1> DEFINE keys == FreshRing(keyed).keys
<1>1. FreshRing(keyed) = [keyed |-> keyed, current |-> 0, keys |-> keys]
  BY DEF FreshRing
<1>2. keyed => keys = [v \in 0..0 |-> 0]
  <2>1. 0..0 = {0}
    OBVIOUS
  <2> QED
    BY <2>1 DEF FreshRing
<1>3. ~keyed => keys = FreshRing(FALSE).keys
  OBVIOUS
<1> HIDE DEF keys
<1>4. keyed => keys \in [0..0 -> Nat] /\ keys[0] = 0
  BY <1>2
<1>5. keys \in KeyMaps
  <2>1. 0 \in Nat
    OBVIOUS
  <2>2. FreshRing(FALSE).keys \in KeyMaps
    BY DEF KeyMaps
  <2> QED
    BY <1>3, <1>4, <2>1, <2>2, IsKeyMap
<1>6. FreshRing(keyed) \in [keyed : BOOLEAN, current : Nat, keys : KeyMaps]
  BY <1>1, <1>5
<1> QED
  BY <1>1, <1>4, <1>6

LEMMA RingInitInv == RingInit => RInv
<1> SUFFICES ASSUME RingInit PROVE RInv
  OBVIOUS
<1>1. \A h \in Holders : \E keyed \in BOOLEAN : ring[h] = FreshRing(keyed)
  BY DEF RingInit
<1>2. RingStands
  <2>1. \A h \in Holders : ring[h] \in [keyed : BOOLEAN, current : Nat, keys : KeyMaps]
    BY <1>1, FreshStands
  <2>2. ring = [h \in Holders |-> ring[h]]
    BY DEF RingInit
  <2>3. ring \in [Holders -> [keyed : BOOLEAN, current : Nat, keys : KeyMaps]]
    BY <2>1, <2>2
  <2>4. ASSUME NEW h \in Holders, ring[h].keyed PROVE ring[h].keys \in [0..ring[h].current -> Nat] /\ ring[h].keys[0] = 0
    BY <1>1, <2>4, FreshStands
  <2> QED
    BY <2>3, <2>4 DEF RingStands
<1> QED
  BY <1>2 DEF RingInit, RInv, StoredStands

LEMMA RingRotationKeeps ==
  ASSUME RInv, NEW h \in Holders, RotateKey(h)
  PROVE  RInv'
<1> DEFINE newest == ring[h].current + 1
<1>1. /\ ring[h].keyed /\ ring[h].current \in Nat /\ cut_keys \in Nat
      /\ ring[h].keys \in [0..ring[h].current -> Nat] /\ ring[h].keys[0] = 0
  BY DEF RotateKey, RInv, RingStands
<1>2. Rotated(h) = [v \in 0..newest |-> IF v = newest THEN cut_keys + 1 ELSE ring[h].keys[v]]
  <2>1. DOMAIN ring[h].keys = 0..ring[h].current
    BY <1>1
  <2>2. DOMAIN ring[h].keys \cup {newest} = 0..newest
    BY <1>1, <2>1
  <2>3. \A v \in 0..newest : v \in DOMAIN ring[h].keys <=> v # newest
    BY <1>1, <2>1
  <2>4. Rotated(h) = [v \in DOMAIN ring[h].keys \cup {newest} |->
                        IF v \in DOMAIN ring[h].keys THEN ring[h].keys[v] ELSE cut_keys + 1]
    BY DEF Rotated
  <2> QED
    BY <2>2, <2>3, <2>4
<1>3. Rotated(h) \in [0..newest -> Nat] /\ \A v \in 0..ring[h].current : Rotated(h)[v] = ring[h].keys[v]
  BY <1>1, <1>2
<1>4. ring' = [ring EXCEPT ![h] = [ring[h] EXCEPT !.current = newest, !.keys = Rotated(h)]]
  BY Zenon DEF RotateKey
<1>5. ring[h] \in [keyed : BOOLEAN, current : Nat, keys : KeyMaps] /\ newest \in Nat /\ Rotated(h) \in KeyMaps
  <2>1. newest \in Nat
    BY <1>1
  <2> QED
    BY <1>3, <2>1, IsKeyMap DEF RInv, RingStands
<1>6. /\ ring'[h] \in [keyed : BOOLEAN, current : Nat, keys : KeyMaps]
      /\ ring'[h].keyed = ring[h].keyed /\ ring'[h].current = newest /\ ring'[h].keys = Rotated(h)
      /\ \A g \in Holders \ {h} : ring'[g] = ring[g]
      /\ ring' = [g \in Holders |-> ring'[g]]
  <2> HIDE DEF newest
  <2>1. ring'[h] = [ring[h] EXCEPT !.current = newest, !.keys = Rotated(h)]
    BY <1>4 DEF RInv, RingStands
  <2>2. \A g \in Holders \ {h} : ring'[g] = ring[g]
    BY <1>4 DEF RInv, RingStands
  <2>3. ring' = [g \in Holders |-> ring'[g]]
    BY <1>4 DEF RInv, RingStands
  <2> QED
    BY <1>5, <2>1, <2>2, <2>3
<1>7. newest \in Nat /\ newest = ring[h].current + 1
  BY <1>1
<1> HIDE DEF newest
<1>8. RingStands'
  <2>1. ring' \in [Holders -> [keyed : BOOLEAN, current : Nat, keys : KeyMaps]]
    BY <1>6 DEF RInv, RingStands
  <2>2. ring'[h].keys \in [0..ring'[h].current -> Nat] /\ ring'[h].keys[0] = 0
    BY <1>1, <1>3, <1>6
  <2>3. \A g \in Holders \ {h} : ring'[g].keyed => ring'[g].keys \in [0..ring'[g].current -> Nat] /\ ring'[g].keys[0] = 0
    BY <1>6 DEF RInv, RingStands
  <2> QED
    BY <2>1, <2>2, <2>3 DEF RingStands
<1>9. StoredStands'
  <2> SUFFICES ASSUME NEW e \in encrypted
               PROVE  /\ e \in StoredRecord
                      /\ e.key # None =>
                           /\ e.version = 0 => e.key = 0
                           /\ \A g \in Holders : e.by = g =>
                                ring'[g].keyed /\ e.version \in 0..ring'[g].current /\ ring'[g].keys[e.version] = e.key
    BY DEF StoredStands, RotateKey
  <2>1. /\ e \in StoredRecord
        /\ e.key # None =>
             /\ e.version = 0 => e.key = 0
             /\ \A g \in Holders : e.by = g =>
                  ring[g].keyed /\ e.version \in 0..ring[g].current /\ ring[g].keys[e.version] = e.key
    BY DEF RInv, StoredStands
  <2>2. ASSUME NEW g \in Holders, e.key # None, e.by = g
        PROVE  ring'[g].keyed /\ e.version \in 0..ring'[g].current /\ ring'[g].keys[e.version] = e.key
    <3>1. CASE g = h
      <4>1. e.version \in 0..ring[h].current /\ ring[h].keys[e.version] = e.key
        BY <2>1, <2>2, <3>1
      <4>2. ring'[g].keyed /\ ring'[g].current = newest /\ ring'[g].keys = Rotated(h)
        BY <1>1, <1>6, <3>1
      <4>3. e.version \in 0..newest
        BY <1>1, <1>7, <4>1
      <4> QED
        BY <1>3, <4>1, <4>2, <4>3
    <3>2. CASE g # h
      BY <1>6, <2>1, <2>2, <3>2
    <3> QED
      BY <3>1, <3>2
  <2> QED
    BY <2>1, <2>2
<1>10. cut_keys' \in Nat
  BY <1>1 DEF RotateKey
<1> QED
  BY <1>8, <1>9, <1>10 DEF RInv

LEMMA EncryptKeeps ==
  ASSUME RInv, NEW h \in Holders, NEW field \in Fields, EncryptField(h, field)
  PROVE  RInv'
<1> DEFINE new == IF ring[h].keyed
                  THEN [version |-> ring[h].current, key |-> ring[h].keys[ring[h].current], field |-> field, by |-> h]
                  ELSE [version |-> None, key |-> None, field |-> field, by |-> h]
<1>1. encrypted' = encrypted \cup {new} /\ UNCHANGED <<ring, cut_keys>>
  BY DEF EncryptField
<1>2. /\ new \in StoredRecord
      /\ new.key # None =>
           /\ new.version = 0 => new.key = 0
           /\ \A g \in Holders : new.by = g =>
                ring[g].keyed /\ new.version \in 0..ring[g].current /\ ring[g].keys[new.version] = new.key
  <2>1. CASE ring[h].keyed
    <3>1. ring[h].current \in Nat /\ ring[h].keys \in [0..ring[h].current -> Nat] /\ ring[h].keys[0] = 0
      BY <2>1 DEF RInv, RingStands
    <3>2. ring[h].current \in 0..ring[h].current /\ ring[h].keys[ring[h].current] \in Nat
      BY <3>1
    <3>3. /\ new.version = ring[h].current /\ new.key = ring[h].keys[ring[h].current] /\ new.field = field /\ new.by = h
          /\ new = [version |-> ring[h].current, key |-> ring[h].keys[ring[h].current], field |-> field, by |-> h]
      BY <2>1
    <3> HIDE DEF new
    <3>4. new \in StoredRecord
      BY <3>1, <3>2, <3>3 DEF StoredRecord
    <3> QED
      BY <2>1, <3>1, <3>2, <3>3, <3>4
  <2>2. CASE ~ring[h].keyed
    <3>1. new = [version |-> None, key |-> None, field |-> field, by |-> h]
      BY <2>2
    <3> HIDE DEF new
    <3> QED
      BY <3>1 DEF StoredRecord
  <2> QED
    BY <2>1, <2>2
<1> HIDE DEF new
<1>3. StoredStands'
  BY <1>1, <1>2 DEF RInv, StoredStands
<1> QED
  BY <1>1, <1>3 DEF RInv, RingStands

LEMMA RestartHolderKeeps ==
  ASSUME RInv, NEW h \in Holders, RestartHolder(h)
  PROVE  RInv'
<1>1. ring[h].keyed \in BOOLEAN
  BY DEF RInv, RingStands
<1>2. /\ ring'[h] = FreshRing(ring[h].keyed) /\ cut_keys' = cut_keys
      /\ \A g \in Holders \ {h} : ring'[g] = ring[g]
      /\ ring' = [g \in Holders |-> ring'[g]]
  BY DEF RestartHolder, RInv, RingStands
<1>3. /\ FreshRing(ring[h].keyed) \in [keyed : BOOLEAN, current : Nat, keys : KeyMaps]
      /\ FreshRing(ring[h].keyed).current = 0 /\ FreshRing(ring[h].keyed).keyed = ring[h].keyed
      /\ ring[h].keyed => FreshRing(ring[h].keyed).keys \in [0..0 -> Nat] /\ FreshRing(ring[h].keyed).keys[0] = 0
  BY <1>1, FreshStands
<1>4. RingStands'
  <2>1. ring' \in [Holders -> [keyed : BOOLEAN, current : Nat, keys : KeyMaps]]
    BY <1>2, <1>3 DEF RInv, RingStands
  <2>2. ring'[h].keyed => ring'[h].keys \in [0..ring'[h].current -> Nat] /\ ring'[h].keys[0] = 0
    BY <1>2, <1>3
  <2>3. \A g \in Holders \ {h} : ring'[g].keyed => ring'[g].keys \in [0..ring'[g].current -> Nat] /\ ring'[g].keys[0] = 0
    BY <1>2 DEF RInv, RingStands
  <2> QED
    BY <2>1, <2>2, <2>3 DEF RingStands
<1>5. StoredStands'
  <2> SUFFICES ASSUME NEW e \in encrypted'
               PROVE  /\ e \in StoredRecord
                      /\ e.key # None =>
                           /\ e.version = 0 => e.key = 0
                           /\ \A g \in Holders : e.by = g =>
                                ring'[g].keyed /\ e.version \in 0..ring'[g].current /\ ring'[g].keys[e.version] = e.key
    BY DEF StoredStands
  <2>1. PICK d \in encrypted : e = IF d.by = h THEN [d EXCEPT !.by = None] ELSE d
    BY DEF RestartHolder
  <2>2. /\ d \in StoredRecord
        /\ d.key # None =>
             /\ d.version = 0 => d.key = 0
             /\ \A g \in Holders : d.by = g =>
                  ring[g].keyed /\ d.version \in 0..ring[g].current /\ ring[g].keys[d.version] = d.key
    BY DEF RInv, StoredStands
  <2>3. e \in StoredRecord /\ e.key = d.key /\ e.version = d.version /\ e.by # h /\ (e.by \in Holders => e.by = d.by)
    <3>1. None \notin Holders
      BY DataProtectionAssumption
    <3>2. CASE d.by = h
      <4>1. e = [version |-> d.version, key |-> d.key, field |-> d.field, by |-> None]
        BY <2>1, <2>2, <3>2 DEF StoredRecord
      <4> QED
        BY <2>2, <3>1, <4>1 DEF StoredRecord
    <3>3. CASE d.by # h
      BY <2>1, <2>2, <3>3
    <3> QED
      BY <3>2, <3>3
  <2>4. \A g \in Holders : e.by = g => d.by = g /\ g # h /\ ring'[g] = ring[g]
    BY <1>2, <2>3
  <2> QED
    BY <2>2, <2>3, <2>4
<1> QED
  BY <1>2, <1>4, <1>5 DEF RInv

LEMMA OpensByInvariant == RInv => OpensToItsOwn
<1> SUFFICES ASSUME RInv, NEW h \in Holders, NEW e \in encrypted, NEW field \in Fields
             PROVE  LET opened == DecryptField(h, field, e) IN
                      /\ opened = "value" => field = e.field /\ e.key \in {ring[h].keys[v] : v \in DOMAIN ring[h].keys}
                      /\ ring[h].keyed /\ e.key # None /\ field = e.field /\ (e.by = h \/ e.version = 0) => opened = "value"
  BY DEF OpensToItsOwn
<1> DEFINE opened == DecryptField(h, field, e)
<1>1. ring[h].keyed \in BOOLEAN /\ None # "value"
  BY DataProtectionAssumption DEF RInv, RingStands
<1>2. CASE ~ring[h].keyed
  <2>1. opened = "as is"
    BY <1>2 DEF DecryptField
  <2> QED
    BY <1>2, <2>1
<1>3. CASE ring[h].keyed /\ e.version \notin DOMAIN ring[h].keys
  <2>1. opened = None
    BY <1>3 DEF DecryptField
  <2>2. ring[h].current \in Nat /\ ring[h].keys \in [0..ring[h].current -> Nat]
    BY <1>3 DEF RInv, RingStands
  <2>3. e.version \notin 0..ring[h].current /\ e.version # 0
    BY <1>3, <2>2
  <2>4. e.key # None => e.by # h
    BY <2>3 DEF RInv, StoredStands
  <2> QED
    BY <1>1, <2>1, <2>3, <2>4
<1>4. CASE ring[h].keyed /\ e.version \in DOMAIN ring[h].keys
  <2>1. opened = IF ring[h].keys[e.version] = e.key /\ field = e.field THEN "value" ELSE None
    BY <1>4 DEF DecryptField
  <2>2. ring[h].keys[0] = 0
    BY <1>4 DEF RInv, RingStands
  <2>3. e.key # None /\ (e.by = h \/ e.version = 0) => ring[h].keys[e.version] = e.key
    BY <2>2 DEF RInv, StoredStands
  <2> QED
    BY <1>1, <1>4, <2>1, <2>3
<1> QED
  BY <1>1, <1>2, <1>3, <1>4

-----------------------------------------------------------------------------
(* The classifier and the request filter. *)

ItemStands ==
  /\ item.text \in (SUBSET Things) \cup {None} /\ item.context \in ContextClasses \cup {None}
  /\ DOMAIN item = {"text", "context", "result"}
  /\ item.result # None => item.result = Classified(item.text, item.context)

FilterStands ==
  /\ filtered \in [attacks : SUBSET Places, exempt : BOOLEAN, method : {"GET", "POST"},
                   step : {"query", "headers", "body", "passed", "blocked"}]
  /\ filtered.step = "headers" => ~filtered.exempt /\ "query comment" \notin filtered.attacks
  /\ filtered.step = "body" => filtered.method = "POST" /\ filtered.attacks \cap {"query comment", "header"} = {}
  /\ PassedUnseen

DInv == RInv /\ ItemStands /\ FilterStands

(* of classes one is the highest *)
LEMMA HighestExists ==
  ASSUME NEW classes \in SUBSET Classes, classes # {}
  PROVE  /\ Highest(classes) \in classes
         /\ \A d \in classes : ValueOrder[Highest(classes)] >= ValueOrder[d]
<1> DEFINE ranks == {6 - ValueOrder[c] : c \in classes}
<1>1. \A c \in Classes : ValueOrder[c] \in 0..6
  BY DEF Classes, ValueOrder
<1>2. ranks \in SUBSET Nat /\ ranks # {}
  <2>1. \A c \in classes : 6 - ValueOrder[c] \in Nat
    BY <1>1
  <2> QED
    BY <2>1
<1>3. PICK m \in ranks : \A k \in ranks : m <= k
  BY <1>2, LeastNatural
<1>4. PICK c \in classes : m = 6 - ValueOrder[c]
  OBVIOUS
<1>5. ASSUME NEW d \in classes PROVE ValueOrder[c] >= ValueOrder[d]
  <2>1. 6 - ValueOrder[c] <= 6 - ValueOrder[d]
    BY <1>3, <1>4
  <2>2. ValueOrder[c] \in 0..6 /\ ValueOrder[d] \in 0..6
    BY <1>1
  <2> QED
    BY <2>1, <2>2
<1>6. \E b \in classes : \A d \in classes : ValueOrder[b] >= ValueOrder[d]
  BY <1>5
<1> QED
  BY <1>6, Zenon DEF Highest

(* the classes of the patterns, and the order of the classes *)
LEMMA ClassTable ==
  /\ PatternClass["ssn"] = "phi" /\ PatternClass["email"] = "pii" /\ PatternClass["zip"] = "pii"
  /\ PatternClass["card"] = "pci" /\ PatternClass["cvv"] = "pci"
  /\ PatternClass["credential"] = "confidential"
  /\ DOMAIN PatternClass = {"ssn", "email", "zip", "card", "cvv", "credential"}
  /\ \A q \in DOMAIN PatternClass : PatternClass[q] \in Classes
  /\ ValueOrder["public"] = 0 /\ ValueOrder["internal"] = 1 /\ ValueOrder["confidential"] = 2
  /\ ValueOrder["restricted"] = 3 /\ ValueOrder["pii"] = 4 /\ ValueOrder["phi"] = 5 /\ ValueOrder["pci"] = 6
  /\ \A c \in Classes : ValueOrder[c] \in 0..6
  BY DEF PatternClass, Classes, ValueOrder

(* what each pattern matches *)
LEMMA MatchesOf ==
  \A thing : /\ Matches("ssn", thing) = thing \cap {"ssn"}
             /\ Matches("email", thing) = thing \cap {"email"}
             /\ Matches("credential", thing) = thing \cap {"credential"}
             /\ Matches("zip", thing) = thing \cap {"five digits"}
             /\ Matches("cvv", thing) = thing \cap {"four digits"}
             /\ thing \in {CardNumber, AmexNumber} => Matches("card", thing) = thing
             /\ thing \notin {CardNumber, AmexNumber} => Matches("card", thing) = {}
<1>1. /\ Piece["ssn"] = "ssn" /\ Piece["email"] = "email" /\ Piece["credential"] = "credential"
      /\ Piece["zip"] = "five digits" /\ Piece["cvv"] = "four digits"
  BY DEF Piece
<1> HIDE DEF Piece
<1>2. \A pattern, thing : pattern # "card" => Matches(pattern, thing) = thing \cap {Piece[pattern]}
  BY Zenon DEF Matches
<1>3. ASSUME NEW thing
      PROVE  /\ thing \in {CardNumber, AmexNumber} => Matches("card", thing) = thing
             /\ thing \notin {CardNumber, AmexNumber} => Matches("card", thing) = {}
  <2> DEFINE cards == {CardNumber, AmexNumber}
  <2>1. Matches("card", thing) = IF thing \in cards THEN thing ELSE {}
    BY DEF Matches
  <2> HIDE DEF cards
  <2>2. /\ thing \in cards => Matches("card", thing) = thing
        /\ thing \notin cards => Matches("card", thing) = {}
    BY <2>1
  <2> QED
    BY <2>2 DEF cards
<1>4. ASSUME NEW thing
      PROVE  /\ Matches("ssn", thing) = thing \cap {"ssn"}
             /\ Matches("email", thing) = thing \cap {"email"}
             /\ Matches("credential", thing) = thing \cap {"credential"}
             /\ Matches("zip", thing) = thing \cap {"five digits"}
             /\ Matches("cvv", thing) = thing \cap {"four digits"}
  <2>1. \A pattern : pattern # "card" => Matches(pattern, thing) = thing \cap {Piece[pattern]}
    BY <1>2, Zenon
  <2>2. "ssn" # "card" /\ "email" # "card" /\ "credential" # "card" /\ "zip" # "card" /\ "cvv" # "card"
    OBVIOUS
  <2>3. /\ Matches("ssn", thing) = thing \cap {Piece["ssn"]}
        /\ Matches("email", thing) = thing \cap {Piece["email"]}
        /\ Matches("credential", thing) = thing \cap {Piece["credential"]}
        /\ Matches("zip", thing) = thing \cap {Piece["zip"]}
        /\ Matches("cvv", thing) = thing \cap {Piece["cvv"]}
    BY <2>1, <2>2, Zenon
  <2> QED
    BY <1>1, <2>3, Zenon
<1> QED
  BY <1>3, <1>4, Zenon

(* each thing is found by a pattern of its own *)
LEMMA ThingsAreFound ==
  /\ Matches("ssn", {"ssn"}) # {} /\ Matches("email", {"email"}) # {}
  /\ Matches("credential", {"credential"}) # {} /\ Matches("card", CardNumber) # {}
  /\ Matches("card", AmexNumber) # {} /\ Matches("zip", AmexNumber) # {} /\ Matches("cvv", AmexNumber) # {}
<1>1. CardNumber # {} /\ AmexNumber # {} /\ "five digits" \in AmexNumber /\ "four digits" \in AmexNumber
  BY DEF CardNumber, AmexNumber
<1>2. Matches("card", CardNumber) = CardNumber /\ Matches("card", AmexNumber) = AmexNumber
  BY MatchesOf, Zenon
<1>3. /\ Matches("ssn", {"ssn"}) = {"ssn"} \cap {"ssn"} /\ Matches("email", {"email"}) = {"email"} \cap {"email"}
      /\ Matches("credential", {"credential"}) = {"credential"} \cap {"credential"}
      /\ Matches("zip", AmexNumber) = AmexNumber \cap {"five digits"}
      /\ Matches("cvv", AmexNumber) = AmexNumber \cap {"four digits"}
  BY MatchesOf, Zenon
<1> QED
  BY <1>1, <1>2, <1>3

(* everything found in a text is of its class or a lower one *)
LEMMA ClassCovers ==
  ASSUME NEW text \in SUBSET Things, text # None, NEW context \in ContextClasses \cup {None}
  PROVE  /\ Classify(text, context) \in Classes
         /\ \A thing \in text, q \in DOMAIN PatternClass :
              Matches(q, thing) # {} => Covers(Classify(text, context), q)
<1> DEFINE found == FoundClasses(text)
           classes == {"public"} \cup found \cup ({context} \ {None})
<1>1. classes \in SUBSET Classes /\ classes # {}
  <2>1. found \subseteq Classes
    BY ClassTable DEF FoundClasses
  <2> HIDE DEF found
  <2> QED
    BY <2>1 DEF Classes, ValueOrder, ContextClasses
<1>2. Classify(text, context) = Highest(classes)
  BY DEF Classify
<1>3. /\ Classify(text, context) \in Classes
      /\ \A d \in found : ValueOrder[Classify(text, context)] >= ValueOrder[d]
  <2> HIDE DEF found
  <2>1. found \subseteq classes
    OBVIOUS
  <2> HIDE DEF classes
  <2> QED
    BY <1>1, <1>2, <2>1, HighestExists
<1>4. ASSUME NEW thing \in text, NEW q \in DOMAIN PatternClass, Matches(q, thing) # {}
      PROVE  Covers(Classify(text, context), q)
  <2>1. PatternClass[q] \in found
    BY <1>4 DEF FoundClasses
  <2>2. /\ ValueOrder[Classify(text, context)] >= ValueOrder[PatternClass[q]]
        /\ ValueOrder[Classify(text, context)] \in Nat /\ ValueOrder[PatternClass[q]] \in Nat
    BY <1>3, <2>1, ClassTable
  <2> QED
    BY <2>2 DEF Covers
<1> QED
  BY <1>3, <1>4

(* What a pattern of the class or a lower one leaves of a thing, and what *)
(* any pattern leaves where it finds nothing.                              *)
LEMMA SubstitutesPiece ==
  ASSUME NEW class, NEW pattern, NEW piece, \A thing : Matches(pattern, thing) = thing \cap {piece}
  PROVE  \A left : /\ piece \notin left => Substitute(class, pattern, left) = left
                   /\ Covers(class, pattern) => Substitute(class, pattern, left) = left \ {piece}
<1>1. \A left : Substitute(class, pattern, left) = IF Covers(class, pattern) THEN left \ Matches(pattern, left) ELSE left
  BY DEF Substitute
<1>2. \A left : left \ Matches(pattern, left) = left \ {piece}
  OBVIOUS
<1>3. \A left : piece \notin left => left \ {piece} = left
  OBVIOUS
<1> QED
  BY <1>1, <1>2, <1>3

LEMMA SubstitutesOwn ==
  ASSUME NEW class
  PROVE  \A left :
         /\ "ssn" \notin left => Substitute(class, "ssn", left) = left
         /\ "email" \notin left => Substitute(class, "email", left) = left
         /\ "five digits" \notin left => Substitute(class, "zip", left) = left
         /\ "four digits" \notin left => Substitute(class, "cvv", left) = left
         /\ "credential" \notin left => Substitute(class, "credential", left) = left
         /\ left \notin {CardNumber, AmexNumber} => Substitute(class, "card", left) = left
         /\ Covers(class, "ssn") => Substitute(class, "ssn", left) = left \ {"ssn"}
         /\ Covers(class, "email") => Substitute(class, "email", left) = left \ {"email"}
         /\ Covers(class, "zip") => Substitute(class, "zip", left) = left \ {"five digits"}
         /\ Covers(class, "cvv") => Substitute(class, "cvv", left) = left \ {"four digits"}
         /\ Covers(class, "credential") => Substitute(class, "credential", left) = left \ {"credential"}
         /\ Covers(class, "card") /\ left \in {CardNumber, AmexNumber} => Substitute(class, "card", left) = {}
<1>0. \A pattern, left : Substitute(class, pattern, left)
                           = IF Covers(class, pattern) THEN left \ Matches(pattern, left) ELSE left
  BY DEF Substitute
<1>1. ASSUME NEW left
      PROVE  /\ left \notin {CardNumber, AmexNumber} => Substitute(class, "card", left) = left
             /\ Covers(class, "card") /\ left \in {CardNumber, AmexNumber} => Substitute(class, "card", left) = {}
  <2>1. left \ left = {} /\ left \ {} = left
    OBVIOUS
  <2>2. CASE left \notin {CardNumber, AmexNumber}
    <3>1. Matches("card", left) = {}
      BY <2>2, MatchesOf, Zenon
    <3> QED
      BY <1>0, <2>1, <2>2, <3>1
  <2>3. CASE left \in {CardNumber, AmexNumber}
    <3>1. Matches("card", left) = left
      BY <2>3, MatchesOf, Zenon
    <3> QED
      BY <1>0, <2>1, <2>3, <3>1
  <2> QED
    BY <2>2, <2>3
<1>2. \A left : /\ "ssn" \notin left => Substitute(class, "ssn", left) = left
                /\ Covers(class, "ssn") => Substitute(class, "ssn", left) = left \ {"ssn"}
  <2>1. \A thing : Matches("ssn", thing) = thing \cap {"ssn"}
    BY MatchesOf, Zenon
  <2> QED
    BY <2>1, SubstitutesPiece, Zenon
<1>3. \A left : /\ "email" \notin left => Substitute(class, "email", left) = left
                /\ Covers(class, "email") => Substitute(class, "email", left) = left \ {"email"}
  <2>1. \A thing : Matches("email", thing) = thing \cap {"email"}
    BY MatchesOf, Zenon
  <2> QED
    BY <2>1, SubstitutesPiece, Zenon
<1>4. \A left : /\ "five digits" \notin left => Substitute(class, "zip", left) = left
                /\ Covers(class, "zip") => Substitute(class, "zip", left) = left \ {"five digits"}
  <2>1. \A thing : Matches("zip", thing) = thing \cap {"five digits"}
    BY MatchesOf, Zenon
  <2> QED
    BY <2>1, SubstitutesPiece, Zenon
<1>5. \A left : /\ "four digits" \notin left => Substitute(class, "cvv", left) = left
                /\ Covers(class, "cvv") => Substitute(class, "cvv", left) = left \ {"four digits"}
  <2>1. \A thing : Matches("cvv", thing) = thing \cap {"four digits"}
    BY MatchesOf, Zenon
  <2> QED
    BY <2>1, SubstitutesPiece, Zenon
<1>6. \A left : /\ "credential" \notin left => Substitute(class, "credential", left) = left
                /\ Covers(class, "credential") => Substitute(class, "credential", left) = left \ {"credential"}
  <2>1. \A thing : Matches("credential", thing) = thing \cap {"credential"}
    BY MatchesOf, Zenon
  <2> QED
    BY <2>1, SubstitutesPiece, Zenon
<1> QED
  BY <1>1, <1>2, <1>3, <1>4, <1>5, <1>6, Zenon

LEMMA SameElements ==
  ASSUME NEW S, NEW T, \A x : x \in S <=> x \in T
  PROVE  S = T
  OBVIOUS

LEMMA WithoutFive ==
  ASSUME NEW S, NEW T, S = {"four digits", "six digits", "five digits"}, T = S \ {"five digits"}
  PROVE  T = {"four digits", "six digits"}
<1>1. \A x : x \in T <=> x \in {"four digits", "six digits"}
  OBVIOUS
<1> QED
  BY <1>1, SameElements

(* Masked in full, a thing is gone, but for the middle of a card number in *)
(* groups: the ZIP code's pattern is first and the card's finds no whole.  *)
LEMMA ThingMasked ==
  ASSUME NEW thing \in Things, NEW class \in Classes,
         \A q \in DOMAIN PatternClass : Matches(q, thing) # {} => Covers(class, q)
  PROVE  MaskThing(thing, class) = IF thing = AmexNumber THEN {"six digits"} ELSE {}
<1> DEFINE a == Substitute(class, "ssn", thing)
           b == Substitute(class, "email", a)
           c == Substitute(class, "zip", b)
           d == Substitute(class, "card", c)
           e == Substitute(class, "cvv", d)
           f == Substitute(class, "credential", e)
<1>1. MaskThing(thing, class) = f
  BY DEF MaskThing
<1>2. /\ "ssn" \notin thing => a = thing
      /\ Covers(class, "ssn") => a = thing \ {"ssn"}
      /\ "email" \notin a => b = a
      /\ Covers(class, "email") => b = a \ {"email"}
      /\ "five digits" \notin b => c = b
      /\ Covers(class, "zip") => c = b \ {"five digits"}
      /\ c \notin {CardNumber, AmexNumber} => d = c
      /\ Covers(class, "card") /\ c \in {CardNumber, AmexNumber} => d = {}
      /\ "four digits" \notin d => e = d
      /\ Covers(class, "cvv") => e = d \ {"four digits"}
      /\ "credential" \notin e => f = e
      /\ Covers(class, "credential") => f = e \ {"credential"}
  <2>1. ("ssn" \notin thing => a = thing) /\ (Covers(class, "ssn") => a = thing \ {"ssn"})
    BY SubstitutesOwn, Zenon
  <2> HIDE DEF a
  <2>2. ("email" \notin a => b = a) /\ (Covers(class, "email") => b = a \ {"email"})
    BY SubstitutesOwn, Zenon
  <2> HIDE DEF b
  <2>3. ("five digits" \notin b => c = b) /\ (Covers(class, "zip") => c = b \ {"five digits"})
    BY SubstitutesOwn, Zenon
  <2> HIDE DEF c
  <2>4. (c \notin {CardNumber, AmexNumber} => d = c) /\ (Covers(class, "card") /\ c \in {CardNumber, AmexNumber} => d = {})
    BY SubstitutesOwn, Zenon
  <2> HIDE DEF d
  <2>5. ("four digits" \notin d => e = d) /\ (Covers(class, "cvv") => e = d \ {"four digits"})
    BY SubstitutesOwn, Zenon
  <2> HIDE DEF e
  <2>6. ("credential" \notin e => f = e) /\ (Covers(class, "credential") => f = e \ {"credential"})
    BY SubstitutesOwn, Zenon
  <2> HIDE DEF f
  <2> QED
    BY <2>1, <2>2, <2>3, <2>4, <2>5, <2>6
<1>3. /\ thing = {"ssn"} => Covers(class, "ssn")
      /\ thing = {"email"} => Covers(class, "email")
      /\ thing = {"credential"} => Covers(class, "credential")
      /\ thing = CardNumber => Covers(class, "card")
      /\ thing = AmexNumber => Covers(class, "zip") /\ Covers(class, "card") /\ Covers(class, "cvv")
  <2>1. {"ssn", "email", "zip", "card", "cvv", "credential"} \subseteq DOMAIN PatternClass
    BY ClassTable
  <2> QED
    BY <2>1, ThingsAreFound
<1>4. thing \in {{"ssn"}, {"email"}, {"credential"}, {"sixteen digits"}, {"four digits", "six digits", "five digits"}}
  BY DEF Things, CardNumber, AmexNumber
<1> HIDE DEF a, b, c, d, e, f
<1>5. CASE thing = {"ssn"}
  <2>1. a = {}
    BY <1>2, <1>3, <1>5
  <2>2. b = {} /\ c = {}
    BY <1>2, <2>1
  <2>3. c \notin {CardNumber, AmexNumber} /\ thing # AmexNumber
    BY <1>5, <2>2 DEF CardNumber, AmexNumber
  <2> QED
    BY <1>1, <1>2, <2>2, <2>3
<1>6. CASE thing = {"email"}
  <2>1. a = {"email"}
    BY <1>2, <1>6
  <2>2. b = {}
    BY <1>2, <1>3, <1>6, <2>1
  <2>3. c = {}
    BY <1>2, <2>2
  <2>4. c \notin {CardNumber, AmexNumber} /\ thing # AmexNumber
    BY <1>6, <2>3 DEF CardNumber, AmexNumber
  <2> QED
    BY <1>1, <1>2, <2>3, <2>4
<1>7. CASE thing = {"credential"}
  <2>1. a = {"credential"}
    BY <1>2, <1>7
  <2>2. b = {"credential"}
    BY <1>2, <2>1
  <2>3. c = {"credential"}
    BY <1>2, <2>2
  <2>4. c \notin {CardNumber, AmexNumber} /\ thing # AmexNumber
    BY <1>7, <2>3 DEF CardNumber, AmexNumber
  <2>5. e = {"credential"}
    BY <1>2, <2>3, <2>4
  <2>6. f = {}
    BY <1>2, <1>3, <1>7, <2>5
  <2> QED
    BY <1>1, <2>4, <2>6
<1>8. CASE thing = {"sixteen digits"}
  <2>1. thing = CardNumber /\ thing # AmexNumber
    BY <1>8 DEF CardNumber, AmexNumber
  <2>2. a = {"sixteen digits"}
    BY <1>2, <1>8
  <2>3. b = {"sixteen digits"}
    BY <1>2, <2>2
  <2>4. c = {"sixteen digits"}
    BY <1>2, <2>3
  <2>5. d = {}
    BY <1>2, <1>3, <1>8, <2>1, <2>4
  <2>6. e = {}
    BY <1>2, <2>5
  <2>7. f = {}
    BY <1>2, <2>6
  <2> QED
    BY <1>1, <2>1, <2>7
<1>9. CASE thing = {"four digits", "six digits", "five digits"}
  <2>1. thing = AmexNumber
    BY <1>9 DEF AmexNumber
  <2>2. a = {"four digits", "six digits", "five digits"}
    BY <1>2, <1>9
  <2>3. b = {"four digits", "six digits", "five digits"}
    BY <1>2, <2>2
  <2>4. c = {"four digits", "six digits"}
    <3>1. c = b \ {"five digits"}
      BY <1>2, <1>3, <2>1
    <3> QED
      BY <2>3, <3>1, WithoutFive
  <2>5. c \notin {CardNumber, AmexNumber}
    <3>1. "five digits" \in AmexNumber /\ "five digits" \notin c
      BY <2>4 DEF AmexNumber
    <3>2. "four digits" \notin CardNumber /\ "four digits" \in c
      BY <2>4 DEF CardNumber
    <3> QED
      BY <3>1, <3>2
  <2>6. d = {"four digits", "six digits"}
    BY <1>2, <2>4, <2>5
  <2>7. e = {"six digits"}
    BY <1>2, <1>3, <2>1, <2>6
  <2>8. f = {"six digits"}
    BY <1>2, <2>7
  <2> QED
    BY <1>1, <2>1, <2>8
<1> QED
  BY <1>4, <1>5, <1>6, <1>7, <1>8, <1>9

LEMMA ClassifiedClean ==
  ASSUME ItemStands
  PROVE  MaskedIsClean
<1> SUFFICES ASSUME item.result # None
             PROVE  /\ item.result.masked # None =>
                         UNION item.result.masked = IF AmexNumber \in item.text THEN {"six digits"} ELSE {}
                    /\ item.result.masked = None => item.text \in {None, {}, {{"credential"}}}
                    /\ item.result.class = "public" => item.text \in {None, {}}
  BY DEF MaskedIsClean
<1> DEFINE class == Classify(item.text, item.context)
           masked == IF RequiresEncryption(class) THEN Mask(item.text, class) ELSE None
<1>1. item.result.class = class /\ item.result.masked = masked
  BY DEF ItemStands, Classified
<1>2. CASE item.text = None
  <2>1. class = "public"
    BY <1>2 DEF Classify
  <2>2. masked = None
    BY <2>1 DEF RequiresEncryption
  <2> QED
    BY <1>1, <1>2, <2>2
<1>3. CASE item.text # None
  <2>1. item.text \in SUBSET Things
    BY <1>3 DEF ItemStands
  <2>2. /\ class \in Classes
        /\ \A thing \in item.text, q \in DOMAIN PatternClass : Matches(q, thing) # {} => Covers(class, q)
    BY <1>3, <2>1, ClassCovers DEF ItemStands
  <2> HIDE DEF class
  <2>3. \A thing \in item.text : MaskThing(thing, class) = IF thing = AmexNumber THEN {"six digits"} ELSE {}
    BY <2>1, <2>2, ThingMasked
  <2>4. UNION Mask(item.text, class) = IF AmexNumber \in item.text THEN {"six digits"} ELSE {}
    BY <2>3 DEF Mask
  <2>5. ASSUME class \in {"public", "internal", "confidential"} PROVE item.text \subseteq {{"credential"}}
    <3>1. \A q \in {"ssn", "email", "card"} : q \in DOMAIN PatternClass /\ ~Covers(class, q)
      BY <2>5, ClassTable DEF Covers
    <3>2. \A thing \in item.text, q \in {"ssn", "email", "card"} : Matches(q, thing) = {}
      BY <2>2, <3>1
    <3> QED
      BY <2>1, <3>2, ThingsAreFound DEF Things
  <2>6. ASSUME class = "public" PROVE item.text = {}
    <3>1. "credential" \in DOMAIN PatternClass /\ ~Covers(class, "credential")
      BY <2>6, ClassTable DEF Covers
    <3>2. {"credential"} \notin item.text
      BY <2>2, <3>1, ThingsAreFound
    <3> QED
      BY <2>5, <2>6, <3>2
  <2>7. RequiresEncryption(class) \/ class \in {"public", "internal", "confidential"}
    BY <2>2 DEF RequiresEncryption, Classes, ValueOrder
  <2>8. CASE RequiresEncryption(class)
    <3>1. masked = Mask(item.text, class) /\ class # "public"
      BY <2>8 DEF RequiresEncryption
    <3>2. Mask(item.text, class) \in SUBSET {{}, {"six digits"}}
      BY <2>3 DEF Mask
    <3>3. masked # None
      BY <3>1, <3>2, DataProtectionAssumption
    <3> QED
      BY <1>1, <2>4, <3>1, <3>3
  <2>9. CASE ~RequiresEncryption(class)
    <3>1. masked = None
      BY <2>9
    <3>2. item.text \in {{}, {{"credential"}}}
      BY <2>5, <2>7, <2>9
    <3> QED
      BY <1>1, <2>6, <3>1, <3>2
  <2> QED
    BY <2>8, <2>9
<1> QED
  BY <1>2, <1>3

LEMMA DataInitInv == RingInit /\ ItemInit /\ FilterInit => DInv
<1> SUFFICES ASSUME RingInit, ItemInit, FilterInit PROVE DInv
  OBVIOUS
<1>1. ItemStands
  BY DEF ItemInit, ItemStands
<1>2. FilterStands
  BY DEF FilterInit, FilterStands, PassedUnseen
<1> QED
  BY <1>1, <1>2, RingInitInv DEF DInv

LEMMA ClassifyItemKeeps ==
  ASSUME DInv, ClassifyItem
  PROVE  DInv'
<1>1. item' = [item EXCEPT !.result = Classified(item.text, item.context)] /\ UNCHANGED <<ring_vars, filtered>>
  BY DEF ClassifyItem
<1>2. /\ item'.text = item.text /\ item'.context = item.context /\ DOMAIN item' = {"text", "context", "result"}
      /\ item'.result = Classified(item.text, item.context)
  BY <1>1 DEF DInv, ItemStands
<1>3. ItemStands'
  BY <1>2 DEF DInv, ItemStands, Classified, Classify
<1> QED
  BY <1>1, <1>3 DEF DInv, RInv, RingStands, StoredStands, FilterStands, PassedUnseen, ring_vars

LEMMA FilterNextKeeps ==
  ASSUME DInv, FilterNext
  PROVE  DInv'
<1> DEFINE Steps == {"query", "headers", "body", "passed", "blocked"}
<1>1. filtered \in [attacks : SUBSET Places, exempt : BOOLEAN, method : {"GET", "POST"}, step : Steps]
  BY DEF DInv, FilterStands
<1>2. CASE CheckQuery \/ CheckHeaders \/ CheckBody
  <2>1. PICK s \in Steps : filtered' = [filtered EXCEPT !.step = s]
    BY <1>2 DEF CheckQuery, CheckHeaders, CheckBody
  <2>2. filtered' = [attacks |-> filtered.attacks, exempt |-> filtered.exempt, method |-> filtered.method, step |-> s]
    BY <1>1, <2>1
  <2>3. FilterStands'
    <3>1. CASE CheckQuery
      <4>1. filtered.step = "query" /\ filtered.exempt \in BOOLEAN
        BY <1>1, <3>1 DEF CheckQuery
      <4>2. CASE filtered.exempt
        <5>1. s = "passed"
          BY <1>1, <2>1, <3>1, <4>2 DEF CheckQuery
        <5> QED
          BY <1>1, <2>2, <4>2, <5>1 DEF FilterStands, PassedUnseen
      <4>3. CASE ~filtered.exempt /\ "query comment" \in filtered.attacks
        <5>1. s = "blocked"
          BY <1>1, <2>1, <3>1, <4>3 DEF CheckQuery
        <5> QED
          BY <1>1, <2>2, <5>1 DEF FilterStands, PassedUnseen
      <4>4. CASE ~filtered.exempt /\ "query comment" \notin filtered.attacks
        <5>1. s = "headers"
          BY <1>1, <2>1, <3>1, <4>4 DEF CheckQuery
        <5> QED
          BY <1>1, <2>2, <4>4, <5>1 DEF FilterStands, PassedUnseen
      <4> QED
        BY <4>1, <4>2, <4>3, <4>4
    <3>2. CASE CheckHeaders
      <4>1. filtered.step = "headers" /\ ~filtered.exempt /\ "query comment" \notin filtered.attacks
        BY <3>2 DEF CheckHeaders, DInv, FilterStands
      <4>2. s = IF "header" \in filtered.attacks THEN "blocked" ELSE IF ReadsBody(filtered) THEN "body" ELSE "passed"
        BY <1>1, <2>1, <3>2 DEF CheckHeaders
      <4>3. /\ s = "body" => filtered.method = "POST" /\ "header" \notin filtered.attacks
            /\ s = "passed" => filtered.method = "GET" /\ "header" \notin filtered.attacks
            /\ s # "headers"
        BY <1>1, <4>2 DEF ReadsBody
      <4> QED
        BY <1>1, <2>2, <4>1, <4>3 DEF FilterStands, PassedUnseen
    <3>3. CASE CheckBody
      <4>1. filtered.step = "body" /\ filtered.attacks \cap {"query comment", "header"} = {}
        BY <3>3 DEF CheckBody, DInv, FilterStands
      <4>2. s = IF "field" \in filtered.attacks THEN "blocked" ELSE "passed"
        BY <1>1, <2>1, <3>3 DEF CheckBody
      <4>3. CASE "field" \in filtered.attacks
        <5>1. s = "blocked"
          BY <4>2, <4>3
        <5> QED
          BY <1>1, <2>2, <5>1 DEF FilterStands, PassedUnseen
      <4>4. CASE "field" \notin filtered.attacks
        <5>1. s = "passed"
          BY <4>2, <4>4
        <5>2. \/ "not JSON" \in filtered.attacks
              \/ filtered.attacks \subseteq {"query", "other header", "nested field", "list"}
          BY <1>1, <4>1, <4>4 DEF Places
        <5> QED
          BY <1>1, <2>2, <5>1, <5>2 DEF FilterStands, PassedUnseen
      <4> QED
        BY <4>3, <4>4
    <3> QED
      BY <1>2, <3>1, <3>2, <3>3
  <2>4. UNCHANGED ring_vars /\ item' = item
    BY <1>2 DEF CheckQuery, CheckHeaders, CheckBody
  <2>5. RInv'
    BY <2>4 DEF ring_vars, DInv, RInv, RingStands, StoredStands
  <2>6. ItemStands'
    BY <2>4 DEF DInv, ItemStands
  <2> QED
    BY <2>3, <2>5, <2>6 DEF DInv
<1>3. CASE BodyFails
  <2>1. filtered' = [attacks |-> filtered.attacks \cup {"not JSON"}, exempt |-> filtered.exempt, method |-> filtered.method, step |-> "passed"]
    BY <1>1, <1>3 DEF BodyFails
  <2>2. FilterStands'
    BY <1>1, <2>1 DEF FilterStands, PassedUnseen, Places
  <2> QED
    BY <1>3, <2>2 DEF BodyFails, DInv, RInv, RingStands, StoredStands, ItemStands, ring_vars
<1> QED
  BY <1>2, <1>3 DEF FilterNext

LEMMA RingNextKeeps ==
  ASSUME DInv, RingNext
  PROVE  DInv'
<1>1. RInv'
  BY RingRotationKeeps, EncryptKeeps, RestartHolderKeeps DEF DInv, RingNext
<1>2. UNCHANGED <<item, filtered>>
  BY DEF RingNext, RotateKey, EncryptField, RestartHolder
<1> QED
  BY <1>1, <1>2 DEF DInv, ItemStands, FilterStands, PassedUnseen

LEMMA DataNextKeeps ==
  ASSUME DInv, RingNext \/ DLPNext \/ ClassifyItem \/ FilterNext \/ UNCHANGED data_vars
  PROVE  DInv'
<1>1. CASE DLPNext \/ UNCHANGED data_vars
  <2>1. UNCHANGED <<ring_vars, item, filtered>>
    BY <1>1 DEF DLPNext, AddRule, RemoveRule, Inspect, ResolveIncident, data_vars
  <2> QED
    BY <2>1 DEF ring_vars, DInv, RInv, RingStands, StoredStands, ItemStands, FilterStands, PassedUnseen
<1> QED
  BY <1>1, RingNextKeeps, ClassifyItemKeeps, FilterNextKeeps

-----------------------------------------------------------------------------
(* The rules against data loss. *)
RulesStand == dlp_rules \in Seq(DLPRules)

LEMMA SetInduction ==
  ASSUME NEW T, 0 \in T, \A n \in Nat : n \in T => n + 1 \in T
  PROVE  Nat \subseteq T
<1> SUFFICES ASSUME Nat \ T # {} PROVE FALSE
  OBVIOUS
<1>1. PICK m \in Nat \ T : \A k \in Nat \ T : m <= k
  BY LeastNatural
<1>2. m # 0 /\ m - 1 \in Nat /\ ~(m <= m - 1)
  BY <1>1
<1>3. m - 1 \in T
  BY <1>1, <1>2
<1> QED
  BY <1>1, <1>2, <1>3

(* What Among computes, a rule after the other. *)
IsFound(g, rules, S) ==
  g = [i \in 0..Len(rules) |->
         IF i = 0 THEN <<>>
         ELSE IF rules[i] \in S THEN Append(g[i - 1], rules[i]) ELSE g[i - 1]]

LEMMA FoundExists ==
  ASSUME NEW T, NEW rules \in Seq(T), NEW S
  PROVE  \E g : IsFound(g, rules, S)
<1> DEFINE F(g, i) == IF i = 0 THEN <<>>
                      ELSE IF rules[i] \in S THEN Append(g[i - 1], rules[i]) ELSE g[i - 1]
           N == {n \in Nat : \E g : g = [i \in 0..n |-> F(g, i)]}
<1>1. 0 \in N
  <2> DEFINE g == [i \in 0..0 |-> <<>>]
  <2>1. g = [i \in 0..0 |-> F(g, i)]
    OBVIOUS
  <2> QED
    BY <2>1
<1>2. ASSUME NEW n \in Nat, n \in N PROVE n + 1 \in N
  <2>1. PICK g : g = [i \in 0..n |-> F(g, i)]
    BY <1>2
  <2> DEFINE h == [i \in 0..(n + 1) |-> IF i = n + 1
                     THEN IF rules[i] \in S THEN Append(g[i - 1], rules[i]) ELSE g[i - 1]
                     ELSE g[i]]
  <2>2. ASSUME NEW i \in 0..(n + 1) PROVE h[i] = F(h, i)
    <3>1. CASE i = n + 1
      <4>1. i # 0 /\ i - 1 \in 0..(n + 1) /\ i - 1 # n + 1
        BY <3>1
      <4>2. h[i - 1] = g[i - 1]
        BY <4>1
      <4> QED
        BY <3>1, <4>1, <4>2
    <3>2. CASE i \in 0..n /\ i = 0
      <4>1. h[i] = g[i] /\ g[i] = <<>>
        BY <2>1, <3>2
      <4> QED
        BY <3>2, <4>1
    <3>3. CASE i \in 0..n /\ i # 0
      <4>1. i # n + 1 /\ i - 1 \in 0..(n + 1) /\ i - 1 # n + 1
        BY <3>3
      <4>2. h[i] = g[i] /\ h[i - 1] = g[i - 1]
        BY <4>1
      <4>3. g[i] = F(g, i)
        BY <2>1, <3>3
      <4> QED
        BY <3>3, <4>2, <4>3
    <3> QED
      BY <3>1, <3>2, <3>3
  <2> HIDE DEF F
  <2>3. h = [i \in 0..(n + 1) |-> F(h, i)]
    BY <2>2
  <2> HIDE DEF h
  <2> QED
    BY <2>3
<1> HIDE DEF N, F
<1>3. Len(rules) \in N
  BY <1>1, <1>2, SetInduction
<1> USE DEF N, F
<1> QED
  BY <1>3 DEF IsFound

LEMMA FoundAt ==
  ASSUME NEW T, NEW rules \in Seq(T), NEW S
  PROVE  \E g :
           /\ Among(rules, S) = g[Len(rules)]
           /\ g[0] = <<>>
           /\ \A n \in Nat : n + 1 <= Len(rules) =>
                g[n + 1] = IF rules[n + 1] \in S THEN Append(g[n], rules[n + 1]) ELSE g[n]
<1> DEFINE g == CHOOSE g : IsFound(g, rules, S)
           F(i) == IF i = 0 THEN <<>>
                   ELSE IF rules[i] \in S THEN Append(g[i - 1], rules[i]) ELSE g[i - 1]
<1>1. Among(rules, S) = g[Len(rules)]
  BY DEF Among, IsFound
<1>2. IsFound(g, rules, S)
  BY FoundExists
<1> HIDE DEF g
<1>3. g = [i \in 0..Len(rules) |-> F(i)]
  BY <1>2 DEF IsFound
<1> HIDE DEF F
<1>4. Len(rules) \in Nat
  OBVIOUS
<1>5. \A i \in 0..Len(rules) : g[i] = F(i)
  BY <1>3
<1>6. 0 \in 0..Len(rules) /\ \A n \in Nat : n + 1 <= Len(rules) => n + 1 \in 0..Len(rules)
  BY <1>4
<1>7. g[0] = F(0) /\ F(0) = <<>>
  BY <1>5, <1>6 DEF F
<1>8. ASSUME NEW n \in Nat, n + 1 <= Len(rules)
      PROVE  g[n + 1] = IF rules[n + 1] \in S THEN Append(g[n], rules[n + 1]) ELSE g[n]
  <2>1. g[n + 1] = F(n + 1)
    BY <1>5, <1>6, <1>8
  <2>2. n + 1 # 0 /\ n + 1 - 1 = n
    OBVIOUS
  <2> QED
    BY <2>1, <2>2 DEF F
<1> QED
  BY <1>1, <1>7, <1>8

(* What is found is in the list and in the set, all of it. *)
LEMMA AmongFinds ==
  ASSUME NEW T, NEW rules \in Seq(T), NEW S
  PROVE  Among(rules, S) \in Seq(T) /\ InSeq(Among(rules, S)) = InSeq(rules) \cap S
<1>1. PICK g :
        /\ Among(rules, S) = g[Len(rules)]
        /\ g[0] = <<>>
        /\ \A n \in Nat : n + 1 <= Len(rules) =>
             g[n + 1] = IF rules[n + 1] \in S THEN Append(g[n], rules[n + 1]) ELSE g[n]
  BY FoundAt
<1> DEFINE Upto(n) == {rules[i] : i \in 1..n} \cap S
           N == {n \in Nat : n <= Len(rules) => g[n] \in Seq(T) /\ InSeq(g[n]) = Upto(n)}
<1>2. Len(rules) \in Nat /\ DOMAIN rules = 1..Len(rules)
  OBVIOUS
<1>3. 0 \in N
  <2>1. g[0] \in Seq(T) /\ InSeq(g[0]) = {}
    BY <1>1 DEF InSeq
  <2>2. Upto(0) = {}
    OBVIOUS
  <2> QED
    BY <2>1, <2>2
<1>4. ASSUME NEW n \in Nat, n \in N PROVE n + 1 \in N
  <2> SUFFICES ASSUME n + 1 <= Len(rules)
               PROVE  g[n + 1] \in Seq(T) /\ InSeq(g[n + 1]) = Upto(n + 1)
    OBVIOUS
  <2> DEFINE e == rules[n + 1]
             old == g[n]
             new == g[n + 1]
  <2>1. e \in T /\ n <= Len(rules)
    BY <1>2
  <2>2. old \in Seq(T) /\ InSeq(old) = Upto(n)
    BY <1>4, <2>1
  <2>3. Upto(n + 1) = Upto(n) \cup ({e} \cap S)
    <3>1. 1..(n + 1) = 1..n \cup {n + 1}
      OBVIOUS
    <3> QED
      BY <3>1
  <2>4. new = IF e \in S THEN Append(old, e) ELSE old
    BY <1>1
  <2> HIDE DEF e, old, new, Upto
  <2>5. CASE e \in S
    <3>1. /\ Append(old, e) \in Seq(T) /\ Len(Append(old, e)) = Len(old) + 1 /\ Len(old) \in Nat
          /\ \A i \in 1..Len(old) : Append(old, e)[i] = old[i]
          /\ Append(old, e)[Len(old) + 1] = e
      BY <2>1, <2>2, AppendProperties
    <3>2. DOMAIN Append(old, e) = 1..Len(old) \cup {Len(old) + 1} /\ DOMAIN old = 1..Len(old)
      BY <2>2, <3>1
    <3>3. InSeq(Append(old, e)) = InSeq(old) \cup {e}
      BY <3>1, <3>2 DEF InSeq
    <3> QED
      BY <2>2, <2>3, <2>4, <2>5, <3>1, <3>3 DEF new, e
  <2>6. CASE e \notin S
    BY <2>2, <2>3, <2>4, <2>6 DEF new, e
  <2> QED
    BY <2>5, <2>6
<1> HIDE DEF N
<1>5. Len(rules) \in N
  BY <1>2, <1>3, <1>4, SetInduction
<1>6. g[Len(rules)] \in Seq(T) /\ InSeq(g[Len(rules)]) = Upto(Len(rules))
  BY <1>2, <1>5 DEF N
<1>7. Upto(Len(rules)) = InSeq(rules) \cap S
  BY <1>2 DEF InSeq
<1> HIDE DEF Upto
<1> QED
  BY <1>1, <1>6, <1>7

LEMMA DLPInitInv == DLPInit => RulesStand
  BY DataProtectionAssumption DEF DLPInit, RulesStand

LEMMA DLPNextKeeps ==
  ASSUME RulesStand, DataNext \/ UNCHANGED data_vars
  PROVE  RulesStand'
<1>1. ASSUME NEW rule \in DLPRules, AddRule(rule) PROVE RulesStand'
  BY <1>1 DEF AddRule, RulesStand
<1>2. ASSUME NEW name \in RuleNames, RemoveRule(name) PROVE RulesStand'
  BY <1>2, AmongFinds DEF RemoveRule, RulesStand
<1>3. CASE UNCHANGED dlp_rules
  BY <1>3 DEF RulesStand
<1>4. DataNext \/ UNCHANGED data_vars =>
        \/ \E rule \in DLPRules : AddRule(rule)
        \/ \E name \in RuleNames : RemoveRule(name)
        \/ UNCHANGED dlp_rules
  BY DEF DataNext, DLPNext, RingNext, FilterNext, Inspect, ResolveIncident, RotateKey, RestartHolder, EncryptField,
         ClassifyItem, CheckQuery, CheckHeaders, CheckBody, BodyFails, data_vars, dlp_vars
<1> QED
  BY <1>1, <1>2, <1>3, <1>4

(* of actions one is the most restrictive, and no two are as much so *)
LEMMA StrictestExists ==
  ASSUME NEW actions \in SUBSET DLPActions, actions # {}
  PROVE  LET a == CHOOSE a \in actions : \A b \in actions : Restrictive[a] >= Restrictive[b]
         IN  a \in actions /\ \A b \in actions : Restrictive[a] >= Restrictive[b]
<1> DEFINE ranks == {4 - Restrictive[c] : c \in actions}
<1>1. \A c \in DLPActions : Restrictive[c] \in 0..4
  BY DEF DLPActions, Restrictive
<1>2. ranks \in SUBSET Nat /\ ranks # {}
  <2>1. \A c \in actions : 4 - Restrictive[c] \in Nat
    BY <1>1
  <2> QED
    BY <2>1
<1>3. PICK m \in ranks : \A k \in ranks : m <= k
  BY <1>2, LeastNatural
<1>4. PICK c \in actions : m = 4 - Restrictive[c]
  OBVIOUS
<1>5. ASSUME NEW d \in actions PROVE Restrictive[c] >= Restrictive[d]
  <2>1. 4 - Restrictive[c] <= 4 - Restrictive[d]
    BY <1>3, <1>4
  <2>2. Restrictive[c] \in 0..4 /\ Restrictive[d] \in 0..4
    BY <1>1
  <2> QED
    BY <2>1, <2>2
<1>6. \E b \in actions : \A d \in actions : Restrictive[b] >= Restrictive[d]
  BY <1>5
<1> QED
  BY <1>6, Zenon

(* the actions that the rules in force ask for, for a content *)
Asked(content) ==
  {"allow"} \cup {r.action : r \in {q \in InSeq(dlp_rules) : q.enabled /\ q.name \in content}}

LEMMA ActionIs ==
  ASSUME RulesStand, NEW content
  PROVE  /\ GetAction(content) \in Asked(content)
         /\ \A b \in Asked(content) : Restrictive[b] <= Restrictive[GetAction(content)]
<1>1. InSeq(dlp_rules) \subseteq DLPRules
  BY DEF RulesStand, InSeq
<1>2. Asked(content) \in SUBSET DLPActions /\ Asked(content) # {}
  <2>1. "allow" \in DLPActions
    BY DEF DLPActions
  <2> QED
    BY <1>1, <2>1 DEF Asked, DLPRules
<1>3. GetAction(content) = CHOOSE a \in Asked(content) : \A b \in Asked(content) : Restrictive[a] >= Restrictive[b]
  BY Zenon DEF GetAction, Asked
<1>4. GetAction(content) \in Asked(content)
  BY <1>2, <1>3, StrictestExists
<1>5. \A b \in Asked(content) : Restrictive[GetAction(content)] >= Restrictive[b]
  BY <1>2, <1>3, StrictestExists
<1>6. \A b \in Asked(content) : Restrictive[b] \in Nat
  BY <1>2 DEF DLPActions, Restrictive
<1> QED
  BY <1>4, <1>5, <1>6

LEMMA StrongestByInvariant == RulesStand => StrongestIsTaken
<1> SUFFICES ASSUME RulesStand, NEW content \in SUBSET RuleNames, NEW in_context \in BOOLEAN
             PROVE  LET found == {r.action : r \in InSeq(Matched(content, in_context))} IN
                      /\ \A a \in found : Restrictive[a] <= Restrictive[GetAction(content)]
                      /\ in_context => GetAction(content) \in found \cup {"allow"}
                      /\ GetAction(MaskContent(content)) \in {"allow", "alert", "quarantine"}
  BY DEF StrongestIsTaken
<1> DEFINE rules == InSeq(dlp_rules)
           due == {r \in DLPRules : r.enabled /\ r.name \in content /\ (r.contextual => in_context)}
<1>1. InSeq(Matched(content, in_context)) = rules \cap due
  BY AmongFinds DEF Matched, RulesStand
<1>2. rules \subseteq DLPRules
  BY DEF RulesStand, InSeq
<1>3. \A r \in rules \cap due : r.action \in Asked(content)
  BY DEF Asked
<1>4. ASSUME in_context, NEW a \in Asked(content), a # "allow"
      PROVE  \E r \in rules \cap due : a = r.action
  BY <1>2, <1>4 DEF Asked
<1>5. GetAction(MaskContent(content)) \in {"allow", "alert", "quarantine"}
  <2> DEFINE left == MaskContent(content)
  <2>1. GetAction(left) \in Asked(left)
    BY ActionIs
  <2>2. ASSUME NEW r \in rules, r.name \in left PROVE r.action \notin {"mask", "block"}
    BY <2>2 DEF MaskContent
  <2>3. \A r \in rules : r.action \in DLPActions
    BY <1>2 DEF DLPRules
  <2> HIDE DEF left
  <2>4. \A a \in Asked(left) : a \in {"allow", "alert", "quarantine"}
    BY <2>2, <2>3 DEF Asked, DLPActions
  <2> QED
    BY <2>1, <2>4 DEF left
<1> HIDE DEF rules, due
<1> QED
  BY <1>1, <1>3, <1>4, <1>5, ActionIs

-----------------------------------------------------------------------------
(* The circuit of OPA. *)

Failed == {e \in Evaluations : evaluation[e].by = "failure"}
FailedBy(at) == {f \in Failed : evaluation[f].at <= at}

EvaluationRecord ==
  [state : {"new", "asked", "done"}, risk : {"low", "critical"}, allowed : BOOLEAN \cup {None},
   by : {"policy", "failure", "open circuit", None}, at : Nat]

CircuitRecord == [open : BOOLEAN, failures : Nat, since : Nat]

OpaData ==
  /\ OPA_FAIL_MODE \in {"fail_open", "fail_closed", "risk_based"}
  /\ instant \in Nat /\ circuit \in CircuitRecord
  /\ evaluation \in [Evaluations -> EvaluationRecord]
  /\ \A e \in Evaluations :
       /\ evaluation[e].state # "done" => evaluation[e].by = None
       /\ evaluation[e].by \in {"open circuit", "failure"} => evaluation[e].allowed = Unavailable

(* the circuit counts no more than what failed, and was opened when something did *)
CircuitStands ==
  /\ IsFiniteSet(Failed) /\ circuit.failures <= Cardinality(Failed)
  /\ \A f \in Failed : evaluation[f].at <= instant
  /\ circuit.open =>
       /\ circuit.failures >= OPA_CIRCUIT_THRESHOLD
       /\ \E recent \in Failed : evaluation[recent].at = circuit.since

TurnedAway ==
  \A e \in Evaluations : evaluation[e].by = "open circuit" =>
    /\ \E recent \in Failed : evaluation[e].at - evaluation[recent].at < OPA_CIRCUIT_RESET_SECONDS
    /\ Cardinality(FailedBy(evaluation[e].at)) >= OPA_CIRCUIT_THRESHOLD

OInv == OpaData /\ CircuitStands /\ TurnedAway

LEMMA CircuitRecords ==
  /\ Closed \in CircuitRecord /\ Closed.open = FALSE /\ Closed.failures = 0
  /\ \A n, s \in Nat : [open |-> TRUE, failures |-> n, since |-> s] \in CircuitRecord
  BY DEF Closed, CircuitRecord

LEMMA NewRecords ==
  ASSUME NEW risk \in {"low", "critical"}
  PROVE  [state |-> "new", risk |-> risk, allowed |-> None, by |-> None, at |-> 0] \in EvaluationRecord
  BY DEF EvaluationRecord

LEMMA OpaInitInv == OpaInit => OInv
<1> SUFFICES ASSUME OpaInit PROVE OInv
  OBVIOUS
<1>1. None \notin {"failure", "open circuit"}
  BY OpaAssumption
<1>2. OpaData
  <2>1. \A e \in Evaluations : /\ evaluation[e] \in [state : {"new"}, risk : {"low", "critical"}, allowed : {None}, by : {None}, at : {0}]
                               /\ evaluation[e].by = None
    BY DEF OpaInit
  <2>2. \A e \in Evaluations : evaluation[e] \in EvaluationRecord
    <3> SUFFICES ASSUME NEW e \in Evaluations PROVE evaluation[e] \in EvaluationRecord
      OBVIOUS
    <3>1. evaluation[e] = [state |-> "new", risk |-> evaluation[e].risk, allowed |-> None, by |-> None, at |-> 0]
      BY <2>1
    <3>2. evaluation[e].risk \in {"low", "critical"}
      BY <2>1
    <3> QED
      BY <3>1, <3>2, NewRecords
  <2>3. evaluation \in [Evaluations -> EvaluationRecord]
    BY <2>2 DEF OpaInit
  <2> QED
    BY <1>1, <2>1, <2>3, CircuitRecords DEF OpaInit, OpaData
<1>3. Failed = {} /\ circuit.open = FALSE /\ circuit.failures = 0
  BY <1>1 DEF OpaInit, Failed, Closed
<1>4. CircuitStands
  BY <1>3, FS_EmptySet DEF CircuitStands
<1>5. TurnedAway
  BY <1>1 DEF OpaInit, TurnedAway
<1> QED
  BY <1>2, <1>4, <1>5 DEF OInv

(* what deciding an evaluation does to the others: nothing *)
LEMMA DecidesOne ==
  ASSUME OInv, NEW e \in Evaluations, evaluation[e].state # "done", NEW allowed \in BOOLEAN,
         NEW by \in {"policy", "failure", "open circuit"}, Decides(e, allowed, by)
  PROVE  /\ evaluation' \in [Evaluations -> EvaluationRecord]
         /\ evaluation'[e].state = "done" /\ evaluation'[e].allowed = allowed
         /\ evaluation'[e].by = by /\ evaluation'[e].at = instant
         /\ \A d \in Evaluations \ {e} : evaluation'[d] = evaluation[d]
         /\ Failed' = IF by = "failure" THEN Failed \cup {e} ELSE Failed
         /\ e \notin Failed
<1> DEFINE new == [evaluation[e] EXCEPT !.state = "done", !.allowed = allowed, !.by = by, !.at = instant]
<1>1. evaluation' = [evaluation EXCEPT ![e] = new]
  BY Zenon DEF Decides
<1>2. evaluation[e] \in EvaluationRecord /\ instant \in Nat /\ evaluation \in [Evaluations -> EvaluationRecord]
  BY DEF OInv, OpaData
<1>3. /\ new \in EvaluationRecord
      /\ new.state = "done" /\ new.allowed = allowed /\ new.by = by /\ new.at = instant
  BY <1>2 DEF EvaluationRecord
<1> HIDE DEF new
<1>4. /\ evaluation' \in [Evaluations -> EvaluationRecord] /\ evaluation'[e] = new
      /\ \A d \in Evaluations \ {e} : evaluation'[d] = evaluation[d]
  BY <1>1, <1>2, <1>3
<1>5. evaluation[e].by = None /\ None # "failure"
  BY OpaAssumption DEF OInv, OpaData
<1>6. e \notin Failed
  BY <1>5 DEF Failed
<1>7. Failed' = IF by = "failure" THEN Failed \cup {e} ELSE Failed
  <2>1. \A d \in Evaluations : d \in Failed' <=> (IF d = e THEN by = "failure" ELSE d \in Failed)
    BY <1>3, <1>4 DEF Failed
  <2>2. Failed' \subseteq Evaluations /\ Failed \subseteq Evaluations
    BY DEF Failed
  <2> QED
    BY <1>6, <2>1, <2>2
<1> QED
  BY <1>3, <1>4, <1>6, <1>7

LEMMA StillAtLeast == \A a, b, c \in Nat : a <= b /\ a >= c => b >= c
  OBVIOUS

(* more failures leave who was turned away for cause so *)
LEMMA StillForCause ==
  ASSUME OInv, IsFiniteSet(Failed'), Failed \subseteq Failed',
         \A f \in Failed : evaluation'[f] = evaluation[f],
         \A f \in Failed' : evaluation'[f].at \in Nat,
         NEW d \in Evaluations, evaluation'[d] = evaluation[d], evaluation[d].by = "open circuit"
  PROVE  /\ \E recent \in Failed' : evaluation'[d].at - evaluation'[recent].at < OPA_CIRCUIT_RESET_SECONDS
         /\ Cardinality(FailedBy(evaluation[d].at)') >= OPA_CIRCUIT_THRESHOLD
         /\ FailedBy(evaluation[d].at)' = {f \in Failed' : evaluation'[f].at <= evaluation'[d].at}
<1> DEFINE old == FailedBy(evaluation[d].at)
           new == {f \in Failed' : evaluation'[f].at <= evaluation[d].at}
<1>1. old \subseteq new /\ new \subseteq Failed'
  BY DEF FailedBy
<1>2. IsFiniteSet(new)
  BY <1>1, FS_Subset
<1>3. IsFiniteSet(old) /\ Cardinality(old) <= Cardinality(new)
  BY <1>1, <1>2, FS_Subset
<1>4. Cardinality(old) \in Nat /\ Cardinality(new) \in Nat
  BY <1>2, <1>3, FS_CardinalityType
<1>5. Cardinality(old) >= OPA_CIRCUIT_THRESHOLD
  BY DEF OInv, TurnedAway
<1>6. Cardinality(new) >= OPA_CIRCUIT_THRESHOLD
  <2>1. OPA_CIRCUIT_THRESHOLD \in Nat
    BY OpaAssumption
  <2> HIDE DEF old, new
  <2> QED
    BY <1>3, <1>4, <1>5, <2>1, StillAtLeast
<1>7. PICK recent \in Failed : evaluation[d].at - evaluation[recent].at < OPA_CIRCUIT_RESET_SECONDS
  BY DEF OInv, TurnedAway
<1>8. recent \in Failed' /\ evaluation'[d].at - evaluation'[recent].at < OPA_CIRCUIT_RESET_SECONDS
  BY <1>7
<1>9. FailedBy(evaluation[d].at)' = new
  BY DEF FailedBy
<1> QED
  BY <1>6, <1>8, <1>9

LEMMA BeginEvaluateKeeps ==
  ASSUME OInv, NEW e \in Evaluations, BeginEvaluate(e)
  PROVE  OInv'
<1>1. /\ evaluation[e].state = "new" /\ evaluation[e].by = None /\ UNCHANGED <<OPA_FAIL_MODE, instant>>
      /\ evaluation \in [Evaluations -> EvaluationRecord] /\ None \notin {"failure", "open circuit"}
  BY OpaAssumption DEF OInv, OpaData, BeginEvaluate
<1>2. CASE circuit.open /\ instant - circuit.since < OPA_CIRCUIT_RESET_SECONDS
  <2>1. Decides(e, Unavailable, "open circuit") /\ UNCHANGED circuit /\ Unavailable \in BOOLEAN
    BY <1>2 DEF BeginEvaluate, Unavailable
  <2>2. /\ evaluation' \in [Evaluations -> EvaluationRecord]
        /\ evaluation'[e].state = "done" /\ evaluation'[e].allowed = Unavailable
        /\ evaluation'[e].by = "open circuit" /\ evaluation'[e].at = instant
        /\ \A d \in Evaluations \ {e} : evaluation'[d] = evaluation[d]
        /\ Failed' = Failed /\ e \notin Failed
    <3>1. evaluation[e].state # "done"
      BY <1>1
    <3> QED
      BY <2>1, <3>1, DecidesOne
  <2>3. \A f \in Failed : evaluation'[f] = evaluation[f]
    BY <2>2 DEF Failed
  <2>4. OpaData'
    BY <1>1, <2>1, <2>2 DEF OInv, OpaData, Unavailable
  <2>5. CircuitStands'
    BY <1>1, <2>1, <2>2, <2>3 DEF OInv, CircuitStands
  <2>6. ASSUME NEW d \in Evaluations, evaluation'[d].by = "open circuit"
        PROVE  /\ \E recent \in Failed' : evaluation'[d].at - evaluation'[recent].at < OPA_CIRCUIT_RESET_SECONDS
               /\ Cardinality(FailedBy(evaluation[d].at)') >= OPA_CIRCUIT_THRESHOLD
    <3>1. CASE d = e
      <4>1. PICK recent \in Failed : evaluation[recent].at = circuit.since
        BY <1>2 DEF OInv, CircuitStands
      <4>2. FailedBy(evaluation[d].at)' = Failed
        BY <2>2, <2>3, <3>1 DEF FailedBy, OInv, CircuitStands
      <4>3. Cardinality(Failed) >= OPA_CIRCUIT_THRESHOLD
        <5>1. /\ circuit.failures >= OPA_CIRCUIT_THRESHOLD /\ circuit.failures <= Cardinality(Failed)
              /\ circuit.failures \in Nat /\ Cardinality(Failed) \in Nat
          BY <1>2, FS_CardinalityType DEF OInv, OpaData, CircuitStands, CircuitRecord
        <5>2. OPA_CIRCUIT_THRESHOLD \in Nat
          BY OpaAssumption
        <5> QED
          BY <5>1, <5>2
      <4> QED
        BY <1>2, <2>2, <2>3, <3>1, <4>1, <4>2, <4>3
    <3>2. CASE d # e
      <4>1. evaluation'[d] = evaluation[d] /\ evaluation[d].by = "open circuit"
        BY <2>2, <2>6, <3>2
      <4>2. \A f \in Failed' : evaluation'[f].at \in Nat
        BY <2>2 DEF Failed, EvaluationRecord
      <4>3. IsFiniteSet(Failed') /\ Failed \subseteq Failed'
        BY <2>2 DEF OInv, CircuitStands
      <4> QED
        BY <2>3, <4>1, <4>2, <4>3, StillForCause
    <3> QED
      BY <3>1, <3>2
  <2>7. TurnedAway'
    BY <2>6 DEF TurnedAway
  <2> QED
    BY <2>4, <2>5, <2>7 DEF OInv
<1>3. CASE ~(circuit.open /\ instant - circuit.since < OPA_CIRCUIT_RESET_SECONDS)
  <2>1. /\ evaluation' = [evaluation EXCEPT ![e].state = "asked"]
        /\ circuit' = IF circuit.open THEN Closed ELSE circuit
    BY <1>3 DEF BeginEvaluate
  <2>2. /\ evaluation' \in [Evaluations -> EvaluationRecord]
        /\ \A d \in Evaluations : /\ evaluation'[d].by = evaluation[d].by /\ evaluation'[d].at = evaluation[d].at
                                  /\ evaluation'[d].allowed = evaluation[d].allowed
                                  /\ evaluation'[d].state # "done" => evaluation[d].state # "done"
    <3>1. evaluation[e] \in EvaluationRecord /\ \A d \in Evaluations : d # e => evaluation'[d] = evaluation[d]
      BY <1>1, <2>1
    <3>2. evaluation'[e] = [evaluation[e] EXCEPT !.state = "asked"]
      BY <1>1, <2>1
    <3>3. /\ evaluation'[e] \in EvaluationRecord
          /\ evaluation'[e].by = evaluation[e].by /\ evaluation'[e].at = evaluation[e].at
          /\ evaluation'[e].allowed = evaluation[e].allowed
      BY <3>1, <3>2 DEF EvaluationRecord
    <3>4. evaluation' \in [Evaluations -> EvaluationRecord]
      BY <1>1, <2>1, <3>2, <3>3
    <3>5. evaluation[e].state # "done"
      BY <1>1
    <3> QED
      BY <3>1, <3>3, <3>4, <3>5
  <2>3. Failed' = Failed
    BY <2>2 DEF Failed
  <2>4. /\ circuit' \in CircuitRecord
        /\ circuit' = circuit \/ (circuit'.open = FALSE /\ circuit'.failures = 0)
    <3>1. circuit \in CircuitRecord
      BY DEF OInv, OpaData
    <3> QED
      BY <2>1, <3>1, CircuitRecords
  <2>5. OpaData'
    BY <1>1, <2>2, <2>4 DEF OInv, OpaData, Unavailable
  <2>6. CircuitStands'
    <3>1. IsFiniteSet(Failed) /\ Cardinality(Failed) \in Nat
      BY FS_CardinalityType DEF OInv, CircuitStands
    <3>2. \A f \in Failed : evaluation'[f].at = evaluation[f].at
      BY <2>2 DEF Failed
    <3>3. circuit'.failures <= Cardinality(Failed)
      <4>1. CASE circuit' = circuit
        BY <4>1 DEF OInv, CircuitStands
      <4>2. CASE circuit'.failures = 0
        BY <3>1, <4>2
      <4> QED
        BY <2>4, <4>1, <4>2
    <3>4. circuit'.open => circuit' = circuit
      BY <2>4
    <3>5. \A f \in Failed : evaluation'[f].at <= instant'
      BY <1>1, <3>2 DEF OInv, CircuitStands
    <3> QED
      BY <2>3, <3>1, <3>2, <3>3, <3>4, <3>5 DEF OInv, CircuitStands
  <2>7. TurnedAway'
    <3>1. \A f \in Failed : evaluation'[f].at = evaluation[f].at
      BY <2>2 DEF Failed
    <3>2. \A d \in Evaluations : FailedBy(evaluation[d].at)' = FailedBy(evaluation[d].at)
      BY <2>2, <2>3, <3>1 DEF FailedBy
    <3> QED
      BY <2>2, <2>3, <3>1, <3>2 DEF OInv, TurnedAway
  <2> QED
    BY <2>5, <2>6, <2>7 DEF OInv
<1> QED
  BY <1>2, <1>3

(* an answer, good or none, decides one evaluation and sets the circuit *)
LEMMA AnswerKeeps ==
  ASSUME OInv, NEW e \in Evaluations, evaluation[e].state = "asked", NEW allowed \in BOOLEAN,
         NEW by \in {"policy", "failure"}, Decides(e, allowed, by), by = "failure" => allowed = Unavailable,
         circuit' = IF by = "policy" THEN Closed ELSE Counted,
         UNCHANGED <<OPA_FAIL_MODE, instant>>
  PROVE  OInv'
<1>1. /\ evaluation' \in [Evaluations -> EvaluationRecord]
      /\ evaluation'[e].state = "done" /\ evaluation'[e].allowed = allowed
      /\ evaluation'[e].by = by /\ evaluation'[e].at = instant
      /\ \A d \in Evaluations \ {e} : evaluation'[d] = evaluation[d]
      /\ Failed' = IF by = "failure" THEN Failed \cup {e} ELSE Failed
      /\ e \notin Failed
  BY DecidesOne
<1>2. /\ instant \in Nat /\ circuit \in CircuitRecord /\ circuit.failures \in Nat
      /\ IsFiniteSet(Failed) /\ circuit.failures <= Cardinality(Failed) /\ Cardinality(Failed) \in Nat
      /\ OPA_CIRCUIT_THRESHOLD \in Nat
  BY OpaAssumption, FS_CardinalityType DEF OInv, OpaData, CircuitStands, CircuitRecord
<1>3. \A f \in Failed : evaluation'[f] = evaluation[f]
  BY <1>1 DEF Failed
<1>4. IsFiniteSet(Failed') /\ Failed \subseteq Failed' /\ \A f \in Failed' : evaluation'[f].at <= instant
  <2>1. IsFiniteSet(Failed \cup {e})
    BY <1>2, FS_AddElement
  <2>2. IsFiniteSet(Failed') /\ Failed \subseteq Failed'
    BY <1>1, <1>2, <2>1
  <2>3. ASSUME NEW f \in Failed' PROVE evaluation'[f].at <= instant
    <3>1. CASE f = e
      BY <1>1, <1>2, <3>1
    <3>2. CASE f # e
      <4>1. f \in Failed
        BY <1>1, <2>3, <3>2
      <4> QED
        BY <1>3, <4>1 DEF OInv, CircuitStands
    <3> QED
      BY <3>1, <3>2
  <2> QED
    BY <2>2, <2>3
<1>5. /\ circuit' \in CircuitRecord
      /\ circuit'.failures <= Cardinality(Failed')
      /\ circuit'.open => /\ circuit'.failures >= OPA_CIRCUIT_THRESHOLD
                          /\ \E recent \in Failed' : evaluation'[recent].at = circuit'.since
  <2>1. CASE by = "policy"
    <3>1. circuit' = Closed
      BY <2>1
    <3>2. 0 <= Cardinality(Failed')
      <4>1. Cardinality(Failed') \in Nat
        BY <1>4, FS_CardinalityType
      <4> QED
        BY <4>1
    <3>3. circuit' \in CircuitRecord
      BY <3>1, CircuitRecords
    <3>4. circuit'.open = FALSE /\ circuit'.failures = 0
      BY <3>1, CircuitRecords
    <3> QED
      BY <3>2, <3>3, <3>4
  <2>2. CASE by = "failure"
    <3>1. Failed' = Failed \cup {e} /\ Cardinality(Failed') = Cardinality(Failed) + 1
      BY <1>1, <1>2, <2>2, FS_AddElement
    <3>2. CASE circuit.failures + 1 >= OPA_CIRCUIT_THRESHOLD
      <4>1. circuit' = [open |-> TRUE, failures |-> circuit.failures + 1, since |-> instant]
        BY <2>2, <3>2 DEF Counted
      <4>2. circuit.failures + 1 <= Cardinality(Failed) + 1
        BY <1>2
      <4>3. e \in Failed' /\ evaluation'[e].at = instant /\ instant \in Nat /\ circuit.failures + 1 \in Nat
        BY <1>1, <1>2, <3>1
      <4>4. circuit'.open = TRUE /\ circuit'.failures = circuit.failures + 1 /\ circuit'.since = instant
        BY <4>1
      <4>5. circuit'.failures <= Cardinality(Failed') /\ circuit'.failures >= OPA_CIRCUIT_THRESHOLD
        <5>1. circuit'.failures <= Cardinality(Failed')
          BY <3>1, <4>2, <4>4, Zenon
        <5>2. circuit'.failures >= OPA_CIRCUIT_THRESHOLD
          BY <3>2, <4>4, Zenon
        <5> QED
          BY <5>1, <5>2
      <4>6. circuit' \in CircuitRecord
        BY <4>1, <4>3, CircuitRecords
      <4> QED
        BY <4>3, <4>4, <4>5, <4>6
    <3>3. CASE ~(circuit.failures + 1 >= OPA_CIRCUIT_THRESHOLD)
      <4>1. circuit' = [circuit EXCEPT !.failures = circuit.failures + 1]
        BY <2>2, <3>3 DEF Counted
      <4>2. /\ circuit' \in CircuitRecord
            /\ circuit'.failures = circuit.failures + 1 /\ circuit'.open = circuit.open
        BY <1>2, <4>1 DEF CircuitRecord
      <4>3. ~circuit.open
        BY <1>2, <3>3 DEF OInv, CircuitStands
      <4> QED
        BY <1>2, <3>1, <4>2, <4>3
    <3> QED
      BY <3>2, <3>3
  <2> QED
    BY <2>1, <2>2
<1>6. OpaData'
  BY <1>1, <1>2, <1>5 DEF OInv, OpaData, Unavailable
<1>7. CircuitStands'
  BY <1>4, <1>5 DEF CircuitStands
<1>8. TurnedAway'
  <2> SUFFICES ASSUME NEW d \in Evaluations, evaluation'[d].by = "open circuit"
               PROVE  /\ \E recent \in Failed' : evaluation'[d].at - evaluation'[recent].at < OPA_CIRCUIT_RESET_SECONDS
                      /\ Cardinality(FailedBy(evaluation[d].at)') >= OPA_CIRCUIT_THRESHOLD
    BY DEF TurnedAway
  <2>1. d # e
    BY <1>1
  <2>2. evaluation'[d] = evaluation[d] /\ evaluation[d].by = "open circuit"
    BY <1>1, <2>1
  <2>3. \A f \in Failed' : evaluation'[f].at \in Nat
    BY <1>1 DEF Failed, EvaluationRecord
  <2> QED
    BY <1>3, <1>4, <2>2, <2>3, StillForCause
<1> QED
  BY <1>6, <1>7, <1>8 DEF OInv

LEMMA OpaNextKeeps ==
  ASSUME OInv, [OpaNext]_opa_vars
  PROVE  OInv'
<1>1. ASSUME NEW e \in Evaluations, OpaFails(e) PROVE OInv'
  <2>1. /\ evaluation[e].state = "asked" /\ Decides(e, Unavailable, "failure") /\ circuit' = Counted
        /\ UNCHANGED <<OPA_FAIL_MODE, instant>> /\ Unavailable \in BOOLEAN
    BY <1>1 DEF OpaFails, Unavailable
  <2> QED
    BY <2>1, AnswerKeeps
<1>2. ASSUME NEW e \in Evaluations, NEW allow \in BOOLEAN, OpaAnswers(e, allow) PROVE OInv'
  <2>1. /\ evaluation[e].state = "asked" /\ Decides(e, allow, "policy") /\ circuit' = Closed
        /\ UNCHANGED <<OPA_FAIL_MODE, instant>>
    BY <1>2 DEF OpaAnswers
  <2> QED
    BY <2>1, AnswerKeeps
<1>3. CASE Reset \/ Wait \/ UNCHANGED opa_vars
  <2>1. /\ UNCHANGED <<OPA_FAIL_MODE, evaluation>> /\ instant' \in Nat /\ instant <= instant'
        /\ circuit' = circuit \/ circuit' = Closed
    <3>1. instant \in Nat
      BY DEF OInv, OpaData
    <3>2. CASE Reset \/ UNCHANGED opa_vars
      BY <3>1, <3>2 DEF Reset, opa_vars
    <3>3. CASE Wait
      BY <3>1, <3>3 DEF Wait
    <3> QED
      BY <1>3, <3>2, <3>3
  <2>2. Failed' = Failed /\ IsFiniteSet(Failed) /\ Cardinality(Failed) \in Nat
    BY <2>1, FS_CardinalityType DEF Failed, OInv, CircuitStands
  <2>3. /\ circuit' \in CircuitRecord
        /\ circuit' = circuit \/ (circuit'.open = FALSE /\ circuit'.failures = 0)
    <3>1. circuit \in CircuitRecord
      BY DEF OInv, OpaData
    <3> QED
      BY <2>1, <3>1, CircuitRecords
  <2>4. OpaData'
    BY <2>1, <2>3 DEF OInv, OpaData, Unavailable
  <2>5. CircuitStands'
    <3>1. \A f \in Failed : evaluation[f].at <= instant'
      <4>1. \A f \in Failed : evaluation[f].at \in Nat /\ evaluation[f].at <= instant
        BY DEF OInv, OpaData, EvaluationRecord, CircuitStands, Failed
      <4>2. instant \in Nat
        BY DEF OInv, OpaData
      <4> QED
        BY <2>1, <4>1, <4>2
    <3> QED
      BY <2>1, <2>2, <2>3, <3>1 DEF OInv, CircuitStands
  <2>6. TurnedAway'
    <3>1. \A d \in Evaluations : FailedBy(evaluation[d].at)' = FailedBy(evaluation[d].at)
      BY <2>1, <2>2 DEF FailedBy
    <3> QED
      BY <2>1, <2>2, <3>1 DEF OInv, TurnedAway
  <2> QED
    BY <2>4, <2>5, <2>6 DEF OInv
<1> QED
  BY <1>1, <1>2, <1>3, BeginEvaluateKeeps DEF OpaNext

LEMMA CauseByInvariant == OInv => TurnedAwayForCause
<1> SUFFICES ASSUME OInv, NEW e \in Evaluations
             PROVE  /\ evaluation[e].by = "open circuit" =>
                         /\ \E recent \in Failed : evaluation[e].at - evaluation[recent].at < OPA_CIRCUIT_RESET_SECONDS
                         /\ Cardinality(FailedBy(evaluation[e].at)) >= OPA_CIRCUIT_THRESHOLD
                    /\ evaluation[e].by \in {"open circuit", "failure"} => (Effective(e) <=> OPA_FAIL_MODE # "fail_closed")
  BY DEF TurnedAwayForCause, Failed, FailedBy
<1>1. evaluation[e].by = "open circuit" =>
        /\ \E recent \in Failed : evaluation[e].at - evaluation[recent].at < OPA_CIRCUIT_RESET_SECONDS
        /\ Cardinality(FailedBy(evaluation[e].at)) >= OPA_CIRCUIT_THRESHOLD
  BY DEF OInv, TurnedAway
<1>2. ASSUME evaluation[e].by \in {"open circuit", "failure"} PROVE Effective(e) <=> OPA_FAIL_MODE # "fail_closed"
  <2>1. evaluation[e].allowed = Unavailable /\ OPA_FAIL_MODE \in {"fail_open", "fail_closed", "risk_based"}
    BY <1>2 DEF OInv, OpaData
  <2> QED
    BY <2>1 DEF Effective, Unavailable
<1> QED
  BY <1>1, <1>2

LEMMA DisjointUnion ==
  ASSUME NEW S, NEW T, IsFiniteSet(S), IsFiniteSet(T), S \cap T = {}
  PROVE  IsFiniteSet(S \cup T) /\ Cardinality(S \cup T) = Cardinality(S) + Cardinality(T)
<1>1. /\ IsFiniteSet(S \cup T)
      /\ Cardinality(S \cup T) = Cardinality(S) + Cardinality(T) - Cardinality(S \cap T)
  BY FS_Union
<1>2. Cardinality(S \cap T) = 0
  BY FS_EmptySet
<1>3. Cardinality(S) \in Nat /\ Cardinality(T) \in Nat
  BY FS_CardinalityType
<1> QED
  BY <1>1, <1>2, <1>3

-----------------------------------------------------------------------------
(* The calls of tools. *)

(* what decides of call i *)
EffectOf(i) == EvaluateToolCall(answer.user, answer.role, answer.context, answer.calls[i].tool, answer.calls[i].target)

AnswerFields == {"calls", "done", "allowed", "blocked", "approval", "user", "role", "context", "failed"}

ListsStand ==
  /\ answer = [f \in AnswerFields |-> answer[f]]
  /\ answer.done \in Nat
  /\ answer.allowed \cup answer.blocked \cup answer.approval = 1..answer.done
  /\ answer.allowed \cap answer.blocked = {} /\ answer.allowed \cap answer.approval = {}
  /\ answer.blocked \cap answer.approval = {}
  /\ answer.user = None => answer.done = 0 /\ answer.calls = <<>>
  /\ answer.user # None => POLICIES # None

(* every call that was looked at went where the policies say *)
Decided ==
  /\ \A i \in answer.allowed : EffectOf(i) = "allow"
  /\ \A i \in answer.blocked \cup answer.approval : EffectOf(i) # "allow"
  /\ \A i \in 1..answer.done : EffectOf(i) # None

LInv == ListsStand /\ Decided

LEMMA ToolInitInv == ToolInit => LInv
<1> SUFFICES ASSUME ToolInit PROVE LInv
  OBVIOUS
<1>1. /\ answer = [f \in AnswerFields |-> answer[f]]
      /\ answer.calls = <<>> /\ answer.done = 0 /\ answer.allowed = {} /\ answer.blocked = {} /\ answer.approval = {}
      /\ answer.user = None
  BY DEF ToolInit, AnswerFields
<1>2. 1..answer.done = {}
  BY <1>1
<1>3. ListsStand
  BY <1>1, <1>2 DEF ListsStand
<1>4. Decided
  BY <1>1, <1>2 DEF Decided
<1> QED
  BY <1>3, <1>4 DEF LInv

LEMMA InterceptKeeps ==
  ASSUME LInv, InterceptToolCall
  PROVE  LInv'
<1> DEFINE i == answer.done + 1
           effect == EffectOf(i)
<1>1. /\ answer.done < Len(answer.calls) /\ POLICIES' = POLICIES
      /\ answer' = IF effect = None THEN [answer EXCEPT !.failed = TRUE]
                   ELSE [answer EXCEPT !.done = i,
                           !.allowed = IF effect = "allow" THEN @ \cup {i} ELSE @,
                           !.approval = IF effect = "require_approval" THEN @ \cup {i} ELSE @,
                           !.blocked = IF effect \notin {"allow", "require_approval"} THEN @ \cup {i} ELSE @]
  BY DEF InterceptToolCall, EffectOf
<1> HIDE DEF effect
<1>2. /\ answer = [f \in AnswerFields |-> answer[f]] /\ answer.done \in Nat
      /\ answer.allowed \cup answer.blocked \cup answer.approval = 1..answer.done
      /\ answer.allowed \cap answer.blocked = {} /\ answer.allowed \cap answer.approval = {}
      /\ answer.blocked \cap answer.approval = {}
  BY DEF LInv, ListsStand
<1>3. answer.user # None
  BY <1>1 DEF LInv, ListsStand
<1>4. /\ answer' = [f \in AnswerFields |-> answer'[f]]
      /\ answer'.user = answer.user /\ answer'.role = answer.role /\ answer'.context = answer.context
      /\ answer'.calls = answer.calls
  BY <1>1, <1>2 DEF AnswerFields
<1>5. \A k : EffectOf(k)' = EffectOf(k)
  <2> TAKE k
  <2>1. EffectOf(k)' = EvaluateToolCall(answer'.user, answer'.role, answer'.context, answer'.calls[k].tool, answer'.calls[k].target)
    <3>1. POLICIES' = POLICIES
      BY <1>1
    <3> QED
      BY <3>1 DEF EffectOf, EvaluateToolCall, RoleOf, HasRole, ByRole, Inherited, Applies
  <2> QED
    BY <1>4, <2>1 DEF EffectOf
<1>6. CASE effect = None
  <2>1. /\ answer'.done = answer.done /\ answer'.allowed = answer.allowed /\ answer'.blocked = answer.blocked
        /\ answer'.approval = answer.approval
    BY <1>1, <1>2, <1>6 DEF AnswerFields
  <2>2. ListsStand'
    BY <1>1, <1>3, <1>4, <2>1 DEF LInv, ListsStand
  <2>3. Decided'
    BY <1>5, <2>1 DEF LInv, Decided
  <2> QED
    BY <2>2, <2>3 DEF LInv
<1>7. CASE effect # None
  <2>1. /\ answer'.done = i
        /\ answer'.allowed = IF effect = "allow" THEN answer.allowed \cup {i} ELSE answer.allowed
        /\ answer'.approval = IF effect = "require_approval" THEN answer.approval \cup {i} ELSE answer.approval
        /\ answer'.blocked = IF effect \notin {"allow", "require_approval"} THEN answer.blocked \cup {i} ELSE answer.blocked
    BY <1>1, <1>2, <1>7 DEF AnswerFields
  <2>2. i \in Nat /\ 1..i = (1..answer.done) \cup {i} /\ i \notin 1..answer.done
    BY <1>2
  <2> HIDE DEF i
  <2>3. i \notin answer.allowed /\ i \notin answer.blocked /\ i \notin answer.approval
    BY <1>2, <2>2
  <2>4. answer'.allowed \cup answer'.blocked \cup answer'.approval = 1..i
    BY <1>2, <2>1, <2>2
  <2>5. /\ answer'.allowed \cap answer'.blocked = {} /\ answer'.allowed \cap answer'.approval = {}
        /\ answer'.blocked \cap answer'.approval = {}
    BY <1>2, <2>1, <2>3
  <2>6. ListsStand'
    BY <1>1, <1>3, <1>4, <2>1, <2>2, <2>4, <2>5 DEF LInv, ListsStand
  <2>7. EffectOf(i) = effect
    BY DEF effect
  <2>8. Decided'
    <3>1. \A k \in answer'.allowed : EffectOf(k) = "allow"
      BY <2>1, <2>7 DEF LInv, Decided
    <3>2. \A k \in answer'.blocked \cup answer'.approval : EffectOf(k) # "allow"
      BY <2>1, <2>7 DEF LInv, Decided
    <3>3. \A k \in 1..i : EffectOf(k) # None
      BY <1>7, <2>2, <2>7 DEF LInv, Decided
    <3> QED
      BY <1>5, <2>1, <3>1, <3>2, <3>3 DEF Decided
  <2> QED
    BY <2>6, <2>8 DEF LInv
<1> QED
  BY <1>6, <1>7

LEMMA ToolNextKeeps ==
  ASSUME LInv, [ToolNext]_tool_vars
  PROVE  LInv'
<1>1. ASSUME NEW file \in PolicyFiles, LoadPolicies(file) PROVE LInv'
  <2>1. POLICIES = None /\ answer' = answer /\ answer.user = None /\ answer.done = 0
    BY <1>1 DEF LoadPolicies, LInv, ListsStand
  <2>2. 1..answer.done = {}
    BY <2>1
  <2> QED
    BY <2>1, <2>2 DEF LInv, ListsStand, Decided
<1>2. ASSUME NEW user \in Users, NEW role, NEW context, NEW calls, AnswerArrives(user, role, context, calls) PROVE LInv'
  <2>1. /\ POLICIES # None /\ POLICIES' = POLICIES /\ answer.user = None /\ user # None
        /\ answer' = [answer EXCEPT !.calls = calls, !.user = user, !.role = role, !.context = context]
    BY <1>2, ToolsAssumption DEF AnswerArrives
  <2>2. answer = [f \in AnswerFields |-> answer[f]] /\ answer.done = 0
    BY <2>1 DEF LInv, ListsStand
  <2>3. /\ answer' = [f \in AnswerFields |-> answer'[f]]
        /\ answer'.done = answer.done /\ answer'.allowed = answer.allowed /\ answer'.blocked = answer.blocked
        /\ answer'.approval = answer.approval /\ answer'.user = user
    BY <2>1, <2>2 DEF AnswerFields
  <2>4. ListsStand'
    BY <2>1, <2>3 DEF LInv, ListsStand
  <2>5. 1..answer.done = {}
    BY <2>2
  <2>6. Decided'
    BY <2>3, <2>5 DEF LInv, ListsStand, Decided
  <2> QED
    BY <2>4, <2>6 DEF LInv
<1>3. CASE UNCHANGED tool_vars
  <2>1. \A k : EffectOf(k)' = EffectOf(k)
    BY <1>3 DEF tool_vars, EffectOf, EvaluateToolCall, RoleOf, HasRole, ByRole, Inherited, Applies
  <2> QED
    BY <1>3, <2>1 DEF tool_vars, LInv, ListsStand, Decided
<1> QED
  BY <1>1, <1>2, <1>3, InterceptKeeps DEF ToolNext

(* without an override and a role of the file, what is enforced is what is listed *)
LEMMA EnforcedAsListed ==
  ASSUME NEW user, NEW role, NEW context, NEW tool, NEW target, POLICIES.role[user] = None,
         \A k \in DOMAIN POLICIES.overrides[user] : ~Applies(POLICIES.overrides[user][k], tool, target),
         tool \notin POLICIES.deny, tool \notin POLICIES.confirm[context],
         NEW effect, effect = EvaluateToolCall(user, role, context, tool, target), effect # None
  PROVE  effect = "allow" <=> tool \in ListedAllows(role)
<1> DEFINE policy == IF HasRole(role) THEN POLICIES.roles[role]
                     ELSE IF HasRole("intern") THEN POLICIES.roles["intern"] ELSE None
<1>1. {k \in DOMAIN POLICIES.overrides[user] : Applies(POLICIES.overrides[user][k], tool, target)} = {}
  OBVIOUS
<1>2. RoleOf(user, role) = policy
  BY DEF RoleOf
<1>3. effect = IF policy = None THEN None ELSE ByRole(policy, tool)
  BY <1>1, <1>2 DEF EvaluateToolCall
<1>4. ListedAllows(role) = IF policy = None THEN {} ELSE policy.allow \cup Inherited(policy)
  BY DEF ListedAllows
<1> HIDE DEF policy
<1>5. ByRole(policy, tool) = "allow" <=> tool \in policy.allow \cup Inherited(policy)
  BY DEF ByRole
<1> QED
  BY <1>3, <1>4, <1>5

LEMMA ListedByInvariant == LInv => ListingIsEnforced
<1> SUFFICES ASSUME LInv, POLICIES # None, answer.user # None PROVE ListingIsEnforced
  BY DEF ListingIsEnforced
<1> DEFINE user == answer.user
           tool(i) == answer.calls[i].tool
           overridden(i) == \E k \in DOMAIN POLICIES.overrides[user] :
             Applies(POLICIES.overrides[user][k], tool(i), answer.calls[i].target)
<1>1. Cardinality(answer.allowed) + Cardinality(answer.blocked) + Cardinality(answer.approval) = answer.done
  <2>1. IsFiniteSet(1..answer.done) /\ Cardinality(1..answer.done) = answer.done
    <3>1. answer.done \in Int /\ answer.done >= 0 /\ 1 \in Int
      BY DEF LInv, ListsStand
    <3>2. IsFiniteSet(1..answer.done) /\ Cardinality(1..answer.done) = IF 1 > answer.done THEN 0 ELSE answer.done - 1 + 1
      BY <3>1, FS_Interval
    <3> QED
      BY <3>1, <3>2
  <2>2. IsFiniteSet(answer.allowed) /\ IsFiniteSet(answer.blocked) /\ IsFiniteSet(answer.approval)
    BY <2>1, FS_Subset DEF LInv, ListsStand
  <2>3. /\ IsFiniteSet(answer.allowed \cup answer.blocked)
        /\ Cardinality(answer.allowed \cup answer.blocked) = Cardinality(answer.allowed) + Cardinality(answer.blocked)
    BY <2>2, DisjointUnion DEF LInv, ListsStand
  <2>4. (answer.allowed \cup answer.blocked) \cap answer.approval = {}
    BY DEF LInv, ListsStand
  <2>5. Cardinality((answer.allowed \cup answer.blocked) \cup answer.approval)
          = Cardinality(answer.allowed \cup answer.blocked) + Cardinality(answer.approval)
    BY <2>2, <2>3, <2>4, DisjointUnion
  <2> QED
    BY <2>1, <2>3, <2>5 DEF LInv, ListsStand
<1>2. ASSUME NEW i \in 1..answer.done
      PROVE  /\ EffectOf(i) = "allow" => tool(i) \notin POLICIES.deny \cup POLICIES.confirm[answer.context]
             /\ ~overridden(i) /\ POLICIES.role[user] = None
                  /\ tool(i) \notin POLICIES.deny \cup POLICIES.confirm[answer.context]
                => (EffectOf(i) = "allow" <=> tool(i) \in ListedAllows(answer.role))
  <2>1. EffectOf(i) # None
    BY DEF LInv, Decided
  <2>2. EffectOf(i) = "allow" => tool(i) \notin POLICIES.deny \cup POLICIES.confirm[answer.context]
    BY DEF EffectOf, EvaluateToolCall
  <2>3. ASSUME ~overridden(i), POLICIES.role[user] = None,
               tool(i) \notin POLICIES.deny \cup POLICIES.confirm[answer.context]
        PROVE  EffectOf(i) = "allow" <=> tool(i) \in ListedAllows(answer.role)
    <3>1. EffectOf(i) = EvaluateToolCall(user, answer.role, answer.context, tool(i), answer.calls[i].target)
      BY DEF EffectOf
    <3> QED
      BY <2>1, <2>3, <3>1, EnforcedAsListed
  <2> QED
    BY <2>2, <2>3
<1>3. answer.allowed \subseteq 1..answer.done /\ answer.blocked \cup answer.approval \subseteq 1..answer.done
  BY DEF LInv, ListsStand
<1>4. ASSUME NEW i \in answer.allowed
      PROVE  /\ tool(i) \notin POLICIES.deny \cup POLICIES.confirm[answer.context]
             /\ overridden(i) \/ POLICIES.role[user] # None \/ tool(i) \in ListedAllows(answer.role)
  <2>1. EffectOf(i) = "allow"
    BY DEF LInv, Decided
  <2> HIDE DEF tool, overridden
  <2> QED
    BY <1>2, <1>3, <2>1
<1>5. ASSUME NEW i \in answer.blocked \cup answer.approval, tool(i) \in ListedAllows(answer.role)
      PROVE  \/ tool(i) \in POLICIES.deny \cup POLICIES.confirm[answer.context]
             \/ overridden(i) \/ POLICIES.role[user] # None
  <2>1. EffectOf(i) # "allow"
    BY DEF LInv, Decided
  <2> HIDE DEF tool, overridden
  <2> QED
    BY <1>2, <1>3, <1>5, <2>1
<1> QED
  BY <1>1, <1>4, <1>5 DEF ListingIsEnforced

-----------------------------------------------------------------------------
(* The token buckets. *)

(* arithmetic of what refills a bucket *)
LEMMA ProductSplits == \A a, b, r \in Int : (a + b) * r = a * r + b * r
  OBVIOUS

LEMMA ProductGrows == \A a, b \in Int : \A r \in Nat : a <= b => a * r <= b * r
  OBVIOUS

LEMMA ProductNatural == \A a, r \in Nat : a * r \in Nat
  OBVIOUS

LEMMA DivisionBelow == \A d, r \in Int : r > 0 => d < (d \div r + 1) * r
  BY Z3

LEMMA DivisionAbove == \A d, r \in Int : r > 0 => (d \div r) * r <= d
  BY Z3

LEMMA DivisionType == \A d, r \in Nat : r > 0 => d \div r \in Nat
<1> SUFFICES ASSUME NEW d \in Nat, NEW r \in Nat, r > 0, d \div r < 0 PROVE FALSE
  OBVIOUS
<1> DEFINE q == d \div r
<1>1. q \in Int /\ q + 1 <= 0
  OBVIOUS
<1>2. d < (q + 1) * r
  BY DivisionBelow
<1> HIDE DEF q
<1>3. (q + 1) * r <= 0 * r
  BY <1>1, ProductGrows
<1> QED
  BY <1>1, <1>2, <1>3

LEMMA DivisionCovers ==
  ASSUME NEW d \in Nat, NEW r \in Nat \ {0}, NEW k \in Nat, k >= d \div r + 1
  PROVE  d <= k * r
<1> DEFINE q == d \div r
<1>1. q \in Nat
  BY DivisionType
<1>2. d < (q + 1) * r
  BY DivisionBelow
<1> HIDE DEF q
<1>3. (q + 1) * r <= k * r
  BY <1>1, ProductGrows DEF q
<1>4. (q + 1) * r \in Int /\ k * r \in Int
  BY <1>1
<1> QED
  BY <1>2, <1>3, <1>4

BucketData == [rate : Nat \ {0}, burst : Nat, tokens : Nat, refilled : Nat]
Advice == [count : Nat, until : Nat, granted : Nat]
Given == [0..LastTick -> Nat]

(* what a bucket had granted when a tick began *)
Before(g, from) == IF from = 0 THEN 0 ELSE g[from - 1]

Flat(k, g) == \A t \in 0..LastTick : t >= k.refilled => g[t] = g[k.refilled]

(* what was granted since a tick, and what may be granted now, stays within the burst and the refill *)
Budgeted(k, g) ==
  \A from \in 0..k.refilled :
    g[k.refilled] - Before(g, from) + k.tokens <= k.burst + (k.refilled - from) * k.rate

BoundedSoFar(k, g) ==
  \A from \in 0..k.refilled : \A to \in from..k.refilled :
    g[to] - Before(g, from) <= k.burst + (to - from) * k.rate

(* who was refused is served when it was told to return, unless somebody was before it *)
AdviceHolds(k, g, a) ==
  a # None =>
    /\ a.granted <= g[k.refilled]
    /\ g[k.refilled] = a.granted /\ a.count <= k.burst =>
         \A t \in Nat : t >= a.until /\ t >= k.refilled => a.count <= k.tokens + (t - k.refilled) * k.rate

BucketOK(k, g, a, now) ==
  /\ k.tokens <= k.burst /\ k.refilled <= now
  /\ Flat(k, g) /\ Budgeted(k, g) /\ BoundedSoFar(k, g)
  /\ k.burst <= g[k.refilled] + k.tokens
  /\ AdviceHolds(k, g, a)

LimiterData ==
  /\ tick \in 0..LastTick /\ limits \in [LimitTypes -> Rates]
  /\ bucket \in [Buckets -> BucketData \cup {None}]
  /\ granted \in [Buckets -> Given]
  /\ advised \in [Buckets -> Advice \cup {None}]
  /\ waiter \in [Waiters -> [of : Buckets \cup {None}, count : Nat, since : Nat,
                             end : {None, "granted", "refused"}]]

BucketsStand ==
  \A b \in Buckets :
    /\ bucket[b] = None => advised[b] = None /\ \A t \in 0..LastTick : granted[b][t] = 0
    /\ bucket[b] # None => BucketOK(bucket[b], granted[b], advised[b], tick)

QInv == LimiterData /\ BucketsStand

LEMMA BucketNone == None \notin BucketData /\ None \notin Advice
<1>1. BucketData \subseteq [rate : Nat, burst : Nat, tokens : Nat, refilled : Nat]
  BY DEF BucketData
<1> QED
  BY <1>1, RateLimitsAssumption DEF Advice

(* what a bucket has granted in any span, also after its last refill *)
LEMMA BoundedAlways ==
  ASSUME NEW k \in BucketData, NEW g \in Given, NEW a, NEW now \in 0..LastTick, BucketOK(k, g, a, now),
         NEW from \in 0..LastTick, NEW to \in from..LastTick
  PROVE  g[to] - Before(g, from) <= k.burst + (to - from) * k.rate
<1>1. LastTick \in Nat
  BY RateLimitsAssumption
<1>2. k.refilled \in 0..LastTick /\ k.rate \in Nat /\ k.burst \in Nat /\ k.tokens \in Nat
  BY <1>1 DEF BucketOK, BucketData
<1>3. from \in Nat /\ to \in Nat /\ from <= to /\ to \in 0..LastTick /\ to <= LastTick
  BY <1>1
<1>4. \A t \in 0..LastTick : g[t] \in Nat
  BY DEF Given
<1>5. CASE to <= k.refilled
  <2>1. from \in 0..k.refilled /\ to \in from..k.refilled
    BY <1>2, <1>3, <1>5
  <2> QED
    BY <2>1 DEF BucketOK, BoundedSoFar
<1>6. CASE to > k.refilled /\ from <= k.refilled
  <2>1. from \in 0..k.refilled
    BY <1>2, <1>3, <1>6
  <2>2. g[k.refilled] - Before(g, from) + k.tokens <= k.burst + (k.refilled - from) * k.rate
    BY <2>1 DEF BucketOK, Budgeted
  <2>3. g[to] = g[k.refilled]
    BY <1>2, <1>3, <1>6 DEF BucketOK, Flat
  <2>4. (k.refilled - from) * k.rate <= (to - from) * k.rate
    <3>1. k.refilled - from \in Int /\ to - from \in Int /\ k.refilled - from <= to - from
      BY <1>1, <1>2, <1>3, <1>6
    <3> QED
      BY <1>2, <3>1, ProductGrows
  <2>5. Before(g, from) \in Nat
    <3>1. from # 0 => from - 1 \in 0..LastTick
      BY <1>1, <1>3
    <3> QED
      BY <1>4, <3>1 DEF Before
  <2>6. (k.refilled - from) * k.rate \in Int /\ (to - from) * k.rate \in Int
    BY <1>2, <1>3
  <2>7. g[k.refilled] \in Nat
    BY <1>2, <1>4
  <2> QED
    BY <1>2, <2>2, <2>3, <2>4, <2>5, <2>6, <2>7
<1>7. CASE to > k.refilled /\ from > k.refilled
  <2>1. from # 0 /\ from - 1 \in 0..LastTick /\ from - 1 >= k.refilled
    BY <1>1, <1>2, <1>3, <1>7
  <2>2. g[to] = g[k.refilled] /\ g[from - 1] = g[k.refilled]
    BY <1>2, <1>3, <1>7, <2>1 DEF BucketOK, Flat
  <2>3. Before(g, from) = g[k.refilled]
    BY <2>1, <2>2 DEF Before
  <2>4. to - from \in Nat
    BY <1>3
  <2>5. (to - from) * k.rate \in Nat
    BY <1>2, <2>4, ProductNatural
  <2>6. g[k.refilled] \in Nat
    BY <1>2, <1>4
  <2> QED
    BY <1>2, <2>2, <2>3, <2>5, <2>6
<1> QED
  BY <1>2, <1>3, <1>5, <1>6, <1>7

(* what a refill and a request leave *)
Left(k, now, take) == [k EXCEPT !.tokens = AtMost(k.burst, k.tokens + (now - k.refilled) * k.rate) - take, !.refilled = now]
Gives(g, now, take) == [t \in 0..LastTick |-> g[t] + (IF t >= now THEN take ELSE 0)]

LEMMA RefillIs ==
  ASSUME NEW k \in BucketData, NEW now \in Nat, k.refilled <= now, k.tokens <= k.burst
  PROVE  LET more == (now - k.refilled) * k.rate
             full == AtMost(k.burst, k.tokens + more)
         IN  /\ more \in Nat /\ full \in Nat /\ k.tokens <= full /\ full <= k.burst /\ full <= k.tokens + more
             /\ full = k.burst \/ full = k.tokens + more
<1> DEFINE more == (now - k.refilled) * k.rate
<1>1. k.rate \in Nat /\ k.burst \in Nat /\ k.tokens \in Nat /\ now - k.refilled \in Nat
  BY DEF BucketData
<1>2. more \in Nat
  BY <1>1, ProductNatural
<1> HIDE DEF more
<1>3. LET full == AtMost(k.burst, k.tokens + more)
      IN  /\ full \in Nat /\ k.tokens <= full /\ full <= k.burst /\ full <= k.tokens + more
          /\ full = k.burst \/ full = k.tokens + more
  BY <1>1, <1>2 DEF AtMost
<1> QED
  BY <1>2, <1>3 DEF more

LEMMA AcquireStands ==
  ASSUME NEW k \in BucketData, NEW g \in Given, NEW a \in Advice \cup {None}, NEW now \in 0..LastTick,
         BucketOK(k, g, a, now),
         NEW take \in Nat, take <= AtMost(k.burst, k.tokens + (now - k.refilled) * k.rate)
  PROVE  /\ Left(k, now, take) \in BucketData /\ Gives(g, now, take) \in Given
         /\ BucketOK(Left(k, now, take), Gives(g, now, take), a, now)
<1> DEFINE more == (now - k.refilled) * k.rate
           full == AtMost(k.burst, k.tokens + more)
           k1 == Left(k, now, take)
           g1 == Gives(g, now, take)
           r == k.refilled
<1>1. LastTick \in Nat /\ now \in Nat /\ now <= LastTick
  BY RateLimitsAssumption
<1>2. /\ k.rate \in Nat \ {0} /\ k.burst \in Nat /\ k.tokens \in Nat /\ r \in Nat /\ r <= now
      /\ r \in 0..LastTick /\ k.tokens <= k.burst
  BY <1>1 DEF BucketData, BucketOK
<1>3. /\ more \in Nat /\ full \in Nat /\ k.tokens <= full /\ full <= k.burst /\ full <= k.tokens + more
      /\ full = k.burst \/ full = k.tokens + more
  BY <1>1, <1>2, RefillIs
<1>4. take <= full /\ full - take \in Nat
  BY <1>3
<1>5. k1 = [rate |-> k.rate, burst |-> k.burst, tokens |-> full - take, refilled |-> now]
  <2>1. k = [rate |-> k.rate, burst |-> k.burst, tokens |-> k.tokens, refilled |-> k.refilled]
    BY DEF BucketData
  <2>2. k1 = [k EXCEPT !.tokens = full - take, !.refilled = now]
    BY DEF Left
  <2> HIDE DEF k1, full
  <2> QED
    BY <2>1, <2>2
<1>6. k1 \in BucketData
  BY <1>1, <1>2, <1>4, <1>5 DEF BucketData
<1>7. \A t \in 0..LastTick : g[t] \in Nat
  BY DEF Given
<1>8. /\ \A t \in 0..LastTick : t >= now => g1[t] = g[r] + take
      /\ \A t \in 0..LastTick : t < now => g1[t] = g[t]
      /\ g1 \in Given
  <2>1. \A t \in 0..LastTick : g1[t] = g[t] + (IF t >= now THEN take ELSE 0)
    BY DEF Gives
  <2>2. \A t \in 0..LastTick : t >= now => g[t] = g[r]
    BY <1>1, <1>2 DEF BucketOK, Flat
  <2>3. g1 \in Given
    BY <1>7 DEF Gives, Given
  <2> HIDE DEF g1
  <2>4. \A t \in 0..LastTick : t < now => g1[t] = g[t]
    BY <1>1, <1>7, <2>1
  <2>5. \A t \in 0..LastTick : t >= now => g1[t] = g[t] + take
    BY <1>1, <2>1
  <2> QED
    BY <2>2, <2>3, <2>4, <2>5
<1>9. g1[now] = g[r] + take /\ g[r] \in Nat
  BY <1>1, <1>2, <1>7, <1>8
<1> HIDE DEF g1, k1, full
<1>10. Flat(k1, g1)
  BY <1>5, <1>8, <1>9 DEF Flat
<1>11. ASSUME NEW from \in 0..now PROVE Before(g1, from) = Before(g, from) /\ Before(g, from) \in Nat
  BY <1>1, <1>7, <1>8 DEF Before
<1>12. Budgeted(k1, g1)
  <2> SUFFICES ASSUME NEW from \in 0..now
               PROVE  g[r] + full - Before(g, from) <= k.burst + (now - from) * k.rate
    BY <1>3, <1>4, <1>5, <1>9, <1>11 DEF Budgeted
  <2>1. CASE from <= r
    <3>1. g[r] - Before(g, from) + k.tokens <= k.burst + (r - from) * k.rate
      BY <1>2, <2>1 DEF BucketOK, Budgeted
    <3>2. (now - from) * k.rate = (r - from) * k.rate + more
      <4>1. now - from = (r - from) + (now - r)
        BY <1>1, <1>2
      <4> QED
        BY <1>1, <1>2, <4>1, ProductSplits
    <3>3. (r - from) * k.rate \in Int
      BY <1>2
    <3> HIDE DEF more
    <3> QED
      BY <1>2, <1>3, <1>9, <1>11, <3>1, <3>2, <3>3
  <2>2. CASE from > r
    <3>1. from # 0 /\ from - 1 \in 0..LastTick /\ from - 1 >= r
      BY <1>1, <1>2, <2>2
    <3>2. Before(g, from) = g[r]
      BY <3>1 DEF Before, BucketOK, Flat
    <3>3. (now - from) * k.rate \in Nat
      <4>1. now - from \in Nat
        BY <1>1
      <4> QED
        BY <1>2, <4>1, ProductNatural
    <3> QED
      BY <1>2, <1>3, <1>9, <3>2, <3>3
  <2> QED
    BY <1>2, <2>1, <2>2
<1>13. BoundedSoFar(k1, g1)
  <2> SUFFICES ASSUME NEW from \in 0..now, NEW to \in from..now
               PROVE  g1[to] - Before(g1, from) <= k.burst + (to - from) * k.rate
    BY <1>5 DEF BoundedSoFar
  <2>1. to \in 0..LastTick /\ from \in 0..LastTick /\ to \in from..LastTick
    BY <1>1
  <2>2. CASE to < now
    <3>1. g[to] - Before(g, from) <= k.burst + (to - from) * k.rate
      BY <2>1, BoundedAlways
    <3> QED
      BY <1>8, <1>11, <2>1, <2>2, <3>1
  <2>3. CASE to = now
    <3>1. g1[now] - Before(g1, from) + (full - take) <= k.burst + (now - from) * k.rate
      BY <1>5, <1>12 DEF Budgeted
    <3>2. (now - from) * k.rate \in Int /\ Before(g1, from) \in Nat
      BY <1>1, <1>2, <1>11
    <3> QED
      BY <1>2, <1>4, <1>9, <2>3, <3>1, <3>2
  <2> QED
    BY <1>1, <2>1, <2>2, <2>3
<1>14. k.burst <= g1[now] + (full - take)
  <2>1. k.burst <= g[r] + k.tokens
    BY DEF BucketOK
  <2> QED
    BY <1>2, <1>3, <1>9, <2>1
<1>15. AdviceHolds(k1, g1, a)
  <2> SUFFICES ASSUME a # None
               PROVE  /\ a.granted <= g1[now]
                      /\ g1[now] = a.granted /\ a.count <= k.burst =>
                           \A t \in Nat : t >= a.until /\ t >= now => a.count <= (full - take) + (t - now) * k.rate
    BY <1>5 DEF AdviceHolds
  <2>1. a.granted \in Nat /\ a.count \in Nat /\ a.until \in Nat
    BY DEF Advice
  <2>2. a.granted <= g[r]
    BY DEF BucketOK, AdviceHolds
  <2>3. ASSUME g1[now] = a.granted, a.count <= k.burst, NEW t \in Nat, t >= a.until, t >= now
        PROVE  a.count <= (full - take) + (t - now) * k.rate
    <3>1. take = 0 /\ g[r] = a.granted
      BY <1>9, <2>1, <2>2, <2>3
    <3>2. a.count <= k.tokens + (t - r) * k.rate
      BY <1>1, <1>2, <2>3, <3>1 DEF BucketOK, AdviceHolds
    <3>3. (t - r) * k.rate = more + (t - now) * k.rate
      <4>1. t - r = (now - r) + (t - now)
        BY <1>1, <1>2
      <4> QED
        BY <1>1, <1>2, <4>1, ProductSplits
    <3>4. (t - now) * k.rate \in Nat
      <4>1. t - now \in Nat
        BY <1>1, <2>3
      <4> QED
        BY <1>2, <4>1, ProductNatural
    <3> HIDE DEF more
    <3> QED
      BY <1>2, <1>3, <2>1, <2>3, <3>1, <3>2, <3>3, <3>4
  <2> QED
    BY <1>9, <2>1, <2>2, <2>3
<1>16. k1.tokens <= k1.burst /\ k1.refilled <= now
  BY <1>1, <1>2, <1>3, <1>4, <1>5
<1>17. k1.burst <= g1[k1.refilled] + k1.tokens
  BY <1>5, <1>14
<1>18. BucketOK(k1, g1, a, now)
  BY <1>10, <1>12, <1>13, <1>15, <1>16, <1>17 DEF BucketOK
<1> QED
  BY <1>6, <1>8, <1>18 DEF k1, g1


LEMMA GetBucketStands ==
  ASSUME QInv, NEW b \in Buckets
  PROVE  /\ GetBucket(b) \in BucketData /\ granted[b] \in Given /\ advised[b] \in Advice \cup {None}
         /\ BucketOK(GetBucket(b), granted[b], advised[b], tick)
<1> DEFINE k == GetBucket(b)
           g == granted[b]
<1>1. bucket[b] \in BucketData \cup {None} /\ g \in Given /\ advised[b] \in Advice \cup {None} /\ tick \in 0..LastTick
  BY DEF QInv, LimiterData
<1>2. CASE bucket[b] # None
  BY <1>1, <1>2 DEF GetBucket, QInv, BucketsStand
<1>3. CASE bucket[b] = None
  <2>1. limits[b[1]] \in Rates /\ limits[b[1]] \in [rate : Nat \ {0}, burst : Nat]
    BY RateLimitsAssumption DEF Buckets, QInv, LimiterData
  <2>2. k = [rate |-> limits[b[1]].rate, burst |-> limits[b[1]].burst, tokens |-> limits[b[1]].burst, refilled |-> tick]
    BY <1>3 DEF GetBucket
  <2>3. tick \in Nat /\ tick \in 0..LastTick
    BY <1>1, RateLimitsAssumption
  <2>4. k \in BucketData /\ k.refilled = tick /\ k.tokens = k.burst
    BY <2>1, <2>2, <2>3 DEF BucketData
  <2>5. advised[b] = None /\ \A t \in 0..LastTick : g[t] = 0
    BY <1>3 DEF QInv, BucketsStand
  <2> HIDE DEF k, g
  <2>6. k.burst \in Nat /\ k.rate \in Nat
    BY <2>4 DEF BucketData
  <2>7. \A from \in 0..tick : Before(g, from) = 0
    <3>1. \A from \in 0..tick : from # 0 => from - 1 \in 0..LastTick
      BY <2>3, RateLimitsAssumption
    <3> QED
      BY <2>5, <3>1 DEF Before
  <2>8. \A from \in 0..tick : \A to \in from..tick : (to - from) * k.rate \in Nat
    <3> SUFFICES ASSUME NEW from \in 0..tick, NEW to \in from..tick PROVE (to - from) * k.rate \in Nat
      OBVIOUS
    <3>1. to - from \in Nat
      BY <2>3
    <3> QED
      BY <2>6, <3>1, ProductNatural
  <2>9. Flat(k, g)
    BY <2>3, <2>4, <2>5 DEF Flat
  <2>10. Budgeted(k, g)
    <3> SUFFICES ASSUME NEW from \in 0..tick
                 PROVE  g[tick] - Before(g, from) + k.tokens <= k.burst + (tick - from) * k.rate
      BY <2>4 DEF Budgeted
    <3>1. tick \in from..tick
      BY <2>3
    <3>2. (tick - from) * k.rate \in Nat
      BY <2>8, <3>1
    <3> QED
      BY <2>3, <2>4, <2>5, <2>6, <2>7, <3>2
  <2>11. BoundedSoFar(k, g)
    <3> SUFFICES ASSUME NEW from \in 0..tick, NEW to \in from..tick
                 PROVE  g[to] - Before(g, from) <= k.burst + (to - from) * k.rate
      BY <2>4 DEF BoundedSoFar
    <3>1. (to - from) * k.rate \in Nat
      BY <2>8
    <3>2. to \in 0..LastTick
      BY <2>3, RateLimitsAssumption
    <3> QED
      BY <2>5, <2>6, <2>7, <3>1, <3>2
  <2>12. k.tokens <= k.burst /\ k.refilled <= tick /\ k.burst <= g[k.refilled] + k.tokens
    BY <2>3, <2>4, <2>5, <2>6
  <2>13. BucketOK(k, g, advised[b], tick)
    BY <2>5, <2>9, <2>10, <2>11, <2>12 DEF BucketOK, AdviceHolds
  <2> QED
    BY <1>1, <2>4, <2>13 DEF k, g
<1> QED
  BY <1>2, <1>3

(* a request or a waiting caller asks *)
LEMMA AcquireKeeps ==
  ASSUME QInv, NEW b \in Buckets, NEW count \in Nat, Acquire(b, count)
  PROVE  /\ bucket' \in [Buckets -> BucketData \cup {None}] /\ granted' \in [Buckets -> Given]
         /\ bucket'[b] \in BucketData /\ granted'[b] \in Given
         /\ bucket'[b].rate = GetBucket(b).rate /\ bucket'[b].burst = GetBucket(b).burst /\ bucket'[b].refilled = tick
         /\ BucketOK(bucket'[b], granted'[b], advised[b], tick)
         /\ ~Enough(b, count) => /\ bucket'[b].tokens = Refilled(GetBucket(b)) /\ bucket'[b].tokens \in Nat
                                 /\ granted'[b][tick] = granted[b][tick]
         /\ \A c \in Buckets \ {b} : bucket'[c] = bucket[c] /\ granted'[c] = granted[c]
<1> DEFINE k == GetBucket(b)
           g == granted[b]
           take == IF Enough(b, count) THEN count ELSE 0
<1>1. /\ k \in BucketData /\ g \in Given /\ advised[b] \in Advice \cup {None}
      /\ BucketOK(k, g, advised[b], tick) /\ tick \in 0..LastTick
  BY GetBucketStands DEF QInv, LimiterData
<1>2. tick \in Nat /\ k.refilled <= tick /\ k.tokens <= k.burst
  BY <1>1, RateLimitsAssumption DEF BucketOK
<1>3. Refilled(k) = AtMost(k.burst, k.tokens + (tick - k.refilled) * k.rate) /\ Refilled(k) \in Nat
  BY <1>1, <1>2, RefillIs DEF Refilled
<1>4. take \in Nat /\ take <= Refilled(k)
  BY <1>3 DEF Enough
<1>5. /\ bucket' = [bucket EXCEPT ![b] = [k EXCEPT !.tokens = Refilled(k) - take, !.refilled = tick]]
      /\ granted' = [granted EXCEPT ![b] = [t \in 0..LastTick |-> g[t] + (IF t >= tick /\ Enough(b, count) THEN count ELSE 0)]]
  BY DEF Acquire
<1>6. [t \in 0..LastTick |-> g[t] + (IF t >= tick /\ Enough(b, count) THEN count ELSE 0)] = Gives(g, tick, take)
  BY DEF Gives
<1>7. [k EXCEPT !.tokens = Refilled(k) - take, !.refilled = tick] = Left(k, tick, take)
  BY <1>3 DEF Left
<1> HIDE DEF k, g, take
<1>8. /\ Left(k, tick, take) \in BucketData /\ Gives(g, tick, take) \in Given
      /\ BucketOK(Left(k, tick, take), Gives(g, tick, take), advised[b], tick)
  BY <1>1, <1>3, <1>4, AcquireStands
<1>9. bucket \in [Buckets -> BucketData \cup {None}] /\ granted \in [Buckets -> Given]
  BY DEF QInv, LimiterData
<1>10. bucket' = [bucket EXCEPT ![b] = Left(k, tick, take)] /\ granted' = [granted EXCEPT ![b] = Gives(g, tick, take)]
  BY <1>5, <1>6, <1>7
<1>11. /\ bucket' \in [Buckets -> BucketData \cup {None}] /\ granted' \in [Buckets -> Given]
       /\ bucket'[b] = Left(k, tick, take) /\ granted'[b] = Gives(g, tick, take)
       /\ \A c \in Buckets \ {b} : bucket'[c] = bucket[c] /\ granted'[c] = granted[c]
  BY <1>8, <1>9, <1>10
<1>12. Left(k, tick, take) = [rate |-> k.rate, burst |-> k.burst, tokens |-> Refilled(k) - take, refilled |-> tick]
  <2>1. k = [rate |-> k.rate, burst |-> k.burst, tokens |-> k.tokens, refilled |-> k.refilled]
    BY <1>1 DEF BucketData
  <2> QED
    BY <1>7, <2>1
<1>13. ~Enough(b, count) => take = 0
  BY DEF take
<1>14. ~Enough(b, count) => Gives(g, tick, take)[tick] = g[tick]
  BY <1>1, <1>13 DEF Gives, Given
<1> QED
  BY <1>3, <1>8, <1>11, <1>12, <1>13, <1>14 DEF k, g

LEMMA CheckRateLimitKeeps ==
  ASSUME QInv, NEW b \in Buckets, NEW count \in Nat, CheckRateLimit(b, count)
  PROVE  QInv'
<1> DEFINE k == GetBucket(b)
<1>1. /\ Acquire(b, count) /\ UNCHANGED <<tick, limits, waiter>>
      /\ advised' = IF Enough(b, count) THEN advised
                    ELSE [advised EXCEPT ![b] = [count |-> count, until |-> RetryAfter(b, count),
                                                 granted |-> GrantedBetween(b, 0, tick)]]
  BY DEF CheckRateLimit
<1>2. /\ bucket' \in [Buckets -> BucketData \cup {None}] /\ granted' \in [Buckets -> Given]
      /\ bucket'[b] \in BucketData /\ granted'[b] \in Given
      /\ bucket'[b].rate = k.rate /\ bucket'[b].burst = k.burst /\ bucket'[b].refilled = tick
      /\ BucketOK(bucket'[b], granted'[b], advised[b], tick)
      /\ ~Enough(b, count) => /\ bucket'[b].tokens = Refilled(k) /\ bucket'[b].tokens \in Nat
                              /\ granted'[b][tick] = granted[b][tick]
      /\ \A c \in Buckets \ {b} : bucket'[c] = bucket[c] /\ granted'[c] = granted[c]
  BY <1>1, AcquireKeeps
<1>3. k \in BucketData /\ k.rate \in Nat \ {0} /\ tick \in Nat /\ tick \in 0..LastTick
  BY GetBucketStands, RateLimitsAssumption DEF QInv, LimiterData, BucketData
<1> HIDE DEF k
<1> DEFINE a == [count |-> count, until |-> RetryAfter(b, count), granted |-> GrantedBetween(b, 0, tick)]
<1>4. ASSUME ~Enough(b, count)
      PROVE  a \in Advice /\ AdviceHolds(bucket'[b], granted'[b], a)
  <2> DEFINE d == count - Refilled(k)
             g == granted'[b][tick]
             e == bucket'[b]
  <2>1. Refilled(k) \in Nat /\ ~(Refilled(k) >= count)
    BY <1>2, <1>4 DEF Enough, k
  <2>2. d \in Nat
    BY <2>1
  <2>3. a.until = tick + d \div k.rate + 1
    BY DEF RetryAfter, k
  <2>4. g \in Nat
    BY <1>2, <1>3 DEF Given
  <2>5. a.granted = g
    <3>1. a.granted = granted[b][tick] - 0
      BY DEF GrantedBetween
    <3> QED
      BY <1>2, <1>4, <2>4, <3>1
  <2> HIDE DEF d
  <2>6. d \div k.rate \in Nat
    BY <1>3, <2>2, DivisionType
  <2>7. a \in Advice
    BY <1>3, <2>3, <2>4, <2>5, <2>6 DEF Advice
  <2>8. ASSUME NEW t \in Nat, t >= a.until, t >= tick
        PROVE  count <= Refilled(k) + (t - tick) * k.rate
    <3>1. t - tick \in Nat /\ t - tick >= d \div k.rate + 1
      BY <1>3, <2>3, <2>6, <2>8
    <3>2. d <= (t - tick) * k.rate
      BY <1>3, <2>2, <3>1, DivisionCovers
    <3>3. (t - tick) * k.rate \in Nat
      BY <1>3, <3>1, ProductNatural
    <3> QED
      BY <2>1, <3>2, <3>3 DEF d
  <2>9. a.count = count
    OBVIOUS
  <2>10. e.refilled = tick /\ e.tokens = Refilled(k) /\ e.rate = k.rate
    BY <1>2, <1>4
  <2> HIDE DEF a, e, g
  <2>11. a.granted <= g
    BY <2>4, <2>5
  <2>12. AdviceHolds(e, granted'[b], a)
    BY <2>8, <2>9, <2>10, <2>11 DEF AdviceHolds, g
  <2> QED
    BY <2>7, <2>12 DEF e
<1>5. advised \in [Buckets -> Advice \cup {None}]
  BY DEF QInv, LimiterData
<1>6. /\ advised' \in [Buckets -> Advice \cup {None}]
      /\ advised'[b] = IF Enough(b, count) THEN advised[b] ELSE a
      /\ \A c \in Buckets \ {b} : advised'[c] = advised[c]
  <2>1. CASE Enough(b, count)
    BY <1>1, <1>5, <2>1
  <2>2. CASE ~Enough(b, count)
    <3>1. advised' = [advised EXCEPT ![b] = a]
      BY <1>1, <2>2
    <3>2. a \in Advice
      BY <1>4, <2>2
    <3> HIDE DEF a
    <3> QED
      BY <1>5, <2>2, <3>1, <3>2
  <2> QED
    BY <2>1, <2>2
<1>7. LimiterData'
  BY <1>1, <1>2, <1>6 DEF QInv, LimiterData
<1>8. BucketOK(bucket'[b], granted'[b], advised'[b], tick)
  <2>1. CASE Enough(b, count)
    BY <1>2, <1>6, <2>1
  <2>2. CASE ~Enough(b, count)
    <3>1. advised'[b] = a /\ AdviceHolds(bucket'[b], granted'[b], a)
      BY <1>4, <1>6, <2>2
    <3> HIDE DEF a
    <3> QED
      BY <1>2, <3>1 DEF BucketOK
  <2> QED
    BY <2>1, <2>2
<1>9. BucketsStand'
  <2> SUFFICES ASSUME NEW c \in Buckets
               PROVE  /\ bucket'[c] = None => advised'[c] = None /\ \A t \in 0..LastTick : granted'[c][t] = 0
                      /\ bucket'[c] # None => BucketOK(bucket'[c], granted'[c], advised'[c], tick')
    BY DEF BucketsStand, Buckets
  <2>1. CASE c = b
    BY <1>1, <1>2, <1>8, <2>1, BucketNone
  <2>2. CASE c # b
    BY <1>1, <1>2, <1>6, <2>2 DEF QInv, BucketsStand
  <2> QED
    BY <2>1, <2>2
<1> QED
  BY <1>7, <1>9 DEF QInv


LEMMA LimiterInitInv == LimiterInit => QInv
<1> SUFFICES ASSUME LimiterInit PROVE QInv
  OBVIOUS
<1>1. 0 \in 0..LastTick /\ 0 \in Nat
  BY RateLimitsAssumption
<1>2. \A b \in Buckets : bucket[b] = None /\ advised[b] = None /\ \A t \in 0..LastTick : granted[b][t] = 0
  BY DEF LimiterInit
<1>3. granted \in [Buckets -> Given]
  BY DEF LimiterInit, Given
<1>4. waiter \in [Waiters -> [of : Buckets \cup {None}, count : Nat, since : Nat, end : {None, "granted", "refused"}]]
  BY <1>1 DEF LimiterInit
<1>5. LimiterData
  BY <1>1, <1>3, <1>4 DEF LimiterInit, LimiterData
<1>6. BucketsStand
  BY <1>2 DEF BucketsStand
<1> QED
  BY <1>5, <1>6 DEF QInv

LEMMA AskAgainKeeps ==
  ASSUME QInv, NEW w \in Waiters, AskAgain(w)
  PROVE  QInv'
<1> DEFINE b == waiter[w].of
           count == waiter[w].count
           end == IF Enough(b, count) THEN "granted" ELSE IF tick - waiter[w].since >= Timeout THEN "refused" ELSE None
<1>1. waiter[w] \in [of : Buckets \cup {None}, count : Nat, since : Nat, end : {None, "granted", "refused"}]
  BY DEF QInv, LimiterData
<1>2. b \in Buckets /\ count \in Nat
  BY <1>1 DEF AskAgain
<1>3. Acquire(b, count) /\ UNCHANGED <<tick, limits, advised>> /\ waiter' = [waiter EXCEPT ![w].end = end]
  BY DEF AskAgain
<1> HIDE DEF b, count
<1>4. /\ bucket' \in [Buckets -> BucketData \cup {None}] /\ granted' \in [Buckets -> Given]
      /\ bucket'[b] \in BucketData
      /\ BucketOK(bucket'[b], granted'[b], advised[b], tick)
      /\ \A c \in Buckets \ {b} : bucket'[c] = bucket[c] /\ granted'[c] = granted[c]
  BY <1>2, <1>3, AcquireKeeps
<1>5. end \in {None, "granted", "refused"}
  OBVIOUS
<1> HIDE DEF end
<1>6. waiter' \in [Waiters -> [of : Buckets \cup {None}, count : Nat, since : Nat, end : {None, "granted", "refused"}]]
  BY <1>3, <1>5 DEF QInv, LimiterData
<1>7. LimiterData'
  BY <1>3, <1>4, <1>6 DEF QInv, LimiterData, Buckets
<1>8. BucketsStand'
  <2> SUFFICES ASSUME NEW c \in Buckets
               PROVE  /\ bucket'[c] = None => advised'[c] = None /\ \A t \in 0..LastTick : granted'[c][t] = 0
                      /\ bucket'[c] # None => BucketOK(bucket'[c], granted'[c], advised'[c], tick')
    BY DEF BucketsStand, Buckets
  <2>1. CASE c = b
    BY <1>3, <1>4, <2>1, BucketNone
  <2>2. CASE c # b
    BY <1>3, <1>4, <2>2 DEF QInv, BucketsStand
  <2> QED
    BY <2>1, <2>2
<1> QED
  BY <1>7, <1>8 DEF QInv

LEMMA ResetKeyKeeps ==
  ASSUME QInv, NEW types \in SUBSET LimitTypes, NEW caller \in Keys, ResetKey(types, caller)
  PROVE  QInv'
<1> DEFINE WasReset(b) == b[1] \in types /\ b[2] = caller
<1>1. /\ bucket' = [b \in Buckets |-> IF WasReset(b) THEN None ELSE bucket[b]]
      /\ granted' = [b \in Buckets |-> IF WasReset(b) THEN [t \in 0..LastTick |-> 0] ELSE granted[b]]
      /\ advised' = [b \in Buckets |-> IF WasReset(b) THEN None ELSE advised[b]]
      /\ UNCHANGED <<tick, limits, waiter>>
  BY DEF ResetKey
<1> HIDE DEF WasReset
<1>2. LimiterData
  BY DEF QInv
<1>3. [t \in 0..LastTick |-> 0] \in Given
  BY DEF Given
<1>4. /\ bucket' \in [Buckets -> BucketData \cup {None}] /\ granted' \in [Buckets -> Given]
      /\ advised' \in [Buckets -> Advice \cup {None}]
  BY <1>1, <1>2, <1>3 DEF LimiterData
<1>5. LimiterData'
  BY <1>1, <1>2, <1>4 DEF LimiterData, Buckets
<1>6. BucketsStand'
  <2> SUFFICES ASSUME NEW c \in Buckets
               PROVE  /\ bucket'[c] = None => advised'[c] = None /\ \A t \in 0..LastTick : granted'[c][t] = 0
                      /\ bucket'[c] # None => BucketOK(bucket'[c], granted'[c], advised'[c], tick')
    BY DEF BucketsStand, Buckets
  <2>1. CASE WasReset(c)
    BY <1>1, <2>1
  <2>2. CASE ~WasReset(c)
    BY <1>1, <2>2 DEF QInv, BucketsStand
  <2> QED
    BY <2>1, <2>2
<1> QED
  BY <1>5, <1>6 DEF QInv

LEMMA TickKeeps ==
  ASSUME QInv, Tick
  PROVE  QInv'
<1>1. tick' = tick + 1 /\ tick' \in 0..LastTick /\ tick \in Nat /\ UNCHANGED <<limits, bucket, granted, advised, waiter>>
  BY RateLimitsAssumption DEF Tick, QInv, LimiterData
<1>2. LimiterData'
  BY <1>1 DEF QInv, LimiterData, Buckets
<1>3. \A b \in Buckets : bucket[b] # None => BucketOK(bucket[b], granted[b], advised[b], tick')
  <2> SUFFICES ASSUME NEW b \in Buckets, bucket[b] # None, BucketOK(bucket[b], granted[b], advised[b], tick)
               PROVE  BucketOK(bucket[b], granted[b], advised[b], tick')
    BY DEF QInv, BucketsStand
  <2>1. bucket[b].refilled \in Nat
    BY DEF QInv, LimiterData, BucketData
  <2>2. bucket[b].refilled <= tick'
    BY <1>1, <2>1 DEF BucketOK
  <2> QED
    BY <2>2 DEF BucketOK
<1>4. BucketsStand'
  BY <1>1, <1>3 DEF QInv, BucketsStand, Buckets
<1> QED
  BY <1>2, <1>4 DEF QInv

LEMMA LimiterNextKeeps ==
  ASSUME QInv, [LimiterNext]_limiter_vars
  PROVE  QInv'
<1>1. ASSUME NEW endpoint \in Endpoints, NEW caller \in Keys, Request(endpoint, caller) PROVE QInv'
  <2>1. <<LimitTypeOf(endpoint), caller>> \in Buckets
    BY EndpointsAssumption DEF Buckets
  <2> QED
    BY <1>1, <2>1, CheckRateLimitKeeps DEF Request
<1>2. ASSUME NEW b \in Buckets, NEW count \in 1..2, Decorated(b, count) PROVE QInv'
  BY <1>2, CheckRateLimitKeeps DEF Decorated
<1>3. ASSUME NEW type \in LimitTypes, NEW limit \in Rates, Configure(type, limit) PROVE QInv'
  <2>1. limits' \in [LimitTypes -> Rates] /\ UNCHANGED <<tick, bucket, granted, advised, waiter>>
    BY <1>3 DEF Configure, QInv, LimiterData
  <2> QED
    BY <2>1 DEF QInv, LimiterData, BucketsStand, Buckets
<1>4. ASSUME NEW types \in SUBSET LimitTypes, NEW caller \in Keys, ResetKey(types, caller) PROVE QInv'
  BY <1>4, ResetKeyKeeps
<1>5. ASSUME NEW w \in Waiters, NEW b \in Buckets, NEW count \in 1..2, BeginWait(w, b, count) PROVE QInv'
  <2>1. tick \in Nat /\ count \in Nat
    BY RateLimitsAssumption DEF QInv, LimiterData
  <2>2. waiter' \in [Waiters -> [of : Buckets \cup {None}, count : Nat, since : Nat, end : {None, "granted", "refused"}]]
    BY <1>5, <2>1 DEF BeginWait, QInv, LimiterData
  <2> QED
    BY <1>5, <2>2 DEF BeginWait, QInv, LimiterData, BucketsStand, Buckets
<1>6. ASSUME NEW w \in Waiters, AskAgain(w) PROVE QInv'
  BY <1>6, AskAgainKeeps
<1>7. CASE Tick
  BY <1>7, TickKeeps
<1>8. CASE UNCHANGED limiter_vars
  BY <1>8 DEF limiter_vars, QInv, LimiterData, BucketsStand, Buckets
<1> QED
  BY <1>1, <1>2, <1>3, <1>4, <1>5, <1>6, <1>7, <1>8 DEF LimiterNext

LEMMA BoundedByInvariant == QInv => GrantsAreBounded
<1> SUFFICES ASSUME QInv, NEW b \in Buckets, bucket[b] # None, NEW from \in 0..tick, NEW to \in from..tick
             PROVE  GrantedBetween(b, from, to) <= bucket[b].burst + (to - from) * bucket[b].rate
  BY DEF GrantsAreBounded
<1>1. /\ bucket[b] \in BucketData /\ granted[b] \in Given /\ tick \in 0..LastTick
      /\ BucketOK(bucket[b], granted[b], advised[b], tick)
  BY DEF QInv, LimiterData, BucketsStand
<1>2. from \in 0..LastTick /\ to \in from..LastTick
  BY <1>1, RateLimitsAssumption
<1>3. granted[b][to] - Before(granted[b], from) <= bucket[b].burst + (to - from) * bucket[b].rate
  BY <1>1, <1>2, BoundedAlways
<1> QED
  BY <1>3 DEF GrantedBetween, Before

LEMMA ServedByInvariant == QInv => RetryIsServed
<1> SUFFICES ASSUME QInv, NEW b \in Buckets, bucket[b] # None
             PROVE  /\ LET a == advised[b] IN
                         a # None => (a.count <= bucket[b].burst /\ tick >= a.until /\ GrantedBetween(b, 0, tick) = a.granted
                                        => Enough(b, a.count))
                    /\ bucket[b].burst = limits[b[1]].burst => UsedTokens(b) <= GrantedBetween(b, 0, tick)
  BY DEF RetryIsServed
<1> DEFINE k == bucket[b]
           g == granted[b]
           a == advised[b]
           more == (tick - k.refilled) * k.rate
<1>1. /\ k \in BucketData /\ g \in Given /\ a \in Advice \cup {None} /\ tick \in 0..LastTick
      /\ BucketOK(k, g, a, tick)
  BY DEF QInv, LimiterData, BucketsStand
<1>2. tick \in Nat /\ k.refilled \in Nat /\ k.refilled <= tick /\ k.tokens <= k.burst /\ k.burst \in Nat /\ k.tokens \in Nat
  BY <1>1, RateLimitsAssumption DEF BucketOK, BucketData
<1>3. GetBucket(b) = k
  BY DEF GetBucket
<1> HIDE DEF k
<1>4. /\ more \in Nat /\ Refilled(k) \in Nat /\ k.tokens <= Refilled(k)
      /\ Refilled(k) = k.burst \/ Refilled(k) = k.tokens + more
  BY <1>1, <1>2, RefillIs DEF Refilled
<1>5. g[tick] = g[k.refilled] /\ g[k.refilled] \in Nat /\ g[tick] \in Nat
  BY <1>1, <1>2, RateLimitsAssumption DEF BucketOK, Flat, Given
<1>6. GrantedBetween(b, 0, tick) = g[tick]
  BY <1>5 DEF GrantedBetween
<1>7. ASSUME a # None, a.count <= k.burst, tick >= a.until, g[tick] = a.granted
      PROVE  Enough(b, a.count)
  <2>1. a.count <= k.tokens + more
    BY <1>1, <1>2, <1>5, <1>7 DEF BucketOK, AdviceHolds
  <2>2. a.count \in Nat
    BY <1>1, <1>7 DEF Advice
  <2> HIDE DEF more, a
  <2>3. Refilled(k) >= a.count
    BY <1>2, <1>4, <1>7, <2>1, <2>2
  <2> QED
    BY <1>3, <2>3 DEF Enough
<1>8. ASSUME k.burst = limits[b[1]].burst
      PROVE  UsedTokens(b) <= g[tick]
  <2>1. k.burst <= g[tick] + k.tokens
    BY <1>1, <1>5 DEF BucketOK
  <2>2. UsedTokens(b) = k.burst - Refilled(k)
    BY <1>8 DEF UsedTokens, k
  <2> QED
    BY <1>2, <1>4, <1>5, <2>1, <2>2
<1> QED
  BY <1>6, <1>7, <1>8 DEF k


-----------------------------------------------------------------------------
(* The spending tiers. *)
LEMMA CheapestExists ==
  ASSUME NEW models \in SUBSET DOMAIN Price, models # {}
  PROVE  Cheapest(models) \in models /\ \A n \in models : Price[Cheapest(models)] <= Price[n]
<1> DEFINE prices == {Price[m] : m \in models}
<1>1. prices \in SUBSET Nat /\ prices # {}
  BY SpendAssumption
<1>2. PICK p \in prices : \A k \in prices : p <= k
  BY <1>1, LeastNatural
<1>3. PICK m \in models : p = Price[m]
  OBVIOUS
<1>4. \A n \in models : Price[m] <= Price[n]
  BY <1>2, <1>3
<1> QED
  BY <1>4, Zenon DEF Cheapest

(* of finitely many models one has fewest above it: none *)
LEMMA DearestExists ==
  ASSUME NEW models \in SUBSET DOMAIN Price, models # {}
  PROVE  Dearest(models) \in models /\ \A n \in models : Price[n] <= Price[Dearest(models)]
<1> DEFINE Above(m) == {n \in models : Price[n] > Price[m]}
           ranks == {Cardinality(Above(m)) : m \in models}
<1>1. IsFiniteSet(models) /\ \A m \in models : Price[m] \in Nat
  BY SpendAssumption, FS_Subset
<1>2. ASSUME NEW m \in models PROVE IsFiniteSet(Above(m)) /\ Cardinality(Above(m)) \in Nat
  <2>1. Above(m) \in SUBSET models
    OBVIOUS
  <2> HIDE DEF Above
  <2> QED
    BY <1>1, <2>1, FS_Subset, FS_CardinalityType
<1>3. ranks \in SUBSET Nat /\ ranks # {}
  BY <1>2
<1>4. PICK p \in ranks : \A k \in ranks : p <= k
  BY <1>3, LeastNatural
<1>5. PICK m \in models : p = Cardinality(Above(m))
  OBVIOUS
<1>6. ASSUME NEW n \in models, Price[n] > Price[m] PROVE FALSE
  <2>1. Above(n) \in SUBSET Above(m)
    BY <1>1, <1>6
  <2>2. n \in Above(m) /\ n \notin Above(n)
    BY <1>1, <1>6
  <2>3. Cardinality(Above(m)) <= Cardinality(Above(n))
    BY <1>4, <1>5
  <2> HIDE DEF Above
  <2>4. Above(m) = Above(n)
    BY <1>2, <2>1, <2>3, FS_Subset
  <2> QED
    BY <2>2, <2>4
<1>7. \A n \in models : Price[n] <= Price[m]
  BY <1>1, <1>6
<1> QED
  BY <1>7, Zenon DEF Dearest

LEMMA MiddleExists ==
  ASSUME NEW models \in SUBSET DOMAIN Price, models # {}
  PROVE  InTheMiddle(models) \in models
<1> DEFINE half == Cardinality(models) \div 2
           Upto(p) == {n \in models : Price[n] <= p}
           prices == {Price[m] : m \in {n \in models : half < Cardinality(Upto(Price[n]))}}
<1>1. IsFiniteSet(models) /\ \A m \in models : Price[m] \in Nat
  BY SpendAssumption, FS_Subset
<1>2. half \in Nat /\ half < Cardinality(models)
  <2>1. Cardinality(models) \in Nat /\ Cardinality(models) # 0
    BY <1>1, FS_CardinalityType, FS_EmptySet
  <2> QED
    BY <2>1
<1> HIDE DEF half
<1>3. Dearest(models) \in models /\ Upto(Price[Dearest(models)]) = models
  BY DearestExists
<1>4. prices \in SUBSET Nat /\ prices # {}
  <2>1. Price[Dearest(models)] \in prices
    BY <1>2, <1>3
  <2> HIDE DEF Upto
  <2>2. prices \in SUBSET Nat
    BY <1>1
  <2> QED
    BY <2>1, <2>2
<1>5. PICK p \in prices : \A k \in prices : p <= k
  BY <1>4, LeastNatural
<1>6. PICK m \in models : p = Price[m] /\ half < Cardinality(Upto(Price[m]))
  OBVIOUS
<1> DEFINE below == {n \in models : Price[n] < Price[m]}
<1>7. Cardinality(below) <= half
  <2> SUFFICES ASSUME ~(Cardinality(below) <= half) PROVE FALSE
    OBVIOUS
  <2>1. IsFiniteSet(below) /\ Cardinality(below) \in Nat
    <3>1. below \in SUBSET models
      OBVIOUS
    <3> HIDE DEF below
    <3> QED
      BY <1>1, <3>1, FS_Subset, FS_CardinalityType
  <2>2. below # {} /\ half < Cardinality(below)
    <3> HIDE DEF below
    <3> QED
      BY <1>2, <2>1, FS_EmptySet
  <2>3. below \in SUBSET DOMAIN Price
    OBVIOUS
  <2> DEFINE n == Dearest(below)
  <2>4. n \in below /\ \A o \in below : Price[o] <= Price[n]
    <3> HIDE DEF below
    <3> QED
      BY <2>2, <2>3, DearestExists
  <2> HIDE DEF n
  <2>5. n \in models /\ Price[n] < Price[m]
    BY <2>4
  <2>6. Upto(Price[n]) = below
    BY <1>1, <2>4, <2>5
  <2>7. Price[n] \in prices
    BY <2>2, <2>5, <2>6
  <2>8. p <= Price[n]
    BY <1>5, <2>7
  <2> QED
    BY <1>1, <1>6, <2>5, <2>8
<1>8. \E o \in models : /\ Cardinality({n \in models : Price[n] < Price[o]}) <= half
                        /\ half < Cardinality({n \in models : Price[n] <= Price[o]})
  BY <1>6, <1>7
<1> QED
  BY <1>8, Zenon DEF InTheMiddle, half

LEMMA RecommendedByType == tier \in DOMAIN Tiers => RecommendedIsUsable
<1> SUFFICES ASSUME tier \in DOMAIN Tiers PROVE RecommendedIsUsable
  OBVIOUS
<1> DEFINE models == IF Tiers[tier].models = None THEN DOMAIN Price ELSE Tiers[tier].models
<1>1. models \in SUBSET DOMAIN Price /\ models # {}
  BY SpendAssumption
<1>2. \A m \in DOMAIN Price : CanUseModel(m) <=> m \in models
  BY DEF CanUseModel
<1>3. /\ RecommendModel("basic") = Cheapest(models)
      /\ RecommendModel("standard") = InTheMiddle(models)
      /\ RecommendModel("high") = Dearest(models)
  BY DEF RecommendModel, RecommendFrom
<1> HIDE DEF models
<1>4. \A quality \in {"basic", "standard", "high"} : RecommendModel(quality) \in models
  BY <1>1, <1>3, CheapestExists, DearestExists, MiddleExists
<1> QED
  BY <1>1, <1>2, <1>3, <1>4, CheapestExists, DearestExists DEF RecommendedIsUsable


(* What SpentOn adds up, an answer after the other. *)
Answers == [day : Nat, month : Nat, model : DOMAIN Price]

IsSum(g, led, S) ==
  g = [i \in 0..Len(led) |->
         IF i = 0 THEN 0
         ELSE IF i \in S THEN g[i - 1] + Price[led[i].model] ELSE g[i - 1]]

Sum(led, S) == (CHOOSE g : IsSum(g, led, S))[Len(led)]

LEMMA SpentIsSum == \A S : SpentOn(S) = Sum(ledger, S)
  BY DEF SpentOn, Sum, IsSum

LEMMA SumExists ==
  ASSUME NEW T, NEW led \in Seq(T), NEW S
  PROVE  \E g : IsSum(g, led, S)
<1> DEFINE F(g, i) == IF i = 0 THEN 0
                      ELSE IF i \in S THEN g[i - 1] + Price[led[i].model] ELSE g[i - 1]
           N == {n \in Nat : \E g : g = [i \in 0..n |-> F(g, i)]}
<1>1. 0 \in N
  <2> DEFINE g == [i \in 0..0 |-> 0]
  <2>1. g = [i \in 0..0 |-> F(g, i)]
    OBVIOUS
  <2> QED
    BY <2>1
<1>2. ASSUME NEW n \in Nat, n \in N PROVE n + 1 \in N
  <2>1. PICK g : g = [i \in 0..n |-> F(g, i)]
    BY <1>2
  <2> DEFINE h == [i \in 0..(n + 1) |-> IF i = n + 1
                     THEN IF i \in S THEN g[i - 1] + Price[led[i].model] ELSE g[i - 1]
                     ELSE g[i]]
  <2>2. ASSUME NEW i \in 0..(n + 1) PROVE h[i] = F(h, i)
    <3>1. CASE i = n + 1
      <4>1. i # 0 /\ i - 1 \in 0..(n + 1) /\ i - 1 # n + 1
        BY <3>1
      <4>2. h[i - 1] = g[i - 1]
        BY <4>1
      <4> QED
        BY <3>1, <4>1, <4>2
    <3>2. CASE i \in 0..n /\ i = 0
      <4>1. h[i] = g[i] /\ g[i] = 0
        BY <2>1, <3>2
      <4> QED
        BY <3>2, <4>1
    <3>3. CASE i \in 0..n /\ i # 0
      <4>1. i # n + 1 /\ i - 1 \in 0..(n + 1) /\ i - 1 # n + 1
        BY <3>3
      <4>2. h[i] = g[i] /\ h[i - 1] = g[i - 1]
        BY <4>1
      <4>3. g[i] = F(g, i)
        BY <2>1, <3>3
      <4> QED
        BY <3>3, <4>2, <4>3
    <3> QED
      BY <3>1, <3>2, <3>3
  <2> HIDE DEF F
  <2>3. h = [i \in 0..(n + 1) |-> F(h, i)]
    BY <2>2
  <2> HIDE DEF h
  <2> QED
    BY <2>3
<1> HIDE DEF N, F
<1>3. Len(led) \in N
  BY <1>1, <1>2, SetInduction
<1> USE DEF N, F
<1> QED
  BY <1>3 DEF IsSum

LEMMA SumAt ==
  ASSUME NEW T, NEW led \in Seq(T), NEW S
  PROVE  \E g :
           /\ Sum(led, S) = g[Len(led)]
           /\ g[0] = 0
           /\ \A n \in Nat : n + 1 <= Len(led) =>
                g[n + 1] = IF n + 1 \in S THEN g[n] + Price[led[n + 1].model] ELSE g[n]
<1> DEFINE g == CHOOSE g : IsSum(g, led, S)
           F(i) == IF i = 0 THEN 0
                   ELSE IF i \in S THEN g[i - 1] + Price[led[i].model] ELSE g[i - 1]
<1>1. Sum(led, S) = g[Len(led)]
  BY DEF Sum
<1>2. IsSum(g, led, S)
  BY SumExists
<1> HIDE DEF g
<1>3. g = [i \in 0..Len(led) |-> F(i)]
  BY <1>2 DEF IsSum
<1> HIDE DEF F
<1>4. Len(led) \in Nat
  OBVIOUS
<1>5. \A i \in 0..Len(led) : g[i] = F(i)
  BY <1>3
<1>6. 0 \in 0..Len(led) /\ \A n \in Nat : n + 1 <= Len(led) => n + 1 \in 0..Len(led)
  BY <1>4
<1>7. g[0] = F(0) /\ F(0) = 0
  BY <1>5, <1>6 DEF F
<1>8. ASSUME NEW n \in Nat, n + 1 <= Len(led)
      PROVE  g[n + 1] = IF n + 1 \in S THEN g[n] + Price[led[n + 1].model] ELSE g[n]
  <2>1. g[n + 1] = F(n + 1)
    BY <1>5, <1>6, <1>8
  <2>2. n + 1 # 0 /\ n + 1 - 1 = n
    OBVIOUS
  <2> QED
    BY <2>1, <2>2 DEF F
<1> QED
  BY <1>1, <1>7, <1>8

LEMMA SumIs ==
  ASSUME NEW led \in Seq(Answers), NEW S
  PROVE  /\ Sum(led, S) \in Nat
         /\ S \cap DOMAIN led = {} => Sum(led, S) = 0
<1>1. PICK g :
        /\ Sum(led, S) = g[Len(led)]
        /\ g[0] = 0
        /\ \A n \in Nat : n + 1 <= Len(led) =>
             g[n + 1] = IF n + 1 \in S THEN g[n] + Price[led[n + 1].model] ELSE g[n]
  BY SumAt
<1> DEFINE N == {n \in Nat : n <= Len(led) => g[n] \in Nat /\ (S \cap DOMAIN led = {} => g[n] = 0)}
<1>2. Len(led) \in Nat /\ DOMAIN led = 1..Len(led)
  OBVIOUS
<1>3. 0 \in N
  BY <1>1
<1>4. ASSUME NEW n \in Nat, n \in N PROVE n + 1 \in N
  <2> SUFFICES ASSUME n + 1 <= Len(led)
               PROVE  g[n + 1] \in Nat /\ (S \cap DOMAIN led = {} => g[n + 1] = 0)
    OBVIOUS
  <2>1. n <= Len(led) /\ n + 1 \in DOMAIN led
    BY <1>2
  <2>2. g[n] \in Nat /\ (S \cap DOMAIN led = {} => g[n] = 0)
    BY <1>4, <2>1
  <2>3. led[n + 1] \in Answers
    BY <2>1
  <2>4. Price[led[n + 1].model] \in Nat
    BY <2>3, SpendAssumption DEF Answers
  <2>5. g[n + 1] = IF n + 1 \in S THEN g[n] + Price[led[n + 1].model] ELSE g[n]
    BY <1>1
  <2> QED
    BY <2>1, <2>2, <2>4, <2>5
<1> HIDE DEF N
<1>5. Len(led) \in N
  BY <1>2, <1>3, <1>4, SetInduction
<1> QED
  BY <1>1, <1>2, <1>5 DEF N

LEMMA SumAppend ==
  ASSUME NEW led \in Seq(Answers), NEW e \in Answers, NEW R, NEW S,
         \A i \in DOMAIN led : i \in R <=> i \in S
  PROVE  Sum(Append(led, e), S) = Sum(led, R) + IF Len(led) + 1 \in S THEN Price[e.model] ELSE 0
<1> DEFINE q == Append(led, e)
<1>1. /\ q \in Seq(Answers) /\ Len(q) = Len(led) + 1 /\ Len(led) \in Nat
      /\ \A i \in 1..Len(led) : q[i] = led[i]
      /\ q[Len(led) + 1] = e
  BY AppendProperties
<1> HIDE DEF q
<1>2. PICK g :
        /\ Sum(led, R) = g[Len(led)]
        /\ g[0] = 0
        /\ \A n \in Nat : n + 1 <= Len(led) =>
             g[n + 1] = IF n + 1 \in R THEN g[n] + Price[led[n + 1].model] ELSE g[n]
  BY SumAt
<1>3. PICK h :
        /\ Sum(q, S) = h[Len(q)]
        /\ h[0] = 0
        /\ \A n \in Nat : n + 1 <= Len(q) =>
             h[n + 1] = IF n + 1 \in S THEN h[n] + Price[q[n + 1].model] ELSE h[n]
  BY <1>1, SumAt
<1> DEFINE N == {n \in Nat : n <= Len(led) => h[n] = g[n]}
<1>4. 0 \in N
  BY <1>2, <1>3
<1>5. ASSUME NEW n \in Nat, n \in N PROVE n + 1 \in N
  <2> SUFFICES ASSUME n + 1 <= Len(led) PROVE h[n + 1] = g[n + 1]
    OBVIOUS
  <2>1. n + 1 <= Len(q) /\ n + 1 \in 1..Len(led) /\ n <= Len(led) /\ n + 1 \in DOMAIN led
    BY <1>1
  <2>2. h[n] = g[n] /\ q[n + 1] = led[n + 1]
    BY <1>1, <1>5, <2>1
  <2>3. n + 1 \in R <=> n + 1 \in S
    BY <2>1
  <2>4. g[n + 1] = IF n + 1 \in R THEN g[n] + Price[led[n + 1].model] ELSE g[n]
    BY <1>2
  <2>5. h[n + 1] = IF n + 1 \in S THEN h[n] + Price[q[n + 1].model] ELSE h[n]
    BY <1>3, <2>1
  <2> QED
    BY <2>2, <2>3, <2>4, <2>5
<1> HIDE DEF N
<1>6. Len(led) \in N
  BY <1>1, <1>4, <1>5, SetInduction
<1>7. h[Len(led)] = g[Len(led)]
  BY <1>1, <1>6 DEF N
<1>8. h[Len(led) + 1] = IF Len(led) + 1 \in S THEN h[Len(led)] + Price[q[Len(led) + 1].model] ELSE h[Len(led)]
  BY <1>1, <1>3
<1>9. Sum(led, R) \in Nat
  BY SumIs
<1> QED
  BY <1>1, <1>2, <1>3, <1>7, <1>8, <1>9 DEF q


(* who was let through and has not been charged *)
Waiting(sp) == {s \in Spenders : sp[s].step = "waits"}
SpenderTypes == [Spenders -> [step : {"idle", "budget", "waits"}, model : DOMAIN Price \cup {None}]]
AllButOne == (Cardinality(Spenders) - 1) * HighestPrice

(* when all who wait are charged, a limit is exceeded by no more than one request of each but one: *)
(* the last that was let through found its own request within the limit                           *)
Within(spent, limit, sp) ==
  \/ spent + Cardinality(Waiting(sp)) * HighestPrice <= limit + AllButOne
  \/ \E x \in Waiting(sp) :
       spent + Price[sp[x].model] + (Cardinality(Waiting(sp)) - 1) * HighestPrice <= limit + AllButOne

LEMMA HighestIs == HighestPrice \in Nat /\ \A m \in DOMAIN Price : Price[m] \in Nat /\ Price[m] <= HighestPrice
<1>1. DOMAIN Price # {} /\ DOMAIN Price \in SUBSET DOMAIN Price
  BY SpendAssumption
<1>2. /\ Dearest(DOMAIN Price) \in DOMAIN Price
      /\ \A m \in DOMAIN Price : Price[m] <= Price[Dearest(DOMAIN Price)]
  BY <1>1, DearestExists
<1> QED
  BY <1>2, SpendAssumption DEF HighestPrice

LEMMA WaitingIs ==
  ASSUME NEW sp
  PROVE  /\ IsFiniteSet(Waiting(sp)) /\ Cardinality(Waiting(sp)) \in Nat
         /\ Cardinality(Waiting(sp)) <= Cardinality(Spenders)
         /\ Cardinality(Spenders) \in Nat \ {0}
         /\ \A x \in Waiting(sp) : Cardinality(Waiting(sp)) - 1 \in Nat
<1>1. Waiting(sp) \in SUBSET Spenders
  BY DEF Waiting
<1>2. IsFiniteSet(Spenders) /\ Cardinality(Spenders) \in Nat /\ Cardinality(Spenders) # 0
  BY SpendAssumption, FS_CardinalityType, FS_EmptySet
<1>3. /\ IsFiniteSet(Waiting(sp)) /\ Cardinality(Waiting(sp)) \in Nat
      /\ Cardinality(Waiting(sp)) <= Cardinality(Spenders)
  BY <1>1, <1>2, FS_Subset, FS_CardinalityType
<1>4. \A x \in Waiting(sp) : Cardinality(Waiting(sp)) # 0
  BY <1>3, FS_EmptySet
<1> QED
  BY <1>2, <1>3, <1>4

LEMMA AllButOneIs == AllButOne \in Nat
<1>1. Cardinality(Spenders) - 1 \in Nat
  BY WaitingIs
<1> QED
  BY <1>1, HighestIs, ProductNatural DEF AllButOne

LEMMA WithinLetsThrough ==
  ASSUME NEW spent \in Nat, NEW limit \in Nat, NEW sp \in SpenderTypes, NEW s \in Spenders,
         sp[s].step # "waits", sp[s].model \in DOMAIN Price, spent + Price[sp[s].model] <= limit,
         NEW sp1, sp1 = [sp EXCEPT ![s].step = "waits"]
  PROVE  Within(spent, limit, sp1)
<1> DEFINE n == Cardinality(Waiting(sp1))
<1>1. s \in Waiting(sp1) /\ sp1[s].model = sp[s].model
  BY DEF SpenderTypes, Waiting
<1>2. n - 1 \in Nat /\ n - 1 <= Cardinality(Spenders) - 1 /\ Cardinality(Spenders) - 1 \in Nat
  BY <1>1, WaitingIs
<1> HIDE DEF n
<1>3. (n - 1) * HighestPrice <= AllButOne /\ (n - 1) * HighestPrice \in Nat
  BY <1>2, HighestIs, ProductGrows, ProductNatural DEF AllButOne
<1>4. spent + Price[sp[s].model] + (n - 1) * HighestPrice <= limit + AllButOne
  BY <1>3, HighestIs, AllButOneIs
<1> QED
  BY <1>1, <1>4 DEF Within, n

LEMMA WithinCharges ==
  ASSUME NEW spent \in Nat, NEW limit \in Nat, NEW sp \in SpenderTypes, NEW s \in Waiting(sp),
         \A x \in Waiting(sp) : sp[x].model \in DOMAIN Price, Within(spent, limit, sp),
         NEW sp1, sp1 = [sp EXCEPT ![s].step = "idle"]
  PROVE  Within(spent + Price[sp[s].model], limit, sp1)
<1> DEFINE n == Cardinality(Waiting(sp))
           cost == Price[sp[s].model]
<1>1. s \in Spenders
  BY DEF Waiting
<1>2. Waiting(sp1) = Waiting(sp) \ {s} /\ \A x \in Waiting(sp1) : sp1[x].model = sp[x].model
  BY <1>1 DEF SpenderTypes, Waiting
<1>3. Cardinality(Waiting(sp1)) = n - 1 /\ n - 1 \in Nat /\ n \in Nat
  <2>1. IsFiniteSet(Waiting(sp)) /\ n \in Nat /\ n - 1 \in Nat
    BY WaitingIs
  <2> QED
    BY <1>2, <2>1, FS_RemoveElement
<1>4. cost \in Nat /\ cost <= HighestPrice /\ HighestPrice \in Nat /\ AllButOne \in Nat
  BY HighestIs, AllButOneIs
<1> HIDE DEF cost, n
<1>5. n * HighestPrice = (n - 1) * HighestPrice + HighestPrice /\ (n - 1) * HighestPrice \in Nat
  <2>1. n = (n - 1) + 1
    BY <1>3
  <2>2. ((n - 1) + 1) * HighestPrice = (n - 1) * HighestPrice + 1 * HighestPrice
    BY <1>3, <1>4, ProductSplits
  <2> QED
    BY <1>3, <1>4, <2>1, <2>2, ProductNatural
<1>6. CASE spent + n * HighestPrice <= limit + AllButOne
  <2>1. spent + cost + (n - 1) * HighestPrice <= limit + AllButOne
    BY <1>4, <1>5, <1>6
  <2> QED
    BY <1>3, <2>1 DEF Within, cost
<1>7. ASSUME NEW x \in Waiting(sp), spent + Price[sp[x].model] + (n - 1) * HighestPrice <= limit + AllButOne
      PROVE  Within(spent + cost, limit, sp1)
  <2>1. CASE x = s
    <3>1. spent + cost + (n - 1) * HighestPrice <= limit + AllButOne
      BY <1>7, <2>1 DEF cost
    <3> QED
      BY <1>3, <3>1 DEF Within
  <2>2. CASE x # s
    <3>1. x \in Waiting(sp1) /\ sp1[x].model = sp[x].model
      BY <1>2, <1>7, <2>2
    <3>2. n - 1 - 1 \in Nat
      BY <1>3, <3>1, WaitingIs
    <3>3. (n - 1) * HighestPrice = (n - 1 - 1) * HighestPrice + HighestPrice /\ (n - 1 - 1) * HighestPrice \in Nat
      <4>1. n - 1 = (n - 1 - 1) + 1
        BY <1>3
      <4>2. ((n - 1 - 1) + 1) * HighestPrice = (n - 1 - 1) * HighestPrice + 1 * HighestPrice
        BY <3>2, <1>4, ProductSplits
      <4> QED
        BY <1>4, <3>2, <4>1, <4>2, ProductNatural
    <3>4. Price[sp[x].model] \in Nat
      BY <1>7, HighestIs
    <3>5. spent + cost + Price[sp[x].model] + (n - 1 - 1) * HighestPrice <= limit + AllButOne
      BY <1>4, <1>7, <3>3, <3>4
    <3> QED
      BY <1>3, <3>1, <3>5 DEF Within
  <2> QED
    BY <2>1, <2>2
<1>8. \/ spent + n * HighestPrice <= limit + AllButOne
      \/ \E x \in Waiting(sp) : spent + Price[sp[x].model] + (n - 1) * HighestPrice <= limit + AllButOne
  BY DEF Within, n
<1> QED
  BY <1>6, <1>7, <1>8 DEF cost

LEMMA WithinStays ==
  ASSUME NEW spent \in Nat, NEW limit \in Nat, NEW sp, Within(spent, limit, sp), NEW spent1 \in Nat, spent1 <= spent,
         \A x \in Waiting(sp) : sp[x].model \in DOMAIN Price,
         NEW sp1, Waiting(sp1) = Waiting(sp), \A x \in Waiting(sp) : sp1[x].model = sp[x].model
  PROVE  Within(spent1, limit, sp1)
<1> DEFINE n == Cardinality(Waiting(sp))
<1>1. n \in Nat /\ HighestPrice \in Nat /\ AllButOne \in Nat
  BY WaitingIs, HighestIs, AllButOneIs
<1>2. n * HighestPrice \in Nat
  BY <1>1, ProductNatural
<1>3. CASE spent + n * HighestPrice <= limit + AllButOne
  <2>1. spent1 + n * HighestPrice <= limit + AllButOne
    BY <1>1, <1>2, <1>3
  <2> QED
    BY <2>1 DEF Within
<1>4. ASSUME NEW x \in Waiting(sp), spent + Price[sp[x].model] + (n - 1) * HighestPrice <= limit + AllButOne
      PROVE  Within(spent1, limit, sp1)
  <2>1. n - 1 \in Nat
    BY WaitingIs
  <2>2. (n - 1) * HighestPrice \in Nat /\ Price[sp[x].model] \in Nat
    BY <1>1, <1>4, <2>1, HighestIs, ProductNatural
  <2> HIDE DEF n
  <2>3. spent1 + Price[sp[x].model] + (n - 1) * HighestPrice <= limit + AllButOne
    BY <1>1, <1>4, <2>2
  <2>4. x \in Waiting(sp1) /\ sp1[x].model = sp[x].model
    BY <1>4
  <2> QED
    BY <2>3, <2>4 DEF Within, n
<1>5. \/ spent + n * HighestPrice <= limit + AllButOne
      \/ \E x \in Waiting(sp) : spent + Price[sp[x].model] + (n - 1) * HighestPrice <= limit + AllButOne
  BY DEF Within
<1> QED
  BY <1>3, <1>4, <1>5

LEMMA WithinBounds ==
  ASSUME NEW spent \in Nat, NEW limit \in Nat, NEW sp, Within(spent, limit, sp),
         \A x \in Waiting(sp) : sp[x].model \in DOMAIN Price
  PROVE  spent <= limit + HighestPrice * (Cardinality(Spenders) - 1)
<1> DEFINE n == Cardinality(Waiting(sp))
<1>1. n \in Nat /\ HighestPrice \in Nat /\ AllButOne \in Nat
  BY WaitingIs, HighestIs, AllButOneIs
<1>2. n * HighestPrice \in Nat
  BY <1>1, ProductNatural
<1>3. ASSUME spent + n * HighestPrice <= limit + AllButOne PROVE spent <= limit + AllButOne
  BY <1>1, <1>2, <1>3
<1>4. ASSUME NEW x \in Waiting(sp), spent + Price[sp[x].model] + (n - 1) * HighestPrice <= limit + AllButOne
      PROVE  spent <= limit + AllButOne
  <2>1. n - 1 \in Nat
    BY WaitingIs
  <2>2. (n - 1) * HighestPrice \in Nat /\ Price[sp[x].model] \in Nat
    BY <1>1, <1>4, <2>1, HighestIs, ProductNatural
  <2> HIDE DEF n
  <2> QED
    BY <1>1, <1>4, <2>2
<1>5. \/ spent + n * HighestPrice <= limit + AllButOne
      \/ \E x \in Waiting(sp) : spent + Price[sp[x].model] + (n - 1) * HighestPrice <= limit + AllButOne
  BY DEF Within
<1>6. spent <= limit + AllButOne
  BY <1>3, <1>4, <1>5
<1>7. HighestPrice * (Cardinality(Spenders) - 1) = AllButOne
  <2>1. Cardinality(Spenders) - 1 \in Nat
    BY WaitingIs
  <2> QED
    BY <1>1, <2>1 DEF AllButOne
<1> QED
  BY <1>6, <1>7


SpendData ==
  /\ minute \in Nat /\ tier \in DOMAIN Tiers /\ raised \in BOOLEAN
  /\ daily \in Nat /\ monthly \in Nat
  /\ resets \in [day : Nat \cup {None}, month : Nat \cup {None}]
  /\ spender \in SpenderTypes
  /\ \A s \in Spenders : spender[s].step # "idle" => spender[s].model \in DOMAIN Price
  /\ ledger \in Seq(Answers)

OnDay(led, d) == {i \in DOMAIN led : led[i].day = d}
InMonth(led, d) == {i \in DOMAIN led : led[i].month = d}
OfModel(led, m) == {i \in DOMAIN led : led[i].model = m}

(* the counters are of the day and the month of the last reset, and nothing was spent since *)
CountersStand ==
  IF resets.day = None
  THEN resets.month = None /\ daily = 0 /\ monthly = 0 /\ ledger = <<>>
  ELSE /\ resets.month # None /\ resets.day <= Today /\ resets.month <= ThisMonth
       /\ daily = Sum(ledger, OnDay(ledger, resets.day)) /\ monthly = Sum(ledger, InMonth(ledger, resets.month))
       /\ \A i \in DOMAIN ledger : ledger[i].day <= resets.day /\ ledger[i].month <= resets.month

TrackedStands ==
  /\ DOMAIN tracked.models = {ledger[i].model : i \in DOMAIN ledger}
  /\ \A m \in DOMAIN tracked.models :
       tracked.models[m] = [requests |-> Cardinality(OfModel(ledger, m)), cost |-> Sum(ledger, OfModel(ledger, m))]
  /\ tracked.requests = Len(ledger) /\ tracked.cost = Sum(ledger, DOMAIN ledger)

BudgetsStand ==
  ~raised => Within(Spent.day, Tiers[tier].daily, spender) /\ Within(Spent.month, Tiers[tier].monthly, spender)

MInv == SpendData /\ CountersStand /\ TrackedStands /\ BudgetsStand

LEMMA CalendarIs ==
  ASSUME NEW n \in Nat
  PROVE  /\ n \div 2 \in Nat /\ (n \div 2) \div DaysAMonth \in Nat
         /\ n \div 2 <= (n + 1) \div 2
         /\ (n \div 2) \div DaysAMonth <= ((n + 1) \div 2) \div DaysAMonth
<1>1. n \div 2 \in Nat /\ (n + 1) \div 2 \in Nat /\ n \div 2 <= (n + 1) \div 2
  OBVIOUS
<1> DEFINE a == n \div 2
           b == (n + 1) \div 2
           d == DaysAMonth
<1> HIDE DEF a, b, d
<1>2. a \in Nat /\ b \in Nat /\ a <= b /\ d \in Nat /\ d > 0
  BY <1>1, SpendAssumption DEF a, b, d
<1> DEFINE p == a \div d
           q == b \div d
<1>3. p \in Nat /\ q \in Nat
  BY <1>2, DivisionType
<1>4. p * d <= a /\ b < (q + 1) * d
  BY <1>2, DivisionAbove, DivisionBelow
<1> HIDE DEF p, q
<1>5. ASSUME q + 1 <= p PROVE FALSE
  <2>1. (q + 1) * d <= p * d
    BY <1>2, <1>3, <1>5, ProductGrows
  <2>2. (q + 1) * d \in Int /\ p * d \in Int
    BY <1>2, <1>3
  <2> QED
    BY <1>2, <1>4, <2>1, <2>2
<1>6. p <= q
  BY <1>3, <1>5
<1> QED
  BY <1>1, <1>3, <1>6 DEF a, b, d, p, q

(* what a check goes by is what was spent today and this month *)
LEMMA SpentIsTrue ==
  ASSUME SpendData, CountersStand
  PROVE  /\ Today \in Nat /\ ThisMonth \in Nat
         /\ Spent.day = Sum(ledger, OnDay(ledger, Today)) /\ Spent.month = Sum(ledger, InMonth(ledger, ThisMonth))
         /\ Spent.day \in Nat /\ Spent.month \in Nat
         /\ \A i \in DOMAIN ledger : ledger[i].day <= Today /\ ledger[i].month <= ThisMonth
<1>1. Today \in Nat /\ ThisMonth \in Nat
  BY CalendarIs DEF SpendData, Today, ThisMonth
<1>2. ledger \in Seq(Answers) /\ None \notin Nat /\ daily \in Nat /\ monthly \in Nat
  BY SpendAssumption DEF SpendData
<1>3. /\ Spent.day = IF resets.day = Today THEN daily ELSE 0
      /\ Spent.month = IF resets.month = ThisMonth THEN monthly ELSE 0
  BY DEF Spent, ResetIfNeeded
<1>4. \A i \in DOMAIN ledger : ledger[i] \in Answers /\ ledger[i].day \in Nat /\ ledger[i].month \in Nat
  <2>1. \A i \in DOMAIN ledger : ledger[i] \in Answers
    BY <1>2
  <2> QED
    BY <2>1 DEF Answers
<1>5. CASE resets.day = None
  <2>1. resets.month = None /\ DOMAIN ledger = {}
    BY <1>5 DEF CountersStand
  <2>2. Spent.day = 0 /\ Spent.month = 0
    BY <1>1, <1>2, <1>3, <1>5, <2>1
  <2>3. Sum(ledger, OnDay(ledger, Today)) = 0 /\ Sum(ledger, InMonth(ledger, ThisMonth)) = 0
    BY <1>2, <2>1, SumIs DEF OnDay, InMonth
  <2> QED
    BY <1>1, <2>1, <2>2, <2>3
<1>6. CASE resets.day # None
  <2>1. /\ resets.day \in Nat /\ resets.month \in Nat /\ resets.day <= Today /\ resets.month <= ThisMonth
        /\ daily = Sum(ledger, OnDay(ledger, resets.day)) /\ monthly = Sum(ledger, InMonth(ledger, resets.month))
        /\ \A i \in DOMAIN ledger : ledger[i].day <= resets.day /\ ledger[i].month <= resets.month
    BY <1>6 DEF CountersStand, SpendData
  <2>2. \A i \in DOMAIN ledger : ledger[i].day <= Today /\ ledger[i].month <= ThisMonth
    BY <1>1, <1>4, <2>1
  <2>3. Spent.day = Sum(ledger, OnDay(ledger, Today))
    <3>1. CASE resets.day = Today
      BY <1>3, <2>1, <3>1
    <3>2. CASE resets.day # Today
      <4>1. OnDay(ledger, Today) = {}
        BY <1>1, <1>4, <2>1, <3>2 DEF OnDay
      <4>2. Sum(ledger, OnDay(ledger, Today)) = 0
        BY <1>2, <4>1, SumIs
      <4> QED
        BY <1>3, <3>2, <4>2
    <3> QED
      BY <3>1, <3>2
  <2>4. Spent.month = Sum(ledger, InMonth(ledger, ThisMonth))
    <3>1. CASE resets.month = ThisMonth
      BY <1>3, <2>1, <3>1
    <3>2. CASE resets.month # ThisMonth
      <4>1. InMonth(ledger, ThisMonth) = {}
        BY <1>1, <1>4, <2>1, <3>2 DEF InMonth
      <4>2. Sum(ledger, InMonth(ledger, ThisMonth)) = 0
        BY <1>2, <4>1, SumIs
      <4> QED
        BY <1>3, <3>2, <4>2
    <3> QED
      BY <3>1, <3>2
  <2>5. Spent.day \in Nat /\ Spent.month \in Nat
    BY <1>2, <1>3
  <2> QED
    BY <1>1, <2>2, <2>3, <2>4, <2>5
<1> QED
  BY <1>5, <1>6

(* a check clears the counters of another day or month, and changes nothing that is spent *)
LEMMA LookKeepsCounters ==
  ASSUME SpendData, CountersStand, SetsSpend(Spent.day, Spent.month), UNCHANGED <<minute, ledger>>
  PROVE  /\ CountersStand' /\ daily' \in Nat /\ monthly' \in Nat
         /\ resets' \in [day : Nat \cup {None}, month : Nat \cup {None}]
         /\ Spent.day \in Nat /\ Spent.month \in Nat
         /\ Spent'.day = Spent.day /\ Spent'.month = Spent.month
<1>1. /\ Today \in Nat /\ ThisMonth \in Nat
      /\ Spent.day = Sum(ledger, OnDay(ledger, Today)) /\ Spent.month = Sum(ledger, InMonth(ledger, ThisMonth))
      /\ Spent.day \in Nat /\ Spent.month \in Nat
      /\ \A i \in DOMAIN ledger : ledger[i].day <= Today /\ ledger[i].month <= ThisMonth
  BY SpentIsTrue
<1>2. /\ daily' = Spent.day /\ monthly' = Spent.month /\ resets' = [day |-> Today, month |-> ThisMonth]
      /\ ledger' = ledger /\ Today' = Today /\ ThisMonth' = ThisMonth
  BY DEF SetsSpend, Today, ThisMonth
<1>3. resets'.day = Today /\ resets'.month = ThisMonth /\ Today # None /\ ThisMonth # None
  BY <1>1, <1>2, SpendAssumption
<1>4. CountersStand'
  BY <1>1, <1>2, <1>3 DEF CountersStand
<1>5. Spent'.day = daily' /\ Spent'.month = monthly'
  BY <1>2, <1>3 DEF Spent, ResetIfNeeded
<1> QED
  BY <1>1, <1>2, <1>4, <1>5

LEMMA SpendInitInv == SpendInit => MInv
<1> SUFFICES ASSUME SpendInit PROVE MInv
  OBVIOUS
<1>1. SpendData
  <2>1. /\ minute = 0 /\ tier \in DOMAIN Tiers /\ raised = FALSE /\ daily = 0 /\ monthly = 0 /\ ledger = <<>>
        /\ resets = [day |-> None, month |-> None]
        /\ spender = [s \in Spenders |-> [step |-> "idle", model |-> None]]
    BY DEF SpendInit
  <2>2. spender \in SpenderTypes /\ \A s \in Spenders : spender[s].step = "idle"
    BY <2>1 DEF SpenderTypes
  <2>3. ledger \in Seq(Answers)
    BY <2>1
  <2> QED
    BY <2>1, <2>2, <2>3 DEF SpendData
<1>2. CountersStand
  BY DEF SpendInit, CountersStand
<1>3. ledger \in Seq(Answers) /\ ledger = <<>> /\ DOMAIN ledger = {} /\ Len(ledger) = 0
  BY DEF SpendInit
<1>4. TrackedStands
  <2>1. DOMAIN tracked.models = {} /\ tracked.requests = 0 /\ tracked.cost = 0
    BY DEF SpendInit
  <2>2. Sum(ledger, DOMAIN ledger) = 0
    BY <1>3, SumIs
  <2> QED
    BY <1>3, <2>1, <2>2 DEF TrackedStands
<1>5. ASSUME NEW limit \in Nat PROVE Within(0, limit, spender)
  <2>1. Waiting(spender) = {}
    BY DEF Waiting, SpendInit
  <2>2. Cardinality(Waiting(spender)) = 0
    BY <2>1, FS_EmptySet
  <2>3. 0 + 0 * HighestPrice <= limit + AllButOne
    BY HighestIs, AllButOneIs
  <2> QED
    BY <2>2, <2>3 DEF Within
<1>6. Spent.day = 0 /\ Spent.month = 0
  BY DEF SpendInit, Spent, ResetIfNeeded
<1>7. BudgetsStand
  BY <1>1, <1>5, <1>6, SpendAssumption DEF BudgetsStand, SpendData
<1> QED
  BY <1>1, <1>2, <1>4, <1>7 DEF MInv

LEMMA SetUserTierKeeps ==
  ASSUME MInv, NEW t \in DOMAIN Tiers, SetUserTier(t)
  PROVE  MInv'
<1>1. /\ tier' = t /\ raised' = TRUE /\ SetsSpend(Spent.day, Spent.month)
      /\ UNCHANGED <<minute, spender, tracked, ledger>>
  BY DEF SetUserTier
<1>2. /\ CountersStand' /\ daily' \in Nat /\ monthly' \in Nat
      /\ resets' \in [day : Nat \cup {None}, month : Nat \cup {None}]
  BY <1>1, LookKeepsCounters DEF MInv
<1> QED
  BY <1>1, <1>2 DEF MInv, SpendData, TrackedStands, BudgetsStand

LEMMA AskRateKeeps ==
  ASSUME MInv, NEW s \in Spenders, NEW m \in DOMAIN Price, AskRate(s, m)
  PROVE  MInv'
<1>1. /\ spender[s].step = "idle" /\ UNCHANGED <<minute, tier, daily, monthly, resets, tracked, raised, ledger>>
      /\ spender' = [spender EXCEPT ![s] = [step |-> "budget", model |-> m]] \/ spender' = spender
  BY DEF AskRate
<1>2. /\ spender' \in SpenderTypes /\ Waiting(spender') = Waiting(spender)
      /\ \A x \in Waiting(spender) : spender'[x].model = spender[x].model
      /\ \A x \in Spenders : spender'[x].step # "idle" => spender'[x].model \in DOMAIN Price
  <2>1. spender \in SpenderTypes /\ \A x \in Spenders : spender[x].step # "idle" => spender[x].model \in DOMAIN Price
    BY DEF MInv, SpendData, SpenderTypes
  <2>2. CASE spender' = spender
    BY <2>1, <2>2
  <2>3. CASE spender' = [spender EXCEPT ![s] = [step |-> "budget", model |-> m]]
    <3>1. /\ spender' \in SpenderTypes /\ spender'[s] = [step |-> "budget", model |-> m]
          /\ \A x \in Spenders : x # s => spender'[x] = spender[x]
      BY <2>1, <2>3 DEF SpenderTypes
    <3>2. \A x \in Spenders : spender'[x].step = "waits" <=> spender[x].step = "waits"
      BY <1>1, <3>1
    <3>3. Waiting(spender') = Waiting(spender)
      BY <3>2 DEF Waiting
    <3>4. s \notin Waiting(spender)
      BY <1>1 DEF Waiting
    <3>5. \A x \in Waiting(spender) : spender'[x].model = spender[x].model
      BY <3>1, <3>4 DEF Waiting
    <3>6. \A x \in Spenders : spender'[x].step # "idle" => spender'[x].model \in DOMAIN Price
      BY <2>1, <3>1
    <3> QED
      BY <3>1, <3>3, <3>5, <3>6
  <2> QED
    BY <1>1, <2>2, <2>3
<1>3. SpendData'
  BY <1>1, <1>2 DEF MInv, SpendData
<1>4. CountersStand' /\ TrackedStands'
  BY <1>1 DEF MInv, CountersStand, TrackedStands, Today, ThisMonth
<1>5. /\ Spent' = Spent /\ Spent.day \in Nat /\ Spent.month \in Nat
  BY <1>1, SpentIsTrue DEF MInv, Spent, ResetIfNeeded, Today, ThisMonth
<1>6. /\ Tiers[tier].daily \in Nat /\ Tiers[tier].monthly \in Nat
      /\ \A x \in Waiting(spender) : spender[x].model \in DOMAIN Price
  BY SpendAssumption DEF MInv, SpendData, Waiting
<1>7. \A n \in Nat : n <= n
  OBVIOUS
<1>8. BudgetsStand'
  BY <1>1, <1>2, <1>5, <1>6, <1>7, WithinStays DEF MInv, BudgetsStand
<1> QED
  BY <1>3, <1>4, <1>8 DEF MInv

LEMMA AskBudgetKeeps ==
  ASSUME MInv, NEW s \in Spenders, AskBudget(s)
  PROVE  MInv'
<1> DEFINE within == /\ Spent.day + Price[spender[s].model] <= Tiers[tier].daily
                     /\ Spent.month + Price[spender[s].model] <= Tiers[tier].monthly
<1>1. /\ spender[s].step = "budget" /\ UNCHANGED <<minute, tier, tracked, raised, ledger>>
      /\ spender' = [spender EXCEPT ![s].step = IF within THEN "waits" ELSE "idle"]
      /\ SetsSpend(Spent.day, Spent.month)
  BY DEF AskBudget
<1>2. /\ CountersStand' /\ daily' \in Nat /\ monthly' \in Nat
      /\ resets' \in [day : Nat \cup {None}, month : Nat \cup {None}]
      /\ Spent.day \in Nat /\ Spent.month \in Nat
      /\ Spent'.day = Spent.day /\ Spent'.month = Spent.month
  BY <1>1, LookKeepsCounters DEF MInv
<1>3. /\ spender' = [spender EXCEPT ![s].step = "waits"] /\ within
      \/ spender' = [spender EXCEPT ![s].step = "idle"]
  BY <1>1
<1>4. spender \in SpenderTypes /\ spender[s].model \in DOMAIN Price
  BY <1>1 DEF MInv, SpendData
<1>5. /\ spender' \in SpenderTypes
      /\ \A x \in Spenders : spender'[x].step # "idle" => spender'[x].model \in DOMAIN Price
  BY <1>3, <1>4 DEF MInv, SpendData, SpenderTypes
<1>6. SpendData'
  BY <1>1, <1>2, <1>5 DEF MInv, SpendData
<1>7. TrackedStands'
  BY <1>1 DEF MInv, TrackedStands
<1>8. Tiers[tier].daily \in Nat /\ Tiers[tier].monthly \in Nat
  BY SpendAssumption DEF MInv, SpendData
<1>9. CASE spender' = [spender EXCEPT ![s].step = "waits"] /\ within
  <2>1. spender[s].step # "waits"
    BY <1>1
  <2>2. Within(Spent.day, Tiers[tier].daily, spender')
    BY <1>2, <1>4, <1>8, <1>9, <2>1, WithinLetsThrough
  <2>3. Within(Spent.month, Tiers[tier].monthly, spender')
    BY <1>2, <1>4, <1>8, <1>9, <2>1, WithinLetsThrough
  <2> QED
    BY <1>1, <1>2, <1>6, <1>7, <2>2, <2>3 DEF MInv, BudgetsStand
<1>10. CASE spender' = [spender EXCEPT ![s].step = "idle"]
  <2>1. Waiting(spender') = Waiting(spender) /\ \A x \in Waiting(spender) : spender'[x].model = spender[x].model
    BY <1>1, <1>4, <1>10 DEF SpenderTypes, Waiting
  <2>2. \A x \in Waiting(spender) : spender[x].model \in DOMAIN Price
    BY DEF MInv, SpendData, Waiting
  <2>3. ASSUME NEW spent \in Nat, NEW limit \in Nat, Within(spent, limit, spender)
        PROVE  Within(spent, limit, spender')
    <3>1. spent <= spent
      OBVIOUS
    <3> QED
      BY <2>1, <2>2, <2>3, <3>1, WithinStays
  <2>4. BudgetsStand'
    BY <1>1, <1>2, <1>8, <2>3 DEF MInv, BudgetsStand
  <2> QED
    BY <1>2, <1>6, <1>7, <2>4 DEF MInv
<1> QED
  BY <1>3, <1>9, <1>10

LEMMA MinutePassesKeeps ==
  ASSUME MInv, MinutePasses
  PROVE  MInv'
<1>1. minute' = minute + 1 /\ UNCHANGED <<tier, stamps, daily, monthly, resets, spender, tracked, raised, ledger>>
  BY DEF MinutePasses
<1>2. minute \in Nat
  BY DEF MInv, SpendData
<1>3. /\ Today \in Nat /\ ThisMonth \in Nat /\ Today' \in Nat /\ ThisMonth' \in Nat
      /\ Today <= Today' /\ ThisMonth <= ThisMonth'
  <2>1. minute + 1 \in Nat
    BY <1>2
  <2> QED
    BY <1>1, <1>2, <2>1, CalendarIs DEF Today, ThisMonth
<1>4. SpendData'
  BY <1>1, <1>2 DEF MInv, SpendData
<1>5. resets.day \in Nat \cup {None} /\ resets.month \in Nat \cup {None}
  BY DEF MInv, SpendData
<1>6. CountersStand'
  <2>1. CASE resets.day = None
    BY <1>1, <2>1 DEF MInv, CountersStand
  <2>2. CASE resets.day # None
    <3>1. resets.day <= Today' /\ resets.month <= ThisMonth'
      BY <1>3, <1>5, <2>2 DEF MInv, CountersStand
    <3> QED
      BY <1>1, <2>2, <3>1 DEF MInv, CountersStand
  <2> QED
    BY <2>1, <2>2
<1>7. TrackedStands'
  BY <1>1 DEF MInv, TrackedStands
<1>8. /\ Spent.day \in Nat /\ Spent.month \in Nat
      /\ Spent'.day \in Nat /\ Spent'.month \in Nat
  BY <1>1 DEF MInv, SpendData, Spent, ResetIfNeeded
<1>9. Spent'.day <= Spent.day /\ Spent'.month <= Spent.month
  <2>1. /\ Spent.day = IF resets.day = Today THEN daily ELSE 0
        /\ Spent.month = IF resets.month = ThisMonth THEN monthly ELSE 0
        /\ Spent'.day = IF resets.day = Today' THEN daily ELSE 0
        /\ Spent'.month = IF resets.month = ThisMonth' THEN monthly ELSE 0
    BY <1>1 DEF Spent, ResetIfNeeded
  <2>2. resets.day = Today' => resets.day = Today
    BY <1>3, <1>5, SpendAssumption DEF MInv, CountersStand
  <2>3. resets.month = ThisMonth' => resets.month = ThisMonth
    <3>1. resets.day = None => resets.month = None
      BY DEF MInv, CountersStand
    <3> QED
      BY <1>3, <1>5, <3>1, SpendAssumption DEF MInv, CountersStand
  <2>4. daily \in Nat /\ monthly \in Nat
    BY DEF MInv, SpendData
  <2> QED
    BY <2>1, <2>2, <2>3, <2>4
<1>10. BudgetsStand'
  <2>1. /\ Tiers[tier].daily \in Nat /\ Tiers[tier].monthly \in Nat
        /\ \A x \in Waiting(spender) : spender[x].model \in DOMAIN Price
    BY SpendAssumption DEF MInv, SpendData, Waiting
  <2> QED
    BY <1>1, <1>8, <1>9, <2>1, WithinStays DEF MInv, BudgetsStand
<1> QED
  BY <1>4, <1>6, <1>7, <1>10 DEF MInv


LEMMA RecordSpendKeeps ==
  ASSUME MInv, NEW s \in Spenders, RecordSpend(s)
  PROVE  MInv'
<1> DEFINE m == spender[s].model
           cost == Price[m]
           e == [day |-> Today, month |-> ThisMonth, model |-> m]
           n == Len(ledger) + 1
<1>1. /\ spender[s].step = "waits" /\ UNCHANGED <<minute, tier, stamps, raised>>
      /\ spender' = [spender EXCEPT ![s].step = "idle"]
      /\ SetsSpend(Spent.day + cost, Spent.month + cost)
      /\ tracked' = TrackedWith(m)
      /\ ledger' = Append(ledger, e)
  BY DEF RecordSpend
<1>2. spender \in SpenderTypes /\ m \in DOMAIN Price /\ ledger \in Seq(Answers) /\ minute \in Nat
  BY <1>1 DEF MInv, SpendData
<1>3. cost \in Nat /\ cost <= HighestPrice
  BY <1>2, HighestIs
<1>4. /\ Today \in Nat /\ ThisMonth \in Nat
      /\ Spent.day = Sum(ledger, OnDay(ledger, Today)) /\ Spent.month = Sum(ledger, InMonth(ledger, ThisMonth))
      /\ Spent.day \in Nat /\ Spent.month \in Nat
      /\ \A i \in DOMAIN ledger : ledger[i].day <= Today /\ ledger[i].month <= ThisMonth
  BY SpentIsTrue DEF MInv
<1>5. e \in Answers /\ e.day = Today /\ e.month = ThisMonth /\ e.model = m
  BY <1>2, <1>4 DEF Answers
<1> HIDE DEF e
<1>6. /\ ledger' \in Seq(Answers) /\ Len(ledger') = n /\ Len(ledger) \in Nat
      /\ \A i \in 1..Len(ledger) : ledger'[i] = ledger[i]
      /\ ledger'[n] = e
  BY <1>1, <1>2, <1>5, AppendProperties
<1>7. /\ DOMAIN ledger = 1..Len(ledger) /\ DOMAIN ledger' = DOMAIN ledger \cup {n} /\ n \notin DOMAIN ledger
      /\ \A i \in DOMAIN ledger : ledger'[i] = ledger[i]
  BY <1>2, <1>6
<1> HIDE DEF n
<1>8. ASSUME NEW R, NEW S, \A i \in DOMAIN ledger : i \in R <=> i \in S
      PROVE  Sum(ledger', S) = Sum(ledger, R) + IF n \in S THEN cost ELSE 0
  BY <1>1, <1>2, <1>5, <1>8, SumAppend DEF n
<1>9. /\ OnDay(ledger', Today) = OnDay(ledger, Today) \cup {n}
      /\ InMonth(ledger', ThisMonth) = InMonth(ledger, ThisMonth) \cup {n}
      /\ OfModel(ledger', m) = OfModel(ledger, m) \cup {n}
      /\ \A x : x # m => OfModel(ledger', x) = OfModel(ledger, x)
  BY <1>5, <1>6, <1>7 DEF OnDay, InMonth, OfModel
<1>10. /\ Sum(ledger', OnDay(ledger', Today)) = Spent.day + cost
       /\ Sum(ledger', InMonth(ledger', ThisMonth)) = Spent.month + cost
  <2>1. Sum(ledger', OnDay(ledger', Today)) = Sum(ledger, OnDay(ledger, Today)) + cost
    <3>1. n \in OnDay(ledger', Today)
          /\ \A i \in DOMAIN ledger : i \in OnDay(ledger, Today) <=> i \in OnDay(ledger', Today)
      BY <1>7, <1>9
    <3> QED
      BY <1>8, <3>1
  <2>2. Sum(ledger', InMonth(ledger', ThisMonth)) = Sum(ledger, InMonth(ledger, ThisMonth)) + cost
    <3>1. n \in InMonth(ledger', ThisMonth)
          /\ \A i \in DOMAIN ledger : i \in InMonth(ledger, ThisMonth) <=> i \in InMonth(ledger', ThisMonth)
      BY <1>7, <1>9
    <3> QED
      BY <1>8, <3>1
  <2> QED
    BY <1>4, <2>1, <2>2
<1>11. /\ daily' = Spent.day + cost /\ monthly' = Spent.month + cost
       /\ resets' = [day |-> Today, month |-> ThisMonth] /\ Today' = Today /\ ThisMonth' = ThisMonth
  BY <1>1 DEF SetsSpend, Today, ThisMonth
<1>12. resets'.day = Today /\ resets'.month = ThisMonth /\ Today # None /\ ThisMonth # None
  BY <1>4, <1>11, SpendAssumption
<1>13. CountersStand'
  <2>1. \A i \in DOMAIN ledger' : ledger'[i].day <= Today /\ ledger'[i].month <= ThisMonth
    BY <1>4, <1>5, <1>6, <1>7
  <2>2. Today <= Today /\ ThisMonth <= ThisMonth
    BY <1>4
  <2> QED
    BY <1>10, <1>11, <1>12, <2>1, <2>2 DEF CountersStand
<1>14. SpendData'
  <2>1. /\ spender' \in SpenderTypes
        /\ \A x \in Spenders : spender'[x].step # "idle" => spender'[x].model \in DOMAIN Price
    BY <1>1, <1>2 DEF MInv, SpendData, SpenderTypes
  <2>2. daily' \in Nat /\ monthly' \in Nat /\ resets' \in [day : Nat \cup {None}, month : Nat \cup {None}]
    BY <1>3, <1>4, <1>11
  <2> QED
    BY <1>1, <1>6, <2>1, <2>2 DEF MInv, SpendData
<1>15. TrackedStands'
  <2> DEFINE old == IF m \in DOMAIN tracked.models THEN tracked.models[m] ELSE [requests |-> 0, cost |-> 0]
             new == [x \in DOMAIN tracked.models \cup {m} |->
                       IF x = m THEN [requests |-> old.requests + 1, cost |-> old.cost + cost] ELSE tracked.models[x]]
  <2>1. tracked' = [models |-> new, requests |-> tracked.requests + 1, cost |-> tracked.cost + cost]
    BY <1>1, Zenon DEF TrackedWith
  <2>2. /\ DOMAIN tracked.models = {ledger[i].model : i \in DOMAIN ledger}
        /\ \A x \in DOMAIN tracked.models :
             tracked.models[x] = [requests |-> Cardinality(OfModel(ledger, x)), cost |-> Sum(ledger, OfModel(ledger, x))]
        /\ tracked.requests = Len(ledger) /\ tracked.cost = Sum(ledger, DOMAIN ledger)
    BY DEF MInv, TrackedStands
  <2>3. /\ IsFiniteSet(OfModel(ledger, m)) /\ Cardinality(OfModel(ledger, m)) \in Nat
        /\ Cardinality(OfModel(ledger', m)) = Cardinality(OfModel(ledger, m)) + 1
    <3>1. IsFiniteSet(1..Len(ledger))
      BY <1>6, FS_Interval
    <3>2. OfModel(ledger, m) \in SUBSET (1..Len(ledger)) /\ n \notin OfModel(ledger, m)
      BY <1>7 DEF OfModel
    <3>3. IsFiniteSet(OfModel(ledger, m))
      BY <3>1, <3>2, FS_Subset
    <3> QED
      BY <1>9, <3>2, <3>3, FS_AddElement, FS_CardinalityType
  <2>4. Sum(ledger', OfModel(ledger', m)) = Sum(ledger, OfModel(ledger, m)) + cost /\ Sum(ledger, OfModel(ledger, m)) \in Nat
    <3>1. n \in OfModel(ledger', m)
          /\ \A i \in DOMAIN ledger : i \in OfModel(ledger, m) <=> i \in OfModel(ledger', m)
      BY <1>7, <1>9
    <3>2. Sum(ledger', OfModel(ledger', m)) = Sum(ledger, OfModel(ledger, m)) + cost
      BY <1>8, <3>1
    <3> QED
      BY <1>2, <3>2, SumIs
  <2>5. old.requests = Cardinality(OfModel(ledger, m)) /\ old.cost = Sum(ledger, OfModel(ledger, m))
    <3>1. CASE m \in DOMAIN tracked.models
      <4>1. old = tracked.models[m]
        BY <3>1
      <4>2. tracked.models[m] = [requests |-> Cardinality(OfModel(ledger, m)), cost |-> Sum(ledger, OfModel(ledger, m))]
        BY <2>2, <3>1
      <4> HIDE DEF old, m
      <4> QED
        BY <4>1, <4>2
    <3>2. CASE m \notin DOMAIN tracked.models
      <4>1. OfModel(ledger, m) = {}
        BY <2>2, <3>2 DEF OfModel
      <4>2. Sum(ledger, OfModel(ledger, m)) = 0 /\ Cardinality(OfModel(ledger, m)) = 0
        BY <1>2, <4>1, SumIs, FS_EmptySet
      <4> QED
        BY <3>2, <4>2
    <3> QED
      BY <3>1, <3>2
  <2>6. tracked'.models = new /\ tracked'.requests = tracked.requests + 1 /\ tracked'.cost = tracked.cost + cost
    BY <2>1
  <2>7. DOMAIN new = DOMAIN tracked.models \cup {m}
    OBVIOUS
  <2>8. {ledger'[i].model : i \in DOMAIN ledger'} = {ledger[i].model : i \in DOMAIN ledger} \cup {m}
    BY <1>5, <1>6, <1>7
  <2>9. new[m] = [requests |-> Cardinality(OfModel(ledger', m)), cost |-> Sum(ledger', OfModel(ledger', m))]
    <3>1. new[m] = [requests |-> old.requests + 1, cost |-> old.cost + cost]
      OBVIOUS
    <3> HIDE DEF new, old
    <3> QED
      BY <2>3, <2>4, <2>5, <3>1
  <2>10. ASSUME NEW x \in DOMAIN tracked.models, x # m
         PROVE  new[x] = [requests |-> Cardinality(OfModel(ledger', x)), cost |-> Sum(ledger', OfModel(ledger', x))]
    <3>1. new[x] = [requests |-> Cardinality(OfModel(ledger, x)), cost |-> Sum(ledger, OfModel(ledger, x))]
      BY <2>2, <2>10
    <3>2. OfModel(ledger', x) = OfModel(ledger, x) /\ n \notin OfModel(ledger', x)
      BY <1>7, <1>9, <2>10 DEF OfModel
    <3>3. Sum(ledger', OfModel(ledger', x)) = Sum(ledger, OfModel(ledger, x)) + 0
      BY <1>8, <3>2
    <3>4. Sum(ledger, OfModel(ledger, x)) \in Nat
      BY <1>2, SumIs
    <3> HIDE DEF new
    <3> QED
      BY <3>1, <3>2, <3>3, <3>4
  <2>11. Sum(ledger', DOMAIN ledger') = Sum(ledger, DOMAIN ledger) + cost
    BY <1>7, <1>8
  <2> HIDE DEF new, old
  <2> QED
    BY <1>6, <2>2, <2>6, <2>7, <2>8, <2>9, <2>10, <2>11 DEF TrackedStands, n
<1>16. BudgetsStand'
  <2>1. Spent'.day = Spent.day + cost /\ Spent'.month = Spent.month + cost
    BY <1>11, <1>12 DEF Spent, ResetIfNeeded
  <2>2. s \in Waiting(spender) /\ \A x \in Waiting(spender) : spender[x].model \in DOMAIN Price
    BY <1>1 DEF MInv, SpendData, Waiting
  <2>3. Tiers[tier].daily \in Nat /\ Tiers[tier].monthly \in Nat
    BY SpendAssumption DEF MInv, SpendData
  <2>4. ASSUME NEW spent \in Nat, NEW limit \in Nat, Within(spent, limit, spender)
        PROVE  Within(spent + cost, limit, spender')
    BY <1>1, <1>2, <2>2, <2>4, WithinCharges
  <2> QED
    BY <1>1, <1>4, <2>1, <2>3, <2>4 DEF MInv, BudgetsStand
<1> QED
  BY <1>13, <1>14, <1>15, <1>16 DEF MInv

LEMMA SpendNextKeeps ==
  ASSUME MInv, [SpendNext]_spend_vars
  PROVE  MInv'
<1>1. CASE UNCHANGED spend_vars
  BY <1>1 DEF spend_vars, MInv, SpendData, CountersStand, TrackedStands, BudgetsStand, Spent, ResetIfNeeded, Today, ThisMonth
<1> QED
  BY <1>1, SetUserTierKeeps, AskBudgetKeeps, RecordSpendKeeps, AskRateKeeps, MinutePassesKeeps DEF SpendNext

LEMMA CountersByInvariant == MInv => CountersAreTrue
<1> SUFFICES ASSUME MInv PROVE CountersAreTrue
  OBVIOUS
<1>1. /\ Today \in Nat /\ ThisMonth \in Nat
      /\ Spent.day = Sum(ledger, OnDay(ledger, Today)) /\ Spent.month = Sum(ledger, InMonth(ledger, ThisMonth))
      /\ Spent.day \in Nat /\ Spent.month \in Nat
  BY SpentIsTrue DEF MInv
<1>2. daily >= Spent.day /\ monthly >= Spent.month
  <2>1. /\ Spent.day = IF resets.day = Today THEN daily ELSE 0
        /\ Spent.month = IF resets.month = ThisMonth THEN monthly ELSE 0
    BY DEF Spent, ResetIfNeeded
  <2> QED
    BY <2>1 DEF MInv, SpendData
<1>3. TrackedStands
  BY DEF MInv
<1> QED
  BY <1>1, <1>2, <1>3, SpentIsSum
     DEF CountersAreTrue, GetSummary, GetTierSummary, TrackedStands, OnDay, InMonth, OfModel

LEMMA OverrunByInvariant == MInv => OverrunIsBounded
<1> SUFFICES ASSUME MInv, ~raised
             PROVE  /\ Spent.day <= Tiers[tier].daily + HighestPrice * (Cardinality(Spenders) - 1)
                    /\ Spent.month <= Tiers[tier].monthly + HighestPrice * (Cardinality(Spenders) - 1)
  BY DEF OverrunIsBounded
<1>1. Spent.day \in Nat /\ Spent.month \in Nat
  BY SpentIsTrue DEF MInv
<1>2. /\ Tiers[tier].daily \in Nat /\ Tiers[tier].monthly \in Nat
      /\ \A x \in Waiting(spender) : spender[x].model \in DOMAIN Price
  BY SpendAssumption DEF MInv, SpendData, Waiting
<1>3. Within(Spent.day, Tiers[tier].daily, spender) /\ Within(Spent.month, Tiers[tier].monthly, spender)
  BY DEF MInv, BudgetsStand
<1> QED
  BY <1>1, <1>2, <1>3, WithinBounds

LEMMA RecommendedByInvariant == MInv => RecommendedIsUsable
  BY RecommendedByType DEF MInv, SpendData

-----------------------------------------------------------------------------
(* Each library by itself, for every value of the constants. *)
LEMMA SessionsInvariance == SessionsSpec => []SInv
  BY SessionsInitInv, SessionsNextKeeps, PTL DEF SessionsSpec

LEMMA KeysInvariance == KeysSpec => []KInv
  BY KeysInitInv, KeysNextKeeps, PTL DEF KeysSpec

LEMMA VaultInvariance == VaultSpec => []VInv
  BY VaultInitInv, VaultNextKeeps, PTL DEF VaultSpec

LEMMA UsersInvariance == UsersSpec => []UInv
  BY UsersInitInv, UsersNextKeeps, PTL DEF UsersSpec

LEMMA InjectionInvariance == InjectionSpec => []JInv
  BY InjectionInitInv, InjectionNextKeeps, PTL DEF InjectionSpec

LEMMA DataInvariance == DataSpec => [](DInv /\ RulesStand)
<1>1. DataInit => DInv /\ RulesStand
  BY DataInitInv, DLPInitInv DEF DataInit
<1>2. DInv /\ RulesStand /\ [DataNext]_data_vars => (DInv /\ RulesStand)'
  BY DataNextKeeps, DLPNextKeeps DEF DataNext
<1> QED
  BY <1>1, <1>2, PTL DEF DataSpec

LEMMA OpaInvariance == OpaSpec => []OInv
  BY OpaInitInv, OpaNextKeeps, PTL DEF OpaSpec

LEMMA ToolInvariance == ToolSpec => []LInv
  BY ToolInitInv, ToolNextKeeps, PTL DEF ToolSpec

LEMMA LimiterInvariance == LimiterSpec => []QInv
  BY LimiterInitInv, LimiterNextKeeps, PTL DEF LimiterSpec

LEMMA SpendInvariance == SpendSpec => []MInv
  BY SpendInitInv, SpendNextKeeps, PTL DEF SpendSpec

(***************************************************************************)
(* The libraries side by side behave each as it does by itself.            *)
(***************************************************************************)
THEOREM LibrariesSideBySide ==
  MCSpec => /\ SessionsSpec /\ KeysSpec /\ VaultSpec /\ UsersSpec
            /\ InjectionSpec /\ DataSpec /\ OpaSpec /\ ToolSpec /\ LimiterSpec /\ SpendSpec
<1>1. MCInit => /\ SessionsInit /\ KeysInit /\ VaultInit /\ UsersInit
                /\ InjectionInit /\ DataInit /\ OpaInit /\ ToolInit /\ LimiterInit /\ SpendInit
  BY DEF MCInit, DataInit
<1>2. [MCNext]_mc_vars => /\ [SessionsNext]_session_vars /\ [KeysNext]_key_vars
                          /\ [VaultNext]_vault_vars /\ [UsersNext]_user_vars
  BY DEF MCNext, mc_vars
<1>3. [MCNext]_mc_vars => /\ [InjectionNext]_injection_vars /\ [OpaNext]_opa_vars /\ [ToolNext]_tool_vars
  BY DEF MCNext, PipelineOrDetector, mc_vars
<1>4. [MCNext]_mc_vars => [LimiterNext]_limiter_vars /\ [SpendNext]_spend_vars
  BY DEF MCNext, mc_vars
<1>5. [MCNext]_mc_vars => [DataNext]_data_vars
  <2>1. focus \in Data /\ DataMoves => DataNext
    BY DEF Data, DataMoves, DataNext
  <2> QED
    BY <2>1 DEF MCNext, mc_vars
<1> QED
  BY <1>1, <1>2, <1>3, <1>4, <1>5, PTL
     DEF MCSpec, SessionsSpec, KeysSpec, VaultSpec, UsersSpec, InjectionSpec, DataSpec, OpaSpec, ToolSpec,
         LimiterSpec, SpendSpec

(***************************************************************************)
(* What was taken back stays taken back: sessions, keys, users and secrets *)
(* (session.py, api_keys.py, rbac.py, vault.py), for any number of callers *)
(* and whatever steps of theirs overlap, fail or expire.                   *)
(***************************************************************************)
THEOREM Revocation == MCSpec => []RevocationHolds
<1>1. SInv => RevokedStaysRevoked
  BY DEF SInv
<1>2. KInv => OneActivePerLine /\ RevokedIsNeverValid
  BY DEF KInv, KeyData, RevokedIsNeverValid
<1>3. UInv => RetiredForGood
  BY RetiredByInvariant
<1>4. VInv => SecretsAreFresh
  BY FreshByInvariant
<1>5. SInv /\ KInv /\ VInv /\ UInv => RevocationHolds
  BY <1>1, <1>2, <1>3, <1>4 DEF RevocationHolds
<1> QED
  BY <1>5, LibrariesSideBySide, SessionsInvariance, KeysInvariance, VaultInvariance, UsersInvariance, PTL

(***************************************************************************)
(* Enforcing the limit takes other sessions than the one it is called for  *)
(* (session.py, create_session), unless the limit is 0.                    *)
(***************************************************************************)
THEOREM OwnSession ==
  ASSUME MAX_CONCURRENT_SESSIONS # 0
  PROVE  MCSpec => []OwnSessionSurvives
<1>1. SInv => OwnSessionSurvives
  BY DEF SInv
<1> QED
  BY <1>1, LibrariesSideBySide, SessionsInvariance, PTL

(***************************************************************************)
(* A login is of who had the password of an active user and holds what its *)
(* role allows (rbac.py, authenticate and require_role).                   *)
(***************************************************************************)
THEOREM Logins == MCSpec => []LoginsWereDue
  BY DueByInvariant, LibrariesSideBySide, UsersInvariance, PTL

(***************************************************************************)
(* A line of keys keeps an active one unless one of it was revoked or a    *)
(* rotation of it has not come to its end (api_keys.py, rotate_key).       *)
(***************************************************************************)
THEOREM Lines == MCSpec => []LineGoesOn
<1>1. KInv => LineGoesOn
  BY DEF KInv, LineStands, BrokenOff, LineGoesOn
<1> QED
  BY <1>1, LibrariesSideBySide, KeysInvariance, PTL

(***************************************************************************)
(* An evaluation is turned away without asking OPA only after as many      *)
(* failures as the threshold says, one of them less than the reset time    *)
(* ago, and only fail_closed refuses while OPA does not answer             *)
(* (opa_client.py), whatever requests are under way and end in any order.  *)
(***************************************************************************)
THEOREM OpaCircuit == MCSpec => []TurnedAwayForCause
  BY CauseByInvariant, LibrariesSideBySide, OpaInvariance, PTL

(***************************************************************************)
(* Every tool call ends on one list, one that goes ahead is on no deny     *)
(* list and needs no confirmation, and the listing an administrator sees   *)
(* is what is enforced (policy_engine.py, tool_interceptor.py), for any    *)
(* policy file, user and number of calls.                                  *)
(***************************************************************************)
THEOREM ListedTools == MCSpec => []ListingIsEnforced
  BY ListedByInvariant, LibrariesSideBySide, ToolInvariance, PTL

(***************************************************************************)
(* Who is let in was to be let in, and who was to be let in goes on being: *)
(* tokens, budgets and their counters, OPA's circuit, the listed policies  *)
(* of tools, logins, the session just made and the line of a key           *)
(* (rate_limiter.py, cost_tracker.py, tier_manager.py, opa_client.py,      *)
(* policy_engine.py, rbac.py, session.py, api_keys.py), for any number of  *)
(* callers, any rates, tiers and prices; the limit of sessions is not 0.   *)
(***************************************************************************)
THEOREM Admission ==
  ASSUME MAX_CONCURRENT_SESSIONS # 0
  PROVE  MCSpec => []AdmissionIsDue
<1>1. QInv => GrantsAreBounded /\ RetryIsServed
  BY BoundedByInvariant, ServedByInvariant
<1>2. MInv => CountersAreTrue /\ OverrunIsBounded /\ RecommendedIsUsable
  BY CountersByInvariant, OverrunByInvariant, RecommendedByInvariant
<1>3. QInv /\ MInv /\ TurnedAwayForCause /\ ListingIsEnforced /\ LoginsWereDue
        /\ OwnSessionSurvives /\ LineGoesOn => AdmissionIsDue
  BY <1>1, <1>2 DEF AdmissionIsDue
<1> QED
  BY <1>3, LibrariesSideBySide, LimiterInvariance, SpendInvariance, OpaCircuit, ListedTools, Logins,
     OwnSession, Lines, PTL

(***************************************************************************)
(* Content is graded as the tables of the injection detectors say, the     *)
(* strictest DLP rule is the one taken, a masked value shows nothing of    *)
(* what was found, what the request filter passes has an attack only where *)
(* it does not look, and what was encrypted opens to its own field and key *)
(* (prompt_injection.py, dlp.py, data_classification.py, sanitizer.py,     *)
(* encryption.py), for any rules, requests, rotations and restarts.        *)
(***************************************************************************)
THEOREM Content == MCSpec => []ContentIsGuarded
<1>1. RInv => OpensToItsOwn
  BY OpensByInvariant
<1>2. ItemStands => MaskedIsClean
  BY ClassifiedClean
<1>3. JInv /\ DInv /\ RulesStand => ContentIsGuarded
  BY <1>1, <1>2, GradedByInvariant, StrongestByInvariant DEF DInv, FilterStands, ContentIsGuarded
<1> QED
  BY <1>3, LibrariesSideBySide, InjectionInvariance, DataInvariance, PTL

-----------------------------------------------------------------------------
(* The types, as far as the invariants above do not give them. *)

OpaStands ==
  /\ instant \in 0..LastInstant /\ circuit.since \in 0..LastInstant
  /\ \A e \in Evaluations : evaluation[e].state = "done" <=> evaluation[e].allowed # None

LEMMA InstantsBegin == LastInstant \in Nat /\ 0 \in 0..LastInstant
<1>1. LastInstant \in Nat
  BY OpaAssumption
<1>2. 0 \in 0..LastInstant
  BY <1>1
<1> QED
  BY <1>1, <1>2

LEMMA OpaInitStands == OpaInit => OpaStands
<1> SUFFICES ASSUME OpaInit PROVE OpaStands
  OBVIOUS
<1>1. 0 \in 0..LastInstant
  BY InstantsBegin
<1>2. instant = 0 /\ circuit.since = 0
  BY DEF OpaInit, Closed
<1>3. \A e \in Evaluations : evaluation[e].state = "new" /\ evaluation[e].allowed = None
  BY DEF OpaInit
<1> QED
  BY <1>1, <1>2, <1>3 DEF OpaStands

LEMMA OpaNextStands ==
  ASSUME OInv, OpaStands, [OpaNext]_opa_vars
  PROVE  OpaStands'
<1>1. /\ instant \in 0..LastInstant /\ circuit.since \in 0..LastInstant
      /\ circuit \in CircuitRecord /\ evaluation \in [Evaluations -> EvaluationRecord]
      /\ \A e \in Evaluations : evaluation[e].state = "done" <=> evaluation[e].allowed # None
  BY DEF OInv, OpaData, OpaStands
<1>2. ASSUME circuit' \in {circuit, Closed, Counted}, instant' = instant PROVE circuit'.since \in 0..LastInstant
  <2>1. 0 \in 0..LastInstant
    BY InstantsBegin
  <2> QED
    BY <1>1, <1>2, <2>1 DEF Closed, Counted, CircuitRecord
<1>3. ASSUME NEW e \in Evaluations, NEW allowed \in BOOLEAN, NEW by, Decides(e, allowed, by)
      PROVE  \A d \in Evaluations : evaluation'[d].state = "done" <=> evaluation'[d].allowed # None
  <2>1. evaluation' = [evaluation EXCEPT ![e].state = "done", ![e].allowed = allowed, ![e].by = by, ![e].at = instant]
    BY <1>3 DEF Decides
  <2>2. evaluation'[e].state = "done" /\ evaluation'[e].allowed = allowed
    <3>1. evaluation[e] \in EvaluationRecord
      BY <1>1
    <3>2. evaluation'[e] = [evaluation[e] EXCEPT !.state = "done", !.allowed = allowed, !.by = by, !.at = instant]
      BY <1>1, <2>1
    <3> QED
      BY <3>1, <3>2 DEF EvaluationRecord
  <2>3. \A d \in Evaluations : d # e => evaluation'[d] = evaluation[d]
    BY <1>1, <2>1
  <2> QED
    BY <1>1, <2>2, <2>3, AllowedAssumption
<1>4. Unavailable \in BOOLEAN
  BY DEF Unavailable
<1>5. ASSUME NEW e \in Evaluations, BeginEvaluate(e) PROVE OpaStands'
  <2>1. instant' = instant /\ circuit' \in {circuit, Closed, Counted}
    BY <1>5 DEF BeginEvaluate
  <2>2. CASE Decides(e, Unavailable, "open circuit")
    BY <1>1, <1>2, <1>3, <1>4, <2>1, <2>2 DEF OpaStands
  <2>3. CASE evaluation' = [evaluation EXCEPT ![e].state = "asked"]
    <3>1. evaluation[e].allowed = None
      BY <1>1, <1>5 DEF BeginEvaluate
    <3>2. evaluation'[e].state = "asked" /\ evaluation'[e].allowed = None
      BY <1>1, <2>3, <3>1 DEF EvaluationRecord
    <3>3. \A d \in Evaluations : d # e => evaluation'[d] = evaluation[d]
      BY <1>1, <2>3
    <3> QED
      BY <1>1, <1>2, <2>1, <3>2, <3>3 DEF OpaStands
  <2> QED
    BY <1>5, <2>2, <2>3 DEF BeginEvaluate
<1>6. ASSUME NEW e \in Evaluations, OpaFails(e) PROVE OpaStands'
  BY <1>1, <1>2, <1>3, <1>4, <1>6 DEF OpaFails, OpaStands
<1>7. ASSUME NEW e \in Evaluations, NEW allow \in BOOLEAN, OpaAnswers(e, allow) PROVE OpaStands'
  BY <1>1, <1>2, <1>3, <1>7 DEF OpaAnswers, OpaStands
<1>8. CASE Reset
  BY <1>1, <1>2, <1>8 DEF Reset, OpaStands
<1>9. CASE Wait
  <2>1. instant' \in 0..LastInstant
    BY <1>1, <1>9, InstantsBegin DEF Wait
  <2>2. circuit' = circuit /\ evaluation' = evaluation
    BY <1>9 DEF Wait
  <2> QED
    BY <1>1, <2>1, <2>2 DEF OpaStands
<1>10. CASE UNCHANGED opa_vars
  BY <1>10 DEF opa_vars, OpaStands
<1> QED
  BY <1>5, <1>6, <1>7, <1>8, <1>9, <1>10 DEF OpaNext

Judged == check.step = "done" <=> check.result # None

LEMMA ResultIs ==
  ASSUME NEW detected \in BOOLEAN, NEW score \in Int, NEW severity \in DOMAIN Order,
         NEW layer \in {"regex", "llm_judge", "fallback", "error"}
  PROVE  Result(detected, score, severity, layer) # None
<1>1. ActionOf(severity) \in {"allow", "flag", "redact", "block", "block_and_alert"}
  BY DEF ActionOf, Order
<1>2. Result(detected, score, severity, layer) \in Results
  BY <1>1 DEF Result, Results
<1> QED
  BY <1>2, InjectionAssumption

LEMMA InjectionNextJudged ==
  ASSUME JInv, Judged, [InjectionNext]_injection_vars
  PROVE  Judged'
<1>1. ASSUME NEW layer \in {"regex", "llm_judge", "fallback", "error"} PROVE Allow(layer) # None
  <2>1. "none" \in DOMAIN Order /\ 0 \in Int /\ FALSE \in BOOLEAN
    BY DEF Order
  <2>2. Result(FALSE, 0, "none", layer) # None
    BY <2>1, ResultIs
  <2> QED
    BY <2>2 DEF Allow
<1>2. check = [text |-> check.text, step |-> check.step, judge |-> check.judge, result |-> check.result]
  BY DEF JInv, CheckRecord
<1>3. ASSUME NEW result, result # None, CheckEnds(result) PROVE Judged'
  BY <1>2, <1>3 DEF CheckEnds, Judged
<1>4. CASE RunPatterns
  <2> DEFINE result == Match(Examined(check.text))
  <2>1. CASE result.detected /\ CheckEnds(result)
    <3>1. Examined(check.text) \in SUBSET DOMAIN Patterns
      BY InjectionAssumption DEF Examined, JInv, CheckGraded
    <3>2. result \in [detected : BOOLEAN, score : Int, action : {"allow", "block", "block_and_alert"}, layer : {"regex"}]
      BY <3>1, MatchGraded
    <3> HIDE DEF result
    <3>3. result \in Results
      BY <3>2 DEF Results
    <3>4. result # None
      BY <3>3, InjectionAssumption
    <3> QED
      BY <1>3, <2>1, <3>4
  <2>2. CASE check' = [check EXCEPT !.step = "judge"]
    <3>1. check.step = "prepare" /\ check.result = None
      BY <1>4 DEF RunPatterns, Judged
    <3> QED
      BY <1>2, <2>2, <3>1 DEF Judged
  <2> QED
    BY <1>4, <2>1, <2>2 DEF RunPatterns
<1>5. CASE SkipJudge \/ JudgeFails \/ PipelineFails
  BY <1>1, <1>3, <1>5 DEF SkipJudge, JudgeFails, PipelineFails
<1>6. ASSUME NEW injection \in BOOLEAN, NEW confidence \in Confidences, JudgeAnswers(injection, confidence) PROVE Judged'
  <2>1. confidence \in Int
    BY InjectionAssumption
  <2>2. Result(TRUE, confidence, Severity(confidence), "llm_judge") # None
    <3>1. Severity(confidence) \in DOMAIN Order
      BY <2>1 DEF Severity, Order
    <3> QED
      BY <2>1, <3>1, ResultIs
  <2>3. check'.step = "done" /\ check'.result # None
    BY <1>1, <1>2, <1>6, <2>2 DEF JudgeAnswers
  <2> QED
    BY <2>3 DEF Judged
<1>7. ASSUME check' = check PROVE Judged'
  BY <1>7 DEF Judged
<1>8. ASSUME NEW matches \in BOOLEAN, ScanCategory(matches) PROVE check' = check
  BY <1>8 DEF ScanCategory
<1> QED
  BY <1>4, <1>5, <1>6, <1>7, <1>8 DEF InjectionNext, injection_vars

PoliciesStand ==
  /\ POLICIES \in {None, NoPolicies} \cup PolicyFiles
  /\ Len(answer.calls) \in Nat /\ answer.done <= Len(answer.calls)

LEMMA ToolInitStands == ToolInit => PoliciesStand
  BY DEF ToolInit, PoliciesStand

LEMMA LenDomain ==
  ASSUME NEW S, NEW n \in Nat, NEW seq \in [1..n -> S]
  PROVE  Len(seq) = n
  OBVIOUS

LEMMA ToolNextStands ==
  ASSUME LInv, PoliciesStand, [ToolNext]_tool_vars
  PROVE  PoliciesStand'
<1>1. answer = [f \in AnswerFields |-> answer[f]] /\ answer.done \in Nat
  BY DEF LInv, ListsStand
<1>2. ASSUME NEW file \in PolicyFiles, LoadPolicies(file) PROVE PoliciesStand'
  BY <1>2 DEF LoadPolicies, PoliciesStand
<1>3. ASSUME NEW user \in Users, NEW role, NEW context,
             NEW n \in 0..MaxToolCalls, NEW calls \in [1..n -> [tool : Tools, target : Targets]],
             AnswerArrives(user, role, context, calls)
      PROVE  PoliciesStand'
  <2>1. Len(calls) \in Nat
    <3>1. n \in Nat
      BY ToolsAssumption
    <3> QED
      BY <3>1, LenDomain
  <2>2. answer.done = 0
    BY <1>3 DEF AnswerArrives, LInv, ListsStand
  <2>3. answer'.calls = calls /\ answer'.done = 0 /\ POLICIES' = POLICIES
    BY <1>1, <1>3, <2>2 DEF AnswerArrives, AnswerFields
  <2> QED
    BY <2>1, <2>3 DEF PoliciesStand
<1>4. CASE InterceptToolCall
  <2>1. answer'.calls = answer.calls /\ answer'.done \in {answer.done, answer.done + 1} /\ POLICIES' = POLICIES
    BY <1>1, <1>4 DEF InterceptToolCall, AnswerFields
  <2>2. answer.done < Len(answer.calls)
    BY <1>4 DEF InterceptToolCall
  <2> QED
    BY <1>1, <2>1, <2>2 DEF PoliciesStand
<1>5. CASE UNCHANGED tool_vars
  BY <1>5 DEF tool_vars, PoliciesStand
<1> QED
  BY <1>2, <1>3, <1>4, <1>5 DEF ToolNext

RotationsStand == cut_keys <= MaxRotations /\ \A h \in Holders : ring[h].current <= cut_keys

LEMMA DataInitStands == DataInit => RotationsStand
<1>1. MaxRotations \in Nat
  BY DataProtectionAssumption
<1> QED
  BY <1>1 DEF DataInit, RingInit, FreshRing, RotationsStand

LEMMA DataNextStands ==
  ASSUME DInv, RotationsStand, [DataNext]_data_vars
  PROVE  RotationsStand'
<1>1. /\ cut_keys \in Nat /\ MaxRotations \in Nat /\ \A h \in Holders : ring[h].current \in Nat
      /\ ring \in [Holders -> [keyed : BOOLEAN, current : Nat, keys : KeyMaps]]
  BY DataProtectionAssumption DEF DInv, RInv, RingStands
<1>2. ASSUME NEW h \in Holders, RotateKey(h) PROVE RotationsStand'
  <2>1. cut_keys' = cut_keys + 1 /\ cut_keys < MaxRotations
    BY <1>2 DEF RotateKey
  <2>2. \A g \in Holders : ring'[g].current = IF g = h THEN ring[g].current + 1 ELSE ring[g].current
    BY <1>1, <1>2 DEF RotateKey
  <2> QED
    BY <1>1, <2>1, <2>2 DEF RotationsStand
<1>3. ASSUME NEW h \in Holders, RestartHolder(h) PROVE RotationsStand'
  <2>1. cut_keys' = cut_keys
    BY <1>3 DEF RestartHolder
  <2>2. \A g \in Holders : ring'[g].current = IF g = h THEN 0 ELSE ring[g].current
    BY <1>1, <1>3 DEF RestartHolder, FreshRing
  <2> QED
    BY <1>1, <2>1, <2>2 DEF RotationsStand
<1>4. ASSUME cut_keys' = cut_keys, ring' = ring PROVE RotationsStand'
  BY <1>4 DEF RotationsStand
<1>5. ASSUME NEW h \in Holders, NEW field \in Fields, EncryptField(h, field) PROVE RotationsStand'
  BY <1>4, <1>5 DEF EncryptField
<1>6. CASE DLPNext
  BY <1>4, <1>6 DEF DLPNext, AddRule, RemoveRule, Inspect, ResolveIncident, ring_vars
<1>7. CASE ClassifyItem
  BY <1>4, <1>7 DEF ClassifyItem, ring_vars
<1>8. CASE FilterNext
  BY <1>4, <1>8 DEF FilterNext, CheckQuery, CheckHeaders, CheckBody, BodyFails, ring_vars
<1>9. CASE UNCHANGED data_vars
  BY <1>4, <1>9 DEF data_vars, ring_vars
<1> QED
  BY <1>2, <1>3, <1>5, <1>6, <1>7, <1>8, <1>9 DEF DataNext, RingNext

LEMMA LimiterTyped == QInv => LimiterTypeOK
<1> SUFFICES ASSUME QInv, NEW b \in Buckets, bucket[b] # None
             PROVE  bucket[b].tokens \in 0..bucket[b].burst /\ bucket[b].refilled \in 0..tick
  BY DEF QInv, LimiterData, LimiterTypeOK
<1>1. bucket[b] \in BucketData /\ bucket[b].tokens <= bucket[b].burst /\ bucket[b].refilled <= tick
  BY DEF QInv, LimiterData, BucketsStand, BucketOK
<1>2. tick \in Nat
  BY RateLimitsAssumption DEF QInv, LimiterData
<1> QED
  BY <1>1, <1>2 DEF BucketData

LEMMA SpendTyped == MInv => SpendTypeOK
<1> SUFFICES ASSUME MInv PROVE SpendTypeOK
  OBVIOUS
<1>1. Today \in Nat /\ ThisMonth \in Nat
  BY SpentIsTrue DEF MInv
<1>2. resets.day \in 0..Today \cup {None} /\ resets.month \in 0..ThisMonth \cup {None}
  <2>1. resets.day \in Nat \cup {None} /\ resets.month \in Nat \cup {None}
    BY DEF MInv, SpendData
  <2>2. CASE resets.day = None
    BY <2>2 DEF MInv, CountersStand
  <2>3. CASE resets.day # None
    <3>1. resets.month # None /\ resets.day <= Today /\ resets.month <= ThisMonth
      BY <2>3 DEF MInv, CountersStand
    <3> QED
      BY <1>1, <2>1, <2>3, <3>1
  <2> QED
    BY <2>2, <2>3
<1> QED
  BY <1>2 DEF MInv, SpendData, SpenderTypes, SpendTypeOK

LEMMA OpaTyped == OInv /\ OpaStands => OpaTypeOK
<1> SUFFICES ASSUME OInv, OpaStands PROVE OpaTypeOK
  OBVIOUS
<1>1. circuit \in [open : BOOLEAN, failures : Nat, since : 0..LastInstant]
  BY DEF OInv, OpaData, OpaStands, CircuitRecord
<1>2. ASSUME NEW e \in Evaluations PROVE evaluation[e].state = "done" <=> evaluation[e].allowed \in BOOLEAN
  <2>1. evaluation[e].allowed \in BOOLEAN \cup {None}
    BY DEF OInv, OpaData, EvaluationRecord
  <2>2. evaluation[e].state = "done" <=> evaluation[e].allowed # None
    BY DEF OpaStands
  <2> QED
    BY <2>1, <2>2, AllowedAssumption
<1> QED
  BY <1>1, <1>2 DEF OpaStands, OpaTypeOK

LEMMA InjectionTyped == JInv /\ Judged => InjectionTypeOK
<1> SUFFICES ASSUME JInv, Judged PROVE InjectionTypeOK
  OBVIOUS
<1>1. Len(CategoryTable) = 6
  BY DEF CategoryTable
<1>2. scan.next \in 1..7 /\ scan.weight \in 0..100 /\ check.step \in {"prepare", "judge", "done"}
  BY DEF JInv, ScanStands, CheckRecord
<1> QED
  BY <1>1, <1>2 DEF Judged, InjectionTypeOK

LEMMA DataTyped == DInv /\ RulesStand /\ RotationsStand => DataTypeOK
<1> SUFFICES ASSUME DInv, RulesStand, RotationsStand PROVE DataTypeOK
  OBVIOUS
<1>1. \A h \in Holders : ring[h].current \in 0..MaxRotations
  <2>1. \A h \in Holders : ring[h].current \in Nat /\ ring[h].current <= cut_keys /\ cut_keys <= MaxRotations
    BY DEF DInv, RInv, RingStands, RotationsStand
  <2>2. cut_keys \in Nat /\ MaxRotations \in Nat
    BY DataProtectionAssumption DEF DInv, RInv
  <2> QED
    BY <2>1, <2>2
<1>2. \A e \in encrypted : e.field \in Fields /\ e.by \in Holders \cup {None}
  BY DEF DInv, RInv, StoredStands, StoredRecord
<1> QED
  BY <1>1, <1>2 DEF DInv, FilterStands, RulesStand, DataTypeOK

LEMMA ToolTyped == LInv /\ PoliciesStand => ToolTypeOK
<1> SUFFICES ASSUME LInv, PoliciesStand PROVE ToolTypeOK
  OBVIOUS
<1>1. answer.done \in 0..Len(answer.calls)
  BY DEF LInv, ListsStand, PoliciesStand
<1> QED
  BY <1>1 DEF LInv, ListsStand, PoliciesStand, ToolTypeOK

LEMMA SessionsTyped == SInv => SessionsTypeOK
  BY DEF SInv, SessionData, Fits, SessionsTypeOK

LEMMA KeysTyped == KInv => KeysTypeOK
  BY DEF KInv, KeyData, KeyRow, KeyCallRecord, KeysTypeOK

LEMMA VaultTyped == VInv => VaultTypeOK
<1> SUFFICES ASSUME VInv PROVE VaultTypeOK
  OBVIOUS
<1>1. \A p \in Paths : vault[p] \in 0..LastChange
  BY DEF VInv
<1> QED
  BY <1>1 DEF VInv, VaultTypeOK

LEMMA UsersTyped == UInv => UsersTypeOK
<1> SUFFICES ASSUME UInv PROVE UsersTypeOK
  OBVIOUS
<1>1. \A e \in Emails : account[e] # None => account[e].role \in Roles /\ account[e].active \in BOOLEAN
  BY DEF UInv, UserData, UserRow
<1>2. \A a \in Authentications : authentication[a].user # None => authentication[a].user.email \in Emails
  BY DEF UInv, UserData, LoginRecord
<1> QED
  BY <1>1, <1>2 DEF UInv, UserData, UsersTypeOK

LEMMA OpaTypes == OpaSpec => []OpaTypeOK
<1>1. OInv /\ OpaStands /\ [OpaNext]_opa_vars => OpaStands'
  BY OpaNextStands
<1> QED
  BY <1>1, OpaInvariance, OpaInitStands, OpaTyped, PTL DEF OpaSpec

LEMMA InjectionTypes == InjectionSpec => []InjectionTypeOK
<1>1. InjectionInit => Judged
  BY DEF InjectionInit, Judged
<1>2. JInv /\ Judged /\ [InjectionNext]_injection_vars => Judged'
  BY InjectionNextJudged
<1> QED
  BY <1>1, <1>2, InjectionInvariance, InjectionTyped, PTL DEF InjectionSpec

LEMMA ToolTypes == ToolSpec => []ToolTypeOK
<1>1. LInv /\ PoliciesStand /\ [ToolNext]_tool_vars => PoliciesStand'
  BY ToolNextStands
<1> QED
  BY <1>1, ToolInvariance, ToolInitStands, ToolTyped, PTL DEF ToolSpec

LEMMA DataTypes == DataSpec => []DataTypeOK
<1>1. DInv /\ RotationsStand /\ [DataNext]_data_vars => RotationsStand'
  BY DataNextStands
<1>2. DInv /\ RulesStand /\ RotationsStand => DataTypeOK
  BY DataTyped
<1> QED
  BY <1>1, <1>2, DataInvariance, DataInitStands, PTL DEF DataSpec

(***************************************************************************)
(* The variables of the libraries keep their types, for any number of      *)
(* callers, any constants and whatever fails.                              *)
(***************************************************************************)
THEOREM Typing == MCSpec => []SecurityTypeOK
<1>1. SessionsTypeOK /\ LimiterTypeOK /\ SpendTypeOK /\ OpaTypeOK /\ InjectionTypeOK /\ ToolTypeOK
        /\ KeysTypeOK /\ VaultTypeOK /\ UsersTypeOK /\ DataTypeOK => SecurityTypeOK
  BY DEF SecurityTypeOK
<1> QED
  BY <1>1, LibrariesSideBySide, SessionsInvariance, SessionsTyped, LimiterInvariance, LimiterTyped,
     SpendInvariance, SpendTyped, OpaTypes, InjectionTypes, ToolTypes, KeysInvariance, KeysTyped,
     VaultInvariance, VaultTyped, UsersInvariance, UsersTyped, DataTypes, PTL
================================================================================
