--------------------------- MODULE AdministrationProofs ---------------------------
(***************************************************************************)
(* Proofs about ProcessState, RowEdits, AdminRecords and DashboardApp, for *)
(* any number of processes, clients, names, tokens, requests, callers and  *)
(* drawings and any limits, for their composition in MCAdministration.     *)
(*                                                                         *)
(* Of a process's state: failed logins are bounded with the waiting ones,  *)
(* a refresh token's uses by the processes that have it in their blacklist *)
(* (UsesAreBlacklisted).  That a revoked canary token is forgotten needs   *)
(* to know who reads while it is revoked (RevokedIsFinal, ReadBeforehand,  *)
(* BusyTogether); that an open connection is in its variable, who makes    *)
(* one meanwhile (OpenIsHeld).                                             *)
(*                                                                         *)
(* Of the records: what a handler still has to do is the end of what it    *)
(* does (Handled), so what came before is done; and requests that run at   *)
(* the same time are known to (RunningTogether, NotedTogether), so what a  *)
(* look found can only have been changed by one of them (Looked,           *)
(* ReadIsThere).                                                           *)
(***************************************************************************)
EXTENDS MCAdministration, FiniteSetTheorems, SequenceTheorems, WellFoundedInduction, TLAPS

-----------------------------------------------------------------------------
(* Induction, from the library's theorem on well-founded relations. *)
LEMMA LeastNatural ==
  ASSUME NEW S \in SUBSET Nat, S # {}
  PROVE  \E m \in S : \A k \in S : m <= k
<1> DEFINE R == OpToRel(<, Nat)
<1>1. IsWellFoundedOn(R, Nat)
  BY NatLessThanWellFounded
<1>2. \A x, y \in Nat : <<y, x>> \in R <=> y < x
  BY DEF OpToRel
<1> HIDE DEF R
<1>3. PICK x \in S : \A y \in S : ~(<<y, x>> \in R)
  BY <1>1, WFMin
<1>4. x \in Nat /\ \A y \in S : y \in Nat
  OBVIOUS
<1>5. \A y \in S : ~(y < x)
  BY <1>2, <1>3, <1>4
<1>6. \A y \in S : x <= y
  BY <1>4, <1>5
<1> QED
  BY <1>6

LEMMA SetInduction ==
  ASSUME NEW T, 0 \in T, \A n \in Nat : n \in T => n + 1 \in T
  PROVE  Nat \subseteq T
<1> SUFFICES ASSUME Nat \ T # {} PROVE FALSE
  OBVIOUS
<1>1. PICK m \in Nat \ T : \A k \in Nat \ T : m <= k
  BY LeastNatural
<1>2. m # 0 /\ m - 1 \in Nat /\ ~(m <= m - 1)
  BY <1>1
<1>3. m - 1 \in T
  BY <1>1, <1>2
<1> QED
  BY <1>1, <1>2, <1>3

-----------------------------------------------------------------------------
(* What Younger computes, a time after the other. *)
IsKept(g, times, t) ==
  g = [i \in 0..Len(times) |->
         IF i = 0 THEN <<>>
         ELSE IF times[i] + FAILURE_WINDOW > t THEN Append(g[i - 1], times[i]) ELSE g[i - 1]]

LEMMA KeptExists ==
  ASSUME NEW times \in Seq(Nat), NEW t \in Nat
  PROVE  \E g : IsKept(g, times, t)
<1> DEFINE F(g, i) == IF i = 0 THEN <<>>
                      ELSE IF times[i] + FAILURE_WINDOW > t THEN Append(g[i - 1], times[i]) ELSE g[i - 1]
           T == {n \in Nat : \E g : g = [i \in 0..n |-> F(g, i)]}
<1>1. 0 \in T
  <2> DEFINE g == [i \in 0..0 |-> <<>>]
  <2>1. g = [i \in 0..0 |-> F(g, i)]
    OBVIOUS
  <2> QED
    BY <2>1
<1>2. ASSUME NEW n \in Nat, n \in T PROVE n + 1 \in T
  <2>1. PICK g : g = [i \in 0..n |-> F(g, i)]
    BY <1>2
  <2> DEFINE h == [i \in 0..(n + 1) |-> IF i = n + 1
                     THEN IF times[i] + FAILURE_WINDOW > t THEN Append(g[i - 1], times[i]) ELSE g[i - 1]
                     ELSE g[i]]
  <2>2. ASSUME NEW i \in 0..(n + 1) PROVE h[i] = F(h, i)
    <3>1. CASE i = n + 1
      <4>1. i # 0 /\ i - 1 \in 0..(n + 1) /\ i - 1 # n + 1
        BY <3>1
      <4>2. h[i - 1] = g[i - 1]
        BY <4>1
      <4> QED
        BY <3>1, <4>1, <4>2
    <3>2. CASE i \in 0..n /\ i = 0
      <4>1. h[i] = g[i] /\ g[i] = <<>>
        BY <2>1, <3>2
      <4> QED
        BY <3>2, <4>1
    <3>3. CASE i \in 0..n /\ i # 0
      <4>1. i # n + 1 /\ i - 1 \in 0..(n + 1) /\ i - 1 # n + 1
        BY <3>3
      <4>2. h[i] = g[i] /\ h[i - 1] = g[i - 1]
        BY <4>1
      <4>3. g[i] = F(g, i)
        BY <2>1, <3>3
      <4> QED
        BY <3>3, <4>2, <4>3
    <3> QED
      BY <3>1, <3>2, <3>3
  <2> HIDE DEF F
  <2>3. h = [i \in 0..(n + 1) |-> F(h, i)]
    BY <2>2
  <2> HIDE DEF h
  <2> QED
    BY <2>3
<1> HIDE DEF T, F
<1>3. Len(times) \in T
  BY <1>1, <1>2, SetInduction
<1> USE DEF T, F
<1> QED
  BY <1>3 DEF IsKept

LEMMA KeptYounger ==
  ASSUME NEW times \in Seq(Nat), NEW t \in Nat
  PROVE  \E g : IsKept(g, times, t) /\ Younger(times, t) = g[Len(times)]
<1>1. Younger(times, t) = (CHOOSE g : IsKept(g, times, t))[Len(times)]
  BY DEF Younger, IsKept
<1>2. IsKept(CHOOSE g : IsKept(g, times, t), times, t)
  BY KeptExists
<1> QED
  BY <1>1, <1>2

(* The same, an element at a time. *)
LEMMA KeptAt ==
  ASSUME NEW times \in Seq(Nat), NEW t \in Nat, NEW g, IsKept(g, times, t)
  PROVE  /\ g[0] = <<>>
         /\ \A n \in Nat : n + 1 <= Len(times) =>
              g[n + 1] = IF times[n + 1] + FAILURE_WINDOW > t THEN Append(g[n], times[n + 1]) ELSE g[n]
<1> DEFINE F(i) == IF i = 0 THEN <<>>
                   ELSE IF times[i] + FAILURE_WINDOW > t THEN Append(g[i - 1], times[i]) ELSE g[i - 1]
<1>1. g = [i \in 0..Len(times) |-> F(i)]
  BY DEF IsKept
<1> HIDE DEF F
<1>2. \A i \in 0..Len(times) : g[i] = F(i)
  BY <1>1
<1>3. Len(times) \in Nat
  OBVIOUS
<1>4. 0 \in 0..Len(times) /\ \A n \in Nat : n + 1 <= Len(times) => n + 1 \in 0..Len(times)
  BY <1>3
<1>5. g[0] = F(0) /\ F(0) = <<>>
  BY <1>2, <1>4 DEF F
<1>6. ASSUME NEW n \in Nat, n + 1 <= Len(times)
      PROVE  g[n + 1] = IF times[n + 1] + FAILURE_WINDOW > t THEN Append(g[n], times[n + 1]) ELSE g[n]
  <2>1. g[n + 1] = F(n + 1)
    BY <1>2, <1>4, <1>6
  <2>2. n + 1 # 0 /\ n + 1 - 1 = n
    OBVIOUS
  <2> QED
    BY <2>1, <2>2 DEF F
<1> QED
  BY <1>5, <1>6

LEMMA NestedUpdate ==
  ASSUME NEW A, NEW B, NEW V, NEW f \in [A -> [B -> V]], NEW p \in A, NEW n \in B, NEW x \in V
  PROVE  LET g == [f EXCEPT ![p][n] = x] IN
         g \in [A -> [B -> V]] /\ \A q \in A, m \in B : g[q][m] = IF q = p /\ m = n THEN x ELSE f[q][m]
OBVIOUS

LEMMA BeforeOrLast ==
  ASSUME NEW n \in Nat, NEW j \in 1..(n + 1)
  PROVE  j \in 1..n \/ j = n + 1
OBVIOUS

\* Appending keeps the elements and adds the new one.
LEMMA AppendOfNat ==
  ASSUME NEW kept \in Seq(Nat), NEW x \in Nat
  PROVE  /\ Append(kept, x) \in Seq(Nat)
         /\ Len(Append(kept, x)) = Len(kept) + 1 /\ Append(kept, x)[Len(kept) + 1] = x
         /\ \A j \in 1..Len(kept) : Append(kept, x)[j] = kept[j]
         /\ \A j \in DOMAIN Append(kept, x) :
              \/ Append(kept, x)[j] = x
              \/ j \in DOMAIN kept /\ Append(kept, x)[j] = kept[j]
<1>1. /\ Append(kept, x) \in Seq(Nat)
      /\ Len(Append(kept, x)) = Len(kept) + 1
      /\ \A i \in 1..Len(kept) : Append(kept, x)[i] = kept[i]
      /\ Append(kept, x)[Len(kept) + 1] = x
  BY AppendProperties
<1>2. DOMAIN kept = 1..Len(kept) /\ Len(kept) \in Nat /\ DOMAIN Append(kept, x) = 1..(Len(kept) + 1)
  BY <1>1
<1>3. ASSUME NEW j \in 1..(Len(kept) + 1)
      PROVE  j = Len(kept) + 1 \/ j \in 1..Len(kept)
  BY <1>2, BeforeOrLast
<1> QED
  BY <1>1, <1>2, <1>3

LEMMA YoungerTyped ==
  ASSUME NEW times \in Seq(Nat), NEW t \in Nat
  PROVE  /\ Younger(times, t) \in Seq(Nat)
         /\ \A j \in DOMAIN Younger(times, t) : Younger(times, t)[j] + FAILURE_WINDOW > t
<1>1. PICK g : IsKept(g, times, t) /\ Younger(times, t) = g[Len(times)]
  BY KeptYounger
<1> DEFINE T == {n \in Nat : n <= Len(times) =>
                   g[n] \in Seq(Nat) /\ \A j \in DOMAIN g[n] : g[n][j] + FAILURE_WINDOW > t}
<1>2. 0 \in T
  <2>1. g[0] = <<>>
    BY <1>1, KeptAt
  <2>2. <<>> \in Seq(Nat) /\ Len(<<>>) = 0 /\ DOMAIN <<>> = {}
    OBVIOUS
  <2> QED
    BY <2>1, <2>2
<1>3. ASSUME NEW n \in Nat, n \in T PROVE n + 1 \in T
  <2> SUFFICES ASSUME n + 1 <= Len(times)
               PROVE  g[n + 1] \in Seq(Nat) /\ \A j \in DOMAIN g[n + 1] : g[n + 1][j] + FAILURE_WINDOW > t
    OBVIOUS
  <2>1. n + 1 \in 0..Len(times) /\ n + 1 # 0 /\ n + 1 - 1 = n /\ n + 1 \in DOMAIN times
    OBVIOUS
  <2>2. g[n + 1] = IF times[n + 1] + FAILURE_WINDOW > t THEN Append(g[n], times[n + 1]) ELSE g[n]
    BY <1>1, KeptAt
  <2>3. g[n] \in Seq(Nat) /\ \A j \in DOMAIN g[n] : g[n][j] + FAILURE_WINDOW > t
    BY <1>3
  <2>4. times[n + 1] \in Nat
    BY <2>1
  <2>5. CASE times[n + 1] + FAILURE_WINDOW > t
    <3>1. g[n + 1] = Append(g[n], times[n + 1])
      BY <2>2, <2>5
    <3> HIDE DEF T
    <3>2. /\ Append(g[n], times[n + 1]) \in Seq(Nat)
          /\ \A j \in DOMAIN Append(g[n], times[n + 1]) :
               \/ Append(g[n], times[n + 1])[j] = times[n + 1]
               \/ j \in DOMAIN g[n] /\ Append(g[n], times[n + 1])[j] = g[n][j]
      BY <2>3, <2>4, AppendOfNat
    <3> QED
      BY <2>3, <2>5, <3>1, <3>2
  <2>6. CASE ~ (times[n + 1] + FAILURE_WINDOW > t)
    BY <2>2, <2>3, <2>6
  <2> QED
    BY <2>5, <2>6
<1> HIDE DEF T
<1>4. Len(times) \in T
  BY <1>2, <1>3, SetInduction
<1> USE DEF T
<1> QED
  BY <1>1, <1>4

LEMMA YoungerAll ==
  ASSUME NEW times \in Seq(Nat), NEW t \in Nat, \A j \in DOMAIN times : times[j] + FAILURE_WINDOW > t
  PROVE  Younger(times, t) = times
<1>1. PICK g : IsKept(g, times, t) /\ Younger(times, t) = g[Len(times)]
  BY KeptYounger
<1> DEFINE T == {n \in Nat : n <= Len(times) =>
                   g[n] \in Seq(Nat) /\ Len(g[n]) = n /\ \A j \in 1..n : g[n][j] = times[j]}
<1>2. 0 \in T
  <2>1. g[0] = <<>>
    BY <1>1, KeptAt
  <2>2. <<>> \in Seq(Nat) /\ Len(<<>>) = 0 /\ DOMAIN <<>> = {}
    OBVIOUS
  <2>3. g[0] \in Seq(Nat) /\ Len(g[0]) = 0
    BY <2>1, <2>2
  <2>4. 1..0 = {}
    OBVIOUS
  <2> QED
    BY <2>3, <2>4
<1>3. ASSUME NEW n \in Nat, n \in T PROVE n + 1 \in T
  <2> SUFFICES ASSUME n + 1 <= Len(times)
               PROVE  g[n + 1] \in Seq(Nat) /\ Len(g[n + 1]) = n + 1 /\ \A j \in 1..(n + 1) : g[n + 1][j] = times[j]
    OBVIOUS
  <2>1. n + 1 \in 0..Len(times) /\ n + 1 # 0 /\ n + 1 - 1 = n /\ n + 1 \in DOMAIN times
    OBVIOUS
  <2>2. times[n + 1] + FAILURE_WINDOW > t /\ times[n + 1] \in Nat
    BY <2>1
  <2>3. g[n + 1] = Append(g[n], times[n + 1])
    <3>1. g[n + 1] = IF times[n + 1] + FAILURE_WINDOW > t THEN Append(g[n], times[n + 1]) ELSE g[n]
      BY <1>1, KeptAt
    <3> QED
      BY <2>2, <3>1
  <2>4. g[n] \in Seq(Nat) /\ Len(g[n]) = n /\ \A j \in 1..n : g[n][j] = times[j]
    BY <1>3
  <2>5. times[n + 1] \in Nat
    BY <2>1
  <2>6. /\ g[n + 1] \in Seq(Nat) /\ Len(g[n + 1]) = n + 1
        /\ \A j \in 1..n : g[n + 1][j] = g[n][j]
        /\ g[n + 1][n + 1] = times[n + 1]
    <3> DEFINE kept == g[n]
               added == times[n + 1]
    <3>1. kept \in Seq(Nat) /\ Len(kept) = n /\ added \in Nat /\ g[n + 1] = Append(kept, added)
      BY <2>3, <2>4, <2>5
    <3> HIDE DEF kept, added
    <3>2. /\ Append(kept, added) \in Seq(Nat) /\ Len(Append(kept, added)) = Len(kept) + 1
          /\ Append(kept, added)[Len(kept) + 1] = added
          /\ \A j \in 1..Len(kept) : Append(kept, added)[j] = kept[j]
      BY <3>1, AppendOfNat
    <3> QED
      BY <3>1, <3>2 DEF kept, added
  <2> QED
    BY <2>4, <2>6, BeforeOrLast
<1> HIDE DEF T
<1>4. Len(times) \in T
  BY <1>2, <1>3, SetInduction
<1>5. /\ g[Len(times)] \in Seq(Nat) /\ Len(g[Len(times)]) = Len(times)
      /\ \A j \in 1..Len(times) : g[Len(times)][j] = times[j]
  BY <1>4 DEF T
<1> QED
  BY <1>1, <1>5, SeqEqual

LEMMA YoungerLess ==
  ASSUME NEW times \in Seq(Nat), NEW t \in Nat, NEW u \in Nat, t <= u, FAILURE_WINDOW \in Nat
  PROVE  Len(Younger(times, u)) <= Len(Younger(times, t))
<1>1. PICK g : IsKept(g, times, t) /\ Younger(times, t) = g[Len(times)]
  BY KeptYounger
<1>2. PICK h : IsKept(h, times, u) /\ Younger(times, u) = h[Len(times)]
  BY KeptYounger
<1> DEFINE T == {n \in Nat : n <= Len(times) =>
                   g[n] \in Seq(Nat) /\ h[n] \in Seq(Nat) /\ Len(h[n]) <= Len(g[n])}
<1>3. 0 \in T
  <2>1. g[0] = <<>> /\ h[0] = <<>>
    BY <1>1, <1>2, KeptAt
  <2>2. <<>> \in Seq(Nat) /\ Len(<<>>) = 0 /\ DOMAIN <<>> = {}
    OBVIOUS
  <2>3. g[0] \in Seq(Nat) /\ h[0] \in Seq(Nat) /\ Len(h[0]) = 0 /\ Len(g[0]) = 0
    BY <2>1, <2>2
  <2> QED
    BY <2>3
<1>4. ASSUME NEW n \in Nat, n \in T PROVE n + 1 \in T
  <2> SUFFICES ASSUME n + 1 <= Len(times)
               PROVE  g[n + 1] \in Seq(Nat) /\ h[n + 1] \in Seq(Nat) /\ Len(h[n + 1]) <= Len(g[n + 1])
    OBVIOUS
  <2>1. n + 1 \in 0..Len(times) /\ n + 1 # 0 /\ n + 1 - 1 = n /\ n + 1 \in DOMAIN times
    OBVIOUS
  <2>2. /\ g[n + 1] = IF times[n + 1] + FAILURE_WINDOW > t THEN Append(g[n], times[n + 1]) ELSE g[n]
        /\ h[n + 1] = IF times[n + 1] + FAILURE_WINDOW > u THEN Append(h[n], times[n + 1]) ELSE h[n]
    BY <1>1, <1>2, KeptAt
  <2>3. g[n] \in Seq(Nat) /\ h[n] \in Seq(Nat) /\ Len(h[n]) <= Len(g[n])
    BY <1>4
  <2>4. times[n + 1] \in Nat
    BY <2>1
  <2>5. times[n + 1] + FAILURE_WINDOW > u => times[n + 1] + FAILURE_WINDOW > t
    BY <2>4
  <2>6. /\ Append(g[n], times[n + 1]) \in Seq(Nat) /\ Len(Append(g[n], times[n + 1])) = Len(g[n]) + 1
        /\ Append(h[n], times[n + 1]) \in Seq(Nat) /\ Len(Append(h[n], times[n + 1])) = Len(h[n]) + 1
    <3>1. \A kept \in Seq(Nat), x \in Nat :
            Append(kept, x) \in Seq(Nat) /\ Len(Append(kept, x)) = Len(kept) + 1
      BY AppendOfNat
    <3> QED
      BY <2>3, <2>4, <3>1, Zenon
  <2>7. Len(g[n]) \in Nat /\ Len(h[n]) \in Nat
    BY <2>3
  <2>8. /\ g[n + 1] \in {g[n], Append(g[n], times[n + 1])} /\ h[n + 1] \in {h[n], Append(h[n], times[n + 1])}
        /\ h[n + 1] = h[n] \/ g[n + 1] = Append(g[n], times[n + 1])
    BY <2>2, <2>5, Zenon
  <2> DEFINE old == g[n]
             new == Append(g[n], times[n + 1])
             less == h[n]
             more == Append(h[n], times[n + 1])
  <2> HIDE DEF T, old, new, less, more
  <2>9. /\ g[n + 1] \in {old, new} /\ h[n + 1] \in {less, more} /\ (h[n + 1] = less \/ g[n + 1] = new)
        /\ old \in Seq(Nat) /\ new \in Seq(Nat) /\ less \in Seq(Nat) /\ more \in Seq(Nat)
        /\ Len(new) = Len(old) + 1 /\ Len(more) = Len(less) + 1
        /\ Len(old) \in Nat /\ Len(less) \in Nat /\ Len(less) <= Len(old)
    BY <2>3, <2>6, <2>7, <2>8, Zenon DEF old, new, less, more
  <2> QED
    BY <2>9
<1> HIDE DEF T
<1>5. Len(times) \in T
  BY <1>3, <1>4, SetInduction
<1> USE DEF T
<1> QED
  BY <1>1, <1>2, <1>5

-----------------------------------------------------------------------------
(* Logging in: what the variables are, and who has used a refresh token. *)
LoginsTyped ==
  /\ now \in Nat /\ tokens \in Nat /\ restarts \in Nat
  /\ failures \in [Processes -> [Names -> Seq(Nat)]]
  /\ blacklist \in [Processes -> SUBSET Nat]
  /\ granted \in [1..MaxRefresh -> Nat]
  /\ login = [c \in Clients |-> login[c]]
  /\ \A c \in Clients : login[c].status = "loading" =>
       login[c].process \in Processes /\ login[c].name \in Names

Having(r) == {p \in Processes : r \in blacklist[p]}

UsesAreBlacklisted ==
  \A r \in 1..MaxRefresh : granted[r] <= Cardinality(Having(r)) + restarts

LoginsInv == LoginsTyped /\ GuessingIsHeldOff /\ UsesAreBlacklisted

(* Canary tokens: what a request is, at any time. *)
TaskRecords ==
  {r \in [kind : {"check", "revoke", None}, worker : Workers \cup {None},
          token : Planted \cup {None}, known : BOOLEAN, read : SUBSET Planted,
          step : {"idle", "load", "fill", "look up", "answer", "update", "clear", "done"},
          outcome : {"none", "none, empty", "triggered", "revoked", "error", None}] :
     /\ IF r.step = "idle" THEN r.kind = None ELSE r.worker \in Workers /\ r.token \in Planted
     /\ r.step \in {"load", "fill", "look up", "answer"} => r.kind = "check"
     /\ r.step \in {"update", "clear"} \/ r.outcome = "revoked" => r.kind = "revoke"
     /\ r.outcome # None => r.step = "done"}

CanaryTyped ==
  /\ status \in [Planted -> {"active", "revoked", None}]
  /\ cache \in [Workers -> SUBSET Planted]
  /\ task \in [Tasks -> TaskRecords]

Revokes(k) == task[k].kind = "revoke" /\ (task[k].step = "clear" \/ task[k].outcome = "revoked")
Brings(c) == task[c].step \in {"fill", "answer"}

BusyTogether ==
  \A c, k \in Tasks : c # k /\ Busy(c) /\ Busy(k) => {c, k} \in meanwhile

RevokedIsFinal ==
  \A k \in Tasks : Revokes(k) => status[task[k].token] = "revoked"

ReadBeforehand ==
  \A c, k \in Tasks : Brings(c) /\ Revokes(k) /\ task[k].token \in task[c].read => {c, k} \in meanwhile

KnownIsPlanted ==
  \A k \in Tasks :
    /\ task[k].known => task[k].step # "idle" /\ status[task[k].token] \in {"active", "revoked"}
    /\ task[k].known /\ task[k].step = "answer" /\ task[k].read = {} => status[task[k].token] = "revoked"

CanaryInv ==
  /\ CanaryTyped /\ BusyTogether /\ RevokedIsFinal /\ ReadBeforehand /\ RevokedIsForgotten
  /\ KnownIsPlanted /\ MissedOnlyByAnEmptyCache

(* Connections. *)
Held == {variable[k] : k \in Kinds} \ {None}

CallerRecords ==
  [kind : Kinds \cup {None}, step : {"idle", "making", "waits", "done"}, attempts : Nat,
   makes : Nat \cup {None}, result : Nat \cup {None}]

ConnectionsTyped ==
  /\ made \in 0..Resources
  /\ variable \in [Kinds -> 1..made \cup {None}]
  /\ closing \in [Kinds -> 1..made \cup {None}]
  /\ caller \in [Callers -> CallerRecords]

OpenIsHeld ==
  together = {} =>
    /\ open = Held
    /\ variable["pool"] # None => variable["pool"] # variable["redis"]
    /\ \A k \in Kinds : closing[k] # None => closing[k] = variable[k]
    /\ \A c \in Callers : Making(c) => variable["pool"] = None
    /\ \A c, d \in Callers : Making(c) /\ Making(d) => c = d

ConnectionsInv == ConnectionsTyped /\ OpenIsHeld

-----------------------------------------------------------------------------
(* Row edits.  Of two requests under way at once the pair is noted, and    *)
(* what a request on its own has read is what is there when it writes.     *)
Row(tbl) == [FieldsOf(tbl) -> Edits \cup {0}]
AnyRow == Row("admin") \cup Row("budget") \cup {None}

EditRecords ==
  [kind : EditKinds \cup {None}, asked : SUBSET (FieldsOf("admin") \cup FieldsOf("budget")),
   seen : AnyRow, blind : BOOLEAN, status : {"ok", "refused", "error", None}]

RowsTyped ==
  /\ rows \in [{"admin", "budget"} -> AnyRow]
  /\ \A tbl \in {"admin", "budget"} : rows[tbl] \in Row(tbl) \cup {None}
  /\ edit \in [Edits -> EditRecords]
  /\ editing \in [Edits -> {"idle", "read", "write", "done"}]
  /\ wrote \in Seq([by : Edits, row : AnyRow, before : AnyRow])
  /\ \A e \in Edits :
       /\ editing[e] # "idle" => edit[e].kind \in EditKinds
       /\ editing[e] # "idle" /\ edit[e].kind \in {"setup", "create_budget"} =>
            edit[e].asked = FieldsOf(TableOf(edit[e].kind))
       /\ editing[e] = "write" /\ edit[e].kind \in {"settings", "update_budget"} =>
            edit[e].seen \in Row(TableOf(edit[e].kind))

NotedTogether ==
  \A e, o \in Edits : e # o /\ UnderWay(e) /\ UnderWay(o) => {e, o} \in overlap

WritersAreDone ==
  \A i \in DOMAIN wrote : editing[wrote[i].by] = "done"

ReadIsThere ==
  \A e \in Edits :
    editing[e] = "write" /\ ~Overlapped(e) =>
      /\ edit[e].kind \in {"settings", "update_budget"} => edit[e].seen = RowOf(e)
      /\ edit[e].kind = "setup" => RowOf(e) = None \/ edit[e].blind

RowsInv ==
  /\ RowsTyped /\ NotedTogether /\ WritersAreDone /\ ReadIsThere /\ KeptUnlessOverlapped /\ SetupIsOnce

(* Records.  Of two requests at once the pair is noted, and a provider     *)
(* that was looked up in vain has got a configuration only from a request  *)
(* beside; and what the statements still to come of each handler say of    *)
(* those already run.                                                      *)
Ids == Requests \cup Shipped

Statement == Writes \cup {"find_user", "find_config", "get_config", "update_config", "unregister",
                          "read_configs", "read_approvals", "approve", "identify", "delete_key",
                          "purge_traces", "audit"}

RequestRecords ==
  [kind : DOMAIN Handler \cup {None}, provider : ProviderNames \cup {None},
   id : Ids \cup {None}, todo : Seq(Statement), status : {"ok", "refused", "error", None}]

StoreTyped ==
  /\ store = [tables |-> store.tables, configs |-> store.configs, user |-> store.user,
              keys |-> store.keys, words |-> store.words, webhook |-> store.webhook,
              policies |-> store.policies, thresholds |-> store.thresholds,
              results |-> store.results, overrides |-> store.overrides, feedback |-> store.feedback,
              traces |-> store.traces, usage_logs |-> store.usage_logs]
  /\ store.configs \subseteq [id : Ids, provider : ProviderNames]
  /\ store.tables \subseteq {"configs", "approvals"}

HistoryTyped ==
  /\ history = [changed |-> history.changed, beside |-> history.beside,
                dropped |-> history.dropped, restarts |-> history.restarts]
  /\ registry \subseteq Shipped /\ trail \subseteq Requests /\ history.changed \subseteq Requests

(* What may be left of a handler: its last statements. *)
Left(kind, todo) ==
  todo # <<>> =>
    /\ kind \in DOMAIN Handler /\ Len(todo) <= Len(Handler[kind])
    /\ \A i \in 1..Len(todo) : todo[i] = Handler[kind][Len(Handler[kind]) - Len(todo) + i]

Handled ==
  \A r \in Requests :
    /\ Left(request[r].kind, request[r].todo)
    /\ request[r].kind = None => r \notin history.changed
    /\ request[r].kind = None \/ Running(r) => request[r].status = None
    /\ request[r].kind = "create_provider_config" => request[r].provider \in ProviderNames
    /\ request[r].kind = "update_provider_config" => r \notin history.changed
    /\ request[r].kind = "save_policies" /\ Len(request[r].todo) = 1 => r \in trail
    /\ request[r].kind = "erase_user_data" /\ Len(request[r].todo) = 1 => "before" \notin store.traces

RunningTogether ==
  \A r, o \in Requests : r # o /\ Running(r) /\ Running(o) => {r, o} \in history.beside

Looked ==
  \A r \in Requests : At(r, "insert_config") =>
    \A c \in store.configs : c.provider = request[r].provider => {c.id, r} \in history.beside

RecordsInv ==
  /\ StoreTyped /\ HistoryTyped /\ request \in [Requests -> RequestRecords]
  /\ Handled /\ RunningTogether /\ Looked
  /\ OneConfigPerProvider /\ ProvidersVanishOnlyByDeletion /\ ErasedWhole /\ ChangesAreAudited

(* Clients that wait for the row, of a name at a process. *)
Waiters(p, n) ==
  {c \in Clients : login[c].status = "loading" /\ login[c].process = p /\ login[c].name = n}

LEMMA ParametersTyped ==
  /\ MAX_FAILURES \in Nat \ {0} /\ FAILURE_WINDOW \in Nat \ {0} /\ MaxRefresh \in Nat
  /\ IsFiniteSet(Processes) /\ IsFiniteSet(Clients)
  /\ Cardinality(Processes) \in Nat /\ Cardinality(Clients) \in Nat
BY LoginsAssumption, FS_CardinalityType

LEMMA WaitersCounted ==
  ASSUME NEW p, NEW n
  PROVE  /\ IsFiniteSet(Waiters(p, n)) /\ Waiting(p, n) = Cardinality(Waiters(p, n))
         /\ Waiting(p, n) \in Nat /\ Waiting(p, n) <= Cardinality(Clients)
<1>1. Waiters(p, n) \in SUBSET Clients
  BY DEF Waiters
<1>2. IsFiniteSet(Waiters(p, n)) /\ Cardinality(Waiters(p, n)) <= Cardinality(Clients)
  BY <1>1, FS_Subset, ParametersTyped
<1> QED
  BY <1>2, FS_CardinalityType DEF Waiting, Waiters

(* The same of the next state, and what it takes to have no more waiters. *)
LEMMA WaitersCountedNext ==
  ASSUME NEW p, NEW n
  PROVE  /\ IsFiniteSet(Waiters(p, n)') /\ Waiting(p, n)' = Cardinality(Waiters(p, n)')
         /\ Waiting(p, n)' \in Nat /\ Waiting(p, n)' <= Cardinality(Clients)
         /\ Waiters(p, n)' \subseteq Waiters(p, n) => Waiting(p, n)' <= Waiting(p, n)
<1>1. Waiters(p, n)' \in SUBSET Clients
  BY DEF Waiters
<1>2. IsFiniteSet(Waiters(p, n)') /\ Cardinality(Waiters(p, n)') <= Cardinality(Clients)
  BY <1>1, FS_Subset, ParametersTyped
<1>3. Waiting(p, n)' = Cardinality(Waiters(p, n)')
  BY DEF Waiting, Waiters
<1>4. Waiters(p, n)' \subseteq Waiters(p, n) => Cardinality(Waiters(p, n)') <= Cardinality(Waiters(p, n))
  BY FS_Subset, WaitersCounted
<1> QED
  BY <1>2, <1>3, <1>4, WaitersCounted, FS_CardinalityType

(* Pruning is idempotent, and an entry just made is in the window. *)
LEMMA Pruned ==
  ASSUME NEW times \in Seq(Nat), now \in Nat
  PROVE  /\ InWindow(times) \in Seq(Nat) /\ Len(InWindow(times)) \in Nat
         /\ InWindow(InWindow(times)) = InWindow(times)
         /\ Append(InWindow(times), now) \in Seq(Nat)
         /\ Len(InWindow(Append(InWindow(times), now))) = Len(InWindow(times)) + 1
         /\ InWindow(<<>>) = <<>>
<1> DEFINE young == InWindow(times)
           more == Append(young, now)
<1>1. young \in Seq(Nat) /\ \A j \in DOMAIN young : young[j] + FAILURE_WINDOW > now
  BY YoungerTyped DEF InWindow
<1>2. InWindow(young) = young
  BY <1>1, YoungerAll DEF InWindow
<1>3. now + FAILURE_WINDOW > now
  BY ParametersTyped
<1>4. /\ more \in Seq(Nat) /\ Len(more) = Len(young) + 1 /\ Len(young) \in Nat
      /\ \A j \in DOMAIN more : more[j] + FAILURE_WINDOW > now
  <2> HIDE DEF young
  <2>1. more \in Seq(Nat) /\ Len(more) = Len(young) + 1 /\ Len(young) \in Nat
    BY <1>1
  <2>2. \A j \in DOMAIN more : (j \in DOMAIN young /\ more[j] = young[j]) \/ more[j] = now
    BY <1>1
  <2> QED
    BY <1>1, <1>3, <2>1, <2>2
<1>5. InWindow(more) = more
  BY <1>4, YoungerAll DEF InWindow
<1>6. <<>> \in Seq(Nat) /\ \A j \in DOMAIN <<>> : <<>>[j] + FAILURE_WINDOW > now
  OBVIOUS
<1>7. InWindow(<<>>) = <<>>
  BY <1>6, YoungerAll DEF InWindow
<1> QED
  BY <1>1, <1>2, <1>4, <1>5, <1>7

LEMMA InitLoginsInv == LoginsInit => LoginsInv
<1> SUFFICES ASSUME LoginsInit PROVE LoginsInv
  OBVIOUS
<1>1. now \in Nat /\ \A c \in Clients : login[c].status = "none"
  BY DEF LoginsInit, Answered
<1>2. LoginsTyped
  <2>1. failures \in [Processes -> [Names -> Seq(Nat)]]
    BY DEF LoginsInit
  <2> QED
    BY <1>1, <2>1, ParametersTyped DEF LoginsInit, LoginsTyped
<1>3. GuessingIsHeldOff
  <2> SUFFICES ASSUME NEW p \in Processes, NEW n \in Names
               PROVE  Len(InWindow(failures[p][n])) + Waiting(p, n) <= MAX_FAILURES - 1 + Cardinality(Clients)
    BY DEF GuessingIsHeldOff
  <2>1. failures[p][n] = <<>>
    BY DEF LoginsInit
  <2>2. InWindow(failures[p][n]) = <<>> /\ Len(InWindow(failures[p][n])) = 0
    <3>1. <<>> \in Seq(Nat) /\ Len(<<>>) = 0
      OBVIOUS
    <3>2. InWindow(<<>>) = <<>>
      BY <1>1, <3>1, Pruned
    <3> QED
      BY <2>1, <3>1, <3>2
  <2> QED
    BY <2>2, WaitersCounted, ParametersTyped
<1>4. UsesAreBlacklisted
  <2> SUFFICES ASSUME NEW r \in 1..MaxRefresh PROVE granted[r] <= Cardinality(Having(r)) + restarts
    BY DEF UsesAreBlacklisted
  <2>1. Having(r) = {} /\ granted[r] = 0 /\ restarts = 0
    BY DEF LoginsInit, Having
  <2> QED
    BY <2>1, FS_EmptySet
<1> QED
  BY <1>2, <1>3, <1>4 DEF LoginsInv

(* How the two halves of LoginsInv carry over a step that leaves theirs.   *)
LEMMA UsesUnchanged ==
  ASSUME UsesAreBlacklisted, UNCHANGED <<blacklist, granted, restarts>>
  PROVE  UsesAreBlacklisted'
<1>1. \A r : Having(r)' = Having(r)
  BY DEF Having
<1> QED
  BY <1>1 DEF UsesAreBlacklisted

LEMMA GuessingUnchanged ==
  ASSUME GuessingIsHeldOff, UNCHANGED <<failures, login, now>>
  PROVE  GuessingIsHeldOff'
BY DEF GuessingIsHeldOff, Waiting, InWindow

LEMMA LoginBeginsKeeps ==
  ASSUME LoginsInv, NEW c \in Clients, LoginBegins(c)
  PROVE  LoginsInv'
<1>1. PICK p \in Processes, n \in Names :
        /\ failures' = [failures EXCEPT ![p][n] = InWindow(failures[p][n])]
        /\ login' = [login EXCEPT ![c] =
             IF TooMany(InWindow(failures[p][n])) THEN Answered("429")
             ELSE [name |-> n, process |-> p, status |-> "loading"]]
  BY DEF LoginBegins
<1>2. /\ login[c].status # "loading"
      /\ now' = now /\ UNCHANGED <<tokens, blacklist, granted, restarts>>
  BY DEF LoginBegins
<1>3. LoginsTyped /\ GuessingIsHeldOff /\ UsesAreBlacklisted /\ now \in Nat
  BY DEF LoginsInv, LoginsTyped
<1> DEFINE times == failures[p][n]
           attempts == InWindow(times)
<1>4. times \in Seq(Nat) /\ attempts \in Seq(Nat) /\ Len(attempts) \in Nat /\ InWindow(attempts) = attempts
  <2>1. times \in Seq(Nat)
    BY <1>3 DEF LoginsTyped
  <2> QED
    BY <1>3, <2>1, Pruned
<1>5. \A d \in Clients : login'[d] = IF d = c THEN IF TooMany(attempts) THEN Answered("429")
                                                  ELSE [name |-> n, process |-> p, status |-> "loading"]
                                    ELSE login[d]
  BY <1>1, <1>3 DEF LoginsTyped
<1>6. login' = [d \in Clients |-> login'[d]]
  BY <1>1, <1>3 DEF LoginsTyped
<1>7. \A q \in Processes, m \in Names :
        failures'[q][m] = IF q = p /\ m = n THEN attempts ELSE failures[q][m]
  BY <1>1, <1>3 DEF LoginsTyped
<1> HIDE DEF times, attempts
<1>8. LoginsTyped'
  <2>1. failures' \in [Processes -> [Names -> Seq(Nat)]]
    BY <1>1, <1>3, <1>4 DEF LoginsTyped, attempts, times
  <2>2. ASSUME NEW d \in Clients, login'[d].status = "loading"
        PROVE  login'[d].process \in Processes /\ login'[d].name \in Names
    <3>1. CASE d # c
      BY <1>3, <1>5, <2>2, <3>1 DEF LoginsTyped
    <3>2. CASE d = c /\ TooMany(attempts)
      <4>1. login'[d] = Answered("429")
        BY <1>5, <3>2
      <4> QED
        BY <2>2, <4>1 DEF Answered
    <3>3. CASE d = c /\ ~TooMany(attempts)
      <4>1. login'[d] = [name |-> n, process |-> p, status |-> "loading"]
        BY <1>5, <3>3
      <4> QED
        BY <4>1
    <3> QED
      BY <3>1, <3>2, <3>3
  <2> QED
    BY <1>2, <1>3, <1>6, <2>1, <2>2 DEF LoginsTyped
<1>9. GuessingIsHeldOff'
  <2> SUFFICES ASSUME NEW q \in Processes, NEW m \in Names
               PROVE  Len(Younger(failures'[q][m], now')) + Waiting(q, m)' <= MAX_FAILURES - 1 + Cardinality(Clients)
    BY DEF GuessingIsHeldOff, InWindow
  <2>1. Len(Younger(failures[q][m], now)) + Waiting(q, m) <= MAX_FAILURES - 1 + Cardinality(Clients)
    BY <1>3 DEF GuessingIsHeldOff, InWindow
  <2>2. Len(Younger(failures'[q][m], now')) = Len(Younger(failures[q][m], now))
    <3>1. Younger(attempts, now) = Younger(times, now)
      BY <1>4 DEF InWindow, attempts
    <3> QED
      BY <1>2, <1>7, <3>1 DEF times
  <2>3. Len(Younger(failures[q][m], now)) \in Nat
    <3>1. failures[q][m] \in Seq(Nat)
      BY <1>3 DEF LoginsTyped
    <3> QED
      BY <1>3, <3>1, Pruned DEF InWindow
  <2>4. CASE q = p /\ m = n /\ ~TooMany(attempts)
    <3>1. Len(Younger(failures[q][m], now)) < MAX_FAILURES
      BY <1>4, <2>4, ParametersTyped DEF TooMany, attempts, times, InWindow
    <3> QED
      BY <2>2, <2>3, <3>1, WaitersCountedNext, ParametersTyped
  <2>5. CASE ~(q = p /\ m = n /\ ~TooMany(attempts))
    <3>1. ASSUME NEW d \in Waiters(q, m)' PROVE d \in Waiters(q, m)
      <4>1. d \in Clients /\ login'[d].status = "loading" /\ login'[d].process = q /\ login'[d].name = m
        BY DEF Waiters
      <4>2. d # c
        BY <1>5, <2>5, <4>1 DEF Answered
      <4> QED
        BY <1>5, <4>1, <4>2 DEF Waiters
    <3>2. Waiting(q, m)' <= Waiting(q, m)
      BY <3>1, WaitersCountedNext
    <3> QED
      BY <2>1, <2>2, <2>3, <3>2, WaitersCounted, WaitersCountedNext, ParametersTyped
  <2> QED
    BY <2>4, <2>5
<1>10. UsesAreBlacklisted'
  BY <1>2, <1>3, UsesUnchanged
<1> QED
  BY <1>8, <1>9, <1>10 DEF LoginsInv

LEMMA LoginEndsKeeps ==
  ASSUME LoginsInv, NEW c \in Clients, LoginEnds(c)
  PROVE  LoginsInv'
<1> DEFINE p == login[c].process
           n == login[c].name
           times == failures[p][n]
<1>1. LoginsTyped /\ GuessingIsHeldOff /\ UsesAreBlacklisted /\ now \in Nat
  BY DEF LoginsInv, LoginsTyped
<1>2. /\ login[c].status = "loading" /\ p \in Processes /\ n \in Names
      /\ now' = now /\ UNCHANGED <<blacklist, granted, restarts>> /\ tokens' \in Nat
  BY <1>1 DEF LoginEnds, LoginsTyped
<1>3. PICK code \in {"200", "401"} : login' = [login EXCEPT ![c] = Answered(code)]
  BY DEF LoginEnds
<1>4. \/ failures' = [failures EXCEPT ![p][n] = <<>>]
      \/ failures' = [failures EXCEPT ![p][n] = Append(InWindow(times), now)]
      \/ failures' = failures
  BY DEF LoginEnds
<1>5. /\ login' = [d \in Clients |-> login'[d]]
      /\ \A d \in Clients : d # c => login'[d] = login[d]
      /\ login'[c].status # "loading"
  <2>1. login = [d \in Clients |-> login[d]]
    BY <1>1 DEF LoginsTyped
  <2>2. login' = [d \in Clients |-> IF d = c THEN Answered(code) ELSE login[d]]
    BY <1>3, <2>1
  <2>3. Answered(code).status # "loading"
    BY DEF Answered
  <2> QED
    BY <2>2, <2>3
<1>6. /\ times \in Seq(Nat) /\ Append(InWindow(times), now) \in Seq(Nat) /\ <<>> \in Seq(Nat)
      /\ \A q \in Processes, m \in Names : failures[q][m] \in Seq(Nat)
  <2>1. \A q \in Processes, m \in Names : failures[q][m] \in Seq(Nat)
    BY <1>1 DEF LoginsTyped
  <2>2. times \in Seq(Nat)
    BY <1>2, <2>1
  <2>3. Append(InWindow(times), now) \in Seq(Nat)
    BY <1>1, <2>2, Pruned
  <2> QED
    BY <2>1, <2>2, <2>3
<1>7. \A q \in Processes, m \in Names :
        \/ failures'[q][m] = failures[q][m]
        \/ q = p /\ m = n /\ failures'[q][m] \in {<<>>, Append(InWindow(times), now)}
  <2> HIDE DEF p, n, times
  <2>1. ASSUME NEW x \in Seq(Nat), failures' = [failures EXCEPT ![p][n] = x],
               NEW q \in Processes, NEW m \in Names
        PROVE  failures'[q][m] = IF q = p /\ m = n THEN x ELSE failures[q][m]
    <3>1. failures \in [Processes -> [Names -> Seq(Nat)]]
      BY <1>1 DEF LoginsTyped
    <3> QED
      BY <1>2, <2>1, <3>1, NestedUpdate
  <2>2. CASE failures' = [failures EXCEPT ![p][n] = <<>>]
    BY <1>6, <2>1, <2>2
  <2>3. CASE failures' = [failures EXCEPT ![p][n] = Append(InWindow(times), now)]
    BY <1>6, <2>1, <2>3
  <2>4. CASE failures' = failures
    BY <2>4
  <2> QED
    BY <1>4, <2>2, <2>3, <2>4
<1>8. failures' \in [Processes -> [Names -> Seq(Nat)]]
  <2> HIDE DEF p, n, times
  <2>1. failures \in [Processes -> [Names -> Seq(Nat)]]
    BY <1>1 DEF LoginsTyped
  <2>2. \A x \in Seq(Nat) : failures' = [failures EXCEPT ![p][n] = x] =>
          failures' \in [Processes -> [Names -> Seq(Nat)]]
    BY <1>2, <2>1, NestedUpdate
  <2> QED
    BY <1>4, <1>6, <2>1, <2>2
<1> HIDE DEF p, n, times
<1>9. LoginsTyped'
  <2>1. ASSUME NEW d \in Clients, login'[d].status = "loading"
        PROVE  login'[d].process \in Processes /\ login'[d].name \in Names
    <3>1. d # c
      BY <1>5, <2>1
    <3> QED
      BY <1>1, <1>5, <2>1, <3>1 DEF LoginsTyped
  <2> QED
    BY <1>1, <1>2, <1>5, <1>8, <2>1 DEF LoginsTyped
<1>10. GuessingIsHeldOff'
  <2> SUFFICES ASSUME NEW q \in Processes, NEW m \in Names
               PROVE  Len(Younger(failures'[q][m], now)) + Waiting(q, m)' <= MAX_FAILURES - 1 + Cardinality(Clients)
    BY <1>2 DEF GuessingIsHeldOff, InWindow
  <2>1. /\ Len(Younger(failures[q][m], now)) + Waiting(q, m) <= MAX_FAILURES - 1 + Cardinality(Clients)
        /\ Len(Younger(failures[q][m], now)) \in Nat
    BY <1>1, <1>6, Pruned DEF GuessingIsHeldOff, InWindow
  <2>2. Waiters(q, m)' \subseteq Waiters(q, m) \ {c}
    BY <1>5 DEF Waiters
  <2>3. Waiting(q, m)' <= Waiting(q, m)
    BY <2>2, WaitersCountedNext
  <2>4. CASE failures'[q][m] = failures[q][m]
    BY <2>1, <2>3, <2>4, WaitersCounted, WaitersCountedNext, ParametersTyped
  <2>5. CASE q = p /\ m = n /\ failures'[q][m] = <<>>
    <3>1. Younger(<<>>, now) = <<>>
      BY <1>1, <1>6, Pruned DEF InWindow
    <3>2. Len(Younger(failures'[q][m], now)) = 0
      BY <2>5, <3>1
    <3> QED
      BY <2>1, <2>3, <3>2, WaitersCounted, WaitersCountedNext, ParametersTyped
  <2>6. CASE q = p /\ m = n /\ failures'[q][m] = Append(InWindow(times), now)
    <3>1. Len(Younger(failures'[q][m], now)) = Len(Younger(failures[q][m], now)) + 1
      BY <1>1, <1>6, <2>6, Pruned DEF InWindow, times
    <3>2. c \in Waiters(q, m)
      BY <1>2, <2>6 DEF Waiters, p, n
    <3>3. /\ Cardinality(Waiters(q, m) \ {c}) = Waiting(q, m) - 1 /\ IsFiniteSet(Waiters(q, m) \ {c})
      BY <3>2, WaitersCounted, FS_RemoveElement
    <3>4. Waiting(q, m)' <= Waiting(q, m) - 1
      BY <2>2, <3>3, FS_Subset, WaitersCountedNext
    <3> QED
      BY <2>1, <3>1, <3>4, WaitersCounted, WaitersCountedNext, ParametersTyped
  <2> QED
    BY <1>7, <2>4, <2>5, <2>6
<1>11. UsesAreBlacklisted'
  BY <1>1, <1>2, UsesUnchanged
<1> QED
  BY <1>9, <1>10, <1>11 DEF LoginsInv

(* The processes that have a token in their blacklist are finitely many. *)
LEMMA HavingCounted ==
  ASSUME NEW r
  PROVE  /\ IsFiniteSet(Having(r)) /\ Cardinality(Having(r)) \in Nat
         /\ Cardinality(Having(r)) <= Cardinality(Processes)
<1>1. Having(r) \in SUBSET Processes
  BY DEF Having
<1> QED
  BY <1>1, FS_Subset, FS_CardinalityType, ParametersTyped

LEMMA HavingCountedNext ==
  ASSUME NEW r
  PROVE  /\ IsFiniteSet(Having(r)') /\ Cardinality(Having(r)') \in Nat
         /\ Having(r) \subseteq Having(r)' => Cardinality(Having(r)) <= Cardinality(Having(r)')
<1>1. Having(r)' \in SUBSET Processes
  BY DEF Having
<1>2. IsFiniteSet(Having(r)')
  BY <1>1, FS_Subset, ParametersTyped
<1>3. Having(r) \subseteq Having(r)' => Cardinality(Having(r)) <= Cardinality(Having(r)')
  BY <1>2, FS_Subset
<1> QED
  BY <1>2, <1>3, FS_CardinalityType

(* A token is used or logged out at a process. *)
LEMMA TokenKeeps ==
  ASSUME LoginsInv, NEW p \in Processes, NEW r \in 1..MaxRefresh, Refresh(p, r) \/ Logout(p, r)
  PROVE  LoginsInv'
<1>1. /\ LoginsTyped /\ GuessingIsHeldOff /\ UsesAreBlacklisted
      /\ restarts \in Nat /\ \A s \in 1..MaxRefresh : granted[s] \in Nat
  BY DEF LoginsInv, LoginsTyped
<1>2. /\ UNCHANGED <<now, failures, login, tokens, restarts>>
      /\ r \notin blacklist[p] /\ blacklist' = [blacklist EXCEPT ![p] = @ \cup {r}]
      /\ granted' = [granted EXCEPT ![r] = @ + 1] \/ granted' = granted
  BY DEF Refresh, Logout
<1>3. r \in Nat
  BY ParametersTyped
<1>4. \A q \in Processes : blacklist'[q] = IF q = p THEN blacklist[q] \cup {r} ELSE blacklist[q]
  BY <1>1, <1>2 DEF LoginsTyped
<1>5. LoginsTyped'
  <2>1. blacklist' \in [Processes -> SUBSET Nat]
    BY <1>1, <1>2, <1>3 DEF LoginsTyped
  <2>2. granted' \in [1..MaxRefresh -> Nat]
    <3>1. granted \in [1..MaxRefresh -> Nat] /\ granted[r] + 1 \in Nat
      BY <1>1 DEF LoginsTyped
    <3> QED
      BY <1>2, <3>1
  <2> QED
    BY <1>1, <1>2, <2>1, <2>2 DEF LoginsTyped
<1>6. UsesAreBlacklisted'
  <2> SUFFICES ASSUME NEW s \in 1..MaxRefresh PROVE granted'[s] <= Cardinality(Having(s)') + restarts
    BY <1>2 DEF UsesAreBlacklisted
  <2>1. granted[s] <= Cardinality(Having(s)) + restarts
    BY <1>1 DEF UsesAreBlacklisted
  <2>2. Having(s) \subseteq Having(s)'
    BY <1>4 DEF Having
  <2>3. CASE granted'[s] = granted[s]
    <3>1. Cardinality(Having(s)) <= Cardinality(Having(s)')
      BY <2>2, HavingCountedNext
    <3>2. Cardinality(Having(s)) \in Nat /\ Cardinality(Having(s)') \in Nat
      BY HavingCounted, HavingCountedNext
    <3> QED
      BY <1>1, <2>1, <2>3, <3>1, <3>2
  <2>4. CASE s = r /\ granted'[s] = granted[s] + 1
    <3>1. Having(r)' = Having(r) \cup {p} /\ p \notin Having(r)
      BY <1>2, <1>4 DEF Having
    <3>2. Cardinality(Having(r)') = Cardinality(Having(r)) + 1
      BY <3>1, HavingCounted, FS_AddElement
    <3> QED
      BY <1>1, <2>1, <2>4, <3>2, HavingCounted
  <2>5. granted'[s] = granted[s] \/ (s = r /\ granted'[s] = granted[s] + 1)
    BY <1>1, <1>2 DEF LoginsTyped
  <2> QED
    BY <2>3, <2>4, <2>5
<1> QED
  BY <1>1, <1>2, <1>5, <1>6, GuessingUnchanged DEF LoginsInv

LEMMA ProcessRestartsKeeps ==
  ASSUME LoginsInv, NEW p \in Processes, ProcessRestarts(p)
  PROVE  LoginsInv'
<1>1. /\ LoginsTyped /\ GuessingIsHeldOff /\ UsesAreBlacklisted
      /\ now \in Nat /\ restarts \in Nat /\ \A r \in 1..MaxRefresh : granted[r] \in Nat
  BY DEF LoginsInv, LoginsTyped
<1>2. /\ UNCHANGED <<now, tokens, granted>> /\ restarts' = restarts + 1
      /\ failures' = [failures EXCEPT ![p] = [n \in Names |-> <<>>]]
      /\ blacklist' = [blacklist EXCEPT ![p] = {}]
      /\ login' = [c \in Clients |-> IF login[c].process = p /\ login[c].status = "loading"
                                    THEN Answered("none") ELSE login[c]]
  BY DEF ProcessRestarts
<1>3. \A c \in Clients : login'[c].status = "loading" => login'[c] = login[c] /\ login[c].process # p
  BY <1>2 DEF Answered
<1>4. LoginsTyped'
  <2>1. failures' \in [Processes -> [Names -> Seq(Nat)]]
    <3>1. [n \in Names |-> <<>>] \in [Names -> Seq(Nat)]
      OBVIOUS
    <3> QED
      BY <1>1, <1>2, <3>1 DEF LoginsTyped
  <2>2. blacklist' \in [Processes -> SUBSET Nat]
    BY <1>1, <1>2 DEF LoginsTyped
  <2>3. login' = [c \in Clients |-> login'[c]]
    BY <1>2
  <2> QED
    BY <1>1, <1>2, <1>3, <2>1, <2>2, <2>3 DEF LoginsTyped
<1>5. GuessingIsHeldOff'
  <2> SUFFICES ASSUME NEW q \in Processes, NEW n \in Names
               PROVE  Len(Younger(failures'[q][n], now)) + Waiting(q, n)' <= MAX_FAILURES - 1 + Cardinality(Clients)
    BY <1>2 DEF GuessingIsHeldOff, InWindow
  <2>1. CASE q = p
    <3>1. failures'[q][n] = <<>>
      BY <1>1, <1>2, <2>1 DEF LoginsTyped
    <3>2. <<>> \in Seq(Nat) /\ Len(<<>>) = 0
      OBVIOUS
    <3>3. Len(Younger(failures'[q][n], now)) = 0
      BY <1>1, <3>1, <3>2, Pruned DEF InWindow
    <3> QED
      BY <3>3, WaitersCountedNext, ParametersTyped
  <2>2. CASE q # p
    <3>1. failures'[q][n] = failures[q][n] /\ failures[q][n] \in Seq(Nat)
      BY <1>1, <1>2, <2>2 DEF LoginsTyped
    <3>2. Waiters(q, n)' \subseteq Waiters(q, n)
      BY <1>3 DEF Waiters
    <3>3. Waiting(q, n)' <= Waiting(q, n)
      BY <3>2, WaitersCountedNext
    <3>4. /\ Len(Younger(failures[q][n], now)) + Waiting(q, n) <= MAX_FAILURES - 1 + Cardinality(Clients)
          /\ Len(Younger(failures[q][n], now)) \in Nat
      BY <1>1, <3>1, Pruned DEF GuessingIsHeldOff, InWindow
    <3> QED
      BY <3>1, <3>3, <3>4, WaitersCounted, WaitersCountedNext, ParametersTyped
  <2> QED
    BY <2>1, <2>2
<1>6. UsesAreBlacklisted'
  <2> SUFFICES ASSUME NEW r \in 1..MaxRefresh PROVE granted'[r] <= Cardinality(Having(r)') + restarts'
    BY DEF UsesAreBlacklisted
  <2>1. granted[r] <= Cardinality(Having(r)) + restarts
    BY <1>1 DEF UsesAreBlacklisted
  <2>2. Having(r)' = Having(r) \ {p}
    BY <1>1, <1>2 DEF Having, LoginsTyped
  <2>3. Cardinality(Having(r)') >= Cardinality(Having(r)) - 1
    <3>1. Cardinality(Having(r) \ {p}) = IF p \in Having(r) THEN Cardinality(Having(r)) - 1
                                       ELSE Cardinality(Having(r))
      BY HavingCounted, FS_RemoveElement
    <3> QED
      BY <2>2, <3>1, HavingCounted
  <2>4. Cardinality(Having(r)) \in Nat /\ Cardinality(Having(r)') \in Nat
    BY HavingCounted, HavingCountedNext
  <2> QED
    BY <1>1, <1>2, <2>1, <2>3, <2>4
<1> QED
  BY <1>4, <1>5, <1>6 DEF LoginsInv

LEMMA SecondPassesKeeps ==
  ASSUME LoginsInv, SecondPasses
  PROVE  LoginsInv'
<1>1. /\ LoginsTyped /\ GuessingIsHeldOff /\ UsesAreBlacklisted /\ now \in Nat
      /\ now' = now + 1 /\ UNCHANGED <<failures, login, tokens, blacklist, granted, restarts>>
  BY DEF LoginsInv, LoginsTyped, SecondPasses
<1>2. LoginsTyped'
  BY <1>1 DEF LoginsTyped
<1>3. GuessingIsHeldOff'
  <2> SUFFICES ASSUME NEW q \in Processes, NEW n \in Names
               PROVE  Len(Younger(failures[q][n], now + 1)) + Waiting(q, n)' <= MAX_FAILURES - 1 + Cardinality(Clients)
    BY <1>1 DEF GuessingIsHeldOff, InWindow
  <2>1. failures[q][n] \in Seq(Nat)
    BY <1>1 DEF LoginsTyped
  <2>2. now + 1 \in Nat /\ now <= now + 1
    BY <1>1
  <2>3. /\ Len(Younger(failures[q][n], now + 1)) <= Len(Younger(failures[q][n], now))
        /\ Len(Younger(failures[q][n], now + 1)) \in Nat /\ Len(Younger(failures[q][n], now)) \in Nat
    <3>1. Len(Younger(failures[q][n], now + 1)) <= Len(Younger(failures[q][n], now))
      BY <1>1, <2>1, <2>2, YoungerLess, ParametersTyped
    <3>2. Younger(failures[q][n], now + 1) \in Seq(Nat) /\ Younger(failures[q][n], now) \in Seq(Nat)
      BY <1>1, <2>1, <2>2, YoungerTyped
    <3> QED
      BY <3>1, <3>2
  <2>4. Waiting(q, n)' = Waiting(q, n)
    BY <1>1 DEF Waiting
  <2>5. Len(Younger(failures[q][n], now)) + Waiting(q, n) <= MAX_FAILURES - 1 + Cardinality(Clients)
    BY <1>1 DEF GuessingIsHeldOff, InWindow
  <2> QED
    BY <2>3, <2>4, <2>5, WaitersCounted, ParametersTyped
<1> QED
  BY <1>1, <1>2, <1>3, UsesUnchanged DEF LoginsInv

LEMMA LoginsNextKeeps ==
  ASSUME LoginsInv, LoginsNext
  PROVE  LoginsInv'
<1>1. CASE \E c \in Clients : LoginBegins(c) \/ LoginEnds(c)
  BY <1>1, LoginBeginsKeeps, LoginEndsKeeps
<1>2. CASE \E p \in Processes, r \in 1..MaxRefresh : Refresh(p, r) \/ Logout(p, r)
  BY <1>2, TokenKeeps
<1>3. CASE \E p \in Processes : ProcessRestarts(p)
  BY <1>3, ProcessRestartsKeeps
<1>4. CASE SecondPasses
  BY <1>4, SecondPassesKeeps
<1> QED
  BY <1>1, <1>2, <1>3, <1>4 DEF LoginsNext

LEMMA LoginsStutter ==
  ASSUME LoginsInv, UNCHANGED login_vars
  PROVE  LoginsInv'
<1>1. UNCHANGED <<now, failures, login, tokens, blacklist, granted, restarts>>
  BY DEF login_vars
<1>2. LoginsTyped'
  BY <1>1 DEF LoginsInv, LoginsTyped
<1> QED
  BY <1>1, <1>2, UsesUnchanged, GuessingUnchanged DEF LoginsInv

-----------------------------------------------------------------------------
LEMMA InitCanaryInv == CanaryInit => CanaryInv
<1> SUFFICES ASSUME CanaryInit PROVE CanaryInv
  OBVIOUS
<1> DEFINE r == [kind |-> None, worker |-> None, token |-> None, known |-> FALSE,
                 read |-> {}, step |-> "idle", outcome |-> None]
<1>1. \A k \in Tasks : task[k] = r
  BY DEF CanaryInit
<1>2. r \in TaskRecords
  BY CanaryAssumption DEF TaskRecords
<1>3. CanaryTyped
  BY <1>2 DEF CanaryInit, CanaryTyped
<1>4. \A k \in Tasks : task[k].step = "idle" /\ task[k].outcome = None /\ task[k].known = FALSE
  BY <1>1
<1>5. \A k \in Tasks : ~Busy(k) /\ ~Revokes(k) /\ ~Brings(k) /\ ~task[k].known
                      /\ task[k].outcome # "revoked" /\ task[k].outcome # "none"
  BY <1>4, CanaryAssumption DEF Busy, Revokes, Brings
<1>6. BusyTogether /\ RevokedIsFinal /\ ReadBeforehand
  BY <1>5 DEF BusyTogether, RevokedIsFinal, ReadBeforehand
<1>7. RevokedIsForgotten /\ KnownIsPlanted /\ MissedOnlyByAnEmptyCache
  BY <1>5 DEF RevokedIsForgotten, KnownIsPlanted, MissedOnlyByAnEmptyCache
<1> QED
  BY <1>3, <1>6, <1>7 DEF CanaryInv

(* A step of a request that is under way keeps all of it, if what the step *)
(* brings is justified: a revocation goes on in order and ends with an     *)
(* empty cache, rows that are read are those of active tokens, a cache     *)
(* gets no more than was read.                                             *)
LEMMA StepKeeps ==
  ASSUME CanaryInv, NEW k \in Tasks, NEW r \in TaskRecords,
         Busy(k), task' = [task EXCEPT ![k] = r], meanwhile' = meanwhile,
         r.step # "idle", r.kind = task[k].kind, r.worker = task[k].worker,
         r.token = task[k].token, r.known = task[k].known,
         status' \in [Planted -> {"active", "revoked", None}],
         \A t \in Planted : status'[t] = status[t] \/ status'[t] = "revoked",
         cache' \in [Workers -> SUBSET Planted],
         \A w \in Workers : \A t \in cache'[w] :
           t \in cache[w] \/ (w = r.worker /\ Brings(k) /\ t \in task[k].read),
         r.step = "clear" \/ r.outcome = "revoked" => status'[r.token] = "revoked",
         r.step = "clear" => task[k].step = "update",
         r.outcome = "revoked" => task[k].step = "clear" /\ cache'[r.worker] = {},
         r.step \in {"fill", "answer"} => r.read \subseteq ActiveTokens /\ status' = status,
         r.known /\ ((r.step = "answer" /\ r.read = {}) \/ r.outcome = "none") => status'[r.token] = "revoked"
  PROVE  CanaryInv'
<1>1. /\ CanaryTyped /\ BusyTogether /\ RevokedIsFinal /\ ReadBeforehand /\ RevokedIsForgotten
      /\ KnownIsPlanted /\ MissedOnlyByAnEmptyCache
  BY DEF CanaryInv
<1>2. \A j \in Tasks : task'[j] = IF j = k THEN r ELSE task[j]
  BY <1>1 DEF CanaryTyped
<1>3. CanaryTyped'
  BY <1>1 DEF CanaryTyped
<1>4. \A j \in Tasks : task[j] \in TaskRecords
  BY <1>1 DEF CanaryTyped
<1>5. \A j \in Tasks : /\ task'[j].kind = task[j].kind /\ task'[j].worker = task[j].worker
                       /\ task'[j].token = task[j].token /\ task'[j].known = task[j].known
  BY <1>2
<1>6. \A j \in Tasks : Busy(j)' => Busy(j)
  BY <1>2 DEF Busy
<1>7. \A j \in Tasks : task[j].step # "idle" => task[j].token \in Planted /\ task[j].worker \in Workers
  BY <1>4 DEF TaskRecords
<1>8. \A t \in Planted : status[t] = "revoked" => status'[t] = "revoked"
  OBVIOUS
<1>9. BusyTogether'
  BY <1>1, <1>6 DEF BusyTogether
<1>10. \A j \in Tasks : Revokes(j) => task[j].token \in Planted /\ task[j].worker \in Workers
  <2> SUFFICES ASSUME NEW j \in Tasks, Revokes(j) PROVE task[j].step # "idle"
    BY <1>7
  <2> QED
    BY <1>4, CanaryAssumption DEF Revokes, TaskRecords
<1>11. RevokedIsFinal'
  <2> SUFFICES ASSUME NEW j \in Tasks, Revokes(j)' PROVE status'[task'[j].token] = "revoked"
    BY DEF RevokedIsFinal
  <2>1. CASE j = k
    BY <1>2, <2>1 DEF Revokes
  <2>2. CASE j # k
    BY <1>1, <1>2, <1>8, <1>10, <2>2 DEF Revokes, RevokedIsFinal
  <2> QED
    BY <2>1, <2>2
<1>12. ReadBeforehand'
  <2> SUFFICES ASSUME NEW c \in Tasks, NEW j \in Tasks, Brings(c)', Revokes(j)', task'[j].token \in task'[c].read
               PROVE  {c, j} \in meanwhile
    BY DEF ReadBeforehand
  <2>1. c # j
    <3>1. task'[c].kind = "check" /\ task'[j].kind = "revoke"
      BY <1>3 DEF CanaryTyped, TaskRecords, Brings, Revokes
    <3> QED
      BY <3>1
  <2>2. CASE c = k
    <3>1. task'[j] = task[j] /\ Revokes(j) /\ status[task[j].token] = "revoked"
      BY <1>1, <1>2, <2>1, <2>2 DEF Revokes, RevokedIsFinal
    <3>2. task[j].token \in ActiveTokens
      BY <1>2, <2>2, <3>1 DEF Brings
    <3> QED
      BY <3>1, <3>2 DEF ActiveTokens
  <2>3. CASE j = k
    <3>1. task'[c] = task[c] /\ Brings(c) /\ Busy(c)
      BY <1>2, <2>1, <2>3 DEF Brings, Busy
    <3> QED
      BY <1>1, <2>1, <2>3, <3>1 DEF BusyTogether
  <2>4. CASE c # k /\ j # k
    BY <1>1, <1>2, <2>4 DEF ReadBeforehand, Brings, Revokes
  <2> QED
    BY <2>2, <2>3, <2>4
<1>13. RevokedIsForgotten'
  <2> SUFFICES ASSUME NEW j \in Tasks, task'[j].outcome = "revoked", task'[j].token \in cache'[task'[j].worker]
               PROVE  \E c \in Tasks : task[c].kind = "check" /\ {c, j} \in meanwhile
    BY <1>5 DEF RevokedIsForgotten
  <2>1. j # k
    BY <1>2
  <2>2. /\ task'[j] = task[j] /\ Revokes(j) /\ task[j].worker \in Workers
        /\ task[j].outcome = "revoked"
    <3>1. task'[j] = task[j] /\ task[j].outcome = "revoked"
      BY <1>2, <2>1
    <3>2. task[j].kind = "revoke"
      BY <1>4, <3>1 DEF TaskRecords
    <3>3. Revokes(j)
      BY <3>1, <3>2 DEF Revokes
    <3> QED
      BY <1>10, <3>1, <3>3
  <2>3. CASE task[j].token \in cache[task[j].worker]
    BY <1>1, <2>2, <2>3 DEF RevokedIsForgotten
  <2>4. CASE Brings(k) /\ task[j].token \in task[k].read
    <3>1. {k, j} \in meanwhile
      BY <1>1, <2>2, <2>4 DEF ReadBeforehand
    <3>2. task[k].kind = "check"
      BY <1>4, <2>4 DEF Brings, TaskRecords
    <3> QED
      BY <3>1, <3>2
  <2> QED
    BY <2>2, <2>3, <2>4
<1>14. KnownIsPlanted'
  BY <1>1, <1>2, <1>7, <1>8 DEF KnownIsPlanted
<1>15. MissedOnlyByAnEmptyCache'
  BY <1>1, <1>2, <1>7, <1>8 DEF MissedOnlyByAnEmptyCache, KnownIsPlanted
<1> QED
  BY <1>3, <1>9, <1>11, <1>12, <1>13, <1>14, <1>15 DEF CanaryInv

(* A request that begins. *)
LEMMA BeginKeeps ==
  ASSUME CanaryInv, NEW k \in Tasks, NEW r \in TaskRecords,
         task[k].step = "idle", task' = [task EXCEPT ![k] = r],
         meanwhile' = meanwhile \cup {{k, other} : other \in {o \in Tasks : Busy(o)}},
         UNCHANGED <<status, cache, loaded>>,
         r.step \in {"load", "look up", "update", "done"}, r.outcome \notin {"revoked", "none"},
         r.known => status[r.token] = "active"
  PROVE  CanaryInv'
<1>1. /\ CanaryTyped /\ BusyTogether /\ RevokedIsFinal /\ ReadBeforehand /\ RevokedIsForgotten
      /\ KnownIsPlanted /\ MissedOnlyByAnEmptyCache
  BY DEF CanaryInv
<1>2. \A j \in Tasks : task'[j] = IF j = k THEN r ELSE task[j]
  BY <1>1 DEF CanaryTyped
<1>3. CanaryTyped'
  BY <1>1 DEF CanaryTyped
<1>4. \A j \in Tasks : task[j] \in TaskRecords
  BY <1>1 DEF CanaryTyped
<1>5. BusyTogether'
  <2> SUFFICES ASSUME NEW c \in Tasks, NEW j \in Tasks, c # j, Busy(c)', Busy(j)'
               PROVE  {c, j} \in meanwhile'
    BY DEF BusyTogether
  <2>1. CASE c = k
    <3>1. Busy(j)
      BY <1>2, <2>1 DEF Busy
    <3> QED
      BY <2>1, <3>1
  <2>2. CASE j = k
    <3>1. Busy(c)
      BY <1>2, <2>2 DEF Busy
    <3>2. {c, j} = {k, c}
      BY <2>2
    <3> QED
      BY <3>1, <3>2
  <2>3. CASE c # k /\ j # k
    BY <1>1, <1>2, <2>3 DEF Busy, BusyTogether
  <2> QED
    BY <2>1, <2>2, <2>3
<1>6. \A j \in Tasks : (Revokes(j)' \/ Brings(j)' \/ task'[j].outcome \in {"revoked", "none"})
                      => j # k /\ task'[j] = task[j]
  BY <1>2 DEF Revokes, Brings
<1>7. RevokedIsFinal' /\ ReadBeforehand' /\ MissedOnlyByAnEmptyCache'
  <2>1. RevokedIsFinal'
    <3> SUFFICES ASSUME NEW j \in Tasks, Revokes(j)' PROVE status'[task'[j].token] = "revoked"
      BY DEF RevokedIsFinal
    <3>1. task'[j] = task[j]
      BY <1>6
    <3>2. Revokes(j)
      BY <3>1 DEF Revokes
    <3> QED
      BY <1>1, <3>1, <3>2 DEF RevokedIsFinal
  <2>2. ReadBeforehand'
    <3> SUFFICES ASSUME NEW c \in Tasks, NEW j \in Tasks, Brings(c)', Revokes(j)',
                        task'[j].token \in task'[c].read
                 PROVE  {c, j} \in meanwhile'
      BY DEF ReadBeforehand
    <3>1. task'[j] = task[j] /\ task'[c] = task[c]
      BY <1>6
    <3>2. Revokes(j) /\ Brings(c)
      BY <3>1 DEF Revokes, Brings
    <3>3. {c, j} \in meanwhile
      BY <1>1, <3>1, <3>2 DEF ReadBeforehand
    <3> QED
      BY <3>3
  <2>3. MissedOnlyByAnEmptyCache'
    <3> SUFFICES ASSUME NEW j \in Tasks, task'[j].outcome = "none" /\ task'[j].known
                 PROVE  status'[task'[j].token] = "revoked"
      BY DEF MissedOnlyByAnEmptyCache
    <3>1. task'[j] = task[j]
      BY <1>6
    <3> QED
      BY <1>1, <3>1 DEF MissedOnlyByAnEmptyCache
  <2> QED
    BY <2>1, <2>2, <2>3
<1>8. RevokedIsForgotten'
  <2> SUFFICES ASSUME NEW j \in Tasks, task'[j].outcome = "revoked", task'[j].token \in cache[task'[j].worker]
               PROVE  \E c \in Tasks : task'[c].kind = "check" /\ {c, j} \in meanwhile'
    BY DEF RevokedIsForgotten
  <2>1. PICK c \in Tasks : task[c].kind = "check" /\ {c, j} \in meanwhile
    BY <1>1, <1>6 DEF RevokedIsForgotten
  <2>2. c # k
    BY <1>4, <2>1, CanaryAssumption DEF TaskRecords
  <2> QED
    BY <1>2, <2>1, <2>2
<1>9. KnownIsPlanted'
  <2> SUFFICES ASSUME NEW j \in Tasks, task'[j].known
               PROVE  /\ task'[j].step # "idle" /\ status[task'[j].token] \in {"active", "revoked"}
                      /\ task'[j].step = "answer" /\ task'[j].read = {} => status[task'[j].token] = "revoked"
    BY DEF KnownIsPlanted
  <2>1. CASE j = k
    BY <1>2, <2>1
  <2>2. CASE j # k
    <3>1. task'[j] = task[j]
      BY <1>2, <2>2
    <3> QED
      BY <1>1, <3>1 DEF KnownIsPlanted
  <2> QED
    BY <2>1, <2>2
<1> QED
  BY <1>3, <1>5, <1>7, <1>8, <1>9 DEF CanaryInv

LEMMA BeginCheckKeeps ==
  ASSUME CanaryInv, NEW k \in Tasks, NEW w \in Workers, NEW t \in Planted, BeginCheck(k, w, t)
  PROVE  CanaryInv'
<1> DEFINE c == [kind |-> "check", worker |-> w, token |-> t, known |-> status[t] = "active",
                 read |-> {}, step |-> "load", outcome |-> None]
           r == IF loaded[w] THEN Scanned(c, cache[w]) ELSE c
<1>1. (status[t] = "active") \in BOOLEAN
  OBVIOUS
<1>2. r \in TaskRecords /\ r.known = c.known /\ r.token = t
  BY <1>1, CanaryAssumption DEF TaskRecords, Scanned
<1>3. r.step \in {"load", "look up", "update", "done"} /\ r.outcome \notin {"revoked", "none"}
  BY CanaryAssumption DEF Scanned
<1>4. /\ task[k].step = "idle" /\ task' = [task EXCEPT ![k] = r]
      /\ meanwhile' = meanwhile \cup {{k, other} : other \in {o \in Tasks : Busy(o)}}
      /\ UNCHANGED <<status, cache, loaded>>
  BY DEF BeginCheck
<1>5. r.known => status[r.token] = "active"
  BY <1>2
<1> HIDE DEF r
<1> QED
  BY <1>2, <1>3, <1>4, <1>5, BeginKeeps

LEMMA BeginRevokeKeeps ==
  ASSUME CanaryInv, NEW k \in Tasks, NEW w \in Workers, NEW t \in Planted, BeginRevoke(k, w, t)
  PROVE  CanaryInv'
<1> DEFINE r == [kind |-> "revoke", worker |-> w, token |-> t, known |-> FALSE,
                 read |-> {}, step |-> "update", outcome |-> None]
<1>1. r \in TaskRecords /\ r.step = "update" /\ r.outcome \notin {"revoked", "none"} /\ r.known = FALSE
  BY CanaryAssumption DEF TaskRecords
<1>2. /\ task[k].step = "idle" /\ task' = [task EXCEPT ![k] = r]
      /\ meanwhile' = meanwhile \cup {{k, other} : other \in {o \in Tasks : Busy(o)}}
      /\ UNCHANGED <<status, cache, loaded>>
  BY DEF BeginRevoke
<1> HIDE DEF r
<1> QED
  BY <1>1, <1>2, BeginKeeps

LEMMA PlantKeeps ==
  ASSUME CanaryInv, NEW t \in Planted, Plant(t)
  PROVE  CanaryInv'
<1>1. /\ CanaryTyped /\ BusyTogether /\ RevokedIsFinal /\ ReadBeforehand /\ RevokedIsForgotten
      /\ KnownIsPlanted /\ MissedOnlyByAnEmptyCache
  BY DEF CanaryInv
<1>2. /\ status[t] = None /\ status' = [status EXCEPT ![t] = "active"]
      /\ UNCHANGED <<cache, loaded, task, meanwhile>>
  BY DEF Plant
<1>3. CanaryTyped'
  BY <1>1, <1>2 DEF CanaryTyped
<1>4. \A u \in Planted : status[u] \in {"active", "revoked"} => status'[u] = status[u]
  BY <1>1, <1>2, CanaryAssumption DEF CanaryTyped
<1>5. \A j \in Tasks : task[j] \in TaskRecords
  BY <1>1 DEF CanaryTyped
<1>6. \A j \in Tasks : /\ task[j].step # "idle" => task[j].token \in Planted
                       /\ task[j].outcome = "none" => task[j].step # "idle"
                       /\ Revokes(j) => task[j].step # "idle"
  BY <1>5, CanaryAssumption DEF Revokes, TaskRecords
<1>7. BusyTogether' /\ ReadBeforehand' /\ RevokedIsForgotten'
  BY <1>1, <1>2 DEF BusyTogether, ReadBeforehand, RevokedIsForgotten, Busy, Revokes, Brings
<1>8. RevokedIsFinal' /\ KnownIsPlanted' /\ MissedOnlyByAnEmptyCache'
  BY <1>1, <1>2, <1>4, <1>6 DEF RevokedIsFinal, KnownIsPlanted, MissedOnlyByAnEmptyCache, Revokes
<1> QED
  BY <1>3, <1>7, <1>8 DEF CanaryInv

LEMMA LoadRowsKeeps ==
  ASSUME CanaryInv, NEW k \in Tasks, LoadRows(k)
  PROVE  CanaryInv'
<1> DEFINE r == [task[k] EXCEPT !.read = ActiveTokens, !.step = "fill"]
<1>1. /\ task[k] \in TaskRecords /\ task \in [Tasks -> TaskRecords]
      /\ status \in [Planted -> {"active", "revoked", None}] /\ cache \in [Workers -> SUBSET Planted]
      /\ KnownIsPlanted /\ RevokedIsFinal
  BY DEF CanaryInv, CanaryTyped
<1>2. task[k].step = "load" /\ UNCHANGED <<status, cache, loaded, meanwhile>>
  BY DEF LoadRows
<1>3. /\ task[k].worker \in Workers /\ task[k].token \in Planted /\ Busy(k)
      /\ task[k].outcome = None /\ task[k].kind = "check"
  BY <1>1, <1>2, CanaryAssumption DEF TaskRecords, Busy
<1>4. task' = [task EXCEPT ![k] = r]
  BY <1>1 DEF LoadRows
<1>5. /\ r \in TaskRecords /\ r.step = "fill" /\ r.read = ActiveTokens /\ r.kind = task[k].kind
      /\ r.outcome = None /\ r.worker = task[k].worker /\ r.token = task[k].token /\ r.known = task[k].known
  BY <1>1, <1>3 DEF TaskRecords, ActiveTokens
<1> HIDE DEF r
<1> QED
  BY <1>1, <1>2, <1>3, <1>4, <1>5, StepKeeps, CanaryAssumption

LEMMA LookUpKeeps ==
  ASSUME CanaryInv, NEW k \in Tasks, LookUp(k)
  PROVE  CanaryInv'
<1> DEFINE r == [task[k] EXCEPT !.read = ActiveTokens \cap {task[k].token}, !.step = "answer"]
<1>1. /\ task[k] \in TaskRecords /\ task \in [Tasks -> TaskRecords]
      /\ status \in [Planted -> {"active", "revoked", None}] /\ cache \in [Workers -> SUBSET Planted]
      /\ KnownIsPlanted /\ RevokedIsFinal
  BY DEF CanaryInv, CanaryTyped
<1>2. task[k].step = "look up" /\ UNCHANGED <<status, cache, loaded, meanwhile>>
  BY DEF LookUp
<1>3. /\ task[k].worker \in Workers /\ task[k].token \in Planted /\ Busy(k)
      /\ task[k].outcome = None /\ task[k].kind = "check"
  BY <1>1, <1>2, CanaryAssumption DEF TaskRecords, Busy
<1>4. task' = [task EXCEPT ![k] = r]
  BY <1>1 DEF LookUp
<1>5. /\ r \in TaskRecords /\ r.step = "answer" /\ r.read = ActiveTokens \cap {task[k].token}
      /\ r.kind = task[k].kind /\ r.outcome = None
      /\ r.worker = task[k].worker /\ r.token = task[k].token /\ r.known = task[k].known
  BY <1>1, <1>3 DEF TaskRecords, ActiveTokens
<1>6. r.known /\ r.read = {} => status[r.token] = "revoked"
  BY <1>1, <1>3, <1>5 DEF KnownIsPlanted, ActiveTokens
<1> HIDE DEF r
<1> QED
  BY <1>1, <1>2, <1>3, <1>4, <1>5, <1>6, StepKeeps, CanaryAssumption

LEMMA TaskUpdate ==
  ASSUME NEW K, NEW W, NEW T, NEW N, NEW R, NEW S, NEW O, NEW s \in S, NEW o \in O,
         NEW c \in [kind : K, worker : W, token : T, known : N, read : R, step : S, outcome : O],
         NEW r, r = [c EXCEPT !.step = s, !.outcome = o]
  PROVE  /\ r \in [kind : K, worker : W, token : T, known : N, read : R, step : S, outcome : O]
         /\ r.step = s /\ r.outcome = o /\ r.kind = c.kind
         /\ r.worker = c.worker /\ r.token = c.token /\ r.known = c.known
OBVIOUS

(* A check that ends is the same check. *)
Ended(c, o) == [c EXCEPT !.step = "done", !.outcome = o]

SameCheck(r, c) ==
  r \in TaskRecords /\ r.kind = c.kind /\ r.worker = c.worker /\ r.token = c.token /\ r.known = c.known

LEMMA EndedIs ==
  ASSUME NEW c \in TaskRecords, c.kind = "check", c.worker \in Workers, c.token \in Planted,
         NEW o \in {"none", "none, empty", "triggered"}
  PROVE  SameCheck(Ended(c, o), c) /\ Ended(c, o).step = "done" /\ Ended(c, o).outcome = o
<1> DEFINE r == Ended(c, o)
<1> DEFINE K == {"check", "revoke", None}
           S == {"idle", "load", "fill", "look up", "answer", "update", "clear", "done"}
           O == {"none", "none, empty", "triggered", "revoked", "error", None}
<1>1. /\ c \in [kind : K, worker : Workers \cup {None}, token : Planted \cup {None}, known : BOOLEAN,
                read : SUBSET Planted, step : S, outcome : O]
      /\ "done" \in S /\ o \in O
  BY DEF TaskRecords
<1>2. /\ r \in [kind : K, worker : Workers \cup {None}, token : Planted \cup {None}, known : BOOLEAN,
                read : SUBSET Planted, step : S, outcome : O]
      /\ r.step = "done" /\ r.kind = c.kind /\ r.outcome = o
      /\ r.worker = c.worker /\ r.token = c.token /\ r.known = c.known
  <2>1. r = [c EXCEPT !.step = "done", !.outcome = o]
    BY DEF Ended
  <2> HIDE DEF K, S, O, r
  <2> QED
    BY <1>1, <2>1, TaskUpdate
<1> HIDE DEF r
<1>3. /\ IF r.step = "idle" THEN r.kind = None ELSE r.worker \in Workers /\ r.token \in Planted
      /\ r.step \in {"load", "fill", "look up", "answer"} => r.kind = "check"
      /\ r.step \in {"update", "clear"} \/ r.outcome = "revoked" => r.kind = "revoke"
      /\ r.outcome # None => r.step = "done"
  <2>1. r.step = "done" /\ r.outcome # "revoked" /\ r.worker \in Workers /\ r.token \in Planted
    BY <1>2
  <2> QED
    BY <2>1
<1>4. r \in TaskRecords
  BY <1>2, <1>3 DEF TaskRecords
<1> QED
  BY <1>2, <1>4 DEF r, SameCheck

(* A check that has scanned its cache is over or asks the table, and is the *)
(* same check.                                                              *)
LEMMA ScannedIs ==
  ASSUME NEW c \in TaskRecords, c.kind = "check", c.worker \in Workers, c.token \in Planted,
         c.outcome = None, NEW cached
  PROVE  LET r == Scanned(c, cached) IN
         SameCheck(r, c) /\ r.step \in {"look up", "done"} /\ r.outcome \notin {"revoked", "none"}
<1> DEFINE r == Scanned(c, cached)
           asks == [c EXCEPT !.step = "look up"]
<1>1. SameCheck(asks, c) /\ asks.step = "look up" /\ asks.outcome = None
  BY CanaryAssumption DEF TaskRecords, SameCheck
<1>2. r = Ended(c, "none, empty") \/ r = Ended(c, "triggered") \/ r = asks
  BY DEF Scanned, Ended
<1> HIDE DEF r, asks
<1> SUFFICES SameCheck(r, c) /\ r.step \in {"look up", "done"} /\ r.outcome \notin {"revoked", "none"}
  BY DEF r
<1>3. CASE r = Ended(c, "none, empty")
  <2>1. SameCheck(Ended(c, "none, empty"), c) /\ Ended(c, "none, empty").step = "done"
        /\ Ended(c, "none, empty").outcome = "none, empty"
    BY EndedIs
  <2> QED
    BY <1>3, <2>1
<1>4. CASE r = Ended(c, "triggered")
  <2>1. SameCheck(Ended(c, "triggered"), c) /\ Ended(c, "triggered").step = "done"
        /\ Ended(c, "triggered").outcome = "triggered"
    BY EndedIs
  <2> QED
    BY <1>4, <2>1
<1>5. CASE r = asks
  BY <1>1, <1>5, CanaryAssumption
<1> QED
  BY <1>2, <1>3, <1>4, <1>5

LEMMA FillCacheKeeps ==
  ASSUME CanaryInv, NEW k \in Tasks, FillCache(k)
  PROVE  CanaryInv'
<1> DEFINE r == Scanned(task[k], cache[task[k].worker] \cup task[k].read)
<1>1. /\ task[k] \in TaskRecords /\ task \in [Tasks -> TaskRecords]
      /\ status \in [Planted -> {"active", "revoked", None}] /\ cache \in [Workers -> SUBSET Planted]
      /\ KnownIsPlanted /\ RevokedIsFinal
  BY DEF CanaryInv, CanaryTyped
<1>2. task[k].step = "fill" /\ UNCHANGED <<status, meanwhile>>
  BY DEF FillCache
<1>3. /\ task[k].worker \in Workers /\ task[k].token \in Planted /\ Busy(k)
      /\ task[k].outcome = None /\ task[k].kind = "check"
  BY <1>1, <1>2, CanaryAssumption DEF TaskRecords, Busy
<1>4. /\ task' = [task EXCEPT ![k] = r]
      /\ cache' = [cache EXCEPT ![task[k].worker] = cache[task[k].worker] \cup task[k].read]
  BY DEF FillCache
<1>5. /\ r \in TaskRecords /\ r.step \in {"look up", "done"} /\ r.kind = task[k].kind
      /\ r.outcome \notin {"revoked", "none"}
      /\ r.worker = task[k].worker /\ r.token = task[k].token /\ r.known = task[k].known
  BY <1>1, <1>3, ScannedIs DEF SameCheck
<1>6. /\ cache' \in [Workers -> SUBSET Planted]
      /\ \A w \in Workers : \A t \in cache'[w] : t \in cache[w] \/ (w = r.worker /\ Brings(k) /\ t \in task[k].read)
  <2>1. task[k].read \subseteq Planted
    BY <1>1 DEF TaskRecords
  <2> QED
    BY <1>1, <1>2, <1>3, <1>4, <1>5, <2>1 DEF Brings
<1> HIDE DEF r
<1> QED
  BY <1>1, <1>2, <1>3, <1>4, <1>5, <1>6, StepKeeps

LEMMA AnswerLookUpKeeps ==
  ASSUME CanaryInv, NEW k \in Tasks, AnswerLookUp(k)
  PROVE  CanaryInv'
<1> DEFINE r == [task[k] EXCEPT !.step = "done",
                              !.outcome = IF task[k].read = {} THEN "none" ELSE "triggered"]
<1>1. /\ task[k] \in TaskRecords /\ task \in [Tasks -> TaskRecords]
      /\ status \in [Planted -> {"active", "revoked", None}] /\ cache \in [Workers -> SUBSET Planted]
      /\ KnownIsPlanted /\ RevokedIsFinal
  BY DEF CanaryInv, CanaryTyped
<1>2. task[k].step = "answer" /\ UNCHANGED <<status, loaded, meanwhile>>
  BY DEF AnswerLookUp
<1>3. /\ task[k].worker \in Workers /\ task[k].token \in Planted /\ Busy(k)
      /\ task[k].outcome = None /\ task[k].kind = "check"
  BY <1>1, <1>2, CanaryAssumption DEF TaskRecords, Busy
<1>4. /\ task' = [task EXCEPT ![k] = r]
      /\ cache' = [cache EXCEPT ![task[k].worker] = @ \cup task[k].read]
  BY <1>1 DEF AnswerLookUp
<1>5. /\ r \in TaskRecords /\ r.step = "done" /\ r.kind = task[k].kind
      /\ r.outcome = (IF task[k].read = {} THEN "none" ELSE "triggered")
      /\ r.worker = task[k].worker /\ r.token = task[k].token /\ r.known = task[k].known
  <2> DEFINE o == IF task[k].read = {} THEN "none" ELSE "triggered"
  <2>1. r = Ended(task[k], o)
    BY Zenon DEF Ended
  <2>3. o \in {"none", "none, empty", "triggered"}
    OBVIOUS
  <2> HIDE DEF r, o
  <2>2. /\ r \in TaskRecords /\ r.step = "done" /\ r.kind = task[k].kind /\ r.outcome = o
        /\ r.worker = task[k].worker /\ r.token = task[k].token /\ r.known = task[k].known
    BY <1>1, <1>3, <2>1, <2>3, EndedIs DEF SameCheck
  <2> QED
    BY <2>2 DEF o
<1>6. /\ cache' \in [Workers -> SUBSET Planted]
      /\ \A w \in Workers : \A t \in cache'[w] : t \in cache[w] \/ (w = r.worker /\ Brings(k) /\ t \in task[k].read)
  <2>1. task[k].read \subseteq Planted
    BY <1>1 DEF TaskRecords
  <2> QED
    BY <1>1, <1>2, <1>3, <1>4, <1>5, <2>1 DEF Brings
<1>7. r.known /\ r.outcome = "none" => status[r.token] = "revoked"
  BY <1>1, <1>2, <1>5 DEF KnownIsPlanted
<1> HIDE DEF r
<1> QED
  BY <1>1, <1>2, <1>3, <1>4, <1>5, <1>6, <1>7, StepKeeps

LEMMA UpdateStatusKeeps ==
  ASSUME CanaryInv, NEW k \in Tasks, UpdateStatus(k)
  PROVE  CanaryInv'
<1> DEFINE r == [task[k] EXCEPT !.step = "clear"]
<1>1. /\ task[k] \in TaskRecords /\ task \in [Tasks -> TaskRecords]
      /\ status \in [Planted -> {"active", "revoked", None}] /\ cache \in [Workers -> SUBSET Planted]
      /\ KnownIsPlanted /\ RevokedIsFinal
  BY DEF CanaryInv, CanaryTyped
<1>2. /\ task[k].step = "update" /\ UNCHANGED <<cache, loaded, meanwhile>>
      /\ status' = [status EXCEPT ![task[k].token] = "revoked"]
  BY DEF UpdateStatus
<1>3. /\ task[k].worker \in Workers /\ task[k].token \in Planted /\ Busy(k)
      /\ task[k].outcome = None /\ task[k].kind = "revoke"
  BY <1>1, <1>2, CanaryAssumption DEF TaskRecords, Busy
<1>4. task' = [task EXCEPT ![k] = r]
  BY <1>1 DEF UpdateStatus
<1>5. /\ r \in TaskRecords /\ r.step = "clear" /\ r.kind = task[k].kind /\ r.outcome = None
      /\ r.worker = task[k].worker /\ r.token = task[k].token /\ r.known = task[k].known
  BY <1>1, <1>3 DEF TaskRecords
<1>6. /\ status' \in [Planted -> {"active", "revoked", None}] /\ status'[task[k].token] = "revoked"
      /\ \A t \in Planted : status'[t] = status[t] \/ status'[t] = "revoked"
  BY <1>1, <1>2, <1>3
<1> HIDE DEF r
<1> QED
  BY <1>1, <1>2, <1>3, <1>4, <1>5, <1>6, StepKeeps, CanaryAssumption

LEMMA ClearCacheKeeps ==
  ASSUME CanaryInv, NEW k \in Tasks, ClearCache(k)
  PROVE  CanaryInv'
<1> DEFINE r == [task[k] EXCEPT !.step = "done", !.outcome = "revoked"]
<1>1. /\ task[k] \in TaskRecords /\ task \in [Tasks -> TaskRecords]
      /\ status \in [Planted -> {"active", "revoked", None}] /\ cache \in [Workers -> SUBSET Planted]
      /\ KnownIsPlanted /\ RevokedIsFinal
  BY DEF CanaryInv, CanaryTyped
<1>2. /\ task[k].step = "clear" /\ UNCHANGED <<status, meanwhile>>
      /\ cache' = [cache EXCEPT ![task[k].worker] = {}]
  BY DEF ClearCache
<1>3. /\ task[k].worker \in Workers /\ task[k].token \in Planted /\ Busy(k)
      /\ task[k].outcome = None /\ task[k].kind = "revoke"
  BY <1>1, <1>2, CanaryAssumption DEF TaskRecords, Busy
<1>4. task' = [task EXCEPT ![k] = r]
  BY <1>1 DEF ClearCache
<1>5. /\ r \in TaskRecords /\ r.step = "done" /\ r.kind = task[k].kind /\ r.outcome = "revoked"
      /\ r.worker = task[k].worker /\ r.token = task[k].token /\ r.known = task[k].known
  BY <1>1, <1>3 DEF TaskRecords
<1>6. status[task[k].token] = "revoked"
  BY <1>1, <1>2, <1>3 DEF RevokedIsFinal, Revokes
<1>7. /\ cache' \in [Workers -> SUBSET Planted] /\ cache'[r.worker] = {}
      /\ \A w \in Workers : \A t \in cache'[w] : t \in cache[w]
  BY <1>1, <1>2, <1>3, <1>5
<1> HIDE DEF r
<1> QED
  BY <1>1, <1>2, <1>3, <1>4, <1>5, <1>6, <1>7, StepKeeps

LEMMA CanaryFailsKeeps ==
  ASSUME CanaryInv, NEW k \in Tasks, CanaryFails(k)
  PROVE  CanaryInv'
<1> DEFINE r == [task[k] EXCEPT !.step = "done", !.outcome = "error"]
<1>1. /\ task[k] \in TaskRecords /\ task \in [Tasks -> TaskRecords]
      /\ status \in [Planted -> {"active", "revoked", None}] /\ cache \in [Workers -> SUBSET Planted]
      /\ KnownIsPlanted /\ RevokedIsFinal
  BY DEF CanaryInv, CanaryTyped
<1>2. task[k].step \in {"load", "look up", "update"} /\ UNCHANGED <<status, cache, loaded, meanwhile>>
  BY DEF CanaryFails
<1>3. /\ task[k].worker \in Workers /\ task[k].token \in Planted /\ Busy(k)
      /\ task[k].outcome = None /\ task[k].kind \in {"check", "revoke"}
  BY <1>1, <1>2, CanaryAssumption DEF TaskRecords, Busy
<1>4. task' = [task EXCEPT ![k] = r]
  BY <1>1 DEF CanaryFails
<1>5. /\ r \in TaskRecords /\ r.step = "done" /\ r.kind = task[k].kind /\ r.outcome = "error"
      /\ r.worker = task[k].worker /\ r.token = task[k].token /\ r.known = task[k].known
  BY <1>1, <1>3 DEF TaskRecords
<1> HIDE DEF r
<1> QED
  BY <1>1, <1>2, <1>3, <1>4, <1>5, StepKeeps

LEMMA CanaryNextKeeps ==
  ASSUME CanaryInv, CanaryNext
  PROVE  CanaryInv'
<1>1. CASE \E t \in Planted : Plant(t)
  BY <1>1, PlantKeeps
<1>2. CASE \E k \in Tasks, w \in Workers, t \in Planted : BeginCheck(k, w, t) \/ BeginRevoke(k, w, t)
  BY <1>2, BeginCheckKeeps, BeginRevokeKeeps
<1>3. ASSUME NEW k \in Tasks,
             \/ LoadRows(k) \/ FillCache(k) \/ LookUp(k) \/ AnswerLookUp(k)
             \/ UpdateStatus(k) \/ ClearCache(k) \/ CanaryFails(k)
      PROVE  CanaryInv'
  BY <1>3, LoadRowsKeeps, FillCacheKeeps, LookUpKeeps, AnswerLookUpKeeps, UpdateStatusKeeps,
     ClearCacheKeeps, CanaryFailsKeeps
<1> QED
  BY <1>1, <1>2, <1>3 DEF CanaryNext

LEMMA CanaryStutter ==
  ASSUME CanaryInv, UNCHANGED canary_vars
  PROVE  CanaryInv'
<1>1. UNCHANGED <<status, cache, loaded, task, meanwhile>>
  BY DEF canary_vars
<1>2. CanaryTyped' /\ BusyTogether' /\ RevokedIsFinal' /\ ReadBeforehand'
  BY <1>1 DEF CanaryInv, CanaryTyped, BusyTogether, RevokedIsFinal, ReadBeforehand, Busy, Revokes, Brings
<1>3. RevokedIsForgotten' /\ KnownIsPlanted' /\ MissedOnlyByAnEmptyCache'
  BY <1>1 DEF CanaryInv, RevokedIsForgotten, KnownIsPlanted, MissedOnlyByAnEmptyCache
<1> QED
  BY <1>2, <1>3 DEF CanaryInv

-----------------------------------------------------------------------------
LEMMA InitConnectionsInv == ConnectionsInit => ConnectionsInv
<1> SUFFICES ASSUME ConnectionsInit PROVE ConnectionsInv
  OBVIOUS
<1>1. ConnectionsTyped
  BY ConnectionsAssumption DEF ConnectionsInit, ConnectionsTyped, CallerRecords
<1>2. \A k \in Kinds : variable[k] = None /\ closing[k] = None
  BY DEF ConnectionsInit
<1>3. Held = {} /\ open = {}
  BY <1>2 DEF ConnectionsInit, Held
<1>4. \A c \in Callers : ~Making(c)
  BY DEF ConnectionsInit, Making
<1> QED
  BY <1>1, <1>2, <1>3, <1>4 DEF ConnectionsInv, OpenIsHeld, Kinds

(* What a step of a caller does to who makes a pool. *)
LEMMA CallerStep ==
  ASSUME ConnectionsTyped, NEW c \in Callers, NEW r \in CallerRecords, caller' = [caller EXCEPT ![c] = r]
  PROVE  /\ caller' \in [Callers -> CallerRecords]
         /\ \A d \in Callers : Making(d)' <=> IF d = c THEN r.step = "making" /\ r.kind = "pool" ELSE Making(d)
<1>1. \A d \in Callers : caller'[d] = IF d = c THEN r ELSE caller[d]
  BY DEF ConnectionsTyped
<1> QED
  BY <1>1 DEF ConnectionsTyped, Making

(* A caller that leaves the variables alone and makes no pool afterwards. *)
LEMMA CallerLeaves ==
  ASSUME ConnectionsInv, NEW c \in Callers, NEW r \in CallerRecords, caller' = [caller EXCEPT ![c] = r],
         ~(r.step = "making" /\ r.kind = "pool"), UNCHANGED <<variable, open, made, closing, together>>
  PROVE  ConnectionsInv'
<1>1. ConnectionsTyped /\ OpenIsHeld
  BY DEF ConnectionsInv
<1>2. /\ caller' \in [Callers -> CallerRecords]
      /\ \A d \in Callers : Making(d)' => Making(d)
  BY <1>1, CallerStep
<1>3. ConnectionsTyped'
  BY <1>1, <1>2 DEF ConnectionsTyped
<1>4. OpenIsHeld'
  BY <1>1, <1>2 DEF OpenIsHeld, Held
<1> QED
  BY <1>3, <1>4 DEF ConnectionsInv

(* A new resource, under its kind's variable, which was empty. *)
LEMMA NewResource ==
  ASSUME ConnectionsInv, NEW c \in Callers, NEW r \in CallerRecords, caller' = [caller EXCEPT ![c] = r],
         ~(r.step = "making" /\ r.kind = "pool"), NEW kind \in Kinds,
         together = {} => variable[kind] = None,
         kind = "pool" => Making(c),
         made < Resources, made' = made + 1, open' = open \cup {made'},
         variable' = [variable EXCEPT ![kind] = made'], UNCHANGED <<closing, together>>
  PROVE  ConnectionsInv'
<1>1. ConnectionsTyped /\ OpenIsHeld
  BY DEF ConnectionsInv
<1>2. /\ caller' \in [Callers -> CallerRecords]
      /\ \A d \in Callers : Making(d)' <=> d # c /\ Making(d)
  BY <1>1, CallerStep
<1>3. /\ made \in Nat /\ Resources \in Nat /\ made' \in 0..Resources /\ made' # None
      /\ 1..made \subseteq 1..made' /\ made' \in 1..made' /\ made' \notin 1..made
  BY <1>1, ConnectionsAssumption DEF ConnectionsTyped
<1>4. \A k \in Kinds : variable'[k] = IF k = kind THEN made' ELSE variable[k]
  BY <1>1 DEF ConnectionsTyped
<1>5. ConnectionsTyped'
  <2>1. variable' \in [Kinds -> 1..made' \cup {None}]
    BY <1>1, <1>3 DEF ConnectionsTyped
  <2>2. closing' \in [Kinds -> 1..made' \cup {None}]
    BY <1>1, <1>3 DEF ConnectionsTyped
  <2> QED
    BY <1>2, <1>3, <2>1, <2>2 DEF ConnectionsTyped
<1>6. ASSUME together = {} PROVE
        /\ open' = Held'
        /\ variable'["pool"] # None => variable'["pool"] # variable'["redis"]
        /\ \A k \in Kinds : closing[k] # None => closing[k] = variable'[k]
        /\ \A d \in Callers : Making(d)' => variable'["pool"] = None
        /\ \A d, e \in Callers : Making(d)' /\ Making(e)' => d = e
  <2>1. /\ open = Held /\ variable[kind] = None
        /\ \A k \in Kinds : closing[k] # None => closing[k] = variable[k]
        /\ \A d \in Callers : Making(d) => variable["pool"] = None
        /\ \A d, e \in Callers : Making(d) /\ Making(e) => d = e
    BY <1>1, <1>6 DEF OpenIsHeld
  <2>2. Held' = Held \cup {made'}
    BY <1>3, <1>4, <2>1 DEF Held
  <2>3. \A k \in Kinds : variable[k] \in 1..made \cup {None}
    BY <1>1 DEF ConnectionsTyped
  <2>4. variable'["pool"] # None => variable'["pool"] # variable'["redis"]
    BY <1>3, <1>4, <2>3 DEF Kinds
  <2>5. \A k \in Kinds : closing[k] # None => closing[k] = variable'[k]
    BY <1>4, <2>1
  <2>6. ASSUME NEW d \in Callers, Making(d)' PROVE variable'["pool"] = None
    <3>1. Making(d) /\ d # c
      BY <1>2, <2>6
    <3>2. kind # "pool"
      BY <2>1, <3>1
    <3> QED
      BY <1>4, <2>1, <3>1, <3>2 DEF Kinds
  <2> QED
    BY <1>2, <2>1, <2>2, <2>4, <2>5, <2>6
<1> QED
  BY <1>5, <1>6 DEF ConnectionsInv, OpenIsHeld

(* What the actions write into the caller's record. *)
LEMMA RecordWritten ==
  ASSUME ConnectionsTyped, NEW c \in Callers, NEW kind \in Kinds, NEW step \in {"making", "done"},
         NEW makes \in Nat \cup {None}, NEW result \in Nat \cup {None}
  PROVE  /\ [kind |-> kind, step |-> step, attempts |-> caller[c].attempts,
             makes |-> makes, result |-> result] \in CallerRecords
         /\ [kind |-> kind, step |-> step, attempts |-> caller[c].attempts + 1,
             makes |-> makes, result |-> result] \in CallerRecords
<1>1. caller[c].attempts \in Nat
  BY DEF ConnectionsTyped, CallerRecords
<1> QED
  BY <1>1 DEF CallerRecords

LEMMA Numbers ==
  ASSUME ConnectionsTyped
  PROVE  \A k \in Kinds : variable[k] \in Nat \cup {None}
BY DEF ConnectionsTyped

LEMMA AskPoolKeeps ==
  ASSUME ConnectionsInv, NEW c \in Callers, AskPool(c)
  PROVE  ConnectionsInv'
<1>1. ConnectionsTyped /\ OpenIsHeld /\ UNCHANGED <<variable, open, made, closing>>
  BY DEF ConnectionsInv, AskPool
<1>2. CASE variable["pool"] = None
  <2> DEFINE r == [kind |-> "pool", step |-> "making", attempts |-> caller[c].attempts + 1,
                   makes |-> None, result |-> None]
  <2>1. /\ caller' = [caller EXCEPT ![c] = r]
        /\ together' = together \cup {{c, d} : d \in {e \in Callers : Making(e)}}
    BY <1>2 DEF AskPool, Goes
  <2>2. r.step = "making" /\ r.kind = "pool" /\ r \in CallerRecords
    BY <1>1, RecordWritten DEF Kinds
  <2> HIDE DEF r
  <2>3. /\ caller' \in [Callers -> CallerRecords]
        /\ \A d \in Callers : Making(d)' <=> d = c \/ Making(d)
    BY <1>1, <2>1, <2>2, CallerStep
  <2>4. ConnectionsTyped'
    BY <1>1, <2>3 DEF ConnectionsTyped
  <2>5. together' = {} => together = {} /\ \A d \in Callers : ~Making(d)
    BY <2>1
  <2>6. Held' = Held
    BY <1>1 DEF Held
  <2>7. OpenIsHeld'
    <3> SUFFICES ASSUME together' = {} PROVE
          /\ open = Held
          /\ variable["pool"] # None => variable["pool"] # variable["redis"]
          /\ \A k \in Kinds : closing[k] # None => closing[k] = variable[k]
          /\ \A d \in Callers : Making(d)' => variable["pool"] = None
          /\ \A d, e \in Callers : Making(d)' /\ Making(e)' => d = e
      BY <1>1, <2>6 DEF OpenIsHeld
    <3>1. together = {}
      BY <2>5
    <3> QED
      BY <1>1, <1>2, <2>3, <2>5, <3>1 DEF OpenIsHeld
  <2> QED
    BY <2>4, <2>7 DEF ConnectionsInv
<1>3. CASE variable["pool"] # None
  <2> DEFINE r == [kind |-> "pool", step |-> "done", attempts |-> caller[c].attempts,
                   makes |-> None, result |-> variable["pool"]]
  <2>1. caller' = [caller EXCEPT ![c] = r] /\ UNCHANGED together
    BY <1>3 DEF AskPool, Goes
  <2>2. r.step # "making" /\ r \in CallerRecords
    BY RecordWritten, Numbers DEF Kinds, ConnectionsInv
  <2> HIDE DEF r
  <2> QED
    BY <1>1, <2>1, <2>2, CallerLeaves
<1> QED
  BY <1>2, <1>3

LEMMA PoolStandsKeeps ==
  ASSUME ConnectionsInv, NEW c \in Callers, PoolStands(c)
  PROVE  ConnectionsInv'
<1> DEFINE r == [kind |-> "pool", step |-> "done", attempts |-> caller[c].attempts,
                 makes |-> None, result |-> made']
<1>1. /\ Making(c) /\ made < Resources /\ made' = made + 1 /\ open' = open \cup {made'}
      /\ variable' = [variable EXCEPT !["pool"] = made'] /\ UNCHANGED <<closing, together>>
      /\ caller' = [caller EXCEPT ![c] = r]
  BY DEF PoolStands, Goes
<1>2. r.step # "making" /\ "pool" \in Kinds /\ r \in CallerRecords
  <2>1. made' \in Nat /\ ConnectionsTyped
    BY <1>1 DEF ConnectionsInv, ConnectionsTyped
  <2> QED
    BY <2>1, RecordWritten DEF Kinds
<1>3. together = {} => variable["pool"] = None
  BY <1>1 DEF ConnectionsInv, OpenIsHeld
<1> HIDE DEF r
<1> QED
  BY <1>1, <1>2, <1>3, NewResource

LEMMA AskRedisKeeps ==
  ASSUME ConnectionsInv, NEW c \in Callers, AskRedis(c)
  PROVE  ConnectionsInv'
<1>1. CASE variable["redis"] = None
  <2> DEFINE r == [kind |-> "redis", step |-> "making", attempts |-> caller[c].attempts + 1,
                   makes |-> made', result |-> None]
  <2>1. /\ made < Resources /\ made' = made + 1 /\ open' = open \cup {made'}
        /\ variable' = [variable EXCEPT !["redis"] = made'] /\ UNCHANGED <<closing, together>>
        /\ caller' = [caller EXCEPT ![c] = r]
    BY <1>1 DEF AskRedis, Goes
  <2>2. r.kind # "pool" /\ "redis" \in Kinds /\ r \in CallerRecords
    <3>1. made' \in Nat /\ ConnectionsTyped
      BY <2>1 DEF ConnectionsInv, ConnectionsTyped
    <3> QED
      BY <3>1, RecordWritten DEF Kinds
  <2> HIDE DEF r
  <2> QED
    BY <1>1, <2>1, <2>2, NewResource
<1>2. CASE variable["redis"] # None
  <2> DEFINE r == [kind |-> "redis", step |-> "done", attempts |-> caller[c].attempts,
                   makes |-> None, result |-> variable["redis"]]
  <2>1. caller' = [caller EXCEPT ![c] = r] /\ UNCHANGED <<variable, open, made, closing, together>>
    BY <1>2 DEF AskRedis, Goes
  <2>2. r.step # "making" /\ r \in CallerRecords
    BY RecordWritten, Numbers DEF Kinds, ConnectionsInv
  <2> HIDE DEF r
  <2> QED
    BY <2>1, <2>2, CallerLeaves
<1> QED
  BY <1>1, <1>2

LEMMA CallerEndsKeeps ==
  ASSUME ConnectionsInv, NEW c \in Callers, PingAnswers(c) \/ AttemptFails(c) \/ GivesUp(c)
  PROVE  ConnectionsInv'
<1>1. UNCHANGED <<variable, open, made, closing, together>>
  BY DEF PingAnswers, AttemptFails, GivesUp
<1>2. CASE PingAnswers(c)
  <2> DEFINE r == [kind |-> "redis", step |-> "done", attempts |-> caller[c].attempts,
                   makes |-> None, result |-> variable["redis"]]
  <2>1. caller' = [caller EXCEPT ![c] = r] /\ r.step # "making" /\ r \in CallerRecords
    BY <1>2, RecordWritten, Numbers DEF PingAnswers, Goes, Kinds, ConnectionsInv
  <2> HIDE DEF r
  <2> QED
    BY <1>1, <2>1, CallerLeaves
<1>3. CASE AttemptFails(c) \/ GivesUp(c)
  <2>1. caller \in [Callers -> CallerRecords]
    BY DEF ConnectionsInv, ConnectionsTyped
  <2>2. PICK step \in {"waits", "done"}, result \in {None, Error} :
          caller' = [caller EXCEPT ![c].step = step, ![c].makes = None, ![c].result = result]
    <3>1. CASE AttemptFails(c) /\ caller[c].attempts < Attempts
      BY <3>1 DEF AttemptFails
    <3>2. CASE AttemptFails(c) /\ ~(caller[c].attempts < Attempts)
      BY <3>2 DEF AttemptFails
    <3>3. CASE GivesUp(c)
      BY <3>3 DEF GivesUp
    <3> QED
      BY <1>3, <3>1, <3>2, <3>3
  <2> DEFINE r == [caller[c] EXCEPT !.step = step, !.makes = None, !.result = result]
  <2>3. caller' = [caller EXCEPT ![c] = r]
    BY <2>1, <2>2
  <2>4. r \in CallerRecords /\ r.step # "making"
    <3>1. caller[c] \in CallerRecords /\ result \in Nat \cup {None}
      BY <2>1, <2>2 DEF Error
    <3> QED
      BY <2>2, <3>1 DEF CallerRecords
  <2> HIDE DEF r
  <2> QED
    BY <1>1, <2>3, <2>4, CallerLeaves
<1> QED
  BY <1>2, <1>3

LEMMA CloseKeeps ==
  ASSUME ConnectionsInv, NEW kind \in Kinds, CloseBegins(kind) \/ CloseEnds(kind)
  PROVE  ConnectionsInv'
<1>1. ConnectionsTyped /\ OpenIsHeld /\ UNCHANGED <<made, asked, caller, together>>
  BY DEF ConnectionsInv, CloseBegins, CloseEnds
<1>2. \A d \in Callers : Making(d)' <=> Making(d)
  BY <1>1 DEF Making
<1>3. CASE CloseBegins(kind)
  <2>1. closing' = [closing EXCEPT ![kind] = variable[kind]] /\ UNCHANGED <<variable, open>>
    BY <1>3 DEF CloseBegins
  <2>2. ConnectionsTyped'
    BY <1>1, <2>1 DEF ConnectionsTyped
  <2>3. \A k \in Kinds : closing'[k] = IF k = kind THEN variable[k] ELSE closing[k]
    BY <1>1, <2>1 DEF ConnectionsTyped
  <2>4. OpenIsHeld'
    BY <1>1, <1>2, <2>1, <2>3 DEF OpenIsHeld, Held
  <2> QED
    BY <2>2, <2>4 DEF ConnectionsInv
<1>4. CASE CloseEnds(kind)
  <2>1. /\ closing[kind] # None /\ open' = open \ {closing[kind]}
        /\ variable' = [variable EXCEPT ![kind] = None] /\ closing' = [closing EXCEPT ![kind] = None]
    BY <1>4 DEF CloseEnds
  <2>2. ConnectionsTyped'
    BY <1>1, <2>1 DEF ConnectionsTyped
  <2>3. \A k \in Kinds : /\ variable'[k] = IF k = kind THEN None ELSE variable[k]
                         /\ closing'[k] = IF k = kind THEN None ELSE closing[k]
    BY <1>1, <2>1 DEF ConnectionsTyped
  <2>4. ASSUME together = {} PROVE
          /\ open' = Held'
          /\ variable'["pool"] # None => variable'["pool"] # variable'["redis"]
          /\ \A k \in Kinds : closing'[k] # None => closing'[k] = variable'[k]
          /\ \A d \in Callers : Making(d)' => variable'["pool"] = None
          /\ \A d, e \in Callers : Making(d)' /\ Making(e)' => d = e
    <3>1. /\ open = Held
          /\ variable["pool"] # None => variable["pool"] # variable["redis"]
          /\ \A k \in Kinds : closing[k] # None => closing[k] = variable[k]
          /\ \A d \in Callers : Making(d) => variable["pool"] = None
          /\ \A d, e \in Callers : Making(d) /\ Making(e) => d = e
      BY <1>1, <2>4 DEF OpenIsHeld
    <3>2. Held' = Held \ {variable[kind]}
      <4>1. \A k \in Kinds : k # kind /\ variable[k] # None => variable[k] # variable[kind]
        BY <3>1 DEF Kinds
      <4> QED
        BY <2>3, <4>1 DEF Held
    <3>3. open' = Held'
      BY <2>1, <3>1, <3>2
    <3>4. variable'["pool"] # None => variable'["pool"] # variable'["redis"]
      BY <2>3, <3>1 DEF Kinds
    <3>5. variable["pool"] = None => variable'["pool"] = None
      BY <2>3 DEF Kinds
    <3> QED
      BY <1>2, <2>3, <3>1, <3>3, <3>4, <3>5
  <2> QED
    BY <1>1, <2>2, <2>4 DEF ConnectionsInv, OpenIsHeld
<1> QED
  BY <1>3, <1>4

LEMMA ConnectionsNextKeeps ==
  ASSUME ConnectionsInv, ConnectionsNext
  PROVE  ConnectionsInv'
<1>1. ASSUME NEW c \in Callers,
             \/ AskPool(c) \/ PoolStands(c) \/ AskRedis(c) \/ PingAnswers(c)
             \/ AttemptFails(c) \/ GivesUp(c)
      PROVE  ConnectionsInv'
  BY <1>1, AskPoolKeeps, PoolStandsKeeps, AskRedisKeeps, CallerEndsKeeps
<1>2. ASSUME NEW k \in Kinds, CloseBegins(k) \/ CloseEnds(k) PROVE ConnectionsInv'
  BY <1>2, CloseKeeps
<1> QED
  BY <1>1, <1>2 DEF ConnectionsNext

LEMMA ConnectionsStutter ==
  ASSUME ConnectionsInv, UNCHANGED connection_vars
  PROVE  ConnectionsInv'
BY DEF connection_vars, ConnectionsInv, ConnectionsTyped, OpenIsHeld, Held, Making

-----------------------------------------------------------------------------
LEMMA Tables ==
  /\ \A k \in EditKinds : TableOf(k) \in {"admin", "budget"}
  /\ \A tbl \in {"admin", "budget"} : Row(tbl) \subseteq AnyRow
BY DEF TableOf, AnyRow

LEMMA InitRowsInv == RowsInit => RowsInv
<1> SUFFICES ASSUME RowsInit PROVE RowsInv
  OBVIOUS
<1>1. \A e \in Edits : editing[e] = "idle"
  BY DEF RowsInit
<1>2. wrote = <<>>
  BY DEF RowsInit
<1>3. RowsTyped
  <2>1. rows \in [{"admin", "budget"} -> AnyRow] /\ \A tbl \in {"admin", "budget"} : rows[tbl] = None
    BY DEF RowsInit, AnyRow
  <2>2. edit \in [Edits -> EditRecords]
    BY DEF RowsInit, EditRecords, AnyRow
  <2>3. editing \in [Edits -> {"idle", "read", "write", "done"}]
    BY DEF RowsInit
  <2>4. wrote \in Seq([by : Edits, row : AnyRow, before : AnyRow])
    BY <1>2
  <2> QED
    BY <1>1, <2>1, <2>2, <2>3, <2>4 DEF RowsTyped
<1>4. NotedTogether /\ ReadIsThere
  BY <1>1 DEF NotedTogether, ReadIsThere, UnderWay
<1>5. WritersAreDone /\ KeptUnlessOverlapped /\ SetupIsOnce
  <2>1. DOMAIN wrote = {}
    BY <1>2
  <2> QED
    BY <2>1 DEF WritersAreDone, KeptUnlessOverlapped, SetupIsOnce
<1> QED
  BY <1>3, <1>4, <1>5 DEF RowsInv

LEMMA WritersTyped ==
  ASSUME RowsInv
  PROVE  \A i \in DOMAIN wrote : wrote[i].by \in Edits /\ editing[wrote[i].by] = "done"
<1> DEFINE S == [by : Edits, row : AnyRow, before : AnyRow]
<1>1. wrote \in Seq(S) /\ WritersAreDone
  BY DEF RowsInv, RowsTyped
<1>2. \A v \in S : v.by \in Edits
  OBVIOUS
<1> HIDE DEF S
<1>3. \A i \in DOMAIN wrote : wrote[i] \in S
  BY <1>1
<1> QED
  BY <1>1, <1>2, <1>3 DEF WritersAreDone

(* What was written is judged as before, when its writers are as before.   *)
LEMMA JudgedAsBefore ==
  ASSUME RowsInv, NEW e \in Edits, editing[e] # "done",
         \A o \in Edits : o # e => edit'[o] = edit[o] /\ editing'[o] = editing[o],
         overlap \subseteq overlap', wrote' = wrote
  PROVE  WritersAreDone' /\ KeptUnlessOverlapped' /\ SetupIsOnce'
<1>1. RowsTyped /\ WritersAreDone /\ KeptUnlessOverlapped /\ SetupIsOnce
  BY DEF RowsInv
<1>2. \A i \in DOMAIN wrote : wrote[i].by \in Edits /\ wrote[i].by # e
  BY WritersTyped
<1>3. \A o : Overlapped(o) => Overlapped(o)'
  BY DEF Overlapped
<1>4. WritersAreDone'
  BY <1>1, <1>2 DEF WritersAreDone
<1>5. KeptUnlessOverlapped'
  BY <1>1, <1>2, <1>3 DEF KeptUnlessOverlapped
<1>6. SetupIsOnce'
  BY <1>1, <1>2, <1>3 DEF SetupIsOnce
<1> QED
  BY <1>4, <1>5, <1>6

LEMMA EditBeginsKeeps ==
  ASSUME RowsInv, NEW e \in Edits, EditBegins(e)
  PROVE  RowsInv'
<1>1. RowsTyped /\ NotedTogether /\ ReadIsThere
  BY DEF RowsInv
<1>2. PICK k \in EditKinds, named \in SUBSET (FieldsOf("admin") \cup FieldsOf("budget")) :
        /\ k \in {"setup", "create_budget"} => named = FieldsOf(TableOf(k))
        /\ edit' = [edit EXCEPT ![e] = [kind |-> k, asked |-> named, seen |-> None,
                                        blind |-> FALSE, status |-> None]]
        /\ editing' = [editing EXCEPT ![e] = IF k = "create_budget" THEN "write" ELSE "read"]
  BY DEF EditBegins
<1>3. /\ editing[e] = "idle" /\ UNCHANGED <<rows, wrote>>
      /\ overlap' = overlap \cup {{e, other} : other \in {o \in Edits : UnderWay(o)}}
  BY DEF EditBegins
<1> DEFINE x == [kind |-> k, asked |-> named, seen |-> None, blind |-> FALSE, status |-> None]
<1>4. x \in EditRecords /\ x.kind = k /\ x.asked = named
  BY DEF EditRecords, AnyRow
<1>5. /\ \A o \in Edits : edit'[o] = IF o = e THEN x ELSE edit[o]
      /\ \A o \in Edits : editing'[o] = IF o = e THEN IF k = "create_budget" THEN "write" ELSE "read"
                                        ELSE editing[o]
  BY <1>1, <1>2 DEF RowsTyped
<1> HIDE DEF x
<1>6. RowsTyped'
  <2>1. edit' \in [Edits -> EditRecords] /\ editing' \in [Edits -> {"idle", "read", "write", "done"}]
    BY <1>1, <1>2, <1>4 DEF RowsTyped, x
  <2>2. ASSUME NEW o \in Edits PROVE
          /\ editing'[o] # "idle" => edit'[o].kind \in EditKinds
          /\ editing'[o] # "idle" /\ edit'[o].kind \in {"setup", "create_budget"} =>
               edit'[o].asked = FieldsOf(TableOf(edit'[o].kind))
          /\ editing'[o] = "write" /\ edit'[o].kind \in {"settings", "update_budget"} =>
               edit'[o].seen \in Row(TableOf(edit'[o].kind))
    <3>1. CASE o = e
      BY <1>2, <1>4, <1>5, <3>1
    <3>2. CASE o # e
      BY <1>1, <1>5, <3>2 DEF RowsTyped
    <3> QED
      BY <3>1, <3>2
  <2> QED
    BY <1>1, <1>3, <2>1, <2>2 DEF RowsTyped
<1>7. NotedTogether'
  <2> SUFFICES ASSUME NEW a \in Edits, NEW b \in Edits, a # b, UnderWay(a)', UnderWay(b)'
               PROVE  {a, b} \in overlap'
    BY DEF NotedTogether
  <2>1. CASE a = e
    BY <1>3, <1>5, <2>1 DEF UnderWay
  <2>2. CASE b = e
    <3>1. {e, a} \in overlap' /\ {a, b} = {e, a}
      BY <1>3, <1>5, <2>2 DEF UnderWay
    <3> QED
      BY <3>1
  <2>3. CASE a # e /\ b # e
    BY <1>1, <1>3, <1>5, <2>3 DEF UnderWay, NotedTogether
  <2> QED
    BY <2>1, <2>2, <2>3
<1>8. ReadIsThere'
  <2> SUFFICES ASSUME NEW o \in Edits, editing'[o] = "write", ~Overlapped(o)'
               PROVE  /\ edit'[o].kind \in {"settings", "update_budget"} => edit'[o].seen = RowOf(o)'
                      /\ edit'[o].kind = "setup" => RowOf(o)' = None \/ edit'[o].blind
    BY DEF ReadIsThere
  <2>1. CASE o = e
    BY <1>2, <1>4, <1>5, <2>1
  <2>2. CASE o # e
    <3>1. editing[o] = "write" /\ ~Overlapped(o) /\ edit'[o] = edit[o] /\ RowOf(o)' = RowOf(o)
      BY <1>3, <1>5, <2>2 DEF Overlapped, RowOf
    <3> QED
      BY <1>1, <3>1 DEF ReadIsThere
  <2> QED
    BY <2>1, <2>2
<1>9. WritersAreDone' /\ KeptUnlessOverlapped' /\ SetupIsOnce'
  BY <1>3, <1>5, JudgedAsBefore
<1> QED
  BY <1>6, <1>7, <1>8, <1>9 DEF RowsInv

(* A request that ends without having written. *)
LEMMA AnswerKeeps ==
  ASSUME RowsInv, NEW e \in Edits, UnderWay(e), NEW code \in {"ok", "refused", "error"},
         AnswerEdit(e, code), UNCHANGED <<rows, wrote, overlap>>
  PROVE  RowsInv'
<1>1. RowsTyped /\ NotedTogether /\ ReadIsThere
  BY DEF RowsInv
<1>2. /\ \A o \in Edits : edit'[o] = IF o = e THEN [edit[e] EXCEPT !.status = code] ELSE edit[o]
      /\ \A o \in Edits : editing'[o] = IF o = e THEN "done" ELSE editing[o]
      /\ edit' = [edit EXCEPT ![e] = [edit[e] EXCEPT !.status = code]]
      /\ editing' \in [Edits -> {"idle", "read", "write", "done"}]
  BY <1>1 DEF AnswerEdit, RowsTyped
<1>3. /\ [edit[e] EXCEPT !.status = code] \in EditRecords
      /\ edit'[e].kind = edit[e].kind /\ edit'[e].asked = edit[e].asked
  <2>1. edit[e] \in EditRecords /\ edit'[e] = [edit[e] EXCEPT !.status = code]
    BY <1>1, <1>2 DEF RowsTyped
  <2> QED
    BY <2>1 DEF EditRecords
<1>4. RowsTyped'
  <2>1. edit' \in [Edits -> EditRecords]
    BY <1>1, <1>2, <1>3 DEF RowsTyped
  <2>2. editing[e] # "idle"
    BY DEF UnderWay
  <2> QED
    BY <1>1, <1>2, <1>3, <2>1, <2>2 DEF RowsTyped
<1>5. NotedTogether'
  BY <1>1, <1>2 DEF NotedTogether, UnderWay
<1>6. ReadIsThere'
  <2> SUFFICES ASSUME NEW o \in Edits, editing'[o] = "write" /\ ~Overlapped(o)'
               PROVE  /\ edit'[o].kind \in {"settings", "update_budget"} => edit'[o].seen = RowOf(o)'
                      /\ edit'[o].kind = "setup" => RowOf(o)' = None \/ edit'[o].blind
    BY DEF ReadIsThere
  <2>1. o # e /\ edit'[o] = edit[o] /\ editing[o] = "write"
    BY <1>2
  <2>2. RowOf(o)' = RowOf(o) /\ ~Overlapped(o)
    BY <2>1 DEF RowOf, Overlapped
  <2> QED
    BY <1>1, <2>1, <2>2 DEF ReadIsThere
<1>7. WritersAreDone' /\ KeptUnlessOverlapped' /\ SetupIsOnce'
  BY <1>2, JudgedAsBefore DEF UnderWay
<1> QED
  BY <1>4, <1>5, <1>6, <1>7 DEF RowsInv

LEMMA EditReadsKeeps ==
  ASSUME RowsInv, NEW e \in Edits, EditReads(e)
  PROVE  RowsInv'
<1>1. RowsTyped /\ NotedTogether /\ ReadIsThere
  BY DEF RowsInv
<1>2. editing[e] = "read" /\ UnderWay(e) /\ UNCHANGED <<rows, wrote, overlap>>
  BY DEF EditReads, UnderWay
<1>3. CASE AnswerEdit(e, "refused") \/ AnswerEdit(e, "error")
  BY <1>2, <1>3, AnswerKeeps
<1>4. ASSUME NEW row \in {RowOf(e), None}, MayWrite(edit[e].kind, row),
             edit' = [edit EXCEPT ![e].seen = row, ![e].blind = row # RowOf(e)],
             editing' = [editing EXCEPT ![e] = "write"]
      PROVE  RowsInv'
  <2> DEFINE x == [edit[e] EXCEPT !.seen = row, !.blind = row # RowOf(e)]
  <2>1. edit[e] \in EditRecords /\ edit[e].kind \in EditKinds /\ TableOf(edit[e].kind) \in {"admin", "budget"}
    BY <1>1, <1>2, Tables DEF RowsTyped
  <2>2. RowOf(e) \in Row(TableOf(edit[e].kind)) \cup {None} /\ row \in AnyRow
    BY <1>1, <2>1, Tables DEF RowsTyped, RowOf, AnyRow
  <2>3. /\ x \in EditRecords /\ x.kind = edit[e].kind /\ x.asked = edit[e].asked /\ x.seen = row
        /\ x.blind = (row # RowOf(e))
    <3>1. (row # RowOf(e)) \in BOOLEAN
      OBVIOUS
    <3> QED
      BY <2>1, <2>2, <3>1 DEF EditRecords
  <2>4. edit' = [edit EXCEPT ![e] = x]
    BY <1>1, <1>4, <2>1 DEF RowsTyped, EditRecords
  <2> HIDE DEF x
  <2>5. /\ \A o \in Edits : edit'[o] = IF o = e THEN x ELSE edit[o]
        /\ \A o \in Edits : editing'[o] = IF o = e THEN "write" ELSE editing[o]
    BY <1>1, <1>4, <2>4 DEF RowsTyped
  <2>6. edit[e].kind \in {"settings", "update_budget"} => row = RowOf(e) /\ row # None
    BY <1>4 DEF MayWrite
  <2>7. RowsTyped'
    <3>1. edit' \in [Edits -> EditRecords] /\ editing' \in [Edits -> {"idle", "read", "write", "done"}]
      <4>1. edit \in [Edits -> EditRecords] /\ editing \in [Edits -> {"idle", "read", "write", "done"}]
        BY <1>1 DEF RowsTyped
      <4>2. x \in EditRecords
        BY <2>3
      <4>3. edit' \in [Edits -> EditRecords]
        BY <2>4, <4>1, <4>2
      <4>4. editing' = [editing EXCEPT ![e] = "write"]
        BY <1>4
      <4>5. editing' \in [Edits -> {"idle", "read", "write", "done"}]
        BY <4>1, <4>4
      <4> QED
        BY <4>3, <4>5
    <3>2. ASSUME NEW o \in Edits PROVE
            /\ editing'[o] # "idle" => edit'[o].kind \in EditKinds
            /\ editing'[o] # "idle" /\ edit'[o].kind \in {"setup", "create_budget"} =>
                 edit'[o].asked = FieldsOf(TableOf(edit'[o].kind))
            /\ editing'[o] = "write" /\ edit'[o].kind \in {"settings", "update_budget"} =>
                 edit'[o].seen \in Row(TableOf(edit'[o].kind))
      <4>1. CASE o = e
        BY <1>1, <1>2, <2>1, <2>2, <2>3, <2>5, <2>6, <4>1 DEF RowsTyped
      <4>2. CASE o # e
        BY <1>1, <2>5, <4>2 DEF RowsTyped
      <4> QED
        BY <4>1, <4>2
    <3> QED
      BY <1>1, <1>2, <3>1, <3>2 DEF RowsTyped
  <2>8. NotedTogether'
    BY <1>1, <1>2, <2>5 DEF NotedTogether, UnderWay
  <2>9. ReadIsThere'
    <3> SUFFICES ASSUME NEW o \in Edits, editing'[o] = "write", ~Overlapped(o)'
                 PROVE  /\ edit'[o].kind \in {"settings", "update_budget"} => edit'[o].seen = RowOf(o)'
                        /\ edit'[o].kind = "setup" => RowOf(o)' = None \/ edit'[o].blind
      BY DEF ReadIsThere
    <3>1. RowOf(o)' = RowOf(o) /\ ~Overlapped(o)
      BY <1>2, <2>3, <2>5 DEF RowOf, Overlapped
    <3>2. CASE o = e
      <4>1. edit[e].kind = "setup" => row = None
        BY <1>4 DEF MayWrite
      <4> QED
        BY <2>3, <2>5, <2>6, <3>1, <3>2, <4>1
    <3>3. CASE o # e
      BY <1>1, <2>5, <3>1, <3>3 DEF ReadIsThere
    <3> QED
      BY <3>2, <3>3
  <2>10. WritersAreDone' /\ KeptUnlessOverlapped' /\ SetupIsOnce'
    BY <1>2, <2>5, JudgedAsBefore
  <2> QED
    BY <2>7, <2>8, <2>9, <2>10 DEF RowsInv
<1> QED
  BY <1>3, <1>4 DEF EditReads

LEMMA MergedIs ==
  ASSUME RowsInv, NEW e \in Edits, editing[e] = "write", edit[e].kind # "delete_budget"
  PROVE  /\ Merged(e) \in Row(TableOf(edit[e].kind))
         /\ DOMAIN Merged(e) = FieldsOf(TableOf(edit[e].kind))
         /\ \A f \in DOMAIN Merged(e) \ edit[e].asked : Merged(e)[f] = edit[e].seen[f]
<1>1. RowsTyped /\ edit[e].kind \in EditKinds
  BY DEF RowsInv, RowsTyped
<1>2. /\ edit[e].kind \in {"setup", "create_budget"} => edit[e].asked = FieldsOf(TableOf(edit[e].kind))
      /\ edit[e].kind \in {"settings", "update_budget"} => edit[e].seen \in Row(TableOf(edit[e].kind))
  BY <1>1 DEF RowsTyped
<1> DEFINE F == FieldsOf(TableOf(edit[e].kind))
<1>3. ASSUME NEW f \in F PROVE (IF f \in edit[e].asked THEN e ELSE edit[e].seen[f]) \in Edits \cup {0}
  <2>1. CASE f \in edit[e].asked
    BY <2>1
  <2>2. CASE f \notin edit[e].asked
    <3>1. edit[e].kind \in {"settings", "update_budget"}
      BY <1>1, <1>2, <1>3, <2>2 DEF EditKinds
    <3> QED
      BY <1>2, <1>3, <2>2, <3>1 DEF Row
  <2> QED
    BY <2>1, <2>2
<1> HIDE DEF F
<1>4. Merged(e) = [f \in F |-> IF f \in edit[e].asked THEN e ELSE edit[e].seen[f]]
  BY DEF Merged, F
<1>5. Merged(e) \in [F -> Edits \cup {0}]
  BY <1>3, <1>4
<1> QED
  BY <1>4, <1>5 DEF F, Row

LEMMA EditWritesKeeps ==
  ASSUME RowsInv, NEW e \in Edits, EditWrites(e)
  PROVE  RowsInv'
<1> DEFINE tbl == TableOf(edit[e].kind)
           row == IF edit[e].kind = "delete_budget" THEN None ELSE Merged(e)
           w == [by |-> e, row |-> row, before |-> rows[tbl]]
<1>1. RowsTyped /\ NotedTogether /\ ReadIsThere /\ WritersAreDone /\ KeptUnlessOverlapped /\ SetupIsOnce
  BY DEF RowsInv
<1>2. /\ editing[e] = "write" /\ UnderWay(e) /\ rows' = [rows EXCEPT ![tbl] = row]
      /\ wrote' = Append(wrote, w) /\ overlap' = overlap
  BY DEF EditWrites, UnderWay
<1>3. PICK code \in {"ok", "error"} : AnswerEdit(e, code)
  BY DEF EditWrites
<1>4. /\ \A o \in Edits : edit'[o] = IF o = e THEN [edit[e] EXCEPT !.status = code] ELSE edit[o]
      /\ \A o \in Edits : editing'[o] = IF o = e THEN "done" ELSE editing[o]
      /\ edit' = [edit EXCEPT ![e] = [edit[e] EXCEPT !.status = code]]
      /\ editing' \in [Edits -> {"idle", "read", "write", "done"}]
  BY <1>1, <1>3 DEF AnswerEdit, RowsTyped
<1>5. /\ [edit[e] EXCEPT !.status = code] \in EditRecords /\ edit[e].kind \in EditKinds
      /\ edit'[e].kind = edit[e].kind /\ edit'[e].asked = edit[e].asked /\ edit'[e].blind = edit[e].blind
  <2>1. edit[e] \in EditRecords /\ edit'[e] = [edit[e] EXCEPT !.status = code]
    BY <1>1, <1>4 DEF RowsTyped
  <2>2. edit[e].kind \in EditKinds
    BY <1>1, <1>2 DEF RowsTyped
  <2> QED
    BY <2>1, <2>2 DEF EditRecords
<1>6. tbl \in {"admin", "budget"} /\ row \in Row(tbl) \cup {None} /\ row \in AnyRow /\ rows[tbl] \in AnyRow
  <2>1. tbl \in {"admin", "budget"}
    BY <1>5, Tables
  <2>2. row \in Row(tbl) \cup {None}
    BY <1>2, MergedIs
  <2> QED
    BY <1>1, <2>1, <2>2, Tables DEF RowsTyped, AnyRow
<1>7. w \in [by : Edits, row : AnyRow, before : AnyRow] /\ w.by = e /\ w.row = row /\ w.before = RowOf(e)
  BY <1>6 DEF RowOf
<1>8. \A t \in {"admin", "budget"} : rows'[t] = IF t = tbl THEN row ELSE rows[t]
  BY <1>1, <1>2 DEF RowsTyped
<1>9. \A o : Overlapped(o)' <=> Overlapped(o)
  BY <1>2 DEF Overlapped
<1>10. ~Overlapped(e) => /\ edit[e].kind \in {"settings", "update_budget"} => edit[e].seen = RowOf(e)
                         /\ edit[e].kind = "setup" => RowOf(e) = None \/ edit[e].blind
  BY <1>1, <1>2 DEF ReadIsThere
<1>11. edit[e].kind \in {"settings", "update_budget"} =>
         \A f \in DOMAIN row \ edit[e].asked : row[f] = edit[e].seen[f]
  BY <1>2, MergedIs
<1> HIDE DEF tbl, row, w
<1>12. RowsTyped'
  <2>1. edit' \in [Edits -> EditRecords]
    BY <1>1, <1>4, <1>5 DEF RowsTyped
  <2>2. rows' \in [{"admin", "budget"} -> AnyRow]
    BY <1>1, <1>2, <1>6 DEF RowsTyped
  <2>3. \A t \in {"admin", "budget"} : rows'[t] \in Row(t) \cup {None}
    BY <1>1, <1>6, <1>8 DEF RowsTyped
  <2>4. wrote' \in Seq([by : Edits, row : AnyRow, before : AnyRow])
    BY <1>1, <1>2, <1>7 DEF RowsTyped
  <2> QED
    BY <1>1, <1>2, <1>4, <1>5, <2>1, <2>2, <2>3, <2>4 DEF RowsTyped
<1>13. NotedTogether'
  BY <1>1, <1>2, <1>4 DEF NotedTogether, UnderWay
<1>14. ReadIsThere'
  <2> SUFFICES ASSUME NEW o \in Edits, editing'[o] = "write", ~Overlapped(o)' PROVE FALSE
    BY DEF ReadIsThere
  <2>1. o # e /\ UnderWay(o)
    BY <1>4 DEF UnderWay
  <2>2. {o, e} \in overlap
    BY <1>1, <1>2, <2>1 DEF NotedTogether
  <2> QED
    BY <1>9, <2>2 DEF Overlapped
<1>15. \A i \in DOMAIN wrote' : \/ i \in DOMAIN wrote /\ wrote'[i] = wrote[i]
                                \/ wrote'[i] = w
  <2>1. wrote \in Seq([by : Edits, row : AnyRow, before : AnyRow])
    BY <1>1 DEF RowsTyped
  <2> QED
    BY <1>2, <1>7, <2>1
<1>16. \A i \in DOMAIN wrote : wrote[i].by \in Edits /\ wrote[i].by # e
  BY <1>2, WritersTyped
<1>17. WritersAreDone'
  BY <1>1, <1>4, <1>7, <1>15, <1>16 DEF WritersAreDone
<1>18. KeptUnlessOverlapped'
  <2> SUFFICES ASSUME NEW i \in DOMAIN wrote', ~Overlapped(wrote'[i].by),
                      edit'[wrote'[i].by].kind \in {"settings", "update_budget"},
                      NEW f \in DOMAIN wrote'[i].row \ edit'[wrote'[i].by].asked
               PROVE  wrote'[i].row[f] = wrote'[i].before[f]
    BY <1>9 DEF KeptUnlessOverlapped
  <2>1. CASE wrote'[i] = w
    <3>1. /\ edit[e].kind \in {"settings", "update_budget"} /\ ~Overlapped(e)
          /\ f \in DOMAIN row \ edit[e].asked
      BY <1>5, <1>7, <2>1
    <3> QED
      BY <1>7, <1>10, <1>11, <2>1, <3>1
  <2>2. CASE i \in DOMAIN wrote /\ wrote'[i] = wrote[i]
    BY <1>1, <1>4, <1>16, <2>2 DEF KeptUnlessOverlapped
  <2> QED
    BY <1>15, <2>1, <2>2
<1>19. SetupIsOnce'
  <2> SUFFICES ASSUME NEW i \in DOMAIN wrote', ~Overlapped(wrote'[i].by),
                      edit'[wrote'[i].by].kind = "setup", wrote'[i].before # None
               PROVE  edit'[wrote'[i].by].blind
    BY <1>9 DEF SetupIsOnce
  <2>1. CASE wrote'[i] = w
    BY <1>5, <1>7, <1>10, <2>1
  <2>2. CASE i \in DOMAIN wrote /\ wrote'[i] = wrote[i]
    BY <1>1, <1>4, <1>16, <2>2 DEF SetupIsOnce
  <2> QED
    BY <1>15, <2>1, <2>2
<1> QED
  BY <1>12, <1>13, <1>14, <1>17, <1>18, <1>19 DEF RowsInv

LEMMA RowsNextKeeps ==
  ASSUME RowsInv, RowsNext
  PROVE  RowsInv'
<1>1. PICK e \in Edits :
        EditBegins(e) \/ EditReads(e) \/ SettingsRefused(e) \/ EditWrites(e) \/ WritesNothing(e)
  BY DEF RowsNext
<1>2. CASE SettingsRefused(e)
  BY <1>2, AnswerKeeps DEF SettingsRefused, UnderWay
<1>3. CASE WritesNothing(e)
  BY <1>3, AnswerKeeps DEF WritesNothing, UnderWay
<1> QED
  BY <1>1, <1>2, <1>3, EditBeginsKeeps, EditReadsKeeps, EditWritesKeeps

LEMMA RowsStutter ==
  ASSUME RowsInv, UNCHANGED row_vars
  PROVE  RowsInv'
<1>1. UNCHANGED <<rows, edit, editing, wrote, overlap>>
  BY DEF row_vars
<1>2. RowsTyped' /\ NotedTogether' /\ WritersAreDone' /\ ReadIsThere'
  BY <1>1 DEF RowsInv, RowsTyped, NotedTogether, WritersAreDone, ReadIsThere, UnderWay, Overlapped, RowOf
<1>3. KeptUnlessOverlapped' /\ SetupIsOnce'
  <2>1. KeptUnlessOverlapped'
    <3>1. KeptUnlessOverlapped /\ wrote' = wrote /\ edit' = edit
      BY <1>1 DEF RowsInv
    <3>2. \A e : Overlapped(e)' <=> Overlapped(e)
      BY <1>1, Zenon DEF Overlapped
    <3> QED
      BY <3>1, <3>2 DEF KeptUnlessOverlapped
  <2>2. SetupIsOnce'
    BY <1>1 DEF RowsInv, SetupIsOnce, Overlapped
  <2> QED
    BY <2>1, <2>2
<1> QED
  BY <1>2, <1>3 DEF RowsInv

-----------------------------------------------------------------------------
(* The handlers, statement by statement. *)
LEMMA ShortSeqs ==
  ASSUME NEW S, NEW a \in S, NEW b \in S, NEW c \in S, NEW d \in S, NEW e \in S
  PROVE  /\ <<a>> \in Seq(S) /\ <<a, b>> \in Seq(S) /\ <<a, b, c>> \in Seq(S)
         /\ <<a, b, c, d>> \in Seq(S) /\ <<a, b, c, d, e>> \in Seq(S)
<1>1. <<a>> \in Seq(S) /\ <<a, b>> \in Seq(S)
  OBVIOUS
<1>2. <<a, b, c>> \in Seq(S)
  OBVIOUS
<1>3. <<a, b, c, d>> \in Seq(S)
  OBVIOUS
<1>4. <<a, b, c, d, e>> \in Seq(S)
  OBVIOUS
<1> QED
  BY <1>1, <1>2, <1>3, <1>4

LEMMA Statements ==
  /\ "find_user" \in Statement /\ "find_config" \in Statement /\ "get_config" \in Statement
  /\ "update_config" \in Statement /\ "unregister" \in Statement /\ "read_configs" \in Statement
  /\ "read_approvals" \in Statement /\ "approve" \in Statement /\ "identify" \in Statement
  /\ "delete_key" \in Statement /\ "purge_traces" \in Statement /\ "audit" \in Statement
  /\ "insert_user" \in Statement /\ "deactivate_user" \in Statement /\ "insert_key" \in Statement
  /\ "add_word" \in Statement /\ "remove_word" \in Statement /\ "write_webhook" \in Statement
  /\ "upsert_1" \in Statement /\ "upsert_2" \in Statement /\ "write_policies" \in Statement
  /\ "insert_config" \in Statement /\ "delete_config" \in Statement
  /\ "create_configs_table" \in Statement /\ "create_approvals_table" \in Statement
  /\ "create_overrides_table" \in Statement /\ "insert_override" \in Statement
  /\ "erase_traces" \in Statement /\ "erase_usage_logs" \in Statement
  /\ "insert_trace" \in Statement /\ "insert_result" \in Statement /\ "insert_feedback" \in Statement
BY DEF Statement, Writes

LEMMA HandlerTyped ==
  ASSUME NEW kind \in DOMAIN Handler
  PROVE  Handler[kind] \in Seq(Statement) /\ Handler[kind] # <<>>
<1>1. /\ create_user \in Seq(Statement) /\ deactivate_user \in Seq(Statement)
      /\ create_api_key \in Seq(Statement) /\ revoke_api_key \in Seq(Statement)
  BY ShortSeqs, Statements DEF create_user, deactivate_user, create_api_key, revoke_api_key
<1>2. /\ add_blocklist_word \in Seq(Statement) /\ remove_blocklist_word \in Seq(Statement)
      /\ save_webhooks \in Seq(Statement) /\ save_domain_thresholds \in Seq(Statement)
  BY ShortSeqs, Statements
     DEF add_blocklist_word, remove_blocklist_word, save_webhooks, save_domain_thresholds
<1>3. /\ save_policies \in Seq(Statement) /\ list_provider_configs \in Seq(Statement)
      /\ create_provider_config \in Seq(Statement) /\ update_provider_config \in Seq(Statement)
  BY ShortSeqs, Statements
     DEF save_policies, list_provider_configs, create_provider_config, update_provider_config
<1>4. /\ delete_provider_config \in Seq(Statement) /\ erase_user_data \in Seq(Statement)
      /\ force_purge \in Seq(Statement) /\ list_approvals \in Seq(Statement)
  BY ShortSeqs, Statements DEF delete_provider_config, erase_user_data, force_purge, list_approvals
<1>5. /\ approve_tool \in Seq(Statement) /\ deny_tool \in Seq(Statement)
      /\ ingest_trace \in Seq(Statement) /\ submit_feedback \in Seq(Statement)
  BY ShortSeqs, Statements DEF approve_tool, deny_tool, ingest_trace, submit_feedback
<1>6. add_user_override \in Seq(Statement)
  BY ShortSeqs, Statements DEF add_user_override
<1>7. Handler[kind] \in Seq(Statement)
  <2>1. \/ Handler[kind] \in {create_user, deactivate_user, create_api_key, revoke_api_key}
        \/ Handler[kind] \in {add_blocklist_word, remove_blocklist_word, save_webhooks, save_domain_thresholds}
        \/ Handler[kind] \in {save_policies, list_provider_configs, create_provider_config,
                              update_provider_config}
        \/ Handler[kind] \in {delete_provider_config, erase_user_data, force_purge, list_approvals}
        \/ Handler[kind] \in {approve_tool, deny_tool, ingest_trace, submit_feedback}
        \/ Handler[kind] = add_user_override
    BY DEF Handler
  <2> QED
    BY <1>1, <1>2, <1>3, <1>4, <1>5, <1>6, <2>1, Zenon
<1>8. /\ <<>> \notin {create_user, deactivate_user, create_api_key, revoke_api_key, add_blocklist_word,
                      remove_blocklist_word, save_webhooks, save_domain_thresholds, save_policies,
                      list_provider_configs, create_provider_config}
      /\ <<>> \notin {update_provider_config, delete_provider_config, erase_user_data, force_purge,
                      list_approvals, approve_tool, deny_tool, add_user_override, ingest_trace,
                      submit_feedback}
  BY DEF create_user, deactivate_user, create_api_key, revoke_api_key, add_blocklist_word,
     remove_blocklist_word, save_webhooks, save_domain_thresholds, save_policies,
     list_provider_configs, create_provider_config, update_provider_config, delete_provider_config,
     erase_user_data, force_purge, list_approvals, approve_tool, deny_tool, add_user_override,
     ingest_trace, submit_feedback
<1> QED
  BY <1>7, <1>8 DEF Handler

(* What a statement says of its handler and of how much is left of it. *)
SaysOf(kind, s, n) ==
  /\ s = "insert_config" => kind = "create_provider_config" /\ n = 3
  /\ kind = "create_provider_config" /\ n = 4 => s = "find_config"
  /\ s = "write_policies" => kind = "save_policies" /\ n = 1
  /\ s = "update_config" => kind = "update_provider_config"
  /\ s = "get_config" => kind # "create_provider_config"
  /\ kind = "save_policies" /\ n # 1 => s \in {"identify", "audit"}
  /\ kind = "save_policies" /\ n = 2 => s = "audit"
  /\ kind = "update_provider_config" => s \in {"get_config", "update_config", "identify", "audit"}
  /\ kind = "erase_user_data" => (n = 2 /\ s = "erase_traces") \/ (n = 1 /\ s = "erase_usage_logs")
  /\ kind \in Audited \ {"save_policies"} /\ n = 1 => s = "audit"

LEMMA HandlerSays ==
  ASSUME NEW kind \in DOMAIN Handler, NEW h, h = Handler[kind], NEW i \in 1..Len(h)
  PROVE  SaysOf(kind, h[i], Len(h) - i + 1)
<1>1. CASE kind \in {"deactivate_user", "create_api_key", "revoke_api_key"}
  <2>1. h = deactivate_user \/ h = create_api_key \/ h = revoke_api_key
    BY <1>1 DEF Handler
  <2>2. /\ Len(h) = 3 /\ h[1] \in {"deactivate_user", "identify", "delete_key"}
        /\ h[2] \in {"identify", "insert_key"} /\ h[3] = "audit"
    BY <2>1 DEF deactivate_user, create_api_key, revoke_api_key
  <2>3. i = 1 \/ i = 2 \/ i = 3
    BY <2>2
  <2> QED
    BY <1>1, <2>2, <2>3 DEF SaysOf
<1>2. CASE kind \in {"add_blocklist_word", "remove_blocklist_word"}
  <2>1. h = add_blocklist_word \/ h = remove_blocklist_word
    BY <1>2 DEF Handler
  <2>2. Len(h) = 3 /\ h[1] \in {"add_word", "remove_word"} /\ h[2] = "identify" /\ h[3] = "audit"
    BY <2>1 DEF add_blocklist_word, remove_blocklist_word
  <2>3. i = 1 \/ i = 2 \/ i = 3
    BY <2>2
  <2> QED
    BY <1>2, <2>2, <2>3 DEF SaysOf
<1>3. CASE kind \in {"save_webhooks", "list_provider_configs", "force_purge", "list_approvals"}
  BY <1>3 DEF SaysOf, Audited, Handler, save_webhooks, list_provider_configs, force_purge, list_approvals
<1>4. CASE kind \in {"approve_tool", "deny_tool"}
  <2>1. h = approve_tool \/ h = deny_tool
    BY <1>4 DEF Handler
  <2>2. Len(h) = 2 /\ h[1] = "identify" /\ h[2] = "approve" /\ kind \notin Audited
    BY <1>4, <2>1 DEF approve_tool, deny_tool, Audited
  <2>3. i = 1 \/ i = 2
    BY <2>2
  <2> QED
    BY <1>4, <2>2, <2>3 DEF SaysOf
<1>5. CASE kind = "erase_user_data"
  <2>1. Len(h) = 2 /\ h[1] = "erase_traces" /\ h[2] = "erase_usage_logs" /\ kind \notin Audited
    BY <1>5 DEF Handler, erase_user_data, Audited
  <2>2. i = 1 \/ i = 2
    BY <2>1
  <2>3. \/ h[i] = "erase_traces" /\ Len(h) - i + 1 = 2
        \/ h[i] = "erase_usage_logs" /\ Len(h) - i + 1 = 1
    BY <2>1, <2>2
  <2> QED
    BY <1>5, <2>1, <2>3 DEF SaysOf
<1>11. CASE kind = "submit_feedback"
  BY <1>11 DEF SaysOf, Audited, Handler, submit_feedback
<1>6. CASE kind \in {"create_user", "save_domain_thresholds"}
  <2>1. h = create_user \/ h = save_domain_thresholds
    BY <1>6 DEF Handler
  <2>2. /\ Len(h) = 4 /\ h[1] \in {"find_user", "upsert_1"} /\ h[2] \in {"insert_user", "upsert_2"}
        /\ h[3] = "identify" /\ h[4] = "audit"
    BY <2>1 DEF create_user, save_domain_thresholds
  <2> QED
    BY <1>6, <2>2 DEF SaysOf
<1>7. CASE kind = "save_policies"
  <2>1. Len(h) = 3 /\ h[1] = "identify" /\ h[2] = "audit" /\ h[3] = "write_policies"
    BY <1>7 DEF Handler, save_policies
  <2>2. i = 1 \/ i = 2 \/ i = 3
    BY <2>1
  <2>3. \/ h[i] = "identify" /\ Len(h) - i + 1 = 3
        \/ h[i] = "audit" /\ Len(h) - i + 1 = 2
        \/ h[i] = "write_policies" /\ Len(h) - i + 1 = 1
    BY <2>1, <2>2
  <2> QED
    BY <1>7, <2>3 DEF SaysOf
<1>8. CASE kind = "create_provider_config"
  <2>1. /\ Len(h) = 4 /\ h[1] = "find_config" /\ h[2] = "insert_config" /\ h[3] = "identify"
        /\ h[4] = "audit"
    BY <1>8 DEF Handler, create_provider_config
  <2>2. i = 1 \/ i = 2 \/ i = 3 \/ i = 4
    BY <2>1
  <2>3. \/ h[i] = "find_config" /\ Len(h) - i + 1 = 4
        \/ h[i] = "insert_config" /\ Len(h) - i + 1 = 3
        \/ h[i] = "identify" /\ Len(h) - i + 1 = 2
        \/ h[i] = "audit" /\ Len(h) - i + 1 = 1
    BY <2>1, <2>2
  <2> QED
    BY <1>8, <2>3 DEF SaysOf
<1>9. CASE kind = "update_provider_config"
  <2>1. /\ Len(h) = 4 /\ h[1] = "get_config" /\ h[2] = "update_config" /\ h[3] = "identify"
        /\ h[4] = "audit"
    BY <1>9 DEF Handler, update_provider_config
  <2> QED
    BY <1>9, <2>1 DEF SaysOf
<1>10. CASE kind \in {"delete_provider_config", "add_user_override"}
  <2>1. h = delete_provider_config \/ h = add_user_override
    BY <1>10 DEF Handler
  <2>2. /\ Len(h) = 5 /\ h[5] = "audit" /\ h[4] = "identify"
        /\ h[1] \in {"get_config", "create_overrides_table"} /\ h[2] \in {"delete_config", "identify"}
        /\ h[3] \in {"unregister", "insert_override"}
    BY <2>1 DEF delete_provider_config, add_user_override
  <2> QED
    BY <1>10, <2>2 DEF SaysOf
<1>12. CASE kind = "ingest_trace"
  <2>1. Len(h) = 2 /\ h[1] = "insert_trace" /\ h[2] = "insert_result" /\ kind \notin Audited
    BY <1>12 DEF Handler, ingest_trace, Audited
  <2>2. i = 1 \/ i = 2
    BY <2>1
  <2>3. \/ h[i] = "insert_trace" /\ Len(h) - i + 1 = 2
        \/ h[i] = "insert_result" /\ Len(h) - i + 1 = 1
    BY <2>1, <2>2
  <2> QED
    BY <1>12, <2>1, <2>3 DEF SaysOf
<1> QED
  BY <1>1, <1>2, <1>3, <1>4, <1>5, <1>6, <1>7, <1>8, <1>9, <1>10, <1>11, <1>12 DEF Handler

LEMMA LeftSays ==
  ASSUME NEW kind, NEW todo \in Seq(Statement), todo # <<>>, Left(kind, todo)
  PROVE  /\ kind \in DOMAIN Handler /\ Len(todo) \in Nat /\ Len(todo) >= 1
         /\ Head(todo) \in Statement /\ SaysOf(kind, Head(todo), Len(todo))
<1> DEFINE h == Handler[kind]  i == Len(h) - Len(todo) + 1
<1>1. /\ kind \in DOMAIN Handler /\ h \in Seq(Statement) /\ Len(todo) <= Len(h)
      /\ \A j \in 1..Len(todo) : todo[j] = h[Len(h) - Len(todo) + j]
  BY HandlerTyped DEF Left
<1>2. /\ Len(todo) \in Nat /\ Len(h) \in Nat /\ Len(todo) >= 1 /\ Head(todo) = todo[1]
      /\ todo[1] \in Statement
  BY <1>1
<1>3. i \in 1..Len(h) /\ Head(todo) = h[i] /\ Len(h) - i + 1 = Len(todo)
  BY <1>1, <1>2
<1> HIDE DEF i
<1>4. SaysOf(kind, h[i], Len(h) - i + 1)
  BY <1>1, <1>3, HandlerSays
<1> QED
  BY <1>1, <1>2, <1>3, <1>4

LEMMA LeftTail ==
  ASSUME NEW kind, NEW todo \in Seq(Statement), Left(kind, todo), todo # <<>>
  PROVE  /\ Tail(todo) \in Seq(Statement) /\ Left(kind, Tail(todo))
         /\ Len(Tail(todo)) = Len(todo) - 1 /\ (Len(todo) = 1 <=> Tail(todo) = <<>>)
<1> DEFINE t == Tail(todo)  h == Handler[kind]
<1>1. /\ t \in Seq(Statement) /\ Len(t) = Len(todo) - 1 /\ Len(todo) \in Nat
      /\ \A i \in 1..Len(t) : i + 1 \in 1..Len(todo) /\ t[i] = todo[i + 1]
  <2>1. /\ t \in Seq(Statement) /\ Len(t) = Len(todo) - 1
        /\ \A i \in 1..Len(t) : t[i] = todo[i + 1]
    BY HeadTailProperties
  <2>2. Len(todo) \in Nat
    BY LenProperties
  <2> HIDE DEF t
  <2> QED
    BY <2>1, <2>2
<1>2. Len(todo) = 1 <=> t = <<>>
  <2> HIDE DEF t
  <2>1. Len(t) = 0 <=> t = <<>>
    BY <1>1, EmptySeq
  <2> QED
    BY <1>1, <2>1
<1> HIDE DEF t
<1>3. ASSUME t # <<>> PROVE
        /\ kind \in DOMAIN Handler /\ Len(t) <= Len(h)
        /\ \A i \in 1..Len(t) : t[i] = h[Len(h) - Len(t) + i]
  <2>1. /\ kind \in DOMAIN Handler /\ Len(todo) <= Len(h) /\ Len(h) \in Nat
        /\ \A i \in 1..Len(todo) : todo[i] = h[Len(h) - Len(todo) + i]
    BY HandlerTyped DEF Left
  <2> HIDE DEF h
  <2>2. ASSUME NEW i \in 1..Len(t) PROVE t[i] = h[Len(h) - Len(t) + i]
    <3>1. Len(h) - Len(todo) + (i + 1) = Len(h) - Len(t) + i
      BY <1>1, <2>1
    <3> QED
      BY <1>1, <2>1, <3>1
  <2> QED
    BY <1>1, <2>1, <2>2
<1>4. Left(kind, t)
  BY <1>3 DEF Left
<1> QED
  BY <1>1, <1>2, <1>4 DEF t

LEMMA LeftWhole ==
  ASSUME NEW kind \in DOMAIN Handler
  PROVE  Left(kind, Handler[kind])
<1>1. Len(Handler[kind]) \in Nat
  BY HandlerTyped
<1> QED
  BY <1>1 DEF Left

(* A request that takes a step: it goes on to its next statement, or ends. *)
Step(r, x) ==
  /\ x \in RequestRecords /\ request' = [request EXCEPT ![r] = x]
  /\ x.kind = request[r].kind /\ x.todo \in {Tail(request[r].todo), <<>>}
  /\ x.todo # <<>> => x.status = None
  /\ x.kind = "create_provider_config" => x.provider = request[r].provider

LEMMA RequestIs ==
  ASSUME request \in [Requests -> RequestRecords], NEW r \in Requests
  PROVE  /\ request[r] = [kind |-> request[r].kind, provider |-> request[r].provider,
                          id |-> request[r].id, todo |-> request[r].todo, status |-> request[r].status]
         /\ request[r].kind \in DOMAIN Handler \cup {None} /\ request[r].provider \in ProviderNames \cup {None}
         /\ request[r].id \in Ids \cup {None} /\ request[r].todo \in Seq(Statement)
         /\ request[r].status \in {"ok", "refused", "error", None}
<1>1. request[r] \in RequestRecords
  OBVIOUS
<1> QED
  BY <1>1 DEF RequestRecords

LEMMA RequestWritten ==
  ASSUME NEW q, NEW todo, NEW how,
         q = [kind |-> q.kind, provider |-> q.provider, id |-> q.id, todo |-> q.todo, status |-> q.status]
  PROVE  [q EXCEPT !.todo = todo, !.status = how] =
           [kind |-> q.kind, provider |-> q.provider, id |-> q.id, todo |-> todo, status |-> how]
<1> DEFINE y == [kind |-> q.kind, provider |-> q.provider, id |-> q.id, todo |-> todo, status |-> q.status]
<1>1. [q EXCEPT !.todo = todo] = y
  OBVIOUS
<1>2. [y EXCEPT !.status = how] =
        [kind |-> q.kind, provider |-> q.provider, id |-> q.id, todo |-> todo, status |-> how]
  OBVIOUS
<1>3. [q EXCEPT !.todo = todo, !.status = how] = [[q EXCEPT !.todo = todo] EXCEPT !.status = how]
  OBVIOUS
<1> QED
  BY <1>1, <1>2, <1>3

LEMMA ProceedSteps ==
  ASSUME RecordsInv, NEW r \in Requests, Running(r), Proceed(r)
  PROVE  \E x : /\ Step(r, x) /\ x.todo = Tail(request[r].todo)
                /\ x.status = "ok" => Len(request[r].todo) = 1
<1> DEFINE q == request[r]
           x == [kind |-> q.kind, provider |-> q.provider, id |-> q.id, todo |-> Tail(q.todo),
                 status |-> IF Len(q.todo) = 1 THEN "ok" ELSE None]
<1>1. /\ q = [kind |-> q.kind, provider |-> q.provider, id |-> q.id, todo |-> q.todo, status |-> q.status]
      /\ q.kind \in DOMAIN Handler \cup {None} /\ q.provider \in ProviderNames \cup {None}
      /\ q.id \in Ids \cup {None} /\ q.todo \in Seq(Statement)
  BY RequestIs DEF RecordsInv
<1>2. q.todo # <<>> /\ q.status = None /\ Left(q.kind, q.todo)
  BY DEF RecordsInv, Handled, Running
<1>3. Tail(q.todo) \in Seq(Statement) /\ (Len(q.todo) = 1 <=> Tail(q.todo) = <<>>)
  BY <1>1, <1>2, LeftTail
<1>4. request' = [request EXCEPT ![r] = x]
  <2>1. request' = [request EXCEPT ![r] = [q EXCEPT !.todo = Tail(q.todo),
                                              !.status = IF Len(q.todo) = 1 THEN "ok" ELSE None]]
    BY <1>2 DEF Proceed, RecordsInv
  <2>2. [q EXCEPT !.todo = Tail(q.todo), !.status = IF Len(q.todo) = 1 THEN "ok" ELSE None] = x
    BY <1>1, RequestWritten
  <2> QED
    BY <2>1, <2>2
<1>5. x \in RequestRecords
  BY <1>1, <1>3 DEF RequestRecords
<1>6. Step(r, x)
  BY <1>3, <1>4, <1>5 DEF Step
<1>7. x.status = "ok" => Len(q.todo) = 1
  BY HandlersAssumption
<1> QED
  BY <1>6, <1>7

LEMMA StopSteps ==
  ASSUME RecordsInv, NEW r \in Requests, Running(r),
         NEW how \in {"ok", "refused", "error"}, Stop(r, how)
  PROVE  \E x : Step(r, x) /\ x.todo = <<>> /\ x.status = how
<1> DEFINE q == request[r]
           x == [kind |-> q.kind, provider |-> q.provider, id |-> q.id, todo |-> <<>>, status |-> how]
<1>1. /\ q = [kind |-> q.kind, provider |-> q.provider, id |-> q.id, todo |-> q.todo, status |-> q.status]
      /\ q.kind \in DOMAIN Handler \cup {None} /\ q.provider \in ProviderNames \cup {None}
      /\ q.id \in Ids \cup {None}
  BY RequestIs DEF RecordsInv
<1>2. request' = [request EXCEPT ![r] = x]
  <2>1. request' = [request EXCEPT ![r] = [request[r] EXCEPT !.todo = <<>>, !.status = how]]
    BY DEF Stop, RecordsInv
  <2>2. [q EXCEPT !.todo = <<>>, !.status = how] = x
    BY <1>1, RequestWritten
  <2> QED
    BY <2>1, <2>2
<1>3. x \in RequestRecords
  <2>1. <<>> \in Seq(Statement)
    BY EmptySeq
  <2> QED
    BY <1>1, <2>1 DEF RequestRecords
<1>4. Step(r, x)
  BY <1>2, <1>3 DEF Step
<1> QED
  BY <1>4

(* What a step of a request leaves, whatever its statement does. *)
LEMMA StepTells ==
  ASSUME RecordsInv, NEW r \in Requests, Running(r), NEW x, Step(r, x)
  PROVE  LET q == request[r] IN
         /\ request' \in [Requests -> RequestRecords] /\ request'[r] = x
         /\ \A o \in Requests : o # r => request'[o] = request[o]
         /\ q.kind \in DOMAIN Handler /\ q.kind # None /\ q.todo # <<>> /\ Len(q.todo) >= 1
         /\ Head(q.todo) \in Statement /\ SaysOf(q.kind, Head(q.todo), Len(q.todo)) /\ Len(q.todo) \in Nat
         /\ Left(x.kind, x.todo)
         /\ x.todo # <<>> => x.todo = Tail(q.todo) /\ Len(x.todo) = Len(q.todo) - 1 /\ Len(x.todo) \in Nat
                             /\ SaysOf(q.kind, Head(x.todo), Len(x.todo)) /\ Len(x.todo) >= 1
<1> DEFINE q == request[r]
<1>1. request \in [Requests -> RequestRecords] /\ q.todo # <<>> /\ Left(q.kind, q.todo)
  BY DEF RecordsInv, Handled, Running
<1>2. q.todo \in Seq(Statement)
  BY <1>1, RequestIs
<1>3. /\ q.kind \in DOMAIN Handler /\ Len(q.todo) \in Nat /\ Len(q.todo) >= 1
      /\ Head(q.todo) \in Statement /\ SaysOf(q.kind, Head(q.todo), Len(q.todo))
  BY <1>1, <1>2, LeftSays
<1>4. q.kind # None
  BY <1>3, HandlersAssumption
<1>5. /\ request' \in [Requests -> RequestRecords] /\ request'[r] = x
      /\ \A o \in Requests : o # r => request'[o] = request[o]
  BY <1>1 DEF Step
<1>6. /\ Tail(q.todo) \in Seq(Statement) /\ Left(q.kind, Tail(q.todo))
      /\ Len(Tail(q.todo)) = Len(q.todo) - 1
  BY <1>1, <1>2, LeftTail
<1>7. Left(x.kind, x.todo)
  BY <1>6 DEF Step, Left
<1>8. x.todo # <<>> =>
        /\ x.todo = Tail(q.todo) /\ Len(x.todo) = Len(q.todo) - 1 /\ Len(x.todo) \in Nat
        /\ SaysOf(q.kind, Head(x.todo), Len(x.todo)) /\ Len(x.todo) >= 1
  <2> SUFFICES ASSUME x.todo # <<>> PROVE
        /\ x.todo = Tail(q.todo) /\ Len(x.todo) = Len(q.todo) - 1 /\ Len(x.todo) \in Nat
        /\ SaysOf(q.kind, Head(x.todo), Len(x.todo)) /\ Len(x.todo) >= 1
    OBVIOUS
  <2>1. x.todo = Tail(q.todo)
    BY DEF Step
  <2>2. SaysOf(q.kind, Head(x.todo), Len(x.todo)) /\ Len(x.todo) \in Nat /\ Len(x.todo) >= 1
    BY <1>6, <2>1, LeftSays
  <2> QED
    BY <1>6, <2>1, <2>2
<1> QED
  BY <1>1, <1>3, <1>4, <1>5, <1>7, <1>8

(* Which step of a request keeps the records' invariant: what it may do to *)
(* the tables, the audit log and the registry at each statement.           *)
LEMMA Advance ==
  ASSUME RecordsInv, NEW r \in Requests, Running(r), NEW x, Step(r, x),
         NEW s, s = Head(request[r].todo),
         x.status = "ok" => Len(request[r].todo) = 1 \/ s = "update_config",
         StoreTyped', HistoryTyped', ProvidersVanishOnlyByDeletion',
         history'.beside = history.beside,
         \/ history'.changed = history.changed
         \/ history'.changed = history.changed \cup {r} /\ s \in Writes \cup {"delete_key", "purge_traces"},
         trail \subseteq trail', s = "audit" => r \in trail',
         \/ store'.configs \subseteq store.configs
         \/ /\ s = "insert_config"
            /\ store'.configs = store.configs \cup {[id |-> r, provider |-> request[r].provider]},
         "before" \in store'.traces => "before" \in store.traces,
         "before" \in store'.usage_logs => "before" \in store.usage_logs,
         s = "erase_traces" /\ x.todo # <<>> => "before" \notin store'.traces,
         s = "erase_usage_logs" /\ x.status = "ok" => "before" \notin store'.usage_logs,
         s = "find_config" /\ x.todo # <<>> => \A c \in store'.configs : c.provider # request[r].provider
  PROVE  RecordsInv'
<1> DEFINE q == request[r]
<1>1. /\ request' \in [Requests -> RequestRecords] /\ request'[r] = x
      /\ \A o \in Requests : o # r => request'[o] = request[o]
      /\ q.kind \in DOMAIN Handler /\ q.kind # None /\ q.todo # <<>> /\ Len(q.todo) \in Nat /\ Len(q.todo) >= 1
      /\ SaysOf(q.kind, s, Len(q.todo)) /\ Left(x.kind, x.todo)
      /\ x.todo # <<>> => x.todo = Tail(q.todo) /\ Len(x.todo) = Len(q.todo) - 1 /\ Len(x.todo) \in Nat
                          /\ SaysOf(q.kind, Head(x.todo), Len(x.todo)) /\ Len(x.todo) >= 1
  BY StepTells
<1>2. /\ x.kind = q.kind
      /\ x.todo # <<>> => x.status = None
      /\ x.kind = "create_provider_config" => x.provider = q.provider
  BY DEF Step
<1>3. /\ \A o \in Requests : request'[o].kind = request[o].kind
      /\ \A o \in Requests : Running(o)' => Running(o)
  BY <1>1, <1>2 DEF Running
<1>4. /\ StoreTyped /\ HistoryTyped /\ Handled /\ RunningTogether /\ Looked
      /\ OneConfigPerProvider /\ ErasedWhole /\ ChangesAreAudited
  BY DEF RecordsInv
<1>5. /\ q.kind = "create_provider_config" => q.provider \in ProviderNames
      /\ q.kind = "update_provider_config" => r \notin history.changed
      /\ q.kind = "save_policies" /\ Len(q.todo) = 1 => r \in trail
      /\ q.kind = "erase_user_data" /\ Len(q.todo) = 1 => "before" \notin store.traces
  BY <1>4 DEF Handled
(* who has newly changed something *)
<1>6. r \in history'.changed /\ r \notin history.changed =>
        q.kind # "update_provider_config" /\ (q.kind = "save_policies" => r \in trail)
  BY <1>1, <1>5 DEF SaysOf, Writes
<1>7. Handled'
  <2> SUFFICES ASSUME NEW o \in Requests PROVE
        /\ Left(request'[o].kind, request'[o].todo)
        /\ request'[o].kind = None => o \notin history'.changed
        /\ request'[o].kind = None \/ request'[o].todo # <<>> => request'[o].status = None
        /\ request'[o].kind = "create_provider_config" => request'[o].provider \in ProviderNames
        /\ request'[o].kind = "update_provider_config" => o \notin history'.changed
        /\ request'[o].kind = "save_policies" /\ Len(request'[o].todo) = 1 => o \in trail'
        /\ request'[o].kind = "erase_user_data" /\ Len(request'[o].todo) = 1 => "before" \notin store'.traces
    BY DEF Handled, Running
  <2>1. CASE o # r
    BY <1>1, <1>4, <2>1 DEF Handled, Running
  <2>2. CASE o = r
    <3>1. /\ x.kind # None /\ Left(x.kind, x.todo)
          /\ x.todo # <<>> => x.status = None
          /\ x.kind = "create_provider_config" => x.provider \in ProviderNames
          /\ x.kind = "update_provider_config" => r \notin history'.changed
      BY <1>1, <1>2, <1>5, <1>6
    <3>2. Len(x.todo) = 1 => x.todo # <<>>
      OBVIOUS
    <3>3. ASSUME x.kind = "save_policies", Len(x.todo) = 1 PROVE r \in trail'
      <4>1. Len(q.todo) = 2
        BY <1>1, <3>2, <3>3
      <4>2. s = "audit"
        BY <1>1, <1>2, <3>3, <4>1 DEF SaysOf
      <4> QED
        BY <4>2
    <3>4. ASSUME x.kind = "erase_user_data", Len(x.todo) = 1 PROVE "before" \notin store'.traces
      <4>1. q.kind = "erase_user_data" /\ Len(q.todo) = 2
        BY <1>1, <1>2, <3>2, <3>4
      <4>2. s = "erase_traces"
        BY <1>1, <4>1 DEF SaysOf
      <4> QED
        BY <3>2, <3>4, <4>2
    <3> QED
      BY <1>1, <2>2, <3>1, <3>3, <3>4
  <2> QED
    BY <2>1, <2>2
<1>8. RunningTogether'
  BY <1>3, <1>4 DEF RunningTogether
<1>9. OneConfigPerProvider'
  <2> SUFFICES ASSUME NEW c \in store'.configs, NEW d \in store'.configs,
                      c.provider = d.provider, c # d
               PROVE  {c.id, d.id} \in history.beside
    BY DEF OneConfigPerProvider
  <2>1. CASE store'.configs \subseteq store.configs
    BY <1>4, <2>1 DEF OneConfigPerProvider
  <2>2. CASE /\ s = "insert_config"
             /\ store'.configs = store.configs \cup {[id |-> r, provider |-> q.provider]}
    <3>1. \A e \in store.configs : e.provider = q.provider => {e.id, r} \in history.beside
      BY <1>1, <1>4, <2>2 DEF Looked, At, Running
    <3>2. CASE c \in store.configs /\ d \in store.configs
      BY <1>4, <3>2 DEF OneConfigPerProvider
    <3>3. CASE c \in store.configs /\ d = [id |-> r, provider |-> q.provider]
      BY <3>1, <3>3
    <3>4. CASE d \in store.configs /\ c = [id |-> r, provider |-> q.provider]
      <4>1. {d.id, r} \in history.beside /\ c.id = r
        BY <3>1, <3>4
      <4>2. {d.id, r} = {r, d.id}
        OBVIOUS
      <4> QED
        BY <4>1, <4>2
    <3> QED
      BY <2>2, <3>2, <3>3, <3>4
  <2> QED
    BY <2>1, <2>2
<1>10. Looked'
  <2> SUFFICES ASSUME NEW o \in Requests, request'[o].todo # <<>>, Head(request'[o].todo) = "insert_config",
                      NEW c \in store'.configs, c.provider = request'[o].provider
               PROVE  {c.id, o} \in history.beside
    BY DEF Looked, At, Running
  <2>1. CASE o = r
    <3>1. x.todo # <<>> /\ Head(x.todo) = "insert_config" /\ x.provider = request'[o].provider
      BY <1>1, <2>1
    <3>2. q.kind = "create_provider_config" /\ Len(x.todo) = 3
      BY <1>1, <3>1 DEF SaysOf
    <3>3. Len(q.todo) = 4
      BY <1>1, <3>1, <3>2
    <3>4. s = "find_config"
      BY <1>1, <3>2, <3>3 DEF SaysOf
    <3>5. x.provider = q.provider
      BY <1>2, <3>2
    <3> QED
      BY <3>1, <3>4, <3>5
  <2>2. CASE o # r
    <3>1. At(o, "insert_config") /\ Running(o) /\ request'[o] = request[o]
      BY <1>1, <2>2 DEF At, Running
    <3>2. CASE c \in store.configs
      BY <1>4, <3>1, <3>2 DEF Looked
    <3>3. CASE c = [id |-> r, provider |-> q.provider]
      <4>1. {r, o} \in history.beside
        BY <1>1, <1>4, <2>2, <3>1 DEF RunningTogether, Running
      <4> QED
        BY <3>3, <4>1
    <3> QED
      BY <3>2, <3>3
  <2> QED
    BY <2>1, <2>2
<1>11. ErasedWhole'
  <2> SUFFICES ASSUME NEW o \in Requests, request'[o].kind = "erase_user_data", request'[o].status = "ok"
               PROVE  "before" \notin store'.traces /\ "before" \notin store'.usage_logs
    BY DEF ErasedWhole
  <2>1. CASE o # r
    BY <1>1, <1>4, <2>1 DEF ErasedWhole
  <2>2. CASE o = r
    <3>1. q.kind = "erase_user_data" /\ x.status = "ok"
      BY <1>1, <1>2, <2>2
    <3>2. s # "update_config"
      BY <1>1, <3>1 DEF SaysOf
    <3>3. Len(q.todo) = 1
      BY <3>1, <3>2
    <3>4. s = "erase_usage_logs"
      BY <1>1, <3>1, <3>3 DEF SaysOf
    <3> QED
      BY <1>5, <3>1, <3>3, <3>4
  <2> QED
    BY <2>1, <2>2
<1>12. ChangesAreAudited'
  <2> SUFFICES ASSUME NEW o \in history'.changed PROVE
        /\ request'[o].kind \in Audited /\ request'[o].status = "ok" => o \in trail'
        /\ request'[o].kind = "save_policies" => o \in trail'
    BY DEF ChangesAreAudited
  <2>1. o \in Requests
    BY DEF HistoryTyped
  <2>2. CASE o # r
    BY <1>1, <1>4, <2>1, <2>2 DEF ChangesAreAudited
  <2>3. CASE o = r
    <3>1. q.kind = "save_policies" => r \in trail'
      BY <1>4, <1>6, <2>3 DEF ChangesAreAudited
    <3>2. ASSUME q.kind \in Audited \ {"save_policies"}, x.status = "ok" PROVE r \in trail'
      <4>1. q.kind # "update_provider_config"
        BY <1>5, <1>6, <2>3
      <4>2. s = "audit"
        BY <1>1, <3>2, <4>1 DEF SaysOf
      <4> QED
        BY <3>2, <4>2
    <3> QED
      BY <1>1, <1>2, <2>3, <3>1, <3>2
  <2> QED
    BY <2>2, <2>3
<1> QED
  BY <1>1, <1>7, <1>8, <1>9, <1>10, <1>11, <1>12 DEF RecordsInv

(* What the statements do to the tables. *)
LEMMA WrittenTells ==
  ASSUME StoreTyped, NEW r \in Requests, NEW s, Written(r, s),
         s = "insert_config" => request[r].provider \in ProviderNames
  PROVE  /\ StoreTyped'
         /\ \/ store'.configs \subseteq store.configs
            \/ /\ s = "insert_config"
               /\ store'.configs = store.configs \cup {[id |-> r, provider |-> request[r].provider]}
         /\ "before" \in store'.traces => "before" \in store.traces
         /\ "before" \in store'.usage_logs => "before" \in store.usage_logs
         /\ s = "erase_traces" => "before" \notin store'.traces
         /\ s = "erase_usage_logs" => "before" \notin store'.usage_logs
<1>1. /\ store = [tables |-> store.tables, configs |-> store.configs, user |-> store.user,
              keys |-> store.keys, words |-> store.words, webhook |-> store.webhook,
              policies |-> store.policies, thresholds |-> store.thresholds,
              results |-> store.results, overrides |-> store.overrides, feedback |-> store.feedback,
              traces |-> store.traces, usage_logs |-> store.usage_logs]
      /\ store.configs \subseteq [id : Ids, provider : ProviderNames]
      /\ store.tables \subseteq {"configs", "approvals"}
  BY DEF StoreTyped
<1>2. CASE s = "insert_user" /\ store' = [store EXCEPT !.user = r]
  BY <1>1, <1>2 DEF StoreTyped
<1>3. CASE s = "deactivate_user" /\ store' = [store EXCEPT !.user = IF @ = None THEN None ELSE "inactive"]
  BY <1>1, <1>3 DEF StoreTyped
<1>4. CASE s = "insert_key" /\ store' = [store EXCEPT !.keys = @ \cup {r}]
  BY <1>1, <1>4 DEF StoreTyped
<1>5. CASE s = "add_word" /\ store' = [store EXCEPT !.words = {"word"}]
  BY <1>1, <1>5 DEF StoreTyped
<1>6. CASE s = "remove_word" /\ store' = [store EXCEPT !.words = {}]
  BY <1>1, <1>6 DEF StoreTyped
<1>7. CASE s = "write_webhook" /\ store' = [store EXCEPT !.webhook = r]
  BY <1>1, <1>7 DEF StoreTyped
<1>8. CASE s = "upsert_1" /\ store' = [store EXCEPT !.thresholds[1] = r]
  BY <1>1, <1>8 DEF StoreTyped
<1>9. CASE s = "upsert_2" /\ store' = [store EXCEPT !.thresholds[2] = r]
  BY <1>1, <1>9 DEF StoreTyped
<1>10. CASE s = "write_policies" /\ store' = [store EXCEPT !.policies = r]
  BY <1>1, <1>10 DEF StoreTyped
<1>11. CASE /\ s = "insert_config"
            /\ store' = [store EXCEPT !.configs = @ \cup {[id |-> r, provider |-> request[r].provider]}]
  <2>1. [id |-> r, provider |-> request[r].provider] \in [id : Ids, provider : ProviderNames]
    BY <1>11 DEF Ids
  <2> QED
    BY <1>1, <1>11, <2>1 DEF StoreTyped
<1>12. CASE s = "delete_config" /\ store' = [store EXCEPT !.configs = {c \in @ : c.id # request[r].id}]
  BY <1>1, <1>12 DEF StoreTyped
<1>13. CASE s = "create_configs_table" /\ store' = [store EXCEPT !.tables = @ \cup {"configs"}]
  BY <1>1, <1>13 DEF StoreTyped
<1>14. CASE s = "create_approvals_table" /\ store' = [store EXCEPT !.tables = @ \cup {"approvals"}]
  BY <1>1, <1>14 DEF StoreTyped
<1>15. CASE s = "create_overrides_table" /\ store' = store
  BY <1>1, <1>15 DEF StoreTyped
<1>16. CASE s = "insert_override" /\ store' = [store EXCEPT !.overrides = @ \cup {r}]
  BY <1>1, <1>16 DEF StoreTyped
<1>17. CASE s = "erase_traces" /\ store' = [store EXCEPT !.traces = {}]
  BY <1>1, <1>17 DEF StoreTyped
<1>18. CASE s = "erase_usage_logs" /\ store' = [store EXCEPT !.usage_logs = {}]
  BY <1>1, <1>18 DEF StoreTyped
<1>19. CASE s = "insert_trace" /\ store' = [store EXCEPT !.traces = @ \cup {"later"}]
  BY <1>1, <1>19 DEF StoreTyped
<1>20. CASE s = "insert_result" /\ store' = [store EXCEPT !.results = @ \cup {r}]
  BY <1>1, <1>20 DEF StoreTyped
<1>21. CASE s = "insert_feedback" /\ store' = [store EXCEPT !.feedback = @ \cup {r}]
  BY <1>1, <1>21 DEF StoreTyped
<1> QED
  BY <1>2, <1>3, <1>4, <1>5, <1>6, <1>7, <1>8, <1>9, <1>10, <1>11, <1>12, <1>13, <1>14, <1>15, <1>16,
     <1>17, <1>18, <1>19, <1>20, <1>21 DEF Written

(* Who has changed something is noted; nothing else of the history changes. *)
LEMMA NotedTells ==
  ASSUME RecordsInv, NEW r \in Requests, Noted(r), UNCHANGED <<registry, trail>>
  PROVE  /\ HistoryTyped' /\ ProvidersVanishOnlyByDeletion' /\ history'.beside = history.beside
         /\ history'.changed = history.changed \/ history'.changed = history.changed \cup {r}
<1> DEFINE new == IF store' = store THEN history.changed ELSE history.changed \cup {r}
<1>1. HistoryTyped /\ ProvidersVanishOnlyByDeletion
  BY DEF RecordsInv
<1>2. history' = [history EXCEPT !.changed = new]
  BY DEF Noted
<1>3. new = history.changed \/ new = history.changed \cup {r}
  OBVIOUS
<1> HIDE DEF new
<1>4. /\ history' = [changed |-> new, beside |-> history.beside,
                     dropped |-> history.dropped, restarts |-> history.restarts]
  BY <1>1, <1>2 DEF HistoryTyped
<1>5. HistoryTyped'
  BY <1>1, <1>3, <1>4 DEF HistoryTyped
<1>6. ProvidersVanishOnlyByDeletion'
  BY <1>1, <1>4 DEF ProvidersVanishOnlyByDeletion
<1> QED
  BY <1>3, <1>4, <1>5, <1>6

LEMMA StatementWritesKeeps ==
  ASSUME RecordsInv, NEW r \in Requests, NEW s \in Writes, StatementWrites(r, s)
  PROVE  RecordsInv'
<1>1. /\ Running(r) /\ s = Head(request[r].todo) /\ Written(r, s) /\ Noted(r) /\ Proceed(r)
      /\ UNCHANGED <<registry, trail>>
  BY DEF StatementWrites, At
<1>2. PICK x : /\ Step(r, x) /\ x.todo = Tail(request[r].todo)
               /\ x.status = "ok" => Len(request[r].todo) = 1
  BY <1>1, ProceedSteps
<1>3. s = "insert_config" => request[r].provider \in ProviderNames
  <2>1. SaysOf(request[r].kind, s, Len(request[r].todo))
    BY <1>1, <1>2, StepTells
  <2> QED
    BY <2>1 DEF SaysOf, RecordsInv, Handled
<1>4. /\ StoreTyped'
      /\ \/ store'.configs \subseteq store.configs
         \/ /\ s = "insert_config"
            /\ store'.configs = store.configs \cup {[id |-> r, provider |-> request[r].provider]}
      /\ "before" \in store'.traces => "before" \in store.traces
      /\ "before" \in store'.usage_logs => "before" \in store.usage_logs
      /\ s = "erase_traces" => "before" \notin store'.traces
      /\ s = "erase_usage_logs" => "before" \notin store'.usage_logs
  BY <1>1, <1>3, WrittenTells DEF RecordsInv
<1>5. /\ HistoryTyped' /\ ProvidersVanishOnlyByDeletion' /\ history'.beside = history.beside
      /\ history'.changed = history.changed \/ history'.changed = history.changed \cup {r}
  BY <1>1, NotedTells
<1>6. s # "audit" /\ s # "find_config"
  BY DEF Writes
<1> QED
  BY <1>1, <1>2, <1>4, <1>5, <1>6, Advance

(* A statement that reads or fails. *)
LEMMA QuietKeeps ==
  ASSUME RecordsInv, NEW r \in Requests, Running(r), NEW x, Step(r, x),
         NEW s, s = Head(request[r].todo), s # "audit",
         x.status = "ok" => Len(request[r].todo) = 1 \/ s = "update_config",
         s \in {"erase_traces", "erase_usage_logs"} => x.todo = <<>> /\ x.status # "ok",
         s = "find_config" /\ x.todo # <<>> => \A c \in store.configs : c.provider # request[r].provider,
         UNCHANGED <<store, registry, trail, history>>
  PROVE  RecordsInv'
<1>1. StoreTyped' /\ HistoryTyped' /\ ProvidersVanishOnlyByDeletion'
  BY DEF RecordsInv, StoreTyped, HistoryTyped, ProvidersVanishOnlyByDeletion
<1>2. /\ store' = store /\ trail' = trail /\ history' = history
  OBVIOUS
<1> QED
  BY <1>1, <1>2, Advance

LEMMA StatementFailsKeeps ==
  ASSUME RecordsInv, NEW r \in Requests, StatementFails(r)
  PROVE  RecordsInv'
<1>1. /\ Running(r) /\ Head(request[r].todo) # "audit" /\ Stop(r, "error")
      /\ UNCHANGED <<store, registry, trail, history>>
  BY DEF StatementFails, At
<1>2. PICK x : Step(r, x) /\ x.todo = <<>> /\ x.status = "error"
  BY <1>1, StopSteps
<1> QED
  BY <1>1, <1>2, QuietKeeps

LEMMA PoliciesNotWrittenKeeps ==
  ASSUME RecordsInv, NEW r \in Requests, PoliciesNotWritten(r)
  PROVE  RecordsInv'
<1>1. Running(r) /\ Head(request[r].todo) = "write_policies" /\ UNCHANGED <<registry, trail>>
  BY DEF PoliciesNotWritten, At
<1>2. CASE Proceed(r) /\ UNCHANGED <<store, history>>
  <2>1. PICK x : /\ Step(r, x) /\ x.todo = Tail(request[r].todo)
                 /\ x.status = "ok" => Len(request[r].todo) = 1
    BY <1>1, <1>2, ProceedSteps
  <2> QED
    BY <1>1, <1>2, <2>1, QuietKeeps
<1>3. CASE Stop(r, "error") /\ Changes(r, [store EXCEPT !.policies = None])
  <2>1. PICK x : Step(r, x) /\ x.todo = <<>> /\ x.status = "error"
    BY <1>1, <1>3, StopSteps
  <2>2. store' = [store EXCEPT !.policies = None] /\ Noted(r)
    BY <1>3 DEF Changes
  <2>3. /\ StoreTyped' /\ store'.configs = store.configs /\ store'.traces = store.traces
        /\ store'.usage_logs = store.usage_logs
    BY <2>2 DEF RecordsInv, StoreTyped
  <2>4. /\ HistoryTyped' /\ ProvidersVanishOnlyByDeletion' /\ history'.beside = history.beside
        /\ history'.changed = history.changed \/ history'.changed = history.changed \cup {r}
    BY <1>1, <2>2, NotedTells
  <2>5. "write_policies" \in Writes /\ trail' = trail
    BY <1>1 DEF Writes
  <2> QED
    BY <1>1, <2>1, <2>3, <2>4, <2>5, Advance
<1> QED
  BY <1>2, <1>3 DEF PoliciesNotWritten

LEMMA FindUserKeeps ==
  ASSUME RecordsInv, NEW r \in Requests, FindUser(r)
  PROVE  RecordsInv'
<1>1. /\ Running(r) /\ Head(request[r].todo) = "find_user" /\ (Proceed(r) \/ Stop(r, "refused"))
      /\ UNCHANGED <<store, registry, trail, history>>
  BY DEF FindUser, At
<1>2. CASE Proceed(r)
  <2>1. PICK x : /\ Step(r, x) /\ x.todo = Tail(request[r].todo)
                 /\ x.status = "ok" => Len(request[r].todo) = 1
    BY <1>1, <1>2, ProceedSteps
  <2> QED
    BY <1>1, <2>1, QuietKeeps
<1>3. CASE Stop(r, "refused")
  <2>1. PICK x : Step(r, x) /\ x.todo = <<>> /\ x.status = "refused"
    BY <1>1, <1>3, StopSteps, Zenon
  <2> QED
    BY <1>1, <2>1, QuietKeeps
<1> QED
  BY <1>1, <1>2, <1>3

LEMMA FindConfigKeeps ==
  ASSUME RecordsInv, NEW r \in Requests, FindConfig(r)
  PROVE  RecordsInv'
<1>1. /\ Running(r) /\ Head(request[r].todo) = "find_config"
      /\ UNCHANGED <<store, registry, trail, history>>
  BY DEF FindConfig, At
<1>2. CASE Proceed(r) /\ \A c \in store.configs : c.provider # request[r].provider
  <2>1. PICK x : /\ Step(r, x) /\ x.todo = Tail(request[r].todo)
                 /\ x.status = "ok" => Len(request[r].todo) = 1
    BY <1>1, <1>2, ProceedSteps
  <2> QED
    BY <1>1, <1>2, <2>1, QuietKeeps
<1>3. CASE Stop(r, "refused")
  <2>1. PICK x : Step(r, x) /\ x.todo = <<>> /\ x.status = "refused"
    BY <1>1, <1>3, StopSteps, Zenon
  <2> QED
    BY <1>1, <2>1, QuietKeeps
<1> QED
  BY <1>2, <1>3 DEF FindConfig

LEMMA GetConfigKeeps ==
  ASSUME RecordsInv, NEW r \in Requests, GetConfig(r)
  PROVE  RecordsInv'
<1> DEFINE q == request[r]
<1>1. Running(r) /\ Head(q.todo) = "get_config" /\ UNCHANGED <<store, registry, trail, history>>
  BY DEF GetConfig, At
<1>2. CASE Stop(r, "refused")
  <2>1. PICK x : Step(r, x) /\ x.todo = <<>> /\ x.status = "refused"
    BY <1>1, <1>2, StopSteps
  <2> QED
    BY <1>1, <2>1, QuietKeeps
<1>3. ASSUME NEW c \in store.configs,
             request' = [request EXCEPT ![r].id = c.id, ![r].provider = c.provider, ![r].todo = Tail(@)]
      PROVE  RecordsInv'
  <2> DEFINE x == [q EXCEPT !.id = c.id, !.provider = c.provider, !.todo = Tail(q.todo)]
  <2>1. /\ q \in RequestRecords
        /\ q.kind \in DOMAIN Handler \cup {None} /\ q.todo \in Seq(Statement)
        /\ q.status = None /\ Left(q.kind, q.todo) /\ q.todo # <<>>
    BY <1>1, RequestIs DEF RecordsInv, Handled, Running
  <2>2. Tail(q.todo) \in Seq(Statement) /\ SaysOf(q.kind, "get_config", Len(q.todo))
    BY <1>1, <2>1, LeftTail, LeftSays
  <2>3. c.id \in Ids /\ c.provider \in ProviderNames
    BY DEF RecordsInv, StoreTyped
  <2>4. request' = [request EXCEPT ![r] = x]
    BY <1>3, <2>1 DEF RecordsInv
  <2>5. /\ x \in RequestRecords /\ x.kind = q.kind /\ x.provider = c.provider
        /\ x.todo = Tail(q.todo) /\ x.status = q.status
    BY <2>1, <2>2, <2>3 DEF RequestRecords
  <2>6. x.kind # "create_provider_config" /\ x.status # "ok"
    BY <2>1, <2>2, <2>5, HandlersAssumption DEF SaysOf
  <2> HIDE DEF x
  <2>7. Step(r, x)
    BY <2>1, <2>4, <2>5, <2>6 DEF Step
  <2> QED
    BY <1>1, <2>6, <2>7, QuietKeeps
<1>4. Stop(r, "refused") \/ \E c \in store.configs :
        request' = [request EXCEPT ![r].id = c.id, ![r].provider = c.provider, ![r].todo = Tail(@)]
  BY Zenon DEF GetConfig
<1> QED
  BY <1>2, <1>3, <1>4, Zenon

LEMMA UpdateConfigKeeps ==
  ASSUME RecordsInv, NEW r \in Requests, UpdateConfig(r)
  PROVE  RecordsInv'
<1>1. /\ Running(r) /\ Head(request[r].todo) = "update_config"
      /\ UNCHANGED <<store, registry, trail, history>>
  BY DEF UpdateConfig, At
<1>2. PICK how \in {"ok", "error"} : Stop(r, how)
  BY DEF UpdateConfig
<1>3. PICK x : Step(r, x) /\ x.todo = <<>> /\ x.status = how
  BY <1>1, <1>2, StopSteps
<1> QED
  BY <1>1, <1>3, QuietKeeps

LEMMA ReadsOnlyKeeps ==
  ASSUME RecordsInv, NEW r \in Requests, ReadsOnly(r)
  PROVE  RecordsInv'
<1>1. /\ Running(r) /\ Head(request[r].todo) \in {"read_configs", "read_approvals", "approve", "identify"}
      /\ Proceed(r) /\ UNCHANGED <<store, registry, trail, history>>
  BY DEF ReadsOnly, At
<1>2. PICK x : /\ Step(r, x) /\ x.todo = Tail(request[r].todo)
               /\ x.status = "ok" => Len(request[r].todo) = 1
  BY <1>1, ProceedSteps
<1> QED
  BY <1>1, <1>2, QuietKeeps

LEMMA UnregisterProviderKeeps ==
  ASSUME RecordsInv, NEW r \in Requests, UnregisterProvider(r)
  PROVE  RecordsInv'
<1> DEFINE name == request[r].provider
<1>1. /\ Running(r) /\ Head(request[r].todo) = "unregister" /\ Proceed(r)
      /\ registry' = registry \ (Removable \cap {name})
      /\ history' = [history EXCEPT !.dropped = @ \cup {name}] /\ UNCHANGED <<store, trail>>
  BY DEF UnregisterProvider, At, Unregister
<1>2. PICK x : /\ Step(r, x) /\ x.todo = Tail(request[r].todo)
               /\ x.status = "ok" => Len(request[r].todo) = 1
  BY <1>1, ProceedSteps
<1>3. StoreTyped' /\ HistoryTyped /\ ProvidersVanishOnlyByDeletion
  BY <1>1 DEF RecordsInv, StoreTyped
<1>4. history' = [changed |-> history.changed, beside |-> history.beside,
                  dropped |-> history.dropped \cup {name}, restarts |-> history.restarts]
  BY <1>1, <1>3 DEF HistoryTyped
<1>5. HistoryTyped' /\ ProvidersVanishOnlyByDeletion'
  <2>1. registry' \subseteq registry
    BY <1>1
  <2>2. HistoryTyped'
    BY <1>1, <1>3, <1>4, <2>1 DEF HistoryTyped
  <2>3. ASSUME NEW p \in Shipped, p \notin registry'
        PROVE  p \in history'.dropped /\ p \in Removable
    BY <1>1, <1>3, <1>4, <2>3 DEF ProvidersVanishOnlyByDeletion
  <2> QED
    BY <2>2, <2>3 DEF ProvidersVanishOnlyByDeletion
<1>6. /\ store' = store /\ trail' = trail /\ history'.beside = history.beside
      /\ history'.changed = history.changed
  BY <1>1, <1>4
<1> QED
  BY <1>1, <1>2, <1>3, <1>5, <1>6, Advance

LEMMA RevokeKeyKeeps ==
  ASSUME RecordsInv, NEW r \in Requests, RevokeKey(r)
  PROVE  RecordsInv'
<1>1. /\ Running(r) /\ Head(request[r].todo) = "delete_key" /\ Proceed(r) /\ UNCHANGED <<registry, trail>>
  BY DEF RevokeKey, At
<1>2. PICK x : /\ Step(r, x) /\ x.todo = Tail(request[r].todo)
               /\ x.status = "ok" => Len(request[r].todo) = 1
  BY <1>1, ProceedSteps
<1>3. PICK key : store' = [store EXCEPT !.keys = @ \ {key}] /\ Noted(r)
  BY DEF RevokeKey, Changes
<1>4. /\ StoreTyped' /\ store'.configs = store.configs /\ store'.traces = store.traces
      /\ store'.usage_logs = store.usage_logs
  BY <1>3 DEF RecordsInv, StoreTyped
<1>5. /\ HistoryTyped' /\ ProvidersVanishOnlyByDeletion' /\ history'.beside = history.beside
      /\ history'.changed = history.changed \/ history'.changed = history.changed \cup {r}
  BY <1>1, <1>3, NotedTells
<1>6. trail' = trail
  BY <1>1
<1> QED
  BY <1>1, <1>2, <1>4, <1>5, <1>6, Advance

LEMMA PurgeTracesKeeps ==
  ASSUME RecordsInv, NEW r \in Requests, PurgeTraces(r)
  PROVE  RecordsInv'
<1>1. /\ Running(r) /\ Head(request[r].todo) = "purge_traces" /\ Proceed(r) /\ UNCHANGED <<registry, trail>>
  BY DEF PurgeTraces, At
<1>2. PICK x : /\ Step(r, x) /\ x.todo = Tail(request[r].todo)
               /\ x.status = "ok" => Len(request[r].todo) = 1
  BY <1>1, ProceedSteps
<1>3. PICK old \in SUBSET store.traces : store' = [store EXCEPT !.traces = @ \ old] /\ Noted(r)
  BY DEF PurgeTraces, Changes
<1>4. /\ StoreTyped' /\ store'.configs = store.configs /\ store'.traces \subseteq store.traces
      /\ store'.usage_logs = store.usage_logs
  BY <1>3 DEF RecordsInv, StoreTyped
<1>5. /\ HistoryTyped' /\ ProvidersVanishOnlyByDeletion' /\ history'.beside = history.beside
      /\ history'.changed = history.changed \/ history'.changed = history.changed \cup {r}
  BY <1>1, <1>3, NotedTells
<1>6. trail' = trail
  BY <1>1
<1> QED
  BY <1>1, <1>2, <1>4, <1>5, <1>6, Advance

LEMMA AuditKeeps ==
  ASSUME RecordsInv, NEW r \in Requests, Audit(r)
  PROVE  RecordsInv'
<1>1. /\ Running(r) /\ Head(request[r].todo) = "audit" /\ Proceed(r) /\ trail' = trail \cup {r}
      /\ UNCHANGED <<store, registry, history>>
  BY DEF Audit, At
<1>2. PICK x : /\ Step(r, x) /\ x.todo = Tail(request[r].todo)
               /\ x.status = "ok" => Len(request[r].todo) = 1
  BY <1>1, ProceedSteps
<1>3. StoreTyped' /\ HistoryTyped' /\ ProvidersVanishOnlyByDeletion'
  BY <1>1 DEF RecordsInv, StoreTyped, HistoryTyped, ProvidersVanishOnlyByDeletion
<1>4. store' = store /\ history' = history /\ trail \subseteq trail' /\ r \in trail'
  BY <1>1
<1> QED
  BY <1>1, <1>2, <1>3, <1>4, Advance

(* A request begins: beside every other that is running. *)
LEMMA ArrivesKeeps ==
  ASSUME RecordsInv, NEW r \in Requests, NEW kind \in DOMAIN Handler, NEW provider \in ProviderNames \cup {None},
         kind = "create_provider_config" => provider \in ProviderNames, Arrives(r, kind, provider)
  PROVE  RecordsInv'
<1> DEFINE x == [request[r] EXCEPT !.kind = kind, !.provider = provider, !.todo = Handler[kind]]
           pairs == {{r, o} : o \in {p \in Requests : Running(p)}}
<1>1. /\ request[r].kind = None /\ UNCHANGED <<store, registry, trail>>
      /\ history' = [history EXCEPT !.beside = @ \cup pairs]
      /\ request \in [Requests -> RequestRecords] /\ StoreTyped /\ HistoryTyped /\ Handled
  BY DEF Arrives, RecordsInv
<1>2. /\ kind # None /\ Handler[kind] \in Seq(Statement) /\ Handler[kind] # <<>>
      /\ Left(kind, Handler[kind])
  BY HandlerTyped, LeftWhole, HandlersAssumption
<1>3. request' = [request EXCEPT ![r] = x]
  BY <1>1 DEF Arrives
<1>4. /\ x \in RequestRecords /\ x.kind = kind /\ x.provider = provider /\ x.todo = Handler[kind]
      /\ x.status = request[r].status
  <2>1. request[r] \in RequestRecords
    BY <1>1
  <2> QED
    BY <1>2, <2>1 DEF RequestRecords
<1> HIDE DEF x
<1>5. /\ request[r].status = None /\ r \notin history.changed /\ ~Running(r)
  <2>1. request[r].todo # <<>> => None \in DOMAIN Handler
    BY <1>1 DEF Handled, Left
  <2> QED
    BY <1>1, <2>1, HandlersAssumption DEF Handled, Running
<1>6. /\ request' \in [Requests -> RequestRecords] /\ request'[r] = x
      /\ \A o \in Requests : o # r => request'[o] = request[o]
  BY <1>1, <1>3, <1>4
<1> HIDE DEF pairs
<1>7. history' = [changed |-> history.changed, beside |-> history.beside \cup pairs,
                  dropped |-> history.dropped, restarts |-> history.restarts]
  BY <1>1 DEF HistoryTyped
<1>8. StoreTyped' /\ HistoryTyped'
  BY <1>1, <1>7 DEF StoreTyped, HistoryTyped
(* no handler that records an entry or a half begins with its last statement *)
<1>9. SaysOf(kind, Head(x.todo), Len(x.todo)) /\ Len(x.todo) \in Nat /\ x.todo # <<>>
  BY <1>2, <1>4, LeftSays
<1>10. /\ kind = "save_policies" => Len(x.todo) = 3
       /\ kind = "erase_user_data" => Len(x.todo) = 2
       /\ Head(x.todo) # "insert_config"
  <2>1. kind = "save_policies" => Len(x.todo) = 3
    BY <1>4 DEF Handler, save_policies
  <2>2. kind = "erase_user_data" => Len(x.todo) = 2
    BY <1>4 DEF Handler, erase_user_data
  <2>3. kind = "create_provider_config" => Len(x.todo) = 4
    BY <1>4 DEF Handler, create_provider_config
  <2>4. Head(x.todo) = "insert_config" => kind = "create_provider_config" /\ Len(x.todo) = 3
    BY <1>9 DEF SaysOf
  <2> QED
    BY <2>1, <2>2, <2>3, <2>4
<1>11. Handled'
  <2> SUFFICES ASSUME NEW o \in Requests PROVE
        /\ Left(request'[o].kind, request'[o].todo)
        /\ request'[o].kind = None => o \notin history'.changed
        /\ request'[o].kind = None \/ request'[o].todo # <<>> => request'[o].status = None
        /\ request'[o].kind = "create_provider_config" => request'[o].provider \in ProviderNames
        /\ request'[o].kind = "update_provider_config" => o \notin history'.changed
        /\ request'[o].kind = "save_policies" /\ Len(request'[o].todo) = 1 => o \in trail'
        /\ request'[o].kind = "erase_user_data" /\ Len(request'[o].todo) = 1 => "before" \notin store'.traces
    BY DEF Handled, Running
  <2>1. CASE o # r
    BY <1>1, <1>6, <1>7, <2>1 DEF Handled, Running
  <2>2. CASE o = r
    <3>1. Left(x.kind, x.todo) /\ x.kind # None /\ x.status = None
      BY <1>2, <1>4, <1>5
    <3>2. x.kind = "create_provider_config" => x.provider \in ProviderNames
      BY <1>4
    <3>3. /\ x.kind = "save_policies" => Len(x.todo) # 1
          /\ x.kind = "erase_user_data" => Len(x.todo) # 1
      BY <1>4, <1>10
    <3>4. r \notin history'.changed
      BY <1>5, <1>7
    <3> QED
      BY <1>6, <2>2, <3>1, <3>2, <3>3, <3>4
  <2> QED
    BY <2>1, <2>2
<1>12. RunningTogether'
  <2> SUFFICES ASSUME NEW o \in Requests, NEW p \in Requests, o # p, Running(o)', Running(p)'
               PROVE  {o, p} \in history'.beside
    BY DEF RunningTogether
  <2>1. \A q \in Requests : q # r /\ Running(q)' => Running(q) /\ {r, q} \in pairs
    BY <1>6 DEF Running, pairs
  <2>2. CASE o # r /\ p # r
    BY <1>7, <2>1, <2>2 DEF RecordsInv, RunningTogether
  <2>3. CASE o = r
    BY <1>7, <2>1, <2>3
  <2>4. CASE p = r
    <3>1. {r, o} \in pairs /\ {r, o} = {o, r}
      BY <2>1, <2>4
    <3> QED
      BY <1>7, <2>4, <3>1
  <2> QED
    BY <2>2, <2>3, <2>4
<1>13. Looked'
  <2> SUFFICES ASSUME NEW o \in Requests, At(o, "insert_config")',
                      NEW c \in store'.configs, c.provider = request'[o].provider
               PROVE  {c.id, o} \in history'.beside
    BY DEF Looked
  <2>1. o # r
    BY <1>6, <1>10 DEF At
  <2>2. At(o, "insert_config") /\ request'[o] = request[o]
    BY <1>6, <2>1 DEF At, Running
  <2> QED
    BY <1>1, <1>7, <2>2 DEF RecordsInv, Looked
<1>14. OneConfigPerProvider' /\ ProvidersVanishOnlyByDeletion'
  BY <1>1, <1>7 DEF RecordsInv, OneConfigPerProvider, ProvidersVanishOnlyByDeletion
<1>15. x.status # "ok"
  BY <1>4, <1>5, HandlersAssumption
<1>16. ErasedWhole'
  BY <1>1, <1>6, <1>15 DEF RecordsInv, ErasedWhole
<1>17. ChangesAreAudited'
  BY <1>1, <1>5, <1>6, <1>7 DEF RecordsInv, ChangesAreAudited, HistoryTyped
<1> QED
  BY <1>6, <1>8, <1>11, <1>12, <1>13, <1>14, <1>16, <1>17 DEF RecordsInv

LEMMA UsageArrivesKeeps ==
  ASSUME RecordsInv, UsageArrives
  PROVE  RecordsInv'
<1>1. /\ store' = [store EXCEPT !.usage_logs = @ \cup {"later"}]
      /\ UNCHANGED <<registry, request, trail, history>>
  BY DEF UsageArrives
<1>2. /\ StoreTyped' /\ store'.configs = store.configs /\ store'.traces = store.traces
      /\ store'.usage_logs = store.usage_logs \cup {"later"}
  BY <1>1 DEF RecordsInv, StoreTyped
<1>3. HistoryTyped' /\ Handled' /\ RunningTogether' /\ Looked'
  BY <1>1, <1>2 DEF RecordsInv, HistoryTyped, Handled, RunningTogether, Looked, Running, At
<1>4. OneConfigPerProvider' /\ ProvidersVanishOnlyByDeletion' /\ ErasedWhole' /\ ChangesAreAudited'
  BY <1>1, <1>2 DEF RecordsInv, OneConfigPerProvider, ProvidersVanishOnlyByDeletion, ErasedWhole,
     ChangesAreAudited
<1> QED
  BY <1>1, <1>2, <1>3, <1>4 DEF RecordsInv

LEMMA GatewayRestartsKeeps ==
  ASSUME RecordsInv, GatewayRestarts
  PROVE  RecordsInv'
<1>1. /\ history' = [history EXCEPT !.restarts = 1, !.dropped = {}] /\ registry' = Shipped
      /\ request' = [r \in Requests |-> IF Running(r)
                       THEN [request[r] EXCEPT !.todo = <<>>, !.status = "error"] ELSE request[r]]
      /\ UNCHANGED <<store, trail>> /\ HistoryTyped /\ request \in [Requests -> RequestRecords] /\ Handled
  BY DEF GatewayRestarts, RecordsInv
<1>2. ASSUME NEW r \in Requests
      PROVE  /\ request'[r] \in RequestRecords /\ request'[r].kind = request[r].kind
             /\ request'[r].provider = request[r].provider /\ request'[r].todo = <<>>
             /\ request'[r].status = IF Running(r) THEN "error" ELSE request[r].status
  <2>1. request[r] \in RequestRecords /\ <<>> \in Seq(Statement)
    BY <1>1, EmptySeq
  <2> QED
    BY <1>1, <2>1 DEF RequestRecords, Running
<1>3. history' = [changed |-> history.changed, beside |-> history.beside, dropped |-> {}, restarts |-> 1]
  BY <1>1 DEF HistoryTyped
<1>4. StoreTyped' /\ HistoryTyped'
  BY <1>1, <1>3 DEF RecordsInv, StoreTyped, HistoryTyped
<1>5. request' \in [Requests -> RequestRecords]
  BY <1>1, <1>2
<1>6. \A r \in Requests : ~Running(r)'
  BY <1>2 DEF Running
<1>7. Handled'
  <2> SUFFICES ASSUME NEW r \in Requests PROVE
        /\ Left(request'[r].kind, request'[r].todo)
        /\ request'[r].kind = None => r \notin history'.changed
        /\ request'[r].kind = None => request'[r].status = None
        /\ request'[r].kind = "create_provider_config" => request'[r].provider \in ProviderNames
        /\ request'[r].kind = "update_provider_config" => r \notin history'.changed
        /\ Len(request'[r].todo) # 1
    BY <1>6 DEF Handled
  <2>1. Left(request'[r].kind, request'[r].todo) /\ Len(request'[r].todo) # 1
    <3>1. request'[r].todo = <<>> /\ Len(<<>>) = 0
      BY <1>2, EmptySeq
    <3> QED
      BY <3>1 DEF Left
  <2>2. request[r].kind = None => ~Running(r) /\ request[r].status = None
    <3>1. request[r].kind = None /\ Running(r) => None \in DOMAIN Handler
      BY <1>1 DEF Handled, Left, Running
    <3> QED
      BY <1>1, <3>1, HandlersAssumption DEF Handled
  <2> QED
    BY <1>1, <1>2, <1>3, <2>1, <2>2 DEF Handled
<1>8. RunningTogether' /\ Looked'
  BY <1>6 DEF RunningTogether, Looked, At
<1>9. OneConfigPerProvider' /\ ProvidersVanishOnlyByDeletion'
  BY <1>1, <1>3 DEF RecordsInv, OneConfigPerProvider, ProvidersVanishOnlyByDeletion
<1>10. \A r \in Requests : request'[r].status = "ok" => request[r].status = "ok"
  BY <1>2
<1>11. ErasedWhole'
  BY <1>1, <1>2, <1>10 DEF RecordsInv, ErasedWhole
<1>12. ChangesAreAudited'
  <2> SUFFICES ASSUME NEW r \in history.changed PROVE
        /\ request'[r].kind \in Audited /\ request'[r].status = "ok" => r \in trail
        /\ request'[r].kind = "save_policies" => r \in trail
    BY <1>1, <1>3 DEF ChangesAreAudited
  <2>1. r \in Requests
    BY <1>1 DEF HistoryTyped
  <2> QED
    BY <1>2, <1>10, <2>1 DEF RecordsInv, ChangesAreAudited
<1> QED
  BY <1>4, <1>5, <1>7, <1>8, <1>9, <1>11, <1>12 DEF RecordsInv

LEMMA InitRecordsInv == AdminInit => RecordsInv
<1> SUFFICES ASSUME AdminInit PROVE RecordsInv
  OBVIOUS
<1>1. PICK tables \in SUBSET {"configs", "approvals"}, names \in SUBSET Shipped :
        store = [tables |-> tables, configs |-> {[id |-> n, provider |-> n] : n \in names},
                 user |-> None, keys |-> {}, words |-> {}, webhook |-> None,
                 policies |-> None, thresholds |-> <<None, None>>,
                 results |-> {}, overrides |-> {}, feedback |-> {},
                 traces |-> {"before"}, usage_logs |-> {"before"}]
  BY DEF AdminInit
<1>2. /\ registry = Shipped /\ trail = {}
      /\ request = [r \in Requests |-> [kind |-> None, provider |-> None, id |-> None,
                                        todo |-> <<>>, status |-> None]]
      /\ history = [changed |-> {}, beside |-> {}, dropped |-> {}, restarts |-> 0]
  BY DEF AdminInit
<1>3. StoreTyped
  <2>1. {[id |-> n, provider |-> n] : n \in names} \subseteq [id : Ids, provider : ProviderNames]
    BY DEF Ids, ProviderNames
  <2> QED
    BY <1>1, <2>1 DEF StoreTyped
<1>4. HistoryTyped
  BY <1>2 DEF HistoryTyped
<1>5. request \in [Requests -> RequestRecords]
  <2>1. <<>> \in Seq(Statement)
    BY EmptySeq
  <2> QED
    BY <1>2, <2>1 DEF RequestRecords
<1>6. \A r \in Requests : /\ request[r].kind = None /\ request[r].todo = <<>>
                          /\ request[r].status = None /\ ~Running(r)
  BY <1>2 DEF Running
<1>7. None \notin {"create_provider_config", "update_provider_config", "save_policies",
                   "erase_user_data", "ok"}
  BY HandlersAssumption DEF Handler
<1>8. Handled
  BY <1>2, <1>6, <1>7 DEF Handled, Left
<1>9. RunningTogether /\ Looked
  BY <1>6 DEF RunningTogether, Looked, At
<1>10. OneConfigPerProvider
  BY <1>1 DEF OneConfigPerProvider
<1>11. ProvidersVanishOnlyByDeletion /\ ErasedWhole /\ ChangesAreAudited
  BY <1>2, <1>6, <1>7 DEF ProvidersVanishOnlyByDeletion, ErasedWhole, ChangesAreAudited
<1> QED
  BY <1>3, <1>4, <1>5, <1>8, <1>9, <1>10, <1>11 DEF RecordsInv

LEMMA AdminNextKeeps ==
  ASSUME RecordsInv, AdminNext
  PROVE  RecordsInv'
<1>1. CASE UsageArrives
  BY <1>1, UsageArrivesKeeps
<1>2. CASE GatewayRestarts
  BY <1>2, GatewayRestartsKeeps
<1>3. ASSUME NEW r \in Requests, NEW kind \in DOMAIN Handler \ {"create_provider_config"},
             Arrives(r, kind, None)
      PROVE  RecordsInv'
  BY <1>3, ArrivesKeeps
<1>4. ASSUME NEW r \in Requests, NEW name \in ProviderNames, Arrives(r, "create_provider_config", name)
      PROVE  RecordsInv'
  <2>1. "create_provider_config" \in DOMAIN Handler
    BY DEF Handler
  <2> QED
    BY <1>4, <2>1, ArrivesKeeps
<1>5. ASSUME NEW r \in Requests,
             \/ \E s \in Writes : StatementWrites(r, s)
             \/ StatementFails(r) \/ PoliciesNotWritten(r)
             \/ FindUser(r) \/ FindConfig(r) \/ GetConfig(r) \/ UpdateConfig(r)
             \/ UnregisterProvider(r) \/ ReadsOnly(r) \/ RevokeKey(r) \/ PurgeTraces(r) \/ Audit(r)
      PROVE  RecordsInv'
  BY <1>5, StatementWritesKeeps, StatementFailsKeeps, PoliciesNotWrittenKeeps, FindUserKeeps,
     FindConfigKeeps, GetConfigKeeps, UpdateConfigKeeps, UnregisterProviderKeeps, ReadsOnlyKeeps,
     RevokeKeyKeeps, PurgeTracesKeeps, AuditKeeps
<1> QED
  BY <1>1, <1>2, <1>3, <1>4, <1>5 DEF AdminNext

LEMMA RecordsStutter ==
  ASSUME RecordsInv, UNCHANGED admin_vars
  PROVE  RecordsInv'
<1>1. UNCHANGED <<store, registry, request, trail, history>>
  BY DEF admin_vars
<1>2. StoreTyped' /\ HistoryTyped' /\ Handled' /\ RunningTogether' /\ Looked'
  BY <1>1 DEF RecordsInv, StoreTyped, HistoryTyped, Handled, RunningTogether, Looked, Running, At
<1>3. OneConfigPerProvider' /\ ProvidersVanishOnlyByDeletion' /\ ErasedWhole' /\ ChangesAreAudited'
  BY <1>1 DEF RecordsInv, OneConfigPerProvider, ProvidersVanishOnlyByDeletion, ErasedWhole,
     ChangesAreAudited
<1> QED
  BY <1>1, <1>2, <1>3 DEF RecordsInv

-----------------------------------------------------------------------------
(* What the invariants say. *)
LEMMA OncePerProcess == LoginsInv => RefreshedOncePerProcess
<1> SUFFICES ASSUME LoginsInv, NEW r \in 1..MaxRefresh
             PROVE  granted[r] <= Cardinality(Processes) + restarts
  BY DEF RefreshedOncePerProcess
<1>1. granted[r] <= Cardinality(Having(r)) + restarts /\ granted[r] \in Nat /\ restarts \in Nat
  BY DEF LoginsInv, UsesAreBlacklisted, LoginsTyped
<1> QED
  BY <1>1, HavingCounted, ParametersTyped

LEMMA HeldIsCounted ==
  Cardinality(Held) <= Cardinality({k \in Kinds : variable[k] # None})
<1> DEFINE S == {k \in Kinds : variable[k] # None}
           f == [k \in S |-> variable[k]]
<1>1. IsFiniteSet(S)
  <2>1. IsFiniteSet({} \cup {"pool"}) /\ IsFiniteSet({} \cup {"pool"} \cup {"redis"})
    BY FS_EmptySet, FS_AddElement
  <2>2. S \in SUBSET ({} \cup {"pool"} \cup {"redis"})
    BY DEF Kinds
  <2> QED
    BY <2>1, <2>2, FS_Subset
<1>2. f \in Surjection(S, Held)
  BY DEF Surjection, Held
<1> HIDE DEF S, f
<1>3. Cardinality(Held) <= Cardinality(S)
  BY <1>1, <1>2, FS_Surjection
<1> QED
  BY <1>3 DEF S

LEMMA NothingLeaks == ConnectionsInv => LeakedOnlyByOverlap
<1> SUFFICES ASSUME ConnectionsInv, together = {}
             PROVE  /\ Cardinality(open) <= Cardinality({k \in Kinds : variable[k] # None})
                    /\ \A k \in Kinds : variable[k] = None \/ variable[k] \in open
  BY DEF LeakedOnlyByOverlap
<1>1. open = Held
  BY DEF ConnectionsInv, OpenIsHeld
<1> QED
  BY <1>1, HeldIsCounted DEF Held

-----------------------------------------------------------------------------
(* The page: it needs nothing but itself. *)
LEMMA Shown ==
  ASSUME NEW view, NEW of
  PROVE  Shows(view, of).view = view /\ Shows(view, of).of = of
BY DEF Shows

LEMMA AppNextKeeps ==
  ASSUME ScreenMatchesState, AppNext
  PROVE  ScreenMatchesState'
<1> USE Shown DEF ScreenMatchesState
<1>1. ASSUME NEW d \in Drawings, Login(d) PROVE ScreenMatchesState'
  BY <1>1 DEF Login, Render
<1>2. ASSUME NEW d \in Drawings, RenderAgain(d) PROVE ScreenMatchesState'
  BY <1>2 DEF RenderAgain, Render
<1>3. ASSUME NEW d \in Drawings, NEW view \in Views, SetTab(d, view) PROVE ScreenMatchesState'
  <2>1. main' = Shows("loading", None)
    BY <1>3, Zenon DEF SetTab, Render
  <2> QED
    BY <2>1
<1>4. ASSUME NEW d \in Drawings, AutoRefresh(d) \/ ReadAnswered(d) PROVE ScreenMatchesState'
  BY <1>4 DEF AutoRefresh, ReadAnswered
<1>5. ASSUME NEW d \in Drawings, FinishIncidents(d) PROVE ScreenMatchesState'
  BY <1>5 DEF FinishIncidents
<1>6. ASSUME NEW d \in Drawings, FinishOverview(d) PROVE ScreenMatchesState'
  <2>1. CASE main' = Shows("no_data", None) /\ UNCHANGED incident_cache
    BY <2>1
  <2>2. CASE main' = Shows("overview", drawing[d].got.list) /\ incident_cache' = drawing[d].got.list
    BY <2>2
  <2> QED
    BY <1>6, <2>1, <2>2 DEF FinishOverview
<1>7. ASSUME NEW d \in Drawings, FinishPolicies(d) PROVE ScreenMatchesState'
  BY <1>7 DEF FinishPolicies
<1>8. ASSUME NEW d \in Drawings, FinishDenyList(d) \/ FinishOther(d) PROVE ScreenMatchesState'
  BY <1>8 DEF FinishDenyList, FinishOther
<1>9. ASSUME NEW d \in Drawings, EditPolicy(d) PROVE ScreenMatchesState'
  BY <1>9 DEF EditPolicy
<1>10. ASSUME NEW d \in Drawings, NEW rule \in Rules, AddCustomRule(d, rule) PROVE ScreenMatchesState'
  BY <1>10 DEF AddCustomRule
<1>11. CASE HandleLogout \/ SavePolicies \/ DataChanges
  BY <1>11 DEF HandleLogout, SavePolicies, DataChanges
<1> QED
  BY <1>1, <1>2, <1>3, <1>4, <1>5, <1>6, <1>7, <1>8, <1>9, <1>10, <1>11 DEF AppNext

-----------------------------------------------------------------------------
(* The types, which the invariants above do not need in full: no entry of  *)
(* a list is younger than the clock or comes from elsewhere, and a caller  *)
(* that waits has attempts left.                                           *)
LEMMA YoungerFrom ==
  ASSUME NEW times \in Seq(Nat), NEW t \in Nat
  PROVE  \A j \in DOMAIN Younger(times, t) : \E i \in DOMAIN times : Younger(times, t)[j] = times[i]
<1>1. PICK g : IsKept(g, times, t) /\ Younger(times, t) = g[Len(times)]
  BY KeptYounger
<1> DEFINE T == {n \in Nat : n <= Len(times) =>
                   g[n] \in Seq(Nat) /\ \A j \in DOMAIN g[n] : \E i \in DOMAIN times : g[n][j] = times[i]}
<1>2. 0 \in T
  <2>1. g[0] = <<>>
    BY <1>1, KeptAt
  <2>2. <<>> \in Seq(Nat) /\ Len(<<>>) = 0 /\ DOMAIN <<>> = {}
    OBVIOUS
  <2> QED
    BY <2>1, <2>2
<1>3. ASSUME NEW n \in Nat, n \in T PROVE n + 1 \in T
  <2> SUFFICES ASSUME n + 1 <= Len(times)
               PROVE  g[n + 1] \in Seq(Nat)
                      /\ \A j \in DOMAIN g[n + 1] : \E i \in DOMAIN times : g[n + 1][j] = times[i]
    OBVIOUS
  <2>1. n + 1 \in DOMAIN times /\ times[n + 1] \in Nat
    OBVIOUS
  <2>2. g[n + 1] = IF times[n + 1] + FAILURE_WINDOW > t THEN Append(g[n], times[n + 1]) ELSE g[n]
    BY <1>1, KeptAt
  <2>3. g[n] \in Seq(Nat) /\ \A j \in DOMAIN g[n] : \E i \in DOMAIN times : g[n][j] = times[i]
    BY <1>3
  <2>4. CASE g[n + 1] = g[n]
    BY <2>3, <2>4
  <2>5. CASE g[n + 1] = Append(g[n], times[n + 1])
    <3>1. /\ g[n + 1] \in Seq(Nat)
          /\ \A j \in DOMAIN g[n + 1] :
               g[n + 1][j] = times[n + 1] \/ (j \in DOMAIN g[n] /\ g[n + 1][j] = g[n][j])
      BY <2>1, <2>3, <2>5
    <3> QED
      BY <2>1, <2>3, <3>1
  <2> QED
    BY <2>2, <2>4, <2>5
<1> HIDE DEF T
<1>4. Len(times) \in T
  BY <1>2, <1>3, SetInduction
<1> USE DEF T
<1> QED
  BY <1>1, <1>4

LEMMA InWindowFrom ==
  ASSUME NEW times \in Seq(Nat), now \in Nat, \A i \in DOMAIN times : times[i] \in 1..now
  PROVE  \A j \in DOMAIN InWindow(times) : InWindow(times)[j] \in 1..now
BY YoungerFrom DEF InWindow

LEMMA LoginsTypesKept ==
  ASSUME LoginsInv, LoginsTypeOK, LoginsNext
  PROVE  LoginsTypeOK'
<1>1. /\ now \in 1..LastSecond /\ now \in Nat /\ LastSecond \in Nat /\ MaxRefresh \in Nat
      /\ tokens \in 0..MaxRefresh /\ restarts \in 0..1
      /\ failures \in [Processes -> [Names -> Seq(Nat)]] /\ blacklist \in [Processes -> SUBSET Nat]
      /\ \A p \in Processes : blacklist[p] \subseteq 1..tokens
      /\ \A p \in Processes : \A n \in Names : \A i \in DOMAIN failures[p][n] : failures[p][n][i] \in 1..now
      /\ \A c \in Clients : login[c].status \in {"none", "loading", "200", "401", "429"}
      /\ login = [c \in Clients |-> login[c]]
      /\ \A c \in Clients : login[c].status = "loading" => login[c].process \in Processes /\ login[c].name \in Names
  BY LoginsAssumption DEF LoginsInv, LoginsTyped, LoginsTypeOK
<1>2. ASSUME NEW c \in Clients, LoginBegins(c) PROVE LoginsTypeOK'
  <2>1. PICK p \in Processes, n \in Names :
          /\ failures' = [failures EXCEPT ![p][n] = InWindow(failures[p][n])]
          /\ login' = [login EXCEPT ![c] = IF TooMany(InWindow(failures[p][n])) THEN Answered("429")
                                           ELSE [name |-> n, process |-> p, status |-> "loading"]]
    BY <1>2 DEF LoginBegins
  <2>2. UNCHANGED <<now, tokens, blacklist, granted, restarts>>
    BY <1>2 DEF LoginBegins
  <2>3. failures[p][n] \in Seq(Nat)
    BY <1>1
  <2>4. \A j \in DOMAIN InWindow(failures[p][n]) : InWindow(failures[p][n])[j] \in 1..now
    BY <1>1, <2>3, InWindowFrom
  <2>5. \A q \in Processes, m \in Names :
          failures'[q][m] = IF q = p /\ m = n THEN InWindow(failures[p][n]) ELSE failures[q][m]
    BY <1>1, <2>1
  <2>6. \A d \in Clients : login'[d].status \in {"none", "loading", "200", "401", "429"}
    BY <1>1, <2>1 DEF Answered
  <2>7. \A q \in Processes, m \in Names : \A i \in DOMAIN failures'[q][m] : failures'[q][m][i] \in 1..now
    <3> TAKE q \in Processes, m \in Names
    <3> DEFINE pruned == InWindow(failures[p][n])
    <3>1. failures'[q][m] = pruned \/ failures'[q][m] = failures[q][m]
      BY <2>5
    <3>2. \A i \in DOMAIN pruned : pruned[i] \in 1..now
      BY <2>4
    <3> HIDE DEF pruned
    <3> QED
      BY <1>1, <3>1, <3>2
  <2> QED
    BY <1>1, <2>2, <2>6, <2>7 DEF LoginsTypeOK
<1>3. ASSUME NEW c \in Clients, LoginEnds(c) PROVE LoginsTypeOK'
  <2> DEFINE p == login[c].process
             n == login[c].name
             more == Append(InWindow(failures[p][n]), now)
  <2>1. /\ p \in Processes /\ n \in Names /\ UNCHANGED <<now, blacklist, granted, restarts>>
        /\ failures[p][n] \in Seq(Nat)
    BY <1>1, <1>3 DEF LoginEnds
  <2>2. \A j \in DOMAIN more : more[j] \in 1..now
    <3>1. \A j \in DOMAIN InWindow(failures[p][n]) : InWindow(failures[p][n])[j] \in 1..now
      BY <1>1, <2>1, InWindowFrom
    <3>2. InWindow(failures[p][n]) \in Seq(Nat) /\ now \in Nat \ {0}
      <4> DEFINE h == failures[p][n]
      <4>1. h \in Seq(Nat)
        BY <2>1
      <4> HIDE DEF h
      <4>2. Younger(h, now) \in Seq(Nat)
        BY <1>1, <4>1, YoungerTyped
      <4> QED
        BY <1>1, <4>2 DEF InWindow, h
    <3> DEFINE w == InWindow(failures[p][n])
    <3> HIDE DEF w
    <3>3. w \in Seq(Nat) /\ \A j \in DOMAIN w : w[j] \in 1..now
      BY <3>1, <3>2 DEF w
    <3>4. \A j \in DOMAIN Append(w, now) : Append(w, now)[j] \in 1..now
      BY <3>2, <3>3
    <3> QED
      BY <3>4 DEF w
  <2>3. /\ \/ failures' = failures /\ tokens' = tokens
           \/ failures' = [failures EXCEPT ![p][n] = <<>>] /\ tokens < MaxRefresh /\ tokens' = tokens + 1
           \/ failures' = [failures EXCEPT ![p][n] = more] /\ tokens' = tokens
        /\ login' = [login EXCEPT ![c] = Answered("200")] \/ login' = [login EXCEPT ![c] = Answered("401")]
    BY <1>1, <1>3, <2>1 DEF LoginEnds
  <2>4. \A d \in Clients : login'[d].status \in {"none", "loading", "200", "401", "429"}
    BY <1>1, <2>3 DEF Answered
  <2>5. \A i \in DOMAIN <<>> : <<>>[i] \in 1..now
    OBVIOUS
  <2> HIDE DEF more
  <2>10. \A q \in Processes, m \in Names :
           /\ failures' = [failures EXCEPT ![p][n] = <<>>] =>
                failures'[q][m] = IF q = p /\ m = n THEN <<>> ELSE failures[q][m]
           /\ failures' = [failures EXCEPT ![p][n] = more] =>
                failures'[q][m] = IF q = p /\ m = n THEN more ELSE failures[q][m]
    BY <1>1, <2>1
  <2> HIDE DEF p, n
  <2>6. \A q \in Processes, m \in Names :
          \/ failures'[q][m] = failures[q][m]
          \/ failures'[q][m] = <<>>
          \/ failures'[q][m] = more
    BY <2>3, <2>10
  <2>7. \A q \in Processes, m \in Names : \A i \in DOMAIN failures'[q][m] : failures'[q][m][i] \in 1..now
    BY <1>1, <2>2, <2>5, <2>6
  <2>8. tokens' \in 0..MaxRefresh /\ tokens <= tokens'
    BY <1>1, <2>3
  <2>9. \A q \in Processes : blacklist'[q] \subseteq 1..tokens'
    BY <1>1, <2>1, <2>8
  <2> QED
    BY <1>1, <2>1, <2>4, <2>7, <2>8, <2>9 DEF LoginsTypeOK
<1>4. ASSUME NEW p \in Processes, NEW r \in 1..MaxRefresh, Refresh(p, r) \/ Logout(p, r)
      PROVE  LoginsTypeOK'
  <2>1. /\ r <= tokens /\ blacklist' = [blacklist EXCEPT ![p] = @ \cup {r}]
        /\ UNCHANGED <<now, failures, login, tokens, restarts>>
    BY <1>4 DEF Refresh, Logout
  <2> QED
    BY <1>1, <2>1 DEF LoginsTypeOK
<1>5. ASSUME NEW p \in Processes, ProcessRestarts(p) PROVE LoginsTypeOK'
  <2>1. /\ restarts < 1 /\ restarts' = restarts + 1 /\ UNCHANGED <<now, tokens, granted>>
        /\ failures' = [failures EXCEPT ![p] = [n \in Names |-> <<>>]]
        /\ blacklist' = [blacklist EXCEPT ![p] = {}]
        /\ login' = [c \in Clients |-> IF login[c].process = p /\ login[c].status = "loading"
                                       THEN Answered("none") ELSE login[c]]
    BY <1>5 DEF ProcessRestarts
  <2>2. \A c \in Clients : login'[c].status \in {"none", "loading", "200", "401", "429"}
    BY <1>1, <2>1 DEF Answered
  <2>3. \A q \in Processes, m \in Names : failures'[q][m] = failures[q][m] \/ failures'[q][m] = <<>>
    BY <1>1, <2>1
  <2>4. \A i \in DOMAIN <<>> : <<>>[i] \in 1..now
    OBVIOUS
  <2>5. \A q \in Processes : blacklist'[q] \subseteq 1..tokens
    BY <1>1, <2>1
  <2> QED
    BY <1>1, <2>1, <2>2, <2>3, <2>4, <2>5 DEF LoginsTypeOK
<1>6. CASE SecondPasses
  <2>1. /\ now < LastSecond /\ now' = now + 1
        /\ UNCHANGED <<failures, login, tokens, blacklist, granted, restarts>>
    BY <1>6 DEF SecondPasses
  <2> QED
    BY <1>1, <2>1 DEF LoginsTypeOK
<1> QED
  BY <1>2, <1>3, <1>4, <1>5, <1>6 DEF LoginsNext

LEMMA LoadedKept ==
  ASSUME loaded \in [Workers -> BOOLEAN], CanaryInv, CanaryNext
  PROVE  loaded' \in [Workers -> BOOLEAN]
BY DEF CanaryNext, Plant, BeginCheck, BeginRevoke, LoadRows, FillCache, LookUp, AnswerLookUp,
   UpdateStatus, ClearCache, CanaryFails

(* Attempts are begun only while there are some left. *)
CallersCounted ==
  \A c \in Callers : /\ caller[c].attempts <= Attempts
                     /\ caller[c].step = "idle" => caller[c].attempts = 0
                     /\ caller[c].step = "waits" => caller[c].attempts < Attempts

ConnectionTypes == ConnectionsTypeOK /\ CallersCounted

LEMMA ConnectionTypesKept ==
  ASSUME ConnectionsInv, ConnectionTypes, ConnectionsNext
  PROVE  ConnectionTypes'
<1>1. /\ Attempts \in Nat /\ Attempts >= 1 /\ Resources \in Nat /\ made \in 0..Resources
      /\ variable \in [Kinds -> 1..made \cup {None}] /\ closing \in [Kinds -> 1..made \cup {None}]
      /\ open \subseteq 1..made /\ asked \subseteq 1..made /\ caller \in [Callers -> CallerRecords]
      /\ "pool" \in Kinds /\ "redis" \in Kinds
      /\ \A c \in Callers : /\ caller[c].step \in {"idle", "making", "waits", "done"}
                            /\ caller[c].attempts \in Nat /\ caller[c].attempts <= Attempts
                            /\ caller[c].result \in 0..made \cup {None}
                            /\ caller[c].step = "idle" => caller[c].attempts = 0
                            /\ caller[c].step = "waits" => caller[c].attempts < Attempts
  BY ConnectionsAssumption
     DEF ConnectionsInv, ConnectionsTyped, ConnectionTypes, ConnectionsTypeOK, CallersCounted, Kinds
<1>0. /\ variable["pool"] \in 0..made \cup {None} /\ variable["redis"] \in 0..made \cup {None}
      /\ \A c \in Callers : caller[c].attempts \in Nat /\ caller[c].attempts <= Attempts
  BY <1>1
<1>frame. UNCHANGED <<variable, made, open>> /\ asked' \subseteq asked =>
        /\ made' \in Nat /\ made <= made' /\ variable' \in [Kinds -> 1..made' \cup {None}]
        /\ open' \subseteq 1..made' /\ asked' \subseteq 1..made'
  BY <1>1
<1>2. ASSUME NEW c \in Callers, NEW x, caller' = [caller EXCEPT ![c] = x],
             x.step \in {"making", "waits", "done"}, x.attempts \in Nat, x.attempts <= Attempts,
             x.step = "waits" => x.attempts < Attempts,
             x.result \in 0..made' \cup {None}, made' \in Nat, made <= made',
             variable' \in [Kinds -> 1..made' \cup {None}], closing' = closing,
             open' \subseteq 1..made', asked' \subseteq 1..made'
      PROVE  ConnectionTypes'
  <2>1. caller'[c] = x /\ \A d \in Callers : d # c => caller'[d] = caller[d]
    BY <1>1, <1>2
  <2>2. \A k \in Kinds : variable'[k] \in 1..made' \cup {None} /\ closing'[k] \in 1..made' \cup {None}
    BY <1>1, <1>2
  <2>3. ASSUME NEW d \in Callers
        PROVE  /\ caller'[d].step \in {"idle", "making", "waits", "done"}
               /\ caller'[d].attempts \in 0..Attempts
               /\ caller'[d].result \in 0..made' \cup {None}
               /\ caller'[d].attempts <= Attempts
               /\ caller'[d].step = "idle" => caller'[d].attempts = 0
               /\ caller'[d].step = "waits" => caller'[d].attempts < Attempts
    BY <1>1, <1>2, <2>1
  <2> QED
    BY <1>2, <2>2, <2>3 DEF ConnectionTypes, ConnectionsTypeOK, CallersCounted
<1>3. ASSUME NEW c \in Callers, AskPool(c) PROVE ConnectionTypes'
  <2>1. caller[c].attempts + 1 <= Attempts
    BY <1>1, <1>3 DEF AskPool
  <2>2. CASE variable["pool"] = None
    <3> DEFINE x == [kind |-> "pool", step |-> "making", attempts |-> caller[c].attempts + 1,
                     makes |-> None, result |-> None]
    <3>fields. x.step = "making" /\ x.attempts = caller[c].attempts + 1 /\ x.result = None
      OBVIOUS
    <3>1. caller' = [caller EXCEPT ![c] = x] /\ UNCHANGED <<variable, open, made, asked, closing>>
      BY <1>3, <2>2 DEF AskPool, Goes
    <3> HIDE DEF x
    <3>types. x.attempts \in Nat /\ x.attempts <= Attempts /\ x.result \in 0..made' \cup {None}
      BY <1>0, <1>1, <2>1, <3>1, <3>fields
    <3> QED
      BY <1>1, <1>2, <2>1, <3>1, <3>fields, <3>types, <1>frame
  <2>3. CASE variable["pool"] # None
    <3> DEFINE x == [kind |-> "pool", step |-> "done", attempts |-> caller[c].attempts,
                     makes |-> None, result |-> variable["pool"]]
    <3>fields. x.step = "done" /\ x.attempts = caller[c].attempts /\ x.result = variable["pool"]
      OBVIOUS
    <3>1. caller' = [caller EXCEPT ![c] = x] /\ UNCHANGED <<variable, open, made, asked, closing>>
      BY <1>3, <2>3 DEF AskPool, Goes
    <3> HIDE DEF x
    <3>types. x.attempts \in Nat /\ x.attempts <= Attempts /\ x.result \in 0..made' \cup {None}
      BY <1>0, <1>1, <3>1, <3>fields
    <3> QED
      BY <1>1, <1>2, <3>1, <3>fields, <3>types, <1>frame
  <2> QED
    BY <2>2, <2>3
<1>4. ASSUME NEW c \in Callers, PoolStands(c) PROVE ConnectionTypes'
  <2> DEFINE x == [kind |-> "pool", step |-> "done", attempts |-> caller[c].attempts,
                   makes |-> None, result |-> made']
  <2>fields. x.step = "done" /\ x.attempts = caller[c].attempts /\ x.result = made'
    OBVIOUS
  <2>1. /\ made < Resources /\ made' = made + 1 /\ open' = open \cup {made'}
        /\ variable' = [variable EXCEPT !["pool"] = made']
        /\ caller' = [caller EXCEPT ![c] = x] /\ UNCHANGED <<asked, closing>>
    BY <1>4 DEF PoolStands, Goes
  <2>2. /\ made' \in Nat /\ made <= made' /\ made' \in 1..made' /\ 1..made \subseteq 1..made'
        /\ made' \in 0..made'
    BY <1>1, <2>1
  <2>3. variable' \in [Kinds -> 1..made' \cup {None}] /\ open' \subseteq 1..made' /\ asked' \subseteq 1..made'
    BY <1>1, <2>1, <2>2
  <2> HIDE DEF x
  <2>types. x.attempts \in Nat /\ x.attempts <= Attempts /\ x.result \in 0..made' \cup {None}
    BY <1>0, <1>1, <2>1, <2>2, <2>3, <2>fields
  <2> QED
    BY <1>1, <1>2, <2>1, <2>2, <2>3, <2>fields, <2>types
<1>5. ASSUME NEW c \in Callers, AskRedis(c) PROVE ConnectionTypes'
  <2>1. caller[c].attempts + 1 <= Attempts
    BY <1>1, <1>5 DEF AskRedis
  <2>2. CASE variable["redis"] = None
    <3> DEFINE x == [kind |-> "redis", step |-> "making", attempts |-> caller[c].attempts + 1,
                     makes |-> made', result |-> None]
    <3>fields. x.step = "making" /\ x.attempts = caller[c].attempts + 1 /\ x.result = None
      OBVIOUS
    <3>1. /\ made < Resources /\ made' = made + 1 /\ open' = open \cup {made'}
          /\ asked' = asked \cup {made'} /\ variable' = [variable EXCEPT !["redis"] = made']
          /\ caller' = [caller EXCEPT ![c] = x] /\ UNCHANGED closing
      BY <1>5, <2>2 DEF AskRedis, Goes
    <3>2. made' \in Nat /\ made <= made' /\ made' \in 1..made' /\ 1..made \subseteq 1..made'
      BY <1>1, <3>1
    <3>3. variable' \in [Kinds -> 1..made' \cup {None}] /\ open' \subseteq 1..made' /\ asked' \subseteq 1..made'
      BY <1>1, <3>1, <3>2
    <3> HIDE DEF x
    <3>types. x.attempts \in Nat /\ x.attempts <= Attempts /\ x.result \in 0..made' \cup {None}
      BY <1>0, <1>1, <2>1, <3>1, <3>2, <3>3, <3>fields
    <3> QED
      BY <1>1, <1>2, <2>1, <3>1, <3>2, <3>3, <3>fields, <3>types
  <2>3. CASE variable["redis"] # None
    <3> DEFINE x == [kind |-> "redis", step |-> "done", attempts |-> caller[c].attempts,
                     makes |-> None, result |-> variable["redis"]]
    <3>fields. x.step = "done" /\ x.attempts = caller[c].attempts /\ x.result = variable["redis"]
      OBVIOUS
    <3>1. caller' = [caller EXCEPT ![c] = x] /\ UNCHANGED <<variable, open, made, asked, closing>>
      BY <1>5, <2>3 DEF AskRedis, Goes
    <3> HIDE DEF x
    <3>types. x.attempts \in Nat /\ x.attempts <= Attempts /\ x.result \in 0..made' \cup {None}
      BY <1>0, <1>1, <3>1, <3>fields
    <3> QED
      BY <1>1, <1>2, <3>1, <3>fields, <3>types, <1>frame
  <2> QED
    BY <2>2, <2>3
<1>6. ASSUME NEW c \in Callers, PingAnswers(c) PROVE ConnectionTypes'
  <2> DEFINE x == [kind |-> "redis", step |-> "done", attempts |-> caller[c].attempts,
                   makes |-> None, result |-> variable["redis"]]
  <2>fields. x.step = "done" /\ x.attempts = caller[c].attempts /\ x.result = variable["redis"]
    OBVIOUS
  <2>1. /\ caller' = [caller EXCEPT ![c] = x] /\ asked' \subseteq asked
        /\ UNCHANGED <<variable, open, made, closing>>
    BY <1>6 DEF PingAnswers, Goes
  <2> HIDE DEF x
  <2>types. x.attempts \in Nat /\ x.attempts <= Attempts /\ x.result \in 0..made' \cup {None}
    BY <1>0, <1>1, <2>1, <2>fields
  <2> QED
    BY <1>1, <1>2, <2>1, <2>fields, <2>types, <1>frame
<1>7. ASSUME NEW c \in Callers, AttemptFails(c) \/ GivesUp(c) PROVE ConnectionTypes'
  <2>1. UNCHANGED <<variable, open, made, asked, closing>> /\ caller[c] \in CallerRecords
    BY <1>1, <1>7 DEF AttemptFails, GivesUp
  <2>2. PICK how \in {"waits", "done"}, result \in {None, 0} :
          /\ caller' = [caller EXCEPT ![c].step = how, ![c].makes = None, ![c].result = result]
          /\ how = "waits" => caller[c].attempts < Attempts
    BY <1>7 DEF AttemptFails, GivesUp, Error
  <2> DEFINE x == [caller[c] EXCEPT !.step = how, !.makes = None, !.result = result]
  <2>3. caller' = [caller EXCEPT ![c] = x]
    BY <1>1, <2>2
  <2>4. x.step = how /\ x.attempts = caller[c].attempts /\ x.result = result
    BY <2>1 DEF CallerRecords
  <2> HIDE DEF x
  <2>5. x.attempts \in Nat /\ x.attempts <= Attempts /\ x.result \in 0..made' \cup {None}
    BY <1>0, <1>1, <2>1, <2>2, <2>4
  <2>6. how = "waits" => caller[c].attempts < Attempts
    BY <2>2
  <2> QED
    BY <1>1, <1>2, <2>1, <2>3, <2>4, <2>5, <2>6, <1>frame
<1>8. ASSUME NEW k \in Kinds, CloseBegins(k) \/ CloseEnds(k) PROVE ConnectionTypes'
  <2>1. /\ UNCHANGED <<made, asked, caller>> /\ open' \subseteq open
        /\ \/ variable' = variable /\ closing' = [closing EXCEPT ![k] = variable[k]]
           \/ variable' = [variable EXCEPT ![k] = None] /\ closing' = [closing EXCEPT ![k] = None]
    BY <1>8 DEF CloseBegins, CloseEnds
  <2>2. \A j \in Kinds : variable'[j] \in 1..made \cup {None} /\ closing'[j] \in 1..made \cup {None}
    BY <1>1, <2>1
  <2>3. open' \cup asked' \subseteq 1..made
    BY <1>1, <2>1
  <2> QED
    BY <2>1, <2>2, <2>3 DEF ConnectionTypes, ConnectionsTypeOK, CallersCounted
<1> QED
  BY <1>3, <1>4, <1>5, <1>6, <1>7, <1>8 DEF ConnectionsNext

LEMMA AppTypesKept ==
  ASSUME AppTypeOK, AppNext
  PROVE  AppTypeOK'
<1> DEFINE Drawn == Views \cup {"nothing", "loading", "no_data"}
<1>2. \A d : \A view \in Drawn : Shows(view, d).view \in Drawn
  <2> HIDE DEF Drawn
  <2> QED
    BY Shown, Zenon
<1>1. /\ token \in {None, "token"} /\ selected \in Views /\ main.view \in Drawn /\ staged \subseteq Rules
  BY DEF AppTypeOK
<1>3. {"overview", "incidents", "guardrails", "denylist", "models", "testing", "nothing", "loading", "no_data"}
        \subseteq Drawn
  BY DEF Views, Reads
<1> SUFFICES /\ token' \in {None, "token"} /\ selected' \in Views /\ staged' \subseteq Rules
             /\ main' = main \/ \E d : \E view \in Drawn : main' = Shows(view, d)
  BY <1>1, <1>2 DEF AppTypeOK
<1> HIDE DEF Drawn
<1>4. ASSUME NEW d \in Drawings, Login(d) \/ RenderAgain(d) \/ \E view \in Views : SetTab(d, view)
      PROVE  /\ token' \in {None, "token"} /\ selected' \in Views /\ staged' \subseteq Rules
             /\ main' \in {main, Shows("loading", None)}
  <2>1. CASE Login(d)
    BY <1>1, <2>1 DEF Login, Render
  <2>2. CASE RenderAgain(d)
    BY <1>1, <2>2 DEF RenderAgain, Render
  <2>3. ASSUME NEW view \in Views, SetTab(d, view)
        PROVE  /\ token' = token /\ selected' = view /\ staged' = {}
               /\ main' \in {main, Shows("loading", None)}
    BY <2>3 DEF SetTab, Render
  <2> QED
    BY <1>1, <1>4, <2>1, <2>2, <2>3
<1>5. ASSUME NEW d \in Drawings,
             FinishIncidents(d) \/ FinishOverview(d) \/ FinishPolicies(d) \/ FinishDenyList(d) \/ FinishOther(d)
      PROVE  UNCHANGED <<token, selected, staged>> /\ \E v \in Drawn : \E l : main' = Shows(v, l)
  <2>1. CASE FinishIncidents(d)
    BY <1>3, <2>1 DEF FinishIncidents, Finishes
  <2>2. CASE FinishOverview(d)
    BY <1>3, <2>2 DEF FinishOverview, Finishes
  <2>3. CASE FinishPolicies(d)
    BY <1>3, <2>3 DEF FinishPolicies, Finishes
  <2>4. CASE FinishDenyList(d)
    BY <1>3, <2>4 DEF FinishDenyList, Finishes
  <2>5. CASE FinishOther(d)
    BY <1>3, <2>5 DEF FinishOther, Finishes
  <2> QED
    BY <1>5, <2>1, <2>2, <2>3, <2>4, <2>5
<1>6. ASSUME NEW d \in Drawings, EditPolicy(d)
      PROVE  UNCHANGED <<token, selected, staged>> /\ \E v \in Drawn : \E l : main' = Shows(v, l)
  BY <1>3, <1>6 DEF EditPolicy
<1>7. ASSUME NEW d \in Drawings, NEW rule \in Rules, AddCustomRule(d, rule)
      PROVE  UNCHANGED <<token, selected, main>> /\ staged' \subseteq Rules
  BY <1>1, <1>7 DEF AddCustomRule
<1>8. ASSUME NEW d \in Drawings, AutoRefresh(d) \/ ReadAnswered(d)
      PROVE  UNCHANGED <<token, selected, main, staged>>
  BY <1>8 DEF AutoRefresh, ReadAnswered
<1>9. ASSUME HandleLogout \/ SavePolicies \/ DataChanges
      PROVE  token' \in {token, None} /\ UNCHANGED <<selected, main, staged>>
  BY <1>9 DEF HandleLogout, SavePolicies, DataChanges
<1> QED
  BY <1>1, <1>3, <1>4, <1>5, <1>6, <1>7, <1>8, <1>9 DEF AppNext

-----------------------------------------------------------------------------
(* The parts move one at a time, so their invariants together are the      *)
(* whole's.                                                                *)
AdministrationInv ==
  LoginsInv /\ CanaryInv /\ ConnectionsInv /\ RowsInv /\ RecordsInv /\ ScreenMatchesState

(* Whatever the requests, failures and restarts, each of the five parts    *)
(* and the page keeps its invariant.                                       *)
THEOREM Invariance == MCSpec => []AdministrationInv
<1>1. MCInit => AdministrationInv
  <2>1. AppInit => ScreenMatchesState
    BY Shown DEF AppInit, ScreenMatchesState
  <2> QED
    BY <2>1, InitLoginsInv, InitCanaryInv, InitConnectionsInv, InitRowsInv, InitRecordsInv
       DEF MCInit, AdministrationInv
<1>2. ASSUME AdministrationInv,
             [MCNext]_<<focus, login_vars, row_vars, admin_vars, canary_vars, connection_vars, app_vars>>
      PROVE  AdministrationInv'
  <2>1. /\ LoginsNext \/ UNCHANGED login_vars
        /\ CanaryNext \/ UNCHANGED canary_vars
        /\ ConnectionsNext \/ UNCHANGED connection_vars
        /\ RowsNext \/ UNCHANGED row_vars
        /\ AdminNext \/ UNCHANGED admin_vars
        /\ AppNext \/ UNCHANGED app_vars
    BY <1>2 DEF MCNext
  <2>2. LoginsInv'
    BY <1>2, <2>1, LoginsNextKeeps, LoginsStutter DEF AdministrationInv
  <2>3. CanaryInv'
    BY <1>2, <2>1, CanaryNextKeeps, CanaryStutter DEF AdministrationInv
  <2>4. ConnectionsInv'
    BY <1>2, <2>1, ConnectionsNextKeeps, ConnectionsStutter DEF AdministrationInv
  <2>5. RowsInv'
    BY <1>2, <2>1, RowsNextKeeps, RowsStutter DEF AdministrationInv
  <2>6. RecordsInv'
    BY <1>2, <2>1, AdminNextKeeps, RecordsStutter DEF AdministrationInv
  <2>7. ScreenMatchesState'
    <3>1. UNCHANGED app_vars /\ ScreenMatchesState => ScreenMatchesState'
      BY DEF app_vars, ScreenMatchesState
    <3> QED
      BY <1>2, <2>1, <3>1, AppNextKeeps DEF AdministrationInv
  <2> QED
    BY <2>2, <2>3, <2>4, <2>5, <2>6, <2>7 DEF AdministrationInv
<1> QED
  BY <1>1, <1>2, PTL DEF MCSpec

(* In every interleaving of requests, restarts and failures (auth.py,      *)
(* canary.py, db.py, redis_client.py): of one name no process collects     *)
(* more failed logins within the window than the limit and the logins      *)
(* under way; a refresh token works at most once in the life of each       *)
(* process; a revoked canary token is back in a cache, or an active one    *)
(* missed, and a connection lost, only by requests that overlapped or, for *)
(* the missed one, an empty cache.                                         *)
THEOREM StateHolds == MCSpec => []ProcessStateHolds
<1>1. AdministrationInv => ProcessStateHolds
  BY OncePerProcess, NothingLeaks DEF AdministrationInv, LoginsInv, CanaryInv, ProcessStateHolds
<1> QED
  BY <1>1, Invariance, PTL

(* Though no handler runs in a transaction, and any statement may fail or  *)
(* the process end between two (routers/users.py to routers/settings.py,   *)
(* compliance.py, cost-tracker's budgets.py): a provider has two           *)
(* configurations, or an edit undoes another, only by requests that        *)
(* overlapped; a provider vanishes only by deletion; an erasure that says  *)
(* so is whole; and what an audited handler reports as done was audited.   *)
THEOREM RecordsHold == MCSpec => []RecordsAreTrue
<1>1. AdministrationInv => RecordsAreTrue
  BY DEF AdministrationInv, RecordsInv, RowsInv, RecordsAreTrue
<1> QED
  BY <1>1, Invariance, PTL

(* However many drawings of views left long ago finish, in whatever order  *)
(* (app.js): the rows and the policies on the screen are those in the      *)
(* variables that a click or "Save Changes" uses.                          *)
THEOREM ScreenHolds == MCSpec => []ScreenMatchesState
<1>1. AdministrationInv => ScreenMatchesState
  BY DEF AdministrationInv
<1> QED
  BY <1>1, Invariance, PTL

(* Beyond the invariants: the clock bounds every entry, the caches' marks  *)
(* are Booleans, callers have attempts left.                               *)
TypesInv ==
  LoginsTypeOK /\ loaded \in [Workers -> BOOLEAN] /\ ConnectionTypes /\ AppTypeOK

LEMMA InitTypes == MCInit => TypesInv
<1> SUFFICES ASSUME MCInit PROVE TypesInv
  OBVIOUS
<1>1. LoginsTypeOK
  <2>1. \A i \in DOMAIN <<>> : <<>>[i] \in 1..now
    OBVIOUS
  <2>2. 1 \in 1..LastSecond /\ 0 \in 0..MaxRefresh
    BY LoginsAssumption
  <2> QED
    BY <2>1, <2>2 DEF MCInit, LoginsInit, LoginsTypeOK, Answered
<1>2. loaded \in [Workers -> BOOLEAN]
  BY DEF MCInit, CanaryInit
<1>3. ConnectionTypes
  BY ConnectionsAssumption
     DEF MCInit, ConnectionsInit, ConnectionTypes, ConnectionsTypeOK, CallersCounted, Kinds
<1>4. AppTypeOK
  BY Shown DEF MCInit, AppInit, AppTypeOK, Views, Reads
<1> QED
  BY <1>1, <1>2, <1>3, <1>4 DEF TypesInv

LEMMA TypesImply == AdministrationInv /\ TypesInv => AdministrationTypeOK
<1> SUFFICES ASSUME AdministrationInv, TypesInv PROVE AdministrationTypeOK
  OBVIOUS
<1>1. RowsTypeOK
  <2>1. RowsTyped
    BY DEF AdministrationInv, RowsInv
  <2>2. edit \in [Edits -> EditRecords] /\ editing \in [Edits -> {"idle", "read", "write", "done"}]
    BY <2>1 DEF RowsTyped
  <2>3. \A e \in Edits : /\ edit[e].kind \in EditKinds \cup {None}
                        /\ edit[e].status \in {"ok", "refused", "error", None}
    BY <2>2 DEF EditRecords
  <2>4. \A tbl \in {"admin", "budget"} : rows[tbl] \in [FieldsOf(tbl) -> Edits \cup {0}] \cup {None}
    BY <2>1 DEF RowsTyped, Row
  <2> QED
    BY <2>2, <2>3, <2>4 DEF RowsTypeOK
<1>2. AdminTypeOK
  <2>1. /\ StoreTyped /\ HistoryTyped /\ request \in [Requests -> RequestRecords]
    BY DEF AdministrationInv, RecordsInv
  <2>2. \A c \in store.configs : c.id \in Requests \cup Shipped /\ c.provider \in ProviderNames
    BY <2>1 DEF StoreTyped, Ids
  <2>3. \A r \in Requests : request[r].status \in {"ok", "refused", "error", None}
    BY <2>1 DEF RequestRecords
  <2> QED
    BY <2>1, <2>2, <2>3 DEF StoreTyped, HistoryTyped, AdminTypeOK
<1>3. CanaryTypeOK
  BY DEF AdministrationInv, TypesInv, CanaryInv, CanaryTyped, TaskRecords, CanaryTypeOK
<1> QED
  BY <1>1, <1>2, <1>3 DEF TypesInv, ConnectionTypes, AdministrationTypeOK

(* Every entry of the processes' lists is no younger than the clock, every *)
(* resource one that was made, every statement's outcome one the code has. *)
THEOREM Typing == MCSpec => []AdministrationTypeOK
<1>1. ASSUME AdministrationInv, TypesInv,
             [MCNext]_<<focus, login_vars, row_vars, admin_vars, canary_vars, connection_vars, app_vars>>
      PROVE  TypesInv'
  <2>1. /\ LoginsNext \/ UNCHANGED login_vars
        /\ CanaryNext \/ UNCHANGED canary_vars
        /\ ConnectionsNext \/ UNCHANGED connection_vars
        /\ AppNext \/ UNCHANGED app_vars
    BY <1>1 DEF MCNext
  <2>2. LoginsTypeOK'
    <3>1. UNCHANGED login_vars /\ LoginsTypeOK => LoginsTypeOK'
      BY DEF login_vars, LoginsTypeOK
    <3> QED
      BY <1>1, <2>1, <3>1, LoginsTypesKept DEF AdministrationInv, TypesInv
  <2>3. loaded' \in [Workers -> BOOLEAN]
    <3>1. UNCHANGED canary_vars => loaded' = loaded
      BY DEF canary_vars
    <3> QED
      BY <1>1, <2>1, <3>1, LoadedKept DEF AdministrationInv, TypesInv
  <2>4. ConnectionTypes'
    <3>1. UNCHANGED connection_vars /\ ConnectionTypes => ConnectionTypes'
      BY DEF connection_vars, ConnectionTypes, ConnectionsTypeOK, CallersCounted
    <3> QED
      BY <1>1, <2>1, <3>1, ConnectionTypesKept DEF AdministrationInv, TypesInv
  <2>5. AppTypeOK'
    <3>1. UNCHANGED app_vars /\ AppTypeOK => AppTypeOK'
      BY DEF app_vars, AppTypeOK
    <3> QED
      BY <1>1, <2>1, <3>1, AppTypesKept DEF TypesInv
  <2> QED
    BY <2>2, <2>3, <2>4, <2>5 DEF TypesInv
<1>2. MCSpec => [](AdministrationInv /\ TypesInv)
  BY <1>1, InitTypes, Invariance, PTL DEF MCSpec
<1> QED
  BY <1>2, TypesImply, PTL
===============================================================================
