-------------------------- MODULE OutboundCallsProofs --------------------------
(***************************************************************************)
(* Proofs about SdkCalls, ServiceCalls and ProviderStreams, for any number *)
(* of calls, tasks and streams and any limits, for their composition in    *)
(* MCOutboundCalls.                                                        *)
(*                                                                         *)
(* Of the SDK: an attempt that another one follows, or may follow, is      *)
(* unsettled (EarlierUnsettled).  Of a report between services: how many   *)
(* requests its tier has left (ReportProgress).  Of a stream: what was     *)
(* shown, judged, saved and logged follows from where it is (Account), and *)
(* what is translated is computed by Among, whose laws are inductions over *)
(* sequences.                                                              *)
(***************************************************************************)
EXTENDS MCOutboundCalls, SequenceTheorems, WellFoundedInduction, TLAPS

-----------------------------------------------------------------------------
(* The SDK *)

Unsettled(c, n) ==
  <<c, n>> \in given_up \cup turned_away \/ outcome[<<c, n>>] \in {"failed", "dropped"}

(* a call that has not begun has sent nothing, one that has, something; it *)
(* sleeps only if it may go on                                             *)
AttemptsCounted ==
  \A c \in Calls :
    /\ phase[c] = "idle" => attempt[c] = 0
    /\ phase[c] # "idle" => attempt[c] >= 1
    /\ phase[c] = "sleeping" => attempt[c] <= MaxRetries
    /\ phase[c] # "done" => result[c] = None

(* no trace of an attempt before it is sent, none in the gateway of one    *)
(* that was turned away                                                    *)
UnsentIsUnseen ==
  \A c \in Calls : \A n \in 1..(MaxRetries + 1) :
    /\ n > attempt[c] => <<c, n>> \notin given_up \cup turned_away
    /\ n > attempt[c] \/ <<c, n>> \in turned_away =>
         outcome[<<c, n>>] = "pending" /\ calls[<<c, n>>] = 0

(* the model is asked for a chat, and not about what is refused *)
AskedForAChat ==
  \A c \in Calls : \A n \in 1..(MaxRetries + 1) :
    /\ calls[<<c, n>>] > 0 => kind[c] = "chat"
    /\ outcome[<<c, n>>] = "rejected" => calls[<<c, n>>] = 0

(* nothing is known of an attempt that another one follows or may follow *)
EarlierUnsettled ==
  \A c \in Calls : \A n \in 1..(MaxRetries + 1) :
    n < attempt[c] \/ (n = attempt[c] /\ (phase[c] = "sleeping" \/ result[c] = "unavailable"))
    => Unsettled(c, n)

VerdictStands ==
  \A c \in Calls :
    /\ result[c] = "response" => outcome[CurrentRequest(c)] = "answered" /\ Patient(c)
    /\ result[c] \in {"blocked", "refused", "unauthorized"} => outcome[CurrentRequest(c)] = "rejected"
    /\ result[c] = "unavailable" => attempt[c] = MaxRetries + 1

SdkInv ==
  /\ SdkTypeOK
  /\ AttemptsCounted
  /\ UnsentIsUnseen
  /\ AskedForAChat
  /\ EarlierUnsettled
  /\ VerdictStands

LEMMA RequestIsAnAttempt ==
  ASSUME NEW c \in Calls, NEW n \in 1..(MaxRetries + 1)
  PROVE  /\ <<c, n>> \in Requests
         /\ \A d \in Calls, k \in 1..(MaxRetries + 1) : <<d, k>> = <<c, n>> <=> d = c /\ k = n
BY SdkAssumption

(* The invariant is strong enough. *)
LEMMA SdkImplied ==
  ASSUME SdkInv
  PROVE  RetriedOnlyUnsettled /\ ResultIsTheLastVerdict
<1> USE SdkAssumption
<1>1. RetriedOnlyUnsettled
  <2>1. \A c \in Calls : attempt[c] \in Nat
    BY DEF SdkInv, SdkTypeOK
  <2>2. ASSUME NEW c \in Calls, NEW n \in 1..(MaxRetries + 1)
        PROVE  /\ n < attempt[c] => Unsettled(c, n)
               /\ calls[<<c, n>>] > 0 => kind[c] = "chat" /\ n <= attempt[c]
    <3>1. n < attempt[c] => Unsettled(c, n)
      BY DEF SdkInv, EarlierUnsettled
    <3>2. calls[<<c, n>>] > 0 => kind[c] = "chat"
      BY DEF SdkInv, AskedForAChat
    <3>3. n > attempt[c] => calls[<<c, n>>] = 0
      BY DEF SdkInv, UnsentIsUnseen
    <3> QED
      BY <2>1, <3>1, <3>2, <3>3
  <2> QED
    BY <2>2 DEF RetriedOnlyUnsettled, Unsettled
<1>2. ASSUME NEW c \in Calls, phase[c] = "done"
      PROVE  LET r == CurrentRequest(c) IN
             /\ result[c] = "response" => outcome[r] = "answered" /\ Patient(c)
             /\ result[c] \in {"blocked", "refused", "unauthorized"} =>
                  outcome[r] = "rejected" /\ calls[r] = 0
             /\ result[c] = "unavailable" =>
                  /\ attempt[c] = MaxRetries + 1
                  /\ \A n \in 1..attempt[c] :
                       outcome[<<c, n>>] = "answered" => <<c, n>> \in given_up
  <2>1. attempt[c] \in 1..(MaxRetries + 1)
    BY <1>2 DEF SdkInv, SdkTypeOK, AttemptsCounted
  <2>2. \A n \in 1..attempt[c] : n \in 1..(MaxRetries + 1) /\ (n < attempt[c] \/ n = attempt[c])
    BY <2>1
  <2>3. ASSUME result[c] = "unavailable", NEW n \in 1..attempt[c], outcome[<<c, n>>] = "answered"
        PROVE  <<c, n>> \in given_up
    <3>1. Unsettled(c, n)
      BY <2>2, <2>3 DEF SdkInv, EarlierUnsettled
    <3>2. <<c, n>> \notin turned_away
      BY <2>2, <2>3 DEF SdkInv, UnsentIsUnseen
    <3> QED
      BY <2>3, <3>1, <3>2 DEF Unsettled
  <2> QED
    BY <2>1, <2>3 DEF SdkInv, VerdictStands, AskedForAChat, CurrentRequest
<1> QED
  BY <1>1, <1>2 DEF ResultIsTheLastVerdict

LEMMA SdkBegins ==
  ASSUME SdkInit
  PROVE  SdkInv
<1> USE SdkAssumption DEF SdkInit, PromiseInit
<1>1. SdkTypeOK
  BY DEF SdkTypeOK, Outcomes
<1>2. AttemptsCounted
  BY DEF AttemptsCounted
<1>3. UnsentIsUnseen /\ AskedForAChat
  BY RequestIsAnAttempt DEF UnsentIsUnseen, AskedForAChat
<1>4. EarlierUnsettled /\ VerdictStands
  BY DEF EarlierUnsettled, VerdictStands
<1> QED
  BY <1>1, <1>2, <1>3, <1>4 DEF SdkInv

-----------------------------------------------------------------------------
(* The gateway's steps: one request that reached it moves on. *)
GatewayMoves(c, n) ==
  /\ n <= attempt[c] /\ <<c, n>> \notin turned_away
  /\ outcome[<<c, n>>] \in Running
  /\ \E o \in Outcomes : outcome' = [outcome EXCEPT ![<<c, n>>] = o]
                         /\ (o = "rejected" => calls[<<c, n>>] = 0 /\ calls' = calls)
  /\ \/ calls' = calls
     \/ kind[c] = "chat" /\ calls' = [calls EXCEPT ![<<c, n>>] = 1]
  /\ UNCHANGED sdk_vars

LEMMA GatewayStep ==
  ASSUME SdkInv, NEW r \in Requests, Pipeline(r) \/ Serve(r)
  PROVE  \E c \in Calls, n \in 1..(MaxRetries + 1) : GatewayMoves(c, n)
<1>1. PICK c \in Calls, n \in 1..(MaxRetries + 1) : r = <<c, n>> /\ r[1] = c /\ r[2] = n
  BY SdkAssumption
<1>2. n <= attempt[c] /\ <<c, n>> \notin turned_away
  BY <1>1 DEF Pipeline, Serve, Arrived
<1> DEFINE Moved(o) == outcome' = [outcome EXCEPT ![<<c, n>>] = o]
                       /\ (o = "rejected" => calls[<<c, n>>] = 0 /\ calls' = calls)
<1>3. UNCHANGED sdk_vars /\ outcome[<<c, n>>] \in Running
  BY <1>1 DEF Pipeline, Serve, Reject, CallProvider, Screen, Answer, Drop, Running
<1>4. \/ calls' = calls
      \/ kind[c] = "chat" /\ calls' = [calls EXCEPT ![<<c, n>>] = 1]
  <2>1. CASE Pipeline(r)
    BY <1>1, <2>1 DEF Pipeline, Reject, CallProvider, Screen, Answer, Drop
  <2>2. CASE Serve(r)
    BY <2>2 DEF Serve
  <2> QED
    BY <2>1, <2>2
<1>5. \E o \in Outcomes : Moved(o)
  <2>1. CASE Pipeline(r)
    BY <1>1, <2>1 DEF Pipeline, Reject, CallProvider, Screen, Answer, Drop, Becomes, Outcomes
  <2>2. CASE Serve(r)
    <3>1. calls' = calls /\ calls[<<c, n>>] = 0
      <4>1. kind[c] # "chat" /\ calls' = calls
        BY <1>1, <2>2 DEF Serve
      <4>2. calls[<<c, n>>] \in {0, 1} /\ ~(calls[<<c, n>>] > 0)
        BY <4>1, RequestIsAnAttempt DEF SdkInv, SdkTypeOK, AskedForAChat
      <4> QED
        BY <4>1, <4>2
    <3> QED
      BY <1>1, <2>2, <3>1 DEF Serve, Becomes, Outcomes
  <2> QED
    BY <2>1, <2>2
<1> QED
  BY <1>2, <1>3, <1>4, <1>5 DEF GatewayMoves

LEMMA GatewayKeeps ==
  ASSUME SdkInv, NEW c \in Calls, NEW n \in 1..(MaxRetries + 1), GatewayMoves(c, n)
  PROVE  SdkInv'
<1>1. /\ <<c, n>> \in Requests /\ outcome[<<c, n>>] \in {"pending", "screened"}
      /\ n <= attempt[c] /\ <<c, n>> \notin turned_away /\ attempt[c] \in Nat
  BY RequestIsAnAttempt DEF GatewayMoves, Running, SdkInv, SdkTypeOK
<1>2. PICK o \in Outcomes : /\ outcome' = [outcome EXCEPT ![<<c, n>>] = o]
                            /\ o = "rejected" => calls[<<c, n>>] = 0 /\ calls' = calls
  BY Zenon DEF GatewayMoves
<1>3. \/ calls' = calls
      \/ kind[c] = "chat" /\ calls' = [calls EXCEPT ![<<c, n>>] = 1]
  BY DEF GatewayMoves
<1>4. UNCHANGED <<kind, phase, attempt, took, given_up, turned_away, result>>
  BY DEF GatewayMoves, sdk_vars
<1>5. outcome \in [Requests -> Outcomes] /\ calls \in [Requests -> {0, 1}]
  BY DEF SdkInv, SdkTypeOK
<1>6. \A d \in Calls, k \in 1..(MaxRetries + 1) :
        /\ <<d, k>> # <<c, n>> => outcome'[<<d, k>>] = outcome[<<d, k>>] /\ calls'[<<d, k>>] = calls[<<d, k>>]
        /\ <<d, k>> = <<c, n>> => outcome'[<<d, k>>] = o /\ d = c /\ k = n
  <2> SUFFICES ASSUME NEW d \in Calls, NEW k \in 1..(MaxRetries + 1)
               PROVE  /\ <<d, k>> # <<c, n>> =>
                           outcome'[<<d, k>>] = outcome[<<d, k>>] /\ calls'[<<d, k>>] = calls[<<d, k>>]
                      /\ <<d, k>> = <<c, n>> => outcome'[<<d, k>>] = o /\ d = c /\ k = n
    OBVIOUS
  <2>1. <<d, k>> \in Requests /\ (<<d, k>> = <<c, n>> <=> d = c /\ k = n)
    BY RequestIsAnAttempt
  <2> QED
    BY <1>2, <1>3, <1>5, <2>1
<1>7. SdkTypeOK'
  BY <1>1, <1>2, <1>3, <1>4 DEF SdkInv, SdkTypeOK
<1>8. AttemptsCounted'
  BY <1>4 DEF SdkInv, AttemptsCounted
<1>9. UnsentIsUnseen'
  <2> SUFFICES ASSUME NEW d \in Calls, NEW k \in 1..(MaxRetries + 1),
                      k > attempt[d] \/ <<d, k>> \in turned_away
               PROVE  <<d, k>> # <<c, n>>
    BY <1>4, <1>6 DEF SdkInv, UnsentIsUnseen
  <2>1. ASSUME <<d, k>> = <<c, n>> PROVE FALSE
    <3>1. d = c /\ k = n
      BY <1>6, <2>1
    <3> QED
      BY <1>1, <3>1
  <2> QED
    BY <2>1
<1>10. AskedForAChat'
  <2> SUFFICES ASSUME NEW d \in Calls, NEW k \in 1..(MaxRetries + 1)
               PROVE  /\ calls'[<<d, k>>] > 0 => kind'[d] = "chat"
                      /\ outcome'[<<d, k>>] = "rejected" => calls'[<<d, k>>] = 0
    BY DEF AskedForAChat
  <2>1. CASE <<d, k>> = <<c, n>>
    BY <1>2, <1>3, <1>4, <1>6, <2>1 DEF SdkInv, AskedForAChat
  <2>2. CASE <<d, k>> # <<c, n>>
    BY <1>4, <1>6, <2>2 DEF SdkInv, AskedForAChat
  <2> QED
    BY <2>1, <2>2
<1>11. EarlierUnsettled'
  <2> SUFFICES ASSUME NEW d \in Calls, NEW k \in 1..(MaxRetries + 1), Unsettled(d, k)
               PROVE  Unsettled(d, k)'
    BY <1>4 DEF SdkInv, EarlierUnsettled
  <2> QED
    BY <1>1, <1>4, <1>6 DEF Unsettled
<1>12. VerdictStands'
  <2> SUFFICES ASSUME NEW d \in Calls, result[d] # None
               PROVE  outcome[CurrentRequest(d)] \in {"answered", "rejected"} =>
                        outcome'[CurrentRequest(d)] = outcome[CurrentRequest(d)]
    BY <1>4, SdkAssumption DEF SdkInv, VerdictStands, CurrentRequest, Patient
  <2>1. attempt[d] \in 1..(MaxRetries + 1)
    BY DEF SdkInv, SdkTypeOK, AttemptsCounted
  <2> QED
    BY <1>1, <1>6, <2>1 DEF CurrentRequest
<1> QED
  BY <1>7, <1>8, <1>9, <1>10, <1>11, <1>12 DEF SdkInv

-----------------------------------------------------------------------------
(* The SDK's steps: only call c changes. *)
OnlyCall(c) ==
  \A d \in Calls \ {c} : /\ kind'[d] = kind[d] /\ phase'[d] = phase[d]
                         /\ attempt'[d] = attempt[d] /\ result'[d] = result[d]

(* c sends an attempt. *)
LEMMA SendingKeeps ==
  ASSUME SdkInv, NEW c \in Calls, phase[c] \in {"idle", "sleeping"}, SendAttempt(c),
         kind' = kind \/ (phase[c] = "idle" /\ \E k \in Kinds : kind' = [kind EXCEPT ![c] = k]),
         UNCHANGED <<promised, given_up, turned_away, result>>
  PROVE  SdkInv'
<1> DEFINE n == attempt[c] + 1
<1>1. n \in 1..(MaxRetries + 1) /\ attempt[c] \in Nat
  BY SdkAssumption DEF SdkInv, SdkTypeOK, AttemptsCounted
<1>2. PICK t \in Durations : took' = [took EXCEPT ![<<c, attempt'[c]>>] = t]
  BY DEF SendAttempt
<1>3. /\ attempt' = [attempt EXCEPT ![c] = n] /\ phase' = [phase EXCEPT ![c] = "waiting"]
      /\ UNCHANGED <<outcome, calls, given_up, turned_away, result>>
  BY DEF SendAttempt, promised
<1>4. attempt'[c] = n /\ phase'[c] = "waiting"
  BY <1>3 DEF SdkInv, SdkTypeOK
<1>5. OnlyCall(c)
  BY <1>3 DEF OnlyCall, SdkInv, SdkTypeOK
<1>6. result[c] = None /\ result'[c] = None
  BY <1>3 DEF SdkInv, AttemptsCounted
<1> HIDE DEF n
<1>7. SdkTypeOK'
  <2>1. kind' \in [Calls -> AllKinds \cup {None}]
    BY SdkAssumption DEF SdkInv, SdkTypeOK
  <2>2. took' \in [Requests -> Durations \cup {0}]
    BY <1>2 DEF SdkInv, SdkTypeOK
  <2>3. attempt' \in [Calls -> 0..(MaxRetries + 1)] /\ phase' \in [Calls -> {"idle", "waiting", "sleeping", "done"}]
    BY <1>1, <1>3 DEF SdkInv, SdkTypeOK
  <2> QED
    BY <1>3, <2>1, <2>2, <2>3 DEF SdkInv, SdkTypeOK
<1>8. AttemptsCounted'
  BY <1>1, <1>4, <1>5, <1>6 DEF SdkInv, AttemptsCounted, OnlyCall
<1>9. UnsentIsUnseen'
  <2> SUFFICES ASSUME NEW d \in Calls, NEW k \in 1..(MaxRetries + 1), k > attempt'[d]
               PROVE  k > attempt[d]
    BY <1>3 DEF SdkInv, UnsentIsUnseen
  <2> QED
    BY <1>1, <1>4, <1>5 DEF OnlyCall, n
<1>10. AskedForAChat'
  <2> SUFFICES ASSUME NEW d \in Calls, NEW k \in 1..(MaxRetries + 1), calls[<<d, k>>] > 0
               PROVE  kind'[d] = kind[d]
    BY <1>3 DEF SdkInv, AskedForAChat
  <2>1. CASE phase[c] = "idle" /\ d = c
    BY <1>1, <2>1 DEF SdkInv, AttemptsCounted, UnsentIsUnseen
  <2>2. CASE kind' = kind \/ d # c
    BY <1>5, <2>2 DEF OnlyCall
  <2> QED
    BY <2>1, <2>2
<1>11. EarlierUnsettled'
  <2> SUFFICES ASSUME NEW d \in Calls, NEW k \in 1..(MaxRetries + 1),
                      \/ k < attempt'[d]
                      \/ k = attempt'[d] /\ (phase'[d] = "sleeping" \/ result'[d] = "unavailable")
               PROVE  \/ k < attempt[d]
                      \/ k = attempt[d] /\ (phase[d] = "sleeping" \/ result[d] = "unavailable")
    BY <1>3 DEF SdkInv, EarlierUnsettled, Unsettled
  <2>1. CASE d = c
    <3>1. k <= attempt[c]
      BY <1>1, <1>4, <1>6, <2>1, SdkAssumption DEF n
    <3>2. phase[c] = "idle" => attempt[c] = 0
      BY DEF SdkInv, AttemptsCounted
    <3> QED
      BY <1>1, <2>1, <3>1, <3>2
  <2>2. CASE d # c
    BY <1>5, <2>2 DEF OnlyCall
  <2> QED
    BY <2>1, <2>2
<1>12. VerdictStands'
  <2> SUFFICES ASSUME NEW d \in Calls, result[d] # None
               PROVE  /\ CurrentRequest(d)' = CurrentRequest(d) /\ (Patient(d)' <=> Patient(d))
                      /\ attempt'[d] = attempt[d]
    BY <1>3, SdkAssumption DEF SdkInv, VerdictStands
  <2>1. d # c
    BY <1>6
  <2>2. kind'[d] = kind[d] /\ attempt'[d] = attempt[d]
    BY <1>5, <2>1 DEF OnlyCall
  <2>3. took'[<<d, attempt[d]>>] = took[<<d, attempt[d]>>]
    BY <1>2, <1>4, <2>1 DEF SdkInv, SdkTypeOK
  <2> QED
    BY <2>2, <2>3 DEF CurrentRequest, Patient
<1> QED
  BY <1>7, <1>8, <1>9, <1>10, <1>11, <1>12 DEF SdkInv

(* c's attempt ends without a verdict that counts, or with one. *)
LEMMA EndingKeeps ==
  ASSUME SdkInv, NEW c \in Calls, phase[c] = "waiting",
         UNCHANGED <<promised, kind, attempt, took>>,
         given_up' \in {given_up, given_up \cup {CurrentRequest(c)}},
         turned_away' \in {turned_away, turned_away \cup {CurrentRequest(c)}},
         CurrentRequest(c) \in turned_away' =>
           outcome[CurrentRequest(c)] = "pending" /\ calls[CurrentRequest(c)] = 0,
         NEW what \in Results \cup {None},
         result' = [result EXCEPT ![c] = what],
         phase' = [phase EXCEPT ![c] = IF what = None THEN "sleeping" ELSE "done"],
         what \in {None, "unavailable"} => Unsettled(c, attempt[c])',
         what = None => attempt[c] <= MaxRetries,
         what = "unavailable" => attempt[c] > MaxRetries,
         what = "response" => outcome[CurrentRequest(c)] = "answered" /\ Patient(c),
         what \in {"blocked", "refused", "unauthorized"} => outcome[CurrentRequest(c)] = "rejected"
  PROVE  SdkInv'
<1>1. attempt[c] \in 1..(MaxRetries + 1) /\ CurrentRequest(c) = <<c, attempt[c]>>
  BY DEF SdkInv, SdkTypeOK, AttemptsCounted, CurrentRequest
<1>2. /\ outcome' = outcome /\ calls' = calls /\ kind' = kind /\ attempt' = attempt /\ took' = took
      /\ <<c, attempt[c]>> \in Requests
  BY <1>1, RequestIsAnAttempt DEF promised
<1>3. result'[c] = what /\ phase'[c] = (IF what = None THEN "sleeping" ELSE "done")
  BY DEF SdkInv, SdkTypeOK
<1>4. OnlyCall(c)
  BY <1>2 DEF OnlyCall, SdkInv, SdkTypeOK
<1>5. None \notin Results
  BY SdkAssumption DEF Results
<1>6. \A d \in Calls, k \in 1..(MaxRetries + 1) :
        <<d, k>> # <<c, attempt[c]>> =>
          (<<d, k>> \in given_up' <=> <<d, k>> \in given_up)
          /\ (<<d, k>> \in turned_away' <=> <<d, k>> \in turned_away)
  BY <1>1
<1>7. \A d \in Calls, k \in 1..(MaxRetries + 1) : Unsettled(d, k) => Unsettled(d, k)'
  BY <1>2 DEF Unsettled
<1>8. SdkTypeOK'
  BY <1>1, <1>2, <1>5 DEF SdkInv, SdkTypeOK, Results
<1>9. AttemptsCounted'
  BY <1>1, <1>2, <1>3, <1>4, <1>5 DEF SdkInv, AttemptsCounted, OnlyCall
<1>10. UnsentIsUnseen'
  <2> SUFFICES ASSUME NEW d \in Calls, NEW k \in 1..(MaxRetries + 1)
               PROVE  /\ k > attempt[d] => <<d, k>> \notin (given_up \cup turned_away)'
                      /\ k > attempt[d] \/ <<d, k>> \in turned_away' =>
                           outcome[<<d, k>>] = "pending" /\ calls[<<d, k>>] = 0
    BY <1>2 DEF UnsentIsUnseen
  <2>1. CASE <<d, k>> = <<c, attempt[c]>>
    <3>1. d = c /\ k = attempt[c]
      BY <1>1, <2>1
    <3> QED
      BY <1>1, <3>1
  <2>2. CASE <<d, k>> # <<c, attempt[c]>>
    BY <1>6, <2>2 DEF SdkInv, UnsentIsUnseen
  <2> QED
    BY <2>1, <2>2
<1>11. AskedForAChat'
  BY <1>2 DEF SdkInv, AskedForAChat
<1>12. EarlierUnsettled'
  <2> SUFFICES ASSUME NEW d \in Calls, NEW k \in 1..(MaxRetries + 1),
                      \/ k < attempt[d]
                      \/ k = attempt[d] /\ (phase'[d] = "sleeping" \/ result'[d] = "unavailable")
               PROVE  Unsettled(d, k)'
    BY <1>2 DEF EarlierUnsettled
  <2>1. CASE d = c /\ k = attempt[c]
    BY <1>3, <2>1
  <2>2. CASE d # c
    BY <1>4, <1>7, <2>2 DEF SdkInv, EarlierUnsettled, OnlyCall
  <2>3. CASE k < attempt[d]
    BY <1>7, <2>3 DEF SdkInv, EarlierUnsettled
  <2> QED
    BY <2>1, <2>2, <2>3
<1>13. VerdictStands'
  <2>1. \A d \in Calls : CurrentRequest(d)' = CurrentRequest(d) /\ (Patient(d)' <=> Patient(d))
    BY <1>2 DEF CurrentRequest, Patient
  <2>2. attempt[c] > MaxRetries => attempt[c] = MaxRetries + 1
    BY <1>1, SdkAssumption
  <2> QED
    BY <1>2, <1>3, <1>4, <2>1, <2>2 DEF SdkInv, VerdictStands, OnlyCall
<1> QED
  BY <1>8, <1>9, <1>10, <1>11, <1>12, <1>13 DEF SdkInv

LEMMA SdkKeeps ==
  ASSUME SdkInv, SdkNext
  PROVE  SdkInv'
<1> USE SdkAssumption
<1>1. ASSUME NEW r \in Requests, Pipeline(r) \/ Serve(r) PROVE SdkInv'
  BY <1>1, GatewayStep, GatewayKeeps
<1>2. ASSUME NEW c \in Calls, Sdk(c) PROVE SdkInv'
  <2> DEFINE r == CurrentRequest(c)
  <2>1. CASE Call(c)
    BY <2>1, SendingKeeps DEF Call
  <2>2. CASE Retry(c)
    BY <2>2, SendingKeeps DEF Retry
  <2>3. phase[c] = "waiting" => r = <<c, attempt[c]>> /\ attempt[c] \in 1..(MaxRetries + 1)
    BY DEF SdkInv, SdkTypeOK, AttemptsCounted, CurrentRequest
  <2>4. phase[c] = "waiting" => result[c] = None /\ result = [result EXCEPT ![c] = None]
    BY DEF SdkInv, SdkTypeOK, AttemptsCounted
  <2>5. phase[c] = "waiting" /\ r \in turned_away => outcome[r] = "pending" /\ calls[r] = 0
    BY <2>3 DEF SdkInv, UnsentIsUnseen
  <2> DEFINE Ends(what) ==
        /\ result' = [result EXCEPT ![c] = what]
        /\ phase' = [phase EXCEPT ![c] = IF what = None THEN "sleeping" ELSE "done"]
        /\ what = None => attempt[c] <= MaxRetries
        /\ what = "unavailable" => attempt[c] > MaxRetries
  <2>6. phase[c] = "waiting" /\ (OnceMore(c) \/ GiveUp(c)) =>
          \E what \in {None, "unavailable", "http_error"} : Ends(what)
    <3>1. phase[c] = "waiting" /\ OnceMore(c) => Ends(None)
      BY <2>4 DEF OnceMore
    <3>2. GiveUp(c) => Ends("unavailable") \/ Ends("http_error")
      BY DEF GiveUp, Return
    <3> QED
      BY <3>1, <3>2
  <2>7. ASSUME phase[c] = "waiting", OnceMore(c) \/ GiveUp(c),
               UNCHANGED <<promised, kind, attempt, took>>,
               given_up' \in {given_up, given_up \cup {r}},
               turned_away' \in {turned_away, turned_away \cup {r}},
               r \in turned_away' => outcome[r] = "pending" /\ calls[r] = 0,
               Unsettled(c, attempt[c])'
        PROVE  SdkInv'
    <3>1. PICK what \in {None, "unavailable", "http_error"} : Ends(what)
      BY <2>6, <2>7
    <3>2. what \in Results \cup {None}
      BY DEF Results
    <3>3. what # "response" /\ what \notin {"blocked", "refused", "unauthorized"}
      OBVIOUS
    <3> QED
      BY <2>7, <3>1, <3>2, <3>3, EndingKeeps
  <2>8. CASE TimesOut(c)
    BY <2>3, <2>5, <2>7, <2>8 DEF TimesOut, Unsettled
  <2>9. CASE TurnedAway(c)
    BY <2>3, <2>5, <2>7, <2>9 DEF TurnedAway, Unsettled
  <2>10. CASE GatewayFailed(c)
    BY <2>3, <2>5, <2>7, <2>10 DEF GatewayFailed, Unsettled, promised
  <2>11. CASE Refused(c)
    <3>1. PICK what \in {"blocked", "refused", "unauthorized", "http_error"} : Return(c, what)
      BY <2>11 DEF Refused
    <3>2. what \in Results \cup {None} /\ what \notin {None, "unavailable", "response"}
      BY DEF Results
    <3> QED
      BY <2>5, <2>11, <3>1, <3>2, EndingKeeps DEF Refused, Return
  <2>12. CASE Receive(c)
    <3>1. "response" \in Results /\ "response" \notin {None, "unavailable"}
      BY DEF Results
    <3> QED
      BY <2>5, <2>12, <3>1, EndingKeeps DEF Receive, Return
  <2> QED
    BY <1>2, <2>1, <2>2, <2>8, <2>9, <2>10, <2>11, <2>12 DEF Sdk
<1> QED
  BY <1>1, <1>2 DEF SdkNext

-----------------------------------------------------------------------------
(* Calls between services *)

ServiceTyped ==
  /\ job \in [Tasks -> [kind : JobKinds \cup {None}, tier : 0..3, sent : [1..3 -> Nat]]]
  /\ step \in [Tasks -> {"idle", "call", "asked"}]
  /\ circuit \in [Circuits -> Circuit]
  /\ history \in Seq(Failure) /\ Len(history) <= MaxHistory
  /\ alarm \in BOOLEAN
  /\ outcome_of \in [Tasks -> {"ok", "fallback", "error", "note", "text", None}]
  /\ begun \in 0..MaxCalls

(* a task at work has something to ask for *)
BusyWithAJob ==
  \A t \in Tasks : step[t] # "idle" => job[t].kind \in JobKinds /\ job[t].tier \in 1..3

(* the alarm is that of the history as it stands *)
AlarmIsCurrent ==
  alarm => \E s \in {"guardrails", "ollama"} : DetectPattern(history, s)

(* the requests a report may still send *)
ReportProgress(j, where, what) ==
  /\ j.tier \in 1..3 /\ j.sent[3] <= 3 /\ j.sent[2] <= 1
  /\ j.tier = 1 => where = "idle"
  /\ j.tier = 2 => (where = "call" => j.sent[2] = 0)
  /\ j.tier = 3 => j.sent[2] = 0 /\ (where = "call" => j.sent[3] < 3)
  /\ where = "idle" => what \in {"text", "note"}
  /\ where # "idle" => what = None
  /\ what = "text" => j.tier = 3

ReportsProgress ==
  \A t \in Tasks : job[t].kind = "report" => ReportProgress(job[t], step[t], outcome_of[t])

ServiceInv ==
  /\ ServiceTyped
  /\ BusyWithAJob
  /\ AlarmIsCurrent
  /\ ReportsProgress

LEMMA ServiceImplied ==
  ASSUME ServiceInv
  PROVE  ServiceTypeOK /\ ReportsAreBounded /\ AlarmsNameAClientError
<1> USE DEF ServiceInv
<1>1. ServiceTypeOK
  <2>1. [1..3 -> Nat] \subseteq Seq(Nat)
    BY SeqDef
  <2>2. job \in [Tasks -> [kind : JobKinds \cup {None}, tier : 0..3, sent : Seq(Nat)]]
    BY <2>1 DEF ServiceTyped
  <2>3. \A i \in DOMAIN history : history[i] \in Failure
    BY ElementOfSeq DEF ServiceTyped
  <2> QED
    BY <2>2, <2>3 DEF ServiceTyped, ServiceTypeOK
<1>2. ReportsAreBounded
  BY DEF ReportsProgress, ReportProgress, ReportsAreBounded
<1>3. AlarmsNameAClientError
  <2> SUFFICES ASSUME NEW s \in {"guardrails", "ollama"}, DetectPattern(history, s)
               PROVE  /\ \E i \in DOMAIN RecentOf(history, s) :
                           RecentOf(history, s)[i].status_code = "401"
                      /\ \A i \in DOMAIN RecentOf(history, s) :
                           RecentOf(history, s)[i].status_code # "503"
    BY DEF ServiceTyped, AlarmIsCurrent, AlarmsNameAClientError
  <2> DEFINE recent == RecentOf(history, s)
             codes == {recent[i].status_code : i \in DOMAIN recent}
  <2>1. codes \ {None} = {"401"}
    BY DEF DetectPattern
  <2>2. "401" \in codes /\ "503" \notin codes
    BY <2>1, NoAnswerAssumption DEF Answers
  <2> HIDE DEF recent
  <2>3. /\ \E i \in DOMAIN recent : recent[i].status_code = "401"
        /\ \A i \in DOMAIN recent : recent[i].status_code # "503"
    BY <2>2
  <2> QED
    BY <2>3 DEF recent
<1> QED
  BY <1>1, <1>2, <1>3

LEMMA ServiceBegins ==
  ASSUME ServiceInit
  PROVE  ServiceInv
<1> USE ServiceCallsAssumption, NoAnswerAssumption DEF ServiceInit
<1>1. ServiceTyped
  <2>1. <<0, 0, 0>> \in [1..3 -> Nat]
    OBVIOUS
  <2>2. history \in Seq(Failure) /\ Len(history) <= MaxHistory
    BY EmptySeq
  <2>3. circuit \in [Circuits -> Circuit] /\ begun \in 0..MaxCalls
    BY DEF Closed, Circuit
  <2>4. job \in [Tasks -> [kind : JobKinds \cup {None}, tier : 0..3, sent : [1..3 -> Nat]]]
    BY <2>1
  <2> QED
    BY <2>2, <2>3, <2>4 DEF ServiceTyped
<1>2. BusyWithAJob /\ AlarmIsCurrent
  BY DEF BusyWithAJob, AlarmIsCurrent
<1>3. ReportsProgress
  BY DEF ReportsProgress, JobKinds
<1> QED
  BY <1>1, <1>2, <1>3 DEF ServiceInv

(* What the circuit and the history become is of their types. *)
LEMMA CircuitTyped ==
  ASSUME NEW c \in Circuit, NEW a
  PROVE  AfterAnswer(c, a) \in Circuit
BY ServiceCallsAssumption DEF AfterAnswer, AfterFailure, Closed, Circuit

LEMMA PushTyped ==
  ASSUME NEW h \in Seq(Failure), Len(h) <= MaxHistory, NEW f \in Failure
  PROVE  Push(h, f) \in Seq(Failure) /\ Len(Push(h, f)) <= MaxHistory
<1> DEFINE longer == Append(h, f)
<1>1. longer \in Seq(Failure) /\ Len(longer) = Len(h) + 1 /\ longer # <<>>
  BY AppendProperties
<1>2. Tail(longer) \in Seq(Failure) /\ Len(Tail(longer)) = Len(longer) - 1
  BY <1>1, HeadTailProperties
<1>3. Len(h) \in Nat /\ MaxHistory \in Nat
  BY ServiceCallsAssumption
<1> HIDE DEF longer
<1>4. Len(longer) > MaxHistory => Len(Tail(longer)) <= MaxHistory
  BY <1>1, <1>2, <1>3
<1>5. ~(Len(longer) > MaxHistory) => Len(longer) <= MaxHistory
  BY <1>1, <1>3
<1>6. Push(h, f) = IF Len(longer) > MaxHistory THEN Tail(longer) ELSE longer
  BY DEF Push, longer
<1> QED
  BY <1>1, <1>2, <1>4, <1>5, <1>6

(* What a step does to the tasks: only t changes, and is typed, at work    *)
(* with a job and, if it is a report, within its requests.                 *)
TaskGoes(t) ==
  /\ job' \in [Tasks -> [kind : JobKinds \cup {None}, tier : 0..3, sent : [1..3 -> Nat]]]
  /\ step' \in [Tasks -> {"idle", "call", "asked"}]
  /\ outcome_of' \in [Tasks -> {"ok", "fallback", "error", "note", "text", None}]
  /\ \A u \in Tasks \ {t} : job'[u] = job[u] /\ step'[u] = step[u] /\ outcome_of'[u] = outcome_of[u]
  /\ step'[t] # "idle" => job'[t].kind \in JobKinds /\ job'[t].tier \in 1..3
  /\ job'[t].kind = "report" => ReportProgress(job'[t], step'[t], outcome_of'[t])

LEMMA TaskKeeps ==
  ASSUME ServiceInv, NEW t \in Tasks, TaskGoes(t),
         circuit' \in [Circuits -> Circuit], begun' \in 0..MaxCalls,
         \/ UNCHANGED <<history, alarm>>
         \/ \E a \in Answers : RecordFailure(t, a)
  PROVE  ServiceInv'
<1>1. history' \in Seq(Failure) /\ Len(history') <= MaxHistory
  <2>1. ASSUME NEW a \in Answers, RecordFailure(t, a)
        PROVE  history' \in Seq(Failure) /\ Len(history') <= MaxHistory
    <3> DEFINE f == [service |-> Service(job[t].kind, job[t].tier), status_code |-> StatusCode(a),
                     transient |-> IsTransient(a)]
    <3>1. f \in Failure
      BY DEF Failure, Service, StatusCode, IsTransient
    <3>2. history' = Push(history, f)
      BY <2>1 DEF RecordFailure
    <3> QED
      BY <3>1, <3>2, PushTyped DEF ServiceInv, ServiceTyped
  <2> QED
    BY <2>1 DEF ServiceInv, ServiceTyped
<1>2. alarm' \in BOOLEAN /\ AlarmIsCurrent'
  <2>1. CASE UNCHANGED <<history, alarm>>
    BY <2>1 DEF ServiceInv, ServiceTyped, AlarmIsCurrent
  <2>2. ASSUME NEW a \in Answers, RecordFailure(t, a)
        PROVE  alarm' \in BOOLEAN /\ AlarmIsCurrent'
    <3> DEFINE s == Service(job[t].kind, job[t].tier)
    <3>1. alarm' = DetectPattern(history', s) /\ s \in {"guardrails", "ollama"}
      BY <2>2 DEF RecordFailure, Service
    <3>2. DetectPattern(history', s) \in BOOLEAN
      BY DEF DetectPattern
    <3> QED
      BY <3>1, <3>2 DEF AlarmIsCurrent
  <2> QED
    BY <2>1, <2>2
<1>3. ServiceTyped'
  BY <1>1, <1>2 DEF TaskGoes, ServiceTyped
<1>4. BusyWithAJob'
  BY DEF TaskGoes, ServiceInv, BusyWithAJob
<1>5. ReportsProgress'
  BY DEF TaskGoes, ServiceInv, ReportsProgress, ReportProgress
<1> QED
  BY <1>2, <1>3, <1>4, <1>5 DEF ServiceInv

(* A report goes on with tier 2. *)
LEMMA NextTierGoes ==
  ASSUME ServiceInv, NEW t \in Tasks, step[t] = "asked", job[t].kind = "report", job[t].tier = 3,
         step' = [step EXCEPT ![t] = "call"], job' = [job EXCEPT ![t].tier = 2], outcome_of' = outcome_of
  PROVE  TaskGoes(t)
<1> USE NoAnswerAssumption
<1>1. job[t] \in [kind : JobKinds \cup {None}, tier : 0..3, sent : [1..3 -> Nat]]
  BY DEF ServiceInv, ServiceTyped
<1>2. /\ step'[t] = "call" /\ \A u \in Tasks \ {t} : step'[u] = step[u] /\ job'[u] = job[u]
      /\ job'[t].tier = 2 /\ job'[t].sent = job[t].sent /\ job'[t].kind = "report"
  BY <1>1 DEF ServiceInv, ServiceTyped
<1>3. /\ job[t].sent[3] <= 3 /\ job[t].sent[2] = 0
      /\ outcome_of'[t] = None /\ None # "text"
  BY DEF ServiceInv, ReportsProgress, ReportProgress
<1>4. ReportProgress(job'[t], step'[t], outcome_of'[t])
  BY <1>2, <1>3 DEF ReportProgress
<1>5. job' \in [Tasks -> [kind : JobKinds \cup {None}, tier : 0..3, sent : [1..3 -> Nat]]]
  <2>1. [job[t] EXCEPT !.tier = 2] \in [kind : JobKinds \cup {None}, tier : 0..3, sent : [1..3 -> Nat]]
    BY <1>1
  <2>2. job' = [job EXCEPT ![t] = [job[t] EXCEPT !.tier = 2]]
    OBVIOUS
  <2> QED
    BY <2>1, <2>2 DEF ServiceInv, ServiceTyped
<1> QED
  BY <1>2, <1>4, <1>5 DEF ServiceInv, ServiceTyped, TaskGoes, JobKinds

(* The caller makes something of an answer. *)
LEMMA ContinueGoes ==
  ASSUME ServiceInv, NEW t \in Tasks, step[t] = "asked",
         NEW a \in MayAnswer(job[t].kind, job[t].tier), Continue(t, a)
  PROVE  TaskGoes(t)
<1> USE NoAnswerAssumption
<1>1. job[t] \in [kind : JobKinds \cup {None}, tier : 0..3, sent : [1..3 -> Nat]]
  BY DEF ServiceInv, ServiceTyped
<1>2. job[t].kind \in JobKinds /\ job[t].tier \in 1..3
  BY DEF ServiceInv, BusyWithAJob
<1>3. job[t].kind = "report" => ReportProgress(job[t], "asked", outcome_of[t])
  BY DEF ServiceInv, ReportsProgress
<1>4. ASSUME NEW what \in {"ok", "fallback", "error", "note", "text"}, EndTask(t, what),
             job[t].kind = "report" => what \in {"text", "note"} /\ (what = "text" => job[t].tier = 3)
      PROVE  TaskGoes(t)
  <2>1. /\ job' = job /\ step' = [step EXCEPT ![t] = "idle"]
        /\ outcome_of' = [outcome_of EXCEPT ![t] = what]
    BY <1>4 DEF EndTask
  <2>2. /\ step'[t] = "idle" /\ outcome_of'[t] = what /\ job'[t] = job[t]
        /\ \A u \in Tasks \ {t} : step'[u] = step[u] /\ outcome_of'[u] = outcome_of[u]
    BY <2>1 DEF ServiceInv, ServiceTyped
  <2>3. job[t].kind = "report" => ReportProgress(job'[t], step'[t], outcome_of'[t])
    BY <1>3, <1>4, <2>2 DEF ReportProgress
  <2> QED
    BY <2>1, <2>2, <2>3 DEF ServiceInv, ServiceTyped, TaskGoes
<1>5. CASE job[t].kind \in {"shap", "generate", "warmup", "predict"}
  <2>1. \E what \in {"ok", "fallback", "error"} : EndTask(t, what)
    BY <1>5 DEF Continue
  <2> QED
    BY <1>4, <1>5, <2>1
<1>6. CASE job[t].kind = "report"
  <2>1. \/ a = "ok" /\ EndTask(t, "text")
        \/ /\ RetriesTier3(t, a) /\ job[t].tier = 3
           /\ step' = [step EXCEPT ![t] = "call"]
           /\ UNCHANGED <<job, outcome_of>>
        \/ /\ job[t].tier = 3
           /\ step' = [step EXCEPT ![t] = "call"]
           /\ job' = [job EXCEPT ![t].tier = 2]
           /\ UNCHANGED outcome_of
        \/ a # "ok" /\ job[t].tier = 2 /\ EndTask(t, "note")
    BY <1>6 DEF Continue
  <2>2. CASE a = "ok" /\ EndTask(t, "text")
    <3>1. job[t].tier # 2
      BY <2>2 DEF MayAnswer
    <3>2. job[t].tier = 3
      BY <1>2, <1>3, <1>6, <3>1 DEF ReportProgress
    <3> QED
      BY <1>4, <2>2, <3>2
  <2>3. CASE /\ RetriesTier3(t, a) /\ job[t].tier = 3
             /\ step' = [step EXCEPT ![t] = "call"]
             /\ UNCHANGED <<job, outcome_of>>
    <3>1. step'[t] = "call" /\ \A u \in Tasks \ {t} : step'[u] = step[u]
      BY <2>3 DEF ServiceInv, ServiceTyped
    <3>2. ReportProgress(job'[t], step'[t], outcome_of'[t])
      BY <1>3, <1>6, <2>3, <3>1 DEF ReportProgress, RetriesTier3
    <3> QED
      BY <1>2, <2>3, <3>1, <3>2 DEF ServiceInv, ServiceTyped, TaskGoes
  <2>4. CASE /\ job[t].tier = 3
             /\ step' = [step EXCEPT ![t] = "call"]
             /\ job' = [job EXCEPT ![t].tier = 2]
             /\ UNCHANGED outcome_of
    BY <1>6, <2>4, NextTierGoes
  <2>5. CASE a # "ok" /\ job[t].tier = 2 /\ EndTask(t, "note")
    BY <1>4, <2>5
  <2> QED
    BY <2>1, <2>2, <2>3, <2>4, <2>5
<1> QED
  BY <1>2, <1>5, <1>6 DEF JobKinds

LEMMA ServiceKeeps ==
  ASSUME ServiceInv, ServiceNext
  PROVE  ServiceInv'
<1> USE ServiceCallsAssumption, NoAnswerAssumption
<1>1. PICK t \in Tasks : Begin(t) \/ Working(t)
  BY DEF ServiceNext
<1>2. job[t] \in [kind : JobKinds \cup {None}, tier : 0..3, sent : [1..3 -> Nat]]
  BY DEF ServiceInv, ServiceTyped
<1>3. t \in Circuits /\ CircuitOf(t) \in Circuits /\ circuit \in [Circuits -> Circuit]
      /\ begun \in 0..MaxCalls
  BY DEF Circuits, CircuitOf, ServiceInv, ServiceTyped
<1>4. step[t] # "idle" => job[t].kind \in JobKinds /\ job[t].tier \in 1..3
  BY DEF ServiceInv, BusyWithAJob
<1>5. CASE Begin(t)
  <2>1. PICK k \in JobKinds, n \in {1, 2, 3} :
          /\ job' = [job EXCEPT ![t] = [kind |-> k, tier |-> n, sent |-> <<0, 0, 0>>]]
          /\ \/ /\ ~(k = "report" /\ n = 1)
                /\ step' = [step EXCEPT ![t] = "call"]
                /\ outcome_of' = [outcome_of EXCEPT ![t] = None]
             \/ /\ k = "report" /\ n = 1 /\ step' = step
                /\ outcome_of' = [outcome_of EXCEPT ![t] = "note"]
    BY <1>5 DEF Begin
  <2> DEFINE j == [kind |-> k, tier |-> n, sent |-> <<0, 0, 0>>]
  <2>2. j \in [kind : JobKinds \cup {None}, tier : 0..3, sent : [1..3 -> Nat]]
    OBVIOUS
  <2>3. job'[t] = j /\ \A u \in Tasks \ {t} : job'[u] = job[u]
    BY <2>1 DEF ServiceInv, ServiceTyped
  <2>4. /\ j.kind = k /\ j.tier = n /\ j.sent[2] = 0 /\ j.sent[3] = 0
    OBVIOUS
  <2>5. job' \in [Tasks -> [kind : JobKinds \cup {None}, tier : 0..3, sent : [1..3 -> Nat]]]
    BY <2>1, <2>2 DEF ServiceInv, ServiceTyped
  <2> HIDE DEF j
  <2>6. ASSUME ~(k = "report" /\ n = 1),
               step' = [step EXCEPT ![t] = "call"],
               outcome_of' = [outcome_of EXCEPT ![t] = None]
        PROVE  TaskGoes(t)
    <3>1. /\ step'[t] = "call" /\ outcome_of'[t] = None
          /\ \A u \in Tasks \ {t} : step'[u] = step[u] /\ outcome_of'[u] = outcome_of[u]
      BY <2>6 DEF ServiceInv, ServiceTyped
    <3>2. k = "report" => ReportProgress(j, "call", None)
      BY <2>4, <2>6 DEF ReportProgress
    <3>3. /\ step' \in [Tasks -> {"idle", "call", "asked"}]
          /\ outcome_of' \in [Tasks -> {"ok", "fallback", "error", "note", "text", None}]
      BY <2>6 DEF ServiceInv, ServiceTyped
    <3> QED
      BY <2>3, <2>4, <2>5, <3>1, <3>2, <3>3 DEF TaskGoes
  <2>7. ASSUME k = "report", n = 1, step' = step,
               outcome_of' = [outcome_of EXCEPT ![t] = "note"]
        PROVE  TaskGoes(t)
    <3>1. /\ step'[t] = "idle" /\ outcome_of'[t] = "note"
          /\ \A u \in Tasks \ {t} : step'[u] = step[u] /\ outcome_of'[u] = outcome_of[u]
      BY <1>5, <2>7 DEF Begin, ServiceInv, ServiceTyped
    <3>2. ReportProgress(j, "idle", "note")
      BY <2>4, <2>7 DEF ReportProgress
    <3>3. /\ step' \in [Tasks -> {"idle", "call", "asked"}]
          /\ outcome_of' \in [Tasks -> {"ok", "fallback", "error", "note", "text", None}]
      BY <2>7 DEF ServiceInv, ServiceTyped
    <3> QED
      BY <2>3, <2>4, <2>5, <3>1, <3>2, <3>3 DEF TaskGoes
  <2>8. TaskGoes(t)
    BY <2>1, <2>6, <2>7
  <2>9. begun' \in 0..MaxCalls /\ circuit' = circuit /\ UNCHANGED <<history, alarm>>
    BY <1>3, <1>5 DEF Begin
  <2> QED
    BY <1>3, <2>8, <2>9, TaskKeeps
<1>6. CASE Ask(t)
  <2>1. circuit' \in [Circuits -> Circuit]
    BY <1>3, <1>6 DEF Ask, Closed, Circuit
  <2>2. /\ step[t] = "call" /\ step' = [step EXCEPT ![t] = "asked"] /\ outcome_of' = outcome_of
        /\ job' = [job EXCEPT ![t].sent[job[t].tier] = @ + 1]
        /\ UNCHANGED <<history, alarm, begun>>
    BY <1>6 DEF Ask
  <2> DEFINE j == [job[t] EXCEPT !.sent = [job[t].sent EXCEPT ![job[t].tier] = @ + 1]]
  <2>3. job' = [job EXCEPT ![t] = j]
    BY <2>2
  <2>4. [job[t].sent EXCEPT ![job[t].tier] = @ + 1] \in [1..3 -> Nat]
    BY <1>2, <1>4, <2>2
  <2>5. /\ j \in [kind : JobKinds \cup {None}, tier : 0..3, sent : [1..3 -> Nat]]
        /\ j.kind = job[t].kind /\ j.tier = job[t].tier
        /\ j.sent = [job[t].sent EXCEPT ![job[t].tier] = @ + 1]
    BY <1>2, <2>4
  <2> HIDE DEF j
  <2>6. /\ job' \in [Tasks -> [kind : JobKinds \cup {None}, tier : 0..3, sent : [1..3 -> Nat]]]
        /\ job'[t] = j /\ \A u \in Tasks \ {t} : job'[u] = job[u]
    BY <2>3, <2>5 DEF ServiceInv, ServiceTyped
  <2>7. step'[t] = "asked" /\ \A u \in Tasks \ {t} : step'[u] = step[u]
    BY <2>2 DEF ServiceInv, ServiceTyped
  <2>8. job[t].kind = "report" => ReportProgress(j, "asked", outcome_of[t])
    <3> SUFFICES ASSUME job[t].kind = "report"
                 PROVE  ReportProgress(j, "asked", outcome_of[t])
      OBVIOUS
    <3>1. ReportProgress(job[t], "call", outcome_of[t])
      BY <2>2 DEF ServiceInv, ReportsProgress
    <3>2. job[t].tier \in {2, 3} /\ job[t].sent \in [1..3 -> Nat]
      BY <1>2, <3>1 DEF ReportProgress
    <3>3. CASE job[t].tier = 2
      <4>1. j.sent[2] = job[t].sent[2] + 1 /\ j.sent[3] = job[t].sent[3]
        BY <2>5, <3>2, <3>3
      <4> QED
        BY <2>5, <3>1, <3>3, <4>1 DEF ReportProgress
    <3>4. CASE job[t].tier = 3
      <4>1. j.sent[3] = job[t].sent[3] + 1 /\ j.sent[2] = job[t].sent[2]
        BY <2>5, <3>2, <3>4
      <4>2. j.sent[3] <= 3
        BY <3>1, <3>2, <3>4, <4>1 DEF ReportProgress
      <4> QED
        BY <2>5, <3>1, <3>4, <4>1, <4>2 DEF ReportProgress
    <3> QED
      BY <3>2, <3>3, <3>4
  <2>9. TaskGoes(t)
    BY <1>4, <2>2, <2>5, <2>6, <2>7, <2>8 DEF TaskGoes, ServiceInv, ServiceTyped
  <2> QED
    BY <1>3, <2>1, <2>2, <2>9, TaskKeeps
<1>7. CASE Reply(t)
  <2>1. PICK a \in MayAnswer(job[t].kind, job[t].tier) :
          /\ Continue(t, a)
          /\ circuit' = [circuit EXCEPT ![CircuitOf(t)] =
                           AfterAnswer(@, IF job[t].kind = "predict" THEN "ok" ELSE a)]
          /\ IF a = "ok" \/ job[t].kind = "predict"
             THEN UNCHANGED <<history, alarm>> ELSE RecordFailure(t, a)
    BY <1>7 DEF Reply
  <2>2. TaskGoes(t) /\ a \in Answers
    BY <1>7, <2>1, ContinueGoes DEF Reply, MayAnswer
  <2>3. circuit' \in [Circuits -> Circuit]
    BY <1>3, <2>1, CircuitTyped
  <2>4. begun' \in 0..MaxCalls
    BY <1>3, <1>7 DEF Reply
  <2> QED
    BY <2>1, <2>2, <2>3, <2>4, TaskKeeps
<1>8. CASE Unusable(t)
  <2>1. /\ step' = [step EXCEPT ![t] = "call"] /\ job' = [job EXCEPT ![t].tier = 2]
        /\ step[t] = "asked" /\ job[t].kind = "report" /\ job[t].tier = 3
        /\ UNCHANGED <<history, alarm, outcome_of, begun>>
        /\ circuit' = [circuit EXCEPT ![t] = AfterAnswer(@, "ok")]
    BY <1>8 DEF Unusable
  <2>2. circuit' \in [Circuits -> Circuit]
    BY <1>3, <2>1, CircuitTyped
  <2>3. TaskGoes(t)
    BY <2>1, NextTierGoes
  <2> QED
    BY <1>3, <2>1, <2>2, <2>3, TaskKeeps
<1> QED
  BY <1>1, <1>5, <1>6, <1>7, <1>8 DEF Working

-----------------------------------------------------------------------------
(* Induction, from the library's theorem on well-founded relations: over   *)
(* the numbers in a set and over the sequences in a set.                   *)
LEMMA LeastNatural ==
  ASSUME NEW S \in SUBSET Nat, S # {}
  PROVE  \E m \in S : \A k \in S : m <= k
<1> DEFINE R == OpToRel(<, Nat)
<1>1. IsWellFoundedOn(R, Nat)
  BY NatLessThanWellFounded
<1>2. \A x, y \in Nat : <<y, x>> \in R <=> y < x
  BY DEF OpToRel
<1> HIDE DEF R
<1>3. PICK x \in S : \A y \in S : ~(<<y, x>> \in R)
  BY <1>1, WFMin
<1>4. x \in Nat /\ \A y \in S : y \in Nat
  OBVIOUS
<1>5. \A y \in S : ~(y < x)
  BY <1>2, <1>3, <1>4
<1>6. \A y \in S : x <= y
  BY <1>4, <1>5
<1> QED
  BY <1>6

LEMMA SetInduction ==
  ASSUME NEW T, 0 \in T, \A n \in Nat : n \in T => n + 1 \in T
  PROVE  Nat \subseteq T
<1> SUFFICES ASSUME Nat \ T # {} PROVE FALSE
  OBVIOUS
<1>1. PICK m \in Nat \ T : \A k \in Nat \ T : m <= k
  BY LeastNatural
<1>2. m # 0 /\ m - 1 \in Nat /\ ~(m <= m - 1)
  BY <1>1
<1>3. m - 1 \in T
  BY <1>1, <1>2
<1> QED
  BY <1>1, <1>2, <1>3

LEMMA SeqSetInduction ==
  ASSUME NEW T, NEW P, <<>> \in P, \A s \in Seq(T), e \in T : s \in P => Append(s, e) \in P
  PROVE  Seq(T) \subseteq P
<1> DEFINE N == {n \in Nat : \A s \in Seq(T) : Len(s) = n => s \in P}
<1>1. 0 \in N
  <2>1. \A s \in Seq(T) : Len(s) = 0 => s = <<>>
    BY EmptySeq
  <2> QED
    BY <2>1
<1>2. ASSUME NEW n \in Nat, n \in N PROVE n + 1 \in N
  <2> SUFFICES ASSUME NEW s \in Seq(T), Len(s) = n + 1
               PROVE  s \in P
    OBVIOUS
  <2>1. s # <<>>
    OBVIOUS
  <2>2. PICK q \in Seq(T), e \in T : s = Append(q, e)
    BY <2>1, SequenceEmptyOrAppend
  <2>3. Len(s) = Len(q) + 1 /\ Len(q) \in Nat
    BY <2>2, AppendProperties
  <2>4. q \in P
    BY <1>2, <2>3
  <2> QED
    BY <2>2, <2>4
<1> HIDE DEF N
<1>3. Nat \subseteq N
  BY <1>1, <1>2, SetInduction
<1> USE DEF N
<1> QED
  BY <1>3

-----------------------------------------------------------------------------
(* What Among computes, an element after the other. *)
IsFound(g, seq, S) ==
  g = [i \in 0..Len(seq) |->
         IF i = 0 THEN <<>>
         ELSE IF seq[i] \in S THEN Append(g[i - 1], seq[i]) ELSE g[i - 1]]

LEMMA FoundExists ==
  ASSUME NEW T, NEW seq \in Seq(T), NEW S
  PROVE  \E g : IsFound(g, seq, S)
<1> DEFINE F(g, i) == IF i = 0 THEN <<>>
                      ELSE IF seq[i] \in S THEN Append(g[i - 1], seq[i]) ELSE g[i - 1]
           N == {n \in Nat : \E g : g = [i \in 0..n |-> F(g, i)]}
<1>1. 0 \in N
  <2> DEFINE g == [i \in 0..0 |-> <<>>]
  <2>1. g = [i \in 0..0 |-> F(g, i)]
    OBVIOUS
  <2> QED
    BY <2>1
<1>2. ASSUME NEW n \in Nat, n \in N PROVE n + 1 \in N
  <2>1. PICK g : g = [i \in 0..n |-> F(g, i)]
    BY <1>2
  <2> DEFINE h == [i \in 0..(n + 1) |-> IF i = n + 1
                     THEN IF seq[i] \in S THEN Append(g[i - 1], seq[i]) ELSE g[i - 1]
                     ELSE g[i]]
  <2>2. ASSUME NEW i \in 0..(n + 1) PROVE h[i] = F(h, i)
    <3>1. CASE i = n + 1
      <4>1. i # 0 /\ i - 1 \in 0..(n + 1) /\ i - 1 # n + 1
        BY <3>1
      <4>2. h[i - 1] = g[i - 1]
        BY <4>1
      <4> QED
        BY <3>1, <4>1, <4>2
    <3>2. CASE i \in 0..n /\ i = 0
      <4>1. h[i] = g[i] /\ g[i] = <<>>
        BY <2>1, <3>2
      <4> QED
        BY <3>2, <4>1
    <3>3. CASE i \in 0..n /\ i # 0
      <4>1. i # n + 1 /\ i - 1 \in 0..(n + 1) /\ i - 1 # n + 1
        BY <3>3
      <4>2. h[i] = g[i] /\ h[i - 1] = g[i - 1]
        BY <4>1
      <4>3. g[i] = F(g, i)
        BY <2>1, <3>3
      <4> QED
        BY <3>3, <4>2, <4>3
    <3> QED
      BY <3>1, <3>2, <3>3
  <2> HIDE DEF F
  <2>3. h = [i \in 0..(n + 1) |-> F(h, i)]
    BY <2>2
  <2> HIDE DEF h
  <2> QED
    BY <2>3
<1> HIDE DEF N, F
<1>3. Len(seq) \in N
  BY <1>1, <1>2, SetInduction
<1> USE DEF N, F
<1> QED
  BY <1>3 DEF IsFound

LEMMA FoundAmong ==
  ASSUME NEW T, NEW seq \in Seq(T), NEW S
  PROVE  \E g : IsFound(g, seq, S) /\ Among(seq, S) = g[Len(seq)]
<1>1. Among(seq, S) = (CHOOSE g : IsFound(g, seq, S))[Len(seq)]
  BY DEF Among, IsFound
<1>2. IsFound(CHOOSE g : IsFound(g, seq, S), seq, S)
  BY FoundExists
<1> QED
  BY <1>1, <1>2

(* The same, an element at a time. *)
LEMMA FoundAt ==
  ASSUME NEW T, NEW seq \in Seq(T), NEW S, NEW g, IsFound(g, seq, S)
  PROVE  /\ g[0] = <<>>
         /\ \A n \in Nat : n + 1 <= Len(seq) =>
              g[n + 1] = IF seq[n + 1] \in S THEN Append(g[n], seq[n + 1]) ELSE g[n]
<1> DEFINE F(i) == IF i = 0 THEN <<>>
                   ELSE IF seq[i] \in S THEN Append(g[i - 1], seq[i]) ELSE g[i - 1]
<1>1. g = [i \in 0..Len(seq) |-> F(i)]
  BY DEF IsFound
<1> HIDE DEF F
<1>2. \A i \in 0..Len(seq) : g[i] = F(i)
  BY <1>1
<1>3. Len(seq) \in Nat
  OBVIOUS
<1>4. 0 \in 0..Len(seq) /\ \A n \in Nat : n + 1 <= Len(seq) => n + 1 \in 0..Len(seq)
  BY <1>3
<1>5. g[0] = F(0) /\ F(0) = <<>>
  BY <1>2, <1>4 DEF F
<1>6. ASSUME NEW n \in Nat, n + 1 <= Len(seq)
      PROVE  g[n + 1] = IF seq[n + 1] \in S THEN Append(g[n], seq[n + 1]) ELSE g[n]
  <2>1. g[n + 1] = F(n + 1)
    BY <1>2, <1>4, <1>6
  <2>2. n + 1 # 0 /\ n + 1 - 1 = n
    OBVIOUS
  <2> QED
    BY <2>1, <2>2 DEF F
<1> QED
  BY <1>5, <1>6

LEMMA RangeAppend ==
  ASSUME NEW T, NEW seq \in Seq(T), NEW e \in T
  PROVE  Append(seq, e) \in Seq(T) /\ Range(Append(seq, e)) = Range(seq) \cup {e}
<1> DEFINE q == Append(seq, e)
<1>1. /\ q \in Seq(T) /\ Len(q) = Len(seq) + 1 /\ Len(seq) \in Nat
      /\ \A i \in 1..Len(seq) : q[i] = seq[i]
      /\ q[Len(seq) + 1] = e
  BY AppendProperties
<1>2. Range(q) = {q[i] : i \in 1..Len(q)} /\ Range(seq) = {seq[i] : i \in 1..Len(seq)}
  BY <1>1, RangeEquality
<1>3. 1..Len(q) = 1..Len(seq) \cup {Len(seq) + 1}
  BY <1>1
<1> HIDE DEF q
<1>4. Range(q) = Range(seq) \cup {e}
  BY <1>1, <1>2, <1>3
<1> QED
  BY <1>1, <1>4 DEF q

LEMMA AmongEmpty ==
  ASSUME NEW S
  PROVE  Among(<<>>, S) = <<>>
<1>1. <<>> \in Seq({}) /\ Len(<<>>) = 0
  OBVIOUS
<1>2. PICK g : IsFound(g, <<>>, S) /\ Among(<<>>, S) = g[0]
  BY <1>1, FoundAmong
<1>3. g[0] = <<>>
  <2>1. \A T : \A seq \in Seq(T) : IsFound(g, seq, S) => g[0] = <<>>
    BY FoundAt
  <2> QED
    BY <1>1, <1>2, <2>1, Zenon
<1> QED
  BY <1>2, <1>3

LEMMA AmongAppend ==
  ASSUME NEW T, NEW seq \in Seq(T), NEW e \in T, NEW S
  PROVE  Among(Append(seq, e), S) = IF e \in S THEN Append(Among(seq, S), e) ELSE Among(seq, S)
<1> DEFINE q == Append(seq, e)
<1>1. /\ q \in Seq(T) /\ Len(q) = Len(seq) + 1 /\ Len(seq) \in Nat
      /\ \A i \in 1..Len(seq) : q[i] = seq[i]
      /\ q[Len(seq) + 1] = e
  BY AppendProperties
<1>2. PICK g : IsFound(g, seq, S) /\ Among(seq, S) = g[Len(seq)]
  BY FoundAmong
<1>3. PICK h : IsFound(h, q, S) /\ Among(q, S) = h[Len(q)]
  BY <1>1, FoundAmong
<1> HIDE DEF q
<1>4. /\ g[0] = <<>>
      /\ \A n \in Nat : n + 1 <= Len(seq) =>
           g[n + 1] = IF seq[n + 1] \in S THEN Append(g[n], seq[n + 1]) ELSE g[n]
  BY <1>2, FoundAt
<1>5. /\ h[0] = <<>>
      /\ \A n \in Nat : n + 1 <= Len(q) =>
           h[n + 1] = IF q[n + 1] \in S THEN Append(h[n], q[n + 1]) ELSE h[n]
  <2>1. q \in Seq(T) /\ IsFound(h, q, S)
    BY <1>1, <1>3
  <2> QED
    BY <2>1, FoundAt
<1> DEFINE N == {n \in Nat : n <= Len(seq) => h[n] = g[n]}
<1>6. 0 \in N
  BY <1>4, <1>5
<1>7. ASSUME NEW n \in Nat, n \in N PROVE n + 1 \in N
  <2> SUFFICES ASSUME n + 1 <= Len(seq)
               PROVE  h[n + 1] = g[n + 1]
    OBVIOUS
  <2>1. n + 1 <= Len(q) /\ n + 1 \in 1..Len(seq) /\ n <= Len(seq)
    BY <1>1
  <2>2. h[n] = g[n] /\ q[n + 1] = seq[n + 1]
    BY <1>1, <1>7, <2>1
  <2> QED
    BY <1>4, <1>5, <2>1, <2>2
<1> HIDE DEF N
<1>8. Len(seq) \in N
  BY <1>1, <1>6, <1>7, SetInduction
<1> USE DEF N
<1>9. h[Len(seq)] = g[Len(seq)]
  BY <1>1, <1>8
<1>10. h[Len(seq) + 1] = IF e \in S THEN Append(g[Len(seq)], e) ELSE g[Len(seq)]
  BY <1>1, <1>5, <1>9
<1> QED
  BY <1>1, <1>2, <1>3, <1>10 DEF q

(* What is found is in the sequence and in the set, all of it. *)
LEMMA AmongFinds ==
  ASSUME NEW T, NEW seq \in Seq(T), NEW S
  PROVE  /\ Among(seq, S) \in Seq(T)
         /\ Range(Among(seq, S)) = Range(seq) \cap S
<1> DEFINE P == {s \in Seq(T) : Among(s, S) \in Seq(T) /\ Range(Among(s, S)) = Range(s) \cap S}
<1>1. <<>> \in P
  <2>1. <<>> \in Seq(T) /\ Range(<<>>) = {}
    BY EmptySeq DEF Range
  <2> QED
    BY <2>1, AmongEmpty
<1>2. ASSUME NEW s \in Seq(T), NEW e \in T, s \in P PROVE Append(s, e) \in P
  <2>1. Append(s, e) \in Seq(T) /\ Range(Append(s, e)) = Range(s) \cup {e}
    BY RangeAppend
  <2>2. Among(s, S) \in Seq(T) /\ Range(Among(s, S)) = Range(s) \cap S
    BY <1>2
  <2>3. /\ Append(Among(s, S), e) \in Seq(T)
        /\ Range(Append(Among(s, S), e)) = Range(Among(s, S)) \cup {e}
    BY <2>2, RangeAppend
  <2>4. Among(Append(s, e), S) = IF e \in S THEN Append(Among(s, S), e) ELSE Among(s, S)
    BY AmongAppend
  <2>5. CASE e \in S
    BY <2>1, <2>2, <2>3, <2>4, <2>5
  <2>6. CASE e \notin S
    BY <2>1, <2>2, <2>4, <2>6
  <2> QED
    BY <2>5, <2>6
<1> HIDE DEF P
<1>3. seq \in P
  BY <1>1, <1>2, SeqSetInduction
<1> USE DEF P
<1> QED
  BY <1>3

(* Only the members of the set that occur matter. *)
LEMMA AmongSame ==
  ASSUME NEW T, NEW seq \in Seq(T), NEW S, NEW U, Range(seq) \cap S = Range(seq) \cap U
  PROVE  Among(seq, S) = Among(seq, U)
<1> DEFINE P == {s \in Seq(T) : Range(s) \cap S = Range(s) \cap U => Among(s, S) = Among(s, U)}
<1>1. <<>> \in P
  BY EmptySeq, AmongEmpty
<1>2. ASSUME NEW s \in Seq(T), NEW e \in T, s \in P PROVE Append(s, e) \in P
  <2>1. Append(s, e) \in Seq(T) /\ Range(Append(s, e)) = Range(s) \cup {e}
    BY RangeAppend
  <2> SUFFICES ASSUME Range(Append(s, e)) \cap S = Range(Append(s, e)) \cap U
               PROVE  Among(Append(s, e), S) = Among(Append(s, e), U)
    BY <2>1
  <2>2. Among(s, S) = Among(s, U) /\ (e \in S <=> e \in U)
    BY <1>2, <2>1
  <2>3. /\ Among(Append(s, e), S) = IF e \in S THEN Append(Among(s, S), e) ELSE Among(s, S)
        /\ Among(Append(s, e), U) = IF e \in U THEN Append(Among(s, U), e) ELSE Among(s, U)
    BY AmongAppend
  <2> QED
    BY <2>2, <2>3
<1> HIDE DEF P
<1>3. seq \in P
  BY <1>1, <1>2, SeqSetInduction
<1> USE DEF P
<1> QED
  BY <1>3

(* Finding twice is finding once. *)
LEMMA AmongTwice ==
  ASSUME NEW T, NEW seq \in Seq(T), NEW S, NEW U, U \subseteq S
  PROVE  Among(Among(seq, S), U) = Among(seq, U)
<1> DEFINE P == {s \in Seq(T) : Among(Among(s, S), U) = Among(s, U)}
<1>1. <<>> \in P
  BY EmptySeq, AmongEmpty
<1>2. ASSUME NEW s \in Seq(T), NEW e \in T, s \in P PROVE Append(s, e) \in P
  <2>1. Append(s, e) \in Seq(T) /\ Among(s, S) \in Seq(T)
    BY AppendProperties, AmongFinds
  <2>2. /\ Among(Append(s, e), S) = IF e \in S THEN Append(Among(s, S), e) ELSE Among(s, S)
        /\ Among(Append(s, e), U) = IF e \in U THEN Append(Among(s, U), e) ELSE Among(s, U)
        /\ Among(Append(Among(s, S), e), U) =
             IF e \in U THEN Append(Among(Among(s, S), U), e) ELSE Among(Among(s, S), U)
    BY <2>1, AmongAppend
  <2>3. Among(Among(s, S), U) = Among(s, U)
    BY <1>2
  <2>4. Among(Among(Append(s, e), S), U) = Among(Append(s, e), U)
    BY <2>2, <2>3
  <2> QED
    BY <2>1, <2>4
<1> HIDE DEF P
<1>3. seq \in P
  BY <1>1, <1>2, SeqSetInduction
<1> USE DEF P
<1> QED
  BY <1>3

-----------------------------------------------------------------------------
(* The translation of requests *)

LEMMA TextsTyped ==
  ASSUME NEW m \in Seq(Message)
  PROVE  /\ Texts(m) \in Seq(Nat) /\ Len(Texts(m)) = Len(m)
         /\ \A i \in 1..Len(m) : Texts(m)[i] = m[i].text
         /\ \A msg \in Range(m) : msg.text \in Range(Texts(m))
<1>1. DOMAIN m = 1..Len(m) /\ Len(m) \in Nat /\ \A i \in 1..Len(m) : m[i] \in Message
  BY LenProperties, ElementOfSeq
<1>2. Texts(m) = [i \in 1..Len(m) |-> m[i].text] /\ \A i \in 1..Len(m) : m[i].text \in Nat
  BY <1>1 DEF Texts, Message
<1>3. Texts(m) \in Seq(Nat) /\ Len(Texts(m)) = Len(m)
  BY <1>1, <1>2, IsASeq
<1> QED
  BY <1>1, <1>2, <1>3 DEF Range

LEMMA SaidByTyped ==
  ASSUME NEW m \in Seq(Message), NEW role
  PROVE  SaidBy(m, role) \in Seq(Message) /\ Range(SaidBy(m, role)) = {msg \in Range(m) : msg.role = role}
<1>1. Range(m) \cap {msg \in Range(m) : msg.role = role} = {msg \in Range(m) : msg.role = role}
  OBVIOUS
<1> QED
  BY <1>1, AmongFinds DEF SaidBy

LEMMA LastTextIsThere ==
  ASSUME NEW m \in Seq(Message)
  PROVE  LET last == LastOr(Texts(m), 0) IN
         /\ last \in Nat
         /\ last # 0 => \E msg \in Range(m) : msg.text = last
<1>1. /\ Texts(m) \in Seq(Nat) /\ Len(Texts(m)) = Len(m) /\ Len(m) \in Nat
      /\ \A i \in 1..Len(m) : Texts(m)[i] = m[i].text
  BY TextsTyped, LenProperties
<1>2. CASE Texts(m) = <<>>
  BY <1>2 DEF LastOr
<1>3. CASE Texts(m) # <<>>
  <2>1. Len(m) \in 1..Len(m)
    BY <1>1, <1>3
  <2>2. LastOr(Texts(m), 0) = m[Len(m)].text
    BY <1>1, <1>3, <2>1 DEF LastOr
  <2>3. m[Len(m)] \in Range(m) /\ m[Len(m)].text \in Nat
    <3>1. m[Len(m)] \in Message
      BY <2>1, ElementOfSeq
    <3>2. Range(m) = {m[i] : i \in 1..Len(m)}
      BY RangeEquality
    <3> QED
      BY <2>1, <3>1, <3>2 DEF Message
  <2> QED
    BY <2>2, <2>3
<1> QED
  BY <1>2, <1>3

LEMMA LastUserTextIsThere ==
  ASSUME NEW m \in Seq(Message)
  PROVE  /\ LastUserText(m) \in Nat
         /\ LastUserText(m) # 0 => \E msg \in Range(m) : msg.role = "user" /\ msg.text = LastUserText(m)
BY SaidByTyped, LastTextIsThere DEF LastUserText

LEMMA LastUserTextOfNew ==
  ASSUME NEW m \in Seq(Message), NEW new \in Message, new.role = "user"
  PROVE  LastUserText(Append(m, new)) = new.text
<1> DEFINE q == Append(m, new)
           U == {msg \in Range(q) : msg.role = "user"}
           u == Among(m, U)
<1>1. q \in Seq(Message) /\ Range(q) = Range(m) \cup {new} /\ new \in U
  BY RangeAppend
<1>2. Among(q, U) = Append(u, new)
  BY <1>1, AmongAppend
<1>3. u \in Seq(Message)
  BY AmongFinds
<1>4. SaidBy(q, "user") = Append(u, new)
  BY <1>2 DEF SaidBy
<1> HIDE DEF q, U, u
<1>5. /\ Append(u, new) \in Seq(Message) /\ Len(Append(u, new)) = Len(u) + 1
      /\ Append(u, new)[Len(u) + 1] = new /\ Len(u) \in Nat
  BY <1>3, AppendProperties
<1> DEFINE t == Texts(Append(u, new))
<1>6. t \in Seq(Nat) /\ Len(t) = Len(u) + 1 /\ t[Len(u) + 1] = new.text
  <2> DEFINE v == Append(u, new)
  <2>1. v \in Seq(Message) /\ Len(v) = Len(u) + 1 /\ v[Len(u) + 1] = new /\ Len(u) + 1 \in 1..Len(v)
    BY <1>5
  <2> HIDE DEF v
  <2>2. /\ Texts(v) \in Seq(Nat) /\ Len(Texts(v)) = Len(v)
        /\ \A i \in 1..Len(v) : Texts(v)[i] = v[i].text
    BY <2>1, TextsTyped
  <2>3. Texts(v) \in Seq(Nat) /\ Len(Texts(v)) = Len(u) + 1 /\ Texts(v)[Len(u) + 1] = new.text
    BY <2>1, <2>2
  <2> QED
    BY <2>3 DEF v
<1> HIDE DEF t
<1>7. t # <<>> /\ LastOr(t, 0) = new.text
  BY <1>5, <1>6 DEF LastOr
<1> QED
  BY <1>4, <1>7 DEF LastUserText, t, q

(* A system prompt is no user's message. *)
LEMMA LastUserTextNotSystem ==
  ASSUME NEW m \in Seq(Message)
  PROVE  LastUserText(NotSystem(m)) = LastUserText(m)
<1> DEFINE S == {msg \in Range(m) : msg.role # "system"}
           U == {msg \in Range(m) : msg.role = "user"}
           n == NotSystem(m)
<1>1. n = Among(m, S) /\ n \in Seq(Message) /\ Range(n) = S
  BY AmongFinds DEF NotSystem
<1>2. {msg \in Range(n) : msg.role = "user"} = U
  BY <1>1
<1>3. Among(n, U) = Among(m, U)
  <2>1. U \subseteq S
    OBVIOUS
  <2> QED
    BY <1>1, <2>1, AmongTwice
<1>4. SaidBy(n, "user") = SaidBy(m, "user")
  BY <1>2, <1>3 DEF SaidBy
<1> QED
  BY <1>4 DEF LastUserText

LEMMA NonEmptyKeeps ==
  ASSUME NEW texts \in Seq(Nat), NEW x \in Range(texts), x # 0
  PROVE  x \in Range(NonEmpty(texts))
BY AmongFinds DEF NonEmpty

LEMMA OneText ==
  ASSUME NEW x \in Nat
  PROVE  <<x>> \in Seq(Nat) /\ Range(<<x>>) = {x}
<1>1. <<x>> \in Seq(Nat)
  OBVIOUS
<1>2. Range(<<x>>) = {<<x>>[i] : i \in 1..1}
  BY DEF Range
<1>3. 1..1 = {1} /\ <<x>>[1] = x
  OBVIOUS
<1> QED
  BY <1>1, <1>2, <1>3

(* The last user message is checked and sent, by every adapter that reads  *)
(* messages.                                                               *)
LEMMA LastUserTextIsNormalized ==
  ASSUME NEW body, body.messages \in Seq(Message), NEW adapter \in AdapterNames \ {"cohere"},
         LastUserText(body.messages) # 0
  PROVE  /\ LastUserText(body.messages) \in Range(NormalizeRequest(adapter, body).checked)
         /\ LastUserText(body.messages) \in Range(NormalizeRequest(adapter, body).sent)
<1> DEFINE m == body.messages
           x == LastUserText(m)
<1>1. x \in Nat /\ x # 0 /\ \E msg \in Range(m) : msg.role = "user" /\ msg.text = x
  BY LastUserTextIsThere
<1>2. <<x>> \in Seq(Nat) /\ x \in Range(<<x>>)
  BY <1>1, OneText
<1>3. x \in Range(NonEmpty(<<x>>))
  BY <1>1, <1>2, NonEmptyKeeps
<1>4. x \in Range(NonEmpty(Texts(m)))
  <2>1. Texts(m) \in Seq(Nat) /\ x \in Range(Texts(m))
    BY <1>1, TextsTyped
  <2> QED
    BY <1>1, <2>1, NonEmptyKeeps
<1>5. LastUserText(NotSystem(m)) = x
  BY LastUserTextNotSystem
<1>6. x \in Range(NonEmpty(<<LastSystemText(m)>> \o Texts(NotSystem(m))))
  <2>1. /\ NotSystem(m) \in Seq(Message)
        /\ Range(NotSystem(m)) = Range(m) \cap {msg \in Range(m) : msg.role # "system"}
    BY AmongFinds DEF NotSystem
  <2>2. \E msg \in Range(NotSystem(m)) : msg.text = x
    BY <1>1, <2>1
  <2>3. Texts(NotSystem(m)) \in Seq(Nat) /\ x \in Range(Texts(NotSystem(m)))
    BY <2>1, <2>2, TextsTyped
  <2>4. LastSystemText(m) \in Nat
    BY SaidByTyped, LastTextIsThere DEF LastSystemText
  <2> DEFINE first == <<LastSystemText(m)>>
             rest == Texts(NotSystem(m))
  <2>5. first \in Seq(Nat)
    BY <2>4, OneText
  <2> HIDE DEF first, rest
  <2>6. rest \in Seq(Nat) /\ x \in Range(rest)
    BY <2>3 DEF rest
  <2>7. first \o rest \in Seq(Nat) /\ x \in Range(first \o rest)
    BY <2>5, <2>6, ConcatProperties, RangeConcatenation
  <2>8. x \in Range(NonEmpty(first \o rest))
    BY <1>1, <2>7, NonEmptyKeeps
  <2> QED
    BY <2>8 DEF first, rest
<1> HIDE DEF x
<1>7. CASE adapter \in OpenAICompatible
  <2>1. NormalizeRequest(adapter, body) = OpenAICompatRequest(body)
    BY <1>7 DEF NormalizeRequest, OpenAICompatible
  <2>2. /\ OpenAICompatRequest(body).checked = NonEmpty(<<x>>)
        /\ OpenAICompatRequest(body).sent = NonEmpty(Texts(m))
    BY <1>1 DEF OpenAICompatRequest, x
  <2> QED
    BY <1>3, <1>4, <2>1, <2>2 DEF x
<1>8. CASE adapter = "anthropic"
  <2>1. /\ NormalizeRequest(adapter, body).checked = NonEmpty(<<x>>)
        /\ NormalizeRequest(adapter, body).sent = NonEmpty(<<LastSystemText(m)>> \o Texts(NotSystem(m)))
    BY <1>5, <1>8 DEF NormalizeRequest, AnthropicRequest, OpenAICompatible
  <2> QED
    BY <1>3, <1>6, <2>1 DEF x
<1>9. CASE adapter = "google"
  <2>1. /\ NormalizeRequest(adapter, body).checked = NonEmpty(<<x>>)
        /\ NormalizeRequest(adapter, body).sent = NonEmpty(<<LastSystemText(m)>> \o Texts(NotSystem(m)))
    BY <1>9 DEF NormalizeRequest, GoogleRequest, OpenAICompatible, x
  <2> QED
    BY <1>3, <1>6, <2>1 DEF x
<1>10. CASE adapter = "mock"
  <2>1. /\ NormalizeRequest(adapter, body).checked = NonEmpty(<<x>>)
        /\ NormalizeRequest(adapter, body).sent = NonEmpty(<<x>>)
    BY <1>10 DEF NormalizeRequest, MockRequest, OpenAICompatible, x
  <2> QED
    BY <1>3, <2>1 DEF x
<1> QED
  BY <1>7, <1>8, <1>9, <1>10 DEF AdapterNames

(* Cohere's own form. *)
LEMMA CohereTextIsNormalized ==
  ASSUME NEW body, NEW x \in Nat, x # 0,
         x = IF body.message # None THEN body.message ELSE body.prompt
  PROVE  /\ x \in Range(NormalizeRequest("cohere", body).checked)
         /\ x \in Range(NormalizeRequest("cohere", body).sent)
<1>1. <<x>> \in Seq(Nat) /\ x \in Range(<<x>>)
  BY OneText
<1>2. x \in Range(NonEmpty(<<x>>))
  BY <1>1, NonEmptyKeeps
<1>3. /\ NormalizeRequest("cohere", body).checked = NonEmpty(<<x>>)
      /\ NormalizeRequest("cohere", body).sent = NonEmpty(<<x>>)
  BY DEF NormalizeRequest, CohereRequest, OpenAICompatible
<1> QED
  BY <1>2, <1>3

(* What a request is to say is checked and sent. *)
Carried(r) ==
  /\ r.said \notin {0, None}
  /\ ~(r.route = "chat" /\ (r.adapter = "cohere" \/ (r.both /\ ~r.named)))
  => r.said \in Range(r.checked) /\ r.said \in Range(r.sent)

LEMMA ChatBodySays ==
  ASSUME NEW body \in StreamBodies, NEW named \in BOOLEAN,
         body.message # None, named \/ body.messages = <<>>
  PROVE  LET b == ChatBody(body, named, History) IN
         b.messages \in Seq(Message) /\ LastUserText(b.messages) = body.message
<1> DEFINE new == [role |-> "user", text |-> body.message]
           old == IF named THEN History ELSE <<>>
           b == ChatBody(body, named, History)
<1>1. body \in [messages : Seq(Message), message : Nat \cup {None}, prompt : Nat]
  BY StreamAssumption
<1>2. new \in Message /\ new.role = "user" /\ new.text = body.message
  BY <1>1 DEF Message
<1>3. old \in Seq(Message)
  BY StreamAssumption, EmptySeq
<1>4. b.messages = IF named THEN History \o <<new>> ELSE <<new>>
  BY <1>1 DEF ChatBody
<1> HIDE DEF new, b
<1>5. History \o <<new>> = Append(History, new)
  BY <1>2, StreamAssumption, AppendIsConcat
<1>6. <<new>> = Append(<<>>, new)
  BY <1>2
<1>7. b.messages = Append(old, new)
  BY <1>4, <1>5, <1>6
<1>8. Append(old, new) \in Seq(Message) /\ LastUserText(Append(old, new)) = body.message
  BY <1>2, <1>3, AppendProperties, LastUserTextOfNew
<1> QED
  BY <1>7, <1>8 DEF b

LEMMA ArrivesCarried ==
  ASSUME NEW route \in StreamRoutes, NEW body \in StreamBodies, NEW named \in BOOLEAN,
         NEW adapter \in AdapterNames, named => route = "chat", route = "cohere" => adapter = "cohere",
         NEW b, b = IF route = "chat" THEN ChatBody(body, named, History) ELSE body
  PROVE  Carried([route |-> route, adapter |-> adapter, named |-> named,
                  both |-> body.message # None /\ body.messages # <<>>,
                  said |-> Said(route, adapter, body),
                  checked |-> NormalizeRequest(adapter, b).checked,
                  sent |-> NormalizeRequest(adapter, b).sent])
<1> DEFINE said == Said(route, adapter, body)
<1> SUFFICES ASSUME said # 0, said # None,
                    ~(route = "chat" /\ (adapter = "cohere" \/ (body.message # None /\ body.messages # <<>> /\ ~named)))
             PROVE  /\ said \in Range(NormalizeRequest(adapter, b).checked)
                    /\ said \in Range(NormalizeRequest(adapter, b).sent)
  BY DEF Carried
<1>1. body \in [messages : Seq(Message), message : Nat \cup {None}, prompt : Nat]
  BY StreamAssumption
<1>2. CASE adapter # "cohere"
  <2>1. b.messages \in Seq(Message) /\ LastUserText(b.messages) = said
    <3>1. CASE route = "chat" /\ body.message # None
      BY <1>2, <3>1, ChatBodySays DEF Said
    <3>2. CASE route = "chat" /\ body.message = None
      <4>1. b.messages = body.messages
        BY <1>1, <3>2 DEF ChatBody
      <4> QED
        BY <1>1, <1>2, <3>2, <4>1 DEF Said
    <3>3. CASE route # "chat"
      BY <1>1, <1>2, <3>3 DEF Said
    <3> QED
      BY <3>1, <3>2, <3>3
  <2> HIDE DEF said
  <2> QED
    BY <1>2, <2>1, LastUserTextIsNormalized
<1>3. CASE adapter = "cohere"
  <2>1. b = body /\ said = IF body.message # None THEN body.message ELSE body.prompt
    BY <1>3 DEF Said
  <2>2. said \in Nat
    BY <1>1, <2>1
  <2> HIDE DEF said
  <2> QED
    BY <1>3, <2>1, <2>2, CohereTextIsNormalized
<1> QED
  BY <1>2, <1>3

-----------------------------------------------------------------------------
(* What a client is shown *)

Event == ({"content"} \X Nat) \cup {<<"error">>, <<"safety">>, <<"[DONE]">>}
Named(events) == {events[i][1] : i \in DOMAIN events}

LEMMA NamedAppend ==
  ASSUME NEW events \in Seq(Event), NEW e \in Event
  PROVE  /\ Append(events, e) \in Seq(Event)
         /\ Named(Append(events, e)) = Named(events) \cup {e[1]}
         /\ Append(events, e)[Len(Append(events, e))] = e
<1> DEFINE q == Append(events, e)
<1>1. /\ q \in Seq(Event) /\ Len(q) = Len(events) + 1 /\ Len(events) \in Nat
      /\ \A i \in 1..Len(events) : q[i] = events[i]
      /\ q[Len(events) + 1] = e
  BY AppendProperties
<1>2. DOMAIN q = 1..(Len(events) + 1) /\ DOMAIN events = 1..Len(events)
  BY <1>1, LenProperties
<1>3. 1..(Len(events) + 1) = 1..Len(events) \cup {Len(events) + 1}
  BY <1>1
<1> HIDE DEF q
<1>4. Named(q) = Named(events) \cup {e[1]}
  BY <1>1, <1>2, <1>3 DEF Named
<1> QED
  BY <1>1, <1>4 DEF q

LEMMA ContentTyped ==
  ASSUME NEW events \in Seq(Event)
  PROVE  ContentOf(events) \in Seq(Nat)
<1> DEFINE C == {e \in Range(events) : e[1] = "content"}
           content == Among(events, C)
<1>1. content \in Seq(Event) /\ Range(content) = C
  <2>1. Range(events) \cap C = C
    OBVIOUS
  <2> QED
    BY <2>1, AmongFinds
<1>2. \A e \in C : e \in Event /\ e[1] = "content"
  <2>1. Range(events) \subseteq Event
    BY RangeOfSeq
  <2> QED
    BY <2>1
<1>3. \A e \in C : e[2] \in Nat
  BY <1>2 DEF Event
<1>4. ContentOf(events) = [i \in DOMAIN content |-> content[i][2]]
  BY DEF ContentOf
<1> HIDE DEF content, C
<1>5. DOMAIN content = 1..Len(content) /\ Len(content) \in Nat /\ \A i \in DOMAIN content : content[i] \in C
  BY <1>1, LenProperties, RangeEquality
<1>6. [i \in DOMAIN content |-> content[i][2]] \in Seq(Nat)
  BY <1>3, <1>5, IsASeq
<1> QED
  BY <1>4, <1>6

LEMMA ContentUnchanged ==
  ASSUME NEW events \in Seq(Event), NEW e \in Event, e[1] # "content"
  PROVE  ContentOf(Append(events, e)) = ContentOf(events)
<1> DEFINE C == {x \in Range(events) : x[1] = "content"}
<1>1. Range(Append(events, e)) = Range(events) \cup {e}
  BY RangeAppend
<1>2. {x \in Range(Append(events, e)) : x[1] = "content"} = C
  BY <1>1
<1>3. Among(Append(events, e), C) = Among(events, C)
  BY AmongAppend
<1> QED
  BY <1>2, <1>3 DEF ContentOf

LEMMA ProvidersAreAdapters ==
  ASSUME NEW route \in StreamRoutes
  PROVE  ProvidersOf(route) \subseteq AdapterNames
<1>1. \A fits : DetectProvider(fits) \in AdapterNames
  <2> SUFFICES ASSUME NEW fits PROVE DetectProvider(fits) \in AdapterNames
    OBVIOUS
  <2> DEFINE hits == {i \in DOMAIN PrefixTable : PrefixTable[i] \in fits}
  <2>1. hits \subseteq 1..5
    BY DEF PrefixTable
  <2>2. CASE hits = {}
    BY <2>2 DEF DetectProvider, AdapterNames, OpenAICompatible
  <2>3. CASE hits # {}
    <3> DEFINE first == CHOOSE i \in hits : \A j \in hits : i <= j
    <3>1. \E i \in hits : \A j \in hits : i <= j
      <4> HIDE DEF hits
      <4>1. hits \in SUBSET Nat
        BY <2>1
      <4> QED
        BY <2>3, <4>1, LeastNatural
    <3>2. first \in 1..5
      BY <2>1, <3>1
    <3>3. DetectProvider(fits) = ProviderOfPrefix[PrefixTable[first]]
      BY <2>3 DEF DetectProvider
    <3> HIDE DEF first, hits
    <3>4. PrefixTable[first] \in {"gpt-", "claude-", "gemini-", "command-", "llama"}
      BY <3>2 DEF PrefixTable
    <3>5. \A p \in {"gpt-", "claude-", "gemini-", "command-", "llama"} : ProviderOfPrefix[p] \in AdapterNames
      BY DEF ProviderOfPrefix, AdapterNames, OpenAICompatible
    <3> QED
      BY <3>3, <3>4, <3>5
  <2> QED
    BY <2>2, <2>3
<1> QED
  BY <1>1 DEF ProvidersOf, StreamRoutes, AdapterNames, OpenAICompatible

-----------------------------------------------------------------------------
(* Streams *)

Places == {"idle", "guard", "refused", "stream", "screen", "save", "log", "complete", "failed", "left"}

(* what was shown, judged, saved and logged of a stream, by where it is *)
Account(where, events, verdict, saved, audited, named) ==
  /\ where \notin {"complete", "failed"} => Named(events) \subseteq {"content", "safety"}
  /\ where \in {"idle", "guard", "refused", "stream", "screen", "failed"} => verdict = None /\ saved = None
  /\ where \in {"save", "log", "complete"} => verdict = ContentOf(events)
  /\ where = "save" => saved = None /\ named
  /\ saved # None => saved = verdict /\ named
  /\ audited <=> where = "complete"
  /\ where = "complete" => /\ "[DONE]" \in Named(events)
                           /\ Named(events) \subseteq {"content", "safety", "[DONE]"}
  /\ where = "failed" => /\ "error" \in Named(events) /\ "[DONE]" \notin Named(events)
                         /\ events[Len(events)] = <<"error">>

StreamTyped ==
  /\ at \in [Streams -> Places]
  /\ request = [s \in Streams |-> request[s]]
  /\ lines \in [Streams -> 0..MaxLines]
  /\ shown \in [Streams -> Seq(Event)]
  /\ judged \in [Streams -> Seq(Nat) \cup {None}]
  /\ stored \in [Streams -> Seq(Nat) \cup {None}]
  /\ logged \in [Streams -> BOOLEAN]

(* a stream that was let in has an adapter *)
LetIn(where) == where \notin {"idle", "refused"}

RequestsTyped ==
  \A s \in Streams :
    /\ request[s].adapter \in AdapterNames \cup {None} /\ request[s].route \in StreamRoutes \cup {None}
    /\ LetIn(at[s]) => request[s].adapter \in AdapterNames

StreamsAccounted ==
  \A s \in Streams : Account(at[s], shown[s], judged[s], stored[s], logged[s], request[s].named)

RequestsCarried == \A s \in Streams : Carried(request[s])

StreamInv ==
  /\ StreamTyped
  /\ RequestsTyped
  /\ StreamsAccounted
  /\ RequestsCarried

LEMMA StreamImplied ==
  ASSUME StreamInv
  PROVE  StreamTypeOK /\ StreamsAreAccounted /\ PromptIsCheckedAndSent
<1> USE DEF StreamInv
<1>1. StreamTypeOK
  <2>1. ASSUME NEW s \in Streams, NEW i \in DOMAIN shown[s]
        PROVE  shown[s][i][1] \in {"content", "error", "safety", "[DONE]"}
    <3>1. shown[s][i] \in Event
      <4>1. shown[s] \in Seq(Event)
        BY DEF StreamTyped
      <4>2. i \in 1..Len(shown[s])
        BY <4>1, LenProperties
      <4> QED
        BY <4>1, <4>2, ElementOfSeq
    <3> QED
      BY <3>1 DEF Event
  <2>2. \A s \in Streams : lines[s] \in 0..MaxLines
    BY DEF StreamTyped
  <2> QED
    BY <2>1, <2>2 DEF StreamTyped, RequestsTyped, StreamTypeOK, Places
<1>2. ASSUME NEW s \in Streams
      PROVE  LET has(name) == \E i \in DOMAIN shown[s] : shown[s][i][1] = name IN
             /\ has("[DONE]") => judged[s] = ContentOf(shown[s]) /\ logged[s] /\ ~has("error")
             /\ has("error") => /\ shown[s][Len(shown[s])] = <<"error">>
                                /\ judged[s] = None /\ stored[s] = None /\ ~logged[s]
             /\ stored[s] # None => stored[s] = judged[s] /\ request[s].named
             /\ logged[s] => judged[s] # None
             /\ at[s] \in {"complete", "failed"} => has("[DONE]") \/ has("error")
  <2>1. Account(at[s], shown[s], judged[s], stored[s], logged[s], request[s].named)
    BY DEF StreamsAccounted
  <2>2. \A name : name \in Named(shown[s]) <=> \E i \in DOMAIN shown[s] : shown[s][i][1] = name
    BY DEF Named
  <2>3. ContentOf(shown[s]) # None
    <3>1. ContentOf(shown[s]) \in Seq(Nat)
      BY ContentTyped DEF StreamTyped
    <3> QED
      BY <3>1, StreamAssumption
  <2> DEFINE N == Named(shown[s])
  <2>4. "[DONE]" \in N => at[s] = "complete"
    BY <2>1 DEF Account
  <2>5. "error" \in N => at[s] = "failed"
    BY <2>1 DEF Account
  <2>6. /\ "[DONE]" \in N => judged[s] = ContentOf(shown[s]) /\ logged[s] /\ "error" \notin N
        /\ "error" \in N => /\ shown[s][Len(shown[s])] = <<"error">>
                            /\ judged[s] = None /\ stored[s] = None /\ ~logged[s]
        /\ stored[s] # None => stored[s] = judged[s] /\ request[s].named
        /\ logged[s] => judged[s] # None
        /\ at[s] \in {"complete", "failed"} => "[DONE]" \in N \/ "error" \in N
    BY <2>1, <2>3, <2>4, <2>5 DEF Account
  <2> HIDE DEF N
  <2> QED
    BY <2>2, <2>6 DEF N
<1>3. StreamsAreAccounted
  BY <1>2 DEF StreamsAreAccounted
<1>4. PromptIsCheckedAndSent
  BY DEF RequestsCarried, Carried, PromptIsCheckedAndSent
<1> QED
  BY <1>1, <1>3, <1>4

LEMMA StreamBegins ==
  ASSUME StreamInit
  PROVE  StreamInv
<1> USE DEF StreamInit
<1>1. StreamTyped
  BY EmptySeq, StreamAssumption DEF StreamTyped, Places
<1>2. RequestsTyped
  BY DEF RequestsTyped, LetIn
<1>3. StreamsAccounted
  <2>1. Named(<<>>) = {}
    BY DEF Named
  <2> QED
    BY <2>1 DEF StreamsAccounted, Account
<1>4. RequestsCarried
  BY DEF RequestsCarried, Carried
<1> QED
  BY <1>1, <1>2, <1>3, <1>4 DEF StreamInv

(* What a step does to the streams: only s changes. *)
OnlyStream(s) ==
  \A u \in Streams \ {s} :
    /\ at'[u] = at[u] /\ request'[u] = request[u] /\ shown'[u] = shown[u]
    /\ judged'[u] = judged[u] /\ stored'[u] = stored[u] /\ logged'[u] = logged[u]

LEMMA StreamStepKeeps ==
  ASSUME StreamInv, NEW s \in Streams, StreamTyped', OnlyStream(s),
         request' = request, LetIn(at'[s]) => LetIn(at[s]),
         Account(at'[s], shown'[s], judged'[s], stored'[s], logged'[s], request[s].named)
  PROVE  StreamInv'
<1>1. StreamsAccounted'
  <2> SUFFICES ASSUME NEW u \in Streams
               PROVE  Account(at'[u], shown'[u], judged'[u], stored'[u], logged'[u], request[u].named)
    BY DEF StreamsAccounted
  <2>1. CASE u = s
    BY <2>1
  <2>2. CASE u # s
    BY <2>2 DEF OnlyStream, StreamInv, StreamsAccounted
  <2> QED
    BY <2>1, <2>2
<1>2. RequestsTyped' /\ RequestsCarried'
  <2>1. \A u \in Streams : LetIn(at'[u]) => LetIn(at[u])
    BY DEF OnlyStream
  <2> QED
    BY <2>1 DEF StreamInv, RequestsTyped, RequestsCarried, LetIn
<1> QED
  BY <1>1, <1>2 DEF StreamInv

(* A stream that fails shows an error and nothing after it. *)
LEMMA FailedIsAccounted ==
  ASSUME StreamInv, NEW s \in Streams, at[s] = "stream",
         shown' = [shown EXCEPT ![s] = Append(@, <<"error">>)]
  PROVE  /\ <<"error">> \in Event
         /\ Account("failed", shown'[s], judged[s], stored[s], logged[s], request[s].named)
<1>1. shown'[s] = Append(shown[s], <<"error">>) /\ shown[s] \in Seq(Event)
  BY DEF StreamInv, StreamTyped
<1>2. <<"error">> \in Event /\ <<"error">>[1] = "error"
  BY DEF Event
<1>3. Named(shown'[s]) = Named(shown[s]) \cup {"error"} /\ shown'[s][Len(shown'[s])] = <<"error">>
  BY <1>1, <1>2, NamedAppend
<1>4. Account("stream", shown[s], judged[s], stored[s], logged[s], request[s].named)
  BY DEF StreamInv, StreamsAccounted
<1> QED
  BY <1>2, <1>3, <1>4 DEF Account

LEMMA StreamKeeps ==
  ASSUME StreamInv, StreamNext
  PROVE  StreamInv'
<1> USE StreamAssumption
<1>1. PICK s \in Streams : Arrive(s) \/ TurnDown(s) \/ StreamStep(s) \/ ClientLeaves(s)
  BY DEF StreamNext
<1>2. StreamTyped
  BY DEF StreamInv
<1>3. Account(at[s], shown[s], judged[s], stored[s], logged[s], request[s].named)
  BY DEF StreamInv, StreamsAccounted
<1>4. /\ shown[s] \in Seq(Event) /\ ContentOf(shown[s]) \in Seq(Nat)
      /\ judged[s] \in Seq(Nat) \cup {None} /\ lines[s] \in 0..MaxLines
  BY <1>2, ContentTyped DEF StreamTyped
<1>5. <<"error">> \in Event /\ <<"safety">> \in Event /\ <<"[DONE]">> \in Event
  BY DEF Event
<1>6. ASSUME NEW e \in Event
      PROVE  LET q == Append(shown[s], e) IN
             /\ q \in Seq(Event) /\ Named(q) = Named(shown[s]) \cup {e[1]} /\ q[Len(q)] = e
             /\ e[1] # "content" => ContentOf(q) = ContentOf(shown[s])
  BY <1>4, NamedAppend, ContentUnchanged
(* the stream goes elsewhere, and at most one event is shown *)
<1>7. ASSUME NEW where \in Places, at' = [at EXCEPT ![s] = where],
             NEW e \in Event, shown' \in {shown, [shown EXCEPT ![s] = Append(@, e)]},
             lines' \in [Streams -> 0..MaxLines],
             UNCHANGED <<request, judged, stored, logged>>, LetIn(where) => LetIn(at[s]),
             Account(where, shown'[s], judged[s], stored[s], logged[s], request[s].named)
      PROVE  StreamInv'
  <2>1. shown' \in [Streams -> Seq(Event)]
    BY <1>2, <1>6, <1>7 DEF StreamTyped
  <2>2. StreamTyped'
    BY <1>2, <1>7, <2>1 DEF StreamTyped
  <2>3. OnlyStream(s) /\ at'[s] = where
    BY <1>2, <1>7 DEF StreamTyped, OnlyStream
  <2> QED
    BY <1>7, <2>2, <2>3, StreamStepKeeps
<1>8. CASE Arrive(s)
  <2>0. PICK route \in StreamRoutes, body \in StreamBodies, named \in BOOLEAN :
          \E adapter \in ProvidersOf(route) :
            LET b == IF route = "chat" THEN ChatBody(body, named, History) ELSE body
            IN  /\ named => route = "chat"
                /\ request' = [request EXCEPT ![s] =
                     [route |-> route, adapter |-> adapter, named |-> named,
                      both |-> body.message # None /\ body.messages # <<>>,
                      said |-> Said(route, adapter, body),
                      checked |-> NormalizeRequest(adapter, b).checked,
                      sent |-> NormalizeRequest(adapter, b).sent]]
                /\ StreamGoes(s, "guard")
    BY <1>8 DEF Arrive
  <2>1. PICK adapter \in ProvidersOf(route) :
          LET b == IF route = "chat" THEN ChatBody(body, named, History) ELSE body
          IN  /\ named => route = "chat"
              /\ request' = [request EXCEPT ![s] =
                   [route |-> route, adapter |-> adapter, named |-> named,
                    both |-> body.message # None /\ body.messages # <<>>,
                    said |-> Said(route, adapter, body),
                    checked |-> NormalizeRequest(adapter, b).checked,
                    sent |-> NormalizeRequest(adapter, b).sent]]
              /\ StreamGoes(s, "guard")
    BY <2>0
  <2> DEFINE b == IF route = "chat" THEN ChatBody(body, named, History) ELSE body
             r == [route |-> route, adapter |-> adapter, named |-> named,
                   both |-> body.message # None /\ body.messages # <<>>,
                   said |-> Said(route, adapter, body),
                   checked |-> NormalizeRequest(adapter, b).checked,
                   sent |-> NormalizeRequest(adapter, b).sent]
  <2>2. adapter \in AdapterNames /\ (route = "cohere" => adapter = "cohere")
    <3>1. adapter \in AdapterNames
      BY ProvidersAreAdapters
    <3>2. route = "cohere" => adapter = "cohere"
      BY DEF ProvidersOf
    <3> QED
      BY <3>1, <3>2
  <2>3. Carried(r)
    BY <2>1, <2>2, ArrivesCarried
  <2>4. r.adapter = adapter /\ r.route = route /\ r.named = named
    OBVIOUS
  <2>5. request' = [request EXCEPT ![s] = r] /\ at' = [at EXCEPT ![s] = "guard"]
    BY <2>1 DEF StreamGoes
  <2> HIDE DEF r, b
  <2>6. UNCHANGED <<lines, shown, judged, stored, logged>> /\ at[s] = "idle"
    BY <1>8 DEF Arrive
  <2>7. /\ request' = [u \in Streams |-> request'[u]] /\ request'[s] = r
        /\ \A u \in Streams \ {s} : request'[u] = request[u]
    BY <1>2, <2>5 DEF StreamTyped
  <2>8. at'[s] = "guard" /\ \A u \in Streams \ {s} : at'[u] = at[u]
    BY <1>2, <2>5 DEF StreamTyped
  <2>9. StreamTyped'
    BY <1>2, <2>5, <2>6, <2>7 DEF StreamTyped, Places
  <2>10. RequestsTyped' /\ RequestsCarried'
    <3>1. \A u \in Streams : LetIn(at'[u]) => u = s \/ LetIn(at[u])
      BY <2>8
    <3> QED
      BY <2>2, <2>3, <2>4, <2>7, <3>1 DEF StreamInv, RequestsTyped, RequestsCarried
  <2>11. StreamsAccounted'
    <3> SUFFICES ASSUME NEW u \in Streams
                 PROVE  Account(at'[u], shown[u], judged[u], stored[u], logged[u], request'[u].named)
      BY <2>6 DEF StreamsAccounted
    <3>1. CASE u = s
      BY <1>3, <2>6, <2>8, <3>1 DEF Account
    <3>2. CASE u # s
      BY <2>7, <2>8, <3>2 DEF StreamInv, StreamsAccounted
    <3> QED
      BY <3>1, <3>2
  <2> QED
    BY <2>9, <2>10, <2>11 DEF StreamInv
<1>9. CASE TurnDown(s) \/ Guard(s)
  <2>1. PICK where \in {"refused", "stream"} :
          at' = [at EXCEPT ![s] = where] /\ (LetIn(where) => LetIn(at[s]))
    BY <1>9 DEF TurnDown, Guard, StreamGoes, LetIn
  <2>2. /\ UNCHANGED <<request, lines, shown, judged, stored, logged>> /\ at[s] \in {"idle", "guard"}
    BY <1>9 DEF TurnDown, Guard
  <2>3. Account(where, shown[s], judged[s], stored[s], logged[s], request[s].named)
    BY <1>3, <2>2 DEF Account
  <2>4. where \in Places /\ lines' \in [Streams -> 0..MaxLines]
    BY <1>2, <2>2 DEF Places, StreamTyped
  <2> QED
    BY <1>5, <1>7, <2>1, <2>2, <2>3, <2>4
<1>10. CASE ReadLine(s)
  <2>1. at[s] = "stream" /\ lines' = [lines EXCEPT ![s] = @ + 1] /\ lines[s] < MaxLines
        /\ UNCHANGED <<request, judged, stored, logged>>
    BY <1>10 DEF ReadLine
  <2>2. lines' \in [Streams -> 0..MaxLines] /\ lines'[s] \in Nat /\ LetIn(at[s])
    BY <1>2, <1>4, <2>1 DEF StreamTyped, LetIn
  <2>3. <<"content", lines'[s]>> \in Event /\ <<"content", lines'[s]>>[1] = "content"
    BY <2>2 DEF Event
  <2>4. /\ Named(shown[s]) \subseteq {"content", "safety"} /\ judged[s] = None /\ stored[s] = None /\ ~logged[s]
    BY <1>3, <2>1 DEF Account
  <2>5. at = [at EXCEPT ![s] = "stream"] /\ {"stream", "screen", "failed"} \subseteq Places
    BY <1>2, <2>1 DEF StreamTyped, Places
  <2>6. \/ Show(s, <<"content", lines'[s]>>) /\ UNCHANGED at
        \/ UNCHANGED <<at, shown>>
        \/ StreamGoes(s, "screen") /\ UNCHANGED shown
        \/ StreamGoes(s, "failed") /\ Show(s, <<"error">>)
    <3>1. PICK name \in LineKinds(request[s].adapter) :
            CASE name = "text" -> Show(s, <<"content", lines'[s]>>) /\ UNCHANGED at
              [] name = "other" -> UNCHANGED <<at, shown>>
              [] name = "stop" -> StreamGoes(s, "screen") /\ UNCHANGED shown
              [] name = "odd" -> StreamGoes(s, "failed") /\ Show(s, <<"error">>)
      BY <1>10 DEF ReadLine
    <3>2. name \in {"text", "other", "stop", "odd"}
      <4>1. request[s].adapter \in AdapterNames
        BY <2>1 DEF StreamInv, RequestsTyped, LetIn
      <4> QED
        BY <4>1 DEF LineKinds, AdapterNames, OpenAICompatible, OpenAICompatLines, AnthropicLines,
                    GoogleLines, CohereLines, MockLines
    <3> QED
      BY <3>1, <3>2
  <2>7. CASE Show(s, <<"content", lines'[s]>>) /\ UNCHANGED at
    <3>1. shown' = [shown EXCEPT ![s] = Append(@, <<"content", lines'[s]>>)]
      BY <2>7 DEF Show
    <3>2. shown'[s] = Append(shown[s], <<"content", lines'[s]>>)
      BY <1>2, <3>1 DEF StreamTyped
    <3>3. Named(shown'[s]) \subseteq {"content", "safety"}
      BY <1>6, <2>3, <2>4, <3>2
    <3>4. Account("stream", shown'[s], judged[s], stored[s], logged[s], request[s].named)
      BY <2>4, <3>3 DEF Account
    <3> QED
      BY <1>7, <2>1, <2>2, <2>3, <2>5, <2>7, <3>1, <3>4
  <2>8. CASE UNCHANGED <<at, shown>>
    BY <1>3, <1>5, <1>7, <2>1, <2>2, <2>5, <2>8
  <2>9. CASE StreamGoes(s, "screen") /\ UNCHANGED shown
    <3>1. Account("screen", shown'[s], judged[s], stored[s], logged[s], request[s].named)
      BY <2>4, <2>9 DEF Account
    <3> QED
      BY <1>5, <1>7, <2>1, <2>2, <2>5, <2>9, <3>1 DEF StreamGoes
  <2>10. CASE StreamGoes(s, "failed") /\ Show(s, <<"error">>)
    BY <1>2, <1>7, <2>1, <2>2, <2>10, FailedIsAccounted DEF StreamGoes, Show, Places
  <2> QED
    BY <2>6, <2>7, <2>8, <2>9, <2>10
<1>11. CASE VendorCloses(s) \/ ClientLeaves(s)
  <2>1. PICK where \in {"screen", "left"} : at' = [at EXCEPT ![s] = where] /\ (where = "screen" => at[s] = "stream")
    BY <1>11 DEF VendorCloses, ClientLeaves, StreamGoes
  <2>2. /\ UNCHANGED <<request, lines, shown, judged, stored, logged>>
        /\ at[s] \in {"stream", "screen", "save", "log"} /\ LetIn(at[s])
    BY <1>11 DEF VendorCloses, ClientLeaves, LetIn
  <2>3. Account(where, shown[s], judged[s], stored[s], logged[s], request[s].named)
    BY <1>3, <2>1, <2>2 DEF Account
  <2>4. where \in Places /\ lines' \in [Streams -> 0..MaxLines]
    BY <1>2, <2>2 DEF Places, StreamTyped
  <2> QED
    BY <1>5, <1>7, <2>1, <2>2, <2>3, <2>4
<1>12. CASE VendorFails(s)
  <2>1. /\ at[s] = "stream" /\ at' = [at EXCEPT ![s] = "failed"]
        /\ shown' = [shown EXCEPT ![s] = Append(@, <<"error">>)]
        /\ UNCHANGED <<request, lines, judged, stored, logged>>
    BY <1>12 DEF VendorFails, StreamGoes, Show
  <2>2. lines' \in [Streams -> 0..MaxLines] /\ "failed" \in Places /\ LetIn(at[s])
    BY <1>2, <2>1 DEF StreamTyped, Places, LetIn
  <2> QED
    BY <1>5, <1>7, <2>1, <2>2, FailedIsAccounted
<1>13. CASE ScreenOutput(s)
  <2> DEFINE where == IF request[s].route = "chat" /\ request[s].named THEN "save" ELSE "log"
  <2>1. /\ at[s] = "screen" /\ at' = [at EXCEPT ![s] = where]
        /\ judged' = [judged EXCEPT ![s] = ContentOf(shown[s])]
        /\ shown' = [shown EXCEPT ![s] = Append(@, <<"safety">>)]
        /\ UNCHANGED <<request, lines, stored, logged>>
    BY <1>13 DEF ScreenOutput, StreamGoes, Show
  <2>2. where \in {"save", "log"} /\ (where = "save" => request[s].named)
    OBVIOUS
  <2> HIDE DEF where
  <2>3. /\ shown'[s] = Append(shown[s], <<"safety">>) /\ judged'[s] = ContentOf(shown[s])
        /\ at'[s] = where /\ OnlyStream(s)
    BY <1>2, <2>1 DEF StreamTyped, OnlyStream
  <2>4. /\ shown'[s] \in Seq(Event) /\ Named(shown'[s]) = Named(shown[s]) \cup {"safety"}
        /\ ContentOf(shown'[s]) = ContentOf(shown[s])
    BY <1>5, <1>6, <2>3
  <2>5. StreamTyped'
    <3>1. shown' \in [Streams -> Seq(Event)] /\ judged' \in [Streams -> Seq(Nat) \cup {None}]
      BY <1>2, <1>4, <2>1, <2>3, <2>4 DEF StreamTyped
    <3>2. at' \in [Streams -> Places]
      BY <1>2, <2>1, <2>2 DEF StreamTyped, Places
    <3> QED
      BY <1>2, <2>1, <3>1, <3>2 DEF StreamTyped
  <2>6. stored'[s] = None /\ ~logged'[s] /\ Named(shown[s]) \subseteq {"content", "safety"}
    BY <1>3, <2>1 DEF Account
  <2>7. Account(at'[s], shown'[s], judged'[s], stored'[s], logged'[s], request[s].named)
    BY <2>2, <2>3, <2>4, <2>6 DEF Account
  <2> QED
    BY <2>1, <2>3, <2>5, <2>7, StreamStepKeeps DEF LetIn
<1>14. CASE Save(s)
  <2>1. /\ at[s] = "save" /\ at' = [at EXCEPT ![s] = "log"]
        /\ stored' \in {stored, [stored EXCEPT ![s] = ContentOf(shown[s])]}
        /\ UNCHANGED <<request, lines, shown, judged, logged>>
    BY <1>14 DEF Save, StreamGoes
  <2>2. /\ judged[s] = ContentOf(shown[s]) /\ stored[s] = None /\ request[s].named /\ ~logged[s]
        /\ Named(shown[s]) \subseteq {"content", "safety"}
    BY <1>3, <2>1 DEF Account
  <2>3. stored'[s] \in {None, judged[s]} /\ at'[s] = "log" /\ OnlyStream(s)
    BY <1>2, <2>1, <2>2 DEF StreamTyped, OnlyStream
  <2>4. StreamTyped'
    <3>1. stored' \in [Streams -> Seq(Nat) \cup {None}]
      BY <1>2, <1>4, <2>1 DEF StreamTyped
    <3>2. at' \in [Streams -> Places]
      BY <1>2, <2>1 DEF StreamTyped, Places
    <3> QED
      BY <1>2, <2>1, <3>1, <3>2 DEF StreamTyped
  <2>5. Account(at'[s], shown'[s], judged'[s], stored'[s], logged'[s], request[s].named)
    BY <2>1, <2>2, <2>3 DEF Account
  <2> QED
    BY <2>1, <2>3, <2>4, <2>5, StreamStepKeeps DEF LetIn
<1>15. CASE Log(s)
  <2>1. /\ at[s] = "log" /\ at' = [at EXCEPT ![s] = "complete"]
        /\ logged' = [logged EXCEPT ![s] = TRUE]
        /\ shown' = [shown EXCEPT ![s] = Append(@, <<"[DONE]">>)]
        /\ UNCHANGED <<request, lines, judged, stored>>
    BY <1>15 DEF Log, StreamGoes, Show
  <2>2. /\ judged[s] = ContentOf(shown[s]) /\ Named(shown[s]) \subseteq {"content", "safety"}
        /\ stored[s] # None => stored[s] = judged[s] /\ request[s].named
    BY <1>3, <2>1 DEF Account
  <2>3. /\ shown'[s] = Append(shown[s], <<"[DONE]">>) /\ logged'[s] = TRUE
        /\ at'[s] = "complete" /\ OnlyStream(s)
    BY <1>2, <2>1 DEF StreamTyped, OnlyStream
  <2>4. /\ shown'[s] \in Seq(Event) /\ Named(shown'[s]) = Named(shown[s]) \cup {"[DONE]"}
        /\ ContentOf(shown'[s]) = ContentOf(shown[s])
    BY <1>5, <1>6, <2>3
  <2>5. StreamTyped'
    <3>1. shown' \in [Streams -> Seq(Event)] /\ logged' \in [Streams -> BOOLEAN]
      BY <1>2, <2>1, <2>3, <2>4 DEF StreamTyped
    <3>2. at' \in [Streams -> Places]
      BY <1>2, <2>1 DEF StreamTyped, Places
    <3> QED
      BY <1>2, <2>1, <3>1, <3>2 DEF StreamTyped
  <2>6. Account(at'[s], shown'[s], judged'[s], stored'[s], logged'[s], request[s].named)
    BY <2>1, <2>2, <2>3, <2>4 DEF Account
  <2> QED
    BY <2>1, <2>3, <2>5, <2>6, StreamStepKeeps DEF LetIn
<1> QED
  BY <1>1, <1>8, <1>9, <1>10, <1>11, <1>12, <1>13, <1>14, <1>15 DEF StreamStep

-----------------------------------------------------------------------------
(* The three components side by side *)

OutboundInv == SdkInv /\ ServiceInv /\ StreamInv

LEMMA OutboundKeeps ==
  ASSUME OutboundInv, [MCNext]_mc_vars
  PROVE  OutboundInv'
<1> USE DEF OutboundInv
<1>1. UNCHANGED calls_vars => SdkInv'
  BY DEF calls_vars, promised, sdk_vars, SdkInv, SdkTypeOK, AttemptsCounted, UnsentIsUnseen,
         AskedForAChat, EarlierUnsettled, Unsettled, VerdictStands, CurrentRequest, Patient
<1>2. UNCHANGED service_vars => ServiceInv'
  BY DEF service_vars, ServiceInv, ServiceTyped, BusyWithAJob, AlarmIsCurrent, ReportsProgress
<1>3. UNCHANGED stream_vars => StreamInv'
  BY DEF stream_vars, StreamInv, StreamTyped, RequestsTyped, StreamsAccounted, RequestsCarried
<1>4. CASE focus = "sdk" /\ SdkNext /\ UNCHANGED <<service_vars, stream_vars>>
  BY <1>2, <1>3, <1>4, SdkKeeps
<1>5. CASE focus = "services" /\ ServiceNext /\ UNCHANGED <<calls_vars, stream_vars>>
  BY <1>1, <1>3, <1>5, ServiceKeeps
<1>6. CASE focus = "streams" /\ StreamNext /\ UNCHANGED <<calls_vars, service_vars>>
  BY <1>1, <1>2, <1>6, StreamKeeps
<1>7. CASE UNCHANGED mc_vars
  BY <1>1, <1>2, <1>3, <1>7 DEF mc_vars
<1> QED
  BY <1>4, <1>5, <1>6, <1>7 DEF MCNext

(* The invariants of the three components hold in every state.             *)
THEOREM Invariance == MCSpec => []OutboundInv
<1>1. MCInit => OutboundInv
  BY SdkBegins, ServiceBegins, StreamBegins DEF MCInit, OutboundInv
<1>2. OutboundInv /\ [MCNext]_mc_vars => OutboundInv'
  BY OutboundKeeps
<1> QED
  BY <1>1, <1>2, PTL DEF MCSpec

(* Attempts, circuits, failure histories, requests and events are of their *)
(* types, whatever the SDK, the callers of services and the vendors do     *)
(* (client.py, circuit_breaker.py, the provider adapters).                 *)
THEOREM Typing == MCSpec => []OutboundTypeOK
<1>1. OutboundInv => OutboundTypeOK
  BY ServiceImplied, StreamImplied DEF OutboundInv, SdkInv, OutboundTypeOK
<1> QED
  BY <1>1, Invariance, PTL

(* However often a call is retried: no attempt follows one whose verdict   *)
(* was received, what is returned is the verdict on the last attempt, a    *)
(* report asks a bounded number of times and a pattern alarm names a       *)
(* client error that is there (_request; generate_report_text,             *)
(* FailureDiagnostics).                                                    *)
THEOREM CallsSettled == MCSpec => []CallsAreSettled
<1>1. OutboundInv => CallsAreSettled
  BY SdkImplied, ServiceImplied DEF OutboundInv, CallsAreSettled
<1> QED
  BY <1>1, Invariance, PTL

(* A stream shows, judges, saves and logs one and the same text, wherever  *)
(* vendor or client give up and however many lines there are; and the      *)
(* prompt that was checked is the one that is sent, for every body, by     *)
(* every adapter (event_generator, normalize_request).                     *)
THEOREM StreamsGuarded == MCSpec => []StreamsAreGuarded
<1>1. OutboundInv => StreamsAreGuarded
  BY StreamImplied DEF OutboundInv, StreamsAreGuarded
<1> QED
  BY <1>1, Invariance, PTL
===============================================================================
