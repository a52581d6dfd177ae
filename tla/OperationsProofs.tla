---------------------------- MODULE OperationsProofs ---------------------------
(***************************************************************************)
(* Proofs about the record keepers, the libraries of model operations and  *)
(* the scripts of operation, for any number of callers and any bounds.     *)
(* Each part has its invariant and its theorem, of the part's own          *)
(* specification, or of the composition where the property is stated       *)
(* there; RecordsKept, ClaimsHeld and WatchersDo put them together.        *)
(***************************************************************************)
EXTENDS MCOperations, SequenceTheorems, FiniteSetTheorems, WellFoundedInduction, TLAPS

LEMMA LeastNatural ==
  ASSUME NEW S \in SUBSET Nat, S # {}
  PROVE  \E m \in S : \A k \in S : m <= k
<1> DEFINE R == OpToRel(<, Nat)
<1>1. IsWellFoundedOn(R, Nat)
  BY NatLessThanWellFounded
<1>2. \A x, y \in Nat : <<y, x>> \in R <=> y < x
  BY DEF OpToRel
<1> HIDE DEF R
<1>3. PICK x \in S : \A y \in S : ~(<<y, x>> \in R)
  BY <1>1, WFMin
<1>4. x \in Nat /\ \A y \in S : y \in Nat
  OBVIOUS
<1>5. \A y \in S : ~(y < x)
  BY <1>2, <1>3, <1>4
<1>6. \A y \in S : x <= y
  BY <1>4, <1>5
<1> QED
  BY <1>6

LEMMA Appended ==
  ASSUME NEW S, NEW s \in Seq(S), NEW e \in S
  PROVE  /\ Append(s, e) \in Seq(S) /\ Len(Append(s, e)) = Len(s) + 1 /\ Append(s, e)[Len(s) + 1] = e
         /\ \A i \in 1..Len(s) : Append(s, e)[i] = s[i]
         /\ DOMAIN Append(s, e) = 1..(Len(s) + 1) /\ DOMAIN s = 1..Len(s) /\ Len(s) \in Nat
OBVIOUS

LEMMA RangeAppended ==
  ASSUME NEW S, NEW s \in Seq(S), NEW e \in S
  PROVE  Range(Append(s, e)) = Range(s) \cup {e}
<1> DEFINE t == Append(s, e)
<1>1. /\ DOMAIN t = 1..(Len(s) + 1) /\ DOMAIN s = 1..Len(s) /\ Len(s) \in Nat /\ t[Len(s) + 1] = e
      /\ \A i \in 1..Len(s) : t[i] = s[i]
  BY Appended
<1> HIDE DEF t
<1>2. \A i \in 1..(Len(s) + 1) : i \in 1..Len(s) \/ i = Len(s) + 1
  BY <1>1
<1>3. \A i \in 1..Len(s) : i \in 1..(Len(s) + 1)
  BY <1>1
<1>4. Len(s) + 1 \in 1..(Len(s) + 1)
  BY <1>1
<1> QED
  BY <1>1, <1>2, <1>3, <1>4 DEF Range, t

LEMMA Prepended ==
  ASSUME NEW S, NEW s \in Seq(S), NEW e \in S
  PROVE  /\ <<e>> \o s \in Seq(S) /\ Len(<<e>> \o s) = Len(s) + 1 /\ (<<e>> \o s)[1] = e
         /\ \A i \in 2..(Len(s) + 1) : (<<e>> \o s)[i] = s[i - 1]
OBVIOUS

-----------------------------------------------------------------------------
(* The parts. *)
AccuracySpec == AccuracyInit /\ [][AccuracyNext]_accuracy_vars
SettingsSpec == SettingsInit /\ [][RunPreflightChecks]_settings
PreflightSpec == PreflightInit /\ [][PreflightNext]_preflight_vars

ReadinessSpec == AccuracySpec /\ SettingsSpec /\ PreflightSpec

LEMMA RecordsBeside ==
  MCSpec => RecordsSpec /\ Soc2Spec /\ JournalsSpec
<1>1. MCInit => RecordsInit /\ Soc2Init /\ JournalsInit
  BY DEF MCInit
<1>2. [MCNext]_mc_vars => [RecordsNext]_record_vars
  BY DEF MCNext, mc_vars
<1>3. [MCNext]_mc_vars => [Soc2Next]_soc2_vars
  BY DEF MCNext, mc_vars
<1>4. [MCNext]_mc_vars => [JournalsNext]_journal_vars
  BY DEF MCNext, mc_vars, JournalMoves, JournalsNext
<1> QED
  BY <1>1, <1>2, <1>3, <1>4, PTL DEF MCSpec, RecordsSpec, Soc2Spec, JournalsSpec

LEMMA ModelsBeside ==
  MCSpec => SnapshotsSpec /\ RoutingSpec /\ MonitoringSpec /\ ExperimentsSpec /\ AssessmentsSpec
<1>1. MCInit => SnapshotsInit /\ RoutingInit /\ MonitoringInit /\ ExperimentsInit /\ AssessmentsInit /\ OpinionsInit
  BY DEF MCInit
<1>2. [MCNext]_mc_vars => [SnapshotsNext]_snapshot_vars
  BY DEF MCNext, mc_vars
<1>3. [MCNext]_mc_vars => [RoutingNext]_routing_vars
  BY DEF MCNext, mc_vars
<1>4. [MCNext]_mc_vars => [MonitoringNext]_monitoring_vars
  BY DEF MCNext, mc_vars, Monitors, MonitorMoves, MonitoringNext
<1>5. [MCNext]_mc_vars => [ExperimentsNext]_experiment_vars
  BY DEF MCNext, mc_vars, Monitors, MonitorMoves
<1>6. [MCNext]_mc_vars =>
        [\/ (SurveyNext \/ TrialNext) /\ UNCHANGED opinion_vars
         \/ (FeedbackNext \/ OverridesNext \/ EscalationNext) /\ UNCHANGED assessment_vars]_<<assessment_vars, opinion_vars>>
  BY DEF MCNext, mc_vars, Opinions, OpinionMoves, AssessmentMoves
<1> QED
  BY <1>1, <1>2, <1>3, <1>4, <1>5, <1>6, PTL
  DEF MCSpec, SnapshotsSpec, RoutingSpec, MonitoringSpec, ExperimentsSpec, AssessmentsSpec

LEMMA ScriptsBeside ==
  MCSpec => DeploymentSpec /\ MaintenanceSpec /\ ReadinessSpec
<1>1. MCInit => DeploymentInit /\ MaintenanceInit /\ AccuracyInit /\ SettingsInit /\ PreflightInit
  BY DEF MCInit
<1>2. [MCNext]_mc_vars => [DeploymentNext]_deployment_vars
  BY DEF MCNext, mc_vars
<1>3. [MCNext]_mc_vars => [MaintenanceNext]_maintenance_vars
  BY DEF MCNext, mc_vars, Chores, ChoreMoves, MaintenanceNext
<1>4. [MCNext]_mc_vars => [AccuracyNext]_accuracy_vars
  BY DEF MCNext, mc_vars, Readiness, CheckMoves, readiness_vars
<1>5. [MCNext]_mc_vars => [RunPreflightChecks]_settings
  BY DEF MCNext, mc_vars, Readiness, CheckMoves, readiness_vars
<1>6. [MCNext]_mc_vars => [PreflightNext]_preflight_vars
  BY DEF MCNext, mc_vars, Readiness, CheckMoves, readiness_vars
<1> QED
  BY <1>1, <1>2, <1>3, <1>4, <1>5, <1>6, PTL
  DEF MCSpec, DeploymentSpec, MaintenanceSpec, ReadinessSpec, AccuracySpec, SettingsSpec, PreflightSpec

-----------------------------------------------------------------------------
(* Registers in files. *)
OneManager == \A m, n \in Created : m = n

NothingRevived ==
  \A r \in Records : truth[r].status = "withdrawn" =>
    Loaded[r].status # "granted" /\ \A m \in Created : Status(m, r) # "granted"

(* some records may be missing; the others are as they were acknowledged *)
NeverMistaken ==
  \A r \in Records :
    /\ Loaded[r] \in {truth[r]} \cup Blank(r)
    /\ \A m \in Created : memory[m][r] \in {truth[r]} \cup Blank(r)

AsAcknowledged ==
  /\ \A m \in Created : memory[m] = truth
  /\ saving = {} => Loaded = truth

RecordsInv ==
  /\ RecordsTypeOK /\ day \in 0..LastDay
  /\ trouble \subseteq {"cut short", "unread"} => OneManager /\ NothingRevived /\ NeverMistaken
  /\ trouble = {} => AsAcknowledged

LEMMA FirstIsFiled ==
  ASSUME NEW reg
  PROVE  NoRecords \in Contents /\ Initial(reg) \in Contents
BY DEF NoRecords, Initial, Contents, Record, Entry, Absent

(* what every change of a record does *)
Changes ==
  \E m \in Managers : \E rs \in SUBSET Records : \E e \in [rs -> Record] : Change(m, rs, e)

LEMMA WithIsFiled ==
  ASSUME RecordsTypeOK, NEW m \in Created, NEW r \in Records,
         NEW status \in {"withdrawn", "detected", "contained", "resolved", "in scope", "out of scope", "implemented", "planned"}
  PROVE  With(m, r, status) \in [{r} -> Record]
<1>1. memory[m] \in Contents
  BY DEF RecordsTypeOK, Created
<1>2. memory[m][r].due \in 0..(LastDay + 7) \cup {None}
  BY <1>1 DEF Contents, Record
<1> QED
  BY <1>2 DEF With, Entry, Record

LEMMA ChangesChange ==
  ASSUME RecordsTypeOK, day \in 0..LastDay, NEW m \in Managers, NEW r \in Records, NEW rs \in SUBSET Records,
         \/ GrantConsent(m, r) \/ WithdrawConsent(m, r) \/ ReportBreach(m, r) \/ UpdateBreach(m, r)
         \/ RegisterCdeSystem(m, r) \/ UpdateControlStatus(m, r) \/ WithdrawAllUserConsent(m, rs)
  PROVE  Changes
<1>1. CASE GrantConsent(m, r)
  <2>1. PICK due \in {day + 1, None} : Change(m, {r}, [s \in {r} |-> Entry("granted", due)])
    BY <1>1 DEF GrantConsent
  <2>2. due \in 0..(LastDay + 7) \cup {None}
    BY <2>1, RecordFilesAssumption
  <2>3. [s \in {r} |-> Entry("granted", due)] \in [{r} -> Record]
    BY <2>2 DEF Entry, Record
  <2> QED
    BY <2>1, <2>3 DEF Changes
<1>2. CASE WithdrawConsent(m, r)
  BY <1>2, WithIsFiled DEF WithdrawConsent, Changes, Created
<1>3. CASE ReportBreach(m, r)
  <2>1. PICK severity \in {"low", "medium", "high", "critical"}, sensitive \in BOOLEAN :
          Change(m, {r}, [s \in {r} |-> Entry("detected", day + NotificationDeadline(severity, sensitive))])
    BY <1>3 DEF ReportBreach
  <2>2. NotificationDeadline(severity, sensitive) \in 1..7
    BY DEF NotificationDeadline
  <2>3. day + NotificationDeadline(severity, sensitive) \in 0..(LastDay + 7)
    BY <2>2, RecordFilesAssumption
  <2>4. [s \in {r} |-> Entry("detected", day + NotificationDeadline(severity, sensitive))] \in [{r} -> Record]
    BY <2>3 DEF Entry, Record
  <2> QED
    BY <2>1, <2>4 DEF Changes
<1>4. CASE UpdateBreach(m, r)
  BY <1>4, WithIsFiled DEF UpdateBreach, Changes, Created
<1>5. CASE RegisterCdeSystem(m, r)
  BY <1>5, WithIsFiled DEF RegisterCdeSystem, Changes, Created
<1>6. CASE UpdateControlStatus(m, r)
  BY <1>6, WithIsFiled DEF UpdateControlStatus, Changes, Created
<1>7. CASE WithdrawAllUserConsent(m, rs)
  <2> DEFINE granted == {s \in rs : Status(m, s) = "granted"}
             e == [s \in granted |-> Entry("withdrawn", memory[m][s].due)]
  <2>1. Change(m, granted, e) /\ memory[m] # None
    BY <1>7 DEF WithdrawAllUserConsent
  <2>2. memory[m] \in Contents
    BY <2>1 DEF RecordsTypeOK
  <2>3. \A s \in granted : memory[m][s].due \in 0..(LastDay + 7) \cup {None}
    BY <2>2 DEF Contents, Record
  <2>4. e \in [granted -> Record]
    BY <2>3 DEF Entry, Record
  <2> QED
    BY <2>1, <2>4 DEF Changes
<1> QED
  BY <1>1, <1>2, <1>3, <1>4, <1>5, <1>6, <1>7

LEMMA ChangeKeepsRecords ==
  ASSUME RecordsInv, NEW m \in Managers, NEW rs \in SUBSET Records, NEW e \in [rs -> Record], Change(m, rs, e)
  PROVE  RecordsInv'
<1> DEFINE contents == [r \in Records |-> IF r \in rs THEN e[r] ELSE memory[m][r]]
<1>0. RecordsTypeOK /\ day \in 0..LastDay /\ memory \in [Managers -> Contents \cup {None}]
  BY DEF RecordsInv, RecordsTypeOK
<1>1. memory[m] # None /\ memory[m] \in Contents
  BY <1>0 DEF Change
<1>2. contents \in Contents /\ contents # None
  BY <1>1, FiledIsThere DEF Contents
<1>3. /\ truth' = [r \in Records |-> IF r \in rs THEN e[r] ELSE truth[r]]
      /\ UNCHANGED <<register, day>> /\ memory' = [memory EXCEPT ![m] = contents]
      /\ \/ saving' = saving \cup {m} /\ file' = None /\ UNCHANGED trouble
         \/ trouble' = trouble \cup {"unsaved"} /\ UNCHANGED <<saving, file>>
  BY DEF Change, Saves
<1>4. truth' \in Contents
  <2>1. truth \in Contents
    BY <1>0 DEF RecordsTypeOK
  <2> QED
    BY <1>3, <2>1 DEF Contents
<1>5. Created' = Created /\ m \in Created
  BY <1>0, <1>1, <1>2, <1>3 DEF Created
<1>6. RecordsTypeOK' /\ (day \in 0..LastDay)'
  BY <1>0, <1>2, <1>3, <1>4, <1>5 DEF RecordsTypeOK
<1> HIDE DEF contents
<1>7. ASSUME trouble' \subseteq {"cut short", "unread"}
      PROVE  OneManager' /\ NothingRevived' /\ NeverMistaken' /\ file' = None /\ m \in saving' /\ trouble' = trouble
  <2>1. file' = None /\ m \in saving' /\ trouble' = trouble
    BY <1>3, <1>7
  <2>2. OneManager /\ NothingRevived /\ NeverMistaken
    BY <2>1, <1>7 DEF RecordsInv
  <2>3. OneManager'
    BY <1>5, <2>2 DEF OneManager
  <2>4. \A n \in Created' : memory'[n] = contents
    BY <1>0, <1>3, <1>5, <2>3 DEF OneManager
  <2>5. ASSUME NEW r \in Records, truth'[r].status = "withdrawn"
        PROVE  contents[r].status # "granted" /\ Loaded'[r].status # "granted"
    <3>1. Loaded' = NoRecords /\ Loaded'[r].status # "granted"
      BY <2>1 DEF Loaded, NoRecords, Entry, Absent
    <3>2. r \notin rs => Status(m, r) # "granted"
      BY <1>3, <1>5, <2>2, <2>5 DEF NothingRevived
    <3> QED
      BY <1>3, <2>5, <3>1, <3>2 DEF contents, Status
  <2>6. NothingRevived'
    BY <2>4, <2>5 DEF NothingRevived, Status
  <2>7. ASSUME NEW r \in Records
        PROVE  contents[r] \in {truth'[r]} \cup Blank(r) /\ Loaded'[r] \in Blank(r)
    <3>1. r \notin rs => memory[m][r] \in {truth[r]} \cup Blank(r)
      BY <1>5, <2>2 DEF NeverMistaken
    <3>2. Loaded' = NoRecords
      BY <2>1 DEF Loaded
    <3> QED
      BY <1>3, <3>1, <3>2 DEF contents, Blank
  <2>8. NeverMistaken'
    <3>1. \A r \in Records : Blank(r)' = Blank(r)
      BY <1>3 DEF Blank, Initial
    <3> QED
      BY <2>4, <2>7, <3>1 DEF NeverMistaken
  <2> QED
    BY <2>1, <2>3, <2>6, <2>8
<1>8. ASSUME trouble' = {}
      PROVE  AsAcknowledged'
  <2>1. OneManager' /\ m \in saving' /\ trouble = {}
    BY <1>7, <1>8
  <2>2. memory[m] = truth
    BY <1>5, <2>1 DEF RecordsInv, AsAcknowledged
  <2>3. contents = truth'
    BY <1>3, <2>2 DEF contents
  <2>4. \A n \in Created' : memory'[n] = contents
    BY <1>0, <1>3, <1>5, <2>1 DEF OneManager
  <2> QED
    BY <2>1, <2>3, <2>4 DEF AsAcknowledged
<1> QED
  BY <1>6, <1>7, <1>8 DEF RecordsInv

LEMMA RecordsStep ==
  RecordsInv /\ [RecordsNext]_record_vars => RecordsInv'
<1> SUFFICES ASSUME RecordsInv, [RecordsNext]_record_vars PROVE RecordsInv'
  OBVIOUS
<1>0. /\ RecordsTypeOK /\ day \in 0..LastDay /\ memory \in [Managers -> Contents \cup {None}]
      /\ truth \in Contents /\ saving \subseteq Created /\ file \in Contents \cup {None}
  BY DEF RecordsInv, RecordsTypeOK
<1>1. ASSUME NEW m \in Managers, CreateManager(m)
      PROVE  RecordsInv'
  <2>1. PICK got \in {Loaded, NoRecords} :
          LET fills == register = "controls" /\ got = NoRecords
              troubled == trouble \cup (IF Created = {} THEN {} ELSE {"beside"})
                                  \cup (IF got = Loaded THEN {} ELSE {"unread"})
          IN  /\ memory' = [memory EXCEPT ![m] = IF fills THEN Initial(register) ELSE got]
              /\ truth' = IF fills /\ truth = NoRecords THEN Initial(register) ELSE truth
              /\ \/ fills /\ saving' = saving \cup {m} /\ file' = None /\ trouble' = troubled
                 \/ fills /\ trouble' = troubled \cup {"unsaved"} /\ UNCHANGED <<saving, file>>
                 \/ ~fills /\ trouble' = troubled /\ UNCHANGED <<saving, file>>
    BY <1>1 DEF CreateManager
  <2> DEFINE fills == register = "controls" /\ got = NoRecords
             holds == IF fills THEN Initial(register) ELSE got
  <2>2. /\ memory' = [memory EXCEPT ![m] = holds] /\ UNCHANGED <<register, day>> /\ memory[m] = None
        /\ truth' = truth \/ (fills /\ truth = NoRecords /\ truth' = Initial(register))
        /\ \/ fills /\ saving' = saving \cup {m} /\ file' = None
           \/ UNCHANGED <<saving, file>>
        /\ fills /\ UNCHANGED <<saving, file>> => "unsaved" \in trouble' \/ m \in saving
        /\ ~fills => UNCHANGED <<saving, file, truth>>
        /\ fills /\ truth = NoRecords => truth' = Initial(register)
        /\ trouble \subseteq trouble' /\ trouble' \subseteq trouble \cup {"beside", "unread", "unsaved"}
        /\ Created # {} => "beside" \in trouble'
        /\ got # Loaded => "unread" \in trouble'
    BY <1>1, <2>1 DEF CreateManager
  <2> HIDE DEF fills, holds
  <2>3. Loaded \in Contents /\ Initial(register) \in Contents /\ NoRecords \in Contents
    BY <1>0, FirstIsFiled DEF Loaded
  <2>4. holds \in Contents /\ holds \in {Loaded, NoRecords, Initial(register)}
    BY <2>1, <2>3 DEF holds
  <2>5. Created' = Created \cup {m} /\ m \notin Created /\ m \notin saving
    BY <1>0, <2>2, <2>4, FiledIsThere DEF Created
  <2>6. RecordsTypeOK' /\ (day \in 0..LastDay)'
    <3>1. file' \in Contents \cup {None} /\ truth' \in Contents
      BY <1>0, <2>2, <2>3
    <3>2. memory' \in [Managers -> Contents \cup {None}]
      BY <1>0, <2>2, <2>4
    <3>3. saving' \subseteq Created'
      BY <1>0, <2>2, <2>5
    <3>4. trouble' \subseteq {"beside", "unsaved", "cut short", "unread"} /\ register' \in Registers
      BY <1>0, <2>2 DEF RecordsTypeOK
    <3> QED
      BY <1>0, <2>2, <3>1, <3>2, <3>3, <3>4 DEF RecordsTypeOK
  <2>7. ASSUME trouble' \subseteq {"cut short", "unread"}
        PROVE  Created = {} /\ OneManager' /\ NothingRevived' /\ NeverMistaken'
    <3>1. Created = {} /\ trouble \subseteq {"cut short", "unread"}
      BY <2>2, <2>7
    <3>2. NothingRevived /\ NeverMistaken
      BY <3>1 DEF RecordsInv
    <3>3. \A n \in Created' : n = m /\ memory'[n] = holds
      BY <1>0, <2>2, <2>5, <3>1
    <3>4. \A r \in Records : NoRecords[r].status = Absent /\ Initial(register)[r].status \in {Absent, "partial"}
      BY DEF NoRecords, Initial, Entry
    <3>5. Loaded' \in {Loaded, NoRecords}
      BY <2>2 DEF Loaded
    <3>6. ASSUME NEW r \in Records
          PROVE  /\ truth'[r].status = "withdrawn" => truth[r].status = "withdrawn"
                 /\ Blank(r)' = Blank(r) /\ NoRecords[r] \in Blank(r) /\ Initial(register)[r] \in Blank(r)
                 /\ truth'[r] = truth[r] \/ truth[r] \in Blank(r)
      BY <2>2, <3>4 DEF Blank, Initial, Absent
    <3>7. ASSUME NEW r \in Records, NEW c \in {Loaded, NoRecords, Initial(register)}
          PROVE  /\ truth'[r].status = "withdrawn" => c[r].status # "granted"
                 /\ c[r] \in {truth'[r]} \cup Blank(r)
      BY <3>2, <3>4, <3>6 DEF NothingRevived, NeverMistaken, Absent
    <3> QED
      BY <2>4, <3>1, <3>3, <3>5, <3>6, <3>7 DEF OneManager, NothingRevived, NeverMistaken, Status
  <2>8. ASSUME trouble' = {}
        PROVE  AsAcknowledged'
    <3>1. Created = {} /\ trouble = {} /\ got = Loaded
      BY <2>2, <2>7, <2>8
    <3>2. saving = {} /\ Loaded = truth
      BY <1>0, <3>1 DEF RecordsInv, AsAcknowledged
    <3>3. \A n \in Created' : n = m
      BY <2>5, <3>1
    <3>4. memory'[m] = truth'
      BY <1>0, <2>2, <3>1, <3>2 DEF holds, fills
    <3>5. saving' = {} => Loaded' = truth'
      BY <2>2, <2>8, <3>2 DEF Loaded
    <3> QED
      BY <3>3, <3>4, <3>5 DEF AsAcknowledged
  <2> QED
    BY <2>6, <2>7, <2>8 DEF RecordsInv
<1>2. ASSUME NEW m \in Managers, Write(m)
      PROVE  RecordsInv'
  <2>1. /\ m \in saving /\ saving' = saving \ {m} /\ UNCHANGED <<register, memory, day, truth, trouble>>
        /\ file' \in {memory[m], None} /\ (saving = {m} => file' = memory[m])
    BY <1>2 DEF Write
  <2>2. Created' = Created /\ m \in Created /\ memory[m] \in Contents
    BY <1>0, <2>1 DEF Created
  <2>3. RecordsTypeOK' /\ (day \in 0..LastDay)'
    BY <1>0, <2>1, <2>2 DEF RecordsTypeOK
  <2>4. ASSUME trouble' \subseteq {"cut short", "unread"}
        PROVE  OneManager' /\ NothingRevived' /\ NeverMistaken'
    <3>1. OneManager /\ NothingRevived /\ NeverMistaken
      BY <2>1, <2>4 DEF RecordsInv
    <3>2. \A r \in Records : NoRecords[r].status = Absent /\ NoRecords[r] \in Blank(r) /\ Blank(r)' = Blank(r)
      BY <2>1 DEF NoRecords, Entry, Blank, Initial
    <3>3. Loaded' \in {memory[m], NoRecords}
      BY <2>1 DEF Loaded
    <3>4. \A r \in Records : /\ truth[r].status = "withdrawn" => memory[m][r].status # "granted"
                             /\ memory[m][r] \in {truth[r]} \cup Blank(r)
      BY <2>2, <3>1 DEF NothingRevived, NeverMistaken, Status
    <3>5. OneManager' /\ NothingRevived'
      BY <2>1, <2>2, <3>1, <3>2, <3>3, <3>4 DEF OneManager, NothingRevived, Status, Absent
    <3>6. NeverMistaken'
      BY <2>1, <2>2, <3>1, <3>2, <3>3, <3>4 DEF NeverMistaken
    <3> QED
      BY <3>5, <3>6
  <2>5. ASSUME trouble' = {}
        PROVE  AsAcknowledged'
    <3>1. OneManager /\ AsAcknowledged
      BY <2>1, <2>5 DEF RecordsInv
    <3>2. saving = {m}
      BY <1>0, <2>1, <2>2, <3>1 DEF OneManager
    <3>3. Loaded' = truth
      BY <2>1, <2>2, <3>1, <3>2, FiledIsThere DEF Loaded, AsAcknowledged
    <3> QED
      BY <2>1, <2>2, <3>1, <3>3 DEF AsAcknowledged
  <2> QED
    BY <2>3, <2>4, <2>5 DEF RecordsInv
<1>3. ASSUME NEW m \in Managers, WriteFails(m)
      PROVE  RecordsInv'
  <2>1. /\ saving' = saving \ {m} /\ trouble' = trouble \cup {"unsaved"}
        /\ UNCHANGED <<register, file, memory, day, truth>> /\ Created' = Created
    BY <1>3 DEF WriteFails, Created
  <2>2. RecordsTypeOK' /\ (day \in 0..LastDay)'
    BY <1>0, <2>1 DEF RecordsTypeOK
  <2> QED
    BY <2>1, <2>2 DEF RecordsInv
<1>4. ASSUME NEW m \in Managers, ManagerEnds(m)
      PROVE  RecordsInv'
  <2>1. /\ memory' = [memory EXCEPT ![m] = None] /\ saving' = saving \ {m}
        /\ trouble' = IF m \in saving THEN trouble \cup {"cut short"} ELSE trouble
        /\ UNCHANGED <<register, file, day, truth>>
    BY <1>4 DEF ManagerEnds
  <2>2. Created' = Created \ {m}
    BY <1>0, <2>1 DEF Created
  <2>3. RecordsTypeOK' /\ (day \in 0..LastDay)'
    BY <1>0, <2>1, <2>2 DEF RecordsTypeOK
  <2>4. \A n \in Created' : n \in Created /\ memory'[n] = memory[n]
    BY <1>0, <2>1, <2>2 DEF Created
  <2>5. ASSUME trouble' \subseteq {"cut short", "unread"}
        PROVE  OneManager' /\ NothingRevived' /\ NeverMistaken'
    <3>1. OneManager /\ NothingRevived /\ NeverMistaken
      BY <2>1, <2>5 DEF RecordsInv
    <3> QED
      BY <2>1, <2>4, <3>1 DEF OneManager, NothingRevived, NeverMistaken, Status, Loaded, Blank, Initial
  <2>6. ASSUME trouble' = {}
        PROVE  AsAcknowledged'
    <3>1. AsAcknowledged /\ saving' = saving
      BY <2>1, <2>6 DEF RecordsInv
    <3> QED
      BY <2>1, <2>4, <3>1 DEF AsAcknowledged, Loaded
  <2> QED
    BY <2>3, <2>5, <2>6 DEF RecordsInv
<1>5. CASE Changes
  BY <1>5, ChangeKeepsRecords DEF Changes
<1>6. CASE DayPasses \/ UNCHANGED record_vars
  <2>1. UNCHANGED <<register, file, memory, saving, truth, trouble>> /\ (day \in 0..LastDay)'
    BY <1>0, <1>6, RecordFilesAssumption DEF DayPasses, record_vars
  <2>2. Created' = Created /\ Loaded' = Loaded
    BY <2>1 DEF Created, Loaded
  <2>3. RecordsTypeOK'
    BY <1>0, <2>1, <2>2 DEF RecordsTypeOK
  <2> QED
    BY <2>1, <2>2, <2>3 DEF RecordsInv, OneManager, NothingRevived, NeverMistaken, AsAcknowledged, Status, Blank, Initial
<1>7. CASE RecordsNext
  <2>1. CASE \E m \in Managers : \E r \in Records :
            \/ GrantConsent(m, r) \/ WithdrawConsent(m, r) \/ ReportBreach(m, r) \/ UpdateBreach(m, r)
            \/ RegisterCdeSystem(m, r) \/ UpdateControlStatus(m, r)
    <3>1. {} \in SUBSET Records
      OBVIOUS
    <3> QED
      BY <1>0, <1>5, <2>1, <3>1, ChangesChange
  <2>2. CASE \E m \in Managers : \E rs \in SUBSET Records : WithdrawAllUserConsent(m, rs)
    <3>1. PICK m \in Managers, rs \in SUBSET Records : WithdrawAllUserConsent(m, rs)
      BY <2>2
    <3>2. PICK r \in rs : TRUE
      BY <3>1 DEF WithdrawAllUserConsent
    <3> QED
      BY <1>0, <1>5, <3>1, <3>2, ChangesChange
  <2> QED
    BY <1>1, <1>2, <1>3, <1>4, <1>6, <1>7, <2>1, <2>2 DEF RecordsNext
<1> QED
  BY <1>6, <1>7

(* What was recorded in a file, of RecordedIsKept. *)
THEOREM FiledIsKept ==
  RecordsSpec => [](WithdrawnStaysWithdrawn /\ RecordsSurvive)
<1>1. RecordsInit => RecordsInv
  <2> SUFFICES ASSUME RecordsInit PROVE RecordsInv
    OBVIOUS
  <2>1. Created = {} /\ Loaded = truth /\ \A r \in Records : truth[r].status = Absent
    BY FirstIsFiled, FiledIsThere DEF RecordsInit, Created, Loaded, NoRecords, Entry
  <2>2. RecordsTypeOK /\ day \in 0..LastDay
    BY <2>1, FirstIsFiled, RecordFilesAssumption DEF RecordsInit, RecordsTypeOK
  <2> QED
    BY <2>1, <2>2 DEF RecordsInv, OneManager, NothingRevived, NeverMistaken, AsAcknowledged, Absent
<1>2. RecordsInv => WithdrawnStaysWithdrawn /\ RecordsSurvive
  BY DEF RecordsInv, WithdrawnStaysWithdrawn, RecordsSurvive, NothingRevived, NeverMistaken, AsAcknowledged, CheckConsent
<1> QED
  BY <1>1, <1>2, RecordsStep, PTL DEF RecordsSpec

-----------------------------------------------------------------------------
(* The SOC 2 registers. *)
Made == {e \in Entries : entry[e].step # "none"}
Untrimmed == {e \in Entries : entry[e].step \in {"trimming", "untrimmed"}}
SecondsDiffer == \A d, e \in Made : d # e => entry[d].at # entry[e].at
Statuses == Updates[kind] \cup {Fresh[kind]}

Soc2Typed ==
  /\ kind \in DOMAIN Fresh /\ second \in 0..LastSecond
  /\ listed \in Seq(Entries) /\ stored \in Seq(Entries) /\ pushed \in Seq(Entries)
  /\ entry \in [Entries -> [id : 0..LastSecond \cup {None}, at : 0..LastSecond \cup {None}, status : Statuses \cup {None},
                            step : {"none", "pushing", "trimming", "done", "unpushed", "untrimmed"}]]
  /\ meant \in [Entries -> Statuses \cup {None}]

ListOfMade ==
  /\ Range(listed) = Made \ forgotten /\ forgotten \subseteq Made
  /\ \A e \in Made : entry[e].id = entry[e].at /\ entry[e].status # None /\ meant[e] # None
  /\ \A e \in Entries \ Made : entry[e].status = None /\ meant[e] = None

(* the Redis list is what was pushed last, newest first *)
NewestFirst ==
  /\ Len(stored) <= Len(pushed)
  /\ Len(stored) >= ListLimit \/ Len(stored) = Len(pushed)
  /\ \A i \in 1..Len(stored) : stored[i] = pushed[Len(pushed) + 1 - i]

Soc2Inv ==
  /\ Soc2Typed /\ ListOfMade
  /\ SecondsDiffer => \A e \in Range(listed) : entry[e].status = meant[e]
  /\ NewestFirst
  /\ IsFiniteSet(Untrimmed) /\ Len(stored) <= ListLimit + Cardinality(Untrimmed)

LEMMA Soc2Begins ==
  Soc2Init => Soc2Inv
<1> SUFFICES ASSUME Soc2Init PROVE Soc2Inv
  OBVIOUS
<1>1. Made = {} /\ Untrimmed = {} /\ Range(listed) = {}
  BY DEF Soc2Init, Made, Untrimmed, Range
<1>2. Soc2Typed
  BY Soc2Assumption DEF Soc2Init, Soc2Typed
<1>3. ListOfMade
  BY <1>1 DEF Soc2Init, ListOfMade
<1>4. NewestFirst
  BY Soc2Assumption DEF Soc2Init, NewestFirst
<1>5. IsFiniteSet(Untrimmed) /\ Len(stored) <= ListLimit + Cardinality(Untrimmed)
  BY <1>1, FS_EmptySet, Soc2Assumption DEF Soc2Init
<1> QED
  BY <1>1, <1>2, <1>3, <1>4, <1>5 DEF Soc2Inv

LEMMA MakeEntryStep ==
  ASSUME Soc2Inv, NEW e \in Entries, MakeEntry(e)
  PROVE  Soc2Inv'
<1>0. Soc2Typed /\ ListOfMade /\ NewestFirst
  BY DEF Soc2Inv
<1>1. PICK step \in {"pushing", "done"} :
        entry' = [entry EXCEPT ![e] = [id |-> second, at |-> second, status |-> Fresh[kind], step |-> step]]
  BY DEF MakeEntry, IdOf
<1>2. /\ entry[e].step = "none" /\ meant' = [meant EXCEPT ![e] = Fresh[kind]] /\ listed' = Append(listed, e)
      /\ UNCHANGED <<kind, second, stored, pushed, forgotten>>
  BY DEF MakeEntry
<1>3. Made' = Made \cup {e} /\ Untrimmed' = Untrimmed /\ e \notin Made
  BY <1>0, <1>1, <1>2 DEF Made, Untrimmed, Soc2Typed
<1>4. Range(listed') = Range(listed) \cup {e}
  BY <1>0, <1>2, RangeAppended DEF Soc2Typed
<1>5. Soc2Typed'
  <2>1. listed' \in Seq(Entries)
    BY <1>0, <1>2, Appended DEF Soc2Typed
  <2> QED
    BY <1>0, <1>1, <1>2, <2>1 DEF Soc2Typed, Statuses
<1>6. \A d \in Entries : d # e => entry'[d] = entry[d] /\ meant'[d] = meant[d]
  BY <1>0, <1>1, <1>2 DEF Soc2Typed
<1>7. /\ entry'[e].status = Fresh[kind] /\ meant'[e] = Fresh[kind] /\ entry'[e].id = entry'[e].at
      /\ Fresh[kind] # None
  BY <1>0, <1>1, <1>2, StatusAssumption DEF Soc2Typed
<1>8. Made \subseteq Entries
  BY DEF Made
<1>9. ListOfMade'
  BY <1>0, <1>2, <1>3, <1>4, <1>6, <1>7, <1>8 DEF ListOfMade
<1>10. SecondsDiffer' => \A d \in Range(listed') : entry'[d].status = meant'[d]
  <2> SUFFICES ASSUME SecondsDiffer' PROVE \A d \in Range(listed') : entry'[d].status = meant'[d]
    OBVIOUS
  <2>1. SecondsDiffer
    BY <1>3, <1>6, <1>8 DEF SecondsDiffer
  <2>2. Range(listed) \subseteq Entries
    BY <1>0, <1>8 DEF ListOfMade
  <2> QED
    BY <1>4, <1>6, <1>7, <2>1, <2>2 DEF Soc2Inv
<1> QED
  BY <1>0, <1>2, <1>3, <1>5, <1>9, <1>10 DEF Soc2Inv, NewestFirst

LEMMA PushStep ==
  ASSUME Soc2Inv, NEW e \in Entries, Push(e)
  PROVE  Soc2Inv'
<1>0. Soc2Typed /\ ListOfMade /\ NewestFirst
  BY DEF Soc2Inv
<1>1. /\ entry[e].step = "pushing" /\ entry' = [entry EXCEPT ![e].step = "trimming"]
      /\ stored' = <<e>> \o stored /\ pushed' = Append(pushed, e) /\ UNCHANGED <<kind, second, listed, meant, forgotten>>
  BY DEF Push
<1>2. Made' = Made /\ Untrimmed' = Untrimmed \cup {e} /\ e \notin Untrimmed
  BY <1>0, <1>1 DEF Made, Untrimmed, Soc2Typed
<1>3. \A d \in Entries : /\ entry'[d].id = entry[d].id /\ entry'[d].at = entry[d].at
                         /\ entry'[d].status = entry[d].status
  BY <1>0, <1>1 DEF Soc2Typed
<1>4. /\ stored' \in Seq(Entries) /\ Len(stored') = Len(stored) + 1 /\ stored'[1] = e
      /\ \A i \in 2..(Len(stored) + 1) : stored'[i] = stored[i - 1]
  BY <1>0, <1>1, Prepended DEF Soc2Typed
<1>5. /\ pushed' \in Seq(Entries) /\ Len(pushed') = Len(pushed) + 1 /\ pushed'[Len(pushed) + 1] = e
      /\ \A i \in 1..Len(pushed) : pushed'[i] = pushed[i]
  BY <1>0, <1>1, Appended DEF Soc2Typed
<1>6. Len(stored) \in Nat /\ Len(pushed) \in Nat
  BY <1>0 DEF Soc2Typed
<1>7. NewestFirst'
  <2>1. ASSUME NEW i \in 1..Len(stored')
        PROVE  stored'[i] = pushed'[Len(pushed') + 1 - i]
    <3>1. CASE i = 1
      BY <1>4, <1>5, <1>6, <3>1
    <3>2. CASE i # 1
      <4>1. i - 1 \in 1..Len(stored) /\ i \in 2..(Len(stored) + 1)
        BY <1>4, <1>6, <3>2
      <4>2. stored[i - 1] = pushed[Len(pushed) + 1 - (i - 1)]
        BY <1>0, <4>1 DEF NewestFirst
      <4>3. Len(pushed) + 1 - (i - 1) \in 1..Len(pushed) /\ Len(pushed') + 1 - i = Len(pushed) + 1 - (i - 1)
        BY <1>0, <1>5, <1>6, <4>1 DEF NewestFirst
      <4> QED
        BY <1>4, <1>5, <4>1, <4>2, <4>3
    <3> QED
      BY <3>1, <3>2
  <2>2. Len(stored') <= Len(pushed') /\ (Len(stored') >= ListLimit \/ Len(stored') = Len(pushed'))
    BY <1>0, <1>4, <1>5, <1>6, Soc2Assumption DEF NewestFirst
  <2> QED
    BY <2>1, <2>2 DEF NewestFirst
<1>8. IsFiniteSet(Untrimmed') /\ Len(stored') <= ListLimit + Cardinality(Untrimmed')
  <2>1. IsFiniteSet(Untrimmed) /\ Cardinality(Untrimmed) \in Nat
    BY FS_CardinalityType DEF Soc2Inv
  <2>2. IsFiniteSet(Untrimmed') /\ Cardinality(Untrimmed') = Cardinality(Untrimmed) + 1
    BY <1>2, <2>1, FS_AddElement
  <2> QED
    BY <1>4, <1>6, <2>1, <2>2, Soc2Assumption DEF Soc2Inv
<1>9. Soc2Typed'
  <2>1. Statuses' = Statuses
    BY <1>1 DEF Statuses
  <2>2. entry' \in [Entries -> [id : 0..LastSecond \cup {None}, at : 0..LastSecond \cup {None},
                     status : Statuses \cup {None},
                     step : {"none", "pushing", "trimming", "done", "unpushed", "untrimmed"}]]
    BY <1>0, <1>1 DEF Soc2Typed
  <2> QED
    BY <1>0, <1>1, <1>4, <1>5, <2>1, <2>2 DEF Soc2Typed
<1>10. ListOfMade'
  BY <1>0, <1>1, <1>2, <1>3 DEF ListOfMade, Made
<1>11. Range(listed) \subseteq Entries
  BY <1>0 DEF ListOfMade, Made
<1>12. SecondsDiffer' => \A d \in Range(listed') : entry'[d].status = meant'[d]
  BY <1>1, <1>2, <1>3, <1>11 DEF Soc2Inv, SecondsDiffer, Made
<1> QED
  BY <1>7, <1>8, <1>9, <1>10, <1>12 DEF Soc2Inv

LEMMA TrimStep ==
  ASSUME Soc2Inv, NEW e \in Entries, Trim(e) \/ RedisFails(e)
  PROVE  Soc2Inv'
<1>0. Soc2Typed /\ ListOfMade /\ NewestFirst
  BY DEF Soc2Inv
<1>1. PICK step \in {"done", "unpushed", "untrimmed"} : entry' = [entry EXCEPT ![e].step = step]
  BY DEF Trim, RedisFails
<1>2. /\ entry[e].step \in {"pushing", "trimming"} /\ UNCHANGED <<kind, second, listed, meant, pushed, forgotten>>
      /\ \/ Trim(e) /\ Untrimmed' = Untrimmed \ {e}
         \/ stored' = stored /\ Untrimmed' = Untrimmed
  <2>1. CASE Trim(e)
    BY <1>0, <2>1 DEF Trim, Untrimmed, Soc2Typed
  <2>2. CASE RedisFails(e)
    BY <1>0, <2>2 DEF RedisFails, Untrimmed, Soc2Typed
  <2> QED
    BY <2>1, <2>2
<1>3. Made' = Made
  BY <1>0, <1>1, <1>2 DEF Made, Soc2Typed
<1>4. \A d \in Entries : /\ entry'[d].id = entry[d].id /\ entry'[d].at = entry[d].at
                         /\ entry'[d].status = entry[d].status
  BY <1>0, <1>1 DEF Soc2Typed
<1>5. Len(stored) \in Nat /\ Len(pushed) \in Nat /\ ListLimit \in Nat \ {0}
  BY <1>0, Soc2Assumption DEF Soc2Typed
<1>6. /\ stored' \in Seq(Entries) /\ Len(stored') <= Len(stored)
      /\ \A i \in 1..Len(stored') : stored'[i] = stored[i]
      /\ stored' = stored \/ Len(stored') = ListLimit
      /\ Trim(e) => Len(stored') <= ListLimit
  <2>1. CASE stored' = stored /\ (Trim(e) => Len(stored) <= ListLimit)
    BY <1>0, <1>5, <2>1 DEF Soc2Typed
  <2>2. CASE stored' = SubSeq(stored, 1, ListLimit) /\ Len(stored) > ListLimit
    BY <1>0, <1>5, <2>2 DEF Soc2Typed
  <2>3. Trim(e) => stored' = IF Len(stored) <= ListLimit THEN stored ELSE SubSeq(stored, 1, ListLimit)
    BY DEF Trim, Trimmed
  <2>4. ~(Len(stored) <= ListLimit) => Len(stored) > ListLimit
    BY <1>5
  <2>5. RedisFails(e) => stored' = stored /\ ~Trim(e)
    BY <1>0 DEF RedisFails, Trim, Soc2Typed
  <2> QED
    BY <2>1, <2>2, <2>3, <2>4, <2>5
<1>7. NewestFirst'
  <2>1. Len(stored') \in Nat
    BY <1>6
  <2>2. \A i \in 1..Len(stored') : i \in 1..Len(stored)
    BY <1>5, <1>6, <2>1
  <2>3. Len(stored') <= Len(pushed') /\ (Len(stored') >= ListLimit \/ Len(stored') = Len(pushed'))
    BY <1>0, <1>2, <1>5, <1>6, <2>1 DEF NewestFirst
  <2> QED
    BY <1>0, <1>2, <1>6, <2>2, <2>3 DEF NewestFirst
<1>8. IsFiniteSet(Untrimmed') /\ Len(stored') <= ListLimit + Cardinality(Untrimmed')
  <2>1. IsFiniteSet(Untrimmed')
    BY <1>2, FS_RemoveElement DEF Soc2Inv
  <2>2. Cardinality(Untrimmed') \in Nat
    BY <2>1, FS_CardinalityType
  <2>3. Len(stored') \in Nat
    BY <1>6
  <2>4. CASE Trim(e)
    BY <1>5, <1>6, <2>1, <2>2, <2>3, <2>4
  <2>5. CASE stored' = stored /\ Untrimmed' = Untrimmed
    BY <2>1, <2>5 DEF Soc2Inv
  <2> QED
    BY <1>2, <2>4, <2>5
<1>9. Soc2Typed'
  <2> DEFINE Item == [id : 0..LastSecond \cup {None}, at : 0..LastSecond \cup {None}, status : Statuses \cup {None},
                      step : {"none", "pushing", "trimming", "done", "unpushed", "untrimmed"}]
  <2>1. entry \in [Entries -> Item]
    BY <1>0 DEF Soc2Typed
  <2>2. [entry[e] EXCEPT !.step = step] \in Item
    BY <2>1
  <2>3. entry' = [entry EXCEPT ![e] = [entry[e] EXCEPT !.step = step]]
    BY <1>1
  <2> HIDE DEF Item
  <2>4. entry' \in [Entries -> Item]
    BY <2>1, <2>2, <2>3
  <2>5. stored' \in Seq(Entries) /\ UNCHANGED <<kind, second, listed, meant, pushed, forgotten>>
    BY <1>2, <1>6
  <2>6. /\ kind \in DOMAIN Fresh /\ second \in 0..LastSecond /\ listed \in Seq(Entries) /\ pushed \in Seq(Entries)
        /\ meant \in [Entries -> Statuses \cup {None}]
    BY <1>0 DEF Soc2Typed
  <2>7. Fresh' = Fresh /\ Statuses' = Statuses
    BY <2>5 DEF Fresh, Statuses
  <2>8. /\ kind' \in DOMAIN Fresh' /\ second' \in 0..LastSecond
        /\ listed' \in Seq(Entries) /\ stored' \in Seq(Entries) /\ pushed' \in Seq(Entries)
    BY <2>5, <2>6, <2>7
  <2>9. meant' \in [Entries -> Statuses' \cup {None}]
    BY <2>5, <2>6, <2>7
  <2> USE DEF Item
  <2> QED
    BY <2>4, <2>7, <2>8, <2>9 DEF Soc2Typed
<1>10. ListOfMade'
  BY <1>0, <1>2, <1>3, <1>4 DEF ListOfMade, Made
<1>11. Range(listed) \subseteq Entries
  BY <1>0 DEF ListOfMade, Made
<1>12. SecondsDiffer' => \A d \in Range(listed') : entry'[d].status = meant'[d]
  BY <1>2, <1>3, <1>4, <1>11 DEF Soc2Inv, SecondsDiffer, Made
<1> QED
  BY <1>7, <1>8, <1>9, <1>10, <1>12 DEF Soc2Inv

LEMMA UpdateEntryStep ==
  ASSUME Soc2Inv, NEW e \in Entries, UpdateEntry(e)
  PROVE  Soc2Inv'
<1>0. Soc2Typed /\ ListOfMade /\ NewestFirst
  BY DEF Soc2Inv
<1>1. PICK status \in Updates[kind] :
        /\ meant' = [meant EXCEPT ![e] = status]
        /\ IF Same(e) = {} THEN UNCHANGED entry
           ELSE LET first == CHOOSE i \in Same(e) : \A j \in Same(e) : i <= j
                IN  entry' = [entry EXCEPT ![listed[first]].status = status]
  BY DEF UpdateEntry
<1>2. e \in Made /\ UNCHANGED <<kind, second, listed, stored, pushed, forgotten>>
  BY DEF UpdateEntry, Made
<1>3. Range(listed) \subseteq Entries /\ Made \subseteq Entries
  BY <1>0 DEF ListOfMade, Made
<1>4. status # None /\ status \in Statuses /\ Statuses' = Statuses
  BY <1>0, <1>2, StatusAssumption DEF Statuses, Soc2Typed
<1>5. /\ meant'[e] = status /\ \A c \in Entries \ {e} : meant'[c] = meant[c]
      /\ meant' \in [Entries -> Statuses \cup {None}]
  BY <1>0, <1>1, <1>4 DEF Soc2Typed
<1>6. CASE Same(e) = {}
  <2>1. entry' = entry /\ e \notin Range(listed)
    BY <1>1, <1>6 DEF Same, Range
  <2>2. Made' = Made /\ Untrimmed' = Untrimmed /\ SecondsDiffer' = SecondsDiffer
    BY <2>1 DEF Made, Untrimmed, SecondsDiffer
  <2>3. Soc2Typed'
    BY <1>0, <1>2, <1>4, <1>5, <2>1 DEF Soc2Typed
  <2>4. ListOfMade'
    BY <1>0, <1>2, <1>3, <1>4, <1>5, <2>1, <2>2 DEF ListOfMade
  <2>5. NewestFirst'
    BY <1>0, <1>2 DEF NewestFirst
  <2> QED
    BY <1>2, <1>3, <1>5, <2>1, <2>2, <2>3, <2>4, <2>5 DEF Soc2Inv
<1>7. CASE Same(e) # {}
  <2> DEFINE first == CHOOSE j \in Same(e) : \A k \in Same(e) : j <= k
  <2>1. first \in Same(e)
    <3>1. Same(e) \subseteq Nat
      BY <1>0 DEF Same, Soc2Typed
    <3> QED
      BY <1>7, <3>1, LeastNatural
  <2>2. entry' = [entry EXCEPT ![listed[first]].status = status]
    BY <1>1, <1>7
  <2> HIDE DEF first
  <2>3. first \in DOMAIN listed /\ entry[listed[first]].id = entry[e].id
    BY <2>1 DEF Same
  <2> DEFINE d == listed[first]
  <2>4. d \in Entries /\ d \in Range(listed) /\ d \in Made
    BY <1>0, <1>3, <2>3 DEF ListOfMade, Range
  <2> HIDE DEF d
  <2>5. entry' = [entry EXCEPT ![d].status = status]
    BY <2>2 DEF d
  <2>6. entry[d].at = entry[e].at
    BY <1>0, <1>2, <2>3, <2>4 DEF ListOfMade, d
  <2>7. /\ \A c \in Entries : entry'[c].id = entry[c].id /\ entry'[c].at = entry[c].at /\ entry'[c].step = entry[c].step
        /\ \A c \in Entries \ {d} : entry'[c].status = entry[c].status
        /\ entry'[d].status = status
    BY <1>0, <2>4, <2>5 DEF Soc2Typed
  <2>8. Made' = Made /\ Untrimmed' = Untrimmed
    BY <2>7 DEF Made, Untrimmed
  <2>9. Soc2Typed'
    <3>1. entry' \in [Entries -> [id : 0..LastSecond \cup {None}, at : 0..LastSecond \cup {None},
                       status : Statuses \cup {None},
                       step : {"none", "pushing", "trimming", "done", "unpushed", "untrimmed"}]]
      BY <1>0, <1>4, <2>5 DEF Soc2Typed
    <3> QED
      BY <1>0, <1>2, <1>4, <1>5, <3>1 DEF Soc2Typed
  <2>10. ListOfMade'
    <3>1. Range(listed') = Made' \ forgotten' /\ forgotten' \subseteq Made'
      BY <1>0, <1>2, <2>8 DEF ListOfMade
    <3>2. ASSUME NEW c \in Made' PROVE entry'[c].id = entry'[c].at /\ entry'[c].status # None /\ meant'[c] # None
      <4>1. c \in Made /\ c \in Entries
        BY <2>8 DEF Made
      <4> QED
        BY <1>0, <1>4, <1>5, <2>7, <4>1 DEF ListOfMade
    <3>3. ASSUME NEW c \in Entries \ Made' PROVE entry'[c].status = None /\ meant'[c] = None
      BY <1>0, <1>2, <1>5, <2>4, <2>7, <2>8 DEF ListOfMade
    <3> QED
      BY <3>1, <3>2, <3>3 DEF ListOfMade
  <2>11. SecondsDiffer' => \A c \in Range(listed') : entry'[c].status = meant'[c]
    <3> SUFFICES ASSUME SecondsDiffer' PROVE \A c \in Range(listed') : entry'[c].status = meant'[c]
      OBVIOUS
    <3>1. SecondsDiffer
      BY <1>3, <2>7, <2>8 DEF SecondsDiffer
    <3>2. d = e
      BY <1>2, <2>4, <2>6, <3>1 DEF SecondsDiffer
    <3> QED
      BY <1>2, <1>3, <1>5, <2>7, <3>1, <3>2 DEF Soc2Inv
  <2> QED
    BY <1>0, <1>2, <2>8, <2>9, <2>10, <2>11 DEF Soc2Inv, NewestFirst
<1> QED
  BY <1>6, <1>7

LEMMA ProcessEndsStep ==
  ASSUME Soc2Inv, ProcessEnds
  PROVE  Soc2Inv'
<1>0. Soc2Typed /\ ListOfMade /\ NewestFirst
  BY DEF Soc2Inv
<1>1. /\ listed' = <<>> /\ forgotten' = forgotten \cup Range(listed) /\ UNCHANGED <<kind, second, stored, meant, pushed>>
      /\ entry' = [e \in Entries |->
           [entry[e] EXCEPT !.step = CASE @ = "pushing" -> "unpushed" [] @ = "trimming" -> "untrimmed" [] OTHER -> @]]
  BY DEF ProcessEnds
<1>2. \A e \in Entries : /\ entry'[e].id = entry[e].id /\ entry'[e].at = entry[e].at
                         /\ entry'[e].status = entry[e].status
                         /\ entry'[e].step = "none" <=> entry[e].step = "none"
                         /\ entry'[e].step \in {"trimming", "untrimmed"} <=> entry[e].step \in {"trimming", "untrimmed"}
  BY <1>0, <1>1 DEF Soc2Typed
<1>3. Made' = Made /\ Untrimmed' = Untrimmed
  BY <1>2 DEF Made, Untrimmed
<1>4. Range(listed') = {}
  BY <1>1 DEF Range
<1>5. Soc2Typed'
  <2>1. entry' \in [Entries -> [id : 0..LastSecond \cup {None}, at : 0..LastSecond \cup {None},
                     status : Statuses \cup {None},
                     step : {"none", "pushing", "trimming", "done", "unpushed", "untrimmed"}]]
    BY <1>0, <1>1 DEF Soc2Typed
  <2> QED
    BY <1>0, <1>1, <2>1 DEF Soc2Typed, Statuses
<1>6. ListOfMade'
  <2>1. forgotten' = Made
    BY <1>0, <1>1 DEF ListOfMade
  <2>2. Made \subseteq Entries
    BY DEF Made
  <2> QED
    BY <1>0, <1>1, <1>2, <1>3, <1>4, <2>1, <2>2 DEF ListOfMade
<1> QED
  BY <1>0, <1>1, <1>3, <1>4, <1>5, <1>6 DEF Soc2Inv, NewestFirst

LEMMA Soc2Step ==
  Soc2Inv /\ [Soc2Next]_soc2_vars => Soc2Inv'
<1> SUFFICES ASSUME Soc2Inv, [Soc2Next]_soc2_vars PROVE Soc2Inv'
  OBVIOUS
<1>1. CASE SecondGoesBy \/ UNCHANGED soc2_vars
  <2>1. UNCHANGED <<kind, listed, entry, stored, meant, pushed, forgotten>> /\ second' \in 0..LastSecond
    BY <1>1, Soc2Assumption DEF SecondGoesBy, soc2_vars, Soc2Inv, Soc2Typed
  <2>2. Made' = Made /\ Untrimmed' = Untrimmed /\ SecondsDiffer' = SecondsDiffer
    BY <2>1 DEF Made, Untrimmed, SecondsDiffer
  <2>3. Soc2Typed' /\ ListOfMade' /\ NewestFirst'
    BY <2>1, <2>2 DEF Soc2Inv, Soc2Typed, Statuses, ListOfMade, NewestFirst
  <2> QED
    BY <2>1, <2>2, <2>3 DEF Soc2Inv
<1> QED
  BY <1>1, MakeEntryStep, PushStep, TrimStep, UpdateEntryStep, ProcessEndsStep DEF Soc2Next

LEMMA Soc2Kept ==
  Soc2Inv => UpdatesReachTheirRecord /\ RedisKeepsTheNewest
<1> SUFFICES ASSUME Soc2Inv PROVE UpdatesReachTheirRecord /\ RedisKeepsTheNewest
  OBVIOUS
<1>0. Soc2Typed /\ ListOfMade /\ NewestFirst
  BY DEF Soc2Inv
<1>1. UpdatesReachTheirRecord
  <2>1. Made = Range(listed) \cup forgotten
    BY <1>0 DEF ListOfMade
  <2> SUFFICES ASSUME SecondsDiffer
               PROVE  /\ \A e \in Range(listed) : entry[e].status = meant[e]
                      /\ OpenIncidents = {e \in Entries \ forgotten : meant[e] \notin {"resolved", None}}
    BY <2>1 DEF UpdatesReachTheirRecord, SecondsDiffer
  <2>2. \A e \in Range(listed) : entry[e].status = meant[e]
    BY DEF Soc2Inv
  <2>3. \A e \in Entries : entry[e].status # "closed" \/ None = "closed"
    <3>1. kind \in {"review", "incident", "change", "vendor"}
      BY <1>0 DEF Soc2Typed, Fresh
    <3>2. "closed" \notin Statuses
      BY <3>1 DEF Statuses, Updates, Fresh
    <3> QED
      BY <1>0, <3>2 DEF Soc2Typed
  <2>4. \A e \in Made : e \in Entries /\ entry[e].status # None
    BY <1>0 DEF ListOfMade, Made
  <2>5. \A e \in Entries \ Made : meant[e] = None
    BY <1>0 DEF ListOfMade
  <2>6. Range(listed) = Made \ forgotten
    BY <1>0 DEF ListOfMade
  <2> QED
    BY <2>2, <2>3, <2>4, <2>5, <2>6 DEF OpenIncidents
<1>2. ASSUME NEW i \in DOMAIN pushed, i + ListLimit > Len(pushed)
      PROVE  pushed[i] \in Range(stored)
  <2>1. i \in 1..Len(pushed) /\ Len(pushed) \in Nat /\ Len(stored) \in Nat /\ DOMAIN stored = 1..Len(stored)
    BY <1>0 DEF Soc2Typed
  <2>2. Len(pushed) + 1 - i \in 1..Len(stored)
    BY <1>0, <1>2, <2>1, Soc2Assumption DEF NewestFirst
  <2>3. stored[Len(pushed) + 1 - i] = pushed[Len(pushed) + 1 - (Len(pushed) + 1 - i)]
    BY <1>0, <2>2 DEF NewestFirst
  <2>4. Len(pushed) + 1 - (Len(pushed) + 1 - i) = i
    BY <2>1
  <2> QED
    BY <2>1, <2>2, <2>3, <2>4 DEF Range
<1>3. Len(stored) <= ListLimit + Cardinality({e \in Entries : entry[e].step \in {"trimming", "untrimmed"}})
  BY DEF Soc2Inv, Untrimmed
<1> QED
  BY <1>1, <1>2, <1>3 DEF RedisKeepsTheNewest

(* What the SOC 2 registers hold, of RecordedIsKept. *)
THEOREM ListsAreKept ==
  Soc2Spec => [](UpdatesReachTheirRecord /\ RedisKeepsTheNewest)
BY Soc2Begins, Soc2Step, Soc2Kept, PTL DEF Soc2Spec

-----------------------------------------------------------------------------
(* Snapshots of training data. *)
Versioned == [id : VersionIds, parent : VersionIds \cup {None}]
Steps == {"idle", "open", "write", "empty manifest", "write manifest"}

Loadable(v) == files[v] = "whole" \/ v \in twice
EachOnce(versions) == \A i, j \in DOMAIN versions : versions[i].id[2] = versions[j].id[2] => i = j
Readable(versions) == \A i \in DOMAIN versions : Loadable(versions[i].id)
NotAmong(v, versions) == \A i \in DOMAIN versions : versions[i].id[2] # v[2]

Makers == [step : Steps, data : Datasets \cup {None}, id : VersionIds \cup {None},
           read : Seq(Versioned), current : VersionIds \cup {None}]

SnapshotsTyped ==
  /\ second_now \in 0..LastStampOfData
  /\ manifest = "torn" \/ manifest \in Seq(Versioned)
  /\ files \in [VersionIds -> {None, "torn", "whole"}]
  /\ maker \in [Processes -> Makers]
  /\ twice \subseteq VersionIds

(* what a process has read it may write back, with its own version at the end *)
MakerOK(m) ==
  /\ EachOnce(m.read) /\ Readable(m.read)
  /\ m.step # "idle" => m.id \in VersionIds /\ NotAmong(m.id, m.read)
  /\ m.step \in {"empty manifest", "write manifest"} => Loadable(m.id)

SnapshotsInv ==
  /\ SnapshotsTyped
  /\ manifest # "torn" => EachOnce(manifest) /\ Readable(manifest)
  /\ \A p \in Processes : MakerOK(maker[p])

LEMMA SnapshotsBegin ==
  SnapshotsInit => SnapshotsInv
<1> SUFFICES ASSUME SnapshotsInit PROVE SnapshotsInv
  OBVIOUS
<1>1. <<>> \in Seq(Versioned) /\ DOMAIN <<>> = {}
  OBVIOUS
<1>2. SnapshotsTyped
  <2>1. maker \in [Processes -> Makers]
    BY <1>1 DEF SnapshotsInit, Steps, Makers
  <2> QED
    BY <1>1, <2>1, SnapshotsAssumption DEF SnapshotsInit, SnapshotsTyped
<1>3. EachOnce(<<>>) /\ Readable(<<>>)
  BY DEF EachOnce, Readable
<1> QED
  BY <1>2, <1>3 DEF SnapshotsInit, SnapshotsInv, MakerOK

(* what loads does so still when a file is opened or written *)
LEMMA FilesKeep ==
  ASSUME SnapshotsInv, NEW p \in Processes, OpenFile(p) \/ WriteFile(p)
  PROVE  /\ files' \in [VersionIds -> {None, "torn", "whole"}] /\ twice' \subseteq VersionIds
         /\ \A v \in VersionIds : Loadable(v) => Loadable(v)'
         /\ WriteFile(p) => \A v \in VersionIds : v = maker[p].id => Loadable(v)'
<1>1. /\ files \in [VersionIds -> {None, "torn", "whole"}] /\ twice \subseteq VersionIds
      /\ maker[p].id \in VersionIds
  <2>1. maker[p].step # "idle"
    BY DEF OpenFile, WriteFile
  <2> QED
    BY <2>1 DEF SnapshotsInv, SnapshotsTyped, MakerOK
<1>2. CASE OpenFile(p)
  <2>1. /\ files' = [files EXCEPT ![maker[p].id] = "torn"]
        /\ twice' = IF files[maker[p].id] = None THEN twice ELSE twice \cup {maker[p].id}
        /\ maker[p].step = "open"
    BY <1>2 DEF OpenFile
  <2>2. ~WriteFile(p)
    BY <2>1 DEF WriteFile
  <2> QED
    BY <1>1, <2>1, <2>2, SnapshotsAssumption DEF Loadable
<1>3. CASE WriteFile(p)
  BY <1>1, <1>3 DEF WriteFile, Loadable
<1> QED
  BY <1>2, <1>3

LEMMA SnapshotFacts ==
  ASSUME SnapshotsInv
  PROVE  /\ second_now \in 0..LastStampOfData
         /\ manifest = "torn" \/ manifest \in Seq(Versioned)
         /\ files \in [VersionIds -> {None, "torn", "whole"}] /\ maker \in [Processes -> Makers] /\ twice \subseteq VersionIds
         /\ manifest # "torn" => EachOnce(manifest) /\ Readable(manifest)
         /\ \A p \in Processes : MakerOK(maker[p]) /\ maker[p].read \in Seq(Versioned)
BY DEF SnapshotsInv, SnapshotsTyped, Makers

LEMMA BeginSnapshotStep ==
  ASSUME SnapshotsInv, NEW p \in Processes, NEW data \in Datasets, BeginSnapshot(p, data)
  PROVE  SnapshotsInv'
<1>1. UNCHANGED <<second_now, manifest, files, twice>>
  BY DEF BeginSnapshot
<1>2. CASE maker' = maker
  BY <1>1, <1>2 DEF SnapshotsInv, SnapshotsTyped, EachOnce, Readable, Loadable, NotAmong, MakerOK
<1>3. CASE ~Listed(LoadManifest, data)
  <2> DEFINE v == <<second_now, data>>
             m == [maker[p] EXCEPT !.step = "open", !.data = data, !.id = v, !.read = LoadManifest]
  <2>1. maker' = [maker EXCEPT ![p] = m]
    BY <1>3, SnapshotFacts DEF BeginSnapshot, Makers
  <2>2. v \in VersionIds /\ v[2] = data
    BY SnapshotFacts DEF VersionIds
  <2>3. LoadManifest \in Seq(Versioned) /\ EachOnce(LoadManifest) /\ Readable(LoadManifest)
    <3>1. <<>> \in Seq(Versioned) /\ EachOnce(<<>>) /\ Readable(<<>>)
      BY DEF EachOnce, Readable
    <3> QED
      BY <3>1, SnapshotFacts DEF LoadManifest
  <2>4. NotAmong(v, LoadManifest)
    BY <1>3, <2>2 DEF Listed, NotAmong
  <2> HIDE DEF v
  <2>5. m \in Makers /\ m.read = LoadManifest /\ m.id = v /\ m.step = "open"
    BY <2>2, <2>3, SnapshotFacts DEF Makers, Steps
  <2> HIDE DEF m
  <2>6. MakerOK(m)
    BY <2>2, <2>3, <2>4, <2>5 DEF MakerOK
  <2>7. maker' \in [Processes -> Makers] /\ \A q \in Processes : MakerOK(maker'[q])
    BY <2>1, <2>5, <2>6, SnapshotFacts
  <2> QED
    BY <1>1, <2>7, SnapshotFacts DEF SnapshotsInv, SnapshotsTyped, EachOnce, Readable, Loadable, MakerOK, NotAmong
<1> QED
  BY <1>2, <1>3 DEF BeginSnapshot

LEMMA IdsOfVersions ==
  ASSUME NEW versions \in Seq(Versioned), NEW i \in DOMAIN versions
  PROVE  versions[i].id \in VersionIds
<1>1. versions[i] \in Versioned
  OBVIOUS
<1> QED
  BY <1>1 DEF Versioned

LEMMA FileStep ==
  ASSUME SnapshotsInv, NEW p \in Processes, OpenFile(p) \/ WriteFile(p)
  PROVE  SnapshotsInv'
<1>1. PICK step \in {"write", "empty manifest"} :
        /\ maker' = [maker EXCEPT ![p].step = step] /\ UNCHANGED <<second_now, manifest>>
        /\ step = "empty manifest" => WriteFile(p)
        /\ maker[p].step # "idle"
  BY DEF OpenFile, WriteFile
<1>2. ASSUME NEW versions \in Seq(Versioned), Readable(versions) PROVE Readable(versions)'
  <2>1. \A i \in DOMAIN versions : versions[i].id \in VersionIds
    BY IdsOfVersions
  <2> QED
    BY <1>2, <2>1, FilesKeep DEF Readable
<1>3. maker' \in [Processes -> Makers]
  <2>1. [maker[p] EXCEPT !.step = step] \in Makers
    BY SnapshotFacts DEF Makers, Steps
  <2> QED
    BY <1>1, <2>1, SnapshotFacts
<1>4. \A q \in Processes : /\ maker'[q].read = maker[q].read /\ maker'[q].id = maker[q].id
                           /\ q # p => maker'[q].step = maker[q].step
  BY <1>1, SnapshotFacts DEF Makers
<1>5. maker'[p].step = step
  BY <1>1, SnapshotFacts DEF Makers
<1>6. ASSUME NEW q \in Processes, NEW m, m = maker[q] PROVE MakerOK(maker[q])'
  <2>1. MakerOK(m) /\ m.read \in Seq(Versioned)
    BY <1>6, SnapshotFacts
  <2>2. Readable(m.read)' /\ EachOnce(m.read)
    BY <1>2, <2>1 DEF MakerOK
  <2>3. maker'[q].step # "idle" => m.id \in VersionIds /\ NotAmong(m.id, m.read)
    BY <1>1, <1>4, <1>6, <2>1 DEF MakerOK
  <2>4. maker'[q].step \in {"empty manifest", "write manifest"} => Loadable(m.id)'
    <3>1. CASE q = p
      BY <1>1, <1>5, <1>6, <2>3, <3>1, FilesKeep
    <3>2. CASE q # p
      BY <1>4, <1>6, <2>1, <2>3, <3>2, FilesKeep DEF MakerOK
    <3> QED
      BY <3>1, <3>2
  <2> QED
    BY <1>4, <1>6, <2>2, <2>3, <2>4 DEF MakerOK, EachOnce, NotAmong, Readable, Loadable
<1>7. manifest' # "torn" => EachOnce(manifest)' /\ Readable(manifest)'
  <2>1. ASSUME NEW listed_now, listed_now = manifest, manifest # "torn"
        PROVE  EachOnce(listed_now) /\ Readable(listed_now)'
    BY <1>2, <2>1, SnapshotFacts
  <2> QED
    BY <1>1, <2>1 DEF EachOnce, Readable, Loadable
<1> QED
  BY <1>1, <1>3, <1>6, <1>7, SnapshotFacts, FilesKeep DEF SnapshotsInv, SnapshotsTyped

LEMMA ManifestStep ==
  ASSUME SnapshotsInv, NEW p \in Processes,
         \/ EmptyManifest(p) \/ WriteFileFails(p) \/ WriteManifest(p) \/ WriteManifestFails(p) \/ ProcessStops(p)
  PROVE  SnapshotsInv'
<1>1. UNCHANGED <<second_now, files, twice>>
  BY DEF EmptyManifest, WriteFileFails, WriteManifest, WriteManifestFails, ProcessStops
<1>2. maker[p] \in Makers /\ maker[p].current \in VersionIds \cup {None} /\ maker[p].id \in VersionIds \cup {None}
  BY SnapshotFacts DEF Makers
<1>3. PICK m \in Makers :
        /\ maker' = [maker EXCEPT ![p] = m] /\ m.read = maker[p].read /\ m.id = maker[p].id
        /\ m.step \in {"idle", "write manifest"}
        /\ m.step = "write manifest" => maker[p].step = "empty manifest"
  <2>1. CASE EmptyManifest(p)
    <3> DEFINE m == [maker[p] EXCEPT !.step = "write manifest"]
    <3>1. m \in Makers /\ m.read = maker[p].read /\ m.id = maker[p].id /\ m.step = "write manifest"
      BY <1>2 DEF Makers, Steps
    <3>2. maker' = [maker EXCEPT ![p] = m] /\ maker[p].step = "empty manifest"
      BY <2>1 DEF EmptyManifest
    <3> QED
      BY <3>1, <3>2
  <2>2. CASE WriteFileFails(p)
    <3> DEFINE m == [maker[p] EXCEPT !.step = "idle"]
    <3>1. m \in Makers /\ m.read = maker[p].read /\ m.id = maker[p].id /\ m.step = "idle"
      BY <1>2 DEF Makers, Steps
    <3>2. maker' = [maker EXCEPT ![p] = m]
      BY <2>2 DEF WriteFileFails
    <3> QED
      BY <3>1, <3>2
  <2>3. CASE WriteManifest(p) \/ WriteManifestFails(p) \/ ProcessStops(p)
    <3>1. PICK current \in VersionIds \cup {None} : maker' = [maker EXCEPT ![p].step = "idle", ![p].current = current]
      BY <1>2, <2>3 DEF WriteManifest, WriteManifestFails, ProcessStops
    <3> DEFINE m == [maker[p] EXCEPT !.step = "idle", !.current = current]
    <3>2. m \in Makers /\ m.read = maker[p].read /\ m.id = maker[p].id /\ m.step = "idle"
      BY <1>2 DEF Makers, Steps
    <3>3. maker' = [maker EXCEPT ![p] = m]
      BY <3>1, SnapshotFacts
    <3> QED
      BY <3>2, <3>3
  <2> QED
    BY <2>1, <2>2, <2>3
<1>4. MakerOK(m)
  <2>1. MakerOK(maker[p])
    BY SnapshotFacts
  <2> QED
    BY <1>3, <2>1 DEF MakerOK
<1>5. maker' \in [Processes -> Makers] /\ \A q \in Processes : MakerOK(maker'[q])
  BY <1>3, <1>4, SnapshotFacts
<1>6. CASE manifest' \in {manifest, "torn"}
  BY <1>1, <1>5, <1>6, SnapshotFacts DEF SnapshotsInv, SnapshotsTyped, EachOnce, Readable, Loadable, MakerOK, NotAmong
<1>7. CASE WriteManifest(p)
  <2> DEFINE read == maker[p].read
  <2>1. manifest' = Append(read, NewVersion(p)) /\ maker[p].step = "write manifest"
    BY <1>7 DEF WriteManifest
  <2>2. /\ read \in Seq(Versioned) /\ EachOnce(read) /\ Readable(read)
        /\ maker[p].id \in VersionIds /\ NotAmong(maker[p].id, read) /\ Loadable(maker[p].id)
    BY <2>1, SnapshotFacts DEF MakerOK
  <2>3. NewVersion(p) \in Versioned /\ NewVersion(p).id = maker[p].id
    BY <1>2, <2>2 DEF NewVersion, Versioned
  <2> DEFINE new == NewVersion(p)
  <2> HIDE DEF read, new
  <2>9. manifest' = Append(read, new) /\ read \in Seq(Versioned) /\ new \in Versioned
    BY <2>1, <2>2, <2>3 DEF new
  <2>10. /\ manifest' \in Seq(Versioned) /\ DOMAIN manifest' = 1..(Len(read) + 1) /\ DOMAIN read = 1..Len(read)
         /\ manifest'[Len(read) + 1] = new /\ Len(read) \in Nat
         /\ \A i \in 1..Len(read) : manifest'[i] = read[i]
    BY <2>9, Appended
  <2>4. /\ manifest' \in Seq(Versioned) /\ DOMAIN manifest' = 1..(Len(read) + 1) /\ DOMAIN read = 1..Len(read)
        /\ manifest'[Len(read) + 1].id = maker[p].id /\ Len(read) \in Nat
        /\ \A i \in 1..Len(read) : manifest'[i] = read[i]
    BY <2>3, <2>10 DEF new
  <2>5. \A i \in DOMAIN manifest' : i \in DOMAIN read \/ i = Len(read) + 1
    BY <2>4
  <2>6. EachOnce(manifest)'
    BY <2>2, <2>4, <2>5 DEF EachOnce, NotAmong
  <2>7. Readable(manifest)'
    BY <1>1, <2>2, <2>4, <2>5 DEF Readable, Loadable
  <2>8. \A q \in Processes : MakerOK(maker[q])'
    BY <1>1, <1>5 DEF EachOnce, Readable, Loadable, MakerOK, NotAmong
  <2> QED
    BY <1>1, <1>5, <2>4, <2>6, <2>7, <2>8, SnapshotFacts DEF SnapshotsInv, SnapshotsTyped
<1> QED
  BY <1>6, <1>7 DEF EmptyManifest, WriteFileFails, WriteManifestFails, ProcessStops

LEMMA SnapshotsStep ==
  SnapshotsInv /\ [SnapshotsNext]_snapshot_vars => SnapshotsInv'
<1> SUFFICES ASSUME SnapshotsInv, [SnapshotsNext]_snapshot_vars PROVE SnapshotsInv'
  OBVIOUS
<1>1. CASE SecondPasses \/ UNCHANGED snapshot_vars
  <2>1. UNCHANGED <<manifest, files, maker, twice>> /\ second_now' \in 0..LastStampOfData
    BY <1>1, SnapshotsAssumption, SnapshotFacts DEF SecondPasses, snapshot_vars
  <2> QED
    BY <2>1 DEF SnapshotsInv, SnapshotsTyped, EachOnce, Readable, Loadable, NotAmong, MakerOK
<1> QED
  BY <1>1, BeginSnapshotStep, FileStep, ManifestStep DEF SnapshotsNext

(* What is listed of training data, of RecordedIsKept. *)
THEOREM SnapshotsAreKept ==
  SnapshotsSpec => [](ListedIsLoadable /\ ListedOnce)
<1>1. SnapshotsInv => ListedIsLoadable /\ ListedOnce
  BY DEF SnapshotsInv, ListedIsLoadable, ListedOnce, EachOnce, Readable, Loadable
<1> QED
  BY <1>1, SnapshotsBegin, SnapshotsStep, PTL DEF SnapshotsSpec

-----------------------------------------------------------------------------
(* The registry of versions, the evaluation and the drift detector. *)
(* what some call of register_version has for a version *)
Registered(v, metrics) == \E r \in Registrations : registration[r].version = v /\ registration[r].metrics = metrics

Registering ==
  [version : VersionNames, metrics : {"measured", "bare"}, step : {"set", "push", "trim", "table", "done", "failed"}]
Comparing == [step : {"names", "get", "done"}, version : VersionNames \cup {None}, found : BOOLEAN]

RegistryInv ==
  /\ registration \in [Registrations -> Registering]
  /\ names \in Seq(VersionNames)
  /\ version_keys \in [VersionNames -> {None, "measured", "bare"}]
  /\ \A v \in VersionNames : version_keys[v] # None => Registered(v, version_keys[v])
  /\ \A i \in 1..Len(names) : version_keys[names[i]] # None
  /\ \A r \in Registrations : registration[r].step = "push" => version_keys[registration[r].version] # None
  /\ comparison \in [Comparisons -> Comparing]
  /\ \A c \in Comparisons :
       /\ comparison[c].step = "names" => comparison[c].version = None
       /\ comparison[c].step = "get" => comparison[c].version \in VersionNames /\ version_keys[comparison[c].version] # None
       /\ comparison[c].step = "done" /\ comparison[c].version # None =>
            Registered(comparison[c].version, IF comparison[c].found THEN "measured" ELSE "bare")

LEMMA RegistryStep ==
  RegistryInv /\ [MonitoringNext]_monitoring_vars => RegistryInv'
<1> SUFFICES ASSUME RegistryInv, [MonitoringNext]_monitoring_vars PROVE RegistryInv'
  OBVIOUS
<1> USE DEF RegistryInv
<1>0. ASSUME NEW r \in Registrations, NEW step \in {"push", "trim", "table", "done", "failed"}, Goes(r, step)
      PROVE  /\ registration' \in [Registrations -> Registering]
             /\ \A v, metrics : Registered(v, metrics)' <=> Registered(v, metrics)
             /\ \A q \in Registrations : registration'[q].version = registration[q].version
             /\ \A q \in Registrations : q # r => registration'[q] = registration[q]
             /\ registration'[r].step = step
  <2>1. registration' = [registration EXCEPT ![r].step = step]
    BY <1>0 DEF Goes
  <2>2. \A q \in Registrations : /\ registration'[q].version = registration[q].version
                                /\ registration'[q].metrics = registration[q].metrics
    BY <2>1 DEF Registering
  <2> QED
    BY <2>1, <2>2 DEF Registering, Registered
<1>1. ASSUME NEW r \in Registrations, SetVersion(r) PROVE RegistryInv'
  <2> DEFINE v == registration[r].version
             metrics == registration[r].metrics
  <2>1. v \in VersionNames /\ metrics \in {"measured", "bare"} /\ metrics # None /\ Registered(v, metrics)
    BY KeyAssumption DEF Registering, Registered
  <2>2. /\ version_keys' = [version_keys EXCEPT ![v] = metrics] /\ UNCHANGED <<names, comparison>> /\ Goes(r, "push")
    BY <1>1 DEF SetVersion
  <2> HIDE DEF v, metrics
  <2>3. \A u \in VersionNames : version_keys'[u] = IF u = v THEN metrics ELSE version_keys[u]
    BY <2>1, <2>2
  <2>4. \A q \in Registrations : registration[q].version \in VersionNames
    BY DEF Registering
  <2>5. \A q \in Registrations : q = r => registration[q].version = v
    BY DEF v
  <2>6. \A i \in 1..Len(names) : names[i] \in VersionNames
    OBVIOUS
  <2> QED
    BY <1>0, <2>1, <2>2, <2>3, <2>4, <2>5, <2>6
<1>2. ASSUME NEW r \in Registrations, PushName(r) PROVE RegistryInv'
  <2>1. /\ registration[r].step = "push" /\ names' = <<registration[r].version>> \o names
        /\ Goes(r, "trim") /\ UNCHANGED <<version_keys, comparison>>
    BY <1>2 DEF PushName
  <2>2. registration[r].version \in VersionNames /\ version_keys[registration[r].version] # None
    BY <2>1 DEF Registering
  <2>3. /\ names' \in Seq(VersionNames) /\ Len(names') = Len(names) + 1 /\ names'[1] = registration[r].version
        /\ \A i \in 2..(Len(names) + 1) : names'[i] = names[i - 1]
    BY <2>1, <2>2, Prepended
  <2>4. Len(names) \in Nat
    OBVIOUS
  <2>5. ASSUME NEW i \in 1..Len(names') PROVE version_keys[names'[i]] # None
    <3>1. i = 1 \/ (i \in 2..(Len(names) + 1) /\ i - 1 \in 1..Len(names))
      BY <2>3, <2>4
    <3> QED
      BY <2>2, <2>3, <3>1
  <2> QED
    BY <1>0, <2>1, <2>3, <2>5
<1>3. ASSUME NEW r \in Registrations, TrimNames(r) PROVE RegistryInv'
  <2>1. /\ Goes(r, "table") /\ UNCHANGED <<version_keys, comparison>>
        /\ names' = IF Len(names) > ListKeeps THEN SubSeq(names, 1, ListKeeps) ELSE names
    BY <1>3 DEF TrimNames
  <2>2. names' \in Seq(VersionNames) /\ \A i \in 1..Len(names') : i \in 1..Len(names) /\ names'[i] = names[i]
    BY <2>1, MonitoringAssumption
  <2> QED
    BY <1>0, <2>1, <2>2
<1>4. ASSUME NEW r \in Registrations, SaveVersion(r) \/ RegistrationFails(r) PROVE RegistryInv'
  <2>1. (Goes(r, "done") \/ Goes(r, "failed")) /\ UNCHANGED <<version_keys, names, comparison>>
    BY <1>4 DEF SaveVersion, RegistrationFails
  <2> QED
    BY <1>0, <2>1
<1>5. ASSUME NEW c \in Comparisons, GetVersions(c) PROVE RegistryInv'
  <2>1. /\ comparison[c].step = "names" /\ UNCHANGED <<registration, version_keys, names>>
        /\ comparison' = [comparison EXCEPT ![c] =
             IF names = <<>> THEN [@ EXCEPT !.step = "done"] ELSE [@ EXCEPT !.step = "get", !.version = names[1]]]
    BY <1>5 DEF GetVersions
  <2>2. CASE names = <<>>
    BY <2>1, <2>2 DEF Comparing, Registered
  <2>3. CASE names # <<>>
    <3>1. names[1] \in VersionNames /\ version_keys[names[1]] # None
      BY <2>3
    <3>2. comparison' = [comparison EXCEPT ![c] = [@ EXCEPT !.step = "get", !.version = names[1]]]
      BY <2>1, <2>3
    <3>3. /\ comparison'[c] = [comparison[c] EXCEPT !.step = "get", !.version = names[1]]
          /\ comparison'[c].step = "get" /\ comparison'[c].version = names[1]
      BY <3>2
    <3>4. \A d \in Comparisons : d # c => comparison'[d] = comparison[d]
      BY <3>2
    <3>5. comparison'[c] \in Comparing
      BY <3>1, <3>3 DEF Comparing
    <3>6. comparison' \in [Comparisons -> Comparing]
      BY <3>2, <3>3, <3>5
    <3> QED
      BY <2>1, <3>1, <3>3, <3>4, <3>6 DEF Registered
  <2> QED
    BY <2>2, <2>3
<1>6. ASSUME NEW c \in Comparisons, GetBaseline(c) PROVE RegistryInv'
  <2> DEFINE v == comparison[c].version
             found == version_keys[v] = "measured"
  <2>1. /\ comparison[c].step = "get" /\ UNCHANGED <<registration, version_keys, names>>
        /\ comparison' = [comparison EXCEPT ![c] = [@ EXCEPT !.step = "done", !.found = found]]
    BY <1>6 DEF GetBaseline
  <2>2. v \in VersionNames /\ version_keys[v] \in {"measured", "bare"} /\ Registered(v, version_keys[v])
    BY <2>1
  <2>3. Registered(v, IF found THEN "measured" ELSE "bare")
    BY <2>2
  <2>4. comparison'[c] = [comparison[c] EXCEPT !.step = "done", !.found = found] /\ found \in BOOLEAN
    BY <2>1
  <2>5. \A d \in Comparisons : d # c => comparison'[d] = comparison[d]
    BY <2>1
  <2> HIDE DEF found
  <2>6. /\ comparison'[c] \in Comparing /\ comparison'[c].step = "done"
        /\ comparison'[c].version = v /\ comparison'[c].found = found
    <3>1. comparison[c] \in Comparing
      OBVIOUS
    <3> QED
      BY <2>4, <3>1 DEF Comparing
  <2> HIDE DEF v
  <2>7. comparison' \in [Comparisons -> Comparing]
    BY <2>1, <2>6
  <2> QED
    BY <2>1, <2>3, <2>5, <2>6, <2>7 DEF Registered
<1>7. CASE DriftNext \/ EvaluationNext \/ UNCHANGED monitoring_vars
  <2>1. UNCHANGED registry_vars
    BY <1>7 DEF DriftNext, EvaluationNext, AddSample, SetBaseline, SetBaselineFromStats, ResetDetector,
                EvaluateSample, PredictionFails, monitoring_vars
  <2> QED
    BY <2>1 DEF registry_vars, Registered
<1> QED
  BY <1>1, <1>2, <1>3, <1>4, <1>5, <1>6, <1>7 DEF MonitoringNext, RegistryNext

(* A version that is listed can be read, of RecordedIsKept. *)
THEOREM ListedNamesAreReadable ==
  MonitoringSpec => []ListedIsReadable
<1>1. MonitoringInit => RegistryInv
  BY DEF MonitoringInit, RegistryInit, RegistryInv, Registering, Comparing
<1>2. RegistryInv => ListedIsReadable
  BY DEF RegistryInv, ListedIsReadable, Registered
<1> QED
  BY <1>1, <1>2, RegistryStep, PTL DEF MonitoringSpec

Rated == evaluation.done \ evaluation.failed

EvaluationInv ==
  /\ evaluation \in [done : SUBSET TestSamples, failed : SUBSET TestSamples, right : [Checks -> Nat], correct : Nat]
  /\ IsFiniteSet(Rated) /\ evaluation.failed \subseteq evaluation.done
  /\ \A c \in Checks : evaluation.correct <= evaluation.right[c] /\ evaluation.right[c] <= Cardinality(Rated)
  /\ evaluation.right["toxic"] + evaluation.right["pii"] + evaluation.right["action"]
       <= 2 * Cardinality(Rated) + evaluation.correct

LEMMA EvaluateSampleStep ==
  ASSUME EvaluationInv, NEW s \in TestSamples, NEW right \in SUBSET Checks, EvaluateSample(s, right)
  PROVE  EvaluationInv'
<1> DEFINE more == [c \in Checks |-> evaluation.right[c] + (IF c \in right THEN 1 ELSE 0)]
           whole == evaluation.correct + (IF right = Checks THEN 1 ELSE 0)
<1>1. s \notin evaluation.done /\ evaluation' = [evaluation EXCEPT !.done = @ \cup {s}, !.right = more, !.correct = whole]
  BY DEF EvaluateSample, Correct, EvaluationInv
<1>2. /\ evaluation'.done = evaluation.done \cup {s} /\ evaluation'.failed = evaluation.failed
      /\ evaluation'.right = more /\ evaluation'.correct = whole
  BY <1>1 DEF EvaluationInv
<1>3. Rated' = Rated \cup {s} /\ s \notin Rated
  BY <1>1, <1>2 DEF Rated, EvaluationInv
<1>4. /\ IsFiniteSet(Rated') /\ Cardinality(Rated') = Cardinality(Rated) + 1 /\ Cardinality(Rated) \in Nat
  BY <1>3, FS_AddElement, FS_CardinalityType DEF EvaluationInv
<1>5. evaluation.correct \in Nat /\ \A c \in Checks : evaluation.right[c] \in Nat
  BY DEF EvaluationInv
<1>6. more \in [Checks -> Nat] /\ whole \in Nat
  BY <1>5
<1>7. evaluation' \in [done : SUBSET TestSamples, failed : SUBSET TestSamples, right : [Checks -> Nat], correct : Nat]
  BY <1>1, <1>6 DEF EvaluationInv
<1>8. \A c \in Checks : evaluation'.correct <= evaluation'.right[c] /\ evaluation'.right[c] <= Cardinality(Rated')
  BY <1>2, <1>4, <1>5 DEF EvaluationInv
<1>9. evaluation'.right["toxic"] + evaluation'.right["pii"] + evaluation'.right["action"]
        <= 2 * Cardinality(Rated') + evaluation'.correct
  <2>1. {"toxic", "pii", "action"} = Checks
    BY DEF Checks
  <2>2. CASE right = Checks
    BY <1>2, <1>4, <1>5, <2>1, <2>2 DEF EvaluationInv
  <2>3. CASE right # Checks
    <3>1. \E c \in Checks : c \notin right
      BY <2>3
    <3> QED
      BY <1>2, <1>4, <1>5, <2>1, <2>3, <3>1 DEF EvaluationInv
  <2> QED
    BY <2>2, <2>3
<1>10. evaluation'.failed \subseteq evaluation'.done
  BY <1>2 DEF EvaluationInv
<1> QED
  BY <1>4, <1>7, <1>8, <1>9, <1>10 DEF EvaluationInv

(* The figures of an evaluation, of ClaimsAreEarned. *)
THEOREM EvaluationsAddUp ==
  MonitoringSpec => []EvaluationAddsUp
<1>1. MonitoringInit => EvaluationInv
  <2> SUFFICES ASSUME EvaluationInit PROVE EvaluationInv
    BY DEF MonitoringInit
  <2>1. Rated = {} /\ IsFiniteSet(Rated) /\ Cardinality(Rated) = 0
    BY FS_EmptySet DEF EvaluationInit, Rated
  <2> QED
    BY <2>1 DEF EvaluationInit, EvaluationInv, Checks
<1>2. EvaluationInv /\ [MonitoringNext]_monitoring_vars => EvaluationInv'
  <2> SUFFICES ASSUME EvaluationInv, [MonitoringNext]_monitoring_vars PROVE EvaluationInv'
    OBVIOUS
  <2>1. ASSUME NEW s \in TestSamples, PredictionFails(s) PROVE EvaluationInv'
    <3>1. evaluation' = [evaluation EXCEPT !.done = @ \cup {s}, !.failed = @ \cup {s}] /\ s \notin evaluation.done
      BY <2>1 DEF PredictionFails
    <3>2. Rated' = Rated
      BY <3>1 DEF EvaluationInv, Rated
    <3> QED
      BY <3>1, <3>2 DEF EvaluationInv
  <2>2. CASE DriftNext \/ RegistryNext \/ UNCHANGED monitoring_vars
    <3>1. evaluation' = evaluation
      BY <2>2 DEF DriftNext, RegistryNext, AddSample, SetBaseline, SetBaselineFromStats, ResetDetector, SetVersion,
                  PushName, TrimNames, SaveVersion, RegistrationFails, GetVersions, GetBaseline, monitoring_vars
    <3> QED
      BY <3>1 DEF EvaluationInv, Rated
  <2> QED
    BY <2>1, <2>2, EvaluateSampleStep DEF MonitoringNext, EvaluationNext
<1>3. EvaluationInv => EvaluationAddsUp
  BY DEF EvaluationInv, EvaluationAddsUp, Rated
<1> QED
  BY <1>1, <1>2, <1>3, PTL DEF MonitoringSpec

DriftInv ==
  window \in Seq({0, 1}) /\ Len(window) <= WindowSize /\ added \in Nat /\ alerts \in Seq(Nat)

LEMMA FullWindowIsChecked ==
  WindowSize >= CheckEvery
<1>1. WindowSize \in Nat /\ CheckEvery \in Nat /\ WindowSize > 0 /\ CheckEvery > 0 /\ WindowSize % CheckEvery = 0
  BY WindowAssumption
<1> QED
  BY <1>1

LEMMA WindowSlides ==
  ASSUME DriftInv, NEW score \in {0, 1}
  PROVE  /\ WindowWith(score) \in Seq({0, 1}) /\ Len(WindowWith(score)) <= WindowSize
         /\ Len(window) = WindowSize => Len(WindowWith(score)) = WindowSize
<1>1. /\ Append(window, score) \in Seq({0, 1}) /\ Len(Append(window, score)) = Len(window) + 1
      /\ Len(window) \in Nat /\ Append(window, score) # <<>>
  BY DEF DriftInv
<1>2. Tail(Append(window, score)) \in Seq({0, 1}) /\ Len(Tail(Append(window, score))) = Len(window)
  BY <1>1
<1> QED
  BY <1>1, <1>2, WindowAssumption DEF WindowWith, DriftInv

DriftAct ==
  /\ added' = added + 1 /\ Len(window) = WindowSize /\ Drifted(window') => Len(alerts') = Len(alerts) + 1
  /\ Len(alerts') > Len(alerts) => baseline.histogram # None /\ alerts'[Len(alerts')] = added'

LEMMA DriftStep ==
  DriftInv /\ [MonitoringNext]_monitoring_vars => DriftInv' /\ [DriftAct]_monitoring_vars
<1> SUFFICES ASSUME DriftInv, [MonitoringNext]_monitoring_vars PROVE DriftInv' /\ DriftAct
  OBVIOUS
<1>1. ASSUME NEW score \in {0, 1}, AddSample(score) PROVE DriftInv' /\ DriftAct
  <2>1. /\ added' = added + 1 /\ added' \in Nat /\ window' = WindowWith(score)
        /\ alerts' = IF Len(window') >= CheckEvery /\ Len(window') % CheckEvery = 0 /\ Drifted(window')
                     THEN Append(alerts, added') ELSE alerts
    BY <1>1 DEF AddSample, DriftInv
  <2>2. window' \in Seq({0, 1}) /\ Len(window') <= WindowSize /\ (Len(window) = WindowSize => Len(window') = WindowSize)
    BY <2>1, WindowSlides
  <2>3. /\ Append(alerts, added') \in Seq(Nat) /\ Len(Append(alerts, added')) = Len(alerts) + 1
        /\ Append(alerts, added')[Len(alerts) + 1] = added' /\ Len(alerts) \in Nat
    BY <2>1, Appended DEF DriftInv
  <2>4. DriftInv'
    BY <2>1, <2>2, <2>3 DEF DriftInv
  <2>5. Len(window) = WindowSize /\ Drifted(window') => alerts' = Append(alerts, added')
    BY <2>1, <2>2, FullWindowIsChecked, WindowAssumption
  <2>6. Len(alerts') > Len(alerts) => Drifted(window') /\ alerts' = Append(alerts, added')
    BY <2>1, <2>3
  <2> QED
    BY <2>3, <2>4, <2>5, <2>6 DEF DriftAct, Drifted
<1>2. CASE ResetDetector
  <2>1. window' = <<>> /\ alerts' = <<>> /\ added' = added
    BY <1>2 DEF ResetDetector
  <2>2. window' \in Seq({0, 1}) /\ Len(window') = 0 /\ alerts' \in Seq(Nat) /\ Len(alerts') = 0
    BY <2>1
  <2>3. added \in Nat /\ added' # added + 1 /\ Len(alerts) \in Nat
    BY <2>1 DEF DriftInv
  <2>4. DriftInv'
    BY <2>1, <2>2, <2>3, WindowAssumption DEF DriftInv
  <2>5. ~(Len(alerts') > Len(alerts))
    BY <2>2, <2>3
  <2> QED
    BY <2>3, <2>4, <2>5 DEF DriftAct
<1>3. CASE UNCHANGED <<window, alerts, added>>
  BY <1>3 DEF DriftInv, DriftAct
<1>4. RegistryNext \/ EvaluationNext \/ UNCHANGED monitoring_vars => UNCHANGED <<window, alerts, added>>
  BY DEF RegistryNext, EvaluationNext, SetVersion, PushName, TrimNames, SaveVersion, RegistrationFails,
         GetVersions, GetBaseline, EvaluateSample, PredictionFails, monitoring_vars, drift_vars
<1>5. \A scores, with : SetBaseline(scores) \/ SetBaselineFromStats(scores, with) => UNCHANGED <<window, alerts, added>>
  BY DEF SetBaseline, SetBaselineFromStats
<1> QED
  BY <1>1, <1>2, <1>3, <1>4, <1>5 DEF MonitoringNext, DriftNext

(* A drift is alerted at each sample once the window is full. *)
THEOREM DriftNoticed ==
  MonitoringSpec => DriftIsNoticed
<1>1. MonitoringInit => DriftInv
  BY WindowAssumption DEF MonitoringInit, DriftInit, DriftInv
<1> QED
  BY <1>1, DriftStep, PTL DEF MonitoringSpec, DriftIsNoticed, DriftAct

-----------------------------------------------------------------------------
(* Experiments in MLflow. *)
LEMMA Replaced ==
  ASSUME NEW S, NEW s \in Seq(S), NEW i \in 1..Len(s), NEW e \in S
  PROVE  LET t == [s EXCEPT ![i] = e] IN
         /\ t \in Seq(S) /\ Len(t) = Len(s) /\ t[i] = e
         /\ \A j \in 1..Len(s) : j # i => t[j] = s[j]
OBVIOUS

Loggers == Reports \cup {"stray"}

ServedRun == [by : Loggers, from : SUBSET Loggers, count : Nat, ended : BOOLEAN]

TrackedReport ==
  [step : {"new", "start", "log", "end", "done"}, run : Nat \cup {None}, entries : Nat, left : Nat, lost : Nat,
   raised : BOOLEAN, answer : BOOLEAN \cup {None}]

Underway(r) == report[r].step \in {"start", "log", "end"}
Within(r) == report[r].step \in {"log", "end"}

ExperimentsTyped ==
  /\ tracker \in [attempted : BOOLEAN, enabled : BOOLEAN, active : Nat \cup {None}]
  /\ tracker.enabled => tracker.attempted
  /\ runs \in Seq(ServedRun) /\ open_run \in 1..Len(runs) \cup {None}
  /\ report \in [Reports -> TrackedReport]

RunOK(i) ==
  /\ runs[i].from \subseteq {runs[i].by} \cup (IF "end" \in mishaps THEN {"stray"} ELSE {})
  /\ runs[i].by = "stray" => "stray" \in mishaps

(* the run that is open is of the report under way, or left over *)
OpenRunOK ==
  open_run # None =>
    \/ \E r \in Reports : Within(r)
    \/ "end" \in mishaps
    \/ "stray" \in mishaps /\ runs[open_run].by = "stray"

Complete(r) == runs[report[r].run].count + report[r].lost = report[r].entries

ReportOK(r) ==
  /\ report[r].step \in {"new", "start"} =>
       report[r].lost = 0 /\ ~report[r].raised /\ \A i \in 1..Len(runs) : runs[i].by # r
  /\ report[r].step = "start" => report[r].left = report[r].entries
  /\ Within(r) =>
       report[r].run = open_run /\ tracker.active = open_run /\ open_run # None /\ runs[open_run].by = r
  /\ report[r].step = "log" =>
       ~report[r].raised /\ runs[open_run].count + report[r].lost + report[r].left = report[r].entries
  /\ report[r].step = "end" =>
       /\ report[r].answer \in BOOLEAN
       /\ report[r].answer => Complete(r)
       /\ ~report[r].answer => report[r].raised
  /\ report[r].step = "done" =>
       /\ report[r].answer \in BOOLEAN
       /\ report[r].answer =>
            /\ report[r].run \in 1..Len(runs) /\ runs[report[r].run].by = r /\ Complete(r)
            /\ runs[report[r].run].ended \/ "end" \in mishaps
       /\ ~report[r].answer => (tracker.attempted /\ ~tracker.enabled) \/ report[r].raised \/ mishaps # {}

ExperimentsInv ==
  /\ ExperimentsTyped
  /\ \A r, q \in Reports : Underway(r) /\ Underway(q) => r = q
  /\ \A i, j \in 1..Len(runs) : runs[i].by = runs[j].by /\ runs[i].by # "stray" => i = j
  /\ \A i \in 1..Len(runs) : RunOK(i)
  /\ OpenRunOK
  /\ \A r \in Reports : ReportOK(r)

LEMMA BeginReportStep ==
  ASSUME ExperimentsInv, NEW r \in Reports, NEW entries \in Nat, BeginReport(r, entries)
  PROVE  ExperimentsInv'
<1>1. /\ Free /\ report[r].step = "new" /\ UNCHANGED <<open_run, runs, mishaps>>
      /\ \E enabled \in BOOLEAN :
           /\ tracker.attempted => enabled = tracker.enabled
           /\ tracker' = [tracker EXCEPT !.attempted = TRUE, !.enabled = enabled]
           /\ report' = [report EXCEPT ![r] =
                IF enabled THEN [@ EXCEPT !.step = "start", !.entries = entries, !.left = entries]
                ELSE [@ EXCEPT !.step = "done", !.answer = FALSE]]
  BY DEF BeginReport, ExperimentsInv, ExperimentsTyped
<1>2. PICK enabled \in BOOLEAN :
        /\ tracker.attempted => enabled = tracker.enabled
        /\ tracker' = [tracker EXCEPT !.attempted = TRUE, !.enabled = enabled]
        /\ report' = [report EXCEPT ![r] =
             IF enabled THEN [@ EXCEPT !.step = "start", !.entries = entries, !.left = entries]
             ELSE [@ EXCEPT !.step = "done", !.answer = FALSE]]
  BY <1>1
<1>3. /\ tracker \in [attempted : BOOLEAN, enabled : BOOLEAN, active : Nat \cup {None}]
      /\ report \in [Reports -> TrackedReport] /\ report[r] \in TrackedReport
  BY DEF ExperimentsInv, ExperimentsTyped
<1>4. /\ tracker'.attempted /\ tracker'.enabled = enabled /\ tracker'.active = tracker.active
      /\ tracker' \in [attempted : BOOLEAN, enabled : BOOLEAN, active : Nat \cup {None}]
  BY <1>2, <1>3
<1>5. /\ report'[r] \in TrackedReport /\ report' \in [Reports -> TrackedReport]
      /\ \A q \in Reports : q # r => report'[q] = report[q]
      /\ report'[r].lost = report[r].lost /\ report'[r].raised = report[r].raised
      /\ enabled => report'[r].step = "start" /\ report'[r].left = entries /\ report'[r].entries = entries
      /\ ~enabled => report'[r].step = "done" /\ report'[r].answer = FALSE
  <2>1. CASE enabled
    <3>1. report'[r] = [report[r] EXCEPT !.step = "start", !.entries = entries, !.left = entries]
      BY <1>2, <1>3, <2>1
    <3> QED
      BY <1>2, <1>3, <2>1, <3>1 DEF TrackedReport
  <2>2. CASE ~enabled
    <3>1. report'[r] = [report[r] EXCEPT !.step = "done", !.answer = FALSE]
      BY <1>2, <1>3, <2>2
    <3> QED
      BY <1>2, <1>3, <2>2, <3>1 DEF TrackedReport
  <2> QED
    BY <2>1, <2>2
<1>6. \A q \in Reports : ~Underway(q)
  BY <1>1 DEF Free, Underway
<1>7. \A q \in Reports : Underway(q)' => q = r
  BY <1>5, <1>6 DEF Underway
<1>8. ReportOK(r)'
  BY <1>1, <1>4, <1>5 DEF ExperimentsInv, ReportOK, Within
<1>9. \A q \in Reports : q # r => ReportOK(q)'
  BY <1>1, <1>2, <1>4, <1>5 DEF ExperimentsInv, ReportOK, Within, Complete
<1>10. OpenRunOK'
  BY <1>1, <1>6 DEF ExperimentsInv, OpenRunOK, Within, Underway
<1> QED
  BY <1>1, <1>4, <1>5, <1>7, <1>8, <1>9, <1>10 DEF ExperimentsInv, ExperimentsTyped, RunOK

(* what a step that leaves tracker and runs alone does to the other reports *)
LEMMA ReportSet ==
  ASSUME ExperimentsTyped, NEW r \in Reports, NEW new \in TrackedReport,
         report' = [report EXCEPT ![r] = new]
  PROVE  /\ report' \in [Reports -> TrackedReport] /\ report'[r] = new
         /\ \A q \in Reports : q # r => report'[q] = report[q]
BY DEF ExperimentsTyped

LEMMA StartRunStep ==
  ASSUME ExperimentsInv, NEW r \in Reports, StartRun(r)
  PROVE  ExperimentsInv'
<1>1. /\ report[r].step = "start" /\ report[r] \in TrackedReport /\ runs \in Seq(ServedRun)
      /\ tracker \in [attempted : BOOLEAN, enabled : BOOLEAN, active : Nat \cup {None}]
      /\ \A q \in Reports : q # r => ~Underway(q)
      /\ open_run \in 1..Len(runs) \cup {None} /\ r # "stray" /\ None \notin Nat
  BY TrackingAssumption DEF StartRun, ExperimentsInv, ExperimentsTyped, Underway
<1>2. ASSUME Refused(r), UNCHANGED <<tracker, open_run, runs>>, mishaps \subseteq mishaps', mishaps' # {}
      PROVE  ExperimentsInv'
  <2>1. report' = [report EXCEPT ![r] = [report[r] EXCEPT !.step = "done", !.answer = FALSE]]
    BY <1>1, <1>2 DEF Refused, ExperimentsInv, ExperimentsTyped
  <2>2. [report[r] EXCEPT !.step = "done", !.answer = FALSE] \in TrackedReport
    BY <1>1 DEF TrackedReport
  <2>3. /\ report' \in [Reports -> TrackedReport] /\ \A q \in Reports : q # r => report'[q] = report[q]
        /\ report'[r].step = "done" /\ report'[r].answer = FALSE
    BY <2>1, <2>2, ReportSet, <1>1 DEF ExperimentsInv, TrackedReport
  <2>4. ReportOK(r)'
    BY <1>2, <2>3 DEF ReportOK, Within
  <2>5. \A q \in Reports : q # r => ReportOK(q)'
    BY <1>2, <2>3 DEF ExperimentsInv, ReportOK, Within, Complete
  <2>6. \A i \in 1..Len(runs) : RunOK(i)'
    BY <1>2 DEF ExperimentsInv, RunOK
  <2>7. OpenRunOK'
    BY <1>1, <1>2, <2>3 DEF ExperimentsInv, OpenRunOK, Within, Underway
  <2>8. \A q, p \in Reports : (Underway(q) /\ Underway(p) => q = p)'
    BY <1>1, <2>3 DEF Underway
  <2> QED
    BY <1>2, <2>3, <2>4, <2>5, <2>6, <2>7, <2>8 DEF ExperimentsInv, ExperimentsTyped
<1>3. CASE open_run = None /\ runs' = Append(runs, NewRun(r, {}, 0)) /\ UNCHANGED mishaps
           /\ open_run' = Len(runs') /\ tracker' = [tracker EXCEPT !.active = Len(runs')]
           /\ report' = [report EXCEPT ![r].step = "log", ![r].run = Len(runs')]
  <2> DEFINE n == Len(runs) + 1
  <2>1. NewRun(r, {}, 0) \in ServedRun
    BY DEF NewRun, ServedRun, Loggers
  <2>2. /\ runs' \in Seq(ServedRun) /\ Len(runs') = n /\ runs'[n] = NewRun(r, {}, 0) /\ n \in 1..n /\ Len(runs) \in Nat
        /\ \A i \in 1..Len(runs) : runs'[i] = runs[i] /\ i # n /\ i \in 1..n
        /\ \A i \in 1..n : i \in 1..Len(runs) \/ i = n
    BY <1>1, <1>3, <2>1, Appended
  <2>3. /\ open_run' = n /\ tracker'.active = n /\ tracker'.attempted = tracker.attempted
        /\ tracker'.enabled = tracker.enabled /\ n \in Nat /\ n # None
        /\ tracker' \in [attempted : BOOLEAN, enabled : BOOLEAN, active : Nat \cup {None}]
    BY <1>1, <1>3, <2>2
  <2>4. [report[r] EXCEPT !.step = "log", !.run = n] \in TrackedReport
    BY <1>1, <2>3 DEF TrackedReport
  <2>5. report' = [report EXCEPT ![r] = [report[r] EXCEPT !.step = "log", !.run = n]]
    BY <1>1, <1>3, <2>2 DEF ExperimentsInv, ExperimentsTyped
  <2>6. /\ report' \in [Reports -> TrackedReport] /\ \A q \in Reports : q # r => report'[q] = report[q]
        /\ report'[r] = [report[r] EXCEPT !.step = "log", !.run = n]
    BY <2>4, <2>5, ReportSet DEF ExperimentsInv
  <2>7. /\ report'[r].step = "log" /\ report'[r].run = n /\ report'[r].left = report[r].left
        /\ report'[r].lost = report[r].lost /\ report'[r].entries = report[r].entries
        /\ report'[r].raised = report[r].raised
    BY <1>1, <2>6 DEF TrackedReport
  <2> HIDE DEF n
  <2>8. \A i \in 1..Len(runs) : runs[i].by # r
    BY <1>1 DEF ExperimentsInv, ReportOK
  <2>9. runs'[n].by = r /\ runs'[n].from = {} /\ runs'[n].count = 0
    BY <2>2 DEF NewRun
  <2>10. ReportOK(r)'
    <3>1. report[r].left = report[r].entries /\ report[r].lost = 0 /\ ~report[r].raised /\ report[r].entries \in Nat
      BY <1>1 DEF ExperimentsInv, ReportOK, TrackedReport
    <3>2. runs'[n].count + report'[r].lost + report'[r].left = report'[r].entries
      BY <2>7, <2>9, <3>1
    <3> QED
      BY <2>3, <2>7, <2>9, <3>1, <3>2 DEF ReportOK, Within
  <2>11. ASSUME NEW q \in Reports, q # r PROVE ReportOK(q)'
    <3>1. report'[q] = report[q] /\ ~Underway(q) /\ ReportOK(q)
      BY <1>1, <2>6, <2>11 DEF ExperimentsInv
    <3>2. report[q].step = "new" => \A i \in 1..n : runs'[i].by # q
      BY <2>2, <2>9, <2>11, <3>1 DEF ReportOK
    <3> QED
      BY <1>3, <2>2, <2>3, <3>1, <3>2 DEF ReportOK, Within, Underway, Complete
  <2>12. \A i \in 1..n : RunOK(i)'
    BY <1>1, <1>3, <2>2, <2>9 DEF ExperimentsInv, RunOK
  <2>13. \A i, j \in 1..n : runs'[i].by = runs'[j].by /\ runs'[i].by # "stray" => i = j
    BY <2>2, <2>8, <2>9 DEF ExperimentsInv
  <2>14. OpenRunOK'
    BY <2>7 DEF OpenRunOK, Within
  <2>15. \A q, p \in Reports : (Underway(q) /\ Underway(p) => q = p)'
    BY <1>1, <2>6 DEF Underway
  <2> QED
    BY <2>2, <2>3, <2>6, <2>10, <2>11, <2>12, <2>13, <2>14, <2>15 DEF ExperimentsInv, ExperimentsTyped
<1>4. CASE open_run # None /\ Refused(r) /\ UNCHANGED <<tracker, open_run, runs, mishaps>>
  <2>1. \A q \in Reports : ~Within(q)
    BY <1>1 DEF Within, Underway
  <2>2. mishaps # {}
    BY <1>4, <2>1 DEF ExperimentsInv, OpenRunOK
  <2> QED
    BY <1>2, <1>4, <2>2
<1>5. CASE mishaps' = mishaps \cup {"start"} /\ Refused(r) /\ UNCHANGED <<tracker, open_run, runs>>
  BY <1>2, <1>5
<1> QED
  BY <1>3, <1>4, <1>5 DEF StartRun

LEMMA LogEntryStep ==
  ASSUME ExperimentsInv, NEW r \in Reports, LogEntry(r)
  PROVE  ExperimentsInv'
<1>1. /\ report[r].step = "log" /\ report[r].left > 0 /\ report[r] \in TrackedReport /\ runs \in Seq(ServedRun)
      /\ UNCHANGED <<tracker, open_run, mishaps>> /\ r # "stray" /\ None \notin Nat
      /\ \A q \in Reports : q # r => ~Underway(q)
      /\ open_run \in 1..Len(runs) /\ runs[open_run] \in ServedRun /\ runs[open_run].by = r
      /\ runs[open_run].count + report[r].lost + report[r].left = report[r].entries
  BY TrackingAssumption DEF LogEntry, ExperimentsInv, ExperimentsTyped, Underway, ReportOK, Within
<1>2. /\ report[r].left \in Nat /\ report[r].lost \in Nat /\ report[r].entries \in Nat /\ runs[open_run].count \in Nat
      /\ runs[open_run].from \subseteq Loggers /\ r \in Loggers
  BY <1>1 DEF TrackedReport, ServedRun, Loggers
<1>3. /\ report[r].left - 1 \in Nat /\ report[r].lost + 1 \in Nat /\ runs[open_run].count + 1 \in Nat
      /\ (runs[open_run].count + 1) + report[r].lost + (report[r].left - 1) = report[r].entries
      /\ runs[open_run].count + (report[r].lost + 1) + (report[r].left - 1) = report[r].entries
  <2> DEFINE left == report[r].left
             lost == report[r].lost
             count == runs[open_run].count
  <2>1. left \in Nat /\ lost \in Nat /\ count \in Nat /\ left > 0 /\ count + lost + left = report[r].entries
    BY <1>1, <1>2
  <2> HIDE DEF left, lost, count
  <2>2. /\ left - 1 \in Nat /\ lost + 1 \in Nat /\ count + 1 \in Nat
        /\ (count + 1) + lost + (left - 1) = report[r].entries
        /\ count + (lost + 1) + (left - 1) = report[r].entries
    BY <2>1
  <2> QED
    BY <2>2 DEF left, lost, count
<1>4. ASSUME NEW logged, report' \in [Reports -> TrackedReport],
             \A q \in Reports : q # r => report'[q] = report[q],
             report'[r].step = "log", report'[r].run = report[r].run, report'[r].left = report[r].left - 1,
             report'[r].entries = report[r].entries, report'[r].raised = report[r].raised,
             runs' \in Seq(ServedRun), Len(runs') = Len(runs),
             \A i \in 1..Len(runs) : i # open_run => runs'[i] = runs[i],
             runs'[open_run].by = r, runs'[open_run].from \subseteq runs[open_run].from \cup {r},
             runs'[open_run].count = logged,
             logged + report'[r].lost + (report[r].left - 1) = report[r].entries
      PROVE  ExperimentsInv'
  <2>4. \A i \in 1..Len(runs) : runs'[i].by = runs[i].by
    BY <1>1, <1>4
  <2>5. ReportOK(r)'
    BY <1>1, <1>4 DEF ExperimentsInv, ReportOK, Within
  <2>6. ASSUME NEW q \in Reports, q # r PROVE ReportOK(q)'
    <3>1. report'[q] = report[q] /\ ~Underway(q) /\ ReportOK(q)
      BY <1>1, <1>4, <2>6 DEF ExperimentsInv
    <3>2. ASSUME report[q].step = "done", report[q].answer
          PROVE  runs'[report[q].run] = runs[report[q].run] /\ report[q].run \in 1..Len(runs)
      BY <1>1, <1>4, <2>6, <3>1, <3>2 DEF ReportOK
    <3> QED
      BY <1>1, <1>4, <2>4, <3>1, <3>2 DEF ReportOK, Within, Underway, Complete
  <2>7. ASSUME NEW i \in 1..Len(runs) PROVE RunOK(i)'
    <3>1. RunOK(i) /\ mishaps' = mishaps
      BY <1>1 DEF ExperimentsInv
    <3>2. runs'[i].by = runs[i].by /\ runs'[i].from \subseteq runs[i].from \cup {runs[i].by}
      BY <1>1, <1>4, <2>4
    <3> QED
      BY <3>1, <3>2 DEF RunOK
  <2>8. OpenRunOK'
    BY <1>4 DEF OpenRunOK, Within
  <2>9. \A q, p \in Reports : (Underway(q) /\ Underway(p) => q = p)'
    BY <1>1, <1>4 DEF Underway
  <2>10. \A i, j \in 1..Len(runs) : runs'[i].by = runs'[j].by /\ runs'[i].by # "stray" => i = j
    BY <2>4 DEF ExperimentsInv
  <2> QED
    BY <1>1, <1>4, <2>5, <2>6, <2>7, <2>8, <2>9, <2>10 DEF ExperimentsInv, ExperimentsTyped
<1>5. CASE /\ runs' = [runs EXCEPT ![open_run].from = @ \cup {r}, ![open_run].count = @ + 1]
           /\ report' = [report EXCEPT ![r].left = @ - 1]
  <2> DEFINE run == [runs[open_run] EXCEPT !.from = runs[open_run].from \cup {r}, !.count = runs[open_run].count + 1]
  <2>0. runs[open_run].from \cup {r} \in SUBSET Loggers /\ runs[open_run].count + 1 \in Nat
    BY <1>2
  <2>1. run \in ServedRun /\ run.by = r /\ run.from = runs[open_run].from \cup {r} /\ run.count = runs[open_run].count + 1
    BY <1>1, <2>0 DEF ServedRun
  <2>2. runs' = [runs EXCEPT ![open_run] = run]
    BY <1>1, <1>5
  <2> HIDE DEF run
  <2>3. /\ runs' \in Seq(ServedRun) /\ Len(runs') = Len(runs) /\ runs'[open_run] = run
        /\ \A i \in 1..Len(runs) : i # open_run => runs'[i] = runs[i]
    BY <1>1, <2>1, <2>2, Replaced
  <2>6. report \in [Reports -> TrackedReport]
    BY DEF ExperimentsInv, ExperimentsTyped
  <2>7. report' \in [Reports -> TrackedReport] /\ \A q \in Reports : q # r => report'[q] = report[q]
    BY <1>3, <1>5, <2>6 DEF TrackedReport
  <2>8. /\ report'[r].step = "log" /\ report'[r].run = report[r].run /\ report'[r].left = report[r].left - 1
        /\ report'[r].entries = report[r].entries /\ report'[r].raised = report[r].raised
        /\ report'[r].lost = report[r].lost
    BY <1>1, <1>5, <2>6 DEF TrackedReport
  <2> QED
    BY <1>1, <1>3, <1>4, <2>1, <2>3, <2>7, <2>8
<1>6. CASE report' = [report EXCEPT ![r].left = @ - 1, ![r].lost = @ + 1] /\ UNCHANGED runs
  <2>1. report \in [Reports -> TrackedReport]
    BY DEF ExperimentsInv, ExperimentsTyped
  <2>4. report' \in [Reports -> TrackedReport] /\ \A q \in Reports : q # r => report'[q] = report[q]
    BY <1>3, <1>6, <2>1 DEF TrackedReport
  <2>5. /\ report'[r].step = "log" /\ report'[r].run = report[r].run /\ report'[r].left = report[r].left - 1
        /\ report'[r].entries = report[r].entries /\ report'[r].raised = report[r].raised
        /\ report'[r].lost = report[r].lost + 1 /\ runs' = runs
    BY <1>1, <1>6, <2>1 DEF TrackedReport
  <2> QED
    BY <1>1, <1>3, <1>4, <2>4, <2>5
<1> QED
  BY <1>5, <1>6 DEF LogEntry

LEMMA OutcomeStep ==
  ASSUME ExperimentsInv, NEW r \in Reports, ReportRaises(r) \/ FinishReport(r)
  PROVE  ExperimentsInv'
<1>1. /\ report[r].step = "log" /\ report[r] \in TrackedReport /\ report \in [Reports -> TrackedReport]
      /\ UNCHANGED <<tracker, open_run, runs, mishaps>>
      /\ \A q \in Reports : q # r => ~Underway(q)
  BY DEF ReportRaises, FinishReport, ExperimentsInv, ExperimentsTyped, Underway
<1>2. /\ report' \in [Reports -> TrackedReport] /\ \A q \in Reports : q # r => report'[q] = report[q]
      /\ report'[r].step = "end" /\ report'[r].run = report[r].run /\ report'[r].lost = report[r].lost
      /\ report'[r].entries = report[r].entries /\ report'[r].answer \in BOOLEAN
      /\ report'[r].answer => report[r].left = 0
      /\ ~report'[r].answer => report'[r].raised
  <2>1. CASE ReportRaises(r)
    <3>1. report' = [report EXCEPT ![r].step = "end", ![r].raised = TRUE, ![r].answer = FALSE]
      BY <2>1 DEF ReportRaises
    <3> QED
      BY <1>1, <3>1 DEF TrackedReport
  <2>2. CASE FinishReport(r)
    <3>1. report' = [report EXCEPT ![r].step = "end", ![r].answer = TRUE] /\ report[r].left = 0
      BY <2>2 DEF FinishReport
    <3> QED
      BY <1>1, <3>1 DEF TrackedReport
  <2> QED
    BY <2>1, <2>2
<1>3. /\ runs[open_run].count + report[r].lost + report[r].left = report[r].entries /\ open_run \in 1..Len(runs)
      /\ report[r].run = open_run /\ tracker.active = open_run /\ open_run # None /\ runs[open_run].by = r
      /\ runs[open_run] \in ServedRun
  BY <1>1 DEF ExperimentsInv, ExperimentsTyped, ReportOK, Within
<1>4. ReportOK(r)'
  <2>1. report[r].left = 0 => runs[open_run].count + report[r].lost = report[r].entries
    BY <1>1, <1>3 DEF TrackedReport, ServedRun
  <2> QED
    BY <1>1, <1>2, <1>3, <2>1 DEF ReportOK, Within, Complete
<1>5. \A q \in Reports : q # r => ReportOK(q)'
  BY <1>1, <1>2 DEF ExperimentsInv, ReportOK, Within, Complete
<1>6. OpenRunOK'
  BY <1>2 DEF OpenRunOK, Within
<1>7. \A q, p \in Reports : (Underway(q) /\ Underway(p) => q = p)'
  BY <1>1, <1>2 DEF Underway
<1>8. \A i \in 1..Len(runs) : RunOK(i)'
  BY <1>1 DEF ExperimentsInv, RunOK
<1> QED
  BY <1>1, <1>2, <1>4, <1>5, <1>6, <1>7, <1>8 DEF ExperimentsInv, ExperimentsTyped

LEMMA EndRunStep ==
  ASSUME ExperimentsInv, NEW r \in Reports, EndRun(r)
  PROVE  ExperimentsInv'
<1>1. /\ report[r].step = "end" /\ report[r] \in TrackedReport /\ report \in [Reports -> TrackedReport]
      /\ runs \in Seq(ServedRun) /\ open_run \in 1..Len(runs) /\ runs[open_run] \in ServedRun /\ None \notin Nat
      /\ report[r].run = open_run /\ tracker.active = open_run /\ open_run # None /\ runs[open_run].by = r
      /\ tracker \in [attempted : BOOLEAN, enabled : BOOLEAN, active : Nat \cup {None}]
      /\ \A q \in Reports : q # r => ~Underway(q)
  BY TrackingAssumption DEF EndRun, ExperimentsInv, ExperimentsTyped, ReportOK, Within, Underway
<1>2. /\ report' = [report EXCEPT ![r].step = "done"] /\ tracker' = [tracker EXCEPT !.active = None]
      /\ \/ runs' = [runs EXCEPT ![open_run].ended = TRUE] /\ open_run' = None /\ UNCHANGED mishaps
         \/ mishaps' = mishaps \cup {"end"} /\ open_run' \in {open_run, None} /\ UNCHANGED runs
  BY <1>1 DEF EndRun
<1>3. /\ report' \in [Reports -> TrackedReport] /\ \A q \in Reports : q # r => report'[q] = report[q]
      /\ report'[r].step = "done" /\ report'[r].run = report[r].run /\ report'[r].lost = report[r].lost
      /\ report'[r].entries = report[r].entries /\ report'[r].answer = report[r].answer
      /\ report'[r].raised = report[r].raised
  BY <1>1, <1>2 DEF TrackedReport
<1>4. /\ tracker' \in [attempted : BOOLEAN, enabled : BOOLEAN, active : Nat \cup {None}]
      /\ tracker'.attempted = tracker.attempted /\ tracker'.enabled = tracker.enabled
  BY <1>1, <1>2
<1>5. /\ runs' \in Seq(ServedRun) /\ Len(runs') = Len(runs)
      /\ \A i \in 1..Len(runs) :
           /\ runs'[i].by = runs[i].by /\ runs'[i].from = runs[i].from /\ runs'[i].count = runs[i].count
           /\ runs[i].ended => runs'[i].ended
      /\ mishaps \subseteq mishaps' /\ (runs'[open_run].ended \/ "end" \in mishaps')
      /\ open_run' # None => "end" \in mishaps' /\ open_run' = open_run
  <2>1. CASE runs' = [runs EXCEPT ![open_run].ended = TRUE] /\ open_run' = None /\ UNCHANGED mishaps
    <3> DEFINE run == [runs[open_run] EXCEPT !.ended = TRUE]
    <3>1. /\ run \in ServedRun /\ run.by = runs[open_run].by /\ run.from = runs[open_run].from
          /\ run.count = runs[open_run].count /\ run.ended
      BY <1>1 DEF ServedRun
    <3>2. runs' = [runs EXCEPT ![open_run] = run]
      BY <1>1, <2>1
    <3> HIDE DEF run
    <3>3. /\ runs' \in Seq(ServedRun) /\ Len(runs') = Len(runs) /\ runs'[open_run] = run
          /\ \A i \in 1..Len(runs) : i # open_run => runs'[i] = runs[i]
      BY <1>1, <3>1, <3>2, Replaced
    <3> QED
      BY <2>1, <3>1, <3>3
  <2>2. CASE mishaps' = mishaps \cup {"end"} /\ open_run' \in {open_run, None} /\ UNCHANGED runs
    BY <1>1, <2>2
  <2> QED
    BY <1>2, <2>1, <2>2
<1>6. ReportOK(r)'
  BY <1>1, <1>3, <1>4, <1>5 DEF ExperimentsInv, ReportOK, Within, Complete
<1>7. ASSUME NEW q \in Reports, q # r PROVE ReportOK(q)'
  <2>1. report'[q] = report[q] /\ ~Underway(q) /\ ReportOK(q)
    BY <1>1, <1>3, <1>7 DEF ExperimentsInv
  <2> QED
    BY <1>1, <1>4, <1>5, <2>1 DEF ReportOK, Within, Underway, Complete
<1>8. ASSUME NEW i \in 1..Len(runs) PROVE RunOK(i)'
  <2>1. RunOK(i)
    BY DEF ExperimentsInv
  <2> QED
    BY <1>5, <2>1 DEF RunOK
<1>9. OpenRunOK'
  BY <1>5 DEF OpenRunOK
<1>10. \A q, p \in Reports : (Underway(q) /\ Underway(p) => q = p)'
  BY <1>1, <1>3 DEF Underway
<1>11. open_run' \in 1..Len(runs) \cup {None}
  BY <1>1, <1>2
<1>12. \A i, j \in 1..Len(runs) : runs'[i].by = runs'[j].by /\ runs'[i].by # "stray" => i = j
  BY <1>5 DEF ExperimentsInv
<1> QED
  BY <1>3, <1>4, <1>5, <1>6, <1>7, <1>8, <1>9, <1>10, <1>11, <1>12 DEF ExperimentsInv, ExperimentsTyped

LEMMA LogStrayStep ==
  ASSUME ExperimentsInv, LogStray
  PROVE  ExperimentsInv'
<1>1. /\ Free /\ "stray" \notin mishaps /\ mishaps' = mishaps \cup {"stray"} /\ UNCHANGED <<tracker, report>>
      /\ runs \in Seq(ServedRun) /\ open_run \in 1..Len(runs) \cup {None} /\ None \notin Nat /\ "stray" \notin Reports
  BY TrackingAssumption DEF LogStray, ExperimentsInv, ExperimentsTyped
<1>2. \A q \in Reports : ~Underway(q) /\ ~Within(q)
  BY <1>1 DEF Free, Underway, Within
<1>3. CASE open_run = None /\ runs' = Append(runs, NewRun("stray", {"stray"}, 1)) /\ open_run' = Len(runs')
  <2> DEFINE n == Len(runs) + 1
  <2>1. NewRun("stray", {"stray"}, 1) \in ServedRun
    BY DEF NewRun, ServedRun, Loggers
  <2>2. /\ runs' \in Seq(ServedRun) /\ Len(runs') = n /\ runs'[n] = NewRun("stray", {"stray"}, 1) /\ n \in 1..n
        /\ \A i \in 1..Len(runs) : runs'[i] = runs[i] /\ i # n /\ i \in 1..n
        /\ \A i \in 1..n : i \in 1..Len(runs) \/ i = n
    BY <1>1, <1>3, <2>1, Appended
  <2> HIDE DEF n
  <2>3. runs'[n].by = "stray" /\ runs'[n].from = {"stray"} /\ open_run' = n
    BY <1>3, <2>2 DEF NewRun
  <2>4. ASSUME NEW q \in Reports PROVE ReportOK(q)'
    <3>1. ReportOK(q) /\ q # "stray"
      BY <1>1 DEF ExperimentsInv
    <3>2. (\A i \in 1..Len(runs) : runs[i].by # q) => \A i \in 1..n : runs'[i].by # q
      BY <2>2, <2>3, <3>1
    <3>3. report[q].run \in 1..Len(runs) => runs'[report[q].run] = runs[report[q].run] /\ report[q].run \in 1..n
      BY <2>2
    <3> QED
      BY <1>1, <1>2, <2>2, <3>1, <3>2, <3>3 DEF ReportOK, Within, Underway, Complete
  <2>5. ASSUME NEW i \in 1..n PROVE RunOK(i)'
    BY <1>1, <2>2, <2>3 DEF ExperimentsInv, RunOK
  <2>6. \A i, j \in 1..n : runs'[i].by = runs'[j].by /\ runs'[i].by # "stray" => i = j
    BY <2>2, <2>3 DEF ExperimentsInv
  <2>7. OpenRunOK'
    BY <1>1, <2>3 DEF OpenRunOK
  <2>8. \A q, p \in Reports : (Underway(q) /\ Underway(p) => q = p)'
    BY <1>1, <1>2 DEF Underway
  <2> QED
    BY <1>1, <2>2, <2>3, <2>4, <2>5, <2>6, <2>7, <2>8 DEF ExperimentsInv, ExperimentsTyped
<1>4. CASE open_run # None /\ runs' = [runs EXCEPT ![open_run].from = @ \cup {"stray"}] /\ UNCHANGED open_run
  <2>1. "end" \in mishaps /\ open_run \in 1..Len(runs) /\ runs[open_run] \in ServedRun
    BY <1>1, <1>2, <1>4 DEF ExperimentsInv, OpenRunOK
  <2> DEFINE run == [runs[open_run] EXCEPT !.from = runs[open_run].from \cup {"stray"}]
  <2>2. runs[open_run].from \cup {"stray"} \in SUBSET Loggers
    BY <2>1 DEF ServedRun, Loggers
  <2>3. /\ run \in ServedRun /\ run.by = runs[open_run].by /\ run.from = runs[open_run].from \cup {"stray"}
        /\ run.count = runs[open_run].count /\ run.ended = runs[open_run].ended
    BY <2>1, <2>2 DEF ServedRun
  <2>4. runs' = [runs EXCEPT ![open_run] = run]
    BY <1>1, <1>4
  <2> HIDE DEF run
  <2>5. /\ runs' \in Seq(ServedRun) /\ Len(runs') = Len(runs) /\ runs'[open_run] = run
        /\ \A i \in 1..Len(runs) : i # open_run => runs'[i] = runs[i]
    BY <1>1, <2>1, <2>3, <2>4, Replaced
  <2>6. \A i \in 1..Len(runs) :
          /\ runs'[i].by = runs[i].by /\ runs'[i].count = runs[i].count /\ runs'[i].ended = runs[i].ended
          /\ runs'[i].from \subseteq runs[i].from \cup {"stray"}
    BY <2>3, <2>5
  <2>7. ASSUME NEW q \in Reports PROVE ReportOK(q)'
    <3>1. ReportOK(q)
      BY DEF ExperimentsInv
    <3> QED
      BY <1>1, <1>2, <2>5, <2>6, <3>1 DEF ReportOK, Within, Underway, Complete
  <2>8. ASSUME NEW i \in 1..Len(runs) PROVE RunOK(i)'
    <3>1. RunOK(i)
      BY DEF ExperimentsInv
    <3> QED
      BY <1>1, <2>1, <2>6, <3>1 DEF RunOK
  <2>9. OpenRunOK'
    BY <1>1, <2>1 DEF OpenRunOK
  <2>10. \A i, j \in 1..Len(runs) : runs'[i].by = runs'[j].by /\ runs'[i].by # "stray" => i = j
    BY <2>6 DEF ExperimentsInv
  <2>11. \A q, p \in Reports : (Underway(q) /\ Underway(p) => q = p)'
    BY <1>1, <1>2 DEF Underway
  <2> QED
    BY <1>1, <1>4, <2>1, <2>5, <2>7, <2>8, <2>9, <2>10, <2>11 DEF ExperimentsInv, ExperimentsTyped
<1> QED
  BY <1>3, <1>4 DEF LogStray

LEMMA ExperimentsBegin ==
  ExperimentsInit => ExperimentsInv
<1> SUFFICES ASSUME ExperimentsInit PROVE ExperimentsInv
  OBVIOUS
<1>1. /\ tracker = [attempted |-> FALSE, enabled |-> FALSE, active |-> None]
      /\ open_run = None /\ runs = <<>> /\ mishaps = {}
      /\ report = [r \in Reports |->
           [step |-> "new", run |-> None, entries |-> 0, left |-> 0, lost |-> 0, raised |-> FALSE, answer |-> None]]
  BY DEF ExperimentsInit
<1>2. report \in [Reports -> TrackedReport] /\ \A r \in Reports : report[r].step = "new" /\ report[r].lost = 0 /\ ~report[r].raised
  BY <1>1 DEF TrackedReport
<1>3. runs \in Seq(ServedRun) /\ Len(runs) = 0 /\ \A i \in 1..Len(runs) : FALSE
  BY <1>1
<1>4. ExperimentsTyped
  BY <1>1, <1>2, <1>3 DEF ExperimentsTyped
<1>5. \A r \in Reports : ReportOK(r) /\ ~Underway(r)
  BY <1>2, <1>3 DEF ReportOK, Within, Underway
<1> QED
  BY <1>1, <1>3, <1>4, <1>5 DEF ExperimentsInv, OpenRunOK

LEMMA ExperimentsStep ==
  ExperimentsInv /\ [ExperimentsNext]_experiment_vars => ExperimentsInv'
<1> SUFFICES ASSUME ExperimentsInv, [ExperimentsNext]_experiment_vars PROVE ExperimentsInv'
  OBVIOUS
<1>1. CASE UNCHANGED experiment_vars
  BY <1>1 DEF experiment_vars, ExperimentsInv, ExperimentsTyped, RunOK, OpenRunOK, ReportOK, Within, Underway, Complete
<1>2. ASSUME NEW r \in Reports, NEW items \in 0..MaxItems,
             \/ LogDriftAlert(r, items) \/ LogModelEvaluation(r, items)
             \/ LogCostSummary(r, items) \/ LogBenchmarkComparison(r, items)
      PROVE  ExperimentsInv'
  <2>1. items \in Nat /\ items + 1 \in Nat /\ items + 2 \in Nat
    BY TrackingAssumption
  <2> QED
    BY <1>2, <2>1, BeginReportStep DEF LogDriftAlert, LogModelEvaluation, LogCostSummary, LogBenchmarkComparison
<1>3. ASSUME NEW r \in Reports, LogModelTraining(r) PROVE ExperimentsInv'
  BY <1>3, BeginReportStep DEF LogModelTraining
<1> QED
  BY <1>1, <1>2, <1>3, StartRunStep, LogEntryStep, OutcomeStep, EndRunStep, LogStrayStep DEF ExperimentsNext

LEMMA AtMostOne ==
  ASSUME NEW S, \A x, y \in S : x = y
  PROVE  Cardinality(S) <= 1
<1>1. CASE S = {}
  BY <1>1, FS_EmptySet
<1>2. CASE S # {}
  <2>1. PICK x \in S : TRUE
    BY <1>2
  <2>2. S = {x}
    BY <2>1
  <2> QED
    BY <2>2, FS_Singleton
<1> QED
  BY <1>1, <1>2

(* What is reported to MLflow, of RecordedIsKept. *)
THEOREM ReportsAreFound ==
  ExperimentsSpec => []ReportsHaveTheirRun
<1>1. ASSUME ExperimentsInv PROVE ReportsHaveTheirRun
  <2>1. DOMAIN runs = 1..Len(runs)
    BY <1>1 DEF ExperimentsInv, ExperimentsTyped
  <2>2. \A i \in DOMAIN runs : runs[i].from \subseteq {runs[i].by} \cup (IF "end" \in mishaps THEN {"stray"} ELSE {})
    BY <1>1, <2>1 DEF ExperimentsInv, RunOK
  <2>3. ASSUME NEW r \in Reports
        PROVE  Cardinality({i \in DOMAIN runs : runs[i].by = r}) <= 1
    BY <1>1, <2>1, AtMostOne, TrackingAssumption DEF ExperimentsInv
  <2>4. ASSUME NEW r \in Reports
        PROVE  /\ report[r].step = "done" /\ report[r].answer =>
                    LET run == runs[report[r].run] IN
                    /\ run.by = r /\ run.count + report[r].lost = report[r].entries
                    /\ (run.ended \/ "end" \in mishaps)
               /\ report[r].step = "done" /\ ~report[r].answer =>
                    ~tracker.enabled \/ report[r].raised \/ mishaps # {}
    BY <1>1 DEF ExperimentsInv, ReportOK, Complete
  <2> QED
    BY <2>2, <2>3, <2>4 DEF ReportsHaveTheirRun
<1> QED
  BY <1>1, ExperimentsBegin, ExperimentsStep, PTL DEF ExperimentsSpec

-----------------------------------------------------------------------------
(* The chains of audit events. *)
Numbered(events) == \A i \in 1..Len(events) : events[i] \in 1..Len(previous)
OnDay(e) == \E d \in 1..LastDate : e \in Range(day_files[d])

AuditTyped ==
  /\ date \in 1..LastDate
  /\ previous \in Seq(Range(previous)) /\ sources \in Seq(Range(sources)) /\ Len(sources) = Len(previous)
  /\ chain \in [Auditors -> Seq(Nat)] /\ \A a \in Auditors : Numbered(chain[a])
  /\ day_files \in [1..LastDate -> Seq(Nat)]
  /\ archives \in Seq(Seq(Nat)) /\ \A i \in 1..Len(archives) : Numbered(archives[i])
  /\ just_archived \in BOOLEAN /\ (just_archived => archives # <<>>)
  /\ writers \subseteq Auditors /\ IsFiniteSet(writers)

Unwritten ==
  /\ previous = <<>> /\ archives = <<>>
  /\ \A d \in 1..LastDate : day_files[d] = <<>>
  /\ \A a \in Auditors : chain[a] = <<>>

(* an event was written to its day's file or was not, and the newest, if   *)
(* it was, is the last of the last file                                    *)
FilesEnd ==
  /\ \A e \in 1..Len(previous) : e \in unsaved \/ OnDay(e)
  /\ \A d \in 1..LastDate : d > date => day_files[d] = <<>>
  /\ previous # <<>> /\ Len(previous) \notin unsaved =>
       \E d \in 1..date : /\ day_files[d] # <<>> /\ LastOf(day_files[d]) = Len(previous)
                          /\ \A f \in 1..date : f > d => day_files[f] = <<>>

OneWriter == \A a, b \in writers : a = b

(* what may be wrong with the hash h that an event takes from the event e *)
Follows(h, from, e) ==
  \/ h = IF e = 0 THEN None ELSE e
  \/ from = "error" /\ h = None
  \/ e \in gone /\ (e \in unsaved \/ from = "archive")

(* one process alone has the newest event in memory, has archived it, or   *)
(* ended with it                                                           *)
OneChain ==
  /\ \A a \in Auditors \ writers : chain[a] = <<>>
  /\ \A a \in writers :
       IF chain[a] # <<>> THEN LastOf(chain[a]) = Len(previous)
       ELSE \/ Len(previous) \in gone
            \/ /\ archives # <<>> /\ LastOf(archives) # <<>>
               /\ LastOf(LastOf(archives)) = Len(previous)
  /\ \A e \in 1..Len(previous) : Follows(previous[e], sources[e], e - 1)

AuditInv ==
  /\ AuditTyped /\ RotationLosesNothing /\ FilesEnd
  /\ \A a \in Auditors : VerifyChain(a)
  /\ writers = {} \/ previous = <<>> => Unwritten
  /\ OneWriter => OneChain

LEMMA ElementsAre ==
  ASSUME NEW S, NEW s \in Seq(S)
  PROVE  \A e : e \in Range(s) <=> \E i \in 1..Len(s) : s[i] = e
<1>1. DOMAIN s = 1..Len(s)
  OBVIOUS
<1> QED
  BY <1>1 DEF Range

LEMMA Found ==
  ASSUME AuditTyped, NEW e
  PROVE  InFiles(e) <=> OnDay(e) \/ \E i \in 1..Len(archives) : e \in Range(archives[i])
<1>1. DOMAIN archives = 1..Len(archives)
  BY DEF AuditTyped
<1> QED
  BY <1>1 DEF InFiles, OnDay

(* where a process with nothing in memory finds the newest event *)
LEMMA LoadedFollows ==
  ASSUME AuditInv, NEW h \in LoadLastHash, Len(previous) \in gone
  PROVE  Follows(h.hash, h.from, Len(previous))
<1> DEFINE days == {d \in 1..date : day_files[d] # <<>>}
           latest == CHOOSE d \in days : \A e \in days : d >= e
<1>1. CASE h = Hash(None, "error")
  BY <1>1 DEF Hash, Follows
<1>2. CASE h # Hash(None, "error") /\ archives # <<>>
  <2>1. h.from = "archive"
    BY <1>2 DEF LoadLastHash, Hash
  <2> QED
    BY <2>1 DEF Follows
<1>3. CASE h # Hash(None, "error") /\ archives = <<>> /\ Len(previous) \notin unsaved
  <2>1. CASE previous = <<>>
    <3>0. Unwritten /\ \A d \in 1..date : d \in 1..LastDate
      BY <2>1, JournalsAssumption DEF AuditInv, AuditTyped
    <3>1. days = {} /\ Len(previous) = 0
      BY <2>1, <3>0 DEF Unwritten
    <3>2. h = Hash(None, "nothing")
      BY <1>3, <3>1 DEF LoadLastHash
    <3> QED
      BY <3>1, <3>2 DEF Follows, Hash
  <2>2. CASE previous # <<>>
    <3>1. PICK d \in 1..date : /\ day_files[d] # <<>> /\ LastOf(day_files[d]) = Len(previous)
                               /\ \A f \in 1..date : f > d => day_files[f] = <<>>
      BY <1>3, <2>2 DEF AuditInv, FilesEnd
    <3>2. d \in days /\ \A f \in days : d >= f
      <4>1. date \in Nat
        BY JournalsAssumption DEF AuditInv, AuditTyped
      <4>2. \A f \in days : f \in Nat /\ ~(f > d)
        BY <3>1, <4>1
      <4> QED
        BY <3>1, <4>1, <4>2
    <3>3. \A g \in days : (\A f \in days : g >= f) => g = d
      <4>1. days \subseteq Nat
        OBVIOUS
      <4> QED
        BY <3>2, <4>1
    <3>4. latest \in days /\ \A f \in days : latest >= f
      BY <3>2
    <3>5. latest = d /\ days # {}
      BY <3>2, <3>3, <3>4
    <3>6. h = Hash(LastOf(day_files[latest]), "day")
      BY <1>3, <3>5 DEF LoadLastHash
    <3> HIDE DEF days, latest
    <3>7. h.hash = Len(previous)
      BY <3>1, <3>5, <3>6 DEF Hash
    <3>8. Len(previous) # 0
      BY <2>2 DEF AuditInv, AuditTyped
    <3> QED
      BY <3>7, <3>8 DEF Follows
  <2> QED
    BY <2>1, <2>2
<1>4. CASE Len(previous) \in unsaved
  BY <1>4 DEF Follows
<1> QED
  BY <1>1, <1>2, <1>3, <1>4

LEMMA PreviousFollows ==
  ASSUME AuditInv, NEW a \in Auditors, \A b \in writers : a = b, NEW h \in PreviousOf(a)
  PROVE  Follows(h.hash, h.from, Len(previous))
<1>1. OneWriter /\ OneChain
  BY DEF OneWriter, AuditInv
<1>2. CASE a \in writers /\ chain[a] # <<>>
  <2>1. Len(chain[a]) \in 1..Len(chain[a]) /\ LastOf(chain[a]) = Len(previous)
    BY <1>1, <1>2 DEF AuditInv, AuditTyped, OneChain
  <2>2. LastOf(chain[a]) \in 1..Len(previous) /\ Len(previous) \in Nat
    BY <2>1 DEF AuditInv, AuditTyped, Numbered, LastOf
  <2> QED
    BY <1>2, <2>1, <2>2 DEF PreviousOf, Hash, Follows
<1>3. CASE a \in writers /\ chain[a] = <<>>
  <2>1. h \in LoadLastHash
    BY <1>3 DEF PreviousOf
  <2>2. CASE Len(previous) \in gone
    BY <2>1, <2>2, LoadedFollows
  <2>3. CASE Len(previous) \notin gone
    <3>1. archives # <<>> /\ LastOf(archives) # <<>> /\ LastOf(LastOf(archives)) = Len(previous)
      BY <1>1, <1>3, <2>3 DEF OneChain
    <3>2. h = Hash(None, "error") \/ h = Hash(Len(previous), "archive")
      BY <2>1, <3>1 DEF LoadLastHash
    <3>3. previous # <<>>
      BY <3>1 DEF AuditInv, Unwritten
    <3>4. Len(previous) # 0
      BY <3>3 DEF AuditInv, AuditTyped
    <3> QED
      BY <3>2, <3>4 DEF Hash, Follows
  <2> QED
    BY <2>2, <2>3
<1>4. CASE a \notin writers
  <2>1. writers = {}
    BY <1>4
  <2>2. Unwritten /\ date \in 1..LastDate /\ LastDate \in Nat
    BY <2>1, JournalsAssumption DEF AuditInv, AuditTyped
  <2>3. {d \in 1..date : day_files[d] # <<>>} = {}
    BY <2>2 DEF Unwritten
  <2>4. Len(previous) = 0 /\ chain[a] = <<>>
    BY <2>2 DEF Unwritten
  <2>5. h = Hash(None, "error") \/ h = Hash(None, "nothing")
    BY <2>2, <2>3, <2>4 DEF Unwritten, PreviousOf, LoadLastHash
  <2> QED
    BY <2>4, <2>5 DEF Hash, Follows
<1> QED
  BY <1>2, <1>3, <1>4

(* the event as its process has it, before it is archived *)
AppendedTo(a) == Append(chain[a], Len(previous) + 1)

LEMMA EventAppended ==
  ASSUME AuditInv, NEW a \in Auditors, AppendEvent(a)
  PROVE  LET N == Len(previous)
             L == Len(chain[a])
             events == AppendedTo(a) IN
         \E h \in PreviousOf(a) :
           /\ N \in Nat /\ L \in Nat
           /\ previous' \in Seq(Range(previous')) /\ Len(previous') = N + 1 /\ previous'[N + 1] = h.hash
           /\ sources' \in Seq(Range(sources')) /\ Len(sources') = N + 1 /\ sources'[N + 1] = h.from
           /\ \A i \in 1..N : previous'[i] = previous[i] /\ sources'[i] = sources[i]
           /\ events \in Seq(Nat) /\ Len(events) = L + 1 /\ events[L + 1] = N + 1
           /\ \A i \in 1..L : events[i] = chain[a][i]
           /\ \A i \in 1..(L + 1) : events[i] \in 1..(N + 1)
           /\ \A i \in 2..(L + 1) : previous'[events[i]] = events[i - 1]
<1> DEFINE N == Len(previous)
           L == Len(chain[a])
           events == AppendedTo(a)
<1>0. PICK h \in PreviousOf(a) : previous' = Append(previous, h.hash) /\ sources' = Append(sources, h.from)
  BY DEF AppendEvent
<1>1. /\ previous \in Seq(Range(previous)) /\ sources \in Seq(Range(sources)) /\ Len(sources) = N
      /\ chain[a] \in Seq(Nat) /\ Numbered(chain[a]) /\ VerifyChain(a)
  BY DEF AuditInv, AuditTyped
<1>2. ASSUME NEW T, NEW s \in Seq(T), T = Range(s), NEW x
      PROVE  /\ Append(s, x) \in Seq(Range(Append(s, x))) /\ Len(Append(s, x)) = Len(s) + 1
             /\ Append(s, x)[Len(s) + 1] = x /\ \A i \in 1..Len(s) : Append(s, x)[i] = s[i]
  <2> DEFINE S == T \cup {x}
  <2>1. s \in Seq(S) /\ x \in S
    OBVIOUS
  <2> HIDE DEF S
  <2>2. Range(Append(s, x)) = S
    BY <1>2, <2>1, RangeAppended DEF S
  <2> QED
    BY <2>1, <2>2, Appended
<1>3. /\ previous' \in Seq(Range(previous')) /\ Len(previous') = N + 1 /\ previous'[N + 1] = h.hash /\ N \in Nat
      /\ \A i \in 1..N : previous'[i] = previous[i]
  BY <1>0, <1>1, <1>2
<1>4. /\ sources' \in Seq(Range(sources')) /\ Len(sources') = N + 1 /\ sources'[N + 1] = h.from
      /\ \A i \in 1..N : sources'[i] = sources[i]
  BY <1>0, <1>1, <1>2
<1>5. /\ events \in Seq(Nat) /\ Len(events) = L + 1 /\ events[L + 1] = N + 1 /\ L \in Nat
      /\ \A i \in 1..L : events[i] = chain[a][i]
  BY <1>1, <1>3, Appended DEF AppendedTo
<1> HIDE DEF events
<1>6. \A i \in 1..L : chain[a][i] \in 1..N
  BY <1>1 DEF Numbered
<1>7. ASSUME NEW i \in 1..(L + 1) PROVE events[i] \in 1..(N + 1)
  <2> HIDE DEF N, L
  <2>1. N \in Nat /\ L \in Nat
    BY <1>3, <1>5
  <2>2. i \in 1..L \/ i = L + 1
    BY <2>1
  <2>3. 1..N \subseteq 1..(N + 1) /\ N + 1 \in 1..(N + 1)
    BY <2>1
  <2> QED
    BY <1>5, <1>6, <2>2, <2>3
<1>8. ASSUME NEW i \in 2..(L + 1) PROVE previous'[events[i]] = events[i - 1]
  <2>1. CASE i \in 2..L
    <3>0. i \in 1..L /\ i - 1 \in 1..L
      BY <1>5, <2>1
    <3>1. events[i] = chain[a][i] /\ events[i - 1] = chain[a][i - 1] /\ chain[a][i] \in 1..N
      BY <1>5, <1>6, <3>0
    <3>2. previous[chain[a][i]] = chain[a][i - 1]
      BY <1>1, <2>1 DEF VerifyChain
    <3> QED
      BY <1>3, <3>1, <3>2
  <2>2. CASE i = L + 1
    <3>1. L \in 1..L /\ i - 1 = L /\ chain[a] # <<>>
      BY <1>5, <2>2
    <3>2. h.hash = chain[a][L]
      BY <3>1 DEF PreviousOf, LastOf, Hash
    <3> QED
      BY <1>3, <1>5, <2>2, <3>1, <3>2
  <2> QED
    BY <1>5, <2>1, <2>2
<1> QED
  BY <1>3, <1>4, <1>5, <1>7, <1>8 DEF events

LEMMA EventFiled ==
  ASSUME AuditInv, NEW a \in Auditors, AppendEvent(a)
  PROVE  /\ day_files' \in [1..LastDate -> Seq(Nat)]
         /\ \A d \in 1..LastDate : Range(day_files[d]) \subseteq Range(day_files'[d])
         /\ unsaved \subseteq unsaved'
         /\ FilesEnd'
<1>0. PICK n \in Nat : n = Len(previous)
  BY DEF AuditInv, AuditTyped
<1>1. /\ day_files \in [1..LastDate -> Seq(Nat)] /\ date \in 1..LastDate /\ n + 1 \in Nat /\ n \in Nat
      /\ Len(previous') = n + 1 /\ previous' \in Seq(Range(previous')) /\ date' = date
      /\ LastDate \in Nat
  <2>1. PICK h \in PreviousOf(a) : previous' \in Seq(Range(previous')) /\ Len(previous') = Len(previous) + 1
    BY EventAppended
  <2> QED
    BY <1>0, <2>1, JournalsAssumption DEF AuditInv, AuditTyped, AppendEvent
<1>2. previous' # <<>>
  BY <1>1
<1>3. FilesEnd
  BY DEF AuditInv
<1>4. ASSUME \A e \in 1..n : e \in unsaved \/ OnDay(e) => e \in unsaved' \/ OnDay(e)', n + 1 \in unsaved' \/ OnDay(n + 1)'
      PROVE  \A e \in 1..Len(previous') : e \in unsaved' \/ OnDay(e)'
  <2>1. \A e \in 1..(n + 1) : e \in 1..n \/ e = n + 1
    BY <1>1
  <2>2. \A e \in 1..n : e \in unsaved \/ OnDay(e)
    BY <1>0, <1>3 DEF FilesEnd
  <2>3. ASSUME NEW e \in 1..Len(previous') PROVE e \in unsaved' \/ OnDay(e)'
    BY <1>1, <1>4, <2>1, <2>2
  <2> QED
    BY <2>3
<1>5. CASE day_files' = [day_files EXCEPT ![date] = Append(@, n + 1)] /\ UNCHANGED unsaved
  <2> DEFINE longer == Append(day_files[date], n + 1)
  <2>1. /\ longer \in Seq(Nat) /\ Range(longer) = Range(day_files[date]) \cup {n + 1}
        /\ longer # <<>> /\ longer[Len(longer)] = n + 1
    <3>1. day_files[date] \in Seq(Nat)
      BY <1>1
    <3>2. /\ longer \in Seq(Nat) /\ Len(longer) = Len(day_files[date]) + 1 /\ Len(day_files[date]) \in Nat
          /\ longer[Len(day_files[date]) + 1] = n + 1
      BY <1>1, <3>1, Appended
    <3>3. Range(longer) = Range(day_files[date]) \cup {n + 1}
      BY <1>1, <3>1, RangeAppended
    <3> HIDE DEF longer
    <3> QED
      BY <3>2, <3>3
  <2>2. day_files' = [day_files EXCEPT ![date] = longer]
    BY <1>5
  <2> HIDE DEF longer
  <2>3. /\ day_files' \in [1..LastDate -> Seq(Nat)] /\ day_files'[date] = longer
        /\ \A d \in 1..LastDate : d # date => day_files'[d] = day_files[d]
    BY <1>1, <2>1, <2>2
  <2>4. \A d \in 1..LastDate : Range(day_files[d]) \subseteq Range(day_files'[d])
    BY <2>1, <2>3
  <2>5. \A e \in 1..Len(previous') : e \in unsaved' \/ OnDay(e)'
    <3>1. ASSUME NEW e, OnDay(e) PROVE OnDay(e)'
      <4>1. PICK d \in 1..LastDate : e \in Range(day_files[d])
        BY <3>1 DEF OnDay
      <4>2. e \in Range(day_files'[d])
        BY <2>4, <4>1
      <4> QED
        BY <4>2 DEF OnDay
    <3>2. OnDay(n + 1)'
      BY <1>1, <2>1, <2>3 DEF OnDay
    <3> QED
      BY <1>4, <1>5, <3>1, <3>2
  <2>6. \A d \in 1..LastDate : d > date' => day_files'[d] = <<>>
    BY <1>1, <1>3, <2>3 DEF FilesEnd
  <2>7. \E d \in 1..date' : /\ day_files'[d] # <<>> /\ LastOf(day_files'[d]) = Len(previous')
                            /\ \A f \in 1..date' : f > d => day_files'[f] = <<>>
    <3>1. date \in 1..date /\ \A f \in 1..date : ~(f > date)
      BY <1>1
    <3> QED
      BY <1>1, <2>1, <2>3, <3>1 DEF LastOf
  <2> QED
    BY <1>5, <2>3, <2>4, <2>5, <2>6, <2>7 DEF FilesEnd
<1>6. CASE unsaved' = unsaved \cup {n + 1} /\ UNCHANGED day_files
  <2>1. \A e \in 1..Len(previous') : e \in unsaved' \/ OnDay(e)'
    BY <1>4, <1>6 DEF OnDay
  <2> QED
    BY <1>0, <1>1, <1>3, <1>6, <2>1 DEF FilesEnd
<1> QED
  BY <1>0, <1>5, <1>6 DEF AppendEvent

(* an archive written with the events filed, perhaps over the last one *)
ArchivedWith(filed) ==
  /\ archives' \in Seq(Seq(Nat)) /\ archives' # <<>> /\ LastOf(archives') = filed
  /\ Len(archives') >= Len(archives)
  /\ \A i \in 1..Len(archives') : archives'[i] = filed \/ (i \in 1..Len(archives) /\ archives'[i] = archives[i])
  /\ \A i \in 1..Len(archives) : \/ archives'[i] = archives[i]
                                 \/ Range(archives[i]) \subseteq Range(archives'[i]) \cup overwritten'
  /\ overwritten \subseteq overwritten'
  /\ just_archived' = TRUE

LEMMA Archived ==
  ASSUME AuditTyped, NEW filed \in Seq(Nat), Archives(filed)
  PROVE  ArchivedWith(filed)
<1> DEFINE K == Len(archives)
<1>1. archives \in Seq(Seq(Nat)) /\ K \in Nat
  BY DEF AuditTyped
<1>2. CASE just_archived
  <2>1. /\ archives' = [archives EXCEPT ![K] = filed] /\ just_archived' = TRUE
        /\ overwritten' = overwritten \cup (Range(LastOf(archives)) \ Range(filed))
    BY <1>2 DEF Archives
  <2>2. K \in 1..K /\ archives # <<>>
    BY <1>1, <1>2 DEF AuditTyped
  <2>3. /\ archives' \in Seq(Seq(Nat)) /\ Len(archives') = K /\ archives'[K] = filed
        /\ \A i \in 1..K : i # K => archives'[i] = archives[i]
    BY <1>1, <2>1, <2>2
  <2>4. archives' # <<>>
    BY <1>1, <2>2, <2>3
  <2>5. ASSUME NEW i \in 1..K
        PROVE  archives'[i] = archives[i] \/ Range(archives[i]) \subseteq Range(archives'[i]) \cup overwritten'
    BY <2>1, <2>3 DEF LastOf
  <2>6. LastOf(archives') = filed /\ \A i \in 1..Len(archives') : archives'[i] = filed \/ (i \in 1..K /\ archives'[i] = archives[i])
    BY <2>3 DEF LastOf
  <2> HIDE DEF K
  <2>7. Len(archives') >= K
    BY <1>1, <2>3
  <2> QED
    BY <2>1, <2>3, <2>4, <2>5, <2>6, <2>7 DEF ArchivedWith, K
<1>3. CASE ~just_archived
  <2>1. archives' = Append(archives, filed) /\ just_archived' = TRUE /\ overwritten' = overwritten
    BY <1>3 DEF Archives
  <2>2. /\ archives' \in Seq(Seq(Nat)) /\ Len(archives') = K + 1 /\ archives'[K + 1] = filed
        /\ \A i \in 1..K : archives'[i] = archives[i]
    BY <1>1, <2>1, Appended
  <2>3. archives' # <<>> /\ LastOf(archives') = filed
    BY <1>1, <2>2 DEF LastOf
  <2>4. \A i \in 1..(K + 1) : i \in 1..K \/ i = K + 1
    BY <1>1
  <2> QED
    BY <1>1, <2>1, <2>2, <2>3, <2>4 DEF ArchivedWith
<1> QED
  BY <1>2, <1>3

LEMMA EventKept ==
  ASSUME AuditInv, NEW a \in Auditors, AppendEvent(a)
  PROVE  LET events == AppendedTo(a) IN
         \/ /\ chain' = [chain EXCEPT ![a] = <<>>] /\ ArchivedWith(events)
         \/ /\ chain' = [chain EXCEPT ![a] = events]
            /\ \/ UNCHANGED <<archives, just_archived, overwritten>>
               \/ \E filed \in Seq(Nat) :
                    /\ ArchivedWith(filed) /\ Len(filed) <= Len(events)
                    /\ \A i \in 1..Len(filed) : filed[i] = events[i]
<1> DEFINE events == AppendedTo(a)
<1>1. events \in Seq(Nat) /\ AuditTyped
  BY EventAppended DEF AuditInv
<1>2. Rotate(a, events) \/ RotateFails(a, events) \/ KeepInMemory(a, events)
  BY DEF AppendEvent, AppendedTo
<1> HIDE DEF events
<1>3. CASE Rotate(a, events)
  BY <1>1, <1>3, Archived DEF Rotate, events
<1>4. CASE RotateFails(a, events)
  <2>1. PICK n \in 0..Len(events) : Archives(SubSeq(events, 1, n))
    BY <1>4 DEF RotateFails
  <2> DEFINE filed == SubSeq(events, 1, n)
  <2>2. filed \in Seq(Nat) /\ Len(filed) <= Len(events) /\ \A i \in 1..Len(filed) : filed[i] = events[i]
    BY <1>1, <2>1
  <2>3. Archives(filed)
    BY <2>1
  <2> HIDE DEF filed
  <2> QED
    BY <1>1, <1>4, <2>2, <2>3, Archived DEF RotateFails, events
<1>5. CASE KeepInMemory(a, events)
  BY <1>5 DEF KeepInMemory, events
<1> QED
  BY <1>2, <1>3, <1>4, <1>5

LEMMA ChainAppended ==
  ASSUME AuditInv, NEW a \in Auditors, AppendEvent(a)
  PROVE  AuditTyped' /\ \A b \in Auditors : VerifyChain(b)'
<1> DEFINE N == Len(previous)
           L == Len(chain[a])
           events == AppendedTo(a)
<1>1. /\ N \in Nat /\ L \in Nat
      /\ previous' \in Seq(Range(previous')) /\ Len(previous') = N + 1
      /\ sources' \in Seq(Range(sources')) /\ Len(sources') = N + 1
      /\ \A i \in 1..N : previous'[i] = previous[i]
      /\ events \in Seq(Nat) /\ Len(events) = L + 1
      /\ \A i \in 1..(L + 1) : events[i] \in 1..(N + 1)
      /\ \A i \in 2..(L + 1) : previous'[events[i]] = events[i - 1]
  BY EventAppended
<1> HIDE DEF events
<1>2. chain \in [Auditors -> Seq(Nat)] /\ \A b \in Auditors : Numbered(chain[b]) /\ VerifyChain(b)
  BY DEF AuditInv, AuditTyped
<1>3. /\ chain' \in [Auditors -> Seq(Nat)]
      /\ \A b \in Auditors : b # a => chain'[b] = chain[b]
      /\ chain'[a] = <<>> \/ chain'[a] = events
  <2>1. chain' = [chain EXCEPT ![a] = <<>>] \/ chain' = [chain EXCEPT ![a] = events]
    BY EventKept DEF events
  <2>2. <<>> \in Seq(Nat)
    OBVIOUS
  <2> QED
    BY <1>1, <1>2, <2>1, <2>2
<1>4. ASSUME NEW b \in Auditors PROVE Numbered(chain[b])' /\ VerifyChain(b)'
  <2>1. CASE b # a
    <3>1. \A i \in 1..Len(chain[b]) : chain[b][i] \in 1..N /\ chain[b][i] \in 1..(N + 1)
      BY <1>1, <1>2 DEF Numbered
    <3>2. \A i \in 2..Len(chain[b]) : i \in 1..Len(chain[b])
      BY <1>2
    <3>3. \A i \in 2..Len(chain[b]) : previous'[chain[b][i]] = chain[b][i - 1]
      BY <1>1, <1>2, <3>1, <3>2 DEF VerifyChain
    <3> QED
      BY <1>1, <1>3, <2>1, <3>1, <3>3 DEF Numbered, VerifyChain
  <2>2. CASE b = a /\ chain'[a] = <<>>
    <3>1. Len(chain'[b]) = 0
      BY <2>2
    <3> QED
      BY <3>1 DEF Numbered, VerifyChain
  <2>3. CASE b = a /\ chain'[a] = events
    <3> HIDE DEF N, L
    <3> QED
      BY <1>1, <2>3 DEF Numbered, VerifyChain
  <2> QED
    BY <1>3, <2>1, <2>2, <2>3
<1>5. /\ archives' \in Seq(Seq(Nat)) /\ \A i \in 1..Len(archives') : Numbered(archives[i])'
      /\ just_archived' \in BOOLEAN /\ (just_archived' => archives' # <<>>)
  <2>1. /\ archives \in Seq(Seq(Nat)) /\ \A i \in 1..Len(archives) : Numbered(archives[i])
        /\ just_archived \in BOOLEAN /\ (just_archived => archives # <<>>)
    BY DEF AuditInv, AuditTyped
  <2>2. \A i \in 1..Len(archives) : \A j \in 1..Len(archives[i]) : archives[i][j] \in 1..(N + 1)
    <3>1. 1..N \subseteq 1..(N + 1)
      BY <1>1
    <3> QED
      BY <2>1, <3>1 DEF Numbered
  <2>3. CASE UNCHANGED <<archives, just_archived>>
    BY <1>1, <2>1, <2>2, <2>3 DEF Numbered
  <2>4. ASSUME NEW filed \in Seq(Nat), ArchivedWith(filed), Len(filed) <= Len(events),
               \A i \in 1..Len(filed) : filed[i] = events[i]
        PROVE  /\ archives' \in Seq(Seq(Nat)) /\ \A i \in 1..Len(archives') : Numbered(archives[i])'
               /\ just_archived' = TRUE /\ archives' # <<>>
    <3>1. \A j \in 1..Len(filed) : filed[j] \in 1..(N + 1)
      <4>1. \A j \in 1..Len(filed) : j \in 1..(L + 1)
        BY <1>1, <2>4
      <4> QED
        BY <1>1, <2>4, <4>1
    <3>2. ASSUME NEW i \in 1..Len(archives') PROVE Numbered(archives[i])'
      <4>1. archives'[i] = filed \/ (i \in 1..Len(archives) /\ archives'[i] = archives[i])
        BY <2>4 DEF ArchivedWith
      <4>2. CASE archives'[i] = filed
        BY <1>1, <3>1, <4>2 DEF Numbered
      <4>3. CASE i \in 1..Len(archives) /\ archives'[i] = archives[i]
        BY <1>1, <2>2, <4>3 DEF Numbered
      <4> QED
        BY <4>1, <4>2, <4>3
    <3> QED
      BY <2>4, <3>2 DEF ArchivedWith
  <2>5. UNCHANGED <<archives, just_archived>> \/ \E filed \in Seq(Nat) :
          /\ ArchivedWith(filed) /\ Len(filed) <= Len(events)
          /\ \A i \in 1..Len(filed) : filed[i] = events[i]
    BY <1>1, EventKept DEF events
  <2> QED
    BY <2>3, <2>4, <2>5
<1>6. writers' = writers \cup {a} /\ date' = date
  BY DEF AppendEvent
<1>7. writers' \subseteq Auditors /\ IsFiniteSet(writers') /\ date' \in 1..LastDate
  BY <1>6, FS_AddElement DEF AuditInv, AuditTyped
<1>8. day_files' \in [1..LastDate -> Seq(Nat)]
  BY EventFiled
<1> QED
  BY <1>1, <1>3, <1>4, <1>5, <1>7, <1>8 DEF AuditTyped

LEMMA NothingIsLost ==
  ASSUME AuditInv, NEW a \in Auditors, AppendEvent(a)
  PROVE  RotationLosesNothing'
<1> DEFINE N == Len(previous)
           events == AppendedTo(a)
<1>1. AuditTyped /\ AuditTyped' /\ gone' = gone
  BY ChainAppended DEF AuditInv, AppendEvent
<1>2. /\ N \in Nat /\ Len(previous') = N + 1 /\ events \in Seq(Nat)
      /\ \A x \in Range(chain[a]) : x \in Range(events)
      /\ N + 1 \in Range(events)
  <2>1. chain[a] \in Seq(Nat) /\ N + 1 \in Nat
    BY <1>1, EventAppended DEF AuditTyped
  <2>2. Range(events) = Range(chain[a]) \cup {N + 1}
    BY <2>1, RangeAppended DEF AppendedTo
  <2> QED
    BY <2>2, EventAppended
<1> HIDE DEF events
<1>3. DOMAIN archives' = 1..Len(archives') /\ DOMAIN archives = 1..Len(archives) /\ Len(archives) \in Nat /\ Len(archives') \in Nat
  BY <1>1 DEF AuditTyped
<1>4. overwritten \subseteq overwritten'
  BY EventKept DEF ArchivedWith
(* what was in an archive is there still, or was written over *)
<1>5. ASSUME NEW x, NEW i \in 1..Len(archives), x \in Range(archives[i])
      PROVE  InFiles(x)' \/ x \in overwritten'
  <2>1. CASE UNCHANGED archives
    BY <1>3, <1>5, <2>1 DEF InFiles
  <2>2. ASSUME NEW filed, ArchivedWith(filed)
        PROVE  InFiles(x)' \/ x \in overwritten'
    <3>1. i \in DOMAIN archives'
      BY <1>3, <1>5, <2>2 DEF ArchivedWith
    <3>2. x \in Range(archives'[i]) \/ x \in overwritten'
      BY <1>5, <2>2 DEF ArchivedWith
    <3> QED
      BY <3>1, <3>2 DEF InFiles
  <2> QED
    BY <2>1, <2>2, EventKept
<1>6. ASSUME NEW x \in Range(events) PROVE InFiles(x)' \/ x \in Range(chain'[a])
  <2>1. CASE chain' = [chain EXCEPT ![a] = events]
    BY <1>1, <2>1 DEF AuditTyped
  <2>2. CASE ArchivedWith(events)
    <3>1. Len(archives') \in DOMAIN archives'
      BY <1>3, <2>2 DEF ArchivedWith
    <3> QED
      BY <2>2, <3>1 DEF InFiles, ArchivedWith, LastOf
  <2> QED
    BY <2>1, <2>2, EventKept DEF events
<1>7. ASSUME NEW b \in Auditors, b # a PROVE chain'[b] = chain[b]
  BY <1>1, <1>7, EventKept DEF AuditTyped
<1>8. ASSUME NEW e \in 1..(N + 1)
      PROVE  \/ InFiles(e)'
             \/ e \in unsaved' /\ (e \in gone' \cup overwritten' \/ \E b \in Auditors : e \in Range(chain'[b]))
  <2>1. e \in unsaved' \/ InFiles(e)'
    BY <1>2, EventFiled DEF FilesEnd, OnDay, InFiles
  <2>2. e \in 1..N \/ e = N + 1
    BY <1>2
  <2>3. CASE e \in 1..N
    <3>1. InFiles(e) \/ e \in gone \cup overwritten \/ \E b \in Auditors : e \in Range(chain[b])
      BY <2>3 DEF AuditInv, RotationLosesNothing
    <3>2. ASSUME InFiles(e) PROVE InFiles(e)' \/ e \in overwritten'
      <4>1. OnDay(e) => InFiles(e)'
        BY EventFiled DEF OnDay, InFiles
      <4> QED
        BY <1>1, <1>5, <3>2, <4>1, Found
    <3>3. ASSUME NEW b \in Auditors, e \in Range(chain[b])
          PROVE  InFiles(e)' \/ \E c \in Auditors : e \in Range(chain'[c])
      BY <1>2, <1>6, <1>7, <3>3
    <3> QED
      BY <1>1, <1>4, <2>1, <3>1, <3>2, <3>3
  <2>4. CASE e = N + 1
    <3>1. e \in Range(events)
      BY <1>2, <2>4
    <3> QED
      BY <1>6, <2>1, <3>1
  <2> QED
    BY <2>2, <2>3, <2>4
<1> QED
  BY <1>2, <1>8 DEF RotationLosesNothing

LEMMA AppendEventStep ==
  ASSUME AuditInv, NEW a \in Auditors, AppendEvent(a)
  PROVE  AuditInv'
<1> DEFINE N == Len(previous)
           L == Len(chain[a])
           events == AppendedTo(a)
<1>1. /\ AuditTyped /\ AuditTyped' /\ writers' = writers \cup {a} /\ gone' = gone /\ unsaved \subseteq unsaved'
      /\ \A b \in Auditors : VerifyChain(b)'
  BY ChainAppended, EventFiled DEF AuditInv, AppendEvent
<1>2. PICK h \in PreviousOf(a) :
        /\ N \in Nat /\ L \in Nat /\ Len(previous') = N + 1
        /\ previous'[N + 1] = h.hash /\ sources'[N + 1] = h.from
        /\ \A i \in 1..N : previous'[i] = previous[i] /\ sources'[i] = sources[i]
        /\ Len(events) = L + 1 /\ events[L + 1] = N + 1
  BY EventAppended
<1> HIDE DEF events
<1>3. previous' # <<>> /\ writers' # {}
  BY <1>1, <1>2
<1>4. ASSUME OneWriter' PROVE OneChain'
  <2>1. (\A b \in writers : a = b) /\ OneWriter /\ writers' = {a}
    BY <1>1, <1>4 DEF OneWriter
  <2>2. OneChain
    BY <2>1 DEF AuditInv
  <2>3. Follows(h.hash, h.from, N)
    BY <2>1, PreviousFollows
  <2>4. ASSUME NEW b \in Auditors \ writers' PROVE chain'[b] = <<>>
    <3>1. chain[b] = <<>> /\ b # a
      BY <1>1, <2>2 DEF OneChain
    <3> QED
      BY <1>1, <3>1, EventKept DEF AuditTyped
  <2>5. events # <<>> /\ LastOf(events) = N + 1
    BY <1>2 DEF LastOf
  <2>6. IF chain'[a] # <<>> THEN LastOf(chain'[a]) = N + 1
        ELSE archives' # <<>> /\ LastOf(archives') # <<>> /\ LastOf(LastOf(archives')) = N + 1
    <3>1. CASE chain' = [chain EXCEPT ![a] = events]
      BY <1>1, <2>5, <3>1 DEF AuditTyped
    <3>2. CASE chain' = [chain EXCEPT ![a] = <<>>] /\ ArchivedWith(events)
      BY <1>1, <2>5, <3>2 DEF AuditTyped, ArchivedWith
    <3> QED
      BY <3>1, <3>2, EventKept DEF events
  <2>7. \A x, from, e : Follows(x, from, e) => Follows(x, from, e)'
    BY <1>1 DEF Follows
  <2>8. ASSUME NEW e \in 1..(N + 1) PROVE Follows(previous[e], sources[e], e - 1)'
    <3>1. e \in 1..N \/ e = N + 1
      BY <1>2
    <3>2. CASE e \in 1..N
      BY <1>2, <2>2, <2>7, <3>2 DEF OneChain
    <3>3. CASE e = N + 1
      <4>1. e - 1 = N /\ previous'[e] = h.hash /\ sources'[e] = h.from
        BY <1>2, <3>3
      <4> QED
        BY <2>3, <2>7, <4>1
    <3> QED
      BY <3>1, <3>2, <3>3
  <2> QED
    BY <1>2, <2>1, <2>4, <2>6, <2>8 DEF OneChain
<1> QED
  BY <1>1, <1>3, <1>4, NothingIsLost, EventFiled DEF AuditInv

LEMMA RestartAuditorStep ==
  ASSUME AuditInv, NEW a \in Auditors, RestartAuditor(a)
  PROVE  AuditInv'
<1>1. /\ chain' = [chain EXCEPT ![a] = <<>>] /\ gone' = gone \cup Range(chain[a]) /\ chain[a] # <<>>
      /\ UNCHANGED <<date, day_files, archives, just_archived, previous, sources, writers, unsaved, overwritten>>
      /\ chain \in [Auditors -> Seq(Nat)]
  BY DEF RestartAuditor, AuditInv, AuditTyped
<1>2. /\ chain' \in [Auditors -> Seq(Nat)] /\ chain'[a] = <<>> /\ Len(chain'[a]) = 0
      /\ \A b \in Auditors : b # a => chain'[b] = chain[b]
  BY <1>1
<1>3. \A b \in Auditors : Numbered(chain[b])' /\ VerifyChain(b)'
  BY <1>1, <1>2 DEF AuditInv, AuditTyped, Numbered, VerifyChain
<1>4. AuditTyped'
  BY <1>1, <1>2, <1>3 DEF AuditInv, AuditTyped, Numbered
<1>5. RotationLosesNothing'
  <2>1. ASSUME NEW e \in 1..Len(previous), NEW b \in Auditors, e \in Range(chain[b])
        PROVE  e \in gone' \/ \E c \in Auditors : e \in Range(chain'[c])
    BY <1>1, <1>2, <2>1
  <2>2. \A e : InFiles(e)' <=> InFiles(e)
    BY <1>1 DEF InFiles
  <2> QED
    BY <1>1, <2>1, <2>2 DEF AuditInv, RotationLosesNothing
<1>6. Unwritten => Unwritten'
  BY <1>1, <1>2 DEF Unwritten
<1>7. FilesEnd'
  BY <1>1 DEF AuditInv, FilesEnd, OnDay
<1>8. ASSUME OneWriter' PROVE OneChain'
  <2>1. OneWriter /\ OneChain
    BY <1>1, <1>8 DEF OneWriter, AuditInv
  <2>2. a \in writers /\ LastOf(chain[a]) = Len(previous)
    BY <1>1, <2>1 DEF OneChain
  <2>3. Len(previous) \in gone'
    <3>1. Len(chain[a]) \in DOMAIN chain[a]
      BY <1>1
    <3> QED
      BY <1>1, <2>2, <3>1 DEF LastOf, Range
  <2>4. \A b \in writers : b = a
    BY <2>1, <2>2 DEF OneWriter
  <2>5. \A x, from, e : Follows(x, from, e) => Follows(x, from, e)'
    BY <1>1 DEF Follows
  <2> QED
    BY <1>1, <1>2, <2>1, <2>3, <2>4, <2>5 DEF OneChain
<1> QED
  BY <1>1, <1>3, <1>4, <1>5, <1>6, <1>7, <1>8 DEF AuditInv

LEMMA AuditStep ==
  AuditInv /\ [JournalsNext]_journal_vars => AuditInv'
<1> SUFFICES ASSUME AuditInv, [JournalsNext]_journal_vars PROVE AuditInv'
  OBVIOUS
<1>1. CASE UNCHANGED <<chain, day_files, archives, previous, sources, writers, unsaved, gone, overwritten>>
           /\ date' \in 1..LastDate /\ date' >= date /\ just_archived' \in {just_archived, FALSE}
  <2>1. AuditTyped'
    <3>1. just_archived' \in BOOLEAN /\ (just_archived' => archives' # <<>>)
      <4>1. just_archived \in BOOLEAN /\ (just_archived => archives # <<>>)
        BY DEF AuditInv, AuditTyped
      <4>2. CASE just_archived' = just_archived
        BY <1>1, <4>1, <4>2, Zenon
      <4>3. CASE just_archived' = FALSE
        BY <4>3, Zenon
      <4> QED
        BY <1>1, <4>2, <4>3, Zenon
    <3> QED
      BY <1>1, <3>1 DEF AuditInv, AuditTyped, Numbered
  <2>2. FilesEnd'
    <3>1. FilesEnd /\ date \in Nat /\ date' \in Nat /\ date' <= LastDate /\ LastDate \in Nat
      BY <1>1, JournalsAssumption DEF AuditInv, AuditTyped
    <3>2. \A d \in 1..LastDate : d > date' => day_files'[d] = <<>>
      BY <1>1, <3>1 DEF FilesEnd
    <3>3. \A d \in 1..date : d \in 1..date'
      BY <1>1, <3>1
    <3>4. \A f \in 1..date' : f \in 1..LastDate /\ (f \in 1..date \/ f > date)
      BY <1>1, <3>1
    <3> QED
      BY <1>1, <3>1, <3>2, <3>3, <3>4 DEF FilesEnd, OnDay
  <2> QED
    BY <1>1, <2>1, <2>2
    DEF AuditInv, RotationLosesNothing, InFiles, VerifyChain, Unwritten, OneWriter, OneChain, Follows
<1>2. BusNext \/ UNCHANGED journal_vars => UNCHANGED audit_vars
  BY DEF BusNext, BeginInsert, CommitInsert, CallHandler, EndPublish, RegisterHandler, StampPasses, BeginWalk, ReadPage, journal_vars
<1>3. date \in 1..LastDate /\ date \in Nat
  BY JournalsAssumption DEF AuditInv, AuditTyped
<1>4. CASE NextDay \/ SecondEnds \/ UNCHANGED audit_vars
  <2>1. UNCHANGED <<chain, day_files, archives, previous, sources, writers, unsaved, gone, overwritten>>
    BY <1>4 DEF NextDay, SecondEnds, audit_vars
  <2>2. date' \in 1..LastDate /\ date' >= date
    BY <1>3, <1>4, JournalsAssumption DEF NextDay, SecondEnds, audit_vars
  <2>3. just_archived' \in {just_archived, FALSE}
    BY <1>4, Zenon DEF NextDay, SecondEnds, audit_vars
  <2> QED
    BY <1>1, <2>1, <2>2, <2>3
<1> QED
  BY <1>2, <1>4, AppendEventStep, RestartAuditorStep DEF JournalsNext, AuditNext

LEMMA AuditBegin ==
  JournalsInit => AuditInv
<1> SUFFICES ASSUME AuditInit PROVE AuditInv
  BY DEF JournalsInit
<1>1. /\ date = 1 /\ chain = [a \in Auditors |-> <<>>] /\ day_files = [d \in 1..LastDate |-> <<>>]
      /\ archives = <<>> /\ previous = <<>> /\ sources = <<>> /\ just_archived = FALSE /\ writers = {} /\ unsaved = {}
  BY DEF AuditInit
<1>2. /\ date \in 1..LastDate /\ chain \in [Auditors -> Seq(Nat)] /\ day_files \in [1..LastDate -> Seq(Nat)]
      /\ archives \in Seq(Seq(Nat)) /\ Len(archives) = 0 /\ Len(previous) = 0 /\ previous \in Seq(Range(previous))
      /\ Len(sources) = 0 /\ sources \in Seq(Range(sources))
      /\ \A a \in Auditors : Len(chain[a]) = 0
  BY <1>1, JournalsAssumption
<1>3. AuditTyped
  <2>1. \A i \in 1..0 : FALSE
    OBVIOUS
  <2>2. IsFiniteSet(writers) /\ writers \subseteq Auditors
    BY <1>1, FS_EmptySet
  <2>3. \A a \in Auditors : Numbered(chain[a])
    BY <1>2, <2>1 DEF Numbered
  <2> QED
    BY <1>1, <1>2, <2>1, <2>2, <2>3 DEF AuditTyped
<1>4. RotationLosesNothing /\ \A a \in Auditors : VerifyChain(a)
  BY <1>2 DEF RotationLosesNothing, VerifyChain
<1>5. Unwritten /\ OneChain /\ FilesEnd
  BY <1>1, <1>2 DEF Unwritten, OneChain, FilesEnd
<1> QED
  BY <1>3, <1>4, <1>5 DEF AuditInv

LEMMA OneOfAtMostOne ==
  ASSUME NEW S, IsFiniteSet(S), Cardinality(S) <= 1
  PROVE  \A x, y \in S : x = y
<1> SUFFICES ASSUME NEW x \in S, NEW y \in S, x # y PROVE FALSE
  OBVIOUS
<1>1. IsFiniteSet({x}) /\ Cardinality({x}) = 1 /\ y \notin {x} /\ {x} \cup {y} \in SUBSET S
  BY FS_Singleton
<1>2. Cardinality({x} \cup {y}) = 2
  BY <1>1, FS_AddElement
<1> QED
  BY <1>1, <1>2, FS_Subset, FS_CardinalityType

(* What is written of audit events, of RecordedIsKept. *)
THEOREM EventsAreKept ==
  JournalsSpec => [](RotationLosesNothing /\ ChainIsOne)
<1>1. ASSUME AuditInv PROVE RotationLosesNothing /\ ChainIsOne
  <2>1. Cardinality(writers) <= 1 => OneWriter
    BY <1>1, OneOfAtMostOne DEF AuditInv, AuditTyped, OneWriter
  <2>2. ASSUME NEW e \in 1..Len(previous), Follows(previous[e], sources[e], e - 1)
        PROVE  \/ previous[e] = IF e = 1 THEN None ELSE e - 1
               \/ sources[e] = "error" /\ previous[e] = None
               \/ e - 1 \in gone /\ (e - 1 \in unsaved \/ sources[e] = "archive")
    <3>1. e - 1 = 0 <=> e = 1
      BY <1>1 DEF AuditInv, AuditTyped
    <3> QED
      BY <2>2, <3>1 DEF Follows
  <2> QED
    BY <1>1, <2>1, <2>2 DEF AuditInv, OneChain, ChainIsOne
<1> QED
  BY <1>1, AuditBegin, AuditStep, PTL DEF JournalsSpec

-----------------------------------------------------------------------------
(* The event bus: handlers and pages. *)
Publication ==
  [step : {"new", "inserting", "handlers", "done"}, at : Nat \cup {None}, next : Nat \ {0}, expecting : SUBSET Handlers]

BusTyped ==
  /\ stamp \in Nat
  /\ published \in [Events -> Publication]
  /\ \A e \in Events : published[e].step # "new" => published[e].at \in Nat
  /\ registered \in Seq(Handlers) /\ \A i, j \in 1..Len(registered) : registered[i] = registered[j] => i = j
  /\ given \in [Handlers -> Seq(Events)]
  /\ IsFiniteSet(Rows)

(* those the event has come to *)
Called(e, h) == \E i \in 1..Len(registered) : i < published[e].next /\ registered[i] = h

HandlersInv ==
  /\ BusTyped
  /\ \A e \in Events : published[e].next <= Len(registered) + 1 /\ (e \notin Rows => published[e].next = 1)
  /\ \A h \in Handlers : \A e \in Events : e \in Range(given[h]) <=> Called(e, h)
  /\ \A h \in Handlers : \A i, j \in 1..Len(given[h]) : given[h][i] = given[h][j] => i = j
  /\ \A e \in Events : published[e].step = "handlers" => published[e].expecting \subseteq Range(registered)
  /\ \A e \in Events : published[e].step = "done" => \A h \in published[e].expecting : Called(e, h)

LEMMA InsertStep ==
  ASSUME HandlersInv, NEW e \in Events, BeginInsert(e) \/ CommitInsert(e)
  PROVE  HandlersInv'
<1>1. /\ published \in [Events -> Publication] /\ published[e] \in Publication /\ stamp \in Nat
      /\ registered \in Seq(Handlers) /\ UNCHANGED <<stamp, registered, given>>
      /\ published[e].step \in {"new", "inserting"}
  BY DEF HandlersInv, BusTyped, BeginInsert, CommitInsert
<1>2. /\ published' \in [Events -> Publication] /\ \A d \in Events : d # e => published'[d] = published[d]
      /\ published'[e].next = published[e].next
      /\ \/ published'[e].step = "inserting" /\ published'[e].at = stamp
         \/ /\ published'[e].step = "handlers" /\ published[e].step = "inserting" /\ published'[e].at = published[e].at
            /\ published'[e].expecting = Range(registered)
  <2>1. CASE BeginInsert(e)
    <3>1. published' = [published EXCEPT ![e].step = "inserting", ![e].at = stamp]
      BY <2>1 DEF BeginInsert
    <3> QED
      BY <1>1, <3>1 DEF Publication
  <2>2. CASE CommitInsert(e)
    <3>1. published' = [published EXCEPT ![e].step = "handlers", ![e].expecting = Range(registered)]
          /\ published[e].step = "inserting"
      BY <2>2 DEF CommitInsert
    <3>2. Range(registered) \subseteq Handlers
      BY <1>1, ElementsAre
    <3> QED
      BY <1>1, <3>1, <3>2 DEF Publication
  <2> QED
    BY <2>1, <2>2
<1>3. \A d \in Events : \A h : Called(d, h)' <=> Called(d, h)
  BY <1>1, <1>2 DEF Called
<1>4. Rows' = Rows \/ Rows' = Rows \cup {e}
  BY <1>1, <1>2 DEF Rows
<1>5. BusTyped'
  <2>1. IsFiniteSet(Rows')
    <3>1. IsFiniteSet(Rows)
      BY DEF HandlersInv, BusTyped
    <3>2. IsFiniteSet(Rows \cup {e})
      BY <3>1, FS_AddElement
    <3> QED
      BY <1>4, <3>1, <3>2
  <2>2. \A d \in Events : published'[d].step # "new" => published'[d].at \in Nat
    BY <1>1, <1>2 DEF HandlersInv, BusTyped
  <2> QED
    BY <1>1, <1>2, <2>1, <2>2 DEF HandlersInv, BusTyped
<1>6. \A d \in Events : published'[d].next <= Len(registered') + 1 /\ (d \notin Rows' => published'[d].next = 1)
  BY <1>1, <1>2 DEF HandlersInv, Rows
<1> QED
  BY <1>1, <1>2, <1>3, <1>5, <1>6 DEF HandlersInv

LEMMA CallHandlerStep ==
  ASSUME HandlersInv, NEW e \in Events, CallHandler(e)
  PROVE  HandlersInv'
<1> DEFINE n == published[e].next
           g == registered[n]
<1>1. /\ published \in [Events -> Publication] /\ published[e] \in Publication
      /\ registered \in Seq(Handlers) /\ given \in [Handlers -> Seq(Events)]
      /\ published[e].step = "handlers" /\ n <= Len(registered) /\ n \in Nat \ {0} /\ UNCHANGED <<stamp, registered>>
      /\ given' = [given EXCEPT ![g] = Append(@, e)]
      /\ published' = [published EXCEPT ![e].next = @ + 1]
  BY DEF HandlersInv, BusTyped, CallHandler, Publication
<1>2. n \in 1..Len(registered) /\ g \in Handlers
  BY <1>1
<1>3. /\ published' \in [Events -> Publication] /\ \A d \in Events : d # e => published'[d] = published[d]
      /\ published'[e].next = n + 1 /\ published'[e].step = published[e].step /\ published'[e].at = published[e].at
      /\ published'[e].expecting = published[e].expecting
  <2> DEFINE record == [published[e] EXCEPT !.next = n + 1]
  <2>1. n + 1 \in Nat \ {0}
    BY <1>1
  <2>2. /\ record \in Publication /\ record.next = n + 1 /\ record.step = published[e].step
        /\ record.at = published[e].at /\ record.expecting = published[e].expecting
    BY <1>1, <2>1 DEF Publication
  <2>3. published' = [published EXCEPT ![e] = record]
    BY <1>1
  <2> HIDE DEF record
  <2> QED
    BY <1>1, <2>2, <2>3
<1> DEFINE new == Append(given[g], e)
<1>4. /\ new \in Seq(Events) /\ Len(new) = Len(given[g]) + 1 /\ new[Len(given[g]) + 1] = e /\ Len(given[g]) \in Nat
      /\ \A i \in 1..Len(given[g]) : new[i] = given[g][i]
      /\ Range(new) = Range(given[g]) \cup {e}
  BY <1>1, <1>2, Appended, RangeAppended
<1>5. given' = [given EXCEPT ![g] = new]
  BY <1>1
<1> HIDE DEF new, g, n
<1>6. /\ given' \in [Handlers -> Seq(Events)] /\ given'[g] = new
      /\ \A h \in Handlers : h # g => given'[h] = given[h]
  BY <1>1, <1>2, <1>4, <1>5
<1>7. registered[n] = g /\ \A i \in 1..Len(registered) : registered[i] = g => i = n
  BY <1>2 DEF HandlersInv, BusTyped, g
<1>8. \A d \in Events : \A h : d # e => (Called(d, h)' <=> Called(d, h))
  BY <1>1, <1>3 DEF Called
<1>9. \A h : Called(e, h)' <=> (Called(e, h) \/ h = g)
  <2>1. n \in Nat /\ Len(registered) \in Nat /\ n = published[e].next
    BY <1>1 DEF n
  <2>2. \A i \in 1..Len(registered) : i < n + 1 <=> i < n \/ i = n
    BY <2>1
  <2> QED
    BY <1>1, <1>2, <1>3, <1>7, <2>1, <2>2 DEF Called
<1>10. ~Called(e, g)
  BY <1>1, <1>2, <1>7 DEF Called, n
<1>11. ASSUME NEW h \in Handlers, NEW d \in Events PROVE d \in Range(given'[h]) <=> Called(d, h)'
  <2>1. d \in Range(given[h]) <=> Called(d, h)
    BY DEF HandlersInv
  <2> QED
    BY <1>4, <1>6, <1>8, <1>9, <2>1
<1>12. ASSUME NEW h \in Handlers, NEW i \in 1..Len(given'[h]), NEW j \in 1..Len(given'[h]), given'[h][i] = given'[h][j]
       PROVE  i = j
  <2>1. \A k, l \in 1..Len(given[h]) : given[h][k] = given[h][l] => k = l
    BY DEF HandlersInv
  <2>2. CASE h # g
    BY <1>6, <1>12, <2>1, <2>2
  <2>3. CASE h = g
    <3>1. \A k \in 1..Len(given[g]) : given[g][k] # e
      <4>1. e \notin Range(given[g])
        BY <1>2, <1>10 DEF HandlersInv
      <4> QED
        BY <1>1, <1>2, <4>1, ElementsAre
    <3>2. (i \in 1..Len(given[g]) \/ i = Len(given[g]) + 1) /\ (j \in 1..Len(given[g]) \/ j = Len(given[g]) + 1)
      BY <1>4, <1>6, <2>3
    <3>3. new[i] = new[j]
      BY <1>6, <1>12, <2>3
    <3> QED
      BY <1>4, <2>1, <2>3, <3>1, <3>2, <3>3
  <2> QED
    BY <2>2, <2>3
<1>13. Rows' = Rows
  BY <1>1, <1>3 DEF Rows
<1>14. BusTyped'
  BY <1>1, <1>3, <1>6, <1>13 DEF HandlersInv, BusTyped
<1>15. \A d \in Events : published'[d].next <= Len(registered') + 1 /\ (d \notin Rows' => published'[d].next = 1)
  <2>1. e \in Rows
    BY <1>1 DEF Rows
  <2>2. published'[e].next <= Len(registered') + 1
    BY <1>1, <1>3 DEF n
  <2> QED
    BY <1>1, <1>3, <1>13, <2>1, <2>2 DEF HandlersInv
<1>16. \A d \in Events : published'[d].step = "done" => \A h \in published'[d].expecting : Called(d, h)'
  BY <1>1, <1>3, <1>8 DEF HandlersInv
<1>17. \A d \in Events : published'[d].step = "handlers" => published'[d].expecting \subseteq Range(registered')
  BY <1>1, <1>3 DEF HandlersInv
<1> QED
  BY <1>11, <1>12, <1>14, <1>15, <1>16, <1>17 DEF HandlersInv

LEMMA EndPublishStep ==
  ASSUME HandlersInv, NEW e \in Events, EndPublish(e)
  PROVE  HandlersInv'
<1>1. /\ published \in [Events -> Publication] /\ published[e] \in Publication
      /\ registered \in Seq(Handlers) /\ UNCHANGED <<stamp, registered, given>>
      /\ published[e].step = "handlers" /\ published[e].next > Len(registered)
      /\ published' = [published EXCEPT ![e].step = "done"]
  BY DEF HandlersInv, BusTyped, EndPublish
<1>2. /\ published' \in [Events -> Publication] /\ \A d \in Events : d # e => published'[d] = published[d]
      /\ published'[e].next = published[e].next /\ published'[e].step = "done" /\ published'[e].at = published[e].at
      /\ published'[e].expecting = published[e].expecting
  BY <1>1 DEF Publication
<1>3. \A d \in Events : \A h : Called(d, h)' <=> Called(d, h)
  BY <1>1, <1>2 DEF Called
<1>4. Rows' = Rows
  BY <1>1, <1>2 DEF Rows
<1>5. \A h \in published[e].expecting : Called(e, h)
  <2>1. published[e].expecting \subseteq Range(registered) /\ published[e].next \in Nat
    BY <1>1 DEF HandlersInv, Publication
  <2>2. \A i \in 1..Len(registered) : i < published[e].next
    BY <1>1, <2>1
  <2> QED
    BY <1>1, <2>1, <2>2, ElementsAre DEF Called
<1>6. BusTyped'
  BY <1>1, <1>2, <1>4 DEF HandlersInv, BusTyped
<1>7. \A d \in Events : published'[d].next <= Len(registered') + 1 /\ (d \notin Rows' => published'[d].next = 1)
  BY <1>1, <1>2, <1>4 DEF HandlersInv
<1>8. \A d \in Events : published'[d].step = "done" => \A h \in published'[d].expecting : Called(d, h)'
  BY <1>1, <1>2, <1>3, <1>5 DEF HandlersInv
<1>9. \A d \in Events : published'[d].step = "handlers" => published'[d].expecting \subseteq Range(registered')
  BY <1>1, <1>2 DEF HandlersInv
<1> QED
  BY <1>1, <1>3, <1>6, <1>7, <1>8, <1>9 DEF HandlersInv

LEMMA RegisterHandlerStep ==
  ASSUME HandlersInv, NEW g \in Handlers, RegisterHandler(g)
  PROVE  HandlersInv'
<1> DEFINE L == Len(registered)
<1>1. /\ published \in [Events -> Publication] /\ registered \in Seq(Handlers)
      /\ g \notin Range(registered) /\ UNCHANGED <<stamp, published, given>>
      /\ registered' = Append(registered, g)
  BY DEF HandlersInv, BusTyped, RegisterHandler
<1>2. /\ registered' \in Seq(Handlers) /\ Len(registered') = L + 1 /\ registered'[L + 1] = g /\ L \in Nat
      /\ \A i \in 1..L : registered'[i] = registered[i]
      /\ Range(registered') = Range(registered) \cup {g}
  BY <1>1, Appended, RangeAppended
<1>3. \A i \in 1..L : registered[i] # g
  BY <1>1, ElementsAre
<1> HIDE DEF L
<1>4. \A i \in 1..(L + 1) : i \in 1..L \/ i = L + 1
  BY <1>2
<1>5. \A i, j \in 1..(L + 1) : registered'[i] = registered'[j] => i = j
  BY <1>2, <1>3, <1>4 DEF HandlersInv, BusTyped, L
<1>6. ASSUME NEW d \in Events, NEW h PROVE Called(d, h)' <=> Called(d, h)
  <2>1. published'[d] = published[d] /\ published[d].next \in Nat /\ published[d].next <= L + 1
    BY <1>1 DEF HandlersInv, Publication, L
  <2>2. ~(L + 1 < published[d].next) /\ \A i \in 1..L : i \in 1..(L + 1)
    BY <1>2, <2>1
  <2> QED
    BY <1>2, <1>4, <2>1, <2>2 DEF Called, L
<1>7. Rows' = Rows
  BY <1>1 DEF Rows
<1>8. BusTyped'
  BY <1>1, <1>2, <1>5, <1>7 DEF HandlersInv, BusTyped
<1>9. \A d \in Events : published'[d].next <= Len(registered') + 1 /\ (d \notin Rows' => published'[d].next = 1)
  <2>1. \A d \in Events : published[d].next \in Nat /\ published[d].next <= L + 1 /\ (d \notin Rows => published[d].next = 1)
    BY <1>1 DEF HandlersInv, Publication, L
  <2>2. \A d \in Events : published[d].next <= (L + 1) + 1
    BY <1>2, <2>1
  <2> QED
    BY <1>1, <1>2, <1>7, <2>1, <2>2
<1>10. \A d \in Events : published'[d].step = "handlers" => published'[d].expecting \subseteq Range(registered')
  BY <1>1, <1>2 DEF HandlersInv
<1> QED
  BY <1>1, <1>6, <1>8, <1>9, <1>10 DEF HandlersInv

LEMMA HandlersStep ==
  HandlersInv /\ [JournalsNext]_journal_vars => HandlersInv'
<1> SUFFICES ASSUME HandlersInv, [JournalsNext]_journal_vars PROVE HandlersInv'
  OBVIOUS
<1>1. ASSUME UNCHANGED <<published, registered, given>>, stamp' \in Nat PROVE HandlersInv'
  <2>1. Rows' = Rows /\ \A d, h : Called(d, h)' <=> Called(d, h)
    BY <1>1 DEF Rows, Called
  <2> QED
    BY <1>1, <2>1 DEF HandlersInv, BusTyped
<1>2. stamp \in Nat
  BY DEF HandlersInv, BusTyped
<1>3. CASE StampPasses \/ BeginWalk \/ ReadPage
  <2>1. UNCHANGED <<published, registered, given>> /\ (stamp' = stamp \/ stamp' = stamp + 1)
    BY <1>3 DEF StampPasses, BeginWalk, ReadPage
  <2> QED
    BY <1>1, <1>2, <2>1
<1>4. CASE AuditNext \/ UNCHANGED journal_vars
  BY <1>1, <1>2, <1>4 DEF AuditNext, AppendEvent, RestartAuditor, SecondEnds, NextDay, journal_vars, event_vars
<1> QED
  BY <1>3, <1>4, InsertStep, CallHandlerStep, EndPublishStep, RegisterHandlerStep DEF JournalsNext, BusNext

LEMMA HandlersBegin ==
  JournalsInit => HandlersInv
<1> SUFFICES ASSUME BusInit PROVE HandlersInv
  BY DEF JournalsInit
<1>1. /\ stamp = 0 /\ published = [e \in Events |-> [step |-> "new", at |-> None, next |-> 1, expecting |-> {}]]
      /\ registered = <<>> /\ given = [h \in Handlers |-> <<>>]
  BY DEF BusInit
<1>2. /\ published \in [Events -> Publication]
      /\ \A e \in Events : published[e].step = "new" /\ published[e].next = 1
  BY <1>1 DEF Publication
<1>3. /\ registered \in Seq(Handlers) /\ Len(registered) = 0 /\ given \in [Handlers -> Seq(Events)]
      /\ \A h \in Handlers : given[h] = <<>>
  BY <1>1
<1>4. \A i \in 1..0 : FALSE
  OBVIOUS
<1>5. Rows = {}
  BY <1>2 DEF Rows
<1>6. BusTyped
  BY <1>1, <1>2, <1>3, <1>4, <1>5, FS_EmptySet DEF BusTyped
<1>7. ASSUME NEW h \in Handlers
      PROVE  /\ \A e \in Events : e \notin Range(given[h]) /\ ~Called(e, h)
             /\ \A i \in 1..Len(given[h]) : FALSE
  <2>1. given[h] \in Seq(Events) /\ Len(given[h]) = 0
    BY <1>3
  <2> QED
    BY <1>3, <1>4, <2>1, ElementsAre DEF Called
<1> QED
  BY <1>2, <1>3, <1>5, <1>6, <1>7 DEF HandlersInv

LEMMA HandlersHeld ==
  ASSUME HandlersInv
  PROVE  HandlersMissNothing
<1>1. ASSUME NEW h \in Handlers PROVE Range(given[h]) \subseteq Rows /\ IsInjective(given[h])
  <2>1. given[h] \in Seq(Events) /\ DOMAIN given[h] = 1..Len(given[h])
    BY DEF HandlersInv, BusTyped
  <2>2. IsInjective(given[h])
    BY <2>1 DEF HandlersInv, IsInjective
  <2>3. ASSUME NEW e \in Range(given[h]) PROVE e \in Rows
    <3>1. e \in Events /\ Called(e, h)
      BY <2>1, <2>3, ElementsAre DEF HandlersInv
    <3>2. PICK i \in 1..Len(registered) : i < published[e].next
      BY <3>1 DEF Called
    <3>3. published[e].next # 1
      BY <3>2
    <3> QED
      BY <3>1, <3>3 DEF HandlersInv
  <2> QED
    BY <2>2, <2>3
<1>2. ASSUME NEW e \in Events, published[e].step = "done", NEW h \in published[e].expecting PROVE e \in Range(given[h])
  <2>1. h \in Handlers
    BY DEF HandlersInv, BusTyped, Publication
  <2> QED
    BY <1>2, <2>1 DEF HandlersInv
<1> QED
  BY <1>1, <1>2 DEF HandlersMissNothing

Tie == \E d, e \in Rows : d # e /\ published[d].at = published[e].at

Newer(e) == {d \in Rows : published[d].at > published[e].at}

Position(e) == Cardinality(Newer(e)) + 1

(* while no two are of the same time: what was there at first and is not   *)
(* returned yet comes after the offset                                     *)
PagesInv ==
  /\ HandlersInv
  /\ walk \in [step : {"none", "reading", "end"}, offset : Nat, first : SUBSET Rows, returned : Seq(Events)]
  /\ ~Tie =>
       /\ walk.step = "reading" => \A e \in walk.first : e \in Range(walk.returned) \/ Position(e) > walk.offset
       /\ walk.step = "end" => walk.first \subseteq Range(walk.returned)

LEMMA PositionIsNatural ==
  ASSUME BusTyped, NEW e
  PROVE  Position(e) \in Nat \ {0} /\ IsFiniteSet(Newer(e))
<1>1. IsFiniteSet(Newer(e))
  BY FS_Subset DEF BusTyped, Newer
<1>2. Cardinality(Newer(e)) \in Nat
  BY <1>1, FS_CardinalityType
<1> QED
  BY <1>1, <1>2 DEF Position

LEMMA RowsHaveTimes ==
  ASSUME BusTyped, NEW e \in Rows
  PROVE  e \in Events /\ published[e].at \in Nat
BY DEF BusTyped, Rows

LEMMA OrderHasAll ==
  ASSUME BusTyped, NEW order \in Orders
  PROVE  /\ Cardinality(Rows) \in Nat /\ order \in Seq(Rows) /\ Len(order) = Cardinality(Rows)
         /\ \A i, j \in 1..Len(order) : order[i] = order[j] => i = j
         /\ \A i, j \in 1..Len(order) : i < j => published[order[i]].at >= published[order[j]].at
         /\ \A e \in Rows : \E i \in 1..Len(order) : order[i] = e
<1> DEFINE n == Cardinality(Rows)
<1>1. IsFiniteSet(Rows) /\ n \in Nat
  BY FS_CardinalityType DEF BusTyped
<1>2. order \in [1..n -> Rows] /\ IsInjective(order) /\ DOMAIN order = 1..n
  BY DEF Orders
<1>3. \A i, j \in DOMAIN order : i < j => published[order[i]].at >= published[order[j]].at
  BY DEF Orders
<1> HIDE DEF n
<1>4. order \in Seq(Rows) /\ Len(order) = n
  BY <1>1, <1>2
<1>5. IsFiniteSet(1..n) /\ Cardinality(1..n) = n
  BY <1>1, FS_Interval
<1>6. order \in Injection(1..n, Rows)
  BY <1>2 DEF Injection
<1>7. order \in Surjection(1..n, Rows)
  BY <1>1, <1>5, <1>6, FS_Injection DEF n
<1>8. \A e \in Rows : \E i \in 1..n : order[i] = e
  BY <1>7 DEF Surjection
<1> QED
  BY <1>1, <1>2, <1>3, <1>4, <1>8 DEF IsInjective, n

LEMMA OrderIsByPosition ==
  ASSUME BusTyped, ~Tie, NEW order \in Orders, NEW k \in 1..Len(order)
  PROVE  Position(order[k]) = k
<1> DEFINE e == order[k]
           f == [i \in 1..(k - 1) |-> order[i]]
<1>1. /\ Len(order) \in Nat /\ \A i \in 1..Len(order) : order[i] \in Rows
      /\ \A i, j \in 1..Len(order) : order[i] = order[j] => i = j
      /\ \A i, j \in 1..Len(order) : i < j => published[order[i]].at >= published[order[j]].at
      /\ \A d \in Rows : \E i \in 1..Len(order) : order[i] = d
  BY OrderHasAll
<1>2. \A i \in 1..Len(order) : published[order[i]].at \in Nat
  BY <1>1, RowsHaveTimes
<1>3. \A i, j \in 1..Len(order) : i # j => published[order[i]].at # published[order[j]].at
  BY <1>1 DEF Tie
<1>4. \A i, j \in 1..Len(order) : i < j => published[order[i]].at > published[order[j]].at
  BY <1>1, <1>2, <1>3
<1>5. k \in Nat /\ k - 1 \in Nat /\ \A i \in 1..(k - 1) : i \in 1..Len(order) /\ i < k
  BY <1>1
<1>6. ASSUME NEW i \in 1..(k - 1) PROVE order[i] \in Newer(e)
  BY <1>1, <1>4, <1>5 DEF Newer
<1>7. ASSUME NEW d \in Newer(e) PROVE \E i \in 1..(k - 1) : order[i] = d
  <2>1. PICK i \in 1..Len(order) : order[i] = d
    BY <1>1 DEF Newer
  <2>2. published[order[i]].at > published[order[k]].at
    BY <2>1 DEF Newer
  <2>3. ~(k < i) /\ i # k
    BY <1>2, <1>4, <2>2
  <2>4. i \in 1..(k - 1)
    BY <1>1, <2>3
  <2> QED
    BY <2>1, <2>4
<1> HIDE DEF e
<1>8. f \in [1..(k - 1) -> Newer(e)] /\ IsInjective(f)
  BY <1>1, <1>5, <1>6 DEF IsInjective
<1>9. f \in Bijection(1..(k - 1), Newer(e))
  BY <1>7, <1>8 DEF Bijection, Injection, Surjection
<1>10. IsFiniteSet(1..(k - 1)) /\ Cardinality(1..(k - 1)) = k - 1
  <2>1. 1 \in Int /\ k - 1 \in Int /\ (1 > k - 1 => k - 1 = 0) /\ (k - 1) - 1 + 1 = k - 1
    BY <1>5
  <2> QED
    BY <2>1, FS_Interval
<1>11. Cardinality(Newer(e)) = k - 1
  BY <1>9, <1>10, FS_Bijection DEF ExistsBijection
<1> QED
  BY <1>5, <1>11 DEF Position, e

LEMMA RangeOfBoth ==
  ASSUME NEW S, NEW s \in Seq(S), NEW t \in Seq(S)
  PROVE  s \o t \in Seq(S) /\ Range(s) \subseteq Range(s \o t) /\ Range(t) \subseteq Range(s \o t)
<1> DEFINE both == s \o t
<1>1. /\ both \in Seq(S) /\ Len(both) = Len(s) + Len(t)
      /\ \A i \in 1..Len(s) + Len(t) : both[i] = IF i <= Len(s) THEN s[i] ELSE t[i - Len(s)]
  BY ConcatProperties
<1>2. Len(s) \in Nat /\ Len(t) \in Nat
  OBVIOUS
<1> HIDE DEF both
<1>3. ASSUME NEW x \in Range(s) PROVE x \in Range(both)
  <2>1. PICK i \in 1..Len(s) : s[i] = x
    BY ElementsAre
  <2>2. i \in 1..Len(both) /\ both[i] = x
    BY <1>1, <1>2, <2>1
  <2> QED
    BY <1>1, <2>2, ElementsAre
<1>4. ASSUME NEW x \in Range(t) PROVE x \in Range(both)
  <2>1. PICK i \in 1..Len(t) : t[i] = x
    BY ElementsAre
  <2> DEFINE k == Len(s) + i
  <2>3. k \in 1..Len(s) + Len(t) /\ ~(k <= Len(s)) /\ k - Len(s) = i
    BY <1>2
  <2> HIDE DEF k
  <2>2. k \in 1..Len(both) /\ both[k] = x
    BY <1>1, <2>1, <2>3
  <2> QED
    BY <1>1, <2>2, ElementsAre
<1> QED
  BY <1>1, <1>3, <1>4 DEF both

LEMMA PageHolds ==
  ASSUME BusTyped, NEW order \in Orders, NEW offset \in Nat
  PROVE  LET page == PageFrom(order, offset) IN
         /\ page \in Seq(Events)
         /\ \A i \in 1..Len(order) : offset < i /\ i <= offset + PageSize => order[i] \in Range(page)
         /\ Len(page) < PageSize => Len(order) < offset + PageSize
<1> DEFINE n == Len(order)
           page == PageFrom(order, offset)
           last == IF offset + PageSize < n THEN offset + PageSize ELSE n
<1>1. /\ order \in Seq(Rows) /\ n \in Nat /\ PageSize \in Nat \ {0} /\ Rows \subseteq Events
      /\ order \in Seq(Events)
  <2>1. PageSize \in Nat \ {0}
    BY JournalsAssumption
  <2>2. Rows \subseteq Events /\ order \in Seq(Rows)
    BY OrderHasAll DEF Rows
  <2>3. order \in Seq(Events)
    BY <2>2
  <2> QED
    BY <2>1, <2>2, <2>3
<1>2. CASE offset + 1 > n
  <2>1. page = <<>>
    BY <1>2 DEF PageFrom, Slice
  <2>2. page \in Seq(Events) /\ n < offset + PageSize /\ \A i \in 1..n : ~(offset < i)
    BY <1>1, <1>2, <2>1
  <2> QED
    BY <2>2
<1>3. CASE offset + 1 <= n
  <2>1. page = SubSeq(order, offset + 1, last) /\ last \in Nat /\ last <= n /\ offset + 1 <= last
    BY <1>1, <1>3 DEF PageFrom, Slice
  <2>2. /\ page \in Seq(Events) /\ Len(page) = last - offset
        /\ \A j \in 1..(last - offset) : page[j] = order[offset + j]
    <3>1. offset + 1 \in 1..(n + 1) /\ last \in offset..n
      BY <1>1, <2>1
    <3> HIDE DEF last, page
    <3>2. \A i \in (offset + 1)..last : i \in 1..n
      BY <1>1, <2>1
    <3> QED
      BY <1>1, <2>1, <3>1, <3>2
  <2>3. last - offset < PageSize => n < offset + PageSize
    BY <1>1, <1>3, <2>1
  <2>4. ASSUME NEW i \in 1..n, offset < i, i <= offset + PageSize PROVE order[i] \in Range(page)
    <3>1. i <= last
      BY <1>1, <2>4
    <3> HIDE DEF last, page
    <3>2. i - offset \in 1..(last - offset) /\ offset + (i - offset) = i
      BY <1>1, <2>1, <2>4, <3>1
    <3>3. page[i - offset] = order[i]
      BY <2>2, <3>2
    <3> QED
      BY <2>2, <3>2, <3>3, ElementsAre
  <2> QED
    BY <2>2, <2>3, <2>4
<1> QED
  BY <1>1, <1>2, <1>3

LEMMA ReadPageStep ==
  ASSUME PagesInv, ReadPage
  PROVE  PagesInv'
<1>1. /\ walk.step = "reading" /\ UNCHANGED <<audit_vars, stamp, published, registered, given>>
      /\ walk \in [step : {"none", "reading", "end"}, offset : Nat, first : SUBSET Rows, returned : Seq(Events)]
      /\ PageSize \in Nat \ {0} /\ BusTyped
  BY JournalsAssumption DEF ReadPage, PagesInv, HandlersInv
<1>2. PICK order \in Orders :
        walk' = [walk EXCEPT !.returned = @ \o PageFrom(order, walk.offset),
                             !.offset = @ + PageSize,
                             !.step = IF Len(PageFrom(order, walk.offset)) < PageSize THEN "end" ELSE "reading"]
  BY DEF ReadPage
<1> DEFINE page == PageFrom(order, walk.offset)
           offset == walk.offset
           n == Len(order)
<1>3. offset \in Nat /\ walk.returned \in Seq(Events) /\ walk.first \subseteq Rows
  BY <1>1
<1>4. /\ page \in Seq(Events)
      /\ \A i \in 1..n : offset < i /\ i <= offset + PageSize => order[i] \in Range(page)
      /\ Len(page) < PageSize => n < offset + PageSize
  BY <1>1, <1>3, PageHolds
<1>5. /\ walk'.returned = walk.returned \o page /\ walk'.offset = offset + PageSize /\ walk'.first = walk.first
      /\ walk'.step = IF Len(page) < PageSize THEN "end" ELSE "reading"
  BY <1>1, <1>2
<1> HIDE DEF page
<1>6. /\ walk'.returned \in Seq(Events) /\ Range(walk.returned) \subseteq Range(walk'.returned)
      /\ Range(page) \subseteq Range(walk'.returned)
  BY <1>3, <1>4, <1>5, RangeOfBoth
<1>7. Rows' = Rows /\ Tie' = Tie /\ \A e : Position(e)' = Position(e)
  BY <1>1 DEF Rows, Tie, Position, Newer
<1>8. walk' \in [step : {"none", "reading", "end"}, offset : Nat, first : SUBSET Rows', returned : Seq(Events)]
  <2>1. offset + PageSize \in Nat
    BY <1>1, <1>3
  <2>2. walk' = [step |-> walk'.step, offset |-> walk'.offset, first |-> walk'.first, returned |-> walk'.returned]
    BY <1>1, <1>2
  <2> QED
    BY <1>3, <1>5, <1>6, <1>7, <2>1, <2>2
<1>9. HandlersInv'
  <2>1. HandlersInv /\ [JournalsNext]_journal_vars
    BY DEF PagesInv, JournalsNext, BusNext
  <2> QED
    BY <2>1, HandlersStep
<1>10. ASSUME ~Tie, NEW e \in walk.first
       PROVE  \/ e \in Range(walk'.returned)
              \/ Position(e) > offset + PageSize /\ Len(page) >= PageSize
  <2>1. CASE e \in Range(walk.returned)
    BY <1>6, <2>1
  <2>2. CASE Position(e) > offset
    <3>1. PICK k \in 1..n : order[k] = e
      BY <1>1, <1>3, OrderHasAll
    <3>2. Position(e) = k
      BY <1>1, <1>10, <3>1, OrderIsByPosition
    <3>3. n \in Nat /\ k \in Nat /\ k <= n /\ Len(page) \in Nat
      BY <1>1, <1>4, OrderHasAll
    <3>4. CASE k <= offset + PageSize
      BY <1>4, <1>6, <2>2, <3>1, <3>2, <3>4
    <3>5. CASE ~(k <= offset + PageSize)
      <4>1. k > offset + PageSize /\ ~(n < offset + PageSize)
        BY <1>1, <1>3, <3>3, <3>5
      <4>2. Len(page) >= PageSize
        BY <1>1, <1>4, <3>3, <4>1
      <4> QED
        BY <3>2, <4>1, <4>2
    <3> QED
      BY <3>4, <3>5
  <2> QED
    BY <1>1, <1>10, <2>1, <2>2 DEF PagesInv
<1>11. ASSUME ~Tie', walk'.step = "reading", NEW e \in walk'.first
       PROVE  e \in Range(walk'.returned) \/ Position(e)' > walk'.offset
  BY <1>5, <1>7, <1>10, <1>11
<1>12. ASSUME ~Tie', walk'.step = "end", NEW e \in walk'.first PROVE e \in Range(walk'.returned)
  <2>1. Len(page) < PageSize /\ Len(page) \in Nat
    BY <1>4, <1>5, <1>12
  <2>2. ~(Len(page) >= PageSize)
    BY <1>1, <2>1
  <2> QED
    BY <1>5, <1>7, <1>10, <1>12, <2>2
<1> QED
  BY <1>8, <1>9, <1>11, <1>12 DEF PagesInv

LEMMA PagesStep ==
  PagesInv /\ [JournalsNext]_journal_vars => PagesInv'
<1> SUFFICES ASSUME PagesInv, [JournalsNext]_journal_vars PROVE PagesInv'
  OBVIOUS
<1>1. HandlersInv /\ HandlersInv' /\ BusTyped /\ BusTyped'
  BY HandlersStep DEF PagesInv, HandlersInv
<1>6. /\ \A e : Position(e) \in Nat \ {0} /\ IsFiniteSet(Newer(e))
      /\ \A e : Position(e)' \in Nat \ {0} /\ IsFiniteSet(Newer(e)')
  <2>1. ASSUME NEW e PROVE IsFiniteSet(Newer(e)') /\ Position(e)' \in Nat \ {0}
    <3>1. IsFiniteSet(Rows') /\ Newer(e)' \in SUBSET Rows'
      BY <1>1 DEF BusTyped, Newer
    <3>2. IsFiniteSet(Newer(e)')
      BY <3>1, FS_Subset
    <3>3. Cardinality(Newer(e)') \in Nat
      BY <3>2, FS_CardinalityType
    <3> QED
      BY <3>2, <3>3 DEF Position
  <2> QED
    BY <1>1, <2>1, PositionIsNatural
<1>2. CASE BeginWalk
  <2>1. /\ walk' = [step |-> "reading", offset |-> 0, first |-> Rows, returned |-> <<>>] /\ published' = published
    BY <1>2 DEF BeginWalk
  <2>2. Rows' = Rows /\ \A e : Position(e)' = Position(e)
    BY <2>1 DEF Rows, Position, Newer
  <2>3. walk' \in [step : {"none", "reading", "end"}, offset : Nat, first : SUBSET Rows', returned : Seq(Events)]
    BY <2>1, <2>2
  <2>4. \A e : Position(e)' > 0
    BY <1>6, <2>2
  <2> QED
    BY <1>1, <2>1, <2>3, <2>4 DEF PagesInv
<1>3. ASSUME UNCHANGED walk, \A e \in Rows : e \in Rows' /\ published'[e].at = published[e].at PROVE PagesInv'
  <2>1. Rows \subseteq Rows' /\ (Tie => Tie')
    BY <1>3 DEF Tie
  <2>2. ASSUME NEW e \in Rows PROVE Position(e)' >= Position(e)
    <3>1. Newer(e) \subseteq Newer(e)'
      BY <1>3 DEF Newer
    <3>2. IsFiniteSet(Newer(e)) /\ IsFiniteSet(Newer(e)')
      BY <1>6
    <3>3. Cardinality(Newer(e)) <= Cardinality(Newer(e)') /\ Cardinality(Newer(e)) \in Nat /\ Cardinality(Newer(e)') \in Nat
      BY <3>1, <3>2, FS_Subset, FS_CardinalityType
    <3> QED
      BY <3>3 DEF Position
  <2>3. walk' = walk /\ walk' \in [step : {"none", "reading", "end"}, offset : Nat, first : SUBSET Rows', returned : Seq(Events)]
    BY <1>3, <2>1 DEF PagesInv
  <2>4. ASSUME ~Tie', walk.step = "reading", NEW e \in walk.first
        PROVE  e \in Range(walk.returned) \/ Position(e)' > walk.offset
    <3>1. e \in Rows /\ walk.offset \in Nat /\ Position(e) \in Nat /\ Position(e)' \in Nat
      BY <1>6 DEF PagesInv
    <3>2. Position(e)' >= Position(e)
      BY <2>2, <3>1
    <3>3. e \in Range(walk.returned) \/ Position(e) > walk.offset
      BY <2>1, <2>4 DEF PagesInv
    <3> QED
      BY <3>1, <3>2, <3>3
  <2>5. ~Tie' /\ walk.step = "end" => walk.first \subseteq Range(walk.returned)
    BY <2>1 DEF PagesInv
  <2> QED
    BY <1>1, <2>3, <2>4, <2>5 DEF PagesInv
<1>4. ASSUME NEW e \in Events, BeginInsert(e) \/ CommitInsert(e) \/ CallHandler(e) \/ EndPublish(e) PROVE PagesInv'
  <2>1. published \in [Events -> Publication] /\ UNCHANGED walk
    BY <1>1, <1>4 DEF BusTyped, BeginInsert, CommitInsert, CallHandler, EndPublish
  <2>2. CASE BeginInsert(e)
    <3>1. published[e].step = "new" /\ published' = [published EXCEPT ![e].step = "inserting", ![e].at = stamp]
      BY <2>2 DEF BeginInsert
    <3> QED
      BY <1>3, <2>1, <3>1 DEF Rows, Publication
  <2>3. CASE CommitInsert(e)
    <3>1. published' = [published EXCEPT ![e].step = "handlers", ![e].expecting = Range(registered)]
      BY <2>3 DEF CommitInsert
    <3> QED
      BY <1>3, <2>1, <3>1 DEF Rows, Publication
  <2>4. CASE CallHandler(e)
    <3>1. published' = [published EXCEPT ![e].next = @ + 1]
      BY <2>4 DEF CallHandler
    <3> QED
      BY <1>3, <2>1, <3>1 DEF Rows, Publication
  <2>5. CASE EndPublish(e)
    <3>1. published' = [published EXCEPT ![e].step = "done"]
      BY <2>5 DEF EndPublish
    <3> QED
      BY <1>3, <2>1, <3>1 DEF Rows, Publication
  <2> QED
    BY <1>4, <2>2, <2>3, <2>4, <2>5
<1>5. CASE AuditNext \/ StampPasses \/ (\E h \in Handlers : RegisterHandler(h)) \/ UNCHANGED journal_vars
  <2>1. UNCHANGED <<published, walk>>
    BY <1>5 DEF AuditNext, AppendEvent, RestartAuditor, SecondEnds, NextDay, StampPasses, RegisterHandler, journal_vars, event_vars
  <2> QED
    BY <1>3, <2>1 DEF Rows
<1> QED
  BY <1>2, <1>4, <1>5, ReadPageStep DEF JournalsNext, BusNext

LEMMA PagesBegin ==
  JournalsInit => PagesInv
<1> SUFFICES ASSUME JournalsInit PROVE PagesInv
  OBVIOUS
<1>1. walk = [step |-> "none", offset |-> 0, first |-> {}, returned |-> <<>>]
  BY DEF JournalsInit, BusInit, NoWalk
<1>2. walk \in [step : {"none", "reading", "end"}, offset : Nat, first : SUBSET Rows, returned : Seq(Events)]
  BY <1>1
<1> QED
  BY <1>1, <1>2, HandlersBegin DEF PagesInv

(* What handlers and pages miss of events: nothing, of RecordedIsKept. *)
THEOREM EventsAreFound ==
  JournalsSpec => [](HandlersMissNothing /\ PagesMissNothing)
<1>1. PagesInv => HandlersMissNothing /\ PagesMissNothing
  BY HandlersHeld DEF PagesInv, Tie, PagesMissNothing
<1> QED
  BY <1>1, PagesBegin, PagesStep, PTL DEF JournalsSpec

-----------------------------------------------------------------------------
(* The autoscaler. *)
ScalerInv ==
  /\ scaler \in [at : {"asleep", "measures", "dead"}, seen : Nat]
  /\ containers \in Nat

LEMMA ScaledTo ==
  ASSUME NEW n \in Nat
  PROVE  /\ Doubled(n) \in Nat /\ Halved(n) \in Nat
         /\ Doubled(n) <= MAX_REPLICAS /\ Halved(n) >= MIN_REPLICAS
         /\ Doubled(n) < n => Doubled(n) >= MIN_REPLICAS
         /\ Halved(n) > n => Halved(n) <= MAX_REPLICAS
<1>1. MIN_REPLICAS \in Nat /\ MAX_REPLICAS \in Nat /\ MIN_REPLICAS <= MAX_REPLICAS
  BY ReplicasAssumption
<1>2. n * 2 \in Nat /\ n * 2 >= n /\ n \div 2 \in Nat /\ n \div 2 <= n
  OBVIOUS
<1>3. Doubled(n) \in {n * 2, MAX_REPLICAS} /\ Doubled(n) <= MAX_REPLICAS
  BY <1>1, <1>2 DEF Doubled, Least
<1>4. Halved(n) \in {n \div 2, MIN_REPLICAS} /\ Halved(n) >= MIN_REPLICAS
  BY <1>1, <1>2 DEF Halved, Most
<1>5. Doubled(n) < n => Doubled(n) >= MIN_REPLICAS
  BY <1>1, <1>2, <1>3
<1>6. Halved(n) > n => Halved(n) <= MAX_REPLICAS
  BY <1>1, <1>2, <1>4
<1> QED
  BY <1>1, <1>2, <1>3, <1>4, <1>5, <1>6

LEMMA ScalerStep ==
  ASSUME ScalerInv, [MaintenanceNext]_maintenance_vars
  PROVE  /\ ScalerInv'
         /\ scaler.at = "measures" /\ containers' # containers /\ scaler' # scaler
              => /\ containers' > scaler.seen => containers' <= MAX_REPLICAS
                 /\ containers' < scaler.seen => containers' >= MIN_REPLICAS
<1>1. CASE Measure
  BY <1>1 DEF ScalerInv, Measure
<1>2. CASE Scale
  <2>1. CASE containers < scaler.seen
    BY <1>2, <2>1 DEF ScalerInv, Scale
  <2>2. CASE ~(containers < scaler.seen)
    <3>1. scaler.seen \in Nat /\ scaler.at = "measures"
      BY <1>2 DEF ScalerInv, Scale
    <3>2. PICK n \in {Doubled(scaler.seen), Halved(scaler.seen), scaler.seen} :
            \/ /\ containers' = IF n = scaler.seen THEN containers ELSE n
               /\ scaler' = [at |-> "asleep", seen |-> 0]
            \/ /\ n # scaler.seen
               /\ scaler' = [scaler EXCEPT !.at = "dead"]
               /\ UNCHANGED containers
      BY <1>2, <2>2 DEF Scale
    <3>3. /\ n \in Nat
          /\ n > scaler.seen => n <= MAX_REPLICAS
          /\ n < scaler.seen => n >= MIN_REPLICAS
      BY <3>1, <3>2, ScaledTo
    <3>4. scaler' \in [at : {"asleep", "measures", "dead"}, seen : Nat] /\ containers' \in {n, containers}
      BY <3>2 DEF ScalerInv
    <3> QED
      BY <3>3, <3>4 DEF ScalerInv
  <2> QED
    BY <2>1, <2>2
<1>3. CASE ContainersChange
  BY <1>3, ReplicasAssumption DEF ScalerInv, ContainersChange
<1>4. CASE BackupNext \/ TrainingNext \/ UNCHANGED maintenance_vars
  <2>1. UNCHANGED scaler_vars
    BY <1>4 DEF BackupNext, BeginBackup, SkipStore, Dump, Protect, FinishBackup, TrainingNext, RunStage, PassOverStage,
                StageFails, maintenance_vars, scaler_vars, backup_vars
  <2> QED
    BY <2>1 DEF ScalerInv, scaler_vars
<1> QED
  BY <1>1, <1>2, <1>3, <1>4 DEF MaintenanceNext, ScalerNext

(* Whatever the autoscaler measures while containers come and go, it keeps *)
(* the service within its limits.                                          *)
THEOREM ScalerLimited ==
  MaintenanceSpec => ScaledWithinLimits
<1>1. MaintenanceInit => ScalerInv
  BY ReplicasAssumption DEF MaintenanceInit, ScalerInit, ScalerInv
<1>2. ScalerInv /\ [MaintenanceNext]_maintenance_vars =>
        /\ ScalerInv'
        /\ [ scaler.at = "measures" /\ containers' # containers /\ scaler' # scaler
               => /\ containers' > scaler.seen => containers' <= MAX_REPLICAS
                  /\ containers' < scaler.seen => containers' >= MIN_REPLICAS ]_maintenance_vars
  BY ScalerStep
<1> QED
  BY <1>1, <1>2, PTL DEF MaintenanceSpec, ScaledWithinLimits

-----------------------------------------------------------------------------
(* The watch for drift. *)
AccuracyInv ==
  /\ results = None \/ \A gate \in DOMAIN results : results[gate] \in GateReports
  /\ reviewed = saved_baseline
  /\ saved_baseline = None \/ \A gate \in DOMAIN saved_baseline : saved_baseline[gate].f1 \in Nat
  /\ verdict.drift = "quiet" =>
       results # None /\ saved_baseline # None /\ ~Regressed(Extracted, saved_baseline)
  /\ verdict.thresholds \in {None, "accepted", "refused"}
  /\ DOMAIN verdict = {"thresholds", "drift"}

LEMMA ExtractedHas ==
  ASSUME \A gate \in DOMAIN results : results[gate] \in GateReports
  PROVE  /\ \A gate \in DOMAIN Extracted : Extracted[gate].f1 \in Nat
         /\ \A gate \in DOMAIN results : ~results[gate].nested /\ results[gate].figures.f1 # None =>
              gate \in DOMAIN Extracted /\ Extracted[gate].f1 = results[gate].figures.f1
<1>1. \A gate \in DOMAIN results : ~results[gate].nested =>
        results[gate].figures.f1 \in Nat \cup {None}
  BY ReportsAssumption DEF Measured
<1> DEFINE flat == {gate \in DOMAIN results : ~results[gate].nested /\ results[gate].figures # [f1 |-> None, fp |-> None]}
<1>2. /\ DOMAIN Extracted = flat
      /\ \A gate \in flat : Extracted[gate].f1 = IF results[gate].figures.f1 = None THEN 0 ELSE results[gate].figures.f1
  BY DEF Extracted
<1>3. \A gate \in DOMAIN results : results[gate].figures.f1 # None => results[gate].figures # [f1 |-> None, fp |-> None]
  OBVIOUS
<1> HIDE DEF flat
<1>4. \A gate \in flat : gate \in DOMAIN results /\ ~results[gate].nested
  BY DEF flat
<1>5. \A gate \in DOMAIN results : ~results[gate].nested /\ results[gate].figures.f1 # None => gate \in flat
  BY <1>3 DEF flat
<1> QED
  BY <1>1, <1>2, <1>4, <1>5

LEMMA AccuracyStep ==
  ASSUME AccuracyInv, [AccuracyNext]_accuracy_vars
  PROVE  AccuracyInv'
<1>1. CASE Benchmark
  <2>1. PICK reported \in SUBSET Gates : results' \in [reported -> GateReports] \cup {None}
    BY <1>1 DEF Benchmark
  <2>2. verdict' = NoVerdict /\ UNCHANGED <<saved_baseline, reviewed>>
    BY <1>1 DEF Benchmark
  <2>3. results' = None \/ \A gate \in DOMAIN results' : results'[gate] \in GateReports
    BY <2>1
  <2>4. verdict'.drift = None /\ verdict'.thresholds = None /\ DOMAIN verdict' = {"thresholds", "drift"}
    BY <2>2 DEF NoVerdict
  <2> QED
    BY <2>2, <2>3, <2>4, VerdictsAssumption DEF AccuracyInv
<1>2. CASE CheckThresholds
  <2>1. UNCHANGED <<results, saved_baseline, reviewed>>
    BY <1>2 DEF CheckThresholds
  <2>2. /\ verdict'.drift = verdict.drift /\ verdict'.thresholds \in {"accepted", "refused"}
        /\ DOMAIN verdict' = {"thresholds", "drift"}
    BY <1>2 DEF CheckThresholds, AccuracyInv
  <2>3. Extracted' = Extracted
    BY <2>1 DEF Extracted
  <2> QED
    BY <2>1, <2>2, <2>3 DEF AccuracyInv, Regressed
<1>3. CASE FreshCheckout
  <2>1. results' = None /\ saved_baseline' = None /\ reviewed' = None /\ verdict' = NoVerdict
    BY <1>3 DEF FreshCheckout
  <2> QED
    BY <2>1, VerdictsAssumption DEF AccuracyInv, NoVerdict
<1>4. ASSUME NEW save \in BOOLEAN, WatchForDrift(save)
      PROVE  AccuracyInv'
  <2>1. UNCHANGED results /\ results # None
    BY <1>4 DEF WatchForDrift
  <2>2. Extracted' = Extracted
    BY <2>1 DEF Extracted
  <2>3. CASE saved_baseline = None \/ save
    <3>1. SavesBaseline
      BY <1>4, <2>3 DEF WatchForDrift
    <3>2. /\ saved_baseline' = Extracted /\ reviewed' = Extracted
          /\ verdict'.drift = "saved" /\ verdict'.thresholds = verdict.thresholds
          /\ DOMAIN verdict' = {"thresholds", "drift"}
      BY <3>1 DEF SavesBaseline, AccuracyInv
    <3> QED
      BY <2>1, <3>2, ExtractedHas DEF AccuracyInv
  <2>4. CASE ~(saved_baseline = None \/ save)
    <3>1. /\ verdict'.drift = IF Regressed(Extracted, saved_baseline) THEN "regressed" ELSE "quiet"
          /\ verdict'.thresholds = verdict.thresholds /\ DOMAIN verdict' = {"thresholds", "drift"}
          /\ UNCHANGED <<saved_baseline, reviewed>>
      BY <1>4, <2>4 DEF WatchForDrift, AccuracyInv
    <3> QED
      BY <2>1, <2>2, <2>4, <3>1 DEF AccuracyInv, Regressed
  <2> QED
    BY <2>3, <2>4
<1>5. CASE UNCHANGED accuracy_vars
  <2>1. UNCHANGED <<results, saved_baseline, reviewed, verdict>>
    BY <1>5 DEF accuracy_vars
  <2> QED
    BY <2>1 DEF AccuracyInv, Extracted, Regressed
<1> QED
  BY <1>1, <1>2, <1>3, <1>4, <1>5 DEF AccuracyNext

LEMMA DeclineSeen ==
  AccuracyInv => DeclineIsReported
<1> SUFFICES ASSUME AccuracyInv, verdict.drift = "quiet", NEW gate \in DOMAIN results \cap DOMAIN reviewed,
                    ~results[gate].nested, results[gate].figures.f1 # None
             PROVE  results[gate].figures.f1 >= reviewed[gate].f1 - 2
  BY DEF DeclineIsReported
<1>1. /\ results # None /\ saved_baseline # None /\ ~Regressed(Extracted, saved_baseline)
      /\ reviewed = saved_baseline /\ \A g \in DOMAIN results : results[g] \in GateReports
      /\ saved_baseline[gate].f1 \in Nat
  BY DEF AccuracyInv
<1>2. gate \in DOMAIN Extracted /\ Extracted[gate].f1 = results[gate].figures.f1 /\ Extracted[gate].f1 \in Nat
  BY <1>1, ExtractedHas
<1>3. ~(Extracted[gate].f1 - saved_baseline[gate].f1 < -2)
  BY <1>1, <1>2 DEF Regressed
<1> QED
  BY <1>1, <1>2, <1>3

(* However slowly it came, a decline from what was reviewed is reported.   *)
THEOREM DeclineReported ==
  AccuracySpec => []DeclineIsReported
<1>1. AccuracyInit => AccuracyInv
  BY VerdictsAssumption DEF AccuracyInit, NoVerdict, AccuracyInv
<1> QED
  BY <1>1, AccuracyStep, DeclineSeen, PTL DEF AccuracySpec

-----------------------------------------------------------------------------
(* Escalation.  Of violations that came within one window, the one counted *)
(* last finds all of them pushed.                                          *)
Together(us) == \A u, v \in us : violation[u].at - violation[v].at < WINDOW_SECONDS
DoneViolations == {v \in Violations : violation[v].step = "done"}

OneEscalates ==
  \A us \in SUBSET DoneViolations :
    Cardinality(us) >= COUNT /\ Together(us) => \E u \in us : violation[u].escalated

EscalatedIsDue ==
  \A v \in DoneViolations : violation[v].escalated => Cardinality(Recent(v)) >= COUNT

EscalationInv ==
  /\ violation \in [Violations -> [step : {"new", "push", "count", "failed", "done"}, at : Nat, escalated : BOOLEAN]]
  /\ tick \in Nat
  /\ OneEscalates /\ EscalatedIsDue

LEMMA RecentIsFinite ==
  ASSUME NEW v
  PROVE  IsFiniteSet(Recent(v)) /\ Recent(v) \subseteq Violations
<1>1. Recent(v) \subseteq Violations
  BY DEF Recent, Pushed
<1> QED
  BY <1>1, AssessmentsAssumption, FS_Subset

(* of a step after which the same violations are done, and no fewer pushed *)
LEMMA PushesKeep ==
  ASSUME EscalationInv, DoneViolations' = DoneViolations, Pushed \subseteq Pushed',
         \A v \in Pushed : violation'[v].at = violation[v].at /\ violation'[v].escalated = violation[v].escalated
  PROVE  OneEscalates' /\ EscalatedIsDue'
<1>0. DoneViolations \subseteq Pushed
  BY DEF DoneViolations, Pushed
<1>1. ASSUME NEW us \in SUBSET DoneViolations', Cardinality(us) >= COUNT, Together(us)'
      PROVE  \E u \in us : violation'[u].escalated
  <2>1. us \in SUBSET DoneViolations /\ \A u \in us : u \in Pushed
    BY <1>0, <1>1
  <2>2. Together(us)
    BY <1>1, <2>1 DEF Together
  <2> QED
    BY <1>1, <2>1, <2>2 DEF EscalationInv, OneEscalates
<1>2. ASSUME NEW v \in DoneViolations', violation'[v].escalated
      PROVE  Cardinality(Recent(v)') >= COUNT
  <2>1. v \in DoneViolations /\ violation[v].escalated /\ violation'[v].at = violation[v].at
    BY <1>0, <1>2
  <2>2. Recent(v) \subseteq Recent(v)' /\ Recent(v)' \subseteq Violations
    BY <2>1 DEF Recent, Pushed
  <2>3. IsFiniteSet(Recent(v)')
    BY <2>2, AssessmentsAssumption, FS_Subset
  <2>4. Cardinality(Recent(v)) <= Cardinality(Recent(v)') /\ Cardinality(Recent(v)) \in Nat /\ Cardinality(Recent(v)') \in Nat
    BY <2>2, <2>3, RecentIsFinite, FS_Subset, FS_CardinalityType
  <2>5. Cardinality(Recent(v)) >= COUNT
    BY <2>1 DEF EscalationInv, EscalatedIsDue
  <2> QED
    BY <2>4, <2>5, AssessmentsAssumption
<1> QED
  BY <1>1, <1>2 DEF OneEscalates, EscalatedIsDue

LEMMA CountViolationsStep ==
  ASSUME EscalationInv, NEW v \in Violations, CountViolations(v)
  PROVE  OneEscalates' /\ EscalatedIsDue'
<1>1. /\ violation[v].step = "count" /\ violation'[v].step = "done" /\ violation'[v].at = violation[v].at
      /\ violation'[v].escalated <=> Cardinality(Recent(v)) >= COUNT
      /\ \A u \in Violations \ {v} : violation'[u] = violation[u]
  BY DEF CountViolations, EscalationInv
<1>2. /\ DoneViolations' = DoneViolations \cup {v} /\ DoneViolations \subseteq Pushed /\ v \in Pushed
      /\ Pushed' = Pushed /\ v \notin DoneViolations
  BY <1>1 DEF DoneViolations, Pushed
<1>3. \A u \in Violations : violation'[u].at = violation[u].at
  BY <1>1
<1>4. \A u \in Violations : Recent(u)' = Recent(u)
  BY <1>2, <1>3 DEF Recent, Pushed
<1>5. ASSUME NEW us \in SUBSET DoneViolations', Cardinality(us) >= COUNT, Together(us)'
      PROVE  \E u \in us : violation'[u].escalated
  <2>1. us \subseteq Violations /\ us \subseteq Pushed
    BY <1>2 DEF DoneViolations, Pushed
  <2>2. Together(us)
    BY <1>3, <1>5, <2>1 DEF Together
  <2>3. CASE v \in us
    <3>1. \A u \in us : violation[u].at \in Nat /\ violation[v].at - violation[u].at < WINDOW_SECONDS
      BY <2>1, <2>2, <2>3 DEF Together, EscalationInv
    <3>2. us \subseteq Recent(v)
      BY <2>1, <2>3, <3>1, AssessmentsAssumption DEF Recent
    <3>3. Cardinality(us) <= Cardinality(Recent(v)) /\ Cardinality(us) \in Nat /\ Cardinality(Recent(v)) \in Nat
      BY <3>2, RecentIsFinite, FS_Subset, FS_CardinalityType
    <3>4. Cardinality(Recent(v)) >= COUNT
      BY <1>5, <3>3, AssessmentsAssumption
    <3> QED
      BY <1>1, <2>3, <3>4
  <2>4. CASE v \notin us
    <3>1. us \in SUBSET DoneViolations
      BY <1>2, <2>4
    <3>2. PICK u \in us : violation[u].escalated
      BY <1>5, <2>2, <3>1 DEF EscalationInv, OneEscalates
    <3> QED
      BY <1>1, <2>1, <2>4, <3>2
  <2> QED
    BY <2>3, <2>4
<1>6. ASSUME NEW u \in DoneViolations', violation'[u].escalated
      PROVE  Cardinality(Recent(u)') >= COUNT
  <2>1. u \in Violations
    BY DEF DoneViolations
  <2>2. CASE u = v
    BY <1>1, <1>4, <1>6, <2>1, <2>2
  <2>3. CASE u # v
    BY <1>1, <1>2, <1>4, <1>6, <2>1, <2>3 DEF EscalationInv, EscalatedIsDue
  <2> QED
    BY <2>2, <2>3
<1> QED
  BY <1>5, <1>6 DEF OneEscalates, EscalatedIsDue

LEMMA EscalationStep ==
  ASSUME EscalationInv, EscalationNext
  PROVE  EscalationInv'
<1> DEFINE typed == violation \in [Violations -> [step : {"new", "push", "count", "failed", "done"}, at : Nat, escalated : BOOLEAN]]
<1>0. typed /\ tick \in Nat
  BY DEF EscalationInv
<1>1. CASE TickPasses
  <2>1. UNCHANGED violation /\ tick' \in Nat
    BY <1>0, <1>1 DEF TickPasses
  <2>2. DoneViolations' = DoneViolations /\ Pushed \subseteq Pushed'
    BY <2>1 DEF DoneViolations, Pushed
  <2>3. OneEscalates' /\ EscalatedIsDue'
    BY <2>1, <2>2, PushesKeep
  <2> QED
    BY <2>1, <2>3 DEF EscalationInv
<1>2. ASSUME NEW v \in Violations, BeginViolation(v) \/ PushViolation(v) \/ ViolationFails(v)
      PROVE  EscalationInv'
  <2>1. typed' /\ UNCHANGED tick
    BY <1>0, <1>2 DEF BeginViolation, PushViolation, ViolationFails
  <2>2. /\ violation[v].step \in {"new", "push", "count"} /\ violation'[v].step \in {"push", "count", "failed"}
        /\ violation'[v].escalated = violation[v].escalated
        /\ v \in Pushed => violation'[v].at = violation[v].at /\ violation'[v].step = "failed"
        /\ \A u \in Violations \ {v} : violation'[u] = violation[u]
    BY <1>0, <1>2 DEF BeginViolation, PushViolation, ViolationFails, Pushed
  <2>3. DoneViolations' = DoneViolations /\ Pushed \subseteq Pushed'
    BY <2>2 DEF DoneViolations, Pushed
  <2>4. \A u \in Pushed : violation'[u].at = violation[u].at /\ violation'[u].escalated = violation[u].escalated
    BY <2>2 DEF Pushed
  <2>5. OneEscalates' /\ EscalatedIsDue'
    BY <2>3, <2>4, PushesKeep
  <2> QED
    BY <1>0, <2>1, <2>5 DEF EscalationInv
<1>3. ASSUME NEW v \in Violations, CountViolations(v)
      PROVE  EscalationInv'
  <2> DEFINE enough == Cardinality(Recent(v)) >= COUNT
  <2>0. violation' = [violation EXCEPT ![v].step = "done", ![v].escalated = enough] /\ UNCHANGED tick
    BY <1>3 DEF CountViolations
  <2>2. enough \in BOOLEAN
    OBVIOUS
  <2> HIDE DEF enough
  <2>1. typed' /\ UNCHANGED tick
    BY <1>0, <2>0, <2>2
  <2> QED
    BY <1>0, <1>3, <2>1, CountViolationsStep DEF EscalationInv
<1> QED
  BY <1>1, <1>2, <1>3 DEF EscalationNext

LEMMA EscalationBegins ==
  OpinionsInit => EscalationInv
<1> SUFFICES ASSUME OpinionsInit PROVE EscalationInv
  OBVIOUS
<1>1. violation = [v \in Violations |-> [step |-> "new", at |-> 0, escalated |-> FALSE]] /\ tick = 0
  BY DEF OpinionsInit
<1>2. DoneViolations = {}
  BY <1>1 DEF DoneViolations
<1>3. \A us \in SUBSET DoneViolations : ~(Cardinality(us) >= COUNT)
  <2> SUFFICES ASSUME NEW us \in SUBSET DoneViolations PROVE ~(Cardinality(us) >= COUNT)
    OBVIOUS
  <2>1. us = {} /\ Cardinality(us) = 0 /\ COUNT \in Nat \ {0}
    BY <1>2, FS_EmptySet, AssessmentsAssumption
  <2> QED
    BY <2>1
<1> QED
  BY <1>1, <1>2, <1>3 DEF EscalationInv, OneEscalates, EscalatedIsDue

(* Repeated violations are escalated, and no others.                       *)
THEOREM ViolationsEscalate ==
  AssessmentsSpec => []EscalatedInTime
<1>1. EscalationInv => EscalatedInTime
  BY DEF EscalationInv, OneEscalates, EscalatedIsDue, EscalatedInTime, Together, DoneViolations, Recent
<1>2. EscalationInv /\ UNCHANGED <<violation, tick>> => EscalationInv'
  BY DEF EscalationInv, OneEscalates, EscalatedIsDue, Together, DoneViolations, Recent, Pushed
<1>3. EscalationInv
        /\ [\/ (SurveyNext \/ TrialNext) /\ UNCHANGED opinion_vars
            \/ (FeedbackNext \/ OverridesNext \/ EscalationNext) /\ UNCHANGED assessment_vars]_<<assessment_vars, opinion_vars>>
          => EscalationInv'
  <2> SUFFICES ASSUME EscalationInv,
                      UNCHANGED opinion_vars \/ FeedbackNext \/ OverridesNext \/ EscalationNext
               PROVE  EscalationInv'
    OBVIOUS
  <2>1. UNCHANGED opinion_vars \/ FeedbackNext \/ OverridesNext => UNCHANGED <<violation, tick>>
    BY DEF opinion_vars, FeedbackNext, OverridesNext, SubmitFeedback, HumanOverride, ReadStatistic
  <2> QED
    BY <1>2, <2>1, EscalationStep
<1> QED
  BY <1>1, <1>3, EscalationBegins, PTL DEF AssessmentsSpec

-----------------------------------------------------------------------------
(* among the classifiers that ran there is a preferred one                 *)
LEMMA OneIsPreferred ==
  ASSUME NEW F, NEW of \in Seq([rank : Nat, figures : F]), NEW S \in SUBSET DOMAIN of, S # {}
  PROVE  \E i \in S : \A j \in S : of[i].rank < of[j].rank \/ (of[i].rank = of[j].rank /\ i <= j)
<1>1. \A i \in S : i \in Nat /\ of[i].rank \in Nat
  <2>1. \A i \in 1..Len(of) : of[i] \in [rank : Nat, figures : F]
    BY ElementOfSeq
  <2>2. DOMAIN of = 1..Len(of) /\ Len(of) \in Nat
    OBVIOUS
  <2> QED
    BY <2>1, <2>2
<1> DEFINE ranks == {of[i].rank : i \in S}
<1>2. ranks \in SUBSET Nat /\ ranks # {}
  BY <1>1
<1>3. PICK r \in ranks : \A q \in ranks : r <= q
  BY <1>2, LeastNatural
<1> DEFINE firsts == {i \in S : of[i].rank = r}
<1>4. firsts \in SUBSET Nat /\ firsts # {}
  BY <1>1, <1>3
<1>5. PICK i \in firsts : \A j \in firsts : i <= j
  BY <1>4, LeastNatural
<1>6. i \in S /\ of[i].rank = r
  BY <1>5
<1>7. ASSUME NEW j \in S
      PROVE  of[i].rank < of[j].rank \/ (of[i].rank = of[j].rank /\ i <= j)
  <2>1. of[j].rank \in ranks /\ of[i].rank \in Nat /\ of[j].rank \in Nat
    BY <1>1, <1>6
  <2>2. of[i].rank <= of[j].rank
    BY <1>3, <1>6, <2>1
  <2>3. CASE of[j].rank = r
    BY <1>5, <1>6, <2>3
  <2>4. CASE of[j].rank # r
    BY <1>6, <2>1, <2>2, <2>4
  <2> QED
    BY <2>3, <2>4
<1> QED
  BY <1>6, <1>7

LEMMA ChosenRan ==
  ASSUME NEW told \in GateReports, told.nested, Ran(told) # {}
  PROVE  \E i \in Ran(told) : Chosen(told) = told.classifiers[i].figures /\ Chosen(told) # None
<1> DEFINE of == told.classifiers
<1>1. of \in Seq([rank : Nat, figures : Measured \cup {None}])
  BY ReportsAssumption
<1>2. Ran(told) \in SUBSET DOMAIN of
  BY DEF Ran
<1> HIDE DEF of
<1>3. \E i \in Ran(told) : \A j \in Ran(told) : of[i].rank < of[j].rank \/ (of[i].rank = of[j].rank /\ i <= j)
  BY <1>1, <1>2, OneIsPreferred
<1>4. PICK i \in Ran(told) : Chosen(told) = of[i].figures
  BY <1>3 DEF Chosen, of
<1>5. of[i].figures # None
  BY DEF Ran, of
<1> QED
  BY <1>4, <1>5 DEF of

LEMMA NotFailedIsMet ==
  ASSUME \A gate \in DOMAIN results : results[gate] \in GateReports, NEW gate \in DOMAIN results, ~Fails(gate),
         Limits[gate] # None
  PROVE  LET told == results[gate] IN
         IF told.nested
         THEN Ran(told) # {} => \E i \in Ran(told) : Meets(told.classifiers[i].figures, Limits[gate])
         ELSE Meets(told.figures, Limits[gate])
<1> DEFINE told == results[gate]
<1>1. told \in GateReports
  OBVIOUS
<1>2. CASE told.nested
  <2>1. Chosen(told) = None \/ Meets(Chosen(told), Limits[gate])
    BY <1>2 DEF Fails
  <2>2. Ran(told) # {} => \E i \in Ran(told) : Chosen(told) = told.classifiers[i].figures /\ Chosen(told) # None
    BY <1>1, <1>2, ChosenRan
  <2> QED
    BY <1>2, <2>1, <2>2
<1>3. CASE ~told.nested
  <2>1. told.figures # None
    BY <1>1, <1>3, ReportsAssumption
  <2> QED
    BY <1>3, <2>1 DEF Fails
<1> QED
  BY <1>2, <1>3

LEMMA AcceptedStep ==
  ASSUME AccuracyInv, AcceptedIsMet, [AccuracyNext]_accuracy_vars
  PROVE  AcceptedIsMet'
<1>1. CASE Benchmark \/ FreshCheckout
  <2>1. verdict'.thresholds = None
    BY <1>1 DEF Benchmark, FreshCheckout, NoVerdict
  <2> QED
    BY <2>1, VerdictsAssumption DEF AcceptedIsMet
<1>2. CASE CheckThresholds
  <2>1. UNCHANGED results
    BY <1>2 DEF CheckThresholds
  <2>2. verdict'.thresholds = IF results # None /\ \E gate \in DOMAIN results : Fails(gate) THEN "refused" ELSE "accepted"
    BY <1>2 DEF CheckThresholds, AccuracyInv
  <2>3. ASSUME verdict'.thresholds = "accepted", results # None
        PROVE  \A gate \in DOMAIN results : results[gate] \in GateReports /\ ~Fails(gate)
    BY <2>2, <2>3 DEF AccuracyInv
  <2> QED
    BY <2>1, <2>3, NotFailedIsMet DEF AcceptedIsMet
<1>3. CASE (\E save \in BOOLEAN : WatchForDrift(save)) \/ UNCHANGED accuracy_vars
  <2>1. UNCHANGED results /\ verdict'.thresholds = verdict.thresholds
    BY <1>3 DEF WatchForDrift, SavesBaseline, accuracy_vars, AccuracyInv
  <2> QED
    BY <2>1 DEF AcceptedIsMet
<1> QED
  BY <1>1, <1>2, <1>3 DEF AccuracyNext

-----------------------------------------------------------------------------
(* The preflight. *)
SettingsInv ==
  /\ DOMAIN settings = {"secret", "mtls", "cert", "key", "database", "redis", "lax", "fail_open", "started"}
  /\ settings.secret \in {None, "short", "long"}
  /\ settings.database \in {None, "default", "default+asyncpg", "own"}
  /\ settings.redis \in BOOLEAN /\ settings.mtls \in BOOLEAN
  /\ StartedIsSafe

LEMMA SettingsHeld ==
  SettingsSpec => []StartedIsSafe
<1>1. SettingsInit => SettingsInv
  BY VerdictsAssumption DEF SettingsInit, SettingsInv, StartedIsSafe
<1>2. SettingsInv /\ RunPreflightChecks => SettingsInv'
  <2> SUFFICES ASSUME SettingsInv, RunPreflightChecks PROVE SettingsInv'
    OBVIOUS
  <2>1. /\ DOMAIN settings' = DOMAIN settings
        /\ settings'.secret = settings.secret /\ settings'.database = settings.database
        /\ settings'.redis = settings.redis /\ settings'.mtls = settings.mtls
        /\ settings'.cert = settings.cert /\ settings'.key = settings.key /\ settings'.fail_open = settings.fail_open
        /\ settings'.started = (~CriticalFailure \/ settings.fail_open)
    BY DEF RunPreflightChecks, SettingsInv
  <2>2. settings'.started = TRUE /\ ~settings'.fail_open => ~CriticalFailure
    BY <2>1
  <2>3. ~CriticalFailure =>
          /\ settings.secret = "long" /\ settings.redis
          /\ settings.database \in {"own", "default+asyncpg"}
          /\ settings.mtls => settings.cert /\ settings.key
    BY DEF CriticalFailure, JwtFails, MtlsFails, SettingsInv
  <2>4. StartedIsSafe'
    BY <2>1, <2>2, <2>3 DEF StartedIsSafe
  <2> QED
    BY <2>1, <2>4 DEF SettingsInv
<1>3. SettingsInv /\ UNCHANGED settings => SettingsInv'
  BY DEF SettingsInv, StartedIsSafe
<1>4. SettingsInv => StartedIsSafe
  BY DEF SettingsInv
<1> QED
  BY <1>1, <1>2, <1>3, <1>4, PTL DEF SettingsSpec

(* What is asked and healthy did run. *)
PreflightInv ==
  /\ DOMAIN preflight = {"step", "listed", "healthy", "asked", "ran"}
  /\ preflight.step \in {"idle", "asking", "passed", "failed"}
  /\ preflight.step \in {"asking", "passed"} =>
       CriticalServices \subseteq preflight.listed
  /\ preflight.step \in {"idle", "asking", "passed"} /\ preflight.healthy =>
       preflight.asked \cap CriticalServices \subseteq preflight.ran
  /\ preflight.step = "passed" => preflight.asked = DOMAIN Matching /\ preflight.healthy

LEMMA PreflightHeld ==
  PreflightSpec => []PassedDidRun
<1>1. PreflightInit => PreflightInv
  BY DEF PreflightInit, PreflightInv
<1>2. ASSUME PreflightInv, ListContainers
      PROVE  PreflightInv'
  <2>1. PICK sick \in SUBSET DOMAIN Matching :
          preflight' = [preflight EXCEPT !.step = IF sick \cap CriticalServices # {} THEN "failed" ELSE "asking",
                                         !.listed = DOMAIN Matching \ sick]
    BY <1>2 DEF ListContainers
  <2>2. preflight.step = "idle"
    BY <1>2 DEF ListContainers
  <2>3. CriticalServices \subseteq DOMAIN Matching
    BY DEF CriticalServices
  <2> QED
    BY <1>2, <2>1, <2>2, <2>3 DEF PreflightInv
<1>3. ASSUME PreflightInv, NEW service \in DOMAIN Matching, AskEndpoint(service)
      PROVE  PreflightInv'
  <2>1. PICK answers \in BOOLEAN :
          preflight' = [preflight EXCEPT !.asked = @ \cup {service},
            !.healthy = @ /\ (answers \/ service \notin CriticalServices),
            !.ran = IF answers THEN @ \cup {service} ELSE @]
    BY <1>3 DEF AskEndpoint
  <2>2. preflight.step = "asking"
    BY <1>3 DEF AskEndpoint
  <2>3. /\ DOMAIN preflight' = DOMAIN preflight /\ preflight'.step = "asking" /\ preflight'.listed = preflight.listed
        /\ preflight'.asked = preflight.asked \cup {service}
        /\ preflight'.ran = IF answers THEN preflight.ran \cup {service} ELSE preflight.ran
        /\ preflight'.healthy = (preflight.healthy /\ (answers \/ service \notin CriticalServices))
    BY <1>3, <2>1, <2>2 DEF PreflightInv
  <2>4. preflight'.healthy => preflight.healthy /\ (answers \/ service \notin CriticalServices)
    BY <2>3
  <2>5. preflight'.healthy => preflight'.asked \cap CriticalServices \subseteq preflight'.ran
    BY <1>3, <2>2, <2>3, <2>4 DEF PreflightInv
  <2>6. UNCHANGED CriticalServices
    OBVIOUS
  <2> QED
    BY <1>3, <2>2, <2>3, <2>5 DEF PreflightInv
<1>4. ASSUME PreflightInv, AllAsked
      PROVE  PreflightInv'
  BY <1>4 DEF AllAsked, PreflightInv
<1>5. ASSUME PreflightInv, ContainerShifts \/ UNCHANGED preflight_vars
      PROVE  PreflightInv'
  BY <1>5 DEF ContainerShifts, preflight_vars, PreflightInv
<1>6. PreflightInv => PassedDidRun
  BY DEF PreflightInv, PassedDidRun, CriticalServices
<1>7. PreflightInv /\ [PreflightNext]_preflight_vars => PreflightInv'
  BY <1>2, <1>3, <1>4, <1>5 DEF PreflightNext
<1> QED
  BY <1>1, <1>6, <1>7, PTL DEF PreflightSpec

(* What passes its checks was measured, configured and up. *)
THEOREM ReadyIsReady ==
  ReadinessSpec => [](AcceptedIsMet /\ StartedIsSafe /\ PassedDidRun)
<1>1. AccuracyInit => AccuracyInv /\ AcceptedIsMet
  BY VerdictsAssumption DEF AccuracyInit, NoVerdict, AccuracyInv, AcceptedIsMet
<1>2. AccuracyInv /\ AcceptedIsMet /\ [AccuracyNext]_accuracy_vars => AccuracyInv' /\ AcceptedIsMet'
  BY AccuracyStep, AcceptedStep
<1> QED
  BY <1>1, <1>2, SettingsHeld, PreflightHeld, PTL DEF ReadinessSpec, AccuracySpec

-----------------------------------------------------------------------------
(* Backups.  What a run has written of a store, by where the run is.       *)
HasNone(run, store) == \A f \in dumps : ~(f.run = run /\ f.store = store)
HasOnly(run, store, form) ==
  /\ \E f \in dumps : f.run = run /\ f.store = store
  /\ \A f \in dumps : f.run = run /\ f.store = store => f.form = form /\ f.whole = TRUE
FormOf(key) == IF key THEN "encrypted" ELSE "gz"

BackupSteps == {"postgres", "protect postgres", "redis", "protect redis", "checksums"}

BackupTyped ==
  /\ backup \in [run : Nat, at : BackupSteps \cup {None}, key : BOOLEAN, found : SUBSET Stores]
  /\ \A f \in dumps : f \in [run : Nat, store : Stores, form : {"plain", "encrypted", "gz"}, whole : BOOLEAN]
                      /\ f.run <= backup.run

UnderWay ==
  /\ backup.at = "postgres" => "postgres" \notin backup.found /\ HasNone(backup.run, "postgres")
  /\ backup.at \in {"postgres", "protect postgres", "redis"} => "redis" \notin backup.found /\ HasNone(backup.run, "redis")
  /\ backup.at = "protect postgres" => HasOnly(backup.run, "postgres", "plain")
  /\ backup.at = "protect redis" => HasOnly(backup.run, "redis", "plain")
  /\ backup.at \in {"redis", "protect redis", "checksums"} /\ "postgres" \in backup.found =>
       HasOnly(backup.run, "postgres", FormOf(backup.key))
  /\ backup.at = "checksums" /\ "redis" \in backup.found => HasOnly(backup.run, "redis", FormOf(backup.key))

Settled ==
  \A run \in DOMAIN completed :
    /\ run \in Nat /\ run <= backup.run /\ (backup.at # None => run < backup.run)
    /\ run + RETENTION_RUNS > backup.run =>
         \A store \in completed[run].found : HasOnly(run, store, FormOf(completed[run].key))

BackupInv == BackupTyped /\ UnderWay /\ Settled

(* what a step of the current run does to the files of the others, and to  *)
(* what was completed: nothing                                             *)
LEMMA OthersSettled ==
  ASSUME BackupInv, backup.at # None, UNCHANGED completed, backup'.run = backup.run,
         \A f \in dumps : f.run # backup.run => f \in dumps',
         \A f \in dumps' : f.run # backup.run => f \in dumps
  PROVE  Settled'
<1> SUFFICES ASSUME NEW run \in DOMAIN completed
             PROVE  /\ run \in Nat /\ run <= backup.run /\ run < backup.run
                    /\ run + RETENTION_RUNS > backup.run =>
                         \A store \in completed[run].found : HasOnly(run, store, FormOf(completed[run].key))'
  BY DEF Settled, FormOf, BackupInv
<1>1. run \in Nat /\ run <= backup.run /\ run < backup.run /\ run # backup.run
  BY DEF BackupInv, Settled, BackupTyped
<1>2. ASSUME NEW store, NEW form, HasOnly(run, store, form)
      PROVE  HasOnly(run, store, form)'
  BY <1>1, <1>2 DEF HasOnly
<1> QED
  BY <1>1, <1>2 DEF BackupInv, Settled, FormOf

LEMMA BeginBackupStep ==
  ASSUME BackupInv, NEW run \in 1..Backups, NEW key \in BOOLEAN, BeginBackup(run, key)
  PROVE  BackupInv'
<1>1. /\ backup.at = None /\ run = backup.run + 1 /\ UNCHANGED <<dumps, completed>>
      /\ backup' = [run |-> run, at |-> "postgres", key |-> key, found |-> {}]
  BY DEF BeginBackup
<1>2. backup.run \in Nat /\ RETENTION_RUNS \in Nat
  BY BackupsAssumption DEF BackupInv, BackupTyped
<1>3. BackupTyped'
  <2>1. run \in Nat /\ backup.run <= run
    BY <1>1, <1>2
  <2>2. backup' \in [run : Nat, at : BackupSteps \cup {None}, key : BOOLEAN, found : SUBSET Stores] /\ backup'.run = run
    BY <1>1, <2>1 DEF BackupSteps
  <2>3. ASSUME NEW f \in dumps
        PROVE  /\ f \in [run : Nat, store : Stores, form : {"plain", "encrypted", "gz"}, whole : BOOLEAN]
               /\ f.run <= run
    <3>1. /\ f \in [run : Nat, store : Stores, form : {"plain", "encrypted", "gz"}, whole : BOOLEAN]
          /\ f.run <= backup.run
      BY DEF BackupInv, BackupTyped
    <3>2. f.run \in Nat
      BY <3>1
    <3> QED
      BY <1>2, <2>1, <3>1, <3>2
  <2> QED
    BY <1>1, <2>2, <2>3 DEF BackupTyped
<1>4. \A store : HasNone(backup.run, store)'
  BY <1>1, <1>2 DEF HasNone, BackupInv, BackupTyped
<1>5. UnderWay'
  BY <1>1, <1>4 DEF UnderWay
<1>6. Settled'
  <2> SUFFICES ASSUME NEW r \in DOMAIN completed
               PROVE  /\ r \in Nat /\ r <= run /\ r < run
                      /\ r + RETENTION_RUNS > run =>
                           \A store \in completed[r].found : HasOnly(r, store, FormOf(completed[r].key))'
    BY <1>1 DEF Settled, FormOf
  <2>1. r \in Nat /\ r <= backup.run
    BY DEF BackupInv, Settled
  <2>2. r + RETENTION_RUNS > run => r + RETENTION_RUNS > backup.run
    BY <1>1, <1>2, <2>1
  <2>3. \A store, form : HasOnly(r, store, form)' <=> HasOnly(r, store, form)
    BY <1>1 DEF HasOnly
  <2>4. r <= run /\ r < run
    BY <1>1, <1>2, <2>1
  <2>5. r + RETENTION_RUNS > run => \A store \in completed[r].found : HasOnly(r, store, FormOf(completed[r].key))
    BY <2>2 DEF BackupInv, Settled
  <2>6. UNCHANGED completed
    BY <1>1
  <2> QED
    BY <2>1, <2>3, <2>4, <2>5, <2>6 DEF FormOf
<1> QED
  BY <1>3, <1>5, <1>6 DEF BackupInv

(* a run that aborts has nothing to show                                   *)
LEMMA AbortStep ==
  ASSUME BackupInv, NEW store \in Stores, NEW form \in {"plain", "encrypted", "gz"}, backup.at # None, Aborts,
         UNCHANGED completed, dumps' \in {dumps, dumps \cup {File(store, form, FALSE)}}
  PROVE  BackupInv'
<1>1. /\ backup' \in [run : Nat, at : BackupSteps \cup {None}, key : BOOLEAN, found : SUBSET Stores]
      /\ backup'.at = None /\ backup'.run = backup.run
  BY DEF Aborts, BackupInv, BackupTyped
<1>2. /\ File(store, form, FALSE) \in [run : Nat, store : Stores, form : {"plain", "encrypted", "gz"}, whole : BOOLEAN]
      /\ File(store, form, FALSE).run = backup.run /\ backup.run \in Nat
  BY DEF File, BackupInv, BackupTyped
<1>3. BackupTyped'
  <2>1. \A f \in dumps' : f \in dumps \/ f = File(store, form, FALSE)
    OBVIOUS
  <2>2. \A f \in dumps : /\ f \in [run : Nat, store : Stores, form : {"plain", "encrypted", "gz"}, whole : BOOLEAN]
                        /\ f.run <= backup.run
    BY DEF BackupInv, BackupTyped
  <2>3. ASSUME NEW f \in dumps'
        PROVE  /\ f \in [run : Nat, store : Stores, form : {"plain", "encrypted", "gz"}, whole : BOOLEAN]
               /\ f.run <= backup.run
    <3>1. CASE f \in dumps
      BY <2>2, <3>1
    <3>2. CASE f = File(store, form, FALSE)
      <4>1. f.run = backup.run /\ backup.run \in Nat
        BY <1>2, <3>2
      <4>2. f \in [run : Nat, store : Stores, form : {"plain", "encrypted", "gz"}, whole : BOOLEAN]
        BY <1>2, <3>2
      <4>3. f.run <= backup.run
        BY <4>1
      <4> QED
        BY <4>2, <4>3
    <3> QED
      BY <2>1, <3>1, <3>2
  <2> QED
    BY <1>1, <2>3 DEF BackupTyped
<1>4. UnderWay'
  BY <1>1, BackupsAssumption DEF UnderWay
<1>5. Settled'
  BY <1>1, <1>2, OthersSettled
<1> QED
  BY <1>3, <1>4, <1>5 DEF BackupInv

LEMMA SkipStoreStep ==
  ASSUME BackupInv, NEW store \in Stores, SkipStore(store)
  PROVE  BackupInv'
<1>1. /\ backup.at = store /\ store \in BackupSteps /\ UNCHANGED <<dumps, completed>>
      /\ backup'.at = After(store) /\ backup'.run = backup.run /\ backup'.key = backup.key /\ backup'.found = backup.found
      /\ backup' \in [run : Nat, at : BackupSteps \cup {None}, key : BOOLEAN, found : SUBSET Stores]
  BY DEF SkipStore, BackupInv, BackupTyped, Stores, BackupSteps, After
<1>2. backup.at # None
  BY <1>1, BackupsAssumption DEF BackupSteps
<1>3. BackupTyped'
  BY <1>1 DEF BackupInv, BackupTyped
<1>4. Settled'
  BY <1>1, <1>2, OthersSettled
<1>5. UnderWay'
  BY <1>1 DEF BackupInv, UnderWay, Stores, After, HasNone, HasOnly, FormOf
<1> QED
  BY <1>3, <1>4, <1>5 DEF BackupInv

LEMMA DumpStep ==
  ASSUME BackupInv, NEW store \in Stores, Dump(store)
  PROVE  BackupInv'
<1>1. backup.at = store /\ store \in BackupSteps /\ UNCHANGED completed /\ backup.run \in Nat
  BY DEF Dump, BackupInv, BackupTyped, Stores, BackupSteps
<1>2. backup.at # None
  BY <1>1, BackupsAssumption DEF BackupSteps
<1>3. CASE dumps' \in {dumps, dumps \cup {File(store, "plain", FALSE)}} /\ Aborts
  BY <1>1, <1>2, <1>3, AbortStep
<1>4. CASE /\ dumps' = dumps \cup {File(store, "plain", TRUE)}
           /\ backup' = [backup EXCEPT !.at = Protecting(store), !.found = @ \cup {store}]
  <2> DEFINE f == File(store, "plain", TRUE)
  <2>1. f.run = backup.run /\ f.store = store /\ f.form = "plain" /\ f.whole = TRUE
        /\ f \in [run : Nat, store : Stores, form : {"plain", "encrypted", "gz"}, whole : BOOLEAN]
    BY <1>1 DEF File
  <2>2. dumps' = dumps \cup {f}
    BY <1>4
  <2> HIDE DEF f
  <2>3. /\ backup'.at = Protecting(store) /\ backup'.run = backup.run /\ backup'.key = backup.key
        /\ backup'.found = backup.found \cup {store} /\ Protecting(store) \in BackupSteps
        /\ backup' \in [run : Nat, at : BackupSteps \cup {None}, key : BOOLEAN, found : SUBSET Stores]
    BY <1>4 DEF BackupInv, BackupTyped, Protecting, BackupSteps
  <2>4. BackupTyped'
    BY <2>1, <2>2, <2>3 DEF BackupInv, BackupTyped
  <2>5. Settled'
    BY <1>1, <1>2, <2>1, <2>2, <2>3, OthersSettled
  <2>6. HasOnly(backup.run, store, "plain")'
    <3>1. HasNone(backup.run, store)
      BY <1>1 DEF BackupInv, UnderWay, Stores
    <3> QED
      BY <2>1, <2>2, <2>3, <3>1 DEF HasNone, HasOnly
  <2>7. \A other \in Stores \ {store} :
          /\ HasNone(backup.run, other) => HasNone(backup.run, other)'
          /\ \A form : HasOnly(backup.run, other, form) => HasOnly(backup.run, other, form)'
    BY <2>1, <2>2, <2>3 DEF HasNone, HasOnly
  <2>8. UnderWay'
    <3>1. CASE store = "postgres"
      BY <1>1, <2>3, <2>6, <2>7, <3>1 DEF BackupInv, UnderWay, Stores, Protecting
    <3>2. CASE store = "redis"
      <4>1. "postgres" \in backup.found => HasOnly(backup.run, "postgres", FormOf(backup.key))
        BY <1>1, <3>2 DEF BackupInv, UnderWay
      <4>2. "postgres" \in backup'.found => HasOnly(backup.run, "postgres", FormOf(backup.key))'
        BY <2>3, <2>7, <3>2, <4>1 DEF Stores, FormOf
      <4> QED
        BY <2>3, <2>6, <3>2, <4>2 DEF UnderWay, Protecting
    <3> QED
      BY <3>1, <3>2 DEF Stores
  <2> QED
    BY <2>4, <2>5, <2>8 DEF BackupInv
<1> QED
  BY <1>3, <1>4 DEF Dump

LEMMA ProtectStep ==
  ASSUME BackupInv, NEW store \in Stores, Protect(store)
  PROVE  BackupInv'
<1> DEFINE form == FormOf(backup.key)
           plain == {f \in dumps : f.run = backup.run /\ f.store = store}
<1>1. backup.at = Protecting(store) /\ Protecting(store) \in BackupSteps /\ UNCHANGED completed /\ backup.run \in Nat
      /\ form \in {"plain", "encrypted", "gz"}
  BY DEF Protect, BackupInv, BackupTyped, Protecting, BackupSteps, FormOf
<1>2. backup.at # None
  BY <1>1, BackupsAssumption DEF BackupSteps
<1>3. CASE dumps' \in {dumps, dumps \cup {File(store, form, FALSE)}} /\ Aborts
  BY <1>1, <1>2, <1>3, AbortStep
<1>4. CASE /\ dumps' = (dumps \ plain) \cup {[f EXCEPT !.form = form] : f \in plain}
           /\ backup' = [backup EXCEPT !.at = After(store)]
  <2>1. /\ backup'.at = After(store) /\ backup'.run = backup.run /\ backup'.key = backup.key
        /\ backup'.found = backup.found /\ After(store) \in BackupSteps
        /\ backup' \in [run : Nat, at : BackupSteps \cup {None}, key : BOOLEAN, found : SUBSET Stores]
    BY <1>4 DEF BackupInv, BackupTyped, After, BackupSteps
  <2>2. \A f \in plain : /\ f \in dumps /\ f.run = backup.run /\ f.store = store
                         /\ f \in [run : Nat, store : Stores, form : {"plain", "encrypted", "gz"}, whole : BOOLEAN]
    BY DEF BackupInv, BackupTyped
  <2>3. \A f \in plain : LET g == [f EXCEPT !.form = form] IN
          /\ g.run = backup.run /\ g.store = store /\ g.form = form /\ g.whole = f.whole
          /\ g \in [run : Nat, store : Stores, form : {"plain", "encrypted", "gz"}, whole : BOOLEAN]
    BY <1>1, <2>2
  <2>4. \A g \in dumps' : \/ g \in dumps /\ g \notin plain
                          \/ \E f \in plain : g = [f EXCEPT !.form = form]
    BY <1>4
  <2>5. /\ \A g \in dumps : g \notin plain => g \in dumps'
        /\ \A f \in plain : [f EXCEPT !.form = form] \in dumps'
    BY <1>4
  <2>6. \A g \in dumps : g \in plain <=> g.run = backup.run /\ g.store = store
    OBVIOUS
  <2> HIDE DEF plain, form
  <2>7. BackupTyped'
    BY <2>1, <2>3, <2>4 DEF BackupInv, BackupTyped
  <2>8. Settled'
    BY <1>1, <1>2, <2>1, <2>3, <2>4, <2>5, <2>6, OthersSettled
  <2>9. HasOnly(backup.run, store, "plain")
    BY <1>1 DEF BackupInv, UnderWay, Stores, Protecting
  <2>10. HasOnly(backup.run, store, form)'
    <3>1. \E g \in dumps' : g.run = backup.run /\ g.store = store
      BY <2>3, <2>5, <2>6, <2>9 DEF HasOnly
    <3>2. ASSUME NEW g \in dumps', g.run = backup.run, g.store = store
          PROVE  g.form = form /\ g.whole = TRUE
      <4>1. PICK f \in plain : g = [f EXCEPT !.form = form]
        BY <2>4, <2>6, <3>2
      <4> QED
        BY <2>2, <2>3, <2>9, <4>1 DEF HasOnly
    <3>3. form' = form
      BY <2>1 DEF form
    <3> QED
      BY <2>1, <3>1, <3>2, <3>3 DEF HasOnly
  <2>11. \A other \in Stores \ {store} :
          /\ HasNone(backup.run, other) => HasNone(backup.run, other)'
          /\ \A fm : HasOnly(backup.run, other, fm) => HasOnly(backup.run, other, fm)'
    BY <2>1, <2>3, <2>4, <2>5, <2>6 DEF HasNone, HasOnly
  <2>12. UnderWay'
    <3>1. CASE store = "postgres"
      BY <1>1, <2>1, <2>10, <2>11, <3>1 DEF BackupInv, UnderWay, Stores, Protecting, After, form, FormOf
    <3>2. CASE store = "redis"
      <4>1. "postgres" \in backup.found => HasOnly(backup.run, "postgres", FormOf(backup.key))
        BY <1>1, <3>2 DEF BackupInv, UnderWay, Protecting
      <4>2. "postgres" \in backup'.found => HasOnly(backup.run, "postgres", FormOf(backup.key))'
        BY <2>1, <2>11, <3>2, <4>1 DEF Stores, FormOf
      <4>3. HasOnly(backup.run, "redis", FormOf(backup.key))'
        BY <2>1, <2>10, <3>2 DEF form
      <4> QED
        BY <2>1, <3>2, <4>2, <4>3 DEF UnderWay, After
    <3> QED
      BY <3>1, <3>2 DEF Stores
  <2> QED
    BY <2>7, <2>8, <2>12 DEF BackupInv
<1> QED
  BY <1>3, <1>4 DEF Protect, FormOf

LEMMA FinishBackupStep ==
  ASSUME BackupInv, FinishBackup
  PROVE  BackupInv'
<1>1. /\ backup.at = "checksums" /\ backup.run \in Nat /\ RETENTION_RUNS \in Nat \ {0}
      /\ dumps' = {f \in dumps : f.run + RETENTION_RUNS > backup.run}
      /\ backup'.at = None /\ backup'.run = backup.run
      /\ backup' \in [run : Nat, at : BackupSteps \cup {None}, key : BOOLEAN, found : SUBSET Stores]
  BY BackupsAssumption DEF FinishBackup, Aborts, BackupInv, BackupTyped
<1>2. /\ DOMAIN completed' = DOMAIN completed \cup {backup.run}
      /\ completed'[backup.run].found = backup.found /\ completed'[backup.run].key = backup.key
      /\ \A run \in DOMAIN completed : run # backup.run => completed'[run] = completed[run]
  BY DEF FinishBackup
<1>3. BackupTyped'
  BY <1>1 DEF BackupInv, BackupTyped
<1>4. UnderWay'
  BY <1>1, BackupsAssumption DEF UnderWay
<1>5. ASSUME NEW run \in Nat, run + RETENTION_RUNS > backup.run, NEW store, NEW form, HasOnly(run, store, form)
      PROVE  HasOnly(run, store, form)'
  BY <1>1, <1>5 DEF HasOnly
<1>6. backup.at # None
  BY <1>1, BackupsAssumption
<1>7. ASSUME NEW run \in DOMAIN completed'
      PROVE  /\ run \in Nat /\ run <= backup.run
             /\ run + RETENTION_RUNS > backup.run =>
                  \A store \in completed'[run].found : HasOnly(run, store, FormOf(completed[run].key))'
  <2>1. CASE run = backup.run
    <3>1. \A store \in backup.found : HasOnly(run, store, FormOf(backup.key))
      BY <1>1, <2>1 DEF BackupInv, BackupTyped, UnderWay, Stores
    <3>2. run + RETENTION_RUNS > backup.run
      BY <1>1, <2>1
    <3>3. \A store \in backup.found : HasOnly(run, store, FormOf(backup.key))'
      <4> SUFFICES ASSUME NEW store \in backup.found PROVE HasOnly(run, store, FormOf(backup.key))'
        OBVIOUS
      <4>1. backup'.key = backup.key
        BY DEF FinishBackup, Aborts, BackupInv, BackupTyped
      <4>2. \A form : HasOnly(run, store, form) => HasOnly(run, store, form)'
        BY <1>1, <1>5, <2>1, <3>2
      <4> QED
        BY <3>1, <4>1, <4>2 DEF FormOf
    <3>4. backup'.key = backup.key
      BY DEF FinishBackup, Aborts, BackupInv, BackupTyped
    <3> QED
      BY <1>1, <1>2, <2>1, <3>3, <3>4 DEF FormOf
  <2>2. CASE run # backup.run
    <3>1. run \in DOMAIN completed /\ completed'[run] = completed[run]
      BY <1>2, <2>2
    <3>2. /\ run \in Nat /\ run <= backup.run
          /\ run + RETENTION_RUNS > backup.run =>
               \A store \in completed[run].found : HasOnly(run, store, FormOf(completed[run].key))
      BY <3>1 DEF BackupInv, Settled
    <3>3. \A store, form : run + RETENTION_RUNS > backup.run /\ HasOnly(run, store, form) => HasOnly(run, store, form)'
      BY <1>5, <3>2
    <3> QED
      BY <3>1, <3>2, <3>3 DEF FormOf
  <2> QED
    BY <2>1, <2>2
<1>8. Settled'
  BY <1>1, <1>7 DEF Settled, FormOf
<1> QED
  BY <1>3, <1>4, <1>8 DEF BackupInv

LEMMA BackupStep ==
  ASSUME BackupInv, [MaintenanceNext]_maintenance_vars
  PROVE  BackupInv'
<1>1. CASE UNCHANGED backup_vars
  <2>1. UNCHANGED <<backup, dumps, completed>>
    BY <1>1 DEF backup_vars
  <2>2. /\ \A run, store, form : HasOnly(run, store, form)' <=> HasOnly(run, store, form)
        /\ \A run, store : HasNone(run, store)' <=> HasNone(run, store)
    BY <2>1 DEF HasOnly, HasNone
  <2>3. BackupTyped'
    BY <2>1 DEF BackupInv, BackupTyped
  <2>4. UnderWay'
    BY <2>1, <2>2 DEF BackupInv, UnderWay, FormOf
  <2>5. Settled'
    BY <2>1, <2>2 DEF BackupInv, Settled, FormOf
  <2> QED
    BY <2>3, <2>4, <2>5 DEF BackupInv
<1>2. CASE ScalerNext \/ TrainingNext \/ UNCHANGED maintenance_vars
  <2>1. UNCHANGED backup_vars
    BY <1>2 DEF ScalerNext, Measure, Scale, ContainersChange, TrainingNext, RunStage, PassOverStage, StageFails,
                maintenance_vars, backup_vars
  <2> QED
    BY <1>1, <2>1
<1>3. CASE BackupNext
  BY <1>3, BeginBackupStep, SkipStoreStep, DumpStep, ProtectStep, FinishBackupStep DEF BackupNext
<1> QED
  BY <1>2, <1>3 DEF MaintenanceNext

LEMMA BackupBegins ==
  MaintenanceInit => BackupInv
<1> SUFFICES ASSUME MaintenanceInit PROVE BackupInv
  OBVIOUS
<1>1. /\ backup = [run |-> 0, at |-> None, key |-> FALSE, found |-> {}]
      /\ dumps = {} /\ completed = <<>>
  BY DEF MaintenanceInit, BackupInit, NoBackup
<1>2. DOMAIN completed = {}
  BY <1>1
<1>3. BackupTyped
  BY <1>1 DEF BackupTyped
<1>4. UnderWay
  BY <1>1, BackupsAssumption DEF UnderWay
<1> QED
  BY <1>2, <1>3, <1>4 DEF BackupInv, Settled

LEMMA WholeIfSettled ==
  BackupInv => CompletedIsWhole
<1> SUFFICES ASSUME BackupInv, NEW run \in DOMAIN completed, run + RETENTION_RUNS > backup.run,
                    NEW store \in completed[run].found
             PROVE  {[form |-> f.form, whole |-> f.whole] : f \in {d \in dumps : d.run = run /\ d.store = store}}
                      = {[form |-> IF completed[run].key THEN "encrypted" ELSE "gz", whole |-> TRUE]}
  BY DEF CompletedIsWhole
<1> DEFINE form == FormOf(completed[run].key)
<1>1. HasOnly(run, store, form)
  BY DEF BackupInv, Settled
<1>2. form = IF completed[run].key THEN "encrypted" ELSE "gz"
  BY DEF FormOf
<1> HIDE DEF form
<1> QED
  BY <1>1, <1>2 DEF HasOnly

-----------------------------------------------------------------------------
(* Training. *)
TrainingInv ==
  /\ DOMAIN training = {"asked", "done", "passed_over", "ended"}
  /\ "train" \notin training.passed_over
  /\ RegisteredWasTrained

LEMMA TrainingStep ==
  ASSUME TrainingInv, [MaintenanceNext]_maintenance_vars
  PROVE  TrainingInv'
<1>1. ASSUME NEW stage \in Stages, RunStage(stage)
      PROVE  TrainingInv'
  <2>1. /\ training' = [training EXCEPT !.done = @ \cup {stage}] /\ ToRun(stage)
    BY <1>1 DEF RunStage
  <2>2. /\ DOMAIN training' = DOMAIN training /\ training'.asked = training.asked
        /\ training'.done = training.done \cup {stage} /\ training'.passed_over = training.passed_over
    BY <2>1 DEF TrainingInv
  <2>3. ASSUME training.asked = Stages, stage = "register"
        PROVE  "train" \in training.done
    BY <2>1, <2>3 DEF ToRun, Before, Stages, TrainingInv
  <2> QED
    BY <2>2, <2>3 DEF TrainingInv, RegisteredWasTrained
<1>2. ASSUME NEW stage \in Stages, PassOverStage(stage) \/ StageFails(stage)
      PROVE  TrainingInv'
  <2>1. /\ DOMAIN training' = DOMAIN training /\ training'.asked = training.asked /\ training'.done = training.done
        /\ training'.passed_over \in {training.passed_over, training.passed_over \cup {stage}}
        /\ stage = "train" => training'.passed_over = training.passed_over
    BY <1>2 DEF PassOverStage, StageFails, TrainingInv
  <2> QED
    BY <2>1 DEF TrainingInv, RegisteredWasTrained
<1>3. CASE ScalerNext \/ BackupNext \/ UNCHANGED maintenance_vars
  <2>1. UNCHANGED training
    BY <1>3 DEF ScalerNext, Measure, Scale, ContainersChange, BackupNext, BeginBackup, SkipStore, Dump, Protect,
                FinishBackup, maintenance_vars
  <2> QED
    BY <2>1 DEF TrainingInv, RegisteredWasTrained
<1> QED
  BY <1>1, <1>2, <1>3 DEF MaintenanceNext, TrainingNext

(* A backup that completed is whole, and a model registered was trained.   *)
THEOREM ChoresAreDone ==
  MaintenanceSpec => [](CompletedIsWhole /\ RegisteredWasTrained)
<1>1. MaintenanceInit => TrainingInv
  BY DEF MaintenanceInit, TrainingInit, TrainingInv, RegisteredWasTrained
<1>2. TrainingInv => RegisteredWasTrained
  BY DEF TrainingInv
<1> QED
  BY <1>1, <1>2, BackupBegins, BackupStep, WholeIfSettled, TrainingStep, PTL DEF MaintenanceSpec

-----------------------------------------------------------------------------
(* Routing.  A version has results of its own model only, so none of a     *)
(* candidate that bears the primary's name; and what a decision rests on   *)
(* is recorded and does not change.                                        *)
VersionTyped(v) ==
  v \in [object : Nat, model : Models, results : SUBSET Inferences] /\ IsFiniteSet(v.results)

Inferred ==
  inference \in [Inferences -> [object : Nat \cup {None}, model : Models \cup {None}, error : BOOLEAN,
                                slow : BOOLEAN, step : {"idle", "routed", "recorded"}]]

Rests ==
  decided # None =>
    \A i \in decided.candidate.results \cup decided.over.results : i \in Inferences /\ inference[i].step = "recorded"

RoutingInv ==
  /\ VersionTyped(primary)
  /\ candidate = None \/ VersionTyped(candidate)
  /\ Inferred /\ installed \in Nat
  /\ ResultsCountOnce
  /\ candidate # None /\ candidate.model = primary.model => candidate.results = {}
  /\ Rests /\ DecidedOnEvidence

LEMMA VersionsAreTyped ==
  ASSUME NEW n \in Nat, NEW m \in Models
  PROVE  /\ VersionTyped(Version(n, m))
         /\ Version(n, m).model = m /\ Version(n, m).results = {}
BY FS_EmptySet DEF VersionTyped, Version

LEMMA SamplesCount ==
  ASSUME NEW v, IsFiniteSet(v.results)
  PROVE  /\ Samples(v) \in Nat /\ Errors(v) \in Nat /\ Slow(v) \in Nat
         /\ Errors(v) <= Samples(v) /\ Slow(v) <= Samples(v)
<1>1. /\ {i \in v.results : inference[i].error} \subseteq v.results
      /\ {i \in v.results : inference[i].slow} \subseteq v.results
  OBVIOUS
<1>2. /\ IsFiniteSet({i \in v.results : inference[i].error}) /\ IsFiniteSet({i \in v.results : inference[i].slow})
      /\ Errors(v) <= Samples(v) /\ Slow(v) <= Samples(v)
  BY <1>1, FS_Subset DEF Errors, Slow, Samples
<1> QED
  BY <1>2, FS_CardinalityType DEF Errors, Slow, Samples

(* an estimate that is better is so by errors or by slowness               *)
LEMMA BetterSomewhere ==
  ASSUME NEW Sc \in Nat, NEW Ec \in Nat, NEW Lc \in Nat, NEW Sp \in Nat, NEW Ep \in Nat, NEW Lp \in Nat,
         Ep <= Sp, Lp <= Sp,
         NEW cp, NEW pc, cp = (7 * (Sc - Ec) + 3 * (Sc - Lc)) * Sp, pc = (7 * (Sp - Ep) + 3 * (Sp - Lp)) * Sc,
         IF pc = 0 THEN cp > 0 ELSE 20 * cp >= 21 * pc
  PROVE  Ec * Sp < Ep * Sc \/ Lc * Sp < Lp * Sc
<1> DEFINE both == Sc * Sp  ec == Ec * Sp  lc == Lc * Sp  ep == Ep * Sc  lp == Lp * Sc
<1>1. cp = 10 * both - 7 * ec - 3 * lc
  OBVIOUS
<1>2. pc = 10 * both - 7 * ep - 3 * lp
  OBVIOUS
<1>3. both \in Nat /\ ec \in Nat /\ lc \in Nat /\ ep \in Nat /\ lp \in Nat
  OBVIOUS
<1>4. ep <= both /\ lp <= both
  OBVIOUS
<1> HIDE DEF both, ec, lc, ep, lp
<1>5. ec < ep \/ lc < lp
  BY <1>1, <1>2, <1>3, <1>4
<1> QED
  BY <1>5 DEF ec, ep, lc, lp

(* a step that neither decides nor touches what is recorded                *)
LEMMA DecisionRests ==
  ASSUME RoutingInv, UNCHANGED decided,
         \A i \in Inferences : inference[i].step = "recorded" => inference'[i] = inference[i]
  PROVE  Rests' /\ DecidedOnEvidence'
<1>1. CASE decided = None
  BY <1>1 DEF Rests, DecidedOnEvidence
<1>2. CASE decided # None
  <2> DEFINE c == decided.candidate
             p == decided.over
  <2>1. \A i \in c.results \cup p.results :
          i \in Inferences /\ inference[i].step = "recorded" /\ inference'[i] = inference[i]
    BY <1>2 DEF RoutingInv, Rests
  <2>2. /\ {i \in c.results : inference'[i].error} = {i \in c.results : inference[i].error}
        /\ {i \in p.results : inference'[i].error} = {i \in p.results : inference[i].error}
        /\ {i \in c.results : inference'[i].slow} = {i \in c.results : inference[i].slow}
        /\ {i \in p.results : inference'[i].slow} = {i \in p.results : inference[i].slow}
    BY <2>1
  <2>3. DecidedOnEvidence
    BY DEF RoutingInv
  <2> QED
    BY <1>2, <2>1, <2>2, <2>3 DEF Rests, DecidedOnEvidence, Errors, Slow, Samples
<1> QED
  BY <1>1, <1>2

(* a version takes another's place                                         *)
LEMMA InstallStep ==
  ASSUME RoutingInv, UNCHANGED <<inference, decided>>, NEW n \in Nat, installed' \in Nat, NEW m \in Models,
         \/ UNCHANGED primary /\ candidate' \in {Version(n, m), None}
         \/ primary' = Version(n, m) /\ candidate' = None
  PROVE  RoutingInv'
<1>1. VersionTyped(Version(n, m)) /\ Version(n, m).results = {}
  BY VersionsAreTyped
<1>2. VersionTyped(primary)' /\ (candidate = None \/ VersionTyped(candidate))'
  BY <1>1 DEF RoutingInv, VersionTyped
<1>3. Inferred' /\ Rests' /\ DecidedOnEvidence'
  BY DecisionRests DEF RoutingInv, Inferred
<1>4. ResultsCountOnce'
  <2>1. primary' = primary \/ primary'.results = {}
    BY <1>1
  <2>2. candidate' = None \/ candidate'.results = {}
    BY <1>1
  <2>3. \A i \in primary.results : inference[i].model = primary.model /\ inference[i].step = "recorded"
    BY DEF RoutingInv, ResultsCountOnce, Versions
  <2> QED
    BY <2>1, <2>2, <2>3 DEF ResultsCountOnce, Versions
<1>5. candidate' # None => candidate'.results = {}
  BY <1>1
<1> QED
  BY <1>2, <1>3, <1>4, <1>5 DEF RoutingInv

LEMMA SelectModelStep ==
  ASSUME RoutingInv, NEW i \in Inferences, SelectModel(i)
  PROVE  RoutingInv'
<1>1. PICK v \in Versions, error \in BOOLEAN, slow \in BOOLEAN :
        inference' = [inference EXCEPT ![i] = [object |-> v.object, model |-> v.model,
                        error |-> error, slow |-> slow, step |-> "routed"]]
  BY DEF SelectModel, Versions
<1>2. inference[i].step = "idle" /\ UNCHANGED <<primary, candidate, installed, decided>>
  BY DEF SelectModel
<1>3. v.object \in Nat /\ v.model \in Models
  BY DEF RoutingInv, Versions, VersionTyped
<1>4. Inferred' /\ \A j \in Inferences : inference[j].step = "recorded" => inference'[j] = inference[j]
  BY <1>1, <1>2, <1>3 DEF RoutingInv, Inferred
<1>5. Rests' /\ DecidedOnEvidence'
  BY <1>2, <1>4, DecisionRests
<1>6. ResultsCountOnce'
  <2>1. \A w \in Versions : \A j \in w.results :
          j \in Inferences /\ inference[j].model = w.model /\ inference[j].step = "recorded"
    BY DEF RoutingInv, ResultsCountOnce, Versions, VersionTyped
  <2>2. \A w \in Versions : \A j \in w.results : inference'[j].model = w.model /\ inference'[j].step = "recorded"
    BY <1>4, <2>1
  <2>3. Versions' = Versions
    BY <1>2 DEF Versions
  <2> QED
    BY <1>2, <2>2, <2>3 DEF RoutingInv, ResultsCountOnce
<1> QED
  BY <1>2, <1>4, <1>5, <1>6 DEF RoutingInv, VersionTyped

LEMMA RecordResultStep ==
  ASSUME RoutingInv, NEW i \in Inferences, RecordResult(i)
  PROVE  RoutingInv'
<1> DEFINE to == FindVersion(inference[i].model)
<1>1. /\ inference[i].step = "routed" /\ UNCHANGED <<installed, decided>>
      /\ primary' = IF to = "primary" THEN [primary EXCEPT !.results = @ \cup {i}] ELSE primary
      /\ candidate' = IF to = "candidate" THEN [candidate EXCEPT !.results = @ \cup {i}] ELSE candidate
      /\ inference' = [inference EXCEPT ![i].step = "recorded"]
  BY DEF RecordResult
<1>2. /\ to = "primary" => primary.model = inference[i].model
      /\ to = "candidate" =>
           candidate # None /\ candidate.model = inference[i].model /\ primary.model # inference[i].model
      /\ to \in {"primary", "candidate", None}
  BY RoutingAssumption DEF FindVersion
<1> HIDE DEF to
<1>3. /\ Inferred' /\ inference'[i].model = inference[i].model /\ inference'[i].step = "recorded"
      /\ \A j \in Inferences \ {i} : inference'[j] = inference[j]
  BY <1>1 DEF RoutingInv, Inferred
<1>4. \A j \in Inferences : inference[j].step = "recorded" => inference'[j] = inference[j]
  BY <1>1, <1>3
<1>5. Rests' /\ DecidedOnEvidence'
  BY <1>1, <1>4, DecisionRests
<1>6. /\ VersionTyped(primary) /\ (candidate = None \/ VersionTyped(candidate))
      /\ \A v : VersionTyped(v) => IsFiniteSet(v.results \cup {i})
  BY FS_AddElement DEF RoutingInv, VersionTyped
<1>7. /\ primary'.model = primary.model
      /\ primary'.results = IF to = "primary" THEN primary.results \cup {i} ELSE primary.results
      /\ VersionTyped(primary)'
  BY <1>1, <1>6 DEF VersionTyped
<1>8. candidate # None =>
      /\ candidate'.model = candidate.model
      /\ candidate'.results = IF to = "candidate" THEN candidate.results \cup {i} ELSE candidate.results
      /\ VersionTyped(candidate)'
  BY <1>1, <1>6 DEF VersionTyped
<1>9. candidate = None => candidate' = None
  BY <1>1, <1>2
<1>10. /\ \A j \in primary.results : j \in Inferences /\ inference[j].model = primary.model /\ inference[j].step = "recorded"
       /\ candidate # None =>
            /\ \A j \in candidate.results : j \in Inferences /\ inference[j].model = candidate.model
                                                             /\ inference[j].step = "recorded"
            /\ primary.results \cap candidate.results = {}
  BY <1>6 DEF RoutingInv, ResultsCountOnce, Versions, VersionTyped
<1>11. i \notin primary.results /\ (candidate # None => i \notin candidate.results)
  BY <1>1, <1>10
<1>12. /\ \A j \in primary'.results : inference'[j].model = primary'.model /\ inference'[j].step = "recorded"
       /\ candidate' # None =>
            /\ \A j \in candidate'.results : inference'[j].model = candidate'.model /\ inference'[j].step = "recorded"
            /\ primary'.results \cap candidate'.results = {}
  <2>1. \A j \in primary'.results : inference'[j].model = primary'.model /\ inference'[j].step = "recorded"
    BY <1>2, <1>3, <1>4, <1>7, <1>10
  <2>2. candidate' # None => candidate # None
    BY <1>9
  <2>3. candidate # None => \A j \in candidate'.results : inference'[j].model = candidate'.model /\ inference'[j].step = "recorded"
    BY <1>2, <1>3, <1>4, <1>8, <1>10
  <2>4. candidate # None => primary'.results \cap candidate'.results = {}
    BY <1>7, <1>8, <1>10, <1>11
  <2> QED
    BY <2>1, <2>2, <2>3, <2>4
<1>13. ResultsCountOnce'
  BY <1>12 DEF ResultsCountOnce, Versions
<1>14. candidate' # None /\ candidate'.model = primary'.model => candidate'.results = {}
  <2> SUFFICES ASSUME candidate' # None, candidate'.model = primary'.model PROVE candidate'.results = {}
    OBVIOUS
  <2>1. candidate # None /\ candidate.model = primary.model
    BY <1>7, <1>8, <1>9
  <2>2. to # "candidate" /\ candidate.results = {}
    BY <1>2, <2>1 DEF RoutingInv
  <2> QED
    BY <1>8, <2>1, <2>2
<1> QED
  BY <1>1, <1>3, <1>5, <1>7, <1>8, <1>9, <1>13, <1>14 DEF RoutingInv

LEMMA EvaluatePromotionStep ==
  ASSUME RoutingInv, EvaluatePromotion
  PROVE  RoutingInv'
<1>1. /\ UNCHANGED <<primary, candidate, inference, installed>> /\ candidate # None
      /\ Samples(primary) >= MIN_SAMPLES /\ Samples(candidate) >= MIN_SAMPLES
      /\ decided' = IF Improves(candidate, primary) THEN [candidate |-> candidate, over |-> primary] ELSE decided
  BY DEF EvaluatePromotion
<1>2. /\ VersionTyped(primary)' /\ (candidate = None \/ VersionTyped(candidate))' /\ Inferred' /\ (installed \in Nat)'
      /\ ResultsCountOnce'
      /\ (candidate # None /\ candidate.model = primary.model => candidate.results = {})'
  BY <1>1 DEF RoutingInv, VersionTyped, Inferred, ResultsCountOnce, Versions
<1>3. CASE ~Improves(candidate, primary)
  <2>1. UNCHANGED <<decided, inference>>
    BY <1>1, <1>3
  <2> QED
    BY <1>2, <2>1, DecisionRests DEF RoutingInv
<1>4. CASE Improves(candidate, primary)
  <2>1. decided' = [candidate |-> candidate, over |-> primary]
    BY <1>1, <1>4
  <2>2. Rests'
    BY <1>1, <2>1 DEF Rests, RoutingInv, ResultsCountOnce, Versions, VersionTyped
  <2>3. /\ Samples(primary) \in Nat /\ Errors(primary) \in Nat /\ Slow(primary) \in Nat
        /\ Errors(primary) <= Samples(primary) /\ Slow(primary) <= Samples(primary)
        /\ Samples(candidate) \in Nat /\ Errors(candidate) \in Nat /\ Slow(candidate) \in Nat
    BY <1>1, SamplesCount DEF RoutingInv, VersionTyped
  <2>4. \/ Errors(candidate) * Samples(primary) < Errors(primary) * Samples(candidate)
        \/ Slow(candidate) * Samples(primary) < Slow(primary) * Samples(candidate)
    <3> DEFINE cp == Estimate(candidate) * Samples(primary)
               pc == Estimate(primary) * Samples(candidate)
    <3>1. IF pc = 0 THEN cp > 0 ELSE 20 * cp >= 21 * pc
      BY <1>4 DEF Improves
    <3>2. /\ cp = (7 * (Samples(candidate) - Errors(candidate)) + 3 * (Samples(candidate) - Slow(candidate))) * Samples(primary)
          /\ pc = (7 * (Samples(primary) - Errors(primary)) + 3 * (Samples(primary) - Slow(primary))) * Samples(candidate)
      BY DEF Estimate
    <3> HIDE DEF cp, pc
    <3> QED
      BY <2>3, <3>1, <3>2, BetterSomewhere
  <2>5. candidate.model # primary.model
    <3>1. Samples(candidate) # 0
      BY <1>1, <2>3, RoutingAssumption
    <3>2. candidate.results # {}
      BY <3>1, FS_EmptySet DEF Samples
    <3> QED
      BY <1>1, <3>2 DEF RoutingInv
  <2>6. DecidedOnEvidence'
    <3>1. decided'.candidate = candidate /\ decided'.over = primary
      BY <2>1
    <3>2. /\ Samples(decided.candidate)' = Samples(candidate) /\ Samples(decided.over)' = Samples(primary)
          /\ Errors(decided.candidate)' = Errors(candidate) /\ Errors(decided.over)' = Errors(primary)
          /\ Slow(decided.candidate)' = Slow(candidate) /\ Slow(decided.over)' = Slow(primary)
      BY <1>1, <3>1 DEF Errors, Slow, Samples
    <3> QED
      BY <1>1, <2>4, <2>5, <3>1, <3>2 DEF DecidedOnEvidence
  <2> QED
    BY <1>2, <2>2, <2>6 DEF RoutingInv
<1> QED
  BY <1>3, <1>4

LEMMA RoutingStep ==
  ASSUME RoutingInv, [RoutingNext]_routing_vars
  PROVE  RoutingInv'
<1>0. installed \in Nat /\ primary.model \in Models /\ (candidate # None => candidate.model \in Models)
  BY DEF RoutingInv, VersionTyped
<1>1. ASSUME NEW m \in Models, EnableAbTesting(m) \/ RollbackTo(m)
      PROVE  RoutingInv'
  <2>1. installed' = installed + 1 /\ installed' \in Nat /\ UNCHANGED <<inference, decided>>
    BY <1>0, <1>1 DEF EnableAbTesting, RollbackTo
  <2>2. \/ UNCHANGED primary /\ candidate' = Version(installed + 1, m)
        \/ primary' = Version(installed + 1, m) /\ candidate' = None
    BY <1>1 DEF EnableAbTesting, RollbackTo
  <2>3. installed + 1 \in Nat
    BY <1>0
  <2> QED
    BY <2>1, <2>2, <2>3, InstallStep
<1>2. CASE PromoteCandidate
  <2>1. installed' = installed + 1 /\ installed' \in Nat /\ UNCHANGED <<inference, decided>> /\ candidate # None
    BY <1>0, <1>2 DEF PromoteCandidate
  <2>2. primary' = Version(installed + 1, candidate.model) /\ candidate' = None
    BY <1>2 DEF PromoteCandidate
  <2>3. installed + 1 \in Nat /\ candidate.model \in Models
    BY <1>0, <2>1
  <2> QED
    BY <2>1, <2>2, <2>3, InstallStep
<1>3. CASE DisableAbTesting
  <2>1. UNCHANGED <<primary, inference, decided>> /\ installed' \in Nat /\ candidate' = None
    BY <1>0, <1>3 DEF DisableAbTesting
  <2> QED
    BY <1>0, <2>1, InstallStep
<1>4. CASE TimePasses \/ UNCHANGED routing_vars
  <2>1. UNCHANGED <<primary, candidate, inference, installed, decided>>
    BY <1>4 DEF TimePasses, routing_vars
  <2> QED
    BY <2>1, DecisionRests DEF RoutingInv, VersionTyped, Inferred, ResultsCountOnce, Versions
<1> QED
  BY <1>1, <1>2, <1>3, <1>4, SelectModelStep, RecordResultStep, EvaluatePromotionStep DEF RoutingNext

LEMMA RoutingBegins ==
  RoutingInit => RoutingInv
<1> SUFFICES ASSUME RoutingInit PROVE RoutingInv
  OBVIOUS
<1>1. PICK m \in Models : primary = Version(1, m)
  BY DEF RoutingInit
<1>2. VersionTyped(primary) /\ primary.results = {}
  BY <1>1, VersionsAreTyped
<1>3. Inferred /\ installed \in Nat /\ candidate = None /\ decided = None
  BY DEF RoutingInit, Inferred
<1> QED
  BY <1>2, <1>3 DEF RoutingInv, ResultsCountOnce, Versions, Rests, DecidedOnEvidence

(* Results count once, for the model that gave them, and a promotion is    *)
(* found worthwhile on enough of them.                                     *)
THEOREM PromotedOnEvidence ==
  RoutingSpec => [](ResultsCountOnce /\ DecidedOnEvidence)
<1>1. RoutingInv => ResultsCountOnce /\ DecidedOnEvidence
  BY DEF RoutingInv
<1> QED
  BY <1>1, RoutingBegins, RoutingStep, PTL DEF RoutingSpec

-----------------------------------------------------------------------------
(* Opinions.  The history is the end of all opinions, so what is wrong in  *)
(* it was counted; what a request has read, the table was once.            *)
Said == [flagged : BOOLEAN, toxic : BOOLEAN]
Wrong(h, b) == {i \in DOMAIN h : h[i].flagged = b /\ h[i].toxic # b}

LEMMA WrongIsFinite ==
  ASSUME NEW S, NEW h \in Seq(S), NEW b
  PROVE  IsFiniteSet(Wrong(h, b)) /\ Cardinality(Wrong(h, b)) \in Nat /\ Wrong(h, b) \subseteq 1..Len(h)
<1>1. DOMAIN h = 1..Len(h) /\ Len(h) \in Nat
  OBVIOUS
<1>2. Wrong(h, b) \subseteq 1..Len(h)
  BY <1>1 DEF Wrong
<1>3. IsFiniteSet(1..Len(h))
  BY <1>1, FS_Interval
<1> QED
  BY <1>2, <1>3, FS_Subset, FS_CardinalityType

LEMMA WrongAppended ==
  ASSUME NEW h \in Seq(Said), NEW e \in Said, NEW b \in BOOLEAN
  PROVE  /\ Cardinality(Wrong(Append(h, e), b)) <= Cardinality(Wrong(h, b)) + 1
         /\ ~(e.flagged = b /\ e.toxic # b) => Cardinality(Wrong(Append(h, e), b)) = Cardinality(Wrong(h, b))
<1> DEFINE t == Append(h, e)
           n == Len(h) + 1
<1>1. /\ DOMAIN t = 1..n /\ DOMAIN h = 1..Len(h) /\ Len(h) \in Nat /\ t[n] = e
      /\ \A i \in 1..Len(h) : t[i] = h[i]
  BY Appended
<1>2. 1..n = 1..Len(h) \cup {n}
  BY <1>1
<1> HIDE DEF t
<1>3. Wrong(t, b) = Wrong(h, b) \cup (IF e.flagged = b /\ e.toxic # b THEN {n} ELSE {})
  BY <1>1, <1>2 DEF Wrong
<1>4. IsFiniteSet(Wrong(h, b)) /\ Cardinality(Wrong(h, b)) \in Nat
  BY WrongIsFinite
<1> HIDE DEF n
<1>5. Cardinality(Wrong(h, b) \cup {n}) <= Cardinality(Wrong(h, b)) + 1
  <2>1. \/ Cardinality(Wrong(h, b) \cup {n}) = Cardinality(Wrong(h, b))
        \/ Cardinality(Wrong(h, b) \cup {n}) = Cardinality(Wrong(h, b)) + 1
    BY <1>4, FS_AddElement
  <2> QED
    BY <1>4, <2>1
<1>6. CASE e.flagged = b /\ e.toxic # b
  BY <1>3, <1>5, <1>6 DEF t
<1>7. CASE ~(e.flagged = b /\ e.toxic # b)
  <2>1. Wrong(t, b) = Wrong(h, b)
    BY <1>3, <1>7
  <2> QED
    BY <1>4, <2>1, <1>7 DEF t
<1> QED
  BY <1>6, <1>7

LEMMA WrongOfEnd ==
  ASSUME NEW h \in Seq(Said), NEW rest \in Nat \ {0}, rest <= Len(h), NEW b
  PROVE  /\ SubSeq(h, Len(h) - rest + 1, Len(h)) \in Seq(Said)
         /\ Len(SubSeq(h, Len(h) - rest + 1, Len(h))) = rest
         /\ Cardinality(Wrong(SubSeq(h, Len(h) - rest + 1, Len(h)), b)) <= Cardinality(Wrong(h, b))
<1> DEFINE from == Len(h) - rest
           t == SubSeq(h, from + 1, Len(h))
<1>1. from \in Nat /\ Len(h) \in Nat /\ DOMAIN h = 1..Len(h) /\ from + rest = Len(h)
  OBVIOUS
<1>2. \A i \in (from + 1)..Len(h) : h[i] \in Said
  <2>1. \A i \in (from + 1)..Len(h) : i \in 1..Len(h)
    BY <1>1
  <2> QED
    BY <2>1, ElementOfSeq
<1>3. /\ t \in Seq(Said) /\ Len(t) = rest
      /\ \A i \in 1..rest : t[i] = h[from + i]
  <2>1. /\ SubSeq(h, from + 1, Len(h)) \in Seq(Said)
        /\ Len(SubSeq(h, from + 1, Len(h))) = IF from + 1 <= Len(h) THEN Len(h) - (from + 1) + 1 ELSE 0
        /\ \A i \in 1..(Len(h) - (from + 1) + 1) : SubSeq(h, from + 1, Len(h))[i] = h[from + 1 + i - 1]
    <3>1. from + 1 \in Int /\ Len(h) \in Int
      BY <1>1
    <3>2. \A i \in (from + 1)..Len(h) : h[i] \in Said
      BY <1>2
    <3> QED
      BY <3>1, <3>2, SubSeqProperties
  <2>2. from + 1 <= Len(h) /\ Len(h) - (from + 1) + 1 = rest /\ \A i \in 1..rest : from + 1 + i - 1 = from + i
    BY <1>1
  <2> QED
    BY <2>1, <2>2
<1> HIDE DEF t, from
<1>4. DOMAIN t = 1..rest
  BY <1>3
<1> DEFINE f == [i \in Wrong(t, b) |-> from + i]
<1>5. \A i \in Wrong(t, b) : i \in 1..rest /\ from + i \in Wrong(h, b)
  BY <1>1, <1>3, <1>4 DEF Wrong
<1>6. f \in Injection(Wrong(t, b), Wrong(h, b))
  <2>1. f \in [Wrong(t, b) -> Wrong(h, b)]
    BY <1>5
  <2>2. \A i, j \in Wrong(t, b) : f[i] = f[j] => i = j
    BY <1>1, <1>5
  <2> QED
    BY <2>1, <2>2 DEF Injection, IsInjective
<1>7. Cardinality(Wrong(t, b)) <= Cardinality(Wrong(h, b))
  BY <1>6, FS_Injection, WrongIsFinite
<1> QED
  BY <1>3, <1>7 DEF t, from

OnlineInv ==
  /\ online \in [total : Nat, correct : Nat, false_positives : Nat, false_negatives : Nat, history : Seq(Said)]
  /\ online.total = online.correct + online.false_positives + online.false_negatives
  /\ Cardinality(Wrong(online.history, TRUE)) <= online.false_positives
  /\ Cardinality(Wrong(online.history, FALSE)) <= online.false_negatives
  /\ Len(online.history) <= online.total
  /\ Len(online.history) < online.total =>
       Len(online.history) >= HISTORY_KEPT /\ online.total > ONLINE_EVAL_MAX_HISTORY

LEMMA BoundedHistory ==
  ASSUME NEW h \in Seq(Said), NEW b
  PROVE  /\ Bounded(h) \in Seq(Said)
         /\ Cardinality(Wrong(Bounded(h), b)) <= Cardinality(Wrong(h, b))
         /\ \/ Bounded(h) = h
            \/ Len(Bounded(h)) = HISTORY_KEPT /\ Len(h) > ONLINE_EVAL_MAX_HISTORY /\ HISTORY_KEPT <= Len(h)
<1>1. HISTORY_KEPT \in Nat \ {0} /\ ONLINE_EVAL_MAX_HISTORY \in Nat /\ HISTORY_KEPT <= ONLINE_EVAL_MAX_HISTORY
      /\ Len(h) \in Nat
  BY AssessmentsAssumption
<1>2. CASE Len(h) > ONLINE_EVAL_MAX_HISTORY
  <2>1. HISTORY_KEPT <= Len(h)
    BY <1>1, <1>2
  <2>2. Bounded(h) = SubSeq(h, Len(h) - HISTORY_KEPT + 1, Len(h))
    BY <1>2 DEF Bounded
  <2> QED
    BY <1>1, <1>2, <2>1, <2>2, WrongOfEnd
<1>3. CASE ~(Len(h) > ONLINE_EVAL_MAX_HISTORY)
  <2>1. Bounded(h) = h
    BY <1>3 DEF Bounded
  <2> QED
    BY <2>1, WrongIsFinite
<1> QED
  BY <1>2, <1>3

LEMMA SubmitFeedbackStep ==
  ASSUME OnlineInv, NEW flagged \in BOOLEAN, NEW toxic \in BOOLEAN, SubmitFeedback(flagged, toxic)
  PROVE  OnlineInv'
<1> DEFINE e == [flagged |-> flagged, toxic |-> toxic]
           h == Append(online.history, e)
           t == Bounded(h)
           agreed == IF flagged = toxic THEN 1 ELSE 0
           more == IF flagged /\ ~toxic THEN 1 ELSE 0
           fewer == IF ~flagged /\ toxic THEN 1 ELSE 0
<1>1. /\ online \in [total : Nat, correct : Nat, false_positives : Nat, false_negatives : Nat, history : Seq(Said)]
      /\ e \in Said
  BY DEF OnlineInv, Said
<1>2. /\ online'.total = online.total + 1 /\ online'.correct = online.correct + agreed
      /\ online'.false_positives = online.false_positives + more
      /\ online'.false_negatives = online.false_negatives + fewer
      /\ online'.history = t
      /\ DOMAIN online' = {"total", "correct", "false_positives", "false_negatives", "history"}
  BY <1>1 DEF SubmitFeedback
<1>3. agreed \in Nat /\ more \in Nat /\ fewer \in Nat /\ agreed + more + fewer = 1
  OBVIOUS
<1>4. /\ more = 0 => ~(e.flagged = TRUE /\ e.toxic # TRUE)
      /\ fewer = 0 => ~(e.flagged = FALSE /\ e.toxic # FALSE)
      /\ more \in {0, 1} /\ fewer \in {0, 1}
  <2>1. e.flagged = flagged /\ e.toxic = toxic
    OBVIOUS
  <2>2. more \in {0, 1} /\ fewer \in {0, 1}
    OBVIOUS
  <2>3. (more = 0 => ~(flagged /\ ~toxic)) /\ (fewer = 0 => ~(~flagged /\ toxic))
    OBVIOUS
  <2> HIDE DEF e, more, fewer
  <2>4. CASE flagged = TRUE
    BY <2>1, <2>2, <2>3, <2>4
  <2>5. CASE flagged = FALSE
    BY <2>1, <2>2, <2>3, <2>5
  <2> QED
    BY <2>4, <2>5
<1> HIDE DEF e
<1>5. h \in Seq(Said) /\ Len(h) = Len(online.history) + 1 /\ Len(online.history) \in Nat
  BY <1>1
<1>6. /\ Cardinality(Wrong(h, TRUE)) <= Cardinality(Wrong(online.history, TRUE)) + more
      /\ Cardinality(Wrong(h, FALSE)) <= Cardinality(Wrong(online.history, FALSE)) + fewer
  <2>1. ASSUME NEW b \in BOOLEAN
        PROVE  /\ Cardinality(Wrong(online.history, b)) \in Nat /\ Cardinality(Wrong(h, b)) \in Nat
               /\ Cardinality(Wrong(h, b)) <= Cardinality(Wrong(online.history, b)) + 1
               /\ ~(e.flagged = b /\ e.toxic # b) => Cardinality(Wrong(h, b)) = Cardinality(Wrong(online.history, b))
    BY <1>1, <1>5, WrongAppended, WrongIsFinite
  <2>2. TRUE \in BOOLEAN /\ FALSE \in BOOLEAN
    OBVIOUS
  <2>3. /\ Cardinality(Wrong(online.history, TRUE)) \in Nat /\ Cardinality(Wrong(h, TRUE)) \in Nat
        /\ Cardinality(Wrong(h, TRUE)) <= Cardinality(Wrong(online.history, TRUE)) + 1
        /\ ~(e.flagged = TRUE /\ e.toxic # TRUE) => Cardinality(Wrong(h, TRUE)) = Cardinality(Wrong(online.history, TRUE))
    BY <2>1, <2>2, Zenon
  <2>4. /\ Cardinality(Wrong(online.history, FALSE)) \in Nat /\ Cardinality(Wrong(h, FALSE)) \in Nat
        /\ Cardinality(Wrong(h, FALSE)) <= Cardinality(Wrong(online.history, FALSE)) + 1
        /\ ~(e.flagged = FALSE /\ e.toxic # FALSE) => Cardinality(Wrong(h, FALSE)) = Cardinality(Wrong(online.history, FALSE))
    BY <2>1, <2>2, Zenon
  <2> DEFINE w == Cardinality(Wrong(h, TRUE))
             x == Cardinality(Wrong(h, FALSE))
             y == Cardinality(Wrong(online.history, TRUE))
             z == Cardinality(Wrong(online.history, FALSE))
  <2>5. /\ w \in Nat /\ y \in Nat /\ w <= y + 1 /\ (more = 0 => w = y) /\ more \in {0, 1}
        /\ x \in Nat /\ z \in Nat /\ x <= z + 1 /\ (fewer = 0 => x = z) /\ fewer \in {0, 1}
    <3> HIDE DEF h, more, fewer
    <3> QED
      BY <1>4, <2>3, <2>4
  <2> HIDE DEF w, x, y, z, more, fewer
  <2>6. w <= y + more /\ x <= z + fewer
    BY <2>5
  <2> QED
    BY <2>6 DEF w, x, y, z
<1> HIDE DEF h, more, fewer, agreed
<1>7. /\ t \in Seq(Said) /\ Len(t) \in Nat
      /\ Cardinality(Wrong(t, TRUE)) <= Cardinality(Wrong(h, TRUE))
      /\ Cardinality(Wrong(t, FALSE)) <= Cardinality(Wrong(h, FALSE))
      /\ \/ t = h
         \/ Len(t) = HISTORY_KEPT /\ Len(h) > ONLINE_EVAL_MAX_HISTORY /\ HISTORY_KEPT <= Len(h)
  <2>1. TRUE \in BOOLEAN /\ FALSE \in BOOLEAN
    OBVIOUS
  <2>2. ASSUME NEW b \in BOOLEAN
        PROVE  /\ t \in Seq(Said)
               /\ Cardinality(Wrong(t, b)) <= Cardinality(Wrong(h, b))
               /\ \/ t = h
                  \/ Len(t) = HISTORY_KEPT /\ Len(h) > ONLINE_EVAL_MAX_HISTORY /\ HISTORY_KEPT <= Len(h)
    BY <1>5, BoundedHistory
  <2> HIDE DEF t
  <2>3. t \in Seq(Said) /\ Len(t) \in Nat
    BY <2>2
  <2> QED
    BY <2>1, <2>2, <2>3, Zenon
<1> HIDE DEF t
<1>8. /\ Cardinality(Wrong(t, TRUE)) \in Nat /\ Cardinality(Wrong(t, FALSE)) \in Nat
      /\ Cardinality(Wrong(h, TRUE)) \in Nat /\ Cardinality(Wrong(h, FALSE)) \in Nat
      /\ Cardinality(Wrong(online.history, TRUE)) \in Nat /\ Cardinality(Wrong(online.history, FALSE)) \in Nat
  BY <1>1, <1>5, <1>7, WrongIsFinite
<1>9. online' \in [total : Nat, correct : Nat, false_positives : Nat, false_negatives : Nat, history : Seq(Said)]
  <2>1. online' = [online EXCEPT !.total = online'.total, !.correct = online'.correct,
                     !.false_positives = online'.false_positives, !.false_negatives = online'.false_negatives,
                     !.history = online'.history]
    BY <1>1 DEF SubmitFeedback
  <2>2. online'.total \in Nat /\ online'.correct \in Nat /\ online'.false_positives \in Nat /\ online'.false_negatives \in Nat
    BY <1>1, <1>2, <1>3
  <2> QED
    BY <1>1, <1>2, <1>7, <2>1, <2>2
<1>10. online'.total = online'.correct + online'.false_positives + online'.false_negatives
  BY <1>1, <1>2, <1>3 DEF OnlineInv
<1>11. /\ Cardinality(Wrong(online'.history, TRUE)) <= online'.false_positives
       /\ Cardinality(Wrong(online'.history, FALSE)) <= online'.false_negatives
  <2> DEFINE w == Cardinality(Wrong(h, TRUE))
             x == Cardinality(Wrong(h, FALSE))
             y == Cardinality(Wrong(online.history, TRUE))
             z == Cardinality(Wrong(online.history, FALSE))
             v == Cardinality(Wrong(t, TRUE))
             u == Cardinality(Wrong(t, FALSE))
  <2>1. w \in Nat /\ x \in Nat /\ y \in Nat /\ z \in Nat /\ v \in Nat /\ u \in Nat
    BY <1>8
  <2>2. v <= w /\ u <= x /\ w <= y + more /\ x <= z + fewer
    BY <1>6, <1>7
  <2>3. y <= online.false_positives /\ z <= online.false_negatives
    BY DEF OnlineInv
  <2>4. online.false_positives \in Nat /\ online.false_negatives \in Nat /\ more \in Nat /\ fewer \in Nat
    BY <1>1, <1>3
  <2> HIDE DEF w, x, y, z, v, u
  <2>5. v <= online.false_positives + more /\ u <= online.false_negatives + fewer
    BY <2>1, <2>2, <2>3, <2>4
  <2> QED
    BY <1>2, <2>5 DEF v, u
<1>12. /\ Len(online'.history) <= online'.total
       /\ Len(online'.history) < online'.total =>
            Len(online'.history) >= HISTORY_KEPT /\ online'.total > ONLINE_EVAL_MAX_HISTORY
  <2>1. HISTORY_KEPT \in Nat /\ ONLINE_EVAL_MAX_HISTORY \in Nat
    BY AssessmentsAssumption
  <2>2. /\ Len(online.history) <= online.total /\ online.total \in Nat
        /\ Len(online.history) < online.total =>
             Len(online.history) >= HISTORY_KEPT /\ online.total > ONLINE_EVAL_MAX_HISTORY
    BY <1>1 DEF OnlineInv
  <2> QED
    BY <1>2, <1>5, <1>7, <2>1, <2>2
<1> QED
  BY <1>9, <1>10, <1>11, <1>12 DEF OnlineInv

-----------------------------------------------------------------------------
(* The statistics of overrides. *)
Override == [llm : BOOLEAN, human : BOOLEAN, corrected : BOOLEAN]

StatisticsInv ==
  /\ corrections \in Seq(Override)
  /\ statistics \in [Inquiries -> [began : Nat \cup {None}, read : Seq(Nat)]]
  /\ \A q \in Inquiries :
       LET asked == statistics[q] IN
       /\ Len(asked.read) <= 4
       /\ asked.began = None <=> asked.read = <<>>
       /\ asked.began # None => asked.began <= Len(corrections)
       /\ \A k \in 1..Len(asked.read) :
            \E n \in asked.began..Len(corrections) : asked.read[k] = CountOf(k, SubSeq(corrections, 1, n))

LEMMA PrefixOf ==
  ASSUME NEW S, NEW c \in Seq(S), NEW n \in 0..Len(c)
  PROVE  SubSeq(c, 1, n) \in Seq(S) /\ Len(SubSeq(c, 1, n)) = n
<1>1. \A i \in 1..n : c[i] \in S
  BY ElementOfSeq
<1> QED
  BY <1>1, SubSeqProperties

LEMMA PrefixOfAppended ==
  ASSUME NEW S, NEW c \in Seq(S), NEW e \in S, NEW n \in 0..Len(c)
  PROVE  SubSeq(Append(c, e), 1, n) = SubSeq(c, 1, n)
<1>1. n \in 0..Len(Append(c, e)) /\ Append(c, e) \in Seq(S) /\ \A i \in 1..n : Append(c, e)[i] = c[i]
  BY Appended
<1>2. /\ SubSeq(Append(c, e), 1, n) = [i \in 1..n |-> Append(c, e)[i]]
      /\ SubSeq(c, 1, n) = [i \in 1..n |-> c[i]]
  OBVIOUS
<1> QED
  BY <1>1, <1>2

LEMMA CountsAreBounded ==
  ASSUME NEW S, NEW rows \in Seq(S), NEW k
  PROVE  /\ CountOf(k, rows) \in Nat /\ CountOf(k, rows) <= Len(rows)
         /\ k = 1 => CountOf(k, rows) = Len(rows)
<1>1. DOMAIN rows = 1..Len(rows) /\ Len(rows) \in Nat
  OBVIOUS
<1>2. IsFiniteSet(1..Len(rows)) /\ Cardinality(1..Len(rows)) = Len(rows)
  BY <1>1, FS_Interval
<1> DEFINE counted == {i \in DOMAIN rows :
    CASE k = 1 -> TRUE [] k = 2 -> rows[i].llm [] k = 3 -> rows[i].llm # rows[i].human
      [] k = 4 -> rows[i].corrected}
<1>3. CountOf(k, rows) = Cardinality(counted)
  BY DEF CountOf
<1>4. counted \subseteq 1..Len(rows) /\ (k = 1 => counted = 1..Len(rows))
  <2>1. counted \subseteq DOMAIN rows
    BY Zenon
  <2>2. ASSUME k = 1, NEW i \in DOMAIN rows
        PROVE  CASE k = 1 -> TRUE [] k = 2 -> rows[i].llm [] k = 3 -> rows[i].llm # rows[i].human
                 [] k = 4 -> rows[i].corrected
    BY <2>2
  <2>3. k = 1 => DOMAIN rows \subseteq counted
    BY <2>2, Zenon
  <2> QED
    BY <1>1, <2>1, <2>3
<1> HIDE DEF counted
<1>5. CountOf(k, rows) \in Nat /\ CountOf(k, rows) <= Len(rows)
  <2>1. Cardinality(counted) \in Nat /\ Cardinality(counted) <= Cardinality(1..Len(rows))
    BY <1>2, <1>4, FS_Subset, FS_CardinalityType
  <2> QED
    BY <1>2, <1>3, <2>1
<1> QED
  BY <1>2, <1>3, <1>4, <1>5

LEMMA HumanOverrideStep ==
  ASSUME StatisticsInv, NEW llm \in BOOLEAN, NEW human \in BOOLEAN, NEW corrected \in BOOLEAN,
         HumanOverride(llm, human, corrected)
  PROVE  StatisticsInv'
<1> DEFINE e == [llm |-> llm, human |-> human, corrected |-> corrected]
<1>1. corrections' = Append(corrections, e) /\ UNCHANGED statistics /\ e \in Override /\ corrections \in Seq(Override)
  BY DEF HumanOverride, Override, StatisticsInv
<1> HIDE DEF e
<1>2. corrections' \in Seq(Override) /\ Len(corrections') = Len(corrections) + 1 /\ Len(corrections) \in Nat
  BY <1>1
<1>3. \A n \in 0..Len(corrections) : SubSeq(corrections', 1, n) = SubSeq(corrections, 1, n)
  BY <1>1, PrefixOfAppended
<1>4. ASSUME NEW q \in Inquiries
      PROVE  /\ Len(statistics[q].read) <= 4
             /\ statistics[q].began = None <=> statistics[q].read = <<>>
             /\ statistics[q].began # None => statistics[q].began <= Len(corrections')
             /\ \A k \in 1..Len(statistics[q].read) :
                  \E n \in statistics[q].began..Len(corrections') :
                    statistics[q].read[k] = CountOf(k, SubSeq(corrections', 1, n))
  <2>1. /\ Len(statistics[q].read) <= 4
        /\ statistics[q].began = None <=> statistics[q].read = <<>>
        /\ statistics[q].began # None => statistics[q].began <= Len(corrections)
        /\ \A k \in 1..Len(statistics[q].read) :
             \E n \in statistics[q].began..Len(corrections) :
               statistics[q].read[k] = CountOf(k, SubSeq(corrections, 1, n))
        /\ statistics[q].began \in Nat \cup {None} /\ statistics[q].read \in Seq(Nat)
    BY DEF StatisticsInv
  <2>2. ASSUME NEW k \in 1..Len(statistics[q].read)
        PROVE  \E n \in statistics[q].began..Len(corrections') :
                 statistics[q].read[k] = CountOf(k, SubSeq(corrections', 1, n))
    <3>1. statistics[q].began \in Nat
      BY <2>1
    <3>2. PICK n \in statistics[q].began..Len(corrections) :
            statistics[q].read[k] = CountOf(k, SubSeq(corrections, 1, n))
      BY <2>1
    <3>3. n \in 0..Len(corrections) /\ n \in statistics[q].began..Len(corrections')
      BY <1>2, <3>1
    <3>4. SubSeq(corrections', 1, n) = SubSeq(corrections, 1, n)
      BY <1>3, <3>3
    <3> QED
      BY <3>2, <3>3, <3>4
  <2>3. statistics[q].began # None => statistics[q].began <= Len(corrections')
    BY <1>2, <2>1
  <2> QED
    BY <2>1, <2>2, <2>3
<1> QED
  BY <1>1, <1>2, <1>4 DEF StatisticsInv

LEMMA ReadStatisticStep ==
  ASSUME StatisticsInv, NEW q \in Inquiries, ReadStatistic(q)
  PROVE  StatisticsInv'
<1> DEFINE read == statistics[q].read
           k == Len(read) + 1
           count == CountOf(k, corrections)
           began == IF statistics[q].began = None THEN Len(corrections) ELSE statistics[q].began
<1>1. /\ corrections \in Seq(Override) /\ read \in Seq(Nat) /\ statistics[q].began \in Nat \cup {None}
      /\ Len(read) \in Nat /\ Len(corrections) \in Nat /\ UNCHANGED corrections /\ Len(read) < 4
      /\ count \in Nat
  BY CountsAreBounded DEF StatisticsInv, ReadStatistic
<1>2. /\ statistics' = [statistics EXCEPT ![q].read = Append(read, count), ![q].began = began]
  BY DEF ReadStatistic
<1>3. began \in Nat /\ began <= Len(corrections) /\ (Len(read) > 0 => began = statistics[q].began)
  <2>1. /\ statistics[q].began = None <=> read = <<>>
        /\ statistics[q].began # None => statistics[q].began <= Len(corrections)
    BY DEF StatisticsInv
  <2> QED
    BY <1>1, <2>1
<1>4. \A j \in 1..Len(read) : \E n \in statistics[q].began..Len(corrections) : read[j] = CountOf(j, SubSeq(corrections, 1, n))
  BY DEF StatisticsInv
<1> HIDE DEF count, began
<1> DEFINE longer == Append(read, count)
<1>5. /\ longer \in Seq(Nat) /\ Len(longer) = k /\ longer[k] = count /\ longer # <<>> /\ k <= 4
      /\ \A j \in 1..Len(read) : longer[j] = read[j]
  <2>1. /\ longer \in Seq(Nat) /\ Len(longer) = k /\ longer[k] = count
        /\ \A j \in 1..Len(read) : longer[j] = read[j]
    BY <1>1, Appended
  <2>2. k <= 4 /\ k # 0
    BY <1>1
  <2> QED
    BY <2>1, <2>2
<1>6. \A j \in 1..k : \E n \in began..Len(corrections) : longer[j] = CountOf(j, SubSeq(corrections, 1, n))
  <2> SUFFICES ASSUME NEW j \in 1..k PROVE \E n \in began..Len(corrections) : longer[j] = CountOf(j, SubSeq(corrections, 1, n))
    OBVIOUS
  <2>1. CASE j = k
    <3>1. SubSeq(corrections, 1, Len(corrections)) = corrections
      BY <1>1, SubSeqFull
    <3>2. Len(corrections) \in began..Len(corrections)
      BY <1>1, <1>3
    <3> QED
      BY <1>5, <2>1, <3>1, <3>2 DEF count
  <2>2. CASE j # k
    <3>1. j \in 1..Len(read) /\ Len(read) > 0
      BY <1>1, <2>2
    <3> QED
      BY <1>3, <1>4, <1>5, <3>1
  <2> QED
    BY <2>1, <2>2
<1> HIDE DEF longer
<1>7. /\ statistics'[q].read = longer /\ statistics'[q].began = began
      /\ \A p \in Inquiries \ {q} : statistics'[p] = statistics[p]
      /\ statistics' \in [Inquiries -> [began : Nat \cup {None}, read : Seq(Nat)]]
  <2>1. statistics \in [Inquiries -> [began : Nat \cup {None}, read : Seq(Nat)]]
    BY DEF StatisticsInv
  <2>2. statistics' = [statistics EXCEPT ![q].read = longer, ![q].began = began]
    BY <1>2 DEF longer
  <2> DEFINE Item == [began : Nat \cup {None}, read : Seq(Nat)]
             first == [statistics EXCEPT ![q] = [statistics[q] EXCEPT !.read = longer]]
  <2>3. statistics' = [first EXCEPT ![q] = [first[q] EXCEPT !.began = began]]
    BY <2>2
  <2>4. statistics[q] \in Item
    BY <2>1
  <2>5. [statistics[q] EXCEPT !.read = longer] = [began |-> statistics[q].began, read |-> longer]
    BY <2>4
  <2>6. [began |-> statistics[q].began, read |-> longer] \in Item
    BY <1>5, <2>4
  <2>7. /\ first \in [Inquiries -> Item] /\ first[q] = [began |-> statistics[q].began, read |-> longer]
        /\ \A p \in Inquiries \ {q} : first[p] = statistics[p]
    BY <2>1, <2>5, <2>6
  <2> HIDE DEF first
  <2>8. [first[q] EXCEPT !.began = began] = [began |-> began, read |-> longer]
    BY <2>7
  <2>9. [began |-> began, read |-> longer] \in Item
    BY <1>3, <1>5
  <2> QED
    BY <2>3, <2>7, <2>8, <2>9
<1>8. began # None
  BY <1>3, TrackingAssumption
<1>9. ASSUME NEW p \in Inquiries
      PROVE  /\ Len(statistics'[p].read) <= 4
             /\ statistics'[p].began = None <=> statistics'[p].read = <<>>
             /\ statistics'[p].began # None => statistics'[p].began <= Len(corrections)
             /\ \A j \in 1..Len(statistics'[p].read) :
                  \E n \in statistics'[p].began..Len(corrections) :
                    statistics'[p].read[j] = CountOf(j, SubSeq(corrections, 1, n))
  <2>1. CASE p = q
    BY <1>3, <1>5, <1>6, <1>7, <1>8, <2>1
  <2>2. CASE p # q
    <3>1. statistics'[p] = statistics[p]
      BY <1>7, <2>2
    <3> QED
      BY <3>1 DEF StatisticsInv
  <2> QED
    BY <2>1, <2>2
<1> QED
  BY <1>1, <1>7, <1>9 DEF StatisticsInv

LEMMA OpinionsTold ==
  OnlineInv /\ StatisticsInv => OpinionsAddUp
<1> SUFFICES ASSUME OnlineInv, StatisticsInv PROVE OpinionsAddUp
  OBVIOUS
<1>1. /\ online.total = online.correct + online.false_positives + online.false_negatives
      /\ LET wrong(flagged) == Cardinality({i \in DOMAIN online.history :
               online.history[i].flagged = flagged /\ online.history[i].toxic # flagged})
         IN  /\ wrong(TRUE) <= online.false_positives /\ wrong(FALSE) <= online.false_negatives
             /\ Len(online.history) < online.total =>
                  Len(online.history) >= HISTORY_KEPT /\ online.total > ONLINE_EVAL_MAX_HISTORY
  BY DEF OnlineInv, Wrong
<1>2. ASSUME NEW q \in Inquiries, NEW k \in DOMAIN statistics[q].read
      PROVE  LET number == statistics[q].read[k] IN
             /\ \E n \in statistics[q].began..Len(corrections) : number = CountOf(k, SubSeq(corrections, 1, n))
             /\ number <= statistics[q].read[1] + Len(corrections) - statistics[q].began
  <2>1. /\ corrections \in Seq(Override) /\ Len(corrections) \in Nat
        /\ statistics[q].read \in Seq(Nat) /\ statistics[q].began \in Nat \cup {None}
        /\ statistics[q].began = None <=> statistics[q].read = <<>>
        /\ \A j \in 1..Len(statistics[q].read) :
             \E n \in statistics[q].began..Len(corrections) :
               statistics[q].read[j] = CountOf(j, SubSeq(corrections, 1, n))
    BY DEF StatisticsInv
  <2>2. k \in 1..Len(statistics[q].read) /\ 1 \in 1..Len(statistics[q].read) /\ statistics[q].began \in Nat
    BY <2>1
  <2>3. PICK n \in statistics[q].began..Len(corrections) : statistics[q].read[k] = CountOf(k, SubSeq(corrections, 1, n))
    BY <2>1, <2>2
  <2>4. PICK m \in statistics[q].began..Len(corrections) : statistics[q].read[1] = CountOf(1, SubSeq(corrections, 1, m))
    BY <2>1, <2>2
  <2>5. n \in 0..Len(corrections) /\ m \in 0..Len(corrections)
    BY <2>1, <2>2
  <2>6. statistics[q].read[1] = m
    <3> DEFINE rows == SubSeq(corrections, 1, m)
    <3>1. rows \in Seq(Override) /\ Len(rows) = m
      BY <2>1, <2>5, PrefixOf
    <3> HIDE DEF rows
    <3>2. CountOf(1, rows) = Len(rows)
      BY <3>1, CountsAreBounded
    <3> QED
      BY <2>4, <3>1, <3>2 DEF rows
  <2>7. statistics[q].read[k] \in Nat /\ statistics[q].read[k] <= n
    <3> DEFINE rows == SubSeq(corrections, 1, n)
    <3>1. rows \in Seq(Override) /\ Len(rows) = n
      BY <2>1, <2>5, PrefixOf
    <3> HIDE DEF rows
    <3>2. CountOf(k, rows) \in Nat /\ CountOf(k, rows) <= Len(rows)
      BY <3>1, CountsAreBounded
    <3> QED
      BY <2>3, <3>1, <3>2 DEF rows
  <2> QED
    BY <2>1, <2>2, <2>3, <2>5, <2>6, <2>7
<1> QED
  BY <1>1, <1>2 DEF OpinionsAddUp

(* What is told of people's opinions is told of all of them.               *)
THEOREM OpinionsCounted ==
  AssessmentsSpec => []OpinionsAddUp
<1>1. OpinionsInit => OnlineInv
  <2> SUFFICES ASSUME OpinionsInit PROVE OnlineInv
    OBVIOUS
  <2>1. online = [total |-> 0, correct |-> 0, false_positives |-> 0, false_negatives |-> 0, history |-> <<>>]
    BY DEF OpinionsInit
  <2>2. \A b : Wrong(online.history, b) = {}
    BY <2>1 DEF Wrong
  <2> DEFINE none == {}
  <2>3. none = {}
    OBVIOUS
  <2> HIDE DEF none
  <2>4. Cardinality(none) = 0
    BY <2>3, FS_EmptySet
  <2>5. Cardinality(Wrong(online.history, TRUE)) = 0 /\ Cardinality(Wrong(online.history, FALSE)) = 0
    BY <2>2, <2>3, <2>4
  <2>6. online.history \in Seq(Said) /\ Len(online.history) = 0
    BY <2>1
  <2>7. online \in [total : Nat, correct : Nat, false_positives : Nat, false_negatives : Nat, history : Seq(Said)]
    BY <2>1
  <2>8. /\ online.total = 0 /\ online.correct = 0 /\ online.false_positives = 0 /\ online.false_negatives = 0
        /\ Len(online.history) = 0
    BY <2>1
  <2>9. /\ Cardinality(Wrong(online.history, TRUE)) <= online.false_positives
        /\ Cardinality(Wrong(online.history, FALSE)) <= online.false_negatives
    <3> DEFINE x == Cardinality(Wrong(online.history, TRUE))
               y == Cardinality(Wrong(online.history, FALSE))
    <3>1. x = 0 /\ y = 0
      BY <2>5
    <3> HIDE DEF x, y
    <3>2. x <= online.false_positives /\ y <= online.false_negatives
      BY <2>8, <3>1
    <3> QED
      BY <3>2 DEF x, y
  <2>10. /\ online.total = online.correct + online.false_positives + online.false_negatives
         /\ Len(online.history) <= online.total /\ ~(Len(online.history) < online.total)
    BY <2>8
  <2> QED
    BY <2>7, <2>9, <2>10 DEF OnlineInv
<1>2. OpinionsInit => StatisticsInv
  BY DEF OpinionsInit, StatisticsInv
<1>3. OnlineInv /\ UNCHANGED online => OnlineInv'
  BY DEF OnlineInv
<1>4. StatisticsInv /\ UNCHANGED <<corrections, statistics>> => StatisticsInv'
  BY DEF StatisticsInv
<1>5. OnlineInv /\ StatisticsInv
        /\ [\/ (SurveyNext \/ TrialNext) /\ UNCHANGED opinion_vars
            \/ (FeedbackNext \/ OverridesNext \/ EscalationNext) /\ UNCHANGED assessment_vars]_<<assessment_vars, opinion_vars>>
          => OnlineInv' /\ StatisticsInv'
  <2> SUFFICES ASSUME OnlineInv, StatisticsInv,
                      UNCHANGED opinion_vars \/ FeedbackNext \/ OverridesNext \/ EscalationNext
               PROVE  OnlineInv' /\ StatisticsInv'
    OBVIOUS
  <2>1. CASE UNCHANGED opinion_vars \/ EscalationNext
    <3>1. UNCHANGED <<online, corrections, statistics>>
      BY <2>1 DEF opinion_vars, EscalationNext, BeginViolation, PushViolation, CountViolations, ViolationFails, TickPasses
    <3> QED
      BY <1>3, <1>4, <3>1
  <2>2. CASE FeedbackNext
    <3>1. UNCHANGED <<corrections, statistics>>
      BY <2>2 DEF FeedbackNext, SubmitFeedback
    <3> QED
      BY <1>4, <2>2, <3>1, SubmitFeedbackStep DEF FeedbackNext
  <2>3. CASE OverridesNext
    <3>1. UNCHANGED online
      BY <2>3 DEF OverridesNext, HumanOverride, ReadStatistic
    <3> QED
      BY <1>3, <2>3, <3>1, HumanOverrideStep, ReadStatisticStep DEF OverridesNext
  <2> QED
    BY <2>1, <2>2, <2>3
<1> QED
  BY <1>1, <1>2, <1>5, OpinionsTold, PTL DEF AssessmentsSpec

-----------------------------------------------------------------------------
(* Deployment.  A deployment goes on over what its gates have seen: while  *)
(* they run nothing starts or stops, and what did not pass is counted.     *)
Clean == {"pass", "skip", "warned", "undetermined"}
Verdicts == Clean \cup {"fail", "fail twice", "abort"}

ScriptType ==
  [name : {None, "gates", "e2e", "deploy", "install"}, skip : BOOLEAN, full : BOOLEAN, own : {None} \cup OwnPasswords,
   at : {None, "gates", "receipt", "validate"} \cup Past, up_before : SUBSET Services, started : SUBSET Services]
GatesType == [outcomes : Seq(Verdicts), failed : Nat, status : {None, "aborted", "blocked", "approved"}]

GatesInv ==
  /\ checkout \in {Expected, Expected \ Missing}
  /\ script \in ScriptType
  /\ gates \in GatesType
  /\ up \subseteq Services
  /\ \A i \in DOMAIN gates.outcomes :
       gates.outcomes[i] \notin Clean => gates.failed > 0 \/ gates.status = "aborted"
  /\ gates.status = "approved" => gates.failed = 0
  /\ script.at = "gates" /\ script.name = "deploy" =>
       /\ script.up_before = up
       /\ Len(gates.outcomes) >= 5 /\ gates.outcomes[5] \in Clean => Critical \subseteq up
       /\ Len(gates.outcomes) >= 8 /\ gates.outcomes[8] \in Clean => "mcp-server" \in checkout
       /\ gates.status = "approved" => Len(gates.outcomes) = 9
  /\ script.name = "deploy" /\ script.at \in Past /\ ~script.skip =>
       Critical \subseteq script.up_before /\ Missing \subseteq checkout

LEMMA GateVerdicts ==
  ASSUME NEW i \in 1..Len(GateOutcomes), NEW outcome \in GateOutcomes[i]
  PROVE  /\ outcome \in Verdicts
         /\ i = 5 /\ outcome \in Clean => Critical \subseteq up
         /\ i = 8 /\ outcome \in Clean => "mcp-server" \in checkout
<1>1. \A f : ScriptOutcomes(f) \subseteq {"pass", "fail", "abort"}
  BY DEF ScriptOutcomes
<1>2. CheckedOutcomes("gate_hallucination.py") \subseteq {"pass", "fail", "fail twice", "abort"}
  BY <1>1 DEF CheckedOutcomes
<1>3. CascadeOutcomes \subseteq {"pass", "fail", "fail twice", "abort"}
  BY DEF CascadeOutcomes
<1>4. /\ PlaywireOutcomes \subseteq {"pass", "fail", "abort"}
      /\ PlaywireOutcomes \cap Clean # {} => Critical \subseteq up
  BY DEF PlaywireOutcomes, Clean
<1>5. RegoOutcomes \subseteq {"pass", "fail", "abort"} /\ ArtifactOutcomes \subseteq {"pass", "fail", "abort"}
  BY DEF RegoOutcomes, ArtifactOutcomes
<1>6. Len(GateOutcomes) = 9
  BY DEF GateOutcomes
<1>7. /\ GateOutcomes[1] = ScriptOutcomes("gate_toxicity.py")
      /\ GateOutcomes[2] = IF script.full THEN ScriptOutcomes("gate_toxicity_api.py") ELSE {"skip"}
      /\ GateOutcomes[3] = CheckedOutcomes("gate_hallucination.py")
      /\ GateOutcomes[4] = CascadeOutcomes /\ GateOutcomes[5] = PlaywireOutcomes /\ GateOutcomes[6] = {"pass", "fail"}
      /\ GateOutcomes[7] = RegoOutcomes /\ GateOutcomes[9] = ArtifactOutcomes
      /\ GateOutcomes[8] = IF "mcp-server" \in checkout THEN {"pass"} ELSE {"fail"}
  BY DEF GateOutcomes
<1>8. i \in {1, 2, 3, 4, 5, 6, 7, 8, 9}
  BY <1>6
<1>9. i \in {1, 2, 3} => outcome \in Verdicts
  <2>1. GateOutcomes[1] \subseteq {"pass", "fail", "abort"} /\ GateOutcomes[2] \subseteq {"pass", "fail", "abort", "skip"}
    BY <1>1, <1>7
  <2>2. GateOutcomes[3] \subseteq {"pass", "fail", "fail twice", "abort"}
    BY <1>2, <1>7
  <2> QED
    BY <2>1, <2>2 DEF Verdicts, Clean
<1>10. i \in {4, 6, 7, 9} => outcome \in Verdicts
  BY <1>3, <1>5, <1>7 DEF Verdicts, Clean
<1>11. i = 5 => outcome \in Verdicts /\ (outcome \in Clean => Critical \subseteq up)
  BY <1>4, <1>7 DEF Verdicts, Clean
<1>12. i = 8 => outcome \in Verdicts /\ (outcome \in Clean => "mcp-server" \in checkout)
  BY <1>7 DEF Verdicts, Clean
<1> QED
  BY <1>8, <1>9, <1>10, <1>11, <1>12

LEMMA EndToEndVerdicts ==
  ASSUME NEW i \in 1..Len(EndToEndOutcomes), NEW outcome \in EndToEndOutcomes[i]
  PROVE  outcome \in Verdicts
<1>1. Len(EndToEndOutcomes) = 7
  BY DEF EndToEndOutcomes
<1>2. /\ EndToEndOutcomes[1] \subseteq Verdicts /\ EndToEndOutcomes[2] \subseteq Verdicts
      /\ EndToEndOutcomes[3] \subseteq Verdicts
  BY DEF EndToEndOutcomes, Verdicts, Clean
<1>3. EndToEndOutcomes[4] \subseteq Verdicts /\ EndToEndOutcomes[5] \subseteq Verdicts
  BY DEF EndToEndOutcomes, Verdicts, Clean
<1>4. EndToEndOutcomes[6] \subseteq Verdicts /\ EndToEndOutcomes[7] \subseteq Verdicts
  BY DEF EndToEndOutcomes, Verdicts, Clean
<1>5. i \in {1, 2, 3, 4, 5, 6, 7}
  BY <1>1
<1> QED
  BY <1>2, <1>3, <1>4, <1>5

LEMMA RunGateStep ==
  ASSUME GatesInv, RunGate
  PROVE  GatesInv'
<1> DEFINE run == gates.outcomes
           k == Len(run) + 1
<1>1. /\ run \in Seq(Verdicts) /\ Len(run) \in Nat /\ gates.failed \in Nat /\ gates.status = None
      /\ DOMAIN run = 1..Len(run) /\ k <= Len(Outcomes)
      /\ gates \in GatesType
  BY DEF GatesInv, GatesType, RunGate
<1>2. PICK outcome \in Outcomes[k] :
        gates' = [gates EXCEPT !.outcomes = Append(@, outcome),
                               !.failed = @ + Failures(outcome),
                               !.status = IF outcome = "abort" THEN "aborted" ELSE @]
  BY DEF RunGate
<1>3. /\ outcome \in Verdicts
      /\ script.name = "deploy" /\ k = 5 /\ outcome \in Clean => Critical \subseteq up
      /\ script.name = "deploy" /\ k = 8 /\ outcome \in Clean => "mcp-server" \in checkout
  <2>1. CASE script.name = "e2e"
    <3>1. Outcomes = EndToEndOutcomes /\ script.name # "deploy"
      BY <2>1 DEF Outcomes
    <3>2. k \in 1..Len(EndToEndOutcomes) /\ outcome \in EndToEndOutcomes[k]
      BY <1>1, <1>2, <3>1 DEF EndToEndOutcomes
    <3> QED
      BY <3>1, <3>2, EndToEndVerdicts
  <2>2. CASE script.name # "e2e"
    <3>1. Outcomes = GateOutcomes
      BY <2>2 DEF Outcomes
    <3>2. k \in 1..Len(GateOutcomes) /\ outcome \in GateOutcomes[k]
      BY <1>1, <1>2, <3>1 DEF GateOutcomes
    <3> QED
      BY <3>2, GateVerdicts
  <2> QED
    BY <2>1, <2>2
<1> DEFINE longer == Append(run, outcome)
           failed == gates.failed + Failures(outcome)
           status == IF outcome = "abort" THEN "aborted" ELSE gates.status
<1>4. /\ longer \in Seq(Verdicts) /\ Len(longer) = k /\ longer[k] = outcome /\ DOMAIN longer = 1..k
      /\ \A i \in 1..Len(run) : longer[i] = run[i]
  BY <1>1, <1>3, Appended
<1>5. Failures(outcome) \in Nat /\ (outcome \notin Clean /\ outcome # "abort" => Failures(outcome) > 0)
  <2>1. /\ outcome = "fail" => Failures(outcome) = 1
        /\ outcome = "fail twice" => Failures(outcome) = 2
        /\ outcome # "fail" /\ outcome # "fail twice" => Failures(outcome) = 0
    BY DEF Failures
  <2>2. outcome \notin Clean /\ outcome # "abort" => outcome = "fail" \/ outcome = "fail twice"
    BY <1>3 DEF Verdicts
  <2> DEFINE m == Failures(outcome)
  <2>3. m \in {0, 1, 2} /\ (outcome \notin Clean /\ outcome # "abort" => m \in {1, 2})
    BY <2>1, <2>2
  <2> HIDE DEF m
  <2>4. m \in Nat /\ (outcome \notin Clean /\ outcome # "abort" => m > 0)
    BY <2>3
  <2> QED
    BY <2>4 DEF m
<1>6. failed \in Nat /\ (gates.failed > 0 => failed > 0)
      /\ (outcome \notin Clean /\ outcome # "abort" => failed > 0)
  BY <1>1, <1>5
<1>7. status \in {None, "aborted"} /\ (outcome = "abort" => status = "aborted") /\ status # "approved"
  BY <1>1, ScriptsAssumption
<1>8. gates'.outcomes = longer /\ gates'.failed = failed /\ gates'.status = status
  BY <1>1, <1>2 DEF GatesType
<1>9. gates' \in GatesType
  <2> HIDE DEF longer, failed, status
  <2>1. gates' = [outcomes |-> longer, failed |-> failed, status |-> status]
    BY <1>1, <1>2 DEF longer, failed, status, GatesType
  <2> QED
    BY <1>4, <1>6, <1>7, <2>1 DEF GatesType
<1> HIDE DEF longer, failed, status
<1>10. UNCHANGED <<checkout, script, up>> /\ script.at = "gates"
  BY DEF RunGate
<1>11. ASSUME NEW i \in DOMAIN gates'.outcomes, gates'.outcomes[i] \notin Clean
       PROVE  gates'.failed > 0 \/ gates'.status = "aborted"
  <2>1. CASE i = k
    BY <1>4, <1>6, <1>7, <1>8, <1>11, <2>1
  <2>2. CASE i # k
    <3>1. i \in 1..Len(run) /\ run[i] \notin Clean
      BY <1>1, <1>4, <1>8, <1>11, <2>2
    <3>2. gates.failed > 0
      BY <1>1, <3>1, ScriptsAssumption DEF GatesInv
    <3> QED
      BY <1>6, <1>8, <3>2
  <2> QED
    BY <2>1, <2>2
<1>12. script.name = "deploy" =>
         /\ script.up_before = up
         /\ Len(longer) >= 5 /\ longer[5] \in Clean => Critical \subseteq up
         /\ Len(longer) >= 8 /\ longer[8] \in Clean => "mcp-server" \in checkout
  <2> SUFFICES ASSUME script.name = "deploy"
               PROVE  /\ script.up_before = up
                      /\ Len(longer) >= 5 /\ longer[5] \in Clean => Critical \subseteq up
                      /\ Len(longer) >= 8 /\ longer[8] \in Clean => "mcp-server" \in checkout
    OBVIOUS
  <2>1. /\ script.up_before = up
        /\ Len(run) >= 5 /\ run[5] \in Clean => Critical \subseteq up
        /\ Len(run) >= 8 /\ run[8] \in Clean => "mcp-server" \in checkout
    BY <1>10 DEF GatesInv
  <2>2. Len(longer) >= 5 => k = 5 \/ (Len(run) >= 5 /\ longer[5] = run[5])
    BY <1>1, <1>4
  <2>3. Len(longer) >= 8 => k = 8 \/ (Len(run) >= 8 /\ longer[8] = run[8])
    BY <1>1, <1>4
  <2>4. (k = 5 => longer[5] = outcome) /\ (k = 8 => longer[8] = outcome)
    BY <1>4
  <2> QED
    BY <1>3, <2>1, <2>2, <2>3, <2>4
<1>13. script.at \notin Past
  BY <1>10 DEF Past
<1> QED
  BY <1>7, <1>8, <1>9, <1>10, <1>11, <1>12, <1>13 DEF GatesInv

(* no script runs any more *)
LEMMA NoGatesYet ==
  /\ NoGates \in GatesType /\ NoGates.status # "approved" /\ NoGates.outcomes = <<>>
  /\ DOMAIN NoGates.outcomes = {} /\ Len(NoGates.outcomes) = 0
<1>1. None # "approved"
  BY ScriptsAssumption
<1> QED
  BY <1>1 DEF NoGates, GatesType

LEMMA NoScriptStands ==
  ASSUME GatesInv, script' = NoScript, checkout' = checkout, gates' = gates \/ gates' = NoGates, up' \subseteq Services
  PROVE  GatesInv'
<1>1. /\ script'.at = None /\ script'.name = None
      /\ script' \in ScriptType
  BY DEF NoScript, ScriptType
<1>2. None # "gates" /\ None \notin Past
  BY ScriptsAssumption DEF Past
<1>3. CASE gates' = gates
  BY <1>1, <1>2, <1>3 DEF GatesInv
<1>4. CASE gates' = NoGates
  BY <1>1, <1>2, <1>4, NoGatesYet DEF GatesInv
<1> QED
  BY <1>3, <1>4

LEMMA GatesMove ==
  ASSUME GatesInv,
         SumUp \/ GatesEnd \/ RunEndToEnd \/ (\E full \in BOOLEAN : RunGates(full))
           \/ (\E skip \in BOOLEAN : BeginInstall(skip) \/ \E own \in {None} \cup OwnPasswords : BeginDeploy(skip, own))
  PROVE  GatesInv'
<1>0. script \in ScriptType /\ gates \in GatesType /\ checkout \in {Expected, Expected \ Missing} /\ up \subseteq Services
  BY DEF GatesInv
<1>1. CASE SumUp
  <2>1. /\ gates.status = None /\ UNCHANGED <<checkout, up, script>> /\ script.at = "gates"
        /\ gates' = [gates EXCEPT !.status = IF gates.failed > 0 THEN "blocked" ELSE "approved"]
        /\ Len(gates.outcomes) = Len(Outcomes)
    BY <1>1 DEF SumUp
  <2>2. /\ gates'.outcomes = gates.outcomes /\ gates'.failed = gates.failed
        /\ gates' \in GatesType /\ (gates'.status = "approved" => gates.failed = 0)
    BY <1>0, <2>1 DEF GatesType
  <2>3. script.name = "deploy" => Len(Outcomes) = 9
    BY DEF Outcomes, GateOutcomes
  <2>4. gates.status # "aborted"
    BY <2>1, ScriptsAssumption
  <2>5. script.at \notin Past
    BY <2>1 DEF Past
  <2> QED
    BY <1>0, <2>1, <2>2, <2>3, <2>4, <2>5 DEF GatesInv
<1>2. CASE GatesEnd
  <2>1. UNCHANGED <<checkout, up>> /\ gates' = NoGates /\ script.at = "gates"
    BY <1>2 DEF GatesEnd
  <2>2. CASE script.name = "deploy" /\ gates.status = "approved"
    <3>1. script' = [script EXCEPT !.at = "pull"]
      BY <1>2, <2>2 DEF GatesEnd, GoesTo
    <3>2. /\ script' \in ScriptType /\ script'.at = "pull" /\ script'.name = script.name
          /\ script'.skip = script.skip /\ script'.up_before = script.up_before
      BY <1>0, <3>1 DEF Past, ScriptType
    <3>3. /\ gates.outcomes \in Seq(Verdicts) /\ Len(gates.outcomes) = 9 /\ gates.failed = 0
          /\ script.up_before = up
          /\ Len(gates.outcomes) >= 5 /\ gates.outcomes[5] \in Clean => Critical \subseteq up
          /\ Len(gates.outcomes) >= 8 /\ gates.outcomes[8] \in Clean => "mcp-server" \in checkout
          /\ \A i \in DOMAIN gates.outcomes :
               gates.outcomes[i] \notin Clean => gates.failed > 0 \/ gates.status = "aborted"
      BY <1>0, <2>1, <2>2 DEF GatesInv, GatesType
    <3>4. gates.outcomes[5] \in Clean /\ gates.outcomes[8] \in Clean
      <4>1. 5 \in DOMAIN gates.outcomes /\ 8 \in DOMAIN gates.outcomes
        BY <3>3
      <4> QED
        BY <2>2, <3>3, <4>1
    <3>5. Critical \subseteq up /\ "mcp-server" \in checkout
      BY <3>3, <3>4
    <3>6. Missing \subseteq checkout
      BY <1>0, <3>5 DEF Missing, Expected
    <3>7. "pull" # "gates"
      OBVIOUS
    <3> QED
      BY <1>0, <2>1, <3>2, <3>3, <3>5, <3>6, <3>7, NoGatesYet DEF GatesInv
  <2>3. CASE ~(script.name = "deploy" /\ gates.status = "approved")
    <3>1. script' = NoScript
      BY <1>2, <2>3 DEF GatesEnd, Ends
    <3> QED
      BY <1>0, <2>1, <3>1, NoScriptStands
  <2> QED
    BY <2>2, <2>3
<1>3. CASE RunEndToEnd \/ (\E full \in BOOLEAN : RunGates(full))
             \/ (\E skip \in BOOLEAN : BeginInstall(skip) \/ \E own \in {None} \cup OwnPasswords : BeginDeploy(skip, own))
  <2>1. PICK name \in {"gates", "e2e", "deploy", "install"}, skip \in BOOLEAN, full \in BOOLEAN,
             own \in {None} \cup OwnPasswords, at \in {"gates", "pull", "infrastructure"} :
          Begin(name, skip, full, own, at) /\ (name = "deploy" => at = IF skip THEN "pull" ELSE "gates")
    <3>1. RunEndToEnd => Begin("e2e", FALSE, FALSE, None, "gates")
      BY DEF RunEndToEnd
    <3>2. ASSUME NEW full \in BOOLEAN, RunGates(full) PROVE Begin("gates", FALSE, full, None, "gates")
      BY <3>2 DEF RunGates
    <3>3. ASSUME NEW skip \in BOOLEAN, NEW own \in {None} \cup OwnPasswords, BeginDeploy(skip, own)
          PROVE  Begin("deploy", skip, FALSE, own, IF skip THEN "pull" ELSE "gates")
      BY <3>3 DEF BeginDeploy
    <3>4. ASSUME NEW skip \in BOOLEAN, BeginInstall(skip) PROVE Begin("install", skip, FALSE, None, "infrastructure")
      BY <3>4 DEF BeginInstall
    <3> QED
      BY <1>3, <3>1, <3>2, <3>3, <3>4
  <2>2. UNCHANGED <<checkout, up>>
    BY <1>3 DEF RunEndToEnd, RunGates, BeginDeploy, BeginInstall
  <2>3. /\ script' = [name |-> name, skip |-> skip, full |-> full, own |-> own, at |-> at, up_before |-> up, started |-> {}]
        /\ gates' = NoGates
    BY <2>1 DEF Begin
  <2>4. script' \in ScriptType
    BY <1>0, <2>3 DEF Past, ScriptType
  <2>5. script'.up_before = up /\ script'.at = at /\ script'.name = name /\ script'.skip = skip
    BY <2>3
  <2>6. name = "deploy" /\ at \in Past => skip
    BY <2>1 DEF Past
  <2> QED
    BY <1>0, <2>2, <2>3, <2>4, <2>5, <2>6, NoGatesYet DEF GatesInv
<1> QED
  BY <1>1, <1>2, <1>3

(* what the step that starts everything leaves of its script *)
LEMMA AllStarted ==
  ASSUME StartAll, script.started \subseteq Services
  PROVE  \/ script' = NoScript
         \/ \E at \in {"admin", "receipt", "validate"}, started \in SUBSET Services :
              /\ script' = [script EXCEPT !.at = at, !.started = started]
              /\ at = "admin" => script.name = "deploy"
              /\ at = "receipt" => Composed(Services) \subseteq started
<1>1. PICK all \in {Services, Services \ {"gateway"}} :
        IF script.name # "deploy" /\ all # Services THEN Ends
        ELSE script' = [script EXCEPT !.started = @ \cup Composed(all),
                                      !.at = CASE script.name = "deploy" -> "admin"
                                               [] script.name # "deploy" /\ script.skip -> "receipt"
                                               [] OTHER -> "validate"]
  BY DEF StartAll
<1>2. CASE script.name # "deploy" /\ all # Services
  BY <1>1, <1>2 DEF Ends
<1>3. CASE ~(script.name # "deploy" /\ all # Services)
  <2> DEFINE at == CASE script.name = "deploy" -> "admin" [] script.name # "deploy" /\ script.skip -> "receipt" [] OTHER -> "validate"
             started == script.started \cup Composed(all)
  <2>1. script' = [script EXCEPT !.at = at, !.started = started]
    BY <1>1, <1>3
  <2>2. started \in SUBSET Services
    BY DEF Composed
  <2>3. /\ at \in {"admin", "receipt", "validate"}
        /\ at = "admin" => script.name = "deploy"
        /\ at = "receipt" => all = Services
    <3>1. CASE script.name = "deploy"
      BY <3>1
    <3>2. CASE script.name # "deploy" /\ script.skip
      BY <1>3, <3>2
    <3>3. CASE script.name # "deploy" /\ ~script.skip
      BY <3>3
    <3> QED
      BY <3>1, <3>2, <3>3
  <2> HIDE DEF at
  <2> QED
    BY <2>1, <2>2, <2>3
<1> QED
  BY <1>2, <1>3

LEMMA ScriptMoves ==
  ASSUME GatesInv,
         PullImages \/ StartInfrastructure \/ PullModels \/ StartAll \/ SetUpAdmin \/ Validate \/ WriteReceipt
           \/ ExchangeEnv \/ (\E service \in {"gateway", "hallucination-detector"} : StopService(service))
  PROVE  GatesInv'
<1>0. /\ script \in ScriptType
      /\ UNCHANGED <<checkout, gates>> /\ up \subseteq Services
  BY DEF GatesInv, PullImages, StartInfrastructure, PullModels, StartAll, SetUpAdmin, Validate, WriteReceipt,
         ExchangeEnv, StopService
<1>1. up' \subseteq Services
  BY <1>0 DEF PullImages, StartInfrastructure, PullModels, StartAll, SetUpAdmin, Validate, WriteReceipt,
              ExchangeEnv, StopService, Services, Composed
<1>2. CASE script' = NoScript
  BY <1>0, <1>1, <1>2, NoScriptStands
<1>3. CASE script' = script /\ script = NoScript
  BY <1>0, <1>1, <1>3, NoScriptStands
<1>4. ASSUME NEW at \in {"receipt", "validate"} \cup Past, NEW started \in SUBSET Services,
             script' = [script EXCEPT !.at = at, !.started = started], at \in Past => script.at \in Past
      PROVE  GatesInv'
  <2>1. /\ script' \in ScriptType
        /\ script'.at = at /\ script'.name = script.name /\ script'.skip = script.skip
        /\ script'.up_before = script.up_before
    BY <1>0, <1>4 DEF ScriptType
  <2>2. at # "gates"
    BY DEF Past
  <2> QED
    BY <1>0, <1>1, <1>4, <2>1, <2>2 DEF GatesInv
<1>5. ASSUME NEW at \in Past, script.at \in Past, GoesTo(at) PROVE GatesInv'
  <2>1. script.started \in SUBSET Services /\ script' = [script EXCEPT !.at = at, !.started = script.started]
    BY <1>0, <1>5 DEF GoesTo, ScriptType
  <2> QED
    BY <1>4, <1>5, <2>1
<1>6. CASE PullImages \/ PullModels
  BY <1>2, <1>5, <1>6 DEF PullImages, PullModels, Ends, Past
<1>7. CASE StartInfrastructure
  <2>1. script.at \in Past /\ "models" \in Past
    BY <1>7 DEF StartInfrastructure, Past
  <2>2. script' = NoScript \/ \E started \in SUBSET Services : script' = [script EXCEPT !.at = "models", !.started = started]
    BY <1>7 DEF StartInfrastructure, Ends, Services
  <2> QED
    BY <1>2, <1>4, <2>1, <2>2
<1>8. CASE StartAll
  <2>1. script.at \in Past /\ script.started \subseteq Services
    BY <1>0, <1>8 DEF StartAll, Past, ScriptType
  <2>2. \/ script' = NoScript
        \/ \E at \in {"admin", "receipt", "validate"}, started \in SUBSET Services :
             script' = [script EXCEPT !.at = at, !.started = started]
    BY <1>8, <2>1, AllStarted
  <2> QED
    BY <1>2, <1>4, <2>1, <2>2 DEF Past
<1>9. CASE SetUpAdmin \/ Validate \/ WriteReceipt
  BY <1>2, <1>9 DEF SetUpAdmin, Validate, WriteReceipt, Ends
<1>10. CASE ExchangeEnv
  BY <1>3, <1>10 DEF ExchangeEnv
<1>11. ASSUME NEW service \in {"gateway", "hallucination-detector"}, StopService(service) PROVE GatesInv'
  <2>1. UNCHANGED <<checkout, script, gates>> /\ script.at # "gates"
    BY <1>11 DEF StopService
  <2> QED
    BY <1>1, <2>1 DEF GatesInv
<1> QED
  BY <1>6, <1>7, <1>8, <1>9, <1>10, <1>11

LEMMA GatesBegin ==
  DeploymentInit => GatesInv
<1> SUFFICES ASSUME DeploymentInit PROVE GatesInv
  OBVIOUS
<1>1. /\ script = NoScript /\ gates = NoGates
      /\ checkout \in {Expected, Expected \ Missing} /\ up = {}
  BY DEF DeploymentInit
<1>2. /\ script.at = None /\ script.name = None
      /\ script \in ScriptType
  BY <1>1 DEF NoScript, ScriptType
<1>3. None # "gates" /\ None \notin Past
  BY ScriptsAssumption DEF Past
<1> QED
  BY <1>1, <1>2, <1>3, NoGatesYet DEF GatesInv

LEMMA GatesStep ==
  GatesInv /\ [DeploymentNext]_deployment_vars => GatesInv'
<1> SUFFICES ASSUME GatesInv, [DeploymentNext]_deployment_vars PROVE GatesInv'
  OBVIOUS
<1>1. CASE UNCHANGED deployment_vars
  BY <1>1 DEF GatesInv, deployment_vars
<1>2. CASE DeploymentNext
  BY <1>2, RunGateStep, GatesMove, ScriptMoves DEF DeploymentNext
<1> QED
  BY <1>1, <1>2

(* Nothing is approved that did not pass, of ClaimsAreEarned.               *)
THEOREM ApprovedPassed ==
  DeploymentSpec => []ApprovedMeansPassed
<1>1. DeploymentInit => GatesInv
  BY GatesBegin
<1>2. GatesInv /\ [DeploymentNext]_deployment_vars => GatesInv'
  BY GatesStep
<1>3. GatesInv => ApprovedMeansPassed
  <2> SUFFICES ASSUME GatesInv PROVE ApprovedMeansPassed
    OBVIOUS
  <2>1. ASSUME gates.status = "approved", NEW i \in DOMAIN gates.outcomes
        PROVE  gates.outcomes[i] \in Clean
    <3>1. gates.failed = 0 /\ gates.status # "aborted"
      BY <2>1 DEF GatesInv
    <3> QED
      BY <3>1 DEF GatesInv
  <2> QED
    BY <2>1 DEF ApprovedMeansPassed, GatesInv, Clean
<1> QED
  BY <1>1, <1>2, <1>3, PTL DEF DeploymentSpec

(* An installation that comes to its receipt has started everything.       *)
ReceiptInv ==
  /\ script.at = "receipt" => Composed(Services) \subseteq script.started
  /\ ReceiptIsEarned

LEMMA WhatTheScriptIs ==
  GatesInv => script \in ScriptType
BY DEF GatesInv

LEMMA ReceiptStep ==
  ASSUME GatesInv, ReceiptInv, [DeploymentNext]_deployment_vars
  PROVE  ReceiptInv'
<1>0. script \in ScriptType /\ NoScript.at # "receipt"
  BY WhatTheScriptIs, ScriptsAssumption DEF NoScript
<1>1. Composed(Services)' = Composed(Services)
  <2>1. checkout' = checkout
    BY DEF DeploymentNext, RunGate, SumUp, GatesEnd, RunEndToEnd, RunGates, BeginDeploy, BeginInstall, PullImages,
           StartInfrastructure, PullModels, StartAll, SetUpAdmin, Validate, WriteReceipt, ExchangeEnv, StopService,
           deployment_vars
  <2> QED
    BY <2>1 DEF Composed
<1>2. ASSUME UNCHANGED receipts, script' = script \/ script'.at # "receipt"
      PROVE  ReceiptInv'
  BY <1>1, <1>2 DEF ReceiptInv, ReceiptIsEarned, receipts
<1>3. CASE WriteReceipt
  <2>1. /\ script.at = "receipt" /\ script' = NoScript
        /\ UNCHANGED receipts \/ begun' = script.started
    BY <1>3 DEF WriteReceipt, Ends
  <2> QED
    BY <1>0, <1>1, <1>2, <2>1 DEF ReceiptInv, ReceiptIsEarned
<1>4. CASE StartAll
  <2>1. UNCHANGED receipts /\ script.started \subseteq Services
    BY <1>0, <1>4 DEF StartAll, ScriptType
  <2>2. CASE script' = NoScript
    BY <1>0, <1>2, <2>1, <2>2
  <2>3. ASSUME NEW at \in {"admin", "receipt", "validate"}, NEW started \in SUBSET Services,
               script' = [script EXCEPT !.at = at, !.started = started],
               at = "receipt" => Composed(Services) \subseteq started
        PROVE  ReceiptInv'
    <3>1. script'.at = at /\ script'.started = started
      BY <1>0, <2>3 DEF ScriptType
    <3> QED
      BY <1>1, <2>1, <2>3, <3>1 DEF ReceiptInv, ReceiptIsEarned, receipts
  <2> QED
    BY <1>4, <2>1, <2>2, <2>3, AllStarted
<1>5. CASE RunGate \/ SumUp \/ ExchangeEnv \/ (\E service \in {"gateway", "hallucination-detector"} : StopService(service))
  BY <1>2, <1>5 DEF RunGate, SumUp, ExchangeEnv, StopService
<1>6. CASE GatesEnd \/ PullImages \/ StartInfrastructure \/ PullModels \/ SetUpAdmin \/ Validate
  <2>1. UNCHANGED receipts
    BY <1>6 DEF GatesEnd, PullImages, StartInfrastructure, PullModels, SetUpAdmin, Validate
  <2>2. \/ script' = NoScript
        \/ \E at \in {"pull", "infrastructure", "all"} : script' = [script EXCEPT !.at = at]
        \/ \E started : script' = [script EXCEPT !.at = "models", !.started = started]
    BY <1>6 DEF GatesEnd, PullImages, StartInfrastructure, PullModels, SetUpAdmin, Validate, GoesTo, Ends
  <2>3. script'.at # "receipt"
    BY <1>0, <2>2 DEF ScriptType
  <2> QED
    BY <1>2, <2>1, <2>3
<1>7. CASE RunEndToEnd \/ (\E full \in BOOLEAN : RunGates(full))
             \/ (\E skip \in BOOLEAN : BeginInstall(skip) \/ \E own \in {None} \cup OwnPasswords : BeginDeploy(skip, own))
  <2>1. UNCHANGED receipts
    BY <1>7 DEF RunEndToEnd, RunGates, BeginDeploy, BeginInstall
  <2>2. script'.at # "receipt"
    BY <1>7 DEF RunEndToEnd, RunGates, BeginDeploy, BeginInstall, Begin
  <2> QED
    BY <1>2, <2>1, <2>2
<1>8. CASE UNCHANGED deployment_vars
  BY <1>2, <1>8 DEF deployment_vars
<1> QED
  BY <1>3, <1>4, <1>5, <1>6, <1>7, <1>8 DEF DeploymentNext

(* While nobody meddles, whatever is printed and whoever is administrator  *)
(* has the shell's password or, where it held none, that of .env, which a  *)
(* deployment keeps for its end.                                           *)
IsOpened(by) == IF by.own = None THEN env # None /\ by.password = env ELSE by.password = by.own

SecretsAgree ==
  /\ script # NoScript /\ script.name = "deploy" => env # None /\ (env # 0 => kept = env)
  /\ printed # None => IsOpened(printed)
  /\ admin # None => IsOpened(admin)

PasswordInv ==
  /\ fresh \in Nat
  /\ script.at = "admin" => script.name = "deploy"
  /\ ~meddled => SecretsAgree

LEMMA SecretsStand ==
  ASSUME PasswordInv, UNCHANGED secrets,
         \/ script' = NoScript \/ script' = script
         \/ script # NoScript /\ script'.name = script.name /\ (script'.at = "admin" => script.name = "deploy")
         \/ script'.name # "deploy" /\ script'.at # "admin"
  PROVE  PasswordInv'
<1>1. NoScript.at # "admin"
  BY ScriptsAssumption DEF NoScript
<1>2. fresh' \in Nat /\ (script'.at = "admin" => script'.name = "deploy")
  BY <1>1 DEF PasswordInv, secrets
<1>3. ASSUME ~meddled' PROVE SecretsAgree'
  <2>1. SecretsAgree /\ UNCHANGED <<env, kept, printed, admin>>
    BY <1>3 DEF PasswordInv, secrets
  <2>2. script' # NoScript /\ script'.name = "deploy" => script # NoScript /\ script.name = "deploy"
    OBVIOUS
  <2> QED
    BY <2>1, <2>2 DEF SecretsAgree, IsOpened
<1> QED
  BY <1>2, <1>3 DEF PasswordInv

(* A deployment gives its shell's password, or that of .env. *)
LEMMA AdminSetUp ==
  ASSUME SetUpAdmin, SecretsAgree, script # NoScript, script.name = "deploy", ~meddled'
  PROVE  SecretsAgree'
<1> DEFINE made == [password |-> Password, own |-> script.own]
<1>1. /\ printed' = made /\ env' = env /\ script' = NoScript
      /\ admin' = admin \/ admin' = made
      /\ script.own = None => env # 0
  BY DEF SetUpAdmin, Ends
<1>2. env # None /\ (env # 0 => kept = env)
  BY DEF SecretsAgree
<1>3. CASE script.own = None
  <2>1. kept # None /\ kept = env
    BY <1>1, <1>2, <1>3
  <2>2. Password = env
    BY <1>3, <2>1 DEF Password
  <2>3. made.own = None /\ made.password = env
    BY <1>3, <2>2
  <2> QED
    BY <1>1, <1>2, <2>3 DEF SecretsAgree, IsOpened
<1>4. CASE script.own # None
  <2>1. Password = script.own
    BY <1>4 DEF Password
  <2>2. made.own # None /\ made.password = made.own
    BY <1>4, <2>1
  <2> QED
    BY <1>1, <2>2 DEF SecretsAgree, IsOpened
<1> QED
  BY <1>3, <1>4

LEMMA PasswordStep ==
  ASSUME GatesInv, PasswordInv, [DeploymentNext]_deployment_vars
  PROVE  PasswordInv'
<1>0. script \in ScriptType /\ None \notin Nat
  BY WhatTheScriptIs, TrackingAssumption
<1>1. NoScript.at \notin {"gates", "receipt"} \cup Past
  BY ScriptsAssumption DEF NoScript, Past
<1>2. CASE SetUpAdmin
  <2>1. /\ script.at = "admin" /\ script' = NoScript /\ fresh' \in {fresh, fresh + 1}
        /\ meddled' = (meddled \/ (script.own = None /\ env = 0))
    BY <1>2 DEF SetUpAdmin, Ends
  <2>2. script'.at # "admin" /\ fresh' \in Nat
    BY <1>1, <2>1 DEF PasswordInv, Past
  <2>3. ASSUME ~meddled' PROVE SecretsAgree'
    <3>1. SecretsAgree
      BY <2>1, <2>3 DEF PasswordInv
    <3>2. script # NoScript /\ script.name = "deploy"
      BY <1>1, <2>1 DEF PasswordInv, Past
    <3> QED
      BY <1>2, <2>3, <3>1, <3>2, AdminSetUp
  <2> QED
    BY <2>2, <2>3 DEF PasswordInv
<1>3. ASSUME NEW skip \in BOOLEAN, NEW own \in {None} \cup OwnPasswords, BeginDeploy(skip, own) PROVE PasswordInv'
  <2>1. /\ script = NoScript /\ script'.name = "deploy" /\ script'.at # "admin"
        /\ UNCHANGED <<admin, printed, meddled>>
    BY <1>3 DEF BeginDeploy, Begin
  <2>2. \/ env = None /\ env' = fresh + 1 /\ kept' = fresh + 1 /\ fresh' = fresh + 1
        \/ env # None /\ kept' = (IF env # 0 THEN env ELSE kept) /\ UNCHANGED <<env, fresh>>
    BY <1>3 DEF BeginDeploy
  <2>3. fresh \in Nat /\ fresh + 1 # None
    BY <1>0 DEF PasswordInv
  <2>4. fresh' \in Nat
    BY <2>2, <2>3
  <2>5. env' # None /\ (env' # 0 => kept' = env') /\ (env # None => env' = env)
    BY <2>2, <2>3
  <2>6. ASSUME ~meddled' PROVE SecretsAgree'
    <3>1. SecretsAgree
      BY <2>1, <2>6 DEF PasswordInv
    <3> QED
      BY <2>1, <2>5, <3>1 DEF SecretsAgree, IsOpened
  <2> QED
    BY <2>1, <2>4, <2>6 DEF PasswordInv
<1>4. ASSUME NEW skip \in BOOLEAN, BeginInstall(skip) PROVE PasswordInv'
  <2>1. /\ script'.name = "install" /\ script'.at # "admin" /\ UNCHANGED <<kept, admin, printed, fresh, meddled>>
        /\ env' = (IF env = None THEN 0 ELSE env)
    BY <1>4 DEF BeginInstall, Begin
  <2>2. ASSUME ~meddled' PROVE SecretsAgree'
    <3>1. SecretsAgree
      BY <2>1, <2>2 DEF PasswordInv
    <3> QED
      BY <2>1, <3>1 DEF SecretsAgree, IsOpened
  <2> QED
    BY <2>1, <2>2 DEF PasswordInv
<1>5. CASE ExchangeEnv
  BY <1>5 DEF ExchangeEnv, PasswordInv
<1>6. ASSUME UNCHANGED secrets, script # NoScript, script' = NoScript \/ script'.name = script.name,
             script'.at = "admin" => script.name = "deploy" \/ script' = NoScript
      PROVE  PasswordInv'
  BY <1>6, SecretsStand
<1>7. CASE RunGate \/ SumUp \/ (\E service \in {"gateway", "hallucination-detector"} : StopService(service))
  <2>1. UNCHANGED <<script, secrets>>
    BY <1>7 DEF RunGate, SumUp, StopService
  <2> QED
    BY <2>1, SecretsStand
<1>8. CASE GatesEnd \/ PullImages \/ StartInfrastructure \/ PullModels
  <2>1. script # NoScript /\ UNCHANGED secrets
    BY <1>1, <1>8 DEF GatesEnd, PullImages, StartInfrastructure, PullModels, Past
  <2>2. \/ script' = NoScript
        \/ \E at \in {"pull", "infrastructure", "models", "all"} : script' = [script EXCEPT !.at = at]
        \/ \E started : script' = [script EXCEPT !.at = "models", !.started = started]
    BY <1>8 DEF GatesEnd, PullImages, StartInfrastructure, PullModels, GoesTo, Ends
  <2>3. script' = NoScript \/ (script'.name = script.name /\ script'.at # "admin")
    BY <1>0, <2>2 DEF ScriptType
  <2> QED
    BY <1>6, <2>1, <2>3
<1>9. CASE StartAll
  <2>1. script # NoScript /\ UNCHANGED secrets /\ script.started \subseteq Services
    BY <1>0, <1>1, <1>9 DEF StartAll, Past, ScriptType
  <2>2. \/ script' = NoScript
        \/ \E at \in {"admin", "receipt", "validate"}, started \in SUBSET Services :
             script' = [script EXCEPT !.at = at, !.started = started] /\ (at = "admin" => script.name = "deploy")
    BY <1>9, <2>1, AllStarted
  <2>3. script' = NoScript \/ (script'.name = script.name /\ (script'.at = "admin" => script.name = "deploy"))
    BY <1>0, <2>2 DEF ScriptType
  <2> QED
    BY <1>6, <2>1, <2>3
<1>10. CASE Validate \/ WriteReceipt
  <2>1. UNCHANGED secrets /\ script' = NoScript
    BY <1>10 DEF Validate, WriteReceipt, Ends
  <2> QED
    BY <2>1, SecretsStand
<1>11. CASE RunEndToEnd \/ (\E full \in BOOLEAN : RunGates(full))
  <2>1. UNCHANGED secrets /\ script'.name # "deploy" /\ script'.at # "admin"
    BY <1>11 DEF RunEndToEnd, RunGates, Begin
  <2> QED
    BY <2>1, SecretsStand
<1>12. CASE UNCHANGED deployment_vars
  <2>1. UNCHANGED <<script, secrets>>
    BY <1>12 DEF deployment_vars, secrets
  <2> QED
    BY <2>1, SecretsStand
<1> QED
  BY <1>2, <1>3, <1>4, <1>5, <1>7, <1>8, <1>9, <1>10, <1>11, <1>12 DEF DeploymentNext

(* Whoever left a receipt had started everything, and two deployments      *)
(* whose shells held the same give the same password.                      *)
THEOREM InstalledAsSaid ==
  DeploymentSpec => [](ReceiptIsEarned /\ PrintedOpens)
<1>1. DeploymentInit => GatesInv /\ ReceiptInv /\ PasswordInv
  <2> SUFFICES ASSUME DeploymentInit PROVE GatesInv /\ ReceiptInv /\ PasswordInv
    OBVIOUS
  <2>1. /\ script = NoScript /\ receipt = None /\ printed = None /\ admin = None /\ fresh \in Nat
    BY DEF DeploymentInit
  <2>2. NoScript.at # "receipt" /\ NoScript.at # "admin"
    BY ScriptsAssumption DEF NoScript
  <2> QED
    BY <2>1, <2>2, GatesBegin DEF ReceiptInv, ReceiptIsEarned, PasswordInv, SecretsAgree
<1>2. /\ GatesInv /\ [DeploymentNext]_deployment_vars => GatesInv'
      /\ GatesInv /\ ReceiptInv /\ [DeploymentNext]_deployment_vars => ReceiptInv'
      /\ GatesInv /\ PasswordInv /\ [DeploymentNext]_deployment_vars => PasswordInv'
  BY GatesStep, ReceiptStep, PasswordStep
<1>3. ReceiptInv /\ PasswordInv => ReceiptIsEarned /\ PrintedOpens
  <2> SUFFICES ASSUME PasswordInv, printed # None, admin # None, ~meddled, printed.own = admin.own
               PROVE  printed.password = admin.password
    BY DEF ReceiptInv, PrintedOpens
  <2>1. IsOpened(printed) /\ IsOpened(admin)
    BY DEF PasswordInv, SecretsAgree
  <2> QED
    BY <2>1 DEF IsOpened
<1> QED
  BY <1>1, <1>2, <1>3, PTL DEF DeploymentSpec

-----------------------------------------------------------------------------
(***************************************************************************)
(* What is recorded is kept, by all that records: MCOperations puts the    *)
(* parts side by side, and each has its own invariant above.               *)
(***************************************************************************)
THEOREM RecordsKept ==
  MCSpec => []RecordedIsKept
<1>1. /\ RecordsSpec => [](WithdrawnStaysWithdrawn /\ RecordsSurvive)
      /\ Soc2Spec => [](UpdatesReachTheirRecord /\ RedisKeepsTheNewest)
      /\ JournalsSpec => [](RotationLosesNothing /\ ChainIsOne)
      /\ JournalsSpec => [](HandlersMissNothing /\ PagesMissNothing)
      /\ SnapshotsSpec => [](ListedIsLoadable /\ ListedOnce)
      /\ MonitoringSpec => []ListedIsReadable
      /\ ExperimentsSpec => []ReportsHaveTheirRun
  BY FiledIsKept, ListsAreKept, EventsAreKept, EventsAreFound, SnapshotsAreKept, ListedNamesAreReadable, ReportsAreFound
<1> QED
  BY <1>1, RecordsBeside, ModelsBeside, PTL DEF RecordedIsKept

-----------------------------------------------------------------------------
(***************************************************************************)
(* What is claimed is earned, and what watches acts, each by the invariant *)
(* of its part.                                                            *)
(***************************************************************************)
THEOREM ClaimsHeld ==
  MCSpec => []ClaimsAreEarned
<1>1. /\ RoutingSpec => [](ResultsCountOnce /\ DecidedOnEvidence)
      /\ MonitoringSpec => []EvaluationAddsUp
      /\ DeploymentSpec => []ApprovedMeansPassed
      /\ DeploymentSpec => [](ReceiptIsEarned /\ PrintedOpens)
      /\ MaintenanceSpec => [](CompletedIsWhole /\ RegisteredWasTrained)
      /\ ReadinessSpec => [](AcceptedIsMet /\ StartedIsSafe /\ PassedDidRun)
      /\ AssessmentsSpec => []OpinionsAddUp
  BY PromotedOnEvidence, EvaluationsAddUp, ApprovedPassed, InstalledAsSaid, ChoresAreDone, ReadyIsReady, OpinionsCounted
<1> QED
  BY <1>1, ModelsBeside, ScriptsBeside, PTL DEF ClaimsAreEarned

THEOREM WatchersDo ==
  MCSpec => WatchersAct
<1>1. /\ MonitoringSpec => DriftIsNoticed
      /\ MaintenanceSpec => ScaledWithinLimits
      /\ AccuracySpec => []DeclineIsReported
      /\ AssessmentsSpec => []EscalatedInTime
  BY DriftNoticed, ScalerLimited, DeclineReported, ViolationsEscalate
<1> QED
  BY <1>1, ModelsBeside, ScriptsBeside, PTL DEF WatchersAct, ReadinessSpec

===============================================================================
