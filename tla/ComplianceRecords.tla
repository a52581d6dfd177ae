------------------------------ MODULE ComplianceRecords ------------------------------
(***************************************************************************)
(* Registers of compliance: those kept in JSON files, and those of SOC 2   *)
(* kept in memory and Redis. The two parts share nothing.                  *)
(***************************************************************************)
EXTENDS Absence, Naturals, FiniteSets, Sequences, Functions

-----------------------------------------------------------------------------
(***************************************************************************)
(* Registers that a manager keeps in memory and saves whole, after every   *)
(* change, over one JSON file (shared/security): consents (consent.py),    *)
(* breaches (breach_notification.py), cardholder systems (pci.py) and the  *)
(* controls of compliance frameworks (compliance.py).                      *)
(*                                                                         *)
(* A manager loads the file once, when its process creates it.  Saving     *)
(* opens the file, which empties it, and then writes; an error on the way  *)
(* is only logged.  A file that does not parse, or cannot be read just     *)
(* then, loads as no records.                                              *)
(* `truth' and `trouble' are history variables.                            *)
(***************************************************************************)

CONSTANTS
  Managers,  \* processes that may create a manager
  Records,   \* identifiers of records
  LastDay,   \* bound: the clock stops here
  MaxChanges \* bound: calls that change a record

ASSUME RecordFilesAssumption == LastDay \in Nat /\ MaxChanges \in Nat

Registers == {"consents", "breaches", "systems", "controls"}
Absent == "absent" \* a register without the record

VARIABLES
  register, \* the register looked at
  file,     \* what the file holds: a register's contents, or None if it does not parse
  memory,   \* contents in each manager, None before it is created
  saving,   \* managers that have emptied the file and not yet written it
  day,      \* the clock
  changes,  \* calls so far
  truth,    \* the contents every acknowledged call would have made
  trouble   \* what went wrong so far: "beside", "unsaved", "cut short", "unread"

record_vars == <<register, file, memory, saving, day, changes, truth, trouble>>

(* A record is its status and the day it falls due, if it does. *)
Entry(status, due) == [status |-> status, due |-> due]
NoRecords == [r \in Records |-> Entry(Absent, None)]

(* pci.py and compliance.py fill an empty register: requirements and       *)
(* controls exist from the start; cardholder systems, consents and         *)
(* breaches do not.                                                        *)
Initial(reg) ==
  IF reg = "controls" THEN [r \in Records |-> Entry("partial", None)] ELSE NoRecords

RecordsInit ==
  /\ register \in Registers
  /\ file = NoRecords
  /\ memory = [m \in Managers |-> None]
  /\ saving = {}
  /\ day = 0 /\ changes = 0
  /\ truth = NoRecords
  /\ trouble = {}

Created == {m \in Managers : memory[m] # None}

(* what _load_records, _load_breaches, _load_data and _load_frameworks     *)
(* find in a file that can be read                                         *)
Loaded == IF file = None THEN NoRecords ELSE file

(* A manager saves what it holds now: the file is emptied, ... *)
Saves(m, contents) ==
  /\ memory' = [memory EXCEPT ![m] = contents]
  /\ \/ /\ saving' = saving \cup {m}
        /\ file' = None
        /\ UNCHANGED trouble
     \/ /\ trouble' = trouble \cup {"unsaved"}
        /\ UNCHANGED <<saving, file>>

(* The manager is created with the file as it is, or with nothing when     *)
(* reading fails; controls are filled in and saved if there are none.      *)
CreateManager(m) ==
  /\ memory[m] = None
  /\ \E got \in {Loaded, NoRecords} :
       LET fills == register = "controls" /\ got = NoRecords
           troubled == trouble \cup (IF Created = {} THEN {} ELSE {"beside"})
                               \cup (IF got = Loaded THEN {} ELSE {"unread"})
       IN  /\ memory' = [memory EXCEPT ![m] = IF fills THEN Initial(register) ELSE got]
           /\ truth' = IF fills /\ truth = NoRecords THEN Initial(register) ELSE truth
           /\ \/ fills /\ saving' = saving \cup {m} /\ file' = None /\ trouble' = troubled
              \/ fills /\ trouble' = troubled \cup {"unsaved"} /\ UNCHANGED <<saving, file>>
              \/ ~fills /\ trouble' = troubled /\ UNCHANGED <<saving, file>>
  /\ UNCHANGED <<register, day, changes>>

(* ... and written.  Of two managers that write at the same time only the  *)
(* second may leave a whole file.                                          *)
Write(m) ==
  /\ m \in saving
  /\ saving' = saving \ {m}
  /\ file' \in {memory[m]} \cup (IF saving = {m} THEN {} ELSE {None})
  /\ UNCHANGED <<register, memory, day, changes, truth, trouble>>

(* Writing fails when the file is empty already. *)
WriteFails(m) ==
  /\ m \in saving
  /\ saving' = saving \ {m}
  /\ trouble' = trouble \cup {"unsaved"}
  /\ UNCHANGED <<register, file, memory, day, changes, truth>>

(* The process ends, perhaps while it saves. *)
ManagerEnds(m) ==
  /\ memory[m] # None
  /\ memory' = [memory EXCEPT ![m] = None]
  /\ saving' = saving \ {m}
  /\ trouble' = IF m \in saving THEN trouble \cup {"cut short"} ELSE trouble
  /\ UNCHANGED <<register, file, day, changes, truth>>

DayPasses ==
  /\ day < LastDay
  /\ day' = day + 1
  /\ UNCHANGED <<register, file, memory, saving, changes, truth, trouble>>

(* A call that gives the records rs the entry e. *)
Change(m, rs, e) ==
  /\ memory[m] # None /\ m \notin saving
  /\ changes < MaxChanges /\ changes' = changes + 1
  /\ Saves(m, [r \in Records |-> IF r \in rs THEN e[r] ELSE memory[m][r]])
  /\ truth' = [r \in Records |-> IF r \in rs THEN e[r] ELSE truth[r]]
  /\ UNCHANGED <<register, day>>

Status(m, r) == memory[m][r].status
With(m, r, status) == [s \in {r} |-> Entry(status, memory[m][r].due)]

(* mutant: the status is changed in memory and not saved *)
WithdrawConsentUnsaved(m, r) ==
  /\ register = "consents" /\ memory[m] # None /\ m \notin saving
  /\ Status(m, r) = "granted"
  /\ memory' = [memory EXCEPT ![m][r].status = "withdrawn"]
  /\ truth' = [truth EXCEPT ![r].status = "withdrawn"]
  /\ UNCHANGED <<register, file, saving, day, changes, trouble>>

WithdrawConsent(m, r) ==
  /\ register = "consents" /\ memory[m] # None
  /\ Status(m, r) = "granted"
  /\ Change(m, {r}, With(m, r, "withdrawn"))

(* identifiers are new; a consent may have no expiry *)
GrantConsent(m, r) ==
  /\ register = "consents" /\ truth[r].status = Absent
  /\ \E due \in {day + 1, None} : Change(m, {r}, [s \in {r} |-> Entry("granted", due)])

(* of the user's records those that are granted; without any, no save *)
WithdrawAllUserConsent(m, rs) ==
  /\ register = "consents" /\ memory[m] # None
  /\ LET granted == {r \in rs : Status(m, r) = "granted"} IN
       /\ granted # {}
       /\ Change(m, granted, [r \in granted |-> Entry("withdrawn", memory[m][r].due)])

(* _get_notification_deadline, in days *)
NotificationDeadline(severity, sensitive) ==
  CASE severity = "critical" /\ sensitive -> 1
    [] severity = "high" -> 2
    [] severity = "medium" -> 3
    [] OTHER -> 7

ReportBreach(m, r) ==
  /\ register = "breaches" /\ truth[r].status = Absent
  /\ \E severity \in {"low", "medium", "high", "critical"}, sensitive \in BOOLEAN :
       Change(m, {r}, [s \in {r} |-> Entry("detected", day + NotificationDeadline(severity, sensitive))])

(* Any status may follow any other.  For a deadline "investigating" is as  *)
(* "contained", and "notified" as "resolved".                              *)
UpdateBreach(m, r) ==
  /\ register = "breaches" /\ memory[m] # None /\ Status(m, r) # Absent
  /\ \E status \in {"detected", "contained", "resolved"} :
       Change(m, {r}, With(m, r, status))

RegisterCdeSystem(m, r) ==
  /\ register = "systems" /\ memory[m] # None
  /\ \E status \in {"in scope", "out of scope"} : Change(m, {r}, With(m, r, status))

UpdateControlStatus(m, r) ==
  /\ register = "controls" /\ memory[m] # None /\ Status(m, r) # Absent
  /\ \E status \in {"implemented", "planned"} : Change(m, {r}, With(m, r, status))

RecordsNext ==
  \/ \E m \in Managers :
       \/ CreateManager(m) \/ Write(m) \/ WriteFails(m) \/ ManagerEnds(m)
       \/ \E r \in Records :
            \/ GrantConsent(m, r) \/ WithdrawConsent(m, r)
            \/ ReportBreach(m, r) \/ UpdateBreach(m, r)
            \/ RegisterCdeSystem(m, r) \/ UpdateControlStatus(m, r)
       \/ \E rs \in SUBSET Records : WithdrawAllUserConsent(m, rs)
  \/ DayPasses

RecordsSpec == RecordsInit /\ [][RecordsNext]_record_vars

-----------------------------------------------------------------------------
Record == [status : {Absent, "granted", "withdrawn", "detected", "contained", "resolved",
                     "in scope", "out of scope", "partial", "planned", "implemented"},
           due : 0..(LastDay + 7) \cup {None}]
Contents == [Records -> Record]

ASSUME FiledIsThere == None \notin Contents

RecordsTypeOK ==
  /\ register \in Registers
  /\ file \in Contents \cup {None}
  /\ memory \in [Managers -> Contents \cup {None}]
  /\ saving \subseteq Created
  /\ truth \in Contents
  /\ trouble \subseteq {"beside", "unsaved", "cut short", "unread"}

(* check_consent: whether some record lets the data be used *)
CheckConsent(m, r) ==
  Status(m, r) = "granted" /\ (memory[m][r].due = None \/ day <= memory[m][r].due)

(* get_overdue_notifications *)
Overdue(contents) ==
  {r \in Records : contents[r].status \in {"detected", "contained"}
                   /\ contents[r].due # None /\ day > contents[r].due}

(* what an empty file, or one that was not read, leaves in the place of r *)
Blank(r) == {NoRecords[r], Initial(register)[r]}

(***************************************************************************)
(* A withdrawn consent is used again by some process only if two managers  *)
(* stood side by side (each saves its own copy over the other's) or a save *)
(* failed unnoticed; a process that ends while it saves, or cannot read    *)
(* the file, loses records, but revives none.                              *)
(***************************************************************************)
WithdrawnStaysWithdrawn ==
  trouble \subseteq {"cut short", "unread"} =>
    \A m \in Created, r \in Records : truth[r].status = "withdrawn" => ~CheckConsent(m, r)

(***************************************************************************)
(* What a manager knows is what the calls before it made, across restarts, *)
(* and so an overdue breach is always reported as one, as long as nothing  *)
(* went wrong in one of the four ways.  A save cut short and a file that   *)
(* could not be read, which the next save then replaces, cost records;     *)
(* those that are left, or come back with the file, are as they were       *)
(* acknowledged, and never an earlier state of theirs.                     *)
(***************************************************************************)
RecordsSurvive ==
  /\ trouble = {} => \A m \in Created : memory[m] = truth /\ Overdue(memory[m]) = Overdue(truth)
  /\ trouble \subseteq {"cut short", "unread"} =>
       \A m \in Created, r \in Records : memory[m][r] \in {truth[r]} \cup Blank(r)

-----------------------------------------------------------------------------
(***************************************************************************)
(* The SOC 2 registers (shared/compliance/soc2.py): access reviews,        *)
(* incidents, change requests and vendors.  Each is a list in memory, and  *)
(* a capped Redis list that is only ever pushed to.  An identifier is the  *)
(* second the record was made in, and an update takes the first record     *)
(* that carries it; the list is not read back when the process starts.     *)
(* `meant', `pushed' and `forgotten' are history variables.                *)
(***************************************************************************)

CONSTANTS
  Entries,    \* records that callers make
  LastSecond, \* bound: the clock stops here
  ListLimit   \* 1000 in the code

ASSUME Soc2Assumption == LastSecond \in Nat /\ ListLimit \in Nat \ {0}

VARIABLES
  kind,    \* the register looked at
  second,  \* int(time.time())
  listed,  \* the list in memory, oldest first
  entry,   \* per record: identifier, when it was made, status, and how far the call is that makes it
  stored,  \* the Redis list, newest first
  meant,   \* per record: the status it should have
  pushed,  \* records in the order they were pushed
  forgotten \* records whose process has ended

soc2_vars == <<kind, second, listed, entry, stored, meant, pushed, forgotten>>

(* the status a new record has, and those that updates give *)
Fresh == [review |-> "recorded", incident |-> "open", change |-> "pending", vendor |-> "active"]
Updates == [review |-> {}, incident |-> {"investigating", "resolved", "open"},
            change |-> {"approved", "implemented"}, vendor |-> {"under_review"}]

ASSUME StatusAssumption == \A k \in DOMAIN Fresh : None \notin Updates[k] \cup {Fresh[k]}

Soc2Init ==
  /\ kind \in DOMAIN Fresh
  /\ second = 0
  /\ listed = <<>> /\ stored = <<>> /\ pushed = <<>>
  /\ entry = [e \in Entries |-> [id |-> None, at |-> None, status |-> None, step |-> "none"]]
  /\ meant = [e \in Entries |-> None]
  /\ forgotten = {}

(* mutant: the minute, as it were *)
MinuteId(t) == t \div 2

(* f"inc_{int(time.time())}" *)
IdOf(t) == t

(* The record enters the list and, with a Redis client, is pushed. *)
MakeEntry(e) ==
  /\ entry[e].step = "none"
  /\ \E step \in {"pushing", "done"} :
       entry' = [entry EXCEPT ![e] = [id |-> IdOf(second), at |-> second, status |-> Fresh[kind], step |-> step]]
  /\ meant' = [meant EXCEPT ![e] = Fresh[kind]]
  /\ listed' = Append(listed, e)
  /\ UNCHANGED <<kind, second, stored, pushed, forgotten>>

Push(e) ==
  /\ entry[e].step = "pushing"
  /\ stored' = <<e>> \o stored
  /\ pushed' = Append(pushed, e)
  /\ entry' = [entry EXCEPT ![e].step = "trimming"]
  /\ UNCHANGED <<kind, second, listed, meant, forgotten>>

(* mutant: the newest go *)
TrimmedWrongEnd(list) == SubSeq(list, Len(list) - ListLimit + 1, Len(list))

(* LTRIM 0 999 *)
Trimmed(list) == SubSeq(list, 1, ListLimit)

Trim(e) ==
  /\ entry[e].step = "trimming"
  /\ stored' = IF Len(stored) <= ListLimit THEN stored ELSE Trimmed(stored)
  /\ entry' = [entry EXCEPT ![e].step = "done"]
  /\ UNCHANGED <<kind, second, listed, meant, pushed, forgotten>>

(* A Redis call fails: its caller gets the error, the list keeps the record.*)
RedisFails(e) ==
  /\ entry[e].step \in {"pushing", "trimming"}
  /\ entry' = [entry EXCEPT ![e].step = IF @ = "pushing" THEN "unpushed" ELSE "untrimmed"]
  /\ UNCHANGED <<kind, second, listed, stored, meant, pushed, forgotten>>

Same(e) == {i \in DOMAIN listed : entry[listed[i]].id = entry[e].id}

(* update_incident, approve_change, implement_change and review_vendor: no *)
(* status is asked for, Redis is not told, and an identifier that is not   *)
(* in the list is answered with None.                                      *)
UpdateEntry(e) ==
  /\ entry[e].step # "none"
  /\ \E status \in Updates[kind] :
       /\ meant' = [meant EXCEPT ![e] = status]
       /\ IF Same(e) = {} THEN UNCHANGED entry
          ELSE LET first == CHOOSE i \in Same(e) : \A j \in Same(e) : i <= j
               IN  entry' = [entry EXCEPT ![listed[first]].status = status]
  /\ UNCHANGED <<kind, second, listed, stored, pushed, forgotten>>

SecondGoesBy ==
  /\ second < LastSecond
  /\ second' = second + 1
  /\ UNCHANGED <<kind, listed, entry, stored, meant, pushed, forgotten>>

(* The process ends and another takes its place: the list starts empty,    *)
(* and calls under way get no further.                                     *)
ProcessEnds ==
  /\ listed # <<>>
  /\ listed' = <<>>
  /\ forgotten' = forgotten \cup Range(listed)
  /\ entry' = [e \in Entries |->
                 [entry[e] EXCEPT !.step = CASE @ = "pushing" -> "unpushed" [] @ = "trimming" -> "untrimmed" [] OTHER -> @]]
  /\ UNCHANGED <<kind, second, stored, meant, pushed>>

Soc2Next ==
  \/ \E e \in Entries : MakeEntry(e) \/ Push(e) \/ Trim(e) \/ RedisFails(e) \/ UpdateEntry(e)
  \/ SecondGoesBy \/ ProcessEnds

Soc2Spec == Soc2Init /\ [][Soc2Next]_soc2_vars

(* generate_compliance_report counts the list in memory *)
OpenIncidents == {e \in Range(listed) : entry[e].status \notin {"resolved", "closed"}}

-----------------------------------------------------------------------------
Soc2TypeOK ==
  /\ kind \in DOMAIN Fresh /\ second \in 0..LastSecond
  /\ listed \in Seq(Entries) /\ stored \in Seq(Entries) /\ pushed \in Seq(Entries)
  /\ forgotten \subseteq Entries
  /\ \A e \in Entries :
       /\ entry[e].step \in {"none", "pushing", "trimming", "done", "unpushed", "untrimmed"}
       /\ entry[e].id \in 0..LastSecond \cup {None}
       /\ entry[e].status \in Updates[kind] \cup {Fresh[kind], None}

(***************************************************************************)
(* What is resolved, approved or reviewed is the record that was meant,    *)
(* and the report misses no incident of the running process that is still  *)
(* open, unless two records of the register were made in the same second:  *)
(* an update meant for a record that ended with its process reaches no     *)
(* other either.                                                           *)
(***************************************************************************)
UpdatesReachTheirRecord ==
  (\A d, e \in Range(listed) \cup forgotten : d # e => entry[d].at # entry[e].at) =>
    /\ \A e \in Range(listed) : entry[e].status = meant[e]
    /\ OpenIncidents = {e \in Entries \ forgotten : meant[e] \notin {"resolved", None}}

(***************************************************************************)
(* Redis keeps the newest records of those that were pushed, however the   *)
(* calls that push and trim overlap and whichever of them end with their   *)
(* process, and grows past its limit by no more than the calls that have   *)
(* yet to trim or did not get to it.                                       *)
(***************************************************************************)
RedisKeepsTheNewest ==
  /\ \A i \in DOMAIN pushed : i + ListLimit > Len(pushed) => pushed[i] \in Range(stored)
  /\ Len(stored) <= ListLimit + Cardinality({e \in Entries : entry[e].step \in {"trimming", "untrimmed"}})
=============================================================================
