------------------------------- MODULE Journals -------------------------------
(***************************************************************************)
(* Two journals of shared/: the hash chain of security/audit.py, which     *)
(* writes a file for each day and archives what it has in memory, and the  *)
(* event bus of events.py with its table, whose pages are read by offset   *)
(* as those of system_logs.py are.                                         *)
(***************************************************************************)
EXTENDS Absence, Naturals, Sequences, FiniteSets, Functions

CONSTANTS
  Auditors,   \* processes with an AuditChain over the same storage
  MaxChain,   \* _max_chain_size, 10000 in the code
  LastDate,   \* bound: days
  MaxEvents,  \* bound: audit events
  MaxUnsaved, \* bound: writes to a day's file that fail
  Events,     \* calls of publish_event
  Handlers,   \* registered for their type
  PageSize,   \* of one walk through the events
  LastStamp   \* bound: the database's clock

ASSUME JournalsAssumption ==
  /\ {MaxChain, PageSize, LastDate} \subseteq Nat \ {0}
  /\ {MaxEvents, MaxUnsaved, LastStamp} \subseteq Nat

VARIABLES
  (* the audit chain *)
  date,
  chain,     \* _chain of each process: events
  day_files,     \* per day: the file's events
  archives,  \* the archives in the order of their names: events
  just_archived, \* the second in the last archive's name has not ended
  previous,  \* per event so far: the one its previous_hash is of
  sources,   \* per event so far: where that hash was taken from
  writers,   \* the processes that have appended
  unsaved,   \* events whose write to the day's file failed
  gone,      \* events in memory as their process ended
  overwritten, \* events of an archive written over by another
  (* the event bus *)
  stamp,       \* the database's clock
  published,   \* per event: step, created_at, next handler, those registered as it was sent
  registered,  \* _event_handlers of the type
  given,       \* per handler: the events it was called with
  walk         \* through the pages: offset, what was there at first, what was returned

audit_vars ==
  <<date, chain, day_files, archives, just_archived, previous, sources, writers, unsaved, gone, overwritten>>
event_vars == <<stamp, published, registered, given, walk>>
journal_vars == <<audit_vars, event_vars>>

-----------------------------------------------------------------------------
AuditInit ==
  /\ date = 1
  /\ chain = [a \in Auditors |-> <<>>]
  /\ day_files = [d \in 1..LastDate |-> <<>>]
  /\ archives = <<>> /\ just_archived = FALSE /\ previous = <<>> /\ sources = <<>>
  /\ writers = {} /\ unsaved = {} /\ gone = {} /\ overwritten = {}

LastOf(events) == events[Len(events)]

Hash(hash, from) == [hash |-> hash, from |-> from]

(* _load_last_hash: "audit_archive_..." sorts after every date; a file that *)
(* cannot be read or parsed, or that a failed write left empty, is passed   *)
(* over in silence                                                          *)
LoadLastHash ==
  LET files == {d \in 1..date : day_files[d] # <<>>}
      latest == CHOOSE d \in files : \A e \in files : d >= e
  IN  {Hash(None, "error"),
       CASE archives # <<>> ->
              Hash(IF LastOf(archives) = <<>> THEN None ELSE LastOf(LastOf(archives)), "archive")
         [] archives = <<>> /\ files # {} -> Hash(LastOf(day_files[latest]), "day")
         [] OTHER -> Hash(None, "nothing")}

(* mutant: after a rotation the chain begins again *)
PreviousInMemory(a) == {Hash(IF chain[a] # <<>> THEN LastOf(chain[a]) ELSE None, "memory")}

PreviousOf(a) == IF chain[a] # <<>> THEN {Hash(LastOf(chain[a]), "memory")} ELSE LoadLastHash

(* opened with "w": the archive of the same second is written over *)
Archives(events) ==
  /\ just_archived' = TRUE
  /\ IF just_archived
     THEN /\ archives' = [archives EXCEPT ![Len(archives)] = events]
          /\ overwritten' = overwritten \cup (Range(LastOf(archives)) \ Range(events))
     ELSE /\ archives' = Append(archives, events)
          /\ UNCHANGED overwritten

(* mutant: cleared though a write to the archive failed *)
RotateRegardless(a, events) ==
  /\ Len(events) >= MaxChain
  /\ chain' = [chain EXCEPT ![a] = <<>>]
  /\ \E n \in 0..Len(events) : Archives(SubSeq(events, 1, n))

(* _rotate: all of memory archived, and cleared *)
Rotate(a, events) ==
  /\ Len(events) >= MaxChain
  /\ chain' = [chain EXCEPT ![a] = <<>>]
  /\ Archives(events)

(* the archive was opened; writing it fails after some of the events, or   *)
(* the process ends before it clears its memory                            *)
RotateFails(a, events) ==
  /\ Len(events) >= MaxChain
  /\ chain' = [chain EXCEPT ![a] = events]
  /\ \E n \in 0..Len(events) : Archives(SubSeq(events, 1, n))

(* not full yet, or the archive could not be opened *)
KeepInMemory(a, events) ==
  /\ chain' = [chain EXCEPT ![a] = events]
  /\ UNCHANGED <<archives, just_archived, overwritten>>

AppendEvent(a) ==
  /\ Len(previous) < MaxEvents
  /\ \E last \in PreviousOf(a) : previous' = Append(previous, last.hash) /\ sources' = Append(sources, last.from)
  /\ writers' = writers \cup {a}
  /\ LET event == Len(previous) + 1
         events == Append(chain[a], event)
     IN  /\ \/ day_files' = [day_files EXCEPT ![date] = Append(@, event)] /\ UNCHANGED unsaved
            \/ /\ Cardinality(unsaved) < MaxUnsaved
               /\ unsaved' = unsaved \cup {event} /\ UNCHANGED day_files
         /\ Rotate(a, events) \/ RotateFails(a, events) \/ KeepInMemory(a, events)
  /\ UNCHANGED <<date, gone, event_vars>>

RestartAuditor(a) ==
  /\ chain[a] # <<>>
  /\ chain' = [chain EXCEPT ![a] = <<>>]
  /\ gone' = gone \cup Range(chain[a])
  /\ UNCHANGED <<date, day_files, archives, just_archived, previous, sources, writers, unsaved, overwritten, event_vars>>

SecondEnds ==
  /\ just_archived
  /\ just_archived' = FALSE
  /\ UNCHANGED <<date, chain, day_files, archives, previous, sources, writers, unsaved, gone, overwritten, event_vars>>

NextDay ==
  /\ date < LastDate
  /\ date' = date + 1 /\ just_archived' = FALSE
  /\ UNCHANGED <<chain, day_files, archives, previous, sources, writers, unsaved, gone, overwritten, event_vars>>

(* verify_chain of one process *)
VerifyChain(a) == \A i \in 2..Len(chain[a]) : previous[chain[a][i]] = chain[a][i - 1]

-----------------------------------------------------------------------------
NoWalk == [step |-> "none", offset |-> 0, first |-> {}, returned |-> <<>>]

BusInit ==
  /\ stamp = 0
  /\ published = [e \in Events |-> [step |-> "new", at |-> None, next |-> 1, expecting |-> {}]]
  /\ registered = <<>>
  /\ given = [h \in Handlers |-> <<>>]
  /\ walk = NoWalk

Rows == {e \in Events : published[e].step \notin {"new", "inserting"}}

(* publish_event: created_at is when the INSERT begins, the row is there   *)
(* when it has ended                                                       *)
BeginInsert(e) ==
  /\ published[e].step = "new"
  /\ published' = [published EXCEPT ![e].step = "inserting", ![e].at = stamp]
  /\ UNCHANGED <<audit_vars, stamp, registered, given, walk>>

(* the row; NOTIFY, which may fail, and which nobody hears: the listener   *)
(* asks its connection for something that it has not                       *)
CommitInsert(e) ==
  /\ published[e].step = "inserting"
  /\ published' = [published EXCEPT ![e].step = "handlers", ![e].expecting = Range(registered)]
  /\ UNCHANGED <<audit_vars, stamp, registered, given, walk>>

(* mutant: a handler that raised may be called again *)
CallHandlerRetries(e) ==
  /\ published[e].step = "handlers" /\ published[e].next <= Len(registered)
  /\ given' = [given EXCEPT ![registered[published[e].next]] = Append(@, e)]
  /\ \E next \in {published[e].next, published[e].next + 1} : published' = [published EXCEPT ![e].next = next]
  /\ UNCHANGED <<audit_vars, stamp, registered, walk>>

(* the next handler in the list as it is now is called; what it raises is  *)
(* logged                                                                  *)
CallHandler(e) ==
  /\ published[e].step = "handlers" /\ published[e].next <= Len(registered)
  /\ given' = [given EXCEPT ![registered[published[e].next]] = Append(@, e)]
  /\ published' = [published EXCEPT ![e].next = @ + 1]
  /\ UNCHANGED <<audit_vars, stamp, registered, walk>>

EndPublish(e) ==
  /\ published[e].step = "handlers" /\ published[e].next > Len(registered)
  /\ published' = [published EXCEPT ![e].step = "done"]
  /\ UNCHANGED <<audit_vars, stamp, registered, given, walk>>

RegisterHandler(h) ==
  /\ h \notin Range(registered)
  /\ registered' = Append(registered, h)
  /\ UNCHANGED <<audit_vars, stamp, published, given, walk>>

StampPasses ==
  /\ stamp < LastStamp
  /\ stamp' = stamp + 1
  /\ UNCHANGED <<audit_vars, published, registered, given, walk>>

(* ORDER BY created_at DESC: any order of those made at the same time *)
Orders ==
  {o \in [1..Cardinality(Rows) -> Rows] :
     IsInjective(o) /\ \A i, j \in DOMAIN o : i < j => published[o[i]].at >= published[o[j]].at}

Slice(order, from, to) ==
  IF from > Len(order) THEN <<>> ELSE SubSeq(order, from, IF to < Len(order) THEN to ELSE Len(order))

(* mutant: offsets count from one *)
PageAfter(order, offset) == Slice(order, offset + 2, offset + PageSize + 1)

(* query_events and query_system_logs: LIMIT and OFFSET *)
PageFrom(order, offset) == Slice(order, offset + 1, offset + PageSize)

BeginWalk ==
  /\ walk.step = "none" /\ Rows # {}
  /\ walk' = [step |-> "reading", offset |-> 0, first |-> Rows, returned |-> <<>>]
  /\ UNCHANGED <<audit_vars, stamp, published, registered, given>>

ReadPage ==
  /\ walk.step = "reading"
  /\ \E order \in Orders :
       LET page == PageFrom(order, walk.offset) IN
       walk' = [walk EXCEPT !.returned = @ \o page,
                            !.offset = @ + PageSize,
                            !.step = IF Len(page) < PageSize THEN "end" ELSE "reading"]
  /\ UNCHANGED <<audit_vars, stamp, published, registered, given>>

AuditNext == \/ \E a \in Auditors : AppendEvent(a) \/ RestartAuditor(a)
             \/ SecondEnds \/ NextDay

BusNext ==
  \/ \E e \in Events : BeginInsert(e) \/ CommitInsert(e) \/ CallHandler(e) \/ EndPublish(e)
  \/ \E h \in Handlers : RegisterHandler(h)
  \/ StampPasses \/ BeginWalk \/ ReadPage

JournalsInit == AuditInit /\ BusInit
JournalsNext == AuditNext \/ BusNext
JournalsSpec == JournalsInit /\ [][JournalsNext]_journal_vars

-----------------------------------------------------------------------------
JournalsTypeOK ==
  /\ date \in 1..LastDate /\ previous \in Seq(1..MaxEvents \cup {None})
  /\ \A a \in Auditors : Range(chain[a]) \subseteq 1..Len(previous)
  /\ Len(sources) = Len(previous) /\ Range(sources) \subseteq {"memory", "archive", "day", "nothing", "error"}
  /\ registered \in Seq(Handlers)
  /\ \A e \in Events : published[e].step \in {"new", "inserting", "handlers", "done"}

InFiles(event) ==
  \/ \E d \in 1..LastDate : event \in Range(day_files[d])
  \/ \E i \in DOMAIN archives : event \in Range(archives[i])

(***************************************************************************)
(* An audit event is in a file, or else its write had failed and it is in  *)
(* memory still, went with its process, or was in an archive that another  *)
(* of the same second wrote over: rotation loses no other, and puts those  *)
(* that had not been written into the archive.                             *)
(***************************************************************************)
RotationLosesNothing ==
  \A e \in 1..Len(previous) :
    \/ InFiles(e)
    \/ e \in unsaved /\ (e \in gone \cup overwritten \/ \E a \in Auditors : e \in Range(chain[a]))

(***************************************************************************)
(* While one process writes, each event follows the one before it, over    *)
(* days, rotations and restarts, with two exceptions: the last file could  *)
(* not be read or was empty, which starts the chain anew; and after a      *)
(* restart the event before was never written, or an archive, which        *)
(* _load_last_hash takes for the last file, hides the day's, and the chain *)
(* forks.  With several processes, what each verifies is its own part only.*)
(***************************************************************************)
ChainIsOne ==
  /\ \A a \in Auditors : VerifyChain(a)
  /\ Cardinality(writers) <= 1 =>
       \A e \in 1..Len(previous) :
         \/ previous[e] = IF e = 1 THEN None ELSE e - 1
         \/ sources[e] = "error" /\ previous[e] = None
         \/ e - 1 \in gone /\ (e - 1 \in unsaved \/ sources[e] = "archive")

(***************************************************************************)
(* Whatever a handler is given is stored and found by queries; it is given *)
(* an event once at most, and once if it was registered when the event was *)
(* stored and all its handlers are done; one that registers meanwhile may  *)
(* be called, too.                                                         *)
(***************************************************************************)
HandlersMissNothing ==
  /\ \A h \in Handlers : Range(given[h]) \subseteq Rows /\ IsInjective(given[h])
  /\ \A e \in Events : published[e].step = "done" =>
       \A h \in published[e].expecting : e \in Range(given[h])

(***************************************************************************)
(* A walk by offsets returns every event that was there as it began,       *)
(* though others are stored meanwhile and push some into the next page     *)
(* again: unless events with the same time were ordered differently.       *)
(***************************************************************************)
PagesMissNothing ==
  walk.step = "end" =>
    \/ walk.first \subseteq Range(walk.returned)
    \/ \E d, e \in Rows : d # e /\ published[d].at = published[e].at
===============================================================================
