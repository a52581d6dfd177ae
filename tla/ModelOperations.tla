------------------------------ MODULE ModelOperations ------------------------------
(***************************************************************************)
(* Two libraries of model operations: snapshots of training data, and the  *)
(* router between model versions. They share nothing.                      *)
(***************************************************************************)
EXTENDS Absence, Naturals, Sequences, FiniteSets

-----------------------------------------------------------------------------
(***************************************************************************)
(* Snapshots of training data (shared/data_versioning.py): a file for each *)
(* and one manifest, which every process reads, adds to and writes back.   *)
(* Both are opened for writing, which empties them, and then written.      *)
(***************************************************************************)

CONSTANTS
  Processes, Datasets,
  LastStampOfData, \* bound: seconds
  MaxSnapshots \* bound: calls of create_snapshot

ASSUME SnapshotsAssumption == {LastStampOfData, MaxSnapshots} \subseteq Nat /\ None \notin {"torn", "whole"}

VARIABLES
  second_now,
  manifest,  \* its versions, or "torn"; current is the last of them
  files,     \* per version id: "whole", or "torn" if only begun
  maker,     \* per process: step, dataset, id, the manifest it has read, its current
  snapshots, \* calls so far
  twice      \* ids that were written more than once (history)

snapshot_vars == <<second_now, manifest, files, maker, snapshots, twice>>

(* version_id: second and hash *)
VersionIds == (0..LastStampOfData) \X Datasets

SnapshotsInit ==
  /\ second_now = 0 /\ manifest = <<>>
  /\ files = [v \in VersionIds |-> None]
  /\ maker = [p \in Processes |-> [step |-> "idle", data |-> None, id |-> None, read |-> <<>>, current |-> None]]
  /\ snapshots = 0 /\ twice = {}

(* _load_manifest: one that cannot be read is taken to be empty *)
LoadManifest == IF manifest = "torn" THEN <<>> ELSE manifest

Listed(versions, data) == \E i \in DOMAIN versions : versions[i].id[2] = data

(* mutant: whatever is listed *)
BeginSnapshotAnyhow(p, data) ==
  /\ maker[p].step = "idle" /\ snapshots < MaxSnapshots
  /\ snapshots' = snapshots + 1
  /\ maker' = [maker EXCEPT ![p].step = "open", ![p].data = data,
                            ![p].id = <<second_now, data>>, ![p].read = LoadManifest]
  /\ UNCHANGED <<second_now, manifest, files, twice>>

(* create_snapshot: of a content that is listed, the version there is *)
BeginSnapshot(p, data) ==
  /\ maker[p].step = "idle" /\ snapshots < MaxSnapshots
  /\ snapshots' = snapshots + 1
  /\ maker' = IF Listed(LoadManifest, data) THEN maker
              ELSE [maker EXCEPT ![p].step = "open", ![p].data = data,
                                 ![p].id = <<second_now, data>>, ![p].read = LoadManifest]
  /\ UNCHANGED <<second_now, manifest, files, twice>>

OpenFile(p) ==
  /\ maker[p].step = "open"
  /\ files' = [files EXCEPT ![maker[p].id] = "torn"]
  /\ twice' = IF files[maker[p].id] = None THEN twice ELSE twice \cup {maker[p].id}
  /\ maker' = [maker EXCEPT ![p].step = "write"]
  /\ UNCHANGED <<second_now, manifest, snapshots>>

WriteFile(p) ==
  /\ maker[p].step = "write"
  /\ files' = [files EXCEPT ![maker[p].id] = "whole"]
  /\ maker' = [maker EXCEPT ![p].step = "empty manifest"]
  /\ UNCHANGED <<second_now, manifest, snapshots, twice>>

(* mutant: the error is passed over here, too *)
WriteFilePassesOver(p) ==
  /\ maker[p].step \in {"open", "write"}
  /\ maker' = [maker EXCEPT ![p].step = "empty manifest"]
  /\ UNCHANGED <<second_now, manifest, files, snapshots, twice>>

(* OSError: no version *)
WriteFileFails(p) ==
  /\ maker[p].step \in {"open", "write"}
  /\ maker' = [maker EXCEPT ![p].step = "idle"]
  /\ UNCHANGED <<second_now, manifest, files, snapshots, twice>>

EmptyManifest(p) ==
  /\ maker[p].step = "empty manifest"
  /\ manifest' = "torn"
  /\ maker' = [maker EXCEPT ![p].step = "write manifest"]
  /\ UNCHANGED <<second_now, files, snapshots, twice>>

NewVersion(p) == [id |-> maker[p].id, parent |-> maker[p].current]

(* _save_manifest: what was read, and the new version *)
WriteManifest(p) ==
  /\ maker[p].step = "write manifest"
  /\ manifest' = Append(maker[p].read, NewVersion(p))
  /\ maker' = [maker EXCEPT ![p].step = "idle", ![p].current = maker[p].id]
  /\ UNCHANGED <<second_now, files, snapshots, twice>>

(* an OSError at either is passed over *)
WriteManifestFails(p) ==
  /\ maker[p].step \in {"empty manifest", "write manifest"}
  /\ maker' = [maker EXCEPT ![p].step = "idle", ![p].current = maker[p].id]
  /\ UNCHANGED <<second_now, manifest, files, snapshots, twice>>

ProcessStops(p) ==
  /\ maker[p].step # "idle" \/ maker[p].current # None
  /\ maker' = [maker EXCEPT ![p].step = "idle", ![p].current = None]
  /\ UNCHANGED <<second_now, manifest, files, snapshots, twice>>

SecondPasses ==
  /\ second_now < LastStampOfData
  /\ second_now' = second_now + 1
  /\ UNCHANGED <<manifest, files, maker, snapshots, twice>>

SnapshotsNext ==
  \/ \E p \in Processes :
       \/ OpenFile(p) \/ WriteFile(p) \/ WriteFileFails(p) \/ EmptyManifest(p)
       \/ WriteManifest(p) \/ WriteManifestFails(p) \/ ProcessStops(p)
       \/ \E data \in Datasets : BeginSnapshot(p, data)
  \/ SecondPasses

SnapshotsSpec == SnapshotsInit /\ [][SnapshotsNext]_snapshot_vars

-----------------------------------------------------------------------------
SnapshotsTypeOK ==
  /\ manifest = "torn" \/ manifest \in Seq([id : VersionIds, parent : VersionIds \cup {None}])
  /\ files \in [VersionIds -> {None, "torn", "whole"}]

(***************************************************************************)
(* A version that is listed can be loaded, whenever a process is stopped   *)
(* and whoever's list is lost: unless two processes made the same snapshot *)
(* in the same second, when the second empties the first one's file.       *)
(***************************************************************************)
ListedIsLoadable ==
  manifest # "torn" =>
    \A i \in DOMAIN manifest : files[manifest[i].id] = "whole" \/ manifest[i].id \in twice

(* create_snapshot's check keeps one version of a content in a manifest. *)
ListedOnce ==
  manifest # "torn" => \A i, j \in DOMAIN manifest : manifest[i].id[2] = manifest[j].id[2] => i = j

-----------------------------------------------------------------------------
(***************************************************************************)
(* The A/B router of models (shared/model_router.py).  Requests are sent   *)
(* to a version; their results come later and are counted for whatever     *)
(* version bears the name by then, the primary first.  Decisions to        *)
(* promote compare error rates and latencies; acting on one is a call of   *)
(* its own.  A result is an error or not, slow (a second) or at once.      *)
(***************************************************************************)

CONSTANTS
  Models,      \* names with versions
  Inferences,  \* requests routed
  MIN_SAMPLES, \* 100 in the code
  COOLDOWN,    \* 3600 seconds in the code
  LastTime,    \* bound: the clock stops here
  MaxInstalled \* bound: candidates and primaries installed

ASSUME RoutingAssumption ==
  /\ {MIN_SAMPLES, COOLDOWN, LastTime, MaxInstalled} \subseteq Nat \ {0}
  /\ None \notin {"primary", "candidate"}

VARIABLES
  primary, candidate, \* a version object, None without a candidate
  passthrough,
  time, evaluated,    \* the clock; _last_evaluation_time
  inference,          \* per request: the version object it was routed to, its result
  installed,          \* version objects made so far: numbers
  decided             \* the versions compared by the last decision to promote

routing_vars == <<primary, candidate, passthrough, time, evaluated, inference, installed, decided>>

(* A version object: a number of its own, its model, the results counted.  *)
Version(n, model) == [object |-> n, model |-> model, results |-> {}]

(* the clock reads epoch seconds: the first evaluation is not held off *)
RoutingInit ==
  /\ \E m \in Models : primary = Version(1, m)
  /\ candidate = None /\ passthrough = TRUE
  /\ time = COOLDOWN /\ evaluated = 0
  /\ inference = [i \in Inferences |-> [object |-> None, model |-> None, error |-> FALSE,
                                        slow |-> FALSE, step |-> "idle"]]
  /\ installed = 1
  /\ decided = None

EnableAbTesting(m) ==
  /\ installed < MaxInstalled
  /\ installed' = installed + 1
  /\ candidate' = Version(installed', m)
  /\ passthrough' = FALSE
  /\ UNCHANGED <<primary, time, evaluated, inference, decided>>

(* mutant: requests go on being split *)
DisableKeepsSplitting ==
  /\ candidate # None
  /\ candidate' = None
  /\ UNCHANGED <<primary, passthrough, time, evaluated, inference, installed, decided>>

DisableAbTesting ==
  /\ candidate # None
  /\ candidate' = None /\ passthrough' = TRUE
  /\ UNCHANGED <<primary, time, evaluated, inference, installed, decided>>

(* By weight, which lets through either. *)
SelectModel(i) ==
  /\ inference[i].step = "idle"
  /\ \E v \in {primary} \cup (IF passthrough \/ candidate = None THEN {} ELSE {candidate}),
        error, slow \in BOOLEAN :
       inference' = [inference EXCEPT ![i] = [object |-> v.object, model |-> v.model,
                       error |-> error, slow |-> slow, step |-> "routed"]]
  /\ UNCHANGED <<primary, candidate, passthrough, time, evaluated, installed, decided>>

(* mutant: a result that no version bears goes to the candidate *)
FindVersionAnyhow(m) ==
  IF primary.model = m THEN "primary" ELSE IF candidate # None THEN "candidate" ELSE None

(* _find_version *)
FindVersion(m) ==
  IF primary.model = m THEN "primary"
  ELSE IF candidate # None /\ candidate.model = m THEN "candidate"
  ELSE None

RecordResult(i) ==
  /\ inference[i].step = "routed"
  /\ LET to == FindVersion(inference[i].model) IN
       /\ primary' = IF to = "primary" THEN [primary EXCEPT !.results = @ \cup {i}] ELSE primary
       /\ candidate' = IF to = "candidate" THEN [candidate EXCEPT !.results = @ \cup {i}] ELSE candidate
  /\ inference' = [inference EXCEPT ![i].step = "recorded"]
  /\ UNCHANGED <<passthrough, time, evaluated, installed, decided>>

Errors(v) == Cardinality({i \in v.results : inference[i].error})
Slow(v) == Cardinality({i \in v.results : inference[i].slow})
Samples(v) == Cardinality(v.results)

(* _estimate_f1, ten times and times the number of samples *)
Estimate(v) == 7 * (Samples(v) - Errors(v)) + 3 * (Samples(v) - Slow(v))

(* mutant: as good is good enough *)
ImprovesAtAll(c, p) == Estimate(c) * Samples(p) >= Estimate(p) * Samples(c)

(* relative_improvement >= 5%, without the fractions *)
Improves(c, p) ==
  LET cp == Estimate(c) * Samples(p)
      pc == Estimate(p) * Samples(c)
  IN  IF pc = 0 THEN cp > 0 ELSE 20 * cp >= 21 * pc

EvaluatePromotion ==
  /\ ~passthrough /\ candidate # None
  /\ time >= evaluated + COOLDOWN
  /\ Samples(primary) >= MIN_SAMPLES /\ Samples(candidate) >= MIN_SAMPLES
  /\ evaluated' = time
  /\ decided' = IF Improves(candidate, primary)
                THEN [candidate |-> candidate, over |-> primary] ELSE decided
  /\ UNCHANGED <<primary, candidate, passthrough, time, inference, installed>>

PromoteCandidate ==
  /\ candidate # None /\ installed < MaxInstalled
  /\ installed' = installed + 1
  /\ primary' = Version(installed', candidate.model)
  /\ candidate' = None /\ passthrough' = TRUE
  /\ UNCHANGED <<time, evaluated, inference, decided>>

RollbackTo(m) ==
  /\ installed < MaxInstalled
  /\ installed' = installed + 1
  /\ primary' = Version(installed', m)
  /\ candidate' = None /\ passthrough' = TRUE
  /\ UNCHANGED <<time, evaluated, inference, decided>>

TimePasses ==
  /\ time < LastTime
  /\ time' = time + 1
  /\ UNCHANGED <<primary, candidate, passthrough, evaluated, inference, installed, decided>>

RoutingNext ==
  \/ \E m \in Models : EnableAbTesting(m) \/ RollbackTo(m)
  \/ \E i \in Inferences : SelectModel(i) \/ RecordResult(i)
  \/ DisableAbTesting \/ EvaluatePromotion \/ PromoteCandidate \/ TimePasses

RoutingSpec == RoutingInit /\ [][RoutingNext]_routing_vars

-----------------------------------------------------------------------------
Versions == {primary} \cup (IF candidate = None THEN {} ELSE {candidate})

RoutingTypeOK ==
  /\ \A v \in Versions : v.object \in 1..installed /\ v.model \in Models /\ v.results \subseteq Inferences
  /\ passthrough <=> candidate = None
  /\ evaluated \in 0..time
  /\ \A i \in Inferences : inference[i].step \in {"idle", "routed", "recorded"}

(***************************************************************************)
(* A result counts once, and only for the model that gave it, whatever was *)
(* enabled, promoted or rolled back since the request was routed.  (It may *)
(* count for an object made later, and for the primary if both versions    *)
(* have one name.)                                                         *)
(***************************************************************************)
ResultsCountOnce ==
  /\ \A v \in Versions : \A i \in v.results :
       inference[i].model = v.model /\ inference[i].step = "recorded"
  /\ candidate # None => primary.results \cap candidate.results = {}

(***************************************************************************)
(* A candidate is found worth promoting only on enough results of both     *)
(* models, and if it erred less often or was slow less often; never        *)
(* against itself.                                                         *)
(***************************************************************************)
DecidedOnEvidence ==
  decided # None => LET c == decided.candidate p == decided.over IN
    /\ Samples(c) >= MIN_SAMPLES /\ Samples(p) >= MIN_SAMPLES
    /\ c.model # p.model
    /\ \/ Errors(c) * Samples(p) < Errors(p) * Samples(c)
       \/ Slow(c) * Samples(p) < Slow(p) * Samples(c)
=============================================================================
