------------------------------- MODULE Maintenance -------------------------------
(***************************************************************************)
(* The scripts of operation: scripts/autoscaler.sh (its loop for Docker    *)
(* Compose), scripts/backup.sh and scripts/pipeline_train.sh.  Under       *)
(* `set -euo pipefail` a command that fails ends each of them.             *)
(***************************************************************************)
EXTENDS Absence, Naturals, FiniteSets

CONSTANTS
  MIN_REPLICAS, MAX_REPLICAS,
  MostContainers, \* bound: containers an operator may start
  Backups,        \* runs of backup.sh, 1..n in the order of their dates
  RETENTION_RUNS  \* RETENTION_DAYS, as a number of runs

ASSUME ReplicasAssumption ==
  MIN_REPLICAS \in Nat \ {0} /\ {MAX_REPLICAS, MostContainers} \subseteq Nat /\ MIN_REPLICAS <= MAX_REPLICAS
ASSUME BackupsAssumption ==
  /\ Backups \in Nat /\ RETENTION_RUNS \in Nat \ {0}
  /\ None \notin {"postgres", "protect postgres", "redis", "protect redis", "checksums"}

Stores == {"postgres", "redis"}
Stages == {"acquire", "clean", "split", "train", "evaluate", "register"}

VARIABLES
  (* the autoscaler *)
  containers, \* of the service
  scaler,     \* "asleep", those it is measuring, or "dead"
  (* the backups *)
  backup,     \* the run: its number, step, whether it has a key, what it dumped
  dumps,      \* files: run, store, form, whether it is whole
  completed,  \* per run that says it completed: the stores it found, with a key or not
  (* the training pipeline *)
  training    \* the stages asked for, those done, those passed over, whether it ended

scaler_vars == <<containers, scaler>>
backup_vars == <<backup, dumps, completed>>
maintenance_vars == <<scaler_vars, backup_vars, training>>

-----------------------------------------------------------------------------
Least(a, b) == IF a < b THEN a ELSE b
Most(a, b) == IF a > b THEN a ELSE b

ScalerInit == containers \in 0..MostContainers /\ scaler = [at |-> "asleep", seen |-> 0]

(* docker ps: the containers there are now *)
Measure ==
  /\ scaler.at = "asleep"
  /\ scaler' = IF containers > 0 THEN [at |-> "measures", seen |-> containers] ELSE scaler
  /\ UNCHANGED <<containers, backup_vars, training>>

(* mutant: the limit is not applied *)
DoubledFreely(n) == n * 2

Doubled(n) == Least(n * 2, MAX_REPLICAS)
Halved(n) == Most(n \div 2, MIN_REPLICAS)

(* docker stats of each, then up --scale; of one that went in between, or  *)
(* if scaling fails, the script ends                                       *)
Scale ==
  /\ scaler.at = "measures"
  /\ IF containers < scaler.seen
     THEN scaler' = [scaler EXCEPT !.at = "dead"] /\ UNCHANGED containers
     ELSE \E n \in {Doubled(scaler.seen), Halved(scaler.seen), scaler.seen} :
            \/ /\ containers' = IF n = scaler.seen THEN containers ELSE n
               /\ scaler' = [at |-> "asleep", seen |-> 0]
            \/ /\ n # scaler.seen
               /\ scaler' = [scaler EXCEPT !.at = "dead"]
               /\ UNCHANGED containers
  /\ UNCHANGED <<backup_vars, training>>

(* containers stop and are started by others *)
ContainersChange ==
  /\ containers' \in {n \in 0..MostContainers : n # containers}
  /\ UNCHANGED <<scaler, backup_vars, training>>

-----------------------------------------------------------------------------
NoBackup == [run |-> 0, at |-> None, key |-> FALSE, found |-> {}]
File(store, form, whole) == [run |-> backup.run, store |-> store, form |-> form, whole |-> whole]

BackupInit == backup = NoBackup /\ dumps = {} /\ completed = <<>>

BeginBackup(run, key) ==
  /\ backup.at = None /\ run = backup.run + 1
  /\ backup' = [run |-> run, at |-> "postgres", key |-> key, found |-> {}]
  /\ UNCHANGED <<scaler_vars, dumps, completed, training>>

After(store) == IF store = "postgres" THEN "redis" ELSE "checksums"
Protecting(store) == IF store = "postgres" THEN "protect postgres" ELSE "protect redis"
Aborts == backup' = [backup EXCEPT !.at = None]

(* a container that is not found is only warned of *)
SkipStore(store) ==
  /\ backup.at = store
  /\ backup' = [backup EXCEPT !.at = After(store)]
  /\ UNCHANGED <<scaler_vars, dumps, completed, training>>

(* mutant: what pg_dump returned is not looked at *)
DumpAnyhow(store) ==
  /\ backup.at = store
  /\ \E whole \in BOOLEAN :
       /\ dumps' = dumps \cup {File(store, "plain", whole)}
       /\ backup' = [backup EXCEPT !.at = Protecting(store), !.found = @ \cup {store}]
  /\ UNCHANGED <<scaler_vars, completed, training>>

(* pg_dump, or SAVE and cp; one that fails may leave part of a file *)
Dump(store) ==
  /\ backup.at = store
  /\ \/ /\ dumps' = dumps \cup {File(store, "plain", TRUE)}
        /\ backup' = [backup EXCEPT !.at = Protecting(store), !.found = @ \cup {store}]
     \/ /\ dumps' \in {dumps, dumps \cup {File(store, "plain", FALSE)}}
        /\ Aborts
  /\ UNCHANGED <<scaler_vars, completed, training>>

(* openssl and rm, or gzip: what fails leaves the plain file, which no     *)
(* later run encrypts                                                      *)
Protect(store) ==
  /\ backup.at = Protecting(store)
  /\ LET form == IF backup.key THEN "encrypted" ELSE "gz"
         plain == {file \in dumps : file.run = backup.run /\ file.store = store} IN
     \/ /\ dumps' = (dumps \ plain) \cup {[file EXCEPT !.form = form] : file \in plain}
        /\ backup' = [backup EXCEPT !.at = After(store)]
     \/ /\ dumps' \in {dumps, dumps \cup {File(store, form, FALSE)}}
        /\ Aborts
  /\ UNCHANGED <<scaler_vars, completed, training>>

(* the checksums, the retention and "completed", whatever was found *)
FinishBackup ==
  /\ backup.at = "checksums"
  /\ dumps' = {file \in dumps : file.run + RETENTION_RUNS > backup.run}
  /\ completed' = [run \in DOMAIN completed \cup {backup.run} |->
                     IF run = backup.run THEN [found |-> backup.found, key |-> backup.key]
                     ELSE completed[run]]
  /\ Aborts
  /\ UNCHANGED <<scaler_vars, training>>

-----------------------------------------------------------------------------
(* without a stage, all of them; the scripts of clean_data and the like    *)
(* may be missing and are then passed over                                 *)
TrainingInit ==
  \E asked \in {Stages} \cup {{stage} : stage \in Stages} :
    training = [asked |-> asked, done |-> {}, passed_over |-> {}, ended |-> FALSE]

Before(stage) ==
  CASE stage = "acquire" -> {}
    [] stage = "clean" -> {"acquire"}
    [] stage = "split" -> {"acquire", "clean"}
    [] stage = "train" -> {"acquire", "clean", "split"}
    [] stage = "evaluate" -> {"acquire", "clean", "split", "train"}
    [] stage = "register" -> Stages \ {"register"}

ToRun(stage) ==
  /\ ~training.ended
  /\ stage \in training.asked \ (training.done \cup training.passed_over)
  /\ Before(stage) \cap training.asked \subseteq training.done \cup training.passed_over

RunStage(stage) ==
  /\ ToRun(stage)
  /\ training' = [training EXCEPT !.done = @ \cup {stage}]
  /\ UNCHANGED <<scaler_vars, backup_vars>>

(* mutant: a model without a script is trained by passing over it *)
PassOverAny(stage) ==
  /\ ToRun(stage)
  /\ training' = [training EXCEPT !.passed_over = @ \cup {stage}]
  /\ UNCHANGED <<scaler_vars, backup_vars>>

(* no script: train_model fails, the others pass over it *)
PassOverStage(stage) ==
  /\ ToRun(stage) /\ stage \in {"acquire", "clean", "split", "evaluate"}
  /\ training' = [training EXCEPT !.passed_over = @ \cup {stage}]
  /\ UNCHANGED <<scaler_vars, backup_vars>>

StageFails(stage) ==
  /\ ToRun(stage) /\ stage # "register"
  /\ training' = [training EXCEPT !.ended = TRUE]
  /\ UNCHANGED <<scaler_vars, backup_vars>>

ScalerNext == Measure \/ Scale \/ ContainersChange
BackupNext ==
  \/ \E run \in 1..Backups, key \in BOOLEAN : BeginBackup(run, key)
  \/ \E store \in Stores : SkipStore(store) \/ Dump(store) \/ Protect(store)
  \/ FinishBackup
TrainingNext == \E stage \in Stages : RunStage(stage) \/ PassOverStage(stage) \/ StageFails(stage)

MaintenanceInit == ScalerInit /\ BackupInit /\ TrainingInit
MaintenanceNext == ScalerNext \/ BackupNext \/ TrainingNext
MaintenanceSpec == MaintenanceInit /\ [][MaintenanceNext]_maintenance_vars

-----------------------------------------------------------------------------
MaintenanceTypeOK ==
  /\ containers \in Nat /\ scaler.at \in {"asleep", "measures", "dead"}
  /\ backup.run \in 0..Backups
  /\ \A file \in dumps : file.store \in Stores /\ file.form \in {"plain", "encrypted", "gz"}
  /\ training.done \subseteq Stages /\ training.done \cap training.passed_over = {}

(***************************************************************************)
(* Whatever it measured while others start and stop containers, the        *)
(* autoscaler does not grow the service past its limit nor shrink it below *)
(* the other.                                                              *)
(***************************************************************************)
ScaledWithinLimits ==
  [][ scaler.at = "measures" /\ containers' # containers /\ scaler' # scaler
        => /\ containers' > scaler.seen => containers' <= MAX_REPLICAS
           /\ containers' < scaler.seen => containers' >= MIN_REPLICAS ]_maintenance_vars

(***************************************************************************)
(* A backup that says it completed has, until retention takes it, one      *)
(* whole file of each store it found, encrypted if a key was given, and no *)
(* plain one.  (One that aborted may leave plain files, and one that found *)
(* neither store completes with none.)                                     *)
(***************************************************************************)
CompletedIsWhole ==
  \A run \in DOMAIN completed :
    run + RETENTION_RUNS > backup.run =>
      \A store \in completed[run].found :
        {[form |-> file.form, whole |-> file.whole] : file \in {d \in dumps : d.run = run /\ d.store = store}}
          = {[form |-> IF completed[run].key THEN "encrypted" ELSE "gz", whole |-> TRUE]}

(* asked for everything, nothing is registered that was not trained *)
RegisteredWasTrained ==
  training.asked = Stages /\ "register" \in training.done => "train" \in training.done
==================================================================================
