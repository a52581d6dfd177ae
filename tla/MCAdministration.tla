--------------------------- MODULE MCAdministration ---------------------------
(***************************************************************************)
(* Five parts of the administration and the page it is done on, side by    *)
(* side; they share no variable, so a behaviour is one of theirs and the   *)
(* others stay as they begin.                                              *)
(***************************************************************************)
EXTENDS ProcessState, RowEdits, AdminRecords, DashboardApp, TLC

VARIABLE focus \* the part that moves

Parts == {"logins", "rows", "records", "canary", "connections", "page"}

(* Identifiers that are only compared; no liveness is checked. *)
MCSymmetry == Permutations(Tasks)

-----------------------------------------------------------------------------
MCInit ==
  /\ focus \in Parts
  /\ LoginsInit /\ RowsInit /\ CanaryInit /\ ConnectionsInit /\ AppInit
  /\ AdminInit /\ (focus = "records" \/ store.tables = {})

MCNext ==
  /\ UNCHANGED focus
  /\ IF focus = "logins" THEN LoginsNext ELSE UNCHANGED login_vars
  /\ IF focus = "rows" THEN RowsNext ELSE UNCHANGED row_vars
  /\ IF focus = "records" THEN AdminNext ELSE UNCHANGED admin_vars
  /\ IF focus = "canary" THEN CanaryNext ELSE UNCHANGED canary_vars
  /\ IF focus = "connections" THEN ConnectionsNext ELSE UNCHANGED connection_vars
  /\ IF focus = "page" THEN AppNext ELSE UNCHANGED app_vars

MCSpec ==
  MCInit /\ [][MCNext]_<<focus, login_vars, row_vars, admin_vars, canary_vars, connection_vars, app_vars>>

-----------------------------------------------------------------------------
(* The type invariants. *)
AdministrationTypeOK ==
  /\ LoginsTypeOK /\ RowsTypeOK /\ AdminTypeOK /\ CanaryTypeOK /\ ConnectionsTypeOK /\ AppTypeOK

(***************************************************************************)
(* After any interleaving, failure or restart: one configuration per       *)
(* provider, no provider lost but by deletion, nothing erased by half and  *)
(* called done, nothing changed without the entry it should have; and an   *)
(* edit by reading, merging and writing back undoes another, or setup      *)
(* replaces an administrator, only if requests overlapped or a look failed.*)
(***************************************************************************)
RecordsAreTrue ==
  /\ OneConfigPerProvider /\ ProvidersVanishOnlyByDeletion /\ ErasedWhole /\ ChangesAreAudited
  /\ KeptUnlessOverlapped /\ SetupIsOnce

(***************************************************************************)
(* What each process keeps in variables of its own: its list of failed     *)
(* logins holds guessing off in spite of the await between look and entry, *)
(* its blacklist lets a refresh token work once; the canary tokens it      *)
(* revoked it forgets and an active one it misses only where its cache is  *)
(* empty or by a revocation meanwhile; the connections it opened are those *)
(* it holds, unless two callers made one together.                         *)
(***************************************************************************)
ProcessStateHolds ==
  /\ GuessingIsHeldOff /\ RefreshedOncePerProcess
  /\ RevokedIsForgotten /\ MissedOnlyByAnEmptyCache /\ LeakedOnlyByOverlap
===============================================================================
