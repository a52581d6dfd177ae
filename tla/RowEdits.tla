------------------------------- MODULE RowEdits -------------------------------
(***************************************************************************)
(* Rows that handlers edit by reading, merging and writing them back with  *)
(* other coroutines in between: the administrator's row (routers/auth.py   *)
(* setup, routers/settings.py update_settings, over helpers.py) and a      *)
(* team's budget (cost-tracker/app/budgets.py).                            *)
(*                                                                         *)
(* A value is 0 as created by default, or the number of the edit that      *)
(* asked for it.  `wrote' and `overlap' are history variables.             *)
(***************************************************************************)
EXTENDS Absence, Naturals, Sequences

CONSTANT Edits \* requests that edit a row, numbers: their values are their own

ASSUME EditsAssumption == Edits \subseteq Nat \ {0}

EditKinds == {"setup", "settings", "create_budget", "update_budget", "delete_budget"}
TableOf(k) == IF k \in {"setup", "settings"} THEN "admin" ELSE "budget"
FieldsOf(tbl) ==
  IF tbl = "admin" THEN {"admin_email", "admin_password_hash"}
  ELSE {"monthly_budget_usd", "alert_threshold_pct", "hard_cutoff"}

VARIABLES
  rows,    \* the two rows, None if absent
  edit,    \* per request: kind, fields asked to change, the row it read and whether in vain, how it ended
  editing, \* per request: "idle", "read", "write", "done"
  wrote,   \* what was written, in order
  overlap  \* pairs of requests that were under way at the same time

row_vars == <<rows, edit, editing, wrote, overlap>>

RowsInit ==
  /\ rows = [tbl \in {"admin", "budget"} |-> None]
  /\ edit = [e \in Edits |-> [kind |-> None, asked |-> {}, seen |-> None,
                              blind |-> FALSE, status |-> None]]
  /\ editing = [e \in Edits |-> "idle"]
  /\ wrote = <<>> /\ overlap = {}

RowOf(e) == rows[TableOf(edit[e].kind)]
UnderWay(e) == editing[e] \in {"read", "write"}

AnswerEdit(e, status) ==
  /\ editing' = [editing EXCEPT ![e] = "done"]
  /\ edit' = [edit EXCEPT ![e].status = status]

(* Which fields a request names: setup and create name all. *)
EditBegins(e) ==
  /\ editing[e] = "idle"
  /\ \E k \in EditKinds, asked \in SUBSET (FieldsOf("admin") \cup FieldsOf("budget")) :
       /\ asked \subseteq FieldsOf(TableOf(k))
       /\ k \in {"setup", "create_budget"} => asked = FieldsOf(TableOf(k))
       /\ k \in {"settings", "update_budget"} => asked # {}
       /\ k = "delete_budget" => asked = {}
       /\ edit' = [edit EXCEPT ![e] = [kind |-> k, asked |-> asked, seen |-> None,
                                           blind |-> FALSE, status |-> None]]
       /\ editing' = [editing EXCEPT ![e] = IF k = "create_budget" THEN "write" ELSE "read"]
  /\ overlap' = overlap \cup {{e, other} : other \in {o \in Edits : UnderWay(o)}}
  /\ UNCHANGED <<rows, wrote>>

(* mutant: setup does not look whether there is an administrator *)
MayWriteAnyway(k, row) == k = "setup" \/ row # None

(* whether the handler goes on with the row it has read *)
MayWrite(k, row) == IF k = "setup" THEN row = None ELSE row # None

(* The SELECT, at an await of its own.  load_admin_from_db turns an error  *)
(* into "no row"; the budget's handlers let it through.                    *)
EditReads(e) ==
  /\ editing[e] = "read"
  /\ \/ \E row \in {RowOf(e)} \cup (IF TableOf(edit[e].kind) = "admin" THEN {None} ELSE {}) :
          IF MayWrite(edit[e].kind, row)
          THEN /\ edit' = [edit EXCEPT ![e].seen = row, ![e].blind = row # RowOf(e)]
               /\ editing' = [editing EXCEPT ![e] = "write"]
          ELSE AnswerEdit(e, "refused")
     \/ TableOf(edit[e].kind) = "budget" /\ AnswerEdit(e, "error")
  /\ UNCHANGED <<rows, wrote, overlap>>

(* update_settings: a wrong current password, a short new one, or a        *)
(* session timeout, which calls a function that is not imported            *)
SettingsRefused(e) ==
  /\ editing[e] = "read" /\ edit[e].kind \in {"settings", "setup"}
  /\ \/ AnswerEdit(e, "refused")
     \/ edit[e].kind = "settings" /\ AnswerEdit(e, "error")
  /\ UNCHANGED <<rows, wrote, overlap>>

(* mutant: fields that are not named get their defaults *)
MergedDefaults(e) ==
  [f \in FieldsOf(TableOf(edit[e].kind)) |-> IF f \in edit[e].asked THEN e ELSE 0]

(* the row written: what the request names, otherwise what it has read *)
Merged(e) ==
  [f \in FieldsOf(TableOf(edit[e].kind)) |-> IF f \in edit[e].asked THEN e ELSE edit[e].seen[f]]

(* The statement that writes, by itself: INSERT ... ON CONFLICT DO UPDATE  *)
(* for the administrator; an INSERT that a budget of that name refuses; an *)
(* UPDATE or DELETE that may find no row any more.  Its answer may be lost.*)
EditWrites(e) ==
  /\ editing[e] = "write"
  /\ LET k == edit[e].kind
         tbl == TableOf(k)
         hits == k \in {"setup", "settings"} \/ (k = "create_budget") = (rows[tbl] = None)
         row == IF k = "delete_budget" THEN None ELSE Merged(e)
     IN  /\ hits
         /\ rows' = [rows EXCEPT ![tbl] = row]
         /\ wrote' = Append(wrote, [by |-> e, row |-> row, before |-> rows[tbl]])
  /\ AnswerEdit(e, "ok") \/ AnswerEdit(e, "error")
  /\ UNCHANGED overlap

(* The statement fails or changes nothing.  A create says 409, an update   *)
(* cannot turn the missing row into an answer, a delete does not notice.   *)
WritesNothing(e) ==
  /\ editing[e] = "write"
  /\ \/ edit[e].kind = "create_budget" /\ AnswerEdit(e, "refused")
     \/ edit[e].kind # "create_budget" /\ AnswerEdit(e, "error")
     \/ edit[e].kind = "delete_budget" /\ RowOf(e) = None /\ AnswerEdit(e, "ok")
  /\ UNCHANGED <<rows, wrote, overlap>>

RowsNext ==
  \E e \in Edits :
    EditBegins(e) \/ EditReads(e) \/ SettingsRefused(e) \/ EditWrites(e) \/ WritesNothing(e)

RowsSpec == RowsInit /\ [][RowsNext]_row_vars

-----------------------------------------------------------------------------
RowsTypeOK ==
  /\ \A tbl \in {"admin", "budget"} : rows[tbl] \in [FieldsOf(tbl) -> Edits \cup {0}] \cup {None}
  /\ \A e \in Edits : /\ edit[e].kind \in EditKinds \cup {None}
                      /\ edit[e].status \in {"ok", "refused", "error", None}
  /\ editing \in [Edits -> {"idle", "read", "write", "done"}]

Overlapped(e) == \E other \in Edits : {e, other} \in overlap

(***************************************************************************)
(* A write keeps the fields its request does not name, unless another      *)
(* request was under way at the same time: read, merge and write are       *)
(* separate, so of two overlapping edits one may undo the other, but a     *)
(* request on its own never does (update_budget, update_settings).         *)
(***************************************************************************)
KeptUnlessOverlapped ==
  \A i \in DOMAIN wrote : LET w == wrote[i] IN
    ~Overlapped(w.by) /\ edit[w.by].kind \in {"settings", "update_budget"} =>
      \A f \in DOMAIN w.row \ edit[w.by].asked : w.row[f] = w.before[f]

(***************************************************************************)
(* An administrator is set up over another one only by requests that       *)
(* overlapped (setup looks, and saves two awaits later) or by one whose    *)
(* look at the table failed.                                               *)
(***************************************************************************)
SetupIsOnce ==
  \A i \in DOMAIN wrote : LET w == wrote[i] IN
    edit[w.by].kind = "setup" /\ w.before # None /\ ~Overlapped(w.by) => edit[w.by].blind
=============================================================================
