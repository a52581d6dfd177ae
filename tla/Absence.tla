------------------------------- MODULE Absence -------------------------------
(* Python's None, one for all the modules a run puts side by side. *)
CONSTANT None
==============================================================================
