------------------------------- MODULE MCPassesRun -----------------------------
(***************************************************************************)
(* Three runs of PassesRun with an edit among them.                        *)
(***************************************************************************)
EXTENDS PassesRun

================================================================================
