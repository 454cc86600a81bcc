------------------------------ MODULE Reports -------------------------------
(***************************************************************************)
(* A finished chaos report (models/report.py), as the tools that read it   *)
(* see it: a record of                                                     *)
(*   calls, dropped   the stored call records, and how many were dropped   *)
(*   recorded         the fields present in the saved JSON                 *)
(*   events           fault events: id, type, outcome, fidelity (a number  *)
(*                    of hundredths, or NoValue)                           *)
(*   raised, carries  an error escaped, and the event it carries (0: none) *)
(*   aborted, dry, elapsed (or NoValue), cost, nodes (topology endpoints), *)
(*   probes           probe results: phase, passed, weight                 *)
(* and a call record has sequence, kind, name (or Unnamed), ok, event (the *)
(* id of the fault event that hit it, 0 for none), at, its start time, and *)
(* stage, the workflow step it was made in (0 for none).                   *)
(***************************************************************************)
CONSTANTS
    NoValue,   \* Python's None
    NoReport,  \* no baseline report
    Unnamed    \* the name of a call that was given none
=============================================================================
