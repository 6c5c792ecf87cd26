---------------------------- MODULE MCReminders -----------------------------
(***************************************************************************)
(* Small instances of Reminders for TLC.                                   *)
(***************************************************************************)
EXTENDS Reminders, TLC

CONSTANTS a1, a2, p1, p2

\* One appointment starts within the first window, the other enters it later.
Starts == (a1 :> 1) @@ (a2 :> 2)

\* The owner and the stylist hear of the first appointment; the salon of the
\* second has both switched off.
Audiences == (a1 :> {p1, p2}) @@ (a2 :> {})
=============================================================================
