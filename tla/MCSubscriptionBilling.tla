----------------------- MODULE MCSubscriptionBilling -----------------------
(***************************************************************************)
(* Small instances of SubscriptionBilling for TLC.                         *)
(***************************************************************************)
EXTENDS SubscriptionBilling, TLC

\* A month is two days here, and a quarter, the longest plan, six; a quarter and
\* a month together fill the window, as they do in plans.ts.
Plans     == {"monthly", "quarterly"}
Durations == ("monthly" :> 2) @@ ("quarterly" :> 6)
=============================================================================
