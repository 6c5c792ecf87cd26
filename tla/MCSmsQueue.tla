----------------------------- MODULE MCSmsQueue -----------------------------
(***************************************************************************)
(* Small instances of SmsQueue for TLC.                                     *)
(***************************************************************************)
EXTENDS SmsQueue

\* A text with a deadline (a code without a template) and a template without one.
CodeAndTemplate ==
  {[template |-> FALSE, expires |-> TRUE], [template |-> TRUE, expires |-> FALSE]}

\* Workers before and after a change of provider.
WithReports    == [reports |-> TRUE,  templates |-> TRUE]
WithoutReports == [reports |-> FALSE, templates |-> FALSE]
BothSetups     == {WithReports, WithoutReports}
=============================================================================
