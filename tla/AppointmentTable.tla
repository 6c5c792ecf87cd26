-------------------------- MODULE AppointmentTable --------------------------
(***************************************************************************)
(* The appointment table of the salon database: the rows, the overlap test *)
(* used by every query, and the two exclusion constraints (no_staff_overlap *)
(* and no_chair_overlap) that PostgreSQL checks on every statement that    *)
(* writes a row.  The table is shared by the scheduling engine, the        *)
(* cancellation service, the payment service and the maintenance worker.   *)
(*                                                                         *)
(* A row is never deleted.  A row that has not been inserted yet is        *)
(* AbsentRow.  Times are natural numbers; an interval is half-open.        *)
(***************************************************************************)
EXTENDS Integers

CONSTANTS
  Appt,    \* identifiers of appointment rows
  Staff,   \* staff members of the salon
  Chair,   \* chairs of the salon
  Null     \* SQL NULL

ASSUME NullAssumption == Null \notin Staff \cup Chair \cup Nat

VARIABLE row   \* the appointment table

\* Lifecycle states of a stored row (enum ApptStatus).
ApptStatus ==
  {"pending", "held", "confirmed", "cancelled", "completed", "no_show", "expired"}

\* Mutant: the constraints of migration 1, before migration 4 added 'pending'.
Constrained_Migration1 == {"held", "confirmed"}

\* The states the exclusion constraints cover.
Constrained == {"pending", "held", "confirmed"}

\* The states the booking queries treat as occupying a staff member and a chair.
Reserving == {"pending", "held", "confirmed"}

Row == [ status        : ApptStatus,
         staff         : Staff,
         chair         : Chair,
         start         : Nat,
         end           : Nat,
         holdExpiresAt : Nat \cup {Null} ]

AbsentRow == [ status        |-> "absent",
               staff         |-> Null,
               chair         |-> Null,
               start         |-> 0,
               end           |-> 0,
               holdExpiresAt |-> Null ]

TableTypeOK == row \in [Appt -> Row \cup {AbsentRow}]

Exists(a) == row[a].status # "absent"

\* Two half-open intervals, given by anything with a start and an end.
Overlap(x, y) == x.start < y.end /\ y.start < x.end

\* x and y want the same staff member or the same chair.
SharesResource(x, y) == x.staff = y.staff \/ x.chair = y.chair

(***************************************************************************)
(* What no_staff_overlap and no_chair_overlap forbid of two rows.          *)
(***************************************************************************)
Excludes(x, y) ==
  /\ x.status \in Constrained
  /\ y.status \in Constrained
  /\ Overlap(x, y)
  /\ SharesResource(x, y)

\* Storing r as row a satisfies both constraints.
Admissible(a, r) == \A b \in Appt \ {a} : ~Excludes(r, row[b])

\* Mutant: a table without the exclusion constraints.
StoreRow_Unconstrained(a, r) == row' = [row EXCEPT ![a] = r]

\* INSERT or UPDATE of one row, refused by the database when it is not admissible.
StoreRow(a, r) ==
  /\ Admissible(a, r)
  /\ row' = [row EXCEPT ![a] = r]

(***************************************************************************)
(* The double-resource promise: no two appointments that occupy their slot *)
(* (pending, held or confirmed) share a staff member or a chair over       *)
(* overlapping times, whatever the interleaving of the requests that wrote *)
(* them (migrations 1 and 4).                                              *)
(***************************************************************************)
NoDoubleBooking ==
  \A a, b \in Appt :
    /\ a # b
    /\ row[a].status \in Reserving
    /\ row[b].status \in Reserving
    /\ Overlap(row[a], row[b])
    => ~SharesResource(row[a], row[b])
=============================================================================
