---------------------------- MODULE SlotCalendar ----------------------------
(***************************************************************************)
(* What the salon is promised of its calendar, with no requests, tables or *)
(* statuses: every reservation holds one staff member and one chair for    *)
(* one interval, both are taken and given back together, and a reservation *)
(* is taken only while no other one holds either resource at that time.    *)
(***************************************************************************)
EXTENDS Integers

CONSTANTS Appt, Staff, Chair, Free

VARIABLE slot   \* what each appointment reserves, or Free

Reservation == [staff : Staff, chair : Chair, start : Nat, end : Nat]

Clash(x, y) ==
  /\ x.start < y.end /\ y.start < x.end
  /\ x.staff = y.staff \/ x.chair = y.chair

Init == slot = [a \in Appt |-> Free]

\* Appointment a takes both resources of a new reservation at once.
Take(a) ==
  /\ slot[a] = Free
  /\ slot'[a] \in Reservation
  /\ \A b \in Appt \ {a} :
       /\ slot'[b] = slot[b]
       /\ slot[b] # Free => ~Clash(slot'[a], slot[b])

\* Some appointments give both their resources back.
Release(S) == slot' = [a \in Appt |-> IF a \in S THEN Free ELSE slot[a]]

Next ==
  \/ \E a \in Appt : Take(a)
  \/ \E S \in SUBSET Appt : Release(S)

Spec == Init /\ [][Next]_slot
=============================================================================
