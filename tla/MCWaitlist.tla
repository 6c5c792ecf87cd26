----------------------------- MODULE MCWaitlist -----------------------------
(***************************************************************************)
(* Small instances of Waitlist for TLC.                                    *)
(***************************************************************************)
EXTENDS Waitlist, TLC

CONSTANTS s1, c1, a1, a2, k1, w1, e1, e2, u1, u2

OneStaff    == {s1}
OneChair    == {c1}
NoOwnerOfC1 == c1 :> Null

Offer(start, deposit) ==
  [ start |-> start, end |-> start + 2, staff |-> OneStaff, chairs |-> OneChair,
    preferred |-> Null, location |-> "salon", deposit |-> deposit,
    autoApprove |-> OneStaff ]

\* A hold, to be confirmed, cancelled or left to expire, and a confirmed visit
\* after it.
Hold        == Offer(1, "gateway")
Visit       == Offer(3, "none")
FreedOffers == {Hold, Visit}

\* The run starts where both appointments are stored and the second request is
\* about to save its services: the race for the calendar is the matter of
\* MCBookingLifecycle.
StoredInit ==
  /\ booking = [a \in Appt |->
       [NoBooking EXCEPT !.pc = IF a = a1 THEN "done" ELSE "services",
                         !.offer = IF a = a1 THEN Hold ELSE Visit,
                         !.open = Pair,
                         !.rank = [p \in Pair |-> <<1, 1>>],
                         !.result = IF a = a1 THEN "held" ELSE Null]]
  /\ now = 0
  /\ row = [a \in Appt |-> NewRow(booking[a].offer, [staff |-> s1, chair |-> c1])]
  /\ call = [c \in Call |-> NoCall]
  /\ sweep = [w \in Worker |-> NoSweep]
  /\ noShowCount = [a \in Appt |-> 0]
  /\ announced = {} /\ faults = 0
  /\ NobodyWaits

MCSpec     == StoredInit /\ [][WlNext]_allVars
FairMCSpec == MCSpec /\ WlFairness

\* Two customers wait for the whole day.
Day(u)    == [who |-> u, start |-> 1, end |-> 5]
DayWishes == (e1 :> Day(u1)) @@ (e2 :> Day(u2))
=============================================================================
