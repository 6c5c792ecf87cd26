------------------------- MODULE MCBookingLifecycle -------------------------
(***************************************************************************)
(* Small instances of BookingLifecycle for TLC.                            *)
(***************************************************************************)
EXTENDS BookingLifecycle, TLC

CONSTANTS s1, s2, c1, c2, a1, a2, k1, k2

Offer(start, staff, chairs, preferred, deposit, auto) ==
  [ start |-> start, end |-> start + 2, staff |-> staff, chairs |-> chairs,
    preferred |-> preferred, location |-> "salon", deposit |-> deposit,
    autoApprove |-> auto ]

\* Appointments and requests are interchangeable.
Requests == Permutations(Appt) \cup Permutations(Call)

\* The life of appointments on one stylist and one chair: two bookings that
\* exclude each other, awaiting approval (a cash deposit does, even where the
\* stylist's bookings need none) or held.
OneStaff    == {s1}
OneChair    == {c1}
NoOwnerOfC1 == c1 :> Null
LifeOffers  ==
  { Offer(1, OneStaff, OneChair, Null, "cash", {s1}),
    Offer(2, OneStaff, OneChair, Null, "gateway", {}) }
=============================================================================
