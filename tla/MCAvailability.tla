--------------------------- MODULE MCAvailability ---------------------------
(***************************************************************************)
(* A small instance of Availability for TLC: a salon on two days of six    *)
(* ticks each.  Stylist s1 needs no approval; s2 has chair c2 in the     *)
(* salon and chair c3 for visits.                                          *)
(***************************************************************************)
EXTENDS Availability, MCBookingLifecycle

CONSTANT c3

TwoStaff     == {s1, s2}
ThreeChairs  == {c1, c2, c3}
StationsOfS2 == (c1 :> Null) @@ (c2 :> s2) @@ (c3 :> s2)
MobileC3     == {c3}

\* The second service occupies more time than the first one, at a customer's place
\* if the salon travels.
TwoRequests ==
  { [start |-> 1, staff |-> s2, duration |-> Null, location |-> Null, hasAddress |-> TRUE],
    [start |-> 2, staff |-> Null, duration |-> 2, location |-> "customer", hasAddress |-> TRUE] }

\* The first day is open longer than the second.
Hours(from, to) ==
  {[weekday |-> 0, start |-> from, end |-> to], [weekday |-> 1, start |-> from + 2, end |-> 6]}

WholeDay0 == [date |-> 0, start |-> Null, end |-> Null]
Evening   == [date |-> 0, start |-> 5, end |-> 6]

\* A hybrid salon whose own date starts two ticks earlier.
Hybrid ==
  [ active |-> TRUE, workMode |-> "hybrid", zone |-> 2,
    bookingStartOffsetDays |-> 0, bookingWindowDays |-> 1,
    qualified |-> {s1, s2}, equipped |-> ThreeChairs,
    shortest |-> 1, longest |-> 2, buffer |-> 1,
    deposit |-> "none", autoApprove |-> {s1},
    hours |-> [x \in Staff \cup Chair |-> IF x = s1 THEN Hours(0, 4) ELSE Hours(0, 6)],
    daysOff |-> [m \in Staff |-> {}], holidays |-> {},
    unavailable |-> [h \in Chair |-> {}] ]

\* A salon that travels, takes a deposit, and has blocked some of its time.
Mobile ==
  [Hybrid EXCEPT !.workMode = "mobile", !.deposit = "gateway", !.zone = 0,
                 !.bookingWindowDays = 0, !.daysOff[s2] = {Evening}, !.holidays = {Evening},
                 !.unavailable[c3] = {[start |-> 0, end |-> 1]}]

TwoSalons    == {Hybrid, Mobile}
DayClosures  == {WholeDay0, Evening}
ShorterHours == {[of |-> s2, hours |-> Hours(2, 6)]}
OneDayOff    == {[of |-> s2, window |-> WholeDay0]}
OnePeriod    == {[of |-> c1, period |-> [start |-> 3, end |-> 4]]}

\* The settings that bear on an offer, before and after one edit.
Reached ==
  UNION { {s} \cup SetWorkingHours(s) \cup AddDayOff(s) \cup RemoveDayOff(s)
            \cup AddChairUnavailable(s) \cup RemoveChairUnavailable(s) : s \in TwoSalons }

\* Every offer they make of a request.
OffersReached  == {OfferFor(s, q) : s \in Reached, q \in TwoRequests}
ResolvedOffers == OffersReached
=============================================================================
