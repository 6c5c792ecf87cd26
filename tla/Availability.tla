---------------------------- MODULE Availability ----------------------------
(***************************************************************************)
(* The salon's settings and the two answers computed from them: which      *)
(* starts the salon's page shows (getAvailability), and which ones a       *)
(* booking accepts (book, whose race for the calendar is BookingLifecycle).*)
(* The two were written apart and must agree.                              *)
(*                                                                         *)
(* The settings change while customers book: each edit is a statement of   *)
(* its own, and closing a whole day is a route that stores the closure,    *)
(* lists the day, and then cancels what it has listed.                     *)
(*                                                                         *)
(* A request names a set of services, taken here as the one service they   *)
(* add up to: the staff qualified for all of them, the chairs equipped for *)
(* all of them, the sums of their durations and buffers.  Times count      *)
(* ticks; a day has Day of them on the clock the working hours use, and    *)
(* the salon's own date starts zone ticks earlier.                         *)
(***************************************************************************)
EXTENDS BookingLifecycle

CONSTANTS
  Day,          \* ticks of a day
  Step,         \* distance of two starts on the page
  MobileChair,  \* the chairs of kind 'mobile'
  Query,        \* what customers ask for (see QueryType)
  Salons,       \* settings the salon may start with (see SalonType)
  Closures,     \* windows that may be closed: [date, start, end], no times for a whole day
  Timetables,   \* weekly hours that may be given to whom: [of, hours]
  DaysOff,      \* closures that a stylist may add: [of, window]
  Periods,      \* when a chair may be out of use: [of, period]
  MaxDays,      \* bound on the days of the booking window
  MaxEdits      \* bound on the edits of the settings

QueryType ==
  [ start : Nat, staff : Staff \cup {Null}, duration : Nat \cup {Null},
    location : {"salon", "customer", Null}, hasAddress : BOOLEAN ]

WindowType == [weekday : 0..6, start : 0..Day, end : 0..Day]

SalonType ==
  [ active : BOOLEAN, workMode : {"mobile", "hybrid", "salon"}, zone : Nat,
    bookingStartOffsetDays : {0, 1}, bookingWindowDays : 0..MaxDays,
    qualified : SUBSET Staff, equipped : SUBSET Chair,
    shortest : Nat \ {0}, longest : Nat, buffer : Nat,
    deposit : {"none", "cash", "gateway", "card_transfer"}, autoApprove : SUBSET Staff,
    hours : [Staff \cup Chair -> SUBSET WindowType],
    daysOff : [Staff -> SUBSET Closures], holidays : SUBSET Closures,
    unavailable : [Chair -> SUBSET [start : Nat, end : Nat]] ]

ASSUME AvailabilityAssumption ==
  /\ Day \in Nat \ {0} /\ Step \in Nat \ {0}
  /\ MobileChair \subseteq Chair
  /\ Query \subseteq QueryType /\ Salons \subseteq SalonType
  /\ \A w \in Closures : w.date \in Nat /\ (w.start = Null <=> w.end = Null)
  /\ Timetables \subseteq [of : Staff \cup Chair, hours : SUBSET WindowType]
  /\ DaysOff \subseteq [of : Staff, window : Closures]
  /\ Periods \subseteq [of : Chair, period : [start : Nat, end : Nat]]
  /\ MaxDays \in Nat /\ MaxEdits \in Nat

VARIABLES
  salon,     \* the settings
  closing,   \* the request that closes a day
  edits      \* edits so far

avVars  == <<salon, closing, edits>>
avAllVars == <<vars, avVars>>

NotClosing == [pc |-> "idle", date |-> 0, todo |-> {}, racing |-> {}]

\* Type correctness of the settings and of the closing of a day.
AvTypeOK ==
  /\ TypeOK
  /\ salon \in SalonType
  /\ closing \in [ pc : {"idle", "list", "cancel"}, date : Nat,
                   todo : SUBSET [op : {"reject", "cancel"}, appt : Appt],
                   racing : SUBSET Appt ]
  /\ edits \in 0..MaxEdits

AvInit == Init /\ salon \in Salons /\ closing = NotClosing /\ edits = 0

-----------------------------------------------------------------------------
(***************************************************************************)
(* What a request comes to under the settings s.                           *)
(***************************************************************************)

\* A mobile salon travels, a hybrid one lets the customer choose.
Location(s, q) ==
  CASE s.workMode = "mobile" -> "customer"
    [] s.workMode = "hybrid" -> IF q.location = Null THEN "salon" ELSE q.location
    [] OTHER                 -> IF q.location = "customer" THEN Null ELSE "salon"

Duration(s, q) == IF q.duration = Null THEN s.shortest ELSE q.duration

\* The salon takes such requests at all.
Serves(s, q) ==
  /\ s.active
  /\ Location(s, q) # Null
  /\ Duration(s, q) \in s.shortest..s.longest

\* The time the request would occupy from t on, buffer included.
Occupied(s, q, t) == [start |-> t, end |-> t + Duration(s, q) + s.buffer]

DateOf(t)            == t \div Day
DateInTimeZone(s, t) == (t + s.zone) \div Day

\* Customers may book for the dates of the booking window, today's first.
BookableDates(s) ==
  LET today == DateInTimeZone(s, now)
  IN  (today + s.bookingStartOffsetDays)..(today + s.bookingWindowDays)

\* A window of the day, as an interval on date d.
OnDate(w, d) == [start |-> d * Day + w.start, end |-> d * Day + w.end]

\* The working hours of a stylist or a chair on date d.
HoursOn(s, x, d) == {OnDate(w, d) : w \in {v \in s.hours[x] : v.weekday = d % 7}}

WholeDay(w) == w.start = Null

Blocks(ws, i) == \E w \in ws : ~WholeDay(w) /\ Overlap(OnDate(w, w.date), i)

\* The stylists who may take the service on date d.
OnDuty(s, d) ==
  {m \in s.qualified : /\ HoursOn(s, m, d) # {}
                       /\ ~\E w \in s.daysOff[m] : w.date = d /\ WholeDay(w)}

\* The chairs it may take place on: the equipment stays in the salon.
InService(s, q, d) ==
  {h \in IF Location(s, q) = "customer" THEN MobileChair ELSE s.equipped \ MobileChair :
     HoursOn(s, h, d) # {}}

Fills(s, x, d, i) == \E w \in HoursOn(s, x, d) : w.start <= i.start /\ i.end <= w.end

\* Stylist m works, and chair h is in service, for the whole of interval i.
Works(s, m, d, i)    == Fills(s, m, d, i) /\ ~Blocks({w \in s.daysOff[m] : w.date = d}, i)
InUse(s, h, d, i)    == Fills(s, h, d, i) /\ \A p \in s.unavailable[h] : ~Overlap(p, i)

\* Mutant: a closure without times blocks no hour.
OpenFor_HoursOnly(s, d, i) == ~Blocks({w \in s.holidays : w.date = d}, i)

\* The salon is open on date d, and not closed for a part of interval i.
OpenFor(s, d, i) ==
  LET closures == {w \in s.holidays : w.date = d}
  IN  ~Blocks(closures, i) /\ \A w \in closures : ~WholeDay(w)

-----------------------------------------------------------------------------
(***************************************************************************)
(* Booking a start.                                                        *)
(***************************************************************************)

\* What the booking algorithm tries to place for request q.
OfferFor(s, q) ==
  LET d == DateOf(q.start)
      i == Occupied(s, q, q.start)
  IN  [ start       |-> i.start,
        end         |-> i.end,
        staff       |-> {m \in OnDuty(s, d) : Works(s, m, d, i)},
        chairs      |-> {h \in InService(s, q, d) : InUse(s, h, d, i)},
        preferred   |-> q.staff,
        location    |-> Location(s, q),
        deposit     |-> s.deposit,
        autoApprove |-> s.autoApprove ]

\* A request the booking does not refuse at sight.
Accepts(s, q) ==
  /\ Serves(s, q)
  /\ Location(s, q) = "customer" => q.hasAddress
  /\ DateInTimeZone(s, q.start) \in BookableDates(s)
  /\ OpenFor(s, DateOf(q.start), Occupied(s, q, q.start))

-----------------------------------------------------------------------------
(***************************************************************************)
(* Showing the starts of a day.                                            *)
(***************************************************************************)

\* Mutant: a request that waits for approval does not hide its slot.
DayAppointments_NotPending(d) ==
  {b \in Appt : /\ row[b].status \in {"held", "confirmed"}
                /\ Overlap(row[b], [start |-> d * Day, end |-> (d + 1) * Day])}

\* The appointments read for date d.
DayAppointments(d) ==
  {b \in Appt : /\ row[b].status \in Reserving
                /\ Overlap(row[b], [start |-> d * Day, end |-> (d + 1) * Day])}

\* A stylist filter narrows the page to that stylist.
Eligible(s, q, d) == {m \in OnDuty(s, d) : q.staff \in {Null, m}}

\* The starts looked at: from the earliest opening of any stylist or chair, in
\* steps, for as long as the service would end before the latest closing.
CandidateStarts(s, q, d) ==
  LET hours    == UNION {HoursOn(s, x, d) : x \in Eligible(s, q, d) \cup InService(s, q, d)}
      earliest == {w \in hours : \A v \in hours : w.start <= v.start}
      latest   == {w \in hours : \A v \in hours : v.end <= w.end}
  IN  {t \in (d * Day)..((d + 1) * Day) :
         \E first \in earliest, last \in latest :
           /\ t >= first.start /\ (t - first.start) % Step = 0
           /\ Occupied(s, q, t).end <= last.end}

\* Stylist m and chair h are free for the whole of interval i, on a day with the
\* appointments booked.
BothFree(s, booked, m, h, i) ==
  /\ Works(s, m, DateOf(i.start), i) /\ InUse(s, h, DateOf(i.start), i)
  /\ \A b \in booked : Overlap(row[b], i) => row[b].staff # m /\ row[b].chair # h

\* The starts the page shows for date d.
GetAvailability(s, q, d) ==
  LET booked == DayAppointments(d)
      pairs  == {p \in Eligible(s, q, d) \X InService(s, q, d) :
                   Fits([location |-> Location(s, q)], [staff |-> p[1], chair |-> p[2]])}
  IN  {t \in CandidateStarts(s, q, d) :
         LET i == Occupied(s, q, t)
         IN  /\ Serves(s, q)
             /\ d \in BookableDates(s)
             /\ OpenFor(s, d, i)
             /\ \E p \in pairs : BothFree(s, booked, p[1], p[2], i)}

-----------------------------------------------------------------------------
(***************************************************************************)
(* Editing the settings.  Each operation yields the settings it may store. *)
(***************************************************************************)
SetWorkingHours(s) == {[s EXCEPT !.hours[e.of] = e.hours] : e \in Timetables}

AddDayOff(s)    == {[s EXCEPT !.daysOff[e.of] = @ \cup {e.window}] : e \in DaysOff}
RemoveDayOff(s) == UNION {{[s EXCEPT !.daysOff[m] = @ \ {w}] : w \in s.daysOff[m]} : m \in Staff}

AddChairUnavailable(s) ==
  {[s EXCEPT !.unavailable[e.of] = @ \cup {e.period}] : e \in Periods}
RemoveChairUnavailable(s) ==
  UNION {{[s EXCEPT !.unavailable[h] = @ \ {p}] : p \in s.unavailable[h]} : h \in Chair}

\* A closure of a few hours; a whole day is closed by CloseDay below.
AddHoliday(s) ==
  {[s EXCEPT !.holidays = @ \cup {w}] : w \in {v \in Closures : ~WholeDay(v)}}

RemoveHoliday(s) == {[s EXCEPT !.holidays = @ \ {w}] : w \in s.holidays}

\* The other bound of the booking window was compared when the request was
\* checked, and may be another one by now.
SetBookingWindowDays(s)      == {[s EXCEPT !.bookingWindowDays = n] : n \in (0..MaxDays) \ {s.bookingWindowDays}}
SetBookingStartOffsetDays(s) == {[s EXCEPT !.bookingStartOffsetDays = 1 - @]}

\* One of the settings in S is stored.
Store(S) ==
  /\ edits < MaxEdits
  /\ edits' = edits + 1
  /\ salon' \in S
  /\ UNCHANGED <<vars, closing>>

Edit ==
  \/ Store(SetWorkingHours(salon))
  \/ Store(AddDayOff(salon))
  \/ Store(RemoveDayOff(salon))
  \/ Store(AddChairUnavailable(salon))
  \/ Store(RemoveChairUnavailable(salon))
  \/ Store(AddHoliday(salon))
  \/ Store(RemoveHoliday(salon))
  \/ Store(SetBookingWindowDays(salon))
  \/ Store(SetBookingStartOffsetDays(salon))

-----------------------------------------------------------------------------
(***************************************************************************)
(* Closing a whole day.                                                    *)
(***************************************************************************)

\* The closure is stored.  Requests that have passed their checks and not yet
\* stored their appointment are racing it (a history, read by no action).
CloseDay ==
  \E w \in {v \in Closures : WholeDay(v)} :
    /\ closing.pc = "idle"
    /\ edits < MaxEdits
    /\ edits' = edits + 1
    /\ salon' = [salon EXCEPT !.holidays = @ \cup {w}]
    /\ closing' = [NotClosing EXCEPT !.pc = "list", !.date = w.date,
                     !.racing = {a \in Appt : booking[a].pc = "insert"}]
    /\ UNCHANGED vars

\* What is active on the day and has not started is to be turned down, if it
\* waits for approval, or cancelled.
ListDay ==
  /\ closing.pc = "list"
  /\ closing' = [closing EXCEPT !.pc = "cancel", !.todo =
       {[op |-> IF row[a].status = "pending" THEN "reject" ELSE "cancel", appt |-> a] :
          a \in {b \in DayAppointments(closing.date) : row[b].start >= now}}]
  /\ UNCHANGED <<vars, salon, edits>>

Listed(e) == closing' = [closing EXCEPT !.todo = @ \ {e}]

\* The next entry of the list is taken up, by a request like any other.
CancelListed(c) ==
  \E e \in closing.todo :
    /\ IF e.op = "reject" THEN RejectRead(c, e.appt) ELSE CancelRead(c, e.appt)
    /\ Listed(e)
    /\ UNCHANGED <<salon, edits>>

\* It is no longer what the list said: the request throws, and counts as failed.
ListedRefused ==
  \E e \in closing.todo :
    /\ row[e.appt].status \notin
         (IF e.op = "reject" THEN {"pending"} ELSE {"pending", "held", "confirmed"})
    /\ Listed(e)
    /\ UNCHANGED <<vars, salon, edits>>

-----------------------------------------------------------------------------
(***************************************************************************)
(* The composition: what is booked is what the settings make of a request. *)
(***************************************************************************)
Resolved == {OfferFor(salon, q) : q \in {r \in Query : Accepts(salon, r)}}

BookResolved(a) ==
  LET resolved == Resolved
  IN  /\ BookStep(a)
      /\ booking[a].pc = "idle" => booking'[a].offer \in resolved
      /\ UNCHANGED avVars

LifecycleStep ==
  \/ Tick
  \/ \E c \in Call : WriteStep(c) \/ \E a \in Appt : ReadStep(c, a)
  \/ \E w \in Worker : WorkerStep(w)

AvNext ==
  \/ \E a \in Appt : BookResolved(a)
  \/ LifecycleStep /\ UNCHANGED avVars
  \/ Edit
  \/ CloseDay
  \/ ListDay
  \/ \E c \in Call : CancelListed(c)
  \/ ListedRefused

AvSpec == AvInit /\ [][AvNext]_avAllVars

\* A booking request that was let in runs to its end.
AvFairness ==
  \A a \in Appt : WF_avAllVars(BookProgress(a) /\ UNCHANGED avVars)

AvFairSpec == AvSpec /\ AvFairness

-----------------------------------------------------------------------------
(***************************************************************************)
(* Properties.                                                             *)
(***************************************************************************)

\* The booking would place request q at start t, with the stylist the page was
\* filtered by.
CanBook(q, t) ==
  LET r == [q EXCEPT !.start = t, !.hasAddress = TRUE]
  IN  /\ Accepts(salon, r)
      /\ \E p \in CandidatePairs(OfferFor(salon, r)) : q.staff \in {Null, p.staff}

\* The page shows exactly the starts that a booking made now would get, whatever
\* the settings and the appointments are, on the days both allow: the page
\* compares the date it was asked for with the booking window, the booking the
\* salon's own date at the start (getAvailability and book).
AvailabilityIsExact ==
  \A q \in Query : \A d \in BookableDates(salon) :
    LET shown == GetAvailability(salon, q, d)
    IN  \A t \in CandidateStarts(salon, q, d) :
          DateInTimeZone(salon, t) \in BookableDates(salon) => (t \in shown <=> CanBook(q, t))

Reserves(a) == row[a].status \in Reserving

\* Once a day is closed, and until it is opened again, nothing new becomes active
\* on it, except for a booking that had passed its checks when the closure was
\* stored, and for a request on that very appointment which had read it before it
\* was cancelled
\* (cancelAppointmentsForFullDayClosure, book).
ClosedDayOnlyDrains ==
  [][\A a \in Appt :
       /\ closing.pc # "idle"
       /\ \E w \in salon.holidays : w.date = closing.date /\ WholeDay(w)
       /\ ~Reserves(a) /\ Reserves(a)'
       /\ DateOf(row'[a].start) = closing.date
       => a \in closing.racing \/ \E c \in Call : call[c].appt = a]_avAllVars
=============================================================================
