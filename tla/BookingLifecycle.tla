-------------------------- MODULE BookingLifecycle --------------------------
(***************************************************************************)
(* The life of an appointment: the booking algorithm of the scheduling     *)
(* engine, the staff and customer operations on a stored appointment, and  *)
(* the maintenance worker that releases expired holds.                     *)
(*                                                                         *)
(* Every request runs concurrently with the others and is not a database   *)
(* transaction: it reads, decides on what it read, and writes later.  So   *)
(* each operation is a ...Read action, taken when the checks on the row    *)
(* pass, followed by a ...Write action that relies on them no more.  A     *)
(* request whose checks fail throws and changes nothing: it is no action.  *)
(*                                                                         *)
(* One booking request inserts at most one row, so the request and its row *)
(* share an identifier.                                                    *)
(***************************************************************************)
EXTENDS AppointmentTable, FiniteSets

CONSTANTS
  Call,                 \* concurrent requests on stored appointments
  Worker,               \* processes running the maintenance loop
  Offers,               \* what booking requests may ask for (see OfferType)
  ChairOwner,           \* the staff member a chair is assigned to, or Null
  HoldPeriod,           \* how long a deposit hold lasts
  ManualHoldPeriod,     \* its floor when the deposit is a card transfer
  MAX_BOOKING_RETRIES,  \* insertions one booking request may try
  MaxTime,              \* bound: the clock stops here
  MaxNoShows,           \* bound on a customer's no-show count
  MaxFaults             \* bound on the requests that die between two steps

(***************************************************************************)
(* A booking request after its services, closures, hours, days off and     *)
(* equipment have been resolved: the interval it would occupy (buffer      *)
(* included), the qualified staff on duty and the fitting chairs in        *)
(* service, the preferred stylist, how a deposit is taken, and the staff   *)
(* whose bookings need no approval.                                        *)
(***************************************************************************)
OfferType ==
  [ start : Nat, end : Nat, staff : SUBSET Staff, chairs : SUBSET Chair,
    preferred : Staff \cup {Null}, location : {"salon", "customer"},
    deposit : {"none", "cash", "gateway", "card_transfer"},
    autoApprove : SUBSET Staff ]

ASSUME BookingAssumption ==
  /\ IsFiniteSet(Staff) /\ IsFiniteSet(Chair)
  /\ Offers \subseteq OfferType /\ Null \notin Offers
  /\ \A o \in Offers : o.start < o.end
  /\ ChairOwner \in [Chair -> Staff \cup {Null}]
  /\ HoldPeriod \in Nat \ {0}
  /\ ManualHoldPeriod \in Nat
  /\ MAX_BOOKING_RETRIES \in Nat \ {0}
  /\ MaxTime \in Nat
  /\ MaxNoShows \in Nat
  /\ MaxFaults \in Nat

VARIABLES
  now,          \* the clock
  booking,      \* the booking requests
  call,         \* the other requests: what each is about to write, and where
  sweep,        \* the maintenance workers
  noShowCount,  \* Customer.noShowCount of the customer of each appointment
  announced,    \* appointments whose freed window the waitlist was told about
  faults        \* requests that died between two of their steps

vars == <<row, now, booking, call, sweep, noShowCount, announced, faults>>

Pair == [staff : Staff, chair : Chair]

NoBooking ==
  [ pc |-> "idle", offer |-> Null, open |-> {}, refused |-> {},
    rank |-> [p \in Pair |-> <<0, 0>>], result |-> Null ]
NoCall  == [op |-> "none", appt |-> Null]
NoSweep == [pc |-> "idle", at |-> 0, windows |-> {}]

Results == {"pending", "held", "confirmed", "no_availability", "slot_unavailable", "error"}

\* A request that has no result yet is told apart from every answer.
ASSUME ResultAssumption == Null \notin Results

Ops == {"approve", "reject", "cancel", "announce", "confirmHeld",
        "noShow", "countNoShow", "complete"}

BookingRecord ==
  [ pc      : {"idle", "insert", "services", "done"},
    offer   : Offers \cup {Null},
    open    : SUBSET Pair,      \* candidate pairs not tried yet
    refused : SUBSET Pair,      \* candidate pairs the database refused
    rank    : [Pair -> Nat \X Nat],
    result  : Results \cup {Null} ]

\* The request has passed its checks and has not been answered.
Underway == {"insert", "services"}

\* Type correctness of the whole lifecycle state.
TypeOK ==
  /\ TableTypeOK
  /\ now \in 0..MaxTime
  /\ booking \in [Appt -> BookingRecord]
  /\ \A a \in Appt : booking[a].pc \in Underway => booking[a].offer # Null
  /\ call \in [Call -> [op : Ops, appt : Appt] \cup {NoCall}]
  /\ sweep \in [Worker -> [ pc      : {"idle", "release", "notify"},
                            at      : 0..MaxTime,
                            windows : SUBSET Appt ]]
  /\ noShowCount \in [Appt -> Nat]
  /\ announced \subseteq Appt
  /\ faults \in 0..MaxFaults

Init ==
  /\ row = [a \in Appt |-> AbsentRow]
  /\ now = 0
  /\ booking = [a \in Appt |-> NoBooking]
  /\ call = [c \in Call |-> NoCall]
  /\ sweep = [w \in Worker |-> NoSweep]
  /\ noShowCount = [a \in Appt |-> 0]
  /\ announced = {}
  /\ faults = 0

-----------------------------------------------------------------------------
(***************************************************************************)
(* Booking.                                                                *)
(***************************************************************************)

\* The stored appointments a booking query counts against offer o.
Busy(o) == {b \in Appt : row[b].status \in Reserving /\ Overlap(row[b], o)}

FreeStaff(o)  == {s \in o.staff  : \A b \in Busy(o) : row[b].staff # s}
FreeChairs(o) == {h \in o.chairs : \A b \in Busy(o) : row[b].chair # h}

\* An order in which a query without ORDER BY may list the set S.
Orders(S) ==
  {f \in [S -> 1..Cardinality(S)] : \A x, y \in S : f[x] = f[y] => x = y}

\* A chair assigned to a stylist serves only that stylist; at the customer's
\* place only the stylist's own mobile chair will do.
Fits(o, p) ==
  IF o.location = "customer" THEN ChairOwner[p.chair] = p.staff
                             ELSE ChairOwner[p.chair] \in {Null, p.staff}

CandidatePairs(o) ==
  LET staff  == FreeStaff(o)
      chairs == FreeChairs(o)
  IN  {p \in Pair : p.staff \in staff /\ p.chair \in chairs /\ Fits(o, p)}

\* The preferred stylist, when free, is tried before the others.
StaffOrders(o) ==
  {f \in Orders(FreeStaff(o)) : o.preferred \in FreeStaff(o) => f[o.preferred] = 1}

\* The candidates are tried stylist by stylist, chair by chair.
StaffMajor(o, staffOrder, chairOrder) ==
  [p \in Pair |-> IF p \in CandidatePairs(o)
                  THEN <<staffOrder[p.staff], chairOrder[p.chair]>> ELSE <<0, 0>>]

Before(x, y) == x[1] < y[1] \/ (x[1] = y[1] /\ x[2] < y[2])

\* Pair p is the one that request b tries next.
IsNext(b, p) ==
  /\ p \in b.open
  /\ \A q \in b.open : ~Before(b.rank[q], b.rank[p])

\* Mutant: one try too few.
MayRetry_OneShort(b) == b.open # {} /\ Cardinality(b.refused) < MAX_BOOKING_RETRIES - 1

\* The request may try another pair.
MayRetry(b) == b.open # {} /\ Cardinality(b.refused) < MAX_BOOKING_RETRIES

RequiresHold(o) == o.deposit \in {"gateway", "card_transfer"}

HoldFor(o) ==
  IF o.deposit = "card_transfer" /\ ManualHoldPeriod > HoldPeriod
  THEN ManualHoldPeriod ELSE HoldPeriod

InitialStatus(o, s) ==
  CASE RequiresHold(o)                                -> "held"
    [] o.deposit = "none" /\ s \in o.autoApprove      -> "confirmed"
    [] OTHER                                          -> "pending"

\* The row that books offer o on pair p.
NewRow(o, p) ==
  [ status        |-> InitialStatus(o, p.staff),
    staff         |-> p.staff,
    chair         |-> p.chair,
    start         |-> o.start,
    end           |-> o.end,
    holdExpiresAt |-> IF RequiresHold(o) THEN now + HoldFor(o) ELSE Null ]

\* Request a ends with the given result.
Answer(a, result) ==
  booking' = [booking EXCEPT ![a] = [booking[a] EXCEPT !.pc = "done", !.result = result]]

\* The request reads the stored appointments and finds a stylist or a chair lacking.
BookNoAvailability(a) ==
  \E o \in Offers :
    /\ booking[a].pc = "idle"
    /\ FreeStaff(o) = {} \/ FreeChairs(o) = {}
    /\ booking' = [booking EXCEPT ![a] =
         [NoBooking EXCEPT !.pc = "done", !.offer = o, !.result = "no_availability"]]
    /\ UNCHANGED <<row, now, call, sweep, noShowCount, announced, faults>>

\* The request reads the stored appointments and lists its candidate pairs.
BookRead(a) ==
  \E o \in Offers :
    /\ booking[a].pc = "idle"
    /\ FreeStaff(o) # {} /\ FreeChairs(o) # {}
    /\ \E staffOrder \in StaffOrders(o), chairOrder \in Orders(FreeChairs(o)) :
         booking' = [booking EXCEPT ![a] =
           [NoBooking EXCEPT !.pc = "insert", !.offer = o,
                             !.open = CandidatePairs(o),
                             !.rank = StaffMajor(o, staffOrder, chairOrder)]]
    /\ UNCHANGED <<row, now, call, sweep, noShowCount, announced, faults>>

\* The next candidate pair is inserted.
BookInsert(a) ==
  LET b == booking[a]
  IN  /\ b.pc = "insert"
      /\ MayRetry(b)
      /\ \E p \in Pair :
           /\ IsNext(b, p)
           /\ StoreRow(a, NewRow(b.offer, p))
           /\ booking' = [booking EXCEPT ![a] = [b EXCEPT !.pc = "services"]]
      /\ UNCHANGED <<now, call, sweep, noShowCount, announced, faults>>

\* The services of the stored appointment are saved, by a statement of its own,
\* and the request is answered.
BookSaveServices(a) ==
  /\ booking[a].pc = "services"
  /\ Answer(a, InitialStatus(booking[a].offer, row[a].staff))
  /\ UNCHANGED <<row, now, call, sweep, noShowCount, announced, faults>>

\* Mutant: the loop does not move on to the next pair.
BookConflict_SamePair(a) ==
  LET b == booking[a]
  IN  /\ b.pc = "insert"
      /\ MayRetry(b)
      /\ \E p \in Pair :
           /\ IsNext(b, p)
           /\ ~Admissible(a, NewRow(b.offer, p))
           /\ booking' = [booking EXCEPT ![a] = [b EXCEPT !.refused = b.refused \cup {p}]]
      /\ UNCHANGED <<row, now, call, sweep, noShowCount, announced, faults>>

\* The database refuses the pair; the request moves on to the next one.
BookConflict(a) ==
  LET b == booking[a]
  IN  /\ b.pc = "insert"
      /\ MayRetry(b)
      /\ \E p \in Pair :
           /\ IsNext(b, p)
           /\ ~Admissible(a, NewRow(b.offer, p))
           /\ booking' = [booking EXCEPT ![a] =
                [b EXCEPT !.open = b.open \ {p}, !.refused = b.refused \cup {p}]]
      /\ UNCHANGED <<row, now, call, sweep, noShowCount, announced, faults>>

\* No pair is left, or every permitted insertion was refused.
BookExhausted(a) ==
  /\ booking[a].pc = "insert"
  /\ ~MayRetry(booking[a])
  /\ Answer(a, "slot_unavailable")
  /\ UNCHANGED <<row, now, call, sweep, noShowCount, announced, faults>>

-----------------------------------------------------------------------------
(***************************************************************************)
(* Operations on a stored appointment.                                     *)
(***************************************************************************)

\* Request c has read row a, found it in one of the expected states, and will
\* go on with op.
Passed(c, op, a, expected) ==
  /\ call[c] = NoCall
  /\ row[a].status \in expected
  /\ call' = [call EXCEPT ![c] = [op |-> op, appt |-> a]]
  /\ UNCHANGED <<row, now, booking, sweep, noShowCount, announced, faults>>

Continue(c, op) == call' = [call EXCEPT ![c] = [call[c] EXCEPT !.op = op]]
Return(c)       == call' = [call EXCEPT ![c] = NoCall]

\* The row that request c is about to write, as it is now.
Target(c) == row[call[c].appt]

\* The update of request c.  It names the row by its id only.
Update(c, op, r) ==
  /\ call[c].op = op
  /\ StoreRow(call[c].appt, r)
  /\ UNCHANGED <<now, booking, sweep, noShowCount, announced, faults>>

Confirmed(r)   == [r EXCEPT !.status = "confirmed", !.holdExpiresAt = Null]
WithStatus(r, s) == [r EXCEPT !.status = s]

ApproveRead(c, a) == Passed(c, "approve", a, {"pending"})
ApproveWrite(c)   == Update(c, "approve", Confirmed(Target(c))) /\ Return(c)

\* The payment service confirms a hold; the hold's deadline is not looked at.
ConfirmHeldRead(c, a) == Passed(c, "confirmHeld", a, {"held"})
ConfirmHeldWrite(c)   == Update(c, "confirmHeld", Confirmed(Target(c))) /\ Return(c)

RejectRead(c, a) == Passed(c, "reject", a, {"pending"})
RejectWrite(c)   ==
  /\ Update(c, "reject", [Target(c) EXCEPT !.status = "cancelled", !.holdExpiresAt = Null])
  /\ Return(c)

CancelRead(c, a) == Passed(c, "cancel", a, {"pending", "held", "confirmed"})
CancelWrite(c)   ==
  Update(c, "cancel", WithStatus(Target(c), "cancelled")) /\ Continue(c, "announce")

\* The cancellation flow tells the waitlist that the window is free.
CancelAnnounce(c) ==
  /\ call[c].op = "announce"
  /\ announced' = announced \cup {call[c].appt}
  /\ Return(c)
  /\ UNCHANGED <<row, now, booking, sweep, noShowCount, faults>>

\* Mutant: the count is forgotten.
NoShowWrite_Uncounted(c) == Update(c, "noShow", WithStatus(Target(c), "no_show")) /\ Return(c)

\* An appointment that has not started cannot be a no-show.
NoShowRead(c, a) ==
  /\ row[a].start <= now
  /\ noShowCount[a] < MaxNoShows
  /\ Passed(c, "noShow", a, {"confirmed"})
NoShowWrite(c) ==
  Update(c, "noShow", WithStatus(Target(c), "no_show")) /\ Continue(c, "countNoShow")

CountNoShow(c) ==
  /\ call[c].op = "countNoShow"
  /\ noShowCount' = [noShowCount EXCEPT ![call[c].appt] = @ + 1]
  /\ Return(c)
  /\ UNCHANGED <<row, now, booking, sweep, announced, faults>>

CompleteRead(c, a) == Passed(c, "complete", a, {"confirmed"})
CompleteWrite(c)   == Update(c, "complete", WithStatus(Target(c), "completed")) /\ Return(c)

\* The database refuses an update that would make two appointments overlap:
\* the request throws and the row stays as it was.
UpdateRefused(c) ==
  /\ call[c].op \in {"approve", "confirmHeld"}
  /\ ~Admissible(call[c].appt, Confirmed(Target(c)))
  /\ Return(c)
  /\ UNCHANGED <<row, now, booking, sweep, noShowCount, announced, faults>>

-----------------------------------------------------------------------------
(***************************************************************************)
(* The maintenance worker.  One pass captures the time once, reads the due *)
(* holds, releases what is due at that time in one statement, and then     *)
(* announces the windows it had read.                                      *)
(***************************************************************************)

\* Mutant: every hold is due.
Due_AnyHold(r, t) == r.status = "held" /\ r.holdExpiresAt # Null

\* SQL's  holdExpiresAt <= t, which is not true of NULL.
Due(r, t) == r.status = "held" /\ r.holdExpiresAt # Null /\ r.holdExpiresAt <= t

SweepRead(w) ==
  /\ sweep[w].pc = "idle"
  /\ sweep' = [sweep EXCEPT ![w] =
       [pc |-> "release", at |-> now, windows |-> {a \in Appt : Due(row[a], now)}]]
  /\ UNCHANGED <<row, now, booking, call, noShowCount, announced, faults>>

\* Mutant: the release reads the clock again, past the windows already read.
SweepRelease_LaterClock(w) ==
  /\ sweep[w].pc = "release"
  /\ row' = [a \in Appt |-> IF Due(row[a], now)
                            THEN [row[a] EXCEPT !.status = "expired"] ELSE row[a]]
  /\ sweep' = [sweep EXCEPT ![w].pc = "notify"]
  /\ UNCHANGED <<now, booking, call, noShowCount, announced, faults>>

SweepRelease(w) ==
  /\ sweep[w].pc = "release"
  /\ row' = [a \in Appt |-> IF Due(row[a], sweep[w].at)
                            THEN [row[a] EXCEPT !.status = "expired"] ELSE row[a]]
  /\ sweep' = [sweep EXCEPT ![w].pc = "notify"]
  /\ UNCHANGED <<now, booking, call, noShowCount, announced, faults>>

\* Mutant: the worker does not come back for another pass.
SweepNotify_Once(w) ==
  /\ sweep[w].pc = "notify"
  /\ announced' = announced \cup sweep[w].windows
  /\ UNCHANGED <<row, now, booking, call, sweep, noShowCount, faults>>

SweepNotify(w) ==
  /\ sweep[w].pc = "notify"
  /\ announced' = announced \cup sweep[w].windows
  /\ sweep' = [sweep EXCEPT ![w] = NoSweep]
  /\ UNCHANGED <<row, now, booking, call, noShowCount, faults>>

-----------------------------------------------------------------------------
(***************************************************************************)
(* The environment: time passes, and a process or its connection to the    *)
(* database dies between two steps of what it was doing.                   *)
(***************************************************************************)
Tick ==
  /\ now < MaxTime
  /\ now' = now + 1
  /\ UNCHANGED <<row, booking, call, sweep, noShowCount, announced, faults>>

Fault == faults < MaxFaults /\ faults' = faults + 1

BookingDies(a) ==
  /\ booking[a].pc \in Underway
  /\ Fault
  /\ Answer(a, "error")
  /\ UNCHANGED <<row, now, call, sweep, noShowCount, announced>>

CallDies(c) ==
  /\ call[c] # NoCall
  /\ Fault
  /\ Return(c)
  /\ UNCHANGED <<row, now, booking, sweep, noShowCount, announced>>

WorkerDies(w) ==
  /\ sweep[w].pc # "idle"
  /\ Fault
  /\ sweep' = [sweep EXCEPT ![w] = NoSweep]
  /\ UNCHANGED <<row, now, booking, call, noShowCount, announced>>

-----------------------------------------------------------------------------
\* What a booking request that has been let in still does.
BookProgress(a) ==
  \/ BookInsert(a)
  \/ BookSaveServices(a)
  \/ BookConflict(a)
  \/ BookExhausted(a)

BookStep(a) ==
  \/ BookNoAvailability(a)
  \/ BookRead(a)
  \/ BookProgress(a)
  \/ BookingDies(a)

ReadStep(c, a) ==
  \/ ApproveRead(c, a)
  \/ ConfirmHeldRead(c, a)
  \/ RejectRead(c, a)
  \/ CancelRead(c, a)
  \/ NoShowRead(c, a)
  \/ CompleteRead(c, a)

WriteStep(c) ==
  \/ ApproveWrite(c)
  \/ ConfirmHeldWrite(c)
  \/ RejectWrite(c)
  \/ CancelWrite(c)
  \/ NoShowWrite(c)
  \/ CompleteWrite(c)
  \/ CancelAnnounce(c)
  \/ CountNoShow(c)
  \/ UpdateRefused(c)
  \/ CallDies(c)

WorkerStep(w) ==
  \/ SweepRead(w)
  \/ SweepRelease(w)
  \/ SweepNotify(w)
  \/ WorkerDies(w)

Next ==
  \/ Tick
  \/ \E a \in Appt : BookStep(a)
  \/ \E c \in Call : WriteStep(c) \/ \E a \in Appt : ReadStep(c, a)
  \/ \E w \in Worker : WorkerStep(w)

Spec == Init /\ [][Next]_vars

-----------------------------------------------------------------------------
(***************************************************************************)
(* Properties.                                                             *)
(***************************************************************************)

\* A request is told "slot_unavailable" only after losing as many races as it
\* may: it has tried MAX_BOOKING_RETRIES pairs or all it found, and each of them
\* clashes with an appointment somebody else stored (the exclusion-violation
\* retries of book).
LostRaceHasWinner ==
  \A a \in Appt :
    LET b == booking[a]
    IN  b.result = "slot_unavailable" =>
          /\ b.open = {} \/ Cardinality(b.refused) = MAX_BOOKING_RETRIES
          /\ \A p \in b.refused : \E x \in Appt \ {a} :
               Exists(x) /\ Overlap(row[x], b.offer) /\ SharesResource(row[x], p)

\* Only a hold has a deadline, every hold has one, and it is never further away
\* than the longest hold period: no slot stays blocked by an unpaid deposit
\* (book, approve, confirmHeld).
HoldsAreTimed ==
  \A a \in Appt :
    /\ row[a].status = "held" =>
         /\ row[a].holdExpiresAt # Null
         /\ row[a].holdExpiresAt <= now + HoldFor(booking[a].offer)
    /\ row[a].status \in {"pending", "confirmed"} => row[a].holdExpiresAt = Null

\* Nobody is a no-show before the appointment has started, however the requests
\* on it interleave (markNoShow, AppointmentNotStartedError).
NoShowHadStarted == \A a \in Appt : row[a].status = "no_show" => row[a].start <= now

\* A no-show is on the customer's profile as soon as the request that marked it
\* has ended, whatever else moves the row, unless a process has died (R11.4, the
\* two updates of markNoShow).
NoShowIsCounted ==
  faults = 0 => \A a \in Appt :
    row[a].status = "no_show" =>
      \/ noShowCount[a] > 0
      \/ \E c \in Call : call[c] = [op |-> "countNoShow", appt |-> a]

\* A hold keeps its slot until its deadline has passed, unless a request on that
\* very appointment moves it (releaseExpiredHolds).
HoldIsKept ==
  [][\A a \in Appt :
       row[a].status = "held" /\ row'[a].status # "held" =>
         \/ row[a].holdExpiresAt <= now
         \/ \E c \in Call : call[c].appt = a]_vars

\* The lifecycle offers the calendar it promises: an appointment reserves its
\* slot exactly while it is pending, held or confirmed.
slotView ==
  [a \in Appt |-> IF row[a].status \in Reserving
                  THEN [staff |-> row[a].staff, chair |-> row[a].chair,
                        start |-> row[a].start, end |-> row[a].end]
                  ELSE Null]

Calendar == INSTANCE SlotCalendar WITH slot <- slotView, Free <- Null

\* Every step of every request takes one free reservation, gives some back, or
\* leaves the calendar alone (R9.1, R9.3, R9.4, R10.4: both resources together).
ImplementsCalendar == Calendar!Spec

\* An unpaid hold is given back after its deadline (releaseExpiredHolds).
ExpiredHoldIsReleased ==
  \A a \in Appt : Due(row[a], now) ~> row[a].status # "held"

\* Every window that an expired hold gives back is announced to the waitlist,
\* although the windows are read before the release, unless a process dies in
\* between (releaseExpiredHoldsAndNotify).
ExpiryIsAnnounced ==
  \A a \in Appt : row[a].status = "expired" ~> a \in announced \/ faults > 0

\* A booking request is answered, whatever the other requests store (the
\* bounded retries of book).
BookingIsAnswered == \A a \in Appt : booking[a].pc \in Underway ~> booking[a].pc = "done"
=============================================================================
