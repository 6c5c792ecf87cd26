----------------------- MODULE BookingLifecycle_proofs -----------------------
(***************************************************************************)
(* Machine-checked facts about the appointment lifecycle, for any salon,   *)
(* any number of requests and workers, and any offers: its types, that it  *)
(* implements the calendar of SlotCalendar, and what it promises about     *)
(* holds, no-shows and lost races.                                         *)
(***************************************************************************)
EXTENDS BookingLifecycle, FiniteSetTheorems, TLAPS

-----------------------------------------------------------------------------
(***************************************************************************)
(* Type correctness.                                                       *)
(***************************************************************************)

\* A list order over a finite set ranks its elements with natural numbers.
LEMMA OrdersRank ==
  ASSUME NEW S, IsFiniteSet(S)
  PROVE  Orders(S) \subseteq [S -> Nat]
  <1>1. Cardinality(S) \in Nat
    BY FS_CardinalityType
  <1>2. 1..Cardinality(S) \subseteq Nat
    BY <1>1
  <1>3. QED
    BY <1>2 DEF Orders

\* The ranks of the candidate pairs are pairs of natural numbers.
LEMMA StaffMajorType ==
  ASSUME NEW o \in Offers,
         NEW f \in StaffOrders(o), NEW g \in Orders(FreeChairs(o))
  PROVE  StaffMajor(o, f, g) \in [Pair -> Nat \X Nat]
  <1>1. IsFiniteSet(FreeStaff(o)) /\ IsFiniteSet(FreeChairs(o))
    <2>1. FreeStaff(o) \subseteq Staff /\ FreeChairs(o) \subseteq Chair
      BY BookingAssumption DEF FreeStaff, FreeChairs, OfferType
    <2>2. QED
      BY <2>1, BookingAssumption, FS_Subset
  <1>2. f \in [FreeStaff(o) -> Nat] /\ g \in [FreeChairs(o) -> Nat]
    BY <1>1, OrdersRank DEF StaffOrders
  <1>3. \A p \in CandidatePairs(o) : f[p.staff] \in Nat /\ g[p.chair] \in Nat
    BY <1>2 DEF CandidatePairs
  <1>4. QED
    BY <1>3 DEF StaffMajor

\* What a request inserts is a row.
LEMMA NewRowType ==
  ASSUME TypeOK, NEW o \in Offers, NEW p \in Pair
  PROVE  NewRow(o, p) \in Row
  <1>1. o \in OfferType
    BY BookingAssumption
  <1>2. o.start \in Nat /\ o.end \in Nat /\ p.staff \in Staff /\ p.chair \in Chair
    BY <1>1 DEF OfferType, Pair
  <1>3. InitialStatus(o, p.staff) \in ApptStatus
    BY DEF InitialStatus, ApptStatus
  <1>4. now + HoldFor(o) \in Nat
    BY BookingAssumption DEF HoldFor, TypeOK
  <1>5. QED
    BY <1>2, <1>3, <1>4 DEF NewRow, Row

\* Storing a row keeps the table well-typed.
LEMMA StoreRowType ==
  ASSUME TableTypeOK, NEW a \in Appt, NEW r \in Row, StoreRow(a, r)
  PROVE  TableTypeOK'
  BY DEF TableTypeOK, StoreRow

\* Moving a well-typed stored row to another status keeps it well-typed.
LEMMA WithStatusType ==
  ASSUME NEW r \in Row, NEW s \in ApptStatus
  PROVE  /\ WithStatus(r, s) \in Row
         /\ [r EXCEPT !.status = s, !.holdExpiresAt = Null] \in Row
  BY DEF WithStatus, Row

(***************************************************************************)
(* TypeOK is not inductive: an update keeps the columns it does not set,   *)
(* so it must be known that the row it names was inserted.                 *)
(***************************************************************************)
CallsHaveRow == \A c \in Call : call[c] # NoCall => Exists(call[c].appt)

TypeInv == TypeOK /\ CallsHaveRow

\* A call in flight names a stored row.
LEMMA TargetIsRow ==
  ASSUME TypeInv, NEW c \in Call, call[c].op # "none"
  PROVE  call[c].appt \in Appt /\ Target(c) \in Row
  <1>1. call[c] # NoCall
    BY DEF NoCall
  <1>2. call[c].appt \in Appt /\ Exists(call[c].appt)
    BY <1>1 DEF TypeInv, TypeOK, CallsHaveRow
  <1>3. QED
    BY <1>2 DEF TypeInv, TypeOK, TableTypeOK, Target, Exists, AbsentRow

LEMMA TypeInit == Init => TypeInv
  <1> SUFFICES ASSUME Init
               PROVE  TypeInv
    OBVIOUS
  <1>1. TableTypeOK
    BY DEF Init, TableTypeOK
  <1>2. NoBooking.rank \in [Pair -> Nat \X Nat]
    BY DEF NoBooking
  <1>3. TypeOK
    BY <1>1, <1>2, BookingAssumption DEF Init, TypeOK, NoBooking, BookingRecord, NoCall, NoSweep, Underway
  <1>4. CallsHaveRow
    BY DEF Init, CallsHaveRow
  <1>5. QED
    BY <1>3, <1>4 DEF TypeInv

\* Answering a booking request leaves a well-typed record of it.
LEMMA AnswerType ==
  ASSUME TypeOK, NEW a \in Appt, NEW res \in Results, Answer(a, res)
  PROVE  /\ booking' \in [Appt -> BookingRecord]
         /\ \A b \in Appt : booking'[b].pc \in Underway => booking'[b].offer # Null
  <1>1. booking[a] \in BookingRecord
    BY DEF TypeOK
  <1>2. /\ [booking[a] EXCEPT !.pc = "done", !.result = res] \in BookingRecord
        /\ [booking[a] EXCEPT !.pc = "done", !.result = res].pc = "done"
    BY <1>1 DEF BookingRecord
  <1>3. QED
    BY <1>2 DEF Answer, TypeOK, Underway

\* A booking request keeps the types, and never touches a stored row.
LEMMA BookStepType ==
  ASSUME TypeInv, NEW a \in Appt, BookStep(a)
  PROVE  TypeInv'
  <1> USE DEF TypeInv
  <1>1. CASE BookNoAvailability(a)
    <2>1. PICK o \in Offers :
            /\ booking' = [booking EXCEPT ![a] =
                 [NoBooking EXCEPT !.pc = "done", !.offer = o, !.result = "no_availability"]]
            /\ UNCHANGED <<row, now, call, sweep, noShowCount, announced, faults>>
      BY <1>1 DEF BookNoAvailability
    <2>3. TypeOK'
      BY <2>1 DEF TypeOK, TableTypeOK, NoBooking, BookingRecord, Results, Underway
    <2>4. QED
      BY <2>1, <2>3 DEF CallsHaveRow, Exists
  <1>2. CASE BookRead(a)
    <2>0. PICK o \in Offers :
            /\ \E f \in StaffOrders(o), g \in Orders(FreeChairs(o)) :
                 booking' = [booking EXCEPT ![a] =
                   [NoBooking EXCEPT !.pc = "insert", !.offer = o,
                                     !.open = CandidatePairs(o),
                                     !.rank = StaffMajor(o, f, g)]]
            /\ UNCHANGED <<row, now, call, sweep, noShowCount, announced, faults>>
      BY <1>2 DEF BookRead
    <2>1. PICK f \in StaffOrders(o), g \in Orders(FreeChairs(o)) :
            booking' = [booking EXCEPT ![a] =
                 [NoBooking EXCEPT !.pc = "insert", !.offer = o,
                                   !.open = CandidatePairs(o),
                                   !.rank = StaffMajor(o, f, g)]]
      BY <2>0
    <2>2. StaffMajor(o, f, g) \in [Pair -> Nat \X Nat]
      BY StaffMajorType
    <2>3. CandidatePairs(o) \subseteq Pair
      BY DEF CandidatePairs
    <2>4. o # Null
      BY BookingAssumption
    <2>5. TypeOK'
      BY <2>0, <2>1, <2>2, <2>3, <2>4 DEF TypeOK, TableTypeOK, NoBooking, BookingRecord, Results, Underway
    <2>6. QED
      BY <2>0, <2>5 DEF CallsHaveRow, Exists
  <1>3. CASE BookInsert(a)
    <2>1. PICK p \in Pair :
            /\ StoreRow(a, NewRow(booking[a].offer, p))
            /\ booking' = [booking EXCEPT ![a] = [booking[a] EXCEPT !.pc = "services"]]
            /\ UNCHANGED <<now, call, sweep, noShowCount, announced, faults>>
      BY <1>3 DEF BookInsert
    <2>2. booking[a].offer \in Offers
      BY <1>3 DEF BookInsert, TypeOK, BookingRecord, Underway
    <2>3. NewRow(booking[a].offer, p) \in Row
      BY <2>2, NewRowType
    <2>4. TableTypeOK'
      BY <2>1, <2>3, StoreRowType DEF TypeOK
    <2>5. /\ [booking[a] EXCEPT !.pc = "services"] \in BookingRecord
          /\ [booking[a] EXCEPT !.pc = "services"].offer # Null
      <3>1. booking[a] \in BookingRecord /\ booking[a].offer # Null
        BY <2>2, BookingAssumption DEF TypeOK
      <3>2. QED
        BY <3>1 DEF BookingRecord
    <2>6. TypeOK'
      BY <2>1, <2>4, <2>5 DEF TypeOK
    <2>7. \A b \in Appt : Exists(b) => Exists(b)'
      BY <2>1, <2>3 DEF StoreRow, Exists, Row, ApptStatus, TypeOK, TableTypeOK
    <2>8. QED
      BY <2>1, <2>6, <2>7 DEF CallsHaveRow, TypeOK, NoCall
  <1>4. CASE BookConflict(a)
    <2>1. PICK p \in Pair :
            /\ booking' = [booking EXCEPT ![a] =
                 [booking[a] EXCEPT !.open = booking[a].open \ {p},
                                    !.refused = booking[a].refused \cup {p}]]
            /\ UNCHANGED <<row, now, call, sweep, noShowCount, announced, faults>>
      BY <1>4 DEF BookConflict
    <2>2. booking[a] \in BookingRecord
      BY DEF TypeOK
    <2>3. /\ booking'[a] \in BookingRecord
          /\ booking'[a].pc = booking[a].pc
          /\ booking'[a].offer = booking[a].offer
      BY <2>1, <2>2 DEF BookingRecord, TypeOK
    <2>4. booking' \in [Appt -> BookingRecord]
      BY <2>1, <2>3 DEF TypeOK
    <2>5. \A b \in Appt : booking'[b].pc \in Underway => booking'[b].offer # Null
      BY <2>1, <2>3 DEF TypeOK
    <2>6. TypeOK'
      BY <2>1, <2>4, <2>5 DEF TypeOK, TableTypeOK
    <2>7. QED
      BY <2>1, <2>6 DEF CallsHaveRow, Exists
  <1>5. CASE BookExhausted(a)
    <2>1. TypeOK'
      BY <1>5, AnswerType DEF BookExhausted, TypeOK, TableTypeOK, Results
    <2>2. QED
      BY <1>5, <2>1 DEF BookExhausted, CallsHaveRow, Exists
  <1>6. CASE BookingDies(a)
    <2>1. faults' \in 0..MaxFaults
      BY <1>6, BookingAssumption DEF BookingDies, Fault, TypeOK
    <2>2. TypeOK'
      BY <1>6, <2>1, AnswerType DEF BookingDies, TypeOK, TableTypeOK, Results
    <2>3. QED
      BY <1>6, <2>2 DEF BookingDies, CallsHaveRow, Exists
  <1>7. CASE BookSaveServices(a)
    <2>1. InitialStatus(booking[a].offer, row[a].staff) \in Results
      BY DEF InitialStatus, Results
    <2>2. TypeOK'
      BY <1>7, <2>1, AnswerType DEF BookSaveServices, TypeOK, TableTypeOK
    <2>3. QED
      BY <1>7, <2>2 DEF BookSaveServices, CallsHaveRow, Exists
  <1>8. QED
    BY <1>1, <1>2, <1>3, <1>4, <1>5, <1>6, <1>7 DEF BookStep, BookProgress

\* A request that passed its checks is remembered with the row it read.
LEMMA ReadStepType ==
  ASSUME TypeInv, NEW c \in Call, NEW a \in Appt, ReadStep(c, a)
  PROVE  TypeInv'
  <1> USE DEF TypeInv
  <1>1. PICK op \in Ops, expected \in SUBSET ApptStatus : Passed(c, op, a, expected)
    BY DEF ReadStep, ApproveRead, ConfirmHeldRead, RejectRead, CancelRead,
           NoShowRead, CompleteRead, Ops, ApptStatus
  <1>2. Exists(a)
    BY <1>1 DEF Passed, Exists, ApptStatus
  <1>3. TypeOK'
    BY <1>1 DEF Passed, TypeOK, TableTypeOK
  <1>4. CallsHaveRow'
    BY <1>1, <1>2 DEF Passed, CallsHaveRow, Exists, TypeOK
  <1>5. QED
    BY <1>3, <1>4

\* Returning from a request, or going on to its next step, keeps the calls typed.
LEMMA CallType ==
  ASSUME TypeInv, NEW c \in Call, call[c] # NoCall,
         Return(c) \/ \E op \in Ops : Continue(c, op)
  PROVE  /\ call' \in [Call -> [op : Ops, appt : Appt] \cup {NoCall}]
         /\ \A d \in Call : call'[d] # NoCall => call'[d].appt = call[d].appt /\ call[d] # NoCall
  <1> USE DEF TypeInv, TypeOK
  <1>1. call[c] \in [op : Ops, appt : Appt]
    OBVIOUS
  <1>2. CASE Return(c)
    BY <1>2 DEF Return
  <1>3. CASE \E op \in Ops : Continue(c, op)
    <2>1. PICK op \in Ops : call' = [call EXCEPT ![c] = [call[c] EXCEPT !.op = op]]
      BY <1>3 DEF Continue
    <2>2. /\ [call[c] EXCEPT !.op = op] \in [op : Ops, appt : Appt]
          /\ [call[c] EXCEPT !.op = op].appt = call[c].appt
      BY <1>1
    <2>3. QED
      BY <2>1, <2>2
  <1>4. QED
    BY <1>2, <1>3

\* The update of a request stores a row in place of a stored row.
LEMMA UpdateType ==
  ASSUME TypeInv, NEW c \in Call, NEW r \in Row, call[c] # NoCall,
         StoreRow(call[c].appt, r)
  PROVE  TableTypeOK' /\ \A b \in Appt : Exists(b) => Exists(b)'
  <1>1. call[c].appt \in Appt
    BY DEF TypeInv, TypeOK
  <1>2. r.status # "absent"
    BY DEF Row, ApptStatus
  <1>3. QED
    BY <1>1, <1>2, StoreRowType DEF StoreRow, Exists, TypeInv, TypeOK, TableTypeOK

\* Every write of a request replaces the row it names by a row.
LEMMA WriteIsUpdate ==
  ASSUME TypeInv, NEW c \in Call,
         \/ ApproveWrite(c) \/ ConfirmHeldWrite(c) \/ RejectWrite(c)
         \/ CancelWrite(c) \/ NoShowWrite(c) \/ CompleteWrite(c)
  PROVE  /\ call[c] # NoCall
         /\ \E r \in Row : StoreRow(call[c].appt, r)
         /\ Return(c) \/ \E op \in Ops : Continue(c, op)
         /\ UNCHANGED <<now, booking, sweep, noShowCount, announced, faults>>
  <1>1. call[c].op # "none" /\ call[c] # NoCall
    BY DEF ApproveWrite, ConfirmHeldWrite, RejectWrite, CancelWrite, NoShowWrite,
           CompleteWrite, Update, NoCall
  <1>2. Target(c) \in Row
    BY <1>1, TargetIsRow
  <1>3. \A s \in ApptStatus :
          /\ WithStatus(Target(c), s) \in Row
          /\ [Target(c) EXCEPT !.status = s, !.holdExpiresAt = Null] \in Row
    BY <1>2, WithStatusType
  <1>4. \E r \in Row : StoreRow(call[c].appt, r)
    BY <1>3 DEF ApproveWrite, ConfirmHeldWrite, RejectWrite, CancelWrite, NoShowWrite,
                CompleteWrite, Update, Confirmed, ApptStatus
  <1>5. Return(c) \/ \E op \in Ops : Continue(c, op)
    BY DEF ApproveWrite, ConfirmHeldWrite, RejectWrite, CancelWrite, NoShowWrite,
           CompleteWrite, Ops
  <1>6. QED
    BY <1>1, <1>4, <1>5 DEF ApproveWrite, ConfirmHeldWrite, RejectWrite, CancelWrite,
                            NoShowWrite, CompleteWrite, Update

LEMMA WriteStepType ==
  ASSUME TypeInv, NEW c \in Call, WriteStep(c)
  PROVE  TypeInv'
  <1> USE DEF TypeInv
  <1>1. CASE \/ ApproveWrite(c) \/ ConfirmHeldWrite(c) \/ RejectWrite(c)
             \/ CancelWrite(c) \/ NoShowWrite(c) \/ CompleteWrite(c)
    <2>1. /\ call[c] # NoCall
          /\ \E r \in Row : StoreRow(call[c].appt, r)
          /\ Return(c) \/ \E op \in Ops : Continue(c, op)
          /\ UNCHANGED <<now, booking, sweep, noShowCount, announced, faults>>
      BY <1>1, WriteIsUpdate
    <2>2. TableTypeOK' /\ \A b \in Appt : Exists(b) => Exists(b)'
      BY <2>1, UpdateType
    <2>3. /\ call' \in [Call -> [op : Ops, appt : Appt] \cup {NoCall}]
          /\ \A d \in Call :
               call'[d] # NoCall => call'[d].appt = call[d].appt /\ call[d] # NoCall
      BY <2>1, CallType
    <2>4. TypeOK'
      BY <2>1, <2>2, <2>3 DEF TypeOK
    <2>5. QED
      BY <2>2, <2>3, <2>4 DEF CallsHaveRow, TypeOK
  <1>2. CASE CancelAnnounce(c) \/ CountNoShow(c) \/ UpdateRefused(c) \/ CallDies(c)
    <2>1. call[c] # NoCall /\ Return(c) /\ UNCHANGED <<row, now, booking, sweep>>
      BY <1>2 DEF CancelAnnounce, CountNoShow, UpdateRefused, CallDies, NoCall
    <2>2. /\ call' \in [Call -> [op : Ops, appt : Appt] \cup {NoCall}]
          /\ \A d \in Call :
               call'[d] # NoCall => call'[d].appt = call[d].appt /\ call[d] # NoCall
      BY <2>1, CallType
    <2>3. call[c].appt \in Appt
      BY <2>1 DEF TypeOK
    <2>4. noShowCount' \in [Appt -> Nat] /\ announced' \subseteq Appt /\ faults' \in 0..MaxFaults
      BY <1>2, <2>3, BookingAssumption
         DEF CancelAnnounce, CountNoShow, UpdateRefused, CallDies, Fault, TypeOK
    <2>5. TypeOK'
      BY <2>1, <2>2, <2>4 DEF TypeOK, TableTypeOK
    <2>6. QED
      BY <2>1, <2>2, <2>5 DEF CallsHaveRow, Exists
  <1>3. QED
    BY <1>1, <1>2 DEF WriteStep

\* A maintenance pass keeps every row in the table and well-typed.
LEMMA WorkerStepType ==
  ASSUME TypeInv, NEW w \in Worker, WorkerStep(w)
  PROVE  TypeInv'
  <1> USE DEF TypeInv
  <1>1. CASE SweepRead(w)
    <2>1. TypeOK'
      BY <1>1 DEF SweepRead, TypeOK, TableTypeOK
    <2>2. QED
      BY <1>1, <2>1 DEF SweepRead, CallsHaveRow, Exists
  <1>2. CASE SweepRelease(w)
    <2>1. \A a \in Appt : Due(row[a], sweep[w].at) =>
            [row[a] EXCEPT !.status = "expired"] \in Row
      BY DEF TypeOK, TableTypeOK, Due, AbsentRow, Row, ApptStatus
    <2>2. TableTypeOK'
      BY <1>2, <2>1 DEF SweepRelease, TypeOK, TableTypeOK
    <2>3. sweep' \in [Worker -> [ pc      : {"idle", "release", "notify"},
                                  at      : 0..MaxTime,
                                  windows : SUBSET Appt ]]
      BY <1>2 DEF SweepRelease, TypeOK
    <2>4. TypeOK'
      BY <1>2, <2>2, <2>3 DEF SweepRelease, TypeOK
    <2>5. \A a \in Appt : Exists(a) => Exists(a)'
      BY <1>2, <2>1 DEF SweepRelease, Exists, Row, ApptStatus
    <2>6. QED
      BY <1>2, <2>4, <2>5 DEF SweepRelease, CallsHaveRow, TypeOK
  <1>3. CASE SweepNotify(w) \/ WorkerDies(w)
    <2>1. NoSweep \in [ pc      : {"idle", "release", "notify"},
                        at      : 0..MaxTime,
                        windows : SUBSET Appt ]
      BY BookingAssumption DEF NoSweep
    <2>2. faults' \in 0..MaxFaults /\ announced' \subseteq Appt
      BY <1>3, BookingAssumption DEF SweepNotify, WorkerDies, Fault, TypeOK
    <2>3. TypeOK'
      BY <1>3, <2>1, <2>2 DEF SweepNotify, WorkerDies, TypeOK, TableTypeOK
    <2>4. QED
      BY <1>3, <2>3 DEF SweepNotify, WorkerDies, CallsHaveRow, Exists
  <1>4. QED
    BY <1>1, <1>2, <1>3 DEF WorkerStep

LEMMA TypeStep ==
  ASSUME TypeInv, [Next]_vars
  PROVE  TypeInv'
  <1>1. CASE Tick
    <2>1. now' \in 0..MaxTime
      BY <1>1, BookingAssumption DEF Tick, TypeInv, TypeOK
    <2>2. QED
      BY <1>1, <2>1 DEF Tick, TypeInv, TypeOK, TableTypeOK, CallsHaveRow, Exists
  <1>2. CASE \E a \in Appt : BookStep(a)
    BY <1>2, BookStepType
  <1>3. CASE \E c \in Call : WriteStep(c) \/ \E a \in Appt : ReadStep(c, a)
    BY <1>3, WriteStepType, ReadStepType
  <1>4. CASE \E w \in Worker : WorkerStep(w)
    BY <1>4, WorkerStepType
  <1>5. CASE UNCHANGED vars
    BY <1>5 DEF vars, TypeInv, TypeOK, TableTypeOK, CallsHaveRow, Exists
  <1>6. QED
    BY <1>1, <1>2, <1>3, <1>4, <1>5 DEF Next

\* Every reachable state of the lifecycle is well-typed, and every call in
\* flight names a stored row: rows are inserted once and never deleted.
THEOREM TypeCorrect == Spec => []TypeInv
  <1>1. Init => TypeInv
    BY TypeInit
  <1>2. TypeInv /\ [Next]_vars => TypeInv'
    BY TypeStep
  <1>3. QED
    BY <1>1, <1>2, PTL DEF Spec

\* The invariant the runs check (rows, requests, workers and counters hold values
\* of their types), for every salon.
THEOREM TypeOKCorrect == Spec => []TypeOK
  <1>1. TypeInv => TypeOK
    BY DEF TypeInv
  <1>2. QED
    BY <1>1, TypeCorrect, PTL

-----------------------------------------------------------------------------
(***************************************************************************)
(* The calendar.  The database admits a row only beside the rows that are  *)
(* there, so one admissible write keeps the calendar free of double        *)
(* bookings: nothing need be known of what the request had read before.    *)
(***************************************************************************)

\* Storing one admissible row keeps the calendar free of double bookings.
LEMMA StoreRowKeepsCalendar ==
  ASSUME NoDoubleBooking, TableTypeOK, NEW a \in Appt, NEW r, StoreRow(a, r)
  PROVE  NoDoubleBooking'
  <1>1. /\ row'[a] = r
        /\ \A b \in Appt \ {a} : row'[b] = row[b] /\ ~Excludes(r, row[b])
    BY DEF StoreRow, Admissible, TableTypeOK
  <1>2. SUFFICES ASSUME NEW x \in Appt, NEW y \in Appt, x # y,
                        row'[x].status \in Reserving, row'[y].status \in Reserving,
                        Overlap(row'[x], row'[y])
                 PROVE  ~SharesResource(row'[x], row'[y])
    BY DEF NoDoubleBooking
  <1>3. CASE x = a
    BY <1>1, <1>2, <1>3 DEF Excludes, Constrained, Reserving
  <1>4. CASE y = a
    BY <1>1, <1>2, <1>4 DEF Excludes, Constrained, Reserving, Overlap, SharesResource
  <1>5. CASE x # a /\ y # a
    BY <1>1, <1>2, <1>5 DEF NoDoubleBooking
  <1>6. QED
    BY <1>3, <1>4, <1>5

\* A maintenance pass only gives slots back.
LEMMA ReleaseKeepsCalendar ==
  ASSUME NoDoubleBooking, TableTypeOK, NEW w \in Worker, SweepRelease(w)
  PROVE  NoDoubleBooking'
  <1>1. \A a \in Appt : row'[a].status \in Reserving => row'[a] = row[a]
    BY DEF SweepRelease, Reserving, TableTypeOK, Row, Due, AbsentRow
  <1>2. QED
    BY <1>1 DEF NoDoubleBooking

\* A step either leaves the table alone, stores one row, or is the release of a
\* maintenance pass.
LEMMA TableSteps ==
  ASSUME TypeInv, [Next]_vars
  PROVE  \/ UNCHANGED row
         \/ \E a \in Appt : BookInsert(a)
         \/ \E c \in Call : call[c] # NoCall /\ \E r \in Row : StoreRow(call[c].appt, r)
         \/ \E w \in Worker : SweepRelease(w)
  <1>1. CASE Tick \/ UNCHANGED vars
    BY <1>1 DEF Tick, vars
  <1>2. ASSUME NEW a \in Appt, BookStep(a)
        PROVE  UNCHANGED row \/ BookInsert(a)
    BY <1>2 DEF BookStep, BookProgress, BookNoAvailability, BookRead, BookConflict,
                BookExhausted, BookSaveServices, BookingDies
  <1>3. ASSUME NEW c \in Call, NEW a \in Appt, ReadStep(c, a)
        PROVE  UNCHANGED row
    BY <1>3 DEF ReadStep, ApproveRead, ConfirmHeldRead, RejectRead, CancelRead,
                NoShowRead, CompleteRead, Passed
  <1>4. ASSUME NEW c \in Call, WriteStep(c)
        PROVE  UNCHANGED row \/ (call[c] # NoCall /\ \E r \in Row : StoreRow(call[c].appt, r))
    <2>1. CASE CancelAnnounce(c) \/ CountNoShow(c) \/ UpdateRefused(c) \/ CallDies(c)
      BY <2>1 DEF CancelAnnounce, CountNoShow, UpdateRefused, CallDies
    <2>2. QED
      BY <1>4, <2>1, WriteIsUpdate DEF WriteStep
  <1>5. ASSUME NEW w \in Worker, WorkerStep(w)
        PROVE  UNCHANGED row \/ SweepRelease(w)
    BY <1>5 DEF WorkerStep, SweepRead, SweepNotify, WorkerDies
  <1>6. QED
    BY <1>1, <1>2, <1>3, <1>4, <1>5 DEF Next

\* No step of the lifecycle makes a double booking.
LEMMA CalendarStep ==
  ASSUME TypeInv, NoDoubleBooking, [Next]_vars
  PROVE  NoDoubleBooking'
  <1>1. TableTypeOK
    BY DEF TypeInv, TypeOK
  <1>2. CASE UNCHANGED row
    BY <1>2 DEF NoDoubleBooking
  <1>3. ASSUME NEW a \in Appt, BookInsert(a)
        PROVE  NoDoubleBooking'
    BY <1>1, <1>3, StoreRowKeepsCalendar DEF BookInsert
  <1>4. ASSUME NEW c \in Call, call[c] # NoCall, NEW r \in Row, StoreRow(call[c].appt, r)
        PROVE  NoDoubleBooking'
    <2>1. call[c].appt \in Appt
      BY <1>4 DEF TypeInv, TypeOK
    <2>2. QED
      BY <1>1, <1>4, <2>1, StoreRowKeepsCalendar
  <1>5. ASSUME NEW w \in Worker, SweepRelease(w)
        PROVE  NoDoubleBooking'
    BY <1>1, <1>5, ReleaseKeepsCalendar
  <1>6. QED
    BY <1>2, <1>3, <1>4, <1>5, TableSteps

\* No staff member and no chair is ever in two appointments at a time, for any
\* number of booking requests, staff operations, cancellations and maintenance
\* workers, in any interleaving and with any of them dying half-way.
THEOREM NoDoubleBookingCorrect == Spec => []NoDoubleBooking
  <1>1. Init => NoDoubleBooking
    BY DEF Init, NoDoubleBooking, AbsentRow, Reserving
  <1>2. TypeInv /\ NoDoubleBooking /\ [Next]_vars => NoDoubleBooking'
    BY CalendarStep
  <1>3. QED
    BY <1>1, <1>2, TypeCorrect, PTL DEF Spec

-----------------------------------------------------------------------------
(***************************************************************************)
(* A request inserts its row once: until then the row is absent and        *)
(* reserves nothing.                                                       *)
(***************************************************************************)
InsertedOnce == \A a \in Appt : booking[a].pc \in {"idle", "insert"} => row[a] = AbsentRow

\* Two rows with the same interval and resources.
SameSlot(x, y) ==
  x.staff = y.staff /\ x.chair = y.chair /\ x.start = y.start /\ x.end = y.end

(***************************************************************************)
(* Every step of the lifecycle is one of five kinds.  The proofs below     *)
(* split on them.                                                          *)
(***************************************************************************)
Quiet == UNCHANGED <<row, booking>> /\ now <= now'

Insertion(a) ==
  /\ booking[a].pc = "insert"
  /\ booking'[a].pc = "services"
  /\ booking'[a].offer = booking[a].offer
  /\ booking[a].offer \in Offers
  /\ \A b \in Appt \ {a} : booking'[b] = booking[b]
  /\ \E p \in Pair : /\ StoreRow(a, NewRow(booking[a].offer, p))
                     /\ NewRow(booking[a].offer, p) \in Row
  /\ now' = now

Deliberation(a) ==
  /\ \/ booking[a].pc \in {"idle", "insert"}
     \/ booking'[a].pc = "done" /\ booking'[a].offer = booking[a].offer
  /\ \A b \in Appt \ {a} : booking'[b] = booking[b]
  /\ UNCHANGED <<row, now>>

Change(c) ==
  /\ call[c].appt \in Appt
  /\ row[call[c].appt] \in Row
  /\ \E r \in Row :
       /\ StoreRow(call[c].appt, r)
       /\ SameSlot(r, row[call[c].appt])
       /\ \/ r.status \in {"cancelled", "completed"}
          \/ r.status = "no_show" /\ call[c].op = "noShow"
          \/ /\ r.status = "confirmed" /\ r.holdExpiresAt = Null
             /\ call[c].op \in {"approve", "confirmHeld"}
  /\ UNCHANGED <<now, booking>>

Expiry ==
  /\ \A a \in Appt :
       \/ row'[a] = row[a]
       \/ /\ row[a] \in Row /\ row[a].status = "held"
          /\ row'[a] = [row[a] EXCEPT !.status = "expired"]
          /\ row'[a].status = "expired"
          /\ row'[a].start = row[a].start
          /\ row'[a].holdExpiresAt = row[a].holdExpiresAt
  /\ UNCHANGED <<now, booking>>

\* A booking request inserts a row that was not there.
LEMMA BookInsertEffect ==
  ASSUME TypeInv, NEW a \in Appt, BookInsert(a)
  PROVE  Insertion(a)
  <1>1. /\ booking[a] \in BookingRecord
        /\ booking[a].offer \in Offers
        /\ booking[a].pc = "insert"
    BY DEF BookInsert, TypeInv, TypeOK, BookingRecord, Underway
  <1>2. PICK p \in Pair :
          /\ StoreRow(a, NewRow(booking[a].offer, p))
          /\ booking' = [booking EXCEPT ![a] = [booking[a] EXCEPT !.pc = "services"]]
    BY DEF BookInsert
  <1>3. /\ [booking[a] EXCEPT !.pc = "services"].pc = "services"
        /\ [booking[a] EXCEPT !.pc = "services"].offer = booking[a].offer
    BY <1>1 DEF BookingRecord
  <1>4. NewRow(booking[a].offer, p) \in Row
    BY <1>1, NewRowType DEF TypeInv
  <1>5. QED
    BY <1>1, <1>2, <1>3, <1>4 DEF Insertion, BookInsert, TypeInv, TypeOK

\* The other steps of a booking request leave the table alone, and end the
\* request when its row is there.
LEMMA BookOtherEffect ==
  ASSUME TypeInv, NEW a \in Appt, BookStep(a), ~BookInsert(a)
  PROVE  Deliberation(a)
  <1>1. booking[a] \in BookingRecord
    BY DEF TypeInv, TypeOK
  <1>2. \A res : /\ [booking[a] EXCEPT !.pc = "done", !.result = res].pc = "done"
                 /\ [booking[a] EXCEPT !.pc = "done", !.result = res].offer = booking[a].offer
    BY <1>1 DEF BookingRecord
  <1>3. CASE BookSaveServices(a) \/ BookingDies(a)
    <2>1. PICK res \in Results : Answer(a, res) /\ UNCHANGED <<row, now>>
      BY <1>3 DEF BookSaveServices, BookingDies, InitialStatus, Results
    <2>2. QED
      BY <1>2, <2>1 DEF Answer, Deliberation, TypeInv, TypeOK
  <1>4. CASE BookNoAvailability(a) \/ BookRead(a) \/ BookConflict(a) \/ BookExhausted(a)
    BY <1>4 DEF BookNoAvailability, BookRead, BookConflict, BookExhausted, Answer,
                Deliberation, TypeInv, TypeOK
  <1>5. QED
    BY <1>3, <1>4 DEF BookStep, BookProgress

\* What the two forms of an update give the columns of a row.
LEMMA WithStatusFields ==
  ASSUME NEW r \in Row, NEW s \in ApptStatus
  PROVE  /\ WithStatus(r, s) \in Row
         /\ WithStatus(r, s).status = s
         /\ SameSlot(WithStatus(r, s), r)
         /\ [r EXCEPT !.status = s, !.holdExpiresAt = Null] \in Row
         /\ [r EXCEPT !.status = s, !.holdExpiresAt = Null].status = s
         /\ [r EXCEPT !.status = s, !.holdExpiresAt = Null].holdExpiresAt = Null
         /\ SameSlot([r EXCEPT !.status = s, !.holdExpiresAt = Null], r)
  BY DEF WithStatus, Row, SameSlot

\* A write of a request keeps the interval and the resources of its row, and
\* either leaves the status or moves it to one the request may give.
LEMMA WriteEffect ==
  ASSUME TypeInv, NEW c \in Call,
         \/ ApproveWrite(c) \/ ConfirmHeldWrite(c) \/ RejectWrite(c)
         \/ CancelWrite(c) \/ NoShowWrite(c) \/ CompleteWrite(c)
  PROVE  Change(c)
  <1>1. call[c].op # "none"
    BY DEF ApproveWrite, ConfirmHeldWrite, RejectWrite, CancelWrite, NoShowWrite,
           CompleteWrite, Update, NoCall
  <1>2. call[c].appt \in Appt /\ Target(c) \in Row
    BY <1>1, TargetIsRow
  <1>3. \A s \in ApptStatus :
          /\ WithStatus(Target(c), s) \in Row
          /\ WithStatus(Target(c), s).status = s
          /\ SameSlot(WithStatus(Target(c), s), Target(c))
          /\ [Target(c) EXCEPT !.status = s, !.holdExpiresAt = Null] \in Row
          /\ [Target(c) EXCEPT !.status = s, !.holdExpiresAt = Null].status = s
          /\ [Target(c) EXCEPT !.status = s, !.holdExpiresAt = Null].holdExpiresAt = Null
          /\ SameSlot([Target(c) EXCEPT !.status = s, !.holdExpiresAt = Null], Target(c))
    BY <1>2, WithStatusFields
  <1>4. CASE ApproveWrite(c) \/ ConfirmHeldWrite(c)
    <2> DEFINE r == Confirmed(Target(c))
    <2>1. /\ StoreRow(call[c].appt, r) /\ UNCHANGED <<now, booking>>
          /\ call[c].op \in {"approve", "confirmHeld"}
      BY <1>4 DEF ApproveWrite, ConfirmHeldWrite, Update
    <2>2. /\ r \in Row /\ SameSlot(r, Target(c))
          /\ r.status = "confirmed" /\ r.holdExpiresAt = Null
      BY <1>3 DEF Confirmed, ApptStatus
    <2> HIDE DEF r
    <2>3. QED
      BY <1>2, <2>1, <2>2 DEF Target, Change
  <1>5. CASE RejectWrite(c)
    <2> DEFINE r == [Target(c) EXCEPT !.status = "cancelled", !.holdExpiresAt = Null]
    <2>1. StoreRow(call[c].appt, r) /\ UNCHANGED <<now, booking>>
      BY <1>5 DEF RejectWrite, Update
    <2>2. /\ r \in Row /\ SameSlot(r, Target(c))
          /\ r.status = "cancelled"
      BY <1>3 DEF ApptStatus
    <2> HIDE DEF r
    <2>3. QED
      BY <1>2, <2>1, <2>2 DEF Target, Change
  <1>6. CASE CancelWrite(c)
    <2> DEFINE r == WithStatus(Target(c), "cancelled")
    <2>1. StoreRow(call[c].appt, r) /\ UNCHANGED <<now, booking>>
      BY <1>6 DEF CancelWrite, Update
    <2>2. /\ r \in Row /\ SameSlot(r, Target(c))
          /\ r.status = "cancelled"
      BY <1>3 DEF ApptStatus
    <2> HIDE DEF r
    <2>3. QED
      BY <1>2, <2>1, <2>2 DEF Target, Change
  <1>7. CASE CompleteWrite(c)
    <2> DEFINE r == WithStatus(Target(c), "completed")
    <2>1. StoreRow(call[c].appt, r) /\ UNCHANGED <<now, booking>>
      BY <1>7 DEF CompleteWrite, Update
    <2>2. /\ r \in Row /\ SameSlot(r, Target(c))
          /\ r.status = "completed"
      BY <1>3 DEF ApptStatus
    <2> HIDE DEF r
    <2>3. QED
      BY <1>2, <2>1, <2>2 DEF Target, Change
  <1>8. CASE NoShowWrite(c)
    <2> DEFINE r == WithStatus(Target(c), "no_show")
    <2>1. StoreRow(call[c].appt, r) /\ UNCHANGED <<now, booking>> /\ call[c].op = "noShow"
      BY <1>8 DEF NoShowWrite, Update
    <2>2. /\ r \in Row /\ SameSlot(r, Target(c))
          /\ r.status = "no_show"
      BY <1>3 DEF ApptStatus
    <2> HIDE DEF r
    <2>3. QED
      BY <1>2, <2>1, <2>2 DEF Target, Change
  <1>9. QED
    BY <1>4, <1>5, <1>6, <1>7, <1>8

\* The steps of a request that are not updates leave the table alone.
LEMMA WriteOtherEffect ==
  ASSUME NEW c \in Call,
         CancelAnnounce(c) \/ CountNoShow(c) \/ UpdateRefused(c) \/ CallDies(c)
  PROVE  UNCHANGED <<row, now, booking>>
  BY DEF CancelAnnounce, CountNoShow, UpdateRefused, CallDies

\* A maintenance pass turns held rows into expired ones and touches nothing else.
LEMMA SweepEffect ==
  ASSUME TypeInv, NEW w \in Worker, SweepRelease(w)
  PROVE  Expiry
  <1>1. \A a \in Appt : Due(row[a], sweep[w].at) => row[a] \in Row /\ row[a].status = "held"
    BY DEF Due, TypeInv, TypeOK, TableTypeOK, AbsentRow
  <1>2. \A r \in Row : /\ [r EXCEPT !.status = "expired"].status = "expired"
                       /\ [r EXCEPT !.status = "expired"].start = r.start
                       /\ [r EXCEPT !.status = "expired"].holdExpiresAt = r.holdExpiresAt
    BY DEF Row
  <1>3. QED
    BY <1>1, <1>2 DEF SweepRelease, Expiry

\* The other steps of a worker change neither the table nor a request.
LEMMA WorkerOtherEffect ==
  ASSUME NEW w \in Worker, WorkerStep(w), ~SweepRelease(w)
  PROVE  UNCHANGED <<row, now, booking, call>>
  BY DEF WorkerStep, SweepRead, SweepNotify, WorkerDies

\* A request that reads a row changes nothing but itself.
LEMMA ReadEffect ==
  ASSUME NEW c \in Call, NEW a \in Appt, ReadStep(c, a)
  PROVE  UNCHANGED <<row, now, booking>>
  BY DEF ReadStep, ApproveRead, ConfirmHeldRead, RejectRead, CancelRead,
         NoShowRead, CompleteRead, Passed

\* The five kinds cover the next-state relation.
LEMMA StepKinds ==
  ASSUME TypeInv, [Next]_vars
  PROVE  \/ Quiet
         \/ \E a \in Appt : Insertion(a) \/ Deliberation(a)
         \/ \E c \in Call : Change(c)
         \/ Expiry
  <1>1. now \in Int
    BY BookingAssumption DEF TypeInv, TypeOK
  <1>2. CASE Tick \/ UNCHANGED vars
    BY <1>1, <1>2 DEF Tick, vars, Quiet
  <1>3. ASSUME NEW a \in Appt, BookStep(a)
        PROVE  Insertion(a) \/ Deliberation(a)
    <2>1. CASE BookInsert(a)
      BY <2>1, BookInsertEffect
    <2>2. CASE ~BookInsert(a)
      BY <1>3, <2>2, BookOtherEffect
    <2>3. QED
      BY <2>1, <2>2
  <1>4. ASSUME NEW c \in Call, WriteStep(c)
        PROVE  Quiet \/ Change(c)
    <2>1. CASE CancelAnnounce(c) \/ CountNoShow(c) \/ UpdateRefused(c) \/ CallDies(c)
      BY <1>1, <2>1, WriteOtherEffect DEF Quiet
    <2>2. CASE \/ ApproveWrite(c) \/ ConfirmHeldWrite(c) \/ RejectWrite(c)
               \/ CancelWrite(c) \/ NoShowWrite(c) \/ CompleteWrite(c)
      BY <2>2, WriteEffect
    <2>3. QED
      BY <1>4, <2>1, <2>2 DEF WriteStep
  <1>5. ASSUME NEW c \in Call, NEW a \in Appt, ReadStep(c, a)
        PROVE  Quiet
    BY <1>1, <1>5, ReadEffect DEF Quiet
  <1>6. ASSUME NEW w \in Worker, WorkerStep(w)
        PROVE  Quiet \/ Expiry
    <2>1. CASE SweepRelease(w)
      BY <2>1, SweepEffect
    <2>2. CASE ~SweepRelease(w)
      BY <1>1, <1>6, <2>2, WorkerOtherEffect DEF Quiet
    <2>3. QED
      BY <2>1, <2>2
  <1>7. QED
    BY <1>2, <1>3, <1>4, <1>5, <1>6 DEF Next

LEMMA InsertedOnceStep ==
  ASSUME TypeInv, InsertedOnce, [Next]_vars
  PROVE  InsertedOnce'
  <1>1. CASE Quiet
    BY <1>1 DEF Quiet, InsertedOnce
  <1>2. ASSUME NEW a \in Appt, Insertion(a)
        PROVE  InsertedOnce'
    BY <1>2 DEF Insertion, InsertedOnce, StoreRow
  <1>3. ASSUME NEW a \in Appt, Deliberation(a)
        PROVE  InsertedOnce'
    BY <1>3 DEF Deliberation, InsertedOnce
  <1>4. ASSUME NEW c \in Call, Change(c)
        PROVE  InsertedOnce'
    BY <1>4 DEF Change, InsertedOnce, StoreRow, AbsentRow, Row, ApptStatus
  <1>5. CASE Expiry
    <2>1. \A a \in Appt : row[a] = AbsentRow => row[a].status # "held"
      BY DEF AbsentRow
    <2>2. QED
      BY <1>5, <2>1 DEF Expiry, InsertedOnce
  <1>6. QED
    BY <1>1, <1>2, <1>3, <1>4, <1>5, StepKinds

LEMMA InsertedOnceCorrect == Spec => []InsertedOnce
  <1>1. Init => InsertedOnce
    BY DEF Init, InsertedOnce
  <1>2. TypeInv /\ InsertedOnce /\ [Next]_vars => InsertedOnce'
    BY InsertedOnceStep
  <1>3. QED
    BY <1>1, <1>2, TypeCorrect, PTL DEF Spec

-----------------------------------------------------------------------------
(***************************************************************************)
(* Refinement.                                                             *)
(***************************************************************************)

\* Storing a reserving row over one that reserves nothing takes a free slot.
LEMMA StoreTakes ==
  ASSUME TableTypeOK, NEW a \in Appt, NEW r \in Row, StoreRow(a, r),
         r.status \in Reserving, row[a].status \notin Reserving
  PROVE  Calendar!Take(a)
  <1>1. row'[a] = r /\ \A b \in Appt \ {a} : row'[b] = row[b] /\ ~Excludes(r, row[b])
    BY DEF StoreRow, Admissible, TableTypeOK
  <1>2. slotView[a] = Null
    BY DEF slotView
  <1>3. slotView'[a] = [staff |-> r.staff, chair |-> r.chair, start |-> r.start, end |-> r.end]
    BY <1>1 DEF slotView
  <1>4. slotView'[a] \in Calendar!Reservation
    BY <1>3 DEF Calendar!Reservation, Row
  <1>5. ASSUME NEW b \in Appt \ {a}
        PROVE  slotView'[b] = slotView[b]
    BY <1>1 DEF slotView
  <1>6. ASSUME NEW b \in Appt \ {a}, slotView[b] # Null
        PROVE  ~Calendar!Clash(slotView'[a], slotView[b])
    <2>1. row[b].status \in Reserving
      BY <1>6 DEF slotView
    <2>2. slotView[b] = [staff |-> row[b].staff, chair |-> row[b].chair,
                         start |-> row[b].start, end |-> row[b].end]
      BY <2>1 DEF slotView
    <2>3. ~(Overlap(r, row[b]) /\ SharesResource(r, row[b]))
      BY <1>1, <2>1 DEF Excludes, Constrained, Reserving
    <2>4. QED
      BY <1>3, <2>2, <2>3 DEF Calendar!Clash, Overlap, SharesResource
  <1>7. QED
    BY <1>2, <1>4, <1>5, <1>6 DEF Calendar!Take

\* Storing a row that keeps the slot of the stored one, or reserves nothing.
LEMMA StoreKeepsOrReleases ==
  ASSUME TableTypeOK, NEW a \in Appt, NEW r \in Row, StoreRow(a, r),
         \/ r.status \notin Reserving
         \/ row[a].status \in Reserving /\ SameSlot(r, row[a])
  PROVE  slotView' = slotView \/ Calendar!Release({a})
  <1>1. row'[a] = r /\ \A b \in Appt \ {a} : row'[b] = row[b]
    BY DEF StoreRow, TableTypeOK
  <1>2. CASE r.status \notin Reserving
    <2>1. slotView' = [b \in Appt |-> IF b \in {a} THEN Null ELSE slotView[b]]
      BY <1>1, <1>2 DEF slotView
    <2>2. QED
      BY <2>1 DEF Calendar!Release
  <1>3. CASE r.status \in Reserving /\ row[a].status \in Reserving /\ SameSlot(r, row[a])
    <2>1. slotView' = slotView
      BY <1>1, <1>3 DEF slotView, SameSlot
    <2>2. QED
      BY <2>1
  <1>4. QED
    BY <1>2, <1>3

\* A maintenance pass releases the slots of the holds it expires.
LEMMA ExpiryReleases ==
  ASSUME Expiry
  PROVE  \E S \in SUBSET Appt : Calendar!Release(S)
  <1> DEFINE S == {a \in Appt : row'[a] # row[a]}
  <1>1. slotView' = [a \in Appt |-> IF a \in S THEN Null ELSE slotView[a]]
    BY DEF Expiry, slotView, Reserving
  <1>2. QED
    BY <1>1 DEF Calendar!Release

\* The lifecycle implements the abstract calendar: each step of each request
\* takes one free reservation of a staff member and a chair, or gives
\* reservations back, or leaves the calendar as it was.
THEOREM LifecycleImplementsCalendar == Spec => ImplementsCalendar
  <1>1. Init => Calendar!Init
    BY DEF Init, Calendar!Init, slotView, AbsentRow, Reserving
  <1>2. TypeInv /\ InsertedOnce /\ [Next]_vars => [Calendar!Next]_slotView
    <2> SUFFICES ASSUME TypeInv, InsertedOnce, [Next]_vars
                 PROVE  [Calendar!Next]_slotView
      OBVIOUS
    <2>0. TableTypeOK
      BY DEF TypeInv, TypeOK
    <2>1. CASE Quiet
      BY <2>1 DEF Quiet, slotView
    <2>2. ASSUME NEW a \in Appt, Insertion(a)
          PROVE  Calendar!Next
      <3>1. row[a].status \notin Reserving
        BY <2>2 DEF Insertion, InsertedOnce, AbsentRow, Reserving
      <3>2. PICK r \in Row : StoreRow(a, r) /\ r.status \in Reserving
        BY <2>2 DEF Insertion, NewRow, InitialStatus, Reserving
      <3>3. Calendar!Take(a)
        BY <2>0, <3>1, <3>2, StoreTakes
      <3>4. QED
        BY <3>3 DEF Calendar!Next
    <2>3. ASSUME NEW a \in Appt, Deliberation(a)
          PROVE  slotView' = slotView
      BY <2>3 DEF Deliberation, slotView
    <2>4. ASSUME NEW c \in Call, Change(c)
          PROVE  Calendar!Next \/ slotView' = slotView
      <3> DEFINE a == call[c].appt
      <3>1. PICK r \in Row : StoreRow(a, r) /\ SameSlot(r, row[a])
        BY <2>4 DEF Change
      <3>2. a \in Appt
        BY <2>4 DEF Change
      <3> HIDE DEF a
      <3>3. CASE r.status \in Reserving /\ row[a].status \notin Reserving
        BY <2>0, <3>1, <3>2, <3>3, StoreTakes DEF Calendar!Next
      <3>4. CASE r.status \notin Reserving \/ row[a].status \in Reserving
        BY <2>0, <3>1, <3>2, <3>4, StoreKeepsOrReleases DEF Calendar!Next
      <3>5. QED
        BY <3>3, <3>4
    <2>5. CASE Expiry
      BY <2>5, ExpiryReleases DEF Calendar!Next
    <2>6. QED
      BY <2>1, <2>2, <2>3, <2>4, <2>5, StepKinds
  <1>3. QED
    BY <1>1, <1>2, TypeCorrect, InsertedOnceCorrect, PTL
       DEF Spec, ImplementsCalendar, Calendar!Spec

-----------------------------------------------------------------------------
(***************************************************************************)
(* Holds.                                                                  *)
(***************************************************************************)

\* A row becomes held only when it is inserted, with its deadline, and its
\* request is over then: the offer it refers to changes no more.
LEMMA HoldsAreTimedStep ==
  ASSUME TypeInv, InsertedOnce, HoldsAreTimed, [Next]_vars
  PROVE  HoldsAreTimed'
  <1> DEFINE Timed(r, t, o) ==
        /\ r.status = "held" =>
             r.holdExpiresAt # Null /\ r.holdExpiresAt <= t + HoldFor(o)
        /\ r.status \in {"pending", "confirmed"} => r.holdExpiresAt = Null
  <1>1. \A a \in Appt : Timed(row[a], now, booking[a].offer)
    BY DEF HoldsAreTimed
  <1>2. SUFFICES ASSUME NEW a \in Appt
                 PROVE  Timed(row'[a], now', booking'[a].offer)
    BY DEF HoldsAreTimed, HoldFor
  <1>3. now \in Nat /\ now' \in Nat /\ \A o : HoldFor(o) \in Nat
    <2>1. TypeInv'
      BY TypeStep
    <2>2. QED
      BY <2>1, BookingAssumption DEF TypeInv, TypeOK, HoldFor
  <1>4. row[a] \in Row \cup {AbsentRow}
    BY DEF TypeInv, TypeOK, TableTypeOK
  <1>5. CASE Quiet
    <2>1. row[a].status = "held" => row[a].holdExpiresAt \in Nat
      BY <1>1, <1>4 DEF Row, AbsentRow
    <2>2. HoldFor(booking'[a].offer) = HoldFor(booking[a].offer)
      BY <1>5 DEF Quiet
    <2>3. QED
      BY <1>1, <1>3, <1>5, <2>1, <2>2 DEF Quiet
  <1>6. ASSUME NEW x \in Appt, Insertion(x)
        PROVE  Timed(row'[a], now', booking'[a].offer)
    <2>1. CASE x # a
      BY <1>1, <1>6, <2>1 DEF Insertion, StoreRow
    <2>2. CASE x = a
      <3>1. PICK p \in Pair : StoreRow(a, NewRow(booking[a].offer, p))
        BY <1>6, <2>2 DEF Insertion
      <3>2. row'[a] = NewRow(booking[a].offer, p)
        BY <3>1 DEF StoreRow, TypeInv, TypeOK, TableTypeOK
      <3>3. now + HoldFor(booking[a].offer) # Null
        BY <1>3, NullAssumption
      <3>4. now' = now /\ booking'[a].offer = booking[a].offer
        BY <1>6, <2>2 DEF Insertion
      <3>5. CASE RequiresHold(booking[a].offer)
        <4>1. row'[a].holdExpiresAt = now + HoldFor(booking[a].offer)
          BY <3>2, <3>5 DEF NewRow
        <4>2. InitialStatus(booking[a].offer, p.staff) = "held"
          BY <3>5 DEF InitialStatus, RequiresHold
        <4>3. row'[a].status = "held"
          BY <3>2, <4>2 DEF NewRow
        <4>4. QED
          BY <1>3, <3>3, <3>4, <4>1, <4>3
      <3>6. CASE ~RequiresHold(booking[a].offer)
        <4>1. row'[a].status # "held" /\ row'[a].holdExpiresAt = Null
          BY <3>2, <3>6 DEF NewRow, InitialStatus
        <4>2. QED
          BY <4>1
      <3>7. QED
        BY <3>5, <3>6
    <2>3. QED
      BY <2>1, <2>2
  <1>7. ASSUME NEW x \in Appt, Deliberation(x)
        PROVE  Timed(row'[a], now', booking'[a].offer)
    <2>1. CASE x # a
      BY <1>1, <1>7, <2>1 DEF Deliberation
    <2>2. CASE x = a /\ booking[a].pc \in {"idle", "insert"}
      BY <1>7, <2>2 DEF Deliberation, InsertedOnce, AbsentRow
    <2>3. CASE x = a /\ booking'[a].offer = booking[a].offer
      BY <1>1, <1>7, <2>3 DEF Deliberation
    <2>4. QED
      BY <1>7, <2>1, <2>2, <2>3 DEF Deliberation
  <1>8. ASSUME NEW c \in Call, Change(c)
        PROVE  Timed(row'[a], now', booking'[a].offer)
    BY <1>1, <1>8 DEF Change, StoreRow, TypeInv, TypeOK, TableTypeOK
  <1>9. CASE Expiry
    BY <1>1, <1>9 DEF Expiry
  <1>10. QED
    BY <1>5, <1>6, <1>7, <1>8, <1>9, StepKinds

\* Every hold of every salon has a deadline within the longest hold period of
\* its offer, and an appointment that is pending or confirmed has none.
THEOREM HoldsAreTimedCorrect == Spec => []HoldsAreTimed
  <1>1. Init => HoldsAreTimed
    <2>1. AbsentRow.status = "absent"
      BY DEF AbsentRow
    <2>2. Init => \A a \in Appt : row[a].status = "absent"
      BY <2>1 DEF Init
    <2>3. QED
      BY <2>2 DEF HoldsAreTimed
  <1>2. TypeInv /\ InsertedOnce /\ HoldsAreTimed /\ [Next]_vars => HoldsAreTimed'
    BY HoldsAreTimedStep
  <1>3. QED
    BY <1>1, <1>2, TypeCorrect, InsertedOnceCorrect, PTL DEF Spec

-----------------------------------------------------------------------------
(***************************************************************************)
(* No-shows.  The start was compared with the clock when the row was read; *)
(* the row is written later.  The comparison stays true because a stored   *)
(* start never changes and the clock never goes back.                      *)
(***************************************************************************)
NoShowReady == \A c \in Call : call[c].op = "noShow" => row[call[c].appt].start <= now

LEMMA StartIsFixed ==
  ASSUME TypeInv, InsertedOnce, [Next]_vars, NEW a \in Appt, Exists(a)
  PROVE  row'[a].start = row[a].start /\ now <= now'
  <1>1. now \in Nat
    BY BookingAssumption DEF TypeInv, TypeOK
  <1>2. CASE Quiet
    BY <1>2 DEF Quiet
  <1>3. ASSUME NEW x \in Appt, Insertion(x) \/ Deliberation(x)
        PROVE  row'[a].start = row[a].start /\ now <= now'
    <2>1. now' = now
      BY <1>3 DEF Insertion, Deliberation
    <2>2. CASE Deliberation(x)
      BY <1>1, <2>1, <2>2 DEF Deliberation
    <2>3. CASE Insertion(x)
      <3>1. row[x].status = "absent"
        BY <2>3 DEF Insertion, InsertedOnce, AbsentRow
      <3>2. x # a
        BY <3>1 DEF Exists
      <3>3. row'[a] = row[a]
        BY <2>3, <3>2 DEF Insertion, StoreRow, TypeInv, TypeOK, TableTypeOK
      <3>4. QED
        BY <1>1, <2>1, <3>3
    <2>4. QED
      BY <1>3, <2>2, <2>3
  <1>4. ASSUME NEW c \in Call, Change(c)
        PROVE  row'[a].start = row[a].start /\ now <= now'
    BY <1>1, <1>4 DEF Change, StoreRow, SameSlot, TypeInv, TypeOK, TableTypeOK
  <1>5. CASE Expiry
    <2>1. row'[a].start = row[a].start
      BY <1>5 DEF Expiry
    <2>2. now' = now
      BY <1>5 DEF Expiry
    <2>3. QED
      BY <1>1, <2>1, <2>2
  <1>6. QED
    BY <1>2, <1>3, <1>4, <1>5, StepKinds

\* The only request that becomes a no-show request has just compared the start.
LEMMA NoShowRequest ==
  ASSUME TypeInv, [Next]_vars, NEW c \in Call, call'[c].op = "noShow"
  PROVE  \/ call'[c] = call[c]
         \/ /\ UNCHANGED <<row, now>>
            /\ row[call'[c].appt].start <= now
  <1>1. CASE UNCHANGED call
    BY <1>1
  <1>2. ASSUME NEW d \in Call, NEW a \in Appt, ReadStep(d, a)
        PROVE  \/ call'[c] = call[c]
               \/ UNCHANGED <<row, now>> /\ row[call'[c].appt].start <= now
    BY <1>2 DEF ReadStep, ApproveRead, ConfirmHeldRead, RejectRead, CancelRead,
                NoShowRead, CompleteRead, Passed, TypeInv, TypeOK
  <1>3. ASSUME NEW d \in Call, WriteStep(d)
        PROVE  call'[c] = call[c]
    <2>1. Return(d) \/ Continue(d, "announce") \/ Continue(d, "countNoShow")
      BY <1>3 DEF WriteStep, ApproveWrite, ConfirmHeldWrite, RejectWrite, CancelWrite,
                  NoShowWrite, CompleteWrite, CancelAnnounce, CountNoShow, UpdateRefused,
                  CallDies
    <2>2. call[d] # NoCall
      BY <1>3 DEF WriteStep, ApproveWrite, ConfirmHeldWrite, RejectWrite, CancelWrite,
                  NoShowWrite, CompleteWrite, CancelAnnounce, CountNoShow, UpdateRefused,
                  CallDies, Update, NoCall
    <2>3. call[d] \in [op : Ops, appt : Appt]
      BY <2>2 DEF TypeInv, TypeOK
    <2>4. \A op \in Ops : [call[d] EXCEPT !.op = op].op = op
      BY <2>3
    <2>5. CASE d # c
      BY <2>1, <2>5 DEF Return, Continue, TypeInv, TypeOK
    <2>6. CASE d = c
      BY <2>1, <2>4, <2>6 DEF Return, Continue, TypeInv, TypeOK, NoCall, Ops
    <2>7. QED
      BY <2>5, <2>6
  <1>4. ASSUME NEW a \in Appt, BookStep(a)
        PROVE  UNCHANGED call
    BY <1>4 DEF BookStep, BookProgress, BookNoAvailability, BookRead, BookInsert, BookConflict,
                BookExhausted, BookSaveServices, BookingDies
  <1>5. ASSUME NEW w \in Worker, WorkerStep(w)
        PROVE  UNCHANGED call
    BY <1>5 DEF WorkerStep, SweepRead, SweepRelease, SweepNotify, WorkerDies
  <1>6. Tick \/ UNCHANGED vars => UNCHANGED call
    BY DEF Tick, vars
  <1>7. QED
    BY <1>1, <1>2, <1>3, <1>4, <1>5, <1>6 DEF Next

LEMMA NoShowReadyStep ==
  ASSUME TypeInv, InsertedOnce, NoShowReady, [Next]_vars
  PROVE  NoShowReady'
  <1>1. SUFFICES ASSUME NEW c \in Call, call'[c].op = "noShow"
                 PROVE  row'[call'[c].appt].start <= now'
    BY DEF NoShowReady
  <1>2. CASE call'[c] = call[c]
    <2>1. call[c] # NoCall
      BY <1>1, <1>2 DEF NoCall
    <2>2. call[c].appt \in Appt /\ Exists(call[c].appt) /\ row[call[c].appt].start <= now
      BY <1>1, <1>2, <2>1 DEF NoShowReady, TypeInv, TypeOK, CallsHaveRow
    <2>3. row'[call[c].appt].start = row[call[c].appt].start /\ now <= now'
      BY <2>2, StartIsFixed
    <2>4. row[call[c].appt].start \in Nat /\ now \in Nat /\ now' \in Nat
      <3>1. TypeInv'
        BY TypeStep
      <3>2. QED
        BY <2>2, <3>1, BookingAssumption
           DEF TypeInv, TypeOK, TableTypeOK, Row, AbsentRow
    <2>5. QED
      BY <1>2, <2>2, <2>3, <2>4
  <1>3. CASE UNCHANGED <<row, now>> /\ row[call'[c].appt].start <= now
    BY <1>3
  <1>4. QED
    BY <1>1, <1>2, <1>3, NoShowRequest

LEMMA NoShowHadStartedStep ==
  ASSUME TypeInv, InsertedOnce, NoShowReady, NoShowHadStarted, [Next]_vars
  PROVE  NoShowHadStarted'
  <1>1. SUFFICES ASSUME NEW a \in Appt, row'[a].status = "no_show"
                 PROVE  row'[a].start <= now'
    BY DEF NoShowHadStarted
  <1>2. now \in Nat /\ now' \in Nat /\ row[a].start \in Nat
    <2>1. TypeInv'
      BY TypeStep
    <2>2. QED
      BY <2>1, BookingAssumption DEF TypeInv, TypeOK, TableTypeOK, Row, AbsentRow
  <1>3. CASE row[a].status = "no_show"
    <2>1. Exists(a)
      BY <1>3 DEF Exists
    <2>2. QED
      BY <1>2, <1>3, <2>1, StartIsFixed DEF NoShowHadStarted
  <1>4. CASE row[a].status # "no_show"
    <2>1. CASE Quiet
      BY <1>1, <1>4, <2>1 DEF Quiet
    <2>2. ASSUME NEW x \in Appt, Insertion(x) \/ Deliberation(x)
          PROVE  FALSE
      <3>1. CASE Deliberation(x)
        BY <1>1, <1>4, <3>1 DEF Deliberation
      <3>2. CASE Insertion(x)
        <4>1. PICK p \in Pair : StoreRow(x, NewRow(booking[x].offer, p))
          BY <3>2 DEF Insertion
        <4>2. NewRow(booking[x].offer, p).status # "no_show"
          BY DEF NewRow, InitialStatus
        <4>3. QED
          BY <1>1, <1>4, <4>1, <4>2 DEF StoreRow, TypeInv, TypeOK, TableTypeOK
      <3>3. QED
        BY <2>2, <3>1, <3>2
    <2>3. ASSUME NEW c \in Call, Change(c)
          PROVE  row'[a].start <= now'
      <3>1. call[c].appt = a /\ call[c].op = "noShow"
        BY <1>1, <1>4, <2>3 DEF Change, StoreRow, TypeInv, TypeOK, TableTypeOK
      <3>2. row[a].start <= now
        BY <3>1 DEF NoShowReady
      <3>3. row'[a].start = row[a].start /\ now' = now
        BY <2>3, <3>1 DEF Change, StoreRow, SameSlot, TypeInv, TypeOK, TableTypeOK
      <3>4. QED
        BY <3>2, <3>3
    <2>4. CASE Expiry
      BY <1>1, <1>4, <2>4 DEF Expiry
    <2>5. QED
      BY <2>1, <2>2, <2>3, <2>4, StepKinds
  <1>5. QED
    BY <1>3, <1>4

\* Nobody is recorded as a no-show before the appointment has started, although
\* the start is compared in one step and the row written in a later one.
THEOREM NoShowHadStartedCorrect == Spec => []NoShowHadStarted
  <1>1. Init => NoShowReady /\ NoShowHadStarted
    BY DEF Init, NoShowReady, NoShowHadStarted, NoCall, AbsentRow
  <1>2. TypeInv /\ InsertedOnce /\ NoShowReady /\ NoShowHadStarted /\ [Next]_vars
          => NoShowReady' /\ NoShowHadStarted'
    BY NoShowReadyStep, NoShowHadStartedStep
  <1>3. QED
    BY <1>1, <1>2, TypeCorrect, InsertedOnceCorrect, PTL DEF Spec

-----------------------------------------------------------------------------
(***************************************************************************)
(* Deadlines.  The worker compares the deadlines with the time at which    *)
(* its pass began, which the clock has only moved past since.              *)
(***************************************************************************)
SweepTimePassed == \A w \in Worker : sweep[w].at <= now

LEMMA SweepTimeStep ==
  ASSUME TypeInv, SweepTimePassed, [Next]_vars
  PROVE  SweepTimePassed'
  <1>1. SUFFICES ASSUME NEW w \in Worker
                 PROVE  sweep'[w].at <= now'
    BY DEF SweepTimePassed
  <1>2. /\ now \in Int /\ 0 <= now
        /\ sweep[w].at \in Int /\ sweep[w].at <= now
    BY BookingAssumption DEF TypeInv, TypeOK, SweepTimePassed
  <1>3. CASE Tick \/ UNCHANGED vars
    BY <1>2, <1>3 DEF Tick, vars
  <1>4. ASSUME NEW a \in Appt, BookStep(a)
        PROVE  UNCHANGED <<now, sweep>>
    BY <1>4 DEF BookStep, BookProgress, BookNoAvailability, BookRead, BookInsert, BookSaveServices,
                BookConflict, BookExhausted, BookingDies
  <1>5. ASSUME NEW c \in Call, NEW a \in Appt, ReadStep(c, a)
        PROVE  UNCHANGED <<now, sweep>>
    BY <1>5 DEF ReadStep, ApproveRead, ConfirmHeldRead, RejectRead, CancelRead,
                NoShowRead, CompleteRead, Passed
  <1>6. ASSUME NEW c \in Call, WriteStep(c)
        PROVE  UNCHANGED <<now, sweep>>
    BY <1>6 DEF WriteStep, ApproveWrite, ConfirmHeldWrite, RejectWrite, CancelWrite,
                NoShowWrite, CompleteWrite, Update, CancelAnnounce, CountNoShow,
                UpdateRefused, CallDies
  <1>7. ASSUME NEW v \in Worker, WorkerStep(v)
        PROVE  sweep'[w].at <= now'
    <2>1. CASE SweepRead(v)
      BY <1>2, <2>1 DEF SweepRead, TypeInv, TypeOK
    <2>2. CASE SweepRelease(v)
      BY <1>2, <2>2 DEF SweepRelease, TypeInv, TypeOK
    <2>3. CASE SweepNotify(v) \/ WorkerDies(v)
      BY <1>2, <2>3 DEF SweepNotify, WorkerDies, NoSweep, TypeInv, TypeOK
    <2>4. QED
      BY <1>7, <2>1, <2>2, <2>3 DEF WorkerStep
  <1>8. QED
    BY <1>2, <1>3, <1>4, <1>5, <1>6, <1>7 DEF Next

\* A row leaves "held" by the statement of a maintenance pass, after its
\* deadline, or by the update of a request that names it.
LEMMA HoldIsKeptStep ==
  ASSUME TypeInv, InsertedOnce, SweepTimePassed, [Next]_vars,
         NEW a \in Appt, row[a].status = "held", row'[a].status # "held"
  PROVE  row[a].holdExpiresAt <= now \/ \E c \in Call : call[c].appt = a
  <1>1. CASE UNCHANGED row
    BY <1>1
  <1>2. ASSUME NEW x \in Appt, BookInsert(x)
        PROVE  FALSE
    <2>1. PICK r : StoreRow(x, r)
      BY <1>2 DEF BookInsert
    <2>2. x # a
      BY <1>2 DEF BookInsert, InsertedOnce, AbsentRow
    <2>3. QED
      BY <2>1, <2>2 DEF StoreRow, TypeInv, TypeOK, TableTypeOK
  <1>3. ASSUME NEW c \in Call, NEW r \in Row, StoreRow(call[c].appt, r)
        PROVE  call[c].appt = a
    BY <1>3 DEF StoreRow, TypeInv, TypeOK, TableTypeOK
  <1>4. ASSUME NEW w \in Worker, SweepRelease(w)
        PROVE  row[a].holdExpiresAt <= now
    <2>1. Due(row[a], sweep[w].at)
      BY <1>4 DEF SweepRelease
    <2>2. row[a].holdExpiresAt \in Nat /\ row[a].holdExpiresAt <= sweep[w].at
      BY <2>1 DEF Due, TypeInv, TypeOK, TableTypeOK, Row, AbsentRow
    <2>3. sweep[w].at <= now /\ sweep[w].at \in Int /\ now \in Int
      BY BookingAssumption DEF SweepTimePassed, TypeInv, TypeOK
    <2>4. QED
      BY <2>2, <2>3
  <1>5. QED
    BY <1>1, <1>2, <1>3, <1>4, TableSteps

\* A hold keeps its slot until its deadline has passed, unless a request on that
\* very appointment moves it: the worker releases what was due when its pass
\* began, however long ago that is.
THEOREM HoldIsKeptCorrect == Spec => HoldIsKept
  <1>1. Init => SweepTimePassed
    BY DEF Init, SweepTimePassed, NoSweep
  <1>2. TypeInv /\ SweepTimePassed /\ [Next]_vars => SweepTimePassed'
    BY SweepTimeStep
  <1>3. TypeInv /\ InsertedOnce /\ SweepTimePassed /\ [Next]_vars =>
          [\A a \in Appt :
             row[a].status = "held" /\ row'[a].status # "held" =>
               \/ row[a].holdExpiresAt <= now
               \/ \E c \in Call : call[c].appt = a]_vars
    BY HoldIsKeptStep
  <1>4. QED
    BY <1>1, <1>2, <1>3, TypeCorrect, InsertedOnceCorrect, PTL DEF Spec, HoldIsKept

-----------------------------------------------------------------------------
(***************************************************************************)
(* Counted no-shows.  The row and the customer's profile are written in    *)
(* two statements; in between, the request remembers that it must count.   *)
(***************************************************************************)

\* A request that has still to count a no-show does nothing else.
LEMMA CountingRequest ==
  ASSUME TypeInv, [Next]_vars, NEW c \in Call, call[c].op = "countNoShow"
  PROVE  \/ call'[c] = call[c]
         \/ CountNoShow(c)
         \/ faults' = faults + 1
  <1>1. call[c] # NoCall
    BY DEF NoCall
  <1>2. CASE UNCHANGED call
    BY <1>2
  <1>3. ASSUME NEW d \in Call, NEW a \in Appt, ReadStep(d, a)
        PROVE  call'[c] = call[c]
    BY <1>1, <1>3 DEF ReadStep, ApproveRead, ConfirmHeldRead, RejectRead, CancelRead,
                      NoShowRead, CompleteRead, Passed, TypeInv, TypeOK
  <1>4. ASSUME NEW d \in Call, WriteStep(d)
        PROVE  call'[c] = call[c] \/ CountNoShow(c) \/ faults' = faults + 1
    <2>1. CASE CallDies(d)
      BY <2>1 DEF CallDies, Fault
    <2>2. CASE CountNoShow(d)
      BY <2>2 DEF CountNoShow, Return, TypeInv, TypeOK
    <2>3. CASE ~CallDies(d) /\ ~CountNoShow(d)
      <3>1. d # c
        BY <1>4, <2>3 DEF WriteStep, ApproveWrite, ConfirmHeldWrite, RejectWrite,
                          CancelWrite, NoShowWrite, CompleteWrite, CancelAnnounce,
                          UpdateRefused, Update
      <3>2. Return(d) \/ Continue(d, "announce") \/ Continue(d, "countNoShow")
        BY <1>4, <2>3 DEF WriteStep, ApproveWrite, ConfirmHeldWrite, RejectWrite,
                          CancelWrite, NoShowWrite, CompleteWrite, CancelAnnounce,
                          UpdateRefused
      <3>3. QED
        BY <3>1, <3>2 DEF Return, Continue, TypeInv, TypeOK
    <2>4. QED
      BY <2>1, <2>2, <2>3
  <1>5. ASSUME NEW a \in Appt, BookStep(a)
        PROVE  UNCHANGED call
    BY <1>5 DEF BookStep, BookProgress, BookNoAvailability, BookRead, BookInsert, BookConflict,
                BookExhausted, BookSaveServices, BookingDies
  <1>6. ASSUME NEW w \in Worker, WorkerStep(w)
        PROVE  UNCHANGED call
    BY <1>6 DEF WorkerStep, SweepRead, SweepRelease, SweepNotify, WorkerDies
  <1>7. Tick \/ UNCHANGED vars => UNCHANGED call
    BY DEF Tick, vars
  <1>8. QED
    BY <1>2, <1>3, <1>4, <1>5, <1>6, <1>7 DEF Next

\* Counts and faults never go back.
LEMMA CountersGrow ==
  ASSUME TypeInv, [Next]_vars
  PROVE  /\ \A a \in Appt : noShowCount'[a] = noShowCount[a] \/ noShowCount'[a] = noShowCount[a] + 1
         /\ faults' = faults \/ faults' = faults + 1
  <1>1. ASSUME NEW a \in Appt, BookStep(a)
        PROVE  UNCHANGED noShowCount /\ (UNCHANGED faults \/ faults' = faults + 1)
    BY <1>1 DEF BookStep, BookProgress, BookNoAvailability, BookRead, BookInsert, BookConflict,
                BookExhausted, BookSaveServices, BookingDies, Fault
  <1>2. ASSUME NEW c \in Call, NEW a \in Appt, ReadStep(c, a)
        PROVE  UNCHANGED <<noShowCount, faults>>
    BY <1>2 DEF ReadStep, ApproveRead, ConfirmHeldRead, RejectRead, CancelRead,
                NoShowRead, CompleteRead, Passed
  <1>3. ASSUME NEW c \in Call, WriteStep(c)
        PROVE  /\ \A a \in Appt : \/ noShowCount'[a] = noShowCount[a]
                                  \/ noShowCount'[a] = noShowCount[a] + 1
               /\ UNCHANGED faults \/ faults' = faults + 1
    <2>1. CASE CountNoShow(c)
      BY <2>1 DEF CountNoShow, TypeInv, TypeOK
    <2>2. CASE ~CountNoShow(c)
      BY <1>3, <2>2 DEF WriteStep, ApproveWrite, ConfirmHeldWrite, RejectWrite, CancelWrite,
                        NoShowWrite, CompleteWrite, CancelAnnounce, UpdateRefused, CallDies,
                        Update, Fault
    <2>3. QED
      BY <2>1, <2>2
  <1>4. ASSUME NEW w \in Worker, WorkerStep(w)
        PROVE  UNCHANGED noShowCount /\ (UNCHANGED faults \/ faults' = faults + 1)
    BY <1>4 DEF WorkerStep, SweepRead, SweepRelease, SweepNotify, WorkerDies, Fault
  <1>5. Tick \/ UNCHANGED vars => UNCHANGED <<noShowCount, faults>>
    BY DEF Tick, vars
  <1>6. QED
    BY <1>1, <1>2, <1>3, <1>4, <1>5 DEF Next

\* A row becomes a no-show by the write of the request that goes on to count it.
LEMMA MarkingRequest ==
  ASSUME TypeInv, [Next]_vars,
         NEW a \in Appt, row[a].status # "no_show", row'[a].status = "no_show"
  PROVE  \E c \in Call : call'[c] = [op |-> "countNoShow", appt |-> a]
  <1>1. ASSUME NEW x \in Appt, BookStep(x)
        PROVE  FALSE
    <2>1. CASE BookInsert(x)
      <3>1. PICK p \in Pair : StoreRow(x, NewRow(booking[x].offer, p))
        BY <2>1 DEF BookInsert
      <3>2. NewRow(booking[x].offer, p).status # "no_show"
        BY DEF NewRow, InitialStatus
      <3>3. QED
        BY <3>1, <3>2 DEF StoreRow, TypeInv, TypeOK, TableTypeOK
    <2>2. CASE ~BookInsert(x)
      BY <1>1, <2>2 DEF BookStep, BookProgress, BookNoAvailability, BookRead, BookConflict,
                        BookExhausted, BookSaveServices, BookingDies
    <2>3. QED
      BY <2>1, <2>2
  <1>2. ASSUME NEW c \in Call, NEW x \in Appt, ReadStep(c, x)
        PROVE  FALSE
    BY <1>2, ReadEffect
  <1>3. ASSUME NEW c \in Call, WriteStep(c)
        PROVE  call'[c] = [op |-> "countNoShow", appt |-> a]
    <2>1. CASE CancelAnnounce(c) \/ CountNoShow(c) \/ UpdateRefused(c) \/ CallDies(c)
      BY <2>1, WriteOtherEffect
    <2>2. CASE \/ ApproveWrite(c) \/ ConfirmHeldWrite(c) \/ RejectWrite(c)
               \/ CancelWrite(c) \/ NoShowWrite(c) \/ CompleteWrite(c)
      <3>1. call[c].op # "none"
        BY <2>2 DEF ApproveWrite, ConfirmHeldWrite, RejectWrite, CancelWrite, NoShowWrite,
                    CompleteWrite, Update
      <3>2. call[c].appt \in Appt /\ Target(c) \in Row
        BY <3>1, TargetIsRow
      <3>3. CASE NoShowWrite(c)
        <4>1. call[c] \in [op : Ops, appt : Appt]
          BY <3>1 DEF TypeInv, TypeOK, NoCall
        <4>2. call[c].appt = a
          BY <3>3 DEF NoShowWrite, Update, StoreRow, TypeInv, TypeOK, TableTypeOK
        <4>3. call'[c] = [call[c] EXCEPT !.op = "countNoShow"]
          BY <3>3 DEF NoShowWrite, Continue, TypeInv, TypeOK
        <4>4. QED
          BY <4>1, <4>2, <4>3
      <3>4. CASE ~NoShowWrite(c)
        <4>1. call[c].op # "noShow"
          BY <2>2, <3>4 DEF ApproveWrite, ConfirmHeldWrite, RejectWrite, CancelWrite,
                            CompleteWrite, Update
        <4>2. PICK r \in Row : StoreRow(call[c].appt, r) /\ r.status # "no_show"
          BY <2>2, <4>1, WriteEffect DEF Change
        <4>3. QED
          BY <3>2, <4>2 DEF StoreRow, TypeInv, TypeOK, TableTypeOK
      <3>5. QED
        BY <3>3, <3>4
    <2>3. QED
      BY <1>3, <2>1, <2>2 DEF WriteStep
  <1>4. ASSUME NEW w \in Worker, WorkerStep(w)
        PROVE  FALSE
    <2>1. CASE SweepRelease(w)
      BY <2>1, SweepEffect DEF Expiry
    <2>2. CASE ~SweepRelease(w)
      BY <1>4, <2>2, WorkerOtherEffect
    <2>3. QED
      BY <2>1, <2>2
  <1>5. Tick \/ UNCHANGED vars => UNCHANGED row
    BY DEF Tick, vars
  <1>6. QED
    BY <1>1, <1>2, <1>3, <1>4, <1>5 DEF Next

LEMMA NoShowIsCountedStep ==
  ASSUME TypeInv, NoShowIsCounted, [Next]_vars
  PROVE  NoShowIsCounted'
  <1>1. SUFFICES ASSUME faults' = 0, NEW a \in Appt, row'[a].status = "no_show"
                 PROVE  \/ noShowCount'[a] > 0
                        \/ \E c \in Call : call'[c] = [op |-> "countNoShow", appt |-> a]
    BY DEF NoShowIsCounted
  <1>2. faults \in Nat /\ noShowCount[a] \in Nat
    BY BookingAssumption DEF TypeInv, TypeOK
  <1>3. faults = 0 /\ faults' # faults + 1
    BY <1>1, <1>2, CountersGrow
  <1>4. CASE row[a].status # "no_show"
    BY <1>1, <1>4, MarkingRequest
  <1>5. CASE noShowCount[a] > 0
    BY <1>2, <1>5, CountersGrow
  <1>6. ASSUME NEW c \in Call, call[c] = [op |-> "countNoShow", appt |-> a]
        PROVE  call'[c] = call[c] \/ noShowCount'[a] > 0
    <2>1. call[c].op = "countNoShow" /\ call[c].appt = a
      BY <1>6
    <2>2. CountNoShow(c) => noShowCount'[a] = noShowCount[a] + 1
      BY <2>1 DEF CountNoShow, TypeInv, TypeOK
    <2>3. QED
      BY <1>2, <1>3, <2>1, <2>2, CountingRequest
  <1>7. QED
    BY <1>3, <1>4, <1>5, <1>6 DEF NoShowIsCounted

\* As long as no process has died, every no-show is on the customer's profile or
\* the request that marked it is about to put it there, whatever else runs on
\* the same appointment.
THEOREM NoShowIsCountedCorrect == Spec => []NoShowIsCounted
  <1>1. Init => NoShowIsCounted
    BY DEF Init, NoShowIsCounted, AbsentRow
  <1>2. TypeInv /\ NoShowIsCounted /\ [Next]_vars => NoShowIsCounted'
    BY NoShowIsCountedStep
  <1>3. QED
    BY <1>1, <1>2, TypeCorrect, PTL DEF Spec

-----------------------------------------------------------------------------
(***************************************************************************)
(* Lost races.  What beats a candidate pair stays on the table: a row      *)
(* keeps its slot for good.  And a request stops trying only with its      *)
(* candidates, or its permitted tries, used up.                            *)
(***************************************************************************)

\* A stored appointment other than request a clashes with pair p of its offer.
Beaten(a, p) ==
  \E x \in Appt \ {a} :
    Exists(x) /\ Overlap(row[x], booking[a].offer) /\ SharesResource(row[x], p)

RefusedAreBeaten == \A a \in Appt : \A p \in booking[a].refused : Beaten(a, p)

TriesAreBounded ==
  \A a \in Appt : Cardinality(booking[a].refused) <= MAX_BOOKING_RETRIES

GivenUp ==
  \A a \in Appt :
    booking[a].result = "slot_unavailable" => booking[a].pc = "done" /\ ~MayRetry(booking[a])

RaceInv == RefusedAreBeaten /\ TriesAreBounded /\ GivenUp

\* A row keeps its place on the table, its interval and its resources for good.
LEMMA SlotIsFixed ==
  ASSUME TypeInv, InsertedOnce, [Next]_vars, NEW x \in Appt, Exists(x)
  PROVE  row'[x].status # "absent" /\ SameSlot(row'[x], row[x])
  <1>1. row[x] \in Row
    BY DEF Exists, TypeInv, TypeOK, TableTypeOK, AbsentRow
  <1>2. \A r \in Row : r.status # "absent" /\ SameSlot(r, r)
    BY DEF Row, ApptStatus, SameSlot
  <1>3. CASE Quiet
    BY <1>1, <1>2, <1>3 DEF Quiet
  <1>4. ASSUME NEW a \in Appt, Insertion(a)
        PROVE  row'[x] = row[x]
    <2>1. x # a
      BY <1>4 DEF Insertion, InsertedOnce, AbsentRow, Exists
    <2>2. QED
      BY <1>4, <2>1 DEF Insertion, StoreRow, TypeInv, TypeOK, TableTypeOK
  <1>5. ASSUME NEW a \in Appt, Deliberation(a)
        PROVE  row'[x] = row[x]
    BY <1>5 DEF Deliberation
  <1>6. ASSUME NEW c \in Call, Change(c)
        PROVE  row'[x].status # "absent" /\ SameSlot(row'[x], row[x])
    BY <1>1, <1>2, <1>6 DEF Change, StoreRow, TypeInv, TypeOK, TableTypeOK
  <1>7. CASE Expiry
    <2>1. [row[x] EXCEPT !.status = "expired"].status = "expired"
          /\ SameSlot([row[x] EXCEPT !.status = "expired"], row[x])
      BY <1>1 DEF Row, SameSlot
    <2>2. QED
      BY <1>1, <1>2, <1>7, <2>1 DEF Expiry
  <1>8. QED
    BY <1>1, <1>2, <1>3, <1>4, <1>5, <1>6, <1>7, StepKinds

\* A pair that is beaten stays beaten while the request keeps its offer.
LEMMA BeatenStays ==
  ASSUME TypeInv, InsertedOnce, [Next]_vars, NEW a \in Appt, NEW p, Beaten(a, p),
         booking'[a].offer = booking[a].offer
  PROVE  Beaten(a, p)'
  <1>1. PICK x \in Appt \ {a} :
          Exists(x) /\ Overlap(row[x], booking[a].offer) /\ SharesResource(row[x], p)
    BY DEF Beaten
  <1>2. row'[x].status # "absent" /\ SameSlot(row'[x], row[x])
    BY <1>1, SlotIsFixed
  <1>3. row'[x].status # "absent" /\ Overlap(row'[x], booking'[a].offer)
          /\ SharesResource(row'[x], p)
    BY <1>1, <1>2 DEF SameSlot, Overlap, SharesResource
  <1>4. QED
    BY <1>3 DEF Beaten, Exists

\* The database refuses a row only beside one that clashes with it.
LEMMA RefusalHasWinner ==
  ASSUME NEW a \in Appt, NEW p \in Pair, ~Admissible(a, NewRow(booking[a].offer, p))
  PROVE  Beaten(a, p)
  <1>1. PICK x \in Appt \ {a} : Excludes(NewRow(booking[a].offer, p), row[x])
    BY DEF Admissible
  <1>2. row[x].status # "absent"
    BY <1>1 DEF Excludes, Constrained
  <1>3. Overlap(row[x], booking[a].offer) /\ SharesResource(row[x], p)
    BY <1>1 DEF Excludes, Overlap, SharesResource, NewRow
  <1>4. QED
    BY <1>2, <1>3 DEF Beaten, Exists

\* The pairs are finitely many, so the refused ones can be counted.
LEMMA RefusedIsFinite ==
  ASSUME TypeInv, NEW a \in Appt
  PROVE  IsFiniteSet(booking[a].refused) /\ Cardinality(booking[a].refused) \in Nat
  <1>1. IsFiniteSet(Staff \X Chair)
    BY BookingAssumption, FS_Product
  <1>2. IsFiniteSet(Pair)
    <2> DEFINE f == [q \in Pair |-> <<q.staff, q.chair>>]
    <2>1. f \in [Pair -> Staff \X Chair]
      BY DEF Pair
    <2>2. \A q, r \in Pair : f[q] = f[r] => q = r
      BY DEF Pair
    <2>3. f \in Injection(Pair, Staff \X Chair)
      BY <2>1, <2>2 DEF Injection, IsInjective
    <2>4. QED
      BY <1>1, <2>3, FS_Injection
  <1>3. booking[a].refused \subseteq Pair
    BY DEF TypeInv, TypeOK, BookingRecord
  <1>4. QED
    BY <1>2, <1>3, FS_Subset, FS_CardinalityType

\* What a step does to the record of one booking request: nothing, a new
\* decision with no pair refused, one more refused pair, or the answer.
LEMMA RequestSteps ==
  ASSUME TypeInv, [Next]_vars, NEW a \in Appt
  PROVE  LET b == booking[a]
             n == booking'[a]
         IN  \/ n = b
             \/ n.refused = {} /\ n.result # "slot_unavailable"
             \/ /\ n.refused = b.refused /\ n.open = b.open /\ n.offer = b.offer
                /\ b.pc \in Underway
                /\ \/ n.result = b.result
                   \/ n.result # "slot_unavailable"
                   \/ n.pc = "done" /\ ~MayRetry(b)
             \/ /\ b.pc = "insert" /\ MayRetry(b) /\ n.result = b.result /\ n.offer = b.offer
                /\ \E p \in Pair :
                     n.refused = b.refused \cup {p} /\ ~Admissible(a, NewRow(b.offer, p))
  <1> DEFINE b == booking[a]
             n == booking'[a]
  <1>1. b \in BookingRecord /\ booking \in [Appt -> BookingRecord]
    BY DEF TypeInv, TypeOK
  <1>2. ASSUME NEW x \in Appt, BookStep(x), x # a
        PROVE  n = b
    BY <1>1, <1>2 DEF BookStep, BookProgress, BookNoAvailability, BookRead, BookInsert, BookSaveServices,
                      BookConflict, BookExhausted, BookingDies, Answer
  <1>3. CASE BookNoAvailability(a)
    BY <1>1, <1>3 DEF BookNoAvailability, NoBooking
  <1>4. CASE BookRead(a)
    <2>1. PICK o \in Offers : \E rank :
            n = [NoBooking EXCEPT !.pc = "insert", !.offer = o,
                                  !.open = CandidatePairs(o), !.rank = rank]
      BY <1>1, <1>4 DEF BookRead
    <2>2. n.refused = {} /\ n.result # "slot_unavailable"
      BY <2>1, ResultAssumption DEF NoBooking, Results
    <2>3. QED
      BY <2>2
  <1>5. CASE BookInsert(a)
    <2>1. n = [b EXCEPT !.pc = "services"] /\ b.pc = "insert"
      BY <1>1, <1>5 DEF BookInsert
    <2>2. QED
      BY <1>1, <2>1 DEF BookingRecord, Underway
  <1>6. CASE BookConflict(a)
    <2>1. PICK p \in Pair :
            /\ n = [b EXCEPT !.open = b.open \ {p}, !.refused = b.refused \cup {p}]
            /\ ~Admissible(a, NewRow(b.offer, p))
      BY <1>1, <1>6 DEF BookConflict
    <2>2. b.pc = "insert" /\ MayRetry(b)
      BY <1>6 DEF BookConflict
    <2>3. n.refused = b.refused \cup {p} /\ n.result = b.result /\ n.offer = b.offer
      BY <1>1, <2>1 DEF BookingRecord
    <2>4. QED
      BY <2>1, <2>2, <2>3
  <1>7. CASE BookExhausted(a)
    <2>1. n = [b EXCEPT !.pc = "done", !.result = "slot_unavailable"]
            /\ b.pc = "insert" /\ ~MayRetry(b)
      BY <1>1, <1>7 DEF BookExhausted, Answer
    <2>2. n.refused = b.refused /\ n.open = b.open /\ n.offer = b.offer /\ n.pc = "done"
      BY <1>1, <2>1 DEF BookingRecord
    <2>3. QED
      BY <2>1, <2>2 DEF Underway
  <1>8. CASE BookSaveServices(a) \/ BookingDies(a)
    <2>1. PICK res \in Results :
            /\ n = [b EXCEPT !.pc = "done", !.result = res]
            /\ res # "slot_unavailable" /\ b.pc \in Underway
      BY <1>1, <1>8 DEF BookSaveServices, BookingDies, Answer, InitialStatus, Results, Underway
    <2>2. n.refused = b.refused /\ n.open = b.open /\ n.offer = b.offer /\ n.result = res
      BY <1>1, <2>1 DEF BookingRecord
    <2>3. QED
      BY <2>1, <2>2
  <1>9. ASSUME NEW c \in Call, NEW x \in Appt, WriteStep(c) \/ ReadStep(c, x)
        PROVE  UNCHANGED booking
    <2>1. CASE ReadStep(c, x)
      BY <2>1, ReadEffect
    <2>2. CASE WriteStep(c)
      BY <2>2, WriteIsUpdate, WriteOtherEffect DEF WriteStep
    <2>3. QED
      BY <1>9, <2>1, <2>2
  <1>10. ASSUME NEW w \in Worker, WorkerStep(w)
         PROVE  UNCHANGED booking
    BY <1>10 DEF WorkerStep, SweepRead, SweepRelease, SweepNotify, WorkerDies
  <1>11. Tick \/ UNCHANGED vars => UNCHANGED booking
    BY DEF Tick, vars
  <1>12. CASE \E x \in Appt : BookStep(x)
    BY <1>2, <1>3, <1>4, <1>5, <1>6, <1>7, <1>8, <1>12 DEF BookStep, BookProgress
  <1>13. CASE UNCHANGED booking
    BY <1>13
  <1>14. QED
    BY <1>9, <1>10, <1>11, <1>12, <1>13 DEF Next

LEMMA RaceStep ==
  ASSUME TypeInv, InsertedOnce, RaceInv, [Next]_vars
  PROVE  RaceInv'
  <1>1. SUFFICES ASSUME NEW a \in Appt
                 PROVE  /\ \A p \in booking'[a].refused : Beaten(a, p)'
                        /\ Cardinality(booking'[a].refused) <= MAX_BOOKING_RETRIES
                        /\ booking'[a].result = "slot_unavailable" =>
                             booking'[a].pc = "done" /\ ~MayRetry(booking'[a])
    BY DEF RaceInv, RefusedAreBeaten, TriesAreBounded, GivenUp, MayRetry
  <1> DEFINE b == booking[a]
             n == booking'[a]
  <1>2. /\ \A p \in b.refused : Beaten(a, p)
        /\ Cardinality(b.refused) <= MAX_BOOKING_RETRIES
        /\ b.result = "slot_unavailable" => b.pc = "done" /\ ~MayRetry(b)
    BY DEF RaceInv, RefusedAreBeaten, TriesAreBounded, GivenUp
  <1>3. CASE n = b
    <2>1. \A p \in b.refused : Beaten(a, p)'
      BY <1>2, <1>3, BeatenStays
    <2>2. QED
      BY <1>2, <1>3, <2>1
  <1>4. CASE n.refused = {} /\ n.result # "slot_unavailable"
    <2>1. Cardinality({}) = 0
      BY FS_EmptySet
    <2>2. QED
      BY <1>4, <2>1, BookingAssumption
  <1>5. CASE /\ n.refused = b.refused /\ n.open = b.open /\ n.offer = b.offer
             /\ b.pc \in Underway
             /\ \/ n.result = b.result
                \/ n.result # "slot_unavailable"
                \/ n.pc = "done" /\ ~MayRetry(b)
    <2>1. \A p \in b.refused : Beaten(a, p)'
      BY <1>2, <1>5, BeatenStays
    <2>2. b.result # "slot_unavailable"
      BY <1>2, <1>5 DEF Underway
    <2>3. n.result = "slot_unavailable" => n.pc = "done" /\ ~MayRetry(n)
      BY <1>5, <2>2 DEF MayRetry
    <2>4. QED
      BY <1>2, <1>5, <2>1, <2>3
  <1>6. ASSUME b.pc = "insert", MayRetry(b), n.result = b.result, n.offer = b.offer,
               NEW p \in Pair, n.refused = b.refused \cup {p},
               ~Admissible(a, NewRow(b.offer, p))
        PROVE  /\ \A q \in n.refused : Beaten(a, q)'
               /\ Cardinality(n.refused) <= MAX_BOOKING_RETRIES
               /\ n.result # "slot_unavailable"
    <2>1. Beaten(a, p)
      BY <1>6, RefusalHasWinner
    <2>2. \A q \in n.refused : Beaten(a, q)'
      BY <1>2, <1>6, <2>1, BeatenStays
    <2>3. Cardinality(b.refused) < MAX_BOOKING_RETRIES
      BY <1>6 DEF MayRetry
    <2>4. /\ Cardinality(b.refused) \in Nat
          /\ \/ Cardinality(n.refused) = Cardinality(b.refused)
             \/ Cardinality(n.refused) = Cardinality(b.refused) + 1
      BY <1>6, RefusedIsFinite, FS_AddElement
    <2>5. Cardinality(n.refused) <= MAX_BOOKING_RETRIES
      BY <2>3, <2>4, BookingAssumption
    <2>6. QED
      BY <1>2, <1>6, <2>2, <2>5
  <1>7. QED
    BY <1>3, <1>4, <1>5, <1>6, RequestSteps

\* A request told "slot_unavailable" really lost: it has tried as many pairs as
\* it may, or all it had found, and each of them clashes with an appointment that
\* another request stored.
THEOREM LostRaceHasWinnerCorrect == Spec => []LostRaceHasWinner
  <1>1. Init => RaceInv
    <2>1. Cardinality({}) = 0
      BY FS_EmptySet
    <2>2. NoBooking.refused = {} /\ NoBooking.result # "slot_unavailable"
      BY ResultAssumption DEF NoBooking, Results
    <2>3. SUFFICES ASSUME Init
                   PROVE  RaceInv
      OBVIOUS
    <2>4. \A a \in Appt : booking[a].refused = {} /\ booking[a].result # "slot_unavailable"
      BY <2>2, <2>3 DEF Init
    <2>5. 0 <= MAX_BOOKING_RETRIES
      BY BookingAssumption
    <2>6. RefusedAreBeaten /\ GivenUp
      BY <2>4 DEF RefusedAreBeaten, GivenUp
    <2>7. TriesAreBounded
      BY <2>1, <2>4, <2>5 DEF TriesAreBounded
    <2>8. QED
      BY <2>6, <2>7 DEF RaceInv
  <1>2. TypeInv /\ InsertedOnce /\ RaceInv /\ [Next]_vars => RaceInv'
    BY RaceStep
  <1>3. TypeInv /\ RaceInv => LostRaceHasWinner
    <2> SUFFICES ASSUME TypeInv, RaceInv, NEW a \in Appt,
                        booking[a].result = "slot_unavailable"
                 PROVE  /\ \/ booking[a].open = {}
                           \/ Cardinality(booking[a].refused) = MAX_BOOKING_RETRIES
                        /\ \A p \in booking[a].refused : Beaten(a, p)
      BY DEF LostRaceHasWinner, Beaten
    <2>1. Cardinality(booking[a].refused) \in Nat
      BY RefusedIsFinite
    <2>2. QED
      BY <2>1, BookingAssumption
         DEF RaceInv, RefusedAreBeaten, TriesAreBounded, GivenUp, MayRetry
  <1>4. QED
    BY <1>1, <1>2, <1>3, TypeCorrect, InsertedOnceCorrect, PTL DEF Spec
=============================================================================
