----------------------- MODULE DepositPayments_proofs -----------------------
(***************************************************************************)
(* Deposits keep the calendar: with the payment service writing rows of    *)
(* its own - after a callback, after a hold has expired, after a review -  *)
(* the state stays well-typed and no double booking arises; and they keep  *)
(* to the money: what is told, refunded or confirmed on the strength of a  *)
(* payment has the gateway behind it, and money is paid back only when the *)
(* hold it was paid for is over.  For any salon, any number of payments,   *)
(* requests, workers and deaths.                                           *)
(***************************************************************************)
EXTENDS DepositPayments, BookingLifecycle_proofs

-----------------------------------------------------------------------------
(***************************************************************************)
(* The inductive invariant.  A request names its appointment and payment   *)
(* by id and updates them later, so it must be known that they exist; and  *)
(* a payment is opened only for a row that was held, whose offer tells how *)
(* the deposit is taken.                                                   *)
(***************************************************************************)
HeldTakesDeposit == \A a \in Appt : row[a].status = "held" => RequiresHold(booking[a].offer)

LifecycleInv == TypeInv /\ InsertedOnce /\ HeldTakesDeposit

PaymentsOK ==
  /\ payment \in [Payment -> PaymentRow \cup {NoPayment}]
  /\ \A p \in Payment : payment[p] # NoPayment => Exists(payment[p].appt)

ReceiptsOK ==
  /\ receipt \in [Appt -> ReceiptRow \cup {NoReceipt}]
  /\ \A a \in Appt : receipt[a] # NoReceipt =>
       Exists(a) /\ payment[receipt[a].pay] # NoPayment

Opening == {"find", "create"}

\* Request r fits the given tables.
GoodIn(r, rows, requests, payments) ==
  /\ r \in PayRequest
  /\ rows[r.appt].status # "absent"
  /\ r.op \in Opening => RequiresHold(requests[r.appt].offer)
  /\ r.op \notin Opening => r.pay \in Payment
  /\ r.pay \in Payment => payments[r.pay] # NoPayment

GoodRequest(r) == GoodIn(r, row, booking, payment)

RequestsOK ==
  /\ payCall \in [PayCall -> PayRequest \cup {NoPayCall}]
  /\ \A c \in PayCall : payCall[c] # NoPayCall => GoodRequest(payCall[c])

SettlementsOK ==
  /\ settle \in [Call -> Settlement \cup {NoSettlement}]
  /\ \A c \in Call :
       /\ settle[c].pc \in {"refund", "markRefunded", "retain"} => settle[c].pay \in Payment
       /\ settle[c].pay \in Payment => payment[settle[c].pay] # NoPayment

CountersOK ==
  /\ gate \in [Payment -> {"closed", "open", "paid", "declined"}]
  /\ refunds \in [Payment -> Nat]
  /\ told \subseteq Payment
  /\ refundStatus \in [Appt -> {"processed", "not_required", Null}]
  /\ tidy \in [Worker -> {"none", "receipts", "payments"}]

PayInv ==
  /\ LifecycleInv /\ PaymentsOK /\ ReceiptsOK /\ RequestsOK /\ SettlementsOK /\ CountersOK

-----------------------------------------------------------------------------
(***************************************************************************)
(* What a step does to the lifecycle: a step of the lifecycle itself, the  *)
(* confirmation of a stored row, or the end of a request that throws.      *)
(***************************************************************************)
Confirmation(a) ==
  /\ Exists(a)
  /\ StoreRow(a, Confirmed(row[a]))
  /\ UNCHANGED <<now, booking, call, sweep, noShowCount, announced, faults>>

Abort ==
  /\ call' = call \/ \E c \in Call : Return(c)
  /\ faults' \in 0..MaxFaults
  /\ UNCHANGED <<row, now, booking, sweep, noShowCount, announced>>

\* A request that is doing something has an appointment.
LEMMA RequestHasRow ==
  ASSUME RequestsOK, NEW c \in PayCall, payCall[c].op # "none"
  PROVE  GoodRequest(payCall[c]) /\ PayAppt(c) \in Appt /\ Exists(PayAppt(c))
  <1>1. payCall[c] # NoPayCall
    BY DEF NoPayCall
  <1>2. QED
    BY <1>1 DEF RequestsOK, GoodRequest, GoodIn, PayRequest, PayAppt, Exists

LEMMA FaultBound ==
  ASSUME TypeInv, Fault
  PROVE  faults' \in 0..MaxFaults
  BY BookingAssumption DEF Fault, TypeInv, TypeOK

LEMMA OpenStepKind ==
  ASSUME NEW c \in PayCall, OpenStep(c)
  PROVE  UNCHANGED vars
  BY DEF OpenStep, InitiateDeposit, UploadReceipt, ReviewReceipt, CallbackRead

\* Three of a request's steps write the row of its appointment.
LEMMA ServeStepQuiet ==
  ASSUME NEW c \in PayCall, ServeStep(c)
  PROVE  UNCHANGED vars \/ PayConfirmWrite(c) \/ LateConfirm(c) \/ ApproveReceipt(c)
  BY DEF ServeStep, FindTransfer, NoTransferFound, CreatePayment, RequestGateway, Verify,
         MarkFailed, MarkPaid, PayConfirmRead, PayConfirmRefused, LateCheck, LateRefused,
         LateRefund, MarkRefunded, StoreReceipt, AlreadyReviewed, RejectReceipt,
         ExpireReceipt, CloseReceipt, ApproveTooLate

LEMMA ServeStepKind ==
  ASSUME PayInv, NEW c \in PayCall, ServeStep(c)
  PROVE  UNCHANGED vars \/ \E a \in Appt : Confirmation(a)
  <1>1. CASE PayConfirmWrite(c) \/ LateConfirm(c)
    <2>1. PICK op \in {"confirmWrite", "lateWrite"} : ConfirmRow(c, op)
      BY <1>1 DEF PayConfirmWrite, LateConfirm
    <2>2. payCall[c].op # "none"
      BY <2>1 DEF ConfirmRow, Returns
    <2>3. QED
      BY <2>1, <2>2, RequestHasRow DEF PayInv, ConfirmRow, Confirmation
  <1>2. CASE ApproveReceipt(c)
    <2>1. payCall[c].op # "none"
      BY <1>2 DEF ApproveReceipt, Returns
    <2>2. QED
      BY <1>2, <2>1, RequestHasRow DEF PayInv, ApproveReceipt, Confirmation
  <1>3. QED
    BY <1>1, <1>2, ServeStepQuiet

LEMMA CancelStepKind ==
  ASSUME TypeInv, NEW c \in Call, CancelStep(c)
  PROVE  [Next]_vars \/ Abort
  <1>0. faults \in 0..MaxFaults
    BY DEF TypeInv, TypeOK
  <1>1. CASE NothingLeftToSettle(c)
    BY <1>0, <1>1 DEF NothingLeftToSettle, SettleThrows, Abort
  <1>2. CASE RefundDepositFails(c)
    BY <1>2, FaultBound DEF RefundDepositFails, SettleThrows, Abort
  <1>3. ASSUME NEW a \in Appt, CancelDepositRead(c, a)
        PROVE  Next
    BY <1>3 DEF CancelDepositRead, Next, ReadStep
  <1>4. CASE CancelDepositWrite(c) \/ CancellationDies(c)
    BY <1>4 DEF CancelDepositWrite, CancellationDies, Next, WriteStep
  <1>5. CASE \/ NothingToSettle(c) \/ ChooseSettlement(c) \/ RefundDeposit(c)
             \/ DepositRefunded(c) \/ DepositRetained(c) \/ RecordCancellation(c)
    BY <1>5 DEF NothingToSettle, ChooseSettlement, RefundDeposit, DepositRefunded,
                DepositRetained, MarkSettled, RecordCancellation
  <1>6. QED
    BY <1>1, <1>2, <1>3, <1>4, <1>5 DEF CancelStep

\* Only the payment service's requests write rows of their own.
LEMMA OtherStepKinds ==
  ASSUME PayInv, [PayNext]_allVars, \A c \in PayCall : ~ServeStep(c)
  PROVE  [Next]_vars \/ Abort
  <1>0. TypeInv
    BY DEF PayInv, LifecycleInv
  <1>1. CASE LifecycleStep
    BY <1>1 DEF LifecycleStep, OtherCallStep, Next, ReadStep, WriteStep, WorkerStep
  <1>2. ASSUME NEW p \in Payment, CustomerDecides(p) \/ CallbackRepeated(p)
        PROVE  UNCHANGED vars
    BY <1>2 DEF CustomerDecides, CallbackRepeated
  <1>3. ASSUME NEW c \in PayCall, PayFaultStep(c)
        PROVE  Abort
    BY <1>0, <1>3, FaultBound
       DEF PayFaultStep, VerifyUnavailable, LateRefundFails, PayCallDies, Abort
  <1>4. ASSUME NEW w \in Worker, ReleaseStep(w)
        PROVE  [Next]_vars
    BY <1>4 DEF ReleaseStep, ReleaseHolds, TidyReceipts, TidyPayments, MaintenanceDies,
                Next, WorkerStep
  <1>5. CASE UNCHANGED allVars
    BY <1>5 DEF allVars
  <1>6. QED
    BY <1>0, <1>1, <1>2, <1>3, <1>4, <1>5, OpenStepKind, CancelStepKind DEF PayNext

\* Every step is a step of the lifecycle, a confirmation, or a request's end.
LEMMA PayStepKinds ==
  ASSUME PayInv, [PayNext]_allVars
  PROVE  \/ [Next]_vars
         \/ \E a \in Appt : Confirmation(a)
         \/ Abort
  BY OtherStepKinds, ServeStepKind

-----------------------------------------------------------------------------
(***************************************************************************)
(* The lifecycle part of the invariant.                                    *)
(***************************************************************************)

\* Stored rows stay stored, and refer to the same offer.
RowsGrow == \A a \in Appt : Exists(a) => Exists(a)' /\ booking'[a].offer = booking[a].offer

\* A step of the lifecycle adds rows and keeps the old ones.
LEMMA NextGrows ==
  ASSUME LifecycleInv, [Next]_vars
  PROVE  RowsGrow
  <1> SUFFICES ASSUME NEW a \in Appt, Exists(a)
               PROVE  Exists(a)' /\ booking'[a].offer = booking[a].offer
    BY DEF RowsGrow
  <1>1. TypeInv /\ InsertedOnce
    BY DEF LifecycleInv
  <1>2. row[a].status # "absent" /\ row[a] # AbsentRow /\ row \in [Appt -> Row \cup {AbsentRow}]
    BY <1>1 DEF Exists, AbsentRow, TypeInv, TypeOK, TableTypeOK
  <1>3. \A r \in Row : r.status # "absent"
    BY DEF Row, ApptStatus
  <1>4. CASE Quiet
    BY <1>2, <1>4 DEF Quiet, Exists
  <1>5. ASSUME NEW x \in Appt, Insertion(x)
        PROVE  Exists(a)' /\ booking'[a].offer = booking[a].offer
    BY <1>2, <1>3, <1>5 DEF Insertion, StoreRow, Exists
  <1>6. ASSUME NEW x \in Appt, Deliberation(x)
        PROVE  Exists(a)' /\ booking'[a].offer = booking[a].offer
    BY <1>1, <1>2, <1>6 DEF Deliberation, InsertedOnce, Exists
  <1>7. ASSUME NEW c \in Call, Change(c)
        PROVE  Exists(a)' /\ booking'[a].offer = booking[a].offer
    BY <1>2, <1>3, <1>7 DEF Change, StoreRow, Exists
  <1>8. CASE Expiry
    BY <1>2, <1>8 DEF Expiry, Exists
  <1>9. QED
    BY <1>1, <1>4, <1>5, <1>6, <1>7, <1>8, StepKinds

\* Rows become held only when their offer asks for a deposit.
LEMMA NextHolds ==
  ASSUME LifecycleInv, [Next]_vars
  PROVE  HeldTakesDeposit'
  <1> SUFFICES ASSUME NEW a \in Appt, row'[a].status = "held"
               PROVE  RequiresHold(booking'[a].offer)
    BY DEF HeldTakesDeposit, RequiresHold
  <1>1. TypeInv /\ InsertedOnce /\ HeldTakesDeposit
    BY DEF LifecycleInv
  <1>2. row \in [Appt -> Row \cup {AbsentRow}] /\ AbsentRow.status # "held"
    BY <1>1 DEF AbsentRow, TypeInv, TypeOK, TableTypeOK
  <1>3. CASE Quiet
    BY <1>1, <1>3 DEF Quiet, HeldTakesDeposit
  <1>4. ASSUME NEW x \in Appt, Insertion(x)
        PROVE  RequiresHold(booking'[a].offer)
    <2>1. CASE x # a
      BY <1>1, <1>2, <1>4, <2>1 DEF Insertion, StoreRow, HeldTakesDeposit
    <2>2. CASE x = a
      <3>1. PICK p \in Pair : StoreRow(a, NewRow(booking[a].offer, p))
        BY <1>4, <2>2 DEF Insertion
      <3>2. row'[a] = NewRow(booking[a].offer, p)
        BY <1>2, <3>1 DEF StoreRow
      <3>3. InitialStatus(booking[a].offer, p.staff) = "held"
        BY <3>2 DEF NewRow
      <3>4. RequiresHold(booking[a].offer)
        BY <3>3 DEF InitialStatus
      <3>5. QED
        BY <1>4, <2>2, <3>4 DEF Insertion
    <2>3. QED
      BY <2>1, <2>2
  <1>5. ASSUME NEW x \in Appt, Deliberation(x)
        PROVE  RequiresHold(booking'[a].offer)
    BY <1>1, <1>2, <1>5 DEF Deliberation, InsertedOnce, HeldTakesDeposit
  <1>6. ASSUME NEW c \in Call, Change(c)
        PROVE  RequiresHold(booking'[a].offer)
    BY <1>1, <1>2, <1>6 DEF Change, StoreRow, HeldTakesDeposit
  <1>7. CASE Expiry
    BY <1>1, <1>7 DEF Expiry, HeldTakesDeposit
  <1>8. QED
    BY <1>1, <1>3, <1>4, <1>5, <1>6, <1>7, StepKinds

\* What the confirmation of a stored row stores.
LEMMA ConfirmedRow ==
  ASSUME TableTypeOK, NEW a \in Appt, Confirmation(a)
  PROVE  /\ Confirmed(row[a]) \in Row
         /\ row'[a].status = "confirmed"
         /\ \A b \in Appt \ {a} : row'[b] = row[b]
  <1>1. row[a] \in Row
    BY DEF Confirmation, Exists, AbsentRow, TableTypeOK
  <1>2. /\ Confirmed(row[a]) \in Row
        /\ Confirmed(row[a]).status = "confirmed"
    BY <1>1, WithStatusFields DEF Confirmed, ApptStatus
  <1>3. QED
    BY <1>2 DEF Confirmation, StoreRow, TableTypeOK

LEMMA ConfirmationKeeps ==
  ASSUME LifecycleInv, NEW a \in Appt, Confirmation(a)
  PROVE  LifecycleInv' /\ RowsGrow
  <1>1. TypeInv /\ TypeOK /\ TableTypeOK /\ InsertedOnce /\ HeldTakesDeposit
    BY DEF LifecycleInv, TypeInv, TypeOK
  <1>2. /\ Confirmed(row[a]) \in Row
        /\ row'[a].status = "confirmed"
        /\ \A b \in Appt \ {a} : row'[b] = row[b]
    BY <1>1, ConfirmedRow
  <1>3. TableTypeOK'
    BY <1>1, <1>2, StoreRowType DEF Confirmation
  <1>4. TypeOK'
    BY <1>1, <1>3 DEF Confirmation, TypeOK
  <1>5. RowsGrow
    BY <1>2 DEF Confirmation, RowsGrow, Exists
  <1>6. TypeInv'
    BY <1>1, <1>4, <1>5 DEF Confirmation, TypeInv, CallsHaveRow, RowsGrow, TypeOK
  <1>7. row[a] # AbsentRow
    BY DEF Confirmation, Exists, AbsentRow
  <1>8. InsertedOnce' /\ HeldTakesDeposit'
    BY <1>1, <1>2, <1>7 DEF Confirmation, InsertedOnce, HeldTakesDeposit, RequiresHold
  <1>9. QED
    BY <1>5, <1>6, <1>8 DEF LifecycleInv

LEMMA AbortKeeps ==
  ASSUME LifecycleInv, Abort
  PROVE  LifecycleInv' /\ RowsGrow
  <1>1. TypeInv /\ TypeOK
    BY DEF LifecycleInv, TypeInv
  <1>2. /\ call' \in [Call -> [op : Ops, appt : Appt] \cup {NoCall}]
        /\ \A c \in Call : call'[c] = call[c] \/ call'[c] = NoCall
    BY <1>1 DEF Abort, Return, TypeOK
  <1>3. TypeOK'
    BY <1>1, <1>2 DEF Abort, TypeOK, TableTypeOK
  <1>4. TypeInv'
    BY <1>1, <1>2, <1>3 DEF Abort, TypeInv, CallsHaveRow, Exists
  <1>5. InsertedOnce' /\ HeldTakesDeposit' /\ RowsGrow
    BY DEF Abort, LifecycleInv, InsertedOnce, HeldTakesDeposit, RequiresHold, RowsGrow, Exists
  <1>6. QED
    BY <1>4, <1>5 DEF LifecycleInv

LEMMA LifecycleInvStep ==
  ASSUME PayInv, [PayNext]_allVars
  PROVE  LifecycleInv' /\ RowsGrow
  <1>1. LifecycleInv /\ TypeInv /\ InsertedOnce
    BY DEF PayInv, LifecycleInv
  <1>2. CASE [Next]_vars
    BY <1>1, <1>2, TypeStep, InsertedOnceStep, NextGrows, NextHolds DEF LifecycleInv
  <1>3. QED
    BY <1>1, <1>2, ConfirmationKeeps, AbortKeeps, PayStepKinds

\* The calendar: a confirmation is one more admissible write.
LEMMA PayKeepsCalendar ==
  ASSUME PayInv, NoDoubleBooking, [PayNext]_allVars
  PROVE  NoDoubleBooking'
  <1>1. TypeInv /\ TableTypeOK
    BY DEF PayInv, LifecycleInv, TypeInv, TypeOK
  <1>2. CASE [Next]_vars
    BY <1>1, <1>2, CalendarStep
  <1>3. ASSUME NEW a \in Appt, Confirmation(a)
        PROVE  NoDoubleBooking'
    BY <1>1, <1>3, StoreRowKeepsCalendar DEF Confirmation
  <1>4. CASE Abort
    BY <1>4 DEF Abort, NoDoubleBooking
  <1>5. QED
    BY <1>2, <1>3, <1>4, PayStepKinds

-----------------------------------------------------------------------------
(***************************************************************************)
(* What a step does to the payment tables.                                 *)
(***************************************************************************)
PaymentEffect ==
  \/ payment' = payment
  \/ \E p \in Payment, status \in PaymentStatus :
       payment[p] # NoPayment /\ MarkPayment(p, status)
  \/ \E p \in Payment, r \in PaymentRow :
       Exists(r.appt) /\ payment' = [payment EXCEPT ![p] = r]
  \/ \E w \in Worker : TidyPayments(w)

ReceiptEffect ==
  \/ receipt' = receipt
  \/ \E a \in Appt, status \in ReceiptStatus : receipt[a] # NoReceipt /\ MarkReceipt(a, status)
  \/ \E a \in Appt, r \in ReceiptRow :
       Exists(a) /\ payment[r.pay] # NoPayment /\ receipt' = [receipt EXCEPT ![a] = r]
  \/ \E w \in Worker : TidyReceipts(w)

RequestEffect ==
  \/ payCall' = payCall
  \/ \E c \in PayCall, r \in PayRequest \cup {NoPayCall} :
       /\ payCall' = [payCall EXCEPT ![c] = r]
       /\ r # NoPayCall => GoodIn(r, row, booking, payment')

\* A settlement names a payment from the moment it has chosen one.
GoodSettlement(s, payments) ==
  /\ s \in Settlement \cup {NoSettlement}
  /\ s.pc \in {"refund", "markRefunded", "retain"} => s.pay \in Payment
  /\ s.pay \in Payment => payments[s.pay] # NoPayment

SettleEffect ==
  \/ settle' = settle
  \/ \E c \in Call, s \in Settlement \cup {NoSettlement} :
       /\ settle' = [settle EXCEPT ![c] = s]
       /\ GoodSettlement(s, payment)

PaymentsGrow == \A p \in Payment : payment[p] # NoPayment => payment'[p] # NoPayment

\* Marking a payment keeps it a payment of its appointment.
LEMMA MarkedPayment ==
  ASSUME NEW r \in PaymentRow, NEW status \in PaymentStatus
  PROVE  /\ [r EXCEPT !.status = status] \in PaymentRow
         /\ [r EXCEPT !.status = status].appt = r.appt
         /\ [r EXCEPT !.status = status] # NoPayment
  BY DEF PaymentRow, NoPayment, PaymentStatus

LEMMA PaymentsStep ==
  ASSUME PaymentsOK, RowsGrow, PaymentEffect
  PROVE  PaymentsOK' /\ PaymentsGrow
  <1>1. /\ payment \in [Payment -> PaymentRow \cup {NoPayment}]
        /\ \A p \in Payment : payment[p] # NoPayment => Exists(payment[p].appt)
    BY DEF PaymentsOK
  <1>2. \A r \in PaymentRow : r # NoPayment /\ r.appt \in Appt
    BY DEF PaymentRow, NoPayment, PaymentStatus
  <1>3. CASE payment' = payment
    BY <1>1, <1>2, <1>3 DEF PaymentsOK, PaymentsGrow, RowsGrow
  <1>4. ASSUME NEW p \in Payment, NEW status \in PaymentStatus,
               payment[p] # NoPayment, MarkPayment(p, status)
        PROVE  PaymentsOK' /\ PaymentsGrow
    <2>1. payment[p] \in PaymentRow
      BY <1>1, <1>4
    <2>2. PICK r \in PaymentRow :
            payment' = [payment EXCEPT ![p] = r] /\ r.appt = payment[p].appt
      BY <1>4, <2>1, MarkedPayment DEF MarkPayment
    <2>3. QED
      BY <1>1, <1>2, <1>4, <2>1, <2>2 DEF PaymentsOK, PaymentsGrow, RowsGrow
  <1>5. ASSUME NEW p \in Payment, NEW r \in PaymentRow,
               Exists(r.appt), payment' = [payment EXCEPT ![p] = r]
        PROVE  PaymentsOK' /\ PaymentsGrow
    BY <1>1, <1>2, <1>5 DEF PaymentsOK, PaymentsGrow, RowsGrow
  <1>6. ASSUME NEW w \in Worker, TidyPayments(w)
        PROVE  PaymentsOK' /\ PaymentsGrow
    <2>1. \A p \in Payment :
            \/ payment'[p] = payment[p]
            \/ /\ payment[p].status = "pending"
               /\ payment'[p] = [payment[p] EXCEPT !.status = "failed"]
      BY <1>6 DEF TidyPayments
    <2>2. \A p \in Payment :
            \/ payment'[p] = payment[p]
            \/ /\ payment[p] \in PaymentRow /\ payment'[p] \in PaymentRow
               /\ payment'[p].appt = payment[p].appt
      <3>1. NoPayment.status # "pending"
        BY DEF NoPayment
      <3>2. "failed" \in PaymentStatus
        BY DEF PaymentStatus
      <3>3. ASSUME NEW p \in Payment, payment'[p] # payment[p]
            PROVE  /\ payment[p] \in PaymentRow /\ payment'[p] \in PaymentRow
                   /\ payment'[p].appt = payment[p].appt
        <4>1. payment[p].status = "pending" /\ payment'[p] = [payment[p] EXCEPT !.status = "failed"]
          BY <2>1, <3>3
        <4>2. payment[p] \in PaymentRow
          BY <1>1, <3>1, <4>1
        <4>3. QED
          BY <3>2, <4>1, <4>2, MarkedPayment
      <3>4. QED
        BY <3>3
    <2>3. payment' \in [Payment -> PaymentRow \cup {NoPayment}]
      <3>1. payment' = [p \in Payment |-> payment'[p]]
        BY <1>6 DEF TidyPayments
      <3>2. QED
        BY <1>1, <2>2, <3>1
    <2>4. QED
      BY <1>1, <1>2, <2>2, <2>3 DEF PaymentsOK, PaymentsGrow, RowsGrow
  <1>7. QED
    BY <1>3, <1>4, <1>5, <1>6 DEF PaymentEffect

\* Marking a receipt keeps the payment it belongs to.
LEMMA MarkedReceipt ==
  ASSUME NEW r \in ReceiptRow, NEW status \in ReceiptStatus
  PROVE  /\ [r EXCEPT !.status = status] \in ReceiptRow
         /\ [r EXCEPT !.status = status].pay = r.pay
  BY DEF ReceiptRow

LEMMA ReceiptsStep ==
  ASSUME ReceiptsOK, RowsGrow, PaymentsGrow, ReceiptEffect
  PROVE  ReceiptsOK'
  <1>1. /\ receipt \in [Appt -> ReceiptRow \cup {NoReceipt}]
        /\ \A a \in Appt : receipt[a] # NoReceipt =>
             Exists(a) /\ payment[receipt[a].pay] # NoPayment
    BY DEF ReceiptsOK
  <1>2. \A r \in ReceiptRow : r # NoReceipt /\ r.pay \in Payment
    BY DEF ReceiptRow, NoReceipt, ReceiptStatus
  <1>3. CASE receipt' = receipt
    BY <1>1, <1>2, <1>3 DEF ReceiptsOK, PaymentsGrow, RowsGrow
  <1>4. ASSUME NEW a \in Appt, NEW status \in ReceiptStatus,
               receipt[a] # NoReceipt, MarkReceipt(a, status)
        PROVE  ReceiptsOK'
    <2>1. receipt[a] \in ReceiptRow
      BY <1>1, <1>4
    <2>2. PICK r \in ReceiptRow :
            receipt' = [receipt EXCEPT ![a] = r] /\ r.pay = receipt[a].pay
      BY <1>4, <2>1, MarkedReceipt DEF MarkReceipt
    <2>3. QED
      BY <1>1, <1>2, <1>4, <2>1, <2>2 DEF ReceiptsOK, PaymentsGrow, RowsGrow
  <1>5. ASSUME NEW a \in Appt, NEW r \in ReceiptRow,
               Exists(a), payment[r.pay] # NoPayment, receipt' = [receipt EXCEPT ![a] = r]
        PROVE  ReceiptsOK'
    BY <1>1, <1>2, <1>5 DEF ReceiptsOK, PaymentsGrow, RowsGrow
  <1>6. ASSUME NEW w \in Worker, TidyReceipts(w)
        PROVE  ReceiptsOK'
    <2>1. \A a \in Appt :
            \/ receipt'[a] = receipt[a]
            \/ /\ receipt[a].status = "pending"
               /\ receipt'[a] = [receipt[a] EXCEPT !.status = "expired"]
      BY <1>6 DEF TidyReceipts
    <2>2. \A a \in Appt :
            \/ receipt'[a] = receipt[a]
            \/ /\ receipt[a] \in ReceiptRow /\ receipt'[a] \in ReceiptRow
               /\ receipt'[a].pay = receipt[a].pay
      <3>1. NoReceipt.status # "pending" /\ "expired" \in ReceiptStatus
        BY DEF NoReceipt, ReceiptStatus
      <3>2. ASSUME NEW a \in Appt, receipt'[a] # receipt[a]
            PROVE  /\ receipt[a] \in ReceiptRow /\ receipt'[a] \in ReceiptRow
                   /\ receipt'[a].pay = receipt[a].pay
        <4>1. receipt[a].status = "pending" /\ receipt'[a] = [receipt[a] EXCEPT !.status = "expired"]
          BY <2>1, <3>2
        <4>2. receipt[a] \in ReceiptRow
          BY <1>1, <3>1, <4>1
        <4>3. QED
          BY <3>1, <4>1, <4>2, MarkedReceipt
      <3>3. QED
        BY <3>2
    <2>3. receipt' \in [Appt -> ReceiptRow \cup {NoReceipt}]
      <3>1. receipt' = [a \in Appt |-> receipt'[a]]
        BY <1>6 DEF TidyReceipts
      <3>2. QED
        BY <1>1, <2>2, <3>1
    <2>4. QED
      BY <1>1, <1>2, <2>2, <2>3 DEF ReceiptsOK, PaymentsGrow, RowsGrow
  <1>7. QED
    BY <1>3, <1>4, <1>5, <1>6 DEF ReceiptEffect

LEMMA RequestsStep ==
  ASSUME RequestsOK, RowsGrow, PaymentsGrow, RequestEffect
  PROVE  RequestsOK'
  <1>1. \A r \in PayRequest :
          \/ GoodIn(r, row, booking, payment)
          \/ GoodIn(r, row, booking, payment')
          => GoodIn(r, row', booking', payment')
    BY DEF GoodIn, RowsGrow, PaymentsGrow, PayRequest, Exists
  <1>2. /\ payCall \in [PayCall -> PayRequest \cup {NoPayCall}]
        /\ \A c \in PayCall : payCall[c] # NoPayCall =>
             payCall[c] \in PayRequest /\ GoodIn(payCall[c], row, booking, payment)
    BY DEF RequestsOK, GoodRequest, GoodIn
  <1>3. CASE payCall' = payCall
    BY <1>1, <1>2, <1>3 DEF RequestsOK, GoodRequest
  <1>4. ASSUME NEW c \in PayCall, NEW r \in PayRequest \cup {NoPayCall},
               payCall' = [payCall EXCEPT ![c] = r],
               r # NoPayCall => GoodIn(r, row, booking, payment')
        PROVE  RequestsOK'
    <2>1. payCall' \in [PayCall -> PayRequest \cup {NoPayCall}]
      BY <1>2, <1>4
    <2>2. \A d \in PayCall : payCall'[d] # NoPayCall =>
            GoodIn(payCall'[d], row', booking', payment')
      BY <1>1, <1>2, <1>4
    <2>3. QED
      BY <2>1, <2>2 DEF RequestsOK, GoodRequest
  <1>5. QED
    BY <1>3, <1>4 DEF RequestEffect

LEMMA SettlementsStep ==
  ASSUME SettlementsOK, PaymentsGrow, SettleEffect
  PROVE  SettlementsOK'
  <1>1. CASE settle' = settle
    BY <1>1 DEF SettlementsOK, PaymentsGrow
  <1>2. ASSUME NEW c \in Call, NEW s \in Settlement \cup {NoSettlement},
               settle' = [settle EXCEPT ![c] = s], GoodSettlement(s, payment)
        PROVE  SettlementsOK'
    BY <1>2 DEF SettlementsOK, PaymentsGrow, GoodSettlement
  <1>3. QED
    BY <1>1, <1>2 DEF SettleEffect

-----------------------------------------------------------------------------
(***************************************************************************)
(* The effects of the requests to the payment service.                     *)
(***************************************************************************)
PayEffects == PaymentEffect /\ ReceiptEffect /\ RequestEffect /\ SettleEffect /\ CountersOK'

\* A request that starts on a stored appointment fits the tables.
LEMMA StartEffect ==
  ASSUME TypeInv, NEW c \in PayCall, NEW op \in PayOps,
         NEW kind \in {"initiate", "upload", "callback", "late", "review"},
         NEW a \in Appt, NEW p \in Payment \cup {Null}, Starts(c, op, kind, a, p),
         Exists(a),
         op \in Opening => RequiresHold(booking[a].offer),
         op \notin Opening => p \in Payment,
         p \in Payment => payment'[p] # NoPayment
  PROVE  RequestEffect
  <1> DEFINE r == [op |-> op, kind |-> kind, appt |-> a, pay |-> p, at |-> now]
  <1>1. now \in Nat
    BY BookingAssumption DEF TypeInv, TypeOK
  <1>2. r \in PayRequest /\ r.op = op /\ r.appt = a /\ r.pay = p
    BY <1>1 DEF PayRequest
  <1>3. payCall' = [payCall EXCEPT ![c] = r]
    BY DEF Starts
  <1> HIDE DEF r
  <1>4. GoodIn(r, row, booking, payment')
    BY <1>2 DEF GoodIn, Exists
  <1>5. QED
    BY <1>2, <1>3, <1>4 DEF RequestEffect

\* A held appointment exists and takes a deposit.
LEMMA HeldRow ==
  ASSUME LifecycleInv, NEW a \in Appt, row[a].status = "held"
  PROVE  Exists(a) /\ RequiresHold(booking[a].offer)
  BY DEF LifecycleInv, HeldTakesDeposit, Exists

LEMMA OpenEffects ==
  ASSUME PayInv, NEW c \in PayCall, OpenStep(c)
  PROVE  PayEffects
  <1>1. /\ LifecycleInv /\ TypeInv /\ PaymentsOK /\ ReceiptsOK /\ CountersOK
        /\ Null \notin Payment
    BY PaymentAssumption DEF PayInv, LifecycleInv
  <1>2. UNCHANGED <<payment, receipt, settle>> /\ CountersOK'
    BY <1>1 DEF OpenStep, InitiateDeposit, UploadReceipt, ReviewReceipt, CallbackRead,
                Ledger, Policies, CountersOK
  <1>3. ASSUME NEW a \in Appt, InitiateDeposit(c, a) \/ UploadReceipt(c, a)
        PROVE  RequestEffect
    <2>1. row[a].status = "held"
      BY <1>3 DEF InitiateDeposit, UploadReceipt
    <2>2. PICK op \in {"find", "create"}, kind \in {"initiate", "upload"} :
            Starts(c, op, kind, a, Null)
      BY <1>3 DEF InitiateDeposit, UploadReceipt
    <2>3. QED
      BY <1>1, <2>1, <2>2, HeldRow, StartEffect DEF Opening, PayOps
  <1>4. ASSUME NEW a \in Appt, ReviewReceipt(c, a)
        PROVE  RequestEffect
    <2>1. PICK op \in {"approve", "reject"} : Starts(c, op, "review", a, receipt[a].pay)
      BY <1>4 DEF ReviewReceipt
    <2>2. receipt[a] # NoReceipt
      BY <1>4 DEF ReviewReceipt, NoReceipt
    <2>3. receipt[a].pay \in Payment /\ Exists(a) /\ payment[receipt[a].pay] # NoPayment
      BY <1>1, <2>2 DEF ReceiptsOK, ReceiptRow
    <2>4. op \in PayOps /\ op \notin Opening
      BY DEF PayOps, Opening
    <2>5. QED
      BY <1>1, <1>2, <2>1, <2>3, <2>4, StartEffect
  <1>5. ASSUME NEW p \in Payment, CallbackRead(c, p)
        PROVE  RequestEffect
    <2>1. payment[p] # NoPayment
      BY <1>5 DEF CallbackRead, NoPayment
    <2>2. payment[p].appt \in Appt /\ Exists(payment[p].appt)
      BY <1>1, <2>1 DEF PaymentsOK, PaymentRow
    <2>3. PICK kind \in {"late", "callback"} : Starts(c, "verify", kind, payment[p].appt, p)
      BY <1>5 DEF CallbackRead
    <2>4. "verify" \in PayOps /\ "verify" \notin Opening
      BY DEF PayOps, Opening
    <2>5. QED
      BY <1>1, <1>2, <2>1, <2>2, <2>3, <2>4, StartEffect
  <1>6. RequestEffect
    BY <1>3, <1>4, <1>5 DEF OpenStep
  <1>7. QED
    BY <1>2, <1>6 DEF PayEffects, PaymentEffect, ReceiptEffect, SettleEffect

\* A request that goes on without opening a payment still fits the tables.
LEMMA GoOnEffect ==
  ASSUME RequestsOK, PaymentsGrow, NEW c \in PayCall, payCall[c].op # "none",
         NEW next \in PayOps, payCall[c].op \in Opening <=> next \in Opening,
         payCall' = [payCall EXCEPT ![c] = [payCall[c] EXCEPT !.op = next]]
  PROVE  RequestEffect
  <1>1. GoodIn(payCall[c], row, booking, payment) /\ payCall[c] \in PayRequest
    BY RequestHasRow DEF GoodRequest, GoodIn
  <1>2. PICK r \in PayRequest :
          /\ payCall' = [payCall EXCEPT ![c] = r]
          /\ r.op = next /\ r.appt = payCall[c].appt /\ r.pay = payCall[c].pay
    <2>1. /\ [payCall[c] EXCEPT !.op = next] \in PayRequest
          /\ [payCall[c] EXCEPT !.op = next].op = next
          /\ [payCall[c] EXCEPT !.op = next].appt = payCall[c].appt
          /\ [payCall[c] EXCEPT !.op = next].pay = payCall[c].pay
      BY <1>1 DEF PayRequest
    <2>2. QED
      BY <2>1
  <1>3. GoodIn(r, row, booking, payment')
    BY <1>1, <1>2 DEF GoodIn, PaymentsGrow
  <1>4. QED
    BY <1>2, <1>3 DEF RequestEffect

\* A request that is given its payment fits the tables with that payment.
LEMMA TakesPaymentEffect ==
  ASSUME RequestsOK, NEW c \in PayCall, payCall[c].op # "none",
         NEW next \in PayOps, next \notin Opening,
         NEW p \in Payment, payment'[p] # NoPayment,
         payCall' = [payCall EXCEPT ![c] = [payCall[c] EXCEPT !.op = next, !.pay = p]]
  PROVE  RequestEffect
  <1>1. GoodIn(payCall[c], row, booking, payment) /\ payCall[c] \in PayRequest
    BY RequestHasRow DEF GoodRequest, GoodIn
  <1>2. PICK r \in PayRequest :
          /\ payCall' = [payCall EXCEPT ![c] = r]
          /\ r.op = next /\ r.appt = payCall[c].appt /\ r.pay = p
    <2>1. /\ [payCall[c] EXCEPT !.op = next, !.pay = p] \in PayRequest
          /\ [payCall[c] EXCEPT !.op = next, !.pay = p].op = next
          /\ [payCall[c] EXCEPT !.op = next, !.pay = p].appt = payCall[c].appt
          /\ [payCall[c] EXCEPT !.op = next, !.pay = p].pay = p
      BY <1>1 DEF PayRequest
    <2>2. QED
      BY <2>1
  <1>3. GoodIn(r, row, booking, payment')
    BY <1>1, <1>2 DEF GoodIn
  <1>4. QED
    BY <1>2, <1>3 DEF RequestEffect

\* A request that returns is forgotten.
LEMMA ReturnEffect ==
  ASSUME NEW c \in PayCall, payCall' = [payCall EXCEPT ![c] = NoPayCall]
  PROVE  RequestEffect
  BY DEF RequestEffect

\* The payment of a request that is past opening it.
LEMMA RequestHasPayment ==
  ASSUME RequestsOK, NEW c \in PayCall, payCall[c].op # "none", payCall[c].op \notin Opening
  PROVE  Pay(c) \in Payment /\ payment[Pay(c)] # NoPayment
  BY RequestHasRow DEF GoodRequest, GoodIn, Pay

\* A step that only moves a request.
LEMMA MoveEffects ==
  ASSUME CountersOK, RequestEffect,
         UNCHANGED <<payment, receipt, gate, refunds, told, settle, refundStatus, tidy>>
  PROVE  PayEffects
  BY DEF PayEffects, PaymentEffect, ReceiptEffect, SettleEffect, CountersOK

LEMMA ServeEffects ==
  ASSUME PayInv, RowsGrow, NEW c \in PayCall, ServeStep(c)
  PROVE  PayEffects
  <1>1. /\ TypeInv /\ PaymentsOK /\ ReceiptsOK /\ RequestsOK /\ CountersOK
        /\ "none" \notin Opening /\ Opening \subseteq PayOps
    BY DEF PayInv, LifecycleInv, Opening, PayOps
  <1>2. payment' = payment => PaymentsGrow
    BY DEF PaymentsGrow
  <1>3. CASE \/ NoTransferFound(c) \/ Verify(c) \/ PayConfirmRead(c) \/ PayConfirmRefused(c)
             \/ LateCheck(c) \/ ApproveTooLate(c)
    <2>1. PICK op \in PayOps, next \in PayOps : GoOn(c, op, next) /\ (op \in Opening <=> next \in Opening)
      BY <1>3 DEF NoTransferFound, Verify, PayConfirmRead, PayConfirmRefused, LateCheck,
                  ApproveTooLate, PayOps, Opening
    <2>2. UNCHANGED <<payment, receipt, gate, refunds, told, settle, refundStatus, tidy>>
      BY <1>3 DEF NoTransferFound, Verify, PayConfirmRead, PayConfirmRefused, LateCheck,
                  ApproveTooLate, Ledger, Policies
    <2>3. "none" \notin PayOps
      BY DEF PayOps
    <2>4. RequestEffect
      BY <1>1, <1>2, <2>1, <2>2, <2>3, GoOnEffect DEF GoOn
    <2>5. QED
      BY <1>1, <2>2, <2>4, MoveEffects
  <1>4. CASE LateRefused(c) \/ AlreadyReviewed(c)
    <2>1. /\ payCall' = [payCall EXCEPT ![c] = NoPayCall]
          /\ UNCHANGED <<payment, receipt, gate, refunds, told, settle, refundStatus, tidy>>
      BY <1>4 DEF LateRefused, AlreadyReviewed, Returns, Ledger, Policies
    <2>2. QED
      BY <1>1, <2>1, ReturnEffect, MoveEffects
  <1>5. CASE FindTransfer(c)
    <2>1. PICK p \in OpenTransfers(PayAppt(c)) :
            payCall' = [payCall EXCEPT ![c] =
              IF payCall[c].kind = "upload" THEN [payCall[c] EXCEPT !.op = "receipt", !.pay = p]
                                            ELSE NoPayCall]
      BY <1>5 DEF FindTransfer
    <2>2. /\ UNCHANGED <<payment, receipt, gate, refunds, told, settle, refundStatus, tidy>>
          /\ payCall[c].op # "none"
      BY <1>5 DEF FindTransfer, Ledger, Policies
    <2>3. p \in Payment /\ payment'[p] # NoPayment
      BY <2>2 DEF OpenTransfers, NoPayment
    <2>4. "receipt" \in PayOps /\ "receipt" \notin Opening
      BY DEF PayOps, Opening
    <2>5. CASE payCall[c].kind = "upload"
      BY <1>1, <2>1, <2>2, <2>3, <2>4, <2>5, TakesPaymentEffect, MoveEffects
    <2>6. CASE payCall[c].kind # "upload"
      BY <1>1, <2>1, <2>2, <2>6, ReturnEffect, MoveEffects
    <2>7. QED
      BY <2>5, <2>6
  <1>6. CASE CreatePayment(c)
    <2> DEFINE a == PayAppt(c)
               new == [status |-> "pending", appt |-> a, method |-> Method(a)]
    <2>1. payCall[c].op = "create"
      BY <1>6 DEF CreatePayment
    <2>2. GoodIn(payCall[c], row, booking, payment) /\ a \in Appt /\ Exists(a)
      BY <1>1, <2>1, RequestHasRow DEF GoodRequest
    <2>3. RequiresHold(booking[a].offer)
      BY <2>1, <2>2 DEF GoodIn, Opening, PayAppt
    <2>4. /\ new \in PaymentRow /\ new # NoPayment /\ new.appt = a
          /\ Method(a) \in {"gateway", "card_transfer"}
      BY <2>2, <2>3 DEF RequiresHold, Method, PaymentRow, PaymentStatus, NoPayment
    <2>5. PICK p \in Payment :
            /\ payment' = [payment EXCEPT ![p] = new]
            /\ payCall' = [payCall EXCEPT ![c] =
                IF Method(a) = "gateway" THEN [payCall[c] EXCEPT !.op = "request", !.pay = p]
                ELSE IF payCall[c].kind = "upload"
                THEN [payCall[c] EXCEPT !.op = "receipt", !.pay = p]
                ELSE NoPayCall]
      BY <1>6 DEF CreatePayment
    <2> HIDE DEF new
    <2>6. payment'[p] # NoPayment
      BY <1>1, <2>4, <2>5 DEF PaymentsOK
    <2>7. {"request", "receipt"} \subseteq PayOps \ Opening
      BY DEF PayOps, Opening
    <2>8. \/ payCall' = [payCall EXCEPT ![c] = NoPayCall]
          \/ \E op \in {"request", "receipt"} :
               payCall' = [payCall EXCEPT ![c] = [payCall[c] EXCEPT !.op = op, !.pay = p]]
      <3>1. CASE Method(a) = "gateway"
        BY <2>5, <3>1
      <3>2. CASE Method(a) # "gateway" /\ payCall[c].kind = "upload"
        BY <2>5, <3>2
      <3>3. CASE Method(a) # "gateway" /\ payCall[c].kind # "upload"
        BY <2>5, <3>3
      <3>4. QED
        BY <3>1, <3>2, <3>3
    <2>9. RequestEffect
      BY <1>1, <2>1, <2>6, <2>7, <2>8, TakesPaymentEffect, ReturnEffect
    <2>10. PaymentEffect
      BY <2>2, <2>4, <2>5 DEF PaymentEffect
    <2>11. QED
      BY <1>1, <1>6, <2>9, <2>10
         DEF CreatePayment, PayEffects, ReceiptEffect, SettleEffect, Policies, CountersOK
  <1>7. CASE RequestGateway(c)
    BY <1>1, <1>7, ReturnEffect
       DEF RequestGateway, Returns, PayEffects, PaymentEffect, ReceiptEffect, SettleEffect,
           Policies, CountersOK
  <1>8. CASE MarkFailed(c) \/ MarkRefunded(c)
    <2>1. PICK status \in PaymentStatus :
            /\ MarkPayment(Pay(c), status)
            /\ payCall' = [payCall EXCEPT ![c] = NoPayCall]
            /\ payCall[c].op # "none" /\ payCall[c].op \notin Opening
      BY <1>8 DEF MarkFailed, MarkRefunded, Returns, PaymentStatus, Opening
    <2>2. PaymentEffect
      BY <1>1, <2>1, RequestHasPayment DEF PaymentEffect
    <2>3. QED
      BY <1>1, <1>8, <2>1, <2>2, ReturnEffect
         DEF MarkFailed, MarkRefunded, PayEffects, ReceiptEffect, SettleEffect, Policies, CountersOK
  <1>9. CASE MarkPaid(c)
    <2>1. PICK next \in {"late", "confirmRead"} : GoOn(c, "markPaid", next)
      BY <1>9 DEF MarkPaid
    <2>2. /\ payCall[c].op # "none" /\ payCall[c].op \notin Opening
          /\ next \in PayOps /\ next \notin Opening
      BY <2>1 DEF GoOn, Opening, PayOps
    <2>3. PaymentEffect
      BY <1>1, <1>9, <2>2, RequestHasPayment DEF MarkPaid, PaymentEffect, PaymentStatus
    <2>4. RequestEffect
      BY <1>1, <2>1, <2>2, <2>3, PaymentsStep, GoOnEffect DEF GoOn
    <2>5. QED
      BY <1>1, <1>9, <2>3, <2>4
         DEF MarkPaid, PayEffects, ReceiptEffect, SettleEffect, Policies, CountersOK
  <1>10. CASE PayConfirmWrite(c) \/ LateConfirm(c)
    <2>1. PICK op \in {"confirmWrite", "lateWrite"} : ConfirmRow(c, op)
      BY <1>10 DEF PayConfirmWrite, LateConfirm
    <2>2. Pay(c) \in Payment
      BY <1>1, <2>1, RequestHasPayment DEF ConfirmRow, Returns, Opening
    <2>3. QED
      BY <1>1, <2>1, <2>2, ReturnEffect
         DEF ConfirmRow, Returns, PayEffects, PaymentEffect, ReceiptEffect, SettleEffect,
             Policies, CountersOK
  <1>11. CASE LateRefund(c)
    <2>1. payCall[c].op = "refund" /\ {"refund", "markRefunded"} \subseteq PayOps \ Opening
      BY <1>11 DEF LateRefund, GoOn, PayOps, Opening
    <2>2. RequestEffect
      BY <1>1, <1>2, <1>11, <2>1, GoOnEffect DEF LateRefund, GoOn
    <2>3. refunds' \in [Payment -> Nat]
      BY <1>1, <1>11, <2>1, RequestHasPayment DEF LateRefund, CountersOK, Opening
    <2>4. QED
      BY <1>1, <1>11, <2>2, <2>3
         DEF LateRefund, PayEffects, PaymentEffect, ReceiptEffect, SettleEffect, Policies, CountersOK
  <1>12. CASE StoreReceipt(c)
    <2>1. /\ Pay(c) \in Payment /\ payment[Pay(c)] # NoPayment
          /\ PayAppt(c) \in Appt /\ Exists(PayAppt(c))
      BY <1>1, <1>12, RequestHasRow, RequestHasPayment DEF StoreReceipt, Returns, Opening
    <2>2. PICK r \in ReceiptRow :
            r.pay = Pay(c) /\ receipt' = [receipt EXCEPT ![PayAppt(c)] = r]
      BY <1>12, <2>1 DEF StoreReceipt, ReceiptRow, ReceiptStatus
    <2>3. ReceiptEffect
      BY <2>1, <2>2 DEF ReceiptEffect
    <2>4. QED
      BY <1>1, <1>12, <2>3, ReturnEffect
         DEF StoreReceipt, Returns, PayEffects, PaymentEffect, SettleEffect, Policies, CountersOK
  <1>13. CASE RejectReceipt(c) \/ ExpireReceipt(c) \/ ApproveReceipt(c)
    <2>1. PICK status \in {"rejected", "expired", "approved"}, outcome \in {"failed", "paid"} :
            MarkReceipt(PayAppt(c), status) /\ MarkPayment(Pay(c), outcome)
      BY <1>13 DEF RejectReceipt, ExpireReceipt, ApproveReceipt, CloseReceipt
    <2>2. /\ payCall[c].op \in {"reject", "expire", "approve"}
          /\ payCall' = [payCall EXCEPT ![c] = NoPayCall]
          /\ receipt[PayAppt(c)].status = "pending"
          /\ UNCHANGED <<gate, refunds, told, settle, refundStatus, tidy>>
      BY <1>13 DEF RejectReceipt, ExpireReceipt, ApproveReceipt, CloseReceipt, Returns, Policies
    <2>3. /\ Pay(c) \in Payment /\ payment[Pay(c)] # NoPayment
          /\ PayAppt(c) \in Appt /\ receipt[PayAppt(c)] # NoReceipt
      BY <1>1, <2>2, RequestHasRow, RequestHasPayment DEF Opening, NoReceipt
    <2>4. PaymentEffect /\ ReceiptEffect
      BY <2>1, <2>3 DEF PaymentEffect, ReceiptEffect, PaymentStatus, ReceiptStatus
    <2>5. QED
      BY <1>1, <2>2, <2>4, ReturnEffect DEF PayEffects, SettleEffect, CountersOK
  <1>14. QED
    BY <1>3, <1>4, <1>5, <1>6, <1>7, <1>8, <1>9, <1>10, <1>11, <1>12, <1>13 DEF ServeStep

LEMMA PayFaultEffects ==
  ASSUME PayInv, NEW c \in PayCall, PayFaultStep(c)
  PROVE  PayEffects
  <1>1. RequestsOK /\ CountersOK
    BY DEF PayInv
  <1>2. UNCHANGED <<payment, receipt, gate, refunds, told, settle, refundStatus, tidy>>
    BY DEF PayFaultStep, VerifyUnavailable, LateRefundFails, PayCallDies, Ledger, Policies
  <1>3. CASE VerifyUnavailable(c)
    <2>1. {"verify", "markFailed"} \subseteq PayOps \ Opening /\ payCall[c].op = "verify"
      BY <1>3 DEF VerifyUnavailable, GoOn, PayOps, Opening
    <2>2. RequestEffect
      BY <1>1, <1>2, <1>3, <2>1, GoOnEffect DEF VerifyUnavailable, GoOn, PaymentsGrow
    <2>3. QED
      BY <1>1, <1>2, <2>2, MoveEffects
  <1>4. CASE LateRefundFails(c) \/ PayCallDies(c)
    BY <1>1, <1>2, <1>4, ReturnEffect, MoveEffects DEF LateRefundFails, PayCallDies, Returns
  <1>5. QED
    BY <1>3, <1>4 DEF PayFaultStep

-----------------------------------------------------------------------------
(***************************************************************************)
(* The effects of cancellations and of maintenance.                        *)
(***************************************************************************)

\* A settlement that goes on keeps its payment, and may choose one.
LEMMA SettleStepEffect ==
  ASSUME SettlementsOK, NEW c \in Call, settle[c].pc # "none",
         NEW next \in {"policy", "record", "markRefunded"},
         next = "markRefunded" => settle[c].pc = "refund",
         settle' = [settle EXCEPT ![c] = [settle[c] EXCEPT !.pc = next]]
  PROVE  SettleEffect
  <1>1. /\ settle[c] \in Settlement
        /\ settle[c].pc = "refund" => settle[c].pay \in Payment
        /\ settle[c].pay \in Payment => payment[settle[c].pay] # NoPayment
    BY DEF SettlementsOK, NoSettlement
  <1>2. PICK s \in Settlement :
          settle' = [settle EXCEPT ![c] = s] /\ s.pc = next /\ s.pay = settle[c].pay
    <2>1. /\ [settle[c] EXCEPT !.pc = next] \in Settlement
          /\ [settle[c] EXCEPT !.pc = next].pc = next
          /\ [settle[c] EXCEPT !.pc = next].pay = settle[c].pay
      BY <1>1 DEF Settlement
    <2>2. QED
      BY <2>1
  <1>3. GoodSettlement(s, payment)
    BY <1>1, <1>2 DEF GoodSettlement
  <1>4. QED
    BY <1>2, <1>3 DEF SettleEffect

LEMMA NoSettlementEffect ==
  ASSUME NEW c \in Call, settle' = [settle EXCEPT ![c] = NoSettlement]
  PROVE  SettleEffect
  <1>1. GoodSettlement(NoSettlement, payment)
    BY PaymentAssumption DEF GoodSettlement, NoSettlement
  <1>2. QED
    BY <1>1 DEF SettleEffect

LEMMA CancelEffects ==
  ASSUME PayInv, NEW c \in Call, CancelStep(c)
  PROVE  PayEffects
  <1>1. PaymentsOK /\ SettlementsOK /\ CountersOK /\ Null \notin Payment
    BY PaymentAssumption DEF PayInv
  <1>2. CASE NothingLeftToSettle(c) \/ RefundDepositFails(c) \/ CancellationDies(c)
    BY <1>1, <1>2, NoSettlementEffect
       DEF NothingLeftToSettle, RefundDepositFails, CancellationDies, SettleThrows, Ledger,
           PayEffects, PaymentEffect, ReceiptEffect, RequestEffect, CountersOK
  <1>3. CASE CancelDepositWrite(c) \/ NothingToSettle(c)
    <2>1. PICK next \in {"policy", "record"} :
            /\ settle' = [settle EXCEPT ![c] = [settle[c] EXCEPT !.pc = next]]
            /\ settle[c].pc # "none"
      BY <1>3 DEF CancelDepositWrite, NothingToSettle, SettleStep
    <2>2. SettleEffect
      BY <1>1, <2>1, SettleStepEffect
    <2>3. QED
      BY <1>1, <1>3, <2>2
         DEF CancelDepositWrite, NothingToSettle, Ledger, PayEffects, PaymentEffect,
             ReceiptEffect, RequestEffect, CountersOK
  <1>4. CASE \E a \in Appt : CancelDepositRead(c, a)
    <2>1. PICK a \in Appt : CancelDepositRead(c, a)
      BY <1>4
    <2>2. PICK byStaff \in BOOLEAN :
            settle' = [settle EXCEPT ![c] =
              [ pc |-> "write", seen |-> PaidFor(a) # {}, keep |-> Keeps(byStaff, a),
                pay |-> Null ]]
      BY <2>1 DEF CancelDepositRead
    <2> DEFINE s == [ pc |-> "write", seen |-> PaidFor(a) # {}, keep |-> Keeps(byStaff, a),
                      pay |-> Null ]
    <2>3. s \in Settlement /\ s.pc = "write" /\ s.pay = Null
      BY DEF Settlement, Keeps
    <2> HIDE DEF s
    <2>4. SettleEffect
      <3>1. GoodSettlement(s, payment)
        BY <1>1, <2>3 DEF GoodSettlement
      <3>2. settle' = [settle EXCEPT ![c] = s]
        BY <2>2 DEF s
      <3>3. QED
        BY <2>3, <3>1, <3>2 DEF SettleEffect
    <2>5. QED
      BY <1>1, <2>1, <2>4
         DEF CancelDepositRead, Ledger, PayEffects, PaymentEffect, ReceiptEffect,
             RequestEffect, CountersOK
  <1>5. CASE ChooseSettlement(c)
    <2>1. PICK p \in PaidFor(call[c].appt) :
            settle' = [settle EXCEPT ![c] =
              [settle[c] EXCEPT !.pay = p, !.pc = SettlementOf(p, settle[c].keep)]]
      BY <1>5 DEF ChooseSettlement
    <2>2. p \in Payment /\ payment[p] # NoPayment
      BY DEF PaidFor, NoPayment
    <2>3. SettlementOf(p, settle[c].keep) \in {"refund", "markRefunded", "retain"}
      BY DEF SettlementOf
    <2>4. settle[c] \in Settlement
      BY <1>1, <1>5 DEF ChooseSettlement, SettlementsOK, NoSettlement
    <2>5. PICK s \in Settlement : settle' = [settle EXCEPT ![c] = s] /\ s.pay = p
      <3>1. PICK pc \in {"refund", "markRefunded", "retain"} :
              settle' = [settle EXCEPT ![c] = [settle[c] EXCEPT !.pay = p, !.pc = pc]]
        BY <2>1, <2>3
      <3>2. /\ [settle[c] EXCEPT !.pay = p, !.pc = pc] \in Settlement
            /\ [settle[c] EXCEPT !.pay = p, !.pc = pc].pay = p
        BY <2>2, <2>4 DEF Settlement
      <3>3. QED
        BY <3>1, <3>2
    <2>6. SettleEffect
      BY <2>2, <2>5 DEF SettleEffect, GoodSettlement
    <2>7. QED
      BY <1>1, <1>5, <2>6
         DEF ChooseSettlement, Ledger, PayEffects, PaymentEffect, ReceiptEffect,
             RequestEffect, CountersOK
  <1>6. CASE RefundDeposit(c)
    <2>1. settle[c].pc = "refund" /\ settle[c].pay \in Payment
      BY <1>1, <1>6 DEF RefundDeposit, SettleStep, SettlementsOK
    <2>2. SettleEffect
      BY <1>1, <1>6, <2>1, SettleStepEffect DEF RefundDeposit, SettleStep
    <2>3. refunds' \in [Payment -> Nat]
      BY <1>1, <1>6, <2>1 DEF RefundDeposit, CountersOK
    <2>4. QED
      BY <1>1, <1>6, <2>2, <2>3
         DEF RefundDeposit, PayEffects, PaymentEffect, ReceiptEffect, RequestEffect, CountersOK
  <1>7. CASE DepositRefunded(c) \/ DepositRetained(c)
    <2>1. PICK pc \in {"markRefunded", "retain"}, status \in {"refunded", "retained"} :
            MarkSettled(c, pc, status)
      BY <1>7 DEF DepositRefunded, DepositRetained
    <2>2. /\ settle[c].pc \in {"markRefunded", "retain"}
          /\ settle[c].pay \in Payment /\ payment[settle[c].pay] # NoPayment
      BY <1>1, <2>1 DEF MarkSettled, SettleStep, SettlementsOK
    <2>3. SettleEffect
      BY <1>1, <2>1, <2>2, SettleStepEffect DEF MarkSettled, SettleStep
    <2>4. PaymentEffect
      BY <2>1, <2>2 DEF MarkSettled, PaymentEffect, PaymentStatus
    <2>5. QED
      BY <1>1, <2>1, <2>3, <2>4
         DEF MarkSettled, PayEffects, ReceiptEffect, RequestEffect, CountersOK
  <1>8. CASE RecordCancellation(c)
    <2>1. refundStatus' \in [Appt -> {"processed", "not_required", Null}]
      BY <1>1, <1>8 DEF RecordCancellation, CountersOK
    <2>2. QED
      BY <1>1, <1>8, <2>1, NoSettlementEffect
         DEF RecordCancellation, Ledger, PayEffects, PaymentEffect, ReceiptEffect,
             RequestEffect, CountersOK
  <1>9. QED
    BY <1>2, <1>3, <1>4, <1>5, <1>6, <1>7, <1>8 DEF CancelStep

LEMMA ReleaseEffects ==
  ASSUME PayInv, NEW w \in Worker, ReleaseStep(w)
  PROVE  PayEffects
  <1>1. CountersOK
    BY DEF PayInv
  <1>2. CASE ReleaseHolds(w) \/ MaintenanceDies(w)
    BY <1>1, <1>2
       DEF ReleaseHolds, MaintenanceDies, Ledger, PayEffects, PaymentEffect, ReceiptEffect,
           RequestEffect, SettleEffect, CountersOK
  <1>3. CASE TidyReceipts(w)
    <2>1. UNCHANGED <<payment, gate, refunds, told, payCall, settle, refundStatus>>
      BY <1>3 DEF TidyReceipts
    <2>2. tidy' \in [Worker -> {"none", "receipts", "payments"}]
      BY <1>1, <1>3 DEF TidyReceipts, CountersOK
    <2>3. QED
      BY <1>1, <1>3, <2>1, <2>2
         DEF PayEffects, PaymentEffect, ReceiptEffect, RequestEffect, SettleEffect, CountersOK
  <1>4. CASE TidyPayments(w)
    <2>1. UNCHANGED <<receipt, gate, refunds, told, payCall, settle, refundStatus>>
      BY <1>4 DEF TidyPayments
    <2>2. tidy' \in [Worker -> {"none", "receipts", "payments"}]
      BY <1>1, <1>4 DEF TidyPayments, CountersOK
    <2>3. QED
      BY <1>1, <1>4, <2>1, <2>2
         DEF PayEffects, PaymentEffect, ReceiptEffect, RequestEffect, SettleEffect, CountersOK
  <1>5. QED
    BY <1>2, <1>3, <1>4 DEF ReleaseStep

-----------------------------------------------------------------------------
(***************************************************************************)
(* The invariant and the theorems.                                         *)
(***************************************************************************)
LEMMA PayInvInit == PayInit => PayInv
  <1> SUFFICES ASSUME PayInit
               PROVE  PayInv
    OBVIOUS
  <1>1. Init /\ \A a \in Appt : row[a].status = "absent"
    BY DEF PayInit, Init, AbsentRow
  <1>2. LifecycleInv
    BY <1>1, TypeInit DEF LifecycleInv, InsertedOnce, HeldTakesDeposit, Init
  <1>3. PaymentsOK /\ ReceiptsOK /\ RequestsOK /\ CountersOK
    BY DEF PayInit, PaymentsOK, ReceiptsOK, RequestsOK, CountersOK
  <1>4. SettlementsOK
    BY PaymentAssumption DEF PayInit, SettlementsOK, NoSettlement
  <1>5. QED
    BY <1>2, <1>3, <1>4 DEF PayInv

LEMMA PayInvStep ==
  ASSUME PayInv, [PayNext]_allVars
  PROVE  PayInv'
  <1>1. LifecycleInv' /\ RowsGrow
    BY LifecycleInvStep
  <1>2. CountersOK
    BY DEF PayInv
  <1>3. ASSUME LifecycleStep \/ UNCHANGED allVars
        PROVE  PayEffects
    BY <1>2, <1>3 DEF LifecycleStep, allVars, payVars, PayEffects, PaymentEffect,
                      ReceiptEffect, RequestEffect, SettleEffect, CountersOK
  <1>4. ASSUME NEW p \in Payment, CustomerDecides(p) \/ CallbackRepeated(p)
        PROVE  PayEffects
    <2>1. UNCHANGED <<payment, receipt, refunds, payCall, settle, refundStatus, tidy>>
      BY <1>4 DEF CustomerDecides, CallbackRepeated, Policies
    <2>2. gate' \in [Payment -> {"closed", "open", "paid", "declined"}] /\ told' \subseteq Payment
      BY <1>2, <1>4 DEF CustomerDecides, CallbackRepeated, CountersOK
    <2>3. QED
      BY <1>2, <2>1, <2>2
         DEF PayEffects, PaymentEffect, ReceiptEffect, RequestEffect, SettleEffect, CountersOK
  <1>5. PayEffects
    BY <1>1, <1>3, <1>4, OpenEffects, ServeEffects, PayFaultEffects, CancelEffects,
       ReleaseEffects DEF PayNext
  <1>6. PaymentsOK' /\ PaymentsGrow
    BY <1>1, <1>5, PaymentsStep DEF PayInv, PayEffects
  <1>7. QED
    BY <1>1, <1>5, <1>6, ReceiptsStep, RequestsStep, SettlementsStep DEF PayInv, PayEffects

\* Every reachable state satisfies the invariant: whatever the callbacks,
\* reviews, cancellations and releases do to each other, a request in flight
\* names an appointment and a payment that exist.
THEOREM PayInvCorrect == PaySpec => []PayInv
  <1>1. PayInit => PayInv
    BY PayInvInit
  <1>2. PayInv /\ [PayNext]_allVars => PayInv'
    BY PayInvStep
  <1>3. QED
    BY <1>1, <1>2, PTL DEF PaySpec

\* Payments, receipts, requests and cancellations under way hold values of their
\* types, for every salon and any number of payments, requests and deaths.
THEOREM PayTypeOKCorrect == PaySpec => []PayTypeOK
  <1>1. PayInv => PayTypeOK
    BY DEF PayInv, PaymentsOK, ReceiptsOK, RequestsOK, SettlementsOK, CountersOK, PayTypeOK
  <1>2. QED
    BY <1>1, PayInvCorrect, PTL

\* No staff member and no chair is ever in two appointments at a time, although
\* the payment service confirms rows that its callbacks and its late deposits
\* no longer know the state of: the check of the slot and the write of the row
\* are two steps, and the database has the last word.
THEOREM DepositsKeepCalendar == PaySpec => []NoDoubleBooking
  <1>1. PayInit => NoDoubleBooking
    BY DEF PayInit, Init, NoDoubleBooking, AbsentRow, Reserving
  <1>2. PayInv /\ NoDoubleBooking /\ [PayNext]_allVars => NoDoubleBooking'
    BY PayKeepsCalendar
  <1>3. QED
    BY <1>1, <1>2, PayInvCorrect, PTL DEF PaySpec

-----------------------------------------------------------------------------
(***************************************************************************)
(* Approvals.                                                              *)
(***************************************************************************)

\* Only an approval makes a receipt an approved one.
LEMMA ApprovesOnly ==
  ASSUME PayInv, [PayNext]_allVars, NEW a \in Appt,
         receipt[a].status # "approved", receipt'[a].status = "approved"
  PROVE  \E c \in PayCall : ApproveReceipt(c) /\ PayAppt(c) = a
  <1>1. receipt \in [Appt -> ReceiptRow \cup {NoReceipt}] /\ receipt' # receipt
    BY DEF PayInv, ReceiptsOK
  <1>2. CASE LifecycleStep \/ UNCHANGED allVars
    BY <1>1, <1>2 DEF LifecycleStep, allVars, payVars
  <1>3. ASSUME NEW p \in Payment, CustomerDecides(p) \/ CallbackRepeated(p)
        PROVE  FALSE
    BY <1>1, <1>3 DEF CustomerDecides, CallbackRepeated
  <1>4. ASSUME NEW c \in PayCall, OpenStep(c) \/ PayFaultStep(c)
        PROVE  FALSE
    BY <1>1, <1>4 DEF OpenStep, InitiateDeposit, UploadReceipt, ReviewReceipt, CallbackRead,
                      PayFaultStep, VerifyUnavailable, LateRefundFails, PayCallDies, Ledger
  <1>5. ASSUME NEW c \in PayCall, ServeStep(c)
        PROVE  ApproveReceipt(c) /\ PayAppt(c) = a
    <2>1. CASE StoreReceipt(c)
      <3>1. PICK r : receipt' = [receipt EXCEPT ![PayAppt(c)] = r] /\ r.status = "pending"
        BY <2>1 DEF StoreReceipt
      <3>2. QED
        BY <1>1, <3>1
    <2>2. ASSUME NEW status \in ReceiptStatus, MarkReceipt(PayAppt(c), status)
          PROVE  status = "approved" /\ PayAppt(c) = a
      <3>1. receipt[a] = NoReceipt \/ [receipt[a] EXCEPT !.status = status].status = status
        BY <1>1 DEF ReceiptRow
      <3>2. [NoReceipt EXCEPT !.status = status].status = status
        BY DEF NoReceipt
      <3>3. QED
        BY <1>1, <2>2, <3>1, <3>2 DEF MarkReceipt
    <2>3. CASE RejectReceipt(c) \/ ExpireReceipt(c)
      BY <2>2, <2>3 DEF RejectReceipt, ExpireReceipt, CloseReceipt, ReceiptStatus
    <2>4. CASE ApproveReceipt(c)
      BY <2>2, <2>4 DEF ApproveReceipt, ReceiptStatus
    <2>5. CASE \/ FindTransfer(c) \/ NoTransferFound(c) \/ CreatePayment(c) \/ RequestGateway(c)
               \/ Verify(c) \/ MarkFailed(c) \/ MarkPaid(c) \/ PayConfirmRead(c)
               \/ PayConfirmWrite(c) \/ LateConfirm(c)
               \/ PayConfirmRefused(c) \/ LateCheck(c) \/ LateRefused(c) \/ LateRefund(c)
               \/ MarkRefunded(c) \/ AlreadyReviewed(c) \/ ApproveTooLate(c)
      BY <1>1, <2>5
         DEF FindTransfer, NoTransferFound, CreatePayment, RequestGateway, Verify, MarkFailed,
             MarkPaid, PayConfirmRead, PayConfirmWrite, LateConfirm, ConfirmRow,
             PayConfirmRefused, LateCheck, LateRefused, LateRefund, MarkRefunded,
             AlreadyReviewed, ApproveTooLate, Ledger
    <2>6. QED
      BY <1>5, <2>1, <2>3, <2>4, <2>5 DEF ServeStep
  <1>6. ASSUME NEW c \in Call, CancelStep(c)
        PROVE  FALSE
    BY <1>1, <1>6 DEF CancelStep, CancelDepositRead, CancelDepositWrite, NothingToSettle,
                      NothingLeftToSettle, ChooseSettlement, RefundDeposit, RefundDepositFails,
                      DepositRefunded, DepositRetained, MarkSettled, RecordCancellation,
                      CancellationDies, Ledger
  <1>7. ASSUME NEW w \in Worker, ReleaseStep(w)
        PROVE  FALSE
    <2>1. CASE TidyReceipts(w)
      <3>1. receipt'[a] = [receipt[a] EXCEPT !.status = "expired"] /\ receipt[a].status = "pending"
        BY <2>1 DEF TidyReceipts
      <3>2. receipt[a] \in ReceiptRow
        BY <1>1, <3>1 DEF NoReceipt
      <3>3. [receipt[a] EXCEPT !.status = "expired"].status = "expired"
        BY <3>2 DEF ReceiptRow
      <3>4. QED
        BY <3>1, <3>3
    <2>2. QED
      BY <1>1, <1>7, <2>1 DEF ReleaseStep, ReleaseHolds, TidyPayments, MaintenanceDies, Ledger
  <1>8. QED
    BY <1>2, <1>3, <1>4, <1>5, <1>6, <1>7 DEF PayNext

\* A receipt is approved only together with its appointment, out of a hold that
\* nobody has cancelled or released meanwhile.
THEOREM ApprovalTakesTheHoldCorrect == PaySpec => ApprovalTakesTheHold
  <1>1. PayInv /\ [PayNext]_allVars =>
          \A a \in Appt :
            receipt[a].status # "approved" /\ receipt'[a].status = "approved" =>
              row[a].status = "held" /\ row'[a].status = "confirmed"
    <2> SUFFICES ASSUME PayInv, [PayNext]_allVars, NEW a \in Appt,
                        receipt[a].status # "approved", receipt'[a].status = "approved"
                 PROVE  row[a].status = "held" /\ row'[a].status = "confirmed"
      OBVIOUS
    <2>1. PICK c \in PayCall : ApproveReceipt(c) /\ PayAppt(c) = a
      BY ApprovesOnly
    <2>2. row[a].status = "held" /\ Exists(a)
      BY <2>1 DEF ApproveReceipt, StillHeld, Exists
    <2>3. Confirmation(a)
      BY <2>1, <2>2 DEF ApproveReceipt, Confirmation
    <2>4. TableTypeOK
      BY DEF PayInv, LifecycleInv, TypeInv, TypeOK
    <2>5. QED
      BY <2>2, <2>3, <2>4, ConfirmedRow
  <1>2. QED
    BY <1>1, PayInvCorrect, PTL DEF PaySpec, ApprovalTakesTheHold

-----------------------------------------------------------------------------
(***************************************************************************)
(* The money.  What a request is about to do with a payment was decided on *)
(* the word of the gateway or of an earlier step, and the payment is not   *)
(* looked at again.  So what that decision rested on must stay true while  *)
(* the other requests go on: the gateway has the money of every payment    *)
(* that a callback's request goes on with, a refund that is about to be    *)
(* recorded was paid out, and only transfers are reviewed.  The gateway    *)
(* opens a session for a payment once, because one request opened it; so   *)
(* money that it has taken is never forgotten for a second session.        *)
(***************************************************************************)

\* What a request does once the gateway has said that the payment is paid.
Taken == {"markPaid", "confirmRead", "confirmWrite", "late", "lateWrite", "refund", "markRefunded"}

\* Request r has what it rests on in the given tables.
BackedIn(r, gates, payments, paidBack) ==
  /\ r.op = "request" => gates[r.pay] = "closed" /\ payments[r.pay].method = "gateway"
  /\ r.op \in Taken \cup {"verify"} => payments[r.pay].appt = r.appt
  /\ r.op \in Taken => gates[r.pay] = "paid"
  /\ r.op = "markRefunded" => paidBack[r.pay] > 0
  /\ r.op \in {"receipt", "approve"} => payments[r.pay].method = "card_transfer"

CallsBacked == \A c \in PayCall : BackedIn(payCall[c], gate, payment, refunds)

OneOpener ==
  \A c, d \in PayCall :
    payCall[c].op = "request" /\ payCall[d].op = "request" /\ Pay(c) = Pay(d) => c = d

\* Settlement s has what it rests on in the given tables.
SettledIn(s, gates, payments, paidBack) ==
  /\ s.pc = "refund" => gates[s.pay] = "paid"
  /\ s.pc = "markRefunded" => paidBack[s.pay] > 0 \/ payments[s.pay].method = "card_transfer"

SettlesBacked == \A c \in Call : SettledIn(settle[c], gate, payment, refunds)

TransfersReviewed ==
  \A a \in Appt : receipt[a] # NoReceipt => payment[receipt[a].pay].method = "card_transfer"

GateKnows ==
  \A p \in Payment :
    /\ payment[p] = NoPayment => gate[p] = "closed"
    /\ gate[p] # "closed" => payment[p].method = "gateway"
    /\ payment[p].method = "gateway" /\ payment[p].status = "paid" => gate[p] = "paid"

MoneyInv ==
  /\ GateKnows /\ RefundIsReal /\ SuccessMeansPaid
  /\ TransfersReviewed /\ CallsBacked /\ OneOpener /\ SettlesBacked

\* What no step takes back: whose a payment is and how it is paid, money that
\* the gateway has taken, and refunds.
Steady ==
  \A p \in Payment :
    /\ payment[p] # NoPayment =>
         payment'[p].method = payment[p].method /\ payment'[p].appt = payment[p].appt
    /\ gate[p] = "paid" => gate'[p] = "paid"
    /\ refunds[p] > 0 => refunds'[p] > 0

\* The session that request c is about to open stays unopened.
Undisturbed(c) == payCall[c].op = "request" => gate'[Pay(c)] = "closed"

\* A request keeps what it rests on.
LEMMA StaysBacked ==
  ASSUME RequestsOK, CallsBacked, Steady, NEW c \in PayCall, Undisturbed(c)
  PROVE  BackedIn(payCall[c], gate', payment', refunds')
  <1>1. CASE payCall[c].op = "none"
    BY <1>1 DEF BackedIn, Taken
  <1>2. CASE payCall[c].op \in Opening
    BY <1>2 DEF BackedIn, Taken, Opening
  <1>3. CASE payCall[c].op # "none" /\ payCall[c].op \notin Opening
    <2>1. Pay(c) \in Payment /\ payment[Pay(c)] # NoPayment
      BY <1>3, RequestHasPayment
    <2>2. BackedIn(payCall[c], gate, payment, refunds)
      BY DEF CallsBacked
    <2>3. QED
      BY <2>1, <2>2 DEF BackedIn, Pay, Steady, Undisturbed
  <1>4. QED
    BY <1>1, <1>2, <1>3

\* One request moves.
LEMMA OneCallMoves ==
  ASSUME RequestsOK, CallsBacked, OneOpener, Steady,
         NEW c \in PayCall, NEW r, payCall' = [payCall EXCEPT ![c] = r],
         BackedIn(r, gate', payment', refunds'),
         \A d \in PayCall \ {c} :
           /\ Undisturbed(d)
           /\ r.op = "request" /\ payCall[d].op = "request" => Pay(d) # r.pay
  PROVE  CallsBacked' /\ OneOpener'
  <1>1. payCall'[c] = r /\ \A d \in PayCall \ {c} : payCall'[d] = payCall[d]
    BY DEF RequestsOK
  <1>2. CallsBacked'
    <2>1. \A d \in PayCall \ {c} : BackedIn(payCall[d], gate', payment', refunds')
      BY StaysBacked
    <2>2. QED
      BY <1>1, <2>1 DEF CallsBacked
  <1>3. OneOpener'
    BY <1>1 DEF OneOpener, Pay
  <1>4. QED
    BY <1>2, <1>3

\* No request moves.
LEMMA NoCallMoves ==
  ASSUME RequestsOK, CallsBacked, OneOpener, Steady, payCall' = payCall,
         \A d \in PayCall : Undisturbed(d)
  PROVE  CallsBacked' /\ OneOpener'
  BY StaysBacked DEF CallsBacked, OneOpener, Pay

\* A request that is about to open a session finds it closed.
LEMMA GateUntouched ==
  ASSUME CallsBacked, gate' = gate, NEW c \in PayCall
  PROVE  Undisturbed(c)
  BY DEF CallsBacked, BackedIn, Undisturbed, Pay

\* The settlements keep what they rest on, and one of them may move.
LEMMA SettlesStay ==
  ASSUME SettlementsOK, SettlesBacked, Steady,
         \A c \in Call : \/ settle'[c] = settle[c]
                         \/ SettledIn(settle'[c], gate', payment', refunds')
  PROVE  SettlesBacked'
  <1> SUFFICES ASSUME NEW c \in Call
               PROVE  SettledIn(settle'[c], gate', payment', refunds')
    BY DEF SettlesBacked
  <1>1. CASE settle'[c] = settle[c]
    <2>1. SettledIn(settle[c], gate, payment, refunds)
      BY DEF SettlesBacked
    <2>2. settle[c].pc \in {"refund", "markRefunded"} =>
            settle[c].pay \in Payment /\ payment[settle[c].pay] # NoPayment
      BY DEF SettlementsOK
    <2>3. QED
      BY <1>1, <2>1, <2>2 DEF SettledIn, Steady
  <1>2. QED
    BY <1>1

\* The receipts keep their payments, and a new one is for a transfer.
LEMMA ReceiptsStay ==
  ASSUME ReceiptsOK, TransfersReviewed, Steady,
         \A a \in Appt :
           \/ receipt'[a] = receipt[a]
           \/ receipt[a] # NoReceipt /\ receipt'[a].pay = receipt[a].pay
           \/ payment'[receipt'[a].pay].method = "card_transfer"
  PROVE  TransfersReviewed'
  <1> SUFFICES ASSUME NEW a \in Appt, receipt'[a] # NoReceipt
               PROVE  payment'[receipt'[a].pay].method = "card_transfer"
    BY DEF TransfersReviewed
  <1>1. receipt[a] # NoReceipt =>
          /\ receipt[a].pay \in Payment /\ payment[receipt[a].pay] # NoPayment
          /\ payment[receipt[a].pay].method = "card_transfer"
    BY DEF ReceiptsOK, ReceiptRow, TransfersReviewed
  <1>2. QED
    BY <1>1 DEF Steady

\* When the payment table, the gateway and the refunds stay as they are.
LEMMA BooksUntouched ==
  ASSUME UNCHANGED <<payment, gate, refunds>>, GateKnows, RefundIsReal
  PROVE  Steady /\ GateKnows' /\ RefundIsReal'
  BY DEF Steady, GateKnows, RefundIsReal

\* A payment that is there is marked, with the gateway's word for it.
LEMMA MarkedMoney ==
  ASSUME PaymentsOK, GateKnows, RefundIsReal,
         NEW p \in Payment, NEW status \in PaymentStatus,
         MarkPayment(p, status), payment[p] # NoPayment, UNCHANGED <<gate, refunds>>,
         status = "paid" /\ payment[p].method = "gateway" => gate[p] = "paid",
         status = "refunded" /\ payment[p].method = "gateway" => refunds[p] > 0
  PROVE  Steady /\ GateKnows' /\ RefundIsReal'
  <1>1. payment[p] \in PaymentRow /\ payment \in [Payment -> PaymentRow \cup {NoPayment}]
    BY DEF PaymentsOK
  <1>2. PICK r \in PaymentRow :
          /\ payment' = [payment EXCEPT ![p] = r]
          /\ r.status = status /\ r.appt = payment[p].appt /\ r.method = payment[p].method
    <2>1. /\ [payment[p] EXCEPT !.status = status] \in PaymentRow
          /\ [payment[p] EXCEPT !.status = status].status = status
          /\ [payment[p] EXCEPT !.status = status].appt = payment[p].appt
          /\ [payment[p] EXCEPT !.status = status].method = payment[p].method
      BY <1>1 DEF PaymentRow
    <2>2. QED
      BY <2>1 DEF MarkPayment
  <1>3. payment'[p] = r /\ r # NoPayment /\ \A q \in Payment \ {p} : payment'[q] = payment[q]
    BY <1>1, <1>2 DEF PaymentRow, NoPayment, PaymentStatus
  <1>4. Steady
    BY <1>2, <1>3 DEF Steady
  <1>5. GateKnows'
    BY <1>2, <1>3 DEF GateKnows
  <1>6. RefundIsReal'
    BY <1>2, <1>3 DEF RefundIsReal
  <1>7. QED
    BY <1>4, <1>5, <1>6

\* A request that goes on keeps its appointment and its payment.
LEMMA GoneOn ==
  ASSUME RequestsOK, NEW c \in PayCall, NEW op \in PayOps, NEW next \in PayOps,
         GoOn(c, op, next)
  PROVE  \E r \in PayRequest :
           /\ payCall' = [payCall EXCEPT ![c] = r]
           /\ r.op = next /\ r.appt = payCall[c].appt /\ r.pay = payCall[c].pay
  <1>1. payCall[c].op # "none"
    BY DEF GoOn, PayOps
  <1>2. payCall[c] \in PayRequest
    BY <1>1, RequestHasRow DEF GoodRequest, GoodIn
  <1>3. /\ [payCall[c] EXCEPT !.op = next] \in PayRequest
        /\ [payCall[c] EXCEPT !.op = next].op = next
        /\ [payCall[c] EXCEPT !.op = next].appt = payCall[c].appt
        /\ [payCall[c] EXCEPT !.op = next].pay = payCall[c].pay
    BY <1>2 DEF PayRequest
  <1>4. QED
    BY <1>3 DEF GoOn

\* A step that only moves a request, to something that rests on what is there.
LEMMA MoveKeepsMoney ==
  ASSUME PayInv, MoneyInv, NEW c \in PayCall, NEW r, payCall' = [payCall EXCEPT ![c] = r],
         r.op # "request", BackedIn(r, gate, payment, refunds),
         UNCHANGED <<payment, receipt, gate, refunds, settle>>,
         \A p \in told' : p \in told \/ gate[p] = "paid"
  PROVE  MoneyInv'
  <1>1. Steady /\ GateKnows' /\ RefundIsReal'
    BY BooksUntouched DEF MoneyInv
  <1>2. \A d \in PayCall : Undisturbed(d)
    BY GateUntouched DEF MoneyInv
  <1>3. CallsBacked' /\ OneOpener'
    BY <1>1, <1>2, OneCallMoves DEF PayInv, MoneyInv
  <1>4. TransfersReviewed' /\ SettlesBacked' /\ SuccessMeansPaid'
    BY DEF MoneyInv, TransfersReviewed, SettlesBacked, SuccessMeansPaid
  <1>5. QED
    BY <1>1, <1>3, <1>4 DEF MoneyInv

\* A request that returns rests on nothing.
LEMMA NothingToBack ==
  ASSUME NEW gates, NEW payments, NEW paidBack
  PROVE  BackedIn(NoPayCall, gates, payments, paidBack)
  BY DEF BackedIn, NoPayCall, Taken

LEMMA OpenKeepsMoney ==
  ASSUME PayInv, MoneyInv, NEW c \in PayCall, OpenStep(c)
  PROVE  MoneyInv'
  <1>1. UNCHANGED <<payment, receipt, gate, refunds, settle>> /\ told' = told
    BY DEF OpenStep, InitiateDeposit, UploadReceipt, ReviewReceipt, CallbackRead, Ledger, Policies
  <1>2. PICK op \in {"find", "create", "approve", "reject", "verify"},
             kind \in {"initiate", "upload", "review", "callback", "late"},
             a \in Appt \cup {Null}, p \in Payment \cup {Null} :
          /\ Starts(c, op, kind, a, p)
          /\ op = "approve" => payment[p].method = "card_transfer"
          /\ op = "verify" => payment[p].appt = a
    <2>1. ASSUME NEW a \in Appt, InitiateDeposit(c, a) \/ UploadReceipt(c, a)
          PROVE  \E op \in {"find", "create"}, kind \in {"initiate", "upload"} :
                   Starts(c, op, kind, a, Null)
      BY <2>1 DEF InitiateDeposit, UploadReceipt
    <2>2. ASSUME NEW a \in Appt, ReviewReceipt(c, a)
          PROVE  /\ \E op \in {"approve", "reject"} : Starts(c, op, "review", a, receipt[a].pay)
                 /\ receipt[a].pay \in Payment
                 /\ payment[receipt[a].pay].method = "card_transfer"
      <3>1. receipt[a] # NoReceipt
        BY <2>2 DEF ReviewReceipt, NoReceipt
      <3>2. QED
        BY <2>2, <3>1 DEF ReviewReceipt, PayInv, ReceiptsOK, ReceiptRow, MoneyInv, TransfersReviewed
    <2>3. ASSUME NEW p \in Payment, CallbackRead(c, p)
          PROVE  /\ \E kind \in {"callback", "late"} : Starts(c, "verify", kind, payment[p].appt, p)
                 /\ payment[p].appt \in Appt
      <3>1. payment[p] # NoPayment
        BY <2>3 DEF CallbackRead, NoPayment
      <3>2. QED
        BY <2>3, <3>1 DEF CallbackRead, PayInv, PaymentsOK, PaymentRow
    <2>4. QED
      BY <2>1, <2>2, <2>3 DEF OpenStep
  <1> DEFINE r == [op |-> op, kind |-> kind, appt |-> a, pay |-> p, at |-> now]
  <1>3. r.op = op /\ r.appt = a /\ r.pay = p /\ payCall' = [payCall EXCEPT ![c] = r]
    BY <1>2 DEF Starts
  <1> HIDE DEF r
  <1>4. BackedIn(r, gate, payment, refunds) /\ r.op # "request"
    BY <1>2, <1>3 DEF BackedIn, Taken
  <1>5. QED
    BY <1>1, <1>3, <1>4, MoveKeepsMoney

\* A request that goes on without touching a table rests on what it has found.
LEMMA GoOnKeepsMoney ==
  ASSUME PayInv, MoneyInv, NEW c \in PayCall, NEW op \in PayOps, NEW next \in PayOps,
         GoOn(c, op, next), UNCHANGED <<payment, receipt, gate, refunds, told, settle>>,
         next \notin {"request", "receipt", "approve", "markRefunded"},
         next = "verify" => op = "verify",
         next \in Taken => \/ op \in Taken
                           \/ op = "verify" /\ gate[Pay(c)] = "paid"
  PROVE  MoneyInv'
  <1>1. PICK r \in PayRequest :
          /\ payCall' = [payCall EXCEPT ![c] = r]
          /\ r.op = next /\ r.appt = payCall[c].appt /\ r.pay = payCall[c].pay
    BY GoneOn DEF PayInv
  <1>2. BackedIn(payCall[c], gate, payment, refunds) /\ payCall[c].op = op
    BY DEF MoneyInv, CallsBacked, GoOn
  <1>3. BackedIn(r, gate, payment, refunds)
    BY <1>1, <1>2 DEF BackedIn, Taken, Pay
  <1>4. QED
    BY <1>1, <1>3, MoveKeepsMoney

LEMMA PayFaultKeepsMoney ==
  ASSUME PayInv, MoneyInv, NEW c \in PayCall, PayFaultStep(c)
  PROVE  MoneyInv'
  <1>1. UNCHANGED <<payment, receipt, gate, refunds, told, settle>>
    BY DEF PayFaultStep, VerifyUnavailable, LateRefundFails, PayCallDies, Ledger, Policies
  <1>2. CASE VerifyUnavailable(c)
    <2>1. {"verify", "markFailed"} \subseteq PayOps /\ GoOn(c, "verify", "markFailed")
      BY <1>2 DEF VerifyUnavailable, PayOps
    <2>2. QED
      BY <1>1, <2>1, GoOnKeepsMoney DEF Taken
  <1>3. CASE LateRefundFails(c) \/ PayCallDies(c)
    <2>1. payCall' = [payCall EXCEPT ![c] = NoPayCall]
      BY <1>3 DEF LateRefundFails, PayCallDies, Returns
    <2>2. NoPayCall.op # "request"
      BY DEF NoPayCall
    <2>3. QED
      BY <1>1, <2>1, <2>2, NothingToBack, MoveKeepsMoney
  <1>4. QED
    BY <1>2, <1>3 DEF PayFaultStep

\* A request that is given a transfer to receive a receipt for.
LEMMA TakesTransfer ==
  ASSUME RequestsOK, NEW c \in PayCall, payCall[c].op \in PayOps, NEW p \in Payment,
         NEW next \in PayOps
  PROVE  /\ [payCall[c] EXCEPT !.op = next, !.pay = p].op = next
         /\ [payCall[c] EXCEPT !.op = next, !.pay = p].pay = p
  <1>1. payCall[c].op # "none"
    BY DEF PayOps
  <1>2. payCall[c] \in PayRequest
    BY <1>1, RequestHasRow DEF GoodRequest, GoodIn
  <1>3. QED
    BY <1>2 DEF PayRequest

LEMMA FindKeepsMoney ==
  ASSUME PayInv, MoneyInv, NEW c \in PayCall, FindTransfer(c)
  PROVE  MoneyInv'
  <1>1. PICK p \in OpenTransfers(PayAppt(c)) :
          payCall' = [payCall EXCEPT ![c] =
            IF payCall[c].kind = "upload" THEN [payCall[c] EXCEPT !.op = "receipt", !.pay = p]
                                          ELSE NoPayCall]
    BY DEF FindTransfer
  <1>2. p \in Payment /\ payment[p].method = "card_transfer"
    BY DEF OpenTransfers
  <1> DEFINE r == IF payCall[c].kind = "upload" THEN [payCall[c] EXCEPT !.op = "receipt", !.pay = p]
                                                ELSE NoPayCall
  <1>3. r = NoPayCall \/ (r.op = "receipt" /\ r.pay = p)
    <2>1. payCall[c].op \in PayOps /\ "receipt" \in PayOps
      BY DEF FindTransfer, PayOps
    <2>2. /\ [payCall[c] EXCEPT !.op = "receipt", !.pay = p].op = "receipt"
          /\ [payCall[c] EXCEPT !.op = "receipt", !.pay = p].pay = p
      BY <1>2, <2>1, TakesTransfer DEF PayInv
    <2>3. QED
      BY <2>2
  <1>4. payCall' = [payCall EXCEPT ![c] = r]
    BY <1>1
  <1> HIDE DEF r
  <1>5. BackedIn(r, gate, payment, refunds) /\ r.op # "request"
    BY <1>2, <1>3 DEF BackedIn, Taken, NoPayCall
  <1>6. UNCHANGED <<payment, receipt, gate, refunds, told, settle>>
    BY DEF FindTransfer, Ledger, Policies
  <1>7. QED
    BY <1>4, <1>5, <1>6, MoveKeepsMoney

\* A new payment has no session yet, and nobody else is about to open one for it.
LEMMA CreateKeepsMoney ==
  ASSUME PayInv, MoneyInv, NEW c \in PayCall, CreatePayment(c)
  PROVE  MoneyInv'
  <1> DEFINE a == PayAppt(c)
             new == [status |-> "pending", appt |-> a, method |-> Method(a)]
  <1>1. PaymentsOK /\ RequestsOK /\ ReceiptsOK /\ SettlementsOK
    BY DEF PayInv
  <1>2. payCall[c].op = "create" /\ payCall[c].op # "none"
    BY DEF CreatePayment
  <1>3. GoodIn(payCall[c], row, booking, payment) /\ a \in Appt
    BY <1>1, <1>2, RequestHasRow DEF GoodRequest
  <1>4. RequiresHold(booking[a].offer)
    BY <1>2, <1>3 DEF GoodIn, Opening, PayAppt
  <1>5. /\ new # NoPayment /\ new.status = "pending" /\ new.appt = a /\ new.method = Method(a)
        /\ Method(a) \in {"gateway", "card_transfer"}
    BY <1>4 DEF RequiresHold, Method, NoPayment
  <1>6. PICK p \in Payment :
          /\ payment[p] = NoPayment
          /\ payment' = [payment EXCEPT ![p] = new]
          /\ payCall' = [payCall EXCEPT ![c] =
              IF Method(a) = "gateway" THEN [payCall[c] EXCEPT !.op = "request", !.pay = p]
              ELSE IF payCall[c].kind = "upload"
              THEN [payCall[c] EXCEPT !.op = "receipt", !.pay = p]
              ELSE NoPayCall]
    BY DEF CreatePayment
  <1> HIDE DEF new
  <1>7. payment'[p] = new /\ \A q \in Payment \ {p} : payment'[q] = payment[q]
    BY <1>1, <1>6 DEF PaymentsOK
  <1>8. UNCHANGED <<receipt, gate, refunds, told, settle>>
    BY DEF CreatePayment, Policies
  <1>9. gate[p] = "closed"
    BY <1>6 DEF MoneyInv, GateKnows
  <1>10. Steady
    BY <1>6, <1>7, <1>8 DEF Steady
  <1>11. GateKnows' /\ RefundIsReal' /\ SuccessMeansPaid'
    BY <1>5, <1>7, <1>8, <1>9
       DEF MoneyInv, GateKnows, RefundIsReal, SuccessMeansPaid, NoPayment
  <1>12. PICK r :
           /\ payCall' = [payCall EXCEPT ![c] = r]
           /\ \/ r = NoPayCall
              \/ r.op = "request" /\ r.pay = p /\ Method(a) = "gateway"
              \/ r.op = "receipt" /\ r.pay = p /\ Method(a) = "card_transfer"
    <2>1. \A next \in {"request", "receipt"} :
            /\ [payCall[c] EXCEPT !.op = next, !.pay = p].op = next
            /\ [payCall[c] EXCEPT !.op = next, !.pay = p].pay = p
      BY <1>1, <1>2, TakesTransfer DEF PayOps
    <2>2. CASE Method(a) = "gateway"
      BY <1>6, <2>1, <2>2
    <2>3. CASE Method(a) = "card_transfer" /\ payCall[c].kind = "upload"
      BY <1>6, <2>1, <2>3
    <2>4. CASE Method(a) = "card_transfer" /\ payCall[c].kind # "upload"
      BY <1>6, <2>4
    <2>5. QED
      BY <1>5, <2>2, <2>3, <2>4
  <1>13. BackedIn(r, gate', payment', refunds')
    BY <1>5, <1>7, <1>8, <1>9, <1>12 DEF BackedIn, Taken, NoPayCall
  <1>14. \A d \in PayCall \ {c} : payCall[d].op = "request" => Pay(d) # p
    <2>1. ASSUME NEW d \in PayCall, payCall[d].op = "request"
          PROVE  payment[Pay(d)] # NoPayment
      BY <1>1, <2>1, RequestHasPayment DEF Opening
    <2>2. QED
      BY <1>6, <2>1
  <1>15. \A d \in PayCall : Undisturbed(d)
    BY <1>8, GateUntouched DEF MoneyInv
  <1>16. CallsBacked' /\ OneOpener'
    <2>1. r.op = "request" => r.pay = p
      BY <1>12 DEF NoPayCall
    <2>2. QED
      BY <1>1, <1>10, <1>12, <1>13, <1>14, <1>15, <2>1, OneCallMoves DEF MoneyInv
  <1>17. TransfersReviewed' /\ SettlesBacked'
    BY <1>1, <1>8, <1>10, ReceiptsStay, SettlesStay DEF MoneyInv
  <1>18. QED
    BY <1>11, <1>16, <1>17 DEF MoneyInv

\* The one request that opened the payment opens its session.
LEMMA GatewayKeepsMoney ==
  ASSUME PayInv, MoneyInv, NEW c \in PayCall, RequestGateway(c)
  PROVE  MoneyInv'
  <1>1. /\ payCall[c].op = "request" /\ payCall' = [payCall EXCEPT ![c] = NoPayCall]
        /\ gate' = [gate EXCEPT ![Pay(c)] = "open"]
        /\ UNCHANGED <<payment, receipt, refunds, told, settle>>
    BY DEF RequestGateway, Returns, Policies
  <1>2. Pay(c) \in Payment /\ payment[Pay(c)] # NoPayment
    BY <1>1, RequestHasPayment DEF PayInv, Opening
  <1>3. gate[Pay(c)] = "closed" /\ payment[Pay(c)].method = "gateway"
    BY <1>1 DEF MoneyInv, CallsBacked, BackedIn, Pay
  <1>4. gate'[Pay(c)] = "open" /\ \A q \in Payment \ {Pay(c)} : gate'[q] = gate[q]
    BY <1>1, <1>2 DEF PayInv, CountersOK
  <1>5. Steady
    BY <1>1, <1>3, <1>4 DEF Steady
  <1>6. GateKnows' /\ RefundIsReal'
    BY <1>1, <1>2, <1>3, <1>4 DEF MoneyInv, GateKnows, RefundIsReal
  <1>7. SuccessMeansPaid'
    BY <1>1, <1>3, <1>4 DEF MoneyInv, SuccessMeansPaid, PayInv, CountersOK
  <1>8. \A d \in PayCall \ {c} : Undisturbed(d)
    <2>1. ASSUME NEW d \in PayCall \ {c}, payCall[d].op = "request"
          PROVE  gate'[Pay(d)] = "closed"
      <3>1. Pay(d) \in Payment /\ Pay(d) # Pay(c)
        BY <1>1, <2>1, RequestHasPayment DEF PayInv, Opening, MoneyInv, OneOpener
      <3>2. gate[Pay(d)] = "closed"
        BY <2>1 DEF MoneyInv, CallsBacked, BackedIn, Pay
      <3>3. QED
        BY <1>4, <3>1, <3>2
    <2>2. QED
      BY <2>1 DEF Undisturbed
  <1>9. CallsBacked' /\ OneOpener'
    <2>1. NoPayCall.op # "request"
      BY DEF NoPayCall
    <2>2. QED
      BY <1>1, <1>5, <1>8, <2>1, NothingToBack, OneCallMoves DEF PayInv, MoneyInv
  <1>10. TransfersReviewed' /\ SettlesBacked'
    BY <1>1, <1>5, ReceiptsStay, SettlesStay DEF PayInv, MoneyInv
  <1>11. QED
    BY <1>6, <1>7, <1>9, <1>10 DEF MoneyInv

\* A request marks its payment and goes on, or returns.
LEMMA MarkKeepsMoney ==
  ASSUME PayInv, MoneyInv, NEW c \in PayCall, NEW status \in {"paid", "failed", "refunded"},
         payCall[c].op # "none", payCall[c].op \notin Opening,
         MarkPayment(Pay(c), status), UNCHANGED <<gate, refunds, told, settle>>,
         status = "paid" /\ payment[Pay(c)].method = "gateway" => gate[Pay(c)] = "paid",
         status = "refunded" /\ payment[Pay(c)].method = "gateway" => refunds[Pay(c)] > 0,
         \A a \in Appt : \/ receipt'[a] = receipt[a]
                         \/ receipt[a] # NoReceipt /\ receipt'[a].pay = receipt[a].pay,
         NEW r, payCall' = [payCall EXCEPT ![c] = r], r.op # "request",
         Steady => BackedIn(r, gate', payment', refunds')
  PROVE  MoneyInv'
  <1>1. Pay(c) \in Payment /\ payment[Pay(c)] # NoPayment
    BY RequestHasPayment DEF PayInv
  <1>2. Steady /\ GateKnows' /\ RefundIsReal'
    BY <1>1, MarkedMoney DEF PayInv, MoneyInv, PaymentStatus
  <1>3. \A d \in PayCall : Undisturbed(d)
    BY GateUntouched DEF MoneyInv
  <1>4. CallsBacked' /\ OneOpener'
    BY <1>2, <1>3, OneCallMoves DEF PayInv, MoneyInv
  <1>5. TransfersReviewed' /\ SettlesBacked'
    BY <1>2, ReceiptsStay, SettlesStay DEF PayInv, MoneyInv
  <1>6. SuccessMeansPaid'
    BY DEF MoneyInv, SuccessMeansPaid
  <1>7. QED
    BY <1>2, <1>4, <1>5, <1>6 DEF MoneyInv

\* Marking a receipt keeps its payment, whichever receipt it is.
LEMMA MarkedReceiptStays ==
  ASSUME ReceiptsOK, NEW a \in Appt, NEW status \in ReceiptStatus,
         receipt[a] # NoReceipt, MarkReceipt(a, status)
  PROVE  \A b \in Appt : \/ receipt'[b] = receipt[b]
                         \/ receipt[b] # NoReceipt /\ receipt'[b].pay = receipt[b].pay
  <1>1. receipt \in [Appt -> ReceiptRow \cup {NoReceipt}] /\ receipt[a] \in ReceiptRow
    BY DEF ReceiptsOK
  <1>2. PICK r \in ReceiptRow : receipt' = [receipt EXCEPT ![a] = r] /\ r.pay = receipt[a].pay
    BY <1>1, MarkedReceipt DEF MarkReceipt
  <1>3. QED
    BY <1>1, <1>2

\* The customer's money was taken when the payment is marked as paid, and paid
\* back when it is marked as refunded.
LEMMA CallbackKeepsMoney ==
  ASSUME PayInv, MoneyInv, NEW c \in PayCall, MarkFailed(c) \/ MarkPaid(c) \/ MarkRefunded(c)
  PROVE  MoneyInv'
  <1>1. BackedIn(payCall[c], gate, payment, refunds) /\ RequestsOK
    BY DEF MoneyInv, CallsBacked, PayInv
  <1>2. CASE MarkPaid(c)
    <2>1. PICK next \in {"late", "confirmRead"} : GoOn(c, "markPaid", next)
      BY <1>2 DEF MarkPaid
    <2>2. payCall[c].op = "markPaid" /\ next \in PayOps /\ "markPaid" \in PayOps
      BY <2>1 DEF GoOn, PayOps
    <2>3. PICK r \in PayRequest :
            /\ payCall' = [payCall EXCEPT ![c] = r]
            /\ r.op = next /\ r.appt = payCall[c].appt /\ r.pay = payCall[c].pay
      BY <1>1, <2>1, <2>2, GoneOn
    <2>4. gate[Pay(c)] = "paid" /\ payment[Pay(c)].appt = r.appt
      BY <1>1, <2>2, <2>3 DEF BackedIn, Taken, Pay
    <2>5. Pay(c) \in Payment /\ payment[Pay(c)] # NoPayment
      BY <1>1, <2>2, RequestHasPayment DEF Opening
    <2>6. Steady => BackedIn(r, gate', payment', refunds')
      BY <2>3, <2>4, <2>5 DEF BackedIn, Taken, Steady, Pay
    <2>7. /\ MarkPayment(Pay(c), "paid") /\ receipt' = receipt
          /\ UNCHANGED <<gate, refunds, told, settle>>
      BY <1>2 DEF MarkPaid, Policies
    <2>8. r.op # "request" /\ payCall[c].op \notin Opening
      BY <2>2, <2>3 DEF Opening
    <2>9. QED
      BY <2>2, <2>3, <2>4, <2>6, <2>7, <2>8, MarkKeepsMoney
  <1>3. CASE MarkFailed(c) \/ MarkRefunded(c)
    <2>1. PICK status \in {"failed", "refunded"} :
            /\ MarkPayment(Pay(c), status)
            /\ status = "refunded" => payCall[c].op = "markRefunded"
            /\ payCall[c].op \in {"markFailed", "markRefunded"}
            /\ payCall' = [payCall EXCEPT ![c] = NoPayCall]
      BY <1>3 DEF MarkFailed, MarkRefunded, Returns
    <2>2. receipt' = receipt /\ UNCHANGED <<gate, refunds, told, settle>>
      BY <1>3 DEF MarkFailed, MarkRefunded, Policies
    <2>3. status = "refunded" => refunds[Pay(c)] > 0
      BY <1>1, <2>1 DEF BackedIn, Pay
    <2>4. NoPayCall.op # "request" /\ payCall[c].op \notin Opening /\ payCall[c].op # "none"
      BY <2>1 DEF NoPayCall, Opening
    <2>5. QED
      BY <2>1, <2>2, <2>3, <2>4, NothingToBack, MarkKeepsMoney
  <1>4. QED
    BY <1>2, <1>3

\* A review marks a transfer, not a payment at the gateway.
LEMMA ReviewKeepsMoney ==
  ASSUME PayInv, MoneyInv, NEW c \in PayCall,
         RejectReceipt(c) \/ ExpireReceipt(c) \/ ApproveReceipt(c)
  PROVE  MoneyInv'
  <1>1. PICK mark \in ReceiptStatus, status \in {"failed", "paid"} :
          /\ MarkReceipt(PayAppt(c), mark) /\ MarkPayment(Pay(c), status)
          /\ status = "paid" => payCall[c].op = "approve"
    BY DEF RejectReceipt, ExpireReceipt, ApproveReceipt, CloseReceipt, Returns, ReceiptStatus
  <1>2. /\ payCall[c].op \in {"reject", "expire", "approve"}
        /\ payCall' = [payCall EXCEPT ![c] = NoPayCall]
        /\ receipt[PayAppt(c)].status = "pending"
        /\ UNCHANGED <<gate, refunds, told, settle>>
    BY DEF RejectReceipt, ExpireReceipt, ApproveReceipt, CloseReceipt, Returns, Policies
  <1>3. payCall[c].op # "none" /\ payCall[c].op \notin Opening
    BY <1>2 DEF Opening
  <1>4. status = "paid" => payment[Pay(c)].method = "card_transfer"
    BY <1>1 DEF MoneyInv, CallsBacked, BackedIn, Pay
  <1>5. \A b \in Appt : \/ receipt'[b] = receipt[b]
                        \/ receipt[b] # NoReceipt /\ receipt'[b].pay = receipt[b].pay
    <2>1. PayAppt(c) \in Appt /\ receipt[PayAppt(c)] # NoReceipt
      BY <1>2, <1>3, RequestHasRow DEF PayInv, NoReceipt
    <2>2. QED
      BY <1>1, <2>1, MarkedReceiptStays DEF PayInv
  <1>6. NoPayCall.op # "request"
    BY DEF NoPayCall
  <1>7. QED
    BY <1>1, <1>2, <1>3, <1>4, <1>5, <1>6, NothingToBack, MarkKeepsMoney

\* A refund of money that the gateway has taken.
LEMMA RefundedMoney ==
  ASSUME PayInv, MoneyInv, NEW p \in Payment, gate[p] = "paid",
         refunds' = [refunds EXCEPT ![p] = @ + 1], UNCHANGED <<payment, gate>>
  PROVE  Steady /\ GateKnows' /\ RefundIsReal' /\ refunds'[p] > 0
  <1>1. refunds \in [Payment -> Nat]
    BY DEF PayInv, CountersOK
  <1>2. refunds'[p] > 0 /\ \A q \in Payment \ {p} : refunds'[q] = refunds[q]
    BY <1>1
  <1>3. QED
    BY <1>2 DEF Steady, MoneyInv, GateKnows, RefundIsReal

LEMMA LateRefundKeepsMoney ==
  ASSUME PayInv, MoneyInv, NEW c \in PayCall, LateRefund(c)
  PROVE  MoneyInv'
  <1>1. /\ GoOn(c, "refund", "markRefunded")
        /\ refunds' = [refunds EXCEPT ![Pay(c)] = @ + 1]
        /\ UNCHANGED <<payment, receipt, gate, told, settle>>
    BY DEF LateRefund, Policies
  <1>2. payCall[c].op = "refund" /\ {"refund", "markRefunded"} \subseteq PayOps \ Opening
    BY <1>1 DEF GoOn, PayOps, Opening
  <1>3. Pay(c) \in Payment /\ gate[Pay(c)] = "paid" /\ payment[Pay(c)].appt = PayAppt(c)
    BY <1>2, RequestHasPayment DEF PayInv, MoneyInv, CallsBacked, BackedIn, Taken, Pay, PayAppt
  <1>4. Steady /\ GateKnows' /\ RefundIsReal' /\ refunds'[Pay(c)] > 0
    BY <1>1, <1>3, RefundedMoney
  <1>5. PICK r \in PayRequest :
          /\ payCall' = [payCall EXCEPT ![c] = r]
          /\ r.op = "markRefunded" /\ r.appt = payCall[c].appt /\ r.pay = payCall[c].pay
    BY <1>1, <1>2, GoneOn DEF PayInv
  <1>6. BackedIn(r, gate', payment', refunds')
    BY <1>1, <1>3, <1>4, <1>5 DEF BackedIn, Taken, Pay, PayAppt
  <1>7. \A d \in PayCall : Undisturbed(d)
    BY <1>1, GateUntouched DEF MoneyInv
  <1>8. CallsBacked' /\ OneOpener'
    BY <1>4, <1>5, <1>6, <1>7, OneCallMoves DEF PayInv, MoneyInv
  <1>9. TransfersReviewed' /\ SettlesBacked'
    BY <1>1, <1>4, ReceiptsStay, SettlesStay DEF PayInv, MoneyInv
  <1>10. SuccessMeansPaid'
    BY <1>1 DEF MoneyInv, SuccessMeansPaid
  <1>11. QED
    BY <1>4, <1>8, <1>9, <1>10 DEF MoneyInv

LEMMA StoreKeepsMoney ==
  ASSUME PayInv, MoneyInv, NEW c \in PayCall, StoreReceipt(c)
  PROVE  MoneyInv'
  <1>1. /\ payCall[c].op = "receipt" /\ payCall' = [payCall EXCEPT ![c] = NoPayCall]
        /\ receipt' = [receipt EXCEPT ![PayAppt(c)] = [status |-> "pending", pay |-> Pay(c)]]
        /\ UNCHANGED <<payment, gate, refunds, told, settle>>
    BY DEF StoreReceipt, Returns, Policies
  <1>2. payment[Pay(c)].method = "card_transfer"
    BY <1>1 DEF MoneyInv, CallsBacked, BackedIn, Pay
  <1>3. Steady /\ GateKnows' /\ RefundIsReal'
    BY <1>1, BooksUntouched DEF MoneyInv
  <1>4. TransfersReviewed'
    <2>1. \A a \in Appt : \/ receipt'[a] = receipt[a]
                          \/ receipt'[a].pay = Pay(c)
      BY <1>1 DEF PayInv, ReceiptsOK
    <2>2. QED
      BY <1>1, <1>2, <1>3, <2>1, ReceiptsStay DEF PayInv, MoneyInv
  <1>5. CallsBacked' /\ OneOpener'
    <2>1. NoPayCall.op # "request"
      BY DEF NoPayCall
    <2>2. \A d \in PayCall : Undisturbed(d)
      BY <1>1, GateUntouched DEF MoneyInv
    <2>3. QED
      BY <1>1, <1>3, <2>1, <2>2, NothingToBack, OneCallMoves DEF PayInv, MoneyInv
  <1>6. SettlesBacked' /\ SuccessMeansPaid'
    BY <1>1 DEF MoneyInv, SettlesBacked, SuccessMeansPaid
  <1>7. QED
    BY <1>3, <1>4, <1>5, <1>6 DEF MoneyInv

LEMMA ServeKeepsMoney ==
  ASSUME PayInv, MoneyInv, NEW c \in PayCall, ServeStep(c)
  PROVE  MoneyInv'
  <1>1. CASE \/ NoTransferFound(c) \/ Verify(c) \/ PayConfirmRead(c) \/ PayConfirmRefused(c)
             \/ LateCheck(c) \/ ApproveTooLate(c)
    <2>1. PICK op \in PayOps, next \in PayOps :
            /\ GoOn(c, op, next)
            /\ next \notin {"request", "receipt", "approve", "markRefunded"}
            /\ next = "verify" => op = "verify"
            /\ next \in Taken => \/ op \in Taken
                                 \/ op = "verify" /\ gate[Pay(c)] = "paid"
      BY <1>1 DEF NoTransferFound, Verify, PayConfirmRead, PayConfirmRefused, LateCheck,
                  ApproveTooLate, PayOps, Taken
    <2>2. UNCHANGED <<payment, receipt, gate, refunds, told, settle>>
      BY <1>1 DEF NoTransferFound, Verify, PayConfirmRead, PayConfirmRefused, LateCheck,
                  ApproveTooLate, Ledger, Policies
    <2>3. QED
      BY <2>1, <2>2, GoOnKeepsMoney
  <1>2. CASE LateRefused(c) \/ AlreadyReviewed(c)
    <2>1. /\ payCall' = [payCall EXCEPT ![c] = NoPayCall]
          /\ UNCHANGED <<payment, receipt, gate, refunds, told, settle>>
      BY <1>2 DEF LateRefused, AlreadyReviewed, Returns, Ledger, Policies
    <2>2. NoPayCall.op # "request"
      BY DEF NoPayCall
    <2>3. QED
      BY <2>1, <2>2, NothingToBack, MoveKeepsMoney
  <1>3. CASE PayConfirmWrite(c) \/ LateConfirm(c)
    <2>1. PICK op \in {"confirmWrite", "lateWrite"} : ConfirmRow(c, op)
      BY <1>3 DEF PayConfirmWrite, LateConfirm
    <2>2. /\ payCall[c].op = op /\ payCall' = [payCall EXCEPT ![c] = NoPayCall]
          /\ told' = told \cup {Pay(c)}
          /\ UNCHANGED <<payment, receipt, gate, refunds, settle>>
      BY <2>1 DEF ConfirmRow, Returns, Policies
    <2>3. gate[Pay(c)] = "paid"
      BY <2>2 DEF MoneyInv, CallsBacked, BackedIn, Taken, Pay
    <2>4. NoPayCall.op # "request"
      BY DEF NoPayCall
    <2>5. QED
      BY <2>2, <2>3, <2>4, NothingToBack, MoveKeepsMoney
  <1>4. QED
    BY <1>1, <1>2, <1>3, FindKeepsMoney, CreateKeepsMoney, GatewayKeepsMoney,
       CallbackKeepsMoney, ReviewKeepsMoney, LateRefundKeepsMoney, StoreKeepsMoney
       DEF ServeStep

\* When only a settlement moves.
LEMMA SettleKeepsMoney ==
  ASSUME PayInv, MoneyInv, UNCHANGED <<payment, receipt, gate, refunds, told, payCall>>,
         \A c \in Call : settle'[c] = settle[c] \/ SettledIn(settle'[c], gate, payment, refunds)
  PROVE  MoneyInv'
  <1>1. Steady /\ GateKnows' /\ RefundIsReal'
    BY BooksUntouched DEF MoneyInv
  <1>2. CallsBacked' /\ OneOpener'
    BY <1>1, GateUntouched, NoCallMoves DEF PayInv, MoneyInv
  <1>3. SettlesBacked'
    BY <1>1, SettlesStay DEF PayInv, MoneyInv
  <1>4. TransfersReviewed' /\ SuccessMeansPaid'
    BY DEF MoneyInv, TransfersReviewed, SuccessMeansPaid
  <1>5. QED
    BY <1>1, <1>2, <1>3, <1>4 DEF MoneyInv

\* A settlement that goes on keeps the payment it has chosen.
LEMMA SettledOn ==
  ASSUME SettlementsOK, NEW c \in Call, NEW next, settle[c].pc # "none",
         settle' = [settle EXCEPT ![c] = [settle[c] EXCEPT !.pc = next]]
  PROVE  /\ settle'[c].pc = next /\ settle'[c].pay = settle[c].pay
         /\ \A d \in Call \ {c} : settle'[d] = settle[d]
  <1>1. settle[c] \in Settlement /\ settle \in [Call -> Settlement \cup {NoSettlement}]
    BY DEF SettlementsOK, NoSettlement
  <1>2. /\ [settle[c] EXCEPT !.pc = next].pc = next
        /\ [settle[c] EXCEPT !.pc = next].pay = settle[c].pay
    BY <1>1 DEF Settlement
  <1>3. QED
    BY <1>1, <1>2

\* The settlement of a paid payment rests on the gateway, or on a transfer.
LEMMA ChooseKeepsMoney ==
  ASSUME PayInv, MoneyInv, NEW c \in Call, ChooseSettlement(c)
  PROVE  MoneyInv'
  <1>1. PICK p \in PaidFor(call[c].appt) :
          settle' = [settle EXCEPT ![c] =
            [settle[c] EXCEPT !.pay = p, !.pc = SettlementOf(p, settle[c].keep)]]
    BY DEF ChooseSettlement
  <1>2. PICK pc :
          /\ pc = SettlementOf(p, settle[c].keep)
          /\ settle' = [settle EXCEPT ![c] = [settle[c] EXCEPT !.pay = p, !.pc = pc]]
    BY <1>1
  <1>3. /\ p \in Payment /\ payment[p].status = "paid"
        /\ payment[p].method \in {"gateway", "card_transfer"}
    BY DEF PaidFor, PayInv, PaymentsOK, PaymentRow, NoPayment
  <1>4. /\ pc = "markRefunded" => payment[p].method = "card_transfer"
        /\ pc = "refund" => gate[p] = "paid"
    <2>1. CASE settle[c].keep
      BY <1>2, <2>1 DEF SettlementOf
    <2>2. CASE ~settle[c].keep /\ payment[p].method = "card_transfer"
      BY <1>2, <2>2 DEF SettlementOf
    <2>3. CASE ~settle[c].keep /\ payment[p].method = "gateway"
      BY <1>2, <1>3, <2>3 DEF SettlementOf, MoneyInv, GateKnows
    <2>4. QED
      BY <1>3, <2>1, <2>2, <2>3
  <1>5. settle[c] \in Settlement /\ settle \in [Call -> Settlement \cup {NoSettlement}]
    BY DEF ChooseSettlement, PayInv, SettlementsOK, NoSettlement
  <1>6. /\ [settle[c] EXCEPT !.pay = p, !.pc = pc].pc = pc
        /\ [settle[c] EXCEPT !.pay = p, !.pc = pc].pay = p
    BY <1>5 DEF Settlement
  <1>7. /\ settle'[c].pc = pc /\ settle'[c].pay = p
        /\ \A d \in Call \ {c} : settle'[d] = settle[d]
    BY <1>2, <1>5, <1>6
  <1>8. SettledIn(settle'[c], gate, payment, refunds)
    BY <1>4, <1>7 DEF SettledIn
  <1>9. UNCHANGED <<payment, receipt, gate, refunds, told, payCall>>
    BY DEF ChooseSettlement, Ledger
  <1>10. QED
    BY <1>7, <1>8, <1>9, SettleKeepsMoney

LEMMA RefundKeepsMoney ==
  ASSUME PayInv, MoneyInv, NEW c \in Call, RefundDeposit(c)
  PROVE  MoneyInv'
  <1>1. /\ settle[c].pc = "refund"
        /\ settle' = [settle EXCEPT ![c] = [settle[c] EXCEPT !.pc = "markRefunded"]]
        /\ refunds' = [refunds EXCEPT ![settle[c].pay] = @ + 1]
        /\ UNCHANGED <<payment, receipt, gate, told, payCall>>
    BY DEF RefundDeposit, SettleStep
  <1>2. settle[c].pay \in Payment /\ gate[settle[c].pay] = "paid"
    BY <1>1 DEF PayInv, SettlementsOK, MoneyInv, SettlesBacked, SettledIn
  <1>3. Steady /\ GateKnows' /\ RefundIsReal' /\ refunds'[settle[c].pay] > 0
    BY <1>1, <1>2, RefundedMoney
  <1>4. /\ settle'[c].pc = "markRefunded" /\ settle'[c].pay = settle[c].pay
        /\ \A d \in Call \ {c} : settle'[d] = settle[d]
    BY <1>1, SettledOn DEF PayInv
  <1>5. SettledIn(settle'[c], gate', payment', refunds')
    BY <1>3, <1>4 DEF SettledIn
  <1>6. SettlesBacked'
    BY <1>3, <1>4, <1>5, SettlesStay DEF PayInv, MoneyInv
  <1>7. CallsBacked' /\ OneOpener'
    BY <1>1, <1>3, GateUntouched, NoCallMoves DEF PayInv, MoneyInv
  <1>8. TransfersReviewed' /\ SuccessMeansPaid'
    BY <1>1 DEF MoneyInv, TransfersReviewed, SuccessMeansPaid
  <1>9. QED
    BY <1>3, <1>6, <1>7, <1>8 DEF MoneyInv

LEMMA SettledKeepsMoney ==
  ASSUME PayInv, MoneyInv, NEW c \in Call, DepositRefunded(c) \/ DepositRetained(c)
  PROVE  MoneyInv'
  <1>1. PICK pc \in {"markRefunded", "retain"}, status \in {"refunded", "retained"} :
          /\ MarkSettled(c, pc, status)
          /\ status = "refunded" => pc = "markRefunded"
    BY DEF DepositRefunded, DepositRetained
  <1>2. /\ settle[c].pc = pc
        /\ settle' = [settle EXCEPT ![c] = [settle[c] EXCEPT !.pc = "record"]]
        /\ MarkPayment(settle[c].pay, status)
        /\ UNCHANGED <<receipt, gate, refunds, told, payCall>>
    BY <1>1 DEF MarkSettled, SettleStep
  <1>3. settle[c].pay \in Payment /\ payment[settle[c].pay] # NoPayment
    BY <1>2 DEF PayInv, SettlementsOK
  <1>4. status = "refunded" /\ payment[settle[c].pay].method = "gateway" =>
          refunds[settle[c].pay] > 0
    BY <1>1, <1>2 DEF MoneyInv, SettlesBacked, SettledIn
  <1>5. Steady /\ GateKnows' /\ RefundIsReal'
    BY <1>2, <1>3, <1>4, MarkedMoney DEF PayInv, MoneyInv, PaymentStatus
  <1>6. settle'[c].pc = "record" /\ \A d \in Call \ {c} : settle'[d] = settle[d]
    BY <1>2, SettledOn DEF PayInv
  <1>7. SettledIn(settle'[c], gate', payment', refunds')
    BY <1>6 DEF SettledIn
  <1>8. SettlesBacked'
    BY <1>5, <1>6, <1>7, SettlesStay DEF PayInv, MoneyInv
  <1>9. CallsBacked' /\ OneOpener'
    BY <1>2, <1>5, GateUntouched, NoCallMoves DEF PayInv, MoneyInv
  <1>10. TransfersReviewed' /\ SuccessMeansPaid'
    BY <1>2, <1>5, ReceiptsStay DEF PayInv, MoneyInv, SuccessMeansPaid
  <1>11. QED
    BY <1>5, <1>8, <1>9, <1>10 DEF MoneyInv

LEMMA CancelKeepsMoney ==
  ASSUME PayInv, MoneyInv, NEW c \in Call, CancelStep(c)
  PROVE  MoneyInv'
  <1>1. settle \in [Call -> Settlement \cup {NoSettlement}] /\ SettlementsOK
    BY DEF PayInv, SettlementsOK
  <1>2. CASE \/ NothingLeftToSettle(c) \/ RefundDepositFails(c) \/ RecordCancellation(c)
             \/ CancellationDies(c)
    <2>1. /\ settle' = [settle EXCEPT ![c] = NoSettlement]
          /\ UNCHANGED <<payment, receipt, gate, refunds, told, payCall>>
      BY <1>2 DEF NothingLeftToSettle, RefundDepositFails, RecordCancellation, CancellationDies,
                  SettleThrows, Ledger
    <2>2. SettledIn(NoSettlement, gate, payment, refunds)
      BY DEF SettledIn, NoSettlement
    <2>3. QED
      BY <1>1, <2>1, <2>2, SettleKeepsMoney
  <1>3. ASSUME NEW a \in Appt, CancelDepositRead(c, a)
        PROVE  MoneyInv'
    <2>0. PICK byStaff \in BOOLEAN :
            settle' = [settle EXCEPT ![c] =
              [ pc |-> "write", seen |-> PaidFor(a) # {}, keep |-> Keeps(byStaff, a),
                pay |-> Null ]]
      BY <1>3 DEF CancelDepositRead
    <2> DEFINE s == [ pc |-> "write", seen |-> PaidFor(a) # {}, keep |-> Keeps(byStaff, a),
                      pay |-> Null ]
    <2>1. settle' = [settle EXCEPT ![c] = s] /\ s.pc = "write"
      BY <2>0
    <2> HIDE DEF s
    <2>2. UNCHANGED <<payment, receipt, gate, refunds, told, payCall>>
      BY <1>3 DEF CancelDepositRead, Ledger
    <2>3. SettledIn(s, gate, payment, refunds)
      BY <2>1 DEF SettledIn
    <2>4. QED
      BY <1>1, <2>1, <2>2, <2>3, SettleKeepsMoney
  <1>4. CASE CancelDepositWrite(c) \/ NothingToSettle(c)
    <2>1. PICK next \in {"policy", "record"} :
            /\ settle' = [settle EXCEPT ![c] = [settle[c] EXCEPT !.pc = next]]
            /\ settle[c].pc # "none"
            /\ UNCHANGED <<payment, receipt, gate, refunds, told, payCall>>
      BY <1>4 DEF CancelDepositWrite, NothingToSettle, SettleStep, Ledger
    <2>2. settle'[c].pc = next /\ \A d \in Call \ {c} : settle'[d] = settle[d]
      BY <1>1, <2>1, SettledOn
    <2>3. SettledIn(settle'[c], gate, payment, refunds)
      BY <2>2 DEF SettledIn
    <2>4. QED
      BY <2>1, <2>2, <2>3, SettleKeepsMoney
  <1>5. QED
    BY <1>2, <1>3, <1>4, ChooseKeepsMoney, RefundKeepsMoney, SettledKeepsMoney DEF CancelStep

\* Maintenance closes what is pending: it touches no money.
LEMMA ReleaseKeepsMoney ==
  ASSUME PayInv, MoneyInv, NEW w \in Worker, ReleaseStep(w)
  PROVE  MoneyInv'
  <1>1. CASE ReleaseHolds(w) \/ MaintenanceDies(w)
    BY <1>1, SettleKeepsMoney DEF ReleaseHolds, MaintenanceDies, Ledger
  <1>2. CASE TidyReceipts(w)
    <2>1. UNCHANGED <<payment, gate, refunds, told, payCall, settle>>
      BY <1>2 DEF TidyReceipts
    <2>2. Steady /\ GateKnows' /\ RefundIsReal'
      BY <2>1, BooksUntouched DEF MoneyInv
    <2>3. \A a \in Appt : \/ receipt'[a] = receipt[a]
                          \/ receipt[a] # NoReceipt /\ receipt'[a].pay = receipt[a].pay
      <3>1. ASSUME NEW a \in Appt, receipt'[a] # receipt[a]
            PROVE  receipt[a] # NoReceipt /\ receipt'[a].pay = receipt[a].pay
        <4>1. /\ receipt[a].status = "pending"
              /\ receipt'[a] = [receipt[a] EXCEPT !.status = "expired"]
          BY <1>2, <3>1 DEF TidyReceipts
        <4>2. receipt[a] \in ReceiptRow /\ receipt[a] # NoReceipt
          BY <4>1 DEF PayInv, ReceiptsOK, NoReceipt
        <4>3. QED
          BY <4>1, <4>2, MarkedReceipt DEF ReceiptStatus
      <3>2. QED
        BY <3>1
    <2>4. TransfersReviewed'
      BY <2>2, <2>3, ReceiptsStay DEF PayInv, MoneyInv
    <2>5. CallsBacked' /\ OneOpener'
      BY <2>1, <2>2, GateUntouched, NoCallMoves DEF PayInv, MoneyInv
    <2>6. SettlesBacked' /\ SuccessMeansPaid'
      BY <2>1 DEF MoneyInv, SettlesBacked, SuccessMeansPaid
    <2>7. QED
      BY <2>2, <2>4, <2>5, <2>6 DEF MoneyInv
  <1>3. CASE TidyPayments(w)
    <2>1. UNCHANGED <<receipt, gate, refunds, told, payCall, settle>>
      BY <1>3 DEF TidyPayments
    <2>2. \A p \in Payment :
            \/ payment'[p] = payment[p]
            \/ /\ payment[p] # NoPayment /\ payment'[p] # NoPayment
               /\ payment'[p].status = "failed"
               /\ payment'[p].appt = payment[p].appt /\ payment'[p].method = payment[p].method
      <3>1. ASSUME NEW p \in Payment, payment'[p] # payment[p]
            PROVE  /\ payment[p] # NoPayment /\ payment'[p] # NoPayment
                   /\ payment'[p].status = "failed"
                   /\ payment'[p].appt = payment[p].appt /\ payment'[p].method = payment[p].method
        <4>1. /\ payment[p].status = "pending"
              /\ payment'[p] = [payment[p] EXCEPT !.status = "failed"]
          BY <1>3, <3>1 DEF TidyPayments
        <4>2. payment[p] \in PaymentRow /\ payment[p] # NoPayment
          BY <4>1 DEF PayInv, PaymentsOK, NoPayment
        <4>3. QED
          BY <4>1, <4>2 DEF PaymentRow, NoPayment
      <3>2. QED
        BY <3>1
    <2>3. Steady
      BY <2>1, <2>2 DEF Steady
    <2>4. GateKnows' /\ RefundIsReal'
      BY <2>1, <2>2 DEF MoneyInv, GateKnows, RefundIsReal
    <2>5. CallsBacked' /\ OneOpener'
      BY <2>1, <2>3, GateUntouched, NoCallMoves DEF PayInv, MoneyInv
    <2>6. TransfersReviewed' /\ SettlesBacked'
      BY <2>1, <2>3, ReceiptsStay, SettlesStay DEF PayInv, MoneyInv
    <2>7. SuccessMeansPaid'
      BY <2>1 DEF MoneyInv, SuccessMeansPaid
    <2>8. QED
      BY <2>4, <2>5, <2>6, <2>7 DEF MoneyInv
  <1>4. QED
    BY <1>1, <1>2, <1>3 DEF ReleaseStep

\* The customer decides only while the gateway has not heard of a decision.
LEMMA DecisionKeepsMoney ==
  ASSUME PayInv, MoneyInv, NEW p \in Payment, CustomerDecides(p)
  PROVE  MoneyInv'
  <1>1. PICK outcome \in {"paid", "declined"} : gate' = [gate EXCEPT ![p] = outcome]
    BY DEF CustomerDecides
  <1>2. gate[p] = "open" /\ UNCHANGED <<payment, receipt, refunds, told, payCall, settle>>
    BY DEF CustomerDecides, Policies
  <1>3. gate'[p] = outcome /\ \A q \in Payment \ {p} : gate'[q] = gate[q]
    BY <1>1 DEF PayInv, CountersOK
  <1>4. Steady
    BY <1>2, <1>3 DEF Steady
  <1>5. GateKnows' /\ RefundIsReal'
    BY <1>2, <1>3 DEF MoneyInv, GateKnows, RefundIsReal
  <1>6. SuccessMeansPaid'
    BY <1>2, <1>3 DEF MoneyInv, SuccessMeansPaid, PayInv, CountersOK
  <1>7. \A d \in PayCall : Undisturbed(d)
    <2>1. ASSUME NEW d \in PayCall, payCall[d].op = "request"
          PROVE  gate'[Pay(d)] = "closed"
      <3>1. Pay(d) \in Payment /\ gate[Pay(d)] = "closed"
        BY <2>1, RequestHasPayment DEF PayInv, Opening, MoneyInv, CallsBacked, BackedIn, Pay
      <3>2. QED
        BY <1>2, <1>3, <3>1
    <2>2. QED
      BY <2>1 DEF Undisturbed
  <1>8. CallsBacked' /\ OneOpener'
    BY <1>2, <1>4, <1>7, NoCallMoves DEF PayInv, MoneyInv
  <1>9. TransfersReviewed' /\ SettlesBacked'
    BY <1>2, <1>4, ReceiptsStay, SettlesStay DEF PayInv, MoneyInv
  <1>10. QED
    BY <1>5, <1>6, <1>8, <1>9 DEF MoneyInv

\* A repeated callback tells only of payments that the gateway has taken.
LEMMA RepeatKeepsMoney ==
  ASSUME PayInv, MoneyInv, NEW p \in Payment, CallbackRepeated(p)
  PROVE  MoneyInv'
  <1>1. /\ gate[p] # "closed" /\ payment[p].status = "paid" /\ told' = told \cup {p}
        /\ UNCHANGED <<payment, receipt, gate, refunds, payCall, settle>>
    BY DEF CallbackRepeated, Policies
  <1>2. gate[p] = "paid"
    BY <1>1 DEF MoneyInv, GateKnows
  <1>3. SuccessMeansPaid'
    BY <1>1, <1>2 DEF MoneyInv, SuccessMeansPaid
  <1>4. Steady /\ GateKnows' /\ RefundIsReal'
    BY <1>1, BooksUntouched DEF MoneyInv
  <1>5. CallsBacked' /\ OneOpener'
    BY <1>1, <1>4, GateUntouched, NoCallMoves DEF PayInv, MoneyInv
  <1>6. TransfersReviewed' /\ SettlesBacked'
    BY <1>1, <1>4, ReceiptsStay, SettlesStay DEF PayInv, MoneyInv
  <1>7. QED
    BY <1>3, <1>4, <1>5, <1>6 DEF MoneyInv

LEMMA MoneyInit == PayInit => MoneyInv
  <1> SUFFICES ASSUME PayInit
               PROVE  MoneyInv
    OBVIOUS
  <1>1. GateKnows /\ RefundIsReal /\ SuccessMeansPaid /\ TransfersReviewed
    BY DEF PayInit, GateKnows, RefundIsReal, SuccessMeansPaid, TransfersReviewed, NoPayment
  <1>2. CallsBacked
    BY NothingToBack DEF PayInit, CallsBacked
  <1>3. OneOpener /\ SettlesBacked
    BY DEF PayInit, OneOpener, SettlesBacked, SettledIn, NoPayCall, NoSettlement
  <1>4. QED
    BY <1>1, <1>2, <1>3 DEF MoneyInv

LEMMA MoneyStep ==
  ASSUME PayInv, MoneyInv, [PayNext]_allVars
  PROVE  MoneyInv'
  <1>1. CASE LifecycleStep \/ UNCHANGED allVars
    BY <1>1, SettleKeepsMoney DEF LifecycleStep, allVars, payVars
  <1>2. QED
    BY <1>1, OpenKeepsMoney, ServeKeepsMoney, PayFaultKeepsMoney, CancelKeepsMoney,
       ReleaseKeepsMoney, DecisionKeepsMoney, RepeatKeepsMoney DEF PayNext

\* What every request that deals with money rests on is true when it acts.
THEOREM MoneyInvCorrect == PaySpec => []MoneyInv
  <1>1. PayInit => MoneyInv
    BY MoneyInit
  <1>2. PayInv /\ MoneyInv /\ [PayNext]_allVars => MoneyInv'
    BY MoneyStep
  <1>3. QED
    BY <1>1, <1>2, PayInvCorrect, PTL DEF PaySpec

\* A gateway payment is recorded as refunded only when the gateway has paid it
\* back, and only money that it had taken is paid back, whatever the callbacks,
\* the reviews and the cancellations do to each other.
THEOREM RefundIsRealCorrect == PaySpec => []RefundIsReal
  <1>1. MoneyInv => RefundIsReal
    BY DEF MoneyInv
  <1>2. QED
    BY <1>1, MoneyInvCorrect, PTL

\* Nobody is sent to the success page for a payment that the gateway has not
\* taken, however often and whenever the callback is called.
THEOREM SuccessMeansPaidCorrect == PaySpec => []SuccessMeansPaid
  <1>1. MoneyInv => SuccessMeansPaid
    BY DEF MoneyInv
  <1>2. QED
    BY <1>1, MoneyInvCorrect, PTL

-----------------------------------------------------------------------------
(***************************************************************************)
(* Refunds and holds.  Money is paid back only for an appointment that has *)
(* left its hold: a cancellation refunds after it was stored, a late       *)
(* deposit is one that found the hold gone.  As no row becomes held again, *)
(* a hold that is still running has all the money that was taken for it.   *)
(***************************************************************************)

\* The appointment's hold is over.
Over(a) == Exists(a) /\ row[a].status # "held"

LateOps == {"late", "lateWrite", "refund", "markRefunded"}

\* The request treats its deposit as late.
IsLate(r) == r.op # "none" /\ (r.kind = "late" \/ r.op \in LateOps)

RefundsOver == \A p \in Payment : refunds[p] > 0 => Over(payment[p].appt)

LateOver == \A c \in PayCall : IsLate(payCall[c]) => Over(PayAppt(c))

\* What a cancellation does about the deposit once it is stored.
Settling == {"policy", "refund", "markRefunded", "retain", "record"}

SettlingOver ==
  \A c \in Call :
    settle[c].pc \in Settling =>
      /\ call[c].op = "announce" /\ call[c].appt \in Appt /\ Over(call[c].appt)
      /\ settle[c].pc = "refund" => payment[settle[c].pay].appt = call[c].appt

OverInv == RefundsOver /\ LateOver /\ SettlingOver

\* No row becomes held again.
LEMMA StaysOver ==
  ASSUME PayInv, [PayNext]_allVars, NEW a \in Appt, Over(a)
  PROVE  Over(a)'
  <1>1. LifecycleInv /\ TypeInv /\ TableTypeOK /\ InsertedOnce /\ row \in [Appt -> Row \cup {AbsentRow}]
    BY DEF PayInv, LifecycleInv, TypeInv, TypeOK, TableTypeOK
  <1>2. Exists(a)'
    BY LifecycleInvStep DEF RowsGrow, Over
  <1>3. row[a] # AbsentRow
    BY DEF Over, Exists, AbsentRow
  <1>4. CASE [Next]_vars
    <2>1. CASE Quiet \/ Expiry \/ \E x \in Appt : Deliberation(x)
      BY <1>2, <2>1 DEF Quiet, Expiry, Deliberation, Over
    <2>2. ASSUME NEW x \in Appt, Insertion(x)
          PROVE  Over(a)'
      <3>1. x # a
        BY <1>1, <1>3, <2>2 DEF Insertion, InsertedOnce
      <3>2. row'[a] = row[a]
        BY <1>1, <2>2, <3>1 DEF Insertion, StoreRow
      <3>3. QED
        BY <1>2, <3>2 DEF Over
    <2>3. ASSUME NEW c \in Call, Change(c)
          PROVE  Over(a)'
      BY <1>1, <1>2, <2>3 DEF Change, StoreRow, Over
    <2>4. QED
      BY <1>1, <1>4, <2>1, <2>2, <2>3, StepKinds
  <1>5. ASSUME NEW x \in Appt, Confirmation(x)
        PROVE  Over(a)'
    <2>1. row'[x].status = "confirmed" /\ \A b \in Appt \ {x} : row'[b] = row[b]
      BY <1>1, <1>5, ConfirmedRow
    <2>2. QED
      BY <1>2, <2>1 DEF Over
  <1>6. CASE Abort
    BY <1>2, <1>6 DEF Abort, Over
  <1>7. QED
    BY <1>4, <1>5, <1>6, PayStepKinds

\* A payment stays with its appointment.
LEMMA StaysWithAppt ==
  ASSUME PayInv, [PayNext]_allVars, NEW p \in Payment, payment[p] # NoPayment
  PROVE  payment'[p].appt = payment[p].appt
  <1>1. payment \in [Payment -> PaymentRow \cup {NoPayment}] /\ payment[p] \in PaymentRow
    BY DEF PayInv, PaymentsOK
  <1>2. ASSUME NEW q, NEW status \in PaymentStatus, MarkPayment(q, status)
        PROVE  payment'[p].appt = payment[p].appt
    BY <1>1, <1>2, MarkedPayment DEF MarkPayment
  <1>3. {"paid", "failed", "refunded", "retained"} \subseteq PaymentStatus
    BY DEF PaymentStatus
  <1>4. ASSUME NEW c \in PayCall, ServeStep(c)
        PROVE  payment'[p].appt = payment[p].appt
    <2>1. CASE CreatePayment(c)
      <3>1. PICK q \in Payment : payment[q] = NoPayment /\ \E r : payment' = [payment EXCEPT ![q] = r]
        BY <2>1 DEF CreatePayment
      <3>2. QED
        BY <1>1, <3>1
    <2>2. CASE \/ MarkFailed(c) \/ MarkPaid(c) \/ MarkRefunded(c) \/ RejectReceipt(c)
               \/ ExpireReceipt(c) \/ ApproveReceipt(c)
      BY <1>2, <1>3, <2>2 DEF MarkFailed, MarkPaid, MarkRefunded, RejectReceipt, ExpireReceipt,
                              CloseReceipt, ApproveReceipt
    <2>3. CASE \/ FindTransfer(c) \/ NoTransferFound(c) \/ RequestGateway(c) \/ Verify(c)
               \/ PayConfirmRead(c) \/ PayConfirmWrite(c) \/ PayConfirmRefused(c)
               \/ LateCheck(c) \/ LateConfirm(c) \/ LateRefused(c) \/ LateRefund(c)
               \/ StoreReceipt(c) \/ AlreadyReviewed(c) \/ ApproveTooLate(c)
      BY <2>3 DEF FindTransfer, NoTransferFound, RequestGateway, Verify, PayConfirmRead,
                  PayConfirmWrite, PayConfirmRefused, ConfirmRow, LateCheck, LateConfirm,
                  LateRefused, LateRefund, StoreReceipt, AlreadyReviewed, ApproveTooLate, Ledger
    <2>4. QED
      BY <1>4, <2>1, <2>2, <2>3 DEF ServeStep
  <1>5. ASSUME NEW c \in PayCall, OpenStep(c) \/ PayFaultStep(c)
        PROVE  payment' = payment
    BY <1>5 DEF OpenStep, InitiateDeposit, UploadReceipt, ReviewReceipt, CallbackRead,
                PayFaultStep, VerifyUnavailable, LateRefundFails, PayCallDies, Ledger
  <1>6. ASSUME NEW c \in Call, CancelStep(c)
        PROVE  payment'[p].appt = payment[p].appt
    <2>1. CASE DepositRefunded(c) \/ DepositRetained(c)
      BY <1>2, <1>3, <2>1 DEF DepositRefunded, DepositRetained, MarkSettled
    <2>2. CASE ~(DepositRefunded(c) \/ DepositRetained(c))
      BY <1>6, <2>2 DEF CancelStep, CancelDepositRead, CancelDepositWrite, NothingToSettle,
                        NothingLeftToSettle, ChooseSettlement, RefundDeposit, RefundDepositFails,
                        RecordCancellation, CancellationDies, Ledger
    <2>3. QED
      BY <2>1, <2>2
  <1>7. ASSUME NEW w \in Worker, ReleaseStep(w)
        PROVE  payment'[p].appt = payment[p].appt
    <2>1. CASE TidyPayments(w)
      BY <1>1, <1>3, <2>1, MarkedPayment DEF TidyPayments
    <2>2. CASE ReleaseHolds(w) \/ TidyReceipts(w) \/ MaintenanceDies(w)
      BY <2>2 DEF ReleaseHolds, TidyReceipts, MaintenanceDies, Ledger
    <2>3. QED
      BY <1>7, <2>1, <2>2 DEF ReleaseStep
  <1>8. CASE LifecycleStep \/ UNCHANGED allVars \/ \E q \in Payment : CustomerDecides(q) \/ CallbackRepeated(q)
    BY <1>8 DEF LifecycleStep, payVars, allVars, CustomerDecides, CallbackRepeated
  <1>9. QED
    BY <1>4, <1>5, <1>6, <1>7, <1>8 DEF PayNext

\* Money is paid back by a late deposit or by a cancellation.
LEMMA NewRefund ==
  ASSUME PayInv, [PayNext]_allVars, NEW p \in Payment, refunds'[p] # refunds[p]
  PROVE  \/ \E c \in PayCall : LateRefund(c) /\ Pay(c) = p
         \/ \E c \in Call : RefundDeposit(c) /\ settle[c].pay = p
  <1>1. refunds \in [Payment -> Nat]
    BY DEF PayInv, CountersOK
  <1>2. ASSUME NEW c \in PayCall, ServeStep(c)
        PROVE  LateRefund(c) /\ Pay(c) = p
    <2>1. CASE LateRefund(c)
      BY <1>1, <2>1 DEF LateRefund
    <2>2. CASE ~LateRefund(c)
      BY <1>2, <2>2 DEF ServeStep, FindTransfer, NoTransferFound, CreatePayment, RequestGateway,
           Verify, MarkFailed, MarkPaid, PayConfirmRead, PayConfirmWrite, PayConfirmRefused,
           ConfirmRow, LateCheck, LateConfirm, LateRefused, MarkRefunded, StoreReceipt,
           AlreadyReviewed, RejectReceipt, ExpireReceipt, CloseReceipt, ApproveReceipt,
           ApproveTooLate, Ledger
    <2>3. QED
      BY <2>1, <2>2
  <1>3. ASSUME NEW c \in PayCall, OpenStep(c) \/ PayFaultStep(c)
        PROVE  FALSE
    BY <1>3 DEF OpenStep, InitiateDeposit, UploadReceipt, ReviewReceipt, CallbackRead,
                PayFaultStep, VerifyUnavailable, LateRefundFails, PayCallDies, Ledger
  <1>4. ASSUME NEW c \in Call, CancelStep(c)
        PROVE  RefundDeposit(c) /\ settle[c].pay = p
    <2>1. CASE RefundDeposit(c)
      BY <1>1, <2>1 DEF RefundDeposit
    <2>2. CASE ~RefundDeposit(c)
      BY <1>4, <2>2 DEF CancelStep, CancelDepositRead, CancelDepositWrite, NothingToSettle,
                        NothingLeftToSettle, ChooseSettlement, RefundDepositFails,
                        DepositRefunded, DepositRetained, MarkSettled,
                        RecordCancellation, CancellationDies, Ledger
    <2>3. QED
      BY <2>1, <2>2
  <1>5. ASSUME NEW w \in Worker, ReleaseStep(w)
        PROVE  FALSE
    BY <1>5 DEF ReleaseStep, ReleaseHolds, TidyReceipts, TidyPayments, MaintenanceDies, Ledger
  <1>6. CASE LifecycleStep \/ UNCHANGED allVars \/ \E q \in Payment : CustomerDecides(q) \/ CallbackRepeated(q)
    BY <1>6 DEF LifecycleStep, payVars, allVars, CustomerDecides, CallbackRepeated
  <1>7. QED
    BY <1>2, <1>3, <1>4, <1>5, <1>6 DEF PayNext

\* An appointment that is refunded is over.
LEMMA RefundsStayOver ==
  ASSUME PayInv, MoneyInv, OverInv, [PayNext]_allVars
  PROVE  RefundsOver'
  <1> SUFFICES ASSUME NEW p \in Payment, refunds'[p] > 0
               PROVE  Over(payment[p].appt)'
    BY DEF RefundsOver
  <1>1. refunds[p] \in Nat /\ PaymentsOK
    BY DEF PayInv, CountersOK
  <1>2. payment[p] # NoPayment /\ Over(payment[p].appt)
    <2>1. CASE refunds[p] > 0
      BY <2>1 DEF MoneyInv, RefundIsReal, GateKnows, OverInv, RefundsOver
    <2>2. CASE ~(refunds[p] > 0)
      <3>1. ASSUME NEW c \in PayCall, LateRefund(c), Pay(c) = p
            PROVE  payment[p] # NoPayment /\ Over(payment[p].appt)
        <4>1. payCall[c].op = "refund"
          BY <3>1 DEF LateRefund, GoOn
        <4>2. payment[p] # NoPayment
          BY <3>1, <4>1, RequestHasPayment DEF PayInv, Opening
        <4>3. payment[p].appt = PayAppt(c)
          BY <3>1, <4>1 DEF MoneyInv, CallsBacked, BackedIn, Taken, Pay, PayAppt
        <4>4. Over(PayAppt(c))
          BY <4>1 DEF OverInv, LateOver, IsLate, LateOps
        <4>5. QED
          BY <4>2, <4>3, <4>4
      <3>2. ASSUME NEW c \in Call, RefundDeposit(c), settle[c].pay = p
            PROVE  payment[p] # NoPayment /\ Over(payment[p].appt)
        <4>1. settle[c].pc = "refund"
          BY <3>2 DEF RefundDeposit, SettleStep
        <4>2. payment[p] # NoPayment
          BY <3>2, <4>1 DEF PayInv, SettlementsOK
        <4>3. Over(payment[p].appt)
          BY <3>2, <4>1 DEF OverInv, SettlingOver, Settling
        <4>4. QED
          BY <4>2, <4>3
      <3>3. refunds'[p] # refunds[p]
        BY <1>1, <2>2
      <3>4. QED
        BY <3>1, <3>2, <3>3, NewRefund
    <2>3. QED
      BY <2>1, <2>2
  <1>3. PICK a \in Appt : a = payment[p].appt
    BY <1>1, <1>2 DEF PaymentsOK, PaymentRow
  <1>4. Over(a)'
    BY <1>2, <1>3, StaysOver
  <1>5. payment'[p].appt = a
    BY <1>2, <1>3, StaysWithAppt
  <1>6. QED
    BY <1>4, <1>5 DEF Over, Exists

\* One request moves.  It treats its deposit as late only when the hold is over.
LEMMA OneMoves ==
  ASSUME PayInv, LateOver, [PayNext]_allVars, NEW c \in PayCall,
         NEW r, payCall' = [payCall EXCEPT ![c] = r],
         IsLate(r) => /\ r.appt \in Appt /\ Over(r.appt)
  PROVE  LateOver'
  <1> SUFFICES ASSUME NEW d \in PayCall, IsLate(payCall[d])'
               PROVE  Over(PayAppt(d))'
    BY DEF LateOver
  <1>1. payCall'[c] = r /\ \A e \in PayCall \ {c} : payCall'[e] = payCall[e]
    BY DEF PayInv, RequestsOK
  <1>2. PICK a \in Appt : a = payCall'[d].appt /\ Over(a)
    <2>1. CASE d = c
      BY <1>1, <2>1 DEF IsLate
    <2>2. CASE d # c
      <3>1. IsLate(payCall[d])
        BY <1>1, <2>2 DEF IsLate
      <3>2. PayAppt(d) \in Appt
        BY <3>1, RequestHasRow DEF PayInv, IsLate
      <3>3. QED
        BY <1>1, <2>2, <3>1, <3>2 DEF LateOver, PayAppt
    <2>3. QED
      BY <2>1, <2>2
  <1>3. Over(a)'
    BY <1>2, StaysOver
  <1>4. QED
    BY <1>2, <1>3 DEF PayAppt, Over, Exists

\* No request moves.
LEMMA NoneMoves ==
  ASSUME PayInv, LateOver, [PayNext]_allVars, payCall' = payCall
  PROVE  LateOver'
  <1> SUFFICES ASSUME NEW d \in PayCall, IsLate(payCall[d])'
               PROVE  Over(PayAppt(d))'
    BY DEF LateOver
  <1>1. IsLate(payCall[d])
    BY DEF IsLate
  <1>2. PayAppt(d) \in Appt /\ Over(PayAppt(d))
    BY <1>1, RequestHasRow DEF PayInv, IsLate, LateOver
  <1>3. PICK a \in Appt : a = PayAppt(d) /\ Over(a)
    BY <1>2
  <1>4. Over(a)'
    BY <1>3, StaysOver
  <1>5. QED
    BY <1>3, <1>4 DEF PayAppt, Over, Exists

\* A request that goes on with its deposit.
LEMMA GoOnLate ==
  ASSUME PayInv, LateOver, [PayNext]_allVars, NEW c \in PayCall, NEW op, NEW next,
         GoOn(c, op, next), op # "none",
         next \in LateOps => IsLate(payCall[c]) \/ row[PayAppt(c)].status # "held"
  PROVE  LateOver'
  <1> DEFINE r == [payCall[c] EXCEPT !.op = next]
  <1>1. payCall[c].op # "none" /\ payCall[c] \in PayRequest
    BY RequestHasRow DEF PayInv, GoOn, GoodRequest, GoodIn
  <1>2. r.op = next /\ r.kind = payCall[c].kind /\ r.appt = PayAppt(c)
    BY <1>1 DEF PayRequest, PayAppt
  <1>3. payCall' = [payCall EXCEPT ![c] = r]
    BY DEF GoOn
  <1>4. PayAppt(c) \in Appt /\ Exists(PayAppt(c))
    BY <1>1, RequestHasRow DEF PayInv
  <1>5. IsLate(r) => Over(PayAppt(c))
    BY <1>1, <1>2, <1>4 DEF IsLate, LateOver, Over
  <1> HIDE DEF r
  <1>6. QED
    BY <1>2, <1>3, <1>4, <1>5, OneMoves

\* A request that ends.
LEMMA EndsLate ==
  ASSUME PayInv, LateOver, [PayNext]_allVars, NEW c \in PayCall,
         payCall' = [payCall EXCEPT ![c] = NoPayCall]
  PROVE  LateOver'
  <1>1. ~IsLate(NoPayCall)
    BY DEF IsLate, NoPayCall, LateOps
  <1>2. QED
    BY <1>1, OneMoves

\* A confirmation of a running hold is never refused: it takes no more than the
\* hold has taken.
LEMMA HoldIsAdmissible ==
  ASSUME NoDoubleBooking, TableTypeOK, NEW a \in Appt, row[a].status = "held"
  PROVE  Admissible(a, Confirmed(row[a]))
  <1>1. row[a] \in Row
    BY DEF TableTypeOK, AbsentRow
  <1>2. SameSlot(Confirmed(row[a]), row[a])
    BY <1>1 DEF Confirmed, SameSlot, Row
  <1>3. ASSUME NEW b \in Appt \ {a}, row[b].status \in Reserving, Overlap(row[a], row[b])
        PROVE  ~SharesResource(row[a], row[b])
    BY <1>3 DEF NoDoubleBooking, Reserving
  <1>4. QED
    BY <1>2, <1>3 DEF Admissible, Excludes, Constrained, Reserving, SameSlot, Overlap, SharesResource


\* A request that begins treats its deposit as late when the hold is over.
LEMMA OpensLate ==
  ASSUME PayInv, LateOver, [PayNext]_allVars, NEW c \in PayCall, OpenStep(c)
  PROVE  LateOver'
  <1> DEFINE r(op, kind, a, p) == [op |-> op, kind |-> kind, appt |-> a, pay |-> p, at |-> now]
  <1>1. ASSUME NEW op \in {"find", "create", "approve", "reject"},
               NEW kind \in {"initiate", "upload", "review"}, NEW a, NEW p,
               Starts(c, op, kind, a, p)
        PROVE  LateOver'
    <2>1. ~IsLate(r(op, kind, a, p))
      BY DEF IsLate, LateOps
    <2>2. payCall' = [payCall EXCEPT ![c] = r(op, kind, a, p)]
      BY <1>1 DEF Starts
    <2> HIDE DEF r
    <2>3. QED
      BY <2>1, <2>2, OneMoves
  <1>2. ASSUME NEW p \in Payment, CallbackRead(c, p)
        PROVE  LateOver'
    <2> DEFINE kind == IF row[payment[p].appt].status = "expired" THEN "late" ELSE "callback"
               s == r("verify", kind, payment[p].appt, p)
    <2>1. payment[p].appt \in Appt /\ Exists(payment[p].appt)
      BY <1>2 DEF CallbackRead, PayInv, PaymentsOK, PaymentRow, NoPayment
    <2>2. s.appt \in Appt /\ (IsLate(s) => Over(s.appt))
      BY <2>1 DEF IsLate, LateOps, Over
    <2>3. payCall' = [payCall EXCEPT ![c] = s]
      BY <1>2 DEF CallbackRead, Starts
    <2> HIDE DEF s
    <2>4. QED
      BY <2>2, <2>3, OneMoves
  <1>3. QED
    BY <1>1, <1>2 DEF OpenStep, InitiateDeposit, UploadReceipt, ReviewReceipt

\* A request under way.
LEMMA ServesLate ==
  ASSUME PayInv, NoDoubleBooking, LateOver, [PayNext]_allVars, NEW c \in PayCall, ServeStep(c)
  PROVE  LateOver'
  <1>1. TableTypeOK
    BY DEF PayInv, LifecycleInv, TypeInv, TypeOK
  <1>2. CASE FindTransfer(c) \/ CreatePayment(c)
    <2>1. PICK op \in {"find", "create"} : payCall[c].op = op /\ payCall[c] \in PayRequest
      BY <1>2, RequestHasRow DEF PayInv, FindTransfer, CreatePayment, GoodRequest, GoodIn
    <2> DEFINE To(next, p) == [payCall EXCEPT ![c] = [payCall[c] EXCEPT !.op = next, !.pay = p]]
    <2>2. PICK next \in {"request", "receipt"} : \E p \in Payment :
            payCall' = [payCall EXCEPT ![c] = NoPayCall] \/ payCall' = To(next, p)
      <3>1. CASE FindTransfer(c)
        <4>1. PICK p \in Payment : payCall' = [payCall EXCEPT ![c] = NoPayCall] \/ payCall' = To("receipt", p)
          <5>1. PICK p \in OpenTransfers(PayAppt(c)) : payCall' = [payCall EXCEPT ![c] =
                  IF payCall[c].kind = "upload" THEN [payCall[c] EXCEPT !.op = "receipt", !.pay = p]
                                                ELSE NoPayCall]
            BY <3>1 DEF FindTransfer
          <5>2. p \in Payment
            BY DEF OpenTransfers
          <5>3. QED
            BY <5>1, <5>2
        <4> HIDE DEF To
        <4>2. QED
          BY <4>1
      <3>2. CASE CreatePayment(c)
        <4>1. PICK p \in Payment : \/ payCall' = [payCall EXCEPT ![c] = NoPayCall]
                                  \/ payCall' = To("request", p)
                                  \/ payCall' = To("receipt", p)
          BY <3>2 DEF CreatePayment
        <4> HIDE DEF To
        <4>2. QED
          BY <4>1
      <3>3. QED
        BY <1>2, <3>1, <3>2
    <2>21. PICK p \in Payment : payCall' = [payCall EXCEPT ![c] = NoPayCall] \/ payCall' = To(next, p)
      BY <2>2
    <2> DEFINE r == [payCall[c] EXCEPT !.op = next, !.pay = p]
    <2>3. IsLate(r) => IsLate(payCall[c]) /\ r.appt = PayAppt(c)
      BY <2>1 DEF IsLate, LateOps, PayRequest, PayAppt
    <2>4. PayAppt(c) \in Appt
      BY <2>1, RequestHasRow DEF PayInv
    <2>5. IsLate(r) => r.appt \in Appt /\ Over(r.appt)
      BY <2>3, <2>4 DEF LateOver
    <2> HIDE DEF r
    <2>6. CASE payCall' = [payCall EXCEPT ![c] = r]
      BY <2>5, <2>6, OneMoves
    <2>7. QED
      BY <2>21, <2>6, EndsLate DEF r
  <1>3. CASE \/ RequestGateway(c) \/ MarkFailed(c) \/ PayConfirmWrite(c) \/ LateConfirm(c)
             \/ LateRefused(c) \/ MarkRefunded(c) \/ StoreReceipt(c) \/ AlreadyReviewed(c)
             \/ RejectReceipt(c) \/ ExpireReceipt(c) \/ ApproveReceipt(c)
    BY <1>3, EndsLate DEF RequestGateway, MarkFailed, PayConfirmWrite, LateConfirm, ConfirmRow,
         LateRefused, MarkRefunded, StoreReceipt, AlreadyReviewed, RejectReceipt, ExpireReceipt,
         CloseReceipt, ApproveReceipt, Returns
  <1>4. CASE NoTransferFound(c)
    BY <1>4, GoOnLate DEF NoTransferFound, LateOps
  <1>5. CASE Verify(c)
    <2>1. PICK next \in {"markPaid", "markFailed"} : GoOn(c, "verify", next)
      BY <1>5 DEF Verify
    <2>2. QED
      BY <2>1, GoOnLate DEF LateOps
  <1>6. CASE MarkPaid(c)
    <2>1. CASE payCall[c].kind = "late"
      <3>1. GoOn(c, "markPaid", "late") /\ IsLate(payCall[c])
        BY <1>6, <2>1 DEF MarkPaid, GoOn, IsLate
      <3>2. QED
        BY <3>1, GoOnLate
    <2>2. CASE payCall[c].kind # "late"
      <3>1. GoOn(c, "markPaid", "confirmRead")
        BY <1>6, <2>2 DEF MarkPaid
      <3>2. QED
        BY <3>1, GoOnLate DEF LateOps
    <2>3. QED
      BY <2>1, <2>2
  <1>7. CASE PayConfirmRead(c)
    <2>1. CASE row[PayAppt(c)].status = "held"
      <3>1. GoOn(c, "confirmRead", "confirmWrite")
        BY <1>7, <2>1 DEF PayConfirmRead
      <3>2. QED
        BY <3>1, GoOnLate DEF LateOps
    <2>2. CASE row[PayAppt(c)].status # "held"
      <3>1. GoOn(c, "confirmRead", "late")
        BY <1>7, <2>2 DEF PayConfirmRead
      <3>2. QED
        BY <2>2, <3>1, GoOnLate
    <2>3. QED
      BY <2>1, <2>2
  <1>8. CASE PayConfirmRefused(c)
    <2>1. GoOn(c, "confirmWrite", "late") /\ PayAppt(c) \in Appt
      BY <1>8, RequestHasRow DEF PayConfirmRefused, GoOn, PayInv
    <2>2. row[PayAppt(c)].status # "held"
      BY <1>1, <1>8, <2>1, HoldIsAdmissible DEF PayConfirmRefused
    <2>3. QED
      BY <2>1, <2>2, GoOnLate
  <1>9. CASE LateCheck(c) \/ LateRefund(c)
    <2>1. PICK op \in {"late", "refund"} : \E next : GoOn(c, op, next)
      BY <1>9 DEF LateCheck, LateRefund
    <2>2. IsLate(payCall[c])
      BY <2>1 DEF GoOn, IsLate, LateOps
    <2>3. QED
      BY <2>1, <2>2, GoOnLate
  <1>10. CASE ApproveTooLate(c)
    BY <1>10, GoOnLate DEF ApproveTooLate, LateOps
  <1>11. QED
    BY <1>2, <1>3, <1>4, <1>5, <1>6, <1>7, <1>8, <1>9, <1>10 DEF ServeStep

\* A late deposit stays one whose hold is over.
LEMMA LateStep ==
  ASSUME PayInv, NoDoubleBooking, LateOver, [PayNext]_allVars
  PROVE  LateOver'
  <1>1. ASSUME NEW c \in PayCall, PayFaultStep(c)
        PROVE  LateOver'
    <2>1. CASE VerifyUnavailable(c)
      BY <2>1, GoOnLate DEF VerifyUnavailable, LateOps
    <2>2. CASE LateRefundFails(c) \/ PayCallDies(c)
      BY <2>2, EndsLate DEF LateRefundFails, PayCallDies, Returns
    <2>3. QED
      BY <1>1, <2>1, <2>2 DEF PayFaultStep
  <1>2. ASSUME NEW c \in Call, CancelStep(c)
        PROVE  payCall' = payCall
    BY <1>2 DEF CancelStep, CancelDepositRead, CancelDepositWrite, NothingToSettle,
                NothingLeftToSettle, ChooseSettlement, RefundDeposit, RefundDepositFails,
                DepositRefunded, DepositRetained, MarkSettled, RecordCancellation, CancellationDies
  <1>3. ASSUME NEW w \in Worker, ReleaseStep(w)
        PROVE  payCall' = payCall
    BY <1>3 DEF ReleaseStep, ReleaseHolds, TidyReceipts, TidyPayments, MaintenanceDies
  <1>4. CASE LifecycleStep \/ UNCHANGED allVars \/ \E q \in Payment : CustomerDecides(q) \/ CallbackRepeated(q)
    <2>1. payCall' = payCall
      BY <1>4 DEF LifecycleStep, payVars, allVars, CustomerDecides, CallbackRepeated
    <2>2. QED
      BY <2>1, NoneMoves
  <1>5. QED
    BY <1>1, <1>2, <1>3, <1>4, OpensLate, ServesLate, NoneMoves DEF PayNext

\* A cancellation that settles the deposit of its appointment, whose hold is over.
Settles(d) ==
  /\ call[d].op = "announce" /\ call[d].appt \in Appt /\ Over(call[d].appt)
  /\ settle[d].pc = "refund" => payment[settle[d].pay].appt = call[d].appt

\* It does so until it has been recorded.
LEMMA SettlesOn ==
  ASSUME PayInv, [PayNext]_allVars, NEW d \in Call, call'[d] = call[d],
         call[d].op = "announce", call[d].appt \in Appt, Over(call[d].appt),
         settle'[d].pc = "refund" =>
           /\ settle'[d].pay \in Payment /\ payment[settle'[d].pay] # NoPayment
           /\ payment[settle'[d].pay].appt = call[d].appt
  PROVE  Settles(d)'
  <1>1. PICK a \in Appt : a = call[d].appt /\ Over(a)
    OBVIOUS
  <1>2. Over(a)'
    BY <1>1, StaysOver
  <1>3. ASSUME settle'[d].pc = "refund"
        PROVE  payment'[settle'[d].pay].appt = a
    <2>1. PICK p \in Payment : p = settle'[d].pay /\ payment[p] # NoPayment /\ payment[p].appt = a
      BY <1>1, <1>3
    <2>2. payment'[p].appt = a
      BY <2>1, StaysWithAppt
    <2>3. QED
      BY <2>1, <2>2
  <1>4. QED
    BY <1>1, <1>2, <1>3 DEF Settles, Over, Exists

\* The steps of a cancellation touch no other settlement.
LEMMA SettlesApart ==
  ASSUME PayInv, NEW d \in Call, NEW c \in Call, CancelStep(c), c # d
  PROVE  settle'[d] = settle[d]
  <1>1. settle \in [Call -> Settlement \cup {NoSettlement}]
    BY DEF PayInv, SettlementsOK
  <1>2. QED
    BY <1>1 DEF CancelStep, CancelDepositRead, CancelDepositWrite, NothingToSettle,
         NothingLeftToSettle, ChooseSettlement, RefundDeposit, RefundDepositFails,
         DepositRefunded, DepositRetained, MarkSettled, RecordCancellation, CancellationDies,
         SettleStep, SettleThrows

\* A settlement is touched by the steps of its own cancellation only.
LEMMA SettlesOwn ==
  ASSUME PayInv, NEW d \in Call, [PayNext]_allVars, ~CancelStep(d)
  PROVE  settle'[d] = settle[d]
  <1>2. ASSUME NEW c \in Call, CancelStep(c)
        PROVE  settle'[d] = settle[d]
    BY <1>2, SettlesApart
  <1>3. ASSUME NEW c \in PayCall, OpenStep(c) \/ ServeStep(c) \/ PayFaultStep(c)
        PROVE  settle' = settle
    BY <1>3 DEF OpenStep, InitiateDeposit, UploadReceipt, ReviewReceipt, CallbackRead,
         ServeStep, FindTransfer, NoTransferFound, CreatePayment, RequestGateway, Verify,
         MarkFailed, MarkPaid, PayConfirmRead, PayConfirmWrite, PayConfirmRefused, ConfirmRow,
         LateCheck, LateConfirm, LateRefused, LateRefund, MarkRefunded, StoreReceipt,
         AlreadyReviewed, RejectReceipt, ExpireReceipt, CloseReceipt, ApproveReceipt,
         ApproveTooLate, PayFaultStep, VerifyUnavailable, LateRefundFails, PayCallDies, Policies
  <1>4. ASSUME NEW w \in Worker, ReleaseStep(w)
        PROVE  settle' = settle
    BY <1>4 DEF ReleaseStep, ReleaseHolds, TidyReceipts, TidyPayments, MaintenanceDies
  <1>5. CASE LifecycleStep \/ UNCHANGED allVars \/ \E q \in Payment : CustomerDecides(q) \/ CallbackRepeated(q)
    BY <1>5 DEF LifecycleStep, allVars, payVars, CustomerDecides, CallbackRepeated, Policies
  <1>6. QED
    BY <1>2, <1>3, <1>4, <1>5 DEF PayNext

\* While it settles, no other step touches its request.
LEMMA SettlesAlone ==
  ASSUME PayInv, SettlingOver, NEW d \in Call, settle[d].pc \in Settling,
         [PayNext]_allVars, ~CancelStep(d)
  PROVE  call'[d] = call[d]
  <1>1. call \in [Call -> [op : Ops, appt : Appt] \cup {NoCall}] /\ call[d].op = "announce"
    BY DEF PayInv, LifecycleInv, TypeInv, TypeOK, SettlingOver
  <1>2. settle[d] # NoSettlement
    BY DEF NoSettlement, Settling
  <1>3. ASSUME NEW c \in Call, CancelStep(c), c # d
        PROVE  call'[d] = call[d]
    BY <1>1, <1>3 DEF CancelStep, CancelDepositRead, CancelRead, Passed,
         CancelDepositWrite, CancelWrite, Update, Continue, NothingToSettle,
         NothingLeftToSettle, ChooseSettlement, RefundDeposit, RefundDepositFails,
         DepositRefunded, DepositRetained, MarkSettled, RecordCancellation, CancellationDies,
         CallDies, SettleThrows, Return, vars
  <1>4. ASSUME NEW c \in Call, OtherCallStep(c)
        PROVE  call'[d] = call[d]
    <2>1. CASE c # d
      BY <1>1, <1>4, <2>1 DEF OtherCallStep, ApproveRead, RejectRead, NoShowRead, CompleteRead,
           Passed, ApproveWrite, RejectWrite, NoShowWrite, CountNoShow, CompleteWrite, Update,
           Continue, UpdateRefused, CancelAnnounce, CallDies, Return
    <2>2. CASE c = d
      BY <1>1, <1>2, <1>4, <2>2 DEF OtherCallStep, ApproveRead, RejectRead, NoShowRead,
           CompleteRead, Passed, NoCall, ApproveWrite, RejectWrite, NoShowWrite, CountNoShow,
           CompleteWrite, Update, UpdateRefused
    <2>3. QED
      BY <2>1, <2>2
  <1>5. CASE LifecycleStep
    BY <1>4, <1>5 DEF LifecycleStep, Tick, BookStep, BookProgress, SweepRead, SweepNotify,
         BookNoAvailability, BookRead, BookInsert, BookSaveServices, BookConflict, BookExhausted, BookingDies
  <1>6. ASSUME NEW c \in PayCall, OpenStep(c) \/ ServeStep(c) \/ PayFaultStep(c)
        PROVE  call' = call
    BY <1>6, OpenStepKind, ServeStepQuiet
       DEF PayConfirmWrite, LateConfirm, ConfirmRow, ApproveReceipt,
           PayFaultStep, VerifyUnavailable, LateRefundFails, PayCallDies, vars
  <1>7. ASSUME NEW w \in Worker, ReleaseStep(w)
        PROVE  call' = call
    BY <1>7 DEF ReleaseStep, ReleaseHolds, SweepRelease, TidyReceipts, TidyPayments,
         MaintenanceDies, WorkerDies, vars
  <1>8. CASE UNCHANGED allVars \/ \E q \in Payment : CustomerDecides(q) \/ CallbackRepeated(q)
    BY <1>8 DEF allVars, vars, CustomerDecides, CallbackRepeated
  <1>9. QED
    BY <1>3, <1>5, <1>6, <1>7, <1>8 DEF PayNext

\* A step of the settlement itself.
LEMMA SettlesNext ==
  ASSUME PayInv, SettlingOver, NEW d \in Call, [PayNext]_allVars, CancelStep(d),
         settle'[d].pc \in Settling
  PROVE  Settles(d)'
  <1>1. call \in [Call -> [op : Ops, appt : Appt] \cup {NoCall}] /\ Null \notin Payment
    BY PaymentAssumption DEF PayInv, LifecycleInv, TypeInv, TypeOK
  <1>2. settle \in [Call -> Settlement \cup {NoSettlement}] /\ PaymentsOK
    BY DEF PayInv, SettlementsOK
  <1>3. CASE CancelDepositWrite(d)
    <2>1. call[d].op = "cancel" /\ StoreRow(call[d].appt, WithStatus(Target(d), "cancelled"))
      BY <1>3 DEF CancelDepositWrite, CancelWrite, Update
    <2>2. PICK a \in Appt : a = call[d].appt /\ Exists(a)
      BY <1>1, <2>1 DEF PayInv, LifecycleInv, TypeInv, CallsHaveRow, NoCall
    <2>3. row[a] \in Row /\ TableTypeOK
      BY <2>2 DEF PayInv, LifecycleInv, TypeInv, TypeOK, TableTypeOK, Exists, AbsentRow
    <2>4. row'[a].status = "cancelled"
      BY <2>1, <2>2, <2>3 DEF StoreRow, WithStatus, Target, Row, TableTypeOK
    <2>5. call'[d].op = "announce" /\ call'[d].appt = a
      BY <1>1, <1>3, <2>1, <2>2 DEF CancelDepositWrite, CancelWrite, Continue, NoCall
    <2>6. settle'[d].pc # "refund"
      BY <1>2, <1>3 DEF CancelDepositWrite, SettleStep, Settlement, NoSettlement
    <2>7. QED
      BY <2>2, <2>4, <2>5, <2>6 DEF Settles, Over, Exists
  <1>4. ASSUME settle[d].pc \in Settling, call' = call,
               settle'[d].pc = "refund" =>
                 /\ settle'[d].pay \in Payment /\ payment[settle'[d].pay].status = "paid"
                 /\ payment[settle'[d].pay].appt = call[d].appt
        PROVE  Settles(d)'
    <2>1. Settles(d)
      BY <1>4 DEF SettlingOver, Settles
    <2>2. QED
      BY <1>4, <2>1, SettlesOn DEF Settles, NoPayment
  <1>5. CASE ChooseSettlement(d)
    <2>1. PICK p \in PaidFor(call[d].appt) :
            settle' = [settle EXCEPT ![d] =
              [settle[d] EXCEPT !.pay = p, !.pc = SettlementOf(p, settle[d].keep)]]
      BY <1>5 DEF ChooseSettlement
    <2>2. settle[d].pc = "policy" /\ call' = call /\ settle[d] \in Settlement
      BY <1>2, <1>5 DEF ChooseSettlement, vars, NoSettlement
    <2>3. settle'[d].pay = p
      BY <1>2, <2>1, <2>2 DEF Settlement
    <2>4. p \in Payment /\ payment[p].status = "paid" /\ payment[p].appt = call[d].appt
      BY DEF PaidFor
    <2>5. QED
      BY <1>4, <2>2, <2>3, <2>4 DEF Settling
  <1>6. CASE NothingToSettle(d) \/ RefundDeposit(d) \/ DepositRefunded(d) \/ DepositRetained(d)
    <2>1. PICK pc \in Settling, next \in {"record", "markRefunded"} : SettleStep(d, pc, next)
      BY <1>6 DEF NothingToSettle, RefundDeposit, DepositRefunded, DepositRetained, MarkSettled, Settling
    <2>2. settle[d].pc \in Settling /\ settle'[d].pc = next
      BY <1>2, <2>1 DEF SettleStep, Settlement, Settling, NoSettlement
    <2>3. call' = call
      BY <1>6 DEF NothingToSettle, RefundDeposit, DepositRefunded, DepositRetained, MarkSettled, vars
    <2>4. QED
      BY <1>4, <2>2, <2>3
  <1>7. CASE \/ NothingLeftToSettle(d) \/ RefundDepositFails(d) \/ RecordCancellation(d)
             \/ CancellationDies(d)
    BY <1>2, <1>7 DEF NothingLeftToSettle, RefundDepositFails, RecordCancellation,
         CancellationDies, SettleThrows, NoSettlement, Settling
  <1>8. CASE \E a \in Appt : CancelDepositRead(d, a)
    BY <1>2, <1>8 DEF CancelDepositRead, Settling
  <1>9. QED
    BY <1>3, <1>5, <1>6, <1>7, <1>8 DEF CancelStep

LEMMA SettlingStep ==
  ASSUME PayInv, SettlingOver, [PayNext]_allVars
  PROVE  SettlingOver'
  <1> SUFFICES ASSUME NEW d \in Call, settle'[d].pc \in Settling
               PROVE  Settles(d)'
    BY DEF SettlingOver, Settles
  <1>1. CASE CancelStep(d)
    BY <1>1, SettlesNext
  <1>2. CASE ~CancelStep(d)
    <2>1. settle'[d] = settle[d]
      BY <1>2, SettlesOwn
    <2>2. call'[d] = call[d] /\ Settles(d)
      BY <1>2, <2>1, SettlesAlone DEF SettlingOver, Settles
    <2>3. settle[d].pc = "refund" => settle[d].pay \in Payment /\ payment[settle[d].pay] # NoPayment
      BY DEF PayInv, SettlementsOK
    <2>4. QED
      BY <2>1, <2>2, <2>3, SettlesOn DEF Settles
  <1>3. QED
    BY <1>1, <1>2

LEMMA OverInit == PayInit => OverInv
  <1> SUFFICES ASSUME PayInit
               PROVE  OverInv
    OBVIOUS
  <1>1. RefundsOver
    BY DEF PayInit, RefundsOver
  <1>2. LateOver
    BY DEF PayInit, LateOver, IsLate, NoPayCall, LateOps
  <1>3. SettlingOver
    BY DEF PayInit, SettlingOver, Settling, NoSettlement
  <1>4. QED
    BY <1>1, <1>2, <1>3 DEF OverInv

\* Money is paid back, and deposits are late, only when the hold is over.
THEOREM OverInvCorrect == PaySpec => []OverInv
  <1>1. ASSUME PayInv, MoneyInv, NoDoubleBooking, OverInv, [PayNext]_allVars
        PROVE  OverInv'
    BY <1>1, RefundsStayOver, LateStep, SettlingStep DEF OverInv
  <1>2. QED
    BY <1>1, OverInit, PayInvCorrect, MoneyInvCorrect, DepositsKeepCalendar, PTL DEF PaySpec

-----------------------------------------------------------------------------
(***************************************************************************)
(* Deposits and confirmations.  An appointment whose offer takes a deposit *)
(* is never pending, so no staff member can approve it by the ordinary     *)
(* way; what confirms it is a request that holds the gateway's word, or    *)
(* the review of its transfer.                                             *)
(***************************************************************************)
PendingTakesNone ==
  \A a \in Appt : row[a].status = "pending" => ~RequiresHold(booking[a].offer)

ApprovalsTakeNone ==
  \A c \in Call :
    /\ call[c].op # "confirmHeld"
    /\ call[c].op = "approve" => ~RequiresHold(booking[call[c].appt].offer)

DepositInv == PendingTakesNone /\ ApprovalsTakeNone

\* Rows become pending only when their offer asks for no deposit, ...
LEMMA NextPends ==
  ASSUME LifecycleInv, [Next]_vars, NEW a \in Appt, row'[a].status = "pending"
  PROVE  row[a].status = "pending" \/ ~RequiresHold(booking'[a].offer)
  <1>1. TypeInv
    BY DEF LifecycleInv
  <1>2. row \in [Appt -> Row \cup {AbsentRow}]
    BY <1>1 DEF TypeInv, TypeOK, TableTypeOK
  <1>3. ASSUME NEW x \in Appt, Insertion(x)
        PROVE  row[a].status = "pending" \/ ~RequiresHold(booking'[a].offer)
    <2>1. PICK p \in Pair : StoreRow(x, NewRow(booking[x].offer, p))
      BY <1>3 DEF Insertion
    <2>2. CASE x # a
      BY <1>2, <2>1, <2>2 DEF StoreRow
    <2>3. CASE x = a
      <3>1. InitialStatus(booking[a].offer, p.staff) = "pending"
        BY <1>2, <2>1, <2>3 DEF StoreRow, NewRow
      <3>2. ~RequiresHold(booking[a].offer)
        BY <3>1 DEF InitialStatus
      <3>3. QED
        BY <1>3, <2>3, <3>2 DEF Insertion
    <2>4. QED
      BY <2>2, <2>3
  <1>4. ASSUME NEW c \in Call, Change(c)
        PROVE  row[a].status = "pending"
    BY <1>2, <1>4 DEF Change, StoreRow
  <1>5. CASE Quiet \/ Expiry \/ \E x \in Appt : Deliberation(x)
    BY <1>5 DEF Quiet, Expiry, Deliberation
  <1>6. QED
    BY <1>1, <1>3, <1>4, <1>5, StepKinds

\* ... and confirmed only when it asks for none, or by a request that approves
\* the row or confirms its hold.
LEMMA NextConfirms ==
  ASSUME LifecycleInv, [Next]_vars, NEW a \in Appt,
         row[a].status # "confirmed", row'[a].status = "confirmed"
  PROVE  \/ ~RequiresHold(booking[a].offer)
         \/ \E c \in Call : call[c].appt = a /\ call[c].op \in {"approve", "confirmHeld"}
  <1>1. TypeInv
    BY DEF LifecycleInv
  <1>2. row \in [Appt -> Row \cup {AbsentRow}]
    BY <1>1 DEF TypeInv, TypeOK, TableTypeOK
  <1>3. ASSUME NEW x \in Appt, Insertion(x)
        PROVE  ~RequiresHold(booking[a].offer)
    <2>1. PICK p \in Pair : StoreRow(x, NewRow(booking[x].offer, p))
      BY <1>3 DEF Insertion
    <2>2. x = a
      BY <1>2, <2>1 DEF StoreRow
    <2>3. InitialStatus(booking[a].offer, p.staff) = "confirmed"
      BY <1>2, <2>1, <2>2 DEF StoreRow, NewRow
    <2>4. QED
      BY <2>3 DEF InitialStatus, RequiresHold
  <1>4. ASSUME NEW c \in Call, Change(c)
        PROVE  call[c].appt = a /\ call[c].op \in {"approve", "confirmHeld"}
    BY <1>2, <1>4 DEF Change, StoreRow
  <1>5. CASE Quiet \/ Expiry \/ \E x \in Appt : Deliberation(x)
    BY <1>5 DEF Quiet, Expiry, Deliberation
  <1>6. QED
    BY <1>1, <1>3, <1>4, <1>5, StepKinds

LEMMA PendingStep ==
  ASSUME PayInv, PendingTakesNone, [PayNext]_allVars
  PROVE  PendingTakesNone'
  <1> SUFFICES ASSUME NEW a \in Appt, row'[a].status = "pending"
               PROVE  ~RequiresHold(booking'[a].offer)
    BY DEF PendingTakesNone, RequiresHold
  <1>1. LifecycleInv /\ TableTypeOK /\ RowsGrow
    BY LifecycleInvStep DEF PayInv, LifecycleInv, TypeInv, TypeOK
  <1>2. CASE row[a].status = "pending"
    <2>1. booking'[a].offer = booking[a].offer
      BY <1>1, <1>2 DEF RowsGrow, Exists
    <2>2. QED
      BY <1>2, <2>1 DEF PendingTakesNone
  <1>3. CASE row[a].status # "pending"
    <2>1. CASE [Next]_vars
      BY <1>1, <1>3, <2>1, NextPends
    <2>2. ASSUME NEW x \in Appt, Confirmation(x)
          PROVE  FALSE
      BY <1>1, <1>3, <2>2, ConfirmedRow
    <2>3. CASE Abort
      BY <1>3, <2>3 DEF Abort
    <2>4. QED
      BY <2>1, <2>2, <2>3, PayStepKinds
  <1>4. QED
    BY <1>2, <1>3

\* A request that approves has found its appointment pending.
LEMMA ApprovalsBegin ==
  ASSUME PayInv, ApprovalsTakeNone, [PayNext]_allVars, NEW c \in Call
  PROVE  \/ call'[c] = call[c]
         \/ call'[c].op \notin {"approve", "confirmHeld"}
         \/ /\ call'[c].op = "approve" /\ call'[c].appt \in Appt
            /\ row[call'[c].appt].status = "pending"
  <1>1. call \in [Call -> [op : Ops, appt : Appt] \cup {NoCall}]
    BY DEF PayInv, LifecycleInv, TypeInv, TypeOK
  <1>2. ASSUME NEW d \in Call, Return(d)
        PROVE  call'[c] = call[c] \/ call'[c].op \notin {"approve", "confirmHeld"}
    BY <1>1, <1>2 DEF Return, NoCall
  <1>3. ASSUME NEW d \in Call, NEW op \in Ops, Continue(d, op), call[d].op # "none"
        PROVE  call'[c] = call[c] \/ call'[c].op = op
    <2>1. call[d] \in [op : Ops, appt : Appt]
      BY <1>1, <1>3 DEF NoCall
    <2>2. [call[d] EXCEPT !.op = op].op = op
      BY <2>1
    <2>3. QED
      BY <1>1, <1>3, <2>2 DEF Continue
  <1>4. ASSUME NEW d \in Call, NEW a \in Appt, NEW op \in Ops, NEW expected,
               Passed(d, op, a, expected)
        PROVE  \/ call'[c] = call[c]
               \/ call'[c].op = op /\ call'[c].appt = a /\ row[a].status \in expected
    BY <1>1, <1>4 DEF Passed
  <1>5. ASSUME NEW d \in Call, OtherCallStep(d)
        PROVE  \/ call'[c] = call[c]
               \/ call'[c].op \notin {"approve", "confirmHeld"}
               \/ /\ call'[c].op = "approve" /\ call'[c].appt \in Appt
                  /\ row[call'[c].appt].status = "pending"
    <2>1. ASSUME NEW a \in Appt,
                 ApproveRead(d, a) \/ RejectRead(d, a) \/ NoShowRead(d, a) \/ CompleteRead(d, a)
          PROVE  \/ call'[c] = call[c]
                 \/ call'[c].op \notin {"approve", "confirmHeld"}
                 \/ /\ call'[c].op = "approve" /\ call'[c].appt \in Appt
                    /\ row[call'[c].appt].status = "pending"
      <3>1. CASE ApproveRead(d, a)
        BY <1>4, <3>1 DEF ApproveRead, Ops
      <3>2. CASE RejectRead(d, a) \/ NoShowRead(d, a) \/ CompleteRead(d, a)
        <4>1. PICK op \in {"reject", "noShow", "complete"} :
                \E expected : Passed(d, op, a, expected)
          BY <3>2 DEF RejectRead, NoShowRead, CompleteRead
        <4>2. op \in Ops
          BY DEF Ops
        <4>3. QED
          BY <1>4, <4>1, <4>2
      <3>3. QED
        BY <2>1, <3>1, <3>2
    <2>2. CASE NoShowWrite(d)
      BY <1>3, <2>2 DEF NoShowWrite, Update, Ops
    <2>3. CASE \/ ApproveWrite(d) \/ RejectWrite(d) \/ CountNoShow(d) \/ CompleteWrite(d)
               \/ UpdateRefused(d) \/ CancelAnnounce(d) \/ CallDies(d)
      BY <1>2, <2>3 DEF ApproveWrite, RejectWrite, CountNoShow, CompleteWrite,
                        UpdateRefused, CancelAnnounce, CallDies
    <2>4. QED
      BY <1>5, <2>1, <2>2, <2>3 DEF OtherCallStep
  <1>6. ASSUME NEW d \in Call, CancelStep(d)
        PROVE  call'[c] = call[c] \/ call'[c].op \notin {"approve", "confirmHeld"}
    <2>1. ASSUME NEW a \in Appt, CancelDepositRead(d, a)
          PROVE  call'[c] = call[c] \/ call'[c].op \notin {"approve", "confirmHeld"}
      BY <1>4, <2>1 DEF CancelDepositRead, CancelRead, Ops
    <2>2. CASE CancelDepositWrite(d)
      BY <1>3, <2>2 DEF CancelDepositWrite, CancelWrite, Update, Ops
    <2>3. CASE NothingLeftToSettle(d) \/ RefundDepositFails(d) \/ CancellationDies(d)
      BY <1>2, <2>3 DEF NothingLeftToSettle, RefundDepositFails, CancellationDies,
                        SettleThrows, CallDies
    <2>4. CASE \/ NothingToSettle(d) \/ ChooseSettlement(d) \/ RefundDeposit(d)
               \/ DepositRefunded(d) \/ DepositRetained(d) \/ RecordCancellation(d)
      BY <2>4 DEF NothingToSettle, ChooseSettlement, RefundDeposit, DepositRefunded,
                  DepositRetained, MarkSettled, RecordCancellation, vars
    <2>5. QED
      BY <1>6, <2>1, <2>2, <2>3, <2>4 DEF CancelStep
  <1>7. CASE LifecycleStep
    <2>1. ASSUME NEW a \in Appt, BookStep(a)
          PROVE  call' = call
      BY <2>1 DEF BookStep, BookProgress, BookNoAvailability, BookRead, BookInsert, BookSaveServices,
                  BookConflict, BookExhausted, BookingDies
    <2>2. ASSUME NEW w \in Worker, SweepRead(w) \/ SweepNotify(w)
          PROVE  call' = call
      BY <2>2 DEF SweepRead, SweepNotify
    <2>3. QED
      BY <1>5, <1>7, <2>1, <2>2 DEF LifecycleStep, Tick
  <1>8. ASSUME NEW p \in Payment, CustomerDecides(p) \/ CallbackRepeated(p)
        PROVE  call' = call
    BY <1>8 DEF CustomerDecides, CallbackRepeated, vars
  <1>9. ASSUME NEW d \in PayCall, OpenStep(d) \/ ServeStep(d) \/ PayFaultStep(d)
        PROVE  call' = call
    <2>1. CASE OpenStep(d)
      BY <2>1, OpenStepKind DEF vars
    <2>2. CASE ServeStep(d)
      BY <2>2, ServeStepKind DEF Confirmation, vars
    <2>3. CASE PayFaultStep(d)
      BY <2>3 DEF PayFaultStep, VerifyUnavailable, LateRefundFails, PayCallDies
    <2>4. QED
      BY <1>9, <2>1, <2>2, <2>3
  <1>10. ASSUME NEW w \in Worker, ReleaseStep(w)
         PROVE  call' = call
    BY <1>10 DEF ReleaseStep, ReleaseHolds, SweepRelease, TidyReceipts, TidyPayments,
                 MaintenanceDies, WorkerDies, vars
  <1>11. CASE UNCHANGED allVars
    BY <1>11 DEF allVars, vars
  <1>12. QED
    BY <1>6, <1>7, <1>8, <1>9, <1>10, <1>11 DEF PayNext

LEMMA DepositStep ==
  ASSUME PayInv, DepositInv, [PayNext]_allVars
  PROVE  DepositInv'
  <1>1. PendingTakesNone /\ ApprovalsTakeNone /\ RowsGrow
    BY LifecycleInvStep DEF DepositInv
  <1>2. ApprovalsTakeNone'
    <2> SUFFICES ASSUME NEW c \in Call
                 PROVE  /\ call'[c].op # "confirmHeld"
                        /\ call'[c].op = "approve" =>
                             ~RequiresHold(booking'[call'[c].appt].offer)
      BY DEF ApprovalsTakeNone, RequiresHold
    <2>1. CASE call'[c] = call[c] /\ call[c].op = "approve"
      <3>1. call[c].appt \in Appt /\ Exists(call[c].appt)
        BY <2>1 DEF PayInv, LifecycleInv, TypeInv, TypeOK, CallsHaveRow, NoCall
      <3>2. booking'[call[c].appt].offer = booking[call[c].appt].offer
        BY <1>1, <3>1 DEF RowsGrow
      <3>3. QED
        BY <1>1, <2>1, <3>2 DEF ApprovalsTakeNone
    <2>2. CASE call'[c] = call[c] /\ call[c].op # "approve"
      BY <1>1, <2>2 DEF ApprovalsTakeNone
    <2>3. CASE /\ call'[c].op = "approve" /\ call'[c].appt \in Appt
               /\ row[call'[c].appt].status = "pending"
      <3>1. PICK a \in Appt : a = call'[c].appt /\ row[a].status = "pending"
        BY <2>3
      <3>2. booking'[a].offer = booking[a].offer
        BY <1>1, <3>1 DEF RowsGrow, Exists
      <3>3. QED
        BY <1>1, <2>3, <3>1, <3>2 DEF PendingTakesNone
    <2>4. CASE call'[c].op \notin {"approve", "confirmHeld"}
      BY <2>4
    <2>5. QED
      BY <1>1, <2>1, <2>2, <2>3, <2>4, ApprovalsBegin
  <1>3. QED
    BY <1>1, <1>2, PendingStep DEF DepositInv

\* The payment service confirms an appointment with money that the gateway has
\* taken for it, and a running hold with money that it has not paid back, or with
\* its approved transfer.
LEMMA ServiceConfirms ==
  ASSUME PayInv, MoneyInv, OverInv, NEW c \in PayCall, ServeStep(c), NEW a \in Appt,
         row[a].status # "confirmed", row'[a].status = "confirmed"
  PROVE  \/ \E p \in Payment :
              /\ payment[p].appt = a /\ gate[p] = "paid"
              /\ row[a].status = "held" => refunds[p] = 0
         \/ receipt'[a].status = "approved"
  <1>1. row \in [Appt -> Row \cup {AbsentRow}] /\ ReceiptsOK
    BY DEF PayInv, LifecycleInv, TypeInv, TypeOK, TableTypeOK
  <1>2. CASE PayConfirmWrite(c) \/ LateConfirm(c)
    <2>1. PICK op \in {"confirmWrite", "lateWrite"} : ConfirmRow(c, op)
      BY <1>2 DEF PayConfirmWrite, LateConfirm
    <2>2. payCall[c].op = op /\ StoreRow(PayAppt(c), Confirmed(row[PayAppt(c)]))
      BY <2>1 DEF ConfirmRow, Returns
    <2>3. PayAppt(c) = a
      BY <1>1, <2>2 DEF StoreRow
    <2>4. gate[Pay(c)] = "paid" /\ payment[Pay(c)].appt = PayAppt(c)
      BY <2>2 DEF MoneyInv, CallsBacked, BackedIn, Taken, Pay, PayAppt
    <2>5. Pay(c) \in Payment
      BY <2>2, RequestHasPayment DEF PayInv, Opening
    <2>6. row[a].status = "held" => refunds[Pay(c)] = 0
      BY <2>3, <2>4, <2>5 DEF OverInv, RefundsOver, Over, PayInv, CountersOK
    <2>7. QED
      BY <2>3, <2>4, <2>5, <2>6
  <1>3. CASE ApproveReceipt(c)
    <2>1. /\ StoreRow(PayAppt(c), Confirmed(row[PayAppt(c)]))
          /\ receipt[PayAppt(c)].status = "pending" /\ MarkReceipt(PayAppt(c), "approved")
      BY <1>3 DEF ApproveReceipt
    <2>2. PayAppt(c) = a
      BY <1>1, <2>1 DEF StoreRow
    <2>3. receipt[a] \in ReceiptRow
      BY <1>1, <2>1, <2>2 DEF ReceiptsOK, NoReceipt
    <2>4. [receipt[a] EXCEPT !.status = "approved"].status = "approved"
      BY <2>3 DEF ReceiptRow
    <2>5. QED
      BY <1>1, <2>1, <2>2, <2>4 DEF MarkReceipt, ReceiptsOK
  <1>4. CASE UNCHANGED vars
    BY <1>4 DEF vars
  <1>5. QED
    BY <1>2, <1>3, <1>4, ServeStepQuiet

\* An appointment that takes a deposit is confirmed only when the gateway has taken
\* the customer's money or the salon has just approved the transfer, and a running
\* hold is confirmed only while that money has not been paid back - whatever the
\* callbacks report and in whatever order they, the reviews and the cancellations
\* come.
THEOREM DepositBeforeConfirmationCorrect == PaySpec => DepositBeforeConfirmation
  <1>1. PayInit => DepositInv
    BY DEF PayInit, Init, DepositInv, PendingTakesNone, ApprovalsTakeNone, AbsentRow, NoCall
  <1>2. PayInv /\ DepositInv /\ [PayNext]_allVars => DepositInv'
    BY DepositStep
  <1>3. PayInv /\ MoneyInv /\ OverInv /\ DepositInv /\ [PayNext]_allVars =>
          \A a \in Appt :
            /\ row[a].status # "confirmed" /\ row'[a].status = "confirmed"
            /\ RequiresHold(booking[a].offer)
            => \/ \E p \in Payment :
                    /\ payment[p].appt = a /\ gate[p] = "paid"
                    /\ row[a].status = "held" => refunds[p] = 0
               \/ receipt'[a].status = "approved"
    <2> SUFFICES ASSUME PayInv, MoneyInv, OverInv, DepositInv, [PayNext]_allVars, NEW a \in Appt,
                        row[a].status # "confirmed", row'[a].status = "confirmed",
                        RequiresHold(booking[a].offer)
                 PROVE  \/ \E p \in Payment :
                             /\ payment[p].appt = a /\ gate[p] = "paid"
                             /\ row[a].status = "held" => refunds[p] = 0
                        \/ receipt'[a].status = "approved"
      OBVIOUS
    <2>1. CASE \E c \in PayCall : ServeStep(c)
      BY <2>1, ServiceConfirms
    <2>2. CASE [Next]_vars
      BY <2>2, NextConfirms DEF PayInv, DepositInv, ApprovalsTakeNone
    <2>3. CASE Abort
      BY <2>3 DEF Abort
    <2>4. QED
      BY <2>1, <2>2, <2>3, OtherStepKinds
  <1>4. QED
    BY <1>1, <1>2, <1>3, PayInvCorrect, MoneyInvCorrect, OverInvCorrect, PTL
       DEF PaySpec, DepositBeforeConfirmation
=============================================================================
