--------------------------- MODULE DepositPayments ---------------------------
(***************************************************************************)
(* The deposits of held appointments: payments opened with the gateway or  *)
(* by card transfer, the gateway's callback, deposits that arrive late,    *)
(* the review of transfer receipts, and what a cancellation does with a    *)
(* deposit that was paid.                                                  *)
(*                                                                         *)
(* The module adds its state to BookingLifecycle and its steps to the      *)
(* lifecycle's.  A request of this service is a sequence of steps, one     *)
(* per awaited statement that another request can see or can disturb; the  *)
(* payment of a request is found once and then updated by its id, whatever *)
(* has happened to it since.                                               *)
(***************************************************************************)
EXTENDS BookingLifecycle

CONSTANTS
  Payment,             \* identifiers of payment rows: bounds how many are opened
  PayCall,             \* concurrent requests to the payment service
  CancellationWindow   \* how long before its start a cancellation keeps the deposit

ASSUME PaymentAssumption ==
  /\ CancellationWindow \in Nat
  /\ Null \notin Payment

VARIABLES
  payment,       \* the payment table
  receipt,       \* the transfer receipt of each appointment
  gate,          \* what the gateway knows of each payment
  refunds,       \* refunds the gateway has paid out
  told,          \* payments whose customer was sent to the success page
  payCall,       \* the requests to the payment service
  settle,        \* the deposit policy of the cancellations under way
  refundStatus,  \* what the cancellation record says of the deposit
  tidy           \* what a maintenance pass has left to do after the release

payVars == <<payment, receipt, gate, refunds, told, payCall, settle, refundStatus, tidy>>
allVars == <<vars, payVars>>

PaymentStatus == {"pending", "paid", "refunded", "retained", "failed"}

PaymentRow == [status : PaymentStatus, appt : Appt, method : {"gateway", "card_transfer"}]
NoPayment  == [status |-> "absent", appt |-> Null, method |-> "gateway"]

ReceiptStatus == {"pending", "approved", "rejected", "expired"}
ReceiptRow == [status : ReceiptStatus, pay : Payment]
NoReceipt  == [status |-> "absent", pay |-> Null]

(***************************************************************************)
(* A request: what it does next, for which endpoint ("late" is a callback  *)
(* that found the appointment expired), on which appointment and payment,  *)
(* and the time it looked at the clock.                                    *)
(***************************************************************************)
PayOps == {"find", "create", "request", "receipt",
           "verify", "markFailed", "markPaid", "confirmRead", "confirmWrite",
           "late", "lateWrite", "refund", "markRefunded",
           "approve", "reject", "expire"}

PayRequest ==
  [ op : PayOps, kind : {"initiate", "upload", "callback", "late", "review"},
    appt : Appt, pay : Payment \cup {Null}, at : Nat ]
NoPayCall ==
  [op |-> "none", kind |-> "initiate", appt |-> Null, pay |-> Null, at |-> 0]

\* The deposit policy of a cancellation: whether a paid payment was seen before
\* the write, whether the deposit is kept, and the payment chosen.
Settlement ==
  [ pc : {"write", "policy", "refund", "markRefunded", "retain", "record"},
    seen : BOOLEAN, keep : BOOLEAN, pay : Payment \cup {Null} ]
NoSettlement == [pc |-> "none", seen |-> FALSE, keep |-> FALSE, pay |-> Null]

\* Type correctness of the payment state.
PayTypeOK ==
  /\ payment \in [Payment -> PaymentRow \cup {NoPayment}]
  /\ receipt \in [Appt -> ReceiptRow \cup {NoReceipt}]
  /\ gate \in [Payment -> {"closed", "open", "paid", "declined"}]
  /\ refunds \in [Payment -> Nat]
  /\ told \subseteq Payment
  /\ payCall \in [PayCall -> PayRequest \cup {NoPayCall}]
  /\ settle \in [Call -> Settlement \cup {NoSettlement}]
  /\ refundStatus \in [Appt -> {"processed", "not_required", Null}]
  /\ tidy \in [Worker -> {"none", "receipts", "payments"}]

PayInit ==
  /\ Init
  /\ payment = [p \in Payment |-> NoPayment]
  /\ receipt = [a \in Appt |-> NoReceipt]
  /\ gate = [p \in Payment |-> "closed"]
  /\ refunds = [p \in Payment |-> 0]
  /\ told = {}
  /\ payCall = [c \in PayCall |-> NoPayCall]
  /\ settle = [c \in Call |-> NoSettlement]
  /\ refundStatus = [a \in Appt |-> Null]
  /\ tidy = [w \in Worker |-> "none"]

-----------------------------------------------------------------------------
\* What most steps leave alone.
Ledger   == <<payment, receipt, gate, refunds, told>>
Policies == <<settle, refundStatus, tidy>>

\* How the deposit of a stored appointment is taken (Salon.depositMethod).
Method(a) == booking[a].offer.deposit

PaidFor(a) == {p \in Payment : payment[p].appt = a /\ payment[p].status = "paid"}

OpenTransfers(a) ==
  {p \in Payment : payment[p] = [status |-> "pending", appt |-> a, method |-> "card_transfer"]}

\* The appointment and the payment that request c works on.
PayAppt(c) == payCall[c].appt
Pay(c)     == payCall[c].pay

\* Request c, about to do op, goes on with next, starts, or returns.
GoOn(c, op, next) ==
  /\ payCall[c].op = op
  /\ payCall' = [payCall EXCEPT ![c] = [payCall[c] EXCEPT !.op = next]]
Starts(c, op, kind, a, p) ==
  /\ payCall[c] = NoPayCall
  /\ payCall' = [payCall EXCEPT ![c] =
       [op |-> op, kind |-> kind, appt |-> a, pay |-> p, at |-> now]]
Returns(c, op) ==
  /\ payCall[c].op = op
  /\ payCall' = [payCall EXCEPT ![c] = NoPayCall]

MarkPayment(p, status) ==
  payment' = [payment EXCEPT ![p] = [payment[p] EXCEPT !.status = status]]
MarkReceipt(a, status) ==
  receipt' = [receipt EXCEPT ![a] = [receipt[a] EXCEPT !.status = status]]

-----------------------------------------------------------------------------
(***************************************************************************)
(* Opening a payment.                                                      *)
(***************************************************************************)
InitiateDeposit(c, a) ==
  /\ row[a].status = "held"
  /\ \E p \in Payment : payment[p] = NoPayment   \* bound on the payments opened
  /\ Starts(c, IF Method(a) = "card_transfer" THEN "find" ELSE "create", "initiate", a, Null)
  /\ UNCHANGED <<vars, Ledger, Policies>>

\* A transfer already open for the appointment is used again.
FindTransfer(c) ==
  /\ payCall[c].op = "find"
  /\ \E p \in OpenTransfers(PayAppt(c)) :
       payCall' = [payCall EXCEPT ![c] =
         IF payCall[c].kind = "upload" THEN [payCall[c] EXCEPT !.op = "receipt", !.pay = p]
                                       ELSE NoPayCall]
  /\ UNCHANGED <<vars, Ledger, Policies>>

NoTransferFound(c) ==
  /\ GoOn(c, "find", "create")
  /\ OpenTransfers(PayAppt(c)) = {}
  /\ UNCHANGED <<vars, Ledger, Policies>>

CreatePayment(c) ==
  LET a == PayAppt(c)
  IN  /\ payCall[c].op = "create"
      /\ \E p \in Payment :
           /\ payment[p] = NoPayment
           /\ payment' = [payment EXCEPT ![p] =
                [status |-> "pending", appt |-> a, method |-> Method(a)]]
           /\ payCall' = [payCall EXCEPT ![c] =
                IF Method(a) = "gateway" THEN [payCall[c] EXCEPT !.op = "request", !.pay = p]
                ELSE IF payCall[c].kind = "upload"
                THEN [payCall[c] EXCEPT !.op = "receipt", !.pay = p]
                ELSE NoPayCall]
      /\ UNCHANGED <<vars, receipt, gate, refunds, told, Policies>>

\* The gateway opens a session, its authority is stored with the payment, and the
\* customer is sent to the gateway's page.
RequestGateway(c) ==
  /\ Returns(c, "request")
  /\ gate' = [gate EXCEPT ![Pay(c)] = "open"]
  /\ UNCHANGED <<vars, payment, receipt, refunds, told, Policies>>

\* On that page the customer pays or gives up.
CustomerDecides(p) ==
  /\ gate[p] = "open"
  /\ \E outcome \in {"paid", "declined"} : gate' = [gate EXCEPT ![p] = outcome]
  /\ UNCHANGED <<vars, payment, receipt, refunds, told, payCall, Policies>>

-----------------------------------------------------------------------------
(***************************************************************************)
(* The gateway's callback.  It may come early, late, repeatedly or never:  *)
(* it is an unauthenticated request that names the payment's authority.    *)
(***************************************************************************)
CallbackRead(c, p) ==
  /\ gate[p] # "closed"
  /\ payment[p].status = "pending"
  /\ Starts(c, "verify", IF row[payment[p].appt].status = "expired" THEN "late" ELSE "callback",
            payment[p].appt, p)
  /\ UNCHANGED <<vars, Ledger, Policies>>

\* Mutant: any payment that was processed counts as a success.
CallbackRepeated_Processed(p) ==
  /\ gate[p] # "closed"
  /\ payment[p].status # "pending"
  /\ told' = told \cup {p}
  /\ UNCHANGED <<vars, payment, receipt, gate, refunds, payCall, Policies>>

\* The payment was processed before: the customer hears what became of it.
CallbackRepeated(p) ==
  /\ gate[p] # "closed"
  /\ payment[p].status = "paid"
  /\ told' = told \cup {p}
  /\ UNCHANGED <<vars, payment, receipt, gate, refunds, payCall, Policies>>

\* The gateway is asked; an answer other than success reads as "not paid".
Verify(c) ==
  /\ GoOn(c, "verify", IF gate[Pay(c)] = "paid" THEN "markPaid" ELSE "markFailed")
  /\ UNCHANGED <<vars, Ledger, Policies>>

VerifyUnavailable(c) ==
  /\ GoOn(c, "verify", "markFailed")
  /\ Fault
  /\ UNCHANGED <<row, now, booking, call, sweep, noShowCount, announced, Ledger, Policies>>

MarkFailed(c) ==
  /\ Returns(c, "markFailed")
  /\ MarkPayment(Pay(c), "failed")
  /\ UNCHANGED <<vars, receipt, gate, refunds, told, Policies>>

MarkPaid(c) ==
  /\ GoOn(c, "markPaid", IF payCall[c].kind = "late" THEN "late" ELSE "confirmRead")
  /\ MarkPayment(Pay(c), "paid")
  /\ UNCHANGED <<vars, receipt, gate, refunds, told, Policies>>

\* confirmHeld reads the appointment; when it throws, the deposit counts as late.
PayConfirmRead(c) ==
  /\ GoOn(c, "confirmRead", IF row[PayAppt(c)].status = "held" THEN "confirmWrite" ELSE "late")
  /\ UNCHANGED <<vars, Ledger, Policies>>

\* A write of the appointment that the payment's request makes, then its answer.
ConfirmRow(c, op) ==
  /\ Returns(c, op)
  /\ StoreRow(PayAppt(c), Confirmed(row[PayAppt(c)]))
  /\ told' = told \cup {Pay(c)}
  /\ UNCHANGED <<now, booking, call, sweep, noShowCount, announced, faults,
                 payment, receipt, gate, refunds, Policies>>

PayConfirmWrite(c) == ConfirmRow(c, "confirmWrite")

PayConfirmRefused(c) ==
  /\ GoOn(c, "confirmWrite", "late")
  /\ ~Admissible(PayAppt(c), Confirmed(row[PayAppt(c)]))
  /\ UNCHANGED <<vars, Ledger, Policies>>

\* The states that a late deposit finds in its way.
LateBlocking == {"held", "confirmed"}

\* The slot of appointment a is taken by another one.
SlotTaken(a) ==
  \E b \in Appt \ {a} :
    row[b].status \in LateBlocking /\ Overlap(row[b], row[a]) /\ SharesResource(row[b], row[a])

LateCheck(c) ==
  /\ GoOn(c, "late", IF SlotTaken(PayAppt(c)) THEN "refund" ELSE "lateWrite")
  /\ UNCHANGED <<vars, Ledger, Policies>>

\* Whatever state the appointment is in.
LateConfirm(c) == ConfirmRow(c, "lateWrite")

\* The database refuses: handleLateDeposit throws.
LateRefused(c) ==
  /\ Returns(c, "lateWrite")
  /\ ~Admissible(PayAppt(c), Confirmed(row[PayAppt(c)]))
  /\ UNCHANGED <<vars, Ledger, Policies>>

\* The gateway pays the money back, ...
LateRefund(c) ==
  /\ GoOn(c, "refund", "markRefunded")
  /\ refunds' = [refunds EXCEPT ![Pay(c)] = @ + 1]
  /\ UNCHANGED <<vars, payment, receipt, gate, told, Policies>>

\* ... or does not, and the payment stays as it is.
LateRefundFails(c) ==
  /\ Returns(c, "refund")
  /\ Fault
  /\ UNCHANGED <<row, now, booking, call, sweep, noShowCount, announced, Ledger, Policies>>

MarkRefunded(c) ==
  /\ Returns(c, "markRefunded")
  /\ MarkPayment(Pay(c), "refunded")
  /\ UNCHANGED <<vars, receipt, gate, refunds, told, Policies>>

-----------------------------------------------------------------------------
(***************************************************************************)
(* Card transfers: the customer uploads a receipt, the salon reviews it.   *)
(***************************************************************************)
UploadReceipt(c, a) ==
  /\ row[a].status = "held"
  /\ Method(a) = "card_transfer"
  /\ \E p \in Payment : payment[p] = NoPayment \/ p \in OpenTransfers(a)   \* bound
  /\ Starts(c, "find", "upload", a, Null)
  /\ UNCHANGED <<vars, Ledger, Policies>>

\* A new receipt, or the old one replaced; the hold is not looked at again.
StoreReceipt(c) ==
  /\ Returns(c, "receipt")
  /\ receipt' = [receipt EXCEPT ![PayAppt(c)] = [status |-> "pending", pay |-> Pay(c)]]
  /\ UNCHANGED <<vars, payment, gate, refunds, told, Policies>>

ReviewReceipt(c, a) ==
  /\ receipt[a].status = "pending"
  /\ \E decision \in {"approve", "reject"} :
       Starts(c, decision, "review", a, receipt[a].pay)
  /\ UNCHANGED <<vars, Ledger, Policies>>

\* The receipt is no longer pending: somebody else has reviewed it.
AlreadyReviewed(c) ==
  /\ payCall[c].op \in {"approve", "reject", "expire"}
  /\ receipt[PayAppt(c)].status # "pending"
  /\ payCall' = [payCall EXCEPT ![c] = NoPayCall]
  /\ UNCHANGED <<vars, Ledger, Policies>>

\* A transaction: receipt and payment change together.
CloseReceipt(c, op, status) ==
  /\ Returns(c, op)
  /\ receipt[PayAppt(c)].status = "pending"
  /\ MarkReceipt(PayAppt(c), status)
  /\ MarkPayment(Pay(c), "failed")
  /\ UNCHANGED <<vars, gate, refunds, told, Policies>>

RejectReceipt(c) == CloseReceipt(c, "reject", "rejected")
ExpireReceipt(c) == CloseReceipt(c, "expire", "expired")

\* The hold is still running at the time the review began.
StillHeld(a, t) == row[a].status = "held" /\ row[a].holdExpiresAt > t

\* Mutant: the receipt is approved without claiming the hold.
ApproveReceipt_AnyHold(c) ==
  LET a == PayAppt(c)
  IN  /\ Returns(c, "approve")
      /\ receipt[a].status = "pending"
      /\ StoreRow(a, Confirmed(row[a]))
      /\ MarkReceipt(a, "approved")
      /\ MarkPayment(Pay(c), "paid")
      /\ UNCHANGED <<now, booking, call, sweep, noShowCount, announced, faults,
                     gate, refunds, told, Policies>>

\* A transaction: receipt, appointment and payment change together.
ApproveReceipt(c) ==
  LET a == PayAppt(c)
  IN  /\ Returns(c, "approve")
      /\ receipt[a].status = "pending"
      /\ StillHeld(a, payCall[c].at)
      /\ StoreRow(a, Confirmed(row[a]))
      /\ MarkReceipt(a, "approved")
      /\ MarkPayment(Pay(c), "paid")
      /\ UNCHANGED <<now, booking, call, sweep, noShowCount, announced, faults,
                     gate, refunds, told, Policies>>

\* The hold is gone: the transaction is rolled back and another one follows.
ApproveTooLate(c) ==
  /\ GoOn(c, "approve", "expire")
  /\ receipt[PayAppt(c)].status = "pending"
  /\ ~StillHeld(PayAppt(c), payCall[c].at)
  /\ UNCHANGED <<vars, Ledger, Policies>>

-----------------------------------------------------------------------------
(***************************************************************************)
(* The deposit policy of a cancellation, between the appointment's update  *)
(* and the announcement to the waitlist.                                   *)
(***************************************************************************)
SettleStep(c, pc, next) ==
  /\ settle[c].pc = pc
  /\ settle' = [settle EXCEPT ![c] = [settle[c] EXCEPT !.pc = next]]

\* The cancellation throws after its update: nothing is recorded or announced.
SettleThrows(c) ==
  /\ Return(c)
  /\ settle' = [settle EXCEPT ![c] = NoSettlement]

\* A customer who cancels inside the window loses the deposit; the salon never
\* keeps the deposit of an appointment it cancels.
Keeps(byStaff, a) == ~byStaff /\ now + CancellationWindow >= row[a].start

\* Mutant: the deposit is given back before the cancellation is stored.
CancelDepositRead_RefundsFirst(c, a) ==
  /\ CancelRead(c, a)
  /\ \E byStaff \in BOOLEAN :
       settle' = [settle EXCEPT ![c] =
         [ pc |-> "policy", seen |-> PaidFor(a) # {}, keep |-> Keeps(byStaff, a), pay |-> Null ]]
  /\ UNCHANGED <<Ledger, payCall, refundStatus, tidy>>

CancelDepositRead(c, a) ==
  /\ CancelRead(c, a)
  /\ \E byStaff \in BOOLEAN :
       settle' = [settle EXCEPT ![c] =
         [ pc |-> "write", seen |-> PaidFor(a) # {}, keep |-> Keeps(byStaff, a), pay |-> Null ]]
  /\ UNCHANGED <<Ledger, payCall, refundStatus, tidy>>

CancelDepositWrite(c) ==
  /\ CancelWrite(c)
  /\ SettleStep(c, "write", "policy")
  /\ UNCHANGED <<Ledger, payCall, refundStatus, tidy>>

NothingToSettle(c) ==
  /\ SettleStep(c, "policy", "record")
  /\ ~settle[c].seen
  /\ PaidFor(call[c].appt) = {}
  /\ UNCHANGED <<vars, Ledger, payCall, refundStatus, tidy>>

\* The paid payment was settled by somebody else: refundDeposit, retainDeposit throw.
NothingLeftToSettle(c) ==
  /\ settle[c].pc = "policy"
  /\ settle[c].seen
  /\ PaidFor(call[c].appt) = {}
  /\ SettleThrows(c)
  /\ UNCHANGED <<row, now, booking, sweep, noShowCount, announced, faults,
                 Ledger, payCall, refundStatus, tidy>>

\* Mutant: the refund is recorded before it is asked for.
SettlementOf_MarkFirst(p, keep) == IF keep THEN "retain" ELSE "markRefunded"

\* A transferred deposit is given back by the salon itself.
SettlementOf(p, keep) ==
  CASE keep                                  -> "retain"
    [] ~keep /\ payment[p].method = "card_transfer" -> "markRefunded"
    [] OTHER                                 -> "refund"

ChooseSettlement(c) ==
  /\ settle[c].pc = "policy"
  /\ \E p \in PaidFor(call[c].appt) :
       settle' = [settle EXCEPT ![c] =
         [settle[c] EXCEPT !.pay = p, !.pc = SettlementOf(p, settle[c].keep)]]
  /\ UNCHANGED <<vars, Ledger, payCall, refundStatus, tidy>>

RefundDeposit(c) ==
  /\ SettleStep(c, "refund", "markRefunded")
  /\ refunds' = [refunds EXCEPT ![settle[c].pay] = @ + 1]
  /\ UNCHANGED <<vars, payment, receipt, gate, told, payCall, refundStatus, tidy>>

RefundDepositFails(c) ==
  /\ settle[c].pc = "refund"
  /\ Fault
  /\ SettleThrows(c)
  /\ UNCHANGED <<row, now, booking, sweep, noShowCount, announced,
                 Ledger, payCall, refundStatus, tidy>>

MarkSettled(c, pc, status) ==
  /\ SettleStep(c, pc, "record")
  /\ MarkPayment(settle[c].pay, status)
  /\ UNCHANGED <<vars, receipt, gate, refunds, told, payCall, refundStatus, tidy>>

DepositRefunded(c) == MarkSettled(c, "markRefunded", "refunded")
DepositRetained(c) == MarkSettled(c, "retain", "retained")

\* The cancellation is recorded, and the cancellation flow goes on.
RecordCancellation(c) ==
  /\ settle[c].pc = "record"
  /\ refundStatus' = [refundStatus EXCEPT ![call[c].appt] =
       IF settle[c].seen THEN "processed" ELSE "not_required"]
  /\ settle' = [settle EXCEPT ![c] = NoSettlement]
  /\ UNCHANGED <<vars, Ledger, payCall, tidy>>

-----------------------------------------------------------------------------
(***************************************************************************)
(* Maintenance: a release is followed by two statements that close what    *)
(* the expired appointments leave behind.                                  *)
(***************************************************************************)
ReleaseHolds(w) ==
  /\ SweepRelease(w)
  /\ tidy' = [tidy EXCEPT ![w] = "receipts"]
  /\ UNCHANGED <<Ledger, payCall, settle, refundStatus>>

\* Mutant: only the receipts of the windows just released are closed.
TidyReceipts_OwnWindows(w) ==
  /\ tidy[w] = "receipts"
  /\ receipt' = [a \in Appt |->
       IF receipt[a].status = "pending" /\ row[a].status = "expired" /\ a \in sweep[w].windows
       THEN [receipt[a] EXCEPT !.status = "expired"] ELSE receipt[a]]
  /\ tidy' = [tidy EXCEPT ![w] = "payments"]
  /\ UNCHANGED <<vars, payment, gate, refunds, told, payCall, settle, refundStatus>>

TidyReceipts(w) ==
  /\ tidy[w] = "receipts"
  /\ receipt' = [a \in Appt |->
       IF receipt[a].status = "pending" /\ row[a].status = "expired"
       THEN [receipt[a] EXCEPT !.status = "expired"] ELSE receipt[a]]
  /\ tidy' = [tidy EXCEPT ![w] = "payments"]
  /\ UNCHANGED <<vars, payment, gate, refunds, told, payCall, settle, refundStatus>>

TidyPayments(w) ==
  /\ tidy[w] = "payments"
  /\ payment' = [p \in Payment |->
       IF /\ payment[p].status = "pending" /\ payment[p].method = "card_transfer"
          /\ row[payment[p].appt].status = "expired"
       THEN [payment[p] EXCEPT !.status = "failed"] ELSE payment[p]]
  /\ tidy' = [tidy EXCEPT ![w] = "none"]
  /\ UNCHANGED <<vars, receipt, gate, refunds, told, payCall, settle, refundStatus>>

-----------------------------------------------------------------------------
(***************************************************************************)
(* Requests and workers that die.                                          *)
(***************************************************************************)
PayCallDies(c) ==
  /\ payCall[c] # NoPayCall
  /\ Fault
  /\ payCall' = [payCall EXCEPT ![c] = NoPayCall]
  /\ UNCHANGED <<row, now, booking, call, sweep, noShowCount, announced, Ledger, Policies>>

CancellationDies(c) ==
  /\ settle[c] # NoSettlement
  /\ CallDies(c)
  /\ settle' = [settle EXCEPT ![c] = NoSettlement]
  /\ UNCHANGED <<Ledger, payCall, refundStatus, tidy>>

MaintenanceDies(w) ==
  /\ WorkerDies(w)
  /\ tidy' = [tidy EXCEPT ![w] = "none"]
  /\ UNCHANGED <<Ledger, payCall, settle, refundStatus>>

-----------------------------------------------------------------------------
\* The lifecycle's own steps.  Cancelling has become the steps above, a hold is
\* confirmed by the payment service only, and the worker announces last.
OtherCallStep(c) ==
  \/ \E a \in Appt : ApproveRead(c, a) \/ RejectRead(c, a) \/ NoShowRead(c, a) \/ CompleteRead(c, a)
  \/ ApproveWrite(c) \/ RejectWrite(c) \/ NoShowWrite(c) \/ CountNoShow(c) \/ CompleteWrite(c)
  \/ UpdateRefused(c)
  \/ settle[c] = NoSettlement /\ (CancelAnnounce(c) \/ CallDies(c))

LifecycleStep ==
  /\ \/ Tick
     \/ \E a \in Appt : BookStep(a)
     \/ \E c \in Call : OtherCallStep(c)
     \/ \E w \in Worker : SweepRead(w) \/ (tidy[w] = "none" /\ SweepNotify(w))
  /\ UNCHANGED payVars

OpenStep(c) ==
  \/ \E a \in Appt : InitiateDeposit(c, a) \/ UploadReceipt(c, a) \/ ReviewReceipt(c, a)
  \/ \E p \in Payment : CallbackRead(c, p)

\* The steps of a request that is under way.
ServeStep(c) ==
  \/ FindTransfer(c) \/ NoTransferFound(c) \/ CreatePayment(c) \/ RequestGateway(c)
  \/ Verify(c) \/ MarkFailed(c) \/ MarkPaid(c)
  \/ PayConfirmRead(c) \/ PayConfirmWrite(c) \/ PayConfirmRefused(c)
  \/ LateCheck(c) \/ LateConfirm(c) \/ LateRefused(c) \/ LateRefund(c) \/ MarkRefunded(c)
  \/ StoreReceipt(c) \/ AlreadyReviewed(c) \/ RejectReceipt(c) \/ ExpireReceipt(c)
  \/ ApproveReceipt(c) \/ ApproveTooLate(c)

PayFaultStep(c) == VerifyUnavailable(c) \/ LateRefundFails(c) \/ PayCallDies(c)

CancelStep(c) ==
  \/ \E a \in Appt : CancelDepositRead(c, a)
  \/ CancelDepositWrite(c)
  \/ NothingToSettle(c) \/ NothingLeftToSettle(c) \/ ChooseSettlement(c)
  \/ RefundDeposit(c) \/ RefundDepositFails(c) \/ DepositRefunded(c) \/ DepositRetained(c)
  \/ RecordCancellation(c) \/ CancellationDies(c)

ReleaseStep(w) == ReleaseHolds(w) \/ TidyReceipts(w) \/ TidyPayments(w) \/ MaintenanceDies(w)

PayNext ==
  \/ LifecycleStep
  \/ \E p \in Payment : CustomerDecides(p) \/ CallbackRepeated(p)
  \/ \E c \in PayCall : OpenStep(c) \/ ServeStep(c) \/ PayFaultStep(c)
  \/ \E c \in Call : CancelStep(c)
  \/ \E w \in Worker : ReleaseStep(w)

PaySpec == PayInit /\ [][PayNext]_allVars

\* The maintenance timer goes on, and a request that began runs to its end.
PayFairness ==
  /\ \A w \in Worker : WF_allVars(\/ SweepRead(w) /\ UNCHANGED payVars
                                  \/ ReleaseHolds(w) \/ TidyReceipts(w) \/ TidyPayments(w)
                                  \/ tidy[w] = "none" /\ SweepNotify(w) /\ UNCHANGED payVars)
  /\ \A c \in PayCall : WF_allVars(ServeStep(c))

PayFairSpec == PaySpec /\ PayFairness

-----------------------------------------------------------------------------
(***************************************************************************)
(* Properties.                                                             *)
(***************************************************************************)

\* An appointment that takes a deposit is confirmed only when the gateway has taken
\* the customer's money for it, or the salon has just approved the transfer; and a
\* hold that is still running turns into a confirmation only while the gateway has
\* not paid that money back.  This is so whatever the callbacks report and in
\* whatever order they come, with cancellations refunding in between (R10.2, R10.3).
\* What it leaves open: a callback that finds the appointment cancelled or expired
\* confirms it by its id, and another request may have refunded the money by then.
DepositBeforeConfirmation ==
  [][\A a \in Appt :
       /\ row[a].status # "confirmed" /\ row'[a].status = "confirmed"
       /\ RequiresHold(booking[a].offer)
       => \/ \E p \in Payment :
               /\ payment[p].appt = a /\ gate[p] = "paid"
               /\ row[a].status = "held" => refunds[p] = 0
          \/ receipt'[a].status = "approved"]_allVars

\* A receipt is approved only together with its appointment, out of a hold that
\* is still running: never one that was cancelled or released in the meantime
\* (the transaction of reviewManualReceipt).
ApprovalTakesTheHold ==
  [][\A a \in Appt :
       receipt[a].status # "approved" /\ receipt'[a].status = "approved" =>
         row[a].status = "held" /\ row'[a].status = "confirmed"]_allVars

\* A gateway payment is recorded as refunded only after the gateway has paid it
\* back, and only money the gateway had taken is paid back (refundByRefId,
\* refundDeposit).
RefundIsReal ==
  \A p \in Payment :
    /\ payment[p].status = "refunded" /\ payment[p].method = "gateway" => refunds[p] > 0
    /\ refunds[p] > 0 => gate[p] = "paid"

\* Nobody is sent to the success page for a payment that the gateway has not
\* taken, however often and whenever the callback is called (handleCallback).
SuccessMeansPaid == \A p \in told : gate[p] = "paid"

\* A receipt cannot stay pending when its hold has been released: the receipt
\* may be stored after the release, so a later pass has to find it
\* (releaseExpiredHolds, and the review that comes too late).
PendingReceiptIsClosed ==
  \A a \in Appt :
    (receipt[a].status = "pending" /\ row[a].status = "expired") ~>
      ~(receipt[a].status = "pending" /\ row[a].status = "expired")
=============================================================================
