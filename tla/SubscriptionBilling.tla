------------------------ MODULE SubscriptionBilling ------------------------
(***************************************************************************)
(* The subscription of one salon: the free trial, the purchase of a plan   *)
(* through the payment gateway, the gateway's callback, and the activation *)
(* that extends the subscription.                                          *)
(*                                                                         *)
(* A purchase request and a callback are sequences of database statements  *)
(* and gateway calls with nothing locked between them; each statement is   *)
(* an action here.  A request whose checks fail changes nothing: it is no  *)
(* action.  One purchase request inserts at most one payment row, so both  *)
(* share an identifier.                                                    *)
(*                                                                         *)
(* Whether the salon is active, in grace or expired is not stored but      *)
(* derived from the dates (Effective).                                     *)
(***************************************************************************)
EXTENDS Integers

CONSTANTS
  Purchase,     \* purchase requests, and the payment rows they insert
  Handler,      \* gateway callbacks that are handled concurrently
  Plan,         \* the plans that can be bought
  Duration,     \* how many days each plan grants
  TrialDays,    \* how long the free trial lasts
  GraceDays,    \* how long a lapsed subscription still works
  MaxWindow,    \* how far ahead a subscription may reach
  Null,
  MaxTime,      \* bound: the clock stops here
  MaxFaults     \* bound on the steps that fail and the requests that die

ASSUME BillingAssumption ==
  /\ Duration \in [Plan -> Nat \ {0}]
  /\ TrialDays \in Nat \ {0} /\ GraceDays \in Nat
  /\ MaxWindow \in Nat
  /\ TrialDays <= MaxWindow /\ \A plan \in Plan : Duration[plan] <= MaxWindow
  /\ Null \notin Plan \cup Nat \cup Purchase
  /\ MaxTime \in Nat /\ MaxFaults \in Nat

VARIABLES
  now,      \* the clock, in days
  sub,      \* the subscription row of the salon
  payment,  \* the subscription payments
  gate,     \* what the gateway knows of each payment
  buyer,    \* the purchase requests
  callback, \* the callbacks that are being handled
  applied,  \* how often each payment has extended the subscription
  faults

vars == <<now, sub, payment, gate, buyer, callback, applied, faults>>

NoSub      == [status |-> "absent", plan |-> Null, expiresAt |-> 0, graceUntil |-> 0]
NoPayment  == [status |-> "absent", plan |-> Null, authority |-> FALSE]
NoBuyer    == [pc |-> "idle", plan |-> Null, seen |-> 0, at |-> 0]
NoCallback == [pc |-> "idle", pay |-> Null, seen |-> 0, at |-> 0]

Horizon == MaxTime + MaxWindow

\* Type correctness of the subscription state.
BillingTypeOK ==
  /\ now \in 0..MaxTime
  /\ sub \in [ status : {"trial", "active"}, plan : Plan \cup {"trial"},
               expiresAt : 0..Horizon, graceUntil : 0..(Horizon + GraceDays) ] \cup {NoSub}
  /\ payment \in [Purchase -> [ status : {"pending", "paid", "failed"},
                                plan : Plan, authority : BOOLEAN ] \cup {NoPayment}]
  /\ gate \in [Purchase -> {"closed", "open", "paid", "declined"}]
  /\ buyer \in [Purchase -> [ pc   : {"idle", "check", "create", "request", "store", "done"},
                              plan : Plan \cup {Null}, seen : 0..Horizon, at : 0..MaxTime ]]
  /\ callback \in [Handler -> [ pc   : {"idle", "readSub", "verify", "markPaid",
                                        "markFailed", "activate"},
                                pay  : Purchase \cup {Null},
                                seen : 0..Horizon, at : 0..MaxTime ]]
  /\ \A h \in Handler : callback[h].pc # "idle" => callback[h].pay # Null
  /\ applied \in [Purchase -> Nat]
  /\ faults \in 0..MaxFaults

Init ==
  /\ now = 0
  /\ sub = NoSub
  /\ payment = [p \in Purchase |-> NoPayment]
  /\ gate = [p \in Purchase |-> "closed"]
  /\ buyer = [p \in Purchase |-> NoBuyer]
  /\ callback = [h \in Handler |-> NoCallback]
  /\ applied = [p \in Purchase |-> 0]
  /\ faults = 0

-----------------------------------------------------------------------------
(***************************************************************************)
(* The dates.                                                              *)
(***************************************************************************)

\* Mutant: a lapsed subscription is renewed from the day it lapsed.
Renewed_FromExpiry(expiresAt, days, at) == expiresAt + days

\* A renewal adds to the days that remain.
Renewed(expiresAt, days, at) == (IF expiresAt > at THEN expiresAt ELSE at) + days

WithinLimit(expiresAt, days, at) == Renewed(expiresAt, days, at) <= at + MaxWindow

\* Mutant: the ceiling is forgotten.
CappedRenewed_NoCeiling(expiresAt, days, at) == Renewed(expiresAt, days, at)

\* The safety net of an activation: never past the ceiling, never shorter than
\* a subscription that was past it already.
CappedRenewed(expiresAt, days, at) ==
  LET renewed == Renewed(expiresAt, days, at)
      ceiling == at + MaxWindow
  IN  IF expiresAt > ceiling THEN expiresAt
      ELSE IF renewed > ceiling THEN ceiling ELSE renewed

\* What the salon's panel is told, and what decides whether it may write.
Effective(s, at) ==
  CASE s # NoSub /\ at < s.expiresAt                        -> s.status
    [] s # NoSub /\ s.expiresAt <= at /\ at < s.graceUntil -> "grace"
    [] OTHER                                               -> "expired"

-----------------------------------------------------------------------------
(***************************************************************************)
(* Registration and purchase.                                              *)
(***************************************************************************)

\* A salon that has been registered starts its free trial.
StartTrial ==
  /\ sub = NoSub
  /\ sub' = [ status |-> "trial", plan |-> "trial", expiresAt |-> now + TrialDays,
              graceUntil |-> now + TrialDays + GraceDays ]
  /\ UNCHANGED <<now, payment, gate, buyer, callback, applied, faults>>

\* The owner asks for a plan; the subscription is read.
BuyRead(p) ==
  \E plan \in Plan :
    /\ buyer[p] = NoBuyer
    /\ sub # NoSub
    /\ buyer' = [buyer EXCEPT ![p] =
         [pc |-> "check", plan |-> plan, seen |-> sub.expiresAt, at |-> now]]
    /\ UNCHANGED <<now, sub, payment, gate, callback, applied, faults>>

Goes(p, from, to) ==
  /\ buyer[p].pc = from
  /\ buyer' = [buyer EXCEPT ![p].pc = to]

\* No checkout is open, and the plan fits into the window as it was read.  The
\* reads have served their purpose (they are reset to keep the states few).
BuyCheck(p) ==
  /\ buyer[p].pc = "check"
  /\ buyer' = [buyer EXCEPT ![p] = [@ EXCEPT !.pc = "create", !.seen = 0, !.at = 0]]
  /\ \A q \in Purchase : payment[q].status # "pending"
  /\ WithinLimit(buyer[p].seen, Duration[buyer[p].plan], buyer[p].at)
  /\ UNCHANGED <<now, sub, payment, gate, callback, applied, faults>>

BuyCreate(p) ==
  /\ Goes(p, "create", "request")
  /\ payment' = [payment EXCEPT ![p] =
       [status |-> "pending", plan |-> buyer[p].plan, authority |-> FALSE]]
  /\ UNCHANGED <<now, sub, gate, callback, applied, faults>>

\* The gateway opens a session.
BuyRequest(p) ==
  /\ Goes(p, "request", "store")
  /\ gate' = [gate EXCEPT ![p] = "open"]
  /\ UNCHANGED <<now, sub, payment, callback, applied, faults>>

\* The session's authority is stored, and the owner is sent to the gateway.
BuyStore(p) ==
  /\ Goes(p, "store", "done")
  /\ payment' = [payment EXCEPT ![p].authority = TRUE]
  /\ UNCHANGED <<now, sub, gate, callback, applied, faults>>

\* The owner pays, or declines.
OwnerDecides(p) ==
  /\ gate[p] = "open" /\ buyer[p].pc = "done" /\ payment[p].authority
  /\ \E g \in {"paid", "declined"} : gate' = [gate EXCEPT ![p] = g]
  /\ UNCHANGED <<now, sub, payment, buyer, callback, applied, faults>>

-----------------------------------------------------------------------------
(***************************************************************************)
(* The callback.  The gateway sends the owner's browser back; the page may *)
(* be loaded any number of times and at any time, and what its address     *)
(* says of the payment need not be what the gateway has decided.           *)
(***************************************************************************)
Arrives(h, p, pc, at) ==
  /\ callback[h] = NoCallback
  /\ callback' = [callback EXCEPT ![h] = [NoCallback EXCEPT !.pc = pc, !.pay = p, !.at = at]]

Moves(h, from, to) ==
  /\ callback[h].pc = from
  /\ callback' = [callback EXCEPT ![h].pc = to]

Ends(h, from) ==
  /\ callback[h].pc = from
  /\ callback' = [callback EXCEPT ![h] = NoCallback]

PayOf(h) == callback[h].pay

\* A callback that reports a failure finds the payment pending; the gateway is not
\* asked.
FailureRead(h, p) ==
  /\ payment[p].authority /\ payment[p].status = "pending"
  /\ Arrives(h, p, "markFailed", 0)
  /\ UNCHANGED <<now, sub, payment, gate, buyer, applied, faults>>

\* Mutant: the callback of a payment that was settled is served again.
SuccessRead_Settled(h, p) ==
  /\ payment[p].authority /\ payment[p].status # "failed"
  /\ Arrives(h, p, "readSub", now)
  /\ UNCHANGED <<now, sub, payment, gate, buyer, applied, faults>>

\* A callback that reports success finds the payment pending; whether it was paid
\* is asked later.
SuccessRead(h, p) ==
  /\ payment[p].authority /\ payment[p].status = "pending"
  /\ Arrives(h, p, "readSub", now)
  /\ UNCHANGED <<now, sub, payment, gate, buyer, applied, faults>>

\* The subscription is read; its expiry is used at the end of the callback.
SubRead(h) ==
  /\ callback[h].pc = "readSub"
  /\ callback' = [callback EXCEPT ![h] = [@ EXCEPT !.pc = "verify", !.seen = sub.expiresAt]]
  /\ UNCHANGED <<now, sub, payment, gate, buyer, applied, faults>>

\* Mutant: what the address says is believed.
Verified_TrustsCaller(h) ==
  /\ Moves(h, "verify", "markPaid")
  /\ UNCHANGED <<now, sub, payment, gate, buyer, applied, faults>>

\* The gateway is asked, and has the money.
Verified(h) ==
  /\ Moves(h, "verify", "markPaid")
  /\ gate[PayOf(h)] = "paid"
  /\ UNCHANGED <<now, sub, payment, gate, buyer, applied, faults>>

\* The rest of the callback has no use for what it has read.
FoundUnpaid(h) ==
  /\ callback[h].pc = "verify"
  /\ callback' = [callback EXCEPT ![h] = [@ EXCEPT !.pc = "markFailed", !.seen = 0, !.at = 0]]

\* It has not: the owner declined, or has not decided yet.
NotVerified(h) ==
  /\ FoundUnpaid(h)
  /\ gate[PayOf(h)] # "paid"
  /\ UNCHANGED <<now, sub, payment, gate, buyer, applied, faults>>

Fault == faults < MaxFaults /\ faults' = faults + 1

\* No answer, or an HTTP error, reads as "not paid" too.
VerifyFails(h) ==
  /\ Fault
  /\ FoundUnpaid(h)
  /\ UNCHANGED <<now, sub, payment, gate, buyer, applied>>

MarkFailed(h) ==
  /\ Ends(h, "markFailed")
  /\ payment' = [payment EXCEPT ![PayOf(h)].status = "failed"]
  /\ UNCHANGED <<now, sub, gate, buyer, applied, faults>>

\* Mutant: the callback ends where the payment is marked.
MarkPaid_Ends(h) ==
  /\ Ends(h, "markPaid")
  /\ payment' = [payment EXCEPT ![PayOf(h)].status = "paid"]
  /\ UNCHANGED <<now, sub, gate, buyer, applied, faults>>

MarkPaid(h) ==
  /\ Moves(h, "markPaid", "activate")
  /\ payment' = [payment EXCEPT ![PayOf(h)].status = "paid"]
  /\ UNCHANGED <<now, sub, gate, buyer, applied, faults>>

\* The subscription is extended from the expiry that was read before.
Activate(h) ==
  LET p   == PayOf(h)
      end == CappedRenewed(callback[h].seen, Duration[payment[p].plan], callback[h].at)
  IN  /\ Ends(h, "activate")
      /\ sub' = [ status |-> "active", plan |-> payment[p].plan, expiresAt |-> end,
                  graceUntil |-> end + GraceDays ]
      /\ applied' = [applied EXCEPT ![p] = @ + 1]
      /\ UNCHANGED <<now, payment, gate, buyer, faults>>

-----------------------------------------------------------------------------
(***************************************************************************)
(* The environment.                                                        *)
(***************************************************************************)
Tick ==
  /\ now < MaxTime
  /\ now' = now + 1
  /\ UNCHANGED <<sub, payment, gate, buyer, callback, applied, faults>>

\* The gateway refuses the session, or the process dies: a payment that was
\* inserted stays pending.
BuyerDies(p) ==
  /\ buyer[p].pc \in {"create", "request", "store"}
  /\ Fault
  /\ buyer' = [buyer EXCEPT ![p].pc = "done"]
  /\ UNCHANGED <<now, sub, payment, gate, callback, applied>>

\* A step of the callback throws, or the process dies.
CallbackDies(h) ==
  /\ callback[h] # NoCallback
  /\ Fault
  /\ callback' = [callback EXCEPT ![h] = NoCallback]
  /\ UNCHANGED <<now, sub, payment, gate, buyer, applied>>

-----------------------------------------------------------------------------
BuyStep(p) == BuyRead(p) \/ BuyCheck(p) \/ BuyCreate(p) \/ BuyRequest(p) \/ BuyStore(p)

CallbackStep(h) ==
  \/ SubRead(h) \/ Verified(h) \/ NotVerified(h)
  \/ MarkFailed(h) \/ MarkPaid(h) \/ Activate(h)

Next ==
  \/ Tick
  \/ StartTrial
  \/ \E p \in Purchase : BuyStep(p) \/ OwnerDecides(p) \/ BuyerDies(p)
  \/ \E h \in Handler, p \in Purchase : FailureRead(h, p) \/ SuccessRead(h, p)
  \/ \E h \in Handler : CallbackStep(h) \/ VerifyFails(h) \/ CallbackDies(h)

Spec == Init /\ [][Next]_vars

\* The callback that tells what the gateway has decided.
Return(p) ==
  \E h \in Handler :
    \/ gate[p] = "paid" /\ SuccessRead(h, p)
    \/ gate[p] = "declined" /\ FailureRead(h, p)

\* The gateway sends the owner back until the callback has been served, and a
\* callback that is being served runs to its end.
Fairness ==
  /\ \A p \in Purchase : WF_vars(Return(p))
  /\ \A h \in Handler : WF_vars(CallbackStep(h))

FairSpec == Spec /\ Fairness

-----------------------------------------------------------------------------
(***************************************************************************)
(* Properties.                                                             *)
(***************************************************************************)

\* A subscription reaches at most MaxWindow days ahead, whatever purchases and
\* callbacks run at once and however old the expiry is that they extend ("Never
\* extends beyond the ceiling", computeCappedRenewedExpiry).
WindowIsCapped == sub.expiresAt <= now + MaxWindow

\* A salon that is active is on a plan the gateway took the money for, and no
\* payment is marked paid, or has extended the subscription, without its money;
\* whatever the callbacks claimed, whenever they came, and however many were
\* served at once (activateFromPayment).
ActiveIsPaidFor ==
  /\ sub.status = "active" =>
       \E p \in Purchase : gate[p] = "paid" /\ payment[p].plan = sub.plan
  /\ \A p \in Purchase : payment[p].status = "paid" \/ applied[p] > 0 => gate[p] = "paid"

\* Callback h extends the subscription in this step.
Activates(h) == callback[h].pc = "activate" /\ callback'[h] = NoCallback /\ sub' # sub

\* Whoever buys a plan can use the panel for as many days as the plan grants,
\* counted from the callback, whether the subscription had lapsed by then, was in
\* its trial, or came up against the ceiling (computeEffectiveStatus after
\* computeCappedRenewedExpiry).
PlanIsUsable ==
  [][\A h \in Handler :
       Activates(h) => \A d \in 0..(Duration[payment[PayOf(h)].plan] - 1) :
                         Effective(sub', callback[h].at + d) = "active"]_vars

\* Once a payment has extended the subscription, no callback begins to be served
\* on it: whatever other callbacks have made of the row meanwhile, it is never
\* pending again (the guard on the status in activateFromPayment, Property 6 for
\* callbacks that do not overlap).
AppliedIsClosed ==
  [][\A h \in Handler :
       callback[h] = NoCallback /\ callback'[h] # NoCallback => applied[callback'[h].pay] = 0]_vars

\* A payment that has extended the subscription never extends it again
\* ("processing the same SubscriptionPayment twice never applies activation
\* twice", Property 6).
RenewedOnce ==
  [][\A h \in Handler :
       Activates(h) /\ applied[PayOf(h)] > 0 => sub'.expiresAt = sub.expiresAt]_vars

\* A payment that was marked as failed, and so gave back the owner's place for a
\* new checkout, is not paid for ("a gateway checkout that returned a definitive
\* failure", markPaymentFailedByAuthority).
FailedIsUnpaid ==
  \A p \in Purchase : payment[p].status = "failed" => gate[p] # "paid"

\* A checkout the owner has decided does not stay open: it activates the plan or
\* is marked as failed, and the next purchase is possible.  What can leave a paid
\* plan without either is a callback that dies after it marked the payment (R3.7).
CheckoutIsSettled ==
  \A p \in Purchase :
    gate[p] \in {"paid", "declined"} ~>
      \/ applied[p] > 0
      \/ payment[p].status = "failed"
      \/ payment[p].status = "paid" /\ faults > 0

=============================================================================
