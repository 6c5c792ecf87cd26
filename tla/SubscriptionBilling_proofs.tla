-------------------- MODULE SubscriptionBilling_proofs --------------------
(***************************************************************************)
(* Machine-checked facts about the subscription of a salon, for any number *)
(* of purchases and of callbacks served at once, any plans and any window. *)
(***************************************************************************)
EXTENDS SubscriptionBilling, TLAPS

-----------------------------------------------------------------------------
(***************************************************************************)
(* The inductive invariant.  A purchase and a callback work with what they *)
(* read before, so it bounds what they have read; and a step that updates  *)
(* one column of a payment needs the payment to be stored.                 *)
(***************************************************************************)

\* A purchase that has passed its checks has a plan; its payment is stored once
\* it asks the gateway for a session, and not before.
BuyerInv ==
  \A p \in Purchase :
    /\ buyer[p].pc # "idle" => buyer[p].plan \in Plan
    /\ buyer[p].pc \in {"idle", "check", "create"} => payment[p].status = "absent"
    /\ buyer[p].pc \in {"request", "store"} => payment[p].status # "absent"

\* A callback works on a stored payment, and the expiry it has read is no later
\* than a subscription may reach by now.
CallbackInv ==
  \A h \in Handler :
    /\ callback[h].pc = "idle" => callback[h] = NoCallback
    /\ callback[h].pc # "idle" => payment[callback[h].pay].status # "absent"
    /\ callback[h].seen <= now + MaxWindow
    /\ callback[h].at <= now

BillingInv == BillingTypeOK /\ WindowIsCapped /\ BuyerInv /\ CallbackInv

SubRow     == [ status : {"trial", "active"}, plan : Plan \cup {"trial"},
                expiresAt : 0..Horizon, graceUntil : 0..(Horizon + GraceDays) ]
PaymentRow == [ status : {"pending", "paid", "failed"}, plan : Plan, authority : BOOLEAN ]
BuyerState == [ pc   : {"idle", "check", "create", "request", "store", "done"},
                plan : Plan \cup {Null}, seen : 0..Horizon, at : 0..MaxTime ]
CallbackState == [ pc   : {"idle", "readSub", "verify", "markPaid", "markFailed", "activate"},
                   pay  : Purchase \cup {Null}, seen : 0..Horizon, at : 0..MaxTime ]

\* The numbers of the model are natural.
LEMMA Numbers ==
  /\ TrialDays \in Nat /\ GraceDays \in Nat /\ MaxWindow \in Nat /\ MaxTime \in Nat
  /\ MaxFaults \in Nat /\ Horizon \in Nat /\ Horizon = MaxTime + MaxWindow
  /\ TrialDays <= MaxWindow
  /\ \A plan \in Plan : Duration[plan] \in Nat /\ Duration[plan] > 0 /\ Duration[plan] <= MaxWindow
  BY BillingAssumption DEF BillingAssumption, Horizon

\* A payment that is stored is a proper row.
LEMMA StoredPayment ==
  ASSUME BillingTypeOK, NEW p \in Purchase, payment[p].status # "absent"
  PROVE  payment[p] \in PaymentRow
  BY DEF BillingTypeOK, PaymentRow, NoPayment

\* The cap on a renewal: from an expiry that is in the window of some day no
\* earlier than the callback's, the new expiry is in that window too.
LEMMA CappedRenewal ==
  ASSUME NEW expiresAt \in Nat, NEW days \in Nat, NEW at \in Nat, NEW day \in Nat,
         at <= day, expiresAt <= day + MaxWindow
  PROVE  /\ CappedRenewed(expiresAt, days, at) \in Nat
         /\ CappedRenewed(expiresAt, days, at) <= day + MaxWindow
  BY Numbers DEF CappedRenewed, Renewed

\* A callback renews what it read by at least the plan, unless that would pass
\* the ceiling.
LEMMA RenewalGrants ==
  ASSUME NEW expiresAt \in Nat, NEW plan \in Plan, NEW at \in Nat
  PROVE  CappedRenewed(expiresAt, Duration[plan], at) >= at + Duration[plan]
  BY Numbers DEF CappedRenewed, Renewed

\* Before its expiry a subscription is what its row says.
LEMMA BeforeExpiry ==
  ASSUME NEW s, NEW day \in Int, s # NoSub, s.expiresAt \in Int, day < s.expiresAt
  PROVE  Effective(s, day) = s.status
  BY DEF Effective

-----------------------------------------------------------------------------
(***************************************************************************)
(* The invariant is inductive.                                             *)
(***************************************************************************)

\* The initial state satisfies it.
LEMMA BillingInit == Init => BillingInv
<1> SUFFICES ASSUME Init PROVE BillingInv
  OBVIOUS
<1> USE Numbers DEF Init, NoSub, NoPayment, NoBuyer, NoCallback
<1>1. BillingTypeOK
  BY DEF BillingTypeOK
<1>2. WindowIsCapped
  BY DEF WindowIsCapped
<1>3. BuyerInv
  BY DEF BuyerInv
<1>4. CallbackInv
  BY DEF CallbackInv
<1>5. QED
  BY <1>1, <1>2, <1>3, <1>4 DEF BillingInv

\* What the invariant says of the state before a step.
LEMMA Facts ==
  ASSUME BillingInv
  PROVE  /\ now \in Nat /\ now <= MaxTime /\ now \in 0..MaxTime
         /\ sub \in SubRow \cup {NoSub} /\ sub.expiresAt \in Nat
         /\ sub.expiresAt <= now + MaxWindow /\ sub.expiresAt \in 0..Horizon
         /\ payment \in [Purchase -> PaymentRow \cup {NoPayment}]
         /\ buyer \in [Purchase -> BuyerState]
         /\ callback \in [Handler -> CallbackState]
<1>1. sub \in SubRow \cup {NoSub} /\ now \in 0..MaxTime /\ now \in Nat /\ now <= MaxTime
  BY Numbers DEF BillingInv, BillingTypeOK, SubRow
<1>2. sub.expiresAt \in 0..Horizon /\ sub.expiresAt \in Nat
  BY <1>1, Numbers DEF SubRow, NoSub
<1>3. QED
  BY <1>1, <1>2 DEF BillingInv, BillingTypeOK, WindowIsCapped, PaymentRow, BuyerState, CallbackState

\* A purchase request, the owner's decision and the death of a request keep it.
LEMMA BillingBuyer ==
  ASSUME BillingInv, NEW p \in Purchase, BuyStep(p) \/ OwnerDecides(p) \/ BuyerDies(p)
  PROVE  BillingInv'
<1>0. /\ BillingTypeOK /\ WindowIsCapped /\ BuyerInv /\ CallbackInv
      /\ now \in 0..MaxTime /\ sub.expiresAt \in 0..Horizon
      /\ payment \in [Purchase -> PaymentRow \cup {NoPayment}]
      /\ buyer \in [Purchase -> BuyerState]
  BY Facts DEF BillingInv
<1>1. CASE BuyRead(p)
  <2>1. PICK plan \in Plan : buyer' = [buyer EXCEPT ![p] =
          [pc |-> "check", plan |-> plan, seen |-> sub.expiresAt, at |-> now]]
    BY <1>1 DEF BuyRead
  <2>2. buyer' \in [Purchase -> BuyerState]
    BY <1>0, <2>1 DEF BuyerState
  <2>3. BillingTypeOK'
    BY <1>0, <1>1, <2>2 DEF BillingTypeOK, BuyRead, BuyerState
  <2>4. buyer[p].pc = "idle"
    BY <1>1 DEF BuyRead, NoBuyer
  <2>5. BuyerInv'
    BY <1>0, <1>1, <2>1, <2>4 DEF BuyerInv, BuyRead
  <2>6. QED
    BY <1>0, <1>1, <2>3, <2>5 DEF BillingInv, BuyRead, WindowIsCapped, CallbackInv
<1>2. CASE BuyCheck(p)
  <2>1. buyer' \in [Purchase -> BuyerState]
    <3>1. 0 \in 0..Horizon /\ 0 \in 0..MaxTime
      BY Numbers
    <3>2. [buyer[p] EXCEPT !.pc = "create", !.seen = 0, !.at = 0] \in BuyerState
      BY <1>0, <3>1, ZenonT(40) DEF BuyerState
    <3>3. QED
      BY <1>0, <1>2, <3>2 DEF BuyCheck
  <2>2. BillingTypeOK'
    BY <1>0, <1>2, <2>1 DEF BillingTypeOK, BuyCheck, BuyerState
  <2>3. BuyerInv'
    BY <1>0, <1>2 DEF BuyerInv, BuyCheck, BuyerState
  <2>4. QED
    BY <1>0, <1>2, <2>2, <2>3 DEF BillingInv, BuyCheck, WindowIsCapped, CallbackInv
<1>3. CASE BuyCreate(p)
  <2>1. buyer[p].pc = "create" /\ buyer[p].plan \in Plan /\ payment[p].status = "absent"
    BY <1>0, <1>3 DEF BuyCreate, Goes, BuyerInv
  <2>2. buyer' \in [Purchase -> BuyerState]
    BY <1>0, <1>3 DEF BuyerState, BuyCreate, Goes
  <2>3. payment' \in [Purchase -> PaymentRow \cup {NoPayment}]
    BY <1>0, <1>3, <2>1 DEF BuyCreate, PaymentRow
  <2>4. BillingTypeOK'
    BY <1>0, <1>3, <2>2, <2>3 DEF BillingTypeOK, BuyCreate, BuyerState, PaymentRow
  <2>5. \A q \in Purchase : payment[q].status # "absent" => payment'[q].status # "absent"
    BY <1>0, <1>3 DEF BuyCreate
  <2>6. BuyerInv'
    BY <1>0, <1>3, <2>1 DEF BuyerInv, BuyCreate, Goes, BuyerState
  <2>7. CallbackInv'
    BY <1>0, <1>3, <2>5 DEF CallbackInv, BuyCreate, BillingTypeOK
  <2>8. QED
    BY <1>0, <1>3, <2>4, <2>6, <2>7 DEF BillingInv, BuyCreate, WindowIsCapped
<1>4. CASE BuyRequest(p)
  <2>1. buyer' \in [Purchase -> BuyerState]
    BY <1>0, <1>4 DEF BuyerState, BuyRequest, Goes
  <2>2. BillingTypeOK'
    BY <1>0, <1>4, <2>1 DEF BillingTypeOK, BuyRequest, BuyerState
  <2>3. BuyerInv'
    BY <1>0, <1>4 DEF BuyerInv, BuyRequest, Goes, BuyerState
  <2>4. QED
    BY <1>0, <1>4, <2>2, <2>3 DEF BillingInv, BuyRequest, WindowIsCapped, CallbackInv
<1>5. CASE BuyStore(p)
  <2>1. buyer[p].pc = "store" /\ payment[p] \in PaymentRow
    BY <1>0, <1>5, StoredPayment DEF BuyStore, Goes, BuyerInv
  <2>2. buyer' \in [Purchase -> BuyerState]
    BY <1>0, <1>5 DEF BuyerState, BuyStore, Goes
  <2>3. payment' \in [Purchase -> PaymentRow \cup {NoPayment}]
    BY <1>0, <1>5, <2>1 DEF BuyStore, PaymentRow
  <2>4. BillingTypeOK'
    BY <1>0, <1>5, <2>2, <2>3 DEF BillingTypeOK, BuyStore, BuyerState, PaymentRow
  <2>5. \A q \in Purchase : payment'[q].status = payment[q].status
    BY <1>0, <1>5, <2>1 DEF BuyStore, PaymentRow
  <2>6. BuyerInv'
    BY <1>0, <1>5, <2>1, <2>5 DEF BuyerInv, BuyStore, Goes, BuyerState
  <2>7. CallbackInv'
    BY <1>0, <1>5, <2>5 DEF CallbackInv, BuyStore, BillingTypeOK
  <2>8. QED
    BY <1>0, <1>5, <2>4, <2>6, <2>7 DEF BillingInv, BuyStore, WindowIsCapped
<1>6. CASE OwnerDecides(p)
  <2>1. BillingTypeOK'
    BY <1>0, <1>6 DEF BillingTypeOK, OwnerDecides
  <2>2. QED
    BY <1>0, <1>6, <2>1 DEF BillingInv, OwnerDecides, WindowIsCapped, CallbackInv, BuyerInv
<1>7. CASE BuyerDies(p)
  <2>1. buyer' \in [Purchase -> BuyerState]
    BY <1>0, <1>7 DEF BuyerState, BuyerDies
  <2>2. BillingTypeOK'
    BY <1>0, <1>7, <2>1, Numbers DEF BillingTypeOK, BuyerDies, BuyerState, Fault
  <2>3. BuyerInv'
    BY <1>0, <1>7 DEF BuyerInv, BuyerDies, BuyerState
  <2>4. QED
    BY <1>0, <1>7, <2>2, <2>3 DEF BillingInv, BuyerDies, WindowIsCapped, CallbackInv
<1>8. QED
  BY <1>1, <1>2, <1>3, <1>4, <1>5, <1>6, <1>7 DEF BuyStep

\* A callback that arrives works on a stored payment.
LEMMA ArrivalKeeps ==
  ASSUME BillingInv, NEW h \in Handler, NEW p \in Purchase, NEW pc \in {"readSub", "markFailed"},
         NEW at \in {0, now}, Arrives(h, p, pc, at), payment[p].status # "absent",
         UNCHANGED <<now, sub, payment, gate, buyer, applied, faults>>
  PROVE  BillingInv'
<1>0. /\ BillingTypeOK /\ WindowIsCapped /\ BuyerInv /\ CallbackInv
      /\ now \in 0..MaxTime /\ now \in Nat /\ callback \in [Handler -> CallbackState]
  BY Facts DEF BillingInv
<1> DEFINE new == [NoCallback EXCEPT !.pc = pc, !.pay = p, !.at = at]
<1>1. NoCallback \in CallbackState
  BY Numbers DEF CallbackState, NoCallback
<1>2. new \in CallbackState /\ new.pc = pc /\ new.pay = p /\ new.at = at /\ new.seen = 0
  BY <1>0, <1>1, Numbers DEF CallbackState, NoCallback
<1> HIDE DEF new
<1>3. /\ callback' = [callback EXCEPT ![h] = new]
      /\ callback' \in [Handler -> CallbackState]
  BY <1>0, <1>2 DEF Arrives, new
<1>4. p # Null
  BY BillingAssumption
<1>5. BillingTypeOK'
  BY <1>0, <1>2, <1>3, <1>4 DEF BillingTypeOK, CallbackState
<1>6. CallbackInv'
  BY <1>0, <1>2, <1>3, Numbers DEF CallbackInv
<1>7. QED
  BY <1>0, <1>5, <1>6 DEF BillingInv, WindowIsCapped, BuyerInv

\* A callback that goes on, or ends, with nothing else changed.
LEMMA CallbackMoves ==
  ASSUME BillingInv, NEW h \in Handler, callback[h].pc # "idle",
         \/ \E pc \in {"verify", "markPaid", "markFailed", "activate"} :
              \/ callback' = [callback EXCEPT ![h].pc = pc]
              \/ callback' = [callback EXCEPT ![h] = [@ EXCEPT !.pc = pc, !.seen = sub.expiresAt]]
              \/ callback' = [callback EXCEPT ![h] = [@ EXCEPT !.pc = pc, !.seen = 0, !.at = 0]]
         \/ callback' = [callback EXCEPT ![h] = NoCallback],
         now' = now, sub'.expiresAt <= now + MaxWindow,
         \A p \in Purchase : payment[p].status # "absent" => payment'[p].status # "absent"
  PROVE  /\ callback' \in [Handler -> CallbackState]
         /\ \A g \in Handler : callback'[g].pc # "idle" => callback'[g].pay # Null
         /\ CallbackInv'
<1>0. /\ CallbackInv /\ callback \in [Handler -> CallbackState] /\ now \in Nat
      /\ sub.expiresAt \in 0..Horizon /\ sub.expiresAt <= now + MaxWindow
      /\ \A g \in Handler : callback[g].pc # "idle" => callback[g].pay \in Purchase
  BY Facts, BillingAssumption DEF BillingInv, BillingTypeOK, CallbackState
<1>1. CASE callback' = [callback EXCEPT ![h] = NoCallback]
  <2>1. callback' \in [Handler -> CallbackState]
    BY <1>0, <1>1, Numbers DEF CallbackState, NoCallback
  <2>2. callback'[h] = NoCallback /\ \A g \in Handler \ {h} : callback'[g] = callback[g]
    BY <1>0, <1>1
  <2>3. QED
    BY <1>0, <2>1, <2>2, Numbers, BillingAssumption DEF CallbackInv, NoCallback
<1>2. ASSUME NEW pc \in {"verify", "markPaid", "markFailed", "activate"},
             callback' = [callback EXCEPT ![h].pc = pc]
      PROVE  /\ callback' \in [Handler -> CallbackState]
             /\ \A g \in Handler : callback'[g].pc # "idle" => callback'[g].pay # Null
             /\ CallbackInv'
  <2>1. callback' \in [Handler -> CallbackState]
    BY <1>0, <1>2 DEF CallbackState
  <2>2. \A g \in Handler : /\ callback'[g].pay = callback[g].pay
                           /\ callback'[g].seen = callback[g].seen
                           /\ callback'[g].at = callback[g].at
                           /\ callback'[g].pc # "idle" => callback[g].pc # "idle"
                           /\ callback'[g].pc = "idle" => callback'[g] = callback[g]
    BY <1>0, <1>2 DEF CallbackState
  <2>3. QED
    BY <1>0, <2>1, <2>2, BillingAssumption DEF CallbackInv
<1>3. ASSUME NEW pc \in {"verify", "markPaid", "markFailed", "activate"},
             callback' = [callback EXCEPT ![h] = [@ EXCEPT !.pc = pc, !.seen = sub.expiresAt]]
      PROVE  /\ callback' \in [Handler -> CallbackState]
             /\ \A g \in Handler : callback'[g].pc # "idle" => callback'[g].pay # Null
             /\ CallbackInv'
  <2>0. [callback[h] EXCEPT !.pc = pc, !.seen = sub.expiresAt] \in CallbackState
    BY <1>0, ZenonT(40) DEF CallbackState
  <2>1. callback' \in [Handler -> CallbackState]
    BY <1>0, <1>3, <2>0
  <2>2. \A g \in Handler : /\ callback'[g].pay = callback[g].pay
                           /\ callback'[g].seen \in {callback[g].seen, sub.expiresAt}
                           /\ callback'[g].at = callback[g].at
                           /\ callback'[g].pc # "idle" => callback[g].pc # "idle"
                           /\ callback'[g].pc = "idle" => callback'[g] = callback[g]
    BY <1>0, <1>3 DEF CallbackState
  <2>3. QED
    BY <1>0, <2>1, <2>2, BillingAssumption DEF CallbackInv
<1>4. ASSUME NEW pc \in {"verify", "markPaid", "markFailed", "activate"},
             callback' = [callback EXCEPT ![h] = [@ EXCEPT !.pc = pc, !.seen = 0, !.at = 0]]
      PROVE  /\ callback' \in [Handler -> CallbackState]
             /\ \A g \in Handler : callback'[g].pc # "idle" => callback'[g].pay # Null
             /\ CallbackInv'
  <2> DEFINE new == [callback[h] EXCEPT !.pc = pc, !.seen = 0, !.at = 0]
  <2>0. 0 \in 0..Horizon /\ 0 \in 0..MaxTime
    BY Numbers
  <2>1. /\ new \in CallbackState /\ new.pc = pc /\ new.pay = callback[h].pay
        /\ new.seen = 0 /\ new.at = 0
    <3>1. callback[h] \in CallbackState
      BY <1>0
    <3>2. new \in CallbackState
      BY <2>0, <3>1, ZenonT(40) DEF CallbackState
    <3>3. new.pc = pc /\ new.pay = callback[h].pay /\ new.seen = 0 /\ new.at = 0
      BY <3>1, SMTT(30) DEF CallbackState
    <3>4. QED
      BY <3>2, <3>3
  <2>2. callback' = [callback EXCEPT ![h] = new]
    BY <1>4
  <2> HIDE DEF new
  <2>3. /\ callback' \in [Handler -> CallbackState]
        /\ callback'[h] = new /\ \A g \in Handler \ {h} : callback'[g] = callback[g]
    BY <1>0, <2>1, <2>2
  <2>4. QED
    BY <1>0, <2>1, <2>3, Numbers, BillingAssumption DEF CallbackInv
<1>5. QED
  BY <1>1, <1>2, <1>3, <1>4

\* What a callback works on.
LEMMA CallbackFacts ==
  ASSUME BillingInv, NEW h \in Handler, callback[h].pc # "idle"
  PROVE  /\ PayOf(h) \in Purchase /\ payment[PayOf(h)] \in PaymentRow
         /\ callback[h] \in CallbackState
         /\ callback[h].seen \in Nat /\ callback[h].at \in Nat
         /\ callback[h].seen <= now + MaxWindow /\ callback[h].at <= now
<1>1. callback[h] \in CallbackState /\ callback[h].pay \in Purchase
  BY BillingAssumption DEF BillingInv, BillingTypeOK, CallbackState
<1>2. payment[PayOf(h)] \in PaymentRow
  BY <1>1, StoredPayment DEF BillingInv, CallbackInv, PayOf
<1>3. QED
  BY <1>1, <1>2, Numbers DEF BillingInv, CallbackInv, CallbackState, PayOf

\* Settling a payment keeps the payments proper rows, of the same plans.
LEMMA Settling ==
  ASSUME BillingInv, NEW p \in Purchase, payment[p] \in PaymentRow,
         NEW s \in {"paid", "failed"}, payment' = [payment EXCEPT ![p].status = s]
  PROVE  /\ payment' \in [Purchase -> PaymentRow \cup {NoPayment}]
         /\ \A q \in Purchase : payment[q].status # "absent" <=> payment'[q].status # "absent"
         /\ \A q \in Purchase : payment'[q].plan = payment[q].plan
         /\ \A q \in Purchase : payment'[q].authority = payment[q].authority
         /\ payment'[p].status = s /\ \A q \in Purchase \ {p} : payment'[q] = payment[q]
  BY Facts DEF PaymentRow

\* Every step of a callback keeps the invariant.
LEMMA BillingCallback ==
  ASSUME BillingInv, NEW h \in Handler, CallbackStep(h) \/ VerifyFails(h) \/ CallbackDies(h)
  PROVE  BillingInv'
<1>0. /\ BillingTypeOK /\ WindowIsCapped /\ BuyerInv /\ now \in Nat
      /\ sub.expiresAt <= now + MaxWindow /\ now <= MaxTime
  BY Facts DEF BillingInv
<1> DEFINE Kept ==
      /\ callback' \in [Handler -> CallbackState]
      /\ \A g \in Handler : callback'[g].pc # "idle" => callback'[g].pay # Null
      /\ CallbackInv'
<1>1. CASE SubRead(h)
  <2>1. Kept
    BY <1>0, <1>1, CallbackMoves DEF SubRead
  <2>2. QED
    BY <1>0, <1>1, <2>1
    DEF SubRead, BillingInv, BillingTypeOK, CallbackState, WindowIsCapped, BuyerInv
<1>2. CASE Verified(h)
  <2>1. Kept
    BY <1>0, <1>2, CallbackMoves DEF Verified, Moves
  <2>2. QED
    BY <1>0, <1>2, <2>1
    DEF Verified, BillingInv, BillingTypeOK, CallbackState, WindowIsCapped, BuyerInv
<1>3. CASE NotVerified(h) \/ VerifyFails(h)
  <2>1. Kept
    BY <1>0, <1>3, CallbackMoves DEF NotVerified, VerifyFails, FoundUnpaid
  <2>2. faults' \in 0..MaxFaults
    BY <1>0, <1>3, Numbers DEF NotVerified, VerifyFails, Fault, BillingTypeOK
  <2>3. QED
    BY <1>0, <1>3, <2>1, <2>2
    DEF NotVerified, VerifyFails, BillingInv, BillingTypeOK, CallbackState, WindowIsCapped, BuyerInv
<1>4. CASE CallbackDies(h)
  <2>1. callback[h].pc # "idle"
    BY <1>4 DEF BillingInv, CallbackDies, CallbackInv
  <2>2. Kept
    BY <1>0, <1>4, <2>1, CallbackMoves DEF CallbackDies
  <2>3. faults' \in 0..MaxFaults
    BY <1>0, <1>4, Numbers DEF CallbackDies, Fault, BillingTypeOK
  <2>4. QED
    BY <1>0, <1>4, <2>2, <2>3
    DEF CallbackDies, BillingInv, BillingTypeOK, CallbackState, WindowIsCapped, BuyerInv
<1>5. CASE MarkFailed(h)
  <2>1. /\ PayOf(h) \in Purchase /\ payment[PayOf(h)] \in PaymentRow
        /\ callback[h].pc # "idle"
    BY <1>5, CallbackFacts DEF MarkFailed, Ends
  <2>2. /\ payment' \in [Purchase -> PaymentRow \cup {NoPayment}]
        /\ \A q \in Purchase : payment[q].status # "absent" <=> payment'[q].status # "absent"
    BY <1>5, <2>1, Settling DEF MarkFailed
  <2>3. Kept
    BY <1>0, <1>5, <2>1, <2>2, CallbackMoves DEF MarkFailed, Ends
  <2>4. BuyerInv'
    BY <1>0, <1>5, <2>2 DEF MarkFailed, BuyerInv
  <2>5. QED
    BY <1>0, <1>5, <2>2, <2>3, <2>4
    DEF MarkFailed, BillingInv, BillingTypeOK, CallbackState, PaymentRow, WindowIsCapped
<1>6. CASE MarkPaid(h)
  <2>1. /\ PayOf(h) \in Purchase /\ payment[PayOf(h)] \in PaymentRow
        /\ callback[h].pc # "idle"
    BY <1>6, CallbackFacts DEF MarkPaid, Moves
  <2>2. /\ payment' \in [Purchase -> PaymentRow \cup {NoPayment}]
        /\ \A q \in Purchase : payment[q].status # "absent" <=> payment'[q].status # "absent"
    BY <1>6, <2>1, Settling DEF MarkPaid
  <2>3. Kept
    BY <1>0, <1>6, <2>1, <2>2, CallbackMoves DEF MarkPaid, Moves
  <2>4. BuyerInv'
    BY <1>0, <1>6, <2>2 DEF MarkPaid, BuyerInv
  <2>5. QED
    BY <1>0, <1>6, <2>2, <2>3, <2>4
    DEF MarkPaid, BillingInv, BillingTypeOK, CallbackState, PaymentRow, WindowIsCapped
<1>7. CASE Activate(h)
  <2> DEFINE p   == PayOf(h)
             end == CappedRenewed(callback[h].seen, Duration[payment[p].plan], callback[h].at)
  <2>1. /\ p \in Purchase /\ payment[p] \in PaymentRow /\ callback[h].pc # "idle"
        /\ callback[h].seen \in Nat /\ callback[h].at \in Nat
        /\ callback[h].seen <= now + MaxWindow /\ callback[h].at <= now
    BY <1>7, CallbackFacts DEF Activate, Ends
  <2>2. payment[p].plan \in Plan /\ Duration[payment[p].plan] \in Nat
    BY <2>1, Numbers DEF PaymentRow
  <2>3. end \in Nat /\ end <= now + MaxWindow
    BY <1>0, <2>1, <2>2, CappedRenewal
  <2>4. end \in 0..Horizon /\ end + GraceDays \in 0..(Horizon + GraceDays)
    BY <1>0, <2>3, Numbers
  <2>5. sub' = [ status |-> "active", plan |-> payment[p].plan, expiresAt |-> end,
                 graceUntil |-> end + GraceDays ]
    BY <1>7 DEF Activate
  <2>6. sub' \in SubRow /\ sub'.expiresAt = end
    BY <2>2, <2>4, <2>5 DEF SubRow
  <2>7. Kept
    BY <1>0, <1>7, <2>1, <2>3, <2>6, CallbackMoves DEF Activate, Ends
  <2>8. applied' \in [Purchase -> Nat]
    BY <1>0, <1>7, <2>1 DEF Activate, BillingTypeOK
  <2>9. BuyerInv' /\ WindowIsCapped'
    BY <1>0, <1>7, <2>3, <2>6 DEF Activate, BuyerInv, WindowIsCapped
  <2>10. BillingTypeOK'
    BY <1>0, <1>7, <2>6, <2>7, <2>8 DEF Activate, BillingTypeOK, CallbackState, SubRow
  <2>11. QED
    BY <2>7, <2>9, <2>10 DEF BillingInv
<1>8. QED
  BY <1>1, <1>2, <1>3, <1>4, <1>5, <1>6, <1>7 DEF CallbackStep

\* Every step keeps the invariant.
LEMMA BillingStep == BillingInv /\ [Next]_vars => BillingInv'
<1> SUFFICES ASSUME BillingInv, [Next]_vars PROVE BillingInv'
  OBVIOUS
<1>0. /\ BillingTypeOK /\ WindowIsCapped /\ BuyerInv /\ CallbackInv /\ now \in Nat
      /\ sub.expiresAt \in Nat
  BY Facts DEF BillingInv
<1>1. CASE Tick
  <2>1. now' \in 0..MaxTime
    BY <1>0, <1>1, Numbers DEF Tick
  <2>2. WindowIsCapped'
    BY <1>0, <1>1, Numbers DEF Tick, WindowIsCapped
  <2>3. CallbackInv'
    <3>1. \A h \in Handler : callback[h].seen \in Nat /\ callback[h].at \in Nat
      BY Facts, Numbers DEF CallbackState
    <3>2. QED
      BY <1>0, <1>1, <3>1, Numbers DEF Tick, CallbackInv
  <2>4. QED
    BY <1>0, <1>1, <2>1, <2>2, <2>3 DEF Tick, BillingInv, BillingTypeOK, BuyerInv
<1>2. CASE StartTrial
  <2>1. now + TrialDays \in 0..Horizon /\ now + TrialDays <= now + MaxWindow
    BY <1>0, Numbers DEF BillingTypeOK
  <2>2. sub' \in SubRow /\ sub'.expiresAt = now + TrialDays
    BY <1>0, <1>2, <2>1, Numbers DEF StartTrial, SubRow, BillingTypeOK
  <2>3. QED
    BY <1>0, <1>2, <2>1, <2>2
    DEF StartTrial, BillingInv, BillingTypeOK, SubRow, WindowIsCapped, BuyerInv, CallbackInv
<1>3. ASSUME NEW p \in Purchase, BuyStep(p) \/ OwnerDecides(p) \/ BuyerDies(p)
      PROVE  BillingInv'
  BY <1>3, BillingBuyer
<1>4. ASSUME NEW h \in Handler, NEW p \in Purchase, FailureRead(h, p) \/ SuccessRead(h, p)
      PROVE  BillingInv'
  <2>1. payment[p].status = "pending"
    BY <1>4 DEF FailureRead, SuccessRead
  <2>2. PICK pc \in {"readSub", "markFailed"}, at \in {0, now} : Arrives(h, p, pc, at)
    BY <1>4 DEF FailureRead, SuccessRead
  <2>3. QED
    BY <1>4, <2>1, <2>2, ArrivalKeeps DEF FailureRead, SuccessRead
<1>5. ASSUME NEW h \in Handler, CallbackStep(h) \/ VerifyFails(h) \/ CallbackDies(h)
      PROVE  BillingInv'
  BY <1>5, BillingCallback
<1>6. CASE UNCHANGED vars
  BY <1>0, <1>6
  DEF vars, BillingInv, BillingTypeOK, WindowIsCapped, BuyerInv, CallbackInv
<1>7. QED
  BY <1>1, <1>2, <1>3, <1>4, <1>5, <1>6 DEF Next

\* The invariant holds throughout.
LEMMA BillingInvariant == Spec => []BillingInv
  BY BillingInit, BillingStep, PTL DEF Spec

-----------------------------------------------------------------------------
(***************************************************************************)
(* What follows at once.                                                   *)
(***************************************************************************)

\* The subscription, the payments, the purchases and the callbacks keep their
\* types.
THEOREM BillingTypeCorrect == Spec => []BillingTypeOK
  BY BillingInvariant, PTL DEF BillingInv

\* No combination of purchases and callbacks takes a subscription further ahead
\* than the window (computeCappedRenewedExpiry, SubscriptionService.activateFromPayment).
THEOREM WindowIsNeverExceeded == Spec => []WindowIsCapped
  BY BillingInvariant, PTL DEF BillingInv

\* The subscription row of a salon that has one is written by activations only.
LEMMA OnlyActivationRenews ==
  ASSUME BillingInv, [Next]_vars, NEW h \in Handler,
         callback[h].pc = "activate", callback'[h].pc = "idle", sub' # sub
  PROVE  Activate(h)
<1>0. callback \in [Handler -> CallbackState]
  BY Facts
<1>1. CASE StartTrial
  BY <1>1 DEF StartTrial
<1>2. ASSUME NEW g \in Handler, Activate(g) PROVE Activate(h)
  <2>1. g = h
    BY <1>0, <1>2 DEF Activate, Ends
  <2>2. QED
    BY <1>2, <2>1
<1>3. ASSUME NEW p \in Purchase, BuyStep(p) \/ OwnerDecides(p) \/ BuyerDies(p)
      PROVE  FALSE
  BY <1>3 DEF BuyStep, BuyRead, BuyCheck, BuyCreate, BuyRequest, BuyStore, OwnerDecides, BuyerDies
<1>4. ASSUME NEW g \in Handler, NEW p \in Purchase, FailureRead(g, p) \/ SuccessRead(g, p)
      PROVE  FALSE
  BY <1>4 DEF FailureRead, SuccessRead
<1>5. ASSUME NEW g \in Handler, CallbackStep(g) \/ VerifyFails(g) \/ CallbackDies(g)
      PROVE  Activate(g)
  BY <1>5 DEF CallbackStep, SubRead, Verified, MarkFailed, MarkPaid, NotVerified, VerifyFails,
              CallbackDies
<1>6. CASE Tick \/ UNCHANGED vars
  BY <1>6 DEF Tick, vars
<1>7. QED
  BY <1>1, <1>2, <1>3, <1>4, <1>5, <1>6 DEF Next

\* A renewal ends no earlier than the plan that was bought, counted from the
\* callback, and the row it leaves is active until then (activateFromPayment).
THEOREM PlanLastsItsDays == Spec => PlanIsUsable
<1> DEFINE Usable(h) == Activates(h) => \A d \in 0..(Duration[payment[PayOf(h)].plan] - 1) :
                          Effective(sub', callback[h].at + d) = "active"
<1>1. ASSUME BillingInv, [Next]_vars, NEW h \in Handler PROVE Usable(h)
  <2> SUFFICES ASSUME Activates(h),
                      NEW d \in 0..(Duration[payment[PayOf(h)].plan] - 1)
               PROVE  Effective(sub', callback[h].at + d) = "active"
    OBVIOUS
  <2>1. callback[h].pc = "activate" /\ callback'[h].pc = "idle" /\ sub' # sub
    BY DEF Activates, NoCallback
  <2>2. Activate(h)
    BY <1>1, <2>1, OnlyActivationRenews
  <2> DEFINE plan == payment[PayOf(h)].plan
             at   == callback[h].at
             end  == CappedRenewed(callback[h].seen, Duration[plan], at)
  <2>3. /\ plan \in Plan /\ at \in Nat /\ callback[h].seen \in Nat /\ at <= now /\ now \in Nat
        /\ callback[h].seen <= now + MaxWindow
    BY <1>1, <2>1, CallbackFacts, Facts DEF PaymentRow
  <2>4. end >= at + Duration[plan] /\ end \in Nat /\ Duration[plan] \in Nat
    BY <2>3, RenewalGrants, CappedRenewal, Numbers
  <2>5. /\ sub' = [ status |-> "active", plan |-> plan, expiresAt |-> end,
                    graceUntil |-> end + GraceDays ]
    BY <2>2 DEF Activate
  <2>6. sub'.expiresAt = end /\ sub'.status = "active" /\ sub' # NoSub
    BY <2>5 DEF NoSub
  <2>7. at + d \in Int /\ at + d < end
    BY <2>3, <2>4
  <2>8. QED
    BY <2>3, <2>4, <2>6, <2>7, BeforeExpiry
<1>2. BillingInv /\ [Next]_vars => [\A h \in Handler : Usable(h)]_vars
  BY <1>1
<1>3. QED
  BY <1>2, BillingInvariant, PTL DEF Spec, PlanIsUsable

-----------------------------------------------------------------------------
(***************************************************************************)
(* What was paid for.  Two callbacks of one purchase each work on the      *)
(* payment they read as pending, whatever the other has made of it since:  *)
(* the row may go from paid to failed and back.  What they cannot undo is  *)
(* the gateway's word, which each has asked for itself, and that the row   *)
(* is no longer pending.                                                   *)
(***************************************************************************)

\* The gateway has taken the money of every payment that is marked as paid, is
\* about to be, or has extended the subscription; and of a payment for the plan in
\* force.  Once the owner has decided, the purchase is over.
MoneyInv ==
  /\ ActiveIsPaidFor
  /\ \A p \in Purchase : gate[p] \in {"paid", "declined"} => buyer[p].pc = "done"
  /\ \A h \in Handler : callback[h].pc \in {"markPaid", "activate"} => gate[PayOf(h)] = "paid"

Settled(p) == payment[p].status \in {"paid", "failed"}

\* A payment that has extended the subscription, or is about to, was settled.
AppliedInv ==
  /\ \A p \in Purchase : applied[p] > 0 => Settled(p)
  /\ \A h \in Handler : callback[h].pc = "activate" => Settled(PayOf(h))

PaidInv == BillingInv /\ MoneyInv /\ AppliedInv

\* The initial state satisfies it.
LEMMA PaidInit == Init => PaidInv
<1> SUFFICES ASSUME Init PROVE MoneyInv /\ AppliedInv
  BY BillingInit DEF PaidInv
<1>1. MoneyInv
  BY DEF Init, MoneyInv, ActiveIsPaidFor, NoSub, NoPayment, NoCallback
<1>2. AppliedInv
  BY DEF Init, AppliedInv, NoCallback
<1>3. QED
  BY <1>1, <1>2

\* A step that leaves the gateway's word, the plans of what was paid, and the
\* callbacks about to act keeps what was paid for.
LEMMA MoneyStays ==
  ASSUME PaidInv,
         sub' = sub \/ sub'.status # "active",
         \A p \in Purchase : gate[p] = "paid" => gate'[p] = "paid" /\ payment'[p].plan = payment[p].plan,
         \A p \in Purchase : gate'[p] \in {"paid", "declined"} => buyer'[p].pc = "done",
         \A p \in Purchase : payment'[p].status = "paid" => payment[p].status = "paid" \/ gate[p] = "paid",
         \A h \in Handler : callback'[h].pc \in {"markPaid", "activate"} =>
           /\ callback'[h].pay \in Purchase /\ callback'[h].pay = callback[h].pay
           /\ gate[PayOf(h)] = "paid",
         applied' = applied
  PROVE  MoneyInv'
<1>1. MoneyInv
  BY DEF PaidInv
<1>2. ActiveIsPaidFor'
  BY <1>1 DEF MoneyInv, ActiveIsPaidFor
<1>3. \A h \in Handler : (callback[h].pc \in {"markPaid", "activate"})' => (gate[PayOf(h)] = "paid")'
  BY <1>1 DEF PayOf
<1>4. QED
  BY <1>2, <1>3 DEF MoneyInv

\* What the invariant says of the state before a step.
LEMMA PaidFacts ==
  ASSUME PaidInv
  PROVE  /\ BillingInv /\ MoneyInv /\ AppliedInv /\ BuyerInv /\ CallbackInv
         /\ payment \in [Purchase -> PaymentRow \cup {NoPayment}]
         /\ buyer \in [Purchase -> BuyerState]
         /\ callback \in [Handler -> CallbackState]
         /\ gate \in [Purchase -> {"closed", "open", "paid", "declined"}]
         /\ applied \in [Purchase -> Nat]
         /\ \A h \in Handler : callback[h].pc # "idle" => PayOf(h) \in Purchase
  BY Facts, CallbackFacts DEF PaidInv, BillingInv, BillingTypeOK

\* A purchase disturbs no settled payment and no callback.
LEMMA PaidBuyer ==
  ASSUME PaidInv, NEW p \in Purchase, BuyStep(p) \/ OwnerDecides(p) \/ BuyerDies(p)
  PROVE  MoneyInv' /\ AppliedInv'
<1>0. /\ BillingInv /\ MoneyInv /\ AppliedInv /\ BuyerInv /\ CallbackInv
      /\ payment \in [Purchase -> PaymentRow \cup {NoPayment}]
      /\ buyer \in [Purchase -> BuyerState]
      /\ gate \in [Purchase -> {"closed", "open", "paid", "declined"}]
      /\ \A h \in Handler : callback[h].pc # "idle" => PayOf(h) \in Purchase
  BY PaidFacts
<1>1. UNCHANGED <<sub, callback, applied>>
  BY DEF BuyStep, BuyRead, BuyCheck, BuyCreate, BuyRequest, BuyStore, OwnerDecides, BuyerDies
<1>2. \A q \in Purchase : buyer[q].pc = "done" => buyer'[q].pc = "done"
  <2>1. CASE BuyRead(p) \/ BuyCheck(p) \/ BuyerDies(p) \/ OwnerDecides(p)
    BY <1>0, <2>1 DEF BuyRead, BuyCheck, BuyerDies, OwnerDecides, NoBuyer, BuyerState
  <2>2. CASE BuyCreate(p) \/ BuyRequest(p) \/ BuyStore(p)
    BY <1>0, <2>2 DEF BuyCreate, BuyRequest, BuyStore, Goes, BuyerState
  <2>3. QED
    BY <2>1, <2>2 DEF BuyStep
<1>3. /\ \A q \in Purchase : gate[q] = "paid" => gate'[q] = "paid"
      /\ \A q \in Purchase : gate'[q] \in {"paid", "declined"} => buyer'[q].pc = "done"
  <2>1. CASE BuyRequest(p) \/ OwnerDecides(p)
    BY <1>0, <1>2, <2>1 DEF BuyRequest, OwnerDecides, Goes, BuyerState, MoneyInv
  <2>2. CASE ~(BuyRequest(p) \/ OwnerDecides(p))
    BY <1>0, <1>2, <2>2 DEF BuyStep, BuyRead, BuyCheck, BuyCreate, BuyStore, BuyerDies, MoneyInv
  <2>3. QED
    BY <2>1, <2>2
<1>4. /\ \A q \in Purchase : payment[q].status # "absent" =>
           payment'[q].status = payment[q].status /\ payment'[q].plan = payment[q].plan
      /\ \A q \in Purchase : payment'[q].status = "paid" => payment[q].status = "paid"
  <2>1. CASE BuyCreate(p) \/ BuyStore(p)
    BY <1>0, <2>1, SMTT(30) DEF BuyCreate, BuyStore, Goes, BuyerInv, PaymentRow, NoPayment
  <2>2. CASE ~(BuyCreate(p) \/ BuyStore(p))
    BY <2>2 DEF BuyStep, BuyRead, BuyCheck, BuyRequest, OwnerDecides, BuyerDies
  <2>3. QED
    BY <2>1, <2>2
<1>5. \A q \in Purchase : gate[q] = "paid" => payment'[q].plan = payment[q].plan
  <2>1. CASE BuyCreate(p)
    BY <1>0, <2>1 DEF BuyCreate, Goes, MoneyInv
  <2>2. CASE ~BuyCreate(p)
    <3>1. CASE BuyStore(p)
      BY <1>0, <3>1 DEF BuyStore, PaymentRow, NoPayment
    <3>2. CASE ~BuyStore(p)
      BY <2>2, <3>2 DEF BuyStep, BuyRead, BuyCheck, BuyRequest, OwnerDecides, BuyerDies
    <3>3. QED
      BY <3>1, <3>2
  <2>3. QED
    BY <2>1, <2>2
<1>6. MoneyInv'
  <2>1. \A h \in Handler : callback'[h].pc \in {"markPaid", "activate"} =>
          /\ callback'[h].pay \in Purchase /\ callback'[h].pay = callback[h].pay
          /\ gate[PayOf(h)] = "paid"
    BY <1>0, <1>1 DEF MoneyInv, PayOf
  <2>2. QED
    BY <1>1, <1>3, <1>4, <1>5, <2>1, MoneyStays
<1>7. AppliedInv'
  BY <1>0, <1>1, <1>4 DEF AppliedInv, Settled, PayOf
<1>8. QED
  BY <1>6, <1>7

\* A callback that has begun, whatever the others have done meanwhile.
LEMMA PaidCallback ==
  ASSUME PaidInv, NEW h \in Handler, CallbackStep(h) \/ VerifyFails(h) \/ CallbackDies(h)
  PROVE  MoneyInv' /\ AppliedInv'
<1>0. /\ BillingInv /\ MoneyInv /\ AppliedInv /\ CallbackInv
      /\ callback \in [Handler -> CallbackState]
      /\ applied \in [Purchase -> Nat]
      /\ \A g \in Handler : callback[g].pc # "idle" => PayOf(g) \in Purchase
  BY PaidFacts
<1>1. callback[h].pc # "idle" => PayOf(h) \in Purchase /\ payment[PayOf(h)] \in PaymentRow
  BY <1>0, CallbackFacts
<1>2. ASSUME \/ callback'[h].pc \notin {"markPaid", "activate"}
             \/ /\ callback'[h].pay = callback[h].pay /\ callback[h].pc # "idle"
                /\ gate[PayOf(h)] = "paid",
             \A g \in Handler \ {h} : callback'[g] = callback[g]
      PROVE  \A g \in Handler : callback'[g].pc \in {"markPaid", "activate"} =>
               /\ callback'[g].pay \in Purchase /\ callback'[g].pay = callback[g].pay
               /\ gate[PayOf(g)] = "paid"
  BY <1>0, <1>2 DEF MoneyInv, PayOf
<1>3. \A p \in Purchase : gate[p] \in {"paid", "declined"} => buyer[p].pc = "done"
  BY <1>0 DEF MoneyInv
<1>4. CASE SubRead(h) \/ Verified(h) \/ NotVerified(h) \/ VerifyFails(h) \/ CallbackDies(h)
  <2>1. /\ \/ callback'[h].pc \in {"idle", "verify", "markFailed"}
           \/ /\ callback'[h].pay = callback[h].pay /\ callback[h].pc # "idle"
              /\ callback'[h].pc = "markPaid" /\ gate[PayOf(h)] = "paid"
        /\ \A g \in Handler \ {h} : callback'[g] = callback[g]
        /\ UNCHANGED <<sub, payment, gate, buyer, applied>>
    <3>1. CASE SubRead(h)
      BY <1>0, <3>1 DEF SubRead, CallbackState
    <3>2. CASE Verified(h)
      BY <1>0, <3>2 DEF Verified, Moves, CallbackState
    <3>3. CASE NotVerified(h) \/ VerifyFails(h)
      BY <1>0, <3>3 DEF NotVerified, VerifyFails, FoundUnpaid, CallbackState
    <3>4. CASE CallbackDies(h)
      BY <1>0, <3>4 DEF CallbackDies, NoCallback
    <3>5. QED
      BY <1>4, <3>1, <3>2, <3>3, <3>4
  <2>2. MoneyInv'
    BY <1>2, <1>3, <2>1, MoneyStays
  <2>3. AppliedInv'
    BY <1>0, <2>1 DEF AppliedInv, Settled, PayOf
  <2>4. QED
    BY <2>2, <2>3
<1>5. CASE MarkFailed(h)
  <2>1. /\ callback[h].pc = "markFailed" /\ callback'[h].pc = "idle"
        /\ \A g \in Handler \ {h} : callback'[g] = callback[g]
        /\ UNCHANGED <<sub, gate, buyer, applied>>
    BY <1>0, <1>5 DEF MarkFailed, Ends, NoCallback
  <2>2. /\ payment'[PayOf(h)].status = "failed"
        /\ \A q \in Purchase \ {PayOf(h)} : payment'[q] = payment[q]
        /\ \A q \in Purchase : payment'[q].plan = payment[q].plan
    BY <1>0, <1>1, <1>5, <2>1, Settling DEF MarkFailed
  <2>3. \A q \in Purchase : payment'[q].status = "paid" => payment[q].status = "paid"
    BY <2>2
  <2>4. MoneyInv'
    BY <1>2, <1>3, <2>1, <2>2, <2>3, MoneyStays
  <2>5. AppliedInv'
    BY <1>0, <2>1, <2>2 DEF AppliedInv, Settled, PayOf
  <2>6. QED
    BY <2>4, <2>5
<1>6. CASE MarkPaid(h)
  <2>1. /\ callback[h].pc = "markPaid"
        /\ callback'[h].pc = "activate" /\ callback'[h].pay = callback[h].pay
        /\ \A g \in Handler \ {h} : callback'[g] = callback[g]
        /\ UNCHANGED <<sub, gate, buyer, applied>>
    BY <1>0, <1>6 DEF MarkPaid, Moves, CallbackState
  <2>2. /\ payment'[PayOf(h)].status = "paid"
        /\ \A q \in Purchase \ {PayOf(h)} : payment'[q] = payment[q]
        /\ \A q \in Purchase : payment'[q].plan = payment[q].plan
    BY <1>0, <1>1, <1>6, <2>1, Settling DEF MarkPaid
  <2>3. gate[PayOf(h)] = "paid" /\ PayOf(h) \in Purchase
    BY <1>0, <1>1, <2>1 DEF MoneyInv
  <2>4. \A q \in Purchase : payment'[q].status = "paid" => payment[q].status = "paid" \/ gate[q] = "paid"
    BY <2>2, <2>3
  <2>5. MoneyInv'
    BY <1>2, <1>3, <2>1, <2>2, <2>3, <2>4, MoneyStays
  <2>6. AppliedInv'
    BY <1>0, <2>1, <2>2 DEF AppliedInv, Settled, PayOf
  <2>7. QED
    BY <2>5, <2>6
<1>7. CASE Activate(h)
  <2>1. /\ callback[h].pc = "activate" /\ callback'[h].pc = "idle"
        /\ \A g \in Handler \ {h} : callback'[g] = callback[g]
        /\ UNCHANGED <<payment, gate, buyer>>
        /\ applied' = [applied EXCEPT ![PayOf(h)] = @ + 1]
    BY <1>0, <1>7 DEF Activate, Ends, NoCallback
  <2>2. sub'.plan = payment[PayOf(h)].plan
    BY <1>7 DEF Activate
  <2>3. /\ PayOf(h) \in Purchase /\ Settled(PayOf(h)) /\ gate[PayOf(h)] = "paid"
        /\ \A q \in Purchase : applied'[q] > 0 => applied[q] > 0 \/ q = PayOf(h)
    BY <1>0, <1>1, <2>1 DEF AppliedInv, MoneyInv
  <2>4. ActiveIsPaidFor'
    BY <1>0, <2>1, <2>2, <2>3 DEF MoneyInv, ActiveIsPaidFor
  <2>5. MoneyInv'
    BY <1>0, <2>1, <2>4 DEF MoneyInv, PayOf
  <2>6. AppliedInv'
    BY <1>0, <2>1, <2>3 DEF AppliedInv, Settled, PayOf
  <2>7. QED
    BY <2>5, <2>6
<1>8. QED
  BY <1>4, <1>5, <1>6, <1>7 DEF CallbackStep

\* A callback that begins has found its payment pending.
LEMMA PaidArrival ==
  ASSUME PaidInv, NEW h \in Handler, NEW p \in Purchase, FailureRead(h, p) \/ SuccessRead(h, p)
  PROVE  /\ callback'[h].pay = p /\ applied[p] = 0
         /\ \A g \in Handler \ {h} : callback'[g] = callback[g]
         /\ MoneyInv' /\ AppliedInv'
<1>0. /\ MoneyInv /\ AppliedInv /\ callback \in [Handler -> CallbackState]
      /\ applied \in [Purchase -> Nat]
      /\ \A g \in Handler : callback[g].pc # "idle" => PayOf(g) \in Purchase
  BY PaidFacts
<1>1. PICK pc \in {"readSub", "markFailed"}, at \in {0, now} : Arrives(h, p, pc, at)
  BY DEF FailureRead, SuccessRead
<1>2. /\ callback'[h].pc \in {"readSub", "markFailed"} /\ callback'[h].pay = p
      /\ \A g \in Handler \ {h} : callback'[g] = callback[g]
  BY <1>0, <1>1 DEF Arrives, NoCallback
<1>3. payment[p].status = "pending" /\ UNCHANGED <<sub, payment, gate, buyer, applied>>
  BY DEF FailureRead, SuccessRead
<1>4. applied[p] = 0
  BY <1>0, <1>3 DEF AppliedInv, Settled
<1>5. \A g \in Handler : callback'[g].pc \in {"markPaid", "activate"} =>
        /\ callback'[g].pay \in Purchase /\ callback'[g].pay = callback[g].pay
        /\ gate[PayOf(g)] = "paid"
  BY <1>0, <1>2 DEF MoneyInv, PayOf
<1>6. MoneyInv'
  BY <1>0, <1>3, <1>5, MoneyStays DEF MoneyInv
<1>7. AppliedInv'
  BY <1>0, <1>2, <1>3 DEF AppliedInv, Settled, PayOf
<1>8. QED
  BY <1>2, <1>4, <1>6, <1>7

\* Every step keeps the books straight.
LEMMA PaidStep ==
  ASSUME PaidInv, [Next]_vars
  PROVE  PaidInv'
<1>0. MoneyInv /\ AppliedInv /\ BillingInv'
  BY BillingStep, PaidFacts
<1> SUFFICES MoneyInv' /\ AppliedInv'
  BY <1>0 DEF PaidInv
<1>1. CASE Tick \/ UNCHANGED vars
  BY <1>0, <1>1 DEF Tick, vars, MoneyInv, ActiveIsPaidFor, AppliedInv, Settled, PayOf
<1>2. CASE StartTrial
  <2>1. sub'.status = "trial"
    BY <1>2 DEF StartTrial
  <2>2. QED
    BY <1>0, <1>2, <2>1 DEF StartTrial, MoneyInv, ActiveIsPaidFor, AppliedInv, Settled, PayOf
<1>3. QED
  BY <1>1, <1>2, PaidBuyer, PaidArrival, PaidCallback DEF Next

\* The invariant holds throughout.
LEMMA PaidInvariant == Spec => []PaidInv
  BY PaidInit, PaidStep, PTL DEF Spec

\* A salon that is active is on a plan the gateway took the money for, and no
\* payment counts as paid, or has extended the subscription, without its money:
\* for any number of callbacks at once (activateFromPayment).
THEOREM ActiveSalonHasPaid == Spec => []ActiveIsPaidFor
  BY PaidInvariant, PTL DEF PaidInv, MoneyInv

\* No callback begins to be served on a payment that has extended the
\* subscription, however many are being served already: a payment that was settled
\* is never pending again (activateFromPayment).
THEOREM AppliedPaymentIsClosed == Spec => AppliedIsClosed
<1> DEFINE Begins(h) == callback[h] = NoCallback /\ callback'[h] # NoCallback
<1>1. ASSUME PaidInv, [Next]_vars, NEW h \in Handler, Begins(h)
      PROVE  applied[callback'[h].pay] = 0
  <2>0. BillingInv /\ CallbackInv /\ callback \in [Handler -> CallbackState]
    BY <1>1, PaidFacts
  <2>1. ASSUME NEW g \in Handler, NEW p \in Purchase, FailureRead(g, p) \/ SuccessRead(g, p)
        PROVE  applied[callback'[h].pay] = 0
    BY <1>1, <2>1, PaidArrival
  <2>2. ASSUME NEW g \in Handler, CallbackStep(g) \/ VerifyFails(g) \/ CallbackDies(g)
        PROVE  FALSE
    <3>1. callback[g].pc # "idle"
      BY <2>0, <2>2 DEF CallbackInv, CallbackStep, SubRead, Verified, NotVerified, VerifyFails,
           FoundUnpaid, MarkFailed, MarkPaid, Activate, CallbackDies, Moves, Ends
    <3>2. g # h
      BY <1>1, <3>1 DEF NoCallback
    <3>3. callback'[h] = callback[h]
      BY <2>0, <2>2, <3>2 DEF CallbackStep, SubRead, Verified, NotVerified, VerifyFails,
           FoundUnpaid, MarkFailed, MarkPaid, Activate, CallbackDies, Moves, Ends
    <3>4. QED
      BY <1>1, <3>3
  <2>3. CASE callback' = callback
    BY <1>1, <2>3
  <2>4. ASSUME NEW p \in Purchase, BuyStep(p) \/ OwnerDecides(p) \/ BuyerDies(p)
        PROVE  callback' = callback
    BY <2>4 DEF BuyStep, BuyRead, BuyCheck, BuyCreate, BuyRequest, BuyStore, OwnerDecides, BuyerDies
  <2>5. CASE Tick \/ StartTrial \/ UNCHANGED vars
    BY <2>3, <2>5 DEF Tick, StartTrial, vars
  <2>6. QED
    BY <1>1, <2>1, <2>2, <2>3, <2>4, <2>5 DEF Next
<1>2. PaidInv /\ [Next]_vars =>
        [\A h \in Handler : Begins(h) => applied[callback'[h].pay] = 0]_vars
  BY <1>1
<1>3. QED
  BY <1>2, PaidInvariant, PTL DEF Spec, AppliedIsClosed
=============================================================================
