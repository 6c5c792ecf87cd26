------------------------- MODULE MCDepositPayments -------------------------
(***************************************************************************)
(* Small instances of DepositPayments for TLC.                             *)
(***************************************************************************)
EXTENDS DepositPayments, MCBookingLifecycle

CONSTANTS p1, p2, q1, q2

\* Payments are interchangeable, and so are the requests that work on them.
PayRequests == Permutations(Payment) \cup Permutations(PayCall)

\* A deposit paid at the gateway, for a later start than the hold lasts.
GatewayOffers == { Offer(2, OneStaff, OneChair, Null, "gateway", {}) }

\* A deposit by card transfer.
TransferOffers == { Offer(2, OneStaff, OneChair, Null, "card_transfer", {}) }

\* A deposit paid either way.
DepositOffers == GatewayOffers \cup TransferOffers
=============================================================================
