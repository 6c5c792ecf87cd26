------------------------------ MODULE OtpLogin ------------------------------
(***************************************************************************)
(* Signing in with a code sent by SMS: the requests for a code and the     *)
(* verifications of one phone number, running on any number of replicas of *)
(* the API.                                                                *)
(*                                                                         *)
(* A request supersedes the challenges of the phone, hands a code to the   *)
(* SMS provider and only then stores the challenge.  A verification reads  *)
(* the newest live challenge, judges the guess against what it read, and   *)
(* spends the challenge, or counts the failure, in one SQL statement that  *)
(* tests the row again.  A request inserts at most one row: both share an  *)
(* identifier.                                                             *)
(*                                                                         *)
(* A verification whose read finds no challenge, or one that has expired,  *)
(* ends without touching anything and is no action.                        *)
(***************************************************************************)
EXTENDS Integers, FiniteSets

CONSTANTS
  Request,      \* requests for a code, and the challenges they store
  Verifier,     \* verifications
  Code,         \* the codes that exist
  Window,       \* how long a challenge may be used
  MaxAttempts,  \* MAX_OTP_ATTEMPTS
  Null,
  MaxTime,      \* bound: the clock stops here
  MaxFaults     \* bound on failed deliveries and on handlers that die

ASSUME OtpAssumption ==
  /\ IsFiniteSet(Verifier)
  /\ Window \in Nat /\ MaxAttempts \in Nat \ {0}
  /\ Null \notin Request \cup Code
  /\ MaxTime \in Nat /\ MaxFaults \in Nat

VARIABLES
  now,       \* the clock
  otp,       \* the challenge each request has stored
  request,   \* the requests
  verifier,  \* the verifications
  phone,     \* the codes that reached the phone, with the challenge of each
  customer,  \* the customer row of the phone
  maker,     \* history: the challenge whose sign-in made that row
  session,   \* the sessions opened: the verification, its challenge, its guess
  faults

vars == <<now, otp, request, verifier, phone, customer, maker, session, faults>>

Challenge(code, at) == [ code |-> code, issuedAt |-> at, invalidated |-> FALSE,
                         consumed |-> FALSE, attempts |-> 0 ]

NoOtp      == Challenge(Null, 0)
NoRequest  == [pc |-> "idle", at |-> 0, over |-> {}, code |-> Null]
Finished(q) == [pc |-> "done", at |-> 0, over |-> q.over, code |-> Null]

NoVerifier == [pc |-> "idle", guess |-> Null, id |-> Null, attempts |-> 0]
Answered   == [NoVerifier EXCEPT !.pc = "done"]

\* A verification that came to nothing after it had spent a challenge.
Lost(w, pc) == [pc |-> pc, guess |-> Null, id |-> w.id, attempts |-> 0]

\* A verification that is turning a challenge into a session.
Signing == {"spent", "create", "issue"}

OtpRow == [ code : Code, issuedAt : 0..MaxTime, invalidated : BOOLEAN, consumed : BOOLEAN,
            attempts : 0..MaxAttempts ]

RequestState == [ pc : {"idle", "supersede", "deliver", "store", "done", "dead"},
                  at : 0..MaxTime, over : SUBSET Request, code : Code \cup {Null} ]

VerifierState == [ pc : {"idle", "match", "mismatch", "counted", "spent", "create", "issue", "done",
                         "beaten", "dead"},
                   guess : Code \cup {Null}, id : Request \cup {Null}, attempts : 0..MaxAttempts ]

\* Type correctness of the sign-in state.
OtpTypeOK ==
  /\ now \in 0..MaxTime
  /\ otp \in [Request -> OtpRow \cup {NoOtp}]
  /\ request \in [Request -> RequestState]
  /\ verifier \in [Verifier -> VerifierState]
  /\ phone \subseteq Request \X Code
  /\ customer \in {"none", "active", "blocked"}
  /\ maker \in Request \cup {Null}
  /\ session \subseteq Verifier \X Request \X Code
  /\ faults \in 0..MaxFaults

Init ==
  /\ now = 0
  /\ otp = [r \in Request |-> NoOtp]
  /\ request = [r \in Request |-> NoRequest]
  /\ verifier = [v \in Verifier |-> NoVerifier]
  /\ phone = {}
  /\ customer \in {"none", "active", "blocked"}
  /\ maker = Null
  /\ session = {}
  /\ faults = 0

Stored(r) == otp[r] # NoOtp

\* The challenges a request supersedes and a verification may read.
Live == {r \in Request : Stored(r) /\ ~otp[r].invalidated /\ ~otp[r].consumed}

Expired(r) == now > otp[r].issuedAt + Window

-----------------------------------------------------------------------------
(***************************************************************************)
(* Requesting a code.                                                      *)
(***************************************************************************)

\* The request arrives; the time it read becomes the time of its challenge.
\* over keeps, for the properties, the challenges that were stored by then.
RequestArrives(r) ==
  /\ request[r].pc = "idle"
  /\ request' = [request EXCEPT ![r] = [ pc |-> "supersede", at |-> now,
                                         over |-> {c \in Request : Stored(c)}, code |-> Null ]]
  /\ UNCHANGED <<now, otp, verifier, phone, customer, maker, session, faults>>

\* Mutant: the previous challenges stay usable.
Supersede_Keep(r) ==
  /\ request[r].pc = "supersede"
  /\ request' = [request EXCEPT ![r].pc = "deliver"]
  /\ UNCHANGED <<now, otp, verifier, phone, customer, maker, session, faults>>

\* Every challenge of the phone that is not consumed is invalidated.
Supersede(r) ==
  /\ request[r].pc = "supersede"
  /\ otp' = [c \in Request |-> IF c \in Live THEN [otp[c] EXCEPT !.invalidated = TRUE]
                               ELSE otp[c]]
  /\ request' = [request EXCEPT ![r].pc = "deliver"]
  /\ UNCHANGED <<now, verifier, phone, customer, maker, session, faults>>

\* A code is generated, and the provider takes it.
Deliver(r) ==
  /\ request[r].pc = "deliver"
  /\ \E code \in Code :
       /\ request' = [request EXCEPT ![r] = [@ EXCEPT !.pc = "store", !.code = code]]
       /\ phone' = phone \cup {<<r, code>>}
  /\ UNCHANGED <<now, otp, verifier, customer, maker, session, faults>>

\* The provider refuses: the request fails, and the phone has no challenge left.
DeliveryFails(r) ==
  /\ request[r].pc = "deliver" /\ faults < MaxFaults
  /\ request' = [request EXCEPT ![r].pc = "done"]
  /\ faults' = faults + 1
  /\ UNCHANGED <<now, otp, verifier, phone, customer, maker, session>>

\* Mutant: the code the replica made up is stored, not the one that was delivered.
Store_Generated(r) ==
  /\ request[r].pc = "store"
  /\ \E code \in Code : otp' = [otp EXCEPT ![r] = Challenge(code, request[r].at)]
  /\ request' = [request EXCEPT ![r] = Finished(@)]
  /\ UNCHANGED <<now, verifier, phone, customer, maker, session, faults>>

\* The challenge is stored, dated when the request arrived.
Store(r) ==
  /\ request[r].pc = "store"
  /\ otp' = [otp EXCEPT ![r] = Challenge(request[r].code, request[r].at)]
  /\ request' = [request EXCEPT ![r] = Finished(@)]
  /\ UNCHANGED <<now, verifier, phone, customer, maker, session, faults>>

\* The replica dies: the code may have left without a challenge to match it.
RequestDies(r) ==
  /\ request[r].pc \in {"supersede", "deliver", "store"} /\ faults < MaxFaults
  /\ request' = [request EXCEPT ![r].pc = IF @ = "supersede" THEN "dead" ELSE "done"]
  /\ faults' = faults + 1
  /\ UNCHANGED <<now, otp, verifier, phone, customer, maker, session>>

-----------------------------------------------------------------------------
(***************************************************************************)
(* Verifying a code.                                                       *)
(***************************************************************************)

\* The newest live challenges: two requests of one instant leave it to the
\* database which of their challenges it returns.
Newest == {r \in Live : \A other \in Live : otp[other].issuedAt <= otp[r].issuedAt}

\* A guess is judged against the newest live challenge.
Judge(v) ==
  /\ verifier[v].pc = "idle"
  /\ \E r \in Newest, guess \in Code :
       /\ ~Expired(r)
       /\ verifier' = [verifier EXCEPT ![v] =
            [ pc       |-> IF guess = otp[r].code THEN "match" ELSE "mismatch",
              guess    |-> guess,
              id       |-> r,
              attempts |-> otp[r].attempts ]]
  /\ UNCHANGED <<now, otp, request, phone, customer, maker, session, faults>>

\* The test both statements make of the row they update.
Usable(r) ==
  /\ ~otp[r].invalidated /\ ~otp[r].consumed
  /\ now < otp[r].issuedAt + Window
  /\ otp[r].attempts < MaxAttempts

\* Mutant: the count is written back as the verification read it, plus one.
CountFailure_ReadThenWrite(v) ==
  LET r == verifier[v].id
      attempts == verifier[v].attempts + 1
  IN  /\ verifier[v].pc = "mismatch"
      /\ IF Usable(r)
         THEN /\ otp' = [otp EXCEPT ![r] = [@ EXCEPT !.attempts = attempts,
                                                     !.invalidated = attempts >= MaxAttempts]]
              /\ verifier' = [verifier EXCEPT ![v].pc = "counted"]
         ELSE /\ verifier' = [verifier EXCEPT ![v] = Answered]
              /\ UNCHANGED otp
      /\ UNCHANGED <<now, request, phone, customer, maker, session, faults>>

\* The challenge after one more failure.
Charged(row) == [row EXCEPT !.attempts = @ + 1, !.invalidated = row.attempts + 1 >= MaxAttempts]

\* A wrong guess is counted by the database, and the last one the challenge has
\* left invalidates it.  Both outcomes are the same error for the caller.
CountFailure(v) ==
  LET r == verifier[v].id
  IN  /\ verifier[v].pc = "mismatch"
      /\ IF Usable(r)
         THEN /\ otp' = [otp EXCEPT ![r] = Charged(@)]
              /\ verifier' = [verifier EXCEPT ![v].pc = "counted"]
         ELSE /\ verifier' = [verifier EXCEPT ![v] = Answered]
              /\ UNCHANGED otp
      /\ UNCHANGED <<now, request, phone, customer, maker, session, faults>>

\* Mutant: what the verification read is believed, and the row not tested again.
Consume_Unchecked(v) ==
  LET r == verifier[v].id
  IN  /\ verifier[v].pc = "match"
      /\ otp' = [otp EXCEPT ![r].consumed = TRUE]
      /\ verifier' = [verifier EXCEPT ![v].pc = "spent"]
      /\ UNCHANGED <<now, request, phone, customer, maker, session, faults>>

\* A right guess spends the challenge, once.
Consume(v) ==
  LET r == verifier[v].id
  IN  /\ verifier[v].pc = "match"
      /\ IF Usable(r)
         THEN /\ otp' = [otp EXCEPT ![r].consumed = TRUE]
              /\ verifier' = [verifier EXCEPT ![v].pc = "spent"]
         ELSE /\ verifier' = [verifier EXCEPT ![v] = Answered]
              /\ UNCHANGED otp
      /\ UNCHANGED <<now, request, phone, customer, maker, session, faults>>

\* The customer of the phone is looked up; a blocked one is turned away with the
\* challenge already spent.
FindCustomer(v) ==
  /\ verifier[v].pc = "spent"
  /\ verifier' = [verifier EXCEPT ![v] =
       CASE customer = "none"    -> [@ EXCEPT !.pc = "create"]
         [] customer = "active"  -> [@ EXCEPT !.pc = "issue"]
         [] customer = "blocked" -> Answered]
  /\ UNCHANGED <<now, otp, request, phone, customer, maker, session, faults>>

\* A new phone gets its customer row.  The phone is unique: of two sign-ins that
\* both found nothing the second is refused by the database.
CreateCustomer(v) ==
  /\ verifier[v].pc = "create"
  /\ verifier' = [verifier EXCEPT ![v] =
       IF customer = "none" THEN [@ EXCEPT !.pc = "issue"] ELSE Lost(@, "beaten")]
  /\ customer' = IF customer = "none" THEN "active" ELSE customer
  /\ maker' = IF customer = "none" THEN verifier[v].id ELSE maker
  /\ UNCHANGED <<now, otp, request, phone, session, faults>>

\* Mutant: the session is forgotten and only the tokens are signed.
IssueTokens_Unstored(v) ==
  /\ verifier[v].pc = "issue"
  /\ verifier' = [verifier EXCEPT ![v] = Answered]
  /\ UNCHANGED <<now, otp, request, phone, customer, maker, session, faults>>

\* The refresh session is stored, and the tokens go out.
IssueTokens(v) ==
  /\ verifier[v].pc = "issue"
  /\ session' = session \cup {<<v, verifier[v].id, verifier[v].guess>>}
  /\ verifier' = [verifier EXCEPT ![v] = Answered]
  /\ UNCHANGED <<now, otp, request, phone, customer, maker, faults>>

\* The replica dies: a challenge that was spent has no session to show for it.
VerifierDies(v) ==
  /\ verifier[v].pc \in {"match", "mismatch"} \cup Signing
  /\ faults < MaxFaults
  /\ verifier' = [verifier EXCEPT ![v] = IF @.pc \in Signing THEN Lost(@, "dead") ELSE Answered]
  /\ faults' = faults + 1
  /\ UNCHANGED <<now, otp, request, phone, customer, maker, session>>

-----------------------------------------------------------------------------
Tick ==
  /\ now < MaxTime
  /\ now' = now + 1
  /\ UNCHANGED <<otp, request, verifier, phone, customer, maker, session, faults>>

RequestStep(r) ==
  RequestArrives(r) \/ Supersede(r) \/ Deliver(r) \/ DeliveryFails(r) \/ Store(r) \/ RequestDies(r)

VerifierStep(v) ==
  \/ Judge(v) \/ CountFailure(v) \/ Consume(v)
  \/ FindCustomer(v) \/ CreateCustomer(v) \/ IssueTokens(v) \/ VerifierDies(v)

Next ==
  \/ Tick
  \/ \E r \in Request : RequestStep(r)
  \/ \E v \in Verifier : VerifierStep(v)

Spec == Init /\ [][Next]_vars

-----------------------------------------------------------------------------
(***************************************************************************)
(* Properties.                                                             *)
(***************************************************************************)

\* One code opens one session, however many verifications carry it at once and
\* whatever they read before one of them spent it.
OneSessionPerCode ==
  \A s, t \in session : s[2] = t[2] => s = t

\* Every wrong guess the challenge was charged for is in its count, whatever
\* guesses were judged together; and a challenge with no guess left never
\* opened a session.
GuessesAreCounted ==
  \A r \in Request :
    /\ otp[r].attempts =
         Cardinality({v \in Verifier : verifier[v].pc = "counted" /\ verifier[v].id = r})
    /\ otp[r].consumed => otp[r].attempts < MaxAttempts

\* A session was opened with the code that was sent to the phone for its
\* challenge.
CodeWasSent ==
  \A s \in session : <<s[2], s[3]>> \in phone

\* A challenge is never spent after its window has closed, or after a request
\* that arrived when it was stored has superseded it, although a verification
\* may have read it before either happened.
SupersededIsDead ==
  [][\A r \in Request :
       otp'[r].consumed /\ ~otp[r].consumed =>
         /\ ~Expired(r)
         /\ \A later \in Request :
              request[later].pc \in {"deliver", "store", "done"} => r \notin request[later].over
    ]_vars

\* A spent challenge is a session, or the verification that spent it is still
\* turning it into one, or died in the middle.  Otherwise the customer is blocked,
\* or the verification found no customer, went to make one, and was refused
\* because the sign-in of another challenge had made it meanwhile.
SpentCodeSignsIn ==
  \A r \in Request :
    otp[r].consumed =>
      \/ \E s \in session : s[2] = r
      \/ customer = "blocked"
      \/ \E v \in Verifier :
           /\ verifier[v].id = r
           /\ \/ verifier[v].pc \in Signing \cup {"dead"}
              \/ verifier[v].pc = "beaten" /\ maker \in Request \ {r}
=============================================================================
