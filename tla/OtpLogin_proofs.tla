--------------------------- MODULE OtpLogin_proofs ---------------------------
(***************************************************************************)
(* Machine-checked facts about signing in with a code, for any number of   *)
(* requests and verifications, any codes, any window and any ceiling:      *)
(* what a code opens, which guesses count against it, and that a spent     *)
(* code is not spent for nothing.                                          *)
(***************************************************************************)
EXTENDS OtpLogin, FiniteSetTheorems, TLAPS

-----------------------------------------------------------------------------
(***************************************************************************)
(* Type correctness is not inductive: the update a verification makes      *)
(* keeps the columns it does not set, so its challenge must be stored.     *)
(***************************************************************************)
Busy == {"match", "mismatch", "counted"} \cup Signing

BusyHasRow ==
  \A v \in Verifier : verifier[v].pc \in Busy =>
    verifier[v].id \in Request /\ Stored(verifier[v].id) /\ verifier[v].guess \in Code

StoresCode == \A r \in Request : request[r].pc = "store" => request[r].code \in Code

TypeInv == OtpTypeOK /\ BusyHasRow /\ StoresCode

\* A challenge that is stored is a proper row, and an empty row is not one.
LEMMA StoredRow ==
  ASSUME OtpTypeOK, NEW r \in Request
  PROVE  /\ Stored(r) => otp[r] \in OtpRow
         /\ Stored(r) <=> otp[r].code \in Code
  BY OtpAssumption DEF OtpTypeOK, Stored, NoOtp, Challenge, OtpRow

\* The updates of a row keep it a row, of the same code.
LEMMA RowUpdates ==
  ASSUME NEW row \in OtpRow
  PROVE  /\ [row EXCEPT !.invalidated = TRUE] \in OtpRow
         /\ [row EXCEPT !.consumed = TRUE] \in OtpRow
         /\ row.attempts < MaxAttempts => Charged(row) \in OtpRow
         /\ Charged(row).code = row.code
         /\ row # NoOtp
  <1>1. row.attempts < MaxAttempts => row.attempts + 1 \in 0..MaxAttempts
    BY OtpAssumption DEF OtpRow
  <1>2. (row.attempts + 1 >= MaxAttempts) \in BOOLEAN
    OBVIOUS
  <1>3. [row EXCEPT !.invalidated = TRUE] \in OtpRow /\ [row EXCEPT !.consumed = TRUE] \in OtpRow
    BY DEF OtpRow
  <1>4. row.attempts < MaxAttempts => Charged(row) \in OtpRow
    BY <1>1, <1>2 DEF OtpRow, Charged
  <1>5. Charged(row).code = row.code
    BY DEF OtpRow, Charged
  <1>6. row # NoOtp
    BY OtpAssumption DEF OtpRow, NoOtp, Challenge
  <1>7. QED
    BY <1>3, <1>4, <1>5, <1>6

\* The updates of a verification keep it one.
LEMMA VerifierUpdates ==
  ASSUME NEW w \in VerifierState
  PROVE  /\ \A pc \in Busy : [w EXCEPT !.pc = pc] \in VerifierState
         /\ Answered \in VerifierState
         /\ Answered.pc \notin Busy
  BY OtpAssumption DEF VerifierState, Answered, NoVerifier, Busy, Signing

\* A verification that came to nothing is one, and keeps its challenge.
LEMMA LostUpdates ==
  ASSUME NEW w \in VerifierState, NEW pc \in {"beaten", "dead"}
  PROVE  /\ Lost(w, pc) \in VerifierState
         /\ Lost(w, pc).pc = pc /\ Lost(w, pc).id = w.id
  <1>1. 0 \in 0..MaxAttempts
    BY OtpAssumption
  <1>2. QED
    BY <1>1 DEF VerifierState, Lost

\* A request whose code has left is still one.
LEMMA RequestUpdates ==
  ASSUME NEW q \in RequestState, NEW code \in Code
  PROVE  [q EXCEPT !.pc = "store", !.code = code] \in RequestState
  BY DEF RequestState

\* The initial state is well-typed.
LEMMA TypeInit == Init => TypeInv
  BY OtpAssumption
  DEF Init, TypeInv, BusyHasRow, StoresCode, OtpTypeOK, RequestState, VerifierState, NoRequest,
      NoVerifier, Busy, Signing

\* Every step of a request keeps the state well-typed.
LEMMA TypeRequest ==
  ASSUME TypeInv, NEW r \in Request, RequestStep(r)
  PROVE  TypeInv'
  <1>0. /\ OtpTypeOK /\ BusyHasRow /\ StoresCode
        /\ request[r] \in RequestState /\ request \in [Request -> RequestState]
        /\ otp \in [Request -> OtpRow \cup {NoOtp}]
    BY DEF TypeInv, OtpTypeOK
  <1>1. CASE RequestArrives(r)
    <2>1. [ pc |-> "supersede", at |-> now, over |-> {c \in Request : Stored(c)}, code |-> Null ]
            \in RequestState
      BY <1>0 DEF OtpTypeOK, RequestState
    <2>2. OtpTypeOK'
      BY <1>0, <1>1, <2>1 DEF RequestArrives, OtpTypeOK
    <2>3. BusyHasRow' /\ StoresCode'
      BY <1>0, <1>1, <2>2 DEF RequestArrives, BusyHasRow, StoresCode, Stored
    <2>4. QED
      BY <2>2, <2>3 DEF TypeInv
  <1>2. CASE Supersede(r)
    <2>1. /\ otp' \in [Request -> OtpRow \cup {NoOtp}]
          /\ \A c \in Request : Stored(c) => Stored(c)'
      BY <1>0, <1>2, StoredRow, RowUpdates DEF Supersede, Live, Stored
    <2>2. request' \in [Request -> RequestState]
      BY <1>0, <1>2 DEF Supersede, RequestState
    <2>3. OtpTypeOK'
      BY <1>0, <1>2, <2>1, <2>2 DEF Supersede, OtpTypeOK
    <2>4. BusyHasRow' /\ StoresCode'
      BY <1>0, <1>2, <2>1 DEF Supersede, BusyHasRow, StoresCode
    <2>5. QED
      BY <2>3, <2>4 DEF TypeInv
  <1>3. CASE Deliver(r)
    <2>1. PICK code \in Code :
            /\ request' = [request EXCEPT ![r] = [@ EXCEPT !.pc = "store", !.code = code]]
            /\ phone' = phone \cup {<<r, code>>}
      BY <1>3 DEF Deliver
    <2>2. [request[r] EXCEPT !.pc = "store", !.code = code] \in RequestState
      BY <1>0, RequestUpdates
    <2>3. OtpTypeOK'
      BY <1>0, <1>3, <2>1, <2>2 DEF Deliver, OtpTypeOK
    <2>4. request'[r].code = code
      BY <1>0, <2>1 DEF RequestState
    <2>5. BusyHasRow' /\ StoresCode'
      BY <1>0, <1>3, <2>1, <2>4 DEF Deliver, BusyHasRow, StoresCode, Stored
    <2>6. QED
      BY <2>3, <2>5 DEF TypeInv
  <1>4. CASE DeliveryFails(r) \/ RequestDies(r)
    <2>1. request' \in [Request -> RequestState]
      BY <1>0, <1>4 DEF DeliveryFails, RequestDies, RequestState
    <2>2. OtpTypeOK'
      BY <1>0, <1>4, <2>1, OtpAssumption DEF DeliveryFails, RequestDies, OtpTypeOK
    <2>3. BusyHasRow' /\ StoresCode'
      BY <1>0, <1>4 DEF DeliveryFails, RequestDies, BusyHasRow, StoresCode, Stored, RequestState
    <2>4. QED
      BY <2>2, <2>3 DEF TypeInv
  <1>5. CASE Store(r)
    <2>1. request[r].code \in Code /\ request[r].at \in 0..MaxTime
      BY <1>0, <1>5 DEF Store, StoresCode, RequestState
    <2>2. Challenge(request[r].code, request[r].at) \in OtpRow
      BY <2>1, OtpAssumption DEF Challenge, OtpRow
    <2>3. Finished(request[r]) \in RequestState
      BY <1>0, OtpAssumption DEF RequestState, Finished
    <2>4. OtpTypeOK'
      BY <1>0, <1>5, <2>2, <2>3 DEF Store, OtpTypeOK
    <2>5. \A c \in Request : Stored(c) => Stored(c)'
      BY <1>0, <1>5, <2>2, RowUpdates DEF Store, Stored
    <2>6. BusyHasRow' /\ StoresCode'
      BY <1>0, <1>5, <2>5 DEF Store, BusyHasRow, StoresCode, RequestState, Finished
    <2>7. QED
      BY <2>4, <2>6 DEF TypeInv
  <1>6. QED
    BY <1>1, <1>2, <1>3, <1>4, <1>5 DEF RequestStep

\* Every step of a verification keeps the state well-typed.
LEMMA TypeVerifier ==
  ASSUME TypeInv, NEW v \in Verifier, VerifierStep(v)
  PROVE  TypeInv'
  <1>0. /\ OtpTypeOK /\ BusyHasRow /\ StoresCode
        /\ verifier[v] \in VerifierState /\ verifier \in [Verifier -> VerifierState]
        /\ otp \in [Request -> OtpRow \cup {NoOtp}]
    BY DEF TypeInv, OtpTypeOK
  <1>1. CASE Judge(v)
    <2>1. PICK r \in Newest, guess \in Code :
            verifier' = [verifier EXCEPT ![v] =
              [ pc       |-> IF guess = otp[r].code THEN "match" ELSE "mismatch",
                guess    |-> guess,
                id       |-> r,
                attempts |-> otp[r].attempts ]]
      BY <1>1 DEF Judge
    <2>2. r \in Request /\ Stored(r) /\ otp[r].attempts \in 0..MaxAttempts
      BY <1>0, StoredRow DEF Newest, Live, OtpRow
    <2>3. [ pc       |-> IF guess = otp[r].code THEN "match" ELSE "mismatch",
            guess    |-> guess,
            id       |-> r,
            attempts |-> otp[r].attempts ] \in VerifierState
      BY <2>2 DEF VerifierState
    <2>4. OtpTypeOK'
      BY <1>0, <1>1, <2>1, <2>3 DEF Judge, OtpTypeOK
    <2>5. BusyHasRow' /\ StoresCode'
      BY <1>0, <1>1, <2>1, <2>2 DEF Judge, BusyHasRow, StoresCode, Stored
    <2>6. QED
      BY <2>4, <2>5 DEF TypeInv
  <1>2. CASE CountFailure(v) \/ Consume(v)
    <2> DEFINE r == verifier[v].id
    <2>1. r \in Request /\ Stored(r) /\ otp[r] \in OtpRow
      BY <1>0, <1>2, StoredRow DEF CountFailure, Consume, BusyHasRow, Busy, Signing
    <2>2. /\ otp' \in [Request -> OtpRow \cup {NoOtp}]
          /\ \A c \in Request : Stored(c) => Stored(c)'
      <3>1. CASE CountFailure(v) /\ Usable(r)
        BY <1>0, <2>1, <3>1, RowUpdates DEF CountFailure, Usable, Stored
      <3>2. CASE Consume(v) /\ Usable(r)
        BY <1>0, <2>1, <3>2, RowUpdates DEF Consume, Stored
      <3>3. CASE ~Usable(r)
        BY <1>0, <1>2, <3>3 DEF CountFailure, Consume, Stored
      <3>4. QED
        BY <1>2, <3>1, <3>2, <3>3
    <2>3. verifier' \in [Verifier -> VerifierState]
      <3>1. "counted" \in Busy /\ "spent" \in Busy
        BY DEF Busy, Signing
      <3>2. QED
        BY <1>0, <1>2, <3>1, VerifierUpdates DEF CountFailure, Consume
    <2>4. OtpTypeOK'
      BY <1>0, <1>2, <2>2, <2>3 DEF CountFailure, Consume, OtpTypeOK
    <2>5. \A w \in Verifier : verifier'[w].pc \in Busy =>
            /\ verifier[w].pc \in Busy
            /\ verifier'[w].id = verifier[w].id /\ verifier'[w].guess = verifier[w].guess
      BY <1>0, <1>2 DEF CountFailure, Consume, Answered, NoVerifier, VerifierState, Busy, Signing
    <2>6. request' = request
      BY <1>2 DEF CountFailure, Consume
    <2>7. BusyHasRow' /\ StoresCode'
      BY <1>0, <2>2, <2>5, <2>6 DEF BusyHasRow, StoresCode
    <2>8. QED
      BY <2>4, <2>7 DEF TypeInv
  <1>3. CASE FindCustomer(v) \/ CreateCustomer(v) \/ IssueTokens(v) \/ VerifierDies(v)
    <2>1. verifier' \in [Verifier -> VerifierState]
      <3>1. CASE FindCustomer(v)
        BY <1>0, <3>1, VerifierUpdates DEF FindCustomer, Busy, Signing, OtpTypeOK
      <3>2. CASE CreateCustomer(v)
        BY <1>0, <3>2, VerifierUpdates, LostUpdates DEF CreateCustomer, Busy, Signing
      <3>3. CASE IssueTokens(v) \/ VerifierDies(v)
        BY <1>0, <3>3, VerifierUpdates, LostUpdates DEF IssueTokens, VerifierDies
      <3>4. QED
        BY <1>3, <3>1, <3>2, <3>3
    <2>2. session' \subseteq Verifier \X Request \X Code
      BY <1>0, <1>3
      DEF FindCustomer, CreateCustomer, IssueTokens, VerifierDies, OtpTypeOK, BusyHasRow, Busy,
          Signing
    <2>3. OtpTypeOK'
      <3>1. maker' \in Request \cup {Null}
        BY <1>0, <1>3
        DEF FindCustomer, CreateCustomer, IssueTokens, VerifierDies, OtpTypeOK, BusyHasRow, Busy,
            Signing
      <3>2. QED
        BY <1>0, <1>3, <2>1, <2>2, <3>1, OtpAssumption
        DEF FindCustomer, CreateCustomer, IssueTokens, VerifierDies, OtpTypeOK
    <2>4. \A w \in Verifier : verifier'[w].pc \in Busy =>
            /\ verifier[w].pc \in Busy
            /\ verifier'[w].id = verifier[w].id /\ verifier'[w].guess = verifier[w].guess
      <3>1. CASE FindCustomer(v) \/ IssueTokens(v)
        BY <1>0, <3>1
        DEF FindCustomer, IssueTokens, Answered, NoVerifier, VerifierState, Busy, Signing, OtpTypeOK
      <3>2. CASE CreateCustomer(v)
        BY <1>0, <3>2 DEF CreateCustomer, Lost, VerifierState, Busy, Signing
      <3>3. CASE VerifierDies(v)
        BY <1>0, <3>3 DEF VerifierDies, Answered, Lost, NoVerifier, VerifierState, Busy, Signing
      <3>4. QED
        BY <1>3, <3>1, <3>2, <3>3
    <2>5. request' = request /\ otp' = otp
      BY <1>3 DEF FindCustomer, CreateCustomer, IssueTokens, VerifierDies
    <2>6. BusyHasRow' /\ StoresCode'
      BY <1>0, <2>4, <2>5 DEF BusyHasRow, StoresCode, Stored
    <2>7. QED
      BY <2>3, <2>6 DEF TypeInv
  <1>4. QED
    BY <1>1, <1>2, <1>3 DEF VerifierStep

\* The type invariant with its strengthening is inductive.
LEMMA TypeStep == TypeInv /\ [Next]_vars => TypeInv'
  <1> SUFFICES ASSUME TypeInv, [Next]_vars PROVE TypeInv'
    OBVIOUS
  <1>1. CASE UNCHANGED vars
    BY <1>1 DEF vars, TypeInv, BusyHasRow, StoresCode, OtpTypeOK, Stored
  <1>2. CASE Tick
    BY <1>2, OtpAssumption DEF Tick, TypeInv, BusyHasRow, StoresCode, OtpTypeOK, Stored
  <1>3. QED
    BY <1>1, <1>2, TypeRequest, TypeVerifier DEF Next

\* In every reachable state the sign-in state is well-typed.
THEOREM TypeCorrect == Spec => []OtpTypeOK
  <1>1. TypeInv => OtpTypeOK
    BY DEF TypeInv
  <1>2. QED
    BY <1>1, TypeInit, TypeStep, PTL DEF Spec

-----------------------------------------------------------------------------
(***************************************************************************)
(* What a step does to the challenges that are stored.                     *)
(***************************************************************************)

\* A request stores its challenge last.
StoredIsDone == \A r \in Request : Stored(r) => request[r].pc = "done"

RowInv == TypeInv /\ StoredIsDone

\* A challenge is stored once: afterwards its code stays, and so do the marks
\* that it was consumed or invalidated.
LEMMA RowsOnlyAge ==
  ASSUME RowInv, [Next]_vars, NEW r \in Request, Stored(r)
  PROVE  /\ Stored(r)'
         /\ otp'[r].code = otp[r].code
         /\ otp[r].consumed => otp'[r].consumed
         /\ otp[r].invalidated => otp'[r].invalidated
  <1>0. otp[r] \in OtpRow /\ otp \in [Request -> OtpRow \cup {NoOtp}] /\ request[r].pc = "done"
    BY StoredRow DEF RowInv, TypeInv, OtpTypeOK, StoredIsDone
  <1>1. CASE UNCHANGED otp
    BY <1>1 DEF Stored
  <1>2. ASSUME NEW s \in Request, Supersede(s) PROVE otp'[r] \in {otp[r], [otp[r] EXCEPT !.invalidated = TRUE]}
    BY <1>2 DEF Supersede
  <1>3. ASSUME NEW s \in Request, Store(s) PROVE otp'[r] = otp[r]
    BY <1>0, <1>3 DEF Store
  <1>4. ASSUME NEW v \in Verifier, CountFailure(v)
        PROVE  otp'[r] = otp[r] \/ (Usable(r) /\ otp'[r] = Charged(otp[r]))
    BY <1>0, <1>4 DEF CountFailure
  <1>5. ASSUME NEW v \in Verifier, Consume(v)
        PROVE  otp'[r] \in {otp[r], [otp[r] EXCEPT !.consumed = TRUE]}
    BY <1>0, <1>5 DEF Consume
  <1>6. \/ otp'[r] \in {otp[r], [otp[r] EXCEPT !.invalidated = TRUE], [otp[r] EXCEPT !.consumed = TRUE]}
        \/ Usable(r) /\ otp'[r] = Charged(otp[r])
    <2>1. CASE UNCHANGED vars \/ Tick
      BY <2>1 DEF vars, Tick
    <2>2. ASSUME NEW s \in Request, RequestStep(s) PROVE <1>6!1 \/ <1>6!2
      BY <2>2, <1>2, <1>3 DEF RequestStep, RequestArrives, Deliver, DeliveryFails, RequestDies
    <2>3. ASSUME NEW v \in Verifier, VerifierStep(v) PROVE <1>6!1 \/ <1>6!2
      BY <2>3, <1>4, <1>5
      DEF VerifierStep, Judge, FindCustomer, CreateCustomer, IssueTokens, VerifierDies
    <2>4. QED
      BY <2>1, <2>2, <2>3 DEF Next
  <1>7. CASE otp'[r] \in {otp[r], [otp[r] EXCEPT !.invalidated = TRUE], [otp[r] EXCEPT !.consumed = TRUE]}
    <2>1. CASE otp'[r] = otp[r]
      BY <2>1 DEF Stored
    <2>2. CASE otp'[r] = [otp[r] EXCEPT !.invalidated = TRUE]
      <3>1. otp'[r] \in OtpRow /\ otp'[r] # NoOtp
        BY <1>0, <2>2, RowUpdates
      <3>2. otp'[r].code = otp[r].code /\ otp'[r].consumed = otp[r].consumed /\ otp'[r].invalidated = TRUE
        BY <1>0, <2>2 DEF OtpRow
      <3>3. QED
        BY <3>1, <3>2 DEF Stored
    <2>3. CASE otp'[r] = [otp[r] EXCEPT !.consumed = TRUE]
      <3>1. otp'[r] \in OtpRow /\ otp'[r] # NoOtp
        BY <1>0, <2>3, RowUpdates
      <3>2. otp'[r].code = otp[r].code /\ otp'[r].invalidated = otp[r].invalidated /\ otp'[r].consumed = TRUE
        BY <1>0, <2>3 DEF OtpRow
      <3>3. QED
        BY <3>1, <3>2 DEF Stored
    <2>4. QED
      BY <1>7, <2>1, <2>2, <2>3
  <1>8. CASE Usable(r) /\ otp'[r] = Charged(otp[r])
    <2>1. Charged(otp[r]) \in OtpRow /\ Charged(otp[r]).consumed = otp[r].consumed
      BY <1>0, <1>8, RowUpdates DEF Usable, Charged, OtpRow
    <2>2. QED
      BY <1>0, <1>8, <2>1, RowUpdates DEF Usable, Stored
  <1>9. QED
    BY <1>6, <1>7, <1>8

\* A row appears when its request stores it.
LEMMA RowsAppear ==
  ASSUME RowInv, [Next]_vars, NEW r \in Request, ~Stored(r)
  PROVE  \/ ~Stored(r)' /\ otp'[r] = otp[r]
         \/ Store(r) /\ otp'[r] = Challenge(request[r].code, request[r].at)
  <1>0. BusyHasRow /\ otp \in [Request -> OtpRow \cup {NoOtp}]
    BY DEF RowInv, TypeInv, OtpTypeOK
  <1>1. CASE UNCHANGED vars \/ Tick
    BY <1>1 DEF vars, Tick, Stored
  <1>2. ASSUME NEW s \in Request, RequestStep(s), ~Store(r) PROVE ~Stored(r)' /\ otp'[r] = otp[r]
    BY <1>0, <1>2
    DEF RequestStep, RequestArrives, Supersede, Deliver, DeliveryFails, RequestDies, Store, Live, Stored
  <1>3. ASSUME NEW v \in Verifier, VerifierStep(v) PROVE ~Stored(r)' /\ otp'[r] = otp[r]
    BY <1>0, <1>3
    DEF VerifierStep, Judge, CountFailure, Consume, FindCustomer, CreateCustomer, IssueTokens,
        VerifierDies, BusyHasRow, Busy, Signing, Stored
  <1>4. Store(r) => otp'[r] = Challenge(request[r].code, request[r].at)
    BY <1>0 DEF Store
  <1>5. QED
    BY <1>1, <1>2, <1>3, <1>4 DEF Next

\* A step that spends a challenge is a verification of it that found it usable.
LEMMA SpendingIsChecked ==
  ASSUME RowInv, [Next]_vars, NEW r \in Request, otp'[r].consumed, ~otp[r].consumed
  PROVE  Usable(r) /\ Stored(r) /\ \E v \in Verifier : Consume(v) /\ verifier[v].id = r
  <1>0. BusyHasRow /\ otp \in [Request -> OtpRow \cup {NoOtp}]
    BY DEF RowInv, TypeInv, OtpTypeOK
  <1>1. Stored(r)
    <2>1. SUFFICES ASSUME ~Stored(r) PROVE FALSE
      OBVIOUS
    <2>2. otp'[r] = otp[r] \/ otp'[r] = Challenge(request[r].code, request[r].at)
      BY <2>1, RowsAppear
    <2>3. QED
      BY <2>2 DEF Challenge
  <1>2. otp[r] \in OtpRow
    BY <1>1, StoredRow DEF RowInv, TypeInv
  <1>3. ~(UNCHANGED vars \/ Tick)
    BY DEF vars, Tick
  <1>4. ASSUME NEW s \in Request, RequestStep(s) PROVE FALSE
    <2>1. ~Store(s) \/ s # r
      BY <1>1 DEF RowInv, StoredIsDone, Store
    <2>2. QED
      BY <1>0, <1>2, <1>4, <2>1
      DEF RequestStep, RequestArrives, Supersede, Deliver, DeliveryFails, RequestDies, Store, OtpRow
  <1>5. PICK v \in Verifier : VerifierStep(v)
    BY <1>3, <1>4 DEF Next
  <1>6. CASE CountFailure(v)
    <2>1. Charged(otp[r]).consumed = otp[r].consumed
      BY <1>2 DEF Charged, OtpRow
    <2>2. otp'[r] \in {otp[r], Charged(otp[r])}
      BY <1>0, <1>6 DEF CountFailure
    <2>3. QED
      BY <2>1, <2>2
  <1>7. CASE Consume(v)
    BY <1>0, <1>1, <1>2, <1>7 DEF Consume, OtpRow
  <1>8. QED
    BY <1>5, <1>6, <1>7
    DEF VerifierStep, Judge, FindCustomer, CreateCustomer, IssueTokens, VerifierDies

\* The facts about rows are inductive.
LEMMA RowStep == RowInv /\ [Next]_vars => RowInv'
  <1> SUFFICES ASSUME RowInv, [Next]_vars PROVE RowInv'
    OBVIOUS
  <1>1. TypeInv'
    BY TypeStep DEF RowInv
  <1>2. ASSUME NEW r \in Request, Stored(r)' PROVE request'[r].pc = "done"
    <2>0. request \in [Request -> RequestState]
      BY DEF RowInv, TypeInv, OtpTypeOK
    <2>1. CASE ~Stored(r)
      BY <1>2, <2>0, <2>1, RowsAppear DEF Store, Finished
    <2>2. CASE Stored(r)
      <3>1. request[r].pc = "done"
        BY <2>2 DEF RowInv, StoredIsDone
      <3>2. ASSUME NEW s \in Request, RequestStep(s) PROVE request'[r] = request[r]
        BY <2>0, <3>1, <3>2
        DEF RequestStep, RequestArrives, Supersede, Deliver, DeliveryFails, Store, RequestDies
      <3>3. ASSUME ~ \E s \in Request : RequestStep(s) PROVE request' = request
        BY <3>3
        DEF Next, vars, Tick, VerifierStep, Judge, CountFailure, Consume, FindCustomer,
            CreateCustomer, IssueTokens, VerifierDies
      <3>4. QED
        BY <3>1, <3>2, <3>3
    <2>3. QED
      BY <2>1, <2>2
  <1>3. QED
    BY <1>1, <1>2 DEF RowInv, StoredIsDone

LEMMA RowInit == Init => RowInv
  <1>1. Init => StoredIsDone
    BY DEF Init, StoredIsDone, Stored
  <1>2. QED
    BY <1>1, TypeInit DEF RowInv

-----------------------------------------------------------------------------
(***************************************************************************)
(* One code, one session.                                                  *)
(***************************************************************************)
Holds(v, r) == verifier[v].pc \in Signing /\ verifier[v].id = r

\* A verification that is turning a challenge into a session, or the session it
\* became, is the only one of that challenge.
OneHolder ==
  /\ \A v \in Verifier : verifier[v].pc \in Signing => otp[verifier[v].id].consumed
  /\ \A v, w \in Verifier : \A r \in Request : Holds(v, r) /\ Holds(w, r) => v = w
  /\ \A s \in session : otp[s[2]].consumed
  /\ \A s \in session : \A v \in Verifier : ~Holds(v, s[2])
  /\ OneSessionPerCode

\* Who turns challenges into sessions after a step: those who did, and a
\* verification that has just spent one nobody had.
LEMMA HoldersChange ==
  ASSUME RowInv, [Next]_vars, NEW v \in Verifier, NEW r \in Request, Holds(v, r)'
  PROVE  Holds(v, r) \/ (Consume(v) /\ verifier[v].id = r /\ Usable(r))
  <1>0. verifier \in [Verifier -> VerifierState]
    BY DEF RowInv, TypeInv, OtpTypeOK
  <1>1. CASE UNCHANGED verifier
    BY <1>1 DEF Holds
  <1>2. ASSUME NEW w \in Verifier, VerifierStep(w), w # v PROVE Holds(v, r)
    <2>1. verifier'[v] = verifier[v]
      BY <1>0, <1>2
      DEF VerifierStep, Judge, CountFailure, Consume, FindCustomer, CreateCustomer, IssueTokens,
          VerifierDies
    <2>2. QED
      BY <2>1 DEF Holds
  <1>3. CASE Judge(v)
    BY <1>0, <1>3 DEF Judge, Holds, Signing
  <1>4. CASE CountFailure(v)
    BY <1>0, <1>4 DEF CountFailure, Answered, NoVerifier, Holds, Signing, VerifierState
  <1>5. CASE Consume(v)
    BY <1>0, <1>5 DEF Consume, Answered, NoVerifier, Holds, Signing, VerifierState
  <1>6. CASE FindCustomer(v) \/ CreateCustomer(v) \/ IssueTokens(v) \/ VerifierDies(v)
    <2>1. customer \in {"none", "active", "blocked"}
      BY DEF RowInv, TypeInv, OtpTypeOK
    <2>2. QED
      BY <1>0, <1>6, <2>1
      DEF FindCustomer, CreateCustomer, IssueTokens, VerifierDies, Answered, Lost, NoVerifier, Holds,
          Signing, VerifierState
  <1>7. QED
    BY <1>1, <1>2, <1>3, <1>4, <1>5, <1>6
    DEF Next, vars, Tick, RequestStep, RequestArrives, Supersede, Deliver, DeliveryFails, Store,
        RequestDies, VerifierStep

\* A step opens at most one session, of a verification that held its challenge
\* and holds nothing afterwards.
LEMMA SessionsChange ==
  ASSUME RowInv, [Next]_vars
  PROVE  \/ session' = session
         \/ \E v \in Verifier :
              /\ verifier[v].pc = "issue" /\ verifier'[v] = Answered
              /\ session' = session \cup {<<v, verifier[v].id, verifier[v].guess>>}
  <1>1. ASSUME NEW v \in Verifier, IssueTokens(v)
        PROVE  /\ verifier[v].pc = "issue" /\ verifier'[v] = Answered
               /\ session' = session \cup {<<v, verifier[v].id, verifier[v].guess>>}
    BY <1>1 DEF IssueTokens, RowInv, TypeInv, OtpTypeOK
  <1>2. (~ \E v \in Verifier : IssueTokens(v)) => session' = session
    BY DEF Next, vars, Tick, RequestStep, RequestArrives, Supersede, Deliver, DeliveryFails, Store,
        RequestDies, VerifierStep, Judge, CountFailure, Consume, FindCustomer, CreateCustomer,
        VerifierDies
  <1>3. QED
    BY <1>1, <1>2

LEMMA HolderStep == RowInv /\ OneHolder /\ [Next]_vars => OneHolder'
  <1> SUFFICES ASSUME RowInv, OneHolder, [Next]_vars PROVE OneHolder'
    OBVIOUS
  <1>0. /\ BusyHasRow /\ verifier \in [Verifier -> VerifierState]
        /\ session \subseteq Verifier \X Request \X Code
        /\ session' \subseteq Verifier \X Request \X Code
        /\ verifier' \in [Verifier -> VerifierState] /\ BusyHasRow'
    BY TypeStep DEF RowInv, TypeInv, OtpTypeOK
  <1>1. \A r \in Request : otp[r].consumed => Stored(r) /\ otp'[r].consumed
    <2>1. \A r \in Request : otp[r].consumed => Stored(r)
      BY DEF Stored, NoOtp, Challenge
    <2>2. QED
      BY <2>1, RowsOnlyAge
  <1>2. \A v \in Verifier : Consume(v) /\ Usable(verifier[v].id) => otp'[verifier[v].id].consumed
    <2> TAKE v \in Verifier
    <2> HAVE Consume(v) /\ Usable(verifier[v].id)
    <2>1. verifier[v].id \in Request /\ otp[verifier[v].id] \in OtpRow
      BY <1>0, StoredRow DEF Consume, BusyHasRow, Busy, Signing, RowInv, TypeInv
    <2>2. otp' = [otp EXCEPT ![verifier[v].id].consumed = TRUE]
      BY DEF Consume
    <2>3. QED
      BY <2>1, <2>2 DEF RowInv, TypeInv, OtpTypeOK, OtpRow
  <1>3. \A v \in Verifier : verifier'[v].pc \in Signing => otp'[verifier'[v].id].consumed
    <2> TAKE v \in Verifier
    <2> HAVE verifier'[v].pc \in Signing
    <2>1. verifier'[v].id \in Request
      BY <1>0 DEF BusyHasRow, Busy, Signing
    <2>2. PICK r \in Request : r = verifier'[v].id
      BY <2>1
    <2>3. Holds(v, r)'
      BY <2>2 DEF Holds
    <2>4. QED
      BY <1>1, <1>2, <2>2, <2>3, HoldersChange DEF OneHolder, Holds
  <1>4. \A v, w \in Verifier : \A r \in Request : Holds(v, r)' /\ Holds(w, r)' => v = w
    <2> TAKE v, w \in Verifier
    <2> TAKE r \in Request
    <2> HAVE Holds(v, r)' /\ Holds(w, r)'
    <2>1. CASE Holds(v, r) /\ Holds(w, r)
      BY <2>1 DEF OneHolder
    <2>2. CASE Usable(r)
      <3>1. ~Holds(v, r) /\ ~Holds(w, r)
        BY <2>2 DEF OneHolder, Holds, Usable
      <3>2. Consume(v) /\ Consume(w)
        BY <3>1, HoldersChange
      <3>3. v = w
        <4>1. verifier' = [verifier EXCEPT ![v] = verifier'[v]]
          BY <1>0, <3>2 DEF Consume
        <4>2. verifier[w].pc = "match" /\ verifier'[w].pc \in Signing
          BY <3>2 DEF Consume, Holds
        <4>3. QED
          BY <1>0, <4>1, <4>2 DEF Signing
      <3>4. QED
        BY <3>3
    <2>3. QED
      BY <2>1, <2>2, HoldersChange
  <1>5. \A s \in session' : otp'[s[2]].consumed
    <2>1. ASSUME NEW v \in Verifier, verifier[v].pc = "issue"
          PROVE  verifier[v].id \in Request /\ otp[verifier[v].id].consumed
      BY <1>0, <2>1 DEF OneHolder, Signing, BusyHasRow, Busy
    <2>2. QED
      BY <1>0, <1>1, <2>1, SessionsChange DEF OneHolder
  <1>6. \A s \in session' : \A v \in Verifier : ~Holds(v, s[2])'
    <2> TAKE s \in session'
    <2> TAKE v \in Verifier
    <2>0. s[2] \in Request
      BY <1>0
    <2>1. SUFFICES ASSUME Holds(v, s[2])' PROVE FALSE
      OBVIOUS
    <2>2. CASE s \in session
      <3>1. ~Holds(v, s[2]) /\ otp[s[2]].consumed
        BY <2>2 DEF OneHolder
      <3>2. QED
        BY <2>0, <2>1, <3>1, HoldersChange DEF Usable
    <2>3. CASE s \notin session
      <3>1. PICK w \in Verifier :
              /\ verifier[w].pc = "issue" /\ verifier'[w] = Answered
              /\ session' = session \cup {<<w, verifier[w].id, verifier[w].guess>>}
        BY <2>3, SessionsChange
      <3>2. s[2] = verifier[w].id /\ Holds(w, s[2])
        BY <2>3, <3>1 DEF Holds, Signing
      <3>3. otp[s[2]].consumed
        BY <3>2 DEF OneHolder, Holds
      <3>4. Holds(v, s[2])
        BY <2>0, <2>1, <3>3, HoldersChange DEF Usable
      <3>5. v = w
        BY <2>0, <3>2, <3>4 DEF OneHolder
      <3>6. QED
        BY <2>1, <3>1, <3>5 DEF Holds, Answered, NoVerifier, Signing
    <2>4. QED
      BY <2>2, <2>3
  <1>7. OneSessionPerCode'
    <2>1. CASE session' = session
      BY <2>1 DEF OneHolder, OneSessionPerCode
    <2>2. ASSUME NEW v \in Verifier, verifier[v].pc = "issue",
                 session' = session \cup {<<v, verifier[v].id, verifier[v].guess>>}
          PROVE  OneSessionPerCode'
      <3>1. Holds(v, verifier[v].id)
        BY <2>2 DEF Holds, Signing
      <3>2. \A s \in session : s[2] # verifier[v].id
        BY <3>1 DEF OneHolder
      <3>3. QED
        BY <2>2, <3>2 DEF OneHolder, OneSessionPerCode
    <2>3. QED
      BY <2>1, <2>2, SessionsChange
  <1>8. QED
    BY <1>3, <1>4, <1>5, <1>6, <1>7 DEF OneHolder

\* One code opens at most one session, however many verifications carry it.
THEOREM OneCodeOneSession == Spec => []OneSessionPerCode
  <1>1. Init => OneHolder
    BY DEF Init, OneHolder, OneSessionPerCode, NoVerifier, Holds, Signing
  <1>2. OneHolder => OneSessionPerCode
    BY DEF OneHolder
  <1>3. QED
    BY <1>1, <1>2, RowInit, RowStep, HolderStep, PTL DEF Spec

-----------------------------------------------------------------------------
(***************************************************************************)
(* A session needs the code that was sent.                                 *)
(***************************************************************************)
Matching == {"match"} \cup Signing

SentCodes ==
  /\ \A r \in Request : request[r].pc = "store" => <<r, request[r].code>> \in phone
  /\ \A r \in Request : Stored(r) => <<r, otp[r].code>> \in phone
  /\ \A v \in Verifier : verifier[v].pc \in Matching =>
       verifier[v].guess = otp[verifier[v].id].code
  /\ CodeWasSent

\* The phone keeps the codes it received, and a request is about to store only
\* the code it delivered.
LEMMA DeliveriesChange ==
  ASSUME RowInv, [Next]_vars
  PROVE  /\ phone \subseteq phone'
         /\ \A r \in Request : request'[r].pc = "store" =>
              request'[r] = request[r] \/ <<r, request'[r].code>> \in phone'
  <1>0. request \in [Request -> RequestState]
    BY DEF RowInv, TypeInv, OtpTypeOK
  <1>1. ASSUME NEW r \in Request, Deliver(r)
        PROVE  /\ phone \subseteq phone' /\ <<r, request'[r].code>> \in phone'
               /\ \A s \in Request \ {r} : request'[s] = request[s]
    <2>1. PICK code \in Code :
            /\ request' = [request EXCEPT ![r] = [@ EXCEPT !.pc = "store", !.code = code]]
            /\ phone' = phone \cup {<<r, code>>}
      BY <1>1 DEF Deliver
    <2>2. request'[r].code = code
      BY <1>0, <2>1 DEF RequestState
    <2>3. QED
      BY <1>0, <2>1, <2>2
  <1>2. ASSUME NEW s \in Request, RequestStep(s), ~Deliver(s)
        PROVE  phone' = phone /\ \A r \in Request : request'[r].pc = "store" => request'[r] = request[r]
    BY <1>0, <1>2
    DEF RequestStep, RequestArrives, Supersede, DeliveryFails, Store, RequestDies, RequestState,
        Finished
  <1>3. (~ \E s \in Request : RequestStep(s)) => UNCHANGED <<request, phone>>
    BY DEF Next, vars, Tick, VerifierStep, Judge, CountFailure, Consume, FindCustomer, CreateCustomer,
           IssueTokens, VerifierDies
  <1>4. QED
    BY <1>1, <1>2, <1>3

\* A verification whose guess matches found so when it judged it, or goes on.
LEMMA MatchesChange ==
  ASSUME RowInv, [Next]_vars, NEW v \in Verifier, verifier'[v].pc \in Matching
  PROVE  \/ /\ verifier[v].pc \in Matching
            /\ verifier'[v].id = verifier[v].id /\ verifier'[v].guess = verifier[v].guess
         \/ otp' = otp /\ verifier'[v].guess = otp[verifier'[v].id].code
  <1>0. /\ verifier \in [Verifier -> VerifierState]
        /\ customer \in {"none", "active", "blocked"}
    BY DEF RowInv, TypeInv, OtpTypeOK
  <1>1. CASE UNCHANGED verifier
    BY <1>1
  <1>2. ASSUME NEW w \in Verifier, VerifierStep(w), w # v PROVE verifier'[v] = verifier[v]
    BY <1>0, <1>2
    DEF VerifierStep, Judge, CountFailure, Consume, FindCustomer, CreateCustomer, IssueTokens,
        VerifierDies
  <1>3. CASE Judge(v)
    BY <1>0, <1>3 DEF Judge, Matching, Signing
  <1>4. CASE CountFailure(v) \/ Consume(v)
    BY <1>0, <1>4 DEF CountFailure, Consume, Answered, NoVerifier, Matching, Signing, VerifierState
  <1>5. CASE FindCustomer(v) \/ IssueTokens(v)
    BY <1>0, <1>5
    DEF FindCustomer, IssueTokens, Answered, NoVerifier, Matching, Signing, VerifierState
  <1>6. CASE CreateCustomer(v)
    BY <1>0, <1>6 DEF CreateCustomer, Lost, Matching, Signing, VerifierState
  <1>7. CASE VerifierDies(v)
    BY <1>0, <1>7 DEF VerifierDies, Answered, Lost, NoVerifier, Matching, Signing, VerifierState
  <1>8. QED
    BY <1>1, <1>2, <1>3, <1>4, <1>5, <1>6, <1>7
    DEF Next, vars, Tick, RequestStep, RequestArrives, Supersede, Deliver, DeliveryFails, Store,
        RequestDies, VerifierStep

LEMMA SentStep == RowInv /\ SentCodes /\ [Next]_vars => SentCodes'
  <1> SUFFICES ASSUME RowInv, SentCodes, [Next]_vars PROVE SentCodes'
    OBVIOUS
  <1>0. BusyHasRow /\ phone \subseteq phone'
    BY DeliveriesChange DEF RowInv, TypeInv
  <1>1. \A r \in Request : request'[r].pc = "store" => <<r, request'[r].code>> \in phone'
    BY <1>0, DeliveriesChange DEF SentCodes
  <1>2. \A r \in Request : Stored(r)' => <<r, otp'[r].code>> \in phone'
    <2> TAKE r \in Request
    <2> HAVE Stored(r)'
    <2>1. CASE Stored(r)
      BY <1>0, <2>1, RowsOnlyAge DEF SentCodes
    <2>2. CASE ~Stored(r)
      <3>0. Store(r) /\ otp'[r] = Challenge(request[r].code, request[r].at)
        BY <2>2, RowsAppear
      <3>1. Store(r) /\ otp'[r].code = request[r].code
        BY <3>0 DEF Challenge
      <3>2. QED
        BY <1>0, <3>1 DEF SentCodes, Store
    <2>3. QED
      BY <2>1, <2>2
  <1>3. \A v \in Verifier : verifier'[v].pc \in Matching =>
          verifier'[v].guess = otp'[verifier'[v].id].code
    <2> TAKE v \in Verifier
    <2> HAVE verifier'[v].pc \in Matching
    <2>1. CASE /\ verifier[v].pc \in Matching
               /\ verifier'[v].id = verifier[v].id /\ verifier'[v].guess = verifier[v].guess
      <3>1. verifier[v].id \in Request /\ Stored(verifier[v].id)
        BY <1>0, <2>1 DEF BusyHasRow, Busy, Matching, Signing
      <3>2. QED
        BY <2>1, <3>1, RowsOnlyAge DEF SentCodes
    <2>2. QED
      BY <2>1, MatchesChange
  <1>4. CodeWasSent'
    <2>1. CASE session' = session
      BY <1>0, <2>1 DEF SentCodes, CodeWasSent
    <2>2. ASSUME NEW v \in Verifier, verifier[v].pc = "issue",
                 session' = session \cup {<<v, verifier[v].id, verifier[v].guess>>}
          PROVE  CodeWasSent'
      <3>1. verifier[v].id \in Request /\ Stored(verifier[v].id)
        BY <1>0, <2>2 DEF BusyHasRow, Busy, Signing
      <3>2. <<verifier[v].id, verifier[v].guess>> \in phone
        BY <2>2, <3>1 DEF SentCodes, Matching, Signing
      <3>3. \A s \in session : <<s[2], s[3]>> \in phone'
        BY <1>0 DEF SentCodes, CodeWasSent
      <3>4. ASSUME NEW s \in session' PROVE <<s[2], s[3]>> \in phone'
        <4>1. CASE s = <<v, verifier[v].id, verifier[v].guess>>
          <5>1. s[2] = verifier[v].id /\ s[3] = verifier[v].guess
            BY <4>1
          <5>2. QED
            BY <1>0, <3>2, <5>1
        <4>2. QED
          BY <2>2, <3>3, <4>1
      <3>5. QED
        BY <3>4 DEF CodeWasSent
    <2>3. QED
      BY <2>1, <2>2, SessionsChange
  <1>5. QED
    BY <1>1, <1>2, <1>3, <1>4 DEF SentCodes, Stored

\* Every session was opened with the code that was sent for its challenge.
THEOREM SessionsNeedTheCode == Spec => []CodeWasSent
  <1>1. Init => SentCodes
    BY DEF Init, SentCodes, CodeWasSent, Stored, NoRequest, NoVerifier, Matching, Signing
  <1>2. SentCodes => CodeWasSent
    BY DEF SentCodes
  <1>3. QED
    BY <1>1, <1>2, RowInit, RowStep, SentStep, PTL DEF Spec

-----------------------------------------------------------------------------
(***************************************************************************)
(* A superseded challenge is dead.                                         *)
(***************************************************************************)
Over == {"deliver", "store", "done"}

OverIsDead ==
  \A later \in Request :
    /\ request[later].over \subseteq Request
    /\ request[later].pc # "idle" => \A r \in request[later].over : Stored(r)
    /\ request[later].pc \in Over =>
         \A r \in request[later].over : otp[r].invalidated \/ otp[r].consumed

\* Superseding leaves no challenge live.
LEMMA SupersedingKills ==
  ASSUME RowInv, NEW s \in Request, Supersede(s), NEW r \in Request, Stored(r)
  PROVE  otp'[r].invalidated \/ otp'[r].consumed
  <1>1. otp[r] \in OtpRow
    BY StoredRow DEF RowInv, TypeInv
  <1>2. otp'[r] = IF r \in Live THEN [otp[r] EXCEPT !.invalidated = TRUE] ELSE otp[r]
    BY DEF Supersede
  <1>3. QED
    BY <1>1, <1>2 DEF Live, OtpRow

LEMMA OverStep == RowInv /\ OverIsDead /\ [Next]_vars => OverIsDead'
  <1> SUFFICES ASSUME RowInv, OverIsDead, [Next]_vars, NEW later \in Request
               PROVE  /\ request'[later].over \subseteq Request
                      /\ request'[later].pc # "idle" =>
                           \A r \in request'[later].over : Stored(r)'
                      /\ request'[later].pc \in Over =>
                           \A r \in request'[later].over : otp'[r].invalidated \/ otp'[r].consumed
    BY DEF OverIsDead
  <1>0. request \in [Request -> RequestState]
    BY DEF RowInv, TypeInv, OtpTypeOK
  <1>1. CASE RequestArrives(later)
    <2>1. /\ request'[later].pc = "supersede" /\ otp' = otp
          /\ request'[later].over = {c \in Request : Stored(c)}
      BY <1>0, <1>1 DEF RequestArrives
    <2>2. QED
      BY <2>1 DEF Over, Stored
  <1>2. CASE Supersede(later)
    <2>1. request'[later].over = request[later].over /\ request[later].pc # "idle"
      BY <1>0, <1>2 DEF Supersede, RequestState
    <2>2. \A r \in request[later].over : r \in Request /\ Stored(r)
      BY <2>1 DEF OverIsDead
    <2>3. QED
      BY <1>2, <2>1, <2>2, SupersedingKills, RowsOnlyAge
  <1>3. ASSUME ~RequestArrives(later), ~Supersede(later)
        PROVE  /\ request'[later].over = request[later].over
               /\ request'[later].pc # "idle" => request[later].pc # "idle"
               /\ request'[later].pc \in Over => request[later].pc \in Over
    <2>1. CASE UNCHANGED request
      BY <2>1
    <2>2. ASSUME NEW s \in Request, s # later, RequestStep(s) PROVE request'[later] = request[later]
      BY <1>0, <2>2
      DEF RequestStep, RequestArrives, Supersede, Deliver, DeliveryFails, Store, RequestDies
    <2>3. CASE Deliver(later) \/ DeliveryFails(later)
      BY <1>0, <2>3 DEF Deliver, DeliveryFails, RequestState, Over
    <2>4. CASE Store(later)
      BY <1>0, <2>4 DEF Store, Finished, Over, RequestState
    <2>5. CASE RequestDies(later)
      BY <1>0, <2>5 DEF RequestDies, Over, RequestState
    <2>6. QED
      BY <1>3, <2>1, <2>2, <2>3, <2>4, <2>5
      DEF RequestStep, Next, vars, Tick, VerifierStep, Judge, CountFailure, Consume, FindCustomer,
          CreateCustomer, IssueTokens, VerifierDies
  <1>4. CASE ~RequestArrives(later) /\ ~Supersede(later)
    <2>1. request'[later].over \subseteq Request
      BY <1>3, <1>4 DEF OverIsDead
    <2>2. ASSUME request'[later].pc # "idle", NEW r \in request'[later].over
          PROVE  r \in Request /\ Stored(r)
      BY <1>3, <1>4, <2>2 DEF OverIsDead
    <2>3. ASSUME request'[later].pc \in Over, NEW r \in request'[later].over
          PROVE  otp'[r].invalidated \/ otp'[r].consumed
      <3>1. otp[r].invalidated \/ otp[r].consumed
        BY <1>3, <1>4, <2>3 DEF OverIsDead
      <3>2. r \in Request /\ Stored(r)
        BY <2>2, <2>3 DEF Over
      <3>3. QED
        BY <3>1, <3>2, RowsOnlyAge
    <2>4. QED
      BY <2>1, <2>2, <2>3, RowsOnlyAge
  <1>5. QED
    BY <1>1, <1>2, <1>4

\* A challenge is never spent outside its window, or after a later request has
\* superseded it.
THEOREM SupersededIsNeverSpent == Spec => SupersededIsDead
  <1>1. Init => OverIsDead
    BY DEF Init, OverIsDead, NoRequest, Over
  <1>2. ASSUME RowInv, OverIsDead, [Next]_vars, NEW r \in Request, otp'[r].consumed, ~otp[r].consumed
        PROVE  /\ ~Expired(r)
               /\ \A later \in Request : request[later].pc \in Over => r \notin request[later].over
    <2>1. Usable(r) /\ Stored(r)
      BY <1>2, SpendingIsChecked
    <2>2. otp[r].issuedAt \in Int /\ now \in Int /\ Window \in Int
      BY <1>2, <2>1, StoredRow, OtpAssumption DEF RowInv, TypeInv, OtpTypeOK, OtpRow
    <2>3. ~Expired(r)
      BY <2>1, <2>2 DEF Usable, Expired
    <2>4. QED
      BY <1>2, <2>1, <2>3 DEF Usable, OverIsDead
  <1>3. RowInv /\ OverIsDead /\ [Next]_vars =>
          [\A r \in Request :
             otp'[r].consumed /\ ~otp[r].consumed =>
               /\ ~Expired(r)
               /\ \A later \in Request :
                    request[later].pc \in {"deliver", "store", "done"} => r \notin request[later].over
          ]_vars
    BY <1>2 DEF Over
  <1>4. QED
    BY <1>1, <1>3, RowInit, RowStep, OverStep, PTL DEF Spec, SupersededIsDead

-----------------------------------------------------------------------------
(***************************************************************************)
(* Every wrong guess is counted.                                           *)
(***************************************************************************)
Counted(r) == {v \in Verifier : verifier[v].pc = "counted" /\ verifier[v].id = r}

\* A step charges a challenge for the one verification it counts, and leaves
\* both the counts and the verifications counted alone otherwise.
LEMMA CountsChange ==
  ASSUME RowInv, [Next]_vars, NEW r \in Request
  PROVE  \/ otp'[r].attempts = otp[r].attempts /\ Counted(r)' = Counted(r)
         \/ /\ Usable(r) /\ otp[r] \in OtpRow /\ otp'[r] = Charged(otp[r])
            /\ \E v \in Verifier \ Counted(r) : Counted(r)' = Counted(r) \cup {v}
  <1>0. /\ BusyHasRow
        /\ otp \in [Request -> OtpRow \cup {NoOtp}]
        /\ verifier \in [Verifier -> VerifierState]
        /\ customer \in {"none", "active", "blocked"}
    BY DEF RowInv, TypeInv, OtpTypeOK
  <1>1. CASE UNCHANGED <<otp, verifier>>
    BY <1>1 DEF Counted
  <1>2. ASSUME NEW s \in Request, RequestStep(s)
        PROVE  otp'[r].attempts = otp[r].attempts /\ Counted(r)' = Counted(r)
    <2>1. Counted(r)' = Counted(r)
      BY <1>2
      DEF RequestStep, RequestArrives, Supersede, Deliver, DeliveryFails, Store, RequestDies, Counted
    <2>2. CASE Store(s)
      <3>1. CASE s = r
        <4>1. ~Stored(r)
          BY <2>2, <3>1 DEF RowInv, StoredIsDone, Store
        <4>2. otp'[r] = Challenge(request[r].code, request[r].at)
          BY <1>0, <2>2, <3>1 DEF Store
        <4>3. QED
          BY <2>1, <4>1, <4>2 DEF Stored, NoOtp, Challenge
      <3>2. QED
        BY <1>0, <2>1, <2>2, <3>1 DEF Store
    <2>3. CASE Supersede(s)
      <3>1. otp'[r] = IF r \in Live THEN [otp[r] EXCEPT !.invalidated = TRUE] ELSE otp[r]
        BY <2>3 DEF Supersede
      <3>2. r \in Live => otp[r] \in OtpRow
        BY <1>0 DEF Live, Stored
      <3>3. QED
        BY <2>1, <3>1, <3>2 DEF OtpRow
    <2>4. QED
      BY <1>2, <2>1, <2>2, <2>3
      DEF RequestStep, RequestArrives, Deliver, DeliveryFails, RequestDies
  <1>3. ASSUME NEW v \in Verifier, CountFailure(v)
        PROVE  \/ otp'[r].attempts = otp[r].attempts /\ Counted(r)' = Counted(r)
               \/ /\ Usable(r) /\ otp[r] \in OtpRow /\ otp'[r] = Charged(otp[r])
                  /\ v \notin Counted(r) /\ Counted(r)' = Counted(r) \cup {v}
    <2>0. verifier[v].id \in Request /\ Stored(verifier[v].id) /\ verifier[v].pc = "mismatch"
      BY <1>0, <1>3 DEF CountFailure, BusyHasRow, Busy, Signing
    <2>1. CASE Usable(verifier[v].id)
      <3>1. /\ otp' = [otp EXCEPT ![verifier[v].id] = Charged(@)]
            /\ verifier' = [verifier EXCEPT ![v].pc = "counted"]
        BY <1>3, <2>1 DEF CountFailure
      <3>2. \A w \in Verifier : verifier'[w].id = verifier[w].id
        BY <1>0, <3>1 DEF VerifierState
      <3>3. verifier'[v].pc = "counted" /\ \A w \in Verifier \ {v} : verifier'[w] = verifier[w]
        BY <1>0, <3>1 DEF VerifierState
      <3>4. CASE verifier[v].id = r
        <4>1. v \notin Counted(r) /\ Counted(r)' = Counted(r) \cup {v}
          BY <2>0, <3>2, <3>3, <3>4 DEF Counted
        <4>2. otp[r] \in OtpRow /\ otp'[r] = Charged(otp[r])
          BY <1>0, <2>0, <3>1, <3>4 DEF Stored
        <4>3. QED
          BY <2>1, <3>4, <4>1, <4>2
      <3>5. CASE verifier[v].id # r
        <4>1. Counted(r)' = Counted(r)
          BY <2>0, <3>2, <3>3, <3>5 DEF Counted
        <4>2. QED
          BY <1>0, <3>1, <3>5, <4>1
      <3>6. QED
        BY <3>4, <3>5
    <2>2. CASE ~Usable(verifier[v].id)
      <3>1. otp' = otp /\ verifier' = [verifier EXCEPT ![v] = Answered]
        BY <1>3, <2>2 DEF CountFailure
      <3>2. Counted(r)' = Counted(r)
        BY <1>0, <2>0, <3>1 DEF Counted, Answered, NoVerifier
      <3>3. QED
        BY <3>1, <3>2
    <2>3. QED
      BY <2>1, <2>2
  <1>4. ASSUME NEW v \in Verifier, VerifierStep(v), ~CountFailure(v)
        PROVE  otp'[r].attempts = otp[r].attempts /\ Counted(r)' = Counted(r)
    <2>1. verifier'[v].pc # "counted" /\ \A w \in Verifier \ {v} : verifier'[w] = verifier[w]
      <3>1. CASE Judge(v)
        BY <1>0, <3>1 DEF Judge
      <3>2. CASE Consume(v)
        BY <1>0, <3>2 DEF Consume, Answered, NoVerifier, VerifierState
      <3>3. CASE FindCustomer(v) \/ IssueTokens(v)
        BY <1>0, <3>3 DEF FindCustomer, IssueTokens, Answered, NoVerifier, VerifierState
      <3>4. CASE CreateCustomer(v)
        BY <1>0, <3>4 DEF CreateCustomer, Lost, VerifierState
      <3>5. CASE VerifierDies(v)
        BY <1>0, <3>5 DEF VerifierDies, Answered, Lost, NoVerifier, VerifierState
      <3>6. QED
        BY <1>4, <3>1, <3>2, <3>3, <3>4, <3>5 DEF VerifierStep
    <2>2. verifier[v].pc # "counted"
      BY <1>4
      DEF VerifierStep, Judge, Consume, FindCustomer, CreateCustomer, IssueTokens, VerifierDies,
          Signing
    <2>3. Counted(r)' = Counted(r)
      BY <2>1, <2>2 DEF Counted
    <2>4. otp'[r].attempts = otp[r].attempts
      <3>1. CASE Consume(v) /\ Usable(verifier[v].id)
        <4>1. verifier[v].id \in Request /\ otp[verifier[v].id] \in OtpRow
          BY <1>0, <3>1, StoredRow DEF Consume, BusyHasRow, Busy, Signing, RowInv, TypeInv
        <4>2. otp' = [otp EXCEPT ![verifier[v].id].consumed = TRUE]
          BY <3>1 DEF Consume
        <4>3. QED
          BY <1>0, <4>1, <4>2 DEF OtpRow
      <3>2. QED
        BY <1>4, <3>1
        DEF VerifierStep, Judge, Consume, FindCustomer, CreateCustomer, IssueTokens, VerifierDies
    <2>5. QED
      BY <2>3, <2>4
  <1>5. QED
    BY <1>1, <1>2, <1>3, <1>4 DEF Next, vars, Tick

LEMMA CountStep == RowInv /\ GuessesAreCounted /\ [Next]_vars => GuessesAreCounted'
  <1> SUFFICES ASSUME RowInv, GuessesAreCounted, [Next]_vars, NEW r \in Request
               PROVE  /\ otp'[r].attempts = Cardinality(Counted(r)')
                      /\ otp'[r].consumed => otp'[r].attempts < MaxAttempts
    BY DEF GuessesAreCounted, Counted
  <1>1. otp[r].attempts = Cardinality(Counted(r)) /\ (otp[r].consumed => otp[r].attempts < MaxAttempts)
    BY DEF GuessesAreCounted, Counted
  <1>2. IsFiniteSet(Counted(r))
    BY OtpAssumption, FS_Subset DEF Counted
  <1>3. otp'[r].attempts = Cardinality(Counted(r)')
    <2>1. CASE otp'[r].attempts = otp[r].attempts /\ Counted(r)' = Counted(r)
      BY <1>1, <2>1
    <2>2. ASSUME otp[r] \in OtpRow, otp'[r] = Charged(otp[r]),
                 NEW v \in Verifier \ Counted(r), Counted(r)' = Counted(r) \cup {v}
          PROVE  otp'[r].attempts = Cardinality(Counted(r)')
      <3>1. otp'[r].attempts = otp[r].attempts + 1
        BY <2>2 DEF Charged, OtpRow
      <3>2. Cardinality(Counted(r) \cup {v}) = Cardinality(Counted(r)) + 1
        BY <1>2, FS_AddElement
      <3>3. QED
        BY <1>1, <2>2, <3>1, <3>2
    <2>3. QED
      BY <2>1, <2>2, CountsChange
  <1>4. otp'[r].consumed => otp'[r].attempts < MaxAttempts
    <2> HAVE otp'[r].consumed
    <2>1. CASE otp[r].consumed
      BY <1>1, <2>1, CountsChange DEF Usable
    <2>2. CASE ~otp[r].consumed
      <3>1. Usable(r) /\ otp[r] \in OtpRow
        BY <2>2, SpendingIsChecked, StoredRow DEF RowInv, TypeInv
      <3>2. otp'[r] # Charged(otp[r])
        BY <2>2, <3>1 DEF Charged, OtpRow
      <3>3. QED
        BY <3>1, <3>2, CountsChange DEF Usable
    <2>3. QED
      BY <2>1, <2>2
  <1>5. QED
    BY <1>3, <1>4

\* Every wrong guess a challenge was charged for is in its count, and a
\* challenge that has no guess left was never spent.
THEOREM EveryGuessIsCounted == Spec => []GuessesAreCounted
  <1>1. Init => GuessesAreCounted
    <2>1. ASSUME Init, NEW r \in Request PROVE Counted(r) = {} /\ otp[r].attempts = 0 /\ ~otp[r].consumed
      BY <2>1 DEF Init, Counted, NoVerifier, NoOtp, Challenge
    <2>2. QED
      BY <2>1, FS_EmptySet DEF GuessesAreCounted, Counted
  <1>2. QED
    BY <1>1, RowInit, RowStep, CountStep, PTL DEF Spec

-----------------------------------------------------------------------------
(***************************************************************************)
(* A spent challenge signs in.  A verification that goes to make the       *)
(* customer of a new phone found none; if there is one by now, it is the   *)
(* work of another verification, which had spent another challenge.        *)
(***************************************************************************)
Rival(r) == maker \in Request \ {r}

\* A verification that was refused its customer, or is about to be.
Beaten(v) ==
  \/ verifier[v].pc = "beaten"
  \/ verifier[v].pc = "create" /\ customer # "none"

BeatenByAnother ==
  /\ customer = "none" => \A v \in Verifier : verifier[v].pc # "beaten"
  /\ \A v \in Verifier : Beaten(v) => customer = "blocked" \/ Rival(verifier[v].id)

SigningInv == SpentCodeSignsIn /\ BeatenByAnother

\* A verification that came to nothing is not taken up again.
LEMMA LostStays ==
  ASSUME RowInv, [Next]_vars, NEW v \in Verifier, verifier[v].pc \in {"beaten", "dead"}
  PROVE  verifier'[v] = verifier[v]
  <1>0. verifier \in [Verifier -> VerifierState]
    BY DEF RowInv, TypeInv, OtpTypeOK
  <1>1. ASSUME NEW w \in Verifier, VerifierStep(w)
        PROVE  w # v /\ verifier'[v] = verifier[v]
    BY <1>0, <1>1
    DEF VerifierStep, Judge, CountFailure, Consume, FindCustomer, CreateCustomer, IssueTokens,
        VerifierDies, Signing
  <1>2. (~ \E w \in Verifier : VerifierStep(w)) => verifier' = verifier
    BY DEF Next, vars, Tick, RequestStep, RequestArrives, Supersede, Deliver, DeliveryFails, Store,
           RequestDies
  <1>3. QED
    BY <1>1, <1>2

\* Whoever is turning a challenge into a session goes on, has opened it, or comes
\* to nothing in one of the ways there are.
LEMMA HoldersMove ==
  ASSUME RowInv, [Next]_vars, NEW v \in Verifier, NEW r \in Request, Holds(v, r)
  PROVE  \/ Holds(v, r)'
         \/ \E s \in session' : s[2] = r
         \/ customer = "blocked"
         \/ verifier'[v].id = r /\ verifier'[v].pc \in {"beaten", "dead"}
  <1>0. /\ verifier \in [Verifier -> VerifierState]
        /\ customer \in {"none", "active", "blocked"}
        /\ session' \subseteq Verifier \X Request \X Code
    BY TypeStep DEF RowInv, TypeInv, OtpTypeOK
  <1>1. CASE UNCHANGED verifier
    BY <1>1 DEF Holds
  <1>2. ASSUME NEW w \in Verifier, VerifierStep(w), w # v
        PROVE  verifier'[v] = verifier[v]
    BY <1>0, <1>2
    DEF VerifierStep, Judge, CountFailure, Consume, FindCustomer, CreateCustomer, IssueTokens,
        VerifierDies
  <1>3. CASE Judge(v) \/ CountFailure(v) \/ Consume(v)
    BY <1>3 DEF Judge, CountFailure, Consume, Holds, Signing
  <1>4. CASE FindCustomer(v)
    <2>1. CASE customer = "blocked"
      BY <2>1
    <2>2. CASE customer # "blocked"
      <3>1. PICK pc \in {"create", "issue"} : verifier'[v] = [verifier[v] EXCEPT !.pc = pc]
        BY <1>0, <1>4, <2>2 DEF FindCustomer
      <3>2. verifier'[v].pc \in Signing /\ verifier'[v].id = verifier[v].id
        BY <1>0, <3>1 DEF VerifierState, Signing
      <3>3. QED
        BY <3>2 DEF Holds
    <2>3. QED
      BY <2>1, <2>2
  <1>5. CASE CreateCustomer(v)
    <2>1. CASE customer = "none"
      <3>1. verifier'[v] = [verifier[v] EXCEPT !.pc = "issue"]
        BY <1>0, <1>5, <2>1 DEF CreateCustomer
      <3>2. verifier'[v].pc = "issue" /\ verifier'[v].id = verifier[v].id
        BY <1>0, <3>1 DEF VerifierState
      <3>3. QED
        BY <3>2 DEF Holds, Signing
    <2>2. CASE customer # "none"
      <3>1. verifier'[v] = Lost(verifier[v], "beaten")
        BY <1>0, <1>5, <2>2 DEF CreateCustomer
      <3>2. QED
        BY <1>0, <3>1, LostUpdates DEF Holds
    <2>3. QED
      BY <2>1, <2>2
  <1>6. CASE IssueTokens(v)
    <2>1. <<v, verifier[v].id, verifier[v].guess>> \in session'
      BY <1>6 DEF IssueTokens
    <2>2. <<v, verifier[v].id, verifier[v].guess>>[2] = r
      BY DEF Holds
    <2>3. QED
      BY <2>1, <2>2
  <1>7. CASE VerifierDies(v)
    <2>1. verifier'[v] = Lost(verifier[v], "dead")
      BY <1>0, <1>7 DEF VerifierDies, Holds
    <2>2. QED
      BY <1>0, <2>1, LostUpdates DEF Holds
  <1>8. QED
    BY <1>1, <1>2, <1>3, <1>4, <1>5, <1>6, <1>7
    DEF Holds, Next, vars, Tick, RequestStep, RequestArrives, Supersede, Deliver, DeliveryFails,
        Store, RequestDies, VerifierStep

\* The customer of the phone is made once, by a verification that goes on to its
\* session, and changes in no other way.
LEMMA CustomerChanges ==
  ASSUME RowInv, [Next]_vars
  PROVE  \/ customer' = customer /\ maker' = maker
         \/ /\ customer = "none" /\ customer' = "active"
            /\ \E w \in Verifier : /\ verifier[w].pc = "create" /\ verifier'[w].pc = "issue"
                                   /\ maker' = verifier[w].id
  <1>0. verifier \in [Verifier -> VerifierState]
    BY DEF RowInv, TypeInv, OtpTypeOK
  <1>1. ASSUME NEW w \in Verifier, CreateCustomer(w), customer = "none"
        PROVE  /\ verifier[w].pc = "create" /\ verifier'[w].pc = "issue"
               /\ maker' = verifier[w].id /\ customer' = "active"
    BY <1>0, <1>1 DEF CreateCustomer, VerifierState
  <1>2. ASSUME NEW w \in Verifier, VerifierStep(w)
        PROVE  \/ customer' = customer /\ maker' = maker
               \/ customer = "none" /\ CreateCustomer(w)
    BY <1>2
    DEF VerifierStep, Judge, CountFailure, Consume, FindCustomer, CreateCustomer, IssueTokens,
        VerifierDies
  <1>3. ASSUME NEW r \in Request, RequestStep(r)
        PROVE  customer' = customer /\ maker' = maker
    BY <1>3
    DEF RequestStep, RequestArrives, Supersede, Deliver, DeliveryFails, Store, RequestDies
  <1>4. QED
    BY <1>1, <1>2, <1>3 DEF Next, vars, Tick

\* A verification goes to make a customer only when it has found none, and is
\* refused one only when there is one.
LEMMA CreatorsChange ==
  ASSUME RowInv, [Next]_vars, NEW v \in Verifier, verifier'[v].pc \in {"create", "beaten"}
  PROVE  \/ verifier'[v].pc = verifier[v].pc /\ verifier'[v].id = verifier[v].id
         \/ verifier'[v].pc = "create" /\ customer' = "none"
         \/ /\ verifier'[v].pc = "beaten" /\ verifier[v].pc = "create"
            /\ verifier'[v].id = verifier[v].id
            /\ customer # "none" /\ customer' = customer
  <1>0. /\ verifier \in [Verifier -> VerifierState]
        /\ customer \in {"none", "active", "blocked"}
    BY DEF RowInv, TypeInv, OtpTypeOK
  <1>1. CASE UNCHANGED verifier
    BY <1>1
  <1>2. ASSUME NEW w \in Verifier, VerifierStep(w), w # v
        PROVE  verifier'[v] = verifier[v]
    BY <1>0, <1>2
    DEF VerifierStep, Judge, CountFailure, Consume, FindCustomer, CreateCustomer, IssueTokens,
        VerifierDies
  <1>3. CASE Judge(v)
    BY <1>0, <1>3 DEF Judge
  <1>4. CASE CountFailure(v) \/ Consume(v)
    BY <1>0, <1>4 DEF CountFailure, Consume, Answered, NoVerifier, VerifierState
  <1>5. CASE FindCustomer(v)
    <2>1. CASE customer = "none"
      BY <1>0, <1>5, <2>1 DEF FindCustomer, VerifierState
    <2>2. CASE customer # "none"
      BY <1>0, <1>5, <2>2 DEF FindCustomer, Answered, NoVerifier, VerifierState
    <2>3. QED
      BY <2>1, <2>2
  <1>6. CASE CreateCustomer(v)
    <2>1. CASE customer = "none"
      BY <1>0, <1>6, <2>1 DEF CreateCustomer, VerifierState
    <2>2. CASE customer # "none"
      BY <1>0, <1>6, <2>2, LostUpdates DEF CreateCustomer
    <2>3. QED
      BY <2>1, <2>2
  <1>7. CASE IssueTokens(v)
    BY <1>0, <1>7 DEF IssueTokens, Answered, NoVerifier
  <1>8. CASE VerifierDies(v)
    <2>1. verifier'[v] \in {Lost(verifier[v], "dead"), Answered}
      BY <1>0, <1>8 DEF VerifierDies
    <2>2. QED
      BY <1>0, <2>1, LostUpdates DEF Answered, NoVerifier
  <1>9. CASE \E w \in Verifier : VerifierStep(w)
    BY <1>2, <1>3, <1>4, <1>5, <1>6, <1>7, <1>8, <1>9 DEF VerifierStep
  <1>10. CASE ~ \E w \in Verifier : VerifierStep(w)
    BY <1>1, <1>10
    DEF Next, vars, Tick, RequestStep, RequestArrives, Supersede, Deliver, DeliveryFails, Store,
        RequestDies
  <1>11. QED
    BY <1>9, <1>10

LEMMA BeatenStep ==
  ASSUME RowInv, OneHolder, BeatenByAnother, [Next]_vars
  PROVE  BeatenByAnother'
  <1>1. ASSUME customer' = "none", NEW v \in Verifier, verifier'[v].pc = "beaten" PROVE FALSE
    <2>1. customer = "none"
      BY <1>1, CustomerChanges
    <2>2. QED
      BY <1>1, <2>1, CreatorsChange DEF BeatenByAnother
  <1>2. ASSUME NEW v \in Verifier, Beaten(v)'
        PROVE  customer' = "blocked" \/ Rival(verifier[v].id)'
    <2>1. CASE customer' = customer /\ maker' = maker
      <3>1. Beaten(v) /\ verifier'[v].id = verifier[v].id
        BY <1>2, <2>1, CreatorsChange DEF Beaten
      <3>2. QED
        BY <2>1, <3>1 DEF BeatenByAnother, Rival
    <2>2. ASSUME customer = "none", customer' = "active",
                 NEW w \in Verifier, verifier[w].pc = "create", verifier'[w].pc = "issue",
                 maker' = verifier[w].id
          PROVE  Rival(verifier[v].id)'
      <3>1. /\ verifier[v].pc = "create" /\ verifier'[v].pc = "create"
            /\ verifier'[v].id = verifier[v].id
        BY <1>2, <2>2, CreatorsChange DEF Beaten, BeatenByAnother
      <3>2. v # w
        BY <2>2, <3>1
      <3>3. verifier[v].id \in Request /\ verifier[w].id \in Request
        BY <2>2, <3>1 DEF RowInv, TypeInv, BusyHasRow, Busy, Signing
      <3>4. verifier[w].id # verifier[v].id
        <4>1. Holds(w, verifier[w].id) /\ Holds(v, verifier[v].id)
          BY <2>2, <3>1 DEF Holds, Signing
        <4>2. QED
          BY <3>2, <3>3, <4>1 DEF OneHolder
      <3>5. QED
        BY <2>2, <3>1, <3>3, <3>4 DEF Rival
    <2>3. QED
      BY <2>1, <2>2, CustomerChanges
  <1>3. QED
    BY <1>1, <1>2 DEF BeatenByAnother

LEMMA SignsInStep ==
  ASSUME RowInv, OneHolder, SigningInv, [Next]_vars
  PROVE  SpentCodeSignsIn'
  <1> DEFINE Stops(v, r) == verifier'[v].id = r /\ verifier'[v].pc \in {"beaten", "dead"}
  <1>1. SUFFICES ASSUME NEW r \in Request, otp'[r].consumed, customer' # "blocked"
                 PROVE  \/ \E s \in session' : s[2] = r
                        \/ \E v \in Verifier : Holds(v, r)' \/ Stops(v, r)
    <2>1. ASSUME NEW v \in Verifier, NEW r \in Request, Stops(v, r), customer' # "blocked"
          PROVE  /\ verifier'[v].id = r
                 /\ verifier'[v].pc = "dead" \/ (verifier'[v].pc = "beaten" /\ Rival(r)')
      <3>1. BeatenByAnother'
        BY BeatenStep DEF SigningInv
      <3>2. verifier'[v].pc = "beaten" => Rival(verifier[v].id)'
        BY <2>1, <3>1 DEF BeatenByAnother, Beaten
      <3>3. QED
        BY <2>1, <3>2
    <2>2. QED
      BY <1>1, <2>1 DEF SpentCodeSignsIn, Holds, Rival
  <1>2. customer # "blocked"
    BY <1>1, CustomerChanges
  <1>3. CASE otp[r].consumed
    <2>1. \/ \E s \in session : s[2] = r
          \/ \E v \in Verifier :
               Holds(v, r) \/ (verifier[v].id = r /\ verifier[v].pc \in {"beaten", "dead"})
      BY <1>2, <1>3 DEF SigningInv, SpentCodeSignsIn, Holds
    <2>2. CASE \E s \in session : s[2] = r
      BY <2>2, SessionsChange
    <2>3. ASSUME NEW v \in Verifier, Holds(v, r)
          PROVE  \/ \E s \in session' : s[2] = r
                 \/ Holds(v, r)' \/ Stops(v, r)
      BY <1>2, <2>3, HoldersMove
    <2>4. ASSUME NEW v \in Verifier, verifier[v].id = r, verifier[v].pc \in {"beaten", "dead"}
          PROVE  Stops(v, r)
      BY <2>4, LostStays
    <2>5. QED
      BY <2>1, <2>2, <2>3, <2>4
  <1>4. CASE ~otp[r].consumed
    <2>1. PICK v \in Verifier : Consume(v) /\ verifier[v].id = r /\ Usable(r)
      BY <1>1, <1>4, SpendingIsChecked
    <2>2. verifier'[v].pc = "spent" /\ verifier'[v].id = r
      BY <2>1 DEF Consume, RowInv, TypeInv, OtpTypeOK, VerifierState
    <2>3. QED
      BY <2>2 DEF Holds, Signing
  <1>5. QED
    BY <1>3, <1>4

\* A spent challenge has become a session, or the verification that spent it is
\* still at it or died: it comes to nothing only for a blocked customer, or for a
\* new phone whose customer the sign-in of another challenge made first.
THEOREM SpentCodeIsNotLost == Spec => []SpentCodeSignsIn
  <1>1. Init => OneHolder
    BY DEF Init, OneHolder, OneSessionPerCode, NoVerifier, Holds, Signing
  <1>2. Init => SigningInv
    BY DEF Init, SigningInv, SpentCodeSignsIn, BeatenByAnother, Beaten, NoVerifier, NoOtp, Challenge
  <1>3. RowInv /\ OneHolder /\ SigningInv /\ [Next]_vars => SigningInv'
    BY BeatenStep, SignsInStep DEF SigningInv
  <1>4. SigningInv => SpentCodeSignsIn
    BY DEF SigningInv
  <1>5. QED
    BY <1>1, <1>2, <1>3, <1>4, RowInit, RowStep, HolderStep, PTL DEF Spec
=============================================================================
