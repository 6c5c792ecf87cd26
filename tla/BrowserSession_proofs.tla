------------------------ MODULE BrowserSession_proofs ------------------------
(***************************************************************************)
(* Machine-checked facts about refresh sessions, for any number of pages,  *)
(* logins and runs: the state is well-typed; a login never has two live    *)
(* sessions; what a page shows is being decided or is true; and the        *)
(* browser keeps its session until the user signs out, and then for good   *)
(* has none.                                                               *)
(***************************************************************************)
EXTENDS BrowserSession, TLAPS

PageState == [ state : {"new", "open", "closed"}, token : Id \cup {None}, fresh : BOOLEAN,
               status : {"loading", "anonymous", "authenticated"}, gen : 0..MaxRuns,
               entered : BOOLEAN ]
RunState == [ pc : {"boot", "me", "wait", "again", "publish", "done"}, token : Id \cup {None} ]
RenewalState == [ pc : {"idle", "sent", "revoked", "issued", "refused"}, start : Id \cup {None},
                  cookie : Id \cup {None}, root : 0..MaxLogins, id : Id \cup {None} ]
LoginState == [pc : {"idle", "sent", "issued"}, id : Id \cup {None}]

-----------------------------------------------------------------------------
(***************************************************************************)
(* The inductive invariant.                                                *)
(***************************************************************************)

\* The answer to a login brings a session, and a run of the provider is left for
\* it; a page that is new has not sent one.
LoginInv ==
  \A p \in Page :
    /\ login[p].pc = "issued" => login[p].id # None
    /\ login[p].pc # "idle" /\ page[p].state = "open" => page[p].gen < MaxRuns
    /\ page[p].state = "new" => login[p].pc = "idle"

\* A refresh request names the login of the session it presents; from the
\* revocation to the session that replaces the revoked one it is the only trace of that
\* login.
RootInv ==
  /\ OneSessionPerLogin
  /\ \A i \in Id : session[i] <= logins
  /\ \A p \in Page : LET r == renewal[p] IN
       /\ r.root <= logins
       /\ r.pc = "sent" /\ r.cookie # None /\ session[r.cookie] # None =>
            r.root = session[r.cookie]
       /\ r.pc = "revoked" =>
            /\ r.root # None
            /\ \A i \in Id : session[i] # r.root
            /\ \A q \in Page : q # p /\ renewal[q].pc = "revoked" => renewal[q].root # r.root

SessionInv == SessionTypeOK /\ LoginInv /\ RootInv

\* The numbers of the model are natural.
LEMMA Numbers ==
  /\ MaxSessions \in Nat /\ MaxSessions > 0 /\ MaxLogins \in Nat /\ MaxLogins > 0
  /\ MaxRuns \in Nat /\ MaxRuns > 0 /\ MaxExpiries \in Nat /\ MaxFaults \in Nat
  /\ Id = 1..MaxSessions /\ None = 0 /\ None \notin Id /\ 1 \in Id
  /\ Run = 1..MaxRuns /\ 1 \in Run
  BY SessionAssumption DEF Id, None, Run

\* What type correctness says of the parts of the state.
LEMMA Facts ==
  ASSUME SessionTypeOK
  PROVE  /\ session \in [Id -> 0..MaxLogins] /\ cookie \in Id \cup {None}
         /\ page \in [Page -> PageState] /\ run \in [Page -> [Run -> RunState]]
         /\ renewal \in [Page -> RenewalState] /\ login \in [Page -> LoginState]
         /\ logins \in 0..MaxLogins /\ logins \in Nat
  BY Numbers DEF SessionTypeOK, PageState, RunState, RenewalState, LoginState

\* The initial state satisfies it.
LEMMA SessionInit == Init => SessionInv
<1> SUFFICES ASSUME Init PROVE SessionInv
  OBVIOUS
<1>0. /\ cookie \in Id \cup {None} /\ logins \in 0..MaxLogins
      /\ session \in [Id -> 0..MaxLogins]
      /\ \A i \in Id : session[i] <= logins /\ (session[i] # None => i = cookie)
      /\ asked \in {"nothing", "in"}
  BY Numbers DEF Init
<1>1. /\ page \in [Page -> PageState] /\ run \in [Page -> [Run -> RunState]]
      /\ renewal \in [Page -> RenewalState] /\ login \in [Page -> LoginState]
  BY Numbers
  DEF Init, NewPage, NoRun, NoRenewal, NoLogin, PageState, RunState, RenewalState, LoginState
<1>2. SessionTypeOK
  <2>1. /\ \A p \in Page : page[p].fresh = FALSE
        /\ \A p \in Page : renewal[p].pc = "idle" /\ renewal[p].id = None
        /\ logout = {} /\ ended = 0 /\ expiries = 0 /\ faults = 0
    BY Numbers DEF Init, NewPage, NoRenewal
  <2>2. QED
    BY <1>0, <1>1, <2>1, Numbers
    DEF SessionTypeOK, PageState, RunState, RenewalState, LoginState
<1>3. LoginInv
  BY DEF Init, LoginInv, NoLogin, NewPage
<1>4. RootInv
  BY <1>0, Numbers DEF Init, RootInv, OneSessionPerLogin, NoRenewal
<1>5. QED
  BY <1>2, <1>3, <1>4 DEF SessionInv

-----------------------------------------------------------------------------
(***************************************************************************)
(* One session for a login.                                                *)
(***************************************************************************)

\* A session is stored under an identifier that nobody holds.
LEMMA UnusedId ==
  ASSUME NEW i \in Id, i \in Unused
  PROVE  session[i] = None /\ \A p \in Page : renewal[p].cookie # i
<1>1. session[i] = None /\ i \notin Held
  BY DEF Unused
<1>2. ASSUME NEW p \in Page PROVE renewal[p].cookie \in Held
  <2>1. renewal[p].cookie \in InRequest(p)
    BY DEF InRequest
  <2>2. InRequest(p) \in {InRequest(q) : q \in Page}
    OBVIOUS
  <2>3. renewal[p].cookie \in UNION {InRequest(q) : q \in Page}
    BY <2>1, <2>2
  <2>4. ASSUME NEW x \in UNION {InRequest(q) : q \in Page} PROVE x \in Held
    BY <2>4, SMT DEF Held
  <2>5. QED
    BY <2>3, <2>4
<1>3. QED
  BY <1>1, <1>2

\* A request that is done with, and one that is refused, concern no login.
LEMMA RootForgotten ==
  ASSUME SessionTypeOK, RootInv, NEW p \in Page,
         \/ renewal' = [renewal EXCEPT ![p] = NoRenewal]
         \/ renewal' = [renewal EXCEPT ![p].pc = "refused", ![p].cookie = None, ![p].root = None],
         UNCHANGED <<session, logins>>
  PROVE  RootInv'
<1>0. /\ renewal \in [Page -> RenewalState] /\ logins \in Nat /\ None = 0
  BY Facts, Numbers
<1>1. /\ renewal'[p].root = None /\ renewal'[p].pc \in {"idle", "refused"}
      /\ \A q \in Page \ {p} : renewal'[q] = renewal[q]
  BY <1>0 DEF NoRenewal, RenewalState
<1>2. QED
  BY <1>0, <1>1 DEF RootInv, OneSessionPerLogin

\* A request that starts names the login of the cookie it presents.
LEMMA RootNamed ==
  ASSUME SessionTypeOK, RootInv, NEW p \in Page, NEW token,
         renewal' = [renewal EXCEPT ![p] = Renewing(p, token)],
         UNCHANGED <<session, logins>>
  PROVE  RootInv'
<1>0. /\ renewal \in [Page -> RenewalState] /\ logins \in Nat /\ None = 0
      /\ cookie \in Id \cup {None} /\ session \in [Id -> 0..MaxLogins]
  BY Facts, Numbers
<1>1. CASE renewal[p].pc # "idle"
  <2>1. renewal' = renewal
    BY <1>0, <1>1 DEF Renewing
  <2>2. QED
    BY <2>1 DEF RootInv, OneSessionPerLogin
<1>2. CASE renewal[p].pc = "idle"
  <2>1. /\ renewal'[p].pc = "sent" /\ renewal'[p].cookie = cookie
        /\ renewal'[p].root = IF cookie = None THEN None ELSE session[cookie]
        /\ \A q \in Page \ {p} : renewal'[q] = renewal[q]
    BY <1>0, <1>2 DEF Renewing
  <2>2. renewal'[p].root <= logins
    BY <1>0, <2>1 DEF RootInv
  <2>3. QED
    BY <1>0, <2>1, <2>2 DEF RootInv, OneSessionPerLogin
<1>3. QED
  BY <1>1, <1>2

\* Sessions that are revoked fork nothing.
LEMMA RootRevoked ==
  ASSUME SessionTypeOK, RootInv, NEW c \in Id \cup {None},
         session' = [i \in Id |-> IF i = c THEN None ELSE session[i]],
         UNCHANGED <<renewal, logins>>
  PROVE  RootInv'
  BY Facts, Numbers DEF RootInv, OneSessionPerLogin, RenewalState

\* The requests that touch the stored sessions keep the invariant.
LEMMA RootServed ==
  ASSUME SessionTypeOK, RootInv, NEW p \in Page, RefreshServed(p)
  PROVE  RootInv'
<1>0. /\ renewal \in [Page -> RenewalState] /\ logins \in Nat /\ None = 0
      /\ session \in [Id -> 0..MaxLogins] /\ renewal[p].pc = "sent" /\ logins' = logins
  BY Facts, Numbers DEF RefreshServed
<1>1. CASE renewal[p].cookie # None /\ session[renewal[p].cookie] # None
  <2> DEFINE c == renewal[p].cookie
  <2>1. /\ session' = [session EXCEPT ![c] = None] /\ c \in Id
        /\ renewal' = [renewal EXCEPT ![p].pc = "revoked", ![p].cookie = None]
    BY <1>0, <1>1 DEF RefreshServed, Revoked, RenewalState
  <2>2. /\ renewal'[p].pc = "revoked" /\ renewal'[p].root = session[c]
        /\ \A q \in Page \ {p} : renewal'[q] = renewal[q]
    BY <1>0, <1>1, <2>1 DEF RootInv, RenewalState
  <2>3. /\ session'[c] = None /\ \A i \in Id \ {c} : session'[i] = session[i]
    BY <1>0, <2>1
  <2>4. OneSessionPerLogin' /\ \A i \in Id : session'[i] <= logins
    BY <1>0, <2>3 DEF RootInv, OneSessionPerLogin
  <2>5. \A i \in Id : session'[i] # session[c]
    BY <1>1, <2>1, <2>3 DEF RootInv, OneSessionPerLogin
  <2>6. \A q \in Page \ {p} : renewal[q].pc = "revoked" => renewal[q].root # session[c]
    BY <2>1 DEF RootInv
  <2>7. session[c] <= logins /\ session[c] # None
    BY <1>1, <2>1 DEF RootInv
  <2>8. ASSUME NEW q \in Page
        PROVE  LET r == renewal'[q] IN
          /\ r.root <= logins
          /\ r.pc = "sent" /\ r.cookie # None /\ session'[r.cookie] # None =>
               r.root = session'[r.cookie]
          /\ r.pc = "revoked" =>
               /\ r.root # None
               /\ \A i \in Id : session'[i] # r.root
               /\ \A s \in Page : s # q /\ renewal'[s].pc = "revoked" => renewal'[s].root # r.root
    <3>1. CASE q = p
      BY <2>2, <2>5, <2>6, <2>7, <3>1
    <3>2. CASE q # p
      <4>1. renewal[q].cookie \in Id \cup {None}
        BY <1>0 DEF RenewalState
      <4>2. \A i \in Id : session'[i] # None => session'[i] = session[i]
        BY <2>3
      <4>3. QED
        BY <1>0, <2>2, <2>3, <2>6, <3>2, <4>1, <4>2 DEF RootInv
    <3>3. QED
      BY <3>1, <3>2
  <2>9. QED
    BY <1>0, <2>4, <2>8 DEF RootInv
<1>2. CASE ~(renewal[p].cookie # None /\ session[renewal[p].cookie] # None)
  <2>1. /\ renewal' = [renewal EXCEPT ![p].pc = "refused", ![p].cookie = None, ![p].root = None]
        /\ session' = session
    BY <1>2 DEF RefreshServed, Refusing
  <2>2. QED
    BY <1>0, <2>1, RootForgotten
<1>3. QED
  BY <1>1, <1>2

\* The session that replaces a revoked one is the only one of its login.
LEMMA RootIssued ==
  ASSUME SessionTypeOK, RootInv, NEW p \in Page, RefreshIssued(p)
  PROVE  RootInv'
<1>0. /\ renewal \in [Page -> RenewalState] /\ logins \in Nat /\ None = 0 /\ None \notin Id
      /\ session \in [Id -> 0..MaxLogins] /\ renewal[p].pc = "revoked" /\ logins' = logins
  BY Facts, Numbers DEF RefreshIssued
<1>1. PICK i \in Id :
        /\ i \in Unused /\ session' = [session EXCEPT ![i] = renewal[p].root]
        /\ renewal' = [renewal EXCEPT ![p].pc = "issued", ![p].root = None, ![p].id = i]
  BY DEF RefreshIssued, Issued
<1>2. session[i] = None /\ \A q \in Page : renewal[q].cookie # i
  BY <1>1, UnusedId
<1>3. /\ renewal'[p].pc = "issued" /\ renewal'[p].root = None
      /\ \A q \in Page \ {p} : renewal'[q] = renewal[q]
  BY <1>0, <1>1 DEF RenewalState
<1>4. session'[i] = renewal[p].root /\ \A j \in Id \ {i} : session'[j] = session[j]
  BY <1>0, <1>1
<1>5. /\ renewal[p].root # None /\ renewal[p].root <= logins
      /\ \A j \in Id : session[j] # renewal[p].root
      /\ \A q \in Page \ {p} : renewal[q].pc = "revoked" => renewal[q].root # renewal[p].root
  BY <1>0 DEF RootInv
<1>6. OneSessionPerLogin' /\ \A j \in Id : session'[j] <= logins
  BY <1>4, <1>5 DEF RootInv, OneSessionPerLogin
<1>7. \A q \in Page : LET r == renewal'[q] IN
        /\ r.root <= logins
        /\ r.pc = "sent" /\ r.cookie # None /\ session'[r.cookie] # None =>
             r.root = session'[r.cookie]
        /\ r.pc = "revoked" =>
             /\ r.root # None
             /\ \A j \in Id : session'[j] # r.root
             /\ \A s \in Page : s # q /\ renewal'[s].pc = "revoked" => renewal'[s].root # r.root
  BY <1>0, <1>2, <1>3, <1>4, <1>5 DEF RootInv, RenewalState
<1>8. QED
  BY <1>0, <1>6, <1>7 DEF RootInv

\* The session of a login is the first of its login.
LEMMA RootOpened ==
  ASSUME SessionTypeOK, RootInv, NEW p \in Page, LoginIssued(p)
  PROVE  RootInv'
<1>0. /\ renewal \in [Page -> RenewalState] /\ logins \in Nat /\ None = 0 /\ None \notin Id
      /\ session \in [Id -> 0..MaxLogins] /\ logins' = logins + 1 /\ renewal' = renewal
  BY Facts, Numbers DEF LoginIssued
<1>1. PICK i \in Id : i \in Unused /\ session' = [session EXCEPT ![i] = logins + 1]
  BY DEF LoginIssued, Issued
<1>2. session[i] = None /\ \A q \in Page : renewal[q].cookie # i
  BY <1>1, UnusedId
<1>3. session'[i] = logins + 1 /\ \A j \in Id \ {i} : session'[j] = session[j]
  BY <1>0, <1>1
<1>4. /\ \A j \in Id : session[j] \in Nat /\ session[j] <= logins
      /\ \A q \in Page : renewal[q].root \in Nat /\ renewal[q].root <= logins
  BY <1>0, Numbers DEF RootInv, RenewalState
<1>5. OneSessionPerLogin' /\ \A j \in Id : session'[j] <= logins + 1
  BY <1>0, <1>3, <1>4 DEF RootInv, OneSessionPerLogin
<1>6. \A q \in Page : LET r == renewal[q] IN
        /\ r.root <= logins + 1
        /\ r.pc = "sent" /\ r.cookie # None /\ session'[r.cookie] # None =>
             r.root = session'[r.cookie]
        /\ r.pc = "revoked" =>
             /\ r.root # None
             /\ \A j \in Id : session'[j] # r.root
             /\ \A s \in Page : s # q /\ renewal[s].pc = "revoked" => renewal[s].root # r.root
  BY <1>0, <1>2, <1>3, <1>4 DEF RootInv, RenewalState
<1>7. QED
  BY <1>0, <1>5, <1>6 DEF RootInv

\* Every step keeps the sessions apart.
LEMMA RootStep ==
  ASSUME SessionTypeOK, RootInv, [Next]_vars
  PROVE  RootInv'
<1>1. ASSUME UNCHANGED <<session, renewal, logins>> PROVE RootInv'
  BY <1>1 DEF RootInv, OneSessionPerLogin
<1>2. ASSUME NEW p \in Page, UserStep(p) PROVE RootInv'
  <2>1. CASE Open(p)
    <3>1. UNCHANGED <<session, logins>> /\ renewal' = [renewal EXCEPT ![p] = Renewing(p, None)]
      BY <2>1 DEF Open
    <3>2. QED
      BY <3>1, RootNamed
  <2>2. CASE Renew(p)
    <3>1. /\ UNCHANGED <<session, logins>>
          /\ renewal' = [renewal EXCEPT ![p] = Renewing(p, page[p].token)]
      BY <2>2 DEF Renew
    <3>2. QED
      BY <3>1, RootNamed
  <2>3. CASE Close(p) \/ Expire(p) \/ Login(p) \/ SignOut(p)
    BY <1>1, <2>3 DEF Close, Expire, Login, SignOut
  <2>4. QED
    BY <1>2, <2>1, <2>2, <2>3 DEF UserStep
<1>3. ASSUME NEW p \in Page, RenewalStep(p) PROVE RootInv'
  <2>1. CASE RefreshBreaks(p)
    <3>1. /\ renewal' = [renewal EXCEPT ![p].pc = "refused", ![p].cookie = None, ![p].root = None]
          /\ UNCHANGED <<session, logins>>
      BY <2>1 DEF RefreshBreaks, Refusing
    <3>2. QED
      BY <3>1, RootForgotten
  <2>2. CASE RefreshGranted(p) \/ RefreshRefused(p) \/ RefreshLost(p)
    <3>1. renewal' = [renewal EXCEPT ![p] = NoRenewal] /\ UNCHANGED <<session, logins>>
      BY <2>2 DEF RefreshGranted, RefreshRefused, RefreshLost, Refused
    <3>2. QED
      BY <3>1, RootForgotten
  <2>3. CASE OrphanAnswered(p)
    <3>1. /\ \/ renewal' = [renewal EXCEPT ![p] = NoRenewal]
             \/ renewal' = renewal
          /\ UNCHANGED <<session, logins>>
      BY <2>3 DEF OrphanAnswered
    <3>2. QED
      BY <1>1, <3>1, RootForgotten
  <2>4. QED
    BY <1>3, <2>1, <2>2, <2>3, RootServed, RootIssued DEF RenewalStep
<1>4. ASSUME NEW p \in Page, LoginAnswered(p) PROVE RootInv'
  BY <1>1, <1>4 DEF LoginAnswered
<1>5. ASSUME NEW p \in Page, NEW g \in Run, RunStep(p, g) PROVE RootInv'
  <2>1. /\ \/ renewal' = [renewal EXCEPT ![p] = Renewing(p, page[p].token)]
           \/ renewal' = renewal
        /\ UNCHANGED <<session, logins>>
    BY <1>5 DEF RunStep, MeAnswered, AgainAnswered, MeBreaks, Publish
  <2>2. QED
    BY <1>1, <2>1, RootNamed
<1>6. ASSUME NEW k \in logout, LogoutStep(k) PROVE RootInv'
  <2>1. CASE LogoutServed(k)
    <3>1. k.cookie \in Id \cup {None}
      BY <1>6 DEF SessionTypeOK
    <3>2. /\ session' = [i \in Id |-> IF i = k.cookie THEN None ELSE session[i]]
          /\ UNCHANGED <<renewal, logins>>
      BY <2>1 DEF LogoutServed
    <3>3. QED
      BY <3>1, <3>2, RootRevoked
  <2>2. CASE LogoutAnswered(k) \/ LogoutLost(k)
    BY <1>1, <2>2 DEF LogoutAnswered, LogoutLost
  <2>3. QED
    BY <1>6, <2>1, <2>2 DEF LogoutStep
<1>7. CASE UNCHANGED vars
  BY <1>1, <1>7 DEF vars
<1>8. QED
  BY <1>2, <1>3, <1>4, <1>5, <1>6, <1>7, RootOpened DEF Next

-----------------------------------------------------------------------------
(***************************************************************************)
(* Type correctness.                                                       *)
(***************************************************************************)
PagesOK ==
  /\ page \in [Page -> PageState]
  /\ \A p \in Page : page[p].fresh => page[p].token # None

RenewalsOK ==
  /\ renewal \in [Page -> RenewalState]
  /\ \A p \in Page : renewal[p].pc = "issued" <=> renewal[p].id # None

StoreOK ==
  /\ session \in [Id -> 0..MaxLogins]
  /\ cookie \in Id \cup {None}
  /\ logins \in 0..MaxLogins

RestOK ==
  /\ logout \subseteq [cookie : Id \cup {None}, served : BOOLEAN]
  /\ expiries \in 0..MaxExpiries /\ faults \in 0..MaxFaults
  /\ asked \in {"nothing", "in", "out"} /\ ended \in 0..MaxLogins

RunsOK   == run \in [Page -> [Run -> RunState]]
LoginsOK == login \in [Page -> LoginState] /\ LoginInv

\* The parts of type correctness.
LEMMA Parts ==
  /\ SessionTypeOK /\ LoginInv <=>
       PagesOK /\ RenewalsOK /\ StoreOK /\ RestOK /\ RunsOK /\ LoginsOK
  /\ (SessionTypeOK /\ LoginInv)' <=>
       PagesOK' /\ RenewalsOK' /\ StoreOK' /\ RestOK' /\ RunsOK' /\ LoginsOK'
<1>1. SessionTypeOK /\ LoginInv <=>
        PagesOK /\ RenewalsOK /\ StoreOK /\ RestOK /\ RunsOK /\ LoginsOK
  BY DEF SessionTypeOK, PagesOK, RenewalsOK, StoreOK, RestOK, RunsOK, LoginsOK, PageState,
     RunState, RenewalState, LoginState
<1>2. QED
  BY <1>1, PTL

\* The pages keep their runs and stay open or closed.
SamePages == \A p \in Page : page'[p].state = page[p].state /\ page'[p].gen = page[p].gen

\* A login is disturbed only by its page.
LEMMA LoginKept ==
  ASSUME LoginsOK, SamePages, UNCHANGED login
  PROVE  LoginsOK'
  BY DEF LoginsOK, LoginInv, SamePages

\* A refresh request that starts is a proper one.
LEMMA RenewalStarts ==
  ASSUME RenewalsOK, StoreOK, NEW p \in Page, NEW token \in Id \cup {None},
         renewal' = [renewal EXCEPT ![p] = Renewing(p, token)]
  PROVE  RenewalsOK'
<1>1. Renewing(p, token) \in RenewalState
  BY Numbers DEF RenewalsOK, StoreOK, Renewing, RenewalState
<1>2. Renewing(p, token).pc = "issued" <=> Renewing(p, token).id # None
  BY DEF RenewalsOK, Renewing
<1>3. QED
  BY <1>1, <1>2 DEF RenewalsOK

\* So is one that ends.
LEMMA RenewalEnds ==
  ASSUME RenewalsOK, NEW p \in Page, renewal' = [renewal EXCEPT ![p] = NoRenewal]
  PROVE  RenewalsOK'
<1>1. NoRenewal \in RenewalState /\ NoRenewal.pc = "idle" /\ NoRenewal.id = None
  BY Numbers DEF NoRenewal, RenewalState
<1>2. QED
  BY <1>1 DEF RenewalsOK

\* A sign-out request is a proper one.
LEMMA EndingTyped ==
  ASSUME StoreOK, RestOK
  PROVE  logout \cup Ending \subseteq [cookie : Id \cup {None}, served : BOOLEAN]
<1>1. [cookie |-> cookie, served |-> FALSE] \in [cookie : Id \cup {None}, served : BOOLEAN]
  BY DEF StoreOK
<1>2. QED
  BY <1>1 DEF RestOK, Ending

\* A page that becomes another proper one.
LEMMA PageBecomes ==
  ASSUME PagesOK, NEW p \in Page, NEW a \in PageState, a.fresh => a.token # None,
         page' = [page EXCEPT ![p] = a]
  PROVE  /\ PagesOK'
         /\ a.state = page[p].state /\ a.gen = page[p].gen => SamePages
  BY DEF PagesOK, SamePages

\* A page whose token and status are set is still a proper one.
LEMMA PageUpdate ==
  ASSUME PagesOK, NEW p \in Page, NEW t \in Id \cup {None}, NEW f \in BOOLEAN, f = TRUE => t # None,
         NEW s \in {"loading", "anonymous", "authenticated"},
         page' = [page EXCEPT ![p].token = t, ![p].fresh = f, ![p].status = s]
  PROVE  PagesOK' /\ SamePages
<1> DEFINE q == page[p]
           a == [q EXCEPT !.token = t, !.fresh = f, !.status = s]
<1>1. q \in PageState
  BY DEF PagesOK
<1>2. /\ a \in PageState /\ a.fresh = f /\ a.token = t /\ a.state = q.state /\ a.gen = q.gen
  <2> HIDE DEF q
  <2>1. QED
    BY <1>1 DEF PageState
<1>3. page' = [page EXCEPT ![p] = a]
  BY DEF PagesOK
<1> HIDE DEF a
<1>4. a.fresh => a.token # None
  BY <1>2
<1>5. QED
  BY <1>2, <1>3, <1>4, PageBecomes

\* A page where the user signs out is still a proper one.
LEMMA PageSignedOut ==
  ASSUME PagesOK, NEW p \in Page, SignOut(p)
  PROVE  PagesOK' /\ SamePages
<1> DEFINE q == page[p]
           a == [q EXCEPT !.token = None, !.fresh = FALSE, !.status = "anonymous",
                          !.entered = FALSE]
<1>1. q \in PageState
  BY DEF PagesOK
<1>2. /\ a \in PageState /\ a.fresh = FALSE /\ a.state = q.state /\ a.gen = q.gen
  <2> HIDE DEF q
  <2>1. QED
    BY <1>1 DEF PageState
<1>3. page' = [page EXCEPT ![p] = a]
  BY DEF PagesOK, SignOut
<1> HIDE DEF a
<1>4. QED
  BY <1>2, <1>3 DEF PagesOK, SamePages

\* What the end of a refresh request makes of a page and its runs.
LEMMA SettledTyped ==
  ASSUME PagesOK, RunsOK, StoreOK, RestOK, NEW p \in Page, NEW ok \in BOOLEAN,
         NEW token \in Id \cup {None}, token # page[p].token => token = None, Settled(p, ok, token)
  PROVE  /\ PagesOK' /\ RunsOK' /\ SamePages
         /\ logout' \subseteq [cookie : Id \cup {None}, served : BOOLEAN]
<1> DEFINE r       == run[p][page[p].gen]
           lost    == page[p].gen > 0 /\ r.pc \in {"boot", "wait"} /\ ~ok
           cleared == lost /\ r.pc = "wait"
           t == IF cleared THEN None ELSE token
           f == IF token = None \/ cleared THEN FALSE ELSE page[p].fresh
           s == IF lost THEN "anonymous" ELSE page[p].status
<1>1. /\ page' = [page EXCEPT ![p].token = t, ![p].fresh = f, ![p].status = s]
      /\ logout' = IF cleared THEN logout \cup Ending ELSE logout
      /\ run' = [run EXCEPT ![p] = [g \in Run |-> Resumed(run[p][g], ok, token)]]
  BY DEF Settled
<1>2. page[p] \in PageState
  BY DEF PagesOK
<1>3. /\ t \in Id \cup {None} /\ f \in BOOLEAN /\ (f = TRUE => t # None)
      /\ s \in {"loading", "anonymous", "authenticated"}
  BY <1>2 DEF PageState
<1> HIDE DEF lost, cleared, t, f, s
<1>4. PagesOK' /\ SamePages
  BY <1>1, <1>3, PageUpdate
<1>5. RunsOK'
  <2>1. \A g \in Run : run[p][g] \in RunState
    BY DEF RunsOK
  <2>2. \A g \in Run : Resumed(run[p][g], ok, token) \in RunState
    BY <2>1, Numbers DEF Resumed, RunState, NoRun
  <2>3. QED
    BY <1>1, <2>2 DEF RunsOK
<1>6. logout' \subseteq [cookie : Id \cup {None}, served : BOOLEAN]
  BY <1>1, EndingTyped DEF RestOK
<1>7. QED
  BY <1>4, <1>5, <1>6

\* What a failed /me makes of them.
LEMMA RunFailsTyped ==
  ASSUME PagesOK, RunsOK, StoreOK, RestOK, NEW p \in Page, NEW g \in Run, RunFails(p, g)
  PROVE  /\ PagesOK' /\ RunsOK' /\ SamePages
         /\ logout' \subseteq [cookie : Id \cup {None}, served : BOOLEAN]
<1>1. RunsOK'
  BY Numbers DEF RunFails, RunsOK, RunState, NoRun
<1>2. PagesOK' /\ SamePages
  <2>1. CASE Current(p, g)
    BY <2>1, PageUpdate DEF RunFails
  <2>2. CASE ~Current(p, g)
    BY <2>2 DEF RunFails, PagesOK, SamePages
  <2>3. QED
    BY <2>1, <2>2
<1>3. logout' \subseteq [cookie : Id \cup {None}, served : BOOLEAN]
  BY EndingTyped DEF RunFails, RestOK
<1>4. QED
  BY <1>1, <1>2, <1>3

\* A user's steps keep the types.
LEMMA TypeUser ==
  ASSUME SessionTypeOK, LoginInv, NEW p \in Page, UserStep(p)
  PROVE  (SessionTypeOK /\ LoginInv)'
<1>0. PagesOK /\ RenewalsOK /\ StoreOK /\ RestOK /\ RunsOK /\ LoginsOK
  BY Parts
<1> USE Numbers
<1>1. RestOK'
  <2>1. CASE Open(p) \/ Renew(p)
    BY <1>0, <2>1 DEF RestOK, Open, Renew, Overlapping
  <2>2. CASE Close(p) \/ Login(p)
    BY <1>0, <2>2 DEF RestOK, Close, Login
  <2>3. CASE Expire(p)
    BY <1>0, <2>3 DEF RestOK, Expire
  <2>4. CASE SignOut(p)
    BY <1>0, <2>4, EndingTyped, SMTT(30) DEF RestOK, StoreOK, SignOut
  <2>5. QED
    BY <2>1, <2>2, <2>3, <2>4 DEF UserStep
<1>2. StoreOK'
  BY <1>0 DEF StoreOK, UserStep, Open, Close, Expire, Renew, Login, SignOut
<1>3. RenewalsOK'
  <2>1. page[p].token \in Id \cup {None}
    BY <1>0 DEF PagesOK, PageState
  <2>2. CASE Open(p)
    BY <1>0, <2>2, RenewalStarts DEF Open
  <2>3. CASE Renew(p)
    BY <1>0, <2>1, <2>3, RenewalStarts DEF Renew
  <2>4. CASE Close(p) \/ Login(p) \/ Expire(p) \/ SignOut(p)
    BY <1>0, <2>4 DEF RenewalsOK, Close, Login, Expire, SignOut
  <2>5. QED
    BY <2>2, <2>3, <2>4 DEF UserStep
<1>4. PagesOK' /\ RunsOK'
  <2>1. CASE Open(p)
    <3>1. run' \in [Page -> [Run -> RunState]]
      <4> DEFINE r  == run[p]
                 r1 == r[1]
                 rr == [r1 EXCEPT !.pc = "boot"]
      <4>1. r \in [Run -> RunState] /\ r1 \in RunState
        BY <1>0 DEF RunsOK
      <4>2. rr \in RunState
        <5> HIDE DEF r1
        <5>1. QED
          BY <4>1 DEF RunState
      <4>3. [r EXCEPT ![1] = rr] \in [Run -> RunState]
        <5> HIDE DEF r, rr
        <5>1. QED
          BY <4>1, <4>2
      <4>4. run' = [run EXCEPT ![p] = [r EXCEPT ![1] = rr]]
        BY <2>1, Zenon DEF Open
      <4> HIDE DEF r, rr
      <4>5. QED
        BY <1>0, <4>3, <4>4 DEF RunsOK
    <3> DEFINE q == page[p]
               a == [q EXCEPT !.state = "open", !.gen = 1]
    <3>2. q \in PageState /\ (q.fresh => q.token # None)
      BY <1>0 DEF PagesOK
    <3>3. a \in PageState /\ a.fresh = q.fresh /\ a.token = q.token
      <4> HIDE DEF q
      <4>1. 1 \in 0..MaxRuns
        OBVIOUS
      <4>2. a \in PageState
        BY <3>2, <4>1 DEF PageState
      <4>3. a.fresh = q.fresh
        BY <3>2 DEF PageState
      <4>4. QED
        BY <3>2, <4>2, <4>3 DEF PageState
    <3>4. page' = [page EXCEPT ![p] = a]
      BY <1>0, <2>1 DEF PagesOK, Open
    <3> HIDE DEF a
    <3>5. QED
      BY <1>0, <3>1, <3>2, <3>3, <3>4 DEF PagesOK, RunsOK
  <2>2. CASE Close(p)
    <3>1. [NewPage EXCEPT !.state = "closed"] \in PageState
          /\ [NewPage EXCEPT !.state = "closed"].fresh = FALSE
      <4>1. NewPage \in PageState
        BY DEF NewPage, PageState
      <4>2. [NewPage EXCEPT !.state = "closed"].fresh = FALSE
        BY DEF NewPage
      <4>3. QED
        BY <4>1, <4>2 DEF PageState
    <3>2. [g \in Run |-> NoRun] \in [Run -> RunState]
      BY DEF NoRun, RunState
    <3>3. QED
      BY <1>0, <2>2, <3>1, <3>2 DEF PagesOK, RunsOK, Close
  <2>3. CASE Expire(p) \/ SignOut(p)
    <3>1. CASE Expire(p)
      <4> DEFINE q == page[p]
                 a == [q EXCEPT !.fresh = FALSE]
      <4>1. q \in PageState
        BY <1>0 DEF PagesOK
      <4>2. a \in PageState /\ a.fresh = FALSE
        <5> HIDE DEF q
        <5>1. QED
          BY <4>1 DEF PageState
      <4>3. page' = [page EXCEPT ![p] = a] /\ run' = run
        BY <1>0, <3>1 DEF PagesOK, Expire
      <4> HIDE DEF a
      <4>4. QED
        BY <1>0, <4>2, <4>3 DEF PagesOK, RunsOK
    <3>2. CASE SignOut(p)
      BY <1>0, <3>2, PageSignedOut DEF RunsOK, SignOut
    <3>3. QED
      BY <2>3, <3>1, <3>2
  <2>4. CASE Renew(p) \/ Login(p)
    BY <1>0, <2>4 DEF PagesOK, RunsOK, Renew, Login
  <2>5. QED
    BY <2>1, <2>2, <2>3, <2>4 DEF UserStep
<1>5. LoginsOK'
  <2>1. CASE Open(p)
    BY <1>0, <2>1 DEF LoginsOK, LoginInv, PagesOK, PageState, Open
  <2>2. CASE Close(p)
    BY <1>0, <2>2 DEF LoginsOK, LoginInv, PagesOK, PageState, Close, NewPage
  <2>3. CASE Expire(p) \/ SignOut(p) \/ Renew(p)
    <3>1. SamePages /\ UNCHANGED login
      <4>1. CASE Expire(p)
        BY <1>0, <4>1 DEF SamePages, PagesOK, PageState, Expire
      <4>2. CASE SignOut(p)
        BY <1>0, <4>2, PageSignedOut DEF SignOut
      <4>3. CASE Renew(p)
        BY <4>3 DEF SamePages, Renew
      <4>4. QED
        BY <2>3, <4>1, <4>2, <4>3
    <3>2. QED
      BY <1>0, <3>1, LoginKept
  <2>4. CASE Login(p)
    BY <1>0, <2>4 DEF LoginsOK, LoginInv, LoginState, Login
  <2>5. QED
    BY <2>1, <2>2, <2>3, <2>4 DEF UserStep
<1>6. QED
  BY <1>1, <1>2, <1>3, <1>4, <1>5, Parts

\* A stored session is a proper one.
LEMMA IssuedTyped ==
  ASSUME StoreOK, NEW root \in 0..MaxLogins, NEW i \in Id, Issued(root, i)
  PROVE  session' \in [Id -> 0..MaxLogins]
  BY DEF StoreOK, Issued

\* A refresh request that becomes another proper one.
LEMMA RenewalBecomes ==
  ASSUME RenewalsOK, NEW p \in Page, NEW a \in RenewalState, a.pc = "issued" <=> a.id # None,
         renewal' = [renewal EXCEPT ![p] = a]
  PROVE  RenewalsOK'
  BY DEF RenewalsOK

\* The API has revoked the session it presents, or refused it.
LEMMA RenewalServed ==
  ASSUME RenewalsOK, NEW p \in Page, renewal[p].pc # "issued", Revoked(p) \/ Refusing(p)
  PROVE  RenewalsOK'
<1> DEFINE q == renewal[p]
           a == [q EXCEPT !.pc = "revoked", !.cookie = None]
           b == [q EXCEPT !.pc = "refused", !.cookie = None, !.root = None]
<1>1. q \in RenewalState /\ q.id = None
  BY DEF RenewalsOK
<1>2. /\ a \in RenewalState /\ a.pc = "revoked" /\ a.id = None
      /\ b \in RenewalState /\ b.pc = "refused" /\ b.id = None
  <2> HIDE DEF q
  <2>1. a \in RenewalState /\ a.pc = "revoked" /\ a.id = None
    BY <1>1, Numbers DEF RenewalState
  <2>2. b \in RenewalState
    <3> DEFINE c == [q EXCEPT !.pc = "refused", !.cookie = None]
    <3>1. c \in RenewalState
      BY <1>1, Numbers DEF RenewalState
    <3>2. b = [c EXCEPT !.root = None]
      BY <1>1 DEF RenewalState
    <3> HIDE DEF b, c
    <3>3. QED
      BY <3>1, <3>2, Numbers DEF RenewalState
  <2>3. b.pc = "refused" /\ b.id = None
    BY <1>1 DEF RenewalState
  <2>4. QED
    BY <2>1, <2>2, <2>3
<1>3. renewal' = [renewal EXCEPT ![p] = a] \/ renewal' = [renewal EXCEPT ![p] = b]
  BY DEF RenewalsOK, Revoked, Refusing
<1> HIDE DEF a, b
<1>4. CASE renewal' = [renewal EXCEPT ![p] = a]
  BY <1>2, <1>4, RenewalBecomes
<1>5. CASE renewal' = [renewal EXCEPT ![p] = b]
  BY <1>2, <1>5, RenewalBecomes
<1>6. QED
  BY <1>3, <1>4, <1>5

\* Requests and their answers keep the types.
LEMMA TypeRenewal ==
  ASSUME SessionTypeOK, LoginInv, NEW p \in Page, RenewalStep(p)
  PROVE  (SessionTypeOK /\ LoginInv)'
<1>0. /\ PagesOK /\ RenewalsOK /\ StoreOK /\ RestOK /\ RunsOK /\ LoginsOK
      /\ renewal[p] \in RenewalState /\ page[p] \in PageState /\ login[p] \in LoginState
  BY Parts DEF RenewalsOK, PagesOK, LoginsOK
<1> USE Numbers
<1> DEFINE Same == SamePages /\ UNCHANGED login
<1>1. ASSUME Same PROVE LoginsOK'
  BY <1>0, <1>1, LoginKept
<1>2. CASE RefreshServed(p)
  <2>1. StoreOK'
    BY <1>0, <1>2, SMTT(30) DEF StoreOK, RefreshServed, Revoked, Refusing
  <2>2. RenewalsOK'
    BY <1>0, <1>2, RenewalServed DEF RefreshServed
  <2>3. PagesOK' /\ RunsOK' /\ RestOK' /\ Same
    BY <1>0, <1>2 DEF PagesOK, RunsOK, RestOK, SamePages, RefreshServed
  <2>4. QED
    BY <1>1, <2>1, <2>2, <2>3, Parts
<1>3. CASE RefreshIssued(p)
  <2>1. PICK i \in Id :
          /\ Issued(renewal[p].root, i)
          /\ renewal' = [renewal EXCEPT ![p].pc = "issued", ![p].root = None, ![p].id = i]
    BY <1>3 DEF RefreshIssued
  <2>2. StoreOK'
    BY <1>0, <1>3, <2>1, IssuedTyped DEF StoreOK, RenewalState, RefreshIssued
  <2>3. RenewalsOK'
    <3> DEFINE q == renewal[p]
               a == [q EXCEPT !.pc = "issued", !.root = None, !.id = i]
    <3>1. a \in RenewalState /\ a.pc = "issued" /\ a.id = i
      <4> HIDE DEF q
      <4>1. q \in RenewalState
        BY <1>0 DEF q
      <4>2. a \in RenewalState
        <5> DEFINE c == [q EXCEPT !.pc = "issued", !.root = None]
        <5>1. c \in RenewalState
          <6> DEFINE d == [q EXCEPT !.pc = "issued"]
          <6>1. d \in RenewalState
            BY <4>1 DEF RenewalState
          <6>2. c = [d EXCEPT !.root = None]
            BY <4>1 DEF RenewalState
          <6> HIDE DEF c, d
          <6>3. None \in 0..MaxLogins
            OBVIOUS
          <6>4. QED
            BY <6>1, <6>2, <6>3 DEF RenewalState
        <5>2. a = [c EXCEPT !.id = i]
          BY <4>1 DEF RenewalState
        <5> HIDE DEF a, c
        <5>3. QED
          BY <5>1, <5>2 DEF RenewalState
      <4>3. QED
        BY <4>1, <4>2 DEF RenewalState
    <3>2. renewal' = [renewal EXCEPT ![p] = a]
      BY <1>0, <2>1 DEF RenewalsOK
    <3> HIDE DEF a
    <3>3. a.pc = "issued" <=> a.id # None
      BY <3>1
    <3>4. QED
      BY <1>0, <3>1, <3>2, <3>3, RenewalBecomes
  <2>4. PagesOK' /\ RunsOK' /\ RestOK' /\ Same
    BY <1>0, <1>3 DEF PagesOK, RunsOK, RestOK, SamePages, RefreshIssued
  <2>5. QED
    BY <1>1, <2>2, <2>3, <2>4, Parts
<1>4. CASE RefreshBreaks(p)
  <2>1. RenewalsOK'
    BY <1>0, <1>4, RenewalServed DEF RefreshBreaks
  <2>2. PagesOK' /\ RunsOK' /\ StoreOK' /\ RestOK' /\ Same
    BY <1>0, <1>4, SMTT(30) DEF PagesOK, RunsOK, StoreOK, RestOK, SamePages, RefreshBreaks, Refusing
  <2>3. QED
    BY <1>1, <2>1, <2>2, Parts
<1>5. CASE RefreshGranted(p)
  <2> DEFINE taken == page[p].token = renewal[p].start
             token == IF taken THEN renewal[p].id ELSE page[p].token
             f     == IF taken THEN TRUE ELSE page[p].fresh
             q     == page[p]
             a     == [q EXCEPT !.token = token, !.fresh = f]
  <2>1. renewal[p].id \in Id
    BY <1>0, <1>5 DEF RefreshGranted, RenewalsOK, RenewalState
  <2>2. token \in Id \cup {None} /\ f \in BOOLEAN /\ (f = TRUE => token # None)
    BY <1>0, <2>1 DEF PageState, PagesOK
  <2>3. a \in PageState /\ a.fresh = f /\ a.token = token /\ a.state = q.state /\ a.gen = q.gen
    <3> HIDE DEF token, f, q
    <3>1. QED
      BY <1>0, <2>2 DEF PageState, q
  <2>4. page' = [page EXCEPT ![p] = a]
    BY <1>0, <1>5 DEF PagesOK, RefreshGranted
  <2> HIDE DEF a
  <2>5. PagesOK' /\ SamePages
    BY <1>0, <2>2, <2>3, <2>4 DEF PagesOK, SamePages
  <2>6. RunsOK'
    <3>1. \A g \in Run : Resumed(run[p][g], TRUE, token) \in RunState
      <4>1. \A g \in Run : run[p][g] \in RunState
        BY <1>0 DEF RunsOK
      <4> HIDE DEF token
      <4>2. QED
        BY <2>2, <4>1 DEF Resumed, RunState, NoRun
    <3>2. run' = [run EXCEPT ![p] = [g \in Run |-> Resumed(run[p][g], TRUE, token)]]
      BY <1>5 DEF RefreshGranted
    <3> HIDE DEF token
    <3>3. QED
      BY <1>0, <3>1, <3>2 DEF RunsOK
  <2>7. RenewalsOK'
    BY <1>0, <1>5, RenewalEnds DEF RefreshGranted
  <2>8. StoreOK' /\ RestOK' /\ UNCHANGED login
    BY <1>0, <1>5, <2>1 DEF StoreOK, RestOK, RefreshGranted
  <2>9. QED
    BY <1>1, <2>5, <2>6, <2>7, <2>8, Parts
<1>6. CASE RefreshRefused(p) \/ RefreshLost(p)
  <2> DEFINE newer == page[p].token \notin {None, renewal[p].start}
             token == IF newer THEN page[p].token ELSE None
  <2>1. Settled(p, newer, token) /\ renewal' = [renewal EXCEPT ![p] = NoRenewal]
    BY <1>6, Zenon DEF RefreshRefused, RefreshLost, Refused
  <2>2. /\ newer \in BOOLEAN /\ token \in Id \cup {None}
        /\ token # page[p].token => token = None
    BY <1>0 DEF PageState
  <2> HIDE DEF newer, token
  <2>3. /\ PagesOK' /\ RunsOK' /\ SamePages
        /\ logout' \subseteq [cookie : Id \cup {None}, served : BOOLEAN]
    BY <1>0, <2>1, <2>2, SettledTyped
  <2>4. RenewalsOK'
    BY <1>0, <2>1, RenewalEnds
  <2>5. StoreOK' /\ RestOK' /\ UNCHANGED login
    <3>1. UNCHANGED <<session, cookie, login, logins, expiries, asked, ended>>
      BY <1>6 DEF RefreshRefused, RefreshLost
    <3>2. faults' \in 0..MaxFaults
      <4>1. CASE RefreshRefused(p)
        BY <1>0, <4>1 DEF RestOK, RefreshRefused
      <4>2. CASE RefreshLost(p)
        BY <1>0, <4>2 DEF RestOK, RefreshLost
      <4>3. QED
        BY <1>6, <4>1, <4>2
    <3>3. QED
      BY <1>0, <2>3, <3>1, <3>2 DEF StoreOK, RestOK
  <2>6. QED
    BY <1>1, <2>3, <2>4, <2>5, Parts
<1>7. CASE OrphanAnswered(p)
  <2>1. StoreOK'
    BY <1>0, <1>7 DEF StoreOK, OrphanAnswered, RenewalsOK, RenewalState, LoginState
  <2>2. RenewalsOK'
    <3>1. renewal' = renewal \/ renewal' = [renewal EXCEPT ![p] = NoRenewal]
      BY <1>7 DEF OrphanAnswered
    <3>2. QED
      BY <1>0, <3>1, RenewalEnds DEF RenewalsOK
  <2>3. PagesOK' /\ RunsOK' /\ SamePages /\ RestOK'
    BY <1>0, <1>7 DEF PagesOK, RunsOK, RestOK, SamePages, OrphanAnswered
  <2>4. LoginsOK'
    <3>1. NoLogin \in LoginState /\ NoLogin.pc = "idle"
      BY DEF NoLogin, LoginState
    <3>2. login' = login \/ login' = [login EXCEPT ![p] = NoLogin]
      BY <1>7 DEF OrphanAnswered
    <3>3. page' = page
      BY <1>7 DEF OrphanAnswered
    <3>4. QED
      BY <1>0, <3>1, <3>2, <3>3 DEF LoginsOK, LoginInv
  <2>5. QED
    BY <2>1, <2>2, <2>3, <2>4, Parts
<1>8. QED
  BY <1>2, <1>3, <1>4, <1>5, <1>6, <1>7 DEF RenewalStep

\* Logins keep the types.
LEMMA TypeLogin ==
  ASSUME SessionTypeOK, LoginInv, NEW p \in Page, LoginIssued(p) \/ LoginAnswered(p)
  PROVE  (SessionTypeOK /\ LoginInv)'
<1>0. /\ PagesOK /\ RenewalsOK /\ StoreOK /\ RestOK /\ RunsOK /\ LoginsOK
      /\ page[p] \in PageState /\ login[p] \in LoginState
  BY Parts DEF PagesOK, LoginsOK
<1> USE Numbers
<1>1. CASE LoginIssued(p)
  <2>1. PICK i \in Id : /\ Issued(logins + 1, i)
                        /\ login' = [login EXCEPT ![p] = [pc |-> "issued", id |-> i]]
    BY <1>1 DEF LoginIssued
  <2>2. logins + 1 \in 0..MaxLogins /\ logins' = logins + 1
    BY <1>0, <1>1 DEF LoginIssued, StoreOK
  <2>3. StoreOK'
    BY <1>0, <1>1, <2>1, <2>2, IssuedTyped DEF StoreOK, LoginIssued
  <2>4. PagesOK' /\ RunsOK' /\ RenewalsOK' /\ RestOK'
    BY <1>0, <1>1 DEF PagesOK, RunsOK, RenewalsOK, RestOK, LoginIssued
  <2>5. LoginsOK'
    <3>1. [pc |-> "issued", id |-> i] \in LoginState /\ i # None /\ page' = page
          /\ login[p].pc = "sent"
      BY <1>1 DEF LoginState, LoginIssued
    <3>2. QED
      BY <1>0, <2>1, <3>1 DEF LoginsOK, LoginInv
  <2>6. QED
    BY <2>3, <2>4, <2>5, Parts
<1>2. CASE LoginAnswered(p)
  <2> DEFINE i == login[p].id
             g == page[p].gen + 1
             q == page[p]
             a == [q EXCEPT !.token = i, !.fresh = TRUE, !.gen = g, !.entered = TRUE]
  <2>1. /\ i \in Id /\ i # None /\ g \in Run /\ g \in 0..MaxRuns
        /\ login[p].pc = "issued" /\ page[p].state = "open"
    BY <1>0, <1>2, SMTT(30) DEF LoginAnswered, LoginsOK, LoginInv, LoginState, PageState
  <2>2. a \in PageState /\ a.token = i /\ a.state = q.state
    <3> HIDE DEF i, g, q
    <3>1. QED
      BY <1>0, <2>1 DEF PageState, q
  <2>3. page' = [page EXCEPT ![p] = a]
    BY <1>0, <1>2 DEF PagesOK, LoginAnswered
  <2> HIDE DEF a
  <2>4. PagesOK'
    BY <1>0, <2>1, <2>2, <2>3 DEF PagesOK
  <2>5. RunsOK'
    <3> DEFINE r  == run[p]
               me == [pc |-> "me", token |-> i]
    <3>1. run' = [run EXCEPT ![p] = [r EXCEPT ![g] = me]]
      BY <1>2, Zenon DEF LoginAnswered
    <3>2. me \in RunState /\ r \in [Run -> RunState]
      BY <1>0, <2>1 DEF RunsOK, RunState
    <3> HIDE DEF r, me, g
    <3>3. QED
      BY <1>0, <2>1, <3>1, <3>2 DEF RunsOK
  <2>6. StoreOK' /\ RestOK' /\ RenewalsOK'
    BY <1>0, <1>2, <2>1 DEF StoreOK, RestOK, RenewalsOK, LoginAnswered
  <2>7. LoginsOK'
    <3>1. NoLogin \in LoginState /\ NoLogin.pc = "idle"
      BY DEF NoLogin, LoginState
    <3>2. login' = [login EXCEPT ![p] = NoLogin]
      BY <1>2 DEF LoginAnswered
    <3>3. \A s \in Page \ {p} : page'[s] = page[s]
      BY <1>0, <2>3 DEF PagesOK
    <3>4. QED
      BY <1>0, <3>1, <3>2, <3>3 DEF LoginsOK, LoginInv
  <2>8. QED
    BY <2>4, <2>5, <2>6, <2>7, Parts
<1>3. QED
  BY <1>1, <1>2

\* The provider's runs keep the types.
LEMMA TypeRun ==
  ASSUME SessionTypeOK, LoginInv, NEW p \in Page, NEW g \in Run, RunStep(p, g)
  PROVE  (SessionTypeOK /\ LoginInv)'
<1>0. /\ PagesOK /\ RenewalsOK /\ StoreOK /\ RestOK /\ RunsOK /\ LoginsOK
      /\ page[p] \in PageState /\ run[p][g] \in RunState
  BY Parts DEF PagesOK, RunsOK
<1> USE Numbers
<1>1. RenewalsOK'
  <2>1. \/ renewal' = [renewal EXCEPT ![p] = Renewing(p, page[p].token)]
        \/ renewal' = renewal
    BY DEF RunStep, MeAnswered, AgainAnswered, MeBreaks, Publish
  <2>2. page[p].token \in Id \cup {None}
    BY <1>0 DEF PageState
  <2>3. QED
    BY <1>0, <2>1, <2>2, RenewalStarts DEF RenewalsOK
<1>2. StoreOK'
  BY <1>0 DEF StoreOK, RunStep, MeAnswered, AgainAnswered, MeBreaks, Publish
<1>3. /\ UNCHANGED login
      /\ expiries' = expiries /\ faults' \in 0..MaxFaults
      /\ asked' \in {"nothing", "in", "out"} /\ ended' \in 0..MaxLogins
  BY <1>0 DEF RestOK, RunStep, MeAnswered, AgainAnswered, MeBreaks, Publish, Overlapping
<1>4. \/ RunFails(p, g)
      \/ /\ \/ run' = [run EXCEPT ![p][g].pc = "publish"]
            \/ run' = [run EXCEPT ![p][g] = [pc |-> "wait", token |-> None]]
         /\ UNCHANGED <<page, logout>>
      \/ /\ run' = [run EXCEPT ![p][g] = NoRun]
         /\ page' = [page EXCEPT ![p].status = IF Current(p, g) THEN "authenticated" ELSE @]
         /\ UNCHANGED logout
  BY DEF RunStep, MeAnswered, AgainAnswered, MeBreaks, Publish
<1>5. /\ PagesOK' /\ RunsOK' /\ SamePages
      /\ logout' \subseteq [cookie : Id \cup {None}, served : BOOLEAN]
  <2>1. CASE RunFails(p, g)
    BY <1>0, <2>1, RunFailsTyped
  <2>2. CASE /\ \/ run' = [run EXCEPT ![p][g].pc = "publish"]
                \/ run' = [run EXCEPT ![p][g] = [pc |-> "wait", token |-> None]]
             /\ UNCHANGED <<page, logout>>
    <3>1. RunsOK'
      <4> DEFINE r  == run[p]
                 r1 == r[g]
                 a  == [r1 EXCEPT !.pc = "publish"]
                 b  == [pc |-> "wait", token |-> None]
      <4>1. r \in [Run -> RunState] /\ r1 \in RunState /\ b \in RunState
        BY <1>0 DEF RunsOK, RunState
      <4>2. a \in RunState
        <5> HIDE DEF r1
        <5>1. QED
          BY <4>1 DEF RunState
      <4>3. [r EXCEPT ![g] = a] \in [Run -> RunState] /\ [r EXCEPT ![g] = b] \in [Run -> RunState]
        <5> HIDE DEF r, a, b
        <5>1. QED
          BY <4>1, <4>2
      <4>4. \/ run' = [run EXCEPT ![p] = [r EXCEPT ![g] = a]]
            \/ run' = [run EXCEPT ![p] = [r EXCEPT ![g] = b]]
        BY <2>2, Zenon
      <4> HIDE DEF r, a, b
      <4>5. QED
        BY <1>0, <4>3, <4>4 DEF RunsOK
    <3>2. QED
      BY <1>0, <2>2, <3>1 DEF PagesOK, SamePages, RestOK
  <2>3. CASE /\ run' = [run EXCEPT ![p][g] = NoRun]
             /\ page' = [page EXCEPT ![p].status = IF Current(p, g) THEN "authenticated" ELSE @]
             /\ UNCHANGED logout
    <3>1. RunsOK'
      BY <1>0, <2>3 DEF RunsOK, RunState, NoRun
    <3> DEFINE s == IF Current(p, g) THEN "authenticated" ELSE page[p].status
               q == page[p]
               a == [q EXCEPT !.status = s]
    <3>2. s \in {"loading", "anonymous", "authenticated"}
      BY <1>0 DEF PageState
    <3>3. a \in PageState /\ a.fresh = q.fresh /\ a.token = q.token /\ a.state = q.state /\ a.gen = q.gen
      <4> HIDE DEF q, s
      <4>1. QED
        BY <1>0, <3>2 DEF PageState, q
    <3>4. page' = [page EXCEPT ![p] = a]
      BY <1>0, <2>3 DEF PagesOK
    <3> HIDE DEF a
    <3>5. QED
      BY <1>0, <2>3, <3>1, <3>3, <3>4 DEF PagesOK, SamePages, RestOK
  <2>4. QED
    BY <1>4, <2>1, <2>2, <2>3
<1>6. RestOK' /\ LoginsOK'
  BY <1>0, <1>3, <1>5, LoginKept DEF RestOK
<1>7. QED
  BY <1>1, <1>2, <1>5, <1>6, Parts

\* Sign-out requests keep the types.
LEMMA TypeLogout ==
  ASSUME SessionTypeOK, LoginInv, NEW k \in logout, LogoutStep(k)
  PROVE  (SessionTypeOK /\ LoginInv)'
<1>0. PagesOK /\ RenewalsOK /\ StoreOK /\ RestOK /\ RunsOK /\ LoginsOK
  BY Parts
<1>1. PagesOK' /\ RenewalsOK' /\ RunsOK' /\ LoginsOK'
  BY <1>0 DEF PagesOK, RenewalsOK, RunsOK, LoginsOK, LoginInv, LogoutStep, LogoutServed,
     LogoutAnswered, LogoutLost
<1>2. StoreOK'
  BY <1>0, Numbers, SMTT(30) DEF StoreOK, LogoutStep, LogoutServed, LogoutAnswered, LogoutLost
<1>3. RestOK'
  <2>1. CASE LogoutServed(k)
    <3>1. [cookie |-> None, served |-> TRUE] \in [cookie : Id \cup {None}, served : BOOLEAN]
      OBVIOUS
    <3>2. QED
      BY <1>0, <2>1, <3>1 DEF RestOK, LogoutServed
  <2>2. CASE LogoutAnswered(k) \/ LogoutLost(k)
    BY <1>0, <2>2, Numbers DEF RestOK, LogoutAnswered, LogoutLost
  <2>3. QED
    BY <2>1, <2>2 DEF LogoutStep
<1>4. QED
  BY <1>1, <1>2, <1>3, Parts

\* Every step keeps the invariant.
LEMMA SessionStep == SessionInv /\ [Next]_vars => SessionInv'
<1> SUFFICES ASSUME SessionInv, [Next]_vars PROVE SessionInv'
  OBVIOUS
<1>1. SessionTypeOK /\ LoginInv /\ RootInv /\ RootInv'
  BY RootStep DEF SessionInv
<1>2. CASE UNCHANGED vars
  BY <1>1, <1>2 DEF vars, SessionTypeOK, LoginInv, SessionInv
<1>3. CASE Next
  BY <1>1, <1>3, TypeUser, TypeRenewal, TypeLogin, TypeRun, TypeLogout DEF Next, SessionInv
<1>4. QED
  BY <1>2, <1>3

-----------------------------------------------------------------------------
(***************************************************************************)
(* The theorems.                                                           *)
(***************************************************************************)

\* The browser, its pages and the stored sessions keep their types.
THEOREM SessionTypeCorrect == Spec => []SessionTypeOK
<1>1. Spec => []SessionInv
  BY SessionInit, SessionStep, PTL DEF Spec
<1>2. QED
  BY <1>1, PTL DEF SessionInv

\* One login has one live session at a time, however many pages refresh it at
\* once: revoking first and storing the replacement after never forks a session
\* (AuthService.refresh).
THEOREM LoginsAreNeverForked == Spec => []OneSessionPerLogin
<1>1. Spec => []SessionInv
  BY SessionInit, SessionStep, PTL DEF Spec
<1>2. SessionInv => OneSessionPerLogin
  BY DEF SessionInv, RootInv
<1>3. QED
  BY <1>1, <1>2, PTL

-----------------------------------------------------------------------------
(***************************************************************************)
(* What a page shows its user.                                             *)
(***************************************************************************)

\* What a page does is its own: no run outlives it, a page that is new has asked for
\* nothing, and whoever waits for a refresh request is answered by one.
Watched(p) ==
  /\ page[p].state = "new" => renewal[p].pc = "idle" /\ page[p].token = None
  /\ page[p].state # "open" =>
       /\ ~page[p].entered
       /\ \A g \in Run : run[p][g].pc = "done"
  /\ page[p].state = "open" => page[p].gen > 0
  /\ page[p].state = "open" /\ page[p].status = "loading" => run[p][page[p].gen].pc # "done"
  /\ \A g \in Run : run[p][g].pc \in {"boot", "wait"} => renewal[p].pc # "idle"

\* As long as nothing fails, /me refuses no run: a run has a token, and one that is
\* also the page's has not expired.
Unrefused(p) ==
  /\ \A g \in Run :
       /\ run[p][g].pc \notin {"wait", "again"}
       /\ run[p][g].pc = "me" => Accepted(p, g)
       /\ run[p][g].pc = "boot" => renewal[p].start = None
  /\ renewal[p].pc # "idle" /\ renewal[p].start = None /\ page[p].token # None =>
       page[p].fresh

\* As long as nothing fails or expires, a page the user signed in has a token and
\* a current run that is about to say so, or said so.
Shown(p) ==
  /\ page[p].token # None => page[p].fresh
  /\ renewal[p].start = None
  /\ page[p].entered =>
       /\ page[p].token # None
       /\ page[p].status = "authenticated" \/ run[p][page[p].gen].pc \in {"me", "publish"}

Shows(p) ==
  /\ Watched(p)
  /\ faults = 0 => Unrefused(p)
  /\ faults = 0 /\ expiries = 0 => Shown(p)

ShowInv == \A p \in Page : Shows(p)

\* The initial state satisfies it.
LEMMA ShowInit == Init => ShowInv
  BY Numbers DEF Init, ShowInv, Shows, Watched, Unrefused, Shown, Accepted, NewPage, NoRun, NoRenewal

\* The state of one page.
Own(p) == <<page[p], run[p], renewal[p]>>

\* A page that a step leaves alone shows what it did: faults and expiries only grow.
LEMMA ShowsKept ==
  ASSUME NEW p \in Page, Shows(p), Own(p)' = Own(p),
         faults' = 0 => faults = 0, expiries' = 0 => expiries = 0
  PROVE  Shows(p)'
  BY DEF Shows, Watched, Unrefused, Shown, Accepted, Own

\* What type correctness says of one page.
LEMMA OwnTyped ==
  ASSUME SessionTypeOK, NEW p \in Page
  PROVE  /\ page[p] \in PageState /\ run[p] \in [Run -> RunState]
         /\ renewal[p] \in RenewalState /\ login[p] \in LoginState
         /\ page[p].gen \in Nat /\ (page[p].gen > 0 => page[p].gen \in Run)
         /\ page[p].fresh => page[p].token # None
         /\ renewal[p].pc = "issued" <=> renewal[p].id # None
  BY Facts, Numbers DEF PageState, SessionTypeOK

\* The token of the page after a granted refresh: the new one, unless the page has got
\* another one meanwhile.
Given(p) == IF page[p].token = renewal[p].start THEN renewal[p].id ELSE page[p].token

\* What the answer of a granted refresh does to the page and its runs.
LEMMA GrantedEffect ==
  ASSUME SessionTypeOK, NEW p \in Page, RefreshGranted(p)
  PROVE  /\ \A q \in Page \ {p} : Own(q)' = Own(q)
         /\ page'[p].state = page[p].state /\ page'[p].gen = page[p].gen
         /\ page'[p].entered = page[p].entered /\ page'[p].status = page[p].status
         /\ page'[p].token = Given(p)
         /\ page'[p].fresh = IF page[p].token = renewal[p].start THEN TRUE ELSE page[p].fresh
         /\ \A g \in Run :
              /\ run[p][g].pc = "boot" => run'[p][g] = [pc |-> "me", token |-> Given(p)]
              /\ run[p][g].pc = "wait" => run'[p][g] = [pc |-> "again", token |-> Given(p)]
              /\ run[p][g].pc \notin {"boot", "wait"} => run'[p][g] = run[p][g]
         /\ renewal'[p] = NoRenewal
<1>0. /\ page \in [Page -> PageState] /\ run \in [Page -> [Run -> RunState]]
      /\ renewal \in [Page -> RenewalState]
  BY Facts
<1> DEFINE taken == page[p].token = renewal[p].start
           t     == Given(p)
           a     == [page[p] EXCEPT !.token = t, !.fresh = IF taken THEN TRUE ELSE @]
           r     == [g \in Run |-> Resumed(run[p][g], TRUE, t)]
<1>1. /\ page' = [page EXCEPT ![p] = a] /\ run' = [run EXCEPT ![p] = r]
      /\ renewal' = [renewal EXCEPT ![p] = NoRenewal]
  <2>1. page' = [page EXCEPT ![p].token = t, ![p].fresh = IF taken THEN TRUE ELSE @]
    BY Zenon DEF RefreshGranted, Given
  <2>2. QED
    BY <1>0, <2>1, Zenon DEF RefreshGranted, Given
<1>2. /\ a.state = page[p].state /\ a.gen = page[p].gen /\ a.entered = page[p].entered
      /\ a.status = page[p].status /\ a.token = t
      /\ a.fresh = IF taken THEN TRUE ELSE page[p].fresh
  BY <1>0 DEF PageState
<1>3. \A g \in Run :
        /\ run[p][g].pc = "boot" => r[g] = [pc |-> "me", token |-> t]
        /\ run[p][g].pc = "wait" => r[g] = [pc |-> "again", token |-> t]
        /\ run[p][g].pc \notin {"boot", "wait"} => r[g] = run[p][g]
  BY DEF Resumed
<1> HIDE DEF a, r
<1>4. /\ page'[p] = a /\ run'[p] = r /\ renewal'[p] = NoRenewal
      /\ \A q \in Page \ {p} : Own(q)' = Own(q)
  BY <1>0, <1>1 DEF Own
<1>5. QED
  BY <1>2, <1>3, <1>4

\* The end of one that is refused concerns that page only.
LEMMA SettledEffect ==
  ASSUME SessionTypeOK, NEW p \in Page, NEW ok \in BOOLEAN, NEW token, Settled(p, ok, token),
         renewal' = [renewal EXCEPT ![p] = NoRenewal]
  PROVE  \A q \in Page \ {p} : Own(q)' = Own(q)
<1>0. /\ page \in [Page -> PageState] /\ run \in [Page -> [Run -> RunState]]
      /\ renewal \in [Page -> RenewalState]
  BY Facts
<1>1. \A q \in Page \ {p} : page'[q] = page[q] /\ run'[q] = run[q]
  BY <1>0 DEF Settled
<1>2. QED
  BY <1>0, <1>1 DEF Own

\* A step of a page leaves the other pages alone, and counts what fails and expires.
LEMMA OneMoves ==
  ASSUME SessionTypeOK, NEW p \in Page,
         \/ UserStep(p) \/ RenewalStep(p) \/ LoginIssued(p) \/ LoginAnswered(p)
         \/ \E g \in Run : RunStep(p, g)
  PROVE  /\ \A q \in Page \ {p} : Own(q)' = Own(q) /\ login'[q] = login[q]
         /\ faults' = 0 => faults = 0
         /\ expiries' = 0 => expiries = 0
<1>0. /\ page \in [Page -> PageState] /\ run \in [Page -> [Run -> RunState]]
      /\ renewal \in [Page -> RenewalState] /\ login \in [Page -> LoginState]
      /\ faults \in Nat /\ expiries \in Nat
  BY Facts, Numbers, SMTT(30) DEF SessionTypeOK
<1>1. CASE UserStep(p)
  BY <1>0, <1>1 DEF UserStep, Open, Close, Expire, Renew, Login, SignOut, Own
<1>2. CASE RenewalStep(p)
  <2>1. CASE RefreshServed(p) \/ RefreshIssued(p) \/ RefreshBreaks(p)
    BY <1>0, <2>1 DEF RefreshServed, RefreshIssued, RefreshBreaks, Revoked, Refusing, Own
  <2>2. CASE RefreshGranted(p)
    BY <1>0, <2>2, GrantedEffect DEF RefreshGranted
  <2>3. CASE OrphanAnswered(p)
    BY <1>0, <2>3 DEF OrphanAnswered, Own
  <2>4. CASE RefreshRefused(p) \/ RefreshLost(p)
    <3> DEFINE newer == page[p].token \notin {None, renewal[p].start}
               token == IF newer THEN page[p].token ELSE None
    <3>1. Settled(p, newer, token) /\ renewal' = [renewal EXCEPT ![p] = NoRenewal]
      BY <2>4, Zenon DEF RefreshRefused, RefreshLost, Refused
    <3>2. newer \in BOOLEAN
      OBVIOUS
    <3> HIDE DEF newer, token
    <3>3. \A q \in Page \ {p} : Own(q)' = Own(q)
      BY <3>1, <3>2, SettledEffect
    <3>4. login' = login /\ expiries' = expiries /\ faults' \in {faults, faults + 1}
      BY <2>4 DEF RefreshRefused, RefreshLost
    <3>5. QED
      BY <1>0, <3>3, <3>4
  <2>5. QED
    BY <1>2, <2>1, <2>2, <2>3, <2>4 DEF RenewalStep
<1>3. CASE LoginIssued(p) \/ LoginAnswered(p)
  BY <1>0, <1>3 DEF LoginIssued, LoginAnswered, Own
<1>4. ASSUME NEW g \in Run, RunStep(p, g)
      PROVE  /\ \A q \in Page \ {p} : Own(q)' = Own(q) /\ login'[q] = login[q]
             /\ faults' = 0 => faults = 0
             /\ expiries' = 0 => expiries = 0
  BY <1>0, <1>4, SMTT(30) DEF RunStep, MeAnswered, AgainAnswered, MeBreaks, Publish, RunFails, Own
<1>5. QED
  BY <1>1, <1>2, <1>3, <1>4

\* What the user does in a page keeps what it shows in order.
LEMMA ShowsUser ==
  ASSUME SessionTypeOK, NEW p \in Page, Shows(p), UserStep(p)
  PROVE  Shows(p)'
<1> DEFINE q == page[p]
           r == run[p]
           n == renewal[p]
<1>0. /\ page \in [Page -> PageState] /\ run \in [Page -> [Run -> RunState]]
      /\ renewal \in [Page -> RenewalState]
      /\ q \in PageState /\ r \in [Run -> RunState] /\ n \in RenewalState
      /\ faults \in Nat /\ expiries \in Nat
      /\ q.gen \in Nat /\ (q.gen > 0 => q.gen \in Run) /\ None = 0 /\ 1 \in Run
  <2>1. faults \in Nat /\ expiries \in Nat
    BY Numbers DEF SessionTypeOK
  <2>2. QED
    BY <2>1, Facts, OwnTyped, Numbers
<1>1. CASE Open(p)
  <2>1. /\ page'[p] = [q EXCEPT !.state = "open", !.gen = 1] /\ q.state = "new"
        /\ run'[p] = [r EXCEPT ![1].pc = "boot"]
        /\ renewal'[p] = Renewing(p, None)
        /\ faults' = faults /\ expiries' = expiries
    BY <1>0, <1>1 DEF Open
  <2>2. n.pc = "idle" /\ q.token = None /\ ~q.entered /\ \A g \in Run : r[g].pc = "done"
    BY <2>1 DEF Shows, Watched
  <2>3. /\ page'[p].state = "open" /\ page'[p].gen = 1 /\ page'[p].token = None
        /\ page'[p].entered = q.entered /\ page'[p].status = q.status
    BY <1>0, <2>1, <2>2 DEF PageState
  <2>4. run'[p][1].pc = "boot" /\ \A g \in Run \ {1} : run'[p][g] = r[g]
    BY <1>0, <2>1 DEF RunState
  <2>5. renewal'[p].pc = "sent" /\ renewal'[p].start = None
    BY <2>1, <2>2 DEF Renewing
  <2>6. QED
    BY <1>0, <2>2, <2>3, <2>4, <2>5, SMTT(30) DEF Shows, Watched, Unrefused, Shown, Accepted
<1>2. CASE Close(p)
  <2>1. /\ page'[p] = [NewPage EXCEPT !.state = "closed"] /\ q.state = "open"
        /\ run'[p] = [g \in Run |-> NoRun]
        /\ renewal'[p] = n /\ faults' = faults /\ expiries' = expiries
    BY <1>0, <1>2 DEF Close
  <2>2. /\ page'[p].state = "closed" /\ page'[p].token = None /\ page'[p].entered = FALSE
        /\ \A g \in Run : run'[p][g].pc = "done"
    BY <2>1 DEF NewPage, NoRun
  <2>3. QED
    BY <1>0, <2>1, <2>2 DEF Shows, Watched, Unrefused, Shown, Accepted
<1>3. CASE Expire(p)
  <2>1. /\ page'[p] = [q EXCEPT !.fresh = FALSE] /\ run'[p] = r /\ renewal'[p] = n
        /\ expiries' = expiries + 1
        /\ \/ faults' = faults + 1
           \/ faults' = faults /\ (\A g \in Run : r[g].pc = "done") /\ n.pc = "idle"
    BY <1>0, <1>3 DEF Expire, Working
  <2>2. /\ page'[p].state = q.state /\ page'[p].gen = q.gen /\ page'[p].token = q.token
        /\ page'[p].entered = q.entered /\ page'[p].status = q.status
    BY <1>0, <2>1 DEF PageState
  <2>3. QED
    BY <1>0, <2>1, <2>2 DEF Shows, Watched, Unrefused, Shown, Accepted
<1>4. CASE Renew(p)
  <2>1. /\ q.state = "open" /\ q.token # None /\ ~q.fresh /\ n.pc = "idle"
        /\ renewal'[p] = Renewing(p, q.token) /\ page'[p] = q /\ run'[p] = r
        /\ faults' = faults /\ expiries' = expiries
    BY <1>0, <1>4 DEF Renew
  <2>2. renewal'[p].pc = "sent" /\ renewal'[p].start # None
    BY <2>1 DEF Renewing
  <2>3. \A g \in Run : r[g].pc # "boot"
    BY <2>1 DEF Shows, Watched
  <2>4. QED
    BY <1>0, <2>1, <2>2, <2>3 DEF Shows, Watched, Unrefused, Shown, Accepted
<1>5. CASE Login(p)
  BY <1>5 DEF Login, Shows, Watched, Unrefused, Shown, Accepted
<1>6. CASE SignOut(p)
  <2>1. /\ page'[p] = [q EXCEPT !.token = None, !.fresh = FALSE, !.status = "anonymous",
                                !.entered = FALSE]
        /\ run'[p] = r /\ renewal'[p] = n /\ q.state = "open"
        /\ faults' = faults /\ expiries' = expiries
    BY <1>0, <1>6 DEF SignOut
  <2>2. /\ page'[p].state = "open" /\ page'[p].gen = q.gen /\ page'[p].token = None
        /\ page'[p].entered = FALSE /\ page'[p].status = "anonymous"
    BY <1>0, <2>1 DEF PageState
  <2>3. QED
    BY <1>0, <2>1, <2>2 DEF Shows, Watched, Unrefused, Shown, Accepted
<1>7. QED
  BY <1>1, <1>2, <1>3, <1>4, <1>5, <1>6 DEF UserStep

\* So does the end of its refresh request: without faults nobody is restoring or
\* waiting when it is refused but a page that has no other token.
LEMMA ShowsSettled ==
  ASSUME SessionTypeOK, NEW p \in Page, Shows(p), NEW ok \in BOOLEAN, NEW token,
         ok <=> page[p].token \notin {None, renewal[p].start},
         token = IF ok THEN page[p].token ELSE None,
         Settled(p, ok, token), renewal' = [renewal EXCEPT ![p] = NoRenewal],
         page[p].state = "open", renewal[p].pc # "idle",
         expiries' = expiries, faults' \in {faults, faults + 1}
  PROVE  /\ Shows(p)'
         /\ faults' = 0 => logout' = logout
<1> DEFINE q == page[p]
           r == run[p]
           lost    == q.gen > 0 /\ r[q.gen].pc \in {"boot", "wait"} /\ ~ok
           cleared == lost /\ r[q.gen].pc = "wait"
           a == [q EXCEPT !.token = IF cleared THEN None ELSE token,
                          !.fresh = IF token = None \/ cleared THEN FALSE ELSE @,
                          !.status = IF lost THEN "anonymous" ELSE @]
           rr == [g \in Run |-> Resumed(r[g], ok, token)]
<1>0. /\ page \in [Page -> PageState] /\ run \in [Page -> [Run -> RunState]]
      /\ renewal \in [Page -> RenewalState]
      /\ q \in PageState /\ r \in [Run -> RunState]
      /\ faults \in Nat /\ expiries \in Nat
      /\ q.gen \in Nat /\ (q.gen > 0 => q.gen \in Run) /\ None = 0
  <2>1. faults \in Nat /\ expiries \in Nat
    BY Numbers DEF SessionTypeOK
  <2>2. QED
    BY <2>1, Facts, OwnTyped, Numbers
<1>1. /\ page' = [page EXCEPT ![p].token = IF cleared THEN None ELSE token,
                              ![p].fresh = IF token = None \/ cleared THEN FALSE ELSE @,
                              ![p].status = IF lost THEN "anonymous" ELSE @]
      /\ run' = [run EXCEPT ![p] = rr]
      /\ logout' = IF cleared THEN logout \cup Ending ELSE logout
  BY Zenon DEF Settled
<1>2. page' = [page EXCEPT ![p] = a]
  BY <1>0, <1>1, Zenon
<1>3. \A g \in Run :
        /\ r[g].pc = "boot" => rr[g] = IF ok THEN [pc |-> "me", token |-> token] ELSE NoRun
        /\ r[g].pc = "wait" => rr[g] = IF ok THEN [pc |-> "again", token |-> token] ELSE NoRun
        /\ r[g].pc \notin {"boot", "wait"} => rr[g] = r[g]
  BY DEF Resumed
<1> HIDE DEF lost, cleared
<1>4. /\ a.state = q.state /\ a.gen = q.gen /\ a.entered = q.entered
      /\ a.token = IF cleared THEN None ELSE token
      /\ a.fresh = IF token = None \/ cleared THEN FALSE ELSE q.fresh
      /\ a.status = IF lost THEN "anonymous" ELSE q.status
  BY <1>0 DEF PageState
<1> HIDE DEF a, rr
<1>5. /\ page'[p] = a /\ run'[p] = rr
      /\ renewal'[p].pc = "idle" /\ renewal'[p].start = None
      /\ ~cleared => logout' = logout
  BY <1>0, <1>1, <1>2 DEF NoRenewal
<1>6. Watched(p)'
  <2>1. \A g \in Run :
          /\ rr[g].pc \notin {"boot", "wait"}
          /\ rr[g].pc = "done" => r[g].pc = "done" \/ (r[g].pc \in {"boot", "wait"} /\ ~ok)
    BY <1>3 DEF NoRun
  <2>2. Watched(p) /\ q.gen \in Run
    BY <1>0 DEF Shows, Watched
  <2>3. a.status = "loading" => rr[q.gen].pc # "done"
    BY <1>4, <2>1, <2>2 DEF Watched, lost
  <2>4. QED
    BY <1>4, <1>5, <2>1, <2>2, <2>3 DEF Watched
<1>7. ASSUME faults' = 0
      PROVE  Unrefused(p)' /\ ~cleared /\ (ok => q.fresh \/ \A g \in Run : r[g].pc # "boot")
  <2>1. faults = 0 /\ Unrefused(p)
    BY <1>0, <1>7 DEF Shows
  <2>2. ~cleared
    BY <1>0, <2>1 DEF cleared, lost, Unrefused
  <2>3. ok => q.fresh \/ \A g \in Run : r[g].pc # "boot"
    BY <2>1 DEF Unrefused
  <2>4. ASSUME NEW g \in Run
        PROVE  /\ run'[p][g].pc \notin {"wait", "again", "boot"}
               /\ run'[p][g].pc = "me" => Accepted(p, g)'
    <3>1. r[g].pc \notin {"wait", "again"} /\ (r[g].pc = "me" => Accepted(p, g))
      BY <2>1 DEF Unrefused
    <3>2. CASE r[g].pc = "boot"
      <4>1. rr[g] = IF ok THEN [pc |-> "me", token |-> token] ELSE NoRun
        BY <1>3, <3>2
      <4>2. CASE ok
        <5>1. run'[p][g].pc = "me" /\ run'[p][g].token = q.token /\ q.token # None
          BY <1>5, <4>1, <4>2
        <5>2. page'[p].fresh
          BY <1>4, <1>5, <2>2, <2>3, <3>2, <4>2
        <5>3. QED
          BY <5>1, <5>2 DEF Accepted
      <4>3. CASE ~ok
        BY <1>5, <4>1, <4>3 DEF NoRun
      <4>4. QED
        BY <4>2, <4>3
    <3>3. CASE r[g].pc # "boot"
      <4>1. run'[p][g] = r[g]
        BY <1>3, <1>4, <1>5, <3>1, <3>3
      <4>2. page'[p].token = token
        BY <1>3, <1>4, <1>5, <2>2
      <4>3. r[g].pc = "me" => Accepted(p, g)'
        <5>1. CASE ok
          BY <1>3, <1>4, <1>5, <2>2, <3>1, <4>1, <5>1 DEF Accepted
        <5>2. CASE ~ok
          BY <1>3, <1>4, <1>5, <2>2, <3>1, <4>1, <5>2 DEF Accepted
        <5>3. QED
          BY <5>1, <5>2
      <4>4. QED
        BY <3>1, <3>3, <4>1, <4>3
    <3>4. QED
      BY <3>2, <3>3
  <2>5. QED
    BY <1>3, <1>4, <1>5, <2>2, <2>3, <2>4 DEF Unrefused
<1>8. ASSUME faults' = 0, expiries' = 0 PROVE Shown(p)'
  <2>1. faults = 0 /\ expiries = 0 /\ Shown(p) /\ Watched(p) /\ ~cleared
    BY <1>0, <1>7, <1>8 DEF Shows
  <2>2. CASE ok
    <3>1. page'[p].token = q.token /\ page'[p].fresh = q.fresh /\ page'[p].status = q.status
      BY <1>3, <1>4, <1>5, <2>1, <2>2 DEF lost
    <3>2. r[q.gen].pc \in {"me", "publish"} /\ q.gen > 0 => run'[p][q.gen] = r[q.gen]
      BY <1>0, <1>3, <1>4, <1>5
    <3>3. q.gen > 0
      BY <2>1 DEF Watched
    <3>4. QED
      BY <1>3, <1>4, <1>5, <2>1, <3>1, <3>2, <3>3 DEF Shown
  <2>3. CASE ~ok
    <3>1. q.token = None /\ ~q.entered
      BY <2>1, <2>3 DEF Shown
    <3>2. QED
      BY <1>3, <1>4, <1>5, <2>3, <3>1 DEF Shown
  <2>4. QED
    BY <2>2, <2>3
<1>9. QED
  BY <1>5, <1>6, <1>7, <1>8 DEF Shows

\* Requests and their answers keep what a page shows in order.
LEMMA ShowsRenewal ==
  ASSUME SessionTypeOK, NEW p \in Page, Shows(p), RenewalStep(p)
  PROVE  /\ Shows(p)'
         /\ faults' = 0 => logout' = logout
<1> DEFINE q == page[p]
           r == run[p]
           n == renewal[p]
<1>0. /\ page \in [Page -> PageState] /\ run \in [Page -> [Run -> RunState]]
      /\ renewal \in [Page -> RenewalState]
      /\ q \in PageState /\ r \in [Run -> RunState] /\ n \in RenewalState
      /\ faults \in Nat /\ expiries \in Nat
      /\ q.gen \in Nat /\ (q.gen > 0 => q.gen \in Run) /\ None = 0
      /\ n.pc = "issued" => n.id # None
  <2>1. faults \in Nat /\ expiries \in Nat
    BY Numbers DEF SessionTypeOK
  <2>2. QED
    BY <2>1, Facts, OwnTyped, Numbers
<1>1. CASE RefreshServed(p) \/ RefreshIssued(p) \/ RefreshBreaks(p)
  <2>1. /\ page' = page /\ run' = run /\ n.pc # "idle" /\ logout' = logout
        /\ expiries' = expiries /\ (faults' = 0 => faults = 0)
    BY <1>0, <1>1 DEF RefreshServed, RefreshIssued, RefreshBreaks
  <2>2. renewal'[p].pc # "idle" /\ renewal'[p].start = n.start
    BY <1>0, <1>1
    DEF RefreshServed, RefreshIssued, RefreshBreaks, Revoked, Refusing, RenewalState
  <2>3. QED
    BY <1>0, <2>1, <2>2 DEF Shows, Watched, Unrefused, Shown, Accepted
<1>2. CASE RefreshGranted(p)
  <2> DEFINE t == Given(p)
             taken == q.token = n.start
  <2>1. /\ page'[p].gen = q.gen /\ page'[p].entered = q.entered /\ page'[p].status = q.status
        /\ page'[p].state = q.state /\ page'[p].token = t
        /\ page'[p].fresh = IF taken THEN TRUE ELSE q.fresh
        /\ renewal'[p] = NoRenewal
    BY <1>2, GrantedEffect
  <2>2. /\ n.pc = "issued" /\ q.state = "open" /\ n.id # None
        /\ UNCHANGED <<logout, expiries, faults>>
    BY <1>0, <1>2 DEF RefreshGranted
  <2>3. \A g \in Run :
          /\ r[g].pc = "boot" => run'[p][g] = [pc |-> "me", token |-> t]
          /\ r[g].pc = "wait" => run'[p][g] = [pc |-> "again", token |-> t]
          /\ r[g].pc \notin {"boot", "wait"} => run'[p][g] = r[g]
    BY <1>2, GrantedEffect
  <2>5. renewal'[p].pc = "idle" /\ renewal'[p].start = None
    BY <2>1 DEF NoRenewal
  <2>6. \A g \in Run :
          /\ run'[p][g].pc \notin {"boot", "wait"}
          /\ run'[p][g].pc = "done" => r[g].pc = "done"
    BY <2>3
  <2>7. Watched(p) /\ Watched(p)'
    BY <1>0, <2>1, <2>2, <2>5, <2>6 DEF Shows, Watched
  <2>8. ASSUME faults' = 0 PROVE Unrefused(p) /\ Unrefused(p)'
    <3>1. faults = 0 /\ Unrefused(p)
      BY <2>2, <2>8 DEF Shows
    <3>2. ASSUME NEW g \in Run
          PROVE  /\ run'[p][g].pc \notin {"wait", "again", "boot"}
                 /\ run'[p][g].pc = "me" => Accepted(p, g)'
      <4>1. CASE r[g].pc = "boot"
        <5>1. run'[p][g].pc = "me" /\ run'[p][g].token = t /\ n.start = None
          BY <2>3, <3>1, <4>1 DEF Unrefused
        <5>2. t # None /\ page'[p].fresh
          BY <2>1, <2>2, <3>1, <5>1 DEF Unrefused, Given
        <5>3. QED
          BY <2>1, <5>1, <5>2 DEF Accepted
      <4>2. CASE r[g].pc # "boot"
        <5>1. /\ run'[p][g] = r[g] /\ r[g].pc \notin {"wait", "again"}
              /\ r[g].pc = "me" => Accepted(p, g)
          BY <2>3, <3>1, <4>2 DEF Unrefused
        <5>2. taken \/ t = q.token
          BY DEF Given
        <5>3. QED
          BY <2>1, <4>2, <5>1, <5>2 DEF Accepted
      <4>3. QED
        BY <4>1, <4>2
    <3>3. QED
      BY <2>1, <2>5, <3>1, <3>2 DEF Unrefused
  <2>9. ASSUME faults' = 0, expiries' = 0 PROVE Shown(p)'
    <3>1. Shown(p) /\ q.gen \in Run
      BY <1>0, <2>2, <2>7, <2>9 DEF Shows, Watched
    <3>2. t # None /\ (taken \/ q.token = t)
      BY <2>2, <3>1 DEF Shown, Given
    <3>3. r[q.gen].pc \in {"me", "publish"} => run'[p][q.gen] = r[q.gen]
      BY <2>3, <3>1
    <3>4. QED
      BY <2>1, <2>5, <3>1, <3>2, <3>3 DEF Shown
  <2>10. QED
    BY <2>2, <2>7, <2>8, <2>9 DEF Shows
<1>3. CASE RefreshRefused(p) \/ RefreshLost(p)
  <2>1. /\ Refused(p) /\ q.state = "open" /\ n.pc # "idle"
        /\ expiries' = expiries /\ faults' \in {faults, faults + 1}
    BY <1>3 DEF RefreshRefused, RefreshLost
  <2>2. CASE q.token \notin {None, n.start}
    <3>1. Settled(p, TRUE, q.token) /\ renewal' = [renewal EXCEPT ![p] = NoRenewal]
      BY <2>1, <2>2 DEF Refused
    <3>2. QED
      BY <2>1, <2>2, <3>1, ShowsSettled
  <2>3. CASE ~(q.token \notin {None, n.start})
    <3>1. Settled(p, FALSE, None) /\ renewal' = [renewal EXCEPT ![p] = NoRenewal]
      BY <2>1, <2>3 DEF Refused
    <3>2. QED
      BY <2>1, <2>3, <3>1, ShowsSettled
  <2>4. QED
    BY <2>2, <2>3
<1>4. CASE OrphanAnswered(p)
  <2>1. /\ q.state = "closed" /\ page' = page /\ run' = run /\ logout' = logout
        /\ expiries' = expiries /\ (faults' = 0 => faults = 0)
        /\ renewal'[p] = n \/ renewal'[p] = NoRenewal
    BY <1>0, <1>4 DEF OrphanAnswered
  <2>2. renewal'[p].pc = "idle" \/ renewal'[p].pc = n.pc
    BY <2>1 DEF NoRenewal
  <2>3. renewal'[p].start = None \/ renewal'[p] = n
    BY <2>1 DEF NoRenewal
  <2>4. \A g \in Run : r[g].pc = "done"
    BY <2>1 DEF Shows, Watched
  <2>5. QED
    BY <1>0, <2>1, <2>2, <2>3, <2>4 DEF Shows, Watched, Unrefused, Shown, Accepted, NoRenewal
<1>5. QED
  BY <1>1, <1>2, <1>3, <1>4 DEF RenewalStep

\* So does a login: the page it is answered to has a fresh token and a current run.
LEMMA ShowsLogin ==
  ASSUME SessionTypeOK, LoginInv, NEW p \in Page, Shows(p), LoginIssued(p) \/ LoginAnswered(p)
  PROVE  Shows(p)'
<1> DEFINE q == page[p]
           r == run[p]
<1>0. /\ page \in [Page -> PageState] /\ run \in [Page -> [Run -> RunState]]
      /\ q \in PageState /\ r \in [Run -> RunState]
      /\ q.gen \in Nat /\ (q.gen < MaxRuns => q.gen + 1 \in Run)
  BY Facts, OwnTyped, Numbers
<1>1. CASE LoginIssued(p)
  BY <1>1 DEF LoginIssued, Shows, Watched, Unrefused, Shown, Accepted
<1>2. CASE LoginAnswered(p)
  <2> DEFINE i == login[p].id
             g == q.gen + 1
             a == [q EXCEPT !.token = i, !.fresh = TRUE, !.gen = g, !.entered = TRUE]
             rr == [r EXCEPT ![g] = [pc |-> "me", token |-> i]]
  <2>1. /\ i # None /\ q.state = "open" /\ g \in Run /\ g > 0
        /\ renewal' = renewal /\ faults' = faults /\ expiries' = expiries
    BY <1>0, <1>2 DEF LoginAnswered, LoginInv
  <2>2. page'[p] = a /\ run'[p] = rr
    BY <1>0, <1>2 DEF LoginAnswered
  <2>3. rr[g].pc = "me" /\ rr[g].token = i /\ \A h \in Run \ {g} : rr[h] = r[h]
    BY <1>0, <2>1
  <2> HIDE DEF i, g
  <2>4. /\ a.state = "open" /\ a.token = i /\ a.fresh = TRUE /\ a.gen = g /\ a.entered = TRUE
    BY <1>0, <2>1 DEF PageState
  <2> HIDE DEF a, rr
  <2>5. QED
    BY <2>1, <2>2, <2>3, <2>4 DEF Shows, Watched, Unrefused, Shown, Accepted
<1>3. QED
  BY <1>1, <1>2

\* What a run that fails does to its page.
LEMMA FailsEffect ==
  ASSUME SessionTypeOK, NEW p \in Page, NEW g \in Run, RunFails(p, g)
  PROVE  /\ run'[p][g].pc = "done" /\ \A h \in Run \ {g} : run'[p][h] = run[p][h]
         /\ page'[p].state = page[p].state /\ page'[p].gen = page[p].gen
         /\ page'[p].entered = page[p].entered
         /\ page'[p].token \in {None, page[p].token}
         /\ IF Current(p, g) THEN page'[p].status = "anonymous"
            ELSE page'[p].status = page[p].status
<1>0. /\ page \in [Page -> PageState] /\ run \in [Page -> [Run -> RunState]]
      /\ page[p] \in PageState
  BY Facts
<1>1. run'[p][g].pc = "done" /\ \A h \in Run \ {g} : run'[p][h] = run[p][h]
  BY <1>0 DEF RunFails, NoRun
<1>2. CASE Current(p, g)
  <2>1. page'[p] = [page[p] EXCEPT !.token = None, !.fresh = FALSE, !.status = "anonymous"]
    BY <1>0, <1>2 DEF RunFails
  <2>2. QED
    BY <1>0, <1>1, <1>2, <2>1 DEF PageState
<1>3. CASE ~Current(p, g)
  BY <1>1, <1>3 DEF RunFails
<1>4. QED
  BY <1>2, <1>3

\* The provider's runs keep what the page shows in order, and without faults none of
\* them signs the user out.
LEMMA ShowsRun ==
  ASSUME SessionTypeOK, NEW p \in Page, Shows(p), NEW g \in Run, RunStep(p, g)
  PROVE  /\ Shows(p)'
         /\ faults' = 0 => logout' = logout
<1> DEFINE q == page[p]
           r == run[p]
           n == renewal[p]
<1>0. /\ page \in [Page -> PageState] /\ run \in [Page -> [Run -> RunState]]
      /\ renewal \in [Page -> RenewalState]
      /\ q \in PageState /\ r \in [Run -> RunState] /\ n \in RenewalState
      /\ faults \in Nat /\ expiries \in Nat
      /\ q.gen \in Nat /\ (q.gen > 0 => q.gen \in Run) /\ None = 0
  <2>1. faults \in Nat /\ expiries \in Nat
    BY Numbers DEF SessionTypeOK
  <2>2. QED
    BY <2>1, Facts, OwnTyped, Numbers
<1>1. /\ r[g].pc # "done" /\ q.state = "open" /\ Watched(p) /\ q.gen \in Run
      /\ expiries' = expiries /\ (faults' = 0 => faults = 0)
  <2>1. r[g].pc # "done" /\ expiries' = expiries /\ faults' \in {faults, faults + 1}
    BY DEF RunStep, MeAnswered, AgainAnswered, MeBreaks, Publish
  <2>2. QED
    BY <1>0, <2>1 DEF Shows, Watched
<1>2. ASSUME faults = 0
      PROVE  r[g].pc \in {"me", "publish", "boot"} /\ (r[g].pc = "me" => Accepted(p, g))
  <2>1. r[g].pc \in {"boot", "me", "wait", "again", "publish"}
    BY <1>0, <1>1 DEF RunState
  <2>2. Unrefused(p)
    BY <1>2 DEF Shows
  <2>3. QED
    BY <2>1, <2>2 DEF Unrefused
<1>3. ASSUME run' = [run EXCEPT ![p][g].pc = "publish"], UNCHANGED <<page, renewal, logout>>
      PROVE  Shows(p)'
  <2>1. run'[p][g].pc = "publish" /\ \A h \in Run \ {g} : run'[p][h] = r[h]
    BY <1>0, <1>3 DEF RunState
  <2>2. QED
    BY <1>1, <1>3, <2>1 DEF Shows, Watched, Unrefused, Shown, Accepted
<1>4. ASSUME RunFails(p, g), renewal' = renewal, faults' # 0
      PROVE  Shows(p)'
  <2>1. /\ run'[p][g].pc = "done" /\ \A h \in Run \ {g} : run'[p][h] = r[h]
        /\ page'[p].state = "open" /\ page'[p].gen = q.gen
        /\ IF q.gen = g THEN page'[p].status = "anonymous" ELSE page'[p].status = q.status
    BY <1>1, <1>4, FailsEffect DEF Current
  <2>2. Watched(p)'
    BY <1>1, <1>4, <2>1 DEF Watched
  <2>3. QED
    BY <1>4, <2>2 DEF Shows
<1>5. CASE MeAnswered(p, g)
  <2>1. CASE Accepted(p, g)
    BY <1>3, <1>5, <2>1 DEF MeAnswered
  <2>2. CASE ~Accepted(p, g)
    <3>1. faults' # 0
      BY <1>2, <1>5, <2>2 DEF MeAnswered
    <3>2. CASE q.token # None
      <4>1. /\ run' = [run EXCEPT ![p][g] = [pc |-> "wait", token |-> None]]
            /\ renewal' = [renewal EXCEPT ![p] = Renewing(p, q.token)]
            /\ UNCHANGED <<page, logout>>
        BY <1>5, <2>2, <3>2 DEF MeAnswered
      <4>2. run'[p][g].pc = "wait" /\ \A h \in Run \ {g} : run'[p][h] = r[h]
        BY <1>0, <4>1
      <4>3. renewal'[p].pc # "idle"
        BY <1>0, <4>1 DEF Renewing
      <4>4. Watched(p)'
        BY <1>1, <4>1, <4>2, <4>3 DEF Watched
      <4>5. QED
        BY <3>1, <4>4 DEF Shows
    <3>3. CASE q.token = None
      <4>1. RunFails(p, g) /\ renewal' = renewal
        BY <1>5, <2>2, <3>3 DEF MeAnswered
      <4>2. QED
        BY <1>4, <3>1, <4>1
    <3>4. QED
      BY <3>1, <3>2, <3>3
  <2>3. faults' = 0 => logout' = logout
    BY <1>2, <1>5 DEF MeAnswered
  <2>4. QED
    BY <2>1, <2>2, <2>3
<1>6. CASE AgainAnswered(p, g)
  <2>1. faults' # 0 /\ renewal' = renewal
    BY <1>2, <1>6 DEF AgainAnswered
  <2>2. CASE Accepted(p, g)
    BY <1>3, <1>6, <2>1, <2>2 DEF AgainAnswered
  <2>3. CASE ~Accepted(p, g)
    BY <1>4, <1>6, <2>1, <2>3 DEF AgainAnswered
  <2>4. QED
    BY <2>1, <2>2, <2>3
<1>7. CASE MeBreaks(p, g)
  <2>1. RunFails(p, g) /\ renewal' = renewal /\ faults' # 0
    BY <1>0, <1>7 DEF MeBreaks
  <2>2. QED
    BY <1>4, <2>1
<1>8. CASE Publish(p, g)
  <2> DEFINE s == IF q.gen = g THEN "authenticated" ELSE q.status
             a == [q EXCEPT !.status = s]
  <2>1. /\ run'[p][g].pc = "done" /\ \A h \in Run \ {g} : run'[p][h] = r[h]
        /\ page'[p] = a
        /\ UNCHANGED <<renewal, logout, expiries, faults>> /\ r[g].pc = "publish"
    BY <1>0, <1>8 DEF Publish, NoRun, Current
  <2> HIDE DEF s
  <2>2. /\ a.state = q.state /\ a.gen = q.gen /\ a.entered = q.entered /\ a.token = q.token
        /\ a.fresh = q.fresh /\ a.status = s
    BY <1>0 DEF PageState
  <2> HIDE DEF a
  <2>3. QED
    BY <1>1, <2>1, <2>2 DEF Shows, Watched, Unrefused, Shown, Accepted, s
<1>9. QED
  BY <1>5, <1>6, <1>7, <1>8 DEF RunStep

\* Every step keeps what the pages show in order; without faults only the user signs
\* himself out.
LEMMA ShowStep ==
  ASSUME SessionTypeOK, LoginInv, ShowInv, [Next]_vars
  PROVE  ShowInv'
<1>1. ASSUME NEW p \in Page,
             \/ UserStep(p) \/ RenewalStep(p) \/ LoginIssued(p) \/ LoginAnswered(p)
             \/ \E g \in Run : RunStep(p, g)
      PROVE  ShowInv'
  <2>1. Shows(p)
    BY DEF ShowInv
  <2>2. Shows(p)'
    BY <1>1, <2>1, ShowsUser, ShowsRenewal, ShowsLogin, ShowsRun
  <2>3. \A q \in Page \ {p} : Shows(q)'
    BY <1>1, OneMoves, ShowsKept DEF ShowInv
  <2>4. QED
    BY <2>2, <2>3 DEF ShowInv
<1>2. ASSUME NEW k \in logout, LogoutStep(k) PROVE ShowInv'
  <2>1. /\ UNCHANGED <<page, run, renewal, expiries>> /\ (faults' = 0 => faults = 0)
    <3>1. faults \in Nat
      BY Numbers DEF SessionTypeOK
    <3>2. QED
      BY <1>2, <3>1 DEF LogoutStep, LogoutServed, LogoutAnswered, LogoutLost
  <2>2. QED
    BY <2>1, ShowsKept DEF ShowInv, Own
<1>3. CASE UNCHANGED vars
  BY <1>3, ShowsKept DEF vars, ShowInv, Own
<1>4. QED
  BY <1>1, <1>2, <1>3 DEF Next

-----------------------------------------------------------------------------
(***************************************************************************)
(* What the browser holds, and what is on its way to it.                   *)
(***************************************************************************)

\* A live session that only the answer under way can bring to the browser.
Unseen(i) ==
  /\ session[i] # None /\ i # cookie
  /\ \A p \in Page : renewal[p].cookie # i
  /\ \A k \in logout : k.cookie # i

\* Every answer under way brings a session of its own, which nobody can have
\* presented, and so revoked, before it arrives.
FlightInv ==
  /\ \A p \in Page :
       /\ renewal[p].cookie # None => renewal[p].pc = "sent"
       /\ renewal[p].id # None => Unseen(renewal[p].id)
       /\ login[p].id # None => login[p].pc = "issued" /\ Unseen(login[p].id)
  /\ \A p, q \in Page :
       /\ renewal[p].id # None /\ renewal[p].id = renewal[q].id => p = q
       /\ login[p].id # None /\ login[p].id = login[q].id => p = q
       /\ login[p].id # None => login[p].id # renewal[q].id

\* While the user is in, the browser has a live cookie or is about to get one, and
\* nobody ends the session.
InInv ==
  asked = "in" /\ faults = 0 =>
    /\ logout = {}
    /\ \/ cookie # None /\ session[cookie] # None
       \/ \E p \in Page : renewal[p].pc \in {"revoked", "issued"} \/ login[p].pc = "issued"

\* Once he is out, no request presents a cookie, and the session he ended, if it
\* still lives, is presented by a sign-out that is not served yet.
OutInv ==
  asked = "out" /\ faults = 0 =>
    /\ \A p \in Page : /\ login[p].pc = "idle" /\ renewal[p].cookie = None
                       /\ renewal[p].pc \in {"idle", "sent", "refused"}
    /\ logout = {} => cookie = None
    /\ \A i \in Id : ended # None /\ session[i] = ended =>
         \E k \in logout : ~k.served /\ k.cookie = i

HoldInv == FlightInv /\ InInv /\ OutInv

\* The initial state satisfies it.
LEMMA HoldInit == Init => HoldInv
<1> SUFFICES ASSUME Init PROVE HoldInv
  OBVIOUS
<1>1. FlightInv
  BY Numbers DEF Init, FlightInv, NoRenewal, NoLogin
<1>2. InInv
  <2>1. asked = "in" => cookie = 1 /\ session[1] = 1
    BY Numbers DEF Init
  <2>2. QED
    BY <2>1, Numbers DEF Init, InInv
<1>3. OutInv
  BY DEF Init, OutInv
<1>4. QED
  BY <1>1, <1>2, <1>3 DEF HoldInv

\* What the sessions, the cookie and the requests are.
LEMMA HoldTyped ==
  ASSUME SessionTypeOK
  PROVE  /\ session \in [Id -> 0..MaxLogins] /\ cookie \in Id \cup {None}
         /\ renewal \in [Page -> RenewalState] /\ login \in [Page -> LoginState]
         /\ \A p \in Page : renewal[p].id \in Id \cup {None} /\ login[p].id \in Id \cup {None}
         /\ faults \in Nat /\ None = 0 /\ None \notin Id
         /\ \A k \in logout : k = [cookie |-> k.cookie, served |-> k.served]
<1>1. faults \in Nat /\ \A k \in logout : k = [cookie |-> k.cookie, served |-> k.served]
  BY Numbers DEF SessionTypeOK
<1>2. QED
  BY <1>1, Facts, Numbers DEF RenewalState, LoginState

\* A session is stored under an identifier that no cookie, no request and no answer names.
LEMMA UnusedUnknown ==
  ASSUME SessionTypeOK, NEW i \in Id, i \in Unused
  PROVE  /\ session[i] = None /\ i # cookie
         /\ \A p \in Page : renewal[p].cookie # i /\ renewal[p].id # i /\ login[p].id # i
         /\ \A k \in logout : k.cookie # i
<1>1. session[i] = None /\ i \notin Held
  BY DEF Unused
<1>2. cookie \in Held /\ \A k \in logout : k.cookie \in Held
  BY SMT DEF Held
<1>3. ASSUME NEW p \in Page PROVE InRequest(p) \subseteq Held
  <2>1. InRequest(p) \in {InRequest(q) : q \in Page}
    OBVIOUS
  <2>2. ASSUME NEW x \in InRequest(p) PROVE x \in UNION {InRequest(q) : q \in Page}
    BY <2>1, <2>2
  <2>3. ASSUME NEW x \in UNION {InRequest(q) : q \in Page} PROVE x \in Held
    BY <2>3, SMT DEF Held
  <2>4. QED
    BY <2>2, <2>3
<1>4. \A p \in Page : renewal[p].cookie \in Held /\ renewal[p].id \in Held /\ login[p].id \in Held
  BY <1>3 DEF InRequest
<1>5. QED
  BY <1>1, <1>2, <1>4

\* A step that stores nothing, gives nothing out and only forgets.
LEMMA FlightKept ==
  ASSUME SessionTypeOK, FlightInv,
         \A i \in Id : session'[i] = session[i] \/ \A p \in Page : renewal[p].id # i /\ login[p].id # i,
         cookie' \in {cookie, None},
         \A p \in Page : /\ renewal'[p].cookie \in {None, renewal[p].cookie, cookie}
                         /\ renewal'[p].cookie # None => renewal'[p].pc = "sent"
                         /\ renewal'[p].id \in {None, renewal[p].id}
                         /\ login'[p].id \in {None, login[p].id}
                         /\ login'[p].id # None => login'[p].pc = "issued",
         \A k \in logout' : \/ k.cookie \in {None, cookie}
                            \/ \E h \in logout : k.cookie = h.cookie
  PROVE  FlightInv'
<1>0. /\ None = 0 /\ None \notin Id
      /\ \A p \in Page : renewal[p].id \in Id \cup {None} /\ login[p].id \in Id \cup {None}
  BY HoldTyped
<1>1. ASSUME NEW p \in Page
      PROVE  /\ renewal'[p].id # None => renewal'[p].id = renewal[p].id /\ Unseen(renewal[p].id)
             /\ login'[p].id # None => login'[p].id = login[p].id /\ Unseen(login[p].id)
  BY DEF FlightInv
<1>2. ASSUME NEW i \in Id, Unseen(i), session'[i] = session[i]
      PROVE  /\ session'[i] # None /\ i # cookie'
             /\ \A p \in Page : renewal'[p].cookie # i
             /\ \A k \in logout' : k.cookie # i
  BY <1>0, <1>2 DEF Unseen
<1>3. \A p \in Page :
        /\ renewal'[p].cookie # None => renewal'[p].pc = "sent"
        /\ renewal'[p].id # None => Unseen(renewal[p].id)'
        /\ login'[p].id # None => login'[p].pc = "issued" /\ Unseen(login[p].id)'
  BY <1>0, <1>1, <1>2 DEF Unseen
<1>4. \A p, q \in Page :
        /\ renewal'[p].id # None /\ renewal'[p].id = renewal'[q].id => p = q
        /\ login'[p].id # None /\ login'[p].id = login'[q].id => p = q
        /\ login'[p].id # None => login'[p].id # renewal'[q].id
  BY <1>1 DEF FlightInv
<1>5. QED
  BY <1>3, <1>4 DEF FlightInv

\* An answer arrives: what it brings is the cookie now, and nobody else's answer.
LEMMA FlightArrives ==
  ASSUME SessionTypeOK, FlightInv, NEW i \in Id, cookie' = i, UNCHANGED <<session, logout>>,
         \A p \in Page : /\ renewal'[p] \in {renewal[p], NoRenewal} /\ renewal'[p].id # i
                         /\ login'[p] \in {login[p], NoLogin} /\ login'[p].id # i
  PROVE  FlightInv'
<1>0. NoRenewal.id = None /\ NoRenewal.cookie = None /\ NoLogin.id = None
  BY DEF NoRenewal, NoLogin
<1>1. ASSUME NEW p \in Page
      PROVE  /\ renewal'[p].cookie \in {None, renewal[p].cookie}
             /\ renewal'[p].cookie # None => renewal'[p] = renewal[p]
             /\ renewal'[p].id # None => renewal'[p] = renewal[p]
             /\ login'[p].id # None => login'[p] = login[p]
  BY <1>0
<1>2. \A p \in Page :
        /\ renewal'[p].cookie # None => renewal'[p].pc = "sent"
        /\ renewal'[p].id # None => Unseen(renewal[p].id)'
        /\ login'[p].id # None => login'[p].pc = "issued" /\ Unseen(login[p].id)'
  <2>1. ASSUME NEW x \in Id \cup {None}, Unseen(x), x # i, x # None
        PROVE  /\ session'[x] # None /\ x # cookie'
               /\ \A p \in Page : renewal'[p].cookie # x
               /\ \A k \in logout' : k.cookie # x
    BY <1>1, <2>1 DEF Unseen
  <2>2. \A p \in Page : renewal[p].id \in Id \cup {None} /\ login[p].id \in Id \cup {None}
    BY HoldTyped
  <2>3. ASSUME NEW p \in Page, renewal'[p].id # None PROVE Unseen(renewal[p].id)'
    BY <1>1, <2>1, <2>2, <2>3 DEF FlightInv, Unseen
  <2>4. ASSUME NEW p \in Page, login'[p].id # None
        PROVE  login'[p].pc = "issued" /\ Unseen(login[p].id)'
    BY <1>1, <2>1, <2>2, <2>4 DEF FlightInv, Unseen
  <2>5. QED
    BY <1>1, <2>3, <2>4 DEF FlightInv
<1>3. \A p, q \in Page :
        /\ renewal'[p].id # None /\ renewal'[p].id = renewal'[q].id => p = q
        /\ login'[p].id # None /\ login'[p].id = login'[q].id => p = q
        /\ login'[p].id # None => login'[p].id # renewal'[q].id
  BY <1>1 DEF FlightInv
<1>4. QED
  BY <1>2, <1>3 DEF FlightInv

\* A session is stored: only the answer that brings it names it.
LEMMA FlightLeaves ==
  ASSUME SessionTypeOK, FlightInv, NEW p \in Page, NEW i \in Id, i \in Unused,
         session'[i] # None, \A j \in Id \ {i} : session'[j] = session[j],
         UNCHANGED <<cookie, logout>>,
         \A q \in Page \ {p} : renewal'[q] = renewal[q] /\ login'[q] = login[q],
         \/ /\ renewal'[p].id = i /\ renewal'[p].cookie = None
            /\ login'[p] = login[p]
         \/ /\ login'[p].id = i /\ login'[p].pc = "issued"
            /\ renewal'[p] = renewal[p]
  PROVE  FlightInv'
<1>0. /\ None \notin Id
      /\ \A q \in Page : renewal[q].id \in Id \cup {None} /\ login[q].id \in Id \cup {None}
  BY HoldTyped
<1>1. /\ session[i] = None /\ i # cookie
      /\ \A q \in Page : renewal[q].cookie # i /\ renewal[q].id # i /\ login[q].id # i
      /\ \A k \in logout : k.cookie # i
  BY UnusedUnknown
<1>2. \A q \in Page : renewal'[q].cookie \in {None, renewal[q].cookie}
  OBVIOUS
<1>3. /\ session'[i] # None /\ i # cookie'
      /\ \A q \in Page : renewal'[q].cookie # i
      /\ \A k \in logout' : k.cookie # i
  BY <1>0, <1>1, <1>2
<1>4. ASSUME NEW x \in Id, Unseen(x)
      PROVE  /\ session'[x] # None /\ x # cookie'
             /\ \A q \in Page : renewal'[q].cookie # x
             /\ \A k \in logout' : k.cookie # x
  <2>1. x # i
    BY <1>1, <1>4 DEF Unseen
  <2>2. QED
    BY <1>0, <1>2, <1>4, <2>1 DEF Unseen
<1>5. ASSUME NEW q \in Page
      PROVE  /\ renewal'[q].id # None =>
                  renewal'[q].id = i \/ (renewal'[q].id = renewal[q].id /\ Unseen(renewal[q].id))
             /\ login'[q].id # None =>
                  login'[q].id = i \/ (login'[q].id = login[q].id /\ Unseen(login[q].id))
  BY DEF FlightInv
<1>6. \A q \in Page :
        /\ renewal'[q].cookie # None => renewal'[q].pc = "sent"
        /\ renewal'[q].id # None => Unseen(renewal[q].id)'
        /\ login'[q].id # None => login'[q].pc = "issued" /\ Unseen(login[q].id)'
  <2>1. ASSUME NEW q \in Page, renewal'[q].id # None PROVE Unseen(renewal[q].id)'
    BY <1>0, <1>3, <1>4, <1>5, <2>1 DEF Unseen
  <2>2. ASSUME NEW q \in Page, login'[q].id # None PROVE Unseen(login[q].id)'
    BY <1>0, <1>3, <1>4, <1>5, <2>2 DEF Unseen
  <2>3. \A q \in Page : /\ renewal'[q].cookie # None => renewal'[q].pc = "sent"
                        /\ login'[q].id # None => login'[q].pc = "issued"
    BY DEF FlightInv
  <2>4. QED
    BY <2>1, <2>2, <2>3
<1>7. \A q, s \in Page :
        /\ renewal'[q].id # None /\ renewal'[q].id = renewal'[s].id => q = s
        /\ login'[q].id # None /\ login'[q].id = login'[s].id => q = s
        /\ login'[q].id # None => login'[q].id # renewal'[s].id
  BY <1>1 DEF FlightInv
<1>8. QED
  BY <1>6, <1>7 DEF FlightInv

\* A page's requests and sign-outs never name an answer under way.
LEMMA FlightUser ==
  ASSUME SessionTypeOK, FlightInv, NEW p \in Page, UserStep(p)
  PROVE  FlightInv'
<1>0. renewal \in [Page -> RenewalState] /\ login \in [Page -> LoginState]
  BY HoldTyped
<1>1. /\ UNCHANGED <<session, cookie>>
      /\ logout' \in {logout, logout \cup Ending}
  BY DEF UserStep, Open, Close, Expire, Renew, Login, SignOut
<1>2. \A q \in Page : /\ renewal'[q].cookie \in {None, renewal[q].cookie, cookie}
                      /\ renewal'[q].cookie # None => renewal'[q].pc = "sent"
                      /\ renewal'[q].id \in {None, renewal[q].id}
  <2>1. CASE Open(p) \/ Renew(p)
    <3>1. PICK token : renewal' = [renewal EXCEPT ![p] = Renewing(p, token)]
      BY <2>1 DEF Open, Renew
    <3>2. Renewing(p, token) = renewal[p] \/ /\ Renewing(p, token).cookie = cookie
                                             /\ Renewing(p, token).pc = "sent"
                                             /\ Renewing(p, token).id = None
      BY DEF Renewing
    <3>3. \A q \in Page : renewal'[q] = IF q = p THEN Renewing(p, token) ELSE renewal[q]
      BY <1>0, <3>1
    <3>4. QED
      BY <3>2, <3>3 DEF FlightInv
  <2>2. CASE Close(p) \/ Expire(p) \/ Login(p) \/ SignOut(p)
    BY <2>2 DEF FlightInv, Close, Expire, Login, SignOut
  <2>3. QED
    BY <2>1, <2>2 DEF UserStep
<1>3. \A q \in Page : /\ login'[q].id \in {None, login[q].id}
                      /\ login'[q].id # None => login'[q].pc = "issued"
  <2>1. CASE Login(p)
    <3>1. login[p].pc = "idle" /\ login' = [login EXCEPT ![p].pc = "sent"]
      BY <2>1 DEF Login
    <3>2. login[p].id = None
      BY <3>1 DEF FlightInv
    <3>3. login'[p].id = None /\ \A q \in Page \ {p} : login'[q] = login[q]
      BY <1>0, <3>1, <3>2 DEF LoginState
    <3>4. QED
      BY <3>3 DEF FlightInv
  <2>2. CASE Open(p) \/ Renew(p) \/ Close(p) \/ Expire(p) \/ SignOut(p)
    BY <2>2 DEF FlightInv, Open, Renew, Close, Expire, SignOut
  <2>3. QED
    BY <2>1, <2>2 DEF UserStep
<1>4. \A k \in logout' : k.cookie \in {None, cookie} \/ \E h \in logout : k.cookie = h.cookie
  BY <1>1 DEF Ending
<1>5. QED
  BY <1>1, <1>2, <1>3, <1>4, FlightKept

\* The answer to a refresh brings its session.
LEMMA RenewalArrives ==
  ASSUME SessionTypeOK, FlightInv, NEW p \in Page, renewal[p].pc = "issued",
         renewal' = [renewal EXCEPT ![p] = NoRenewal], cookie' = renewal[p].id,
         UNCHANGED <<session, logout, login>>
  PROVE  FlightInv'
<1> DEFINE i == renewal[p].id
<1>0. renewal \in [Page -> RenewalState] /\ None \notin Id /\ i \in Id
  <2>1. i # None
    BY DEF SessionTypeOK
  <2>2. QED
    BY <2>1, HoldTyped
<1>1. \A q \in Page : login[q].id # i /\ (q # p => renewal[q].id # i)
  BY <1>0 DEF FlightInv
<1>2. renewal'[p] = NoRenewal /\ \A q \in Page \ {p} : renewal'[q] = renewal[q]
  BY <1>0
<1>3. NoRenewal.id # i
  BY <1>0 DEF NoRenewal
<1>4. /\ cookie' = i /\ UNCHANGED <<session, logout>>
      /\ \A q \in Page : /\ renewal'[q] \in {renewal[q], NoRenewal} /\ renewal'[q].id # i
                         /\ login'[q] \in {login[q], NoLogin} /\ login'[q].id # i
  BY <1>1, <1>2, <1>3
<1> HIDE DEF i
<1>5. QED
  BY <1>0, <1>4, FlightArrives

\* The answer to a login brings its session.
LEMMA LoginArrives ==
  ASSUME SessionTypeOK, LoginInv, FlightInv, NEW p \in Page, login[p].pc = "issued",
         login' = [login EXCEPT ![p] = NoLogin], cookie' = login[p].id,
         UNCHANGED <<session, logout, renewal>>
  PROVE  FlightInv'
<1> DEFINE i == login[p].id
<1>0. login \in [Page -> LoginState] /\ None \notin Id /\ i \in Id
  <2>1. i # None
    BY DEF LoginInv
  <2>2. QED
    BY <2>1, HoldTyped
<1>1. \A q \in Page : renewal[q].id # i /\ (q # p => login[q].id # i)
  BY <1>0 DEF FlightInv
<1>2. login'[p] = NoLogin /\ \A q \in Page \ {p} : login'[q] = login[q]
  BY <1>0
<1>3. NoLogin.id # i
  BY <1>0 DEF NoLogin
<1>4. /\ cookie' = i /\ UNCHANGED <<session, logout>>
      /\ \A q \in Page : /\ renewal'[q] \in {renewal[q], NoRenewal} /\ renewal'[q].id # i
                         /\ login'[q] \in {login[q], NoLogin} /\ login'[q].id # i
  BY <1>1, <1>2, <1>3
<1> HIDE DEF i
<1>5. QED
  BY <1>0, <1>4, FlightArrives

\* Neither does the refresh of a session, up to the answer that brings a new one.
LEMMA FlightRenewal ==
  ASSUME SessionTypeOK, LoginInv, RootInv, FlightInv, NEW p \in Page, RenewalStep(p)
  PROVE  FlightInv'
<1>0. /\ renewal \in [Page -> RenewalState] /\ login \in [Page -> LoginState]
      /\ session \in [Id -> 0..MaxLogins] /\ None \notin Id
      /\ \A q \in Page : renewal[q].id \in Id \cup {None} /\ login[q].id \in Id \cup {None}
      /\ renewal[p].pc = "issued" => renewal[p].id \in Id
  BY HoldTyped DEF SessionTypeOK
<1>1. CASE RefreshServed(p) \/ RefreshBreaks(p)
  <2>1. /\ UNCHANGED <<cookie, login, logout>>
        /\ Revoked(p) \/ Refusing(p)
    BY <1>1 DEF RefreshServed, RefreshBreaks
  <2>2. \A q \in Page \ {p} : renewal'[q] = renewal[q]
    BY <1>0, <2>1 DEF Revoked, Refusing
  <2>3. renewal'[p].cookie = None /\ renewal'[p].id = renewal[p].id
    BY <1>0, <2>1 DEF Revoked, Refusing, RenewalState
  <2>4. \A i \in Id : session'[i] = session[i] \/ i = renewal[p].cookie
    BY <1>0, <2>1 DEF Revoked, Refusing
  <2>5. \A q \in Page : /\ renewal[q].id = renewal[p].cookie => renewal[q].id = None
                        /\ login[q].id = renewal[p].cookie => login[q].id = None
    BY DEF FlightInv, Unseen
  <2>6. \A i \in Id : session'[i] = session[i] \/ \A q \in Page : renewal[q].id # i /\ login[q].id # i
    BY <1>0, <2>4, <2>5
  <2>7. \A q \in Page : /\ renewal'[q].cookie \in {None, renewal[q].cookie, cookie}
                        /\ renewal'[q].cookie # None => renewal'[q].pc = "sent"
                        /\ renewal'[q].id \in {None, renewal[q].id}
                        /\ login'[q].id \in {None, login[q].id}
                        /\ login'[q].id # None => login'[q].pc = "issued"
    BY <2>1, <2>2, <2>3 DEF FlightInv
  <2>8. QED
    BY <2>1, <2>6, <2>7, FlightKept
<1>2. CASE RefreshIssued(p)
  <2>1. PICK i \in Id :
          /\ i \in Unused /\ session' = [session EXCEPT ![i] = renewal[p].root]
          /\ renewal' = [renewal EXCEPT ![p].pc = "issued", ![p].root = None, ![p].id = i]
    BY <1>2 DEF RefreshIssued, Issued
  <2>2. renewal[p].root # None /\ renewal[p].cookie = None
    BY <1>2 DEF RefreshIssued, RootInv, FlightInv
  <2>3. session'[i] # None /\ \A j \in Id \ {i} : session'[j] = session[j]
    BY <1>0, <2>1, <2>2
  <2>4. \A q \in Page \ {p} : renewal'[q] = renewal[q]
    BY <1>0, <2>1
  <2>5. renewal'[p].id = i /\ renewal'[p].cookie = None
    BY <1>0, <2>1, <2>2 DEF RenewalState
  <2>6. UNCHANGED <<cookie, logout, login>>
    BY <1>2 DEF RefreshIssued
  <2>7. QED
    BY <2>1, <2>3, <2>4, <2>5, <2>6, FlightLeaves
<1>4. CASE RefreshGranted(p)
  BY <1>4, RenewalArrives DEF RefreshGranted
<1>5. ASSUME renewal' = [renewal EXCEPT ![p] = NoRenewal], UNCHANGED <<session, cookie, login>>,
             logout' \in {logout, logout \cup Ending}
      PROVE  FlightInv'
  <2>1. \A q \in Page : /\ renewal'[q].cookie \in {None, renewal[q].cookie, cookie}
                        /\ renewal'[q].cookie # None => renewal'[q].pc = "sent"
                        /\ renewal'[q].id \in {None, renewal[q].id}
                        /\ login'[q].id \in {None, login[q].id}
                        /\ login'[q].id # None => login'[q].pc = "issued"
    <3>1. renewal'[p] = NoRenewal /\ \A q \in Page \ {p} : renewal'[q] = renewal[q]
      BY <1>0, <1>5
    <3>2. NoRenewal.cookie = None /\ NoRenewal.id = None
      BY DEF NoRenewal
    <3>3. QED
      BY <1>5, <3>1, <3>2 DEF FlightInv
  <2>2. \A k \in logout' : k.cookie \in {None, cookie} \/ \E h \in logout : k.cookie = h.cookie
    BY <1>5 DEF Ending
  <2>3. QED
    BY <1>5, <2>1, <2>2, FlightKept
<1>6. CASE RefreshRefused(p) \/ RefreshLost(p)
  BY <1>5, <1>6 DEF RefreshRefused, RefreshLost, Refused, Settled
<1>7. CASE OrphanAnswered(p)
  <2>1. CASE /\ renewal' = [renewal EXCEPT ![p] = NoRenewal]
             /\ UNCHANGED <<session, cookie, login, logout>>
    BY <1>5, <2>1
  <2>2. CASE /\ renewal[p].pc = "issued" /\ cookie' = renewal[p].id
             /\ renewal' = [renewal EXCEPT ![p] = NoRenewal]
             /\ UNCHANGED <<session, login, logout>>
    BY <2>2, RenewalArrives
  <2>3. CASE /\ login[p].pc = "issued" /\ cookie' = login[p].id
             /\ login' = [login EXCEPT ![p] = NoLogin]
             /\ UNCHANGED <<session, renewal, logout>>
    BY <2>3, LoginArrives
  <2>4. QED
    BY <1>7, <2>1, <2>2, <2>3 DEF OrphanAnswered
<1>8. QED
  BY <1>1, <1>2, <1>4, <1>6, <1>7 DEF RenewalStep

\* A login brings a session of its own.
LEMMA FlightLogin ==
  ASSUME SessionTypeOK, LoginInv, FlightInv, NEW p \in Page, LoginIssued(p) \/ LoginAnswered(p)
  PROVE  FlightInv'
<1>1. CASE LoginIssued(p)
  <2>0. /\ login \in [Page -> LoginState] /\ session \in [Id -> 0..MaxLogins] /\ logins \in Nat
    BY Facts
  <2>1. PICK i \in Id :
          /\ i \in Unused /\ session' = [session EXCEPT ![i] = logins + 1]
          /\ login' = [login EXCEPT ![p] = [pc |-> "issued", id |-> i]]
    BY <1>1 DEF LoginIssued, Issued
  <2>2. session'[i] # None /\ \A j \in Id \ {i} : session'[j] = session[j]
    BY <2>0, <2>1, Numbers
  <2>3. /\ login'[p].id = i /\ login'[p].pc = "issued"
        /\ \A q \in Page \ {p} : login'[q] = login[q]
    BY <2>0, <2>1
  <2>4. UNCHANGED <<cookie, logout, renewal>>
    BY <1>1 DEF LoginIssued
  <2>5. QED
    BY <2>1, <2>2, <2>3, <2>4, FlightLeaves
<1>2. CASE LoginAnswered(p)
  BY <1>2, LoginArrives DEF LoginAnswered
<1>3. QED
  BY <1>1, <1>2

\* The runs of the provider start refreshes and sign-outs with the cookie they find.
LEMMA FlightRun ==
  ASSUME SessionTypeOK, FlightInv, NEW p \in Page, NEW g \in Run, RunStep(p, g)
  PROVE  FlightInv'
<1>0. renewal \in [Page -> RenewalState]
  BY HoldTyped
<1>1. /\ UNCHANGED <<session, cookie, login>>
      /\ logout' \in {logout, logout \cup Ending}
      /\ \/ renewal' = [renewal EXCEPT ![p] = Renewing(p, page[p].token)]
         \/ renewal' = renewal
  BY DEF RunStep, MeAnswered, AgainAnswered, MeBreaks, Publish, RunFails
<1>2. Renewing(p, page[p].token) = renewal[p] \/ /\ Renewing(p, page[p].token).cookie = cookie
                                                 /\ Renewing(p, page[p].token).pc = "sent"
                                                 /\ Renewing(p, page[p].token).id = None
  BY DEF Renewing
<1>3. /\ \A q \in Page \ {p} : renewal'[q] = renewal[q]
      /\ renewal'[p] \in {renewal[p], Renewing(p, page[p].token)}
  BY <1>0, <1>1
<1>4. \A q \in Page : /\ renewal'[q].cookie \in {None, renewal[q].cookie, cookie}
                      /\ renewal'[q].cookie # None => renewal'[q].pc = "sent"
                      /\ renewal'[q].id \in {None, renewal[q].id}
                      /\ login'[q].id \in {None, login[q].id}
                      /\ login'[q].id # None => login'[q].pc = "issued"
  BY <1>1, <1>2, <1>3 DEF FlightInv
<1>5. \A k \in logout' : k.cookie \in {None, cookie} \/ \E h \in logout : k.cookie = h.cookie
  BY <1>1 DEF Ending
<1>6. QED
  BY <1>1, <1>4, <1>5, FlightKept

\* A sign-out revokes a session the browser has had, and no answer under way brings.
LEMMA FlightLogout ==
  ASSUME SessionTypeOK, FlightInv, NEW k \in logout, LogoutStep(k)
  PROVE  FlightInv'
<1>1. UNCHANGED <<renewal, login>> /\ cookie' \in {cookie, None}
  BY DEF LogoutStep, LogoutServed, LogoutAnswered, LogoutLost
<1>2. \A q \in Page : /\ renewal'[q].cookie \in {None, renewal[q].cookie, cookie}
                      /\ renewal'[q].cookie # None => renewal'[q].pc = "sent"
                      /\ renewal'[q].id \in {None, renewal[q].id}
                      /\ login'[q].id \in {None, login[q].id}
                      /\ login'[q].id # None => login'[q].pc = "issued"
  BY <1>1 DEF FlightInv
<1>3. \A i \in Id : session'[i] = session[i] \/ i = k.cookie
  BY DEF LogoutStep, LogoutServed, LogoutAnswered, LogoutLost
<1>4. \A q \in Page : /\ renewal[q].id = k.cookie => renewal[q].id = None
                      /\ login[q].id = k.cookie => login[q].id = None
  BY DEF FlightInv, Unseen
<1>5. \A i \in Id : session'[i] = session[i] \/ \A q \in Page : renewal[q].id # i /\ login[q].id # i
  BY <1>3, <1>4, HoldTyped
<1>6. \A h \in logout' : h.cookie \in {None, cookie} \/ \E l \in logout : h.cookie = l.cookie
  BY DEF LogoutStep, LogoutServed, LogoutAnswered, LogoutLost
<1>7. QED
  BY <1>1, <1>2, <1>5, <1>6, FlightKept

\* Every step keeps the answers under way apart.
LEMMA FlightStep ==
  ASSUME SessionTypeOK, LoginInv, RootInv, FlightInv, [Next]_vars
  PROVE  FlightInv'
<1>1. CASE UNCHANGED vars
  BY <1>1 DEF vars, FlightInv, Unseen
<1>2. CASE Next
  BY <1>2, FlightUser, FlightRenewal, FlightLogin, FlightRun, FlightLogout DEF Next
<1>3. QED
  BY <1>1, <1>2

\* A live cookie stays one, and so does an answer under way, while nobody signs out and
\* no session is revoked but by a refresh.
LEMMA InKept ==
  ASSUME SessionTypeOK, InInv, faults' = 0 => faults = 0,
         asked' = "in" => asked = "in",
         faults' = 0 => logout' = logout,
         cookie' = cookie, \A i \in Id : session[i] # None => session'[i] # None,
         \A p \in Page :
           \/ renewal[p].pc \in {"revoked", "issued"} => renewal'[p].pc \in {"revoked", "issued"},
         \A p \in Page : login[p].pc = "issued" => login'[p].pc = "issued"
  PROVE  InInv'
  BY HoldTyped DEF InInv

\* A session that arrives is a live cookie.
LEMMA InArrives ==
  ASSUME SessionTypeOK, FlightInv, NEW p \in Page, NEW i \in Id,
         i = renewal[p].id \/ i = login[p].id, cookie' = i, session' = session,
         asked' = "in" /\ faults' = 0 => logout' = {}
  PROVE  InInv'
<1>1. None \notin Id /\ session[i] # None
  BY HoldTyped DEF FlightInv, Unseen
<1>2. cookie' # None /\ session'[cookie'] # None
  BY <1>1
<1>3. QED
  BY <1>2 DEF InInv

\* While the user is in, every step leaves the browser a live cookie or one on its way.
LEMMA InStep ==
  ASSUME SessionTypeOK, LoginInv, RootInv, ShowInv, FlightInv, InInv, [Next]_vars
  PROVE  InInv'
<1>0. /\ renewal \in [Page -> RenewalState] /\ login \in [Page -> LoginState]
      /\ session \in [Id -> 0..MaxLogins] /\ faults \in Nat
      /\ \A p \in Page : renewal[p].id \in Id \cup {None} /\ login[p].id \in Id \cup {None}
      /\ None = 0 /\ None \notin Id
  BY HoldTyped
<1>1. ASSUME NEW p \in Page, UserStep(p) PROVE InInv'
  <2>1. CASE SignOut(p)
    BY <2>1 DEF SignOut, InInv
  <2>2. CASE Login(p)
    BY <2>2 DEF Login, InInv
  <2>3. CASE Open(p) \/ Renew(p)
    <3>1. /\ UNCHANGED <<session, cookie, login, logout, faults>>
          /\ asked' = "in" => asked = "in"
      BY <2>3 DEF Open, Renew, Overlapping
    <3>2. PICK token : renewal' = [renewal EXCEPT ![p] = Renewing(p, token)]
      BY <2>3 DEF Open, Renew
    <3>3. renewal[p].pc # "idle" => Renewing(p, token) = renewal[p]
      BY DEF Renewing
    <3>4. \A q \in Page : renewal[q].pc \in {"revoked", "issued"} => renewal'[q] = renewal[q]
      BY <1>0, <3>2, <3>3
    <3>5. QED
      BY <3>1, <3>4, InKept
  <2>4. CASE Close(p) \/ Expire(p)
    <3>1. /\ UNCHANGED <<session, cookie, login, logout, renewal, asked>>
          /\ faults' = 0 => faults = 0
      BY <1>0, <2>4 DEF Close, Expire
    <3>2. QED
      BY <3>1, InKept
  <2>5. QED
    BY <1>1, <2>1, <2>2, <2>3, <2>4 DEF UserStep
<1>2. ASSUME NEW p \in Page, RenewalStep(p) PROVE InInv'
  <2>0. faults' = 0 => logout' = logout
    BY <1>2, ShowsRenewal DEF ShowInv
  <2>1. CASE RefreshServed(p)
    <3>1. UNCHANGED <<cookie, login, logout, asked, faults>> /\ renewal[p].pc = "sent"
      BY <2>1 DEF RefreshServed
    <3>2. CASE Revoked(p)
      <4>1. renewal'[p].pc = "revoked"
        BY <1>0, <3>2 DEF Revoked, RenewalState
      <4>2. QED
        BY <3>1, <4>1 DEF InInv
    <3>3. CASE Refusing(p)
      <4>1. session' = session /\ \A q \in Page \ {p} : renewal'[q] = renewal[q]
        BY <1>0, <3>3 DEF Refusing
      <4>2. QED
        BY <3>1, <4>1, InKept
    <3>4. QED
      BY <2>1, <3>2, <3>3 DEF RefreshServed
  <2>2. CASE RefreshIssued(p)
    <3>1. renewal'[p].pc = "issued" /\ UNCHANGED <<logout, asked, faults>>
      BY <1>0, <2>2 DEF RefreshIssued, RenewalState
    <3>2. QED
      BY <3>1 DEF InInv
  <2>3. CASE RefreshBreaks(p) \/ RefreshLost(p)
    BY <1>0, <2>3 DEF RefreshBreaks, RefreshLost, InInv
  <2>4. ASSUME renewal[p].pc = "issued", cookie' = renewal[p].id,
               UNCHANGED <<session, logout, asked, faults>>
        PROVE  InInv'
    <3>1. renewal[p].id # None
      BY <2>4 DEF SessionTypeOK
    <3>2. renewal[p].id \in Id
      BY <1>0, <3>1
    <3>3. asked' = "in" /\ faults' = 0 => logout' = {}
      BY <2>4 DEF InInv
    <3>4. QED
      BY <2>4, <3>2, <3>3, InArrives
  <2>5. CASE RefreshGranted(p)
    BY <2>4, <2>5 DEF RefreshGranted
  <2>6. CASE RefreshRefused(p)
    <3>1. /\ UNCHANGED <<session, cookie, login, asked, faults>> /\ renewal[p].pc = "refused"
          /\ renewal' = [renewal EXCEPT ![p] = NoRenewal]
      BY <2>6 DEF RefreshRefused, Refused
    <3>2. \A q \in Page : renewal[q].pc \in {"revoked", "issued"} => renewal'[q] = renewal[q]
      BY <1>0, <3>1
    <3>3. QED
      BY <2>0, <3>1, <3>2, InKept
  <2>7. CASE OrphanAnswered(p)
    <3>1. CASE /\ renewal[p].pc = "refused" /\ renewal' = [renewal EXCEPT ![p] = NoRenewal]
               /\ UNCHANGED <<session, cookie, login, logout, asked, faults>>
      <4>1. \A q \in Page : renewal[q].pc \in {"revoked", "issued"} => renewal'[q] = renewal[q]
        BY <1>0, <3>1
      <4>2. QED
        BY <3>1, <4>1, InKept
    <3>2. CASE /\ renewal[p].pc = "issued" /\ cookie' = renewal[p].id
               /\ UNCHANGED <<session, logout, asked, faults>>
      BY <2>4, <3>2
    <3>3. CASE faults' = faults + 1
      BY <1>0, <3>3 DEF InInv
    <3>4. CASE /\ login[p].pc = "issued" /\ cookie' = login[p].id /\ UNCHANGED <<session, logout>>
               /\ asked' = IF logout = {} THEN "in" ELSE "nothing"
      <4>1. login[p].id \in Id
        BY <1>0, <3>4 DEF LoginInv
      <4>2. QED
        BY <3>4, <4>1, InArrives
    <3>5. QED
      BY <2>7, <3>1, <3>2, <3>3, <3>4 DEF OrphanAnswered
  <2>8. QED
    BY <1>2, <2>1, <2>2, <2>3, <2>5, <2>6, <2>7 DEF RenewalStep
<1>3. ASSUME NEW p \in Page, LoginIssued(p) PROVE InInv'
  <2>1. login'[p].pc = "issued" /\ UNCHANGED <<logout, asked, faults>>
    BY <1>0, <1>3 DEF LoginIssued
  <2>2. QED
    BY <2>1 DEF InInv
<1>4. ASSUME NEW p \in Page, LoginAnswered(p) PROVE InInv'
  <2>1. /\ login[p].pc = "issued" /\ cookie' = login[p].id /\ UNCHANGED <<session, logout>>
        /\ asked' = IF logout = {} THEN "in" ELSE "nothing"
    BY <1>4 DEF LoginAnswered
  <2>2. login[p].id \in Id
    BY <1>0, <2>1 DEF LoginInv
  <2>3. QED
    BY <2>1, <2>2, InArrives
<1>5. ASSUME NEW p \in Page, NEW g \in Run, RunStep(p, g) PROVE InInv'
  <2>1. faults' = 0 => logout' = logout
    BY <1>5, ShowsRun DEF ShowInv
  <2>2. /\ UNCHANGED <<session, cookie, login>>
        /\ faults' = 0 => faults = 0
        /\ asked' = "in" => asked = "in"
        /\ \/ renewal' = [renewal EXCEPT ![p] = Renewing(p, page[p].token)]
           \/ renewal' = renewal
    BY <1>0, <1>5 DEF RunStep, MeAnswered, AgainAnswered, MeBreaks, Publish, Overlapping
  <2>3. renewal[p].pc # "idle" => Renewing(p, page[p].token) = renewal[p]
    BY DEF Renewing
  <2>4. \A q \in Page : renewal[q].pc \in {"revoked", "issued"} => renewal'[q] = renewal[q]
    BY <1>0, <2>2, <2>3
  <2>5. QED
    BY <2>1, <2>2, <2>4, InKept
<1>6. ASSUME NEW k \in logout, LogoutStep(k) PROVE InInv'
  <2>1. UNCHANGED asked /\ (faults' = 0 => faults = 0)
    BY <1>0, <1>6 DEF LogoutStep, LogoutServed, LogoutAnswered, LogoutLost
  <2>2. QED
    BY <1>6, <2>1 DEF InInv
<1>7. CASE UNCHANGED vars
  BY <1>7, InKept DEF vars
<1>8. QED
  BY <1>1, <1>2, <1>3, <1>4, <1>5, <1>6, <1>7 DEF Next

\* A step that revokes nothing and starts no request with a cookie.
LEMMA OutKept ==
  ASSUME OutInv, faults' = 0 => faults = 0,
         asked' = "out" => asked = "out", ended' = ended,
         faults' = 0 => logout' = logout, UNCHANGED <<session, cookie, login>>,
         asked' = "out" /\ faults' = 0 =>
           \A p \in Page : renewal'[p] = renewal[p] \/ /\ renewal'[p].cookie = None
                                                       /\ renewal'[p].pc \in {"idle", "sent", "refused"}
  PROVE  OutInv'
  BY DEF OutInv

\* A request that starts presents the cookie of the browser.
LEMMA Presents ==
  ASSUME SessionTypeOK, NEW p \in Page, NEW token,
         renewal' = [renewal EXCEPT ![p] = Renewing(p, token)]
  PROVE  \A q \in Page : renewal'[q] = renewal[q] \/ /\ renewal'[q].cookie = cookie
                                                     /\ renewal'[q].pc = "sent"
<1>1. \/ Renewing(p, token) = renewal[p]
      \/ Renewing(p, token).cookie = cookie /\ Renewing(p, token).pc = "sent"
  BY DEF Renewing
<1>2. \A q \in Page : renewal'[q] = IF q = p THEN Renewing(p, token) ELSE renewal[q]
  BY HoldTyped
<1>3. QED
  BY <1>1, <1>2

\* The user signs out: the sign-out presents the only session of the login he ends.
LEMMA OutSignOut ==
  ASSUME SessionTypeOK, RootInv, FlightInv, NEW p \in Page, SignOut(p)
  PROVE  OutInv'
<1> SUFFICES ASSUME asked' = "out" PROVE OutInv'
  BY DEF OutInv
<1>1. /\ \A q \in Page : renewal[q].pc = "idle" /\ login[q].pc = "idle"
      /\ ended' = IF cookie = None THEN None ELSE session[cookie]
      /\ logout' = logout \cup Ending
      /\ UNCHANGED <<session, cookie, renewal, login>>
  BY Zenon DEF SignOut
<1>2. \A q \in Page : renewal[q].cookie = None
  BY <1>1 DEF FlightInv
<1>3. [cookie |-> cookie, served |-> FALSE] \in logout'
  BY <1>1 DEF Ending
<1>4. ASSUME NEW i \in Id, ended' # None, session[i] = ended'
      PROVE  \E k \in logout' : ~k.served /\ k.cookie = i
  <2>1. cookie \in Id /\ session[i] = session[cookie] /\ session[i] # None
    BY <1>1, <1>4, HoldTyped
  <2>2. i = cookie
    BY <2>1 DEF RootInv, OneSessionPerLogin
  <2>3. QED
    BY <1>3, <2>2
<1>5. logout' # {}
  BY <1>3
<1>6. QED
  BY <1>1, <1>2, <1>4, <1>5 DEF OutInv

\* Once the user is out, no step brings the browser a cookie or the login a session.
LEMMA OutStep ==
  ASSUME SessionTypeOK, LoginInv, RootInv, ShowInv, FlightInv, OutInv, [Next]_vars
  PROVE  OutInv'
<1>0. /\ renewal \in [Page -> RenewalState] /\ login \in [Page -> LoginState]
      /\ session \in [Id -> 0..MaxLogins] /\ faults \in Nat
      /\ None = 0 /\ None \notin Id
  BY HoldTyped
<1>1. ASSUME NEW p \in Page, UserStep(p) PROVE OutInv'
  <2>1. CASE SignOut(p)
    BY <2>1, OutSignOut
  <2>2. CASE Login(p)
    BY <2>2 DEF Login, OutInv
  <2>3. CASE Open(p) \/ Renew(p)
    <3>1. /\ UNCHANGED <<session, cookie, login, logout, faults>>
          /\ asked' = "out" => asked = "out" /\ logout = {} /\ ended' = ended
      BY <2>3 DEF Open, Renew, Overlapping
    <3>2. PICK token : renewal' = [renewal EXCEPT ![p] = Renewing(p, token)]
      BY <2>3 DEF Open, Renew
    <3>3. \A q \in Page : renewal'[q] = renewal[q] \/ /\ renewal'[q].cookie = cookie
                                                      /\ renewal'[q].pc = "sent"
      BY <3>2, Presents
    <3>4. asked' = "out" /\ faults' = 0 => cookie = None
      BY <3>1 DEF OutInv
    <3>5. QED
      BY <3>1, <3>3, <3>4 DEF OutInv
  <2>4. CASE Close(p) \/ Expire(p)
    <3>1. /\ UNCHANGED <<session, cookie, login, logout, renewal, asked, ended>>
          /\ faults' = 0 => faults = 0
      BY <1>0, <2>4 DEF Close, Expire
    <3>2. QED
      BY <3>1, OutKept
  <2>5. QED
    BY <1>1, <2>1, <2>2, <2>3, <2>4 DEF UserStep
<1>2. ASSUME NEW p \in Page, RenewalStep(p) PROVE OutInv'
  <2> SUFFICES ASSUME asked' = "out", faults' = 0 PROVE OutInv'
    BY DEF OutInv
  <2>0. /\ logout' = logout /\ asked = "out" /\ faults = 0 /\ UNCHANGED <<session, cookie, login, ended>>
        /\ renewal[p].pc \in {"sent", "refused"} /\ \A q \in Page \ {p} : renewal'[q] = renewal[q]
        /\ renewal'[p].cookie = None /\ renewal'[p].pc \in {"refused", "idle"}
    <3>1. logout' = logout
      BY <1>2, ShowsRenewal DEF ShowInv
    <3>2. asked = "out" /\ faults = 0
      <4>1. faults' \in {faults, faults + 1}
            /\ (asked' = asked \/ asked' \in {"in", "nothing"})
        BY <1>2 DEF RenewalStep, RefreshServed, RefreshIssued, RefreshBreaks, RefreshGranted,
           RefreshRefused, RefreshLost, OrphanAnswered
      <4>2. QED
        BY <1>0, <4>1
    <3>3. /\ login[p].pc = "idle" /\ renewal[p].cookie = None
          /\ renewal[p].pc \in {"idle", "sent", "refused"}
      BY <3>2 DEF OutInv
    <3>4. CASE RefreshServed(p)
      <4>1. Refusing(p) /\ UNCHANGED <<cookie, login, ended>> /\ renewal[p].pc = "sent"
        BY <3>3, <3>4 DEF RefreshServed
      <4>2. /\ renewal'[p].cookie = None /\ renewal'[p].pc = "refused"
            /\ \A q \in Page \ {p} : renewal'[q] = renewal[q]
        BY <1>0, <4>1 DEF Refusing, RenewalState
      <4>3. QED
        BY <3>1, <3>2, <4>1, <4>2 DEF Refusing
    <3>5. CASE RefreshRefused(p)
      <4>1. /\ renewal[p].pc = "refused" /\ renewal' = [renewal EXCEPT ![p] = NoRenewal]
            /\ UNCHANGED <<session, cookie, login, ended>>
        BY <3>5 DEF RefreshRefused, Refused
      <4>2. renewal'[p] = NoRenewal /\ \A q \in Page \ {p} : renewal'[q] = renewal[q]
        BY <1>0, <4>1
      <4>3. QED
        BY <3>1, <3>2, <4>1, <4>2 DEF NoRenewal
    <3>6. CASE OrphanAnswered(p)
      <4>1. /\ renewal[p].pc = "refused" /\ renewal' = [renewal EXCEPT ![p] = NoRenewal]
            /\ UNCHANGED <<session, cookie, login, ended>>
        BY <3>3, <3>6 DEF OrphanAnswered
      <4>2. renewal'[p] = NoRenewal /\ \A q \in Page \ {p} : renewal'[q] = renewal[q]
        BY <1>0, <4>1
      <4>3. QED
        BY <3>1, <3>2, <4>1, <4>2 DEF NoRenewal
    <3>7. CASE RefreshLost(p)
      BY <1>0, <3>2, <3>7 DEF RefreshLost
    <3>8. QED
      BY <1>2, <3>3, <3>4, <3>5, <3>6, <3>7
      DEF RenewalStep, RefreshIssued, RefreshBreaks, RefreshGranted
  <2>1. QED
    BY <2>0 DEF OutInv
<1>3. ASSUME NEW p \in Page, LoginIssued(p) \/ LoginAnswered(p) PROVE OutInv'
  <2>1. CASE LoginIssued(p)
    BY <2>1 DEF LoginIssued, OutInv
  <2>2. CASE LoginAnswered(p)
    BY <2>2 DEF LoginAnswered, OutInv
  <2>3. QED
    BY <1>3, <2>1, <2>2
<1>4. ASSUME NEW p \in Page, NEW g \in Run, RunStep(p, g) PROVE OutInv'
  <2>1. faults' = 0 => logout' = logout
    BY <1>4, ShowsRun DEF ShowInv
  <2>2. UNCHANGED <<session, cookie, login>> /\ (faults' = 0 => faults = 0)
    BY <1>0, <1>4 DEF RunStep, MeAnswered, AgainAnswered, MeBreaks, Publish
  <2>3. CASE MeAnswered(p, g)
    <3>1. asked' = "out" => asked = "out" /\ logout = {} /\ ended' = ended
      BY <2>3 DEF MeAnswered, Overlapping
    <3>2. \/ renewal' = [renewal EXCEPT ![p] = Renewing(p, page[p].token)]
          \/ renewal' = renewal
      BY <2>3 DEF MeAnswered
    <3>3. \A q \in Page : renewal'[q] = renewal[q] \/ /\ renewal'[q].cookie = cookie
                                                      /\ renewal'[q].pc = "sent"
      BY <3>2, Presents
    <3>4. asked' = "out" /\ faults' = 0 => cookie = None
      BY <2>2, <3>1 DEF OutInv
    <3>5. QED
      BY <2>1, <2>2, <3>1, <3>3, <3>4 DEF OutInv
  <2>4. CASE AgainAnswered(p, g) \/ MeBreaks(p, g) \/ Publish(p, g)
    <3>1. UNCHANGED <<renewal, asked, ended>>
      BY <2>4 DEF AgainAnswered, MeBreaks, Publish
    <3>2. QED
      BY <2>1, <2>2, <3>1, OutKept
  <2>5. QED
    BY <1>4, <2>3, <2>4 DEF RunStep
<1>5. ASSUME NEW k \in logout, LogoutStep(k) PROVE OutInv'
  <2> SUFFICES ASSUME asked' = "out", faults' = 0 PROVE OutInv'
    BY DEF OutInv
  <2>1. asked = "out" /\ faults = 0 /\ UNCHANGED <<renewal, login, ended>>
    BY <1>0, <1>5 DEF LogoutStep, LogoutServed, LogoutAnswered, LogoutLost
  <2>2. CASE LogoutServed(k)
    <3> DEFINE served == [cookie |-> None, served |-> TRUE]
    <3>1. /\ session' = [i \in Id |-> IF i = k.cookie THEN None ELSE session[i]]
          /\ logout' = (logout \ {k}) \cup {served} /\ cookie' = cookie
      BY <2>2 DEF LogoutServed
    <3>2. ASSUME NEW i \in Id, ended # None, session'[i] = ended
          PROVE  \E h \in logout' : ~h.served /\ h.cookie = i
      <4>1. i # k.cookie /\ session[i] = ended
        BY <3>1, <3>2
      <4>2. PICK h \in logout : ~h.served /\ h.cookie = i
        BY <2>1, <3>2, <4>1 DEF OutInv
      <4>3. h \in logout'
        BY <3>1, <4>1, <4>2
      <4>4. QED
        BY <4>2, <4>3
    <3>3. logout' # {}
      BY <3>1
    <3>4. QED
      BY <2>1, <3>2, <3>3 DEF OutInv
  <2>3. CASE LogoutAnswered(k)
    <3>1. cookie' = None /\ session' = session /\ logout' = logout \ {k} /\ k.served
      BY <2>3 DEF LogoutAnswered
    <3>2. \A h \in logout : ~h.served => h \in logout'
      BY <3>1
    <3>3. QED
      BY <2>1, <3>1, <3>2 DEF OutInv
  <2>4. CASE LogoutLost(k)
    BY <1>0, <2>1, <2>4 DEF LogoutLost
  <2>5. QED
    BY <1>5, <2>2, <2>3, <2>4 DEF LogoutStep
<1>6. CASE UNCHANGED vars
  BY <1>6, OutKept DEF vars
<1>7. QED
  BY <1>1, <1>2, <1>3, <1>4, <1>5, <1>6 DEF Next

-----------------------------------------------------------------------------
(***************************************************************************)
(* What the user can rely on.                                              *)
(***************************************************************************)

\* Every step keeps the invariants together.
LEMMA BrowserStep == SessionInv /\ ShowInv /\ HoldInv /\ [Next]_vars => (ShowInv /\ HoldInv)'
<1> SUFFICES ASSUME SessionInv, ShowInv, HoldInv, [Next]_vars PROVE (ShowInv /\ HoldInv)'
  OBVIOUS
<1>1. SessionTypeOK /\ LoginInv /\ RootInv /\ FlightInv /\ InInv /\ OutInv
  BY DEF SessionInv, HoldInv
<1>2. ShowInv' /\ FlightInv' /\ InInv' /\ OutInv'
  BY <1>1, ShowStep, FlightStep, InStep, OutStep
<1>3. QED
  BY <1>2 DEF HoldInv

\* The invariants hold of every behaviour.
THEOREM BrowserInvCorrect == Spec => [](SessionInv /\ ShowInv /\ HoldInv)
<1>1. Init => SessionInv /\ ShowInv /\ HoldInv
  BY SessionInit, ShowInit, HoldInit
<1>2. SessionInv /\ ShowInv /\ HoldInv /\ [Next]_vars => (SessionInv /\ ShowInv /\ HoldInv)'
  BY SessionStep, BrowserStep
<1>3. QED
  BY <1>1, <1>2, PTL DEF Spec

\* No page is left with a spinner that nothing will ever stop: a run is still going,
\* and the refresh it waits for is under way (AuthProvider.refresh, bootstrapAuth).
THEOREM SpinnerIsWatchedCorrect == Spec => []SpinnerIsWatched
<1>1. ShowInv => SpinnerIsWatched
  BY DEF ShowInv, Shows, Watched, SpinnerIsWatched
<1>2. QED
  BY <1>1, BrowserInvCorrect, PTL

\* A page where the user has just signed in shows him signed in, whatever the runs and
\* the refreshes that were under way end with: the newest run decides, and a refused
\* refresh spares a token it did not start from (AuthProvider.refresh, bootstrapAuth).
THEOREM LoginIsShownCorrect == Spec => []LoginIsShown
<1>1. ASSUME SessionInv, ShowInv, NEW p \in Page, page[p].entered, faults = 0, expiries = 0,
             Working(p) = {}
      PROVE  page[p].status = "authenticated" /\ page[p].token # None
  <2>1. Watched(p) /\ Shown(p) /\ SessionTypeOK
    BY <1>1 DEF ShowInv, Shows, SessionInv
  <2>2. page[p].state = "open" /\ page[p].gen \in Run
    BY <1>1, <2>1, OwnTyped DEF Watched, PageState
  <2>3. run[p][page[p].gen].pc = "done"
    BY <1>1, <2>2 DEF Working
  <2>4. QED
    BY <1>1, <2>1, <2>3 DEF Shown
<1>2. SessionInv /\ ShowInv => LoginIsShown
  BY <1>1 DEF LoginIsShown
<1>3. QED
  BY <1>2, BrowserInvCorrect, PTL

\* Pages that refresh at the same moment do not cost the browser its session: the cookie
\* it is left with is one the API accepts (AuthService.refresh, bootstrapAuth).
THEOREM SessionSurvivesCorrect == Spec => []SessionSurvives
<1>1. HoldInv => SessionSurvives
  BY DEF HoldInv, InInv, SessionSurvives, Quiet
<1>2. QED
  BY <1>1, BrowserInvCorrect, PTL

\* Signing out is final: the browser has no cookie and the login no session, whatever
\* pages with old tokens try (AuthService.logout, signOut).
THEOREM SignedOutStaysOutCorrect == Spec => []SignedOutStaysOut
<1>1. ASSUME HoldInv, Quiet, asked = "out", faults = 0
      PROVE  cookie = None /\ (ended # None => \A i \in Id : session[i] # ended)
  <2>1. logout = {}
    BY <1>1 DEF Quiet
  <2>2. QED
    BY <1>1, <2>1 DEF HoldInv, OutInv
<1>2. HoldInv => SignedOutStaysOut
  BY <1>1 DEF SignedOutStaysOut
<1>3. QED
  BY <1>2, BrowserInvCorrect, PTL
=============================================================================
