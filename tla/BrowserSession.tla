--------------------------- MODULE BrowserSession ---------------------------
(***************************************************************************)
(* How a browser stays signed in: the refresh sessions the API stores and  *)
(* rotates, the one HttpOnly cookie the pages of a browser share, and in   *)
(* each page the access token, the refresh request that is in flight, and  *)
(* the runs of AuthProvider.refresh that decide what the page shows.       *)
(*                                                                         *)
(* An access token is named after the refresh session issued with it.      *)
(* A login is a verified code (OtpLogin): it opens a session with a number *)
(* of its own, which every session rotated from it keeps.  Answers arrive  *)
(* in any order, and the browser stores the cookie of each as it arrives.  *)
(***************************************************************************)
EXTENDS Integers, FiniteSets

CONSTANTS
  Page,         \* the pages the browser may open
  MaxSessions,  \* bound on the sessions in use; a dead one nobody holds is used again
  MaxLogins,    \* bound on the logins
  MaxExpiries,  \* bound on the access tokens that expire
  MaxRuns,      \* bound on the runs of AuthProvider.refresh in one page
  MaxFaults     \* bound on lost answers and failed requests

ASSUME SessionAssumption ==
  /\ MaxSessions \in Nat \ {0} /\ MaxLogins \in Nat \ {0}
  /\ MaxRuns \in Nat \ {0} /\ MaxExpiries \in Nat /\ MaxFaults \in Nat

None == 0
Id   == 1..MaxSessions
Run  == 1..MaxRuns

VARIABLES
  session,  \* the refresh sessions: the login of a live one, None of any other
  cookie,   \* the refresh cookie of the browser
  page,     \* the pages: access token, status and current run
  run,      \* the runs of AuthProvider.refresh in each page
  renewal,  \* the refresh request of each page
  login,    \* the verification of each page
  logout,   \* the sign-out requests under way
  logins,   \* how many logins there were
  expiries, \* how many access tokens have expired
  asked,    \* what the user has asked of the browser last
  ended,    \* the login he signed out of
  faults

vars == <<session, cookie, page, run, renewal, login, logout, logins, expiries, asked, ended, faults>>

NewPage   == [ state |-> "new", token |-> None, fresh |-> FALSE, status |-> "loading",
               gen |-> 0, entered |-> FALSE ]
NoRun     == [pc |-> "done", token |-> None]
NoRenewal == [ pc |-> "idle", start |-> None, cookie |-> None, root |-> None, id |-> None ]
NoLogin   == [pc |-> "idle", id |-> None]

\* Type correctness of the browser and of the sessions the API stores.
SessionTypeOK ==
  /\ session \in [Id -> 0..MaxLogins]
  /\ cookie \in Id \cup {None}
  /\ page \in [Page -> [ state   : {"new", "open", "closed"},
                         token   : Id \cup {None},
                         fresh   : BOOLEAN,
                         status  : {"loading", "anonymous", "authenticated"},
                         gen     : 0..MaxRuns,
                         entered : BOOLEAN ]]
  /\ run \in [Page -> [Run -> [ pc    : {"boot", "me", "wait", "again", "publish", "done"},
                                token : Id \cup {None} ]]]
  /\ renewal \in [Page -> [ pc     : {"idle", "sent", "revoked", "issued", "refused"},
                            start  : Id \cup {None},
                            cookie : Id \cup {None},
                            root   : 0..MaxLogins,
                            id     : Id \cup {None} ]]
  /\ \A p \in Page : /\ page[p].fresh => page[p].token # None
                     /\ renewal[p].pc = "issued" <=> renewal[p].id # None
  /\ login \in [Page -> [pc : {"idle", "sent", "issued"}, id : Id \cup {None}]]
  /\ logout \subseteq [cookie : Id \cup {None}, served : BOOLEAN]
  /\ logins \in 0..MaxLogins
  /\ expiries \in 0..MaxExpiries
  /\ asked \in {"nothing", "in", "out"}
  /\ ended \in 0..MaxLogins
  /\ faults \in 0..MaxFaults

\* The browser starts with the cookie of an earlier login, or with none.
Init ==
  /\ asked \in {"nothing", "in"}
  /\ cookie = IF asked = "in" THEN 1 ELSE None
  /\ logins = IF asked = "in" THEN 1 ELSE 0
  /\ session = [i \in Id |-> IF i = cookie THEN 1 ELSE None]
  /\ page = [p \in Page |-> NewPage]
  /\ run = [p \in Page |-> [g \in Run |-> NoRun]]
  /\ renewal = [p \in Page |-> NoRenewal]
  /\ login = [p \in Page |-> NoLogin]
  /\ logout = {}
  /\ ended = None
  /\ expiries = 0
  /\ faults = 0

-----------------------------------------------------------------------------
(***************************************************************************)
(* The sessions the API stores.                                            *)
(***************************************************************************)

InRequest(p) == {renewal[p].start, renewal[p].cookie, renewal[p].id, login[p].id}

\* The sessions somebody still knows: the cookie, a page, a request.
Held ==
  {cookie} \cup {page[p].token : p \in Page}
    \cup (UNION {InRequest(p) : p \in Page})
    \cup {run[p][g].token : p \in Page, g \in Run} \cup {k.cookie : k \in logout}

Unused == {i \in Id : session[i] = None /\ i \notin Held}

\* issueTokens: a session of that login is stored and its tokens are signed.
Issued(root, i) ==
  /\ i \in Unused /\ \A j \in Unused : i <= j
  /\ session' = [session EXCEPT ![i] = root]

Revoked(p) ==
  /\ session' = [session EXCEPT ![renewal[p].cookie] = None]
  /\ renewal' = [renewal EXCEPT ![p].pc = "revoked", ![p].cookie = None]

Refusing(p) ==
  /\ renewal' = [renewal EXCEPT ![p].pc = "refused", ![p].cookie = None, ![p].root = None]
  /\ UNCHANGED session

\* Mutant: whether the presented session may be used is read before it is revoked.
RefreshServed_ReadThenWrite(p) ==
  /\ renewal[p].pc = "sent"
  /\ IF renewal[p].root # None THEN Revoked(p) ELSE Refusing(p)
  /\ UNCHANGED <<cookie, page, run, login, logout, logins, expiries, asked, ended, faults>>

\* AuthService.refresh, first statement: the presented session is revoked if it
\* is still live; otherwise, and without a cookie, the request is refused.
RefreshServed(p) ==
  /\ renewal[p].pc = "sent"
  /\ IF renewal[p].cookie # None /\ session[renewal[p].cookie] # None
     THEN Revoked(p) ELSE Refusing(p)
  /\ UNCHANGED <<cookie, page, run, login, logout, logins, expiries, asked, ended, faults>>

\* AuthService.refresh, last statement: the session that replaces it.
RefreshIssued(p) ==
  /\ renewal[p].pc = "revoked"
  /\ \E i \in Id :
       /\ Issued(renewal[p].root, i)
       /\ renewal' = [renewal EXCEPT ![p].pc = "issued", ![p].root = None, ![p].id = i]
  /\ UNCHANGED <<cookie, page, run, login, logout, logins, expiries, asked, ended, faults>>

\* Between the two a lookup fails, the customer is blocked, or the replica dies:
\* the session is spent and nothing replaces it.
RefreshBreaks(p) ==
  /\ renewal[p].pc = "revoked" /\ faults < MaxFaults
  /\ Refusing(p)
  /\ faults' = faults + 1
  /\ UNCHANGED <<cookie, page, run, login, logout, logins, expiries, asked, ended>>

\* AuthService.verifyOtp: the session of a new login.
LoginIssued(p) ==
  /\ login[p].pc = "sent" /\ logins < MaxLogins
  /\ \E i \in Id :
       /\ Issued(logins + 1, i)
       /\ login' = [login EXCEPT ![p] = [pc |-> "issued", id |-> i]]
  /\ logins' = logins + 1
  /\ UNCHANGED <<cookie, page, run, renewal, logout, expiries, asked, ended, faults>>

\* Mutant: signing out leaves the stored session as it is.
LogoutServed_Unrevoked(k) ==
  /\ k \in logout /\ ~k.served
  /\ logout' = (logout \ {k}) \cup {[cookie |-> None, served |-> TRUE]}
  /\ UNCHANGED <<session, cookie, page, run, renewal, login, logins, expiries, asked, ended, faults>>

\* AuthService.logout: the presented session is revoked.
LogoutServed(k) ==
  /\ k \in logout /\ ~k.served
  /\ session' = [i \in Id |-> IF i = k.cookie THEN None ELSE session[i]]
  /\ logout' = (logout \ {k}) \cup {[cookie |-> None, served |-> TRUE]}
  /\ UNCHANGED <<cookie, page, run, renewal, login, logins, expiries, asked, ended, faults>>

-----------------------------------------------------------------------------
(***************************************************************************)
(* What a page does with its requests and their answers.                   *)
(***************************************************************************)

\* For the properties: a sign-out that a refresh or a login overlaps with is none
\* they speak of.
Overlapping ==
  IF asked = "out" /\ logout # {}
  THEN asked' = "nothing" /\ ended' = None
  ELSE UNCHANGED <<asked, ended>>

\* bootstrapAuth: the refresh request in flight is shared; otherwise one starts,
\* with the cookie the browser has now.  root is the login of that cookie.
Renewing(p, token) ==
  IF renewal[p].pc # "idle" THEN renewal[p]
  ELSE [pc |-> "sent", start |-> token, cookie |-> cookie,
        root |-> IF cookie = None THEN None ELSE session[cookie], id |-> None]

\* signOut: the token is dropped and the server asked to expire the cookie.
Ending == {[cookie |-> cookie, served |-> FALSE]}

Working(p) == {g \in Run : run[p][g].pc # "done"}

\* The page is opened or reloaded: its provider mounts and tries to restore the
\* session.
Open(p) ==
  /\ page[p].state = "new"
  /\ page' = [page EXCEPT ![p].state = "open", ![p].gen = 1]
  /\ run' = [run EXCEPT ![p][1].pc = "boot"]
  /\ renewal' = [renewal EXCEPT ![p] = Renewing(p, None)]
  /\ Overlapping
  /\ UNCHANGED <<session, cookie, login, logout, logins, expiries, faults>>

\* The page is closed or reloaded: what it was doing is forgotten, the requests
\* it sent are not.
Close(p) ==
  /\ page[p].state = "open"
  /\ page' = [page EXCEPT ![p] = [NewPage EXCEPT !.state = "closed"]]
  /\ run' = [run EXCEPT ![p] = [g \in Run |-> NoRun]]
  /\ UNCHANGED <<session, cookie, renewal, login, logout, logins, expiries, asked, ended, faults>>

\* A run learns whether there is a session.  The runs that waited for the same
\* refresh request go on with the token the page has now, or fail.
Resumed(r, ok, token) ==
  CASE r.pc = "boot" /\ ok    -> [pc |-> "me", token |-> token]
    [] r.pc = "wait" /\ ok    -> [pc |-> "again", token |-> token]
    [] r.pc \in {"boot", "wait"} /\ ~ok -> NoRun
    [] OTHER                  -> r

\* The page after its refresh request: a current run that was restoring ends
\* anonymous, and one whose /me was refused also clears the session.
Settled(p, ok, token) ==
  LET r == run[p][page[p].gen]
      lost == page[p].gen > 0 /\ r.pc \in {"boot", "wait"} /\ ~ok
      cleared == lost /\ r.pc = "wait"
  IN  /\ page' = [page EXCEPT ![p].token = IF cleared THEN None ELSE token,
                              ![p].fresh = IF token = None \/ cleared THEN FALSE ELSE @,
                              ![p].status = IF lost THEN "anonymous" ELSE @]
      /\ logout' = IF cleared THEN logout \cup Ending ELSE logout
      /\ run' = [run EXCEPT ![p] = [g \in Run |-> Resumed(run[p][g], ok, token)]]

\* Mutant: a refused refresh clears the token a newer login has installed.
Refused_Clears(p) ==
  /\ Settled(p, FALSE, None)
  /\ renewal' = [renewal EXCEPT ![p] = NoRenewal]

\* A refused or lost refresh: the token goes, unless a newer login installed it.
Refused(p) ==
  LET newer == page[p].token \notin {None, renewal[p].start}
  IN  /\ Settled(p, newer, IF newer THEN page[p].token ELSE None)
      /\ renewal' = [renewal EXCEPT ![p] = NoRenewal]

\* The answer of a refresh that was granted: the cookie is stored on arrival, and
\* the token unless the page has got another one meanwhile.
RefreshGranted(p) ==
  LET taken == page[p].token = renewal[p].start
      token == IF taken THEN renewal[p].id ELSE page[p].token
  IN  /\ renewal[p].pc = "issued" /\ page[p].state = "open"
      /\ cookie' = renewal[p].id
      /\ renewal' = [renewal EXCEPT ![p] = NoRenewal]
      /\ page' = [page EXCEPT ![p].token = token, ![p].fresh = IF taken THEN TRUE ELSE @]
      /\ run' = [run EXCEPT ![p] = [g \in Run |-> Resumed(run[p][g], TRUE, token)]]
      /\ UNCHANGED <<session, login, logout, logins, expiries, asked, ended, faults>>

\* Mutant: a refused refresh also expires the cookie.
RefreshRefused_ClearsCookie(p) ==
  /\ renewal[p].pc = "refused" /\ page[p].state = "open"
  /\ Refused(p)
  /\ cookie' = None
  /\ UNCHANGED <<session, login, logins, expiries, asked, ended, faults>>

\* The answer of a refresh that was refused leaves the cookie alone.
RefreshRefused(p) ==
  /\ renewal[p].pc = "refused" /\ page[p].state = "open"
  /\ Refused(p)
  /\ UNCHANGED <<session, cookie, login, logins, expiries, asked, ended, faults>>

\* Mutant: a lost request is forgotten, and so are the runs that wait for it.
RefreshLost_Unsettled(p) ==
  /\ renewal[p].pc \in {"sent", "issued"} /\ page[p].state = "open" /\ faults < MaxFaults
  /\ renewal' = [renewal EXCEPT ![p] = NoRenewal]
  /\ faults' = faults + 1
  /\ UNCHANGED <<session, cookie, page, run, logout, login, logins, expiries, asked, ended>>

\* The request or its answer is lost: for the page this is a refusal.
RefreshLost(p) ==
  /\ renewal[p].pc \in {"sent", "issued"} /\ page[p].state = "open" /\ faults < MaxFaults
  /\ Refused(p)
  /\ faults' = faults + 1
  /\ UNCHANGED <<session, cookie, login, logins, expiries, asked, ended>>

\* An answer to a page that is gone: the browser stores its cookie, or the
\* request was aborted first.
OrphanAnswered(p) ==
  /\ page[p].state = "closed"
  /\ \/ /\ renewal[p].pc \in {"issued", "refused"}
        /\ \/ cookie' = (IF renewal[p].pc = "issued" THEN renewal[p].id ELSE cookie)
              /\ UNCHANGED faults
           \/ renewal[p].pc = "issued" /\ faults < MaxFaults
              /\ faults' = faults + 1 /\ UNCHANGED cookie
        /\ renewal' = [renewal EXCEPT ![p] = NoRenewal]
        /\ UNCHANGED <<login, asked, ended>>
     \/ /\ login[p].pc = "issued"
        /\ cookie' = login[p].id
        /\ login' = [login EXCEPT ![p] = NoLogin]
        /\ asked' = (IF logout = {} THEN "in" ELSE "nothing") /\ ended' = None
        /\ UNCHANGED <<renewal, faults>>
  /\ UNCHANGED <<session, page, run, logout, logins, expiries>>

\* An ordinary request of the page is answered 401: its access token has expired
\* and the refresh request starts.
Renew(p) ==
  /\ page[p].state = "open" /\ page[p].token # None /\ ~page[p].fresh /\ renewal[p].pc = "idle"
  /\ renewal' = [renewal EXCEPT ![p] = Renewing(p, page[p].token)]
  /\ Overlapping
  /\ UNCHANGED <<session, cookie, page, run, login, logout, logins, expiries, faults>>

\* An access token lives for a quarter of an hour, far longer than a request:
\* one that expires under a run or a refresh is a page the machine suspended,
\* and is counted with the faults.
Expire(p) ==
  /\ page[p].fresh /\ expiries < MaxExpiries
  /\ expiries' = expiries + 1
  /\ page' = [page EXCEPT ![p].fresh = FALSE]
  /\ IF Working(p) # {} \/ renewal[p].pc # "idle"
     THEN faults < MaxFaults /\ faults' = faults + 1
     ELSE UNCHANGED faults
  /\ UNCHANGED <<session, cookie, run, renewal, login, logout, logins, asked, ended>>

-----------------------------------------------------------------------------
(***************************************************************************)
(* AuthProvider.                                                           *)
(***************************************************************************)

\* The user types a code on the login page.
Login(p) ==
  /\ page[p].state = "open" /\ login[p].pc = "idle"
  /\ page[p].gen < MaxRuns
  /\ login' = [login EXCEPT ![p].pc = "sent"]
  /\ logins + Cardinality({q \in Page : login[q].pc = "sent"}) < MaxLogins
  /\ asked' = "nothing" /\ ended' = None
  /\ UNCHANGED <<session, cookie, page, run, renewal, logout, logins, expiries, faults>>

\* The answer: the cookie and the token are stored, and a new run of the provider
\* starts with that token.
LoginAnswered(p) ==
  LET i == login[p].id
      g == page[p].gen + 1
  IN  /\ login[p].pc = "issued" /\ page[p].state = "open"
      /\ cookie' = i
      /\ page' = [page EXCEPT ![p].token = i, ![p].fresh = TRUE, ![p].gen = g, ![p].entered = TRUE]
      /\ run' = [run EXCEPT ![p][g] = [pc |-> "me", token |-> i]]
      /\ login' = [login EXCEPT ![p] = NoLogin]
      /\ asked' = (IF logout = {} THEN "in" ELSE "nothing") /\ ended' = None
      /\ UNCHANGED <<session, renewal, logout, logins, expiries, faults>>

\* The outcome of a run is the page's only while no newer run has started.
Current(p, g) == page[p].gen = g

\* /me was refused or failed: the run, if it is the current one, clears the
\* session on the server too.
RunFails(p, g) ==
  /\ run' = [run EXCEPT ![p][g] = NoRun]
  /\ IF Current(p, g)
     THEN /\ page' = [page EXCEPT ![p].token = None, ![p].fresh = FALSE, ![p].status = "anonymous"]
          /\ logout' = logout \cup Ending
     ELSE UNCHANGED <<page, logout>>

Accepted(p, g) ==
  run[p][g].token # None /\ (run[p][g].token = page[p].token => page[p].fresh)

\* The answer to /me: accepted, or 401, which starts a refresh as long as the
\* page has a token to refresh.
MeAnswered(p, g) ==
  /\ run[p][g].pc = "me"
  /\ CASE Accepted(p, g) ->
            /\ run' = [run EXCEPT ![p][g].pc = "publish"]
            /\ UNCHANGED <<page, renewal, logout>>
       [] ~Accepted(p, g) /\ page[p].token # None ->
            /\ run' = [run EXCEPT ![p][g] = [pc |-> "wait", token |-> None]]
            /\ renewal' = [renewal EXCEPT ![p] = Renewing(p, page[p].token)]
            /\ UNCHANGED <<page, logout>>
       [] OTHER -> RunFails(p, g) /\ UNCHANGED renewal
  /\ Overlapping
  /\ UNCHANGED <<session, cookie, login, logins, expiries, faults>>

\* The answer to the repeated /me, which is not refreshed again.
AgainAnswered(p, g) ==
  /\ run[p][g].pc = "again"
  /\ IF Accepted(p, g)
     THEN /\ run' = [run EXCEPT ![p][g].pc = "publish"]
          /\ UNCHANGED <<page, logout>>
     ELSE RunFails(p, g)
  /\ UNCHANGED <<session, cookie, renewal, login, logins, expiries, asked, ended, faults>>

\* /me fails for another reason, the network or the server: the code treats it
\* like a refusal.
MeBreaks(p, g) ==
  /\ run[p][g].pc \in {"me", "again"} /\ faults < MaxFaults
  /\ RunFails(p, g)
  /\ faults' = faults + 1
  /\ UNCHANGED <<session, cookie, renewal, login, logins, expiries, asked, ended>>

\* The salon memberships have been read, or could not be; a current run shows
\* the page signed in.
Publish(p, g) ==
  /\ run[p][g].pc = "publish"
  /\ run' = [run EXCEPT ![p][g] = NoRun]
  /\ page' = [page EXCEPT ![p].status = IF Current(p, g) THEN "authenticated" ELSE @]
  /\ UNCHANGED <<session, cookie, renewal, login, logout, logins, expiries, asked, ended, faults>>

\* The user signs out in a page that shows him signed in.  A run under way is
\* neither stopped nor overtaken.
SignOut(p) ==
  /\ page[p].state = "open" /\ page[p].status = "authenticated"
  /\ page' = [page EXCEPT ![p].token = None, ![p].fresh = FALSE, ![p].status = "anonymous",
                          ![p].entered = FALSE]
  /\ logout' = logout \cup Ending
  /\ IF \A q \in Page : renewal[q].pc = "idle" /\ login[q].pc = "idle"
     THEN asked' = "out" /\ ended' = (IF cookie = None THEN None ELSE session[cookie])
     ELSE asked' = "nothing" /\ ended' = None
  /\ UNCHANGED <<session, cookie, run, renewal, login, logins, expiries, faults>>

\* The answer to a sign-out expires whatever cookie the browser has by then.
LogoutAnswered(k) ==
  /\ k \in logout /\ k.served
  /\ cookie' = None
  /\ logout' = logout \ {k}
  /\ UNCHANGED <<session, page, run, renewal, login, logins, expiries, asked, ended, faults>>

LogoutLost(k) ==
  /\ k \in logout /\ faults < MaxFaults
  /\ logout' = logout \ {k}
  /\ faults' = faults + 1
  /\ UNCHANGED <<session, cookie, page, run, renewal, login, logins, expiries, asked, ended>>

-----------------------------------------------------------------------------
RenewalStep(p) ==
  \/ RefreshServed(p) \/ RefreshIssued(p) \/ RefreshBreaks(p) \/ RefreshGranted(p)
  \/ RefreshRefused(p) \/ RefreshLost(p) \/ OrphanAnswered(p)

UserStep(p) == Open(p) \/ Close(p) \/ Expire(p) \/ Renew(p) \/ Login(p) \/ SignOut(p)

RunStep(p, g) == MeAnswered(p, g) \/ AgainAnswered(p, g) \/ MeBreaks(p, g) \/ Publish(p, g)

LogoutStep(k) == LogoutServed(k) \/ LogoutAnswered(k) \/ LogoutLost(k)

Next ==
  \/ \E p \in Page :
       \/ UserStep(p) \/ RenewalStep(p) \/ LoginIssued(p) \/ LoginAnswered(p)
       \/ \E g \in Run : RunStep(p, g)
  \/ \E k \in logout : LogoutStep(k)

Spec == Init /\ [][Next]_vars

-----------------------------------------------------------------------------
(***************************************************************************)
(* Properties.                                                             *)
(***************************************************************************)

\* One login has one live session at a time, however many pages present the same
\* cookie at once: a rotation never forks a session.
OneSessionPerLogin ==
  \A i, j \in Id :
    session[i] # None /\ session[i] = session[j] => i = j

Quiet ==
  /\ logout = {}
  /\ \A p \in Page : renewal[p].pc = "idle" /\ login[p].pc = "idle"

\* As long as nobody signs out and nothing fails, the browser keeps a cookie the
\* API accepts: pages that refresh at the same moment, and logins among them, do
\* not cost it the session.
SessionSurvives ==
  Quiet /\ asked = "in" /\ faults = 0 => cookie # None /\ session[cookie] # None

\* A page where the user has just signed in shows him signed in, with a token,
\* once its runs are over, whatever an older run or an older refresh ends with.
LoginIsShown ==
  \A p \in Page :
    page[p].entered /\ asked = "in" /\ faults = 0 /\ expiries = 0 /\ Working(p) = {} =>
      page[p].status = "authenticated" /\ page[p].token # None

\* A page that shows its user a spinner has a run that is still going, and no
\* run waits for a refresh request the page does not have.
SpinnerIsWatched ==
  \A p \in Page : page[p].state = "open" =>
    /\ page[p].status = "loading" => page[p].gen > 0 /\ run[p][page[p].gen].pc # "done"
    /\ \A g \in Run : run[p][g].pc \in {"boot", "wait"} => renewal[p].pc # "idle"

\* Signing out is final: once its request is answered the browser has no cookie
\* and the login no session, whatever other pages try with their old tokens.  A
\* refresh or a login under way at that moment is the exception.
SignedOutStaysOut ==
  Quiet /\ asked = "out" /\ faults = 0 =>
    cookie = None /\ (ended # None => \A i \in Id : session[i] # ended)
=============================================================================
