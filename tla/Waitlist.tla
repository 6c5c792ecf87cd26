------------------------------ MODULE Waitlist ------------------------------
(***************************************************************************)
(* The waitlist, composed with the appointments whose windows it offers.   *)
(*                                                                         *)
(* Customers join the list of a window and leave it.  Whoever frees a      *)
(* window announces it: a cancellation request when it has stored the      *)
(* cancellation, and the maintenance worker after it has released the      *)
(* expired holds, one window after the other.  An announcement reads the   *)
(* earliest waiting entry whose window overlaps, marks that entry by its   *)
(* id, and sends the customer a text.  Each of these is a statement of its *)
(* own, and nothing between them is locked.                                *)
(*                                                                         *)
(* One join request inserts at most one entry, so both share an identifier.*)
(* The entry's fulfilment (fulfillEntry) is called by no code and is no    *)
(* action here.                                                            *)
(***************************************************************************)
EXTENDS BookingLifecycle

CONSTANTS
  Entry,    \* identifiers of waitlist entries
  Wish      \* what each entry, if made, waits for: [who, start, end]

ASSUME WaitlistAssumption ==
  /\ IsFiniteSet(Entry) /\ Null \notin Entry
  /\ \A e \in Entry : Wish[e].start \in Nat /\ Wish[e].end \in Nat
  /\ \A e \in Entry : Wish[e].start < Wish[e].end

VARIABLES
  entry,     \* the waitlist table
  joining,   \* join requests that found no active entry
  leaving,   \* entries whose cancellation has passed its checks
  herald,    \* what each announcer has still to do
  texts      \* how many texts the customer of each entry was sent

wlVars == <<entry, joining, leaving, herald, texts>>
allVars == <<vars, wlVars>>

Announcer == Call \cup Worker

NoEntry == [status |-> "absent", createdAt |-> 0]
Silent  == [todo |-> {}, head |-> Null, step |-> "read"]

\* Type correctness of the waitlist and its announcers.
WlTypeOK ==
  /\ TypeOK
  /\ entry \in [Entry -> [ status : {"waiting", "notified", "cancelled"},
                           createdAt : 0..MaxTime ] \cup {NoEntry}]
  /\ joining \subseteq {e \in Entry : entry[e] = NoEntry}
  /\ leaving \subseteq {e \in Entry : entry[e] # NoEntry}
  /\ herald \in [Announcer -> [ todo : SUBSET Appt, head : Entry \cup {Null},
                                step : {"read", "mark", "text"} ]]
  /\ \A x \in Announcer : herald[x].head = Null <=> herald[x].step = "read"
  /\ texts \in [Entry -> Nat]

NobodyWaits ==
  /\ entry = [e \in Entry |-> NoEntry]
  /\ joining = {}
  /\ leaving = {}
  /\ herald = [x \in Announcer |-> Silent]
  /\ texts = [e \in Entry |-> 0]

WlInit == Init /\ NobodyWaits

-----------------------------------------------------------------------------
(***************************************************************************)
(* Joining and leaving.                                                    *)
(***************************************************************************)

\* The entry makes its customer an active member of the list.
Active(e) == entry[e].status \in {"waiting", "notified"}

\* The request finds no active entry of that customer for that window.
JoinRead(e) ==
  /\ entry[e] = NoEntry
  /\ now < Wish[e].end
  /\ \A f \in Entry : Active(f) => Wish[f] # Wish[e]
  /\ joining' = joining \cup {e}
  /\ UNCHANGED <<vars, entry, leaving, herald, texts>>

JoinCreate(e) ==
  /\ e \in joining
  /\ entry' = [entry EXCEPT ![e] = [status |-> "waiting", createdAt |-> now]]
  /\ joining' = joining \ {e}
  /\ UNCHANGED <<vars, leaving, herald, texts>>

LeaveRead(e) ==
  /\ Active(e)
  /\ leaving' = leaving \cup {e}
  /\ UNCHANGED <<vars, entry, joining, herald, texts>>

SetStatus(e, s) == entry' = [entry EXCEPT ![e].status = s]

\* The update names the entry by its id only.
LeaveWrite(e) ==
  /\ e \in leaving
  /\ SetStatus(e, "cancelled")
  /\ leaving' = leaving \ {e}
  /\ UNCHANGED <<vars, joining, herald, texts>>

-----------------------------------------------------------------------------
(***************************************************************************)
(* Announcing.                                                             *)
(***************************************************************************)

\* The waiting entries for whom the window of appointment a is of interest.
Wanting(a) == {e \in Entry : entry[e].status = "waiting" /\ Overlap(Wish[e], row[a])}

\* Mutant: the query has no ORDER BY.
Heads_Unordered(a) == Wanting(a)

\* Which of them the query may list first: entries of one instant tie.
Heads(a) == {e \in Wanting(a) : \A f \in Wanting(a) : entry[e].createdAt <= entry[f].createdAt}

\* Announcer x sets out to announce the windows of the appointments in S.
Announce(x, S) ==
  /\ herald' = [herald EXCEPT ![x].todo = S]
  /\ UNCHANGED <<entry, joining, leaving, texts>>

\* Nobody waits for the next window.
HeraldSkip(x) ==
  \E a \in herald[x].todo :
    /\ herald[x].step = "read"
    /\ Wanting(a) = {}
    /\ herald' = [herald EXCEPT ![x].todo = @ \ {a}]
    /\ UNCHANGED <<vars, entry, joining, leaving, texts>>

\* The head of the list for the next window is read.
HeraldRead(x) ==
  \E a \in herald[x].todo :
    /\ herald[x].step = "read"
    /\ \E e \in Heads(a) :
         herald' = [herald EXCEPT ![x] = [todo |-> @.todo \ {a}, head |-> e, step |-> "mark"]]
    /\ UNCHANGED <<vars, entry, joining, leaving, texts>>

\* The update names the entry by its id only.
HeraldMark(x) ==
  /\ herald[x].step = "mark"
  /\ SetStatus(herald[x].head, "notified")
  /\ herald' = [herald EXCEPT ![x].step = "text"]
  /\ UNCHANGED <<vars, joining, leaving, texts>>

\* On to the next window.
NextWindow(x) == herald' = [herald EXCEPT ![x] = [Silent EXCEPT !.todo = herald[x].todo]]

\* The text is handed to the SMS provider.
HeraldText(x) ==
  /\ herald[x].step = "text"
  /\ texts' = [texts EXCEPT ![herald[x].head] = @ + 1]
  /\ NextWindow(x)
  /\ UNCHANGED <<vars, entry, joining, leaving>>

\* A statement of the announcement fails: the error is swallowed, and the
\* worker goes on with its next window.
HeraldFails(x) ==
  /\ herald[x].head # Null
  /\ Fault
  /\ NextWindow(x)
  /\ UNCHANGED <<row, now, booking, call, sweep, noShowCount, announced,
                 entry, joining, leaving, texts>>

\* The announcer's process dies, and with it what it knew of the windows.
HeraldDies(x) ==
  /\ herald[x] # Silent
  /\ Fault
  /\ herald' = [herald EXCEPT ![x] = Silent]
  /\ UNCHANGED <<row, now, booking, call, sweep, noShowCount, announced,
                 entry, joining, leaving, texts>>

-----------------------------------------------------------------------------
(***************************************************************************)
(* The composition.  A request or a worker that is announcing does nothing *)
(* else until it is done.                                                  *)
(***************************************************************************)
AnnounceCancelled(c) ==
  /\ herald[c] = Silent
  /\ CancelAnnounce(c)
  /\ Announce(c, {call[c].appt})

WlCallStep(c) ==
  /\ herald[c] = Silent
  /\ \/ \E a \in Appt : ReadStep(c, a)
     \/ call[c].op # "announce" /\ WriteStep(c)
     \/ CallDies(c)
  /\ UNCHANGED wlVars

\* Mutant: the windows are read after the release, which left none of them held.
Windows_AfterRelease(w) == {a \in Appt : Due(row[a], sweep[w].at)}

\* The windows the worker read before it released the holds.
Windows(w) == sweep[w].windows

AnnounceExpired(w) ==
  /\ herald[w] = Silent
  /\ SweepNotify(w)
  /\ Announce(w, Windows(w))

Sweep(w) ==
  /\ herald[w] = Silent
  /\ SweepRead(w) \/ SweepRelease(w)
  /\ UNCHANGED wlVars

EntryStep(e) == JoinRead(e) \/ JoinCreate(e) \/ LeaveRead(e) \/ LeaveWrite(e)

HeraldStep(x) == HeraldSkip(x) \/ HeraldRead(x) \/ HeraldMark(x) \/ HeraldText(x)

WlNext ==
  \/ Tick /\ UNCHANGED wlVars
  \/ \E a \in Appt : BookStep(a) /\ UNCHANGED wlVars
  \/ \E c \in Call : WlCallStep(c) \/ AnnounceCancelled(c)
  \/ \E w \in Worker : Sweep(w) \/ AnnounceExpired(w)
  \/ \E w \in Worker : WorkerDies(w) /\ UNCHANGED wlVars
  \/ \E e \in Entry : EntryStep(e)
  \/ \E x \in Announcer : HeraldStep(x) \/ HeraldFails(x) \/ HeraldDies(x)

WlSpec == WlInit /\ [][WlNext]_allVars

\* A request that is announcing runs to its end, and the worker loops.
WlFairness ==
  /\ \A x \in Announcer : WF_allVars(HeraldStep(x))
  /\ \A c \in Call : WF_allVars(AnnounceCancelled(c))
  /\ \A w \in Worker : WF_allVars(Sweep(w) \/ AnnounceExpired(w))

FairWlSpec == WlSpec /\ WlFairness

-----------------------------------------------------------------------------
(***************************************************************************)
(* Properties.                                                             *)
(***************************************************************************)

\* Nobody who joined later for the same window is told of it while somebody who
\* joined earlier still waits, however many announcers read the list at once
\* (R13.3 and R13.4, findWaiting and notifyOnFree).
NobodyIsPassedOver ==
  \A e, f \in Entry :
    /\ entry[f].status = "notified"
    /\ entry[e].status = "waiting"
    /\ Wish[e].start = Wish[f].start /\ Wish[e].end = Wish[f].end
    => entry[f].createdAt <= entry[e].createdAt

\* The announcement of the window of appointment a is still to come.
Owed(a) ==
  \/ \E c \in Call : call[c] = [op |-> "announce", appt |-> a]
  \/ \E w \in Worker : a \in sweep[w].windows
  \/ \E x \in Announcer : a \in herald[x].todo

\* The window of an expired hold or of a cancelled appointment is offered to the
\* first in line, unless a process dies or a statement fails in between: that
\* customer waits no longer, or somebody who joined at the same instant does not
\* (releaseExpiredHoldsAndNotify, cancel of the cancellation flow).
FreedWindowIsOffered ==
  \A e \in Entry :
    (\E a \in Appt : Owed(a) /\ e \in Heads(a)) ~>
      \/ entry[e].status # "waiting"
      \/ \E f \in Entry : /\ entry[f].createdAt = entry[e].createdAt
                          /\ entry[f].status \in {"notified", "cancelled"}
      \/ faults > 0
=============================================================================
