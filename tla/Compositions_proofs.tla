------------------------- MODULE Compositions_proofs -------------------------
(***************************************************************************)
(* Machine-checked facts about the two compositions that leave the life of *)
(* an appointment as it is.  The waitlist beside the appointments, for any *)
(* number of entries and announcers: the state is well-typed, nobody is    *)
(* passed over, and the calendar stays free of double bookings.  And the   *)
(* settings before the appointments, for any settings, edits and closures: *)
(* the race for the calendar is the lifecycle's own, the page shows what   *)
(* can be booked, and a closed day only drains.                            *)
(***************************************************************************)
EXTENDS Waitlist, Availability, BookingLifecycle_proofs

-----------------------------------------------------------------------------
(***************************************************************************)
(* The inductive invariant.                                                *)
(***************************************************************************)
EntryState  == [status : {"waiting", "notified", "cancelled"}, createdAt : 0..MaxTime] \cup {NoEntry}
HeraldState == [todo : SUBSET Appt, head : Entry \cup {Null}, step : {"read", "mark", "text"}]

EntriesOK ==
  /\ entry \in [Entry -> EntryState]
  /\ joining \subseteq {e \in Entry : entry[e] = NoEntry}
  /\ leaving \subseteq {e \in Entry : entry[e] # NoEntry}
  /\ texts \in [Entry -> Nat]
HeraldsOK ==
  /\ herald \in [Announcer -> HeraldState]
  /\ \A x \in Announcer : herald[x].head = Null <=> herald[x].step = "read"

\* The entry an announcer has read is older than whoever waits for the same window
\* since; and no entry is from the future.
HeadInv ==
  /\ \A e \in Entry : entry[e] # NoEntry => entry[e].createdAt <= now
  /\ \A x \in Announcer, e \in Entry :
       LET h == herald[x].head IN
       /\ h # Null => entry[h] # NoEntry
       /\ /\ h # Null /\ entry[e].status = "waiting"
          /\ Wish[e].start = Wish[h].start /\ Wish[e].end = Wish[h].end
          => entry[h].createdAt <= entry[e].createdAt

WlInv == TypeInv /\ EntriesOK /\ HeraldsOK /\ HeadInv /\ NobodyIsPassedOver

\* The parts of type correctness.
LEMMA WlParts == WlTypeOK <=> TypeOK /\ EntriesOK /\ HeraldsOK
  BY DEF WlTypeOK, EntriesOK, HeraldsOK, EntryState, HeraldState

\* An entry and its status.
LEMMA EntryFacts ==
  ASSUME EntriesOK, NEW e \in Entry
  PROVE  /\ entry[e] \in EntryState
         /\ entry[e] # NoEntry <=> entry[e].status \in {"waiting", "notified", "cancelled"}
         /\ entry[e] # NoEntry => entry[e].createdAt \in 0..MaxTime
  BY DEF EntriesOK, EntryState, NoEntry

\* The status of an entry is set: it stays an entry of its time.
LEMMA StatusSet ==
  ASSUME EntriesOK, NEW e \in Entry, entry[e] # NoEntry, NEW s \in {"notified", "cancelled"},
         SetStatus(e, s), joining' \subseteq joining, leaving' \subseteq leaving, UNCHANGED texts
  PROVE  /\ EntriesOK' /\ entry'[e].status = s
         /\ \A f \in Entry : /\ f # e => entry'[f] = entry[f]
                             /\ entry'[f].createdAt = entry[f].createdAt
                             /\ entry'[f] # NoEntry <=> entry[f] # NoEntry
<1> DEFINE q == entry[e]
           a == [q EXCEPT !.status = s]
<1>1. q \in [status : {"waiting", "notified", "cancelled"}, createdAt : 0..MaxTime]
  BY EntryFacts DEF EntryState
<1>2. /\ a \in EntryState /\ a.status = s /\ a.createdAt = q.createdAt
      /\ a # NoEntry
  <2> HIDE DEF q
  <2>1. QED
    BY <1>1 DEF EntryState, NoEntry
<1>3. entry' = [entry EXCEPT ![e] = a]
  BY DEF SetStatus
<1> HIDE DEF a
<1>4. \A f \in Entry : /\ f # e => entry'[f] = entry[f]
                       /\ entry'[f].createdAt = entry[f].createdAt
                       /\ entry'[f] # NoEntry <=> entry[f] # NoEntry
  BY <1>2, <1>3 DEF EntriesOK
<1>5. EntriesOK'
  BY <1>2, <1>3, <1>4 DEF EntriesOK
<1>6. QED
  BY <1>2, <1>3, <1>4, <1>5 DEF EntriesOK

\* The lifecycle inside the composition takes its own steps, or a process dies while it
\* announces.
LEMMA LifecycleInside ==
  ASSUME [WlNext]_allVars
  PROVE  \/ [Next]_vars
         \/ UNCHANGED <<row, now, booking, call, sweep, noShowCount, announced>> /\ Fault
<1>1. CASE Tick
  BY <1>1 DEF Next
<1>2. CASE \E a \in Appt : BookStep(a)
  BY <1>2 DEF Next
<1>3. ASSUME NEW c \in Call, WlCallStep(c) \/ AnnounceCancelled(c) PROVE [Next]_vars
  BY <1>3 DEF WlCallStep, AnnounceCancelled, WriteStep, Next
<1>4. ASSUME NEW w \in Worker, Sweep(w) \/ AnnounceExpired(w) \/ WorkerDies(w) PROVE [Next]_vars
  BY <1>4 DEF Sweep, AnnounceExpired, WorkerStep, Next
<1>5. ASSUME NEW e \in Entry, EntryStep(e) PROVE UNCHANGED vars
  BY <1>5 DEF EntryStep, JoinRead, JoinCreate, LeaveRead, LeaveWrite
<1>6. ASSUME NEW x \in Announcer, HeraldStep(x) PROVE UNCHANGED vars
  BY <1>6 DEF HeraldStep, HeraldSkip, HeraldRead, HeraldMark, HeraldText
<1>7. ASSUME NEW x \in Announcer, HeraldFails(x) \/ HeraldDies(x)
      PROVE  UNCHANGED <<row, now, booking, call, sweep, noShowCount, announced>> /\ Fault
  BY <1>7 DEF HeraldFails, HeraldDies
<1>8. CASE UNCHANGED allVars
  BY <1>8 DEF allVars
<1>9. QED
  BY <1>1, <1>2, <1>3, <1>4, <1>5, <1>6, <1>7, <1>8 DEF WlNext

\* So the types of its state stay, and time does not go back.
LEMMA TypeInside ==
  ASSUME TypeInv, [WlNext]_allVars
  PROVE  TypeInv' /\ now' >= now /\ now \in Nat /\ now' \in Nat
<1>1. CASE [Next]_vars
  <2>1. TypeInv' /\ now \in Nat
    BY <1>1, TypeStep, BookingAssumption DEF TypeInv, TypeOK
  <2>2. now <= now'
    BY <1>1, <2>1, StepKinds DEF Quiet, Insertion, Deliberation, Change, Expiry
  <2>3. now' \in Nat
    BY <2>1, BookingAssumption DEF TypeInv, TypeOK
  <2>4. QED
    BY <2>1, <2>2, <2>3
<1>2. CASE UNCHANGED <<row, now, booking, call, sweep, noShowCount, announced>> /\ Fault
  BY <1>2, BookingAssumption DEF TypeInv, TypeOK, TableTypeOK, CallsHaveRow, Exists, Fault
<1>3. QED
  BY <1>1, <1>2, LifecycleInside

-----------------------------------------------------------------------------
(***************************************************************************)
(* The list and its announcers.                                            *)
(***************************************************************************)
Later == now \in Nat /\ now' \in Nat /\ now <= now'

\* As long as the entries stay and no announcer reads one, the order stays.
LEMMA OrderKept ==
  ASSUME EntriesOK, HeraldsOK, HeadInv, NobodyIsPassedOver, Later, UNCHANGED entry,
         \A x \in Announcer : herald'[x].head \in {herald[x].head, Null}
  PROVE  HeadInv' /\ NobodyIsPassedOver'
<1>1. HeadInv'
  <2>1. \A e \in Entry : entry[e] # NoEntry => entry[e].createdAt <= now'
    <3> SUFFICES ASSUME NEW e \in Entry, entry[e] # NoEntry PROVE entry[e].createdAt <= now'
      OBVIOUS
    <3>1. entry[e].createdAt \in Int /\ entry[e].createdAt <= now
      BY EntryFacts DEF HeadInv
    <3>2. QED
      BY <3>1 DEF Later
  <2>2. QED
    BY <2>1 DEF HeadInv
<1>2. QED
  BY <1>1 DEF NobodyIsPassedOver

\* An announcer that holds no entry any more.
LEMMA HeraldFree ==
  ASSUME EntriesOK, HeraldsOK, HeadInv, NobodyIsPassedOver, Later, NEW x \in Announcer,
         NEW S \in SUBSET Appt, UNCHANGED <<entry, joining, leaving>>, texts' \in [Entry -> Nat],
         herald' = [herald EXCEPT ![x] = [todo |-> S, head |-> Null, step |-> "read"]]
  PROVE  (EntriesOK /\ HeraldsOK /\ HeadInv /\ NobodyIsPassedOver)'
<1>1. HeraldsOK'
  BY DEF HeraldsOK, HeraldState
<1>2. \A y \in Announcer : herald'[y].head \in {herald[y].head, Null}
  BY DEF HeraldsOK
<1>3. QED
  BY <1>1, <1>2, OrderKept DEF EntriesOK

\* Steps that do not concern the waitlist.
LEMMA WaitlistKept ==
  ASSUME EntriesOK, HeraldsOK, HeadInv, NobodyIsPassedOver, Later, UNCHANGED wlVars
  PROVE  (EntriesOK /\ HeraldsOK /\ HeadInv /\ NobodyIsPassedOver)'
<1>1. EntriesOK' /\ HeraldsOK'
  BY DEF wlVars, EntriesOK, HeraldsOK
<1>2. QED
  BY <1>1, OrderKept DEF wlVars

\* Joining and leaving.
LEMMA EntryStepKeeps ==
  ASSUME WlInv, NEW e \in Entry, EntryStep(e)
  PROVE  (EntriesOK /\ HeraldsOK /\ HeadInv /\ NobodyIsPassedOver)'
<1>0. /\ EntriesOK /\ HeraldsOK /\ HeadInv /\ NobodyIsPassedOver /\ now \in 0..MaxTime
      /\ MaxTime \in Nat /\ now' = now
  BY BookingAssumption DEF WlInv, TypeInv, TypeOK, EntryStep, JoinRead, JoinCreate, LeaveRead,
     LeaveWrite, vars
<1>1. Later
  BY <1>0 DEF Later
<1>2. CASE JoinRead(e) \/ LeaveRead(e)
  <2>1. UNCHANGED <<entry, herald, texts>>
    BY <1>2 DEF JoinRead, LeaveRead
  <2>2. EntriesOK'
    BY <1>0, <1>2 DEF EntriesOK, JoinRead, LeaveRead, Active, NoEntry
  <2>3. HeraldsOK'
    BY <1>0, <2>1 DEF HeraldsOK
  <2>4. QED
    BY <1>0, <1>1, <2>1, <2>2, <2>3, OrderKept
<1>3. CASE JoinCreate(e)
  <2> DEFINE new == [status |-> "waiting", createdAt |-> now]
  <2>1. /\ entry[e] = NoEntry /\ entry' = [entry EXCEPT ![e] = new] /\ new # NoEntry
        /\ new \in EntryState /\ new.status = "waiting" /\ new.createdAt = now
        /\ joining' = joining \ {e} /\ UNCHANGED <<leaving, herald, texts>>
    BY <1>0, <1>3 DEF JoinCreate, EntriesOK, EntryState, NoEntry
  <2> HIDE DEF new
  <2>2. EntriesOK'
    BY <1>0, <2>1 DEF EntriesOK
  <2>3. HeraldsOK'
    BY <1>0, <2>1 DEF HeraldsOK
  <2>4. /\ entry'[e] = new
        /\ \A f \in Entry \ {e} : entry'[f] = entry[f]
    BY <1>0, <2>1 DEF EntriesOK
  <2>5. HeadInv'
    <3>1. \A f \in Entry : entry'[f] # NoEntry => entry'[f].createdAt <= now'
      BY <1>0, <2>1, <2>4 DEF HeadInv
    <3>2. ASSUME NEW x \in Announcer, NEW f \in Entry, herald[x].head # Null
          PROVE  LET h == herald[x].head IN
                 /\ entry'[h] # NoEntry
                 /\ /\ entry'[f].status = "waiting"
                    /\ Wish[f].start = Wish[h].start /\ Wish[f].end = Wish[h].end
                    => entry'[h].createdAt <= entry'[f].createdAt
      <4> DEFINE h == herald[x].head
      <4>1. h \in Entry /\ entry[h] # NoEntry /\ h # e /\ entry'[h] = entry[h]
        BY <1>0, <2>1, <2>4, <3>2 DEF HeadInv, HeraldsOK, HeraldState
      <4>2. entry[h].createdAt <= now
        BY <1>0, <4>1 DEF HeadInv
      <4>3. CASE f = e
        BY <2>1, <2>4, <4>1, <4>2, <4>3
      <4>4. CASE f # e
        BY <1>0, <2>4, <3>2, <4>1, <4>4 DEF HeadInv
      <4>5. QED
        BY <4>3, <4>4
    <3>3. QED
      BY <2>1, <3>1, <3>2 DEF HeadInv
  <2>6. NobodyIsPassedOver'
    <3> SUFFICES ASSUME NEW d \in Entry, NEW f \in Entry,
                        entry'[f].status = "notified", entry'[d].status = "waiting",
                        Wish[d].start = Wish[f].start, Wish[d].end = Wish[f].end
                 PROVE  entry'[f].createdAt <= entry'[d].createdAt
      BY DEF NobodyIsPassedOver
    <3>1. f # e /\ entry'[f] = entry[f] /\ entry[f] # NoEntry
      BY <2>1, <2>4 DEF NoEntry
    <3>2. CASE d = e
      BY <1>0, <2>1, <2>4, <3>1, <3>2 DEF HeadInv
    <3>3. CASE d # e
      BY <1>0, <2>4, <3>1, <3>3 DEF NobodyIsPassedOver
    <3>4. QED
      BY <3>2, <3>3
  <2>7. QED
    BY <2>2, <2>3, <2>5, <2>6
<1>4. CASE LeaveWrite(e)
  <2>1. /\ entry[e] # NoEntry /\ SetStatus(e, "cancelled") /\ leaving' \subseteq leaving
        /\ UNCHANGED <<joining, herald, texts>>
    BY <1>0, <1>4 DEF LeaveWrite, EntriesOK
  <2>2. /\ EntriesOK' /\ entry'[e].status = "cancelled"
        /\ \A f \in Entry : /\ f # e => entry'[f] = entry[f]
                            /\ entry'[f].createdAt = entry[f].createdAt
                            /\ entry'[f] # NoEntry <=> entry[f] # NoEntry
    BY <1>0, <2>1, StatusSet
  <2>3. HeraldsOK'
    BY <1>0, <2>1 DEF HeraldsOK
  <2>4. \A x \in Announcer : herald[x].head \in Entry \cup {Null}
    BY <1>0 DEF HeraldsOK, HeraldState
  <2>5. HeadInv'
    <3>1. \A f \in Entry : entry'[f] # NoEntry => entry'[f].createdAt <= now'
      BY <1>0, <2>2 DEF HeadInv
    <3>2. ASSUME NEW x \in Announcer, NEW f \in Entry, herald[x].head # Null
          PROVE  LET h == herald[x].head IN
                 /\ entry'[h] # NoEntry
                 /\ /\ entry'[f].status = "waiting"
                    /\ Wish[f].start = Wish[h].start /\ Wish[f].end = Wish[h].end
                    => entry'[h].createdAt <= entry'[f].createdAt
      BY <1>0, <2>2, <2>4, <3>2 DEF HeadInv
    <3>3. QED
      BY <2>1, <3>1, <3>2 DEF HeadInv
  <2>6. NobodyIsPassedOver'
    BY <1>0, <2>2 DEF NobodyIsPassedOver
  <2>7. QED
    BY <2>2, <2>3, <2>5, <2>6
<1>5. QED
  BY <1>2, <1>3, <1>4 DEF EntryStep

\* Announcing: the entry that is read is the oldest of those who want the window, and
\* still is when it is marked.
LEMMA HeraldStepKeeps ==
  ASSUME WlInv, NEW x \in Announcer, HeraldStep(x) \/ HeraldFails(x) \/ HeraldDies(x)
  PROVE  (EntriesOK /\ HeraldsOK /\ HeadInv /\ NobodyIsPassedOver)'
<1>0. /\ EntriesOK /\ HeraldsOK /\ HeadInv /\ NobodyIsPassedOver /\ Later
      /\ herald[x] \in HeraldState /\ (herald[x].head = Null <=> herald[x].step = "read")
  <2>1. now \in Nat /\ now' = now
    BY BookingAssumption DEF WlInv, TypeInv, TypeOK, HeraldStep, HeraldSkip, HeraldRead, HeraldMark,
       HeraldText, HeraldFails, HeraldDies, vars
  <2>2. QED
    BY <2>1 DEF WlInv, HeraldsOK, Later
<1> DEFINE j == herald[x]
<1>1. j.todo \in SUBSET Appt /\ j.head \in Entry \cup {Null} /\ j \in HeraldState
  BY <1>0 DEF HeraldState
<1>2. CASE HeraldSkip(x)
  <2>1. PICK a \in j.todo : /\ j.step = "read"
                            /\ herald' = [herald EXCEPT ![x].todo = @ \ {a}]
                            /\ UNCHANGED <<entry, joining, leaving, texts>>
    BY <1>2 DEF HeraldSkip
  <2> DEFINE k == [j EXCEPT !.todo = j.todo \ {a}]
             l == [todo |-> j.todo \ {a}, head |-> Null, step |-> "read"]
  <2>2. k = l
    <3>1. j.head = Null /\ j.step = "read"
      BY <1>0, <2>1
    <3>2. j = [todo |-> j.todo, head |-> j.head, step |-> j.step]
      BY <1>1 DEF HeraldState
    <3> HIDE DEF j
    <3>3. QED
      BY <3>1, <3>2
  <2>3. herald' = [herald EXCEPT ![x] = l]
    BY <2>1, <2>2
  <2>4. j.todo \ {a} \in SUBSET Appt /\ texts' \in [Entry -> Nat]
    BY <1>0, <1>1, <2>1 DEF EntriesOK
  <2> HIDE DEF j
  <2>5. QED
    BY <1>0, <2>1, <2>3, <2>4, HeraldFree
<1>3. CASE HeraldText(x) \/ HeraldFails(x) \/ HeraldDies(x)
  <2>1. /\ UNCHANGED <<entry, joining, leaving>>
        /\ texts' = texts \/ (texts' = [texts EXCEPT ![j.head] = @ + 1] /\ j.step = "text")
        /\ NextWindow(x) \/ herald' = [herald EXCEPT ![x] = Silent]
    BY <1>3 DEF HeraldText, HeraldFails, HeraldDies
  <2>2. texts' \in [Entry -> Nat]
    BY <1>0, <1>1, <2>1 DEF EntriesOK
  <2>3. \E S \in SUBSET Appt : herald' = [herald EXCEPT ![x] = [todo |-> S, head |-> Null, step |-> "read"]]
    <3>1. /\ [Silent EXCEPT !.todo = j.todo] = [todo |-> j.todo, head |-> Null, step |-> "read"]
          /\ Silent = [todo |-> {}, head |-> Null, step |-> "read"]
      BY DEF Silent
    <3>2. QED
      BY <1>1, <2>1, <3>1 DEF NextWindow
  <2>4. QED
    BY <1>0, <2>1, <2>2, <2>3, HeraldFree
<1>4. CASE HeraldRead(x)
  <2>0. PICK a \in j.todo : \E e \in Heads(a) :
          /\ herald' = [herald EXCEPT ![x] = [todo |-> j.todo \ {a}, head |-> e, step |-> "mark"]]
          /\ UNCHANGED <<vars, entry, joining, leaving, texts>>
    BY <1>4 DEF HeraldRead
  <2>1. PICK e \in Heads(a) :
          /\ herald' = [herald EXCEPT ![x] = [todo |-> j.todo \ {a}, head |-> e, step |-> "mark"]]
          /\ UNCHANGED <<vars, entry, joining, leaving, texts>>
    BY <2>0
  <2>2. /\ e \in Entry /\ entry[e].status = "waiting" /\ Overlap(Wish[e], row[a])
        /\ \A f \in Entry : entry[f].status = "waiting" /\ Overlap(Wish[f], row[a]) =>
             entry[e].createdAt <= entry[f].createdAt
    BY <2>1 DEF Heads, Wanting
  <2>3. entry[e] # NoEntry /\ e # Null
    BY <2>2, WaitlistAssumption DEF NoEntry
  <2>4. HeraldsOK'
    BY <1>0, <1>1, <2>1, <2>2, <2>3 DEF HeraldsOK, HeraldState
  <2>5. EntriesOK'
    BY <1>0, <2>1 DEF EntriesOK
  <2>6. /\ herald'[x].head = e /\ \A y \in Announcer \ {x} : herald'[y] = herald[y]
        /\ UNCHANGED <<entry, now>>
    BY <1>0, <2>1 DEF HeraldsOK, vars
  <2>7. HeadInv'
    <3>1. ASSUME NEW f \in Entry, entry[f].status = "waiting",
                 Wish[f].start = Wish[e].start, Wish[f].end = Wish[e].end
          PROVE  entry[e].createdAt <= entry[f].createdAt
      BY <2>2, <3>1 DEF Overlap
    <3>2. QED
      BY <1>0, <2>3, <2>6, <3>1 DEF HeadInv
  <2>8. QED
    BY <1>0, <2>4, <2>5, <2>6, <2>7 DEF NobodyIsPassedOver
<1>5. CASE HeraldMark(x)
  <2> DEFINE e == j.head
             k == [j EXCEPT !.step = "text"]
  <2>1. /\ j.step = "mark" /\ SetStatus(e, "notified")
        /\ herald' = [herald EXCEPT ![x] = k] /\ UNCHANGED <<vars, joining, leaving, texts>>
    BY <1>0, <1>5 DEF HeraldMark, HeraldsOK
  <2>2. e \in Entry /\ e # Null /\ entry[e] # NoEntry
    BY <1>0, <1>1, <2>1 DEF HeadInv
  <2>3. k \in HeraldState /\ k.head = e /\ k.step = "text"
    <3> HIDE DEF j
    <3>1. QED
      BY <1>1 DEF HeraldState
  <2> HIDE DEF k
  <2>4. HeraldsOK'
    BY <1>0, <2>1, <2>2, <2>3 DEF HeraldsOK
  <2>5. \A y \in Announcer : herald'[y].head = herald[y].head /\ herald[y].head \in Entry \cup {Null}
    BY <1>0, <2>1, <2>3 DEF HeraldsOK, HeraldState
  <2>6. /\ EntriesOK' /\ entry'[e].status = "notified"
        /\ \A f \in Entry : /\ f # e => entry'[f] = entry[f]
                            /\ entry'[f].createdAt = entry[f].createdAt
                            /\ entry'[f] # NoEntry <=> entry[f] # NoEntry
    BY <1>0, <2>1, <2>2, StatusSet
  <2>7. \A f \in Entry : entry'[f].status = "waiting" => entry'[f] = entry[f] /\ f # e
    BY <2>6
  <2>8. HeadInv'
    <3>1. \A f \in Entry : entry'[f] # NoEntry => entry'[f].createdAt <= now'
      BY <1>0, <2>1, <2>6 DEF HeadInv, vars
    <3>2. ASSUME NEW y \in Announcer, NEW f \in Entry, herald[y].head # Null
          PROVE  LET h == herald[y].head IN
                 /\ entry'[h] # NoEntry
                 /\ /\ entry'[f].status = "waiting"
                    /\ Wish[f].start = Wish[h].start /\ Wish[f].end = Wish[h].end
                    => entry'[h].createdAt <= entry'[f].createdAt
      BY <1>0, <2>5, <2>6, <2>7, <3>2 DEF HeadInv
    <3>3. QED
      BY <2>5, <3>1, <3>2 DEF HeadInv
  <2>9. NobodyIsPassedOver'
    <3> SUFFICES ASSUME NEW d \in Entry, NEW f \in Entry,
                        entry'[f].status = "notified", entry'[d].status = "waiting",
                        Wish[d].start = Wish[f].start, Wish[d].end = Wish[f].end
                 PROVE  entry'[f].createdAt <= entry'[d].createdAt
      BY DEF NobodyIsPassedOver
    <3>1. CASE f = e
      BY <1>0, <2>2, <2>6, <2>7, <3>1 DEF HeadInv
    <3>2. CASE f # e
      BY <1>0, <2>6, <2>7, <3>2 DEF NobodyIsPassedOver
    <3>3. QED
      BY <3>1, <3>2
  <2>10. QED
    BY <2>4, <2>6, <2>8, <2>9
<1>6. QED
  BY <1>2, <1>3, <1>4, <1>5 DEF HeraldStep

\* An announcer that was silent sets out.
LEMMA AnnounceKeeps ==
  ASSUME WlInv, Later, NEW x \in Announcer, NEW S \in SUBSET Appt, herald[x] = Silent,
         Announce(x, S)
  PROVE  (EntriesOK /\ HeraldsOK /\ HeadInv /\ NobodyIsPassedOver)'
<1>1. [Silent EXCEPT !.todo = S] = [todo |-> S, head |-> Null, step |-> "read"]
  BY DEF Silent
<1>2. herald' = [herald EXCEPT ![x] = [todo |-> S, head |-> Null, step |-> "read"]]
  BY <1>1 DEF Announce
<1>3. QED
  BY <1>2, HeraldFree DEF WlInv, Announce, EntriesOK

-----------------------------------------------------------------------------
(***************************************************************************)
(* Theorems.                                                               *)
(***************************************************************************)

\* The initial state satisfies the invariant.
LEMMA WlStart == WlInit => WlInv
<1> SUFFICES ASSUME WlInit PROVE WlInv
  OBVIOUS
<1>1. TypeInv
  BY TypeInit DEF WlInit
<1>2. EntriesOK /\ HeraldsOK
  BY DEF WlInit, NobodyWaits, EntriesOK, EntryState, HeraldsOK, HeraldState, Silent
<1>3. HeadInv
  BY DEF WlInit, NobodyWaits, HeadInv, Silent
<1>4. NobodyIsPassedOver
  BY DEF WlInit, NobodyWaits, NobodyIsPassedOver, NoEntry
<1>5. QED
  BY <1>1, <1>2, <1>3, <1>4 DEF WlInv

\* Every step keeps it.
LEMMA WlStep == WlInv /\ [WlNext]_allVars => WlInv'
<1> SUFFICES ASSUME WlInv, [WlNext]_allVars PROVE WlInv'
  OBVIOUS
<1>1. TypeInv /\ TypeInv' /\ Later
  BY TypeInside DEF WlInv, Later
<1> DEFINE Kept == (EntriesOK /\ HeraldsOK /\ HeadInv /\ NobodyIsPassedOver)'
<1>2. ASSUME UNCHANGED wlVars PROVE Kept
  BY <1>1, <1>2, WaitlistKept DEF WlInv
<1>3. ASSUME NEW c \in Call, AnnounceCancelled(c) PROVE Kept
  <2>1. call[c].op = "announce" /\ call[c].appt \in Appt
    BY <1>1, <1>3, TargetIsRow DEF AnnounceCancelled, CancelAnnounce
  <2>2. QED
    BY <1>1, <1>3, <2>1, AnnounceKeeps DEF AnnounceCancelled, Announcer
<1>4. ASSUME NEW w \in Worker, AnnounceExpired(w) PROVE Kept
  <2>1. Windows(w) \in SUBSET Appt
    BY <1>1 DEF Windows, TypeInv, TypeOK
  <2>2. QED
    BY <1>1, <1>4, <2>1, AnnounceKeeps DEF AnnounceExpired, Announcer
<1>5. ASSUME NEW e \in Entry, EntryStep(e) PROVE Kept
  BY <1>5, EntryStepKeeps
<1>6. ASSUME NEW x \in Announcer, HeraldStep(x) \/ HeraldFails(x) \/ HeraldDies(x) PROVE Kept
  BY <1>6, HeraldStepKeeps
<1>7. Kept
  BY <1>2, <1>3, <1>4, <1>5, <1>6 DEF WlNext, WlCallStep, Sweep, allVars
<1>8. QED
  BY <1>1, <1>7 DEF WlInv

LEMMA WlInvariant == WlSpec => []WlInv
  BY WlStart, WlStep, PTL DEF WlSpec

\* The appointments, the entries and the announcers are well-typed, and every entry an
\* announcer is about to mark or to text is stored.
THEOREM WlTypeCorrect == WlSpec => []WlTypeOK
<1>1. WlInv => WlTypeOK
  BY WlParts DEF WlInv, TypeInv
<1>2. QED
  BY <1>1, WlInvariant, PTL

\* Nobody who joined later for the same window is told of it while somebody who joined
\* earlier still waits, for any number of customers, cancellations and workers that
\* announce windows at once.
THEOREM TheListIsFair == WlSpec => []NobodyIsPassedOver
<1>1. WlInv => NobodyIsPassedOver
  BY DEF WlInv
<1>2. QED
  BY <1>1, WlInvariant, PTL

\* Beside a waitlist the calendar stays free of double bookings.
THEOREM WaitlistKeepsCalendar == WlSpec => []NoDoubleBooking
<1>1. WlInit => NoDoubleBooking
  BY DEF WlInit, Init, NoDoubleBooking, AbsentRow, Reserving
<1>2. WlInv /\ NoDoubleBooking /\ [WlNext]_allVars => NoDoubleBooking'
  <2> SUFFICES ASSUME WlInv, NoDoubleBooking, [WlNext]_allVars PROVE NoDoubleBooking'
    OBVIOUS
  <2>1. [Next]_vars \/ UNCHANGED row
    BY LifecycleInside
  <2>2. CASE [Next]_vars
    BY <2>2, CalendarStep DEF WlInv
  <2>3. CASE UNCHANGED row
    BY <2>3 DEF NoDoubleBooking
  <2>4. QED
    BY <2>1, <2>2, <2>3
<1>3. QED
  BY <1>1, <1>2, WlInvariant, PTL DEF WlSpec

-----------------------------------------------------------------------------
(***************************************************************************)
(* The settings.  Their types, and that the lifecycle inside the           *)
(* composition takes its own steps.                                        *)
(***************************************************************************)
ClosingState ==
  [ pc : {"idle", "list", "cancel"}, date : Nat,
    todo : SUBSET [op : {"reject", "cancel"}, appt : Appt], racing : SUBSET Appt ]

SettingsOK == salon \in SalonType /\ closing \in ClosingState /\ edits \in 0..MaxEdits

AvInv == TypeInv /\ SettingsOK

\* Every step of the composition is one of the lifecycle, or leaves it alone.
LEMMA LifecycleOfSettings ==
  ASSUME SettingsOK, [AvNext]_avAllVars
  PROVE  [Next]_vars
<1>1. ASSUME NEW a \in Appt, BookResolved(a) PROVE Next
  BY <1>1 DEF BookResolved, Next
<1>2. ASSUME LifecycleStep PROVE Next
  BY <1>2 DEF LifecycleStep, Next
<1>3. ASSUME NEW c \in Call, CancelListed(c) PROVE Next
  <2>1. PICK e \in closing.todo :
          IF e.op = "reject" THEN RejectRead(c, e.appt) ELSE CancelRead(c, e.appt)
    BY <1>3 DEF CancelListed
  <2>2. e.appt \in Appt
    BY DEF SettingsOK, ClosingState
  <2>3. ReadStep(c, e.appt)
    BY <2>1 DEF ReadStep
  <2>4. QED
    BY <2>2, <2>3 DEF Next
<1>4. ASSUME Edit \/ CloseDay \/ ListDay \/ ListedRefused PROVE UNCHANGED vars
  BY <1>4 DEF Edit, Store, CloseDay, ListDay, ListedRefused
<1>5. ASSUME UNCHANGED avAllVars PROVE UNCHANGED vars
  BY <1>5 DEF avAllVars
<1>6. QED
  BY <1>1, <1>2, <1>3, <1>4, <1>5 DEF AvNext

\* Each edit makes proper settings of proper settings.
LEMMA EditsAreProper ==
  ASSUME NEW s \in SalonType
  PROVE  /\ SetWorkingHours(s) \subseteq SalonType
         /\ AddDayOff(s) \subseteq SalonType
         /\ RemoveDayOff(s) \subseteq SalonType
         /\ AddChairUnavailable(s) \subseteq SalonType
         /\ RemoveChairUnavailable(s) \subseteq SalonType
         /\ AddHoliday(s) \subseteq SalonType
         /\ RemoveHoliday(s) \subseteq SalonType
         /\ SetBookingWindowDays(s) \subseteq SalonType
         /\ SetBookingStartOffsetDays(s) \subseteq SalonType
<1>1. SetWorkingHours(s) \subseteq SalonType
  BY AvailabilityAssumption DEF SetWorkingHours, SalonType
<1>2. AddDayOff(s) \subseteq SalonType
  BY AvailabilityAssumption DEF AddDayOff, SalonType
<1>3. RemoveDayOff(s) \subseteq SalonType
  BY DEF RemoveDayOff, SalonType
<1>4. AddChairUnavailable(s) \subseteq SalonType
  BY AvailabilityAssumption DEF AddChairUnavailable, SalonType
<1>5. RemoveChairUnavailable(s) \subseteq SalonType
  BY DEF RemoveChairUnavailable, SalonType
<1>6. AddHoliday(s) \subseteq SalonType
  BY DEF AddHoliday, SalonType
<1>7. RemoveHoliday(s) \subseteq SalonType
  BY DEF RemoveHoliday, SalonType
<1>8. SetBookingWindowDays(s) \subseteq SalonType
  BY DEF SetBookingWindowDays, SalonType
<1>9. SetBookingStartOffsetDays(s) \subseteq SalonType
  BY DEF SetBookingStartOffsetDays, SalonType
<1>10. QED
  BY <1>1, <1>2, <1>3, <1>4, <1>5, <1>6, <1>7, <1>8, <1>9

\* An edit stores proper settings, and keeps the whole-day closures there are, or
\* takes some back.
LEMMA EditStores ==
  ASSUME SettingsOK, Edit
  PROVE  /\ salon' \in SalonType /\ edits' \in 0..MaxEdits
         /\ UNCHANGED <<vars, closing>>
         /\ \A w \in salon'.holidays : WholeDay(w) => w \in salon.holidays
<1>1. edits < MaxEdits /\ edits' = edits + 1 => edits' \in 0..MaxEdits
  BY AvailabilityAssumption DEF SettingsOK
<1>2. salon \in SalonType
  BY DEF SettingsOK
<1> DEFINE Fewer(S) == \A s \in S : \A w \in s.holidays : WholeDay(w) => w \in salon.holidays
<1>3. Fewer(SetWorkingHours(salon)) /\ Fewer(AddDayOff(salon)) /\ Fewer(RemoveDayOff(salon))
  BY <1>2 DEF SetWorkingHours, AddDayOff, RemoveDayOff, SalonType
<1>4. Fewer(AddChairUnavailable(salon)) /\ Fewer(RemoveChairUnavailable(salon))
  BY <1>2 DEF AddChairUnavailable, RemoveChairUnavailable, SalonType
<1>5. Fewer(AddHoliday(salon)) /\ Fewer(RemoveHoliday(salon))
  BY <1>2 DEF AddHoliday, RemoveHoliday, SalonType
<1>6. Fewer(SetBookingWindowDays(salon)) /\ Fewer(SetBookingStartOffsetDays(salon))
  BY <1>2 DEF SetBookingWindowDays, SetBookingStartOffsetDays, SalonType
<1>7. ASSUME NEW S, S \subseteq SalonType, Fewer(S), Store(S)
      PROVE  /\ salon' \in SalonType /\ edits' \in 0..MaxEdits
             /\ UNCHANGED <<vars, closing>>
             /\ \A w \in salon'.holidays : WholeDay(w) => w \in salon.holidays
  BY <1>1, <1>7 DEF Store
<1> HIDE DEF Fewer
<1>8. QED
  BY <1>2, <1>3, <1>4, <1>5, <1>6, <1>7, EditsAreProper DEF Edit

\* Closing a day stores a closure among the others.
LEMMA CloseDayStores ==
  ASSUME SettingsOK, CloseDay
  PROVE  SettingsOK' /\ UNCHANGED vars
<1>1. PICK w \in Closures :
        /\ edits < MaxEdits /\ edits' = edits + 1
        /\ salon' = [salon EXCEPT !.holidays = @ \cup {w}]
        /\ closing' = [NotClosing EXCEPT !.pc = "list", !.date = w.date,
                         !.racing = {a \in Appt : booking[a].pc = "insert"}]
        /\ UNCHANGED vars
  BY DEF CloseDay
<1>2. w.date \in Nat /\ MaxEdits \in Nat
  BY AvailabilityAssumption
<1>3. salon' \in SalonType
  BY <1>1 DEF SettingsOK, SalonType
<1>4. closing' \in ClosingState
  BY <1>1, <1>2 DEF NotClosing, ClosingState
<1>5. QED
  BY <1>1, <1>2, <1>3, <1>4 DEF SettingsOK

\* Listing the day, and taking up what is listed, keep the record of the request.
LEMMA ClosingGoesOn ==
  ASSUME SettingsOK, ListDay \/ ListedRefused \/ \E c \in Call : CancelListed(c)
  PROVE  /\ SettingsOK' /\ UNCHANGED <<salon, edits>>
         /\ closing.pc # "idle" \/ closing'.pc = "idle"
         /\ closing'.date = closing.date /\ closing'.racing = closing.racing
<1>1. CASE ListDay
  <2>1. {[op |-> IF row[a].status = "pending" THEN "reject" ELSE "cancel", appt |-> a] :
           a \in {b \in DayAppointments(closing.date) : row[b].start >= now}}
          \in SUBSET [op : {"reject", "cancel"}, appt : Appt]
    BY DEF DayAppointments
  <2>2. PICK T \in SUBSET [op : {"reject", "cancel"}, appt : Appt] :
          closing' = [closing EXCEPT !.pc = "cancel", !.todo = T]
    BY <1>1, <2>1 DEF ListDay
  <2>3. closing.pc = "list" /\ UNCHANGED <<salon, edits>>
    BY <1>1 DEF ListDay
  <2>4. QED
    BY <2>2, <2>3 DEF SettingsOK, ClosingState
<1>2. CASE ListedRefused \/ \E c \in Call : CancelListed(c)
  <2>1. PICK e \in closing.todo : Listed(e) /\ UNCHANGED <<salon, edits>>
    BY <1>2 DEF ListedRefused, CancelListed
  <2>2. closing' = [closing EXCEPT !.todo = closing.todo \ {e}]
    BY <2>1 DEF Listed
  <2>3. /\ closing' \in ClosingState /\ closing'.pc = closing.pc
        /\ closing'.date = closing.date /\ closing'.racing = closing.racing
    BY <2>2 DEF SettingsOK, ClosingState
  <2>4. QED
    BY <2>1, <2>3 DEF SettingsOK
<1>3. QED
  BY <1>1, <1>2

\* Every step keeps the types.
LEMMA SettingsStep ==
  ASSUME AvInv, [AvNext]_avAllVars
  PROVE  AvInv'
<1>1. SettingsOK /\ TypeInv'
  BY LifecycleOfSettings, TypeStep DEF AvInv
<1>2. CASE UNCHANGED avVars
  BY <1>1, <1>2 DEF avVars, SettingsOK, AvInv
<1>3. CASE Edit
  BY <1>1, <1>3, EditStores DEF SettingsOK, AvInv
<1>4. CASE CloseDay
  BY <1>1, <1>4, CloseDayStores DEF AvInv
<1>5. CASE ListDay \/ ListedRefused \/ \E c \in Call : CancelListed(c)
  BY <1>1, <1>5, ClosingGoesOn DEF AvInv
<1>6. QED
  BY <1>2, <1>3, <1>4, <1>5 DEF AvNext, BookResolved, avAllVars, avVars

LEMMA SettingsInvariant == AvSpec => []AvInv
<1>1. AvInit => AvInv
  BY TypeInit, AvailabilityAssumption
     DEF AvInit, AvInv, SettingsOK, ClosingState, NotClosing
<1>2. QED
  BY <1>1, SettingsStep, PTL DEF AvSpec

\* The settings and the request that closes a day keep their types.
THEOREM AvTypeCorrect == AvSpec => []AvTypeOK
<1>1. AvInv => AvTypeOK
  BY DEF AvInv, SettingsOK, ClosingState, AvTypeOK, TypeInv
<1>2. QED
  BY <1>1, SettingsInvariant, PTL

\* The settings keep bookings from entering the race for the calendar, and never step into
\* the race itself: what holds of the lifecycle for all offers holds beside any edits.
THEOREM SettingsKeepLifecycle == AvSpec => Spec
<1>1. AvInit => Init
  BY DEF AvInit
<1>2. AvInv /\ [AvNext]_avAllVars => [Next]_vars
  BY LifecycleOfSettings DEF AvInv
<1>3. QED
  BY <1>1, <1>2, SettingsInvariant, PTL DEF AvSpec, Spec
\* Whatever the settings make of the requests, and whenever they change, no staff member
\* and no chair is in two appointments at a time, and whoever loses the race for a slot
\* lost it to a stored appointment.
THEOREM SettingsKeepCalendar == AvSpec => [](NoDoubleBooking /\ LostRaceHasWinner)
  BY SettingsKeepLifecycle, NoDoubleBookingCorrect, LostRaceHasWinnerCorrect, PTL

-----------------------------------------------------------------------------
(***************************************************************************)
(* Closing a day.  While the closure stands, a booking that has passed its *)
(* checks for that day had passed them before: the checks look at the      *)
(* closures.  A whole day can be closed by this request only, so a closure *)
(* that is taken back does not return.                                     *)
(***************************************************************************)
Standing == \E w \in salon.holidays : w.date = closing.date /\ WholeDay(w)

OnlyRacing ==
  closing.pc # "idle" /\ Standing =>
    \A a \in Appt : booking[a].pc = "insert" /\ DateOf(booking[a].offer.start) = closing.date =>
      a \in closing.racing

\* A request that is accepted is not for a day that is closed.
LEMMA AcceptedIsOpen ==
  ASSUME NEW o \in Resolved, Standing
  PROVE  DateOf(o.start) # closing.date
<1>1. PICK q \in Query : Accepts(salon, q) /\ o = OfferFor(salon, q)
  BY DEF Resolved
<1>2. o.start = q.start
  BY <1>1 DEF OfferFor, Occupied
<1>3. \A w \in salon.holidays : w.date = DateOf(q.start) => ~WholeDay(w)
  BY <1>1 DEF Accepts, OpenFor
<1>4. QED
  BY <1>2, <1>3 DEF Standing

\* A step of the lifecycle brings no booking into the race but one that is accepted.
LEMMA RaceIsEntered ==
  ASSUME TypeInv, NEW a \in Appt, [AvNext]_avAllVars, SettingsOK,
         booking'[a].pc = "insert"
  PROVE  \/ booking[a].pc = "insert" /\ booking'[a].offer = booking[a].offer
         \/ booking'[a].offer \in Resolved /\ UNCHANGED avVars
<1>1. /\ booking \in [Appt -> BookingRecord]
      /\ booking[a] \in BookingRecord
  BY DEF TypeInv, TypeOK
<1>2. ASSUME NEW x \in Appt, BookResolved(x)
      PROVE  \/ booking[a].pc = "insert" /\ booking'[a].offer = booking[a].offer
             \/ booking'[a].offer \in Resolved /\ UNCHANGED avVars
  <2>1. CASE x # a
    <3>1. booking'[a] = booking[a]
      BY <1>1, <1>2, <2>1 DEF BookResolved, BookStep, BookProgress, BookNoAvailability, BookRead, BookInsert,
         BookSaveServices, BookConflict, BookExhausted, BookingDies, Answer
    <3>2. QED
      BY <3>1
  <2>2. CASE x = a /\ booking[a].pc = "idle"
    BY <1>2, <2>2 DEF BookResolved
  <2>3. CASE x = a /\ booking[a].pc # "idle"
    <3>1. BookInsert(a) \/ BookSaveServices(a) \/ BookConflict(a) \/ BookExhausted(a) \/ BookingDies(a)
      BY <1>2, <2>3 DEF BookResolved, BookStep, BookProgress, BookNoAvailability, BookRead
    <3>2. CASE BookInsert(a)
      <4>1. booking'[a] = [booking[a] EXCEPT !.pc = "services"]
        BY <1>1, <3>2 DEF BookInsert
      <4>2. QED
        BY <1>1, <4>1 DEF BookingRecord
    <3>3. CASE BookConflict(a)
      <4>1. booking[a].pc = "insert"
        BY <3>3 DEF BookConflict
      <4>2. PICK p \in Pair :
              booking'[a] = [booking[a] EXCEPT !.open = booking[a].open \ {p},
                                               !.refused = booking[a].refused \cup {p}]
        BY <1>1, <3>3 DEF BookConflict
      <4>3. QED
        BY <1>1, <4>1, <4>2 DEF BookingRecord
    <3>4. CASE BookSaveServices(a) \/ BookExhausted(a) \/ BookingDies(a)
      <4>1. PICK res \in Results : booking'[a] = [booking[a] EXCEPT !.pc = "done", !.result = res]
        BY <1>1, <3>4 DEF BookSaveServices, BookExhausted, BookingDies, Answer,
           InitialStatus, Results
      <4>2. QED
        BY <1>1, <4>1 DEF BookingRecord
    <3>5. QED
      BY <3>1, <3>2, <3>3, <3>4
  <2>4. QED
    BY <2>1, <2>2, <2>3
<1>3. CASE LifecycleStep
  <2>1. ASSUME NEW c \in Call, NEW x \in Appt, ReadStep(c, x) PROVE UNCHANGED booking
    BY <2>1, ReadEffect DEF Quiet
  <2>2. ASSUME NEW c \in Call, WriteStep(c) PROVE UNCHANGED booking
    BY <2>2 DEF WriteStep, ApproveWrite, ConfirmHeldWrite, RejectWrite, CancelWrite,
       NoShowWrite, CompleteWrite, CancelAnnounce, CountNoShow, UpdateRefused, CallDies, Update
  <2>3. ASSUME NEW w \in Worker, WorkerStep(w) PROVE UNCHANGED booking
    BY <2>3 DEF WorkerStep, SweepRead, SweepRelease, SweepNotify, WorkerDies
  <2>4. UNCHANGED booking
    BY <1>3, <2>1, <2>2, <2>3 DEF LifecycleStep, Tick
  <2>5. QED
    BY <2>4
<1>4. CASE Edit \/ CloseDay \/ ListDay \/ ListedRefused \/ UNCHANGED avAllVars
  BY <1>4 DEF Edit, Store, CloseDay, ListDay, ListedRefused, avAllVars, vars
<1>5. ASSUME NEW c \in Call, CancelListed(c) PROVE UNCHANGED booking
  BY <1>5 DEF CancelListed, RejectRead, CancelRead, Passed
<1>6. QED
  BY <1>2, <1>3, <1>4, <1>5 DEF AvNext

\* The bookings in the race for a closed day stay those that were in it.
LEMMA OnlyRacingStep ==
  ASSUME AvInv, OnlyRacing, [AvNext]_avAllVars
  PROVE  OnlyRacing'
<1>1. TypeInv /\ SettingsOK
  BY DEF AvInv
<1> SUFFICES ASSUME closing'.pc # "idle", Standing',
                    NEW a \in Appt, booking'[a].pc = "insert",
                    DateOf(booking'[a].offer.start) = closing'.date
             PROVE  a \in closing'.racing
  BY DEF OnlyRacing, DateOf
<1>2. CASE CloseDay
  <2>1. closing'.racing = {x \in Appt : booking[x].pc = "insert"} /\ UNCHANGED vars
    BY <1>2 DEF CloseDay, NotClosing
  <2>2. QED
    BY <2>1 DEF vars
<1>3. CASE ~CloseDay
  <2>1. /\ closing.pc # "idle" /\ closing'.date = closing.date
        /\ closing'.racing = closing.racing
        /\ \A w \in salon'.holidays : WholeDay(w) => w \in salon.holidays
    <3>1. CASE UNCHANGED avVars
      BY <3>1 DEF avVars
    <3>2. CASE Edit
      BY <1>1, <3>2, EditStores
    <3>3. CASE ListDay \/ ListedRefused \/ \E c \in Call : CancelListed(c)
      BY <1>1, <3>3, ClosingGoesOn
    <3>4. QED
      BY <1>3, <3>1, <3>2, <3>3 DEF AvNext, BookResolved, avAllVars, avVars
  <2>2. Standing
    BY <2>1 DEF Standing, WholeDay
  <2>3. CASE booking[a].pc = "insert" /\ booking'[a].offer = booking[a].offer
    BY <2>1, <2>2, <2>3 DEF OnlyRacing
  <2>4. CASE booking'[a].offer \in Resolved
    BY <2>1, <2>2, <2>4, AcceptedIsOpen
  <2>5. QED
    BY <1>1, <2>3, <2>4, RaceIsEntered
<1>4. QED
  BY <1>2, <1>3

\* What becomes active was in the race, or is some request's.
LEMMA ActivationHasCause ==
  ASSUME TypeInv, [Next]_vars, NEW a \in Appt, ~Reserves(a), Reserves(a)'
  PROVE  \/ booking[a].pc = "insert" /\ row'[a].start = booking[a].offer.start
         \/ \E c \in Call : call[c].appt = a
<1>1. row \in [Appt -> Row \cup {AbsentRow}]
  BY DEF TypeInv, TypeOK, TableTypeOK
<1>2. row'[a] # row[a]
  BY DEF Reserves
<1>3. ASSUME NEW x \in Appt, Insertion(x)
      PROVE  booking[a].pc = "insert" /\ row'[a].start = booking[a].offer.start
  <2>1. x = a
    BY <1>1, <1>2, <1>3 DEF Insertion, StoreRow
  <2>2. PICK p \in Pair : row'[a] = NewRow(booking[a].offer, p)
    BY <1>1, <1>3, <2>1 DEF Insertion, StoreRow
  <2>3. QED
    BY <1>3, <2>1, <2>2 DEF Insertion, NewRow
<1>4. ASSUME NEW c \in Call, Change(c)
      PROVE  call[c].appt = a
  BY <1>1, <1>2, <1>4 DEF Change, StoreRow
<1>5. CASE Expiry
  BY <1>2, <1>5 DEF Expiry, Reserves, Reserving
<1>6. QED
  BY <1>2, <1>3, <1>4, <1>5, StepKinds DEF Quiet, Deliberation

\* Once a day is closed nothing new becomes active on it, except for a booking that had
\* passed its checks when the closure was stored, and for a request on that very
\* appointment, for any settings, closures and requests
\* (cancelAppointmentsForFullDayClosure, book).
THEOREM ClosedDayOnlyDrainsCorrect == AvSpec => ClosedDayOnlyDrains
<1>1. AvInit => OnlyRacing
  BY DEF AvInit, OnlyRacing, NotClosing
<1>2. AvInv /\ OnlyRacing /\ [AvNext]_avAllVars => OnlyRacing'
  BY OnlyRacingStep
<1>3. AvInv /\ OnlyRacing /\ [AvNext]_avAllVars =>
        \A a \in Appt :
          /\ closing.pc # "idle"
          /\ \E w \in salon.holidays : w.date = closing.date /\ WholeDay(w)
          /\ ~Reserves(a) /\ Reserves(a)'
          /\ DateOf(row'[a].start) = closing.date
          => a \in closing.racing \/ \E c \in Call : call[c].appt = a
  BY LifecycleOfSettings, ActivationHasCause DEF AvInv, OnlyRacing, Standing
<1>4. QED
  BY <1>1, <1>2, <1>3, SettingsInvariant, PTL DEF AvSpec, ClosedDayOnlyDrains
-----------------------------------------------------------------------------
(***************************************************************************)
(* The page and the booking.  A start on the page's grid lies, with all    *)
(* the time it would occupy, within its day; so the appointments of the    *)
(* day are all a booking could meet there.                                 *)
(***************************************************************************)

\* The days and times of the settings are integers.
LEMMA SettingsNumbers ==
  ASSUME AvInv, NEW q \in Query, NEW d \in BookableDates(salon),
         NEW t \in CandidateStarts(salon, q, d)
  PROVE  /\ Day \in Nat \ {0} /\ d \in Int /\ t \in Int
         /\ salon \in SalonType /\ salon.buffer \in Nat
         /\ q \in QueryType
         /\ Serves(salon, q) => Duration(salon, q) \in Nat \ {0}
<1>1. salon \in SalonType /\ q \in QueryType /\ Day \in Nat \ {0}
  BY AvailabilityAssumption DEF AvInv, SettingsOK
<1>2. d \in Int /\ t \in Int
  BY DEF BookableDates, CandidateStarts
<1>3. salon.buffer \in Nat /\ salon.shortest \in Nat \ {0} /\ salon.longest \in Nat
  BY <1>1 DEF SalonType
<1>4. Serves(salon, q) => Duration(salon, q) \in Nat \ {0}
  BY <1>3 DEF Serves
<1>5. QED
  BY <1>1, <1>2, <1>3, <1>4

\* Whoever may take the service, and wherever, is of the salon.
LEMMA SettingsPeople ==
  ASSUME NEW s \in SalonType, NEW q \in QueryType, NEW d \in Int
  PROVE  /\ OnDuty(s, d) \subseteq Staff /\ Eligible(s, q, d) \subseteq OnDuty(s, d)
         /\ InService(s, q, d) \subseteq Chair
<1>1. s.qualified \subseteq Staff /\ s.equipped \subseteq Chair
  BY DEF SalonType
<1>2. MobileChair \subseteq Chair
  BY AvailabilityAssumption
<1>3. QED
  BY <1>1, <1>2 DEF OnDuty, Eligible, InService

\* The hours of a day end with it.
LEMMA HoursEnd ==
  ASSUME NEW s \in SalonType, NEW x \in Staff \cup Chair, NEW d \in Int,
         Day \in Nat, NEW w \in HoursOn(s, x, d)
  PROVE  w.end \in Int /\ w.end <= (d + 1) * Day
<1>1. PICK v \in s.hours[x] : w = OnDate(v, d)
  BY DEF HoursOn
<1>2. v \in WindowType
  BY DEF SalonType
<1>3. v.end \in 0..Day /\ w.end = d * Day + v.end
  BY <1>1, <1>2 DEF WindowType, OnDate
<1>4. (d + 1) * Day = d * Day + Day /\ d * Day \in Int
  OBVIOUS
<1>5. QED
  BY <1>3, <1>4

\* A start on the grid, and the time it would occupy, are of that day.
LEMMA StartIsOfTheDay ==
  ASSUME AvInv, NEW q \in Query, NEW d \in BookableDates(salon),
         NEW t \in CandidateStarts(salon, q, d), Serves(salon, q)
  PROVE  /\ DateOf(t) = d
         /\ d * Day <= t /\ t + Duration(salon, q) + salon.buffer <= (d + 1) * Day
<1> DEFINE len == Duration(salon, q) + salon.buffer
           hours == UNION {HoursOn(salon, x, d) : x \in Eligible(salon, q, d) \cup InService(salon, q, d)}
<1>1. /\ Day \in Nat \ {0} /\ d \in Int /\ t \in Int /\ salon \in SalonType
      /\ q \in QueryType /\ Duration(salon, q) \in Nat \ {0} /\ salon.buffer \in Nat
  BY SettingsNumbers
<1>2. t \in (d * Day)..((d + 1) * Day)
  BY DEF CandidateStarts
<1>3. PICK last \in hours : Occupied(salon, q, t).end <= last.end
  BY DEF CandidateStarts
<1>4. PICK x \in Eligible(salon, q, d) \cup InService(salon, q, d) : last \in HoursOn(salon, x, d)
  BY <1>3
<1>5. x \in Staff \cup Chair
  BY <1>1, <1>4, SettingsPeople
<1>6. last.end \in Int /\ last.end <= (d + 1) * Day
  BY <1>1, <1>4, <1>5, HoursEnd
<1>7. t + Duration(salon, q) + salon.buffer <= last.end
  BY <1>3 DEF Occupied
<1>8. d * Day \in Int /\ (d + 1) * Day \in Int
  BY <1>1
<1>9. d * Day <= t /\ t + Duration(salon, q) + salon.buffer <= (d + 1) * Day
  BY <1>1, <1>2, <1>6, <1>7, <1>8
<1>10. t < (d + 1) * Day
  BY <1>1, <1>8, <1>9
<1>11. t \div Day = d
  BY <1>1, <1>2, <1>8, <1>10, Z3
<1>12. QED
  BY <1>9, <1>11 DEF DateOf

\* The appointments a booking on the day would meet are among those of the day.
LEMMA BusyIsOfTheDay ==
  ASSUME TypeInv, Day \in Nat, NEW d \in Int, NEW i, i.start \in Int, i.end \in Int,
         d * Day <= i.start, i.end <= (d + 1) * Day, NEW b \in Appt
  PROVE  row[b].status \in Reserving /\ Overlap(row[b], i) <=>
           b \in DayAppointments(d) /\ Overlap(row[b], i)
<1>1. row[b].start \in Int /\ row[b].end \in Int
  BY DEF TypeInv, TypeOK, TableTypeOK, Row, AbsentRow
<1>2. d * Day \in Int /\ (d + 1) * Day \in Int
  OBVIOUS
<1>3. Overlap(row[b], i) => Overlap(row[b], [start |-> d * Day, end |-> (d + 1) * Day])
  BY <1>1, <1>2 DEF Overlap
<1>4. QED
  BY <1>3 DEF DayAppointments

\* Both handlers look for a pair that fits, and is free for the time of the service.
LEMMA PairsAgree ==
  ASSUME AvInv, NEW q \in Query, NEW d \in BookableDates(salon),
         NEW t \in CandidateStarts(salon, q, d), Serves(salon, q),
         NEW r, r = [q EXCEPT !.start = t, !.hasAddress = TRUE]
  PROVE  (\E p \in CandidatePairs(OfferFor(salon, r)) : q.staff \in {Null, p.staff})
           <=> \E p \in {x \in Eligible(salon, q, d) \X InService(salon, q, d) :
                           Fits([location |-> Location(salon, q)],
                                [staff |-> x[1], chair |-> x[2]])} :
                 BothFree(salon, DayAppointments(d), p[1], p[2], Occupied(salon, q, t))
<1> DEFINE o == OfferFor(salon, r)
           i == Occupied(salon, q, t)
<1>1. /\ Day \in Nat \ {0} /\ d \in Int /\ t \in Int /\ salon \in SalonType
      /\ q \in QueryType /\ Duration(salon, q) \in Nat \ {0} /\ salon.buffer \in Nat
  BY SettingsNumbers
<1>2. /\ r.start = t /\ r.hasAddress = TRUE /\ r.staff = q.staff
      /\ r.duration = q.duration /\ r.location = q.location
  BY <1>1 DEF QueryType
<1>3. Location(salon, r) = Location(salon, q) /\ Duration(salon, r) = Duration(salon, q)
  BY <1>2 DEF Location, Duration
<1>4. Occupied(salon, r, r.start) = i /\ i.start = t /\ DateOf(t) = d
  BY <1>2, <1>3, StartIsOfTheDay DEF Occupied
<1>5. InService(salon, r, d) = InService(salon, q, d)
  BY <1>3 DEF InService
<1>6. /\ o.start = i.start /\ o.end = i.end /\ o.location = Location(salon, q)
      /\ o.staff = {m \in OnDuty(salon, d) : Works(salon, m, d, i)}
      /\ o.chairs = {h \in InService(salon, q, d) : InUse(salon, h, d, i)}
  BY <1>2, <1>3, <1>4, <1>5 DEF OfferFor
<1>7. /\ OnDuty(salon, d) \subseteq Staff /\ InService(salon, q, d) \subseteq Chair
      /\ Eligible(salon, q, d) = {m \in OnDuty(salon, d) : q.staff \in {Null, m}}
  BY <1>1, SettingsPeople DEF Eligible
<1>8. Busy(o) = {b \in DayAppointments(d) : Overlap(row[b], i)}
  <2>1. i.start \in Int /\ i.end \in Int /\ d * Day <= i.start /\ i.end <= (d + 1) * Day
    BY <1>1, StartIsOfTheDay DEF Occupied
  <2>2. \A b \in Appt : Overlap(row[b], o) <=> Overlap(row[b], i)
    BY <1>6 DEF Overlap
  <2>3. \A b \in Appt : row[b].status \in Reserving /\ Overlap(row[b], i) <=>
                          b \in DayAppointments(d) /\ Overlap(row[b], i)
    <3> HIDE DEF i
    <3>1. QED
      BY <1>1, <2>1, BusyIsOfTheDay DEF AvInv
  <2>4. QED
    BY <2>2, <2>3 DEF Busy, DayAppointments
<1>9. \A m, h : Fits(o, [staff |-> m, chair |-> h]) <=>
                  Fits([location |-> Location(salon, q)], [staff |-> m, chair |-> h])
  BY <1>6 DEF Fits
<1>10. \A m \in Eligible(salon, q, d), h \in InService(salon, q, d) :
         BothFree(salon, DayAppointments(d), m, h, i) <=> m \in FreeStaff(o) /\ h \in FreeChairs(o)
  BY <1>4, <1>6, <1>7, <1>8 DEF BothFree, FreeStaff, FreeChairs
<1> HIDE DEF o, i
<1>11. ASSUME NEW p \in CandidatePairs(o), q.staff \in {Null, p.staff}
       PROVE  \E x \in Eligible(salon, q, d) \X InService(salon, q, d) :
                /\ Fits([location |-> Location(salon, q)], [staff |-> x[1], chair |-> x[2]])
                /\ BothFree(salon, DayAppointments(d), x[1], x[2], i)
  <2>1. /\ p.staff \in FreeStaff(o) /\ p.chair \in FreeChairs(o) /\ Fits(o, p)
        /\ p = [staff |-> p.staff, chair |-> p.chair]
    BY DEF CandidatePairs, Pair
  <2>2. p.staff \in Eligible(salon, q, d) /\ p.chair \in InService(salon, q, d)
    BY <1>6, <1>7, <1>11, <2>1 DEF FreeStaff, FreeChairs
  <2>3. /\ <<p.staff, p.chair>>[1] = p.staff /\ <<p.staff, p.chair>>[2] = p.chair
        /\ <<p.staff, p.chair>> \in Eligible(salon, q, d) \X InService(salon, q, d)
    BY <2>2
  <2>4. /\ Fits([location |-> Location(salon, q)], [staff |-> p.staff, chair |-> p.chair])
        /\ BothFree(salon, DayAppointments(d), p.staff, p.chair, i)
    BY <1>9, <1>10, <2>1, <2>2
  <2>5. QED
    BY <2>3, <2>4
<1>12. ASSUME NEW x \in Eligible(salon, q, d) \X InService(salon, q, d),
              Fits([location |-> Location(salon, q)], [staff |-> x[1], chair |-> x[2]]),
              BothFree(salon, DayAppointments(d), x[1], x[2], i)
       PROVE  \E p \in CandidatePairs(o) : q.staff \in {Null, p.staff}
  <2> DEFINE p == [staff |-> x[1], chair |-> x[2]]
  <2>1. /\ x[1] \in Eligible(salon, q, d) /\ x[2] \in InService(salon, q, d)
        /\ p.staff = x[1] /\ p.chair = x[2]
    OBVIOUS
  <2>2. p \in Pair /\ q.staff \in {Null, x[1]}
    BY <1>7, <2>1 DEF Pair
  <2>3. x[1] \in FreeStaff(o) /\ x[2] \in FreeChairs(o) /\ Fits(o, p)
    BY <1>9, <1>10, <1>12, <2>1
  <2> HIDE DEF p
  <2>4. p \in CandidatePairs(o)
    BY <2>1, <2>2, <2>3 DEF CandidatePairs
  <2>5. QED
    BY <2>1, <2>2, <2>4
<1>13. QED
  BY <1>11, <1>12 DEF o, i

\* The page shows exactly the starts that a booking made now would get, for any settings
\* and appointments the salon can have and any request (getAvailability and book).
THEOREM AvailabilityIsExactCorrect == AvSpec => []AvailabilityIsExact
<1>1. ASSUME AvInv, NEW q \in Query, NEW d \in BookableDates(salon),
             NEW t \in CandidateStarts(salon, q, d),
             DateInTimeZone(salon, t) \in BookableDates(salon)
      PROVE  t \in GetAvailability(salon, q, d) <=> CanBook(q, t)
  <2> DEFINE r == [q EXCEPT !.start = t, !.hasAddress = TRUE]
             i == Occupied(salon, q, t)
             found == \E p \in {x \in Eligible(salon, q, d) \X InService(salon, q, d) :
                                 Fits([location |-> Location(salon, q)],
                                      [staff |-> x[1], chair |-> x[2]])} :
                        BothFree(salon, DayAppointments(d), p[1], p[2], i)
  <2>1. q \in QueryType
    BY SettingsNumbers, <1>1
  <2>2. /\ r.start = t /\ r.hasAddress = TRUE /\ r.staff = q.staff
        /\ r.duration = q.duration /\ r.location = q.location
    BY <2>1 DEF QueryType
  <2>3. Location(salon, r) = Location(salon, q) /\ Duration(salon, r) = Duration(salon, q)
    BY <2>2 DEF Location, Duration
  <2>4. Serves(salon, r) <=> Serves(salon, q)
    BY <2>3 DEF Serves
  <2>5. Occupied(salon, r, r.start) = i
    BY <2>2, <2>3 DEF Occupied
  <2>6. t \in GetAvailability(salon, q, d) <=> Serves(salon, q) /\ OpenFor(salon, d, i) /\ found
    BY DEF GetAvailability
  <2>7. Accepts(salon, r) <=> Serves(salon, q) /\ OpenFor(salon, DateOf(t), i)
    BY <1>1, <2>2, <2>4, <2>5 DEF Accepts
  <2>8. CASE ~Serves(salon, q)
    BY <2>6, <2>7, <2>8 DEF CanBook
  <2>9. CASE Serves(salon, q)
    <3>1. DateOf(t) = d
      BY <1>1, <2>9, StartIsOfTheDay
    <3>2. (\E p \in CandidatePairs(OfferFor(salon, r)) : q.staff \in {Null, p.staff}) <=> found
      BY <1>1, <2>9, PairsAgree
    <3>3. QED
      BY <2>6, <2>7, <2>9, <3>1, <3>2 DEF CanBook
  <2>10. QED
    BY <2>8, <2>9
<1>2. AvInv => AvailabilityIsExact
  BY <1>1 DEF AvailabilityIsExact
<1>3. QED
  BY <1>2, SettingsInvariant, PTL
=============================================================================
