--------------------------- MODULE Reminders_proofs ---------------------------
(***************************************************************************)
(* Machine-checked facts about the reminders, for any appointments, any    *)
(* audience and any lead time; and, for one worker, the bound on repeated  *)
(* reminders.                                                              *)
(***************************************************************************)
EXTENDS Reminders, TLAPS

-----------------------------------------------------------------------------
(***************************************************************************)
(* Type correctness, for any number of workers.  An answer that is logged  *)
(* was given.                                                              *)
(***************************************************************************)
AnswerInv == \A w \in Worker : pass[w].pc \in {"logText", "logStaff"} => pass[w].answer \in Answer

TypeInv == ReminderTypeOK /\ AnswerInv

\* The numbers of the model are natural.
LEMMA Numbers ==
  /\ MaxTime \in Nat /\ MaxRefusals \in Nat /\ MaxFaults \in Nat
  /\ Null \notin Appt /\ Null \notin Staff /\ Customer \in Phone /\ Customer \notin Staff
  /\ Audience \in [Appt -> SUBSET Staff]
  BY RemindersAssumption DEF Phone

\* What the invariant says of the worker that takes a step.
LEMMA WorkerFacts ==
  ASSUME TypeInv, NEW w \in Worker
  PROVE  /\ pass[w] \in PassState
         /\ pass[w].pc \notin {"idle", "next"} => pass[w].appt \in Appt
         /\ pass[w].pc \in {"logText", "logStaff"} => pass[w].answer \in Answer
  BY Numbers DEF TypeInv, ReminderTypeOK, PassState, AnswerInv

\* A pass that goes on as another proper pass is all there is to check of it.
LEMMA PassMoves ==
  ASSUME TypeInv, NEW w \in Worker, NEW q \in PassState, pass' = [pass EXCEPT ![w] = q],
         q.appt = Null <=> q.pc \in {"idle", "next"},
         q.pc \in {"logText", "logStaff"} => q.answer \in Answer
  PROVE  /\ pass' \in [Worker -> PassState]
         /\ \A v \in Worker : pass'[v].appt = Null <=> pass'[v].pc \in {"idle", "next"}
         /\ AnswerInv'
  BY DEF TypeInv, ReminderTypeOK, AnswerInv

\* A pass in hand, as it may go on.
LEMMA PassUpdates ==
  ASSUME NEW q \in PassState
  PROVE  /\ Idle \in PassState /\ Idle.pc = "idle" /\ Idle.appt = Null
         /\ NextOf(q) \in PassState /\ NextOf(q).pc = "next" /\ NextOf(q).appt = Null
         /\ \A due \in SUBSET Appt :
              LET p == [Idle EXCEPT !.pc = "next", !.due = due]
              IN  p \in PassState /\ p.pc = "next" /\ p.appt = Null
         /\ \A due \in SUBSET Appt :
              LET p == [q EXCEPT !.due = due]
              IN  p \in PassState /\ p.pc = q.pc /\ p.appt = q.appt
         /\ \A due \in SUBSET Appt, a \in Appt :
              LET p == [q EXCEPT !.due = due, !.pc = "text", !.appt = a]
              IN  p \in PassState /\ p.pc = "text" /\ p.appt = a
  BY DEF PassState, Idle, NextOf

\* An answer keeps the counters proper.
LEMMA SendTyped ==
  ASSUME ReminderTypeOK, NEW a \in Appt, NEW p \in Phone, NEW answer \in Answer, Send(a, p, answer)
  PROVE  /\ texted' \in [Appt -> [Phone -> Nat]]
         /\ refused' \in [Appt -> [Phone -> 0..MaxRefusals]]
<1>1. texted[a] \in [Phone -> Nat] /\ refused[a] \in [Phone -> 0..MaxRefusals]
  BY DEF ReminderTypeOK
<1>2. [texted[a] EXCEPT ![p] = @ + 1] \in [Phone -> Nat]
  BY <1>1
<1>3. refused[a][p] < MaxRefusals => [refused[a] EXCEPT ![p] = @ + 1] \in [Phone -> 0..MaxRefusals]
  BY <1>1, Numbers
<1>4. /\ texted \in [Appt -> [Phone -> Nat]]
      /\ refused \in [Appt -> [Phone -> 0..MaxRefusals]]
  BY DEF ReminderTypeOK
<1>5. \/ texted' = [texted EXCEPT ![a] = [texted[a] EXCEPT ![p] = @ + 1]] /\ refused' = refused
      \/ /\ refused[a][p] < MaxRefusals
         /\ refused' = [refused EXCEPT ![a] = [refused[a] EXCEPT ![p] = @ + 1]]
         /\ texted' = texted
  BY DEF Send
<1>6. QED
  BY <1>2, <1>3, <1>4, <1>5

\* The initial state is well-typed.
LEMMA TypeInit == Init => TypeInv
  BY Numbers DEF Init, TypeInv, ReminderTypeOK, AnswerInv, NoCount, Idle, PassState

\* Every step of a pass keeps the state well-typed.
LEMMA TypePass ==
  ASSUME TypeInv, NEW w \in Worker, PassStep(w) \/ PassFails(w)
  PROVE  TypeInv'
<1>0. /\ ReminderTypeOK /\ AnswerInv /\ pass[w] \in PassState
      /\ pass[w].pc \notin {"idle", "next"} => pass[w].appt \in Appt
      /\ pass[w].pc \in {"logText", "logStaff"} => pass[w].answer \in Answer
  BY WorkerFacts DEF TypeInv
<1> DEFINE Kept == /\ pass' \in [Worker -> PassState]
                   /\ \A v \in Worker : pass'[v].appt = Null <=> pass'[v].pc \in {"idle", "next"}
                   /\ AnswerInv'
<1>1. CASE PassBegins(w)
  <2> DEFINE due == {a \in Appt : status[a] = "confirmed" /\ InWindow(a)}
             q   == [Idle EXCEPT !.pc = "next", !.due = due]
  <2>1. due \in SUBSET Appt /\ pass' = [pass EXCEPT ![w] = q]
    BY <1>1 DEF PassBegins
  <2>2. q \in PassState /\ q.pc = "next" /\ q.appt = Null
    BY <1>0, <2>1, PassUpdates, Zenon
  <2> HIDE DEF q
  <2>3. Kept
    BY <2>1, <2>2, PassMoves
  <2>4. QED
    BY <1>0, <1>1, <2>3 DEF PassBegins, TypeInv, ReminderTypeOK
<1>2. CASE NextReminder(w)
  <2>1. PICK a \in pass[w].due :
          \/ HasSentNotification(a) /\ pass' = [pass EXCEPT ![w].due = @ \ {a}]
          \/ ~HasSentNotification(a) /\ Remind(w, a)
    BY <1>2 DEF NextReminder
  <2>2. a \in Appt /\ pass[w].due \ {a} \in SUBSET Appt /\ pass[w].pc = "next"
        /\ pass[w].appt = Null
    BY <1>0, <1>2 DEF PassState, NextReminder, ReminderTypeOK
  <2>3. Kept
    <3>1. CASE pass' = [pass EXCEPT ![w].due = @ \ {a}]
      BY <1>0, <2>2, <3>1 DEF AnswerInv, ReminderTypeOK, PassState
    <3>2. CASE Remind(w, a)
      BY <1>0, <2>2, <3>2, Numbers DEF Remind, AnswerInv, ReminderTypeOK, PassState
    <3>3. QED
      BY <2>1, <3>1, <3>2
  <2>4. QED
    BY <1>0, <1>2, <2>3 DEF NextReminder, TypeInv, ReminderTypeOK
<1>3. CASE PassEnds(w) \/ PassFails(w)
  <2>1. Kept
    <3>1. pass' = [pass EXCEPT ![w] = Idle]
      BY <1>3 DEF PassEnds, PassFails
    <3>2. QED
      BY <1>0, <3>1, PassUpdates, PassMoves
  <2>2. faults' \in 0..MaxFaults
    BY <1>0, <1>3, Numbers DEF PassEnds, PassFails, ReminderTypeOK
  <2>3. dropped' \in [Appt -> Nat]
    <3>1. \A a \in Appt : dropped[a] \in Nat /\ dropped[a] + 1 \in Nat
      BY <1>0 DEF ReminderTypeOK
    <3>2. QED
      BY <1>0, <1>3, <3>1 DEF PassEnds, PassFails, ReminderTypeOK
  <2>4. QED
    BY <1>0, <1>3, <2>1, <2>2, <2>3 DEF PassEnds, PassFails, TypeInv, ReminderTypeOK
<1>4. CASE TextCustomer(w)
  <2>1. PICK answer \in Answer :
          /\ Send(pass[w].appt, Customer, answer)
          /\ pass' = [pass EXCEPT ![w].pc = "logText", ![w].answer = answer]
    BY <1>4 DEF TextCustomer
  <2>2. [pass[w] EXCEPT !.pc = "logText", !.answer = answer] \in PassState
    BY <1>0 DEF PassState
  <2>3. pass[w].appt \in Appt /\ pass[w].appt # Null
    BY <1>0, <1>4, Numbers DEF TextCustomer
  <2>4. Kept
    BY <1>0, <2>1, <2>2, <2>3 DEF AnswerInv, ReminderTypeOK, PassState
  <2>5. QED
    BY <1>0, <1>4, <2>1, <2>3, <2>4, SendTyped, Numbers DEF TextCustomer, TypeInv, ReminderTypeOK
<1>5. CASE LogText(w)
  <2>1. pass[w].appt \in Appt /\ pass[w].appt # Null /\ pass[w].answer \in Answer
    BY <1>0, <1>5, Numbers DEF LogText
  <2>2. Audience[pass[w].appt] \in SUBSET Staff
    BY <2>1, Numbers
  <2>3. Kept
    BY <1>0, <1>5, <2>1, <2>2 DEF LogText, AnswerInv, ReminderTypeOK, PassState
  <2>4. log' \subseteq LogRow
    BY <1>0, <1>5, <2>1 DEF LogText, ReminderTypeOK, LogRow, Row
  <2>5. QED
    BY <1>0, <1>5, <2>3, <2>4 DEF LogText, TypeInv, ReminderTypeOK
<1>6. CASE Push(w)
  <2>1. pass[w].appt \in Appt /\ pass[w].appt # Null
    BY <1>0, <1>6, Numbers DEF Push
  <2>2. Kept
    BY <1>0, <1>6, <2>1 DEF Push, AnswerInv, ReminderTypeOK, PassState
  <2>3. log' \subseteq LogRow /\ pushed' \in [Appt -> Nat]
    BY <1>0, <1>6, <2>1 DEF Push, ReminderTypeOK, LogRow, Row, Answer
  <2>4. QED
    BY <1>0, <1>6, <2>2, <2>3 DEF Push, TypeInv, ReminderTypeOK
<1>7. CASE TextStaff(w)
  <2>1. PICK p \in pass[w].left, answer \in Answer :
          /\ Send(pass[w].appt, p, answer)
          /\ pass' = [pass EXCEPT ![w].pc = "logStaff", ![w].left = @ \ {p},
                                  ![w].to = p, ![w].answer = answer]
    BY <1>7 DEF TextStaff
  <2>2. pass[w].appt \in Appt /\ pass[w].appt # Null /\ p \in Staff /\ p \in Phone
    BY <1>0, <1>7, Numbers DEF TextStaff, PassState, Phone
  <2>3. Kept
    <3> DEFINE q == [pass[w] EXCEPT !.pc = "logStaff", !.left = pass[w].left \ {p},
                                    !.to = p, !.answer = answer]
    <3>1. q \in PassState
      BY <1>0, <2>2 DEF PassState
    <3>2. q.pc = "logStaff" /\ q.appt = pass[w].appt /\ q.answer = answer
      BY <1>0 DEF PassState
    <3>3. pass' = [pass EXCEPT ![w] = q]
      BY <2>1
    <3> HIDE DEF q
    <3>4. QED
      BY <2>2, <3>1, <3>2, <3>3, PassMoves
  <2>4. QED
    <3>1. /\ texted' \in [Appt -> [Phone -> Nat]]
          /\ refused' \in [Appt -> [Phone -> 0..MaxRefusals]]
      BY <1>0, <2>1, <2>2, SendTyped
    <3>2. QED
      BY <1>0, <1>7, <2>3, <3>1 DEF TextStaff, TypeInv, ReminderTypeOK
<1>8. CASE LogStaff(w)
  <2>1. pass[w].appt \in Appt /\ pass[w].appt # Null /\ pass[w].answer \in Answer
    BY <1>0, <1>8, Numbers DEF LogStaff
  <2>2. Kept
    BY <1>0, <1>8, <2>1 DEF LogStaff, AnswerInv, ReminderTypeOK, PassState
  <2>3. log' \subseteq LogRow
    BY <1>0, <1>8, <2>1 DEF LogStaff, ReminderTypeOK, LogRow, Row
  <2>4. QED
    BY <1>0, <1>8, <2>2, <2>3 DEF LogStaff, TypeInv, ReminderTypeOK
<1>9. CASE StaffDone(w)
  <2>1. Kept
    BY <1>0, <1>9, PassUpdates, PassMoves DEF StaffDone
  <2>2. QED
    BY <1>0, <1>9, <2>1 DEF StaffDone, TypeInv, ReminderTypeOK
<1>10. QED
  BY <1>1, <1>2, <1>3, <1>4, <1>5, <1>6, <1>7, <1>8, <1>9 DEF PassStep

\* Every step keeps the state well-typed.
LEMMA TypeStep == TypeInv /\ [Next]_vars => TypeInv'
<1> SUFFICES ASSUME TypeInv, [Next]_vars PROVE TypeInv'
  OBVIOUS
<1>1. CASE Tick
  BY <1>1, Numbers DEF Tick, TypeInv, ReminderTypeOK, AnswerInv
<1>2. ASSUME NEW a \in Appt, Approve(a) \/ Cancel(a) PROVE TypeInv'
  BY <1>2 DEF Approve, Cancel, TypeInv, ReminderTypeOK, AnswerInv
<1>3. ASSUME NEW w \in Worker, PassStep(w) \/ PassFails(w) PROVE TypeInv'
  BY <1>3, TypePass
<1>4. CASE UNCHANGED vars
  BY <1>4 DEF vars, TypeInv, ReminderTypeOK, AnswerInv
<1>5. QED
  BY <1>1, <1>2, <1>3, <1>4 DEF Next

\* The appointments, the log and the passes keep their types, and an appointment
\* is in hand exactly while one of its reminders is under way (remindersInFlight).
THEOREM ReminderTypeCorrect == Spec => []ReminderTypeOK
<1>1. Spec => []TypeInv
  BY TypeInit, TypeStep, PTL DEF Spec
<1>2. QED
  BY <1>1, PTL DEF TypeInv

-----------------------------------------------------------------------------
(***************************************************************************)
(* The bound on repeated reminders, for one worker.  What keeps a pass     *)
(* from repeating a reminder is the log, and the log is behind the         *)
(* reminder while the answer to an SMS is on its way into it: an           *)
(* appointment is covered when an accepted SMS is logged or about to be.   *)
(***************************************************************************)
OneWorker == \A v, w \in Worker : v = w

Accepted == {"queued", "sent"}

Answering(w, a) ==
  /\ pass[w].appt = a /\ pass[w].pc \in {"logText", "logStaff"}
  /\ pass[w].answer \in Accepted

Covered(a) == HasSentNotification(a) \/ \E w \in Worker : Answering(w, a)

\* Nobody has been texted about an uncovered appointment more often than passes
\* have failed with it in hand.
CountInv ==
  \A a \in Appt :
    /\ \A p \in Phone : texted[a][p] <= 1 + dropped[a]
    /\ pushed[a] <= 1 + dropped[a] + refused[a][Customer]
    /\ ~Covered(a) => /\ \A p \in Phone : texted[a][p] <= dropped[a]
                      /\ pushed[a] <= dropped[a] + refused[a][Customer]

\* The same holds, in a pass, for the staff members who are still to be texted,
\* and a customer whose SMS this pass has seen refused is owed a push.
HandInv ==
  \A w \in Worker : LET q == pass[w] a == pass[w].appt IN
    q.appt # Null =>
      /\ q.pc \in {"text", "logText"} => ~HasSentNotification(a)
      /\ q.pc = "logText" => \A p \in Staff : texted[a][p] <= dropped[a]
      /\ q.pc \in {"push", "staff", "logStaff"} => \A p \in q.left : texted[a][p] <= dropped[a]
      /\ q.pc \in {"logText", "push"} => pushed[a] <= dropped[a] + refused[a][Customer]
      /\ q.pc = "logText" /\ q.answer = "failed" => pushed[a] < dropped[a] + refused[a][Customer]
      /\ q.pc = "push" /\ ~HasSentNotification(a) => pushed[a] < dropped[a] + refused[a][Customer]

RepeatInv == TypeInv /\ CountInv /\ HandInv

\* The initial state satisfies it.
LEMMA RepeatInit == Init => RepeatInv
<1> SUFFICES ASSUME Init PROVE CountInv /\ HandInv
  BY TypeInit DEF RepeatInv
<1>1. /\ \A a \in Appt : dropped[a] = 0
      /\ \A a \in Appt : pushed[a] = 0 /\ \A p \in Phone : texted[a][p] = 0
      /\ \A a \in Appt : refused[a][Customer] = 0
  BY Numbers DEF Init, NoCount
<1>2. CountInv
  BY <1>1 DEF CountInv
<1>3. HandInv
  BY DEF Init, Idle, HandInv
<1>4. QED
  BY <1>2, <1>3

\* An accepted answer in the log is one the provider gave; a row of another
\* channel or a refusal changes nothing.
LEMMA Logging ==
  ASSUME NEW a \in Appt, NEW answer \in Answer, log' = log \cup {Row(a, "sms", answer)}
  PROVE  /\ \A b \in Appt : HasSentNotification(b) => HasSentNotification(b)'
         /\ \A b \in Appt : HasSentNotification(b)' =>
              HasSentNotification(b) \/ (b = a /\ answer \in Accepted)
         /\ answer \in Accepted => HasSentNotification(a)'
  BY DEF HasSentNotification, Row, Accepted

\* A push in the log is no SMS.
LEMMA PushLogging ==
  ASSUME NEW a \in Appt, NEW answer \in {"sent", "failed"}, log' = log \cup {Row(a, "push", answer)}
  PROVE  \A b \in Appt : HasSentNotification(b)' <=> HasSentNotification(b)
  BY DEF HasSentNotification, Row

\* The numbers that are compared.
LEMMA Counts ==
  ASSUME TypeInv
  PROVE  /\ \A a \in Appt : dropped[a] \in Nat
         /\ \A a \in Appt : pushed[a] \in Nat /\ refused[a][Customer] \in Nat
         /\ \A a \in Appt, p \in Phone : texted[a][p] \in Nat
  BY Numbers DEF TypeInv, ReminderTypeOK

\* What an answer does to the counters.
LEMMA Sending ==
  ASSUME TypeInv, NEW a \in Appt, NEW p \in Phone, NEW answer \in Answer, Send(a, p, answer)
  PROVE  /\ answer \in Accepted <=> answer # "failed"
         /\ answer \in Accepted => texted'[a][p] = texted[a][p] + 1 /\ refused' = refused
         /\ answer = "failed" => refused'[a][p] = refused[a][p] + 1 /\ texted' = texted
         /\ \A b \in Appt, r \in Phone : <<b, r>> # <<a, p>> =>
              texted'[b][r] = texted[b][r] /\ refused'[b][r] = refused[b][r]
<1>1. texted[a] \in [Phone -> Nat] /\ refused[a] \in [Phone -> 0..MaxRefusals]
  BY DEF TypeInv, ReminderTypeOK
<1>2. CASE answer \in Accepted
  <2>1. texted' = [texted EXCEPT ![a][p] = @ + 1] /\ refused' = refused
    BY <1>2 DEF Send, Accepted
  <2>2. QED
    BY <1>1, <1>2, <2>1 DEF Accepted, TypeInv, ReminderTypeOK
<1>3. CASE answer = "failed"
  <2>1. refused' = [refused EXCEPT ![a][p] = @ + 1] /\ texted' = texted
    BY <1>3 DEF Send
  <2>2. QED
    BY <1>1, <1>3, <2>1 DEF Accepted, TypeInv, ReminderTypeOK
<1>4. QED
  BY <1>2, <1>3 DEF Answer, Accepted

\* With one worker, an appointment is covered by the log or by that worker.
LEMMA OneCovers ==
  ASSUME OneWorker, NEW w \in Worker, NEW a \in Appt
  PROVE  /\ Covered(a) <=> HasSentNotification(a) \/ Answering(w, a)
         /\ Covered(a)' <=> HasSentNotification(a)' \/ Answering(w, a)'
  BY DEF OneWorker, Covered

\* Every step of the only worker keeps the bound.
LEMMA RepeatPass ==
  ASSUME OneWorker, RepeatInv, TypeInv', NEW w \in Worker, PassStep(w) \/ PassFails(w)
  PROVE  CountInv' /\ HandInv'
<1> DEFINE a == pass[w].appt
<1>0. /\ TypeInv /\ CountInv /\ HandInv
      /\ \A v \in Worker : v = w
      /\ pass[w] \in PassState /\ pass \in [Worker -> PassState]
      /\ pass[w].pc \notin {"idle", "next"} => a \in Appt /\ a # Null
      /\ pass[w].pc \in {"idle", "next"} => a = Null
      /\ pass[w].pc \in {"logText", "logStaff"} => pass[w].answer \in Answer
  BY WorkerFacts, Numbers DEF RepeatInv, OneWorker, TypeInv, ReminderTypeOK
<1>1. /\ \A b \in Appt : Covered(b) <=> HasSentNotification(b) \/ Answering(w, b)
      /\ \A b \in Appt : Covered(b)' <=> HasSentNotification(b)' \/ Answering(w, b)'
  BY OneCovers
<1>2. /\ \A b \in Appt : dropped[b] \in Nat /\ dropped'[b] \in Nat
      /\ \A b \in Appt : pushed[b] \in Nat /\ refused[b][Customer] \in Nat
      /\ \A b \in Appt, p \in Phone : texted[b][p] \in Nat
      /\ Staff \subseteq Phone
      /\ Customer \in Phone /\ Customer \notin Staff
  BY <1>0, Counts, Numbers DEF RepeatInv, Phone, TypeInv, ReminderTypeOK
<1>3. CASE PassBegins(w) \/ NextReminder(w) \/ PassEnds(w) \/ StaffDone(w)
  <2>1. /\ pass[w].pc \in {"idle", "next", "staff"} /\ pass'[w].pc \in {"idle", "next", "text"}
        /\ UNCHANGED <<log, texted, refused, pushed, dropped>>
        /\ pass'[w].appt # Null =>
             pass'[w].pc = "text" /\ ~HasSentNotification(pass'[w].appt)
    <3>1. CASE PassBegins(w)
      BY <1>0, <3>1 DEF PassBegins, Idle
    <3>2. CASE NextReminder(w)
      BY <1>0, <3>2 DEF NextReminder, Remind, PassState
    <3>3. CASE PassEnds(w)
      BY <1>0, <3>3 DEF PassEnds, Idle
    <3>4. CASE StaffDone(w)
      BY <1>0, <3>4 DEF StaffDone, NextOf, PassState
    <3>5. QED
      BY <1>3, <3>1, <3>2, <3>3, <3>4
  <2>2. \A b \in Appt : HasSentNotification(b)' <=> HasSentNotification(b)
    BY <2>1 DEF HasSentNotification
  <2>3. \A b \in Appt : Covered(b)' <=> Covered(b)
    BY <1>1, <2>1, <2>2 DEF Answering
  <2>4. CountInv'
    BY <1>0, <2>1, <2>3 DEF CountInv
  <2>5. HandInv'
    BY <1>0, <2>1 DEF HandInv, HasSentNotification
  <2>6. QED
    BY <2>4, <2>5
<1>4. CASE PassFails(w)
  <2>1. /\ pass'[w].appt = Null /\ pass'[w].pc = "idle"
        /\ UNCHANGED <<log, texted, refused, pushed>>
        /\ \A b \in Appt : dropped'[b] = IF a = b THEN dropped[b] + 1 ELSE dropped[b]
    BY <1>0, <1>4 DEF PassFails, Idle
  <2>2. \A b \in Appt : a # b => (Covered(b)' <=> Covered(b))
    BY <1>1, <2>1 DEF Answering, HasSentNotification
  <2>3. CountInv'
    <3> SUFFICES ASSUME NEW b \in Appt
                 PROVE  /\ \A p \in Phone : texted[b][p] <= 1 + dropped'[b]
                        /\ pushed[b] <= 1 + dropped'[b] + refused[b][Customer]
                        /\ ~Covered(b)' => /\ \A p \in Phone : texted[b][p] <= dropped'[b]
                                           /\ pushed[b] <= dropped'[b] + refused[b][Customer]
      BY <2>1 DEF CountInv
    <3>1. CASE a = b
      <4>1. dropped'[b] = dropped[b] + 1
        BY <2>1, <3>1
      <4>2. QED
        BY <1>0, <1>2, <4>1 DEF CountInv
    <3>2. CASE a # b
      BY <1>0, <2>1, <2>2, <3>2 DEF CountInv
    <3>3. QED
      BY <3>1, <3>2
  <2>4. HandInv'
    BY <1>0, <2>1 DEF HandInv
  <2>5. QED
    BY <2>3, <2>4
<1>5. CASE TextCustomer(w)
  <2>1. PICK answer \in Answer :
          /\ Send(a, Customer, answer)
          /\ pass' = [pass EXCEPT ![w].pc = "logText", ![w].answer = answer]
    BY <1>5 DEF TextCustomer
  <2>2. /\ pass[w].pc = "text" /\ a \in Appt /\ a # Null
        /\ pass'[w].pc = "logText" /\ pass'[w].answer = answer /\ pass'[w].appt = a
        /\ UNCHANGED <<log, pushed, dropped>>
    BY <1>0, <1>5, <2>1 DEF TextCustomer, PassState
  <2>3. \A b \in Appt : HasSentNotification(b)' <=> HasSentNotification(b)
    BY <2>2 DEF HasSentNotification
  <2>4. ~HasSentNotification(a) /\ ~Covered(a)
    BY <1>0, <1>1, <2>2 DEF HandInv, Answering
  <2>5. /\ \A p \in Phone : texted[a][p] <= dropped[a]
        /\ pushed[a] <= dropped[a] + refused[a][Customer]
    BY <1>0, <2>2, <2>4 DEF CountInv
  <2>6. /\ answer \in Accepted <=> answer # "failed"
        /\ answer \in Accepted => texted'[a][Customer] = texted[a][Customer] + 1 /\ refused' = refused
        /\ answer = "failed" =>
             refused'[a][Customer] = refused[a][Customer] + 1 /\ texted' = texted
        /\ \A b \in Appt, r \in Phone : <<b, r>> # <<a, Customer>> =>
             texted'[b][r] = texted[b][r] /\ refused'[b][r] = refused[b][r]
    BY <1>0, <1>2, <2>1, <2>2, Sending
  <2>7. \A b \in Appt : Covered(b)' <=> Covered(b) \/ (b = a /\ answer \in Accepted)
    BY <1>1, <2>2, <2>3 DEF Answering
  <2>8. CountInv'
    <3> SUFFICES ASSUME NEW b \in Appt
                 PROVE  /\ \A p \in Phone : texted'[b][p] <= 1 + dropped[b]
                        /\ pushed[b] <= 1 + dropped[b] + refused'[b][Customer]
                        /\ ~Covered(b)' => /\ \A p \in Phone : texted'[b][p] <= dropped[b]
                                           /\ pushed[b] <= dropped[b] + refused'[b][Customer]
      BY <2>2 DEF CountInv
    <3>1. CASE b # a
      BY <1>0, <1>2, <2>2, <2>6, <2>7, <3>1 DEF CountInv
    <3>2. CASE b = a /\ answer \in Accepted
      BY <1>2, <2>2, <2>5, <2>6, <2>7, <3>2
    <3>3. CASE b = a /\ answer = "failed"
      BY <1>2, <2>2, <2>5, <2>6, <3>3
    <3>4. QED
      BY <2>6, <3>1, <3>2, <3>3
  <2>9. HandInv'
    BY <1>0, <1>2, <2>2, <2>3, <2>4, <2>5, <2>6 DEF HandInv
  <2>10. QED
    BY <2>8, <2>9
<1>6. CASE LogText(w)
  <2>1. /\ pass[w].pc = "logText" /\ a \in Appt /\ a # Null /\ pass[w].answer \in Answer
        /\ log' = log \cup {Row(a, "sms", pass[w].answer)}
        /\ pass'[w].pc \in {"push", "staff"} /\ pass'[w].appt = a
        /\ pass'[w].left = Audience[a] /\ pass'[w].left \subseteq Staff
        /\ UNCHANGED <<texted, refused, pushed, dropped>>
    BY <1>0, <1>6, Numbers DEF LogText, PassState
  <2>2. /\ \A b \in Appt : HasSentNotification(b) => HasSentNotification(b)'
        /\ \A b \in Appt : HasSentNotification(b)' =>
             HasSentNotification(b) \/ (b = a /\ pass[w].answer \in Accepted)
        /\ pass[w].answer \in Accepted => HasSentNotification(a)'
    BY <2>1, Logging
  <2>3. \A b \in Appt : Covered(b) => Covered(b)'
    BY <1>1, <2>1, <2>2 DEF Answering
  <2>4. CountInv'
    BY <1>0, <2>1, <2>3 DEF CountInv
  <2>5. ~HasSentNotification(a)' => pass[w].answer = "failed"
    BY <2>1, <2>2 DEF Answer, Accepted
  <2>6. /\ \A p \in pass'[w].left : texted[a][p] <= dropped[a]
        /\ pushed[a] <= dropped[a] + refused[a][Customer]
        /\ pass[w].answer = "failed" => pushed[a] < dropped[a] + refused[a][Customer]
    BY <1>0, <2>1 DEF HandInv
  <2>7. HandInv'
    BY <1>0, <2>1, <2>5, <2>6 DEF HandInv
  <2>8. QED
    BY <2>4, <2>7
<1>7. CASE Push(w)
  <2>1. PICK answer \in {"sent", "failed"} : log' = log \cup {Row(a, "push", answer)}
    BY <1>7 DEF Push
  <2>2. /\ pass[w].pc = "push" /\ a \in Appt /\ a # Null
        /\ pass'[w].pc = "staff" /\ pass'[w].appt = a /\ pass'[w].left = pass[w].left
        /\ pushed' = [pushed EXCEPT ![a] = @ + 1]
        /\ UNCHANGED <<texted, refused, dropped>>
    BY <1>0, <1>7 DEF Push, PassState
  <2>3. \A b \in Appt : HasSentNotification(b)' <=> HasSentNotification(b)
    BY <2>1, <2>2, PushLogging
  <2>4. \A b \in Appt : Covered(b)' <=> HasSentNotification(b)
    BY <1>1, <2>2, <2>3 DEF Answering
  <2>5. \A b \in Appt : Covered(b) <=> HasSentNotification(b)
    BY <1>1, <2>2 DEF Answering
  <2>6. /\ pushed'[a] = pushed[a] + 1 /\ \A b \in Appt \ {a} : pushed'[b] = pushed[b]
    BY <1>0, <2>2 DEF TypeInv, ReminderTypeOK
  <2>7. /\ pushed[a] <= dropped[a] + refused[a][Customer]
        /\ ~HasSentNotification(a) => pushed[a] < dropped[a] + refused[a][Customer]
        /\ \A p \in pass[w].left : texted[a][p] <= dropped[a]
    BY <1>0, <2>2 DEF HandInv
  <2>8. CountInv'
    BY <1>0, <1>2, <2>2, <2>4, <2>5, <2>6, <2>7 DEF CountInv
  <2>9. HandInv'
    BY <1>0, <2>2, <2>7 DEF HandInv
  <2>10. QED
    BY <2>8, <2>9
<1>8. CASE TextStaff(w)
  <2>1. PICK s \in pass[w].left, answer \in Answer :
          /\ Send(a, s, answer)
          /\ pass' = [pass EXCEPT ![w].pc = "logStaff", ![w].left = @ \ {s},
                                  ![w].to = s, ![w].answer = answer]
    BY <1>8 DEF TextStaff
  <2>2. /\ pass[w].pc = "staff" /\ a \in Appt /\ a # Null /\ s \in Staff /\ s \in Phone
        /\ pass'[w].pc = "logStaff" /\ pass'[w].answer = answer /\ pass'[w].appt = a
        /\ pass'[w].left = pass[w].left \ {s} /\ pass[w].left \subseteq Staff
        /\ UNCHANGED <<log, pushed, dropped>>
    BY <1>0, <1>2, <1>8, <2>1 DEF TextStaff, PassState
  <2>3. \A b \in Appt : HasSentNotification(b)' <=> HasSentNotification(b)
    BY <2>2 DEF HasSentNotification
  <2>4. \A p \in pass[w].left : texted[a][p] <= dropped[a]
    BY <1>0, <2>2 DEF HandInv
  <2>5. /\ answer \in Accepted => texted'[a][s] = texted[a][s] + 1 /\ refused' = refused
        /\ answer \notin Accepted => texted' = texted
        /\ \A b \in Appt, r \in Phone : <<b, r>> # <<a, s>> => texted'[b][r] = texted[b][r]
        /\ \A b \in Appt : refused'[b][Customer] = refused[b][Customer]
    <3>1. s # Customer
      BY <1>2, <2>2
    <3>2. /\ answer \in Accepted <=> answer # "failed"
          /\ answer \in Accepted => texted'[a][s] = texted[a][s] + 1 /\ refused' = refused
          /\ answer = "failed" => texted' = texted
          /\ \A b \in Appt, r \in Phone : <<b, r>> # <<a, s>> =>
               texted'[b][r] = texted[b][r] /\ refused'[b][r] = refused[b][r]
      BY <1>0, <2>1, <2>2, Sending
    <3>3. \A b \in Appt : <<b, Customer>> # <<a, s>>
      BY <3>1
    <3>4. QED
      BY <1>2, <3>2, <3>3
  <2>6. \A b \in Appt : Covered(b)' <=> Covered(b) \/ (b = a /\ answer \in Accepted)
    BY <1>1, <2>2, <2>3 DEF Answering
  <2>7. CountInv'
    <3> SUFFICES ASSUME NEW b \in Appt
                 PROVE  /\ \A p \in Phone : texted'[b][p] <= 1 + dropped[b]
                        /\ pushed[b] <= 1 + dropped[b] + refused'[b][Customer]
                        /\ ~Covered(b)' => /\ \A p \in Phone : texted'[b][p] <= dropped[b]
                                           /\ pushed[b] <= dropped[b] + refused'[b][Customer]
      BY <2>2 DEF CountInv
    <3>1. CASE b # a \/ answer \notin Accepted
      BY <1>0, <1>2, <2>2, <2>5, <2>6, <3>1 DEF CountInv
    <3>2. CASE b = a /\ answer \in Accepted
      BY <1>0, <1>2, <2>2, <2>4, <2>5, <2>6, <3>2 DEF CountInv
    <3>3. QED
      BY <3>1, <3>2
  <2>8. \A p \in pass'[w].left : texted'[a][p] <= dropped[a]
    BY <1>2, <2>2, <2>4, <2>5
  <2>9. HandInv'
    BY <1>0, <2>2, <2>8 DEF HandInv
  <2>10. QED
    BY <2>7, <2>9
<1>9. CASE LogStaff(w)
  <2>1. /\ pass[w].pc = "logStaff" /\ a \in Appt /\ a # Null /\ pass[w].answer \in Answer
        /\ log' = log \cup {Row(a, "sms", pass[w].answer)}
        /\ pass'[w].pc = "staff" /\ pass'[w].appt = a /\ pass'[w].left = pass[w].left
        /\ UNCHANGED <<texted, refused, pushed, dropped>>
    BY <1>0, <1>9 DEF LogStaff, PassState
  <2>2. /\ \A b \in Appt : HasSentNotification(b) => HasSentNotification(b)'
        /\ pass[w].answer \in Accepted => HasSentNotification(a)'
    BY <2>1, Logging
  <2>3. \A b \in Appt : Covered(b) => Covered(b)'
    BY <1>1, <2>1, <2>2 DEF Answering
  <2>4. CountInv'
    BY <1>0, <2>1, <2>3 DEF CountInv
  <2>5. \A p \in pass[w].left : texted[a][p] <= dropped[a]
    BY <1>0, <2>1 DEF HandInv
  <2>6. HandInv'
    BY <1>0, <2>1, <2>5 DEF HandInv
  <2>7. QED
    BY <2>4, <2>6
<1>10. QED
  BY <1>3, <1>4, <1>5, <1>6, <1>7, <1>8, <1>9 DEF PassStep

\* With one worker every step keeps the bound.
LEMMA RepeatStep ==
  ASSUME OneWorker, RepeatInv, [Next]_vars
  PROVE  RepeatInv'
<1>0. TypeInv' /\ CountInv /\ HandInv
  BY TypeStep DEF RepeatInv
<1> SUFFICES CountInv' /\ HandInv'
  BY <1>0 DEF RepeatInv
<1>1. CASE Tick \/ (\E a \in Appt : Approve(a) \/ Cancel(a)) \/ UNCHANGED vars
  <2>1. UNCHANGED <<log, pass, texted, refused, pushed, dropped>>
    BY <1>1 DEF Tick, Approve, Cancel, vars
  <2>2. \A a \in Appt : Covered(a)' <=> Covered(a)
    BY <2>1 DEF Covered, Answering, HasSentNotification
  <2>3. CountInv'
    BY <1>0, <2>1, <2>2 DEF CountInv
  <2>4. HandInv'
    BY <1>0, <2>1 DEF HandInv, HasSentNotification
  <2>5. QED
    BY <2>3, <2>4
<1>2. ASSUME NEW w \in Worker, PassStep(w) \/ PassFails(w) PROVE CountInv' /\ HandInv'
  BY <1>0, <1>2, RepeatPass
<1>3. QED
  BY <1>1, <1>2 DEF Next

\* One worker reminds nobody twice of one appointment unless a pass failed with it
\* in hand, and pushes once more only for an SMS that was refused (sendReminder).
THEOREM NobodyIsRemindedTwice ==
  ASSUME OneWorker
  PROVE  Spec => []RepeatsHaveACause
<1>1. RepeatInv => RepeatsHaveACause
  BY DEF RepeatInv, CountInv, RepeatsHaveACause
<1>2. RepeatInv /\ [Next]_vars => RepeatInv'
  BY RepeatStep
<1>3. QED
  BY RepeatInit, <1>1, <1>2, PTL DEF Spec
=============================================================================
