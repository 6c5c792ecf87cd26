----------------------------- MODULE Reminders ------------------------------
(***************************************************************************)
(* The reminders of confirmed appointments: the passes of the scheduled    *)
(* worker over the appointments that are about to start.                   *)
(*                                                                         *)
(* A pass reads the confirmed appointments that start within the lead time *)
(* and takes them one after the other, in no promised order.  For each one *)
(* it looks in the notification log for an accepted reminder SMS; without  *)
(* one it texts the customer, logs the answer, pushes to the customer's    *)
(* device and texts the salon's staff, logging every answer.  The status   *)
(* of the appointment is not read again.                                   *)
(*                                                                         *)
(* The log is the only memory between passes: a row names the appointment  *)
(* and the channel, and not who was texted.  The provider's "queued" (the  *)
(* message queue took the SMS) counts as accepted, like its "sent".  A     *)
(* pass that fails -- the process dies, or a statement fails -- leaves its *)
(* remaining appointments to the next pass.                                *)
(***************************************************************************)
EXTENDS Naturals, FiniteSets

CONSTANTS
  Appt,         \* appointments
  Start,        \* the time each one starts
  Lead,         \* reminderLeadTimeMinutes
  Customer,     \* the phone of an appointment's customer
  Staff,        \* phones of staff members
  Audience,     \* the staff phones each appointment's reminder goes to
  Device,       \* the appointments whose customer has an enabled device
  Worker,       \* the processes that run the passes
  Null,
  MaxTime,      \* bound: the clock stops here
  MaxRefusals,  \* bound: refusals of one phone's reminder of one appointment
  MaxFaults     \* bound: passes that fail

ASSUME RemindersAssumption ==
  /\ Start \in [Appt -> Nat] /\ Audience \in [Appt -> SUBSET Staff]
  /\ Device \subseteq Appt
  /\ Customer \notin Staff /\ Null \notin Appt \cup Staff \cup {Customer}
  /\ Lead \in Nat /\ MaxTime \in Nat /\ MaxRefusals \in Nat /\ MaxFaults \in Nat

VARIABLES
  now,      \* the clock
  status,   \* the status of each appointment
  log,      \* the rows of the notification log, type reminder
  pass,     \* the pass each worker is in
  texted,   \* history: reminders a phone's provider accepted, per appointment
  refused,  \* history: reminders it refused
  pushed,   \* history: pushes of each appointment
  dropped,  \* history: passes that failed with the appointment in hand
  faults

vars == <<now, status, log, pass, texted, refused, pushed, dropped, faults>>

Phone == Staff \cup {Customer}

\* The provider's answers to an SMS, and how the log calls them.
Answer == {"queued", "sent", "failed"}

LogRow == [appt : Appt, channel : {"sms", "push"}, status : Answer]

\* due: the list the pass has read and not worked on; appt: the appointment in
\* hand; left: the staff not told yet; to: the staff member being told.
Idle == [pc |-> "idle", due |-> {}, appt |-> Null, left |-> {}, to |-> Null, answer |-> Null]

PassState == [ pc : {"idle", "next", "text", "logText", "push", "staff", "logStaff"},
               due : SUBSET Appt, appt : Appt \cup {Null}, left : SUBSET Staff,
               to : Staff \cup {Null}, answer : Answer \cup {Null} ]

\* Type correctness of the reminder state.  An appointment is in hand
\* (remindersInFlight) exactly while one of its reminders is under way.
ReminderTypeOK ==
  /\ now \in 0..MaxTime
  /\ status \in [Appt -> {"pending_approval", "confirmed", "cancelled"}]
  /\ log \subseteq LogRow
  /\ pass \in [Worker -> PassState]
  /\ \A w \in Worker : pass[w].appt = Null <=> pass[w].pc \in {"idle", "next"}
  /\ texted \in [Appt -> [Phone -> Nat]]
  /\ refused \in [Appt -> [Phone -> 0..MaxRefusals]]
  /\ pushed \in [Appt -> Nat]
  /\ dropped \in [Appt -> Nat]
  /\ faults \in 0..MaxFaults

\* The appointment in hand is done with.
NextOf(q) == [q EXCEPT !.pc = "next", !.appt = Null]

NoCount == [a \in Appt |-> [p \in Phone |-> 0]]

Init ==
  /\ now = 0
  /\ status \in [Appt -> {"pending_approval", "confirmed"}]
  /\ log = {}
  /\ pass = [w \in Worker |-> Idle]
  /\ texted = NoCount
  /\ refused = NoCount
  /\ pushed = [a \in Appt |-> 0]
  /\ dropped = [a \in Appt |-> 0]
  /\ faults = 0

InWindow(a) == now <= Start[a] /\ Start[a] < now + Lead

-----------------------------------------------------------------------------
(***************************************************************************)
(* The provider and the log.                                               *)
(***************************************************************************)

\* The provider takes the SMS, or refuses it.
Send(a, p, answer) ==
  \/ /\ answer \in {"queued", "sent"}
     /\ texted' = [texted EXCEPT ![a][p] = @ + 1]
     /\ UNCHANGED refused
  \/ /\ answer = "failed"
     /\ refused[a][p] < MaxRefusals
     /\ refused' = [refused EXCEPT ![a][p] = @ + 1]
     /\ UNCHANGED texted

Row(a, channel, answer) == [appt |-> a, channel |-> channel, status |-> answer]

\* Mutant: an SMS the queue took, and that is not delivered yet, does not count.
HasSentNotification_SentOnly(a) == Row(a, "sms", "sent") \in log

\* hasSentNotification: an accepted reminder SMS of the appointment is logged,
\* whoever it went to.
HasSentNotification(a) ==
  \E answer \in {"queued", "sent"} : Row(a, "sms", answer) \in log

-----------------------------------------------------------------------------
(***************************************************************************)
(* One pass.                                                               *)
(***************************************************************************)

\* The pass reads the confirmed appointments in the reminder window.  A worker
\* starts none while its previous one runs.
PassBegins(w) ==
  /\ pass[w].pc = "idle"
  /\ \E a \in Appt : status[a] = "confirmed" /\ InWindow(a)
  /\ pass' = [pass EXCEPT ![w] = [Idle EXCEPT
       !.pc = "next", !.due = {a \in Appt : status[a] = "confirmed" /\ InWindow(a)}]]
  /\ UNCHANGED <<now, status, log, texted, refused, pushed, dropped, faults>>

\* The appointment is taken in hand.
Remind(w, a) ==
  pass' = [pass EXCEPT ![w].due = @ \ {a}, ![w].pc = "text", ![w].appt = a]

\* Mutant: an appointment that has been reminded ends the pass.
NextReminder_Stops(w) ==
  /\ pass[w].pc = "next"
  /\ \E a \in pass[w].due :
       \/ HasSentNotification(a) /\ pass' = [pass EXCEPT ![w] = Idle]
       \/ ~HasSentNotification(a) /\ Remind(w, a)
  /\ UNCHANGED <<now, status, log, texted, refused, pushed, dropped, faults>>

\* The next appointment of the list is skipped when its reminder is logged.
NextReminder(w) ==
  /\ pass[w].pc = "next"
  /\ \E a \in pass[w].due :
       \/ HasSentNotification(a) /\ pass' = [pass EXCEPT ![w].due = @ \ {a}]
       \/ ~HasSentNotification(a) /\ Remind(w, a)
  /\ UNCHANGED <<now, status, log, texted, refused, pushed, dropped, faults>>

PassEnds(w) ==
  /\ pass[w].pc = "next"
  /\ pass[w].due = {}
  /\ pass' = [pass EXCEPT ![w] = Idle]
  /\ UNCHANGED <<now, status, log, texted, refused, pushed, dropped, faults>>

TextCustomer(w) ==
  /\ pass[w].pc = "text"
  /\ \E answer \in Answer :
       /\ Send(pass[w].appt, Customer, answer)
       /\ pass' = [pass EXCEPT ![w].pc = "logText", ![w].answer = answer]
  /\ UNCHANGED <<now, status, log, pushed, dropped, faults>>

\* Mutant: a customer without a device ends the reminder.
LogText_EarlyReturn(w) ==
  LET a == pass[w].appt
  IN  /\ pass[w].pc = "logText"
      /\ log' = log \cup {Row(a, "sms", pass[w].answer)}
      /\ pass' = [pass EXCEPT ![w] =
           IF a \in Device
           THEN [@ EXCEPT !.pc = "push", !.left = Audience[a], !.answer = Null]
           ELSE NextOf(pass[w])]
      /\ UNCHANGED <<now, status, texted, refused, pushed, dropped, faults>>

\* The answer is logged; the devices of the customer are read.
LogText(w) ==
  LET a == pass[w].appt
  IN  /\ pass[w].pc = "logText"
      /\ log' = log \cup {Row(a, "sms", pass[w].answer)}
      /\ pass' = [pass EXCEPT ![w].pc = IF a \in Device THEN "push" ELSE "staff",
                              ![w].left = Audience[a], ![w].answer = Null]
      /\ UNCHANGED <<now, status, texted, refused, pushed, dropped, faults>>

\* The push goes out, taken or refused, whatever became of the SMS.
Push(w) ==
  LET a == pass[w].appt
  IN  /\ pass[w].pc = "push"
      /\ pushed' = [pushed EXCEPT ![a] = @ + 1]
      /\ \E answer \in {"sent", "failed"} : log' = log \cup {Row(a, "push", answer)}
      /\ pass' = [pass EXCEPT ![w].pc = "staff"]
      /\ UNCHANGED <<now, status, texted, refused, dropped, faults>>

TextStaff(w) ==
  /\ pass[w].pc = "staff"
  /\ \E p \in pass[w].left, answer \in Answer :
       /\ Send(pass[w].appt, p, answer)
       /\ pass' = [pass EXCEPT ![w].pc = "logStaff", ![w].left = @ \ {p},
                               ![w].to = p, ![w].answer = answer]
  /\ UNCHANGED <<now, status, log, pushed, dropped, faults>>

\* A staff notice is logged as a reminder of the appointment too.
LogStaff(w) ==
  /\ pass[w].pc = "logStaff"
  /\ log' = log \cup {Row(pass[w].appt, "sms", pass[w].answer)}
  /\ pass' = [pass EXCEPT ![w].pc = "staff", ![w].to = Null, ![w].answer = Null]
  /\ UNCHANGED <<now, status, texted, refused, pushed, dropped, faults>>

\* Everybody has been texted: on to the next appointment.
StaffDone(w) ==
  /\ pass[w].pc = "staff"
  /\ pass[w].left = {}
  /\ pass' = [pass EXCEPT ![w] = NextOf(@)]
  /\ UNCHANGED <<now, status, log, texted, refused, pushed, dropped, faults>>

\* The process dies, or a statement fails and rejects the pass: what it has in
\* hand is dropped.
PassFails(w) ==
  /\ pass[w].pc # "idle"
  /\ faults < MaxFaults
  /\ pass' = [pass EXCEPT ![w] = Idle]
  /\ dropped' = [a \in Appt |-> IF pass[w].appt = a THEN dropped[a] + 1 ELSE dropped[a]]
  /\ faults' = faults + 1
  /\ UNCHANGED <<now, status, log, texted, refused, pushed>>

-----------------------------------------------------------------------------
(***************************************************************************)
(* What happens to the appointments meanwhile.                             *)
(***************************************************************************)

Approve(a) ==
  /\ status[a] = "pending_approval"
  /\ status' = [status EXCEPT ![a] = "confirmed"]
  /\ UNCHANGED <<now, log, pass, texted, refused, pushed, dropped, faults>>

Cancel(a) ==
  /\ status[a] \in {"pending_approval", "confirmed"}
  /\ status' = [status EXCEPT ![a] = "cancelled"]
  /\ UNCHANGED <<now, log, pass, texted, refused, pushed, dropped, faults>>

Tick ==
  /\ now < MaxTime
  /\ now' = now + 1
  /\ UNCHANGED <<status, log, pass, texted, refused, pushed, dropped, faults>>

\* The steps of a pass that does not fail.
PassStep(w) ==
  \/ PassBegins(w) \/ NextReminder(w) \/ PassEnds(w)
  \/ TextCustomer(w) \/ LogText(w) \/ Push(w)
  \/ TextStaff(w) \/ LogStaff(w) \/ StaffDone(w)

Next ==
  \/ Tick
  \/ \E a \in Appt : Approve(a) \/ Cancel(a)
  \/ \E w \in Worker : PassStep(w) \/ PassFails(w)

Spec == Init /\ [][Next]_vars

\* The worker runs a pass every reminderIntervalMs, and a pass goes on while its
\* process lives.
FairSpec == Spec /\ \A w \in Worker : WF_vars(PassStep(w))

-----------------------------------------------------------------------------
(***************************************************************************)
(* Properties, for one worker: the compose files run exactly one.          *)
(***************************************************************************)

\* Nobody is reminded twice of one appointment unless a pass failed with that very
\* appointment in hand: a phone is texted once, although every minute another pass
\* finds the appointment, and the device gets one push more for each time the
\* customer's SMS was refused.  (The next pass takes a refused one up again;
\* sendReminder itself makes no second attempt, R12.4.)
RepeatsHaveACause ==
  \A a \in Appt :
    /\ \A p \in Phone : texted[a][p] <= 1 + dropped[a]
    /\ pushed[a] <= 1 + dropped[a] + refused[a][Customer]

\* A confirmed appointment in the window is reminded of before it starts: the
\* customer is texted, or the provider refused, or it is not confirmed any more.
VisitIsReminded ==
  \A a \in Appt :
    status[a] = "confirmed" /\ InWindow(a) ~>
      \/ texted[a][Customer] > 0 \/ refused[a][Customer] > 0
      \/ status[a] # "confirmed" \/ ~InWindow(a)

\* A staff member of the audience hears of the reminder the customer got, unless
\* the provider refused that SMS or a pass failed with that very appointment in
\* hand: a pass that fails at another one costs this one nothing.
StaffIsTold ==
  \A a \in Appt : \A p \in Audience[a] :
    texted[a][Customer] > 0 ~>
      texted[a][p] > 0 \/ refused[a][p] > 0 \/ dropped[a] > 0
=============================================================================
