------------------------------ MODULE SmsQueue ------------------------------
(***************************************************************************)
(* Reliable SMS delivery over RabbitMQ: the providers that put a message on *)
(* the work queue (or send it directly when the broker is away), the worker *)
(* that takes one message at a time, the retry queue whose time-to-live     *)
(* returns a message to the work queue, the dead-letter queue, and the      *)
(* delivery records that tell the operators what became of a message.      *)
(*                                                                         *)
(* A copy is one message on a queue: a job to send, or a job that asks the  *)
(* provider for the carrier's report on what was sent.  A handler is one    *)
(* run of handleSmsMessage.  It holds a copy that the broker gives back to  *)
(* the queue when the handler's channel is lost, and it may then run on as  *)
(* an orphan while another handler has the same copy.                       *)
(***************************************************************************)
EXTENDS Integers, Sequences, FiniteSets

CONSTANTS
  Sms,              \* the messages somebody asks to be sent
  Handler,          \* runs of handleSmsMessage that may be active together
  Consumers,        \* worker processes; each is given one copy at a time
  Kinds,            \* what a message may be (see KindType)
  Setups,           \* how a worker may be configured (see SetupType)
  MaxAttempts,      \* attempts before a message is dead-lettered
  MaxStatusChecks,  \* delivery reports asked for after the first
  OtpWindow,        \* how long a one-time code is valid
  Null,
  MaxTime,          \* bound: the clock stops here
  MaxOutages,       \* bound on statements the database refuses
  MaxFaults         \* bound on deaths, lost channels and lost answers

\* A shared template or a text; a code with a deadline or a plain message.
KindType == [template : BOOLEAN, expires : BOOLEAN]

\* The worker's provider has delivery reports; it has a template provider.
SetupType == [reports : BOOLEAN, templates : BOOLEAN]

ASSUME SmsAssumption ==
  /\ Kinds \subseteq KindType
  /\ Setups \subseteq SetupType
  /\ IsFiniteSet(Handler) /\ Consumers \in Nat
  /\ MaxAttempts \in Nat \ {0}
  /\ MaxStatusChecks \in Nat
  /\ OtpWindow \in Nat
  /\ MaxTime \in Nat /\ MaxOutages \in Nat /\ MaxFaults \in Nat
  /\ Null \notin Nat /\ Null \notin Kinds

VARIABLES
  now,       \* the clock
  request,   \* the callers of QueueingSmsProvider.send and sendTemplate
  work,      \* the queue sms.send
  retry,     \* the queue sms.retry
  dead,      \* the messages on sms.dead
  handler,   \* the runs of handleSmsMessage
  status,    \* SmsDelivery.status of each message
  sends,     \* calls of the provider's send, per message
  report,    \* per accepted send, the last report on it to a run that has its copy
  outages,   \* statements the database has refused
  faults     \* deaths, lost channels and lost answers

vars == <<now, request, work, retry, dead, handler, status, sends, report, outages, faults>>
queues == <<work, retry, dead>>

\* verify is 0 for a job to send, n for a job on the n-th accepted send.
Copy == [sms : Sms, attempts : Nat, verify : Nat, checks : Nat]

NewCopy(m) == [sms |-> m, attempts |-> 0, verify |-> 0, checks |-> 0]

Status == {"queued", "sending", "retrying", "accepted", "delivered", "failed"}

NoRequest == [at |-> "idle", kind |-> Null, expiresAt |-> Null, tracked |-> FALSE, ok |-> FALSE]
NoJob == [at |-> "idle", copy |-> Null, owns |-> FALSE, reports |-> FALSE,
          note |-> Null, then |-> Null]

RequestType == [ at : {"idle", "publish", "direct", "log", "done", "died"},
                 kind : Kinds \cup {Null}, expiresAt : Nat \cup {Null},
                 tracked : BOOLEAN, ok : BOOLEAN ]

JobType == [ at : {"idle", "mark", "send", "verify", "giveUp", "park", "report", "note", "finish"},
             copy : Copy \cup {Null}, owns : BOOLEAN, reports : BOOLEAN,
             note : Status \cup {Null}, then : {"ack", "ackSent", "dead", Null} ]

Answer == {"pending", "unknown", "delivered", "failed"}

\* The copies that may exist: one that asks for a report names an accepted send.
Known == {c \in Copy : c.verify <= Len(report[c.sms])}

\* Type correctness of the queue, its users and its records.
SmsTypeOK ==
  /\ now \in 0..MaxTime
  /\ request \in [Sms -> RequestType]
  /\ work \in Seq(Known) /\ retry \in Seq(Known) /\ dead \subseteq Sms
  /\ handler \in [Handler -> JobType]
  /\ \A h \in Handler :
       IF handler[h].at = "idle" THEN ~handler[h].owns
       ELSE /\ handler[h].copy \in Known
            /\ handler[h].at = "report" => handler[h].copy.verify # 0
  /\ status \in [Sms -> Status \cup {Null}]
  /\ sends \in [Sms -> Nat]
  /\ report \in [Sms -> Seq(Answer)]
  /\ outages \in 0..MaxOutages /\ faults \in 0..MaxFaults

SmsInit ==
  /\ now = 0
  /\ request = [m \in Sms |-> NoRequest]
  /\ work = <<>> /\ retry = <<>> /\ dead = {}
  /\ handler = [h \in Handler |-> NoJob]
  /\ status = [m \in Sms |-> Null]
  /\ sends = [m \in Sms |-> 0]
  /\ report = [m \in Sms |-> <<>>]
  /\ outages = 0 /\ faults = 0

Fault == faults < MaxFaults /\ faults' = faults + 1

\* A statement on the delivery record: it sets the status, or the database
\* refuses it.  Without a record there is nothing to write.
Recorded(m, s) ==
  /\ status' = IF request[m].tracked THEN [status EXCEPT ![m] = s] ELSE status
  /\ UNCHANGED outages
Refused(m) ==
  /\ request[m].tracked
  /\ outages < MaxOutages
  /\ outages' = outages + 1
  /\ UNCHANGED status
Record(m, s) == Recorded(m, s) \/ Refused(m)

\* The provider's answer to a send; a lost answer reads as a failure although
\* the message went out.
Accepts(m) == report' = [report EXCEPT ![m] = Append(@, "pending")] /\ UNCHANGED faults
Declines   == UNCHANGED <<report, faults>>
AnswerLost(m) == report' = [report EXCEPT ![m] = Append(@, "pending")] /\ Fault

-----------------------------------------------------------------------------
(***************************************************************************)
(* Sending: a record, then the queue, then (only when the broker has not    *)
(* confirmed) the provider itself.                                          *)
(***************************************************************************)
Move(m, at) == request' = [request EXCEPT ![m].at = at]

\* The delivery record is created, or the message goes on untracked.
CreateRecord(m) ==
  /\ request[m].at = "idle"
  /\ \E k \in Kinds, tracked \in BOOLEAN :
       /\ request' = [request EXCEPT ![m] =
            [at |-> "publish", kind |-> k,
             expiresAt |-> IF k.expires THEN now + OtpWindow ELSE Null,
             tracked |-> tracked, ok |-> FALSE]]
       /\ IF tracked THEN status' = [status EXCEPT ![m] = "queued"] /\ UNCHANGED outages
                     ELSE outages < MaxOutages /\ outages' = outages + 1 /\ UNCHANGED status
  /\ UNCHANGED <<now, queues, handler, sends, report, faults>>

\* The broker confirms the message.
PublishConfirmed(m) ==
  /\ request[m].at = "publish"
  /\ work' = Append(work, NewCopy(m))
  /\ request' = [request EXCEPT ![m].at = "done", ![m].ok = TRUE]
  /\ UNCHANGED <<now, retry, dead, handler, status, sends, report, outages, faults>>

\* The broker cannot be reached.
PublishFailed(m) ==
  /\ request[m].at = "publish"
  /\ Move(m, "direct")
  /\ UNCHANGED <<now, queues, handler, status, sends, report, outages, faults>>

\* The broker has stored the message, but its confirmation is lost.
PublishUnconfirmed(m) ==
  /\ request[m].at = "publish"
  /\ Fault
  /\ work' = Append(work, NewCopy(m))
  /\ Move(m, "direct")
  /\ UNCHANGED <<now, retry, dead, handler, status, sends, report, outages>>

DirectSend(m) ==
  /\ request[m].at = "direct"
  /\ sends' = [sends EXCEPT ![m] = @ + 1]
  /\ \/ Accepts(m) /\ request' = [request EXCEPT ![m].at = "log", ![m].ok = TRUE]
     \/ (Declines \/ AnswerLost(m)) /\ Move(m, "log")
  /\ UNCHANGED <<now, queues, handler, status, outages>>

\* Mutant: the result of a direct send is not recorded.
LogDirect_Forgotten(m) ==
  /\ request[m].at = "log"
  /\ Move(m, "done")
  /\ UNCHANGED <<now, queues, handler, status, sends, report, outages, faults>>

LogDirect(m) ==
  /\ request[m].at = "log"
  /\ Record(m, IF request[m].ok THEN "accepted" ELSE "failed")
  /\ Move(m, "done")
  /\ UNCHANGED <<now, queues, handler, sends, report, faults>>

RequestDies(m) ==
  /\ request[m].at \in {"publish", "direct", "log"}
  /\ Fault
  /\ Move(m, "died")
  /\ UNCHANGED <<now, queues, handler, status, sends, report, outages>>

-----------------------------------------------------------------------------
(***************************************************************************)
(* The worker.  Every action below is one statement of handleSmsMessage.    *)
(***************************************************************************)
Job(h) == handler[h]
SmsOf(h) == handler[h].copy.sms
attemptNo(h) == handler[h].copy.attempts + 1

Go(h, at) == handler' = [handler EXCEPT ![h].at = at]

\* The status is recorded if it can be, and then the copy is done with.
NoteThen(h, s, then) ==
  handler' = [handler EXCEPT ![h].at = "note", ![h].note = s, ![h].then = then]
End(h) == handler' = [handler EXCEPT ![h] = NoJob]

Stale(m) == request[m].expiresAt # Null /\ now >= request[m].expiresAt

\* Where a run begins: with the first of the checks that applies to its copy.
Begin(c, setup) ==
  LET m == c.sms
      run == [NoJob EXCEPT !.copy = c, !.owns = TRUE, !.reports = setup.reports]
      noting(s, then) == [run EXCEPT !.at = "note", !.note = s, !.then = then]
  IN  CASE c.verify # 0 /\ ~setup.reports                   -> noting("accepted", "ack")
        [] request[m].kind.template /\ ~setup.templates     -> noting("failed", "dead")
        [] c.verify = 0 /\ Stale(m)                         -> noting("failed", "ack")
        [] c.verify # 0 /\ setup.reports                    -> [run EXCEPT !.at = "report"]
        [] OTHER                                            -> [run EXCEPT !.at = "mark"]

\* The broker delivers the first copy of the work queue to a consumer that has
\* none (prefetch 1).  A worker without
\* reports learns nothing of the send that a verification job asks about.
Take(h) ==
  /\ Job(h).at = "idle"
  /\ Cardinality({g \in Handler : Job(g).owns}) < Consumers
  /\ work # <<>>
  /\ \E setup \in Setups :
       /\ handler' = [handler EXCEPT ![h] = Begin(Head(work), setup)]
       /\ report' = IF Head(work).verify # 0 /\ ~setup.reports
                    THEN [report EXCEPT ![Head(work).sms][Head(work).verify] = "unknown"]
                    ELSE report
  /\ work' = Tail(work)
  /\ UNCHANGED <<now, request, retry, dead, status, sends, outages, faults>>

\* After a failed attempt: the message is given up, or parked for another one.
AttemptFails(h) == Go(h, IF attemptNo(h) >= MaxAttempts THEN "giveUp" ELSE "park")

\* The attempt is on record before the message is sent; without the record
\* nothing is sent, and the attempt counts.
MarkSending(h) ==
  /\ Job(h).at = "mark"
  /\ \/ Recorded(SmsOf(h), "sending") /\ Go(h, "send")
     \/ Refused(SmsOf(h)) /\ AttemptFails(h)
  /\ UNCHANGED <<now, request, queues, sends, report, faults>>

Send(h) ==
  /\ Job(h).at = "send"
  /\ sends' = [sends EXCEPT ![SmsOf(h)] = @ + 1]
  /\ \/ /\ Accepts(SmsOf(h))
        /\ IF Job(h).reports /\ ~request[SmsOf(h)].kind.template
           THEN Go(h, "verify") ELSE NoteThen(h, "accepted", "ackSent")
     \/ (Declines \/ AnswerLost(SmsOf(h))) /\ AttemptFails(h)
  /\ UNCHANGED <<now, request, queues, status, outages>>

Park(c) == retry' = Append(retry, c)
Requeue(h) == work' = IF Job(h).owns THEN <<Job(h).copy>> \o work ELSE work

\* Mutant: the job that asks for the report is a job to send.
ScheduleVerification_Resends(h) ==
  /\ Job(h).at = "verify"
  /\ IF Job(h).owns THEN Park([Job(h).copy EXCEPT !.attempts = attemptNo(h)])
                    ELSE UNCHANGED retry
  /\ NoteThen(h, "accepted", "ackSent")
  /\ UNCHANGED <<now, request, work, dead, status, sends, report, outages, faults>>

\* A job that will ask for the carrier's report.  On a lost channel it is not
\* scheduled, and the message stays accepted.
ScheduleVerification(h) ==
  /\ Job(h).at = "verify"
  /\ IF Job(h).owns THEN Park([Job(h).copy EXCEPT !.attempts = attemptNo(h), !.checks = 0,
                                 !.verify = Len(report[SmsOf(h)])])
                    ELSE UNCHANGED retry
  /\ NoteThen(h, "accepted", "ackSent")
  /\ UNCHANGED <<now, request, work, dead, status, sends, report, outages, faults>>

\* The failure is recorded before the message is dead-lettered; if it cannot be,
\* the copy goes back to the work queue.
GiveUp(h) ==
  /\ Job(h).at = "giveUp"
  /\ \/ /\ Recorded(SmsOf(h), "failed")
        /\ handler' = [handler EXCEPT ![h].at = "finish", ![h].then = "dead"]
        /\ UNCHANGED work
     \/ Refused(SmsOf(h)) /\ Requeue(h) /\ End(h)
  /\ UNCHANGED <<now, request, retry, dead, sends, report, faults>>

\* Mutant: the attempt just made is not counted.
ParkForRetry_Uncounted(h) ==
  /\ Job(h).at = "park"
  /\ IF Job(h).owns THEN Park(Job(h).copy) /\ NoteThen(h, "retrying", "ack")
                    ELSE End(h) /\ UNCHANGED retry
  /\ UNCHANGED <<now, request, work, dead, status, sends, report, outages, faults>>

\* Mutant: the copy is dropped instead of parked.
ParkForRetry_Dropped(h) ==
  /\ Job(h).at = "park"
  /\ IF Job(h).owns THEN NoteThen(h, "retrying", "ack") ELSE End(h)
  /\ UNCHANGED <<now, request, queues, status, sends, report, outages, faults>>

\* The copy waits on the retry queue with the attempt counted.  On a lost
\* channel nothing can be parked: the broker has given the copy back.
ParkForRetry(h) ==
  /\ Job(h).at = "park"
  /\ IF Job(h).owns THEN /\ Park([Job(h).copy EXCEPT !.attempts = attemptNo(h)])
                         /\ NoteThen(h, "retrying", "ack")
                    ELSE End(h) /\ UNCHANGED retry
  /\ UNCHANGED <<now, request, work, dead, status, sends, report, outages, faults>>

\* Mutant: the check just made is not counted.
NextCheck_Uncounted(c) == c

\* The job that asks for the report once more.
NextCheck(c) == [c EXCEPT !.checks = @ + 1]

\* The provider is asked what became of an accepted send.  A reported failure is
\* sent again within the same budget of attempts; no final answer is asked for
\* again, a bounded number of times.
CheckReport(h) ==
  LET c == Job(h).copy
      m == c.sms
      Reschedule(copy, s) ==
        IF Job(h).owns THEN Park(copy) /\ NoteThen(h, s, "ack") ELSE End(h) /\ UNCHANGED retry
  IN  /\ Job(h).at = "report"
      /\ \E r \in Answer :
           /\ report' = IF Job(h).owns THEN [report EXCEPT ![m][c.verify] = r] ELSE report
           /\ CASE r = "delivered" ->
                     NoteThen(h, "delivered", "ack") /\ UNCHANGED retry
                [] r = "failed" /\ (c.attempts >= MaxAttempts \/ Stale(m)) ->
                     NoteThen(h, "failed", "dead") /\ UNCHANGED retry
                [] r = "failed" /\ c.attempts < MaxAttempts /\ ~Stale(m) ->
                     Reschedule([c EXCEPT !.verify = 0, !.checks = 0], "retrying")
                [] r \in {"pending", "unknown"} /\ c.checks >= MaxStatusChecks ->
                     NoteThen(h, "accepted", "ack") /\ UNCHANGED retry
                [] OTHER ->
                     Reschedule(NextCheck(c), "accepted")
      /\ UNCHANGED <<now, request, work, dead, status, sends, outages, faults>>

\* A record that cannot be written changes nothing else.
Note(h) ==
  /\ Job(h).at = "note"
  /\ Record(SmsOf(h), Job(h).note)
  /\ Go(h, "finish")
  /\ UNCHANGED <<now, request, queues, sends, report, faults>>

\* The copy is acknowledged, or rejected and so dead-lettered.
Finish(h) ==
  /\ Job(h).at = "finish" /\ Job(h).owns
  /\ dead' = IF Job(h).then = "dead" THEN dead \cup {SmsOf(h)} ELSE dead
  /\ End(h)
  /\ UNCHANGED <<now, request, work, retry, status, sends, report, outages, faults>>

\* On a lost channel the acknowledgement throws.  After an accepted send it
\* throws inside the attempt, which counts as failed.
FinishOrphan(h) ==
  /\ Job(h).at = "finish" /\ ~Job(h).owns
  /\ IF Job(h).then = "ackSent" /\ attemptNo(h) >= MaxAttempts THEN Go(h, "giveUp") ELSE End(h)
  /\ UNCHANGED <<now, request, queues, status, sends, report, outages, faults>>

-----------------------------------------------------------------------------
(***************************************************************************)
(* The broker and the environment.                                          *)
(***************************************************************************)
\* A copy has been on the retry queue for its time-to-live.
RetryExpires ==
  /\ retry # <<>>
  /\ work' = Append(work, Head(retry))
  /\ retry' = Tail(retry)
  /\ UNCHANGED <<now, request, dead, handler, status, sends, report, outages, faults>>

WorkerDies(h) ==
  /\ Job(h).at # "idle"
  /\ Fault
  /\ Requeue(h)
  /\ End(h)
  /\ UNCHANGED <<now, request, retry, dead, status, sends, report, outages>>

\* The connection is lost and the broker gives the copy back; the run goes on.
ChannelLost(h) ==
  /\ Job(h).owns
  /\ Fault
  /\ Requeue(h)
  /\ handler' = [handler EXCEPT ![h].owns = FALSE]
  /\ UNCHANGED <<now, request, retry, dead, status, sends, report, outages>>

Tick ==
  /\ now < MaxTime
  /\ now' = now + 1
  /\ UNCHANGED <<request, queues, handler, status, sends, report, outages, faults>>

RequestStep(m) ==
  \/ CreateRecord(m) \/ PublishConfirmed(m) \/ PublishFailed(m) \/ PublishUnconfirmed(m)
  \/ DirectSend(m) \/ LogDirect(m) \/ RequestDies(m)

JobStep(h) ==
  \/ MarkSending(h) \/ Send(h) \/ ScheduleVerification(h) \/ GiveUp(h) \/ ParkForRetry(h)
  \/ CheckReport(h) \/ Note(h) \/ Finish(h) \/ FinishOrphan(h)

SmsNext ==
  \/ Tick
  \/ RetryExpires
  \/ \E m \in Sms : RequestStep(m)
  \/ \E h \in Handler : Take(h) \/ JobStep(h) \/ WorkerDies(h) \/ ChannelLost(h)

SmsSpec == SmsInit /\ [][SmsNext]_vars

\* The broker expires parked copies; the worker reconnects, takes what there is
\* and runs each job to its end.
SmsFairness ==
  /\ WF_vars(RetryExpires)
  /\ \A h \in Handler : WF_vars(Take(h)) /\ WF_vars(JobStep(h))

FairSmsSpec == SmsSpec /\ SmsFairness

-----------------------------------------------------------------------------
(***************************************************************************)
(* Properties.                                                             *)
(***************************************************************************)
Contents(q) == {q[i] : i \in 1..Len(q)}

\* A copy of m is on a queue, or with a handler that has not lost it.
InFlight(m) ==
  \/ \E c \in Contents(work) \cup Contents(retry) : c.sms = m
  \/ \E h \in Handler : Job(h).owns /\ SmsOf(h) = m

\* The n-th accepted send of m may have reached the customer.
Standing(m) == {n \in DOMAIN report[m] : report[m][n] # "failed"}

\* "never lost": a message whose sender was told it is on its way is still on a
\* queue, or was accepted by the provider and not reported as failed since, or is
\* dead-lettered, or was a code whose time is over; in every order of crashes,
\* lost channels, retries and reports (handleSmsMessage, QueueingSmsProvider).
NeverLost ==
  \A m \in Sms : request[m].ok =>
    InFlight(m) \/ m \in dead \/ Standing(m) # {} \/ Stale(m)

\* "A reporting outage must not trigger a second SMS": unless a process, a
\* channel or an answer is lost, a message is sent again only after the carrier
\* has reported every earlier send as failed, whatever the database does.
NoSecondSms == faults = 0 => \A m \in Sms : Cardinality(Standing(m)) <= 1

\* The attempts of retries and of resends after a failed report come from one
\* budget; only a failure that could not be recorded gives a copy another one
\* (maxAttempts).
AttemptsAreBudgeted == faults = 0 => \A m \in Sms : sends[m] <= MaxAttempts + outages

\* No message stays on the queues for ever (the bounded attempts and checks).
QueueDrains == \A m \in Sms : []<>~InFlight(m)

\* Run h goes on although its channel is lost.
Orphaned(h) == Job(h).at # "idle" /\ ~Job(h).owns

\* As long as the database takes the statements, every record ends by telling how
\* the message ended: although the confirmation of the broker was lost and the
\* caller writes the record beside the worker, an answer of the provider was lost,
\* or a worker died and another took over; only a run that went on without its
\* channel may have the last word on what the next one has recorded (LogDirect and
\* noteStatus write one row).
RecordIsResolved ==
  \A m \in Sms :
    \/ <>(\E h \in Handler : Orphaned(h))
    \/ <>[](request[m].at = "done" /\ request[m].tracked /\ outages = 0
              => status[m] \in {"accepted", "delivered", "failed"})
=============================================================================
