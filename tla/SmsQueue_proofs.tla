--------------------------- MODULE SmsQueue_proofs ---------------------------
(***************************************************************************)
(* Machine-checked facts about reliable SMS delivery, for any number of    *)
(* messages, workers, attempts and crashes: the state is well-typed, a     *)
(* message is never lost, its sends come from one budget, and without a    *)
(* fault no second SMS goes out while the first may have arrived.          *)
(***************************************************************************)
EXTENDS SmsQueue, SequenceTheorems, FiniteSetTheorems, TLAPS

-----------------------------------------------------------------------------
(***************************************************************************)
(* The inductive invariant.                                                *)
(***************************************************************************)

\* A copy of message m is on queue q.
Has(q, m) == \E i \in 1..Len(q) : q[i].sms = m

\* The run still has its copy, and has more to do than to acknowledge it.
Pending(h) ==
  handler[h].owns /\ (handler[h].at \in {"note", "finish"} => handler[h].then = "dead")

\* What keeps a message from being lost.  A copy that is only waiting for its
\* acknowledgement does not count: it is about to go.
Secured(m) ==
  \/ Has(work, m) \/ Has(retry, m)
  \/ \E h \in Handler : Pending(h) /\ SmsOf(h) = m
  \/ m \in dead
  \/ Standing(m) # {}
  \/ Stale(m)

SecuredInv == \A m \in Sms : request[m].ok => Secured(m)

SmsInv == SmsTypeOK /\ SecuredInv

\* The numbers of the model are natural.
LEMMA Numbers ==
  /\ MaxAttempts \in Nat /\ MaxAttempts > 0 /\ MaxStatusChecks \in Nat /\ OtpWindow \in Nat
  /\ MaxTime \in Nat /\ MaxOutages \in Nat /\ MaxFaults \in Nat
  /\ Null \notin Nat /\ Null \notin Kinds /\ Kinds \subseteq KindType /\ Setups \subseteq SetupType
  BY SmsAssumption

-----------------------------------------------------------------------------
(***************************************************************************)
(* Queues.                                                                 *)
(***************************************************************************)

\* A copy that is put at the end of a queue.
LEMMA PutLast ==
  ASSUME NEW S, NEW q \in Seq(S), NEW c \in S
  PROVE  /\ Append(q, c) \in Seq(S)
         /\ Has(Append(q, c), c.sms)
         /\ \A m : Has(q, m) => Has(Append(q, c), m)
<1>1. /\ Append(q, c) \in Seq(S) /\ Len(q) \in Nat /\ Len(Append(q, c)) = Len(q) + 1
      /\ \A i \in 1..Len(q) : Append(q, c)[i] = q[i]
      /\ Append(q, c)[Len(q) + 1] = c
  BY AppendProperties, LenProperties
<1> DEFINE r == Append(q, c)
<1> HIDE DEF r
<1>2. Has(r, c.sms)
  BY <1>1 DEF Has, r
<1>3. ASSUME NEW m, Has(q, m) PROVE Has(r, m)
  BY <1>1, <1>3 DEF Has, r
<1>4. QED
  BY <1>1, <1>2, <1>3 DEF r

\* One that is put back at its head.
LEMMA PutFirst ==
  ASSUME NEW S, NEW q \in Seq(S), NEW c \in S
  PROVE  /\ <<c>> \o q \in Seq(S)
         /\ Has(<<c>> \o q, c.sms)
         /\ \A m : Has(q, m) => Has(<<c>> \o q, m)
<1>1. <<c>> \in Seq(S) /\ Len(<<c>>) = 1 /\ <<c>>[1] = c
  OBVIOUS
<1> DEFINE s == <<c>>
           r == s \o q
<1>2. s \in Seq(S) /\ Len(s) = 1 /\ s[1] = c
  BY <1>1
<1> HIDE DEF s
<1>3. /\ r \in Seq(S) /\ Len(q) \in Nat /\ Len(r) = Len(q) + 1
      /\ \A i \in 1..Len(q) + 1 : r[i] = IF i <= 1 THEN s[i] ELSE q[i - 1]
  <2>1. Len(q) \in Nat
    BY LenProperties
  <2>2. /\ s \o q \in Seq(S) /\ Len(s \o q) = Len(s) + Len(q)
        /\ \A i \in 1..Len(s) + Len(q) :
             (s \o q)[i] = IF i <= Len(s) THEN s[i] ELSE q[i - Len(s)]
    BY <1>2, ConcatProperties
  <2> HIDE DEF r
  <2>3. /\ r \in Seq(S) /\ Len(r) = 1 + Len(q)
        /\ \A i \in 1..1 + Len(q) : r[i] = IF i <= 1 THEN s[i] ELSE q[i - 1]
    BY <1>2, <2>2 DEF r
  <2>4. Len(q) + 1 = 1 + Len(q)
    BY <2>1
  <2>5. QED
    BY <2>1, <2>3, <2>4
<1> HIDE DEF r
<1>4. Has(r, c.sms)
  <2>1. r[1] = c /\ 1 \in 1..Len(r)
    BY <1>2, <1>3
  <2>2. QED
    BY <2>1 DEF Has
<1>5. ASSUME NEW m, Has(q, m) PROVE Has(r, m)
  <2>1. PICK i \in 1..Len(q) : q[i].sms = m
    BY <1>5 DEF Has
  <2>2. i + 1 \in 1..Len(r) /\ r[i + 1] = q[i]
    BY <1>3
  <2>3. QED
    BY <2>1, <2>2 DEF Has
<1>6. QED
  BY <1>3, <1>4, <1>5 DEF r, s

\* The first copy is taken.
LEMMA Taken ==
  ASSUME NEW S, NEW q \in Seq(S), q # <<>>
  PROVE  /\ Head(q) \in S /\ Tail(q) \in Seq(S)
         /\ \A m : Has(q, m) => Has(Tail(q), m) \/ Head(q).sms = m
<1>1. /\ Head(q) \in S /\ Tail(q) \in Seq(S) /\ Len(q) \in Nat /\ Len(q) > 0
      /\ Len(Tail(q)) = Len(q) - 1
      /\ \A i \in 1..Len(Tail(q)) : Tail(q)[i] = q[i + 1]
      /\ Head(q) = q[1]
  BY HeadTailProperties, LenProperties, EmptySeq
<1> DEFINE r == Tail(q)
<1> HIDE DEF r
<1>2. ASSUME NEW m, Has(q, m), Head(q).sms # m PROVE Has(r, m)
  <2>1. PICK i \in 1..Len(q) : q[i].sms = m
    BY <1>2 DEF Has
  <2>2. i # 1
    BY <1>1, <1>2, <2>1
  <2>3. i - 1 \in 1..Len(r) /\ r[i - 1] = q[i]
    BY <1>1, <2>2 DEF r
  <2>4. QED
    BY <2>1, <2>3 DEF Has
<1>3. QED
  BY <1>1, <1>2 DEF r

-----------------------------------------------------------------------------
(***************************************************************************)
(* Types, part by part.                                                    *)
(***************************************************************************)
RequestsOK == request \in [Sms -> RequestType]
QueuesOK   == work \in Seq(Known) /\ retry \in Seq(Known) /\ dead \subseteq Sms
JobOK(j)   == IF j.at = "idle" THEN ~j.owns
              ELSE j.copy \in Known /\ (j.at = "report" => j.copy.verify # 0)
JobsOK     == handler \in [Handler -> JobType] /\ \A h \in Handler : JobOK(handler[h])
ReportsOK  == report \in [Sms -> Seq(Answer)]
RecordsOK  ==
  /\ now \in 0..MaxTime /\ status \in [Sms -> Status \cup {Null}] /\ sends \in [Sms -> Nat]
  /\ outages \in 0..MaxOutages /\ faults \in 0..MaxFaults

\* The parts of type correctness.
LEMMA Parts ==
  /\ SmsTypeOK <=> RequestsOK /\ QueuesOK /\ JobsOK /\ ReportsOK /\ RecordsOK
  /\ SmsTypeOK' <=> RequestsOK' /\ QueuesOK' /\ JobsOK' /\ ReportsOK' /\ RecordsOK'
<1>1. SmsTypeOK <=> RequestsOK /\ QueuesOK /\ JobsOK /\ ReportsOK /\ RecordsOK
  BY DEF SmsTypeOK, RequestsOK, QueuesOK, JobOK, JobsOK, ReportsOK, RecordsOK
<1>2. QED
  BY <1>1, PTL

\* What may become of the reports: nothing, one more accepted send, or an answer
\* to the question what became of one.
ReportStep ==
  \/ UNCHANGED report
  \/ \E m \in Sms : report' = [report EXCEPT ![m] = Append(@, "pending")]
  \/ \E c \in Known, r \in Answer :
       c.verify # 0 /\ report' = [report EXCEPT ![c.sms][c.verify] = r]

\* The reports keep their type and no copy becomes unknown.
LEMMA ReportsTyped ==
  ASSUME ReportsOK, ReportStep
  PROVE  ReportsOK' /\ Known \subseteq Known'
<1>0. \A m \in Sms : report[m] \in Seq(Answer) /\ Len(report[m]) \in Nat
  BY LenProperties DEF ReportsOK
<1>1. CASE UNCHANGED report
  BY <1>1 DEF ReportsOK, Known
<1>2. CASE \E m \in Sms : report' = [report EXCEPT ![m] = Append(@, "pending")]
  <2>1. PICK m \in Sms : report' = [report EXCEPT ![m] = Append(report[m], "pending")]
    BY <1>2
  <2> DEFINE r == Append(report[m], "pending")
  <2>2. r \in Seq(Answer) /\ Len(r) = Len(report[m]) + 1
    BY <1>0, AppendProperties DEF Answer
  <2>3. report' = [report EXCEPT ![m] = r]
    BY <2>1
  <2> HIDE DEF r
  <2>4. ReportsOK' /\ \A n \in Sms : Len(report[n]) <= Len(report'[n])
    BY <1>0, <2>2, <2>3 DEF ReportsOK
  <2>5. \A n \in Sms : Len(report'[n]) \in Nat
    BY <2>4, LenProperties DEF ReportsOK
  <2>6. QED
    BY <1>0, <2>4, <2>5 DEF Known, Copy
<1>3. CASE \E c \in Known, r \in Answer :
             c.verify # 0 /\ report' = [report EXCEPT ![c.sms][c.verify] = r]
  <2>1. PICK c \in Known, r \in Answer :
          c.verify # 0 /\ report' = [report EXCEPT ![c.sms][c.verify] = r]
    BY <1>3
  <2> DEFINE m == c.sms
             q == report[m]
             s == [q EXCEPT ![c.verify] = r]
  <2>2. m \in Sms /\ q \in Seq(Answer) /\ c.verify \in 1..Len(q)
    BY <1>0, <2>1 DEF Known, Copy
  <2>3. s \in Seq(Answer) /\ Len(s) = Len(q)
    <3> HIDE DEF q
    <3>1. QED
      BY <2>2, ExceptSeq
  <2>4. report' = [report EXCEPT ![m] = s]
    BY <2>1
  <2> HIDE DEF s
  <2>5. ReportsOK' /\ \A n \in Sms : Len(report'[n]) = Len(report[n])
    BY <1>0, <2>2, <2>3, <2>4 DEF ReportsOK
  <2>6. QED
    BY <2>5 DEF Known, Copy
<1>4. QED
  BY <1>1, <1>2, <1>3 DEF ReportStep

\* What may become of a queue.
QueueStep(q, r) ==
  \/ r = q
  \/ \E c \in Known : r = Append(q, c) \/ r = <<c>> \o q
  \/ q # <<>> /\ r = Tail(q)

\* The queues hold known copies.
LEMMA QueuesTyped ==
  ASSUME QueuesOK, QueueStep(work, work'), QueueStep(retry, retry'), dead' \subseteq Sms,
         Known \subseteq Known'
  PROVE  QueuesOK'
<1>1. ASSUME NEW q \in Seq(Known), NEW r, QueueStep(q, r) PROVE r \in Seq(Known)
  <2>1. CASE r = q
    BY <2>1
  <2>2. ASSUME NEW c \in Known, r = Append(q, c) PROVE r \in Seq(Known)
    BY <2>2, PutLast
  <2>3. ASSUME NEW c \in Known, r = <<c>> \o q PROVE r \in Seq(Known)
    BY <2>3, PutFirst
  <2>4. CASE q # <<>> /\ r = Tail(q)
    BY <2>4, Taken
  <2>5. QED
    BY <1>1, <2>1, <2>2, <2>3, <2>4 DEF QueueStep
<1>2. work' \in Seq(Known) /\ retry' \in Seq(Known)
  BY <1>1 DEF QueuesOK
<1>3. work' \in Seq(Known') /\ retry' \in Seq(Known')
  BY <1>2, SeqMonotonic
<1>4. QED
  BY <1>3 DEF QueuesOK

\* A run that becomes another proper one.
LEMMA JobBecomes ==
  ASSUME JobsOK, Known \subseteq Known', NEW h \in Handler, NEW j \in JobType, JobOK(j),
         handler' = [handler EXCEPT ![h] = j]
  PROVE  JobsOK'
  BY DEF JobsOK, JobOK

\* The runs that are left alone stay proper.
LEMMA JobsKept ==
  ASSUME JobsOK, Known \subseteq Known', UNCHANGED handler
  PROVE  JobsOK'
  BY DEF JobsOK, JobOK

\* Only run h has moved.
Others(h) == \A g \in Handler \ {h} : handler'[g] = handler[g]

\* It keeps its copy, and goes on.
LEMMA GoesOn ==
  ASSUME JobsOK, Known \subseteq Known', NEW h \in Handler, handler[h].at # "idle",
         NEW at \in {"mark", "send", "verify", "giveUp", "park", "note", "finish"},
         Go(h, at)
  PROVE  /\ JobsOK' /\ Others(h)
         /\ handler'[h].at = at /\ handler'[h].owns = handler[h].owns
         /\ handler'[h].copy = handler[h].copy /\ handler'[h].then = handler[h].then
<1> DEFINE j == handler[h]
           a == [j EXCEPT !.at = at]
<1>1. j \in JobType /\ j.copy \in Known
  BY DEF JobsOK, JobOK
<1>2. a \in JobType /\ a.at = at /\ a.owns = j.owns /\ a.copy = j.copy /\ a.then = j.then
  <2> HIDE DEF j
  <2>1. QED
    BY <1>1 DEF JobType
<1>3. handler' = [handler EXCEPT ![h] = a]
  BY DEF Go
<1> HIDE DEF a
<1>4. JobOK(a)
  BY <1>1, <1>2 DEF JobOK
<1>5. JobsOK'
  BY <1>2, <1>3, <1>4, JobBecomes
<1>6. QED
  BY <1>2, <1>3, <1>5 DEF JobsOK, Others

\* It is about to record what became of its message.
LEMMA Notes ==
  ASSUME JobsOK, Known \subseteq Known', NEW h \in Handler, handler[h].at # "idle",
         NEW s \in Status, NEW then \in {"ack", "ackSent", "dead"}, NoteThen(h, s, then)
  PROVE  /\ JobsOK' /\ Others(h)
         /\ handler'[h].at = "note" /\ handler'[h].owns = handler[h].owns
         /\ handler'[h].copy = handler[h].copy /\ handler'[h].then = then
<1> DEFINE j == handler[h]
           b == [j EXCEPT !.at = "note", !.note = s]
           a == [j EXCEPT !.at = "note", !.note = s, !.then = then]
<1>1. j \in JobType /\ j.copy \in Known
  BY DEF JobsOK, JobOK
<1>2. a \in JobType /\ a.at = "note" /\ a.owns = j.owns /\ a.copy = j.copy /\ a.then = then
  <2> HIDE DEF j
  <2>1. b \in JobType /\ b.at = "note" /\ b.owns = j.owns /\ b.copy = j.copy
    BY <1>1 DEF JobType
  <2>2. a = [b EXCEPT !.then = then]
    BY <1>1 DEF JobType
  <2> HIDE DEF a, b
  <2>3. QED
    BY <2>1, <2>2 DEF JobType
<1>3. handler' = [handler EXCEPT ![h] = a]
  BY DEF NoteThen, JobsOK
<1> HIDE DEF a
<1>4. JobOK(a)
  BY <1>1, <1>2 DEF JobOK
<1>5. JobsOK'
  BY <1>2, <1>3, <1>4, JobBecomes
<1>6. QED
  BY <1>2, <1>3, <1>5 DEF JobsOK, Others

\* It is about to dead-letter its copy.
LEMMA GivesUp ==
  ASSUME JobsOK, Known \subseteq Known', NEW h \in Handler, handler[h].at # "idle",
         handler' = [handler EXCEPT ![h].at = "finish", ![h].then = "dead"]
  PROVE  /\ JobsOK' /\ Others(h)
         /\ handler'[h].at = "finish" /\ handler'[h].owns = handler[h].owns
         /\ handler'[h].copy = handler[h].copy /\ handler'[h].then = "dead"
<1> DEFINE j == handler[h]
           a == [j EXCEPT !.at = "finish", !.then = "dead"]
<1>1. j \in JobType /\ j.copy \in Known
  BY DEF JobsOK, JobOK
<1>2. a \in JobType /\ a.at = "finish" /\ a.owns = j.owns /\ a.copy = j.copy /\ a.then = "dead"
  <2> HIDE DEF j
  <2>1. QED
    BY <1>1 DEF JobType
<1>3. handler' = [handler EXCEPT ![h] = a]
  BY DEF JobsOK
<1> HIDE DEF a
<1>4. JobOK(a)
  BY <1>1, <1>2 DEF JobOK
<1>5. JobsOK'
  BY <1>2, <1>3, <1>4, JobBecomes
<1>6. QED
  BY <1>2, <1>3, <1>5 DEF JobsOK, Others

\* It has lost its copy.
LEMMA Loses ==
  ASSUME JobsOK, Known \subseteq Known', NEW h \in Handler, handler[h].owns,
         handler' = [handler EXCEPT ![h].owns = FALSE]
  PROVE  /\ JobsOK' /\ Others(h) /\ handler[h].copy \in Known /\ ~handler'[h].owns
<1> DEFINE j == handler[h]
           a == [j EXCEPT !.owns = FALSE]
<1>1. j \in JobType /\ j.copy \in Known /\ j.at # "idle" /\ JobOK(j)
  BY DEF JobsOK, JobOK
<1>2. a \in JobType /\ a.at = j.at /\ a.owns = FALSE /\ a.copy = j.copy
  <2> HIDE DEF j
  <2>1. QED
    BY <1>1 DEF JobType
<1>3. handler' = [handler EXCEPT ![h] = a]
  BY DEF JobsOK
<1> HIDE DEF a
<1>4. JobOK(a)
  BY <1>1, <1>2 DEF JobOK
<1>5. JobsOK'
  BY <1>2, <1>3, <1>4, JobBecomes
<1>6. QED
  BY <1>1, <1>2, <1>3, <1>5 DEF JobsOK, Others

\* It is over.
LEMMA Ends ==
  ASSUME JobsOK, Known \subseteq Known', NEW h \in Handler, End(h)
  PROVE  JobsOK' /\ Others(h) /\ ~handler'[h].owns
<1>1. NoJob \in JobType /\ JobOK(NoJob) /\ NoJob.owns = FALSE
  BY DEF NoJob, JobType, JobOK
<1>2. handler' = [handler EXCEPT ![h] = NoJob]
  BY DEF End
<1> HIDE DEF NoJob
<1>3. JobsOK'
  BY <1>1, <1>2, JobBecomes
<1>4. QED
  BY <1>1, <1>2, <1>3 DEF JobsOK, Others

\* It begins with copy c: it has it, and unless it was to dead-letter it or has more
\* to do, the report is unknown or the code too old.
LEMMA Begins ==
  ASSUME JobsOK, Known \subseteq Known', NEW h \in Handler, NEW c \in Known,
         NEW setup \in Setups, handler' = [handler EXCEPT ![h] = Begin(c, setup)]
  PROVE  /\ JobsOK' /\ Others(h)
         /\ handler'[h].owns = TRUE /\ handler'[h].copy = c
         /\ \/ handler'[h].at \in {"report", "mark"}
            \/ handler'[h].at = "note" /\ handler'[h].then = "dead"
            \/ c.verify # 0 /\ ~setup.reports
            \/ Stale(c.sms)
         /\ handler'[h].at \in {"report", "mark", "note"}
         /\ handler'[h].at = "mark" => c.verify = 0
<1> DEFINE run == [NoJob EXCEPT !.copy = c, !.owns = TRUE, !.reports = setup.reports]
           noting(s, then) == [run EXCEPT !.at = "note", !.note = s, !.then = then]
           a == Begin(c, setup)
<1>1. c \in Copy /\ setup.reports \in BOOLEAN
  BY Numbers DEF Known, SetupType
<1>2. run \in JobType /\ run.owns = TRUE /\ run.copy = c
  <2> DEFINE n  == NoJob
             r1 == [n EXCEPT !.copy = c, !.owns = TRUE]
  <2>1. n \in JobType
    BY DEF NoJob, JobType
  <2> HIDE DEF n
  <2>2. r1 \in JobType /\ r1.owns = TRUE /\ r1.copy = c
    BY <1>1, <2>1 DEF JobType
  <2>3. run = [r1 EXCEPT !.reports = setup.reports]
    BY <2>1 DEF JobType, n
  <2> HIDE DEF r1, run
  <2>4. QED
    BY <1>1, <2>2, <2>3 DEF JobType
<1> HIDE DEF run
<1>3. ASSUME NEW x \in {"report", "mark"}
      PROVE  LET b == [run EXCEPT !.at = x]
             IN  b \in JobType /\ b.owns = TRUE /\ b.copy = c /\ b.at = x
  BY <1>2 DEF JobType
<1>4. ASSUME NEW s \in Status, NEW t \in {"ack", "dead"}
      PROVE  LET b == noting(s, t)
             IN  b \in JobType /\ b.owns = TRUE /\ b.copy = c /\ b.at = "note" /\ b.then = t
  <2> DEFINE b0 == [run EXCEPT !.at = "note", !.note = s]
             b  == noting(s, t)
  <2>1. b0 \in JobType /\ b0.at = "note" /\ b0.owns = TRUE /\ b0.copy = c
    BY <1>2 DEF JobType
  <2>2. b = [b0 EXCEPT !.then = t]
    BY <1>2 DEF JobType
  <2> HIDE DEF b0, b
  <2>3. b \in JobType /\ b.owns = TRUE /\ b.copy = c /\ b.at = "note" /\ b.then = t
    BY <2>1, <2>2 DEF JobType
  <2>4. QED
    BY <2>3 DEF b
<1>5. \/ a = noting("accepted", "ack") /\ c.verify # 0 /\ ~setup.reports
      \/ a = noting("failed", "dead")
      \/ a = noting("failed", "ack") /\ Stale(c.sms)
      \/ \E x \in {"report", "mark"} :
           a = [run EXCEPT !.at = x] /\ (x = "report" <=> c.verify # 0)
  BY DEF Begin, run
<1> DEFINE Good == /\ a \in JobType /\ a.owns = TRUE /\ a.copy = c /\ a.at # "idle"
                   /\ a.at = "report" => c.verify # 0
                   /\ \/ a.at \in {"report", "mark"}
                      \/ a.at = "note" /\ a.then = "dead"
                      \/ c.verify # 0 /\ ~setup.reports
                      \/ Stale(c.sms)
                   /\ a.at \in {"report", "mark", "note"}
                   /\ a.at = "mark" => c.verify = 0
<1>6. Good
  <2> DEFINE n1 == noting("accepted", "ack")
             n2 == noting("failed", "dead")
             n3 == noting("failed", "ack")
  <2>0. /\ n1 \in JobType /\ n1.owns = TRUE /\ n1.copy = c /\ n1.at = "note"
        /\ n2 \in JobType /\ n2.owns = TRUE /\ n2.copy = c /\ n2.at = "note" /\ n2.then = "dead"
        /\ n3 \in JobType /\ n3.owns = TRUE /\ n3.copy = c /\ n3.at = "note"
    BY <1>4 DEF Status
  <2> HIDE DEF n1, n2, n3
  <2>1. CASE a = n1 /\ c.verify # 0 /\ ~setup.reports
    BY <2>0, <2>1
  <2>2. CASE a = n2
    BY <2>0, <2>2
  <2>3. CASE a = n3 /\ Stale(c.sms)
    BY <2>0, <2>3
  <2>4. ASSUME NEW x \in {"report", "mark"}, a = [run EXCEPT !.at = x], x = "report" <=> c.verify # 0
        PROVE  Good
    <3> HIDE DEF a
    <3>1. QED
      BY <1>3, <2>4
  <2>5. QED
    BY <1>5, <2>1, <2>2, <2>3, <2>4 DEF n1, n2, n3
<1> HIDE DEF a
<1>7. handler' = [handler EXCEPT ![h] = a]
  BY DEF a
<1>8. JobOK(a)
  BY <1>6 DEF JobOK
<1>9. JobsOK'
  BY <1>6, <1>7, <1>8, JobBecomes
<1>10. QED
  BY <1>6, <1>7, <1>9 DEF JobsOK, Others

-----------------------------------------------------------------------------
(***************************************************************************)
(* Every step keeps the types.                                             *)
(***************************************************************************)

\* A statement on the delivery record keeps its type.
LEMMA RecordTyped ==
  ASSUME RecordsOK, NEW m \in Sms, NEW s \in Status, Record(m, s)
  PROVE  /\ status' \in [Sms -> Status \cup {Null}] /\ outages' \in 0..MaxOutages
  BY Numbers DEF RecordsOK, Record, Recorded, Refused

\* The run that is not idle has a known copy.
LEMMA CopyKnown ==
  ASSUME JobsOK, NEW h \in Handler, handler[h].at # "idle"
  PROVE  /\ handler[h].copy \in Known /\ SmsOf(h) \in Sms /\ handler[h] \in JobType
         /\ attemptNo(h) \in Nat
  BY DEF JobsOK, JobOK, SmsOf, Known, Copy, attemptNo

\* The copies a run puts on a queue are known ones.
LEMMA CopiesMade ==
  ASSUME JobsOK, ReportsOK, NEW h \in Handler, handler[h].at # "idle"
  PROVE  LET c == handler[h].copy
             v == [c EXCEPT !.attempts = attemptNo(h), !.checks = 0,
                            !.verify = Len(report[SmsOf(h)])]
             r == [c EXCEPT !.attempts = attemptNo(h)]
             f == [c EXCEPT !.verify = 0, !.checks = 0]
             n == NextCheck(c)
         IN  /\ v \in Known /\ v.sms = c.sms
             /\ r \in Known /\ r.sms = c.sms
             /\ f \in Known /\ f.sms = c.sms
             /\ n \in Known /\ n.sms = c.sms
<1> DEFINE c == handler[h].copy
           l == Len(report[SmsOf(h)])
           t == attemptNo(h)
           v0 == [c EXCEPT !.attempts = t, !.checks = 0]
           v == [c EXCEPT !.attempts = t, !.checks = 0, !.verify = l]
           r == [c EXCEPT !.attempts = t]
           f == [c EXCEPT !.verify = 0, !.checks = 0]
           n == NextCheck(c)
<1>1. /\ c \in Copy /\ c.verify <= l /\ l \in Nat /\ l = Len(report[c.sms]) /\ t \in Nat
  BY CopyKnown, LenProperties DEF Known, ReportsOK, SmsOf
<1>2. /\ r \in Copy /\ r.sms = c.sms /\ r.verify = c.verify
      /\ f \in Copy /\ f.sms = c.sms /\ f.verify = 0
      /\ n \in Copy /\ n.sms = c.sms /\ n.verify = c.verify
  <2> HIDE DEF c, l, t
  <2>1. r \in Copy /\ r.sms = c.sms /\ r.verify = c.verify
    BY <1>1 DEF Copy
  <2>2. f \in Copy /\ f.sms = c.sms /\ f.verify = 0
    BY <1>1 DEF Copy
  <2>3. n \in Copy /\ n.sms = c.sms /\ n.verify = c.verify
    BY <1>1 DEF Copy, NextCheck
  <2>4. QED
    BY <2>1, <2>2, <2>3
<1>3. v \in Copy /\ v.sms = c.sms /\ v.verify = l
  <2> HIDE DEF c, l, t
  <2>1. v0 \in Copy /\ v0.sms = c.sms
    BY <1>1 DEF Copy
  <2>2. v = [v0 EXCEPT !.verify = l]
    BY <1>1 DEF Copy
  <2> HIDE DEF v, v0
  <2>3. QED
    BY <1>1, <2>1, <2>2 DEF Copy
<1> HIDE DEF v, r, f, n
<1>4. v \in Known /\ r \in Known /\ f \in Known /\ n \in Known
  BY <1>1, <1>2, <1>3 DEF Known
<1>5. QED
  BY <1>2, <1>3, <1>4 DEF v, r, f, n

\* A step of a request.
LEMMA RequestTyped ==
  ASSUME SmsTypeOK, NEW m \in Sms, RequestStep(m)
  PROVE  SmsTypeOK'
<1>0. /\ RequestsOK /\ QueuesOK /\ JobsOK /\ ReportsOK /\ RecordsOK /\ request[m] \in RequestType
  BY Parts DEF RequestsOK
<1> USE Numbers
<1>1. RequestsOK'
  <2>1. CASE CreateRecord(m)
    <3>1. PICK k \in Kinds, tracked \in BOOLEAN :
            request' = [request EXCEPT ![m] =
              [at |-> "publish", kind |-> k,
               expiresAt |-> IF k.expires THEN now + OtpWindow ELSE Null,
               tracked |-> tracked, ok |-> FALSE]]
      BY <2>1 DEF CreateRecord
    <3> DEFINE e == IF k.expires THEN now + OtpWindow ELSE Null
    <3>2. e \in Nat \cup {Null}
      BY <1>0 DEF RecordsOK
    <3>3. request' = [request EXCEPT ![m] = [at |-> "publish", kind |-> k, expiresAt |-> e,
                                             tracked |-> tracked, ok |-> FALSE]]
      BY <3>1
    <3> HIDE DEF e
    <3>4. QED
      BY <1>0, <3>2, <3>3 DEF RequestsOK, RequestType
  <2>2. ASSUME NEW at \in {"publish", "direct", "log", "done", "died"},
               \/ request' = [request EXCEPT ![m].at = at]
               \/ request' = [request EXCEPT ![m].at = at, ![m].ok = TRUE]
        PROVE  RequestsOK'
    <3> DEFINE q == request[m]
               a == [q EXCEPT !.at = at]
               b == [q EXCEPT !.at = at, !.ok = TRUE]
    <3>1. a \in RequestType /\ b \in RequestType
      <4> HIDE DEF q
      <4>1. q \in RequestType
        BY <1>0 DEF q
      <4>2. QED
        BY <4>1 DEF RequestType
    <3>2. request' = [request EXCEPT ![m] = a] \/ request' = [request EXCEPT ![m] = b]
      BY <1>0, <2>2 DEF RequestsOK
    <3> HIDE DEF a, b
    <3>3. QED
      BY <1>0, <3>1, <3>2 DEF RequestsOK
  <2>3. CASE PublishConfirmed(m)
    BY <2>2, <2>3 DEF PublishConfirmed
  <2>4. CASE PublishFailed(m) \/ PublishUnconfirmed(m) \/ LogDirect(m) \/ RequestDies(m)
    BY <2>2, <2>4 DEF PublishFailed, PublishUnconfirmed, LogDirect, RequestDies, Move
  <2>5. CASE DirectSend(m)
    BY <2>2, <2>5 DEF DirectSend, Move
  <2>6. QED
    BY <2>1, <2>3, <2>4, <2>5 DEF RequestStep
<1>2. ReportStep
  BY DEF ReportStep, RequestStep, CreateRecord, PublishConfirmed, PublishFailed, PublishUnconfirmed,
     DirectSend, LogDirect, RequestDies, Accepts, Declines, AnswerLost
<1>3. ReportsOK' /\ Known \subseteq Known'
  BY <1>0, <1>2, ReportsTyped
<1>4. QueuesOK'
  <2>1. NewCopy(m) \in Known
    BY <1>0, LenProperties DEF NewCopy, Known, Copy, ReportsOK
  <2>2. /\ work' = work \/ work' = Append(work, NewCopy(m))
        /\ retry' = retry /\ dead' = dead
    BY DEF RequestStep, CreateRecord, PublishConfirmed, PublishFailed, PublishUnconfirmed,
       DirectSend, LogDirect, RequestDies, queues
  <2>3. QED
    BY <1>0, <1>3, <2>1, <2>2, QueuesTyped DEF QueueStep, QueuesOK
<1>5. JobsOK'
  <2>1. UNCHANGED handler
    BY DEF RequestStep, CreateRecord, PublishConfirmed, PublishFailed, PublishUnconfirmed,
       DirectSend, LogDirect, RequestDies
  <2>2. QED
    BY <1>0, <1>3, <2>1, JobsKept
<1>6. RecordsOK'
  <2>1. CASE CreateRecord(m)
    BY <1>0, <2>1 DEF RecordsOK, CreateRecord, Status
  <2>2. CASE PublishConfirmed(m) \/ PublishFailed(m) \/ PublishUnconfirmed(m) \/ RequestDies(m)
    BY <1>0, <2>2 DEF RecordsOK, PublishConfirmed, PublishFailed, PublishUnconfirmed, RequestDies,
       Fault
  <2>3. CASE DirectSend(m)
    BY <1>0, <2>3, SMTT(30) DEF RecordsOK, DirectSend, Accepts, Declines, AnswerLost, Fault
  <2>4. CASE LogDirect(m)
    BY <1>0, <2>4, RecordTyped DEF RecordsOK, LogDirect, Status
  <2>5. QED
    BY <2>1, <2>2, <2>3, <2>4 DEF RequestStep
<1>7. QED
  BY <1>1, <1>3, <1>4, <1>5, <1>6, Parts

\* What a statement of a run does: to its job, the queues, the reports and the records.
LEMMA JobTyped ==
  ASSUME SmsTypeOK, NEW h \in Handler, JobStep(h)
  PROVE  SmsTypeOK' /\ Others(h) /\ Known \subseteq Known'
<1>0. RequestsOK /\ QueuesOK /\ JobsOK /\ ReportsOK /\ RecordsOK /\ handler[h].at # "idle"
  <2>1. handler[h].at # "idle"
    BY DEF JobStep, MarkSending, Send, ScheduleVerification, GiveUp, ParkForRetry, CheckReport, Note,
       Finish, FinishOrphan, Job
  <2>2. QED
    BY <2>1, Parts
<1>1. /\ handler[h].copy \in Known /\ SmsOf(h) \in Sms /\ handler[h] \in JobType
      /\ attemptNo(h) \in Nat
  BY <1>0, CopyKnown
<1> USE Numbers
<1>2. ReportStep
  <2>1. CASE Send(h)
    BY <1>1, <2>1 DEF ReportStep, Send, Accepts, Declines, AnswerLost
  <2>2. CASE CheckReport(h)
    <3>1. PICK r \in Answer :
            report' = IF Job(h).owns
                      THEN [report EXCEPT ![SmsOf(h)][handler[h].copy.verify] = r] ELSE report
      BY <2>2, Zenon DEF CheckReport, Job, SmsOf
    <3>2. handler[h].copy.verify = 0 =>
            [report EXCEPT ![SmsOf(h)][handler[h].copy.verify] = r] = report
      <4> DEFINE q == report[SmsOf(h)]
                 s == [q EXCEPT ![0] = r]
      <4>1. q \in Seq(Answer) /\ DOMAIN q = 1..Len(q) /\ Len(q) \in Nat
        BY <1>0, <1>1, LenProperties DEF ReportsOK
      <4>2. s = q
        <5> HIDE DEF q
        <5>1. QED
          BY <4>1
      <4>3. QED
        BY <1>0, <1>1, <4>2 DEF ReportsOK
    <3>3. QED
      BY <1>1, <3>1, <3>2 DEF ReportStep, SmsOf
  <2>3. CASE ~(Send(h) \/ CheckReport(h))
    BY <2>3 DEF ReportStep, JobStep, MarkSending, ScheduleVerification, GiveUp, ParkForRetry, Note,
       Finish, FinishOrphan
  <2>4. QED
    BY <2>1, <2>2, <2>3
<1>3. ReportsOK' /\ Known \subseteq Known'
  BY <1>0, <1>2, ReportsTyped
<1>4. QueuesOK'
  <2> DEFINE c == handler[h].copy
             v == [c EXCEPT !.attempts = attemptNo(h), !.checks = 0,
                            !.verify = Len(report[SmsOf(h)])]
             r == [c EXCEPT !.attempts = attemptNo(h)]
             f == [c EXCEPT !.verify = 0, !.checks = 0]
             n == NextCheck(c)
  <2>1. v \in Known /\ r \in Known /\ f \in Known /\ n \in Known
    BY <1>0, CopiesMade
  <2>2. work' = work \/ work' = <<c>> \o work
    BY DEF JobStep, MarkSending, Send, ScheduleVerification, GiveUp, ParkForRetry, CheckReport, Note,
       Finish, FinishOrphan, queues, Requeue, Job
  <2>3. \/ retry' = retry \/ retry' = Append(retry, v) \/ retry' = Append(retry, r)
        \/ retry' = Append(retry, f) \/ retry' = Append(retry, n)
    <3>1. CASE ScheduleVerification(h) \/ ParkForRetry(h)
      BY <3>1, Zenon DEF ScheduleVerification, ParkForRetry, Park, Job
    <3>2. CASE CheckReport(h)
      BY <3>2 DEF CheckReport, Park, Job
    <3>3. CASE ~(ScheduleVerification(h) \/ ParkForRetry(h) \/ CheckReport(h))
      BY <3>3 DEF JobStep, MarkSending, Send, GiveUp, Note, Finish, FinishOrphan, queues
    <3>4. QED
      BY <3>1, <3>2, <3>3
  <2>4. dead' \subseteq Sms
    BY <1>0, <1>1 DEF QueuesOK, JobStep, MarkSending, Send, ScheduleVerification, GiveUp, ParkForRetry,
       CheckReport, Note, Finish, FinishOrphan, queues
  <2> HIDE DEF v, r, f, n
  <2>5. QueueStep(work, work') /\ QueueStep(retry, retry')
    BY <1>1, <2>1, <2>2, <2>3 DEF QueueStep
  <2>6. QED
    BY <1>0, <1>3, <2>4, <2>5, QueuesTyped
<1>5. JobsOK' /\ Others(h)
  <2>1. ASSUME NEW at \in {"mark", "send", "verify", "giveUp", "park", "note", "finish"},
               Go(h, at)
        PROVE  JobsOK' /\ Others(h)
    BY <1>0, <1>3, <2>1, GoesOn
  <2>2. ASSUME NEW s \in Status, NEW then \in {"ack", "ackSent", "dead"}, NoteThen(h, s, then)
        PROVE  JobsOK' /\ Others(h)
    BY <1>0, <1>3, <2>2, Notes
  <2>3. ASSUME End(h) PROVE JobsOK' /\ Others(h)
    BY <1>0, <1>3, <2>3, Ends
  <2>4. ASSUME AttemptFails(h) PROVE JobsOK' /\ Others(h)
    BY <2>1, <2>4 DEF AttemptFails
  <2>5. CASE MarkSending(h)
    BY <2>1, <2>4, <2>5 DEF MarkSending
  <2>6. CASE Send(h)
    BY <2>1, <2>2, <2>4, <2>6 DEF Send, Status
  <2>7. CASE ScheduleVerification(h)
    BY <2>2, <2>7 DEF ScheduleVerification, Status
  <2>8. CASE GiveUp(h)
    BY <1>0, <1>3, <2>3, <2>8, GivesUp DEF GiveUp
  <2>9. CASE ParkForRetry(h)
    BY <2>2, <2>3, <2>9 DEF ParkForRetry, Status
  <2>10. CASE CheckReport(h)
    BY <2>2, <2>3, <2>10 DEF CheckReport, Status, Answer
  <2>11. CASE Note(h) \/ Finish(h) \/ FinishOrphan(h)
    BY <2>1, <2>3, <2>11 DEF Note, Finish, FinishOrphan
  <2>12. QED
    BY <2>5, <2>6, <2>7, <2>8, <2>9, <2>10, <2>11 DEF JobStep
<1>6. RecordsOK'
  <2>1. CASE MarkSending(h)
    BY <1>0, <1>1, <2>1, RecordTyped DEF RecordsOK, MarkSending, Record, Status
  <2>2. CASE Send(h)
    BY <1>0, <1>1, <2>2 DEF RecordsOK, Send, Accepts, Declines, AnswerLost, Fault
  <2>3. CASE GiveUp(h)
    BY <1>0, <1>1, <2>3, RecordTyped DEF RecordsOK, GiveUp, Record, Status
  <2>4. CASE Note(h)
    <3>1. CASE handler[h].note = Null
      BY <1>0, <1>1, <2>4, <3>1 DEF RecordsOK, Note, Record, Recorded, Refused, Job
    <3>2. CASE handler[h].note # Null
      BY <1>0, <1>1, <2>4, <3>2, RecordTyped DEF RecordsOK, Note, JobType, Job
    <3>3. QED
      BY <3>1, <3>2
  <2>5. CASE ScheduleVerification(h) \/ ParkForRetry(h) \/ CheckReport(h) \/ Finish(h) \/ FinishOrphan(h)
    BY <1>0, <2>5 DEF RecordsOK, ScheduleVerification, ParkForRetry, CheckReport, Finish, FinishOrphan
  <2>6. QED
    BY <2>1, <2>2, <2>3, <2>4, <2>5 DEF JobStep
<1>7. RequestsOK'
  BY <1>0 DEF RequestsOK, JobStep, MarkSending, Send, ScheduleVerification, GiveUp, ParkForRetry,
     CheckReport, Note, Finish, FinishOrphan
<1>8. QED
  BY <1>3, <1>4, <1>5, <1>6, <1>7, Parts

\* A copy is taken, by a run that learns nothing if its worker has no reports.
LEMMA TakeTyped ==
  ASSUME SmsTypeOK, NEW h \in Handler, Take(h)
  PROVE  /\ SmsTypeOK' /\ Others(h) /\ work # <<>> /\ Head(work) \in Known /\ work' = Tail(work)
         /\ handler'[h].owns = TRUE /\ handler'[h].copy = Head(work)
         /\ handler'[h].at \in {"report", "mark", "note"}
         /\ handler'[h].at = "mark" => Head(work).verify = 0
         /\ \/ handler'[h].at \in {"report", "mark"}
            \/ handler'[h].at = "note" /\ handler'[h].then = "dead"
            \/ /\ Head(work).verify # 0
               /\ report' = [report EXCEPT ![Head(work).sms][Head(work).verify] = "unknown"]
            \/ Stale(Head(work).sms)
         /\ \/ report' = report
            \/ /\ Head(work).verify # 0
               /\ report' = [report EXCEPT ![Head(work).sms][Head(work).verify] = "unknown"]
<1>0. RequestsOK /\ QueuesOK /\ JobsOK /\ ReportsOK /\ RecordsOK
  BY Parts
<1> DEFINE c == Head(work)
<1>1. c \in Known /\ work # <<>> /\ work' = Tail(work)
  BY <1>0, Taken DEF Take, QueuesOK
<1>2. PICK setup \in Setups :
        /\ handler' = [handler EXCEPT ![h] = Begin(c, setup)]
        /\ report' = IF c.verify # 0 /\ ~setup.reports
                     THEN [report EXCEPT ![c.sms][c.verify] = "unknown"] ELSE report
  BY DEF Take
<1> HIDE DEF c
<1>3. ReportStep
  BY <1>1, <1>2 DEF ReportStep, Answer
<1>4. ReportsOK' /\ Known \subseteq Known'
  BY <1>0, <1>3, ReportsTyped
<1>5. /\ JobsOK' /\ Others(h)
      /\ handler'[h].owns = TRUE /\ handler'[h].copy = c
      /\ \/ handler'[h].at \in {"report", "mark"}
         \/ handler'[h].at = "note" /\ handler'[h].then = "dead"
         \/ c.verify # 0 /\ ~setup.reports
         \/ Stale(c.sms)
      /\ handler'[h].at \in {"report", "mark", "note"}
      /\ handler'[h].at = "mark" => c.verify = 0
  BY <1>0, <1>1, <1>2, <1>4, Begins
<1>6. QueuesOK'
  <2>1. QueueStep(work, work') /\ QueueStep(retry, retry') /\ dead' \subseteq Sms
    BY <1>0, <1>1 DEF QueueStep, Take, QueuesOK
  <2>2. QED
    BY <1>0, <1>4, <2>1, QueuesTyped
<1>7. RequestsOK' /\ RecordsOK'
  BY <1>0 DEF RequestsOK, RecordsOK, Take
<1>8. QED
  BY <1>1, <1>2, <1>4, <1>5, <1>6, <1>7, Parts DEF c

\* What the broker and the environment do.
LEMMA BrokerTyped ==
  ASSUME SmsTypeOK,
         \/ Tick \/ RetryExpires
         \/ \E h \in Handler : WorkerDies(h) \/ ChannelLost(h)
  PROVE  SmsTypeOK'
<1>0. RequestsOK /\ QueuesOK /\ JobsOK /\ ReportsOK /\ RecordsOK
  BY Parts
<1>1. ReportStep /\ UNCHANGED report
  BY DEF ReportStep, Tick, RetryExpires, WorkerDies, ChannelLost
<1>2. ReportsOK' /\ Known \subseteq Known'
  BY <1>0, <1>1, ReportsTyped
<1>3. QueuesOK'
  <2>1. QueueStep(work, work') /\ QueueStep(retry, retry') /\ dead' = dead
    <3>1. CASE Tick
      BY <3>1 DEF QueueStep, Tick, queues
    <3>2. CASE RetryExpires
      BY <1>0, <3>2, Taken DEF QueueStep, RetryExpires, QueuesOK
    <3>3. CASE \E h \in Handler : WorkerDies(h) \/ ChannelLost(h)
      BY <1>0, <3>3, CopyKnown DEF QueueStep, WorkerDies, ChannelLost, Requeue, Job, JobsOK, JobOK
    <3>4. QED
      BY <3>1, <3>2, <3>3
  <2>2. QED
    BY <1>0, <1>2, <2>1, QueuesTyped DEF QueuesOK
<1>4. JobsOK'
  <2>1. CASE Tick \/ RetryExpires
    BY <1>0, <1>2, <2>1, JobsKept DEF Tick, RetryExpires
  <2>2. CASE \E h \in Handler : WorkerDies(h) \/ ChannelLost(h)
    BY <1>0, <1>2, <2>2, Ends, Loses DEF WorkerDies, ChannelLost, Job
  <2>3. QED
    BY <2>1, <2>2
<1>5. RequestsOK' /\ RecordsOK'
  BY <1>0, Numbers DEF RequestsOK, RecordsOK, Tick, RetryExpires, WorkerDies, ChannelLost, Fault
<1>6. QED
  BY <1>2, <1>3, <1>4, <1>5, Parts

-----------------------------------------------------------------------------
(***************************************************************************)
(* Every step keeps a message secured.                                     *)
(***************************************************************************)

\* Stays, for a message, what was there.
QueueKept(m) == Has(work, m) \/ Has(retry, m) => (Has(work, m) \/ Has(retry, m))'
ReportKept(m) == Standing(m) # {} => (Standing(m) # {})'
CodeKept(m) == Stale(m) => Stale(m)'

\* Only run h has moved, and what it did not keep is made up for.
LEMMA SecuredKept ==
  ASSUME NEW m \in Sms, Secured(m), NEW h \in Handler, Others(h),
         QueueKept(m) \/ Secured(m)', m \in dead => m \in dead',
         ReportKept(m) \/ Secured(m)', CodeKept(m),
         Pending(h) /\ SmsOf(h) = m => Secured(m)'
  PROVE  Secured(m)'
<1>1. CASE \E g \in Handler : Pending(g) /\ SmsOf(g) = m
  <2>1. PICK g \in Handler : Pending(g) /\ SmsOf(g) = m
    BY <1>1
  <2>2. CASE g = h
    BY <2>1, <2>2
  <2>3. CASE g # h
    <3>1. handler'[g] = handler[g]
      BY <2>3 DEF Others
    <3>2. QED
      BY <2>1, <3>1 DEF Pending, SmsOf, Secured
  <2>4. QED
    BY <2>2, <2>3
<1>2. CASE ~\E g \in Handler : Pending(g) /\ SmsOf(g) = m
  BY <1>2 DEF Secured, QueueKept, ReportKept, CodeKept
<1>3. QED
  BY <1>1, <1>2

\* The same when no run moves.
LEMMA SecuredAlone ==
  ASSUME NEW m \in Sms, Secured(m), UNCHANGED handler, QueueKept(m), m \in dead => m \in dead',
         ReportKept(m), CodeKept(m)
  PROVE  Secured(m)'
  BY DEF Secured, QueueKept, ReportKept, CodeKept, Pending, SmsOf

\* More accepted sends: what stood still stands.
LEMMA SendStands ==
  ASSUME ReportsOK, NEW m \in Sms, NEW n \in Sms,
         report' = [report EXCEPT ![n] = Append(@, "pending")]
  PROVE  ReportKept(m) /\ (m = n => (Standing(m) # {})')
<1> DEFINE q == report[n]
           r == Append(q, "pending")
<1>1. q \in Seq(Answer) /\ Len(q) \in Nat /\ DOMAIN q = 1..Len(q)
  BY LenProperties DEF ReportsOK
<1>2. /\ r \in Seq(Answer) /\ Len(r) = Len(q) + 1
      /\ \A i \in 1..Len(q) : r[i] = q[i]
      /\ r[Len(q) + 1] = "pending"
  <2> HIDE DEF q
  <2>1. QED
    BY <1>1, AppendProperties DEF Answer
<1>3. report' = [report EXCEPT ![n] = r]
  OBVIOUS
<1> HIDE DEF r
<1>4. DOMAIN r = 1..Len(r)
  BY <1>2, LenProperties
<1>5. CASE m = n
  <2>1. report'[m] = r
    BY <1>3, <1>5 DEF ReportsOK
  <2>2. Len(q) + 1 \in DOMAIN report'[m] /\ report'[m][Len(q) + 1] # "failed"
    BY <1>1, <1>2, <1>4, <2>1
  <2>3. QED
    BY <2>2 DEF ReportKept, Standing
<1>6. CASE m # n
  BY <1>3, <1>6 DEF ReportKept, Standing, ReportsOK
<1>7. QED
  BY <1>5, <1>6

\* An answer other than "failed" stands; any answer concerns one message.
LEMMA AnswerStands ==
  ASSUME ReportsOK, NEW m \in Sms, NEW c \in Known, c.verify # 0, NEW r \in Answer,
         report' = [report EXCEPT ![c.sms][c.verify] = r]
  PROVE  /\ m # c.sms => ReportKept(m)
         /\ r # "failed" => ReportKept(m) /\ (m = c.sms => (Standing(m) # {})')
<1> DEFINE q == report[c.sms]
           s == [q EXCEPT ![c.verify] = r]
<1>1. c.sms \in Sms /\ q \in Seq(Answer) /\ Len(q) \in Nat /\ c.verify \in 1..Len(q)
  BY LenProperties DEF ReportsOK, Known, Copy
<1>2. s \in Seq(Answer) /\ Len(s) = Len(q) /\ s[c.verify] = r
  <2> HIDE DEF q
  <2>1. QED
    BY <1>1, ExceptSeq
<1>3. report' = [report EXCEPT ![c.sms] = s]
  OBVIOUS
<1> HIDE DEF s
<1>4. DOMAIN s = 1..Len(s)
  BY <1>2, LenProperties
<1>5. m # c.sms => ReportKept(m)
  BY <1>3 DEF ReportKept, Standing, ReportsOK
<1>6. ASSUME r # "failed", m = c.sms PROVE (Standing(m) # {})'
  <2>1. report'[m] = s
    BY <1>1, <1>3, <1>6 DEF ReportsOK
  <2>2. c.verify \in DOMAIN report'[m] /\ report'[m][c.verify] # "failed"
    BY <1>1, <1>2, <1>4, <1>6, <2>1
  <2>3. QED
    BY <2>2 DEF Standing
<1>7. QED
  BY <1>5, <1>6 DEF ReportKept

\* A step of a request: whoever is told that the message is on its way has put it on
\* the queue, or the provider has accepted it.
LEMMA RequestSecures ==
  ASSUME SmsInv, NEW n \in Sms, RequestStep(n)
  PROVE  SecuredInv'
<1>0. /\ RequestsOK /\ QueuesOK /\ ReportsOK /\ request[n] \in RequestType
  BY Parts DEF SmsInv, RequestsOK
<1> SUFFICES ASSUME NEW m \in Sms, request'[m].ok PROVE Secured(m)'
  BY DEF SecuredInv
<1>1. NewCopy(n) \in Known /\ NewCopy(n).sms = n
  BY <1>0, LenProperties DEF NewCopy, Known, Copy, ReportsOK
<1> DEFINE Put == work' = Append(work, NewCopy(n))
<1>2. ASSUME Put PROVE Has(work', n) /\ (Has(work, m) => Has(work', m))
  BY <1>0, <1>1, <1>2, PutLast DEF QueuesOK
<1>3. QueueKept(m)
  <2>1. retry' = retry /\ (work' = work \/ Put)
    BY DEF RequestStep, CreateRecord, PublishConfirmed, PublishFailed, PublishUnconfirmed, DirectSend,
       LogDirect, RequestDies, queues
  <2>2. QED
    BY <1>2, <2>1 DEF QueueKept, Has
<1>4. ReportKept(m)
  <2>1. report' = report \/ report' = [report EXCEPT ![n] = Append(@, "pending")]
    BY DEF RequestStep, CreateRecord, PublishConfirmed, PublishFailed, PublishUnconfirmed, DirectSend,
       LogDirect, RequestDies, Accepts, Declines, AnswerLost
  <2>2. QED
    BY <1>0, <2>1, SendStands DEF ReportKept, Standing
<1>5. UNCHANGED <<handler, dead, now>>
  BY DEF RequestStep, CreateRecord, PublishConfirmed, PublishFailed, PublishUnconfirmed, DirectSend,
     LogDirect, RequestDies, queues
<1>6. ASSUME request[m].ok, CodeKept(m) PROVE Secured(m)'
  BY <1>3, <1>4, <1>5, <1>6, SecuredAlone DEF SmsInv, SecuredInv
<1>7. CASE CreateRecord(n)
  <2>1. m # n /\ request'[m] = request[m]
    BY <1>0, <1>7 DEF CreateRecord, RequestsOK
  <2>2. QED
    BY <1>5, <1>6, <2>1 DEF CodeKept, Stale
<1>8. CASE ~CreateRecord(n)
  <2>1. \A k \in Sms : request'[k].expiresAt = request[k].expiresAt
    BY <1>0, <1>8 DEF RequestStep, PublishConfirmed, PublishFailed, PublishUnconfirmed, DirectSend,
       LogDirect, RequestDies, Move, RequestsOK, RequestType
  <2>2. CodeKept(m)
    BY <1>5, <2>1 DEF CodeKept, Stale
  <2>3. CASE PublishConfirmed(n)
    <3>1. CASE m = n
      BY <1>2, <2>3, <3>1 DEF PublishConfirmed, Secured, Has
    <3>2. CASE m # n
      BY <1>0, <1>6, <2>2, <2>3, <3>2 DEF PublishConfirmed, RequestsOK
    <3>3. QED
      BY <3>1, <3>2
  <2>4. CASE DirectSend(n)
    <3>1. CASE m = n /\ Accepts(n)
      BY <1>0, <3>1, SendStands DEF Accepts, Secured
    <3>2. CASE ~(m = n /\ Accepts(n))
      <4>1. request'[m].ok = request[m].ok
        BY <1>0, <2>4, <3>2, ZenonT(40) DEF DirectSend, Move, RequestsOK, RequestType
      <4>2. QED
        BY <1>6, <2>2, <4>1
    <3>3. QED
      BY <3>1, <3>2
  <2>5. CASE PublishFailed(n) \/ PublishUnconfirmed(n) \/ LogDirect(n) \/ RequestDies(n)
    <3>1. request'[m].ok = request[m].ok
      <4>1. \E at \in {"direct", "done", "died"} : request' = [request EXCEPT ![n].at = at]
        BY <2>5 DEF PublishFailed, PublishUnconfirmed, LogDirect, RequestDies, Move
      <4>2. QED
        BY <1>0, <4>1, ZenonT(40) DEF RequestsOK, RequestType
    <3>2. QED
      BY <1>6, <2>2, <3>1
  <2>6. QED
    BY <1>8, <2>3, <2>4, <2>5 DEF RequestStep
<1>9. QED
  BY <1>7, <1>8

\* A statement of a run: it gives up its claim on a message only when a copy is back on a
\* queue, the provider has accepted it, or the code is too old.
LEMMA JobSecures ==
  ASSUME SmsInv, NEW h \in Handler, JobStep(h)
  PROVE  SecuredInv'
<1>0. /\ QueuesOK /\ JobsOK /\ ReportsOK /\ Others(h) /\ handler[h].at # "idle"
      /\ Known \subseteq Known'
  <2>1. handler[h].at # "idle"
    BY DEF JobStep, MarkSending, Send, ScheduleVerification, GiveUp, ParkForRetry, CheckReport, Note,
       Finish, FinishOrphan, Job
  <2>2. QED
    BY <2>1, Parts, JobTyped DEF SmsInv
<1>1. /\ handler[h].copy \in Known /\ SmsOf(h) = handler[h].copy.sms /\ SmsOf(h) \in Sms
      /\ handler[h] \in JobType
  BY <1>0, CopyKnown DEF SmsOf
<1> SUFFICES ASSUME NEW m \in Sms, request'[m].ok PROVE Secured(m)'
  BY DEF SecuredInv
<1>2. /\ UNCHANGED <<request, now>> /\ dead \subseteq dead'
  BY DEF JobStep, MarkSending, Send, ScheduleVerification, GiveUp, ParkForRetry, CheckReport, Note,
     Finish, FinishOrphan, queues
<1>3. Secured(m) /\ CodeKept(m)
  BY <1>2 DEF SmsInv, SecuredInv, CodeKept, Stale
<1>4. ASSUME QueueKept(m) \/ Secured(m)', ReportKept(m) \/ Secured(m)',
             Pending(h) /\ SmsOf(h) = m => Secured(m)'
      PROVE  Secured(m)'
  BY <1>0, <1>2, <1>3, <1>4, SecuredKept
\* The run goes on with its copy.
<1>5. ASSUME NEW at \in {"send", "verify", "giveUp", "park"}, Go(h, at), Pending(h), SmsOf(h) = m
      PROVE  Secured(m)'
  BY <1>0, <1>5, GoesOn DEF Secured, Pending, SmsOf
<1>6. ASSUME UNCHANGED <<work, retry>> PROVE QueueKept(m)
  BY <1>6 DEF QueueKept, Has
<1>7. ASSUME UNCHANGED report PROVE ReportKept(m)
  BY <1>7 DEF ReportKept, Standing
\* A copy it parks or gives back.
<1>8. ASSUME NEW c \in Known, c.sms = SmsOf(h), retry' = Append(retry, c), UNCHANGED work
      PROVE  QueueKept(m) /\ (SmsOf(h) = m => Secured(m)')
  <2>1. Has(retry', SmsOf(h)) /\ (Has(retry, m) => Has(retry', m))
    BY <1>0, <1>8, PutLast DEF QueuesOK
  <2>2. QED
    BY <1>8, <2>1 DEF QueueKept, Secured, Has
<1>9. CASE MarkSending(h)
  BY <1>4, <1>5, <1>6, <1>7, <1>9 DEF MarkSending, AttemptFails, queues
<1>10. CASE Send(h)
  <2>1. report' = report \/ report' = [report EXCEPT ![SmsOf(h)] = Append(@, "pending")]
    BY <1>10 DEF Send, Accepts, Declines, AnswerLost
  <2>2. ReportKept(m)
    BY <1>0, <1>1, <1>7, <2>1, SendStands
  <2>3. CASE Accepts(SmsOf(h))
    BY <1>0, <1>1, <1>4, <1>6, <1>10, <2>2, <2>3, SendStands DEF Accepts, Send, Secured, queues
  <2>4. CASE AttemptFails(h)
    BY <1>4, <1>5, <1>6, <1>10, <2>2, <2>4 DEF AttemptFails, Send, queues
  <2>5. QED
    BY <1>10, <2>3, <2>4 DEF Send
<1>11. CASE ScheduleVerification(h)
  <2> DEFINE c == handler[h].copy
             v == [c EXCEPT !.attempts = attemptNo(h), !.checks = 0,
                            !.verify = Len(report[SmsOf(h)])]
  <2>1. v \in Known /\ v.sms = SmsOf(h)
    BY <1>0, <1>1, CopiesMade
  <2>2. IF handler[h].owns THEN retry' = Append(retry, v) ELSE UNCHANGED retry
    BY <1>11, Zenon DEF ScheduleVerification, Park, Job
  <2>3. UNCHANGED <<work, report>>
    BY <1>11 DEF ScheduleVerification
  <2> HIDE DEF v
  <2>4. QED
    BY <1>4, <1>6, <1>7, <1>8, <2>1, <2>2, <2>3 DEF Pending
<1>12. CASE GiveUp(h)
  <2>1. UNCHANGED <<retry, report>>
    BY <1>12 DEF GiveUp
  <2>2. CASE handler' = [handler EXCEPT ![h].at = "finish", ![h].then = "dead"] /\ UNCHANGED work
    <3>1. Pending(h) /\ SmsOf(h) = m => Secured(m)'
      BY <1>0, <2>2, GivesUp DEF Pending, SmsOf, Secured
    <3>2. QED
      BY <1>4, <1>6, <1>7, <2>1, <2>2, <3>1
  <2>3. CASE Requeue(h)
    <3>1. CASE handler[h].owns
      <4>1. work' = <<handler[h].copy>> \o work
        BY <2>3, <3>1 DEF Requeue, Job
      <4>2. Has(work', SmsOf(h)) /\ (Has(work, m) => Has(work', m))
        BY <1>0, <1>1, <4>1, PutFirst DEF QueuesOK
      <4>3. QueueKept(m) /\ (SmsOf(h) = m => Secured(m)')
        BY <2>1, <4>2 DEF QueueKept, Secured, Has
      <4>4. QED
        BY <1>4, <1>7, <2>1, <4>3
    <3>2. CASE ~handler[h].owns
      BY <1>4, <1>6, <1>7, <2>1, <2>3, <3>2 DEF Requeue, Job, Pending
    <3>3. QED
      BY <3>1, <3>2
  <2>4. QED
    BY <1>12, <2>2, <2>3 DEF GiveUp
<1>13. CASE ParkForRetry(h)
  <2> DEFINE c == handler[h].copy
             r == [c EXCEPT !.attempts = attemptNo(h)]
  <2>1. r \in Known /\ r.sms = SmsOf(h)
    BY <1>0, <1>1, CopiesMade
  <2>2. IF handler[h].owns THEN retry' = Append(retry, r) ELSE UNCHANGED retry
    BY <1>13, Zenon DEF ParkForRetry, Park, Job
  <2>3. UNCHANGED <<work, report>>
    BY <1>13 DEF ParkForRetry
  <2> HIDE DEF r
  <2>4. QED
    BY <1>4, <1>6, <1>7, <1>8, <2>1, <2>2, <2>3 DEF Pending
<1>15. CASE Note(h)
  <2>1. UNCHANGED <<work, retry, report>> /\ handler[h].at = "note" /\ Go(h, "finish")
    BY <1>15 DEF Note, queues, Job
  <2>2. Pending(h) /\ SmsOf(h) = m => Secured(m)'
    BY <1>0, <2>1, GoesOn DEF Pending, SmsOf, Secured
  <2>3. QED
    BY <1>4, <1>6, <1>7, <2>1, <2>2
<1>16. CASE Finish(h)
  <2>1. UNCHANGED <<work, retry, report>>
    BY <1>16 DEF Finish
  <2>2. Pending(h) /\ SmsOf(h) = m => Secured(m)'
    BY <1>16 DEF Finish, Pending, Secured, Job
  <2>3. QED
    BY <1>4, <1>6, <1>7, <2>1, <2>2
<1>17. CASE FinishOrphan(h)
  BY <1>4, <1>6, <1>7, <1>17 DEF FinishOrphan, Pending, Job, queues
<1>18. CASE CheckReport(h)
  <2> DEFINE c == handler[h].copy
             f == [c EXCEPT !.verify = 0, !.checks = 0]
             n == NextCheck(c)
             Asked(r) == report' = IF handler[h].owns
                                   THEN [report EXCEPT ![SmsOf(h)][c.verify] = r] ELSE report
             Again(copy) == retry' = IF handler[h].owns THEN Append(retry, copy) ELSE retry
  <2>1. f \in Known /\ f.sms = SmsOf(h) /\ n \in Known /\ n.sms = SmsOf(h) /\ c.verify # 0
    BY <1>0, <1>1, <1>18, CopiesMade DEF CheckReport, Job, JobsOK, JobOK
  <2>2. PICK r \in Answer :
          /\ Asked(r)
          /\ \/ r = "delivered" /\ NoteThen(h, "delivered", "ack") /\ UNCHANGED retry
             \/ r = "failed" /\ NoteThen(h, "failed", "dead") /\ UNCHANGED retry
             \/ r = "failed" /\ Again(f)
             \/ r \in {"pending", "unknown"} /\ NoteThen(h, "accepted", "ack") /\ UNCHANGED retry
             \/ r \in {"pending", "unknown"} /\ Again(n)
    <3>1. PICK r \in Answer :
            /\ report' = IF handler[h].owns THEN [report EXCEPT ![c.sms][c.verify] = r] ELSE report
            /\ CASE r = "delivered" -> NoteThen(h, "delivered", "ack") /\ UNCHANGED retry
                 [] r = "failed" /\ (c.attempts >= MaxAttempts \/ Stale(c.sms)) ->
                      NoteThen(h, "failed", "dead") /\ UNCHANGED retry
                 [] r = "failed" /\ c.attempts < MaxAttempts /\ ~Stale(c.sms) ->
                      IF handler[h].owns THEN Park(f) /\ NoteThen(h, "retrying", "ack")
                                         ELSE End(h) /\ UNCHANGED retry
                 [] r \in {"pending", "unknown"} /\ c.checks >= MaxStatusChecks ->
                      NoteThen(h, "accepted", "ack") /\ UNCHANGED retry
                 [] OTHER ->
                      IF handler[h].owns THEN Park(n) /\ NoteThen(h, "accepted", "ack")
                                         ELSE End(h) /\ UNCHANGED retry
      BY <1>18, Zenon DEF CheckReport, Job
    <3>2. Asked(r)
      BY <1>1, <3>1
    <3>3. MaxAttempts \in Nat /\ c.attempts \in Nat
      BY <1>1, Numbers DEF Known, Copy
    <3> HIDE DEF f, n
    <3>4. /\ r = "failed" => \/ NoteThen(h, "failed", "dead") /\ UNCHANGED retry
                             \/ Again(f)
          /\ r = "delivered" => NoteThen(h, "delivered", "ack") /\ UNCHANGED retry
          /\ r \in {"pending", "unknown"} =>
               \/ NoteThen(h, "accepted", "ack") /\ UNCHANGED retry
               \/ Again(n)
      BY <3>1, <3>3 DEF Park
    <3>5. QED
      BY <3>2, <3>4 DEF Answer
  <2>3. UNCHANGED work
    BY <1>18 DEF CheckReport
  <2> HIDE DEF f, n
  <2>4. CASE ~handler[h].owns
    <3>1. UNCHANGED <<work, retry, report>>
      BY <2>2, <2>3, <2>4
    <3>2. QED
      BY <1>4, <1>6, <1>7, <2>4, <3>1 DEF Pending
  <2>5. CASE handler[h].owns /\ r # "failed"
    <3>1. /\ report' = [report EXCEPT ![c.sms][c.verify] = r]
          /\ c \in Known
      BY <1>1, <2>2, <2>5
    <3>2. ReportKept(m) /\ (m = SmsOf(h) => (Standing(m) # {})')
      BY <1>0, <1>1, <2>1, <2>5, <3>1, AnswerStands
    <3>3. m = SmsOf(h) => Secured(m)'
      BY <3>2 DEF Secured
    <3>4. QueueKept(m)
      <4>1. retry' = retry \/ retry' = Append(retry, n)
        BY <2>2, <2>5
      <4>2. QED
        BY <1>6, <1>8, <2>1, <2>3, <4>1
    <3>5. QED
      BY <1>4, <3>2, <3>3, <3>4
  <2>6. CASE handler[h].owns /\ r = "failed"
    <3>1. /\ report' = [report EXCEPT ![c.sms][c.verify] = r]
          /\ c \in Known
      BY <1>1, <2>2, <2>6
    <3>2. m # SmsOf(h) => ReportKept(m)
      BY <1>0, <1>1, <2>1, <2>6, <3>1, AnswerStands
    <3>3. CASE NoteThen(h, "failed", "dead") /\ UNCHANGED retry
      <4>1. m = SmsOf(h) => Secured(m)'
        BY <1>0, <2>6, <3>3, Notes DEF Pending, SmsOf, Secured, Status
      <4>2. QED
        BY <1>4, <1>6, <2>3, <3>2, <3>3, <4>1
    <3>4. CASE Again(f)
      <4>1. QueueKept(m) /\ (SmsOf(h) = m => Secured(m)')
        BY <1>8, <2>1, <2>3, <2>6, <3>4
      <4>2. QED
        BY <1>4, <3>2, <4>1
    <3>5. QED
      BY <2>2, <2>6, <3>3, <3>4
  <2>7. QED
    BY <2>4, <2>5, <2>6
<1>19. QED
  BY <1>9, <1>10, <1>11, <1>12, <1>13, <1>15, <1>16, <1>17, <1>18 DEF JobStep

\* A copy is taken: the run has it, or knows that the send it asks about may have
\* reached the customer, or that the code is too old.
LEMMA TakeSecures ==
  ASSUME SmsInv, NEW h \in Handler, Take(h)
  PROVE  SecuredInv'
<1> DEFINE c == Head(work)
<1>0. /\ QueuesOK /\ JobsOK /\ ReportsOK /\ Others(h) /\ c \in Known /\ work # <<>>
      /\ work' = Tail(work) /\ UNCHANGED <<request, now, retry, dead>>
      /\ handler'[h].owns = TRUE /\ handler'[h].copy = c
      /\ handler[h].at = "idle"
  BY Parts, TakeTyped DEF SmsInv, Take, Job
<1> DEFINE Unknown == /\ c.verify # 0
                      /\ report' = [report EXCEPT ![c.sms][c.verify] = "unknown"]
<1>1. /\ \/ handler'[h].at \in {"report", "mark"}
         \/ handler'[h].at = "note" /\ handler'[h].then = "dead"
         \/ Unknown
         \/ Stale(c.sms)
      /\ report' = report \/ Unknown
  BY TakeTyped DEF SmsInv
<1> HIDE DEF c
<1> SUFFICES ASSUME NEW m \in Sms, request'[m].ok PROVE Secured(m)'
  BY DEF SecuredInv
<1>2. Secured(m) /\ \A k \in Sms : CodeKept(k)
  BY <1>0 DEF SmsInv, SecuredInv, CodeKept, Stale
<1>3. ASSUME Unknown PROVE ReportKept(m) /\ (m = c.sms => Secured(m)')
  BY <1>0, <1>3, AnswerStands DEF Answer, Secured
<1>4. ReportKept(m)
  BY <1>1, <1>3 DEF ReportKept, Standing
<1>5. m = c.sms => Secured(m)'
  <2>1. CASE \/ handler'[h].at \in {"report", "mark"}
             \/ handler'[h].at = "note" /\ handler'[h].then = "dead"
    BY <1>0, <2>1 DEF Secured, Pending, SmsOf
  <2>2. CASE Unknown
    BY <1>3, <2>2
  <2>3. CASE Stale(c.sms)
    BY <1>2, <2>3 DEF Secured, CodeKept
  <2>4. QED
    BY <1>1, <2>1, <2>2, <2>3
<1>6. m # c.sms => QueueKept(m)
  <2>1. Has(work, m) => Has(Tail(work), m) \/ c.sms = m
    BY <1>0, Taken DEF QueuesOK, c
  <2>2. QED
    BY <1>0, <2>1 DEF QueueKept, Has
<1>7. ~Pending(h)
  BY <1>0 DEF Pending, JobsOK, JobOK
<1>8. m \in dead => m \in dead'
  BY <1>0
<1>9. QED
  BY <1>0, <1>2, <1>4, <1>5, <1>6, <1>7, <1>8, SecuredKept

\* What the broker and the environment do: a copy that is lost is back on its queue.
LEMMA BrokerSecures ==
  ASSUME SmsInv,
         \/ Tick \/ RetryExpires
         \/ \E h \in Handler : WorkerDies(h) \/ ChannelLost(h)
  PROVE  SecuredInv'
<1>0. QueuesOK /\ JobsOK /\ ReportsOK /\ RecordsOK /\ RequestsOK
  BY Parts DEF SmsInv
<1> SUFFICES ASSUME NEW m \in Sms, request'[m].ok PROVE Secured(m)'
  BY DEF SecuredInv
<1>1. UNCHANGED <<request, report, dead>>
  BY DEF Tick, RetryExpires, WorkerDies, ChannelLost, queues
<1>2. Secured(m) /\ ReportKept(m)
  BY <1>1 DEF SmsInv, SecuredInv, ReportKept, Standing
<1>3. CodeKept(m)
  <2>1. now' = now \/ now' = now + 1
    BY DEF Tick, RetryExpires, WorkerDies, ChannelLost
  <2>2. now \in Nat /\ (request[m].expiresAt # Null => request[m].expiresAt \in Nat)
    BY <1>0, Numbers DEF RecordsOK, RequestsOK, RequestType
  <2>3. QED
    BY <1>1, <2>1, <2>2 DEF CodeKept, Stale
<1>4. CASE Tick
  BY <1>1, <1>2, <1>3, <1>4, SecuredAlone DEF Tick, QueueKept, Has, queues
<1>5. CASE RetryExpires
  <2> DEFINE c == Head(retry)
  <2>1. /\ c \in Known /\ work' = Append(work, c) /\ retry' = Tail(retry)
        /\ Has(retry, m) => Has(Tail(retry), m) \/ c.sms = m
    BY <1>0, <1>5, Taken DEF RetryExpires, QueuesOK
  <2> HIDE DEF c
  <2>2. Has(Append(work, c), c.sms) /\ (Has(work, m) => Has(Append(work, c), m))
    BY <1>0, <2>1, PutLast DEF QueuesOK
  <2>3. QueueKept(m)
    BY <2>1, <2>2 DEF QueueKept, Has
  <2>4. QED
    BY <1>1, <1>2, <1>3, <1>5, <2>3, SecuredAlone DEF RetryExpires
<1>6. ASSUME NEW h \in Handler, WorkerDies(h) \/ ChannelLost(h) PROVE Secured(m)'
  <2>1. UNCHANGED retry /\ Requeue(h) /\ handler[h].at # "idle"
    BY <1>0, <1>6 DEF WorkerDies, ChannelLost, Job, JobsOK, JobOK
  <2>2. Others(h)
    <3>1. Known \subseteq Known'
      BY <1>1 DEF Known
    <3>2. QED
      BY <1>0, <1>6, <3>1, Ends, Loses DEF WorkerDies, ChannelLost, Job
  <2>3. CASE handler[h].owns
    <3>1. work' = <<handler[h].copy>> \o work /\ handler[h].copy \in Known
      BY <1>0, <2>1, <2>3, CopyKnown DEF Requeue, Job
    <3>2. Has(work', SmsOf(h)) /\ (Has(work, m) => Has(work', m))
      BY <1>0, <3>1, PutFirst DEF QueuesOK, SmsOf
    <3>3. QueueKept(m) /\ (SmsOf(h) = m => Secured(m)')
      BY <2>1, <3>2 DEF QueueKept, Secured, Has
    <3>4. QED
      BY <1>1, <1>2, <1>3, <2>2, <3>3, SecuredKept
  <2>4. CASE ~handler[h].owns
    <3>1. QueueKept(m) /\ ~Pending(h)
      BY <2>1, <2>4 DEF QueueKept, Has, Requeue, Job, Pending
    <3>2. QED
      BY <1>1, <1>2, <1>3, <2>2, <3>1, SecuredKept
  <2>5. QED
    BY <2>3, <2>4
<1>7. QED
  BY <1>4, <1>5, <1>6

-----------------------------------------------------------------------------
(***************************************************************************)
(* Theorems.                                                               *)
(***************************************************************************)

\* The initial state satisfies the invariant.
LEMMA SmsStart == SmsInit => SmsInv
<1> SUFFICES ASSUME SmsInit PROVE SmsInv
  OBVIOUS
<1> USE Numbers DEF SmsInit
<1>1. RequestsOK
  BY DEF RequestsOK, RequestType, NoRequest
<1>2. QueuesOK
  BY EmptySeq DEF QueuesOK
<1>3. JobsOK
  BY DEF JobsOK, JobOK, JobType, NoJob
<1>4. ReportsOK /\ RecordsOK
  BY EmptySeq DEF ReportsOK, RecordsOK
<1>5. SecuredInv
  BY DEF SecuredInv, NoRequest
<1>6. QED
  BY <1>1, <1>2, <1>3, <1>4, <1>5, Parts DEF SmsInv

\* Every step keeps it.
LEMMA SmsStep == SmsInv /\ [SmsNext]_vars => SmsInv'
<1> SUFFICES ASSUME SmsInv, [SmsNext]_vars PROVE SmsInv'
  OBVIOUS
<1>1. ASSUME NEW m \in Sms, RequestStep(m) PROVE SmsInv'
  BY <1>1, RequestTyped, RequestSecures DEF SmsInv
<1>2. ASSUME NEW h \in Handler, Take(h) PROVE SmsInv'
  BY <1>2, TakeTyped, TakeSecures DEF SmsInv
<1>3. ASSUME NEW h \in Handler, JobStep(h) PROVE SmsInv'
  BY <1>3, JobTyped, JobSecures DEF SmsInv
<1>4. ASSUME \/ Tick \/ RetryExpires
             \/ \E h \in Handler : WorkerDies(h) \/ ChannelLost(h)
      PROVE  SmsInv'
  BY <1>4, BrokerTyped, BrokerSecures DEF SmsInv
<1>5. CASE UNCHANGED vars
  <2>1. SmsTypeOK'
    BY <1>5 DEF SmsInv, SmsTypeOK, vars, Known
  <2>2. SecuredInv'
    BY <1>5 DEF SmsInv, SecuredInv, Secured, Has, Pending, SmsOf, Standing, Stale, vars, Job
  <2>3. QED
    BY <2>1, <2>2 DEF SmsInv
<1>6. QED
  BY <1>1, <1>2, <1>3, <1>4, <1>5 DEF SmsNext

\* The queues, the runs of the worker and the delivery records are well-typed, and every
\* job that asks for a report asks about a send that was accepted.
THEOREM SmsTypeCorrect == SmsSpec => []SmsTypeOK
<1>1. SmsInv => SmsTypeOK
  BY DEF SmsInv
<1>2. QED
  BY <1>1, SmsStart, SmsStep, PTL DEF SmsSpec

\* "never lost", for any number of workers, crashes, lost channels, refused records and
\* retries: a message whose sender was told it is on its way is still on a queue or with a
\* worker, or was accepted, or is dead-lettered, or was a code whose time is over.
THEOREM MessagesAreNeverLost == SmsSpec => []NeverLost
<1>1. SmsInv => NeverLost
  <2> SUFFICES ASSUME SmsInv, NEW m \in Sms, request[m].ok
               PROVE  InFlight(m) \/ m \in dead \/ Standing(m) # {} \/ Stale(m)
    BY DEF NeverLost
  <2>1. Secured(m) /\ QueuesOK
    BY Parts DEF SmsInv, SecuredInv
  <2>2. CASE Has(work, m) \/ Has(retry, m)
    BY <2>1, <2>2 DEF Has, InFlight, Contents
  <2>3. CASE \E h \in Handler : Pending(h) /\ SmsOf(h) = m
    BY <2>3 DEF Pending, InFlight, Job
  <2>4. QED
    BY <2>1, <2>2, <2>3 DEF Secured
<1>2. QED
  BY <1>1, SmsStart, SmsStep, PTL DEF SmsSpec

-----------------------------------------------------------------------------
(***************************************************************************)
(* One bearer per message.  As long as no process, channel or answer is    *)
(* lost, a message that may still be sent is in one place only: with its   *)
(* caller, on a queue once, or with one run of the worker; and what bears  *)
(* it has counted the sends there were.                                    *)
(***************************************************************************)

\* Message m is on queue q at most once.
Once(q, m) == \A i, j \in 1..Len(q) : q[i].sms = m /\ q[j].sms = m => i = j

\* The run may still send its message, or put a copy of it on a queue.
Bearing(h) == handler[h].at \in {"mark", "send", "verify", "giveUp", "park", "report"}
Bears(h, m) == Bearing(h) /\ SmsOf(h) = m

\* The caller may still send the message or hand it to the broker.
Starting(m) == request[m].at \in {"idle", "publish", "direct"}

OneBearer(m) ==
  /\ Once(work, m) /\ Once(retry, m)
  /\ \A g, h \in Handler : Bears(g, m) /\ Bears(h, m) => g = h
  /\ Has(work, m) => ~Has(retry, m)
  /\ \A h \in Handler : Bears(h, m) => ~Has(work, m) /\ ~Has(retry, m)
  /\ Starting(m) => ~Has(work, m) /\ ~Has(retry, m) /\ \A h \in Handler : ~Bears(h, m)

\* A copy on a queue: the sends are in its attempts, save those it could not record as
\* failed, and the only send that may stand is the one it asks about.
CopyDue(c) ==
  /\ sends[c.sms] <= c.attempts + outages
  /\ c.attempts <= MaxAttempts
  /\ c.verify = 0 => c.attempts < MaxAttempts
  /\ Standing(c.sms) \subseteq {c.verify}

\* A run that has not sent yet, or asks for a report; and one that has made its attempt.
RunDue(h) ==
  /\ handler[h].at # "report" => handler[h].copy.verify = 0
  /\ handler[h].at \in {"mark", "send", "report"} => CopyDue(handler[h].copy)
  /\ handler[h].at \in {"verify", "giveUp", "park"} =>
       /\ handler[h].copy.attempts < MaxAttempts
       /\ sends[SmsOf(h)] <= attemptNo(h) + outages
       /\ Standing(SmsOf(h)) \subseteq
            {IF handler[h].at = "verify" THEN Len(report[SmsOf(h)]) ELSE 0}
  /\ handler[h].at = "park" => attemptNo(h) < MaxAttempts
  /\ handler[h].at = "verify" => Len(report[SmsOf(h)]) # 0

\* What holds of every message, wherever it is.
Bounded(m) ==
  /\ sends[m] <= MaxAttempts + outages
  /\ \E n \in Nat : Standing(m) \subseteq {n}

Accounted(m) ==
  /\ Bounded(m)
  /\ Starting(m) => sends[m] = 0 /\ report[m] = <<>>
  /\ \A c \in Contents(work) \cup Contents(retry) : c.sms = m => CopyDue(c)
  /\ \A h \in Handler : Bears(h, m) => RunDue(h)

\* No run has lost its channel.
NoOrphans == \A h \in Handler : handler[h].at # "idle" => handler[h].owns

BearersInv == NoOrphans /\ \A m \in Sms : OneBearer(m) /\ Accounted(m)

BudgetInv == faults = 0 => BearersInv

-----------------------------------------------------------------------------
(***************************************************************************)
(* Queues, with what is on them.                                           *)
(***************************************************************************)

\* A message is on a queue when one of the queue's copies is its.
LEMMA OnQueue ==
  ASSUME NEW q, NEW m
  PROVE  Has(q, m) <=> \E c \in Contents(q) : c.sms = m
  BY DEF Has, Contents

\* A copy that is put at the end of a queue on which its message was not.
LEMMA PutLastOnce ==
  ASSUME NEW S, NEW q \in Seq(S), NEW c \in S
  PROVE  /\ Contents(Append(q, c)) = Contents(q) \cup {c}
         /\ \A m : Once(q, m) /\ (c.sms = m => ~Has(q, m)) => Once(Append(q, c), m)
<1> DEFINE r == Append(q, c)
<1>1. /\ Len(q) \in Nat /\ Len(r) = Len(q) + 1
      /\ \A i \in 1..Len(q) : r[i] = q[i]
      /\ r[Len(q) + 1] = c
  BY AppendProperties, LenProperties
<1> HIDE DEF r
<1>2. 1..Len(r) = 1..Len(q) \cup {Len(q) + 1}
  BY <1>1
<1>3. Contents(r) = Contents(q) \cup {c}
  BY <1>1, <1>2 DEF Contents
<1>4. ASSUME NEW m, Once(q, m), c.sms = m => ~Has(q, m) PROVE Once(r, m)
  <2> SUFFICES ASSUME NEW i \in 1..Len(r), NEW j \in 1..Len(r), r[i].sms = m, r[j].sms = m
               PROVE  i = j
    BY DEF Once
  <2>1. CASE c.sms = m
    BY <1>1, <1>2, <1>4, <2>1 DEF Has
  <2>2. CASE c.sms # m
    BY <1>1, <1>2, <1>4, <2>2 DEF Once
  <2>3. QED
    BY <2>1, <2>2
<1>5. QED
  BY <1>3, <1>4 DEF r

\* One that is put back at its head.
LEMMA PutFirstOnce ==
  ASSUME NEW S, NEW q \in Seq(S), NEW c \in S
  PROVE  /\ Contents(<<c>> \o q) = Contents(q) \cup {c}
         /\ \A m : Once(q, m) /\ (c.sms = m => ~Has(q, m)) => Once(<<c>> \o q, m)
<1>1. <<c>> \in Seq(S) /\ Len(<<c>>) = 1 /\ <<c>>[1] = c
  OBVIOUS
<1> DEFINE s == <<c>>
           r == s \o q
<1>2. s \in Seq(S) /\ Len(s) = 1 /\ s[1] = c
  BY <1>1
<1> HIDE DEF s
<1>3. Len(q) \in Nat
  BY LenProperties
<1>4. /\ Len(r) = 1 + Len(q)
      /\ \A i \in 1..1 + Len(q) : r[i] = IF i <= 1 THEN s[i] ELSE q[i - 1]
  <2>1. /\ s \o q \in Seq(S) /\ Len(s \o q) = Len(s) + Len(q)
        /\ \A i \in 1..Len(s) + Len(q) :
             (s \o q)[i] = IF i <= Len(s) THEN s[i] ELSE q[i - Len(s)]
    BY <1>2, ConcatProperties
  <2> HIDE DEF r
  <2>2. QED
    BY <1>2, <2>1 DEF r
<1> HIDE DEF r
<1>5. /\ r[1] = c /\ 1 \in 1..Len(r)
      /\ \A i \in 1..Len(q) : i + 1 \in 1..Len(r) /\ r[i + 1] = q[i]
      /\ \A i \in 1..Len(r) : i # 1 => i - 1 \in 1..Len(q) /\ r[i] = q[i - 1]
  <2>1. r[1] = c /\ 1 \in 1..Len(r)
    BY <1>2, <1>3, <1>4
  <2>2. ASSUME NEW i \in 1..Len(q) PROVE i + 1 \in 1..Len(r) /\ r[i + 1] = q[i]
    <3> DEFINE k == i + 1
    <3>1. k \in 1..1 + Len(q) /\ ~(k <= 1) /\ k - 1 = i
      BY <1>3
    <3> HIDE DEF k
    <3>2. k \in 1..Len(r) /\ r[k] = q[i]
      BY <1>4, <3>1
    <3>3. QED
      BY <3>2 DEF k
  <2>3. ASSUME NEW i \in 1..Len(r), i # 1 PROVE i - 1 \in 1..Len(q) /\ r[i] = q[i - 1]
    BY <1>3, <1>4, <2>3
  <2>4. QED
    BY <2>1, <2>2, <2>3
<1>6. Contents(r) = Contents(q) \cup {c}
  <2>1. Contents(q) \cup {c} \subseteq Contents(r)
    <3>1. c \in Contents(r)
      BY <1>5 DEF Contents
    <3>2. ASSUME NEW i \in 1..Len(q) PROVE q[i] \in Contents(r)
      <4>1. i + 1 \in 1..Len(r) /\ r[i + 1] = q[i]
        BY <1>5
      <4>2. QED
        BY <4>1 DEF Contents
    <3>3. QED
      BY <3>1, <3>2 DEF Contents
  <2>2. ASSUME NEW i \in 1..Len(r) PROVE r[i] \in Contents(q) \cup {c}
    <3>1. CASE i = 1
      BY <1>5, <3>1
    <3>2. CASE i # 1
      <4>1. i - 1 \in 1..Len(q) /\ r[i] = q[i - 1]
        BY <1>5, <3>2
      <4>2. QED
        BY <4>1 DEF Contents
    <3>3. QED
      BY <3>1, <3>2
  <2>3. QED
    BY <2>1, <2>2 DEF Contents
<1>7. ASSUME NEW m, Once(q, m), c.sms = m => ~Has(q, m) PROVE Once(r, m)
  <2> SUFFICES ASSUME NEW i \in 1..Len(r), NEW j \in 1..Len(r), r[i].sms = m, r[j].sms = m
               PROVE  i = j
    BY DEF Once
  <2>1. CASE c.sms = m
    <3>1. ASSUME NEW k \in 1..Len(r), r[k].sms = m, k # 1 PROVE FALSE
      <4>1. k - 1 \in 1..Len(q) /\ q[k - 1].sms = m
        BY <1>5, <3>1
      <4>2. QED
        BY <1>7, <2>1, <4>1 DEF Has
    <3>2. QED
      BY <3>1
  <2>2. CASE c.sms # m
    <3>1. i - 1 \in 1..Len(q) /\ j - 1 \in 1..Len(q) /\ q[i - 1].sms = m /\ q[j - 1].sms = m
      BY <1>5, <2>2
    <3>2. i - 1 = j - 1
      BY <1>7, <3>1 DEF Once
    <3>3. QED
      BY <1>3, <1>4, <3>2
  <2>3. QED
    BY <2>1, <2>2
<1>8. QED
  BY <1>6, <1>7 DEF r, s

\* The first copy is taken, and its message is not on the queue any more.
LEMMA TakenOnce ==
  ASSUME NEW S, NEW q \in Seq(S), q # <<>>
  PROVE  /\ Head(q) \in Contents(q) /\ Contents(Tail(q)) \subseteq Contents(q)
         /\ \A m : Once(q, m) => /\ Once(Tail(q), m)
                                 /\ Head(q).sms = m => ~Has(Tail(q), m)
<1> DEFINE r == Tail(q)
<1>1. /\ Len(q) \in Nat /\ Len(q) > 0 /\ Len(r) = Len(q) - 1
      /\ \A i \in 1..Len(r) : r[i] = q[i + 1]
      /\ Head(q) = q[1]
  BY HeadTailProperties, LenProperties, EmptySeq
<1> HIDE DEF r
<1>2. 1 \in 1..Len(q) /\ \A i \in 1..Len(r) : i + 1 \in 1..Len(q) /\ i + 1 # 1
  BY <1>1
<1>3. Head(q) \in Contents(q) /\ Contents(r) \subseteq Contents(q)
  BY <1>1, <1>2 DEF Contents
<1>4. ASSUME NEW m, Once(q, m) PROVE Once(r, m) /\ (Head(q).sms = m => ~Has(r, m))
  <2>1. ASSUME NEW i \in 1..Len(r), NEW j \in 1..Len(r), r[i].sms = m, r[j].sms = m
        PROVE  i = j
    <3>1. i + 1 = j + 1
      BY <1>1, <1>2, <1>4, <2>1 DEF Once
    <3>2. QED
      BY <1>1, <3>1
  <2>2. ASSUME Head(q).sms = m, NEW i \in 1..Len(r), r[i].sms = m PROVE FALSE
    BY <1>1, <1>2, <1>4, <2>2 DEF Once
  <2>3. QED
    BY <2>1, <2>2 DEF Once, Has
<1>5. QED
  BY <1>3, <1>4 DEF r

-----------------------------------------------------------------------------
(***************************************************************************)
(* What becomes of the bearers.                                            *)
(***************************************************************************)

\* Nothing is sent or reported of message m, and no fewer statements are refused.
Steady(m) == /\ sends'[m] = sends[m] /\ report'[m] = report[m]
             /\ outages \in Nat /\ outages' \in Nat /\ outages <= outages'

\* What a steady message is due, it stays due.
LEMMA DueKept ==
  ASSUME RecordsOK, NEW m \in Sms, Steady(m)
  PROVE  /\ Bounded(m) => Bounded(m)'
         /\ \A c \in Copy : c.sms = m /\ CopyDue(c) => CopyDue(c)'
         /\ \A h \in Handler : /\ handler[h] \in JobType /\ handler[h].copy \in Copy
                               /\ SmsOf(h) = m /\ handler'[h] = handler[h] /\ RunDue(h)
                               => RunDue(h)'
<1>1. /\ sends'[m] = sends[m] /\ sends[m] \in Nat /\ report'[m] = report[m]
      /\ outages \in Nat /\ outages' \in Nat /\ outages <= outages' /\ Standing(m)' = Standing(m)
      /\ MaxAttempts \in Nat
  BY Numbers DEF Steady, RecordsOK, Standing
<1>2. Bounded(m) => Bounded(m)'
  BY <1>1 DEF Bounded
<1>3. ASSUME NEW c \in Copy, c.sms = m, CopyDue(c) PROVE CopyDue(c)'
  <2>1. c.attempts \in Nat
    BY DEF Copy
  <2>2. sends'[c.sms] <= c.attempts + outages'
    BY <1>1, <1>3, <2>1 DEF CopyDue
  <2>3. QED
    BY <1>1, <1>3, <2>2 DEF CopyDue
<1>4. ASSUME NEW h \in Handler, handler[h].copy \in Copy, SmsOf(h) = m,
             handler'[h] = handler[h], RunDue(h)
      PROVE  RunDue(h)'
  <2> DEFINE c == handler[h].copy
  <2>1. /\ c \in Copy /\ c.sms = m /\ c.attempts \in Nat
        /\ handler'[h].copy = c /\ handler'[h].at = handler[h].at
        /\ SmsOf(h) = m /\ SmsOf(h)' = m /\ attemptNo(h)' = attemptNo(h) /\ attemptNo(h) \in Nat
    BY <1>4 DEF Copy, SmsOf, attemptNo
  <2>2. handler[h].at \in {"mark", "send", "report"} => CopyDue(handler[h].copy)'
    BY <1>3, <1>4, <2>1 DEF RunDue
  <2>3. handler[h].at \in {"verify", "giveUp", "park"} =>
          /\ c.attempts < MaxAttempts
          /\ sends'[m] <= attemptNo(h) + outages'
          /\ Standing(m)' \subseteq {IF handler[h].at = "verify" THEN Len(report'[m]) ELSE 0}
    <3>1. SUFFICES ASSUME handler[h].at \in {"verify", "giveUp", "park"}
                   PROVE  /\ c.attempts < MaxAttempts
                          /\ sends'[m] <= attemptNo(h) + outages'
                          /\ Standing(m)' \subseteq
                               {IF handler[h].at = "verify" THEN Len(report'[m]) ELSE 0}
      OBVIOUS
    <3>2. /\ c.attempts < MaxAttempts /\ sends[m] <= attemptNo(h) + outages
          /\ Standing(m) \subseteq {IF handler[h].at = "verify" THEN Len(report[m]) ELSE 0}
      BY <1>4, <2>1, <3>1 DEF RunDue
    <3>3. sends'[m] <= attemptNo(h) + outages'
      BY <1>1, <2>1, <3>2
    <3>4. QED
      BY <1>1, <3>2, <3>3
  <2>4. handler[h].at # "report" => c.verify = 0
    BY <1>4 DEF RunDue
  <2>5. /\ handler[h].at = "park" => attemptNo(h) < MaxAttempts
        /\ handler[h].at = "verify" => Len(report'[m]) # 0
    BY <1>1, <1>4 DEF RunDue
  <2> HIDE DEF c
  <2>6. QED
    BY <2>1, <2>2, <2>3, <2>4, <2>5 DEF RunDue, c
<1>5. QED
  BY <1>2, <1>3, <1>4

\* The step passes message m by: nothing new bears it.
PassesBy(m) ==
  /\ Once(work, m) => Once(work', m)
  /\ Once(retry, m) => Once(retry', m)
  /\ \A c \in Contents(work') : c.sms = m => c \in Contents(work)
  /\ \A c \in Contents(retry') : c.sms = m => c \in Contents(retry)
  /\ \A h \in Handler : Bears(h, m)' => Bears(h, m) /\ handler'[h] = handler[h]
  /\ Starting(m)' => Starting(m)

\* Such a message is borne as before.
LEMMA PassedBy ==
  ASSUME SmsTypeOK, NEW m \in Sms, OneBearer(m), Accounted(m), Steady(m), PassesBy(m)
  PROVE  OneBearer(m)' /\ Accounted(m)'
<1>0. QueuesOK /\ JobsOK /\ RecordsOK
  BY Parts
<1>1. /\ Has(work', m) => Has(work, m)
      /\ Has(retry', m) => Has(retry, m)
  BY OnQueue DEF PassesBy
<1>2. OneBearer(m)'
  BY <1>1 DEF PassesBy, OneBearer
<1>3. Bounded(m)' /\ (Starting(m)' => sends'[m] = 0 /\ report'[m] = <<>>)
  BY <1>0, DueKept DEF Accounted, Steady, PassesBy
<1>4. ASSUME NEW c \in Contents(work') \cup Contents(retry'), c.sms = m PROVE CopyDue(c)'
  <2>1. c \in Contents(work) \cup Contents(retry)
    BY <1>4 DEF PassesBy
  <2>2. c \in Copy
    BY <1>0, <2>1 DEF QueuesOK, Contents, Known
  <2>3. QED
    BY <1>0, <1>4, <2>1, <2>2, DueKept DEF Accounted
<1>5. ASSUME NEW h \in Handler, Bears(h, m)' PROVE RunDue(h)'
  <2>1. Bears(h, m) /\ handler'[h] = handler[h]
    BY <1>5 DEF PassesBy
  <2>2. handler[h] \in JobType /\ handler[h].copy \in Copy /\ SmsOf(h) = m
    BY <1>0, <2>1 DEF Bears, Bearing, JobsOK, JobOK, Known
  <2>3. QED
    BY <1>0, <2>1, <2>2, DueKept DEF Accounted
<1>6. QED
  BY <1>2, <1>3, <1>4, <1>5 DEF Accounted

\* All messages but at most one are left as they are.
AllSteadyBut(m) == \A k \in Sms \ {m} : Steady(k)

\* The run that bears a message goes on with it, or is done with it.
LEMMA RunGoesOn ==
  ASSUME SmsTypeOK, BearersInv, NEW h \in Handler, NEW s \in Sms, Bears(h, s),
         UNCHANGED <<work, retry, request>>, Others(h), AllSteadyBut(s),
         Bearing(h)' => SmsOf(h)' = s /\ RunDue(h)',
         Bounded(s)'
  PROVE  \A m \in Sms : OneBearer(m)' /\ Accounted(m)'
<1>0. JobsOK /\ QueuesOK
  BY Parts
<1>1. \A m \in Sms : OneBearer(m) /\ Accounted(m)
  BY DEF BearersInv
<1>2. \A g \in Handler \ {h} : \A m : Bears(g, m)' => Bears(g, m) /\ handler'[g] = handler[g]
  BY DEF Others, Bears, Bearing, SmsOf
<1>3. \A m : Bears(h, m)' => m = s /\ RunDue(h)'
  BY DEF Bears
<1>4. ASSUME NEW m \in Sms, m # s PROVE OneBearer(m)' /\ Accounted(m)'
  <2>1. PassesBy(m)
    BY <1>2, <1>3, <1>4 DEF PassesBy, Starting, Once
  <2>2. QED
    BY <1>1, <1>4, <2>1, PassedBy DEF AllSteadyBut
<1>5. /\ ~Has(work, s) /\ ~Has(retry, s) /\ ~Starting(s)
      /\ \A g \in Handler : Bears(g, s) => g = h
  BY <1>1 DEF OneBearer
<1>6. /\ ~Has(work', s) /\ ~Has(retry', s) /\ ~Starting(s)'
      /\ \A g \in Handler : Bears(g, s)' => g = h
  BY <1>2, <1>5 DEF Has, Starting
<1>7. OneBearer(s)'
  <2>1. Once(work', s) /\ Once(retry', s)
    BY <1>6 DEF Has, Once
  <2>2. QED
    BY <1>6, <2>1 DEF OneBearer
<1>8. Accounted(s)'
  <2>1. \A c \in Contents(work') \cup Contents(retry') : c.sms # s
    BY <1>6, OnQueue
  <2>2. QED
    BY <1>3, <1>6, <2>1 DEF Accounted
<1>9. QED
  BY <1>4, <1>7, <1>8

\* The run puts a copy of its message on a queue, and is done with it.
LEMMA RunPuts ==
  ASSUME SmsTypeOK, BearersInv, NEW h \in Handler, NEW s \in Sms, Bears(h, s), UNCHANGED request,
         NEW c \in Known, c.sms = s, CopyDue(c)',
         \/ work' = <<c>> \o work /\ retry' = retry
         \/ retry' = Append(retry, c) /\ work' = work,
         Others(h), AllSteadyBut(s), ~Bearing(h)', Bounded(s)'
  PROVE  \A m \in Sms : OneBearer(m)' /\ Accounted(m)'
<1>0. JobsOK /\ QueuesOK
  BY Parts
<1>1. \A m \in Sms : OneBearer(m) /\ Accounted(m)
  BY DEF BearersInv
<1>2. \A g \in Handler : \A m : Bears(g, m)' => Bears(g, m) /\ handler'[g] = handler[g]
  BY DEF Others, Bears, Bearing, SmsOf
<1>3. /\ \/ Contents(work') = Contents(work) \cup {c} /\ Contents(retry') = Contents(retry)
         \/ Contents(retry') = Contents(retry) \cup {c} /\ Contents(work') = Contents(work)
      /\ \A m : /\ Once(work, m) /\ (m = s => ~Has(work, m)) => Once(work', m)
                /\ Once(retry, m) /\ (m = s => ~Has(retry, m)) => Once(retry', m)
  <2>1. CASE work' = <<c>> \o work /\ retry' = retry
    BY <1>0, <2>1, PutFirstOnce DEF QueuesOK
  <2>2. CASE retry' = Append(retry, c) /\ work' = work
    BY <1>0, <2>2, PutLastOnce DEF QueuesOK
  <2>3. QED
    BY <2>1, <2>2
<1>4. ASSUME NEW m \in Sms, m # s PROVE OneBearer(m)' /\ Accounted(m)'
  <2>1. PassesBy(m)
    BY <1>2, <1>3, <1>4 DEF PassesBy, Starting
  <2>2. QED
    BY <1>1, <1>4, <2>1, PassedBy DEF AllSteadyBut
<1>5. /\ ~Has(work, s) /\ ~Has(retry, s) /\ ~Starting(s)
      /\ \A g \in Handler : Bears(g, s) => g = h
      /\ Once(work, s) /\ Once(retry, s)
  BY <1>1 DEF OneBearer
<1>6. \A g \in Handler : ~Bears(g, s)'
  BY <1>2, <1>5 DEF Bears
<1>7. \A k \in Contents(work) \cup Contents(retry) : k.sms # s
  BY <1>5, OnQueue
<1>8. ~Has(work', s) \/ ~Has(retry', s)
  BY <1>3, <1>7, OnQueue
<1>9. OneBearer(s)'
  BY <1>3, <1>5, <1>6, <1>8 DEF OneBearer, Starting
<1>10. Accounted(s)'
  BY <1>3, <1>5, <1>6, <1>7 DEF Accounted, Starting
<1>11. QED
  BY <1>4, <1>9, <1>10

-----------------------------------------------------------------------------
(***************************************************************************)
(* What becomes of the sends that stand.                                   *)
(***************************************************************************)

\* The sends that stand are numbered from one.
LEMMA StandingNumbers ==
  ASSUME ReportsOK, NEW m \in Sms
  PROVE  /\ report[m] \in Seq(Answer) /\ Len(report[m]) \in Nat
         /\ Standing(m) \subseteq 1..Len(report[m])
  BY LenProperties DEF ReportsOK, Standing

\* After a first send, or after one when none stands, only the last one may stand.
LEMMA OneMoreSend ==
  ASSUME ReportsOK, NEW m \in Sms, Standing(m) \subseteq {0},
         report' = [report EXCEPT ![m] = Append(@, "pending")]
  PROVE  /\ Len(report'[m]) \in Nat /\ Len(report'[m]) # 0 /\ Standing(m)' \subseteq {Len(report'[m])}
         /\ \A k \in Sms : k # m => report'[k] = report[k]
<1> DEFINE q == report[m]
           r == Append(q, "pending")
<1>1. q \in Seq(Answer) /\ Len(q) \in Nat /\ DOMAIN q = 1..Len(q) /\ Standing(m) = {}
  BY StandingNumbers, LenProperties
<1>2. \A i \in 1..Len(q) : q[i] = "failed"
  BY <1>1 DEF Standing
<1>3. /\ r \in Seq(Answer) /\ Len(r) = Len(q) + 1
      /\ \A i \in 1..Len(q) : r[i] = q[i]
  <2> HIDE DEF q
  <2>1. QED
    BY <1>1, AppendProperties DEF Answer
<1>4. /\ report'[m] = r
      /\ \A k \in Sms : k # m => report'[k] = report[k]
  BY DEF ReportsOK
<1> HIDE DEF q, r
<1>5. Len(r) \in Nat /\ Len(r) # 0 /\ DOMAIN r = 1..Len(r)
  BY <1>1, <1>3, LenProperties
<1>6. Standing(m)' \subseteq {Len(r)}
  <2>1. ASSUME NEW i \in DOMAIN r, r[i] # "failed" PROVE i = Len(r)
    BY <1>1, <1>2, <1>3, <1>5, <2>1
  <2>2. QED
    BY <1>4, <2>1 DEF Standing
<1>7. QED
  BY <1>4, <1>5, <1>6

\* An answer about the only send that may stand: none other stands after it, and none
\* at all when it failed.
LEMMA OneAnswer ==
  ASSUME ReportsOK, NEW c \in Known, c.verify # 0, NEW r \in Answer,
         Standing(c.sms) \subseteq {c.verify},
         report' = [report EXCEPT ![c.sms][c.verify] = r]
  PROVE  /\ Standing(c.sms)' \subseteq {c.verify}
         /\ r = "failed" => Standing(c.sms)' \subseteq {0}
         /\ \A k \in Sms : k # c.sms => report'[k] = report[k]
<1> DEFINE q == report[c.sms]
           s == [q EXCEPT ![c.verify] = r]
<1>1. /\ c.sms \in Sms /\ q \in Seq(Answer) /\ Len(q) \in Nat /\ c.verify \in 1..Len(q)
      /\ DOMAIN q = 1..Len(q)
  BY LenProperties DEF ReportsOK, Known, Copy
<1>2. \A i \in 1..Len(q) : q[i] = "failed" \/ i = c.verify
  BY <1>1 DEF Standing
<1>3. /\ DOMAIN s = 1..Len(q) /\ s[c.verify] = r
      /\ \A i \in 1..Len(q) : i # c.verify => s[i] = q[i]
  <2> HIDE DEF q
  <2>1. QED
    BY <1>1
<1>4. /\ report'[c.sms] = s
      /\ \A k \in Sms : k # c.sms => report'[k] = report[k]
  BY <1>1 DEF ReportsOK
<1> HIDE DEF q, s
<1>5. Standing(c.sms)' = {i \in DOMAIN s : s[i] # "failed"}
  BY <1>4 DEF Standing
<1>6. QED
  BY <1>2, <1>3, <1>4, <1>5

\* The attempts and the questions of the copies a run puts on a queue.
LEMMA CopiesCounted ==
  ASSUME NEW c \in Copy, NEW t \in Nat, NEW l \in Nat
  PROVE  LET v == [c EXCEPT !.attempts = t, !.checks = 0, !.verify = l]
             r == [c EXCEPT !.attempts = t]
             f == [c EXCEPT !.verify = 0, !.checks = 0]
             n == NextCheck(c)
         IN  /\ v.verify = l /\ v.attempts = t
             /\ r.verify = c.verify /\ r.attempts = t
             /\ f.verify = 0 /\ f.attempts = c.attempts
             /\ n.verify = c.verify /\ n.attempts = c.attempts
<1> DEFINE v0 == [c EXCEPT !.attempts = t, !.checks = 0]
           v  == [c EXCEPT !.attempts = t, !.checks = 0, !.verify = l]
           r  == [c EXCEPT !.attempts = t]
           f  == [c EXCEPT !.verify = 0, !.checks = 0]
           n  == NextCheck(c)
<1>1. v.verify = l /\ v.attempts = t
  <2>1. v0 \in Copy /\ v0.attempts = t
    BY DEF Copy
  <2>2. v = [v0 EXCEPT !.verify = l]
    BY DEF Copy
  <2> HIDE DEF v, v0
  <2>3. QED
    BY <2>1, <2>2 DEF Copy
<1>2. r.verify = c.verify /\ r.attempts = t
  BY DEF Copy
<1>3. f.verify = 0 /\ f.attempts = c.attempts
  BY DEF Copy
<1>4. n.verify = c.verify /\ n.attempts = c.attempts
  BY DEF Copy, NextCheck
<1> HIDE DEF v, r, f, n
<1>5. QED
  BY <1>1, <1>2, <1>3, <1>4 DEF v, r, f, n

-----------------------------------------------------------------------------
(***************************************************************************)
(* Every step that loses nothing keeps the account.                        *)
(***************************************************************************)

\* A run that bears a message: it has its copy, and what the copy is due is known.
LEMMA BearingKnown ==
  ASSUME SmsTypeOK, BearersInv, NEW h \in Handler, Bearing(h)
  PROVE  \E c \in Known, s \in Sms, t \in Nat :
           /\ handler[h].copy = c /\ c.sms = s /\ SmsOf(h) = s /\ t = c.attempts + 1 /\ t = attemptNo(h)
           /\ c \in Copy /\ c.attempts \in Nat /\ c.verify \in Nat /\ handler[h].owns
           /\ handler[h].at # "idle" /\ Bears(h, s) /\ RunDue(h) /\ Bounded(s)
           /\ c.attempts <= MaxAttempts
<1>1. /\ JobsOK /\ handler[h].at # "idle"
      /\ handler[h].copy \in Known /\ SmsOf(h) \in Sms /\ attemptNo(h) \in Nat
  BY Parts, CopyKnown DEF Bearing
<1>2. /\ handler[h].copy \in Copy /\ handler[h].copy.attempts \in Nat
      /\ handler[h].copy.verify \in Nat
  BY <1>1 DEF Known, Copy
<1>3. Bears(h, SmsOf(h)) /\ RunDue(h) /\ Bounded(SmsOf(h)) /\ handler[h].owns
  BY <1>1 DEF BearersInv, NoOrphans, Accounted, Bears
<1>4. handler[h].copy.attempts <= MaxAttempts
  BY <1>2, <1>3, Numbers DEF RunDue, Bearing, CopyDue
<1>5. QED
  BY <1>1, <1>2, <1>3, <1>4 DEF SmsOf, attemptNo

\* The steps of a run that bears a message, up to the record of what became of it.
JobBears(h) ==
  \/ MarkSending(h) \/ Send(h) \/ ScheduleVerification(h) \/ GiveUp(h) \/ ParkForRetry(h)
  \/ CheckReport(h)

\* Such a step keeps the account, unless it is a fault.
LEMMA JobBearers ==
  ASSUME SmsTypeOK, SmsTypeOK', BearersInv, faults' = faults, NEW h \in Handler,
         JobBears(h), Others(h), Known \subseteq Known'
  PROVE  BearersInv'
<1>0. /\ QueuesOK /\ JobsOK /\ ReportsOK /\ RecordsOK /\ ReportsOK' /\ RecordsOK'
      /\ Bearing(h) /\ UNCHANGED request
  BY Parts DEF JobBears, MarkSending, Send, ScheduleVerification, GiveUp, ParkForRetry, CheckReport,
     Bearing, Job
<1>1. PICK c \in Known, s \in Sms, t \in Nat :
        /\ handler[h].copy = c /\ c.sms = s /\ SmsOf(h) = s /\ t = c.attempts + 1 /\ t = attemptNo(h)
        /\ c \in Copy /\ c.attempts \in Nat /\ c.verify \in Nat /\ handler[h].owns
        /\ handler[h].at # "idle" /\ Bears(h, s) /\ RunDue(h) /\ Bounded(s)
        /\ c.attempts <= MaxAttempts
  BY <1>0, BearingKnown
<1>2. /\ sends \in [Sms -> Nat] /\ sends' \in [Sms -> Nat] /\ outages \in Nat /\ outages' \in Nat
      /\ MaxAttempts \in Nat /\ sends[s] \in Nat /\ sends'[s] \in Nat
  BY <1>0, Numbers DEF RecordsOK
<1>3. Standing(s) \subseteq 1..Len(report[s]) /\ Len(report[s]) \in Nat
  BY <1>0, StandingNumbers
\* The run keeps its place, moves on, or is over: it has its channel.
<1>4. ASSUME handler'[h].at # "idle" => handler'[h].owns PROVE NoOrphans'
  BY <1>4 DEF NoOrphans, BearersInv, Others
<1>5. ASSUME UNCHANGED <<sends, report>>, outages <= outages'
      PROVE  \A k \in Sms : Steady(k)
  BY <1>2, <1>5 DEF Steady
\* It goes on with the copy.
<1>6. ASSUME NEW at \in {"send", "verify", "giveUp", "park"}, Go(h, at), UNCHANGED <<work, retry>>,
             AllSteadyBut(s), RunDue(h)', Bounded(s)'
      PROVE  BearersInv'
  <2>1. handler'[h].at = at /\ handler'[h].owns /\ handler'[h].copy = c
    BY <1>0, <1>1, <1>6, GoesOn
  <2>2. SmsOf(h)' = s
    BY <1>1, <2>1 DEF SmsOf
  <2>3. \A m \in Sms : OneBearer(m)' /\ Accounted(m)'
    BY <1>0, <1>1, <1>6, <2>2, RunGoesOn
  <2>4. QED
    BY <1>4, <2>1, <2>3 DEF BearersInv
\* It records what became of the message, which is then on no queue.
<1>7. ASSUME UNCHANGED <<work, retry>>, AllSteadyBut(s), Bounded(s)',
             handler'[h].at \in {"note", "finish"}, handler'[h].owns
      PROVE  BearersInv'
  <2>1. ~Bearing(h)'
    BY <1>7 DEF Bearing
  <2>2. \A m \in Sms : OneBearer(m)' /\ Accounted(m)'
    BY <1>0, <1>1, <1>7, <2>1, RunGoesOn
  <2>3. QED
    BY <1>4, <1>7, <2>2 DEF BearersInv
\* It puts a copy on a queue.
<1>8. ASSUME NEW d \in Known, d.sms = s, CopyDue(d)', Bounded(s)', AllSteadyBut(s),
             \/ work' = <<d>> \o work /\ retry' = retry
             \/ retry' = Append(retry, d) /\ work' = work,
             (handler'[h].at = "note" /\ handler'[h].owns) \/ End(h)
      PROVE  BearersInv'
  <2>1. ~Bearing(h)' /\ (handler'[h].at # "idle" => handler'[h].owns)
    BY <1>0, <1>8 DEF Bearing, End, NoJob, JobsOK
  <2>2. \A m \in Sms : OneBearer(m)' /\ Accounted(m)'
    BY <1>0, <1>1, <1>8, <2>1, RunPuts
  <2>3. QED
    BY <1>4, <2>1, <2>2 DEF BearersInv
\* Its attempt has failed.
<1>9. ASSUME AttemptFails(h), UNCHANGED <<work, retry>>, AllSteadyBut(s), c.verify = 0,
             c.attempts < MaxAttempts, sends'[s] <= t + outages', Standing(s)' \subseteq {0}
      PROVE  BearersInv'
  <2>1. PICK at \in {"giveUp", "park"} : Go(h, at) /\ (at = "park" => t < MaxAttempts)
    BY <1>1, <1>2, <1>9 DEF AttemptFails
  <2>2. handler'[h].at = at /\ handler'[h].copy = c
    BY <1>0, <1>1, <2>1, GoesOn
  <2>3. SmsOf(h)' = s /\ attemptNo(h)' = t
    BY <1>1, <2>2 DEF SmsOf, attemptNo
  <2>4. RunDue(h)'
    BY <1>1, <1>9, <2>1, <2>2, <2>3 DEF RunDue
  <2>5. Bounded(s)'
    <3>1. sends'[s] <= MaxAttempts + outages'
      BY <1>1, <1>2, <1>9
    <3>2. QED
      BY <1>9, <3>1 DEF Bounded
  <2>6. QED
    BY <1>6, <1>9, <2>1, <2>4, <2>5
\* What is due before an attempt, and after one.
<1>10. ASSUME handler[h].at \in {"mark", "send"}
       PROVE  /\ c.verify = 0 /\ c.attempts < MaxAttempts
              /\ sends[s] <= c.attempts + outages /\ Standing(s) \subseteq {0}
  BY <1>1, <1>10 DEF RunDue, CopyDue
<1>11. ASSUME handler[h].at \in {"verify", "giveUp", "park"}
       PROVE  /\ c.verify = 0 /\ c.attempts < MaxAttempts /\ sends[s] <= t + outages
              /\ Standing(s) \subseteq {IF handler[h].at = "verify" THEN Len(report[s]) ELSE 0}
              /\ handler[h].at = "park" => t < MaxAttempts
              /\ handler[h].at = "verify" => Len(report[s]) # 0
  BY <1>1, <1>11 DEF RunDue
<1>12. CASE MarkSending(h)
  <2>1. handler[h].at = "mark" /\ UNCHANGED <<work, retry, sends, report>>
    BY <1>12 DEF MarkSending, Job, queues
  <2>2. CASE Recorded(s, "sending") /\ Go(h, "send")
    <3>1. outages' = outages
      BY <2>2 DEF Recorded
    <3>2. AllSteadyBut(s) /\ Bounded(s)' /\ CopyDue(c)'
      BY <1>0, <1>1, <1>2, <1>5, <2>1, <3>1, DueKept DEF AllSteadyBut, RunDue
    <3>3. handler'[h].at = "send" /\ handler'[h].copy = c
      BY <1>0, <1>1, <2>2, GoesOn
    <3>4. RunDue(h)'
      BY <1>10, <2>1, <3>2, <3>3 DEF RunDue
    <3>5. QED
      BY <1>6, <2>1, <2>2, <3>2, <3>4
  <2>3. CASE Refused(s) /\ AttemptFails(h)
    <3>1. outages' = outages + 1
      BY <2>3 DEF Refused
    <3>2. AllSteadyBut(s) /\ sends'[s] <= t + outages' /\ Standing(s)' \subseteq {0}
      BY <1>1, <1>2, <1>5, <1>10, <2>1, <3>1 DEF AllSteadyBut, Standing
    <3>3. QED
      BY <1>9, <1>10, <2>1, <2>3, <3>2
  <2>4. QED
    BY <1>1, <1>12, <2>2, <2>3 DEF MarkSending
<1>13. CASE Send(h)
  <2>1. /\ handler[h].at = "send" /\ UNCHANGED <<work, retry, outages>>
        /\ sends' = [sends EXCEPT ![s] = @ + 1]
    BY <1>1, <1>13 DEF Send, Job, queues
  <2>2. /\ sends'[s] = sends[s] + 1 /\ sends'[s] <= t + outages'
        /\ \A k \in Sms : k # s => sends'[k] = sends[k]
    BY <1>1, <1>2, <1>10, <2>1
  <2>3. CASE Accepts(s) /\ (Go(h, "verify") \/ NoteThen(h, "accepted", "ackSent"))
    <3>1. /\ Len(report'[s]) \in Nat /\ Len(report'[s]) # 0 /\ Standing(s)' \subseteq {Len(report'[s])}
          /\ \A k \in Sms : k # s => report'[k] = report[k]
      BY <1>0, <1>10, <2>1, <2>3, OneMoreSend DEF Accepts
    <3>2. AllSteadyBut(s)
      BY <1>2, <2>1, <2>2, <3>1 DEF AllSteadyBut, Steady
    <3>3. sends'[s] <= MaxAttempts + outages'
      BY <1>1, <1>2, <1>10, <2>1, <2>2
    <3>4. Bounded(s)'
      BY <3>1, <3>3 DEF Bounded
    <3>5. CASE Go(h, "verify")
      <4>1. handler'[h].at = "verify" /\ handler'[h].copy = c
        BY <1>0, <1>1, <3>5, GoesOn
      <4>2. SmsOf(h)' = s /\ attemptNo(h)' = t
        BY <1>1, <4>1 DEF SmsOf, attemptNo
      <4>3. RunDue(h)'
        BY <1>10, <2>1, <2>2, <3>1, <4>1, <4>2 DEF RunDue
      <4>4. QED
        BY <1>6, <2>1, <3>2, <3>4, <3>5, <4>3
    <3>6. CASE NoteThen(h, "accepted", "ackSent")
      BY <1>0, <1>1, <1>7, <2>1, <3>2, <3>4, <3>6, Notes DEF Status
    <3>7. QED
      BY <2>3, <3>5, <3>6
  <2>4. CASE Declines /\ AttemptFails(h)
    <3>1. AllSteadyBut(s) /\ Standing(s)' \subseteq {0}
      BY <1>2, <1>10, <2>1, <2>2, <2>4 DEF AllSteadyBut, Steady, Declines, Standing
    <3>2. QED
      BY <1>9, <1>10, <2>1, <2>2, <2>4, <3>1
  <2>5. ~AnswerLost(s)
    BY <1>0 DEF AnswerLost, Fault, RecordsOK
  <2>6. QED
    BY <1>1, <1>13, <2>3, <2>4, <2>5 DEF Send
<1>14. CASE ScheduleVerification(h)
  <2>1. handler[h].at = "verify" /\ UNCHANGED <<work, sends, report, outages>>
    BY <1>14 DEF ScheduleVerification, Job
  <2>2. PICK l \in Nat : l = Len(report[s])
    BY <1>3
  <2> DEFINE d == [c EXCEPT !.attempts = t, !.checks = 0, !.verify = l]
  <2>3. d \in Known /\ d.sms = s
    <3>1. LET v == [handler[h].copy EXCEPT !.attempts = attemptNo(h), !.checks = 0,
                      !.verify = Len(report[SmsOf(h)])]
          IN  v \in Known /\ v.sms = handler[h].copy.sms
      BY <1>0, <1>1, CopiesMade
    <3>2. QED
      BY <1>1, <2>2, <3>1
  <2>4. d.verify = l /\ d.attempts = t
    BY <1>1, CopiesCounted
  <2>5. retry' = Append(retry, d) /\ NoteThen(h, "accepted", "ackSent")
    <3>1. retry' = Append(retry, [c EXCEPT !.attempts = t, !.checks = 0, !.verify = Len(report[s])])
          /\ NoteThen(h, "accepted", "ackSent")
      BY <1>1, <1>14, Zenon DEF ScheduleVerification, Park, Job
    <3>2. QED
      BY <2>2, <3>1
  <2> HIDE DEF d
  <2>6. AllSteadyBut(s) /\ Bounded(s)'
    BY <1>0, <1>1, <1>2, <1>5, <2>1, DueKept DEF AllSteadyBut
  <2>7. CopyDue(d)'
    <3>1. t <= MaxAttempts /\ sends[s] <= t + outages /\ Standing(s)' \subseteq {d.verify}
      BY <1>1, <1>2, <1>11, <2>1, <2>2, <2>4 DEF Standing
    <3>2. Len(report[s]) # 0
      BY <1>11, <2>1
    <3>3. QED
      BY <2>1, <2>2, <2>3, <2>4, <3>1, <3>2 DEF CopyDue
  <2>8. handler'[h].at = "note" /\ handler'[h].owns
    BY <1>0, <1>1, <2>5, Notes DEF Status
  <2>9. QED
    BY <1>8, <2>1, <2>3, <2>5, <2>6, <2>7, <2>8
<1>15. CASE GiveUp(h)
  <2>1. handler[h].at = "giveUp" /\ UNCHANGED <<retry, sends, report>>
    BY <1>15 DEF GiveUp, Job
  <2>2. CASE /\ Recorded(s, "failed") /\ UNCHANGED work
             /\ handler' = [handler EXCEPT ![h].at = "finish", ![h].then = "dead"]
    <3>1. AllSteadyBut(s) /\ Bounded(s)'
      BY <1>0, <1>1, <1>2, <1>5, <2>1, <2>2, DueKept DEF AllSteadyBut, Recorded
    <3>2. handler'[h].at = "finish" /\ handler'[h].owns
      BY <1>0, <1>1, <2>2, GivesUp
    <3>3. QED
      BY <1>7, <2>1, <2>2, <3>1, <3>2
  <2>3. CASE Refused(s) /\ Requeue(h) /\ End(h)
    <3>1. outages' = outages + 1 /\ work' = <<c>> \o work
      BY <1>1, <2>3 DEF Refused, Requeue, Job
    <3>2. AllSteadyBut(s) /\ Bounded(s)'
      BY <1>0, <1>1, <1>2, <1>5, <2>1, <3>1, DueKept DEF AllSteadyBut
    <3>3. CopyDue(c)'
      <4>1. sends[s] <= t + outages /\ c.verify = 0 /\ c.attempts < MaxAttempts
            /\ Standing(s)' \subseteq {0}
        BY <1>11, <2>1 DEF Standing
      <4>2. sends'[s] <= c.attempts + outages'
        BY <1>1, <1>2, <2>1, <3>1, <4>1
      <4>3. QED
        BY <1>1, <4>1, <4>2 DEF CopyDue
    <3>4. QED
      BY <1>1, <1>8, <2>1, <2>3, <3>1, <3>2, <3>3
  <2>4. QED
    BY <1>1, <1>15, <2>2, <2>3 DEF GiveUp
<1>16. CASE ParkForRetry(h)
  <2>1. handler[h].at = "park" /\ UNCHANGED <<work, sends, report, outages>>
    BY <1>16 DEF ParkForRetry, Job
  <2> DEFINE d == [c EXCEPT !.attempts = t]
  <2>2. d \in Known /\ d.sms = s /\ d.verify = c.verify /\ d.attempts = t
    BY <1>0, <1>1, <1>3, CopiesMade, CopiesCounted, ZenonT(40)
  <2>3. retry' = Append(retry, d) /\ NoteThen(h, "retrying", "ack")
    BY <1>1, <1>16, Zenon DEF ParkForRetry, Park, Job
  <2> HIDE DEF d
  <2>4. AllSteadyBut(s) /\ Bounded(s)'
    BY <1>0, <1>1, <1>2, <1>5, <2>1, DueKept DEF AllSteadyBut
  <2>5. CopyDue(d)'
    <3>1. /\ t < MaxAttempts /\ sends[s] <= t + outages /\ c.verify = 0
          /\ Standing(s)' \subseteq {0}
      BY <1>11, <2>1 DEF Standing
    <3>2. QED
      BY <1>2, <2>1, <2>2, <3>1 DEF CopyDue
  <2>6. handler'[h].at = "note" /\ handler'[h].owns
    BY <1>0, <1>1, <2>3, Notes DEF Status
  <2>7. QED
    BY <1>8, <2>1, <2>2, <2>3, <2>4, <2>5, <2>6
<1>17. CASE CheckReport(h)
  <2> DEFINE f == [c EXCEPT !.verify = 0, !.checks = 0]
             n == NextCheck(c)
  <2>1. /\ handler[h].at = "report" /\ UNCHANGED <<work, sends, outages>>
        /\ c.verify # 0
    BY <1>0, <1>1, <1>17 DEF CheckReport, Job, JobsOK, JobOK
  <2>2. /\ f \in Known /\ f.sms = s /\ f.verify = 0 /\ f.attempts = c.attempts
        /\ n \in Known /\ n.sms = s /\ n.verify = c.verify /\ n.attempts = c.attempts
    BY <1>0, <1>1, <1>3, CopiesMade, CopiesCounted, ZenonT(40)
  <2>3. PICK r \in Answer :
          /\ report' = [report EXCEPT ![c.sms][c.verify] = r]
          /\ \/ \E x \in Status, then \in {"ack", "ackSent", "dead"} :
                  NoteThen(h, x, then) /\ UNCHANGED retry
             \/ /\ r = "failed" /\ c.attempts < MaxAttempts
                /\ retry' = Append(retry, f) /\ NoteThen(h, "retrying", "ack")
             \/ retry' = Append(retry, n) /\ NoteThen(h, "accepted", "ack")
    <3>1. PICK r \in Answer :
            /\ report' = IF handler[h].owns THEN [report EXCEPT ![c.sms][c.verify] = r] ELSE report
            /\ CASE r = "delivered" -> NoteThen(h, "delivered", "ack") /\ UNCHANGED retry
                 [] r = "failed" /\ (c.attempts >= MaxAttempts \/ Stale(c.sms)) ->
                      NoteThen(h, "failed", "dead") /\ UNCHANGED retry
                 [] r = "failed" /\ c.attempts < MaxAttempts /\ ~Stale(c.sms) ->
                      IF handler[h].owns THEN Park(f) /\ NoteThen(h, "retrying", "ack")
                                         ELSE End(h) /\ UNCHANGED retry
                 [] r \in {"pending", "unknown"} /\ c.checks >= MaxStatusChecks ->
                      NoteThen(h, "accepted", "ack") /\ UNCHANGED retry
                 [] OTHER ->
                      IF handler[h].owns THEN Park(n) /\ NoteThen(h, "accepted", "ack")
                                         ELSE End(h) /\ UNCHANGED retry
      BY <1>1, <1>17, Zenon DEF CheckReport, Job
    <3> HIDE DEF f, n
    <3>2. report' = [report EXCEPT ![c.sms][c.verify] = r]
      BY <1>1, <3>1
    <3>3. \/ NoteThen(h, "delivered", "ack") /\ UNCHANGED retry
          \/ NoteThen(h, "failed", "dead") /\ UNCHANGED retry
          \/ NoteThen(h, "accepted", "ack") /\ UNCHANGED retry
          \/ /\ r = "failed" /\ c.attempts < MaxAttempts
             /\ Park(f) /\ NoteThen(h, "retrying", "ack")
          \/ Park(n) /\ NoteThen(h, "accepted", "ack")
      BY <1>1, <3>1
    <3>4. QED
      BY <3>2, <3>3 DEF Park, Status
  <2> HIDE DEF f, n
  <2>4. /\ sends[s] <= c.attempts + outages /\ Standing(c.sms) \subseteq {c.verify}
    BY <1>1, <2>1 DEF RunDue, CopyDue
  <2>5. /\ Standing(c.sms)' \subseteq {c.verify}
        /\ r = "failed" => Standing(c.sms)' \subseteq {0}
        /\ \A k \in Sms : k # c.sms => report'[k] = report[k]
    BY <1>0, <2>1, <2>3, <2>4, OneAnswer
  <2>6. AllSteadyBut(s)
    BY <1>1, <1>2, <2>1, <2>5 DEF AllSteadyBut, Steady
  <2>7. Bounded(s)'
    <3>1. sends'[s] <= MaxAttempts + outages'
      BY <1>1, <1>2, <2>1, <2>4
    <3>2. QED
      BY <1>1, <2>5, <3>1 DEF Bounded
  <2>8. ASSUME NEW x \in Status, NEW then \in {"ack", "ackSent", "dead"}, NoteThen(h, x, then)
        PROVE  handler'[h].at = "note" /\ handler'[h].owns
    BY <1>0, <1>1, <2>8, Notes
  <2>9. CASE \E x \in Status, then \in {"ack", "ackSent", "dead"} :
               NoteThen(h, x, then) /\ UNCHANGED retry
    BY <1>7, <2>1, <2>6, <2>7, <2>8, <2>9
  <2>10. CASE /\ r = "failed" /\ c.attempts < MaxAttempts
              /\ retry' = Append(retry, f) /\ NoteThen(h, "retrying", "ack")
    <3>1. CopyDue(f)'
      BY <1>1, <1>2, <2>1, <2>2, <2>4, <2>5, <2>10 DEF CopyDue
    <3>2. handler'[h].at = "note" /\ handler'[h].owns
      BY <2>8, <2>10 DEF Status
    <3>3. QED
      BY <1>8, <2>1, <2>2, <2>6, <2>7, <2>10, <3>1, <3>2
  <2>11. CASE retry' = Append(retry, n) /\ NoteThen(h, "accepted", "ack")
    <3>1. CopyDue(n)'
      BY <1>1, <1>2, <2>1, <2>2, <2>4, <2>5 DEF CopyDue
    <3>2. handler'[h].at = "note" /\ handler'[h].owns
      BY <2>8, <2>11 DEF Status
    <3>3. QED
      BY <1>8, <2>1, <2>2, <2>6, <2>7, <2>11, <3>1, <3>2
  <2>12. QED
    BY <2>3, <2>9, <2>10, <2>11
<1>18. QED
  BY <1>12, <1>13, <1>14, <1>15, <1>16, <1>17 DEF JobBears

\* A step that passes every message by keeps the account.
LEMMA AllPassedBy ==
  ASSUME SmsTypeOK, BearersInv, \A m \in Sms : Steady(m) /\ PassesBy(m)
  PROVE  \A m \in Sms : OneBearer(m)' /\ Accounted(m)'
  BY PassedBy DEF BearersInv

\* A run that is done with its message records and acknowledges it.
LEMMA JobEnds ==
  ASSUME SmsTypeOK, SmsTypeOK', BearersInv, NEW h \in Handler,
         Note(h) \/ Finish(h) \/ FinishOrphan(h), Others(h), Known \subseteq Known'
  PROVE  BearersInv'
<1>0. JobsOK /\ RecordsOK /\ RecordsOK' /\ handler[h].at \in {"note", "finish"} /\ handler[h].owns
  BY Parts DEF Note, Finish, FinishOrphan, Job, BearersInv, NoOrphans
<1>1. UNCHANGED <<work, retry, sends, report, request>>
  BY DEF Note, Finish, FinishOrphan, queues
<1>2. outages \in Nat /\ outages' \in Nat /\ outages <= outages'
  <2>1. outages \in Nat /\ outages' \in Nat
    BY <1>0, Numbers DEF RecordsOK
  <2>2. outages' = outages \/ outages' = outages + 1
    BY DEF Note, Finish, FinishOrphan, Record, Recorded, Refused
  <2>3. QED
    BY <2>1, <2>2
<1>3. \/ handler'[h].at = "finish" /\ handler'[h].owns
      \/ handler'[h].at = "idle"
  <2>1. CASE Go(h, "finish")
    BY <1>0, <2>1, GoesOn
  <2>2. CASE End(h)
    BY <1>0, <2>2 DEF End, NoJob, JobsOK
  <2>3. QED
    BY <1>0, <2>1, <2>2 DEF Note, Finish, FinishOrphan, Job
<1>4. \A g \in Handler : \A m : Bears(g, m)' => Bears(g, m) /\ handler'[g] = handler[g]
  BY <1>3 DEF Others, Bears, Bearing, SmsOf
<1>5. \A m \in Sms : Steady(m) /\ PassesBy(m)
  BY <1>1, <1>2, <1>4 DEF Steady, PassesBy, Starting, Once
<1>6. \A m \in Sms : OneBearer(m)' /\ Accounted(m)'
  BY <1>5, AllPassedBy
<1>7. QED
  BY <1>3, <1>6 DEF BearersInv, NoOrphans, Others

\* A run takes the first copy of the work queue: it bears the message, or is done with it.
LEMMA TakeBearers ==
  ASSUME SmsTypeOK, SmsTypeOK', BearersInv, NEW h \in Handler, Take(h)
  PROVE  BearersInv'
<1>0. /\ QueuesOK /\ JobsOK /\ ReportsOK /\ RecordsOK /\ RecordsOK' /\ work # <<>>
      /\ work' = Tail(work) /\ UNCHANGED <<retry, request, sends, outages>> /\ Others(h)
  BY Parts, TakeTyped DEF Take
<1>1. PICK c \in Known : c = Head(work)
  BY TakeTyped
<1>2. PICK s \in Sms : s = c.sms
  BY DEF Known, Copy
<1>3. /\ handler'[h].owns /\ handler'[h].copy = c /\ SmsOf(h)' = s
      /\ handler'[h].at \in {"report", "mark", "note"}
      /\ handler'[h].at = "mark" => c.verify = 0
      /\ \/ report' = report
         \/ c.verify # 0 /\ report' = [report EXCEPT ![c.sms][c.verify] = "unknown"]
  BY <1>1, <1>2, TakeTyped DEF SmsOf
<1>4. /\ c \in Contents(work) /\ Contents(work') \subseteq Contents(work)
      /\ \A m : Once(work, m) => Once(work', m) /\ (s = m => ~Has(work', m))
  BY <1>0, <1>1, <1>2, TakenOnce DEF QueuesOK
<1>5. \A m \in Sms : OneBearer(m) /\ Accounted(m)
  BY DEF BearersInv
<1>6. /\ CopyDue(c) /\ Bounded(s) /\ Once(work, s) /\ Has(work, s) /\ ~Has(retry, s) /\ ~Starting(s)
      /\ \A g \in Handler : ~Bears(g, s)
  <2>1. Has(work, s)
    BY <1>2, <1>4, OnQueue
  <2>2. QED
    BY <1>2, <1>4, <1>5, <2>1 DEF OneBearer, Accounted
<1>7. /\ Standing(c.sms)' \subseteq {c.verify}
      /\ \A m \in Sms : m # s => report'[m] = report[m]
  <2>1. CASE report' = report
    BY <1>6, <2>1 DEF CopyDue, Standing
  <2>2. CASE c.verify # 0 /\ report' = [report EXCEPT ![c.sms][c.verify] = "unknown"]
    BY <1>0, <1>2, <1>6, <2>2, OneAnswer DEF CopyDue, Answer
  <2>3. QED
    BY <1>3, <2>1, <2>2
<1>8. \A g \in Handler \ {h} : \A m : Bears(g, m)' => Bears(g, m) /\ handler'[g] = handler[g]
  BY <1>0 DEF Others, Bears, Bearing, SmsOf
<1>9. \A m : Bears(h, m)' => m = s
  BY <1>3 DEF Bears
<1>10. ASSUME NEW m \in Sms, m # s PROVE OneBearer(m)' /\ Accounted(m)'
  <2>1. Steady(m)
    BY <1>0, <1>7, <1>10, Numbers DEF Steady, RecordsOK
  <2>2. PassesBy(m)
    BY <1>0, <1>4, <1>8, <1>9, <1>10 DEF PassesBy, Starting, Once
  <2>3. QED
    BY <1>5, <2>1, <2>2, PassedBy
<1>11. /\ ~Has(work', s) /\ ~Has(retry', s) /\ ~Starting(s)'
       /\ \A g \in Handler : Bears(g, s)' => g = h
  BY <1>0, <1>4, <1>6, <1>8 DEF Has, Starting
<1>12. OneBearer(s)'
  <2>1. Once(work', s) /\ Once(retry', s)
    BY <1>11 DEF Has, Once
  <2>2. QED
    BY <1>11, <2>1 DEF OneBearer
<1>13. Accounted(s)'
  <2>1. CopyDue(c)'
    BY <1>0, <1>6, <1>7 DEF CopyDue
  <2>2. Bears(h, s)' => RunDue(h)'
    <3>1. SUFFICES ASSUME Bears(h, s)' PROVE RunDue(h)'
      OBVIOUS
    <3>2. handler'[h].at \in {"mark", "report"}
      BY <1>3, <3>1 DEF Bears, Bearing
    <3>3. handler'[h].at \notin {"verify", "giveUp", "park"}
      BY <3>2
    <3>4. handler'[h].at # "report" => handler'[h].copy.verify = 0
      BY <1>3, <3>2
    <3>5. CopyDue(handler[h].copy)'
      BY <1>3, <2>1
    <3>6. QED
      BY <3>3, <3>4, <3>5 DEF RunDue
  <2>3. Bounded(s)'
    <3>1. c.verify \in Nat
      BY DEF Known, Copy
    <3>2. QED
      BY <1>0, <1>2, <1>6, <1>7, <3>1 DEF Bounded
  <2>4. \A k \in Contents(work') \cup Contents(retry') : k.sms # s
    BY <1>11, OnQueue
  <2>5. QED
    BY <1>11, <2>2, <2>3, <2>4 DEF Accounted
<1>14. NoOrphans'
  BY <1>0, <1>3 DEF NoOrphans, BearersInv, Others
<1>15. QED
  BY <1>10, <1>12, <1>13, <1>14 DEF BearersInv

\* The caller hands its message to the broker, or sends it.
LEMMA RequestBearers ==
  ASSUME SmsTypeOK, SmsTypeOK', BearersInv, faults' = faults, NEW m \in Sms, RequestStep(m)
  PROVE  BearersInv'
<1>0. /\ QueuesOK /\ ReportsOK /\ RecordsOK /\ RecordsOK' /\ RequestsOK
      /\ UNCHANGED <<retry, handler>>
      /\ ~PublishUnconfirmed(m) /\ ~RequestDies(m)
  BY Parts DEF RequestStep, CreateRecord, PublishConfirmed, PublishFailed, PublishUnconfirmed, DirectSend,
     LogDirect, RequestDies, queues, Fault, RecordsOK
<1>1. \A k \in Sms : OneBearer(k) /\ Accounted(k)
  BY DEF BearersInv
<1>2. /\ MaxAttempts \in Nat /\ MaxAttempts > 0 /\ outages \in Nat /\ outages' \in Nat
      /\ sends \in [Sms -> Nat]
  BY <1>0, Numbers DEF RecordsOK
<1>3. \A k \in Sms : k # m => request'[k] = request[k]
  BY <1>0 DEF RequestStep, CreateRecord, PublishConfirmed, PublishFailed, DirectSend, LogDirect, Move,
     RequestsOK
<1>4. NoOrphans'
  BY <1>0 DEF NoOrphans, BearersInv
<1>5. \A h \in Handler : \A k : Bears(h, k)' <=> Bears(h, k)
  BY <1>0 DEF Bears, Bearing, SmsOf
<1>6. CASE CreateRecord(m) \/ PublishFailed(m) \/ LogDirect(m)
  <2>1. /\ UNCHANGED <<work, sends, report>> /\ outages <= outages'
    BY <1>2, <1>6 DEF CreateRecord, PublishFailed, LogDirect, queues, Record, Recorded, Refused
  <2>2. Starting(m)' => Starting(m)
    <3>1. CASE CreateRecord(m) \/ PublishFailed(m)
      BY <3>1 DEF Starting, CreateRecord, PublishFailed
    <3>2. CASE LogDirect(m)
      BY <1>0, <3>2 DEF Starting, LogDirect, Move, RequestsOK, RequestType
    <3>3. QED
      BY <1>6, <3>1, <3>2
  <2>3. \A k \in Sms : Steady(k) /\ PassesBy(k)
    BY <1>0, <1>2, <1>3, <1>5, <2>1, <2>2 DEF Steady, PassesBy, Starting, Once
  <2>4. QED
    BY <1>4, <2>3, AllPassedBy DEF BearersInv
\* The message is no longer with its caller.
<1>7. ASSUME PublishConfirmed(m) \/ DirectSend(m)
      PROVE  /\ ~Starting(m)' /\ outages' = outages
             /\ sends[m] = 0 /\ report[m] = <<>> /\ Standing(m) = {}
             /\ ~Has(work, m) /\ ~Has(retry, m) /\ \A h \in Handler : ~Bears(h, m)
  <2>1. Starting(m) /\ outages' = outages
    BY <1>7 DEF Starting, PublishConfirmed, DirectSend
  <2>2. ~Starting(m)'
    <3> DEFINE q == request[m]
    <3>1. q \in RequestType
      BY <1>0 DEF RequestsOK
    <3>2. \E at \in {"done", "log"} :
            \/ request' = [request EXCEPT ![m] = [q EXCEPT !.at = at, !.ok = TRUE]]
            \/ request' = [request EXCEPT ![m] = [q EXCEPT !.at = at]]
      BY <1>0, <1>7 DEF PublishConfirmed, DirectSend, Move, RequestsOK
    <3> HIDE DEF q
    <3>3. \A at \in {"done", "log"} :
            [q EXCEPT !.at = at, !.ok = TRUE].at = at /\ [q EXCEPT !.at = at].at = at
      BY <3>1 DEF RequestType
    <3>4. request'[m].at \in {"done", "log"}
      BY <1>0, <3>2, <3>3 DEF RequestsOK
    <3>5. QED
      BY <3>4 DEF Starting
  <2>3. sends[m] = 0 /\ report[m] = <<>>
    BY <1>1, <2>1 DEF Accounted
  <2>4. Standing(m) = {}
    <3>1. Len(report[m]) = 0
      BY <2>3
    <3>2. QED
      BY <1>0, <3>1, StandingNumbers
  <2>5. QED
    BY <1>1, <2>1, <2>2, <2>3, <2>4 DEF OneBearer
<1>8. CASE PublishConfirmed(m)
  <2>1. /\ work' = Append(work, NewCopy(m)) /\ UNCHANGED <<sends, report, outages>>
    BY <1>8 DEF PublishConfirmed
  <2> DEFINE c == NewCopy(m)
  <2>2. c \in Known /\ c.sms = m /\ c.attempts = 0 /\ c.verify = 0
    BY <1>0, LenProperties DEF NewCopy, Known, Copy, ReportsOK
  <2> HIDE DEF c
  <2>3. /\ Contents(work') = Contents(work) \cup {c}
        /\ \A k : Once(work, k) /\ (c.sms = k => ~Has(work, k)) => Once(work', k)
    BY <1>0, <2>1, <2>2, PutLastOnce DEF QueuesOK, c
  <2>4. ASSUME NEW k \in Sms, k # m PROVE OneBearer(k)' /\ Accounted(k)'
    <3>1. Steady(k) /\ PassesBy(k)
      <4>1. Steady(k)
        BY <1>2, <2>1 DEF Steady
      <4>2. PassesBy(k)
        BY <1>0, <1>3, <1>5, <2>2, <2>3, <2>4 DEF PassesBy, Starting
      <4>3. QED
        BY <4>1, <4>2
    <3>2. QED
      BY <1>1, <3>1, PassedBy
  <2>5. OneBearer(m)'
    <3>1. Once(work', m) /\ Once(retry', m) /\ ~Has(retry', m)
      BY <1>0, <1>1, <1>7, <1>8, <2>2, <2>3 DEF OneBearer
    <3>2. QED
      BY <1>5, <1>7, <1>8, <3>1 DEF OneBearer
  <2>6. CopyDue(c)'
    BY <1>2, <1>7, <1>8, <2>1, <2>2 DEF CopyDue, Standing
  <2>7. \A k \in Contents(work') \cup Contents(retry') : k.sms = m => CopyDue(k)'
    <3>1. \A k \in Contents(work) \cup Contents(retry) : k.sms # m
      BY <1>7, <1>8, OnQueue
    <3>2. QED
      BY <1>0, <2>3, <2>6, <3>1
  <2>8. Bounded(m)'
    BY <1>1, <2>1 DEF Bounded, Accounted, Standing
  <2>9. Accounted(m)'
    BY <1>5, <1>7, <1>8, <2>7, <2>8 DEF Accounted
  <2>10. QED
    BY <1>4, <2>4, <2>5, <2>9 DEF BearersInv
<1>9. CASE DirectSend(m)
  <2>1. /\ sends' = [sends EXCEPT ![m] = @ + 1] /\ UNCHANGED <<work, outages>>
    BY <1>9 DEF DirectSend, queues
  <2>2. /\ sends'[m] = 1
        /\ \A k \in Sms : k # m => sends'[k] = sends[k]
    BY <1>2, <1>7, <1>9, <2>1
  <2>3. /\ \E n \in Nat : Standing(m)' \subseteq {n}
        /\ \A k \in Sms : k # m => report'[k] = report[k]
    <3>1. CASE report' = [report EXCEPT ![m] = Append(@, "pending")]
      <4>1. Standing(m) \subseteq {0}
        BY <1>7, <1>9
      <4>2. QED
        BY <1>0, <3>1, <4>1, OneMoreSend
    <3>2. CASE report' = report
      BY <1>7, <1>9, <3>2 DEF Standing
    <3>3. QED
      BY <1>9, <3>1, <3>2 DEF DirectSend, Accepts, Declines, AnswerLost
  <2>4. ASSUME NEW k \in Sms, k # m PROVE OneBearer(k)' /\ Accounted(k)'
    <3>1. Steady(k) /\ PassesBy(k)
      BY <1>0, <1>2, <1>3, <1>5, <2>1, <2>2, <2>3, <2>4 DEF Steady, PassesBy, Starting, Once
    <3>2. QED
      BY <1>1, <3>1, PassedBy
  <2>5. ~Has(work', m) /\ ~Has(retry', m) /\ \A h \in Handler : ~Bears(h, m)'
    BY <1>0, <1>5, <1>7, <1>9, <2>1 DEF Has
  <2>6. OneBearer(m)'
    <3>1. Once(work', m) /\ Once(retry', m)
      BY <2>5 DEF Has, Once
    <3>2. QED
      BY <1>7, <1>9, <2>5, <3>1 DEF OneBearer
  <2>7. Accounted(m)'
    <3>1. \A k \in Contents(work') \cup Contents(retry') : k.sms # m
      BY <2>5, OnQueue
    <3>2. sends'[m] <= MaxAttempts + outages'
      <4>1. /\ MaxAttempts \in Nat /\ MaxAttempts > 0 /\ outages' \in Nat
        BY <1>2
      <4>2. \A a, b \in Nat : a > 0 => 1 <= a + b
        OBVIOUS
      <4>3. 1 <= MaxAttempts + outages'
        BY <4>1, <4>2
      <4>4. QED
        BY <2>2, <4>3
    <3>3. Bounded(m)'
      BY <2>3, <3>2 DEF Bounded
    <3>4. QED
      BY <1>7, <1>9, <2>5, <3>1, <3>3 DEF Accounted
  <2>8. QED
    BY <1>4, <2>4, <2>6, <2>7 DEF BearersInv
<1>10. QED
  BY <1>0, <1>6, <1>8, <1>9 DEF RequestStep

\* A parked copy returns to the work queue.
LEMMA ExpiryBearers ==
  ASSUME SmsTypeOK, BearersInv, RetryExpires
  PROVE  BearersInv'
<1>0. /\ QueuesOK /\ RecordsOK /\ retry # <<>> /\ retry' = Tail(retry)
      /\ work' = Append(work, Head(retry))
      /\ UNCHANGED <<request, handler, sends, report, outages>>
  BY Parts DEF RetryExpires
<1>1. PICK c \in Known : c = Head(retry)
  BY <1>0, Taken DEF QueuesOK
<1>2. PICK s \in Sms : s = c.sms
  BY DEF Known, Copy
<1>3. /\ c \in Contents(retry) /\ Contents(retry') \subseteq Contents(retry)
      /\ \A m : Once(retry, m) => Once(retry', m) /\ (s = m => ~Has(retry', m))
  BY <1>0, <1>1, <1>2, TakenOnce DEF QueuesOK
<1>4. /\ Contents(work') = Contents(work) \cup {c}
      /\ \A m : Once(work, m) /\ (s = m => ~Has(work, m)) => Once(work', m)
  BY <1>0, <1>1, <1>2, PutLastOnce DEF QueuesOK
<1>5. \A m \in Sms : OneBearer(m) /\ Accounted(m) /\ Steady(m)
  BY <1>0, Numbers DEF BearersInv, Steady, RecordsOK
<1>6. Has(retry, s) /\ ~Has(work, s) /\ ~Starting(s) /\ \A h \in Handler : ~Bears(h, s)
  <2>1. Has(retry, s)
    BY <1>2, <1>3, OnQueue
  <2>2. QED
    BY <1>5, <2>1 DEF OneBearer
<1>7. \A h \in Handler : \A m : Bears(h, m)' <=> Bears(h, m)
  BY <1>0 DEF Bears, Bearing, SmsOf
<1>8. ASSUME NEW m \in Sms, m # s PROVE OneBearer(m)' /\ Accounted(m)'
  <2>1. PassesBy(m)
    BY <1>0, <1>2, <1>3, <1>4, <1>7, <1>8 DEF PassesBy, Starting
  <2>2. QED
    BY <1>5, <2>1, PassedBy
<1>9. OneBearer(s)'
  <2>1. Once(work', s) /\ Once(retry', s) /\ ~Has(retry', s)
    BY <1>3, <1>4, <1>5, <1>6 DEF OneBearer
  <2>2. QED
    BY <1>0, <1>6, <1>7, <2>1 DEF OneBearer, Starting
<1>10. Accounted(s)'
  <2>1. CopyDue(c)' /\ Bounded(s)'
    <3>1. c \in Copy /\ CopyDue(c) /\ Bounded(s)
      BY <1>2, <1>3, <1>5 DEF Accounted, Known
    <3>2. QED
      BY <1>0, <1>2, <1>5, <3>1, DueKept
  <2>2. \A k \in Contents(work) \cup Contents(retry') : k.sms # s
    <3>1. ~Has(retry', s)
      BY <1>3, <1>5 DEF OneBearer
    <3>2. QED
      BY <1>6, <3>1, OnQueue
  <2>3. QED
    BY <1>0, <1>4, <1>6, <1>7, <2>1, <2>2 DEF Accounted, Starting
<1>11. NoOrphans'
  BY <1>0 DEF NoOrphans, BearersInv
<1>12. QED
  BY <1>8, <1>9, <1>10, <1>11 DEF BearersInv

\* The account is right at the start.
LEMMA BudgetStart == SmsInit => BudgetInv
<1> SUFFICES ASSUME SmsInit PROVE BearersInv
  BY DEF BudgetInv
<1>1. NoOrphans /\ \A h \in Handler : ~Bearing(h)
  BY DEF SmsInit, NoJob, NoOrphans, Bearing
<1>2. Contents(work) = {} /\ Contents(retry) = {} /\ Len(work) = 0 /\ Len(retry) = 0
  BY DEF SmsInit, Contents
<1>3. ASSUME NEW m \in Sms PROVE OneBearer(m) /\ Accounted(m)
  <2>1. sends[m] = 0 /\ report[m] = <<>> /\ outages = 0 /\ Standing(m) = {}
    BY DEF SmsInit, Standing
  <2>2. Bounded(m)
    BY <2>1, Numbers DEF Bounded
  <2>3. ~Has(work, m) /\ ~Has(retry, m) /\ Once(work, m) /\ Once(retry, m)
    BY <1>2 DEF Has, Once
  <2>4. QED
    BY <1>1, <1>2, <2>1, <2>2, <2>3 DEF OneBearer, Accounted, Bears
<1>4. QED
  BY <1>1, <1>3 DEF BearersInv

\* Every step keeps it.
LEMMA BudgetStep ==
  SmsTypeOK /\ SmsTypeOK' /\ BudgetInv /\ [SmsNext]_vars => BudgetInv'
<1> SUFFICES ASSUME SmsTypeOK, SmsTypeOK', BudgetInv, [SmsNext]_vars, faults' = 0
             PROVE  BearersInv'
  BY DEF BudgetInv
<1>0. faults \in Nat /\ (faults' = faults \/ faults' = faults + 1)
  <2>1. faults \in Nat
    BY Numbers DEF SmsTypeOK
  <2>2. ASSUME NEW m \in Sms, RequestStep(m) PROVE faults' = faults \/ faults' = faults + 1
    BY <2>2 DEF RequestStep, CreateRecord, PublishConfirmed, PublishFailed, PublishUnconfirmed,
       DirectSend, LogDirect, RequestDies, Accepts, Declines, AnswerLost, Fault
  <2>3. ASSUME NEW h \in Handler, JobStep(h) PROVE faults' = faults \/ faults' = faults + 1
    BY <2>3 DEF JobStep, MarkSending, Send, ScheduleVerification, GiveUp, ParkForRetry, CheckReport,
       Note, Finish, FinishOrphan, Accepts, Declines, AnswerLost, Fault
  <2>4. ASSUME NEW h \in Handler, Take(h) \/ WorkerDies(h) \/ ChannelLost(h)
        PROVE  faults' = faults \/ faults' = faults + 1
    BY <2>4 DEF Take, WorkerDies, ChannelLost, Fault
  <2>5. CASE Tick \/ RetryExpires \/ UNCHANGED vars
    BY <2>5 DEF Tick, RetryExpires, vars
  <2>6. QED
    BY <2>1, <2>2, <2>3, <2>4, <2>5 DEF SmsNext
<1>1. faults' = faults /\ BearersInv
  BY <1>0 DEF BudgetInv
<1>2. ASSUME NEW m \in Sms, RequestStep(m) PROVE BearersInv'
  BY <1>1, <1>2, RequestBearers
<1>3. ASSUME NEW h \in Handler, Take(h) PROVE BearersInv'
  BY <1>1, <1>3, TakeBearers
<1>4. ASSUME NEW h \in Handler, JobStep(h) PROVE BearersInv'
  BY <1>1, <1>4, JobTyped, JobBearers, JobEnds DEF JobStep, JobBears
<1>5. ASSUME NEW h \in Handler, WorkerDies(h) \/ ChannelLost(h) PROVE FALSE
  BY <1>0, <1>1, <1>5 DEF WorkerDies, ChannelLost, Fault
<1>6. CASE Tick \/ UNCHANGED vars
  <2>1. UNCHANGED <<request, work, retry, handler, sends, report, outages>>
    BY <1>6 DEF Tick, vars, queues
  <2>2. \A m \in Sms : Steady(m) /\ PassesBy(m)
    BY <2>1, Numbers DEF Steady, PassesBy, Starting, Once, Bears, Bearing, SmsOf, SmsTypeOK
  <2>3. NoOrphans'
    BY <1>1, <2>1 DEF NoOrphans, BearersInv
  <2>4. QED
    BY <1>1, <2>2, <2>3, AllPassedBy DEF BearersInv
<1>7. CASE RetryExpires
  BY <1>1, <1>7, ExpiryBearers
<1>8. QED
  BY <1>2, <1>3, <1>4, <1>5, <1>6, <1>7 DEF SmsNext

\* The attempts of retries and of resends after a failed report come from one budget, for
\* any number of messages, workers, attempts and refused statements: without a fault a
\* message is sent MaxAttempts times at most, and once more for each failure that could
\* not be recorded.
THEOREM SendsAreBudgeted == SmsSpec => []AttemptsAreBudgeted
<1>1. BudgetInv => AttemptsAreBudgeted
  BY DEF BudgetInv, BearersInv, Accounted, Bounded, AttemptsAreBudgeted
<1>2. QED
  BY <1>1, SmsTypeCorrect, BudgetStart, BudgetStep, PTL DEF SmsSpec

\* "A reporting outage must not trigger a second SMS": without a fault at most one accepted
\* send of a message is not reported as failed.
THEOREM OneSmsStands == SmsSpec => []NoSecondSms
<1>1. BudgetInv => NoSecondSms
  <2> SUFFICES ASSUME BudgetInv, faults = 0, NEW m \in Sms
               PROVE  Cardinality(Standing(m)) <= 1
    BY DEF NoSecondSms
  <2>1. PICK n \in Nat : Standing(m) \subseteq {n}
    BY DEF BudgetInv, BearersInv, Accounted, Bounded
  <2>2. Standing(m) = {} \/ Standing(m) = {n}
    BY <2>1
  <2>3. Cardinality({}) = 0 /\ Cardinality({n}) = 1
    BY FS_EmptySet, FS_Singleton
  <2>4. QED
    BY <2>2, <2>3
<1>2. QED
  BY <1>1, SmsTypeCorrect, BudgetStart, BudgetStep, PTL DEF SmsSpec
=============================================================================
