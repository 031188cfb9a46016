---------------------------- MODULE OutboxProofs ----------------------------
(***************************************************************************)
(* Theorems about the mails, the payments that write them, and the         *)
(* webhooks, for any number of workers, mails, payments, events, endpoints *)
(* and attempts.                                                           *)
(*                                                                         *)
(* That a mail is accepted at most once per claim is inductive only with   *)
(* the deliveries that stalled workers have begun (EmailInv), and that a   *)
(* delivery of a webhook is logged as it was seen only with what every     *)
(* worker knows of the row it claimed (DeliveryInv).  Payments keep theirs *)
(* by themselves; the last section puts their transactions and the workers *)
(* of the mails together.                                                  *)
(***************************************************************************)
EXTENDS Outboxes, FiniteSetTheorems, SequenceTheorems, TLAPS

(* What a worker may be doing; with a mail at hand, it is a mail of the outbox. *)
AtMail == {"delivering", "accepted", "failing"}
MailerStates ==
  {m \in [pc : {"idle", "claiming"} \cup AtMail \cup Gone, email : Emails \cup {NoMail}, n : 0..MaxEmailAttempts] :
     m.pc \in AtMail => m.email \in Emails}

(* Only a mail that waits can be not due, only one that is worked on has a lease, and
   none is attempted before it is queued. *)
RowAtRest(r) ==
  /\ r.status # "PENDING" => r.due
  /\ r.status # "PROCESSING" => r.lease = "none"
  /\ r.status = "none" => r.attempts = 0

EmailTypes ==
  /\ emails \in [Emails -> EmailRows] /\ \A e \in Emails : RowAtRest(emails[e])
  /\ mailer \in [Workers -> MailerStates]
  /\ smtp \in [Emails -> Nat]

(* The workers that are about to hand e to the SMTP server. *)
Delivering(e) == {w \in Workers : mailer[w].pc = "delivering" /\ mailer[w].email = e}

(* Every delivery, the begun ones included, belongs to a claim of its own; what was
   accepted has been delivered. *)
EmailInv ==
  /\ EmailTypes
  /\ \A e \in Emails : /\ smtp[e] + Cardinality(Delivering(e)) <= emails[e].attempts
                       /\ emails[e].status = "SENT" => smtp[e] > 0
  /\ \A w \in Workers : mailer[w].pc = "accepted" => smtp[mailer[w].email] > 0

(* The rows that the statements write for a row r: a released one with a status, one
   to be taken again at once or after a backoff, and a claimed one. *)
EmailReleased(r, st) == [Released(r) EXCEPT !.status = st]
EmailDeferred(r, b) == [Released(r) EXCEPT !.status = "PENDING", !.due = b]
EmailTaken(r, w) == [Claimed(r, w) EXCEPT !.status = "PROCESSING", !.attempts = @ + 1]

(* What is written keeps the shape of a row and the attempts made. *)
LEMMA ReleasedEmail ==
  ASSUME NEW r \in EmailRows, NEW st \in EmailStatuses, NEW q, q = EmailReleased(r, st)
  PROVE  /\ q \in EmailRows /\ q.status = st /\ q.attempts = r.attempts
         /\ q.due = r.due /\ q.lease = "none"
  BY DEF EmailRows, Released, Leases, EmailReleased

(* So does a row that is set back. *)
LEMMA DeferredEmail ==
  ASSUME NEW r \in EmailRows, NEW b \in BOOLEAN, NEW q, q = EmailDeferred(r, b)
  PROVE  /\ q \in EmailRows /\ q.status = "PENDING" /\ q.attempts = r.attempts
         /\ q.due = b /\ q.lease = "none"
  BY DEF EmailRows, Released, Leases, EmailDeferred, EmailStatuses

(* A claim counts one attempt more. *)
LEMMA ClaimedEmail ==
  ASSUME NEW r \in EmailRows, NEW w \in Workers, NEW q,
         r.attempts < MaxEmailAttempts, q = EmailTaken(r, w)
  PROVE  /\ q \in EmailRows /\ q.status = "PROCESSING" /\ q.attempts = r.attempts + 1
         /\ q.due = r.due
  <1> DEFINE n == r.attempts + 1
  <1>1. n \in 0..MaxEmailAttempts BY EmailAssumption DEF EmailRows
  <1>2. r.attempts = Claimed(r, w).attempts BY DEF Claimed, EmailRows
  <1>3. q = [Claimed(r, w) EXCEPT !.status = "PROCESSING", !.attempts = n] BY <1>2 DEF EmailTaken
  <1> HIDE DEF n
  <1>4. q \in EmailRows /\ q.status = "PROCESSING" /\ q.attempts = n /\ q.due = r.due
    BY <1>1, <1>3 DEF EmailRows, Claimed, Leases, EmailStatuses
  <1> QED BY <1>4 DEF n

(* A lease that is renewed or runs out changes nothing else, *)
LEMMA LeasedEmail ==
  ASSUME NEW r \in EmailRows, NEW l \in Leases, NEW q, q = [r EXCEPT !.lease = l]
  PROVE  q \in EmailRows /\ q.status = r.status /\ q.attempts = r.attempts /\ q.due = r.due
  BY DEF EmailRows, Leases

(* and neither does a backoff that is over. *)
LEMMA DueEmail ==
  ASSUME NEW r \in EmailRows, NEW q, q = [r EXCEPT !.due = TRUE]
  PROVE  /\ q \in EmailRows /\ q.status = r.status /\ q.attempts = r.attempts
         /\ q.due /\ q.lease = r.lease
  BY DEF EmailRows

(* A statement on one row, or on each row, takes a mail from r to q: a settled mail
   stays as it is, no attempt is forgotten, no row comes or goes, and a mail that
   becomes SENT was in the hand of a worker. *)
RowStep(r, q) ==
  /\ q \in EmailRows /\ RowAtRest(q) /\ q.attempts >= r.attempts
  /\ r.status \in SettledEmail => q = r
  /\ (q.status = "none") <=> (r.status = "none")

(* Every step takes every mail one such step. *)
LEMMA EmailRowSteps ==
  ASSUME EmailInv, [EmailNext]_emailVars, NEW e \in Emails
  PROVE  /\ RowStep(emails[e], emails'[e])
         /\ emails'[e].status = "SENT" /\ emails[e].status # "SENT" =>
              \E w \in Workers : mailer[w].pc = "accepted" /\ mailer[w].email = e
  <1> DEFINE r == emails[e]
             t == emails'[e]
             Goal == /\ RowStep(emails[e], emails'[e])
                     /\ emails'[e].status = "SENT" /\ emails[e].status # "SENT" =>
                          \E w \in Workers : mailer[w].pc = "accepted" /\ mailer[w].email = e
  <1>1. r \in EmailRows /\ RowAtRest(r) /\ r.attempts \in Nat
    BY EmailAssumption DEF EmailInv, EmailTypes, EmailRows
  <1>2. ASSUME t = r PROVE Goal BY <1>1, <1>2 DEF RowStep
  <1>3. ASSUME r.status \in {"PENDING", "PROCESSING"}, t \in EmailRows, RowAtRest(t),
               t.attempts \in {r.attempts, r.attempts + 1}, t.status \notin {"SENT", "none"}
        PROVE  Goal
    BY <1>1, <1>3 DEF RowStep, SettledEmail
  <1> HIDE DEF r, t
  <1>w. \A w \in Workers : mailer[w].pc \in AtMail => mailer[w].email \in Emails
    BY DEF EmailInv, EmailTypes, MailerStates
  <1>t. emails \in [Emails -> EmailRows] BY DEF EmailInv, EmailTypes
  <1>l. r.lease = "live" \/ r.lease = "expired" => r.status = "PROCESSING" BY <1>1 DEF RowAtRest
  <1>p. r.status = "PROCESSING" => r.status \notin SettledEmail BY DEF SettledEmail
  <1>4. ASSUME NEW w \in Workers, BuryExhaustedEmails(w) PROVE Goal
    <2>1. t = r \/ (ExpiredEmail(e) /\ t = EmailReleased(r, "DEAD_LETTER"))
      BY <1>4 DEF BuryExhaustedEmails, r, t, EmailReleased
    <2>2. CASE ExpiredEmail(e) /\ t = EmailReleased(r, "DEAD_LETTER")
      <3>1. "DEAD_LETTER" \in EmailStatuses /\ r.status = "PROCESSING" BY <2>2 DEF EmailStatuses, ExpiredEmail, r
      <3>2. /\ t \in EmailRows /\ t.status = "DEAD_LETTER"
            /\ t.attempts = r.attempts /\ t.due = r.due /\ t.lease = "none"
        BY <1>1, <2>2, <3>1, ReleasedEmail
      <3> QED BY <1>1, <1>3, <1>p, <3>1, <3>2 DEF RowAtRest
    <2> QED BY <1>2, <2>1, <2>2
  <1>5. ASSUME NEW w \in Workers, ClaimNextEmail(w) PROVE Goal
    <2>1. CASE t = r BY <1>2, <2>1
    <2>2. CASE t # r
      <3>1. ClaimableEmail(e) /\ t = EmailTaken(r, w)
        <4>1. PICK x \in Emails :
                /\ ClaimableEmail(x)
                /\ emails' = [emails EXCEPT ![x] = EmailTaken(emails[x], w)]
          <5>1. emails' # emails BY <2>2 DEF r, t
          <5> QED BY <1>5, <5>1 DEF ClaimNextEmail, EmailTaken
        <4>2. emails'[e] = IF e = x THEN EmailTaken(emails[x], w) ELSE emails[e] BY <1>t, <4>1
        <4> QED BY <2>2, <4>1, <4>2 DEF r, t
      <3>2. r.attempts < MaxEmailAttempts /\ r.status \in {"PENDING", "PROCESSING"} /\ r.due
        BY <1>1, <3>1 DEF ClaimableEmail, ExpiredEmail, RowAtRest, r
      <3>3. "PROCESSING" \in EmailStatuses BY DEF EmailStatuses
      <3>4. /\ t \in EmailRows /\ t.status = "PROCESSING"
            /\ t.attempts = r.attempts + 1 /\ t.due = r.due
        BY <1>1, <3>1, <3>2, ClaimedEmail
      <3> QED BY <1>1, <1>3, <3>2, <3>4 DEF RowAtRest, SettledEmail
    <2> QED BY <2>1, <2>2
  <1>6. ASSUME NEW w \in Workers, HeartbeatEmail(w) PROVE Goal
    <2>1. t = r \/ (r.status = "PROCESSING" /\ t = [r EXCEPT !.lease = "live"])
      BY <1>6, <1>t DEF HeartbeatEmail, OwnsEmail, r, t
    <2>2. CASE r.status = "PROCESSING" /\ t = [r EXCEPT !.lease = "live"]
      <3>1. "live" \in Leases BY DEF Leases
      <3>2. /\ t \in EmailRows /\ t.status = r.status
            /\ t.attempts = r.attempts /\ t.due = r.due
        BY <1>1, <2>2, <3>1, LeasedEmail
      <3> QED BY <1>1, <1>3, <1>p, <2>2, <3>2 DEF RowAtRest
    <2> QED BY <1>2, <2>1, <2>2
  <1>7. ASSUME NEW w \in Workers, FinishEmail(w) PROVE Goal
    <2>1. CASE t = r BY <1>2, <2>1
    <2>2. CASE t # r
      <3>1. /\ mailer[w].pc = "accepted" /\ mailer[w].email = e /\ OwnsEmail(w)
            /\ t = EmailReleased(r, "SENT")
        BY <1>7, <1>t, <2>2 DEF FinishEmail, r, t, EmailReleased
      <3>2. r.status = "PROCESSING" BY <3>1 DEF OwnsEmail, r
      <3>3. "SENT" \in EmailStatuses BY DEF EmailStatuses
      <3>4. /\ t \in EmailRows /\ t.status = "SENT"
            /\ t.attempts = r.attempts /\ t.due = r.due /\ t.lease = "none"
        BY <1>1, <3>1, <3>3, ReleasedEmail
      <3> QED BY <1>1, <1>p, <3>1, <3>2, <3>4 DEF RowStep, RowAtRest, r, t
    <2> QED BY <2>1, <2>2
  <1>8. ASSUME NEW w \in Workers, FailClaimedEmail(w) PROVE Goal
    <2>1. CASE t = r BY <1>2, <2>1
    <2>2. CASE t # r
      <3>1. /\ mailer[w].email = e /\ OwnsEmail(w)
            /\ \/ t = EmailReleased(r, "DEAD_LETTER")
               \/ t = EmailDeferred(r, FALSE)
        BY <1>8, <1>t, <2>2 DEF FailClaimedEmail, r, t, EmailReleased, EmailDeferred
      <3>2. r.status = "PROCESSING" BY <3>1 DEF OwnsEmail, r
      <3>3. "DEAD_LETTER" \in EmailStatuses /\ "PENDING" \in EmailStatuses BY DEF EmailStatuses
      <3>4. /\ t \in EmailRows /\ t.attempts = r.attempts /\ t.lease = "none"
            /\ \/ t.status = "DEAD_LETTER" /\ t.due = r.due
               \/ t.status = "PENDING"
        <4>1. CASE t = EmailReleased(r, "DEAD_LETTER")
          BY <1>1, <3>3, <4>1, ReleasedEmail
        <4>2. CASE t = EmailDeferred(r, FALSE)
          BY <1>1, <3>3, <4>2, DeferredEmail
        <4> QED BY <3>1, <4>1, <4>2
      <3> QED BY <1>1, <1>3, <1>p, <3>2, <3>4 DEF RowAtRest
    <2> QED BY <2>1, <2>2
  <1>9. ASSUME NEW w \in Workers, StopEmailWorker(w) PROVE Goal
    <2>1. \/ t = r
          \/ r.status = "PROCESSING" /\ t = EmailDeferred(r, TRUE)
      BY <1>9 DEF StopEmailWorker, r, t, EmailDeferred
    <2>2. CASE r.status = "PROCESSING" /\ t = EmailDeferred(r, TRUE)
      <3>1. "PENDING" \in EmailStatuses BY DEF EmailStatuses
      <3>2. /\ t \in EmailRows /\ t.status = "PENDING"
            /\ t.attempts = r.attempts /\ t.lease = "none"
        BY <1>1, <2>2, <3>1, DeferredEmail
      <3> QED BY <1>1, <1>3, <1>p, <2>2, <3>2 DEF RowAtRest
    <2> QED BY <1>2, <2>1, <2>2
  <1>10. ASSUME NEW x \in Emails, EmailLeaseExpires(x) PROVE Goal
    <2>1. t = r \/ (r.lease = "live" /\ t = [r EXCEPT !.lease = "expired"])
      BY <1>10, <1>t DEF EmailLeaseExpires, r, t
    <2>2. CASE r.lease = "live" /\ t = [r EXCEPT !.lease = "expired"]
      <3>1. "expired" \in Leases BY DEF Leases
      <3>2. /\ t \in EmailRows /\ t.status = r.status
            /\ t.attempts = r.attempts /\ t.due = r.due
        BY <1>1, <2>2, <3>1, LeasedEmail
      <3> QED BY <1>1, <1>3, <1>l, <1>p, <2>2, <3>2 DEF RowAtRest
    <2> QED BY <1>2, <2>1, <2>2
  <1>11. ASSUME NEW x \in Emails, EmailFallsDue(x) PROVE Goal
    <2>1. t = r \/ (~r.due /\ t = [r EXCEPT !.due = TRUE])
      BY <1>11, <1>t DEF EmailFallsDue, r, t
    <2>2. CASE ~r.due /\ t = [r EXCEPT !.due = TRUE]
      <3>1. r.status = "PENDING" BY <1>1, <2>2 DEF RowAtRest
      <3>2. t \in EmailRows /\ t.status = r.status
            /\ t.attempts = r.attempts /\ t.due /\ t.lease = r.lease
        BY <1>1, <2>2, DueEmail
      <3> QED BY <1>1, <1>3, <3>1, <3>2 DEF RowAtRest, SettledEmail
    <2> QED BY <1>2, <2>1, <2>2
  <1>12. CASE UNCHANGED emails BY <1>2, <1>12 DEF r, t
  <1> QED BY <1>4, <1>5, <1>6, <1>7, <1>8, <1>9, <1>10, <1>11, <1>12
          DEF EmailNext, EmailWorkerStep, DeliverEmail, KillEmailWorker, emailVars

(* What every step does to a worker w: it stays as it is, goes to a state of the loop
   without a mail, looks for one, takes one it claims, or goes on with the mail it has. *)
MailerStep(w) ==
  \/ mailer'[w] = mailer[w]
  \/ mailer'[w] \in {MailerAt(pc) : pc \in {"idle", "claiming"} \cup Gone}
  \/ mailer[w].pc = "idle" /\ mailer'[w] = [mailer[w] EXCEPT !.pc = "claiming"]
  \/ \E e \in Emails : /\ mailer[w].pc = "claiming" /\ ClaimableEmail(e)
                       /\ mailer'[w] = [pc |-> "delivering", email |-> e, n |-> emails[e].attempts + 1]
                       /\ emails'[e].attempts = emails[e].attempts + 1
  \/ /\ mailer[w].pc \in {"delivering", "accepted"}
     /\ \/ mailer'[w] = [mailer[w] EXCEPT !.pc = "failing"]
        \/ /\ mailer[w].pc = "delivering" /\ mailer'[w] = [mailer[w] EXCEPT !.pc = "accepted"]
           /\ smtp'[mailer[w].email] = smtp[mailer[w].email] + 1

(* A step is one of a single worker w at most; only a delivery of w adds to what the
   SMTP server accepted, and it ends with it. *)
LEMMA EmailStepShape ==
  ASSUME EmailInv, [EmailNext]_emailVars
  PROVE  /\ \A w \in Workers : MailerStep(w)
         /\ \/ mailer' = mailer
            \/ \E w \in Workers : \E m : mailer' = [mailer EXCEPT ![w] = m]
         /\ \/ smtp' = smtp
            \/ \E w \in Workers : /\ mailer[w].pc = "delivering" /\ mailer'[w].pc # "delivering"
                                  /\ smtp' = [smtp EXCEPT ![mailer[w].email] = @ + 1]
  <1>t. /\ emails \in [Emails -> EmailRows] /\ mailer \in [Workers -> MailerStates] /\ smtp \in [Emails -> Nat]
    BY DEF EmailInv, EmailTypes
  <1>. DEFINE Shape == /\ \A w \in Workers : MailerStep(w)
                       /\ \/ mailer' = mailer
                          \/ \E w \in Workers : \E m : mailer' = [mailer EXCEPT ![w] = m]
                       /\ \/ smtp' = smtp
                          \/ \E w \in Workers : /\ mailer[w].pc = "delivering" /\ mailer'[w].pc # "delivering"
                                                /\ smtp' = [smtp EXCEPT ![mailer[w].email] = @ + 1]
  <1>1. ASSUME mailer' = mailer, smtp' = smtp PROVE Shape BY <1>1 DEF MailerStep
  <1>2. ASSUME NEW w \in Workers, NEW m, mailer' = [mailer EXCEPT ![w] = m], MailerStep(w),
               \/ smtp' = smtp
               \/ /\ mailer[w].pc = "delivering" /\ mailer'[w].pc # "delivering"
                  /\ smtp' = [smtp EXCEPT ![mailer[w].email] = @ + 1]
        PROVE  Shape
    <2>1. ASSUME NEW v \in Workers PROVE MailerStep(v)
      <3>1. CASE v = w BY <1>2, <3>1
      <3>2. CASE v # w
        <4>1. mailer'[v] = mailer[v] BY <1>t, <1>2, <3>2
        <4> QED BY <4>1 DEF MailerStep
      <3> QED BY <3>1, <3>2
    <2> QED BY <1>2, <2>1, Zenon
  <1>3. ASSUME NEW w \in Workers, NEW pc \in {"idle", "claiming"} \cup Gone,
               mailer' = [mailer EXCEPT ![w] = MailerAt(pc)], smtp' = smtp
        PROVE  Shape
    <2>1. mailer'[w] = MailerAt(pc) BY <1>t, <1>3
    <2>2. MailerStep(w) BY <2>1 DEF MailerStep
    <2> QED BY <1>2, <1>3, <2>2
  <1>4. ASSUME NEW w \in Workers, mailer' = [mailer EXCEPT ![w].pc = "failing"], smtp' = smtp,
               mailer[w].pc \in {"delivering", "accepted"}
        PROVE  Shape
    <2>1. mailer' = [mailer EXCEPT ![w] = [mailer[w] EXCEPT !.pc = "failing"]] BY <1>4
    <2>2. mailer'[w] = [mailer[w] EXCEPT !.pc = "failing"] BY <1>t, <2>1
    <2>3. MailerStep(w) BY <1>4, <2>2 DEF MailerStep
    <2> QED BY <1>2, <1>4, <2>1, <2>3
  <1>5. ASSUME NEW w \in Workers, StopEmailWorker(w) \/ KillEmailWorker(w) PROVE Shape
    <2>1. \E pc \in {"idle", "claiming"} \cup Gone : mailer' = [mailer EXCEPT ![w] = MailerAt(pc)] /\ smtp' = smtp
      BY <1>5 DEF StopEmailWorker, KillEmailWorker, Gone
    <2> QED BY <1>3, <2>1
  <1>6. ASSUME NEW w \in Workers, BuryExhaustedEmails(w) PROVE Shape
    <2>1. /\ mailer[w].pc = "idle" /\ smtp' = smtp
          /\ mailer' = [mailer EXCEPT ![w] = [mailer[w] EXCEPT !.pc = "claiming"]]
      BY <1>6 DEF BuryExhaustedEmails
    <2>2. mailer'[w] = [mailer[w] EXCEPT !.pc = "claiming"] BY <1>t, <2>1
    <2>3. MailerStep(w) BY <2>1, <2>2 DEF MailerStep
    <2> QED BY <1>2, <2>1, <2>3
  <1>7. ASSUME NEW w \in Workers, ClaimNextEmail(w) PROVE Shape
    <2>1. CASE mailer' = [mailer EXCEPT ![w] = MailerAt("idle")]
      BY <1>3, <1>7, <2>1 DEF ClaimNextEmail
    <2>2. CASE mailer' # [mailer EXCEPT ![w] = MailerAt("idle")]
      <3>1. PICK e \in Emails :
              /\ ClaimableEmail(e) /\ emails' = [emails EXCEPT ![e] = EmailTaken(emails[e], w)]
              /\ mailer' = [mailer EXCEPT ![w] = [pc |-> "delivering", email |-> e, n |-> emails[e].attempts + 1]]
        BY <1>7, <2>2 DEF ClaimNextEmail, EmailTaken
      <3>2. mailer[w].pc = "claiming" /\ smtp' = smtp BY <1>7 DEF ClaimNextEmail
      <3>3. mailer'[w] = [pc |-> "delivering", email |-> e, n |-> emails[e].attempts + 1] BY <1>t, <3>1
      <3>4. emails'[e].attempts = emails[e].attempts + 1
        <4> DEFINE q == EmailTaken(emails[e], w)
        <4>1. emails[e] \in EmailRows /\ emails[e].attempts < MaxEmailAttempts
          BY <1>t, <3>1 DEF ClaimableEmail
        <4>2. emails'[e] = q BY <1>t, <3>1
        <4> HIDE DEF q
        <4>3. q.attempts = emails[e].attempts + 1 BY <4>1, ClaimedEmail DEF q
        <4> QED BY <4>2, <4>3
      <3>5. MailerStep(w) BY <3>1, <3>2, <3>3, <3>4 DEF MailerStep
      <3> QED BY <1>2, <3>1, <3>2, <3>5
    <2> QED BY <2>1, <2>2
  <1>8. ASSUME NEW w \in Workers, DeliverEmail(w) PROVE Shape
    <2>1. CASE smtp' = smtp /\ mailer' = [mailer EXCEPT ![w].pc = "failing"]
      BY <1>4, <1>8, <2>1 DEF DeliverEmail
    <2>2. ASSUME NEW pc \in {"accepted", "failing"}, mailer' = [mailer EXCEPT ![w].pc = pc],
                 smtp' = [smtp EXCEPT ![mailer[w].email] = @ + 1]
          PROVE  Shape
      <3>1. mailer[w].pc = "delivering" /\ mailer[w] \in MailerStates BY <1>t, <1>8 DEF DeliverEmail
      <3>2. mailer[w].email \in Emails BY <3>1 DEF MailerStates, AtMail
      <3>3. mailer' = [mailer EXCEPT ![w] = [mailer[w] EXCEPT !.pc = pc]] BY <2>2
      <3>4. mailer'[w] = [mailer[w] EXCEPT !.pc = pc] BY <1>t, <3>3
      <3>5. smtp'[mailer[w].email] = smtp[mailer[w].email] + 1 BY <1>t, <2>2, <3>2
      <3>6. mailer'[w].pc = pc BY <3>1, <3>4 DEF MailerStates
      <3>7. MailerStep(w) BY <3>1, <3>4, <3>5 DEF MailerStep
      <3> QED BY <1>2, <2>2, <3>1, <3>3, <3>6, <3>7
    <2> QED BY <1>8, <2>1, <2>2 DEF DeliverEmail
  <1>9. ASSUME NEW w \in Workers, FinishEmail(w) PROVE Shape
    <2>1. CASE mailer' = [mailer EXCEPT ![w] = MailerAt("idle")] BY <1>3, <1>9, <2>1 DEF FinishEmail
    <2>2. CASE mailer' = [mailer EXCEPT ![w].pc = "failing"] BY <1>4, <1>9, <2>2 DEF FinishEmail
    <2> QED BY <1>9, <2>1, <2>2 DEF FinishEmail
  <1>10. ASSUME NEW w \in Workers, FailClaimedEmail(w) PROVE Shape
    BY <1>3, <1>10 DEF FailClaimedEmail
  <1> HIDE DEF Shape
  <1>11. Shape
    BY <1>1, <1>5, <1>6, <1>7, <1>8, <1>9, <1>10
       DEF EmailNext, EmailWorkerStep, HeartbeatEmail, EmailLeaseExpires, EmailFallsDue, emailVars
  <1> QED BY <1>11 DEF Shape

(* The deliveries that have begun, with those that were accepted, never outnumber the
   claims: EmailInv is inductive. *)
LEMMA EmailStep == ASSUME EmailInv, [EmailNext]_emailVars PROVE EmailInv'
  <1>t. /\ emails \in [Emails -> EmailRows] /\ mailer \in [Workers -> MailerStates] /\ smtp \in [Emails -> Nat]
    BY DEF EmailInv, EmailTypes
  <1>r. \A e \in Emails : RowStep(emails[e], emails'[e]) BY EmailRowSteps, Zenon
  <1>a. \A e \in Emails : emails[e].attempts \in Nat /\ emails'[e].attempts \in Nat
                         /\ emails'[e].attempts >= emails[e].attempts /\ emails'[e].attempts <= MaxEmailAttempts
    BY <1>t, <1>r, EmailAssumption DEF RowStep, EmailRows
  <1>s. \A w \in Workers : MailerStep(w) BY EmailStepShape
  <1>m. \/ mailer' = mailer
        \/ \E w \in Workers : \E m : mailer' = [mailer EXCEPT ![w] = m]
    BY EmailStepShape
  <1>p. \/ smtp' = smtp
        \/ \E w \in Workers : /\ mailer[w].pc = "delivering" /\ mailer'[w].pc # "delivering"
                              /\ smtp' = [smtp EXCEPT ![mailer[w].email] = @ + 1]
    BY EmailStepShape
  <1>1. \A e \in Emails : emails'[e] \in EmailRows /\ RowAtRest(emails'[e]) BY <1>r DEF RowStep
  <1>2. emails' \in [Emails -> EmailRows]
    <2>1. emails' = [e \in Emails |-> emails'[e]]
      <3>1. ASSUME NEW x, NEW q, emails' = [emails EXCEPT ![x] = q] PROVE emails' = [e \in Emails |-> emails'[e]]
        BY <1>t, <3>1
      <3>2. CASE emails' = emails BY <1>t, <3>2
      <3>3. ASSUME NEW w \in Workers, BuryExhaustedEmails(w) \/ StopEmailWorker(w)
            PROVE  emails' = [e \in Emails |-> emails'[e]]
        <4>1. CASE BuryExhaustedEmails(w) BY <4>1 DEF BuryExhaustedEmails
        <4>2. CASE StopEmailWorker(w) BY <4>2 DEF StopEmailWorker
        <4> QED BY <3>3, <4>1, <4>2
      <3>4. ASSUME NEW w \in Workers, ClaimNextEmail(w) PROVE emails' = [e \in Emails |-> emails'[e]]
        BY <3>1, <3>2, <3>4 DEF ClaimNextEmail
      <3>5. ASSUME NEW w \in Workers, HeartbeatEmail(w) PROVE emails' = [e \in Emails |-> emails'[e]]
        BY <3>1, <3>5 DEF HeartbeatEmail
      <3>6. ASSUME NEW w \in Workers, FinishEmail(w) \/ FailClaimedEmail(w)
            PROVE  emails' = [e \in Emails |-> emails'[e]]
        BY <3>1, <3>2, <3>6 DEF FinishEmail, FailClaimedEmail
      <3>7. ASSUME NEW e \in Emails, EmailLeaseExpires(e) \/ EmailFallsDue(e)
            PROVE  emails' = [x \in Emails |-> emails'[x]]
        BY <3>1, <3>7 DEF EmailLeaseExpires, EmailFallsDue
      <3> QED
        BY <3>2, <3>3, <3>4, <3>5, <3>6, <3>7
           DEF EmailNext, EmailWorkerStep, DeliverEmail, KillEmailWorker, emailVars
    <2> QED BY <1>1, <2>1
  <1>3. smtp' \in [Emails -> Nat] /\ \A e \in Emails : smtp'[e] >= smtp[e]
    <2>1. CASE smtp' = smtp BY <1>t, <2>1
    <2>2. ASSUME NEW w \in Workers, mailer[w].pc = "delivering", smtp' = [smtp EXCEPT ![mailer[w].email] = @ + 1]
          PROVE  smtp' \in [Emails -> Nat] /\ \A e \in Emails : smtp'[e] >= smtp[e]
      <3>1. mailer[w].email \in Emails BY <1>t, <2>2 DEF MailerStates, AtMail
      <3> HIDE DEF EmailInv
      <3>2. \A e \in Emails : smtp'[e] = IF e = mailer[w].email THEN smtp[e] + 1 ELSE smtp[e]
        BY <1>t, <2>2
      <3> QED BY <1>t, <2>2, <3>1, <3>2
    <2> QED BY <1>p, <2>1, <2>2
  <1>4. \A w \in Workers : mailer'[w] \in MailerStates
    <2> SUFFICES ASSUME NEW w \in Workers PROVE mailer'[w] \in MailerStates OBVIOUS
    <2>1. mailer[w] \in MailerStates BY <1>t
    <2>2. CASE mailer'[w] \in {MailerAt(pc) : pc \in {"idle", "claiming"} \cup Gone}
      BY <2>2, EmailAssumption DEF MailerAt, MailerStates, AtMail, Gone
    <2>3. CASE mailer[w].pc = "idle" /\ mailer'[w] = [mailer[w] EXCEPT !.pc = "claiming"]
      BY <2>1, <2>3 DEF MailerStates, AtMail
    <2>4. ASSUME NEW e \in Emails, emails'[e].attempts = emails[e].attempts + 1,
                 mailer'[w] = [pc |-> "delivering", email |-> e, n |-> emails[e].attempts + 1]
          PROVE  mailer'[w] \in MailerStates
      <3>1. emails[e].attempts + 1 \in 0..MaxEmailAttempts BY <1>a, <2>4, EmailAssumption
      <3> QED BY <2>4, <3>1 DEF MailerStates, AtMail
    <2>5. ASSUME NEW pc \in {"accepted", "failing"}, mailer[w].pc \in {"delivering", "accepted"},
                 mailer'[w] = [mailer[w] EXCEPT !.pc = pc]
          PROVE  mailer'[w] \in MailerStates
      BY <2>1, <2>5 DEF MailerStates, AtMail
    <2> QED BY <1>s, <2>1, <2>2, <2>3, <2>4, <2>5 DEF MailerStep
  <1>5. mailer' \in [Workers -> MailerStates]
    <2>1. mailer' = [w \in Workers |-> mailer'[w]] BY <1>t, <1>m
    <2> QED BY <1>4, <2>1
  <1>6. \A e \in Emails : IsFiniteSet(Delivering(e)) /\ Cardinality(Delivering(e)) \in Nat
    BY FS_Subset, FS_CardinalityType, WorkersAssumption DEF Delivering
  <1>7. \A e \in Emails : smtp'[e] + Cardinality(Delivering(e)') <= emails'[e].attempts
    <2> SUFFICES ASSUME NEW e \in Emails
                 PROVE  smtp'[e] + Cardinality(Delivering(e)') <= emails'[e].attempts
      OBVIOUS
    <2> DEFINE D == Delivering(e)  E == Delivering(e)'
    <2>0. /\ smtp[e] \in Nat /\ smtp'[e] \in Nat /\ smtp[e] + Cardinality(D) <= emails[e].attempts
          /\ Cardinality(D) \in Nat /\ IsFiniteSet(D)
      BY <1>t, <1>3, <1>6 DEF EmailInv
    <2>1. \A w \in E \ D : /\ mailer[w].pc = "claiming" /\ mailer'[w] # mailer[w]
                            /\ emails'[e].attempts = emails[e].attempts + 1
      <3> SUFFICES ASSUME NEW w \in Workers, mailer'[w].pc = "delivering", mailer'[w].email = e,
                          ~(mailer[w].pc = "delivering" /\ mailer[w].email = e)
                   PROVE  /\ mailer[w].pc = "claiming" /\ mailer'[w] # mailer[w]
                          /\ emails'[e].attempts = emails[e].attempts + 1
        BY DEF Delivering
      <3>1. mailer[w] \in MailerStates BY <1>t
      <3>2. mailer'[w] \notin {MailerAt(pc) : pc \in {"idle", "claiming"} \cup Gone}
        BY DEF MailerAt, Gone
      <3>3. \A pc \in {"claiming", "failing", "accepted"} : mailer'[w] # [mailer[w] EXCEPT !.pc = pc]
        BY <3>1 DEF MailerStates
      <3>4. ASSUME NEW x \in Emails, mailer[w].pc = "claiming", emails'[x].attempts = emails[x].attempts + 1,
                   mailer'[w] = [pc |-> "delivering", email |-> x, n |-> emails[x].attempts + 1]
            PROVE  /\ mailer[w].pc = "claiming" /\ mailer'[w] # mailer[w]
                   /\ emails'[e].attempts = emails[e].attempts + 1
        <4>1. x = e BY <3>4
        <4> QED BY <3>4, <4>1
      <3>5. mailer'[w] # mailer[w] OBVIOUS
      <3>6. MailerStep(w) BY <1>s
      <3> QED BY <3>2, <3>3, <3>4, <3>5, <3>6 DEF MailerStep
    <2>2. smtp'[e] = smtp[e] \/ (smtp'[e] = smtp[e] + 1 /\ \E w \in D \ E : TRUE)
      <3>1. CASE smtp' = smtp BY <3>1
      <3>2. ASSUME NEW w \in Workers, mailer[w].pc = "delivering", mailer'[w].pc # "delivering",
                   smtp' = [smtp EXCEPT ![mailer[w].email] = @ + 1]
            PROVE  smtp'[e] = smtp[e] \/ (smtp'[e] = smtp[e] + 1 /\ w \in D \ E)
        BY <1>t, <3>2 DEF Delivering
      <3> QED BY <1>p, <3>1, <3>2
    <2>3. \/ E = D
          \/ \E w \in Workers : \A v \in Workers : v # w => (v \in E <=> v \in D)
      <3>1. CASE mailer' = mailer BY <3>1 DEF Delivering
      <3>2. ASSUME NEW w \in Workers, NEW m, mailer' = [mailer EXCEPT ![w] = m]
            PROVE  \A v \in Workers : v # w => (v \in E <=> v \in D)
        BY <1>t, <3>2 DEF Delivering
      <3> QED BY <1>m, <3>1, <3>2
    <2>4. D \subseteq Workers /\ E \subseteq Workers BY DEF Delivering
    <2>5. \A w \in D \ E : mailer[w].pc = "delivering" BY DEF Delivering
    <2> HIDE DEF D, E
    <2>6. CASE E \subseteq D
      <3>1. Cardinality(E) \in Nat /\ Cardinality(E) <= Cardinality(D)
        BY <2>0, <2>6, FS_Subset, FS_CardinalityType
      <3>2. CASE smtp'[e] = smtp[e] BY <1>a, <2>0, <3>1, <3>2 DEF E
      <3>3. ASSUME NEW w \in D \ E, smtp'[e] = smtp[e] + 1
            PROVE  smtp'[e] + Cardinality(E) <= emails'[e].attempts
        <4>1. /\ IsFiniteSet(D \ {w}) /\ Cardinality(D \ {w}) = Cardinality(D) - 1
          BY <2>0, FS_RemoveElement
        <4>2. E \subseteq D \ {w} BY <2>6
        <4>3. Cardinality(E) <= Cardinality(D) - 1 BY <4>1, <4>2, FS_Subset
        <4> QED BY <1>a, <2>0, <3>1, <3>3, <4>3
      <3> QED BY <2>2, <3>2, <3>3 DEF E
    <2>7. CASE ~(E \subseteq D)
      <3>1. PICK w \in E : w \notin D BY <2>7
      <3>2. E = D \cup {w} BY <2>3, <2>4, <2>1, <2>5, <3>1
      <3>3. Cardinality(E) = Cardinality(D) + 1 BY <2>0, <3>1, <3>2, FS_AddElement
      <3>4. smtp'[e] = smtp[e] BY <2>2, <3>2
      <3>5. emails'[e].attempts = emails[e].attempts + 1 BY <2>1, <3>1
      <3> QED BY <1>a, <2>0, <3>3, <3>4, <3>5 DEF E
    <2> QED BY <2>6, <2>7
  <1>8. \A w \in Workers : mailer'[w].pc = "accepted" => smtp'[mailer'[w].email] > 0
    <2> SUFFICES ASSUME NEW w \in Workers, mailer'[w].pc = "accepted" PROVE smtp'[mailer'[w].email] > 0 OBVIOUS
    <2>1. mailer[w] \in MailerStates BY <1>t
    <2>2. CASE mailer'[w] = mailer[w]
      <3>1. smtp[mailer[w].email] > 0 /\ mailer[w].email \in Emails
        BY <2>1, <2>2 DEF EmailInv, MailerStates, AtMail
      <3> QED BY <1>t, <1>3, <2>2, <3>1
    <2>3. CASE /\ mailer[w].pc = "delivering" /\ mailer'[w] = [mailer[w] EXCEPT !.pc = "accepted"]
               /\ smtp'[mailer[w].email] = smtp[mailer[w].email] + 1
      <3>1. mailer[w].email \in Emails /\ mailer'[w].email = mailer[w].email
        BY <2>1, <2>3 DEF MailerStates, AtMail
      <3> QED BY <1>t, <2>3, <3>1
    <2>4. mailer'[w] \notin {MailerAt(pc) : pc \in {"idle", "claiming"} \cup Gone}
      BY DEF MailerAt, Gone
    <2>5. \A pc \in {"claiming", "failing"} : mailer'[w] # [mailer[w] EXCEPT !.pc = pc]
      BY <2>1 DEF MailerStates
    <2>6. \A e \in Emails : mailer'[w] # [pc |-> "delivering", email |-> e, n |-> emails[e].attempts + 1]
      OBVIOUS
    <2> QED BY <1>s, <2>2, <2>3, <2>4, <2>5, <2>6 DEF MailerStep
  <1>9. \A e \in Emails : emails'[e].status = "SENT" => smtp'[e] > 0
    <2> SUFFICES ASSUME NEW e \in Emails, emails'[e].status = "SENT" PROVE smtp'[e] > 0 OBVIOUS
    <2>1. smtp[e] > 0
      <3>1. CASE emails[e].status = "SENT" BY <3>1 DEF EmailInv
      <3>2. CASE emails[e].status # "SENT" BY <3>2, EmailRowSteps DEF EmailInv
      <3> QED BY <3>1, <3>2
    <2> QED BY <1>t, <1>3, <2>1
  <1> QED BY <1>1, <1>2, <1>3, <1>5, <1>7, <1>8, <1>9 DEF EmailInv, EmailTypes

(* At the start nobody has a mail, and none was accepted. *)
LEMMA EmailStarts == ASSUME NEW queued, EmailInit(queued) PROVE EmailInv
  <1>1. \A e \in Emails : emails[e] \in EmailRows /\ RowAtRest(emails[e]) /\ emails[e].attempts = 0
                         /\ emails[e].status # "SENT"
    <2>1. 0 \in 0..MaxEmailAttempts BY EmailAssumption
    <2> DEFINE Fine(r) == r \in EmailRows /\ RowAtRest(r) /\ r.attempts = 0 /\ r.status # "SENT"
    <2>2. NoEmailRow \in EmailRows /\ NoEmailRow.status = "none" /\ NoEmailRow.due
          /\ NoEmailRow.attempts = 0 /\ NoEmailRow.lease = "none"
      BY <2>1 DEF NoEmailRow, EmailRows, EmailStatuses, Leases
    <2>3. PendingEmail \in EmailRows /\ PendingEmail.status = "PENDING" /\ PendingEmail.due
          /\ PendingEmail.attempts = 0 /\ PendingEmail.lease = "none"
      BY <2>2 DEF PendingEmail, EmailRows, EmailStatuses
    <2>4. Fine(NoEmailRow) /\ Fine(PendingEmail) BY <2>2, <2>3 DEF RowAtRest
    <2>5. \A e \in Emails : emails[e] \in {PendingEmail, NoEmailRow} BY DEF EmailInit
    <2> HIDE DEF Fine
    <2>6. \A e \in Emails : Fine(emails[e]) BY <2>4, <2>5
    <2> QED BY <2>6 DEF Fine
  <1>2. \A w \in Workers : mailer[w] \in MailerStates /\ mailer[w].pc = "idle"
    BY EmailAssumption DEF EmailInit, MailerAt, MailerStates, AtMail
  <1>3. \A e \in Emails : Delivering(e) = {} BY <1>2 DEF Delivering
  <1>4. \A e \in Emails : smtp[e] = 0 /\ Cardinality(Delivering(e)) = 0
    BY <1>3, FS_EmptySet DEF EmailInit
  <1>5. emails \in [Emails -> EmailRows] /\ mailer \in [Workers -> MailerStates] /\ smtp \in [Emails -> Nat]
    BY <1>1, <1>2, <1>4 DEF EmailInit
  <1> QED BY <1>1, <1>2, <1>4, <1>5 DEF EmailInv, EmailTypes

(* The invariant gives what is recorded of the mails. *)
LEMMA MailsAgree == EmailInv => EmailDeliveriesMatchAttempts
  <1> SUFFICES ASSUME EmailInv, NEW e \in Emails
               PROVE  (emails[e].status = "SENT" => smtp[e] > 0) /\ smtp[e] <= emails[e].attempts
    BY DEF EmailDeliveriesMatchAttempts
  <1>1. Cardinality(Delivering(e)) \in Nat
    BY FS_Subset, FS_CardinalityType, WorkersAssumption DEF Delivering
  <1> QED BY <1>1, EmailAssumption DEF EmailInv, EmailTypes, EmailRows

(* A mail is SENT only when the SMTP server has accepted it, and is accepted at most
   once per claim. *)
THEOREM MailsAreDeliveredAsCounted == EmailSpec => []EmailDeliveriesMatchAttempts
  <1>1. EmailInit(Emails) => EmailInv BY EmailStarts
  <1>2. EmailInv /\ [EmailNext]_emailVars => EmailInv' BY EmailStep
  <1> QED BY <1>1, <1>2, MailsAgree, PTL DEF EmailSpec

(* The rows are of their table's type. *)
LEMMA EmailsTyped == EmailInv => EmailTypeOK
  BY DEF EmailInv, EmailTypes, EmailTypeOK, MailerStates

(* In every reachable state. *)
THEOREM MailsTypeCorrect == EmailSpec => []EmailTypeOK
  <1>1. EmailInit(Emails) => EmailInv BY EmailStarts
  <1>2. EmailInv /\ [EmailNext]_emailVars => EmailInv' BY EmailStep
  <1> QED BY <1>1, <1>2, EmailsTyped, PTL DEF EmailSpec

(* What is settled stays settled, whatever a stalled worker still writes. *)
THEOREM SettledMailsStay == EmailSpec => SettledEmailStays
  <1>1. EmailInit(Emails) => EmailInv BY EmailStarts
  <1>2. EmailInv /\ [EmailNext]_emailVars => EmailInv' BY EmailStep
  <1>3. EmailInv /\ [EmailNext]_emailVars =>
          [\A e \in Emails : emails[e].status \in SettledEmail => emails'[e] = emails[e]]_emails
    BY EmailRowSteps DEF RowStep
  <1> QED BY <1>1, <1>2, <1>3, PTL DEF EmailSpec, SettledEmailStays
-----------------------------------------------------------------------------
Dates == Nat \X (1..31)
Subscriptions ==
  [plan : {NoPlan} \cup {PlanOf[p] : p \in Payments}, status : {"ACTIVE", "SUSPENDED"}, ends : Dates \cup {Never}]
HistoryRows == [sub : Subscriptions, by : Payments \cup {"admin"}, on : Calendar]

PaymentTypes ==
  /\ payments \in [Payments -> PaymentStatuses \cup {"new", "checked", "stored"}]
  /\ proofs \subseteq Payments /\ unanswered \subseteq Payments
  /\ subscriptions \in [Users -> Subscriptions]
  /\ history \in [Users -> Seq(HistoryRows)]
  /\ today \in Calendar
  /\ emails = [e \in Emails |-> emails[e]]

(* The subscription is what the last row of its history says. *)
HistoryIsCurrent ==
  \A u \in Users : history[u] # <<>> => history[u][Len(history[u])].sub = subscriptions[u]

PaymentInv ==
  /\ PaymentTypes /\ HistoryIsCurrent /\ PaymentEffects /\ RenewalKeepsPaidDays
  /\ \A p \in Payments : payments[p] = "stored" => p \in proofs

(* A month has a length. *)
LEMMA MonthHasLength == ASSUME NEW m \in Nat PROVE MonthLength(m) \in 28..31
  <1> DEFINE i == (m % 12) + 1
  <1>1. i \in 1..12 OBVIOUS
  <1>2. MonthLength(m) = <<31, 28, 31, 30, 31, 30, 31, 31, 30, 31, 30, 31>>[i] BY DEF MonthLength
  <1> HIDE DEF i
  <1> QED BY <1>1, <1>2

(* A date some months later is a date, on no later a day of the month. *)
LEMMA MonthsLater ==
  ASSUME NEW d \in Dates, NEW k \in {1, 12}, NEW e, e = AddBillingMonths(d, k)
  PROVE  /\ e \in Dates /\ e[1] = d[1] + k /\ e[2] <= d[2]
         /\ After(e, d)
  <1>1. d[1] \in Nat /\ d[2] \in 1..31 BY DEF Dates
  <1> DEFINE m == d[1] + k  last == MonthLength(m)  day == IF d[2] > last THEN last ELSE d[2]
  <1>2. m \in Nat /\ last \in 28..31 BY <1>1, MonthHasLength
  <1>3. e = <<m, day>> BY DEF AddBillingMonths
  <1>4. day \in 1..31 /\ day <= d[2] BY <1>1, <1>2
  <1> HIDE DEF last, day
  <1>5. e \in Dates /\ e[1] = m /\ e[2] = day BY <1>2, <1>3, <1>4 DEF Dates
  <1>6. e # Never BY <1>3 DEF Never
  <1> QED BY <1>1, <1>4, <1>5, <1>6 DEF After

(* A history row against the subscription before it. *)
Kept(new, old) ==
  (new.by \in Payments /\ old.plan = new.sub.plan /\ old.status = "ACTIVE" /\ After(old.ends, new.on))
  => /\ new.sub.ends[1] = old.ends[1] + MonthsOf[new.by]
     /\ new.sub.ends[2] <= old.ends[2]
     /\ After(new.sub.ends, old.ends)

(* RenewalKeepsPaidDays, row by row. *)
LEMMA RenewalsAreKept ==
  RenewalKeepsPaidDays <=> \A u \in Users : \A i \in DOMAIN history[u] \ {1} : Kept(history[u][i], history[u][i - 1].sub)
  BY DEF RenewalKeepsPaidDays, Kept

(* What WriteSubscription does: the row of u becomes sub, with a row of the history. *)
LEMMA SubscriptionIsWritten ==
  ASSUME PaymentInv, NEW u \in Users, NEW sub \in Subscriptions, NEW by \in Payments \cup {"admin"},
         WriteSubscription(u, sub, by),
         Kept([sub |-> sub, by |-> by, on |-> today], subscriptions[u])
  PROVE  /\ subscriptions' \in [Users -> Subscriptions] /\ history' \in [Users -> Seq(HistoryRows)]
         /\ HistoryIsCurrent' /\ RenewalKeepsPaidDays'
         /\ \A p \in Payments : IF p = by /\ Payer[p] = u
                                THEN GrantsOf(p)' = GrantsOf(p) \cup {Len(history[u]) + 1}
                                ELSE GrantsOf(p)' = GrantsOf(p)
  <1>t. subscriptions \in [Users -> Subscriptions] /\ history \in [Users -> Seq(HistoryRows)] /\ today \in Calendar
    BY DEF PaymentInv, PaymentTypes
  <1> DEFINE row == [sub |-> sub, by |-> by, on |-> today]  h == history[u]  g == Append(h, row)
  <1>1. subscriptions' = [subscriptions EXCEPT ![u] = sub] /\ history' = [history EXCEPT ![u] = g]
    BY DEF WriteSubscription
  <1>2. row \in HistoryRows /\ row.sub = sub /\ row.by = by /\ row.on = today BY <1>t DEF HistoryRows
  <1>k. Kept(row, subscriptions[u]) OBVIOUS
  <1> HIDE DEF row
  <1>3. /\ h \in Seq(HistoryRows) /\ g \in Seq(HistoryRows) /\ Len(g) = Len(h) + 1 /\ Len(h) \in Nat
        /\ g[Len(h) + 1] = row /\ \A i \in 1..Len(h) : g[i] = h[i]
        /\ DOMAIN g = 1..(Len(h) + 1) /\ DOMAIN h = 1..Len(h)
    BY <1>t, <1>2
  <1> HIDE DEF h, g
  <1>4. /\ \A v \in Users : subscriptions'[v] = IF v = u THEN sub ELSE subscriptions[v]
        /\ \A v \in Users : history'[v] = IF v = u THEN g ELSE history[v]
    BY <1>t, <1>1
  <1>5. subscriptions' \in [Users -> Subscriptions] /\ history' \in [Users -> Seq(HistoryRows)]
    BY <1>t, <1>1, <1>3
  <1>6. HistoryIsCurrent'
    BY <1>2, <1>3, <1>4 DEF PaymentInv, HistoryIsCurrent
  <1>7. RenewalKeepsPaidDays'
    <2>1. ASSUME NEW v \in Users, NEW i \in DOMAIN history'[v] \ {1}
          PROVE  Kept(history'[v][i], history'[v][i - 1].sub)
      <3>1. ASSUME NEW j \in DOMAIN history[v] \ {1} PROVE Kept(history[v][j], history[v][j - 1].sub)
        BY RenewalsAreKept DEF PaymentInv
      <3>2. CASE v # u BY <1>4, <2>1, <3>1, <3>2
      <3>3. CASE v = u
        <4>0. history'[v] = g /\ history[v] = h /\ i \in 1..(Len(h) + 1) /\ i # 1 /\ i - 1 \in 1..Len(h)
          BY <1>3, <1>4, <2>1, <3>3 DEF h
        <4>1. CASE i \in 1..Len(h)
          <5>1. g[i] = h[i] /\ g[i - 1] = h[i - 1] BY <1>3, <4>0, <4>1
          <5> QED BY <1>3, <3>1, <4>0, <4>1, <5>1
        <4>2. CASE i = Len(h) + 1
          <5>1. g[i] = row /\ g[i - 1] = h[Len(h)] /\ h # <<>> BY <1>3, <4>0, <4>2
          <5>2. h[Len(h)].sub = subscriptions[u] BY <5>1 DEF PaymentInv, HistoryIsCurrent, h
          <5> QED BY <1>k, <4>0, <5>1, <5>2
        <4> QED BY <4>0, <4>1, <4>2, <1>3
      <3> QED BY <3>2, <3>3
    <2> QED BY <2>1 DEF RenewalKeepsPaidDays, Kept
  <1>8. ASSUME NEW p \in Payments
        PROVE  IF p = by /\ Payer[p] = u THEN GrantsOf(p)' = GrantsOf(p) \cup {Len(h) + 1}
               ELSE GrantsOf(p)' = GrantsOf(p)
    <2>1. Payer[p] \in Users BY PaymentAssumption
    <2>2. CASE Payer[p] # u
      <3>1. history'[Payer[p]] = history[Payer[p]] BY <1>4, <2>1, <2>2
      <3> QED BY <2>2, <3>1 DEF GrantsOf
    <2>3. CASE Payer[p] = u
      <3>1. history'[Payer[p]] = g /\ history[Payer[p]] = h BY <1>4, <2>1, <2>3 DEF h
      <3>2. GrantsOf(p)' = {i \in DOMAIN g : g[i].by = p} /\ GrantsOf(p) = {i \in DOMAIN h : h[i].by = p}
        BY <3>1 DEF GrantsOf
      <3>3. DOMAIN g = DOMAIN h \cup {Len(h) + 1} BY <1>3
      <3> QED BY <1>2, <1>3, <2>3, <3>2, <3>3
    <2> QED BY <2>2, <2>3
  <1> QED BY <1>5, <1>6, <1>7, <1>8 DEF h

(* Mails are queued and never taken away. *)
LEMMA MailsAreQueued ==
  ASSUME NEW keys, emails' = WithEmails(keys)
  PROVE  /\ emails' = [e \in Emails |-> emails'[e]]
         /\ \A e \in Emails : emails'[e].status # "none" <=> e \in keys \/ emails[e].status # "none"
  <1>1. PendingEmail.status = "PENDING" BY DEF PendingEmail, NoEmailRow
  <1> HIDE DEF PendingEmail
  <1>2. emails' = [e \in Emails |-> IF e \in keys /\ emails[e].status = "none" THEN PendingEmail ELSE emails[e]]
    BY DEF WithEmails
  <1>3. emails' = [e \in Emails |-> emails'[e]] BY <1>2
  <1>4. \A e \in Emails : emails'[e].status # "none" <=> e \in keys \/ emails[e].status # "none"
    BY <1>1, <1>2
  <1> QED BY <1>3, <1>4

(* The mails of the payments are mails of the outbox, and tell the payments apart. *)
LEMMA MailsOfPayments ==
  ASSUME NEW p \in Payments
  PROVE  <<"submitted", p>> \in Emails /\ <<"approved", p>> \in Emails
  BY PaymentAssumption DEF Mails

(* The rows of a payment are finitely many. *)
LEMMA GrantsAreFinite ==
  ASSUME PaymentTypes, NEW p \in Payments
  PROVE  /\ IsFiniteSet(GrantsOf(p)) /\ Cardinality(GrantsOf(p)) \in Nat
         /\ Len(history[Payer[p]]) + 1 \notin GrantsOf(p)
  <1>1. history[Payer[p]] \in Seq(HistoryRows) BY PaymentAssumption DEF PaymentTypes
  <1> DEFINE n == Len(history[Payer[p]])
  <1>2. n \in Nat /\ DOMAIN history[Payer[p]] = 1..n BY <1>1
  <1>3. GrantsOf(p) \subseteq 1..n BY <1>2 DEF GrantsOf
  <1> HIDE DEF n
  <1>i. 1 \in Int /\ n \in Int BY <1>2
  <1>4. IsFiniteSet(1..n) BY <1>i, FS_Interval, Zenon
  <1>5. IsFiniteSet(GrantsOf(p)) BY <1>3, <1>4, FS_Subset
  <1>6. n + 1 \notin GrantsOf(p) BY <1>2, <1>3
  <1> QED BY <1>5, <1>6, FS_CardinalityType DEF n

(* PaymentEffects of one payment, of which p' is the status. *)
Effects(p) ==
  /\ Cardinality(GrantsOf(p)) = IF payments[p] = "APPROVED" THEN 1 ELSE 0
  /\ (emails[<<"approved", p>>].status # "none") <=> (payments[p] = "APPROVED")
  /\ emails[<<"submitted", p>>].status # "none" => payments[p] \in PaymentStatuses
  /\ payments[p] \in PaymentStatuses => p \in proofs \/ p \in unanswered

(* PaymentEffects follows from the effects of each payment, *)
LEMMA EffectsOfPayments ==
  (\A p \in Payments : Effects(p)) /\ HistoryIsCurrent => PaymentEffects
  BY PaymentAssumption DEF PaymentEffects, Effects, HistoryIsCurrent

(* and gives them. *)
LEMMA PaymentsHaveEffects == PaymentEffects => \A p \in Payments : Effects(p)
  BY DEF PaymentEffects, Effects

(* One case per action. *)
LEMMA PaymentStep == ASSUME PaymentInv, [PaymentNext]_<<paymentVars, emailVars>> PROVE PaymentInv'
  <1>t. /\ payments \in [Payments -> PaymentStatuses \cup {"new", "checked", "stored"}]
        /\ proofs \subseteq Payments /\ unanswered \subseteq Payments
        /\ subscriptions \in [Users -> Subscriptions] /\ history \in [Users -> Seq(HistoryRows)]
        /\ today \in Calendar /\ emails = [e \in Emails |-> emails[e]]
    BY DEF PaymentInv, PaymentTypes
  <1>e. \A p \in Payments : Effects(p) BY PaymentsHaveEffects DEF PaymentInv
  <1>c. UNCHANGED <<subscriptions, history>> =>
          HistoryIsCurrent' /\ RenewalKeepsPaidDays' /\ \A p \in Payments : GrantsOf(p)' = GrantsOf(p)
    BY DEF PaymentInv, HistoryIsCurrent, RenewalKeepsPaidDays, GrantsOf
  (* A payment that is not approved goes to another status st. *)
  <1>1. ASSUME NEW p \in Payments, NEW st \in PaymentStatuses \cup {"new", "checked", "stored"},
               payments' = [payments EXCEPT ![p] = st], st # "APPROVED", payments[p] # "APPROVED",
               UNCHANGED <<subscriptions, history, today>>,
               emails' = emails \/ (emails' = WithEmails({<<"submitted", p>>}) /\ st \in PaymentStatuses),
               payments[p] \in PaymentStatuses => st \in PaymentStatuses,
               proofs' \subseteq Payments, proofs \ {p} \subseteq proofs',
               unanswered' \subseteq Payments, unanswered \subseteq unanswered',
               st = "stored" => p \in proofs',
               st \in PaymentStatuses => p \in proofs' \/ p \in unanswered'
        PROVE  PaymentInv'
    <2>1. \A q \in Payments : payments'[q] = IF q = p THEN st ELSE payments[q] BY <1>t, <1>1
    <2>2. payments' \in [Payments -> PaymentStatuses \cup {"new", "checked", "stored"}] BY <1>t, <1>1
    <2>3. /\ emails' = [e \in Emails |-> emails'[e]]
          /\ \A q \in Payments : /\ (emails'[<<"approved", q>>].status # "none") <=> (emails[<<"approved", q>>].status # "none")
                                 /\ emails'[<<"submitted", q>>].status # "none" =>
                                      emails[<<"submitted", q>>].status # "none" \/ (q = p /\ st \in PaymentStatuses)
      <3>1. CASE emails' = emails BY <1>t, <3>1
      <3>2. CASE emails' = WithEmails({<<"submitted", p>>})
        <4>1. /\ emails' = [e \in Emails |-> emails'[e]]
              /\ \A e \in Emails : emails'[e].status # "none" <=> e \in {<<"submitted", p>>} \/ emails[e].status # "none"
          BY <3>2, MailsAreQueued
        <4>2. st \in PaymentStatuses \/ emails' = emails BY <1>1
        <4>3. \A q \in Payments : <<"approved", q>> \notin {<<"submitted", p>>}
                                   /\ (<<"submitted", q>> \in {<<"submitted", p>>} => q = p)
          OBVIOUS
        <4> QED BY <4>1, <4>2, <4>3, MailsOfPayments
      <3> QED BY <1>1, <3>1, <3>2
    <2>4. ASSUME NEW q \in Payments PROVE Effects(q)'
      <3>1. GrantsOf(q)' = GrantsOf(q) /\ Effects(q) BY <1>1, <1>c, <1>e
      <3>2. CASE q = p BY <1>1, <2>1, <2>3, <3>1, <3>2 DEF Effects, PaymentStatuses
      <3>3. CASE q # p BY <1>1, <2>1, <2>3, <3>1, <3>3 DEF Effects
      <3> QED BY <3>2, <3>3
    <2>5. \A q \in Payments : payments'[q] = "stored" => q \in proofs'
      BY <1>1, <2>1 DEF PaymentInv
    <2>6. HistoryIsCurrent' /\ RenewalKeepsPaidDays' BY <1>1, <1>c
    <2>7. PaymentEffects'
      BY <2>4, <2>6, PaymentAssumption DEF PaymentEffects, Effects, HistoryIsCurrent
    <2> QED BY <1>1, <1>t, <2>2, <2>3, <2>5, <2>6, <2>7 DEF PaymentInv, PaymentTypes
  <1>2. ASSUME NEW p \in Payments, CheckNoPendingPayment(p) PROVE PaymentInv'
    BY <1>1, <1>2, <1>t DEF CheckNoPendingPayment, PaymentStatuses
  <1>3. ASSUME NEW p \in Payments, StorePaymentProof(p) PROVE PaymentInv'
    BY <1>1, <1>3, <1>t DEF StorePaymentProof, PaymentStatuses
  <1>4. ASSUME NEW p \in Payments, SubmitPayment(p) PROVE PaymentInv'
    <2>0. payments[p] = "stored" /\ p \in proofs /\ UNCHANGED <<subscriptions, history, today>>
      BY <1>4 DEF SubmitPayment, PaymentInv
    <2>1. ASSUME CreatePayment(p), proofs' \in {proofs, proofs \ {p}},
                 unanswered' \in {unanswered, unanswered \cup {p}},
                 p \in proofs' \/ p \in unanswered'
          PROVE  PaymentInv'
      BY <1>1, <1>t, <2>0, <2>1 DEF CreatePayment, PaymentStatuses
    <2>2. CASE CreatePayment(p) /\ UNCHANGED <<proofs, unanswered>> BY <2>0, <2>1, <2>2
    <2>3. CASE /\ CreatePayment(p) /\ proofs' \in {proofs, proofs \ {p}}
               /\ unanswered' = unanswered \cup {p}
      BY <2>1, <2>3
    <2>4. CASE /\ payments' = [payments EXCEPT ![p] = "new"] /\ proofs' \in {proofs, proofs \ {p}}
               /\ UNCHANGED <<unanswered, emails>>
      BY <1>1, <1>t, <2>0, <2>4 DEF PaymentStatuses
    <2> QED BY <1>4, <2>2, <2>3, <2>4 DEF SubmitPayment
  <1>5. ASSUME NEW p \in Payments, NEW st \in {"REJECTED", "CANCELLED"}, RejectPayment(p, st) PROVE PaymentInv'
    <2>1. payments[p] = "PENDING" BY <1>5 DEF RejectPayment, Reviewable
    <2>2. p \in proofs \/ p \in unanswered BY <1>e, <2>1 DEF Effects, PaymentStatuses
    <2> QED BY <1>1, <1>5, <1>t, <2>1, <2>2 DEF RejectPayment, PaymentStatuses
  <1>6. ASSUME NEW p \in Payments, ApprovePayment(p) PROVE PaymentInv'
    <2> DEFINE u == Payer[p]  old == subscriptions[u]  d == PeriodEnd(u, PlanOf[p], MonthsOf[p])
               sub == [plan |-> PlanOf[p], status |-> "ACTIVE", ends |-> d]
    <2>0. u \in Users /\ MonthsOf[p] \in {1, 12} /\ payments[p] = "PENDING"
      BY <1>6, PaymentAssumption DEF ApprovePayment, Reviewable
    <2>1. old \in Subscriptions /\ today \in Dates BY <1>t, <2>0, PaymentAssumption DEF Dates
    <2> DEFINE renewal == old.plan = PlanOf[p] /\ old.status = "ACTIVE" /\ After(old.ends, today)
               from == IF renewal THEN old.ends ELSE today
    <2>2. d = AddBillingMonths(from, MonthsOf[p]) BY DEF PeriodEnd
    <2>3. renewal => old.ends \in Dates BY <2>1 DEF Subscriptions, After
    <2>4. from \in Dates BY <2>1, <2>3
    <2> HIDE DEF d
    <2>5. d \in Dates /\ d[1] = from[1] + MonthsOf[p] /\ d[2] <= from[2] /\ After(d, from)
      <3> HIDE DEF from
      <3> QED BY <2>0, <2>2, <2>4, MonthsLater
    <2>6. sub \in Subscriptions /\ sub.plan = PlanOf[p] /\ sub.ends = d BY <2>5 DEF Subscriptions
    <2>7. WriteSubscription(u, sub, p) BY <1>6 DEF ApprovePayment, d
    <2>8. Kept([sub |-> sub, by |-> p, on |-> today], old)
      <3> HIDE DEF sub
      <3>1. ASSUME old.plan = sub.plan, old.status = "ACTIVE", After(old.ends, today)
            PROVE  sub.ends[1] = old.ends[1] + MonthsOf[p] /\ sub.ends[2] <= old.ends[2] /\ After(sub.ends, old.ends)
        <4>1. from = old.ends BY <2>6, <3>1
        <4> QED BY <2>5, <2>6, <4>1
      <3> QED BY <3>1 DEF Kept
    <2> HIDE DEF sub, u
    <2>9. /\ subscriptions' \in [Users -> Subscriptions] /\ history' \in [Users -> Seq(HistoryRows)]
          /\ HistoryIsCurrent' /\ RenewalKeepsPaidDays'
          /\ \A q \in Payments : IF q = p /\ Payer[q] = u
                                 THEN GrantsOf(q)' = GrantsOf(q) \cup {Len(history[u]) + 1}
                                 ELSE GrantsOf(q)' = GrantsOf(q)
      BY <2>0, <2>6, <2>7, <2>8, SubscriptionIsWritten
    <2>10. /\ payments' = [payments EXCEPT ![p] = "APPROVED"] /\ emails' = WithEmails({<<"approved", p>>})
           /\ UNCHANGED <<proofs, today, unanswered>>
      BY <1>6 DEF ApprovePayment
    <2>11. \A q \in Payments : payments'[q] = IF q = p THEN "APPROVED" ELSE payments[q] BY <1>t, <2>10
    <2>12. payments' \in [Payments -> PaymentStatuses \cup {"new", "checked", "stored"}]
      BY <1>t, <2>10 DEF PaymentStatuses
    <2>13. /\ emails' = [e \in Emails |-> emails'[e]]
           /\ \A e \in Emails : emails'[e].status # "none" <=> e = <<"approved", p>> \/ emails[e].status # "none"
      <3>1. emails' = WithEmails({<<"approved", p>>}) BY <2>10
      <3>2. /\ emails' = [e \in Emails |-> emails'[e]]
            /\ \A e \in Emails : emails'[e].status # "none" <=> e \in {<<"approved", p>>} \/ emails[e].status # "none"
        BY <3>1, MailsAreQueued
      <3> QED BY <3>2
    <2>14. ASSUME NEW q \in Payments PROVE Effects(q)'
      <3>1. Effects(q) BY <1>e
      <3>2. CASE q = p
        <4>1. GrantsOf(q)' = GrantsOf(q) \cup {Len(history[Payer[q]]) + 1} BY <2>9, <3>2 DEF u
        <4>2. Cardinality(GrantsOf(q)) = 0 BY <2>0, <3>1, <3>2 DEF Effects
        <4> DEFINE k == Len(history[Payer[q]]) + 1
        <4>3. IsFiniteSet(GrantsOf(q)) /\ k \notin GrantsOf(q) BY GrantsAreFinite DEF PaymentInv
        <4> HIDE DEF k
        <4>4. Cardinality(GrantsOf(q) \cup {k}) = Cardinality(GrantsOf(q)) + 1 BY <4>3, FS_AddElement
        <4>5. Cardinality(GrantsOf(q)') = 1 BY <4>1, <4>2, <4>4 DEF k
        <4> QED BY <2>0, <2>10, <2>11, <2>13, <3>1, <3>2, <4>5, MailsOfPayments DEF Effects, PaymentStatuses
      <3>3. CASE q # p
        <4>1. GrantsOf(q)' = GrantsOf(q) /\ payments'[q] = payments[q] BY <2>9, <2>11, <3>3
        <4> QED BY <2>10, <2>13, <3>1, <3>3, <4>1, MailsOfPayments DEF Effects
      <3> QED BY <3>2, <3>3
    <2>15. PaymentEffects'
      BY <2>9, <2>14, PaymentAssumption DEF PaymentEffects, Effects, HistoryIsCurrent
    <2>16. \A q \in Payments : payments'[q] = "stored" => q \in proofs' BY <2>10, <2>11 DEF PaymentInv
    <2> QED BY <1>t, <2>9, <2>10, <2>12, <2>13, <2>15, <2>16 DEF PaymentInv, PaymentTypes
  <1>7. ASSUME NEW u \in Users, NEW p \in Payments, NEW status \in {"ACTIVE", "SUSPENDED"}, NEW d \in Calendar \cup {Never},
               EditSubscription(u, PlanOf[p], status, d)
        PROVE  PaymentInv'
    <2> DEFINE sub == [plan |-> PlanOf[p], status |-> status, ends |-> d]
    <2>1. sub \in Subscriptions BY PaymentAssumption DEF Subscriptions, Dates
    <2>2. WriteSubscription(u, sub, "admin") /\ UNCHANGED <<payments, proofs, today, unanswered, emails>>
      BY <1>7 DEF EditSubscription
    <2> HIDE DEF sub
    <2>3. "admin" \notin Payments BY PaymentAssumption
    <2>4. Kept([sub |-> sub, by |-> "admin", on |-> today], subscriptions[u]) BY <2>3 DEF Kept
    <2>5. /\ subscriptions' \in [Users -> Subscriptions] /\ history' \in [Users -> Seq(HistoryRows)]
          /\ HistoryIsCurrent' /\ RenewalKeepsPaidDays'
          /\ \A q \in Payments : GrantsOf(q)' = GrantsOf(q)
      BY <2>1, <2>2, <2>3, <2>4, SubscriptionIsWritten
    <2>6. \A q \in Payments : Effects(q)' BY <1>e, <2>2, <2>5 DEF Effects
    <2>7. PaymentEffects'
      BY <2>5, <2>6, PaymentAssumption DEF PaymentEffects, Effects, HistoryIsCurrent
    <2> QED BY <1>t, <2>2, <2>5, <2>7 DEF PaymentInv, PaymentTypes
  <1>8. ASSUME UNCHANGED <<payments, proofs, subscriptions, history, unanswered, emails>>, today' \in Calendar PROVE PaymentInv'
    <2>1. \A q \in Payments : Effects(q)' BY <1>8, <1>c, <1>e DEF Effects
    <2>2. PaymentEffects'
      BY <1>8, <1>c, <2>1, PaymentAssumption DEF PaymentEffects, Effects, HistoryIsCurrent
    <2> QED BY <1>8, <1>c, <1>t, <2>2 DEF PaymentInv, PaymentTypes
  <1>9. CASE UNCHANGED <<paymentVars, emailVars>> BY <1>8, <1>9, <1>t DEF paymentVars, emailVars
  <1>10. CASE DayPasses BY <1>8, <1>10 DEF DayPasses
  <1> QED BY <1>2, <1>3, <1>4, <1>5, <1>6, <1>7, <1>9, <1>10 DEF PaymentNext

(* At the start nothing has been paid for, and no mail of a payment waits. *)
LEMMA PaymentStarts ==
  ASSUME NEW queued, queued \cap Mails = {}, PaymentInit, EmailInit(queued)
  PROVE  PaymentInv
  <1>1. \A u \in Users : history[u] = <<>> BY DEF PaymentInit
  <1>2. HistoryIsCurrent /\ RenewalKeepsPaidDays BY <1>1 DEF HistoryIsCurrent, RenewalKeepsPaidDays
  <1>3. \A e \in Emails : e \notin queued => emails[e].status = "none" BY DEF EmailInit, NoEmailRow
  <1>4. ASSUME NEW p \in Payments PROVE Effects(p)
    <2>1. history[Payer[p]] = <<>> BY <1>1, PaymentAssumption
    <2>2. GrantsOf(p) = {} BY <2>1 DEF GrantsOf
    <2>3. Cardinality(GrantsOf(p)) = 0 BY <2>2, FS_EmptySet
    <2>4. payments[p] = "new" BY DEF PaymentInit
    <2>5. <<"approved", p>> \notin queued /\ <<"submitted", p>> \notin queued BY DEF Mails
    <2> QED BY <1>3, <2>3, <2>4, <2>5, MailsOfPayments DEF Effects, PaymentStatuses
  <1>5. PaymentTypes
    <2>1. [plan |-> NoPlan, status |-> "ACTIVE", ends |-> Never] \in Subscriptions BY DEF Subscriptions
    <2>2. emails = [e \in Emails |-> emails[e]] BY DEF EmailInit
    <2> QED BY <2>1, <2>2 DEF PaymentTypes, PaymentInit
  <1> QED BY <1>2, <1>4, <1>5, EffectsOfPayments DEF PaymentInv, PaymentInit

(* Payments, their proof files and the day stay well formed. *)
THEOREM PaymentsTypeCorrect == PaymentSpec => []PaymentTypeOK
  <1>1. PaymentInv => PaymentTypeOK BY DEF PaymentInv, PaymentTypes, PaymentTypeOK
  <1>2. PaymentInit /\ EmailInit({}) => PaymentInv BY PaymentStarts
  <1> QED BY <1>1, <1>2, PaymentStep, PTL DEF PaymentSpec

(* What a payment has done to the other tables. *)
THEOREM PaymentsTakeEffect == PaymentSpec => []PaymentEffects
  <1>1. PaymentInv => PaymentEffects BY DEF PaymentInv
  <1>2. PaymentInit /\ EmailInit({}) => PaymentInv BY PaymentStarts
  <1> QED BY <1>1, <1>2, PaymentStep, PTL DEF PaymentSpec

(* A renewal keeps every day that was paid for. *)
THEOREM RenewalsKeepPaidDays == PaymentSpec => []RenewalKeepsPaidDays
  <1>1. PaymentInv => RenewalKeepsPaidDays BY DEF PaymentInv
  <1>2. PaymentInit /\ EmailInit({}) => PaymentInv BY PaymentStarts
  <1> QED BY <1>1, <1>2, PaymentStep, PTL DEF PaymentSpec
-----------------------------------------------------------------------------
EventRows ==
  [status : {"none", "PENDING", "PROCESSING", "DISPATCHED", "DEAD_LETTER"},
   attempts : 0..MaxOutboxAttempts, due : BOOLEAN, lock : Workers \cup {Nobody}, lease : Leases,
   skipped : BOOLEAN]
DeliveryRows ==
  [status : {"none", "PENDING", "PROCESSING", "RETRYING"} \cup SettledDelivery,
   attempts : 0..MaxDeliveryAttempts, due : BOOLEAN, lock : Workers \cup {Nobody}, lease : Leases]
LogStatuses == {"none", "PROCESSING", "FAILED", "SUCCEEDED"}

(* What a worker may be doing: with an event, with a delivery, or with neither. *)
AtEvent == {"reading targets", "fanning out", "event failed"}
AtDelivery == {"checking", "opening", "cancelling", "posting", "posted", "failing"}
SenderPcs == {"polling", "claiming event", "sweeping", "closing", "claiming"} \cup Gone \cup AtEvent \cup AtDelivery
SenderStates ==
  {s \in [pc : SenderPcs, row : Events \cup Deliveries \cup {<<>>}, n : Nat, targets : SUBSET Endpoints,
          active : BOOLEAN] :
     /\ s.pc \in AtEvent => s.row \in Events
     /\ s.pc \in AtDelivery => s.row \in Deliveries /\ s.n \in 1..MaxDeliveryAttempts}

(* A row is locked exactly while it is worked on. *)
RowLocked(r) == (r.lock # Nobody) <=> (r.status = "PROCESSING")

WebhookTypes ==
  /\ outbox \in [Events -> EventRows] /\ \A e \in Events : RowLocked(outbox[e])
  /\ endpoints \in [Endpoints -> [state : {"active", "disabled", "deleted"}, changes : Nat]]
  /\ deliveries \in [Deliveries -> DeliveryRows] /\ \A d \in Deliveries : RowLocked(deliveries[d])
  /\ log \in [Deliveries -> [1..MaxDeliveryAttempts -> LogStatuses]]
  /\ received \in [Deliveries -> Nat]
  /\ sender \in [Workers -> SenderStates]

(* The rows the statements write: with another status, set back, and claimed. *)
WithStatus(r, st) == [Released(r) EXCEPT !.status = st]
SetBack(r, st, b) == [Released(r) EXCEPT !.status = st, !.due = b]
TakenRow(r, w) == [Claimed(r, w) EXCEPT !.status = "PROCESSING", !.attempts = @ + 1]

(* What a statement writes into a row that it releases: a delivery, *)
LEMMA ReleasedDelivery ==
  ASSUME NEW r \in DeliveryRows, NEW st \in {"RETRYING"} \cup SettledDelivery, NEW b \in BOOLEAN,
         NEW q, q = WithStatus(r, st) \/ q = SetBack(r, st, b)
  PROVE  /\ q \in DeliveryRows /\ q.status = st /\ q.attempts = r.attempts /\ q.lock = Nobody
         /\ RowLocked(q)
  BY DEF DeliveryRows, Released, Leases, WithStatus, SetBack, SettledDelivery, RowLocked

(* a delivery whose due time is left alone, *)
LEMMA RestatedDelivery ==
  ASSUME NEW r \in DeliveryRows, NEW st \in {"RETRYING"} \cup SettledDelivery, NEW q, q = WithStatus(r, st)
  PROVE  /\ q \in DeliveryRows /\ q.status = st /\ q.attempts = r.attempts /\ q.lock = Nobody
         /\ RowLocked(q)
  BY DEF DeliveryRows, Released, Leases, WithStatus, SettledDelivery, RowLocked

(* and an event. *)
LEMMA ReleasedEvent ==
  ASSUME NEW r \in EventRows, NEW st \in {"PENDING", "DISPATCHED", "DEAD_LETTER"}, NEW b \in BOOLEAN,
         NEW q, q = WithStatus(r, st) \/ q = SetBack(r, st, b)
  PROVE  /\ q \in EventRows /\ q.status = st /\ q.attempts = r.attempts /\ q.skipped = r.skipped
         /\ RowLocked(q)
  BY DEF EventRows, Released, Leases, WithStatus, SetBack, RowLocked

(* A claim counts one attempt more: of a delivery, *)
LEMMA TakenDelivery ==
  ASSUME NEW r \in DeliveryRows, NEW w \in Workers, NEW q,
         r.attempts < MaxDeliveryAttempts, q = TakenRow(r, w)
  PROVE  /\ q \in DeliveryRows /\ q.status = "PROCESSING" /\ q.attempts = r.attempts + 1
         /\ q.lock = w /\ RowLocked(q)
  <1> DEFINE n == r.attempts + 1
  <1>1. n \in 0..MaxDeliveryAttempts BY WebhookAssumption DEF DeliveryRows
  <1>2. r.attempts = Claimed(r, w).attempts BY DEF Claimed, DeliveryRows
  <1>3. q = [Claimed(r, w) EXCEPT !.status = "PROCESSING", !.attempts = n] BY <1>2 DEF TakenRow
  <1> HIDE DEF n
  <1>4. /\ q \in DeliveryRows /\ q.status = "PROCESSING" /\ q.attempts = n /\ q.lock = w
    BY <1>1, <1>3 DEF DeliveryRows, Claimed, Leases
  <1> QED BY <1>4, NobodyAssumption DEF n, RowLocked

(* and of an event. *)
LEMMA TakenEvent ==
  ASSUME NEW r \in EventRows, NEW w \in Workers, NEW q,
         r.attempts < MaxOutboxAttempts, q = TakenRow(r, w)
  PROVE  /\ q \in EventRows /\ q.status = "PROCESSING" /\ q.skipped = r.skipped
         /\ RowLocked(q)
  <1> DEFINE n == r.attempts + 1
  <1>1. n \in 0..MaxOutboxAttempts BY WebhookAssumption DEF EventRows
  <1>2. r.attempts = Claimed(r, w).attempts BY DEF Claimed, EventRows
  <1>3. q = [Claimed(r, w) EXCEPT !.status = "PROCESSING", !.attempts = n] BY <1>2 DEF TakenRow
  <1> HIDE DEF n
  <1>4. /\ q \in EventRows /\ q.status = "PROCESSING" /\ q.skipped = r.skipped /\ q.lock = w
    BY <1>1, <1>3 DEF EventRows, Claimed, Leases
  <1> QED BY <1>4, NobodyAssumption DEF RowLocked

(* A heartbeat, an expiry or a due time changes nothing else: of a delivery, *)
LEMMA LeasedDelivery ==
  ASSUME NEW r \in DeliveryRows, RowLocked(r), NEW l \in Leases, NEW q,
         q = [r EXCEPT !.lease = l] \/ q = [r EXCEPT !.due = TRUE]
  PROVE  /\ q \in DeliveryRows /\ q.status = r.status /\ q.attempts = r.attempts /\ q.lock = r.lock
         /\ RowLocked(q)
  BY DEF DeliveryRows, RowLocked

(* and of an event. *)
LEMMA LeasedEvent ==
  ASSUME NEW r \in EventRows, RowLocked(r), NEW l \in Leases, NEW q,
         q = [r EXCEPT !.lease = l] \/ q = [r EXCEPT !.due = TRUE]
  PROVE  /\ q \in EventRows /\ q.status = r.status /\ q.attempts = r.attempts /\ q.skipped = r.skipped
         /\ RowLocked(q)
  BY DEF EventRows, RowLocked

(* The first rows. *)
LEMMA FirstRows ==
  /\ NoDelivery \in DeliveryRows /\ NoDelivery.status = "none" /\ NoDelivery.attempts = 0 /\ RowLocked(NoDelivery)
  /\ PendingDelivery \in DeliveryRows /\ PendingDelivery.status = "PENDING" /\ PendingDelivery.attempts = 0
  /\ PendingDelivery.lock = Nobody /\ RowLocked(PendingDelivery)
  /\ NoEvent \in EventRows /\ NoEvent.status = "none" /\ NoEvent.attempts = 0 /\ RowLocked(NoEvent)
  /\ NoLog \in [1..MaxDeliveryAttempts -> LogStatuses]
  <1>1. 0 \in 0..MaxDeliveryAttempts /\ 0 \in 0..MaxOutboxAttempts BY WebhookAssumption
  <1> QED BY <1>1 DEF NoDelivery, PendingDelivery, NoEvent, NoLog, DeliveryRows, EventRows, Leases, RowLocked, LogStatuses
-----------------------------------------------------------------------------
(* How a worker moves: it stays, goes where it has no delivery at hand and fans no event
   out, starts to fan out the endpoints it reads as active, takes a delivery it claims, or
   goes on with the one it has. *)
Onward == {<<"checking", "opening">>, <<"opening", "posting">>, <<"opening", "cancelling">>, <<"opening", "failing">>,
           <<"cancelling", "failing">>, <<"posting", "posted">>, <<"posting", "failing">>, <<"posted", "failing">>}
Taking(w, d) ==
  /\ sender[w].pc = "claiming" /\ sender'[w].pc = "checking" /\ sender'[w].row = d
  /\ sender'[w].n = deliveries[d].attempts + 1
  /\ Claimable(deliveries[d], {"PENDING", "RETRYING"}, MaxDeliveryAttempts)
  /\ deliveries' = [deliveries EXCEPT ![d] = TakenRow(deliveries[d], w)]
SenderMove(w) ==
  \/ sender'[w] = sender[w]
  \/ sender'[w].pc \notin AtDelivery \cup {"fanning out"}
  \/ sender'[w].pc = "fanning out" /\ sender'[w].targets = {x \in Endpoints : endpoints[x].state = "active"}
  \/ \E d \in Deliveries : Taking(w, d)
  \/ /\ <<sender[w].pc, sender'[w].pc>> \in Onward
     /\ sender'[w].row = sender[w].row /\ sender'[w].n = sender[w].n

(* With a claimed delivery at hand it is where the types allow it. *)
HasDelivery(d, n, a) == [pc |-> "checking", row |-> d, n |-> n, targets |-> {}, active |-> a]

(* The state a worker is in after it has claimed a delivery, *)
LEMMA TakesDelivery ==
  ASSUME NEW d, NEW n, NEW a, NEW s, s = [SenderAt("checking") EXCEPT !.row = d, !.n = n, !.active = a]
  PROVE  s = HasDelivery(d, n, a)
  <1>1. s = [pc |-> "checking", row |-> d, n |-> n, targets |-> {}, active |-> a] BY DEF SenderAt
  <1> QED BY <1>1 DEF HasDelivery

(* and that it is one of the states of a worker. *)
LEMMA WithDelivery ==
  ASSUME NEW d \in Deliveries, NEW n \in 1..MaxDeliveryAttempts, NEW a \in BOOLEAN, NEW s,
         s = HasDelivery(d, n, a)
  PROVE  s \in SenderStates /\ s.pc = "checking" /\ s.row = d /\ s.n = n
  <1>1. s = [pc |-> "checking", row |-> d, n |-> n, targets |-> {}, active |-> a] BY DEF HasDelivery
  <1>2. n \in Nat /\ d \in Events \cup Deliveries \cup {<<>>} /\ "checking" \in SenderPcs
    BY DEF SenderPcs, AtDelivery
  <1>3. s \in [pc : SenderPcs, row : Events \cup Deliveries \cup {<<>>}, n : Nat, targets : SUBSET Endpoints,
               active : BOOLEAN]
    BY <1>1, <1>2
  <1>4. s.pc = "checking" /\ s.row = d /\ s.n = n BY <1>1
  <1> QED BY <1>3, <1>4 DEF SenderStates, AtEvent

(* Every step moves at most one worker, along the arrows of its loop. *)
LEMMA SenderMoves ==
  ASSUME WebhookTypes, [WebhookNext]_webhookVars
  PROVE  /\ sender' \in [Workers -> SenderStates]
         /\ \A w \in Workers : SenderMove(w)
         /\ \/ sender' = sender
            \/ \E w \in Workers : \E s : sender' = [sender EXCEPT ![w] = s]
  <1>t. sender \in [Workers -> SenderStates] /\ deliveries \in [Deliveries -> DeliveryRows] /\ outbox \in [Events -> EventRows]
    BY DEF WebhookTypes
  <1> DEFINE Goal == /\ sender' \in [Workers -> SenderStates]
                     /\ \A w \in Workers : SenderMove(w)
                     /\ \/ sender' = sender
                        \/ \E w \in Workers : \E s : sender' = [sender EXCEPT ![w] = s]
  <1>1. ASSUME sender' = sender PROVE Goal BY <1>t, <1>1 DEF SenderMove
  <1>2. ASSUME NEW w \in Workers, NEW s \in SenderStates, sender' = [sender EXCEPT ![w] = s], SenderMove(w)
        PROVE  Goal
    <2>1. ASSUME NEW v \in Workers PROVE SenderMove(v)
      <3>1. CASE v = w BY <1>2, <3>1
      <3>2. CASE v # w
        <4>1. sender'[v] = sender[v] BY <1>t, <1>2, <3>2
        <4> QED BY <4>1 DEF SenderMove
      <3> QED BY <3>1, <3>2
    <2>2. sender' \in [Workers -> SenderStates] BY <1>t, <1>2
    <2> QED BY <1>2, <2>1, <2>2, Zenon
  <1>3. ASSUME NEW w \in Workers, NEW pc \in {"polling", "claiming event", "sweeping", "closing", "claiming"} \cup Gone,
               sender' = [sender EXCEPT ![w] = SenderAt(pc)]
        PROVE  Goal
    <2>1. SenderAt(pc) \in SenderStates /\ SenderAt(pc).pc \notin AtDelivery \cup {"fanning out"}
      BY DEF SenderAt, SenderStates, SenderPcs, AtEvent, AtDelivery, Gone
    <2>2. sender'[w] = SenderAt(pc) BY <1>t, <1>3
    <2>3. SenderMove(w) BY <2>1, <2>2 DEF SenderMove
    <2> QED BY <1>2, <1>3, <2>1, <2>3
  <1>4. ASSUME NEW w \in Workers, NEW pc \in SenderPcs, sender' = [sender EXCEPT ![w].pc = pc],
               \/ <<sender[w].pc, pc>> \in Onward
               \/ pc = "event failed" /\ sender[w].pc \in AtEvent
        PROVE  Goal
    <2> DEFINE s == [sender[w] EXCEPT !.pc = pc]
    <2>1. sender' = [sender EXCEPT ![w] = s] BY <1>4
    <2>2. sender[w] \in SenderStates BY <1>t
    <2>3. s.pc = pc /\ s.row = sender[w].row /\ s.n = sender[w].n /\ s \in SenderStates
      <3>1. \/ pc \in AtDelivery /\ pc \notin AtEvent /\ sender[w].pc \in AtDelivery
            \/ pc \in AtEvent /\ pc \notin AtDelivery /\ sender[w].pc \in AtEvent
        BY <1>4 DEF Onward, AtDelivery, AtEvent
      <3> QED BY <2>2, <3>1 DEF SenderStates
    <2> HIDE DEF s
    <2>4. sender'[w] = s BY <1>t, <2>1
    <2>5. SenderMove(w)
      <3>1. CASE pc = "event failed" BY <2>3, <2>4, <3>1 DEF SenderMove, AtDelivery
      <3>2. CASE <<sender[w].pc, pc>> \in Onward BY <2>3, <2>4, <3>2 DEF SenderMove
      <3> QED BY <1>4, <3>1, <3>2
    <2> QED BY <1>2, <2>1, <2>3, <2>5
  <1>5. ASSUME NEW w \in Workers, ClaimEvent(w) PROVE Goal
    <2>1. ASSUME NEW e \in Events,
                 sender' = [sender EXCEPT ![w] = [SenderAt("reading targets") EXCEPT !.row = e, !.n = outbox[e].attempts + 1]]
          PROVE  Goal
      <3> DEFINE n == outbox[e].attempts + 1
                 s == [SenderAt("reading targets") EXCEPT !.row = e, !.n = n]
      <3>1. n \in Nat BY <1>t, WebhookAssumption DEF EventRows
      <3>2. sender' = [sender EXCEPT ![w] = s] BY <2>1
      <3> HIDE DEF n
      <3>3. s \in SenderStates /\ s.pc = "reading targets"
        BY <3>1 DEF SenderAt, SenderStates, SenderPcs, AtEvent, AtDelivery
      <3> HIDE DEF s
      <3>4. sender'[w] = s BY <1>t, <3>2
      <3>5. SenderMove(w) BY <3>3, <3>4 DEF SenderMove, AtDelivery
      <3> QED BY <1>2, <3>2, <3>3, <3>5
    <2> QED BY <1>3, <1>5, <2>1 DEF ClaimEvent
  <1>6. ASSUME NEW w \in Workers, ReadTargets(w) PROVE Goal
    <2>1. ASSUME sender' = [sender EXCEPT ![w].pc = "fanning out",
                              ![w].targets = {x \in Endpoints : endpoints[x].state = "active"}]
          PROVE  Goal
      <3> DEFINE X == {x \in Endpoints : endpoints[x].state = "active"}
                 s == [sender[w] EXCEPT !.pc = "fanning out", !.targets = X]
      <3>1. sender[w] \in SenderStates /\ sender[w].pc = "reading targets" BY <1>t, <1>6 DEF ReadTargets
      <3>2. sender' = [sender EXCEPT ![w] = s] BY <1>t, <2>1
      <3>3. X \in SUBSET Endpoints OBVIOUS
      <3> HIDE DEF X
      <3>4. s \in SenderStates /\ s.pc = "fanning out" /\ s.targets = X
        BY <3>1, <3>3 DEF SenderStates, SenderPcs, AtEvent, AtDelivery
      <3> HIDE DEF s
      <3>5. sender'[w] = s BY <1>t, <3>2
      <3>6. SenderMove(w) BY <3>4, <3>5 DEF SenderMove, X
      <3> QED BY <1>2, <3>2, <3>4, <3>6
    <2>2. CASE sender' = [sender EXCEPT ![w].pc = "event failed"]
      BY <1>4, <1>6, <2>2 DEF ReadTargets, SenderPcs, AtEvent
    <2> QED BY <1>3, <1>6, <2>1, <2>2 DEF ReadTargets
  <1>7. ASSUME NEW w \in Workers, FanOut(w) PROVE Goal
    <2>1. CASE sender' = [sender EXCEPT ![w].pc = "event failed"]
      BY <1>4, <1>7, <2>1 DEF FanOut, SenderPcs, AtEvent
    <2> QED BY <1>3, <1>7, <2>1 DEF FanOut
  <1>8. ASSUME NEW w \in Workers, ClaimDelivery(w) PROVE Goal
    <2>1. ASSUME NEW d \in Deliveries,
                 Claimable(deliveries[d], {"PENDING", "RETRYING"}, MaxDeliveryAttempts),
                 deliveries' = [deliveries EXCEPT ![d] = TakenRow(deliveries[d], w)],
                 sender' = [sender EXCEPT ![w] =
                   [SenderAt("checking") EXCEPT !.row = d, !.n = deliveries[d].attempts + 1,
                                                !.active = (endpoints[d[2]].state = "active")]]
          PROVE  Goal
      <3> DEFINE n == deliveries[d].attempts + 1
                 a == (endpoints[d[2]].state = "active")
                 q == [SenderAt("checking") EXCEPT !.row = d, !.n = n, !.active = a]
                 s == HasDelivery(d, n, a)
      <3>1. n \in 1..MaxDeliveryAttempts BY <1>t, <2>1, WebhookAssumption DEF DeliveryRows, Claimable
      <3>q. sender' = [sender EXCEPT ![w] = q] BY <2>1
      <3>2. sender' = [sender EXCEPT ![w] = s]
        <4>1. q = [SenderAt("checking") EXCEPT !.row = d, !.n = n, !.active = a] OBVIOUS
        <4> HIDE DEF q, a, n
        <4>2. q = HasDelivery(d, n, a) BY <4>1, TakesDelivery
        <4> QED BY <3>q, <4>2
      <3>3. a \in BOOLEAN OBVIOUS
      <3>r. s = HasDelivery(d, n, a) OBVIOUS
      <3> HIDE DEF s, n, a, q
      <3>4. s \in SenderStates /\ s.pc = "checking" /\ s.row = d /\ s.n = n
        BY <3>r, <3>1, <3>3, WithDelivery
      <3>5. sender'[w] = s BY <1>t, <3>2
      <3>6. Taking(w, d) BY <1>8, <2>1, <3>4, <3>5 DEF ClaimDelivery, Taking, n
      <3>7. SenderMove(w) BY <3>6 DEF SenderMove
      <3> QED BY <1>2, <3>2, <3>4, <3>7
    <2> QED BY <1>3, <1>8, <2>1 DEF ClaimDelivery, TakenRow
  <1>9. ASSUME NEW w \in Workers, CheckOwned(w) PROVE Goal
    <2>1. CASE OwnsDelivery(w)
      <3>1. sender' = [sender EXCEPT ![w].pc = "opening"] BY <1>9, <2>1 DEF CheckOwned
      <3>2. <<sender[w].pc, "opening">> \in Onward BY <1>9 DEF CheckOwned, Onward
      <3> QED BY <1>4, <3>1, <3>2 DEF SenderPcs, AtDelivery
    <2>2. CASE ~OwnsDelivery(w)
      <3>1. sender' = [sender EXCEPT ![w] = SenderAt("polling")] BY <1>9, <2>2 DEF CheckOwned
      <3> QED BY <1>3, <3>1
    <2> QED BY <2>1, <2>2
  <1>10. ASSUME NEW w \in Workers, OpenAttempt(w) PROVE Goal
    <2>1. PICK pc \in {"posting", "cancelling", "failing"} : sender' = [sender EXCEPT ![w].pc = pc]
      BY <1>10 DEF OpenAttempt
    <2>2. <<sender[w].pc, pc>> \in Onward BY <1>10 DEF OpenAttempt, Onward
    <2> QED BY <1>4, <2>1, <2>2 DEF SenderPcs, AtDelivery
  <1>11. ASSUME NEW w \in Workers, Post(w) PROVE Goal
    <2>1. PICK pc \in {"posted", "failing"} : sender' = [sender EXCEPT ![w].pc = pc]
      BY <1>11 DEF Post
    <2>2. <<sender[w].pc, pc>> \in Onward BY <1>11 DEF Post, Onward
    <2> QED BY <1>4, <2>1, <2>2 DEF SenderPcs, AtDelivery
  <1>12. ASSUME NEW w \in Workers, CancelDisabled(w) \/ Complete(w) PROVE Goal
    <2>1. CASE sender' = [sender EXCEPT ![w].pc = "failing"]
      <3>1. <<sender[w].pc, "failing">> \in Onward BY <1>12 DEF CancelDisabled, Complete, Onward
      <3> QED BY <1>4, <2>1, <3>1 DEF SenderPcs, AtDelivery
    <2> QED BY <1>3, <1>12, <2>1 DEF CancelDisabled, Complete
  <1>13. ASSUME NEW w \in Workers, StopSender(w) \/ KillSender(w) PROVE Goal
    BY <1>3, <1>13 DEF StopSender, KillSender, Gone
  <1>14. ASSUME NEW w \in Workers,
                \/ BuryEvents(w) \/ FailEvent(w) \/ BuryDeliveries(w) \/ CloseOrphanedAttempts(w)
                \/ FailDelivery(w)
         PROVE  Goal
    BY <1>3, <1>14 DEF BuryEvents, FailEvent, BuryDeliveries, CloseOrphanedAttempts, FailDelivery
  <1> HIDE DEF Goal
  <1>15. Goal
    BY <1>1, <1>5, <1>6, <1>7, <1>8, <1>9, <1>10, <1>11, <1>12, <1>13, <1>14
       DEF WebhookNext, SenderStep, HeartbeatWebhook, PublishEvent, EventLeaseExpires, QueueTest, Replay,
           ChangeEndpoint, DeliveryLeaseExpires, WebhookFallsDue, webhookVars
  <1> QED BY <1>15 DEF Goal
-----------------------------------------------------------------------------
(* Endpoints: a deleted one stays deleted, a change is counted. *)
EndpointMove(x) ==
  \/ endpoints'[x] = endpoints[x]
  \/ /\ endpoints[x].state # "deleted" /\ endpoints'[x].changes = endpoints[x].changes + 1
     /\ endpoints'[x].state \in {"active", "disabled", "deleted"}

(* Every step leaves an endpoint as it is or counts a change of it. *)
LEMMA EndpointMoves ==
  ASSUME WebhookTypes, [WebhookNext]_webhookVars
  PROVE  /\ endpoints' \in [Endpoints -> [state : {"active", "disabled", "deleted"}, changes : Nat]]
         /\ \A x \in Endpoints : EndpointMove(x)
  <1>t. endpoints \in [Endpoints -> [state : {"active", "disabled", "deleted"}, changes : Nat]] BY DEF WebhookTypes
  <1>1. CASE UNCHANGED endpoints BY <1>t, <1>1 DEF EndpointMove
  <1>2. ASSUME NEW y \in Endpoints, NEW st \in {"active", "disabled", "deleted"}, ChangeEndpoint(y, st)
        PROVE  /\ endpoints' \in [Endpoints -> [state : {"active", "disabled", "deleted"}, changes : Nat]]
               /\ \A x \in Endpoints : EndpointMove(x)
    <2>1. endpoints[y].state \notin {"deleted"} /\ endpoints' = [endpoints EXCEPT ![y] = [state |-> st, changes |-> endpoints[y].changes + 1]]
      BY <1>2 DEF ChangeEndpoint
    <2>2. endpoints[y].changes \in Nat BY <1>t
    <2>3. [state |-> st, changes |-> endpoints[y].changes + 1] \in [state : {"active", "disabled", "deleted"}, changes : Nat]
      BY <2>2
    <2>4. endpoints' \in [Endpoints -> [state : {"active", "disabled", "deleted"}, changes : Nat]]
      BY <1>t, <2>1, <2>3
    <2>5. \A x \in Endpoints : EndpointMove(x) BY <1>t, <2>1 DEF EndpointMove
    <2> QED BY <2>4, <2>5
  <1> QED
    BY <1>1, <1>2 DEF WebhookNext, SenderStep, BuryEvents, ClaimEvent, ReadTargets, FanOut, FailEvent, BuryDeliveries,
       CloseOrphanedAttempts, ClaimDelivery, CheckOwned, OpenAttempt, CancelDisabled, Post, Complete, FailDelivery,
       StopSender, KillSender, HeartbeatWebhook, PublishEvent, EventLeaseExpires, QueueTest, Replay,
       DeliveryLeaseExpires, WebhookFallsDue, webhookVars
-----------------------------------------------------------------------------
(* Deliveries are of endpoints that exist, and a test belongs to an event that does. *)
Existing ==
  /\ \A d \in Deliveries : endpoints[d[2]].state = "deleted" => deliveries[d].status = "none"
  /\ \A e \in Events : outbox[e].status = "none" =>
       \A x \in Endpoints : deliveries[<<e, x, "initial">>].status = "none" /\ deliveries[<<e, x, "test">>].status = "none"

(* How a delivery moves. *)
Goes(d) == endpoints'[d[2]].state = "deleted" /\ deliveries'[d] = NoDelivery /\ log'[d] = NoLog /\ received'[d] = 0
Succeeds(w, d) ==
  /\ sender[w].pc = "posted" /\ sender[w].row = d /\ OwnsDelivery(w)
  /\ deliveries'[d].status = "SUCCEEDED" /\ deliveries'[d].attempts = deliveries[d].attempts
  /\ deliveries'[d].lock = Nobody
  /\ log' = [log EXCEPT ![d][sender[w].n] = "SUCCEEDED"]
  /\ sender'[w].pc \notin AtDelivery
DeliveryMove(d) ==
  \/ /\ deliveries'[d].status = deliveries[d].status /\ deliveries'[d].attempts = deliveries[d].attempts
     /\ deliveries'[d].lock = deliveries[d].lock
  \/ deliveries[d].status = "none" /\ endpoints'[d[2]].state # "deleted" /\ deliveries'[d] = PendingDelivery
  \/ Goes(d)
  \/ \E w \in Workers : Taking(w, d)
  \/ /\ deliveries[d].status = "PROCESSING" /\ deliveries'[d].status \in {"RETRYING", "DEAD_LETTER"}
     /\ deliveries'[d].attempts = deliveries[d].attempts /\ deliveries'[d].lock = Nobody
  \/ /\ \E w \in Workers : sender[w].pc = "cancelling" /\ sender[w].row = d
     /\ deliveries[d].status # "none" /\ deliveries'[d].status = "CANCELLED"
     /\ deliveries'[d].attempts = deliveries[d].attempts /\ deliveries'[d].lock = Nobody
  \/ \E w \in Workers : Succeeds(w, d)

(* Every step moves a delivery row along its life. *)
LEMMA DeliveryMoves ==
  ASSUME WebhookTypes, Existing, [WebhookNext]_webhookVars, NEW d \in Deliveries
  PROVE  deliveries'[d] \in DeliveryRows /\ RowLocked(deliveries'[d]) /\ DeliveryMove(d)
  <1> DEFINE r == deliveries[d]
             t == deliveries'[d]
             Goal == deliveries'[d] \in DeliveryRows /\ RowLocked(deliveries'[d]) /\ DeliveryMove(d)
  <1>t. deliveries \in [Deliveries -> DeliveryRows] /\ sender \in [Workers -> SenderStates]
    BY DEF WebhookTypes
  <1>r. r \in DeliveryRows /\ RowLocked(r) BY DEF WebhookTypes
  <1>d. d = <<d[1], d[2], d[3]>> /\ d[1] \in Events /\ d[2] \in Endpoints BY DEF Deliveries
  <1>1. ASSUME t = r PROVE Goal BY <1>r, <1>1 DEF DeliveryMove
  <1>2. ASSUME NEW st \in {"RETRYING", "DEAD_LETTER"}, r.status = "PROCESSING",
               NEW b \in BOOLEAN, t = WithStatus(r, st) \/ t = SetBack(r, st, b)
        PROVE  Goal
    <2>1. st \in {"RETRYING"} \cup SettledDelivery BY DEF SettledDelivery
    <2> HIDE DEF r, t
    <2>2. /\ t \in DeliveryRows /\ t.status = st /\ t.attempts = r.attempts /\ t.lock = Nobody /\ RowLocked(t)
      BY <1>r, <1>2, <2>1, ReleasedDelivery
    <2> QED BY <1>2, <2>2 DEF DeliveryMove, r, t
  <1>3. ASSUME NEW l \in Leases, t = [r EXCEPT !.lease = l] \/ t = [r EXCEPT !.due = TRUE] PROVE Goal
    <2> HIDE DEF r, t
    <2>1. t \in DeliveryRows /\ t.status = r.status /\ t.attempts = r.attempts /\ t.lock = r.lock /\ RowLocked(t)
      BY <1>r, <1>3, LeasedDelivery
    <2> QED BY <2>1 DEF DeliveryMove, r, t
  <1>4. ASSUME r.status = "none", endpoints'[d[2]].state # "deleted", t = PendingDelivery PROVE Goal
    BY <1>4, FirstRows DEF DeliveryMove
  <1>5. ASSUME NEW e \in Events, NEW x \in Endpoints, QueueTest(e, x) PROVE Goal
    <2>1. deliveries[<<e, x, "test">>].status = "none" BY <1>5 DEF QueueTest, Existing
    <2>2. t = IF d = <<e, x, "test">> THEN PendingDelivery ELSE r BY <1>t, <1>5 DEF QueueTest
    <2>3. endpoints' = endpoints /\ endpoints[x].state # "deleted" BY <1>5 DEF QueueTest
    <2> QED BY <1>1, <1>4, <2>1, <2>2, <2>3
  <1>6. ASSUME NEW e \in Events, NEW x \in Endpoints, Replay(e, x) PROVE Goal
    <2>1. PICK kind \in {"initial", "test"} : deliveries[<<e, x, kind>>].status # "none" BY <1>6 DEF Replay
    <2>2. <<e, x, kind>> \in Deliveries /\ <<e, x, kind>>[2] = x BY DEF Deliveries
    <2>3. endpoints[x].state # "deleted" BY <2>1, <2>2 DEF Existing
    <2>4. t = IF d = <<e, x, "replay">> THEN PendingDelivery ELSE r BY <1>t, <1>6 DEF Replay
    <2>5. endpoints' = endpoints /\ deliveries[<<e, x, "replay">>].status = "none" BY <1>6 DEF Replay
    <2> QED BY <1>1, <1>4, <2>3, <2>4, <2>5
  <1>7. ASSUME NEW x \in Endpoints, NEW st \in {"active", "disabled", "deleted"}, ChangeEndpoint(x, st) PROVE Goal
    <2>1. CASE st = "deleted" /\ d[2] = x
      <3>1. t = NoDelivery /\ log'[d] = NoLog /\ received'[d] = 0 BY <1>7, <2>1 DEF ChangeEndpoint
      <3>2. endpoints' = [endpoints EXCEPT ![x] = [state |-> st, changes |-> endpoints[x].changes + 1]]
        BY <1>7 DEF ChangeEndpoint
      <3>3. endpoints'[x].state = st BY <3>2 DEF WebhookTypes
      <3> QED BY <2>1, <3>1, <3>3, FirstRows DEF DeliveryMove, Goes
    <2>2. CASE ~(st = "deleted" /\ d[2] = x)
      <3>1. t = r BY <1>7, <2>2 DEF ChangeEndpoint
      <3> QED BY <1>1, <3>1
    <2> QED BY <2>1, <2>2
  <1>8. ASSUME NEW w \in Workers, FanOut(w) PROVE Goal
    <2>1. CASE deliveries' = deliveries BY <1>1, <2>1
    <2>2. CASE deliveries' # deliveries
      <3>1. /\ deliveries' = FannedOut(sender[w].row, sender[w].targets) /\ endpoints' = endpoints
            /\ ~\E x \in sender[w].targets : endpoints[x].state = "deleted"
        BY <1>8, <2>2 DEF FanOut
      <3>2. t = r \/ (t = PendingDelivery /\ r.status = "none" /\ d[2] \in sender[w].targets)
        BY <3>1 DEF FannedOut
      <3> QED BY <1>1, <1>4, <3>1, <3>2
    <2> QED BY <2>1, <2>2
  <1>9. ASSUME NEW w \in Workers, BuryDeliveries(w) PROVE Goal
    <2>1. t = r \/ (r.status = "PROCESSING" /\ t = WithStatus(r, "DEAD_LETTER"))
      BY <1>9 DEF BuryDeliveries, Lapsed, Buried, WithStatus
    <2> QED BY <1>1, <1>2, <2>1
  <1>10. ASSUME NEW w \in Workers, ClaimDelivery(w) PROVE Goal
    <2>1. CASE deliveries' = deliveries BY <1>1, <2>1
    <2>2. CASE deliveries' # deliveries
      <3>1. PICK x \in Deliveries :
              /\ Claimable(deliveries[x], {"PENDING", "RETRYING"}, MaxDeliveryAttempts)
              /\ deliveries' = [deliveries EXCEPT ![x] = TakenRow(deliveries[x], w)]
              /\ sender' = [sender EXCEPT ![w] =
                   [SenderAt("checking") EXCEPT !.row = x, !.n = deliveries[x].attempts + 1,
                                                !.active = (endpoints[x[2]].state = "active")]]
        BY <1>10, <2>2 DEF ClaimDelivery, TakenRow
      <3>2. CASE x # d
        <4>1. t = r BY <1>t, <3>1, <3>2
        <4> QED BY <1>1, <4>1
      <3>3. CASE x = d
        <4>1. sender'[w] = [SenderAt("checking") EXCEPT !.row = d, !.n = deliveries[d].attempts + 1,
                                                        !.active = (endpoints[d[2]].state = "active")]
          BY <1>t, <3>1, <3>3
        <4>2. sender'[w].pc = "checking" /\ sender'[w].row = d /\ sender'[w].n = deliveries[d].attempts + 1
          BY <4>1 DEF SenderAt
        <4>3. Taking(w, d) BY <1>10, <3>1, <3>3, <4>2 DEF Taking, ClaimDelivery
        <4>4. t = TakenRow(r, w) /\ r.attempts < MaxDeliveryAttempts BY <1>t, <3>1, <3>3 DEF Claimable
        <4>5. DeliveryMove(d) BY <4>3 DEF DeliveryMove
        <4> HIDE DEF r, t
        <4>6. t \in DeliveryRows /\ RowLocked(t) BY <1>r, <4>4, TakenDelivery
        <4> QED BY <4>5, <4>6 DEF t
      <3> QED BY <3>2, <3>3
    <2> QED BY <2>1, <2>2
  <1>11. ASSUME NEW w \in Workers, CancelDisabled(w) PROVE Goal
    <2>1. CASE t = r BY <1>1, <2>1
    <2>2. CASE t # r
      <3>1. /\ sender[w].pc = "cancelling" /\ sender[w].row = d /\ r.status # "none" /\ t = WithStatus(r, "CANCELLED")
        BY <1>t, <1>11, <2>2 DEF CancelDisabled, DeliveryOf, WithStatus
      <3>2. "CANCELLED" \in {"RETRYING"} \cup SettledDelivery BY DEF SettledDelivery
      <3> HIDE DEF r, t
      <3>3. t \in DeliveryRows /\ RowLocked(t) /\ t.status = "CANCELLED" /\ t.attempts = r.attempts /\ t.lock = Nobody
        BY <1>r, <3>1, <3>2, RestatedDelivery
      <3> QED BY <3>1, <3>3 DEF DeliveryMove, r, t
    <2> QED BY <2>1, <2>2
  <1>12. ASSUME NEW w \in Workers, Complete(w) PROVE Goal
    <2>1. CASE t = r BY <1>1, <2>1
    <2>2. CASE t # r
      <3>1. /\ sender[w].pc = "posted" /\ sender[w].row = d /\ OwnsDelivery(w) /\ t = WithStatus(r, "SUCCEEDED")
            /\ log' = [log EXCEPT ![d][sender[w].n] = "SUCCEEDED"]
            /\ sender' = [sender EXCEPT ![w] = SenderAt("polling")]
        BY <1>t, <1>12, <2>2 DEF Complete, WithStatus
      <3>2. "SUCCEEDED" \in {"RETRYING"} \cup SettledDelivery BY DEF SettledDelivery
      <3>3. sender'[w].pc = "polling" BY <1>t, <3>1 DEF SenderAt
      <3> HIDE DEF r, t
      <3>4. t \in DeliveryRows /\ RowLocked(t) /\ t.status = "SUCCEEDED" /\ t.attempts = r.attempts /\ t.lock = Nobody
        BY <1>r, <3>1, <3>2, RestatedDelivery
      <3>5. Succeeds(w, d) BY <3>1, <3>3, <3>4 DEF Succeeds, r, t, AtDelivery
      <3> QED BY <3>4, <3>5 DEF DeliveryMove, t
    <2> QED BY <2>1, <2>2
  <1>13. ASSUME NEW w \in Workers, FailDelivery(w) PROVE Goal
    <2>1. CASE t = r BY <1>1, <2>1
    <2>2. CASE t # r
      <3>1. /\ sender[w].row = d /\ OwnsDelivery(w)
            /\ t = WithStatus(r, "DEAD_LETTER") \/ t = SetBack(r, "RETRYING", FALSE)
        BY <1>t, <1>13, <2>2 DEF FailDelivery, WithStatus, SetBack, Buried
      <3>2. r.status = "PROCESSING" BY <3>1 DEF OwnsDelivery, DeliveryOf
      <3> QED BY <1>2, <3>1, <3>2
    <2> QED BY <2>1, <2>2
  <1>14. ASSUME NEW w \in Workers, StopSender(w) PROVE Goal
    <2>1. t = r \/ (r.status = "PROCESSING" /\ t = SetBack(r, "RETRYING", TRUE))
      BY <1>14 DEF StopSender, HeldBy, SetBack
    <2> QED BY <1>1, <1>2, <2>1
  <1>15. ASSUME NEW w \in Workers, HeartbeatWebhook(w) PROVE Goal
    <2>1. t = r \/ t = [r EXCEPT !.lease = "live"] BY <1>t, <1>15 DEF HeartbeatWebhook
    <2> QED BY <1>1, <1>3, <2>1 DEF Leases
  <1>16. ASSUME NEW x \in Deliveries, DeliveryLeaseExpires(x) PROVE Goal
    <2>1. t = r \/ t = [r EXCEPT !.lease = "expired"] BY <1>t, <1>16 DEF DeliveryLeaseExpires
    <2> QED BY <1>1, <1>3, <2>1 DEF Leases
  <1>17. ASSUME WebhookFallsDue PROVE Goal
    <2>1. t = r \/ t = [r EXCEPT !.due = TRUE] BY <1>t, <1>17 DEF WebhookFallsDue
    <2> QED BY <1>1, <1>3, <2>1 DEF Leases
  <1>18. ASSUME UNCHANGED deliveries PROVE Goal BY <1>1, <1>18
  <1>u. ASSUME NEW w \in Workers,
               \/ BuryEvents(w) \/ ClaimEvent(w) \/ ReadTargets(w) \/ FailEvent(w) \/ CloseOrphanedAttempts(w)
               \/ CheckOwned(w) \/ OpenAttempt(w) \/ Post(w) \/ KillSender(w)
        PROVE  UNCHANGED deliveries
    BY <1>u DEF BuryEvents, ClaimEvent, ReadTargets, FailEvent, CloseOrphanedAttempts, CheckOwned,
           OpenAttempt, Post, KillSender
  <1>v. ASSUME NEW e \in Events, PublishEvent(e) \/ EventLeaseExpires(e) PROVE UNCHANGED deliveries
    BY <1>v DEF PublishEvent, EventLeaseExpires
  <1>x. ASSUME UNCHANGED webhookVars PROVE Goal BY <1>18, <1>x DEF webhookVars
  <1> HIDE DEF Goal, r, t
  <1>19. ASSUME NEW w \in Workers, SenderStep(w) PROVE Goal
    BY <1>8, <1>9, <1>10, <1>11, <1>12, <1>13, <1>18, <1>u, <1>19 DEF SenderStep
  <1>20. ASSUME WebhookNext PROVE Goal
    BY <1>5, <1>6, <1>7, <1>14, <1>15, <1>16, <1>17, <1>18, <1>19, <1>u, <1>v, <1>20 DEF WebhookNext
  <1>21. Goal BY <1>20, <1>x DEF webhookVars
  <1> QED BY <1>21 DEF Goal
-----------------------------------------------------------------------------
(* How a row of the delivery log moves: an open attempt is closed, a worker that has the
   delivery opens or fails it, or it succeeds together with the delivery. *)
LogMove(d, n) ==
  \/ log'[d][n] = log[d][n]
  \/ Goes(d)
  \/ log[d][n] = "PROCESSING" /\ log'[d][n] = "FAILED"
  \/ /\ \E w \in Workers : /\ sender[w].pc \in {"opening", "cancelling"} /\ sender[w].row = d /\ sender[w].n = n
                           /\ deliveries[d].status # "none"
     /\ log'[d][n] \in {"PROCESSING", "FAILED"}
  \/ \E w \in Workers : Succeeds(w, d) /\ sender[w].n = n

(* Every step writes an attempt of the log only for the delivery that is claimed or settled. *)
LEMMA LogMoves ==
  ASSUME WebhookTypes, Existing, [WebhookNext]_webhookVars
  PROVE  /\ log' \in [Deliveries -> [1..MaxDeliveryAttempts -> LogStatuses]]
         /\ \A d \in Deliveries, n \in 1..MaxDeliveryAttempts : LogMove(d, n)
  <1> DEFINE Attempts == 1..MaxDeliveryAttempts
             Goal == /\ log' \in [Deliveries -> [1..MaxDeliveryAttempts -> LogStatuses]]
                     /\ \A d \in Deliveries, n \in 1..MaxDeliveryAttempts : LogMove(d, n)
  <1>t. /\ log \in [Deliveries -> [Attempts -> LogStatuses]] /\ sender \in [Workers -> SenderStates]
        /\ deliveries \in [Deliveries -> DeliveryRows]
    BY DEF WebhookTypes
  <1>w. \A w \in Workers : sender[w].pc \in AtDelivery => sender[w].row \in Deliveries /\ sender[w].n \in Attempts
    BY <1>t DEF SenderStates
  <1>a. {"none", "PROCESSING", "FAILED", "SUCCEEDED"} = LogStatuses BY DEF LogStatuses
  <1> HIDE DEF Attempts
  <1>1. ASSUME UNCHANGED log PROVE Goal BY <1>t, <1>1 DEF LogMove, Attempts
  <1>2. ASSUME NEW x \in Deliveries, NEW k \in Attempts, NEW l \in LogStatuses,
               log' = [log EXCEPT ![x][k] = l], LogMove(x, k)
        PROVE  Goal
    <2>1. log' \in [Deliveries -> [Attempts -> LogStatuses]] BY <1>t, <1>2
    <2>2. ASSUME NEW d \in Deliveries, NEW n \in Attempts PROVE LogMove(d, n)
      <3>1. CASE d = x /\ n = k BY <1>2, <3>1
      <3>2. CASE ~(d = x /\ n = k)
        <4>1. log'[d][n] = log[d][n] BY <1>t, <1>2, <3>2
        <4> QED BY <4>1 DEF LogMove
      <3> QED BY <3>1, <3>2
    <2> QED BY <2>1, <2>2 DEF Attempts
  <1>3. ASSUME NEW w \in Workers, CloseOrphanedAttempts(w) \/ StopSender(w) PROVE Goal
    <2> DEFINE f == log'
    <2>1. /\ f = [d \in Deliveries |-> [n \in Attempts |-> f[d][n]]]
          /\ \A d \in Deliveries, n \in Attempts : f[d][n] = log[d][n] \/ (log[d][n] = "PROCESSING" /\ f[d][n] = "FAILED")
      <3>1. CASE CloseOrphanedAttempts(w) BY <3>1 DEF CloseOrphanedAttempts, Attempts
      <3>2. CASE StopSender(w) BY <3>2 DEF StopSender, Attempts
      <3> QED BY <1>3, <3>1, <3>2
    <2>2. \A d \in Deliveries, n \in Attempts : f[d][n] \in LogStatuses BY <1>t, <1>a, <2>1
    <2> HIDE DEF f
    <2>3. f \in [Deliveries -> [Attempts -> LogStatuses]] BY <2>1, <2>2
    <2>4. \A d \in Deliveries, n \in Attempts : LogMove(d, n) BY <2>1 DEF f, LogMove
    <2> QED BY <2>3, <2>4 DEF f, Attempts
  <1>4. ASSUME NEW x \in Endpoints, NEW st \in {"active", "disabled", "deleted"}, ChangeEndpoint(x, st) PROVE Goal
    <2>1. CASE st # "deleted" BY <1>1, <1>4, <2>1 DEF ChangeEndpoint
    <2>2. CASE st = "deleted"
      <3>1. log' = [d \in Deliveries |-> IF d[2] = x THEN NoLog ELSE log[d]] BY <1>4, <2>2 DEF ChangeEndpoint
      <3>2. log' \in [Deliveries -> [Attempts -> LogStatuses]] BY <1>t, <3>1, FirstRows DEF Attempts
      <3>3. ASSUME NEW d \in Deliveries, NEW n \in Attempts PROVE LogMove(d, n)
        <4>1. CASE d[2] # x BY <3>1, <4>1 DEF LogMove
        <4>2. CASE d[2] = x
          <5>1. deliveries'[d] = NoDelivery /\ log'[d] = NoLog /\ received'[d] = 0
            BY <1>4, <2>2, <4>2 DEF ChangeEndpoint
          <5>2. endpoints' = [endpoints EXCEPT ![x] = [state |-> st, changes |-> endpoints[x].changes + 1]]
            BY <1>4 DEF ChangeEndpoint
          <5>3. endpoints'[x].state = st BY <5>2 DEF WebhookTypes
          <5> QED BY <2>2, <4>2, <5>1, <5>3 DEF LogMove, Goes
        <4> QED BY <4>1, <4>2
      <3> QED BY <3>2, <3>3 DEF Attempts
    <2> QED BY <2>1, <2>2
  <1>5. ASSUME NEW w \in Workers, OpenAttempt(w) PROVE Goal
    <2>1. CASE log' = log BY <1>1, <2>1
    <2>2. CASE log' # log
      <3> DEFINE d == sender[w].row
                 n == sender[w].n
      <3>1. /\ sender[w].pc = "opening" /\ deliveries[d].status # "none"
            /\ log' = [log EXCEPT ![d][n] = "PROCESSING"]
        BY <1>5, <2>2 DEF OpenAttempt, DeliveryOf
      <3>2. d \in Deliveries /\ n \in Attempts BY <1>w, <3>1 DEF AtDelivery
      <3>3. log'[d][n] = "PROCESSING" BY <1>t, <3>1, <3>2
      <3>4. LogMove(d, n) BY <3>1, <3>3 DEF LogMove
      <3> HIDE DEF d, n
      <3> QED BY <1>2, <1>a, <3>1, <3>2, <3>4
    <2> QED BY <2>1, <2>2
  <1>6. ASSUME NEW w \in Workers, CancelDisabled(w) PROVE Goal
    <2>1. CASE log' = log BY <1>1, <2>1
    <2>2. CASE log' # log
      <3> DEFINE d == sender[w].row
                 n == sender[w].n
      <3>1. /\ sender[w].pc = "cancelling" /\ deliveries[d].status # "none"
            /\ log' = [log EXCEPT ![d][n] = "FAILED"]
        BY <1>6, <2>2 DEF CancelDisabled, DeliveryOf
      <3>2. d \in Deliveries /\ n \in Attempts BY <1>w, <3>1 DEF AtDelivery
      <3>3. log'[d][n] = "FAILED" BY <1>t, <3>1, <3>2
      <3>4. LogMove(d, n) BY <3>1, <3>3 DEF LogMove
      <3> HIDE DEF d, n
      <3> QED BY <1>2, <1>a, <3>1, <3>2, <3>4
    <2> QED BY <2>1, <2>2
  <1>7. ASSUME NEW w \in Workers, Complete(w) PROVE Goal
    <2>1. CASE log' = log BY <1>1, <2>1
    <2>2. CASE log' # log
      <3> DEFINE d == sender[w].row
                 n == sender[w].n
      <3>1. /\ sender[w].pc = "posted" /\ OwnsDelivery(w)
            /\ deliveries' = [deliveries EXCEPT ![d] = WithStatus(deliveries[d], "SUCCEEDED")]
            /\ log' = [log EXCEPT ![d][n] = "SUCCEEDED"]
            /\ sender' = [sender EXCEPT ![w] = SenderAt("polling")]
        BY <1>7, <2>2 DEF Complete, WithStatus
      <3>2. d \in Deliveries /\ n \in Attempts BY <1>w, <3>1 DEF AtDelivery
      <3>3. sender'[w].pc \notin AtDelivery BY <1>t, <3>1 DEF SenderAt, AtDelivery
      <3>4. sender[w].row = d /\ sender[w].n = n OBVIOUS
      <3> HIDE DEF d, n
      <3>5. deliveries'[d] = WithStatus(deliveries[d], "SUCCEEDED") /\ deliveries[d] \in DeliveryRows BY <1>t, <3>1, <3>2
      <3>6. "SUCCEEDED" \in {"RETRYING"} \cup SettledDelivery BY DEF SettledDelivery
      <3>7. /\ deliveries'[d].status = "SUCCEEDED" /\ deliveries'[d].attempts = deliveries[d].attempts
            /\ deliveries'[d].lock = Nobody
        BY <3>5, <3>6, RestatedDelivery
      <3>8. Succeeds(w, d) BY <3>1, <3>3, <3>4, <3>7 DEF Succeeds
      <3>9. LogMove(d, n) BY <3>4, <3>8 DEF LogMove
      <3> QED BY <1>2, <1>a, <3>1, <3>2, <3>9
    <2> QED BY <2>1, <2>2
  <1>8. ASSUME NEW w \in Workers, FailDelivery(w) PROVE Goal
    <2>1. CASE log' = log BY <1>1, <2>1
    <2>2. CASE log' # log
      <3> DEFINE d == sender[w].row
                 n == sender[w].n
                 l == IF log[d][n] = "PROCESSING" THEN "FAILED" ELSE log[d][n]
      <3>1. sender[w].pc = "failing" /\ log' = [log EXCEPT ![d][n] = l]
        BY <1>8, <2>2 DEF FailDelivery
      <3>2. d \in Deliveries /\ n \in Attempts BY <1>w, <3>1 DEF AtDelivery
      <3>3. l \in LogStatuses BY <1>t, <1>a, <3>2
      <3>4. log'[d][n] = l BY <1>t, <3>1, <3>2
      <3>5. LogMove(d, n) BY <3>4 DEF LogMove
      <3> HIDE DEF d, n, l
      <3> QED BY <1>2, <3>1, <3>2, <3>3, <3>5
    <2> QED BY <2>1, <2>2
  <1>u. ASSUME NEW w \in Workers,
               \/ BuryEvents(w) \/ ClaimEvent(w) \/ ReadTargets(w) \/ FanOut(w) \/ FailEvent(w) \/ BuryDeliveries(w)
               \/ ClaimDelivery(w) \/ CheckOwned(w) \/ Post(w) \/ KillSender(w) \/ HeartbeatWebhook(w)
        PROVE  UNCHANGED log
    BY <1>u DEF BuryEvents, ClaimEvent, ReadTargets, FanOut, FailEvent, BuryDeliveries, ClaimDelivery, CheckOwned,
           Post, KillSender, HeartbeatWebhook
  <1>v. ASSUME \/ \E e \in Events : PublishEvent(e) \/ EventLeaseExpires(e)
               \/ \E e \in Events, x \in Endpoints : QueueTest(e, x) \/ Replay(e, x)
               \/ \E d \in Deliveries : DeliveryLeaseExpires(d)
               \/ WebhookFallsDue
               \/ UNCHANGED webhookVars
        PROVE  UNCHANGED log
    BY <1>v DEF PublishEvent, EventLeaseExpires, QueueTest, Replay, DeliveryLeaseExpires, WebhookFallsDue, webhookVars
  <1> HIDE DEF Goal
  <1>19. ASSUME NEW w \in Workers, SenderStep(w) PROVE Goal
    BY <1>1, <1>3, <1>5, <1>6, <1>7, <1>8, <1>u, <1>19 DEF SenderStep
  <1>20. Goal BY <1>1, <1>3, <1>4, <1>19, <1>u, <1>v DEF WebhookNext, webhookVars
  <1> QED BY <1>20 DEF Goal

(* What an endpoint has accepted grows by one request at a time, of a worker that has
   none other open for it. *)
Asks(w, d) ==
  /\ sender[w].pc = "posting" /\ sender[w].row = d /\ sender'[w].pc \in {"posted", "failing"}
  /\ deliveries[d].status # "none" /\ received'[d] = received[d] + 1 /\ deliveries' = deliveries
ReceivedMove(d) == received'[d] = received[d] \/ Goes(d) \/ \E w \in Workers : Asks(w, d)

(* A receiver is asked only by a worker at its request, which then goes on. *)
LEMMA ReceivedMoves ==
  ASSUME WebhookTypes, [WebhookNext]_webhookVars
  PROVE  /\ received' \in [Deliveries -> Nat] /\ \A d \in Deliveries : ReceivedMove(d)
         /\ \A w \in Workers : sender[w].pc = "posting" /\ sender'[w].pc = "posted" =>
              deliveries' = deliveries /\ (DeliveryOf(w).status = "none" \/ received'[sender[w].row] > 0)
  <1> DEFINE Asked == \A w \in Workers : sender[w].pc = "posting" /\ sender'[w].pc = "posted" =>
                        deliveries' = deliveries /\ (DeliveryOf(w).status = "none" \/ received'[sender[w].row] > 0)
             Goal == received' \in [Deliveries -> Nat] /\ (\A d \in Deliveries : ReceivedMove(d)) /\ Asked
  <1>t. received \in [Deliveries -> Nat] /\ sender \in [Workers -> SenderStates] BY DEF WebhookTypes
  <1>1. ASSUME NEW w \in Workers, Post(w) PROVE Goal
    <2> DEFINE d == sender[w].row
    <2>1. d \in Deliveries BY <1>t, <1>1 DEF Post, SenderStates, AtDelivery
    <2>2. PICK pc \in {"posted", "failing"} :
            /\ sender' = [sender EXCEPT ![w].pc = pc]
            /\ \/ deliveries[d].status = "none" /\ received' = received
               \/ deliveries[d].status # "none" /\ received' = [received EXCEPT ![d] = @ + 1]
               \/ pc = "failing" /\ received' = received
      BY <1>1 DEF Post, DeliveryOf
    <2>3. sender[w] \in SenderStates /\ sender[w].pc = "posting" /\ deliveries' = deliveries BY <1>t, <1>1 DEF Post
    <2>4. sender'[w].pc = pc /\ sender'[w].row = d /\ \A v \in Workers : v # w => sender'[v] = sender[v]
      BY <1>t, <2>2, <2>3 DEF SenderStates
    <2>d. sender[w].row = d OBVIOUS
    <2> HIDE DEF d
    <2>5. received' \in [Deliveries -> Nat] BY <1>t, <2>1, <2>2
    <2>6. ASSUME NEW x \in Deliveries PROVE ReceivedMove(x)
      <3>1. received'[x] = received[x] \/ (x = d /\ deliveries[d].status # "none" /\ received'[d] = received[d] + 1)
        BY <1>t, <2>1, <2>2
      <3>2. CASE x = d /\ deliveries[d].status # "none" /\ received'[d] = received[d] + 1
        BY <2>2, <2>3, <2>4, <2>d, <3>2 DEF ReceivedMove, Asks
      <3> QED BY <3>1, <3>2 DEF ReceivedMove
    <2>7. ASSUME NEW v \in Workers, sender[v].pc = "posting", sender'[v].pc = "posted"
          PROVE  deliveries' = deliveries /\ (DeliveryOf(v).status = "none" \/ received'[sender[v].row] > 0)
      <3>1. v = w BY <2>4, <2>7
      <3>2. received[d] \in Nat BY <1>t, <2>1
      <3>3. deliveries[d].status # "none" => received'[d] = received[d] + 1
        BY <1>t, <2>1, <2>2, <2>4, <2>7, <3>1
      <3> QED BY <2>3, <2>d, <3>1, <3>2, <3>3 DEF DeliveryOf
    <2> QED BY <2>5, <2>6, <2>7
  <1>2. ASSUME NEW x \in Endpoints, NEW st \in {"active", "disabled", "deleted"}, ChangeEndpoint(x, st) PROVE Goal
    <2>1. Asked BY <1>2 DEF ChangeEndpoint
    <2>2. CASE st # "deleted" BY <1>t, <1>2, <2>1, <2>2 DEF ChangeEndpoint, ReceivedMove
    <2>3. CASE st = "deleted"
      <3>1. received' = [d \in Deliveries |-> IF d[2] = x THEN 0 ELSE received[d]]
        BY <1>2, <2>3 DEF ChangeEndpoint
      <3>2. received' \in [Deliveries -> Nat] BY <1>t, <3>1
      <3>3. ASSUME NEW d \in Deliveries PROVE ReceivedMove(d)
        <4>1. CASE d[2] # x BY <3>1, <4>1 DEF ReceivedMove
        <4>2. CASE d[2] = x
          <5>1. deliveries'[d] = NoDelivery /\ log'[d] = NoLog /\ received'[d] = 0
            BY <1>2, <2>3, <4>2 DEF ChangeEndpoint
          <5>2. endpoints' = [endpoints EXCEPT ![x] = [state |-> st, changes |-> endpoints[x].changes + 1]]
            BY <1>2 DEF ChangeEndpoint
          <5>3. endpoints'[x].state = st BY <5>2 DEF WebhookTypes
          <5> QED BY <2>3, <4>2, <5>1, <5>3 DEF ReceivedMove, Goes
        <4> QED BY <4>1, <4>2
      <3> QED BY <2>1, <3>2, <3>3
    <2> QED BY <2>2, <2>3
  <1>3. ASSUME received' = received, \A w \in Workers : sender[w].pc = "posting" => sender'[w].pc # "posted" PROVE Goal
    BY <1>t, <1>3 DEF ReceivedMove
  <1>4. ASSUME NEW w \in Workers, NEW s, sender[w].pc # "posting" \/ s.pc # "posted",
               sender' = [sender EXCEPT ![w] = s], received' = received
        PROVE  Goal
    <2>1. \A v \in Workers : sender[v].pc = "posting" => sender'[v].pc # "posted"
      BY <1>t, <1>4
    <2> QED BY <1>3, <1>4, <2>1
  <1>5. ASSUME UNCHANGED <<sender, received>> PROVE Goal BY <1>3, <1>5
  <1>6. ASSUME NEW w \in Workers,
               \/ BuryEvents(w) \/ ClaimEvent(w) \/ ReadTargets(w) \/ FanOut(w) \/ FailEvent(w) \/ BuryDeliveries(w)
               \/ ClaimDelivery(w) \/ CheckOwned(w) \/ CloseOrphanedAttempts(w)
               \/ OpenAttempt(w) \/ CancelDisabled(w) \/ Complete(w) \/ FailDelivery(w)
        PROVE  sender[w].pc # "posting" /\ received' = received
    BY <1>6 DEF BuryEvents, ClaimEvent, ReadTargets, FanOut, FailEvent, BuryDeliveries, ClaimDelivery, CheckOwned,
           CloseOrphanedAttempts, OpenAttempt, CancelDisabled, Complete, FailDelivery
  <1>7. ASSUME NEW w \in Workers, StopSender(w) \/ KillSender(w)
        PROVE  received' = received /\ \E pc \in Gone : sender' = [sender EXCEPT ![w] = SenderAt(pc)]
    BY <1>7 DEF StopSender, KillSender, Gone
  <1>8. ASSUME \/ \E w \in Workers : HeartbeatWebhook(w)
               \/ \E e \in Events : PublishEvent(e) \/ EventLeaseExpires(e)
               \/ \E e \in Events, x \in Endpoints : QueueTest(e, x) \/ Replay(e, x)
               \/ \E d \in Deliveries : DeliveryLeaseExpires(d)
               \/ WebhookFallsDue
               \/ UNCHANGED webhookVars
        PROVE  UNCHANGED <<sender, received>>
    BY <1>8 DEF HeartbeatWebhook, PublishEvent, EventLeaseExpires, QueueTest, Replay, DeliveryLeaseExpires, WebhookFallsDue, webhookVars
  <1>9. \A w \in Workers : \A s : sender' = [sender EXCEPT ![w] = s] => \A v \in Workers : v # w => sender'[v] = sender[v]
    BY <1>t
  <1>10. ASSUME NEW w \in Workers, SenderStep(w), ~Post(w) PROVE Goal
    <2>1. sender[w].pc # "posting" /\ received' = received BY <1>6, <1>10 DEF SenderStep
    <2>2. \E s : sender' = [sender EXCEPT ![w] = s] \/ sender' = sender
      BY <1>10 DEF SenderStep, BuryEvents, ClaimEvent, ReadTargets, FanOut, FailEvent, BuryDeliveries, ClaimDelivery, CheckOwned,
           CloseOrphanedAttempts, OpenAttempt, CancelDisabled, Complete, FailDelivery
    <2> QED BY <1>4, <1>5, <2>1, <2>2
  <1>11. ASSUME NEW w \in Workers, StopSender(w) \/ KillSender(w) PROVE Goal
    <2>1. PICK pc \in Gone : sender' = [sender EXCEPT ![w] = SenderAt(pc)] BY <1>7, <1>11
    <2>2. SenderAt(pc).pc # "posted" BY DEF SenderAt, Gone
    <2> QED BY <1>4, <1>7, <1>11, <2>1, <2>2
  <1> HIDE DEF Goal
  <1>12. Goal BY <1>1, <1>2, <1>5, <1>8, <1>10, <1>11 DEF WebhookNext, webhookVars
  <1> QED BY <1>12 DEF Goal
-----------------------------------------------------------------------------
(* What the workers that have a delivery at hand know of it. *)
ToPost == {"checking", "opening", "posting"}
Asking(d) == {w \in Workers : sender[w].pc \in ToPost /\ sender[w].row = d}
Has(w, d) == sender[w].pc \in AtDelivery /\ sender[w].row = d

(* The claim a worker works under: an attempt that was counted, the last one if the row
   still carries its lock, and its own; nobody has the last attempt of a success. *)
Claims ==
  \A d \in Deliveries :
    /\ deliveries[d].status = "none" => deliveries[d].attempts = 0
    /\ \A w \in Workers : Has(w, d) =>
         /\ deliveries[d].status = "none" => endpoints[d[2]].state = "deleted"
         /\ deliveries[d].status # "none" => sender[w].n <= deliveries[d].attempts
         /\ deliveries[d].status = "PROCESSING" /\ deliveries[d].lock = w => sender[w].n = deliveries[d].attempts
         /\ deliveries[d].status = "SUCCEEDED" => sender[w].n # deliveries[d].attempts
         /\ deliveries[d].status # "none" => \A v \in Workers : Has(v, d) /\ v # w => sender[v].n # sender[w].n
         /\ sender[w].pc = "posted" /\ deliveries[d].status # "none" => received[d] > 0

(* The requests made and those to be made never outnumber the claims. *)
AskedAsClaimed ==
  \A d \in Deliveries : deliveries[d].status # "none" => received[d] + Cardinality(Asking(d)) <= deliveries[d].attempts

DeliveryInv == WebhookTypes /\ Existing /\ Claims /\ AskedAsClaimed /\ DeliveryLogAgrees

(* A worker that has a delivery after a step had it before, or claims it in this step. *)
LEMMA HadOrTakes ==
  ASSUME WebhookTypes, [WebhookNext]_webhookVars, NEW w \in Workers, NEW d \in Deliveries, Has(w, d)'
  PROVE  \/ /\ Has(w, d) /\ sender'[w].n = sender[w].n
            /\ sender'[w].pc \in ToPost => sender[w].pc \in ToPost
            /\ sender'[w].pc = "posted" => sender[w].pc \in {"posting", "posted"}
         \/ Taking(w, d)
  <1>1. SenderMove(w) BY SenderMoves
  <1>2. CASE sender'[w] = sender[w] BY <1>2 DEF Has
  <1>3. ASSUME NEW x \in Deliveries, Taking(w, x) PROVE Taking(w, d) BY <1>3 DEF Taking, Has
  <1>4. CASE /\ <<sender[w].pc, sender'[w].pc>> \in Onward
             /\ sender'[w].row = sender[w].row /\ sender'[w].n = sender[w].n
    <2>1. /\ sender[w].pc \in AtDelivery
          /\ sender'[w].pc \in ToPost => sender[w].pc \in ToPost
          /\ sender'[w].pc = "posted" => sender[w].pc \in {"posting", "posted"}
      BY <1>4 DEF Onward, AtDelivery, ToPost
    <2> QED BY <1>4, <2>1 DEF Has
  <1>5. sender'[w].pc \in AtDelivery /\ sender'[w].pc # "fanning out" BY DEF Has, AtDelivery
  <1> QED BY <1>1, <1>2, <1>3, <1>4, <1>5 DEF SenderMove

(* One worker moves at a time. *)
LEMMA OneMoves ==
  ASSUME WebhookTypes, [WebhookNext]_webhookVars, NEW w \in Workers, sender'[w] # sender[w],
         NEW v \in Workers, v # w
  PROVE  sender'[v] = sender[v]
  <1>1. sender \in [Workers -> SenderStates] BY DEF WebhookTypes
  <1>2. \/ sender' = sender
        \/ \E u \in Workers : \E s : sender' = [sender EXCEPT ![u] = s]
    BY SenderMoves
  <1>3. PICK u \in Workers : \E s : sender' = [sender EXCEPT ![u] = s] BY <1>2
  <1> QED BY <1>1, <1>3

(* A claim is of an existing delivery, and counts one attempt more. *)
LEMMA Takings ==
  ASSUME WebhookTypes, NEW w \in Workers, NEW d \in Deliveries, Taking(w, d)
  PROVE  /\ deliveries[d].status \in {"PENDING", "RETRYING", "PROCESSING"}
         /\ deliveries'[d].status = "PROCESSING" /\ deliveries'[d].lock = w
         /\ deliveries'[d].attempts = deliveries[d].attempts + 1
         /\ sender'[w].n = deliveries[d].attempts + 1 /\ ~Has(w, d) /\ sender'[w].pc = "checking" /\ sender'[w].row = d
  <1>1. /\ deliveries[d] \in DeliveryRows /\ deliveries'[d] = TakenRow(deliveries[d], w)
        /\ deliveries[d].attempts < MaxDeliveryAttempts
    BY DEF WebhookTypes, Taking, Claimable
  <1> DEFINE r == deliveries[d]
             q == deliveries'[d]
  <1> HIDE DEF r, q
  <1>2. r \in DeliveryRows /\ q = TakenRow(r, w) /\ r.attempts < MaxDeliveryAttempts BY <1>1 DEF r, q
  <1>3. q.status = "PROCESSING" /\ q.attempts = r.attempts + 1 /\ q.lock = w BY <1>2, TakenDelivery
  <1> QED BY <1>3 DEF r, q, Taking, Claimable, Lapsed, Has, AtDelivery

(* Claims is kept: one case per kind of move of the delivery. *)
LEMMA ClaimsStep ==
  ASSUME DeliveryInv, [WebhookNext]_webhookVars
  PROVE  Claims'
  <1> SUFFICES ASSUME NEW d \in Deliveries
               PROVE
    /\ deliveries'[d].status = "none" => deliveries'[d].attempts = 0
    /\ \A w \in Workers : Has(w, d)' =>
         /\ deliveries'[d].status = "none" => endpoints'[d[2]].state = "deleted"
         /\ deliveries'[d].status # "none" => sender'[w].n <= deliveries'[d].attempts
         /\ deliveries'[d].status = "PROCESSING" /\ deliveries'[d].lock = w => sender'[w].n = deliveries'[d].attempts
         /\ deliveries'[d].status = "SUCCEEDED" => sender'[w].n # deliveries'[d].attempts
         /\ deliveries'[d].status # "none" => \A v \in Workers : Has(v, d)' /\ v # w => sender'[v].n # sender'[w].n
         /\ sender'[w].pc = "posted" /\ deliveries'[d].status # "none" => received'[d] > 0
    BY DEF Claims
  <1>t. WebhookTypes /\ Existing BY DEF DeliveryInv
  <1>m. DeliveryMove(d) BY <1>t, DeliveryMoves
  <1>d. d[2] \in Endpoints BY DEF Deliveries
  <1>e. endpoints[d[2]].state = "deleted" => endpoints'[d[2]].state = "deleted"
    BY <1>t, <1>d, EndpointMoves DEF EndpointMove
  <1>a. deliveries[d].attempts \in Nat
    BY <1>t, WebhookAssumption DEF WebhookTypes, DeliveryRows
  <1>c. /\ deliveries[d].status = "none" => deliveries[d].attempts = 0
        /\ \A w \in Workers : Has(w, d) =>
             /\ deliveries[d].status = "none" => endpoints[d[2]].state = "deleted"
             /\ deliveries[d].status # "none" => sender[w].n <= deliveries[d].attempts
             /\ deliveries[d].status = "PROCESSING" /\ deliveries[d].lock = w => sender[w].n = deliveries[d].attempts
             /\ deliveries[d].status = "SUCCEEDED" => sender[w].n # deliveries[d].attempts
             /\ deliveries[d].status # "none" => \A v \in Workers : Has(v, d) /\ v # w => sender[v].n # sender[w].n
             /\ sender[w].pc = "posted" /\ deliveries[d].status # "none" => received[d] > 0
    BY DEF DeliveryInv, Claims
  <1>h. \A w \in Workers : Has(w, d)' => (Has(w, d) /\ sender'[w].n = sender[w].n) \/ Taking(w, d)
    BY <1>t, HadOrTakes
  <1>n. \A w \in Workers : Has(w, d) => sender[w].n \in Nat
    BY <1>t DEF WebhookTypes, SenderStates, Has
  <1>N. NoDelivery.status = "none" /\ NoDelivery.attempts = 0 /\ PendingDelivery.status = "PENDING"
    BY FirstRows
  <1>1. deliveries'[d].status = "none" => deliveries'[d].attempts = 0
    <2>1. \A w \in Workers : Taking(w, d) => deliveries'[d].status = "PROCESSING" BY <1>t, Takings
    <2> QED BY <1>m, <1>c, <1>N, <2>1 DEF DeliveryMove, Goes, Succeeds
  <1>2. ASSUME NEW w \in Workers, Has(w, d)'
        PROVE  /\ deliveries'[d].status = "none" => endpoints'[d[2]].state = "deleted"
               /\ deliveries'[d].status # "none" => sender'[w].n <= deliveries'[d].attempts
               /\ deliveries'[d].status = "PROCESSING" /\ deliveries'[d].lock = w => sender'[w].n = deliveries'[d].attempts
               /\ deliveries'[d].status = "SUCCEEDED" => sender'[w].n # deliveries'[d].attempts
    <2>1. CASE Taking(w, d)
      <3>1. /\ deliveries'[d].status = "PROCESSING" /\ sender'[w].n = deliveries'[d].attempts /\ deliveries'[d].attempts \in Nat
        BY <1>t, <1>a, <2>1, Takings
      <3> QED BY <3>1
    <2>2. CASE Has(w, d) /\ sender'[w].n = sender[w].n
      <3>1. CASE /\ deliveries'[d].status = deliveries[d].status /\ deliveries'[d].attempts = deliveries[d].attempts
                 /\ deliveries'[d].lock = deliveries[d].lock
        BY <1>c, <1>e, <2>2, <3>1
      <3>2. CASE deliveries[d].status = "none" /\ endpoints'[d[2]].state # "deleted"
        BY <1>c, <1>e, <2>2, <3>2
      <3>3. CASE Goes(d) BY <1>N, <3>3 DEF Goes
      <3>4. ASSUME NEW v \in Workers, Taking(v, d)
            PROVE  /\ deliveries'[d].status = "PROCESSING" /\ deliveries'[d].lock # w
                   /\ sender'[w].n <= deliveries'[d].attempts
        <4>1. /\ deliveries[d].status \in {"PENDING", "RETRYING", "PROCESSING"}
              /\ deliveries'[d].status = "PROCESSING" /\ deliveries'[d].lock = v
              /\ deliveries'[d].attempts = deliveries[d].attempts + 1 /\ ~Has(v, d)
          BY <1>t, <3>4, Takings
        <4>2. sender[w].n <= deliveries[d].attempts BY <1>c, <2>2, <4>1
        <4> QED BY <1>a, <1>n, <2>2, <4>1, <4>2
      <3>5. CASE /\ deliveries[d].status # "none" /\ deliveries'[d].status \in {"RETRYING", "DEAD_LETTER", "CANCELLED"}
                 /\ deliveries'[d].attempts = deliveries[d].attempts
        BY <1>c, <2>2, <3>5
      <3>6. ASSUME NEW v \in Workers, Succeeds(v, d)
            PROVE  /\ deliveries'[d].status = "SUCCEEDED" /\ sender'[w].n <= deliveries'[d].attempts
                   /\ sender'[w].n # deliveries'[d].attempts
        <4>1. /\ Has(v, d) /\ deliveries[d].status = "PROCESSING" /\ deliveries[d].lock = v /\ ~Has(v, d)'
              /\ deliveries'[d].status = "SUCCEEDED" /\ deliveries'[d].attempts = deliveries[d].attempts
          BY <3>6 DEF Succeeds, Has, OwnsDelivery, DeliveryOf, AtDelivery
        <4>2. v # w BY <1>2, <4>1
        <4>3. sender[v].n = deliveries[d].attempts /\ sender[v].n # sender[w].n /\ sender[w].n <= deliveries[d].attempts
          BY <1>c, <2>2, <4>1, <4>2
        <4> QED BY <2>2, <4>1, <4>3
      <3> QED BY <1>m, <3>1, <3>2, <3>3, <3>4, <3>5, <3>6 DEF DeliveryMove
    <2> QED BY <1>h, <1>2, <2>1, <2>2
  <1>3. ASSUME NEW w \in Workers, Has(w, d)', deliveries'[d].status # "none", NEW v \in Workers, Has(v, d)', v # w
        PROVE  sender'[v].n # sender'[w].n
    <2>1. ASSUME NEW x \in Workers, NEW y \in Workers, x # y, Taking(x, d), Has(y, d)' PROVE sender'[x].n # sender'[y].n
      <3>1. /\ deliveries[d].status \in {"PENDING", "RETRYING", "PROCESSING"}
            /\ sender'[x].n = deliveries[d].attempts + 1 /\ ~Has(x, d) /\ Has(x, d)'
        BY <1>t, <2>1, Takings DEF Has, AtDelivery
      <3>2. sender'[y] = sender[y] BY <1>t, <2>1, <3>1, OneMoves DEF Has
      <3>3. Has(y, d) BY <2>1, <3>2 DEF Has
      <3>4. sender[y].n <= deliveries[d].attempts /\ sender[y].n \in Nat BY <1>c, <1>n, <3>1, <3>3
      <3> QED BY <1>a, <3>1, <3>2, <3>4
    <2>2. CASE Has(w, d) /\ sender'[w].n = sender[w].n /\ Has(v, d) /\ sender'[v].n = sender[v].n
      <3>1. deliveries[d].status # "none"
        <4>1. ASSUME deliveries[d].status = "none" PROVE FALSE
          <5>1. endpoints'[d[2]].state = "deleted" BY <1>c, <1>e, <2>2, <4>1
          <5>2. \A u \in Workers : ~Taking(u, d) BY <1>t, <4>1, Takings
          <5>3. \A u \in Workers : ~Succeeds(u, d) BY <4>1 DEF Succeeds, OwnsDelivery, DeliveryOf
          <5> QED BY <1>m, <1>N, <1>3, <4>1, <5>1, <5>2, <5>3 DEF DeliveryMove, Goes
        <4> QED BY <4>1
      <3> QED BY <1>c, <1>3, <2>2, <3>1
    <2> QED BY <1>h, <1>3, <2>1, <2>2
  <1>4. ASSUME NEW w \in Workers, Has(w, d)', sender'[w].pc = "posted", deliveries'[d].status # "none"
        PROVE  received'[d] > 0
    <2>1. Has(w, d) /\ sender[w].pc \in {"posting", "posted"}
      <3>1. ~Taking(w, d) BY <1>4 DEF Taking
      <3> QED BY <1>t, <1>4, <3>1, HadOrTakes
    <2>2. CASE sender[w].pc = "posting"
      BY <1>t, <1>4, <2>1, <2>2, ReceivedMoves DEF Has, DeliveryOf
    <2>3. CASE sender[w].pc = "posted"
      <3>0. ReceivedMove(d) /\ received[d] \in Nat BY <1>t, ReceivedMoves DEF WebhookTypes
      <3>1. ~Goes(d) BY <1>4, <1>N DEF Goes
      <3>2. deliveries[d].status # "none" => received[d] > 0 BY <1>c, <2>1, <2>3
      <3>3. deliveries[d].status # "none"
        <4>1. ASSUME deliveries[d].status = "none" PROVE FALSE
          <5>1. endpoints'[d[2]].state = "deleted" BY <1>c, <1>e, <2>1, <4>1
          <5>2. \A u \in Workers : ~Taking(u, d) BY <1>t, <4>1, Takings
          <5>3. \A u \in Workers : ~Succeeds(u, d) BY <4>1 DEF Succeeds, OwnsDelivery, DeliveryOf
          <5> QED BY <1>m, <1>N, <1>4, <4>1, <5>1, <5>2, <5>3 DEF DeliveryMove, Goes
        <4> QED BY <4>1
      <3> QED BY <3>0, <3>1, <3>2, <3>3 DEF ReceivedMove, Asks
    <2> QED BY <2>1, <2>2, <2>3
  <1> QED BY <1>1, <1>2, <1>3, <1>4

(* The workers that may still ask are finitely many, *)
LEMMA AskingIsFinite ==
  ASSUME NEW d
  PROVE  IsFiniteSet(Asking(d)) /\ Cardinality(Asking(d)) \in Nat
  BY FS_Subset, FS_CardinalityType, WorkersAssumption DEF Asking

(* nobody asks for a delivery that has just been created, *)
LEMMA NewIsUnasked ==
  ASSUME DeliveryInv, [WebhookNext]_webhookVars, NEW d \in Deliveries, deliveries[d].status = "none",
         deliveries'[d].status # "none"
  PROVE  deliveries'[d] = PendingDelivery /\ received'[d] = 0 /\ Asking(d)' = {}
  <1>t. WebhookTypes /\ Existing /\ d[2] \in Endpoints BY DEF DeliveryInv, Deliveries
  <1>N. NoDelivery.status = "none" BY FirstRows
  <1>1. \A u \in Workers : ~Taking(u, d) BY <1>t, Takings
  <1>2. \A u \in Workers : ~Succeeds(u, d) BY DEF Succeeds, OwnsDelivery, DeliveryOf
  <1>3. deliveries'[d] = PendingDelivery /\ endpoints'[d[2]].state # "deleted"
    BY <1>t, <1>N, <1>1, <1>2, DeliveryMoves DEF DeliveryMove, Goes
  <1>4. endpoints[d[2]].state # "deleted" BY <1>t, <1>3, EndpointMoves DEF EndpointMove
  <1>5. \A w \in Workers : ~Has(w, d) BY <1>4 DEF DeliveryInv, Claims
  <1>6. \A w \in Workers : ~Has(w, d)' BY <1>t, <1>1, <1>5, HadOrTakes
  <1>7. Asking(d)' = {} BY <1>6 DEF Asking, Has, ToPost, AtDelivery
  <1>8. received[d] = 0
    <2>1. received[d] <= deliveries[d].attempts /\ deliveries[d].attempts = 0 BY DEF DeliveryInv, DeliveryLogAgrees, Claims
    <2> QED BY <1>t, <2>1 DEF WebhookTypes
  <1>9. received'[d] = 0 BY <1>t, <1>8, ReceivedMoves DEF ReceivedMove, Goes, Asks
  <1> QED BY <1>3, <1>7, <1>9

(* and the attempts of the others never shrink. *)
LEMMA AttemptsKept ==
  ASSUME DeliveryInv, [WebhookNext]_webhookVars, NEW d \in Deliveries, deliveries[d].status # "none",
         deliveries'[d].status # "none"
  PROVE  deliveries'[d].attempts = deliveries[d].attempts \/ \E w \in Workers : Taking(w, d)
  <1>t. WebhookTypes /\ Existing BY DEF DeliveryInv
  <1> QED BY <1>t, DeliveryMoves, FirstRows DEF DeliveryMove, Goes, Succeeds

(* AskedAsClaimed is kept: a claim lets one worker more ask, a request one less. *)
LEMMA AskedStep ==
  ASSUME DeliveryInv, [WebhookNext]_webhookVars
  PROVE  AskedAsClaimed'
  <1> SUFFICES ASSUME NEW d \in Deliveries, deliveries'[d].status # "none"
               PROVE  received'[d] + Cardinality(Asking(d)') <= deliveries'[d].attempts
    BY DEF AskedAsClaimed
  <1>t. WebhookTypes /\ Existing BY DEF DeliveryInv
  <1>a. deliveries[d].attempts \in Nat BY <1>t, WebhookAssumption DEF WebhookTypes, DeliveryRows
  <1>1. CASE deliveries[d].status = "none"
    <2>1. deliveries'[d] = PendingDelivery /\ received'[d] = 0 /\ Asking(d)' = {} BY <1>1, NewIsUnasked
    <2>2. Cardinality(Asking(d)') = 0 BY <2>1, FS_EmptySet
    <2>3. PendingDelivery.attempts = 0 BY FirstRows
    <2> QED BY <2>1, <2>2, <2>3
  <1>2. CASE deliveries[d].status # "none"
    <2> DEFINE A == Asking(d)
               B == Asking(d)'
    <2>0. /\ received[d] + Cardinality(A) <= deliveries[d].attempts /\ received[d] \in Nat
          /\ IsFiniteSet(A) /\ Cardinality(A) \in Nat /\ IsFiniteSet(B) /\ Cardinality(B) \in Nat
      <3>1. received[d] + Cardinality(A) <= deliveries[d].attempts BY <1>2 DEF DeliveryInv, AskedAsClaimed
      <3>2. IsFiniteSet(B) /\ Cardinality(B) \in Nat
        BY FS_Subset, FS_CardinalityType, WorkersAssumption DEF Asking
      <3> QED BY <1>t, <3>1, <3>2, AskingIsFinite DEF WebhookTypes
    <2>1. \A w \in B : w \in A \/ Taking(w, d)
      BY <1>t, HadOrTakes DEF Asking, Has, ToPost, AtDelivery
    <2>2. \A w \in A : w \in Workers /\ ~Taking(w, d) BY DEF Asking, Taking, ToPost
    <2>3. ~Goes(d) BY FirstRows DEF Goes
    <2>4. ASSUME NEW w \in Workers, Asks(w, d) PROVE w \in A /\ w \notin B
      BY <2>4 DEF Asks, Asking, ToPost
    <2>5. ASSUME NEW w \in Workers, Taking(w, d)
          PROVE  w \in B /\ w \notin A /\ (\A v \in Workers : v # w => (v \in B <=> v \in A)) /\ received'[d] = received[d]
      <3>1. sender[w].pc = "claiming" /\ sender'[w].pc = "checking" /\ sender'[w].row = d /\ sender'[w] # sender[w]
        BY <2>5 DEF Taking
      <3>2. \A v \in Workers : v # w => sender'[v] = sender[v] BY <1>t, <3>1, OneMoves
      <3>3. w \in B /\ w \notin A /\ (\A v \in Workers : v # w => (v \in B <=> v \in A))
        BY <3>1, <3>2 DEF Asking, ToPost
      <3>4. \A v \in Workers : ~Asks(v, d) BY <3>1, <3>2 DEF Asks
      <3>5. ReceivedMove(d) BY <1>t, ReceivedMoves
      <3> QED BY <2>3, <3>3, <3>4, <3>5 DEF ReceivedMove
    <2>6. A \subseteq Workers /\ B \subseteq Workers BY DEF Asking
    <2>7. ReceivedMove(d) BY <1>t, ReceivedMoves
    <2>8. deliveries'[d].attempts = deliveries[d].attempts \/ \E w \in Workers : Taking(w, d)
      BY <1>2, AttemptsKept
    <2> HIDE DEF A, B
    <2>9. ASSUME NEW w \in Workers, Taking(w, d) PROVE received'[d] + Cardinality(B) <= deliveries'[d].attempts
      <3>1. B = A \cup {w} /\ w \notin A /\ received'[d] = received[d] BY <2>5, <2>6, <2>9
      <3>2. Cardinality(B) = Cardinality(A) + 1 BY <2>0, <3>1, FS_AddElement
      <3>3. deliveries'[d].attempts = deliveries[d].attempts + 1 BY <1>t, <2>9, Takings
      <3> QED BY <1>a, <2>0, <3>1, <3>2, <3>3
    <2>10. ASSUME \A w \in Workers : ~Taking(w, d) PROVE received'[d] + Cardinality(B) <= deliveries'[d].attempts
      <3>1. B \subseteq A /\ deliveries'[d].attempts = deliveries[d].attempts BY <2>1, <2>6, <2>8, <2>10
      <3>2. Cardinality(B) <= Cardinality(A) BY <2>0, <3>1, FS_Subset
      <3>3. ASSUME NEW w \in Workers, Asks(w, d) PROVE received'[d] + Cardinality(B) <= deliveries'[d].attempts
        <4>1. w \in A /\ w \notin B /\ received'[d] = received[d] + 1 BY <2>4, <3>3 DEF Asks
        <4>2. IsFiniteSet(A \ {w}) /\ Cardinality(A \ {w}) = Cardinality(A) - 1 BY <2>0, <4>1, FS_RemoveElement
        <4>3. B \subseteq A \ {w} BY <3>1, <4>1
        <4>4. Cardinality(B) <= Cardinality(A) - 1 BY <4>2, <4>3, FS_Subset
        <4> QED BY <1>a, <2>0, <3>1, <4>1, <4>4
      <3> QED BY <1>a, <2>0, <2>3, <2>7, <3>1, <3>2, <3>3 DEF ReceivedMove
    <2> QED BY <2>9, <2>10 DEF B
  <1> QED BY <1>1, <1>2

(* The delivery log agrees with the deliveries after every step. *)
LEMMA LogStep ==
  ASSUME DeliveryInv, [WebhookNext]_webhookVars, AskedAsClaimed', WebhookTypes'
  PROVE  DeliveryLogAgrees'
  <1>t. WebhookTypes /\ Existing BY DEF DeliveryInv
  <1> SUFFICES ASSUME NEW d \in Deliveries
               PROVE
    /\ received'[d] <= deliveries'[d].attempts
    /\ \A n \in 1..MaxDeliveryAttempts :
         /\ log'[d][n] # "none" => n <= deliveries'[d].attempts
         /\ log'[d][n] = "SUCCEEDED" =>
              n = deliveries'[d].attempts /\ deliveries'[d].status \in {"SUCCEEDED", "CANCELLED"}
    /\ deliveries'[d].status = "SUCCEEDED" => log'[d][deliveries'[d].attempts] = "SUCCEEDED" /\ received'[d] > 0
    BY DEF DeliveryLogAgrees
  <1>m. DeliveryMove(d) BY <1>t, DeliveryMoves
  <1>a. deliveries[d].attempts \in Nat /\ deliveries'[d].attempts \in Nat /\ received'[d] \in Nat /\ received[d] \in Nat
    BY <1>t, WebhookAssumption DEF WebhookTypes, DeliveryRows
  <1>N. /\ NoDelivery.status = "none" /\ NoDelivery.attempts = 0 /\ PendingDelivery.status = "PENDING"
        /\ PendingDelivery.attempts = 0
    BY FirstRows
  <1>o. \A n \in 1..MaxDeliveryAttempts : NoLog[n] = "none" BY DEF NoLog
  <1>g. /\ received[d] <= deliveries[d].attempts
        /\ \A n \in 1..MaxDeliveryAttempts :
             /\ log[d][n] # "none" => n <= deliveries[d].attempts
             /\ log[d][n] = "SUCCEEDED" =>
                  n = deliveries[d].attempts /\ deliveries[d].status \in {"SUCCEEDED", "CANCELLED"}
        /\ deliveries[d].status = "SUCCEEDED" => log[d][deliveries[d].attempts] = "SUCCEEDED" /\ received[d] > 0
    BY DEF DeliveryInv, DeliveryLogAgrees
  <1>c. \A w \in Workers : Has(w, d) =>
          /\ sender[w].n \in 1..MaxDeliveryAttempts
          /\ deliveries[d].status # "none" => sender[w].n <= deliveries[d].attempts
          /\ deliveries[d].status = "PROCESSING" /\ deliveries[d].lock = w => sender[w].n = deliveries[d].attempts
          /\ deliveries[d].status = "SUCCEEDED" => sender[w].n # deliveries[d].attempts
          /\ sender[w].pc = "posted" /\ deliveries[d].status # "none" => received[d] > 0
    BY DEF DeliveryInv, Claims, Has, WebhookTypes, SenderStates
  <1>l. \A n \in 1..MaxDeliveryAttempts : LogMove(d, n) BY <1>t, LogMoves
  <1>r. ReceivedMove(d) BY <1>t, ReceivedMoves
  <1>s. ASSUME NEW w \in Workers, Succeeds(w, d)
        PROVE  /\ Has(w, d) /\ sender[w].n = deliveries[d].attempts /\ deliveries[d].status = "PROCESSING"
               /\ received[d] > 0 /\ log'[d][deliveries[d].attempts] = "SUCCEEDED"
    <2>1. Has(w, d) /\ sender[w].pc = "posted" /\ deliveries[d].status = "PROCESSING" /\ deliveries[d].lock = w
      BY <1>s DEF Succeeds, Has, OwnsDelivery, DeliveryOf, AtDelivery
    <2>2. sender[w].n = deliveries[d].attempts /\ received[d] > 0 /\ sender[w].n \in 1..MaxDeliveryAttempts BY <1>c, <2>1
    <2>3. log' = [log EXCEPT ![d][sender[w].n] = "SUCCEEDED"] BY <1>s DEF Succeeds
    <2>4. log'[d][sender[w].n] = "SUCCEEDED" BY <1>t, <2>2, <2>3 DEF WebhookTypes
    <2> QED BY <2>1, <2>2, <2>4
  <1>1. received'[d] <= deliveries'[d].attempts
    <2>1. CASE deliveries'[d].status # "none"
      <3>1. received'[d] + Cardinality(Asking(d)') <= deliveries'[d].attempts BY <2>1 DEF AskedAsClaimed
      <3>2. Cardinality(Asking(d)') \in Nat
        BY FS_Subset, FS_CardinalityType, WorkersAssumption DEF Asking
      <3> QED BY <1>a, <3>1, <3>2
    <2>2. CASE deliveries'[d].status = "none"
      <3>1. CASE Goes(d) BY <1>N, <3>1 DEF Goes
      <3>2. CASE ~Goes(d)
        <4>1. \A w \in Workers : ~Taking(w, d) BY <1>t, <2>2, Takings
        <4>2. deliveries[d].status = "none" /\ deliveries'[d].attempts = deliveries[d].attempts
          BY <1>m, <1>N, <2>2, <3>2, <4>1 DEF DeliveryMove, Succeeds
        <4>3. \A w \in Workers : ~Asks(w, d) BY <4>2 DEF Asks
        <4> QED BY <1>g, <1>r, <3>2, <4>2, <4>3 DEF ReceivedMove
      <3> QED BY <3>1, <3>2
    <2> QED BY <2>1, <2>2
  (* Whatever the step, the attempts of a delivery that stays only grow. *)
  <1>2. Goes(d) \/ deliveries'[d].attempts >= deliveries[d].attempts
    <2>1. \A w \in Workers : Taking(w, d) => deliveries'[d].attempts = deliveries[d].attempts + 1 BY <1>t, Takings
    <2>2. deliveries[d].status = "none" => deliveries[d].attempts = 0 BY DEF DeliveryInv, Claims
    <2> QED BY <1>m, <1>a, <1>N, <2>1, <2>2 DEF DeliveryMove, Succeeds
  <1>3. ASSUME NEW n \in 1..MaxDeliveryAttempts, log'[d][n] # "none" PROVE n <= deliveries'[d].attempts
    <2>1. ~Goes(d) BY <1>o, <1>3 DEF Goes
    <2>2. n <= deliveries[d].attempts
      <3>1. CASE log'[d][n] = log[d][n] BY <1>g, <1>3, <3>1
      <3>2. CASE log[d][n] = "PROCESSING" BY <1>g, <3>2
      <3>3. ASSUME NEW w \in Workers, sender[w].pc \in {"opening", "cancelling"}, sender[w].row = d, sender[w].n = n,
                   deliveries[d].status # "none"
            PROVE  n <= deliveries[d].attempts
        <4>1. Has(w, d) BY <3>3 DEF Has, AtDelivery
        <4> QED BY <1>c, <3>3, <4>1
      <3>4. ASSUME NEW w \in Workers, Succeeds(w, d), sender[w].n = n PROVE n <= deliveries[d].attempts
        BY <1>s, <1>a, <3>4
      <3> QED BY <1>l, <2>1, <3>1, <3>2, <3>3, <3>4 DEF LogMove
    <2> QED BY <1>2, <1>a, <2>1, <2>2
  <1>4. ASSUME NEW n \in 1..MaxDeliveryAttempts, log'[d][n] = "SUCCEEDED"
        PROVE  n = deliveries'[d].attempts /\ deliveries'[d].status \in {"SUCCEEDED", "CANCELLED"}
    <2>1. ~Goes(d) BY <1>o, <1>4 DEF Goes
    <2>2. CASE log[d][n] = "SUCCEEDED"
      <3>1. n = deliveries[d].attempts /\ deliveries[d].status \in {"SUCCEEDED", "CANCELLED"} BY <1>g, <2>2
      <3>2. \A w \in Workers : ~Taking(w, d) BY <1>t, <3>1, Takings
      <3>3. \A w \in Workers : ~Succeeds(w, d) BY <1>s, <3>1
      <3> QED BY <1>m, <2>1, <3>1, <3>2, <3>3 DEF DeliveryMove
    <2>3. ASSUME NEW w \in Workers, Succeeds(w, d), sender[w].n = n
          PROVE  n = deliveries'[d].attempts /\ deliveries'[d].status \in {"SUCCEEDED", "CANCELLED"}
      BY <1>s, <2>3 DEF Succeeds
    <2> QED BY <1>l, <1>4, <2>1, <2>2, <2>3 DEF LogMove
  <1>5. ASSUME deliveries'[d].status = "SUCCEEDED"
        PROVE  log'[d][deliveries'[d].attempts] = "SUCCEEDED" /\ received'[d] > 0
    <2>1. ~Goes(d) BY <1>5, <1>N DEF Goes
    <2>2. ASSUME NEW w \in Workers, Succeeds(w, d)
          PROVE  log'[d][deliveries'[d].attempts] = "SUCCEEDED" /\ received[d] > 0
      BY <1>s, <2>2 DEF Succeeds
    <2>3. ASSUME \A w \in Workers : ~Succeeds(w, d)
          PROVE  log'[d][deliveries'[d].attempts] = "SUCCEEDED" /\ received[d] > 0
      <3>1. \A w \in Workers : ~Taking(w, d) BY <1>t, <1>5, Takings
      <3>2. deliveries[d].status = "SUCCEEDED" /\ deliveries'[d].attempts = deliveries[d].attempts
        BY <1>m, <1>5, <1>N, <2>1, <2>3, <3>1 DEF DeliveryMove
      <3> DEFINE n == deliveries[d].attempts
      <3>3. log[d][n] = "SUCCEEDED" /\ received[d] > 0 BY <1>g, <3>2
      <3>4. n \in 1..MaxDeliveryAttempts
        <4>1. n > 0 BY <1>a, <1>g, <3>3
        <4>2. n <= MaxDeliveryAttempts BY <1>t, WebhookAssumption DEF WebhookTypes, DeliveryRows
        <4> QED BY <1>a, <4>1, <4>2, WebhookAssumption
      <3>5. \A w \in Workers : Has(w, d) => sender[w].n # n BY <1>c, <3>2
      <3>6. \A w \in Workers : sender[w].pc \in {"opening", "cancelling"} /\ sender[w].row = d => sender[w].n # n
        BY <3>5 DEF Has, AtDelivery
      <3> HIDE DEF n
      <3>7. log'[d][n] = log[d][n] BY <1>l, <2>1, <2>3, <3>3, <3>4, <3>6 DEF LogMove
      <3> QED BY <3>2, <3>3, <3>7 DEF n
    <2>4. log'[d][deliveries'[d].attempts] = "SUCCEEDED" /\ received[d] > 0 BY <2>2, <2>3
    <2>5. received'[d] >= received[d] BY <1>r, <1>a, <2>1 DEF ReceivedMove, Asks
    <2> QED BY <1>a, <2>4, <2>5
  <1> QED BY <1>1, <1>3, <1>4, <1>5
-----------------------------------------------------------------------------
(* How an event moves: it stays as it is but for its lease; it is published, or queued as
   a test; it is claimed, buried or set back; it is skipped; or it is fanned out. *)
FansOut(w, e) ==
  /\ sender[w].pc = "fanning out" /\ sender[w].row = e /\ outbox[e].status = "PROCESSING"
  /\ outbox'[e].status = "DISPATCHED" /\ outbox'[e].attempts = outbox[e].attempts
  /\ deliveries' = FannedOut(e, sender[w].targets)
  /\ endpoints' = endpoints /\ \A x \in sender[w].targets : endpoints[x].state # "deleted"
EventMove(e) ==
  \/ /\ outbox'[e].status = outbox[e].status /\ outbox'[e].attempts = outbox[e].attempts
     /\ outbox'[e].skipped = outbox[e].skipped
  \/ /\ outbox[e].status = "none" /\ outbox'[e].status \in {"PENDING", "DISPATCHED"}
     /\ outbox'[e].attempts = outbox[e].attempts
  \/ outbox[e].status \in {"PENDING", "PROCESSING"} /\ outbox'[e].status \in {"PENDING", "PROCESSING", "DEAD_LETTER"}
  \/ outbox[e].status = "PROCESSING" /\ outbox'[e].status = "DISPATCHED" /\ outbox'[e].skipped
  \/ \E w \in Workers : FansOut(w, e)

(* Every step moves an outbox row along its life. *)
LEMMA EventMoves ==
  ASSUME WebhookTypes, [WebhookNext]_webhookVars, NEW e \in Events
  PROVE  outbox'[e] \in EventRows /\ RowLocked(outbox'[e]) /\ EventMove(e)
  <1> DEFINE r == outbox[e]
             t == outbox'[e]
             Goal == outbox'[e] \in EventRows /\ RowLocked(outbox'[e]) /\ EventMove(e)
  <1>t. outbox \in [Events -> EventRows] /\ sender \in [Workers -> SenderStates]
    BY DEF WebhookTypes
  <1>r. r \in EventRows /\ RowLocked(r) BY DEF WebhookTypes
  <1>b. TRUE \in BOOLEAN /\ FALSE \in BOOLEAN OBVIOUS
  <1>1. ASSUME t = r PROVE Goal BY <1>r, <1>1 DEF EventMove
  <1>2. ASSUME NEW st \in {"PENDING", "DEAD_LETTER"}, r.status = "PROCESSING",
               NEW b \in BOOLEAN, t = WithStatus(r, st) \/ t = SetBack(r, st, b)
        PROVE  Goal
    <2> HIDE DEF r, t
    <2>1. t \in EventRows /\ t.status = st /\ RowLocked(t)
      BY <1>r, <1>2, ReleasedEvent
    <2> QED BY <1>2, <2>1 DEF EventMove, r, t
  <1>3. ASSUME NEW l \in Leases, t = [r EXCEPT !.lease = l] \/ t = [r EXCEPT !.due = TRUE] PROVE Goal
    <2> HIDE DEF r, t
    <2>1. t \in EventRows /\ t.status = r.status /\ t.attempts = r.attempts /\ t.skipped = r.skipped /\ RowLocked(t)
      BY <1>r, <1>3, LeasedEvent
    <2> QED BY <2>1 DEF EventMove, r, t
  <1>4. ASSUME NEW st \in {"PENDING", "DISPATCHED"}, r.status = "none", t = [r EXCEPT !.status = st] PROVE Goal
    <2> HIDE DEF r, t
    <2>1. t \in EventRows /\ t.status = st /\ t.attempts = r.attempts /\ RowLocked(t)
      BY <1>r, <1>4 DEF EventRows, RowLocked
    <2> QED BY <1>4, <2>1 DEF EventMove, r, t
  <1>5. ASSUME NEW x \in Events, PublishEvent(x) PROVE Goal
    <2>1. outbox[x].status = "none" /\ outbox' = [outbox EXCEPT ![x].status = "PENDING"] BY <1>5 DEF PublishEvent
    <2>2. t = r \/ (r.status = "none" /\ t = [r EXCEPT !.status = "PENDING"]) BY <1>t, <2>1
    <2> QED BY <1>1, <1>4, <2>2
  <1>6. ASSUME NEW x \in Events, NEW y \in Endpoints, QueueTest(x, y) PROVE Goal
    <2>1. outbox[x].status = "none" /\ outbox' = [outbox EXCEPT ![x].status = "DISPATCHED"] BY <1>6 DEF QueueTest
    <2>2. t = r \/ (r.status = "none" /\ t = [r EXCEPT !.status = "DISPATCHED"]) BY <1>t, <2>1
    <2> QED BY <1>1, <1>4, <2>2
  <1>7. ASSUME NEW w \in Workers, BuryEvents(w) PROVE Goal
    <2>1. t = r \/ (r.status = "PROCESSING" /\ t = WithStatus(r, "DEAD_LETTER"))
      BY <1>7 DEF BuryEvents, Lapsed, Buried, WithStatus
    <2> QED BY <1>1, <1>2, <1>b, <2>1
  <1>8. ASSUME NEW w \in Workers, ClaimEvent(w) PROVE Goal
    <2>1. CASE outbox' = outbox BY <1>1, <2>1
    <2>2. CASE outbox' # outbox
      <3>1. PICK x \in Events : /\ Claimable(outbox[x], {"PENDING"}, MaxOutboxAttempts)
                                /\ outbox' = [outbox EXCEPT ![x] = TakenRow(outbox[x], w)]
        BY <1>8, <2>2 DEF ClaimEvent, TakenRow
      <3>2. t = r \/ (/\ r.status \in {"PENDING", "PROCESSING"} /\ r.attempts < MaxOutboxAttempts
                      /\ t = TakenRow(r, w))
        BY <1>t, <3>1 DEF Claimable, Lapsed
      <3>3. CASE /\ r.status \in {"PENDING", "PROCESSING"} /\ r.attempts < MaxOutboxAttempts
                 /\ t = TakenRow(r, w)
        <4> HIDE DEF r, t
        <4>1. t \in EventRows /\ t.status = "PROCESSING" /\ RowLocked(t) BY <1>r, <3>3, TakenEvent
        <4> QED BY <3>3, <4>1 DEF EventMove, r, t
      <3> QED BY <1>1, <3>2, <3>3
    <2> QED BY <2>1, <2>2
  <1>9. ASSUME NEW w \in Workers, ReadTargets(w) PROVE Goal
    <2>1. CASE t = r BY <1>1, <2>1
    <2>2. CASE t # r
      <3>1. /\ OwnsEvent(w) /\ sender[w].row = e
            /\ t = [Released(r) EXCEPT !.status = "DISPATCHED", !.skipped = TRUE]
        BY <1>t, <1>9, <2>2 DEF ReadTargets
      <3>2. r.status = "PROCESSING" BY <3>1 DEF OwnsEvent, EventOf
      <3> HIDE DEF r, t
      <3>3. t \in EventRows /\ t.status = "DISPATCHED" /\ t.skipped /\ t.lock = Nobody
        BY <1>r, <3>1 DEF EventRows, Released, Leases
      <3>4. RowLocked(t) BY <3>3 DEF RowLocked
      <3> QED BY <3>2, <3>3, <3>4 DEF EventMove, r, t
    <2> QED BY <2>1, <2>2
  <1>10. ASSUME NEW w \in Workers, FanOut(w) PROVE Goal
    <2>1. CASE t = r BY <1>1, <2>1
    <2>2. CASE t # r
      <3>1. /\ OwnsEvent(w) /\ sender[w].row = e /\ sender[w].pc = "fanning out"
            /\ t = WithStatus(r, "DISPATCHED") /\ endpoints' = endpoints
            /\ deliveries' = FannedOut(e, sender[w].targets)
            /\ \A x \in sender[w].targets : endpoints[x].state # "deleted"
        BY <1>t, <1>10, <2>2 DEF FanOut, WithStatus
      <3>2. r.status = "PROCESSING" BY <3>1 DEF OwnsEvent, EventOf
      <3> HIDE DEF r, t
      <3>3. t \in EventRows /\ t.status = "DISPATCHED" /\ t.attempts = r.attempts /\ RowLocked(t)
        BY <1>r, <1>b, <3>1, ReleasedEvent
      <3>4. FansOut(w, e) BY <3>1, <3>2, <3>3 DEF FansOut, r, t
      <3> QED BY <3>3, <3>4 DEF EventMove, t
    <2> QED BY <2>1, <2>2
  <1>11. ASSUME NEW w \in Workers, FailEvent(w) PROVE Goal
    <2>1. CASE t = r BY <1>1, <2>1
    <2>2. CASE t # r
      <3>1. /\ OwnsEvent(w) /\ sender[w].row = e
            /\ t = WithStatus(r, "DEAD_LETTER") \/ t = SetBack(r, "PENDING", FALSE)
        BY <1>t, <1>11, <2>2 DEF FailEvent, WithStatus, SetBack, Buried
      <3>2. r.status = "PROCESSING" BY <3>1 DEF OwnsEvent, EventOf
      <3> QED BY <1>2, <1>b, <3>1, <3>2
    <2> QED BY <2>1, <2>2
  <1>12. ASSUME NEW w \in Workers, StopSender(w) PROVE Goal
    <2>1. t = r \/ (r.status = "PROCESSING" /\ t = SetBack(r, "PENDING", TRUE))
      BY <1>12 DEF StopSender, HeldBy, SetBack
    <2> QED BY <1>1, <1>2, <1>b, <2>1
  <1>13. ASSUME NEW w \in Workers, HeartbeatWebhook(w) PROVE Goal
    <2>1. t = r \/ t = [r EXCEPT !.lease = "live"] BY <1>t, <1>13 DEF HeartbeatWebhook
    <2> QED BY <1>1, <1>3, <2>1 DEF Leases
  <1>14. ASSUME NEW x \in Events, EventLeaseExpires(x) PROVE Goal
    <2>1. t = r \/ t = [r EXCEPT !.lease = "expired"] BY <1>t, <1>14 DEF EventLeaseExpires
    <2> QED BY <1>1, <1>3, <2>1 DEF Leases
  <1>15. ASSUME WebhookFallsDue PROVE Goal
    <2>1. t = r \/ t = [r EXCEPT !.due = TRUE] BY <1>t, <1>15 DEF WebhookFallsDue
    <2> QED BY <1>1, <1>3, <2>1 DEF Leases
  <1>16. ASSUME UNCHANGED outbox PROVE Goal BY <1>1, <1>16
  <1>u. ASSUME NEW w \in Workers,
               \/ BuryDeliveries(w) \/ CloseOrphanedAttempts(w) \/ ClaimDelivery(w)
               \/ CheckOwned(w) \/ OpenAttempt(w) \/ CancelDisabled(w) \/ Post(w) \/ Complete(w) \/ FailDelivery(w)
               \/ KillSender(w)
        PROVE  UNCHANGED outbox
    BY <1>u DEF BuryDeliveries, CloseOrphanedAttempts, ClaimDelivery, CheckOwned, OpenAttempt, CancelDisabled, Post,
           Complete, FailDelivery, KillSender
  <1>v. ASSUME \/ \E x \in Events, y \in Endpoints : Replay(x, y)
               \/ \E x \in Endpoints, st \in {"active", "disabled", "deleted"} : ChangeEndpoint(x, st)
               \/ \E d \in Deliveries : DeliveryLeaseExpires(d)
               \/ UNCHANGED webhookVars
        PROVE  UNCHANGED outbox
    BY <1>v DEF Replay, ChangeEndpoint, DeliveryLeaseExpires, webhookVars
  <1> HIDE DEF Goal, r, t
  <1>19. ASSUME NEW w \in Workers, SenderStep(w) PROVE Goal
    BY <1>7, <1>8, <1>9, <1>10, <1>11, <1>16, <1>u, <1>19 DEF SenderStep
  <1>20. Goal
    BY <1>5, <1>6, <1>12, <1>13, <1>14, <1>15, <1>16, <1>19, <1>u, <1>v DEF WebhookNext, webhookVars
  <1> QED BY <1>20 DEF Goal

(* A delivery is created by a replay, with the test event it belongs to, or when its event
   is fanned out. *)
LEMMA Creations ==
  ASSUME WebhookTypes, [WebhookNext]_webhookVars, NEW e \in Events, NEW x \in Endpoints,
         NEW kind \in {"initial", "test"},
         deliveries[<<e, x, kind>>].status = "none", deliveries'[<<e, x, kind>>].status # "none"
  PROVE  \/ kind = "test" /\ outbox'[e].status = "DISPATCHED"
         \/ kind = "initial" /\ \E w \in Workers : FansOut(w, e)
  <1> DEFINE d == <<e, x, kind>>
             Goal == \/ kind = "test" /\ outbox'[e].status = "DISPATCHED"
                     \/ kind = "initial" /\ \E w \in Workers : FansOut(w, e)
  <1>t. deliveries \in [Deliveries -> DeliveryRows] /\ outbox \in [Events -> EventRows] /\ d \in Deliveries
    BY DEF WebhookTypes, Deliveries
  <1>0. deliveries'[d] # deliveries[d] OBVIOUS
  <1>1. ASSUME NEW y \in Events, NEW z \in Endpoints, QueueTest(y, z) PROVE Goal
    <2>1. d = <<y, z, "test">> BY <1>0, <1>t, <1>1 DEF QueueTest
    <2>2. kind = "test" /\ y = e BY <2>1
    <2>3. outbox'[e].status = "DISPATCHED" BY <1>t, <1>1, <2>2 DEF QueueTest, EventRows
    <2> QED BY <2>2, <2>3
  <1>2. ASSUME NEW y \in Events, NEW z \in Endpoints, Replay(y, z) PROVE FALSE
    <2>1. d = <<y, z, "replay">> BY <1>0, <1>t, <1>2 DEF Replay
    <2> QED BY <2>1
  <1>3. ASSUME NEW y \in Endpoints, NEW st \in {"active", "disabled", "deleted"}, ChangeEndpoint(y, st) PROVE FALSE
    <2>1. deliveries'[d] \in {deliveries[d], NoDelivery} BY <1>t, <1>3 DEF ChangeEndpoint
    <2> QED BY <1>0, <2>1, FirstRows
  <1>4. ASSUME NEW w \in Workers, FanOut(w) PROVE Goal
    <2>1. /\ OwnsEvent(w) /\ sender[w].pc = "fanning out" /\ endpoints' = endpoints
          /\ deliveries' = FannedOut(sender[w].row, sender[w].targets)
          /\ outbox' = [outbox EXCEPT ![sender[w].row] = WithStatus(outbox[sender[w].row], "DISPATCHED")]
          /\ \A y \in sender[w].targets : endpoints[y].state # "deleted"
      BY <1>0, <1>4 DEF FanOut, WithStatus
    <2>2. sender[w].row = e /\ kind = "initial" BY <1>0, <1>t, <2>1 DEF FannedOut
    <2>3. outbox[e].status = "PROCESSING" BY <2>1, <2>2 DEF OwnsEvent, EventOf
    <2>4. outbox'[e] = WithStatus(outbox[e], "DISPATCHED") /\ outbox[e] \in EventRows BY <1>t, <2>1, <2>2
    <2>5. outbox'[e].status = "DISPATCHED" /\ outbox'[e].attempts = outbox[e].attempts
      BY <2>4 DEF WithStatus, Released, EventRows
    <2>6. FansOut(w, e) BY <2>1, <2>2, <2>3, <2>5 DEF FansOut
    <2> QED BY <2>2, <2>6
  (* The other statements write rows that exist. *)
  <1>5. ASSUME NEW w \in Workers, NEW y, sender[w].pc \in AtDelivery, OwnsDelivery(w) \/ DeliveryOf(w).status # "none",
               deliveries' = [deliveries EXCEPT ![sender[w].row] = y]
        PROVE  FALSE
    <2>1. sender[w].row = d BY <1>0, <1>t, <1>5
    <2> QED BY <1>5, <2>1 DEF OwnsDelivery, DeliveryOf
  <1>6. ASSUME NEW w \in Workers, CancelDisabled(w) \/ Complete(w) \/ FailDelivery(w) PROVE FALSE
    BY <1>0, <1>5, <1>6 DEF CancelDisabled, Complete, FailDelivery, AtDelivery
  <1>7. ASSUME NEW w \in Workers, BuryDeliveries(w) \/ StopSender(w) PROVE FALSE
    BY <1>0, <1>t, <1>7 DEF BuryDeliveries, StopSender, Lapsed, HeldBy
  <1>8. ASSUME NEW w \in Workers, ClaimDelivery(w) PROVE FALSE
    BY <1>0, <1>t, <1>8 DEF ClaimDelivery, Claimable, Lapsed
  <1>9. ASSUME NEW y \in Deliveries, NEW f,
               deliveries' = [deliveries EXCEPT ![y].lease = f] \/ deliveries' = [deliveries EXCEPT ![y].due = f]
        PROVE  FALSE
    <2>1. deliveries'[d] = [deliveries[d] EXCEPT !.lease = f] \/ deliveries'[d] = [deliveries[d] EXCEPT !.due = f]
      BY <1>0, <1>t, <1>9
    <2>2. deliveries'[d].status = deliveries[d].status BY <1>t, <2>1 DEF DeliveryRows
    <2> QED BY <2>2
  <1>10. ASSUME \/ \E w \in Workers : HeartbeatWebhook(w)
                \/ \E y \in Deliveries : DeliveryLeaseExpires(y)
                \/ WebhookFallsDue
         PROVE  FALSE
    <2>1. \A w \in Workers : OwnsDelivery(w) /\ sender[w].pc \in AtDelivery => sender[w].row \in Deliveries
      BY DEF WebhookTypes, SenderStates
    <2> QED BY <1>0, <1>9, <1>10, <2>1 DEF HeartbeatWebhook, DeliveryLeaseExpires, WebhookFallsDue, AtDelivery
  <1>u. ASSUME NEW w \in Workers,
               \/ BuryEvents(w) \/ ClaimEvent(w) \/ ReadTargets(w) \/ FailEvent(w) \/ CloseOrphanedAttempts(w)
               \/ CheckOwned(w) \/ OpenAttempt(w) \/ Post(w) \/ KillSender(w)
        PROVE  UNCHANGED deliveries
    BY <1>u DEF BuryEvents, ClaimEvent, ReadTargets, FailEvent, CloseOrphanedAttempts, CheckOwned,
           OpenAttempt, Post, KillSender
  <1>v. ASSUME NEW y \in Events, PublishEvent(y) \/ EventLeaseExpires(y) PROVE UNCHANGED deliveries
    BY <1>v DEF PublishEvent, EventLeaseExpires
  <1>n. ~UNCHANGED deliveries BY <1>0
  <1>x. ~UNCHANGED webhookVars BY <1>n DEF webhookVars
  <1> HIDE DEF Goal
  <1>19. ASSUME NEW w \in Workers, SenderStep(w) PROVE Goal
    BY <1>4, <1>6, <1>7, <1>8, <1>u, <1>n, <1>19 DEF SenderStep
  <1>20. Goal
    BY <1>1, <1>2, <1>3, <1>7, <1>10, <1>19, <1>u, <1>v, <1>n, <1>x DEF WebhookNext
  <1> QED BY <1>20 DEF Goal
-----------------------------------------------------------------------------
(* A deleted endpoint takes its deliveries with it, *)
LEMMA EndpointGoes ==
  ASSUME WebhookTypes, [WebhookNext]_webhookVars, NEW d \in Deliveries,
         endpoints[d[2]].state # "deleted", endpoints'[d[2]].state = "deleted"
  PROVE  Goes(d)
  <1>0. d[2] \in Endpoints /\ endpoints' # endpoints BY DEF Deliveries
  <1>1. \E x \in Endpoints, st \in {"active", "disabled", "deleted"} : ChangeEndpoint(x, st)
    BY <1>0 DEF WebhookNext, SenderStep, BuryEvents, ClaimEvent, ReadTargets, FanOut, FailEvent, BuryDeliveries,
       CloseOrphanedAttempts, ClaimDelivery, CheckOwned, OpenAttempt, CancelDisabled, Post, Complete, FailDelivery,
       StopSender, KillSender, HeartbeatWebhook, PublishEvent, EventLeaseExpires, QueueTest, Replay,
       DeliveryLeaseExpires, WebhookFallsDue, webhookVars
  <1>2. PICK x \in Endpoints, st \in {"active", "disabled", "deleted"} : ChangeEndpoint(x, st) BY <1>1
  <1>3. endpoints' = [endpoints EXCEPT ![x] = [state |-> st, changes |-> endpoints[x].changes + 1]]
    BY <1>2 DEF ChangeEndpoint
  <1>4. endpoints \in [Endpoints -> [state : {"active", "disabled", "deleted"}, changes : Nat]] BY DEF WebhookTypes
  <1>5. x = d[2] /\ st = "deleted" BY <1>0, <1>3, <1>4
  <1>6. deliveries'[d] = NoDelivery /\ log'[d] = NoLog /\ received'[d] = 0 BY <1>2, <1>5 DEF ChangeEndpoint
  <1> QED BY <1>6 DEF Goes

(* and an event that does not exist yet has none. *)
LEMMA ExistingStep ==
  ASSUME WebhookTypes, Existing, [WebhookNext]_webhookVars
  PROVE  Existing'
  <1>N. NoDelivery.status = "none" BY FirstRows
  <1>1. ASSUME NEW d \in Deliveries, endpoints'[d[2]].state = "deleted" PROVE deliveries'[d].status = "none"
    <2>1. CASE endpoints[d[2]].state = "deleted"
      <3>1. deliveries[d].status = "none" BY <2>1 DEF Existing
      <3>2. \A w \in Workers : ~Taking(w, d) BY <3>1, Takings
      <3>3. \A w \in Workers : ~Succeeds(w, d) BY <3>1 DEF Succeeds, OwnsDelivery, DeliveryOf
      <3> QED BY <1>1, <1>N, <3>1, <3>2, <3>3, DeliveryMoves DEF DeliveryMove, Goes
    <2>2. CASE endpoints[d[2]].state # "deleted" BY <1>1, <1>N, <2>2, EndpointGoes DEF Goes
    <2> QED BY <2>1, <2>2
  <1>2. ASSUME NEW e \in Events, outbox'[e].status = "none", NEW x \in Endpoints, NEW kind \in {"initial", "test"}
        PROVE  deliveries'[<<e, x, kind>>].status = "none"
    <2>1. EventMove(e) BY EventMoves
    <2>2. \A w \in Workers : ~FansOut(w, e) BY <1>2 DEF FansOut
    <2>3. outbox[e].status = "none" BY <1>2, <2>1, <2>2 DEF EventMove
    <2>4. deliveries[<<e, x, kind>>].status = "none" BY <2>3 DEF Existing
    <2> QED BY <1>2, <2>2, <2>4, Creations
  <1> QED BY <1>1, <1>2 DEF Existing

(* All the types together. *)
LEMMA TypesStep ==
  ASSUME WebhookTypes, Existing, [WebhookNext]_webhookVars
  PROVE  WebhookTypes'
  <1>t. outbox \in [Events -> EventRows] /\ deliveries \in [Deliveries -> DeliveryRows] BY DEF WebhookTypes
  <1>1. outbox' = [e \in Events |-> outbox'[e]]
    <2>1. ASSUME NEW x, NEW q, outbox' = [outbox EXCEPT ![x] = q] PROVE outbox' = [e \in Events |-> outbox'[e]]
      BY <1>t, <2>1
    <2>2. ASSUME outbox' = outbox PROVE outbox' = [e \in Events |-> outbox'[e]] BY <1>t, <2>2
    <2>3. ASSUME NEW w \in Workers, BuryEvents(w) \/ StopSender(w) PROVE outbox' = [e \in Events |-> outbox'[e]]
      <3>1. CASE BuryEvents(w) BY <3>1 DEF BuryEvents
      <3>2. CASE StopSender(w) BY <3>2 DEF StopSender
      <3> QED BY <2>3, <3>1, <3>2
    <2>4. ASSUME NEW w \in Workers,
                 ClaimEvent(w) \/ ReadTargets(w) \/ FanOut(w) \/ FailEvent(w) \/ HeartbeatWebhook(w)
          PROVE  outbox' = [e \in Events |-> outbox'[e]]
      BY <2>1, <2>2, <2>4 DEF ClaimEvent, ReadTargets, FanOut, FailEvent, HeartbeatWebhook
    <2>5. ASSUME \/ \E e \in Events : PublishEvent(e) \/ EventLeaseExpires(e)
                 \/ \E e \in Events, x \in Endpoints : QueueTest(e, x)
                 \/ WebhookFallsDue
          PROVE  outbox' = [e \in Events |-> outbox'[e]]
      BY <2>1, <2>2, <2>5 DEF PublishEvent, EventLeaseExpires, QueueTest, WebhookFallsDue
    <2>6. ASSUME NEW w \in Workers,
                 \/ BuryDeliveries(w) \/ CloseOrphanedAttempts(w) \/ ClaimDelivery(w) \/ CheckOwned(w)
                 \/ OpenAttempt(w) \/ CancelDisabled(w) \/ Post(w) \/ Complete(w) \/ FailDelivery(w) \/ KillSender(w)
          PROVE  outbox' = outbox
      BY <2>6 DEF BuryDeliveries, CloseOrphanedAttempts, ClaimDelivery, CheckOwned, OpenAttempt, CancelDisabled, Post,
           Complete, FailDelivery, KillSender
    <2>7. ASSUME \/ \E x \in Events, y \in Endpoints : Replay(x, y)
                 \/ \E x \in Endpoints, st \in {"active", "disabled", "deleted"} : ChangeEndpoint(x, st)
                 \/ \E d \in Deliveries : DeliveryLeaseExpires(d)
                 \/ UNCHANGED webhookVars
          PROVE  outbox' = outbox
      BY <2>7 DEF Replay, ChangeEndpoint, DeliveryLeaseExpires, webhookVars
    <2>8. ASSUME NEW w \in Workers, SenderStep(w) PROVE outbox' = [e \in Events |-> outbox'[e]]
      BY <2>2, <2>3, <2>4, <2>6, <2>8 DEF SenderStep
    <2> QED BY <2>2, <2>3, <2>4, <2>5, <2>6, <2>7, <2>8 DEF WebhookNext, webhookVars
  <1>2. deliveries' = [d \in Deliveries |-> deliveries'[d]]
    <2> DEFINE Fun == deliveries' = [d \in Deliveries |-> deliveries'[d]]
    <2>1. ASSUME NEW x, NEW q, deliveries' = [deliveries EXCEPT ![x] = q] PROVE Fun BY <1>t, <2>1
    <2>2. ASSUME deliveries' = deliveries PROVE Fun BY <1>t, <2>2
    <2>3. ASSUME NEW w \in Workers, BuryDeliveries(w) \/ StopSender(w) PROVE Fun
      <3>1. CASE BuryDeliveries(w) BY <3>1 DEF BuryDeliveries
      <3>2. CASE StopSender(w) BY <3>2 DEF StopSender
      <3> QED BY <2>3, <3>1, <3>2
    <2>4. ASSUME NEW w \in Workers, FanOut(w) PROVE Fun
      <3>1. deliveries' = deliveries \/ deliveries' = FannedOut(sender[w].row, sender[w].targets)
        BY <2>4 DEF FanOut
      <3>2. ASSUME deliveries' = FannedOut(sender[w].row, sender[w].targets) PROVE Fun
        BY <3>2 DEF FannedOut
      <3> QED BY <2>2, <3>1, <3>2
    <2>5. ASSUME NEW x \in Endpoints, NEW st \in {"active", "disabled", "deleted"}, ChangeEndpoint(x, st) PROVE Fun
      <3>1. CASE st # "deleted" BY <2>2, <2>5, <3>1 DEF ChangeEndpoint
      <3>2. CASE st = "deleted" BY <2>5, <3>2 DEF ChangeEndpoint
      <3> QED BY <3>1, <3>2
    <2> HIDE DEF Fun
    <2>6. ASSUME NEW w \in Workers,
                 ClaimDelivery(w) \/ CancelDisabled(w) \/ Complete(w) \/ FailDelivery(w) \/ HeartbeatWebhook(w)
          PROVE  Fun
      BY <2>1, <2>2, <2>6 DEF ClaimDelivery, CancelDisabled, Complete, FailDelivery, HeartbeatWebhook
    <2>7. ASSUME \/ \E e \in Events, x \in Endpoints : QueueTest(e, x) \/ Replay(e, x)
                 \/ \E d \in Deliveries : DeliveryLeaseExpires(d)
                 \/ WebhookFallsDue
          PROVE  Fun
      BY <2>1, <2>2, <2>7 DEF QueueTest, Replay, DeliveryLeaseExpires, WebhookFallsDue
    <2>8. ASSUME NEW w \in Workers,
                 \/ BuryEvents(w) \/ ClaimEvent(w) \/ ReadTargets(w) \/ FailEvent(w) \/ CloseOrphanedAttempts(w)
                 \/ CheckOwned(w) \/ OpenAttempt(w) \/ Post(w) \/ KillSender(w)
          PROVE  deliveries' = deliveries
      BY <2>8 DEF BuryEvents, ClaimEvent, ReadTargets, FailEvent, CloseOrphanedAttempts, CheckOwned,
             OpenAttempt, Post, KillSender
    <2>9. ASSUME \/ \E e \in Events : PublishEvent(e) \/ EventLeaseExpires(e)
                 \/ UNCHANGED webhookVars
          PROVE  deliveries' = deliveries
      BY <2>9 DEF PublishEvent, EventLeaseExpires, webhookVars
    <2>10. ASSUME NEW w \in Workers, SenderStep(w) PROVE Fun
      BY <2>2, <2>3, <2>4, <2>6, <2>8, <2>10 DEF SenderStep
    <2>11. Fun BY <2>2, <2>3, <2>5, <2>6, <2>7, <2>8, <2>9, <2>10 DEF WebhookNext, webhookVars
    <2> QED BY <2>11 DEF Fun
  <1>3. \A e \in Events : outbox'[e] \in EventRows /\ RowLocked(outbox'[e]) BY EventMoves
  <1>4. \A d \in Deliveries : deliveries'[d] \in DeliveryRows /\ RowLocked(deliveries'[d]) BY DeliveryMoves
  <1>5. outbox' \in [Events -> EventRows] BY <1>1, <1>3
  <1>6. deliveries' \in [Deliveries -> DeliveryRows] BY <1>2, <1>4
  <1> QED BY <1>3, <1>4, <1>5, <1>6, EndpointMoves, LogMoves, ReceivedMoves, SenderMoves DEF WebhookTypes

(* DeliveryInv is inductive. *)
LEMMA DeliveryStep == ASSUME DeliveryInv, [WebhookNext]_webhookVars PROVE DeliveryInv'
  <1>1. WebhookTypes /\ Existing BY DEF DeliveryInv
  <1>2. WebhookTypes' /\ Existing' BY <1>1, TypesStep, ExistingStep
  <1>3. Claims' BY ClaimsStep
  <1>4. AskedAsClaimed' BY AskedStep
  <1>5. DeliveryLogAgrees' BY <1>2, <1>4, LogStep
  <1> QED BY <1>2, <1>3, <1>4, <1>5 DEF DeliveryInv

(* An endpoint without a change is active, and whoever fans out has read it. *)
FanOutInv ==
  /\ WebhookTypes /\ Existing
  /\ \A x \in Endpoints : endpoints[x].changes = 0 =>
       /\ endpoints[x].state = "active"
       /\ \A w \in Workers : sender[w].pc = "fanning out" => x \in sender[w].targets
  /\ \A e \in Events : outbox[e].status = "none" => outbox[e].attempts = 0
  /\ FanOutIsComplete

(* Every step keeps what a fan-out has read, and made, in agreement. *)
LEMMA FanOutStep == ASSUME FanOutInv, [WebhookNext]_webhookVars PROVE FanOutInv'
  <1>t. WebhookTypes /\ Existing BY DEF FanOutInv
  <1>N. NoDelivery.status = "none" /\ PendingDelivery.status = "PENDING" BY FirstRows
  <1>u. \A x \in Endpoints : endpoints'[x].changes = 0 => endpoints'[x] = endpoints[x] /\ endpoints[x].state = "active"
    <2> SUFFICES ASSUME NEW x \in Endpoints, endpoints'[x].changes = 0
                 PROVE  endpoints'[x] = endpoints[x] /\ endpoints[x].state = "active"
      OBVIOUS
    <2>1. EndpointMove(x) /\ endpoints[x].changes \in Nat BY <1>t, EndpointMoves DEF WebhookTypes
    <2>2. endpoints'[x] = endpoints[x] BY <2>1 DEF EndpointMove
    <2> QED BY <2>2 DEF FanOutInv
  <1>1. WebhookTypes' /\ Existing' BY <1>t, TypesStep, ExistingStep
  <1>2. ASSUME NEW x \in Endpoints, endpoints'[x].changes = 0, NEW w \in Workers, sender'[w].pc = "fanning out"
        PROVE  x \in sender'[w].targets
    <2>1. SenderMove(w) BY <1>t, SenderMoves
    <2>2. endpoints[x].changes = 0 /\ endpoints[x].state = "active" BY <1>u, <1>2
    <2>3. \A d \in Deliveries : ~Taking(w, d) BY <1>2 DEF Taking
    <2>4. <<sender[w].pc, sender'[w].pc>> \notin Onward BY <1>2 DEF Onward
    <2>5. CASE sender'[w] = sender[w] BY <1>2, <2>2, <2>5 DEF FanOutInv
    <2>6. CASE sender'[w].targets = {y \in Endpoints : endpoints[y].state = "active"} BY <2>2, <2>6
    <2> QED BY <1>2, <2>1, <2>3, <2>4, <2>5, <2>6 DEF SenderMove
  <1>3. ASSUME NEW e \in Events, outbox'[e].status = "none" PROVE outbox'[e].attempts = 0
    <2>1. \A w \in Workers : ~FansOut(w, e) BY <1>3 DEF FansOut
    <2>2. outbox[e].status = "none" /\ outbox'[e].attempts = outbox[e].attempts
      BY <1>t, <1>3, <2>1, EventMoves DEF EventMove
    <2> QED BY <2>2 DEF FanOutInv
  <1>4. ASSUME NEW e \in Events, outbox'[e].status # "DISPATCHED", NEW x \in Endpoints
        PROVE  deliveries'[<<e, x, "initial">>].status = "none"
    <2>1. \A w \in Workers : ~FansOut(w, e) BY <1>4 DEF FansOut
    <2>2. outbox[e].status # "DISPATCHED" BY <1>t, <1>4, <2>1, EventMoves DEF EventMove
    <2>3. deliveries[<<e, x, "initial">>].status = "none" BY <2>2 DEF FanOutInv, FanOutIsComplete
    <2>4. "initial" \in {"initial", "test"} OBVIOUS
    <2> QED BY <1>t, <1>4, <2>1, <2>3, <2>4, Creations
  <1>5. ASSUME NEW e \in Events, outbox'[e].status = "DISPATCHED", ~outbox'[e].skipped, outbox'[e].attempts > 0,
               NEW x \in Endpoints, endpoints'[x].changes = 0
        PROVE  deliveries'[<<e, x, "initial">>].status # "none"
    <2> DEFINE d == <<e, x, "initial">>
    <2>1. d \in Deliveries /\ d[2] = x /\ d[1] = e /\ d[3] = "initial" BY DEF Deliveries
    <2>2. endpoints'[x].state = "active" /\ endpoints[x].changes = 0 BY <1>u, <1>5
    <2> HIDE DEF d
    <2>3. CASE /\ outbox'[e].status = outbox[e].status /\ outbox'[e].attempts = outbox[e].attempts
               /\ outbox'[e].skipped = outbox[e].skipped
      <3>1. deliveries[d].status # "none" BY <1>5, <2>2, <2>3 DEF FanOutInv, FanOutIsComplete, d
      <3>2. ~Goes(d) BY <2>1, <2>2 DEF Goes
      <3>3. DeliveryMove(d) BY <1>t, <2>1, DeliveryMoves
      <3>4. \A w \in Workers : Taking(w, d) => deliveries'[d].status = "PROCESSING" BY <1>t, <2>1, Takings
      <3>5. deliveries'[d].status # "none" BY <3>1, <3>2, <3>3, <3>4 DEF DeliveryMove, Succeeds
      <3> QED BY <3>5 DEF d
    <2>4. ASSUME NEW w \in Workers, FansOut(w, e) PROVE deliveries'[<<e, x, "initial">>].status # "none"
      <3>1. x \in sender[w].targets BY <2>2, <2>4 DEF FansOut, FanOutInv
      <3>2. deliveries' = FannedOut(e, sender[w].targets) BY <2>4 DEF FansOut
      <3>3. deliveries'[d] = IF deliveries[d].status = "none" THEN PendingDelivery ELSE deliveries[d]
        BY <2>1, <3>1, <3>2 DEF FannedOut
      <3> QED BY <1>N, <3>3 DEF d
    <2>5. ~(outbox[e].status = "none" /\ outbox'[e].attempts = outbox[e].attempts)
      <3>1. outbox[e].status = "none" => outbox[e].attempts = 0 BY DEF FanOutInv
      <3>2. ~(0 > 0) OBVIOUS
      <3> QED BY <1>5, <3>1, <3>2
    <2> QED BY <1>t, <1>5, <2>3, <2>4, <2>5, EventMoves DEF EventMove
  <1>6. FanOutIsComplete' BY <1>4, <1>5 DEF FanOutIsComplete
  <1>7. \A x \in Endpoints : endpoints'[x].changes = 0 => endpoints'[x].state = "active" BY <1>u
  <1> QED BY <1>1, <1>2, <1>3, <1>6, <1>7 DEF FanOutInv

(* At the start there is nothing but endpoints and workers that poll. *)
LEMMA WebhookStarts == WebhookInit => DeliveryInv /\ FanOutInv
  <1> SUFFICES ASSUME WebhookInit PROVE DeliveryInv /\ FanOutInv OBVIOUS
  <1>1. \A w \in Workers : sender[w] = SenderAt("polling") BY DEF WebhookInit
  <1>2. SenderAt("polling") \in SenderStates /\ SenderAt("polling").pc = "polling"
    BY DEF SenderAt, SenderStates, SenderPcs, AtEvent, AtDelivery
  <1>3. WebhookTypes
    <2>1. sender \in [Workers -> SenderStates] BY <1>2 DEF WebhookInit
    <2>2. outbox \in [Events -> EventRows] /\ \A e \in Events : RowLocked(outbox[e]) BY FirstRows DEF WebhookInit
    <2>3. deliveries \in [Deliveries -> DeliveryRows] /\ \A d \in Deliveries : RowLocked(deliveries[d])
      BY FirstRows DEF WebhookInit
    <2>4. endpoints \in [Endpoints -> [state : {"active", "disabled", "deleted"}, changes : Nat]] BY DEF WebhookInit
    <2>5. log \in [Deliveries -> [1..MaxDeliveryAttempts -> LogStatuses]] BY FirstRows DEF WebhookInit
    <2>6. received \in [Deliveries -> Nat] BY DEF WebhookInit
    <2> QED BY <2>1, <2>2, <2>3, <2>4, <2>5, <2>6 DEF WebhookTypes
  <1>4. \A d \in Deliveries : deliveries[d].status = "none" /\ deliveries[d].attempts = 0 /\ received[d] = 0 /\ log[d] = NoLog
    BY FirstRows DEF WebhookInit
  <1>5. \A e \in Events : outbox[e].status = "none" /\ outbox[e].attempts = 0 BY FirstRows DEF WebhookInit
  <1>6. \A x \in Endpoints : endpoints[x].state = "active" BY DEF WebhookInit
  <1>7. \A w \in Workers : sender[w].pc = "polling" BY <1>1, <1>2
  <1>8. Existing
    <2>1. \A e \in Events, x \in Endpoints : <<e, x, "initial">> \in Deliveries /\ <<e, x, "test">> \in Deliveries
      BY DEF Deliveries
    <2> QED BY <1>4, <2>1 DEF Existing
  <1>9. Claims /\ AskedAsClaimed BY <1>4, <1>7 DEF Claims, AskedAsClaimed, Has, AtDelivery
  <1>10. DeliveryLogAgrees
    <2>1. \A n \in 1..MaxDeliveryAttempts : NoLog[n] = "none" BY DEF NoLog
    <2> QED BY <1>4, <2>1 DEF DeliveryLogAgrees
  <1>11. FanOutIsComplete
    <2>1. \A e \in Events, x \in Endpoints : <<e, x, "initial">> \in Deliveries BY DEF Deliveries
    <2> QED BY <1>4, <1>5, <2>1 DEF FanOutIsComplete
  <1> QED BY <1>3, <1>5, <1>6, <1>7, <1>8, <1>9, <1>10, <1>11 DEF DeliveryInv, FanOutInv

(* The delivery log tells what became of a delivery, and an endpoint is asked at most once
   per attempt counted, however many workers claimed it one after the other. *)
THEOREM DeliveriesAreLogged == WebhookSpec => []DeliveryLogAgrees
  <1>1. WebhookInit => DeliveryInv BY WebhookStarts
  <1>2. DeliveryInv /\ [WebhookNext]_webhookVars => DeliveryInv' BY DeliveryStep
  <1>3. DeliveryInv => DeliveryLogAgrees BY DEF DeliveryInv
  <1> QED BY <1>1, <1>2, <1>3, PTL DEF WebhookSpec

(* Fan-out is all or nothing. *)
THEOREM FanOutsAreComplete == WebhookSpec => []FanOutIsComplete
  <1>1. WebhookInit => FanOutInv BY WebhookStarts
  <1>2. FanOutInv /\ [WebhookNext]_webhookVars => FanOutInv' BY FanOutStep
  <1>3. FanOutInv => FanOutIsComplete BY DEF FanOutInv
  <1> QED BY <1>1, <1>2, <1>3, PTL DEF WebhookSpec

(* Rows, log and workers are of their types, and a row is locked exactly while it is
   worked on. *)
LEMMA WebhooksTyped == DeliveryInv => WebhookTypeOK
  <1> SUFFICES ASSUME WebhookTypes PROVE WebhookTypeOK BY DEF DeliveryInv
  <1>1. \A e \in Events : outbox[e] \in EventRows /\ RowLocked(outbox[e]) BY DEF WebhookTypes
  <1>2. \A d \in Deliveries : deliveries[d] \in DeliveryRows /\ RowLocked(deliveries[d]) BY DEF WebhookTypes
  <1>3. \A d \in Deliveries : log[d] \in [1..MaxDeliveryAttempts -> {"none", "PROCESSING", "FAILED", "SUCCEEDED"}]
    BY DEF WebhookTypes, LogStatuses
  <1> QED BY <1>1, <1>2, <1>3 DEF WebhookTypeOK, EventRows, DeliveryRows, RowLocked

(* In every reachable state. *)
THEOREM WebhooksTypeCorrect == WebhookSpec => []WebhookTypeOK
  <1>1. WebhookInit => DeliveryInv BY WebhookStarts
  <1>2. DeliveryInv /\ [WebhookNext]_webhookVars => DeliveryInv' BY DeliveryStep
  <1> QED BY <1>1, <1>2, WebhooksTyped, PTL DEF WebhookSpec
-----------------------------------------------------------------------------
(* A payment queues mails, and touches nothing else of the outbox. *)
LEMMA PaymentsQueueMails ==
  ASSUME PaymentNext
  PROVE  UNCHANGED <<mailer, smtp>> /\ (emails' = emails \/ \E keys : emails' = WithEmails(keys))
  <1>1. ASSUME NEW p \in Payments,
               \/ CheckNoPendingPayment(p) \/ StorePaymentProof(p) \/ SubmitPayment(p)
               \/ ApprovePayment(p) \/ \E status \in {"REJECTED", "CANCELLED"} : RejectPayment(p, status)
        PROVE  emails' = emails \/ \E keys : emails' = WithEmails(keys)
    BY <1>1 DEF CheckNoPendingPayment, StorePaymentProof, SubmitPayment, CreatePayment, ApprovePayment, RejectPayment
  <1> QED BY <1>1 DEF PaymentNext, EditSubscription, DayPasses

(* A payment writes mails beside the workers: rows that are queued anew have no claim
   and no delivery yet. *)
LEMMA PaymentsKeepMails == ASSUME EmailInv, PaymentNext PROVE EmailInv'
  <1>1. UNCHANGED <<mailer, smtp>> BY PaymentsQueueMails
  <1>2. emails' = emails \/ \E keys : emails' = WithEmails(keys) BY PaymentsQueueMails
  <1>3. /\ emails' \in [Emails -> EmailRows] /\ \A e \in Emails : RowAtRest(emails'[e])
        /\ \A e \in Emails : emails'[e].attempts = emails[e].attempts
                             /\ (emails'[e].status = "SENT" => emails[e].status = "SENT")
    <2> DEFINE Fine(e, q) == /\ q \in EmailRows /\ RowAtRest(q) /\ q.attempts = emails[e].attempts
                             /\ q.status = "SENT" => emails[e].status = "SENT"
    <2>1. emails \in [Emails -> EmailRows] /\ \A e \in Emails : Fine(e, emails[e]) BY DEF EmailInv, EmailTypes
    <2>2. \A e \in Emails : emails[e].status = "none" => Fine(e, PendingEmail)
      <3> SUFFICES ASSUME NEW e \in Emails, emails[e].status = "none" PROVE Fine(e, PendingEmail) OBVIOUS
      <3>1. emails[e].attempts = 0 BY DEF EmailInv, EmailTypes, RowAtRest
      <3>2. 0 \in 0..MaxEmailAttempts BY EmailAssumption
      <3>3. NoEmailRow \in EmailRows /\ NoEmailRow.due /\ NoEmailRow.attempts = 0 /\ NoEmailRow.lease = "none"
        BY <3>2 DEF NoEmailRow, EmailRows, EmailStatuses, Leases
      <3>4. PendingEmail \in EmailRows /\ PendingEmail.status = "PENDING" /\ PendingEmail.due
            /\ PendingEmail.attempts = 0 /\ PendingEmail.lease = "none"
        BY <3>3 DEF PendingEmail, EmailRows, EmailStatuses
      <3> QED BY <3>1, <3>4 DEF RowAtRest
    <2> HIDE DEF Fine
    <2>3. ASSUME NEW keys, emails' = WithEmails(keys) PROVE \A e \in Emails : Fine(e, emails'[e])
      BY <2>1, <2>2, <2>3 DEF WithEmails
    <2>4. emails' = [e \in Emails |-> emails'[e]] BY <1>2, <2>1, MailsAreQueued
    <2>5. \A e \in Emails : Fine(e, emails'[e]) BY <1>2, <2>1, <2>3
    <2> QED BY <2>4, <2>5 DEF Fine
  <1>4. \A e \in Emails : Delivering(e)' = Delivering(e) BY <1>1 DEF Delivering
  <1> QED BY <1>1, <1>3, <1>4 DEF EmailInv, EmailTypes

(* A worker of the mails only moves mails that are queued. *)
LEMMA WorkersKeepPayments ==
  ASSUME PaymentInv, EmailInv, EmailNext, UNCHANGED paymentVars
  PROVE  PaymentInv'
  <1>1. \A e \in Emails : (emails'[e].status = "none") <=> (emails[e].status = "none")
    BY EmailRowSteps DEF RowStep
  <1>2. emails' \in [Emails -> EmailRows] BY EmailStep DEF EmailInv, EmailTypes
  <1>3. emails' = [e \in Emails |-> emails'[e]] BY <1>2
  <1>4. PaymentTypes' BY <1>3 DEF PaymentInv, PaymentTypes, paymentVars
  <1>5. \A p \in Payments : Effects(p)'
    <2> SUFFICES ASSUME NEW p \in Payments PROVE Effects(p)' OBVIOUS
    <2>1. Effects(p) BY PaymentsHaveEffects DEF PaymentInv
    <2>2. GrantsOf(p)' = GrantsOf(p) BY DEF GrantsOf, paymentVars
    <2> QED BY <1>1, <2>1, <2>2, MailsOfPayments DEF Effects, paymentVars
  <1>6. HistoryIsCurrent' /\ RenewalKeepsPaidDays'
    BY DEF PaymentInv, HistoryIsCurrent, RenewalKeepsPaidDays, paymentVars
  <1>7. PaymentEffects'
    <2>1. ((\A p \in Payments : Effects(p)) /\ HistoryIsCurrent => PaymentEffects)'
      BY EffectsOfPayments, PTL
    <2> QED BY <1>5, <1>6, <2>1
  <1> QED BY <1>4, <1>6, <1>7 DEF PaymentInv, paymentVars

(* Payments and the workers of their mails, together. *)
LEMMA MailedPaymentsStep ==
  ASSUME PaymentInv, EmailInv, [MailedPaymentsNext]_<<paymentVars, emailVars>>
  PROVE  PaymentInv' /\ EmailInv'
  <1>1. CASE PaymentNext BY <1>1, PaymentStep, PaymentsKeepMails
  <1>2. CASE EmailNext /\ UNCHANGED paymentVars BY <1>2, WorkersKeepPayments, EmailStep
  <1>3. CASE UNCHANGED <<paymentVars, emailVars>>
    <2>1. UNCHANGED emailVars BY <1>3
    <2> QED BY <1>3, <2>1, PaymentStep, EmailStep
  <1> QED BY <1>1, <1>2, <1>3 DEF MailedPaymentsNext

(* Payments have their effects, the mails of an approved one included, while the workers
   send those mails and crash or stall at it. *)
THEOREM MailedPaymentsTakeEffect == MailedPaymentsSpec => [](PaymentEffects /\ RenewalKeepsPaidDays)
  <1>1. PaymentInit /\ EmailInit({}) => PaymentInv /\ EmailInv BY PaymentStarts, EmailStarts
  <1>2. PaymentInv => PaymentEffects /\ RenewalKeepsPaidDays BY DEF PaymentInv
  <1> QED BY <1>1, <1>2, MailedPaymentsStep, PTL DEF MailedPaymentsSpec

(* What is recorded of e-mails and webhooks is what their receivers saw. *)
THEOREM AttemptsAreLogged == OutboxesSpec => []AttemptLogsAgree
  <1>1. PaymentInit /\ EmailInit({}) => PaymentInv /\ EmailInv BY PaymentStarts, EmailStarts
  <1>2. MailedPaymentsSpec => []EmailInv BY <1>1, MailedPaymentsStep, PTL DEF MailedPaymentsSpec
  <1>3. EmailInv => EmailDeliveriesMatchAttempts BY MailsAgree
  <1>4. AttemptLogsAgree <=> EmailDeliveriesMatchAttempts /\ DeliveryLogAgrees BY DEF AttemptLogsAgree
  <1> QED BY <1>2, <1>3, <1>4, DeliveriesAreLogged, PTL DEF OutboxesSpec
=============================================================================
