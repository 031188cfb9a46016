---------------------------- MODULE EmailOutbox ----------------------------
(***************************************************************************)
(* The e-mail outbox: src/lib/email-outbox.ts and the loop of              *)
(* src/email/email-worker.ts.  A step is one statement or one SMTP         *)
(* delivery; a delivery whose answer is lost was accepted all the same.    *)
(***************************************************************************)
EXTENDS WorkerLease

CONSTANTS
  Emails,           \* EmailOutbox rows, by event key
  MaxEmailAttempts  \* maxAttempts of a row

ASSUME EmailAssumption == IsFiniteSet(Emails) /\ MaxEmailAttempts \in Nat \ {0}

VARIABLES
  emails,  \* EmailOutbox rows
  mailer,  \* per worker: its loop and the e-mail it snapshotted at its claim
  smtp     \* history: how often the SMTP server accepted the e-mail

emailVars == <<emails, mailer, smtp>>

EmailStatuses == {"none", "PENDING", "PROCESSING", "SENT", "DEAD_LETTER"}
SettledEmail == {"SENT", "DEAD_LETTER"}

NoEmailRow == [status |-> "none", attempts |-> 0, due |-> TRUE, lock |-> Nobody, lease |-> "none"]
PendingEmail == [NoEmailRow EXCEPT !.status = "PENDING"]
EmailRows == [status : EmailStatuses, attempts : 0..MaxEmailAttempts, due : BOOLEAN,
              lock : Workers \cup {Nobody}, lease : Leases]

NoMail == <<>>
MailerAt(pc) == [pc |-> pc, email |-> NoMail, n |-> 0]

EmailInit(queued) ==
  /\ emails = [e \in Emails |-> IF e \in queued THEN PendingEmail ELSE NoEmailRow]
  /\ mailer = [w \in Workers |-> MailerAt("idle")]
  /\ smtp = [e \in Emails |-> 0]
-----------------------------------------------------------------------------
ExpiredEmail(e) == emails[e].status = "PROCESSING" /\ emails[e].lease = "expired"

(* createMany with skipDuplicates: a row that exists is left alone. *)
WithEmails(keys) ==
  [e \in Emails |-> IF e \in keys /\ emails[e].status = "none" THEN PendingEmail ELSE emails[e]]

(* where: { id, status: "PROCESSING", lockedBy: claimToken } *)
OwnsEmail(w) ==
  LET row == emails[mailer[w].email] IN row.status = "PROCESSING" /\ row.lock = w

(* Faulty variant of ClaimableEmail: expired leases are not taken over. *)
ClaimableEmailPending(e) ==
  emails[e].status = "PENDING" /\ emails[e].due /\ emails[e].attempts < MaxEmailAttempts

ClaimableEmail(e) ==
  /\ \/ emails[e].status = "PENDING" /\ emails[e].due
     \/ ExpiredEmail(e)
  /\ emails[e].attempts < MaxEmailAttempts

(* claimNextEmail, first statement: bury what ran out of its last attempt. *)
BuryExhaustedEmails(w) ==
  /\ mailer[w].pc = "idle"
  /\ emails' = [e \in Emails |->
       IF ExpiredEmail(e) /\ emails[e].attempts >= MaxEmailAttempts
       THEN [Released(emails[e]) EXCEPT !.status = "DEAD_LETTER"] ELSE emails[e]]
  /\ mailer' = [mailer EXCEPT ![w].pc = "claiming"]
  /\ UNCHANGED smtp

(* claimNextEmail, the claim; the worker sleeps when it finds nothing. *)
ClaimNextEmail(w) ==
  /\ mailer[w].pc = "claiming"
  /\ \/ \E e \in Emails :
          /\ ClaimableEmail(e)
          /\ emails' = [emails EXCEPT ![e] =
               [Claimed(emails[e], w) EXCEPT !.status = "PROCESSING", !.attempts = @ + 1]]
          /\ mailer' = [mailer EXCEPT ![w] =
               [pc |-> "delivering", email |-> e, n |-> emails[e].attempts + 1]]
     \/ /\ \A e \in Emails : ~ClaimableEmail(e)
        /\ mailer' = [mailer EXCEPT ![w] = MailerAt("idle")]
        /\ UNCHANGED emails
  /\ UNCHANGED smtp

HeartbeatEmail(w) ==
  /\ mailer[w].pc \in {"delivering", "accepted", "failing"}
  /\ OwnsEmail(w) /\ emails[mailer[w].email].lease = "expired"
  /\ emails' = [emails EXCEPT ![mailer[w].email].lease = "live"]
  /\ UNCHANGED <<mailer, smtp>>

(* deliverer(...): accepted; accepted, but the connection breaks before the
   answer; or refused. *)
DeliverEmail(w) ==
  /\ mailer[w].pc = "delivering"
  /\ \/ /\ smtp' = [smtp EXCEPT ![mailer[w].email] = @ + 1]
        /\ \E pc \in {"accepted", "failing"} : mailer' = [mailer EXCEPT ![w].pc = pc]
     \/ mailer' = [mailer EXCEPT ![w].pc = "failing"] /\ UNCHANGED smtp
  /\ UNCHANGED emails

(* The update to SENT under the claim; when it throws, the catch of the worker
   treats the e-mail as failed. *)
FinishEmail(w) ==
  /\ mailer[w].pc = "accepted"
  /\ \/ /\ emails' = IF OwnsEmail(w)
                     THEN [emails EXCEPT ![mailer[w].email] = [Released(@) EXCEPT !.status = "SENT"]]
                     ELSE emails
        /\ mailer' = [mailer EXCEPT ![w] = MailerAt("idle")]
     \/ mailer' = [mailer EXCEPT ![w].pc = "failing"] /\ UNCHANGED emails
  /\ UNCHANGED smtp

(* failClaimedEmail: dead-lettered in the last attempt, else due after a backoff.
   When it throws, the loop logs and goes on, and the row keeps its lease. *)
FailClaimedEmail(w) ==
  /\ mailer[w].pc = "failing"
  /\ \/ /\ OwnsEmail(w)
        /\ emails' = [emails EXCEPT ![mailer[w].email] =
             IF mailer[w].n >= MaxEmailAttempts
             THEN [Released(@) EXCEPT !.status = "DEAD_LETTER"]
             ELSE [Released(@) EXCEPT !.status = "PENDING", !.due = FALSE]]
     \/ UNCHANGED emails
  /\ mailer' = [mailer EXCEPT ![w] = MailerAt("idle")]
  /\ UNCHANGED smtp

(* stop: the loop has ended; recoverEmailClaimsForWorker sets back what is still
   PROCESSING under this worker, whatever attempts are left. *)
StopEmailWorker(w) ==
  /\ w \in Mortal /\ mailer[w].pc = "idle"
  /\ emails' = [e \in Emails |->
       IF emails[e].status = "PROCESSING" /\ emails[e].lock = w
       THEN [Released(emails[e]) EXCEPT !.status = "PENDING", !.due = TRUE] ELSE emails[e]]
  /\ mailer' = [mailer EXCEPT ![w] = MailerAt("stopped")]
  /\ UNCHANGED smtp

KillEmailWorker(w) ==
  /\ w \in Mortal /\ mailer[w].pc \notin Gone
  /\ mailer' = [mailer EXCEPT ![w] = MailerAt("dead")]
  /\ UNCHANGED <<emails, smtp>>

(* A lease runs out: for want of heartbeats, or with its worker. *)
EmailLeaseExpires(e) ==
  /\ emails[e].lease = "live"
  /\ emails' = [emails EXCEPT ![e].lease = "expired"]
  /\ UNCHANGED <<mailer, smtp>>

EmailFallsDue(e) ==
  /\ ~emails[e].due
  /\ emails' = [emails EXCEPT ![e].due = TRUE]
  /\ UNCHANGED <<mailer, smtp>>

EmailWorkerStep(w) ==
  \/ BuryExhaustedEmails(w) \/ ClaimNextEmail(w)
  \/ DeliverEmail(w) \/ FinishEmail(w) \/ FailClaimedEmail(w)

EmailNext ==
  \/ \E w \in Workers : \/ EmailWorkerStep(w) \/ HeartbeatEmail(w)
                        \/ StopEmailWorker(w) \/ KillEmailWorker(w)
  \/ \E e \in Emails : EmailLeaseExpires(e) \/ EmailFallsDue(e)

(* Nobody renews the lease of e any more. *)
AbandonedEmail(e) == \A w \in Workers : mailer[w].email = e => emails[e].lock # w

(* Time passes: a backoff, or a lease that nobody renews. *)
EmailTime == \E e \in Emails : EmailFallsDue(e) \/ (EmailLeaseExpires(e) /\ AbandonedEmail(e))

(* A worker that is up goes on (no call of it hangs for ever), and time passes. *)
EmailFairness == (\A w \in Workers : WF_emailVars(EmailWorkerStep(w))) /\ WF_emailVars(EmailTime)

EmailSpec == EmailInit(Emails) /\ [][EmailNext]_emailVars /\ EmailFairness
-----------------------------------------------------------------------------
EmailTypeOK ==
  /\ emails \in [Emails -> EmailRows]
  /\ \A w \in Workers : mailer[w].n \in 0..MaxEmailAttempts
                        /\ mailer[w].email \in Emails \cup {NoMail}
  /\ smtp \in [Emails -> Nat]

(* A row is SENT only when the SMTP server has accepted the message, and the
   server never accepts it more often than the row was claimed: a worker whose
   claim has been taken over can add at most the one delivery it had begun. *)
EmailDeliveriesMatchAttempts ==
  \A e \in Emails : /\ emails[e].status = "SENT" => smtp[e] > 0
                    /\ smtp[e] <= emails[e].attempts

(* What is settled stays settled, whatever a stalled worker still writes. *)
SettledEmailStays ==
  [][\A e \in Emails : emails[e].status \in SettledEmail => emails'[e] = emails[e]]_emails

(* An e-mail that waits without an attempt left, which no claim will take again:
   recoverEmailClaimsForWorker does not look at the attempts. *)
StrandedEmail(e) == emails[e].status = "PENDING" /\ emails[e].attempts = MaxEmailAttempts

(* Every queued e-mail is sent or dead-lettered in the end, unless it is stranded:
   crashes, stalls and failures only cost attempts. *)
EmailWaits == \E e \in Emails : emails[e].status \in {"PENDING", "PROCESSING"} /\ ~StrandedEmail(e)
EmailsSettle == EmailWaits ~> ~EmailWaits
=============================================================================
