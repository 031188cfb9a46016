---------------------------- MODULE MCComponents ----------------------------
(***************************************************************************)
(* Instances for TLC of components that do not depend on each other.  A    *)
(* behaviour is one of the component chosen in its initial state, while    *)
(* the others rest in theirs.  (Payments and their mails are a             *)
(* composition and run together.)                                          *)
(*                                                                         *)
(* Fairness is asked of the chosen component alone: a step of another one  *)
(* is never possible here.  As the variables of the others do not change,  *)
(* each conjunct is the one of its module with the choice for a guard.     *)
(***************************************************************************)
EXTENDS Outboxes, AutoReply, Schedule, Devices

CONSTANTS
  Components,  \* what a run takes: some of the names below
  u1, pay1, pay2

VARIABLE component  \* the component of this behaviour

componentVars == <<component, emailVars, paymentVars, webhookVars, replyVars, scheduleVars, deviceVars>>
-----------------------------------------------------------------------------
(* Values of the constants: one customer renews the same plan by the month and by
   the year, on days where a month ends, or not. *)
MCPayer == [p \in Payments |-> u1]
MCPlanOf == [p \in Payments |-> "pro"]
MCMonthsOf == [p \in Payments |-> IF p = pay1 THEN 1 ELSE 12]
MCEmails == {"submitted", "approved", "reset"} \X {pay1, pay2}
MCCalendar == {<<0, 31>>, <<1, 10>>, <<1, 28>>, <<3, 1>>}
MCPlans == {[kind |-> "ONE_TIME", policy |-> "SEND_LATE"], [kind |-> "ONE_TIME", policy |-> "CANCEL"],
            [kind |-> "RECURRING", policy |-> "SKIP"]}
-----------------------------------------------------------------------------
(* Two mails, of other parts than the payments, wait at the start where the mails
   alone are looked at. *)
ComponentsInit ==
  /\ component \in Components
  /\ EmailInit(IF component = "emails" THEN Emails \ Mails ELSE {})
  /\ PaymentInit /\ WebhookInit /\ ReplyInit /\ ScheduleInit
  /\ DeviceInit /\ (component = "devices" \/ device.status = "STOPPED")

TakeEmails == component = "emails" /\ EmailNext
  /\ UNCHANGED <<component, paymentVars, webhookVars, replyVars, scheduleVars, deviceVars>>
TakePayments == component = "payments" /\ PaymentNext
  /\ UNCHANGED <<component, webhookVars, replyVars, scheduleVars, deviceVars>>
TakeWebhooks == component = "webhooks" /\ WebhookNext
  /\ UNCHANGED <<component, emailVars, paymentVars, replyVars, scheduleVars, deviceVars>>
TakeReplies == component = "replies" /\ ReplyNext
  /\ UNCHANGED <<component, emailVars, paymentVars, webhookVars, scheduleVars, deviceVars>>
TakeSchedules == component = "schedules" /\ ScheduleNext
  /\ UNCHANGED <<component, emailVars, paymentVars, webhookVars, replyVars, deviceVars>>
TakeDevices == component = "devices" /\ DeviceNext
  /\ UNCHANGED <<component, emailVars, paymentVars, webhookVars, replyVars, scheduleVars>>

ComponentsNext == TakeEmails \/ TakePayments \/ TakeWebhooks \/ TakeReplies \/ TakeSchedules \/ TakeDevices

ComponentsSpec == ComponentsInit /\ [][ComponentsNext]_componentVars

(* EmailFairness, ReplyFairness, ScheduleFairness, WebhookFairness, DeviceFairness. *)
WorkersGoOn ==
  \A w \in Workers :
    /\ WF_emailVars(component = "emails" /\ EmailWorkerStep(w))
    /\ WF_webhookVars(component = "webhooks" /\ SenderStep(w))
    /\ WF_replyVars(component = "replies" /\ ReplierStep(w))
    /\ WF_scheduleVars(component = "schedules" /\ SchedulerStep(w))

TimeGoesOn ==
  /\ WF_emailVars(component = "emails" /\ EmailTime)
  /\ WF_webhookVars(component = "webhooks" /\ WebhookTime)
  /\ WF_replyVars(component = "replies" /\ TriggerTime)
  /\ WF_scheduleVars(component = "schedules" /\ ScheduleTime)

DevicesGoOn ==
  /\ \A p \in Processes :
       /\ WF_deviceVars(component = "devices" /\ LoadStep(p))
       /\ WF_deviceVars(component = "devices" /\ CallStep(p))
       /\ WF_deviceVars(component = "devices" /\ Reconcile(p))
       /\ WF_deviceVars(component = "devices" /\ RenewLock(p))
       /\ WF_deviceVars(component = "devices" /\ runtime.holder # p /\ LoseLock(p))
       /\ \A t \in Tasks : WF_deviceVars(component = "devices" /\ TaskStep(p, t))
       /\ \A i \in Instances : WF_deviceVars(component = "devices" /\ SocketOpens(p, i))
  /\ \A p \in Processes \ Perishable : WF_deviceVars(component = "devices" /\ BootDevices(p))
  /\ WF_deviceVars(component = "devices" /\ \E h \in handlers : HandlerStep(h))
  /\ WF_deviceVars(component = "devices" /\ Unattended /\ LockExpires)

ComponentsFairSpec == ComponentsSpec /\ WorkersGoOn /\ TimeGoesOn /\ DevicesGoOn
-----------------------------------------------------------------------------
(* Every row is of its table's type. *)
ComponentsTypeOK ==
  EmailTypeOK /\ PaymentTypeOK /\ WebhookTypeOK /\ ReplyTypeOK /\ ScheduleTypeOK /\ DeviceTypeOK

(* The work of the outboxes ends, whatever worker crashes or stalls (EmailsSettle,
   DeliveriesSettle and TriggersFinish at once; no worker runs beside payments), and a
   settled e-mail stays as it is.  Only the stop of a worker can strand a row. *)
WorkWaits == component # "payments" /\ (EmailWaits \/ WebhookWaits \/ ReplyWaits)
Stranded ==
  \/ \E e \in Emails : StrandedEmail(e)
  \/ \E e \in Events : StrandedEvent(e)
  \/ \E d \in Deliveries : StrandedDelivery(d)
  \/ \E t \in Triggers : StrandedTrigger(t)
Stopped(loop) == \E w \in Workers : loop[w].pc = "stopped"
OnlyStopsStrand == Stranded => Stopped(mailer) \/ Stopped(sender) \/ Stopped(replier)
WorkSettles == (WorkWaits ~> ~WorkWaits) /\ SettledEmailStays /\ []OnlyStopsStrand
=============================================================================
