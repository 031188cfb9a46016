------------------------------ MODULE Outboxes ------------------------------
(***************************************************************************)
(* The two outboxes side by side: payments with the workers that send      *)
(* their mails, and the webhooks.  They share no table, so the conjunction *)
(* of their specifications is their composition.                           *)
(***************************************************************************)
EXTENDS Payments, WebhookOutbox

(* Payments write mails while the workers claim, deliver and settle them. *)
MailedPaymentsNext == PaymentNext \/ (EmailNext /\ UNCHANGED paymentVars)

MailedPaymentsSpec ==
  PaymentInit /\ EmailInit({}) /\ [][MailedPaymentsNext]_<<paymentVars, emailVars>>

OutboxesSpec == MailedPaymentsSpec /\ WebhookSpec
-----------------------------------------------------------------------------
(* What is recorded of e-mails and webhooks is what their receivers saw: nothing is
   SENT or SUCCEEDED that was not accepted, and nothing is delivered, or logged, that
   was not counted as an attempt. *)
AttemptLogsAgree == EmailDeliveriesMatchAttempts /\ DeliveryLogAgrees
=============================================================================
