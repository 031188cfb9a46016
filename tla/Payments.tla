------------------------------ MODULE Payments ------------------------------
(***************************************************************************)
(* Manual payments and the subscription they extend: the submission of a   *)
(* proof (src/app/api/payment-verifications/route.ts), its review          *)
(* (src/lib/payment-verification-service.ts) and the subscription an       *)
(* administrator edits (src/app/api/admin/subscriptions).  Both mails of a *)
(* payment are rows of the e-mail outbox, created in the same transaction. *)
(*                                                                         *)
(* The two transactions on a subscription are serializable and one step    *)
(* each; the submission is not, and its check, file and transaction are    *)
(* steps of their own.  A date is <<month, day>>, months counted on from a *)
(* January.                                                                *)
(***************************************************************************)
EXTENDS EmailOutbox, Sequences

CONSTANTS
  Payments,    \* PaymentVerification rows
  Users,       \* customers
  Payer,       \* who pays
  PlanOf,      \* the plan a payment is for
  MonthsOf,    \* 1 or 12: the billing cycle paid for
  Calendar,    \* the days on which something happens
  AdminEdits   \* bound on the administrator's edits of a subscription

Mails == {"submitted", "approved"} \X Payments

ASSUME PaymentAssumption ==
  /\ Payer \in [Payments -> Users]
  /\ MonthsOf \in [Payments -> {1, 12}]
  /\ Calendar \subseteq (Nat \X (1..31)) /\ AdminEdits \in Nat
  /\ Mails \subseteq Emails /\ "admin" \notin Payments

VARIABLES
  payments,       \* status of each payment; "new", "checked" and "stored" before its row exists
  proofs,         \* payments whose proof file is in the storage
  subscriptions,  \* Subscription row of each user
  history,        \* SubscriptionHistory rows of each user, oldest first
  today,          \* the day of the step
  unanswered      \* history: payments whose submission took effect and seemed to fail

paymentVars == <<payments, proofs, subscriptions, history, today, unanswered>>

PaymentStatuses == {"PENDING", "APPROVED", "REJECTED", "CANCELLED"}
Never == <<>>
NoPlan == "inactive default plan"

MonthLength(m) == <<31, 28, 31, 30, 31, 30, 31, 31, 30, 31, 30, 31>>[(m % 12) + 1]

(* Faulty variant of the next definition: a day that overflows the month is not
   clamped and runs into the next month, as setUTCMonth does. *)
AddBillingMonthsUnclamped(date, months) ==
  LET m == date[1] + months  last == MonthLength(m)
  IN IF date[2] > last THEN <<m + 1, date[2] - last>> ELSE <<m, date[2]>>

AddBillingMonths(date, months) ==
  LET m == date[1] + months  last == MonthLength(m)
  IN <<m, IF date[2] > last THEN last ELSE date[2]>>

After(a, b) == a # Never /\ (a[1] > b[1] \/ (a[1] = b[1] /\ a[2] > b[2]))

PaymentInit ==
  /\ payments = [p \in Payments |-> "new"]
  /\ proofs = {} /\ unanswered = {}
  /\ subscriptions = [u \in Users |-> [plan |-> NoPlan, status |-> "ACTIVE", ends |-> Never]]
  /\ history = [u \in Users |-> <<>>]
  /\ today \in {d \in Calendar : \A e \in Calendar : ~After(d, e)}
-----------------------------------------------------------------------------
PendingOf(u) == {p \in Payments : Payer[p] = u /\ payments[p] = "PENDING"}

(* The route refuses a second proof while one is waiting. *)
CheckNoPendingPayment(p) ==
  /\ payments[p] = "new" /\ PendingOf(Payer[p]) = {}
  /\ payments' = [payments EXCEPT ![p] = "checked"]
  /\ UNCHANGED <<proofs, subscriptions, history, today, unanswered, emails>>

StorePaymentProof(p) ==
  /\ payments[p] = "checked"
  /\ payments' = [payments EXCEPT ![p] = "stored"]
  /\ proofs' = proofs \cup {p}
  /\ UNCHANGED <<subscriptions, history, today, unanswered, emails>>

(* The transaction of the route: the row, and the mails to the reviewers, which are
   none when no SUPERADMIN is active; the route only logs that. *)
CreatePayment(p) ==
  /\ payments' = [payments EXCEPT ![p] = "PENDING"]
  /\ emails' \in {WithEmails({<<"submitted", p>>}), emails}

(* When it fails, the file is deleted again, if that works, and the customer may
   submit anew; an error of the call need not mean that nothing was created. *)
SubmitPayment(p) ==
  /\ payments[p] = "stored"
  /\ \/ CreatePayment(p) /\ UNCHANGED <<proofs, unanswered>>
     \/ /\ CreatePayment(p)
        /\ proofs' \in {proofs, proofs \ {p}}
        /\ unanswered' = unanswered \cup {p}
     \/ /\ payments' = [payments EXCEPT ![p] = "new"]
        /\ proofs' \in {proofs, proofs \ {p}}
        /\ UNCHANGED <<unanswered, emails>>
  /\ UNCHANGED <<subscriptions, history, today>>

(* updateMany where status: "PENDING"; a second review of the same payment finds
   no row and changes nothing.  Faulty variant: without the status. *)
ReviewAnyState(p) == payments[p] \in PaymentStatuses
Reviewable(p) == payments[p] = "PENDING"

RejectPayment(p, status) ==
  /\ Reviewable(p) /\ status \in {"REJECTED", "CANCELLED"}
  /\ payments' = [payments EXCEPT ![p] = status]
  /\ UNCHANGED <<proofs, subscriptions, history, today, unanswered, emails>>

(* resolveSubscriptionPeriod. *)
PeriodEnd(u, plan, months) ==
  LET current == subscriptions[u]
      renewal == current.plan = plan /\ current.status = "ACTIVE" /\ After(current.ends, today)
  IN AddBillingMonths(IF renewal THEN current.ends ELSE today, months)

(* The subscription and its history row are written together. *)
WriteSubscription(u, sub, by) ==
  /\ subscriptions' = [subscriptions EXCEPT ![u] = sub]
  /\ history' = [history EXCEPT ![u] = Append(@, [sub |-> sub, by |-> by, on |-> today])]

(* reviewPaymentVerificationInTransaction with APPROVED: status, subscription,
   history and mail in one serializable transaction. *)
ApprovePayment(p) ==
  /\ Reviewable(p)
  /\ payments' = [payments EXCEPT ![p] = "APPROVED"]
  /\ WriteSubscription(Payer[p],
       [plan |-> PlanOf[p], status |-> "ACTIVE",
        ends |-> PeriodEnd(Payer[p], PlanOf[p], MonthsOf[p])], p)
  /\ emails' = WithEmails({<<"approved", p>>})
  /\ UNCHANGED <<proofs, today, unanswered>>

EditsOf(u) == {i \in DOMAIN history[u] : history[u][i].by = "admin"}

EditSubscription(u, plan, status, ends) ==
  /\ Cardinality(EditsOf(u)) < AdminEdits
  /\ ends = Never \/ After(ends, today)
  /\ WriteSubscription(u, [plan |-> plan, status |-> status, ends |-> ends], "admin")
  /\ UNCHANGED <<payments, proofs, today, unanswered, emails>>

DayPasses ==
  /\ \E d \in Calendar : After(d, today) /\ today' = d
  /\ UNCHANGED <<payments, proofs, subscriptions, history, unanswered, emails>>

PaymentNext ==
  /\ \/ \E p \in Payments :
          \/ CheckNoPendingPayment(p) \/ StorePaymentProof(p) \/ SubmitPayment(p)
          \/ ApprovePayment(p) \/ \E status \in {"REJECTED", "CANCELLED"} : RejectPayment(p, status)
     \/ \E u \in Users, p \in Payments, status \in {"ACTIVE", "SUSPENDED"}, d \in Calendar \cup {Never} :
          EditSubscription(u, PlanOf[p], status, d)
     \/ DayPasses
  /\ UNCHANGED <<mailer, smtp>>

PaymentSpec == PaymentInit /\ EmailInit({}) /\ [][PaymentNext]_<<paymentVars, emailVars>>
-----------------------------------------------------------------------------
PaymentTypeOK ==
  /\ payments \in [Payments -> PaymentStatuses \cup {"new", "checked", "stored"}]
  /\ proofs \subseteq Payments /\ unanswered \subseteq Payments
  /\ today \in Calendar

(* What a payment has done to the other tables: an approved payment, and no other,
   has exactly one history row and its confirmation mail; a reviewer is told only of
   payments that were submitted (and of those not when no SUPERADMIN is active,
   email-notifications.ts:176); a submitted one has its proof file, unless the answer
   of its transaction was lost and the route deleted the file of a row that exists
   (payment-verifications/route.ts:213-214); and the subscription is what the last row
   of its history says. *)
GrantsOf(p) == {i \in DOMAIN history[Payer[p]] : history[Payer[p]][i].by = p}
PaymentEffects ==
  \A p \in Payments :
    /\ Cardinality(GrantsOf(p)) = IF payments[p] = "APPROVED" THEN 1 ELSE 0
    /\ (emails[<<"approved", p>>].status # "none") <=> (payments[p] = "APPROVED")
    /\ emails[<<"submitted", p>>].status # "none" => payments[p] \in PaymentStatuses
    /\ payments[p] \in PaymentStatuses => p \in proofs \/ p \in unanswered
    /\ LET rows == history[Payer[p]] IN rows # <<>> => rows[Len(rows)].sub = subscriptions[Payer[p]]

(* A renewal of a running subscription to the same plan keeps every day that was
   paid for: it ends exactly the paid months after the former end, and never on a
   later day of the month than that. *)
RenewalKeepsPaidDays ==
  \A u \in Users : \A i \in DOMAIN history[u] \ {1} :
    LET new == history[u][i]  old == history[u][i - 1].sub
    IN (new.by \in Payments /\ old.plan = new.sub.plan /\ old.status = "ACTIVE" /\ After(old.ends, new.on))
       => /\ new.sub.ends[1] = old.ends[1] + MonthsOf[new.by]
          /\ new.sub.ends[2] <= old.ends[2]
          /\ After(new.sub.ends, old.ends)

(* "One proof at a time": at most one payment of a user waits for its review. *)
OneProofAtATime == \A u \in Users : Cardinality(PendingOf(u)) <= 1
=============================================================================
