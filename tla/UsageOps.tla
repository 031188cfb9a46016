------------------------------ MODULE UsageOps ------------------------------
(***************************************************************************)
(* The usage accounting of src/lib/usage.ts as operators on a value.       *)
(*                                                                         *)
(* A usage value u is what the tables UsageCounter and UsageLedger hold    *)
(* for one tenant and one feature:                                         *)
(*   u.consumed[p], u.reserved[p]  the counter row of billing period p     *)
(*   u.ledger                      the keyed ledger rows, a set of         *)
(*                                 [op, key, amount, period]               *)
(* Every function of usage.ts runs in one serializable transaction, so     *)
(* each is one operator from the old value to the new one, with a guard    *)
(* that tells apart the return and the throw.  Several modules use them:   *)
(* the ledger on its own, storage uploads and the message queue.           *)
(***************************************************************************)
EXTENDS Integers

(* Package limit of an unlimited entitlement (limit = null in the code).   *)
Unlimited == -1

LedgerOps == {"RESERVE", "COMMIT", "RELEASE"}

(* No counter row has been touched and no ledger row written yet. *)
NoUsage(periods) ==
  [consumed |-> [p \in periods |-> 0],
   reserved |-> [p \in periods |-> 0],
   ledger   |-> {}]

(* tx.usageLedger.findUnique on (tenant, feature, operation, key). *)
HasRow(u, op, k) == \E e \in u.ledger : e.op = op /\ e.key = k
Row(u, op, k)    == CHOOSE e \in u.ledger : e.op = op /\ e.key = k

AddRow(u, op, k, a, p) ==
  u.ledger \cup {[op |-> op, key |-> k, amount |-> a, period |-> p]}

(* The limit check: consumed + reserved + amount > limit is refused. *)
WithinLimit(u, p, a, limit) ==
  \/ limit = Unlimited
  \/ u.consumed[p] + u.reserved[p] + a <= limit

(***************************************************************************)
(* consumeUsage: count a at once.  An existing COMMIT row of the key makes *)
(* the call idempotent.                                                    *)
(***************************************************************************)
CanConsume(u, p, k, a, limit) ==
  \/ HasRow(u, "COMMIT", k)
  \/ WithinLimit(u, p, a, limit)

Consumed(u, p, k, a) ==
  IF HasRow(u, "COMMIT", k) THEN u
  ELSE [u EXCEPT !.consumed[p] = @ + a,
                 !.ledger = AddRow(u, "COMMIT", k, a, p)]

(***************************************************************************)
(* reserveUsage: hold a.  An existing RESERVE row makes the call           *)
(* idempotent, whatever has become of that reservation since.              *)
(***************************************************************************)
CanReserve(u, p, k, a, limit) ==
  \/ HasRow(u, "RESERVE", k)
  \/ WithinLimit(u, p, a, limit)

Reserved(u, p, k, a) ==
  IF HasRow(u, "RESERVE", k) THEN u
  ELSE [u EXCEPT !.reserved[p] = @ + a,
                 !.ledger = AddRow(u, "RESERVE", k, a, p)]

(***************************************************************************)
(* settleReservation with operation op.  A row of the SAME operation makes *)
(* the call idempotent; a row of the opposite operation is not looked at.  *)
(* It throws when the key was never reserved, and when the counter of the  *)
(* reservation's own period holds less than its amount.                    *)
(***************************************************************************)
CanSettle(u, op, k) ==
  \/ HasRow(u, op, k)
  \/ /\ HasRow(u, "RESERVE", k)
     /\ LET r == Row(u, "RESERVE", k)
        IN  u.reserved[r.period] >= r.amount

Settled(u, op, k) ==
  IF HasRow(u, op, k) THEN u
  ELSE LET r == Row(u, "RESERVE", k)
       IN  [u EXCEPT
              !.reserved[r.period] = @ - r.amount,
              !.consumed[r.period] = @ + (IF op = "COMMIT" THEN r.amount ELSE 0),
              !.ledger = AddRow(u, op, k, r.amount, r.period)]

(***************************************************************************)
(* releaseConsumedUsage: give back at most what the counter holds.         *)
(***************************************************************************)
GivenBack(u, p, a) == IF u.consumed[p] < a THEN u.consumed[p] ELSE a

AfterGiveBack(u, p, a) == [u EXCEPT !.consumed[p] = @ - GivenBack(u, p, a)]

(* A reservation neither committed nor released. *)
OpenReservation(u, k) ==
  /\ HasRow(u, "RESERVE", k)
  /\ ~HasRow(u, "COMMIT", k)
  /\ ~HasRow(u, "RELEASE", k)
=============================================================================
