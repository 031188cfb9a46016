----------------------------- MODULE UsageLedger -----------------------------
(***************************************************************************)
(* The usage ledger of one tenant and one feature (src/lib/usage.ts) under *)
(* arbitrary callers: any number of processes call its functions in any    *)
(* order, with any of the keys, while the package limit and the billing    *)
(* period change underneath.  Transactions are serializable, so one call   *)
(* is one step.  A call that throws changes nothing and has no step here;  *)
(* the modules of the callers model what a throw makes them do.            *)
(***************************************************************************)
EXTENDS UsageOps, FiniteSets, FiniteSetsExt

CONSTANTS
  Periods,          \* billing periods; a single one for MEDIA_STORAGE_BYTES
  ReservationKeys,  \* idempotency keys passed to reserveUsage
  ConsumeKeys,      \* idempotency keys passed to consumeUsage
  Amounts,          \* amounts callers ask for
  Limits,           \* limits the entitlement can have
  MaxUnkeyed        \* bound on the sum of unkeyed rows, for model checking

ASSUME AmountsArePositive == Amounts \subseteq Nat \ {0}
ASSUME LimitsAreLimits == Limits \subseteq Nat \cup {Unlimited}
ASSUME KeysAreDisjoint == ReservationKeys \cap ConsumeKeys = {}

VARIABLES
  usage,    \* the counters and keyed ledger rows, see UsageOps
  unkeyed,  \* per period, the sum of the ledger rows without a key
  limit,    \* the limit requireEntitlement answers now; an entitlement that is
            \* disabled or lapsed refuses every grant, which is limit 0
  active,   \* resolveTenantId finds the account ACTIVE
  period    \* the period getUsagePeriod answers now

vars == <<usage, unkeyed, limit, active, period>>

Keys == ReservationKeys \cup ConsumeKeys

LedgerRow == [op : LedgerOps, key : Keys, amount : Amounts, period : Periods]

Init ==
  /\ usage = NoUsage(Periods)
  /\ unkeyed = [p \in Periods |-> 0]
  /\ limit \in Limits
  /\ active = TRUE
  /\ period \in Periods
-----------------------------------------------------------------------------
(***************************************************************************)
(* Faulty variants of the actions below, each a plausible bug of the code. *)
(* They are not part of the specification: each one shows that the         *)
(* property named with it would notice the bug.                            *)
(***************************************************************************)

(* Settling without the check that the counter still holds the amount. *)
SettleUnchecked(op, k) ==
  /\ active
  /\ HasRow(usage, "RESERVE", k)
  /\ usage' = Settled(usage, op, k)
  /\ UNCHANGED <<unkeyed, limit, active, period>>

(* Settling against the counter of the current period. *)
SettleInCurrentPeriod(op, k) ==
  /\ active
  /\ CanSettle(usage, op, k)
  /\ usage.reserved[period] > 0
  /\ ~HasRow(usage, op, k)
  /\ LET r == Row(usage, "RESERVE", k)
     IN  usage' = [usage EXCEPT
                     !.reserved[r.period] = @ - r.amount,
                     !.consumed[period] = @ + (IF op = "COMMIT" THEN r.amount ELSE 0),
                     !.ledger = AddRow(usage, op, k, r.amount, period)]
  /\ UNCHANGED <<unkeyed, limit, active, period>>

(* releaseConsumedUsage that subtracts what was asked but logs what it had. *)
GiveBackUnclamped(a) ==
  /\ active
  /\ usage.consumed[period] >= a
  /\ usage' = [usage EXCEPT !.consumed[period] = @ - a]
  /\ UNCHANGED <<unkeyed, limit, active, period>>

(* reserveUsage that does not look for an earlier RESERVE row. *)
ReserveAgain(k, a) ==
  /\ active
  /\ WithinLimit(usage, period, a, limit)
  /\ usage' = [usage EXCEPT !.reserved[period] = @ + a,
                            !.ledger = AddRow(usage, "RESERVE", k, a, period)]
  /\ UNCHANGED <<unkeyed, limit, active, period>>

(* A limit check that forgets what is reserved. *)
ReserveIgnoringReserved(k, a) ==
  /\ active
  /\ HasRow(usage, "RESERVE", k) \/ limit = Unlimited \/ usage.consumed[period] + a <= limit
  /\ usage' = Reserved(usage, period, k, a)
  /\ UNCHANGED <<unkeyed, limit, active, period>>
-----------------------------------------------------------------------------
(* consumeUsage with an idempotency key. *)
Consume(k, a) ==
  /\ active
  /\ CanConsume(usage, period, k, a, limit)
  /\ usage' = Consumed(usage, period, k, a)
  /\ UNCHANGED <<unkeyed, limit, active, period>>

(* consumeUsage without a key, as proxy.ts counts one API request.  The row
   has a null key, which the unique index never matches. *)
ConsumeUnkeyed(a) ==
  /\ active
  /\ unkeyed[period] + a <= MaxUnkeyed
  /\ WithinLimit(usage, period, a, limit)
  /\ usage' = [usage EXCEPT !.consumed[period] = @ + a]
  /\ unkeyed' = [unkeyed EXCEPT ![period] = @ + a]
  /\ UNCHANGED <<limit, active, period>>

Reserve(k, a) ==
  /\ active
  /\ CanReserve(usage, period, k, a, limit)
  /\ usage' = Reserved(usage, period, k, a)
  /\ UNCHANGED <<unkeyed, limit, active, period>>

(* commitReservedUsage and releaseReservedUsage: an ACTIVE account is required,
   an entitlement is not. *)
Settle(op, k) ==
  /\ active
  /\ CanSettle(usage, op, k)
  /\ usage' = Settled(usage, op, k)
  /\ UNCHANGED <<unkeyed, limit, active, period>>

(* releaseConsumedUsage writes an ADJUST row without a key. *)
GiveBack(a) ==
  /\ active
  /\ unkeyed[period] - a >= -MaxUnkeyed
  /\ usage' = AfterGiveBack(usage, period, a)
  /\ unkeyed' = [unkeyed EXCEPT ![period] = @ - GivenBack(usage, period, a)]
  /\ UNCHANGED <<limit, active, period>>

(* A package change, an override, or a suspension of the account. *)
ChangeEntitlement(l, b) ==
  /\ limit' = l
  /\ active' = b
  /\ UNCHANGED <<usage, unkeyed, period>>

(* getOrCreateCounter picks the counter of the period that contains now; the
   period moves with time and with the subscription's anchor. *)
EnterPeriod(p) ==
  /\ period' = p
  /\ UNCHANGED <<usage, unkeyed, limit, active>>

Next ==
  \/ \E k \in ConsumeKeys, a \in Amounts : Consume(k, a)
  \/ \E a \in Amounts : ConsumeUnkeyed(a)
  \/ \E k \in ReservationKeys, a \in Amounts : Reserve(k, a)
  \/ \E k \in ReservationKeys, op \in {"COMMIT", "RELEASE"} : Settle(op, k)
  \/ \E a \in Amounts : GiveBack(a)
  \/ \E l \in Limits, b \in BOOLEAN : ChangeEntitlement(l, b)
  \/ \E p \in Periods : EnterPeriod(p)

Spec == Init /\ [][Next]_vars
-----------------------------------------------------------------------------
(***************************************************************************)
(* Properties.                                                             *)
(***************************************************************************)

(* Counters never go negative (the columns are signed BigInt, nothing but
   the code keeps them so) and every ledger row is well formed. *)
TypeOK ==
  /\ usage \in [consumed : [Periods -> Nat], reserved : [Periods -> Nat],
                ledger : SUBSET LedgerRow]
  /\ unkeyed \in [Periods -> Int]
  /\ limit \in Limits
  /\ active \in BOOLEAN
  /\ period \in Periods

SumRows(rows) == MapThenSumSet(LAMBDA e : e.amount, rows)

(* Double entry: in every period the counter row equals what the ledger rows
   of that period add up to, across resubmitted keys, settlements after the
   period has ended and corrections. *)
CountersMatchLedger ==
  \A p \in Periods :
    LET rows(op, ks) == {e \in usage.ledger : e.op = op /\ e.period = p /\ e.key \in ks}
    IN  /\ usage.consumed[p] = SumRows(rows("COMMIT", Keys)) + unkeyed[p]
        /\ usage.reserved[p] = SumRows(rows("RESERVE", ReservationKeys))
                               - SumRows(rows("COMMIT", ReservationKeys))
                               - SumRows(rows("RELEASE", ReservationKeys))

(* A settlement undoes exactly the reservation it names: the same amount, in
   the period that was charged, although the period has moved on. *)
SettlementMatchesReservation ==
  \A e \in usage.ledger :
    (e.key \in ReservationKeys /\ e.op # "RESERVE") =>
      \E r \in usage.ledger :
        r.op = "RESERVE" /\ r.key = e.key /\ r.amount = e.amount /\ r.period = e.period

(* A key is counted once: no operation leaves two rows for one key, so a
   retried call never charges or frees twice. *)
OneRowPerOperation ==
  \A d, e \in usage.ledger : (d.op = e.op /\ d.key = e.key) => d = e

(* Nothing is granted beyond the limit in force: a step that raises what a
   period holds ends within the limit, and only the current period grows.
   A lowered limit may leave a period above it, but then it only shrinks. *)
GrantsStayWithinLimit ==
  [][\A p \in Periods :
       usage'.consumed[p] + usage'.reserved[p] > usage.consumed[p] + usage.reserved[p]
         => /\ p = period
            /\ limit = Unlimited \/ usage'.consumed[p] + usage'.reserved[p] <= limit]_vars
=============================================================================
