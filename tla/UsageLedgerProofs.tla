-------------------------- MODULE UsageLedgerProofs --------------------------
(***************************************************************************)
(* Theorems about UsageLedger, for every set of periods, keys, amounts and *)
(* limits.  IInv is inductive: the type invariant gives the counters their *)
(* sign, the uniqueness of rows makes Row(u, op, k) denote the row that    *)
(* was written, and both are needed to follow a settlement back to its     *)
(* reservation.                                                            *)
(***************************************************************************)
EXTENDS UsageLedger, FiniteSums

IInv == TypeOK /\ OneRowPerOperation /\ SettlementMatchesReservation

(* The row that a successful lookup returns is a row of the ledger with the
   operation and the key that were asked for. *)
LEMMA RowIsFound ==
  ASSUME NEW u, NEW op, NEW k, HasRow(u, op, k)
  PROVE  Row(u, op, k) \in u.ledger /\ Row(u, op, k).op = op /\ Row(u, op, k).key = k
  BY DEF HasRow, Row

(* Adding a row for an operation and key that have none keeps rows unique. *)
LEMMA AddRowKeepsUnique ==
  ASSUME NEW u, NEW op, NEW k, NEW a, NEW p,
         ~HasRow(u, op, k),
         \A d, e \in u.ledger : (d.op = e.op /\ d.key = e.key) => d = e
  PROVE  \A d, e \in AddRow(u, op, k, a, p) : (d.op = e.op /\ d.key = e.key) => d = e
  BY DEF HasRow, AddRow

(* The values usage can take. *)
UsageValue == [consumed : [Periods -> Nat], reserved : [Periods -> Nat],
               ledger : SUBSET LedgerRow]

(* reserveUsage keeps the type of the tables. *)
LEMMA ReservedType ==
  ASSUME NEW u \in UsageValue, NEW p \in Periods, NEW k \in Keys, NEW a \in Amounts
  PROVE  Reserved(u, p, k, a) \in UsageValue
  <1>1. a \in Nat BY AmountsArePositive
  <1>2. CASE HasRow(u, "RESERVE", k) BY <1>2 DEF Reserved
  <1>3. CASE ~HasRow(u, "RESERVE", k)
    <2>1. AddRow(u, "RESERVE", k, a, p) \in SUBSET LedgerRow
      BY DEF AddRow, UsageValue, LedgerRow, LedgerOps
    <2>2. [u.reserved EXCEPT ![p] = @ + a] \in [Periods -> Nat] BY <1>1 DEF UsageValue
    <2> QED BY <1>3, <2>1, <2>2 DEF Reserved, UsageValue
  <1> QED BY <1>2, <1>3

(* consumeUsage keeps the type of the tables. *)
LEMMA ConsumedType ==
  ASSUME NEW u \in UsageValue, NEW p \in Periods, NEW k \in Keys, NEW a \in Amounts
  PROVE  Consumed(u, p, k, a) \in UsageValue
  <1>1. a \in Nat BY AmountsArePositive
  <1>2. CASE HasRow(u, "COMMIT", k) BY <1>2 DEF Consumed
  <1>3. CASE ~HasRow(u, "COMMIT", k)
    <2>1. AddRow(u, "COMMIT", k, a, p) \in SUBSET LedgerRow
      BY DEF AddRow, UsageValue, LedgerRow, LedgerOps
    <2>2. [u.consumed EXCEPT ![p] = @ + a] \in [Periods -> Nat] BY <1>1 DEF UsageValue
    <2> QED BY <1>3, <2>1, <2>2 DEF Consumed, UsageValue
  <1> QED BY <1>2, <1>3

(* A settlement that is allowed keeps the type of the tables: the check that
   the counter holds the amount is what keeps `reserved` from going negative. *)
LEMMA SettledType ==
  ASSUME NEW u \in UsageValue, NEW op \in {"COMMIT", "RELEASE"}, NEW k \in Keys,
         CanSettle(u, op, k)
  PROVE  Settled(u, op, k) \in UsageValue
  <1>1. CASE HasRow(u, op, k) BY <1>1 DEF Settled
  <1>2. CASE ~HasRow(u, op, k)
    <2> DEFINE r == Row(u, "RESERVE", k)
    <2>1. HasRow(u, "RESERVE", k) /\ u.reserved[r.period] >= r.amount
      BY <1>2 DEF CanSettle
    <2>2. r \in LedgerRow BY <2>1, RowIsFound DEF UsageValue
    <2>3. r.period \in Periods /\ r.amount \in Amounts /\ r.amount \in Nat
      BY <2>2, AmountsArePositive DEF LedgerRow
    <2> DEFINE c == IF op = "COMMIT" THEN r.amount ELSE 0
    <2>4. c \in Nat BY <2>3
    <2>5. [u.reserved EXCEPT ![r.period] = @ - r.amount] \in [Periods -> Nat]
      BY <2>1, <2>3 DEF UsageValue
    <2>6. [u.consumed EXCEPT ![r.period] = @ + c] \in [Periods -> Nat]
      BY <2>3, <2>4 DEF UsageValue
    <2>7. AddRow(u, op, k, r.amount, r.period) \in SUBSET LedgerRow
      BY <2>3 DEF AddRow, UsageValue, LedgerRow, LedgerOps
    <2> HIDE DEF r, c
    <2>8. Settled(u, op, k) = [u EXCEPT !.reserved[r.period] = @ - r.amount,
                                        !.consumed[r.period] = @ + c,
                                        !.ledger = AddRow(u, op, k, r.amount, r.period)]
      BY <1>2 DEF Settled, r, c
    <2> QED BY <2>5, <2>6, <2>7, <2>8 DEF UsageValue
  <1> QED BY <1>1, <1>2

(* releaseConsumedUsage keeps the type of the tables: it takes no more than
   the counter holds. *)
LEMMA GiveBackType ==
  ASSUME NEW u \in UsageValue, NEW p \in Periods, NEW a \in Amounts
  PROVE  AfterGiveBack(u, p, a) \in UsageValue /\ GivenBack(u, p, a) \in Nat
  <1>1. a \in Nat BY AmountsArePositive
  <1>2. GivenBack(u, p, a) \in Nat /\ u.consumed[p] - GivenBack(u, p, a) \in Nat
    BY <1>1 DEF UsageValue, GivenBack
  <1>3. [u.consumed EXCEPT ![p] = @ - GivenBack(u, p, a)] \in [Periods -> Nat]
    BY <1>2 DEF UsageValue
  <1> QED BY <1>2, <1>3 DEF AfterGiveBack, UsageValue

(* Every step keeps the types. *)
LEMMA TypeStep == ASSUME TypeOK, [Next]_vars PROVE TypeOK'
  <1> USE DEF TypeOK
  <1>u. usage \in UsageValue BY DEF UsageValue
  <1> HIDE DEF TypeOK
  <1>k. ReservationKeys \subseteq Keys /\ ConsumeKeys \subseteq Keys BY DEF Keys
  <1>p. period \in Periods BY DEF TypeOK
  <1>1. ASSUME NEW k \in ConsumeKeys, NEW a \in Amounts, Consume(k, a) PROVE TypeOK'
    <2>1. usage' \in UsageValue BY <1>1, <1>u, <1>k, <1>p, ConsumedType DEF Consume
    <2> QED BY <1>1, <2>1 DEF TypeOK, Consume, UsageValue
  <1>2. ASSUME NEW a \in Amounts, ConsumeUnkeyed(a) PROVE TypeOK'
    <2>1. a \in Nat BY AmountsArePositive
    <2>2. [usage.consumed EXCEPT ![period] = @ + a] \in [Periods -> Nat]
      BY <2>1, <1>u, <1>p DEF UsageValue
    <2>3. usage' \in UsageValue BY <1>2, <1>u, <2>2 DEF ConsumeUnkeyed, UsageValue
    <2>4. unkeyed' \in [Periods -> Int] BY <1>2, <2>1, <1>p DEF ConsumeUnkeyed, TypeOK
    <2> QED BY <1>2, <2>3, <2>4 DEF TypeOK, ConsumeUnkeyed, UsageValue
  <1>3. ASSUME NEW k \in ReservationKeys, NEW a \in Amounts, Reserve(k, a) PROVE TypeOK'
    <2>1. usage' \in UsageValue BY <1>3, <1>u, <1>k, <1>p, ReservedType DEF Reserve
    <2> QED BY <1>3, <2>1 DEF TypeOK, Reserve, UsageValue
  <1>4. ASSUME NEW k \in ReservationKeys, NEW op \in {"COMMIT", "RELEASE"}, Settle(op, k)
        PROVE  TypeOK'
    <2>1. usage' \in UsageValue BY <1>4, <1>u, <1>k, SettledType DEF Settle
    <2> QED BY <1>4, <2>1 DEF TypeOK, Settle, UsageValue
  <1>5. ASSUME NEW a \in Amounts, GiveBack(a) PROVE TypeOK'
    <2>1. usage' \in UsageValue /\ GivenBack(usage, period, a) \in Nat
      BY <1>5, <1>u, <1>p, GiveBackType DEF GiveBack
    <2>2. unkeyed' \in [Periods -> Int] BY <1>5, <2>1, <1>p DEF GiveBack, TypeOK
    <2> QED BY <1>5, <2>1, <2>2 DEF TypeOK, GiveBack, UsageValue
  <1>6. ASSUME NEW l \in Limits, NEW b \in BOOLEAN, ChangeEntitlement(l, b) PROVE TypeOK'
    BY <1>6 DEF TypeOK, ChangeEntitlement
  <1>7. ASSUME NEW p \in Periods, EnterPeriod(p) PROVE TypeOK'
    BY <1>7 DEF TypeOK, EnterPeriod
  <1>8. CASE UNCHANGED vars BY <1>8 DEF TypeOK, vars
  <1> QED BY <1>1, <1>2, <1>3, <1>4, <1>5, <1>6, <1>7, <1>8 DEF Next

(* Every step keeps one row per operation and key: each operation looks for
   its own row before it writes one. *)
LEMMA UniqueStep ==
  ASSUME OneRowPerOperation, [Next]_vars
  PROVE  OneRowPerOperation'
  <1> USE DEF OneRowPerOperation
  <1>1. ASSUME NEW k \in ConsumeKeys, NEW a \in Amounts, Consume(k, a)
        PROVE  OneRowPerOperation'
    <2>1. CASE HasRow(usage, "COMMIT", k) BY <1>1, <2>1 DEF Consume, Consumed
    <2>2. CASE ~HasRow(usage, "COMMIT", k)
      <3>1. usage'.ledger = AddRow(usage, "COMMIT", k, a, period)
        BY <1>1, <2>2 DEF Consume, Consumed
      <3> QED BY <2>2, <3>1, AddRowKeepsUnique
    <2> QED BY <2>1, <2>2
  <1>2. ASSUME NEW a \in Amounts, ConsumeUnkeyed(a) PROVE OneRowPerOperation'
    <2>1. usage'.ledger = usage.ledger BY <1>2 DEF ConsumeUnkeyed
    <2> QED BY <2>1
  <1>3. ASSUME NEW k \in ReservationKeys, NEW a \in Amounts, Reserve(k, a)
        PROVE  OneRowPerOperation'
    <2>1. CASE HasRow(usage, "RESERVE", k) BY <1>3, <2>1 DEF Reserve, Reserved
    <2>2. CASE ~HasRow(usage, "RESERVE", k)
      <3>1. usage'.ledger = AddRow(usage, "RESERVE", k, a, period)
        BY <1>3, <2>2 DEF Reserve, Reserved
      <3> QED BY <2>2, <3>1, AddRowKeepsUnique
    <2> QED BY <2>1, <2>2
  <1>4. ASSUME NEW k \in ReservationKeys, NEW op \in {"COMMIT", "RELEASE"}, Settle(op, k)
        PROVE  OneRowPerOperation'
    <2>1. CASE HasRow(usage, op, k) BY <1>4, <2>1 DEF Settle, Settled
    <2>2. CASE ~HasRow(usage, op, k)
      <3> DEFINE r == Row(usage, "RESERVE", k)
      <3>1. usage'.ledger = AddRow(usage, op, k, r.amount, r.period)
        BY <1>4, <2>2 DEF Settle, Settled
      <3> HIDE DEF r
      <3> QED BY <2>2, <3>1, AddRowKeepsUnique
    <2> QED BY <2>1, <2>2
  <1>5. ASSUME NEW a \in Amounts, GiveBack(a) PROVE OneRowPerOperation'
    <2>1. usage'.ledger = usage.ledger BY <1>5 DEF GiveBack, AfterGiveBack
    <2> QED BY <2>1
  <1>6. CASE usage' = usage BY <1>6
  <1> QED BY <1>1, <1>2, <1>3, <1>4, <1>5, <1>6
          DEF Next, vars, ChangeEntitlement, EnterPeriod

(* Every step keeps settlements attached to the reservation they settle. *)
LEMMA SettlementStep ==
  ASSUME IInv, [Next]_vars
  PROVE  SettlementMatchesReservation'
  <1> USE DEF SettlementMatchesReservation
  <1>0. SettlementMatchesReservation BY DEF IInv
  <1>1. ASSUME NEW k \in ConsumeKeys, NEW a \in Amounts, Consume(k, a)
        PROVE  SettlementMatchesReservation'
    <2>1. k \notin ReservationKeys BY KeysAreDisjoint
    <2>2. CASE HasRow(usage, "COMMIT", k) BY <1>0, <1>1, <2>2 DEF Consume, Consumed
    <2>3. CASE ~HasRow(usage, "COMMIT", k)
      <3>1. usage'.ledger = AddRow(usage, "COMMIT", k, a, period)
        BY <1>1, <2>3 DEF Consume, Consumed
      <3> QED BY <1>0, <2>1, <3>1 DEF AddRow
    <2> QED BY <2>2, <2>3
  <1>2. ASSUME NEW a \in Amounts, ConsumeUnkeyed(a) PROVE SettlementMatchesReservation'
    <2>1. usage'.ledger = usage.ledger BY <1>2 DEF ConsumeUnkeyed
    <2> QED BY <1>0, <2>1
  <1>3. ASSUME NEW k \in ReservationKeys, NEW a \in Amounts, Reserve(k, a)
        PROVE  SettlementMatchesReservation'
    <2>1. CASE HasRow(usage, "RESERVE", k) BY <1>0, <1>3, <2>1 DEF Reserve, Reserved
    <2>2. CASE ~HasRow(usage, "RESERVE", k)
      <3>1. usage'.ledger = AddRow(usage, "RESERVE", k, a, period)
        BY <1>3, <2>2 DEF Reserve, Reserved
      <3> QED BY <1>0, <3>1 DEF AddRow
    <2> QED BY <2>1, <2>2
  <1>4. ASSUME NEW k \in ReservationKeys, NEW op \in {"COMMIT", "RELEASE"}, Settle(op, k)
        PROVE  SettlementMatchesReservation'
    <2>1. CASE HasRow(usage, op, k) BY <1>0, <1>4, <2>1 DEF Settle, Settled
    <2>2. CASE ~HasRow(usage, op, k)
      <3> DEFINE r == Row(usage, "RESERVE", k)
      <3>1. usage'.ledger = AddRow(usage, op, k, r.amount, r.period)
        BY <1>4, <2>2 DEF Settle, Settled
      <3>2. r \in usage.ledger /\ r.op = "RESERVE" /\ r.key = k
        BY <1>4, <2>2, RowIsFound DEF Settle, CanSettle
      <3> HIDE DEF r
      <3> QED BY <1>0, <3>1, <3>2 DEF AddRow
    <2> QED BY <2>1, <2>2
  <1>5. ASSUME NEW a \in Amounts, GiveBack(a) PROVE SettlementMatchesReservation'
    <2>1. usage'.ledger = usage.ledger BY <1>5 DEF GiveBack, AfterGiveBack
    <2> QED BY <1>0, <2>1
  <1>6. CASE usage' = usage BY <1>0, <1>6
  <1> QED BY <1>1, <1>2, <1>3, <1>4, <1>5, <1>6
          DEF Next, vars, ChangeEntitlement, EnterPeriod

(* IInv is an invariant of the ledger under every caller. *)
LEMMA InductiveInvariant == Spec => []IInv
  <1>1. Init => IInv
    BY DEF Init, IInv, TypeOK, OneRowPerOperation, SettlementMatchesReservation, NoUsage
  <1>2. IInv /\ [Next]_vars => IInv'
    BY TypeStep, UniqueStep, SettlementStep DEF IInv
  <1> QED BY <1>1, <1>2, PTL DEF Spec

(* No sequence of calls of usage.ts, in any order and with any keys, drives a
   counter negative or leaves a malformed ledger row. *)
THEOREM TypeCorrect == Spec => []TypeOK
  BY InductiveInvariant, PTL DEF IInv

(* Resubmitting a key never writes its row twice. *)
THEOREM RowsAreUnique == Spec => []OneRowPerOperation
  BY InductiveInvariant, PTL DEF IInv

(* Every settlement carries the amount and the period of its reservation,
   whatever the current period is when it is settled. *)
THEOREM SettlementsMatch == Spec => []SettlementMatchesReservation
  BY InductiveInvariant, PTL DEF IInv

Held(u, p) == u.consumed[p] + u.reserved[p]

(* A settlement moves or frees what is held; it never adds to it. *)
LEMMA SettlementNeverAdds ==
  ASSUME NEW u \in UsageValue, NEW op \in {"COMMIT", "RELEASE"}, NEW k \in Keys,
         CanSettle(u, op, k), NEW p \in Periods
  PROVE  Held(Settled(u, op, k), p) <= Held(u, p)
  <1>0. Held(u, p) \in Nat BY DEF Held, UsageValue
  <1>1. CASE HasRow(u, op, k)
    <2>1. Settled(u, op, k) = u BY <1>1 DEF Settled
    <2> QED BY <1>0, <2>1
  <1>2. CASE ~HasRow(u, op, k)
    <2> DEFINE r == Row(u, "RESERVE", k)
               c == IF op = "COMMIT" THEN r.amount ELSE 0
               v == Settled(u, op, k)
    <2>1. HasRow(u, "RESERVE", k) BY <1>2 DEF CanSettle
    <2>2. r \in LedgerRow BY <2>1, RowIsFound DEF UsageValue
    <2>3. r.period \in Periods /\ r.amount \in Nat
      BY <2>2, AmountsArePositive DEF LedgerRow
    <2>4. c \in Nat /\ c <= r.amount BY <2>3
    <2>5. v = [u EXCEPT !.reserved[r.period] = @ - r.amount,
                        !.consumed[r.period] = @ + c,
                        !.ledger = AddRow(u, op, k, r.amount, r.period)]
      BY <1>2 DEF Settled
    <2> HIDE DEF r, c, v
    <2>6. /\ v.reserved = [u.reserved EXCEPT ![r.period] = @ - r.amount]
          /\ v.consumed = [u.consumed EXCEPT ![r.period] = @ + c]
      BY <2>5 DEF UsageValue
    <2>7. u.reserved[p] \in Nat /\ u.consumed[p] \in Nat BY DEF UsageValue
    <2>8. CASE p = r.period
      <3>1. v.reserved[p] = u.reserved[p] - r.amount /\ v.consumed[p] = u.consumed[p] + c
        BY <2>3, <2>6, <2>8 DEF UsageValue
      <3>2. v.consumed[p] + v.reserved[p] <= u.consumed[p] + u.reserved[p]
        BY <2>3, <2>4, <2>7, <3>1
      <3> QED BY <3>2 DEF Held, v
    <2>9. CASE p # r.period
      <3>1. v.reserved[p] = u.reserved[p] /\ v.consumed[p] = u.consumed[p]
        BY <2>3, <2>6, <2>9 DEF UsageValue
      <3>2. v.consumed[p] + v.reserved[p] <= u.consumed[p] + u.reserved[p]
        BY <2>7, <3>1
      <3> QED BY <3>2 DEF Held, v
    <2> QED BY <2>8, <2>9
  <1> QED BY <1>1, <1>2

(* One step of growth is a grant: it was checked against the limit in force. *)
LEMMA GrantStep ==
  ASSUME IInv, Next, NEW p \in Periods, Held(usage', p) > Held(usage, p)
  PROVE  p = period /\ (limit = Unlimited \/ Held(usage', p) <= limit)
  <1>u. usage \in UsageValue BY DEF IInv, TypeOK, UsageValue
  <1>p. period \in Periods BY DEF IInv, TypeOK
  <1>n. /\ usage.consumed[p] \in Nat /\ usage.reserved[p] \in Nat
        /\ usage.consumed[period] \in Nat /\ usage.reserved[period] \in Nat
    BY <1>u, <1>p DEF UsageValue
  <1>l. limit \in Int BY LimitsAreLimits DEF IInv, TypeOK, Unlimited
  <1>0. usage' # usage BY <1>n DEF Held
  <1> DEFINE Goal == p = period /\ (limit = Unlimited \/ Held(usage', p) <= limit)
  <1>1. ASSUME NEW k \in ConsumeKeys, NEW a \in Amounts, Consume(k, a) PROVE Goal
    <2>1. a \in Nat BY AmountsArePositive
    <2>2. ~HasRow(usage, "COMMIT", k) BY <1>0, <1>1 DEF Consume, Consumed
    <2>3. /\ usage'.consumed = [usage.consumed EXCEPT ![period] = @ + a]
          /\ usage'.reserved = usage.reserved
      BY <1>1, <2>2, <1>u DEF Consume, Consumed, UsageValue
    <2>4. p = period BY <2>3, <1>n, <1>u, <1>p DEF Held, UsageValue
    <2>5. usage'.consumed[p] = usage.consumed[p] + a
      BY <2>3, <2>4, <1>u, <1>p DEF UsageValue
    <2>6. limit = Unlimited \/ usage.consumed[p] + usage.reserved[p] + a <= limit
      BY <1>1, <2>2, <2>4 DEF Consume, CanConsume, WithinLimit
    <2> QED BY <2>1, <2>3, <2>4, <2>5, <2>6, <1>n, <1>l DEF Held
  <1>2. ASSUME NEW a \in Amounts, ConsumeUnkeyed(a) PROVE Goal
    <2>1. a \in Nat BY AmountsArePositive
    <2>3. /\ usage'.consumed = [usage.consumed EXCEPT ![period] = @ + a]
          /\ usage'.reserved = usage.reserved
      BY <1>2, <1>u DEF ConsumeUnkeyed, UsageValue
    <2>4. p = period BY <2>3, <1>n, <1>u, <1>p DEF Held, UsageValue
    <2>5. usage'.consumed[p] = usage.consumed[p] + a
      BY <2>3, <2>4, <1>u, <1>p DEF UsageValue
    <2>6. limit = Unlimited \/ usage.consumed[p] + usage.reserved[p] + a <= limit
      BY <1>2, <2>4 DEF ConsumeUnkeyed, WithinLimit
    <2> QED BY <2>1, <2>3, <2>4, <2>5, <2>6, <1>n, <1>l DEF Held
  <1>3. ASSUME NEW k \in ReservationKeys, NEW a \in Amounts, Reserve(k, a) PROVE Goal
    <2>1. a \in Nat BY AmountsArePositive
    <2>2. ~HasRow(usage, "RESERVE", k) BY <1>0, <1>3 DEF Reserve, Reserved
    <2>3. /\ usage'.reserved = [usage.reserved EXCEPT ![period] = @ + a]
          /\ usage'.consumed = usage.consumed
      BY <1>3, <2>2, <1>u DEF Reserve, Reserved, UsageValue
    <2>4. p = period BY <2>3, <1>n, <1>u, <1>p DEF Held, UsageValue
    <2>5. usage'.reserved[p] = usage.reserved[p] + a
      BY <2>3, <2>4, <1>u, <1>p DEF UsageValue
    <2>6. limit = Unlimited \/ usage.consumed[p] + usage.reserved[p] + a <= limit
      BY <1>3, <2>2, <2>4 DEF Reserve, CanReserve, WithinLimit
    <2> QED BY <2>1, <2>3, <2>4, <2>5, <2>6, <1>n, <1>l DEF Held
  <1>4. ASSUME NEW k \in ReservationKeys, NEW op \in {"COMMIT", "RELEASE"}, Settle(op, k)
        PROVE  Goal
    <2>1. CanSettle(usage, op, k) /\ usage' = Settled(usage, op, k) /\ k \in Keys
      BY <1>4 DEF Settle, Keys
    <2>2. Settled(usage, op, k) \in UsageValue BY <2>1, <1>u, SettledType
    <2>3. Held(usage', p) <= Held(usage, p) BY <2>1, <1>u, SettlementNeverAdds
    <2>4. Held(usage', p) \in Int /\ Held(usage, p) \in Int
      BY <2>1, <2>2, <1>u DEF Held, UsageValue
    <2> QED BY <2>3, <2>4
  <1>5. ASSUME NEW a \in Amounts, GiveBack(a) PROVE Goal
    <2> DEFINE g == GivenBack(usage, period, a)
    <2>1. g \in Nat BY <1>u, <1>p, GiveBackType
    <2>2. usage' = [usage EXCEPT !.consumed[period] = @ - g]
      BY <1>5 DEF GiveBack, AfterGiveBack
    <2> HIDE DEF g
    <2>3. /\ usage'.consumed = [usage.consumed EXCEPT ![period] = @ - g]
          /\ usage'.reserved = usage.reserved
      BY <2>2, <1>u DEF UsageValue
    <2>4. usage'.consumed[p] <= usage.consumed[p] /\ usage'.consumed[p] \in Int
      BY <2>1, <2>3, <1>u, <1>n DEF UsageValue
    <2> QED BY <2>3, <2>4, <1>n DEF Held
  <1> QED BY <1>0, <1>1, <1>2, <1>3, <1>4, <1>5 DEF Next, ChangeEntitlement, EnterPeriod

(* No grant exceeds the limit in force, and only the current period grows. *)
THEOREM GrantsBounded == Spec => GrantsStayWithinLimit
  <1>1. IInv /\ [Next]_vars =>
          [\A p \in Periods :
             usage'.consumed[p] + usage'.reserved[p] > usage.consumed[p] + usage.reserved[p]
               => /\ p = period
                  /\ limit = Unlimited \/ usage'.consumed[p] + usage'.reserved[p] <= limit]_vars
    BY GrantStep DEF Held
  <1> QED BY <1>1, InductiveInvariant, PTL DEF Spec, GrantsStayWithinLimit
-----------------------------------------------------------------------------
(***************************************************************************)
(* Double entry.                                                           *)
(***************************************************************************)

(* The amount of a row, as a function, and the rows that are added up. *)
Amount == [e \in LedgerRow |-> e.amount]
RowsOf(l, op, p, ks) == {e \in l : e.op = op /\ e.period = p /\ e.key \in ks}

(* Amounts are integers. *)
LEMMA AmountsAreInt == \A e \in LedgerRow : Amount[e] \in Int
  <1> SUFFICES ASSUME NEW e \in LedgerRow PROVE Amount[e] \in Int OBVIOUS
  <1>1. e.amount \in Amounts BY DEF LedgerRow
  <1>2. Amount[e] = e.amount BY DEF Amount
  <1>3. \A a \in Amounts : a \in Int BY AmountsArePositive
  <1> QED BY <1>1, <1>2, <1>3

(* SumRows adds up the amounts of a set of ledger rows. *)
LEMMA SumRowsAddsAmounts ==
  ASSUME NEW S, S \subseteq LedgerRow
  PROVE  SumRows(S) = SumOver(Amount, S)
  <1> DEFINE Q(g) == g = [s \in SUBSET S |-> IF s = {} THEN 0 ELSE Pick(s).amount + g[s \ {Pick(s)}]]
  <1>1. SumRows(S) = (CHOOSE g : Q(g))[S]
    BY DEF SumRows, MapThenSumSet, MapThenFoldSet, Pick
  <1>2. SumOver(Amount, S) = (CHOOSE g : AddsUp(g, Amount, S))[S]
    BY DEF SumOver, MapThenSumSet, MapThenFoldSet, AddsUp, Pick
  <1>3. ASSUME NEW s \in SUBSET S, s # {} PROVE Amount[Pick(s)] = Pick(s).amount
    <2>1. Pick(s) \in LedgerRow BY <1>3, PickIsIn
    <2> QED BY <2>1 DEF Amount
  <1>4. ASSUME NEW g PROVE Q(g) <=> AddsUp(g, Amount, S)
    <2>1. [s \in SUBSET S |-> IF s = {} THEN 0 ELSE Pick(s).amount + g[s \ {Pick(s)}]]
          = [s \in SUBSET S |-> IF s = {} THEN 0 ELSE Amount[Pick(s)] + g[s \ {Pick(s)}]]
      BY <1>3
    <2> QED BY <2>1 DEF AddsUp
  <1> HIDE DEF Q
  <1>5. (CHOOSE g : Q(g)) = (CHOOSE g : AddsUp(g, Amount, S)) BY <1>4
  <1> QED BY <1>1, <1>2, <1>5

(* A row that is written adds its amount to the sums it belongs to, and to no
   other. *)
LEMMA WrittenRowIsSummed ==
  ASSUME NEW u \in UsageValue, IsFiniteSet(u.ledger),
         NEW op \in LedgerOps, NEW k \in Keys, NEW a \in Amounts, NEW p \in Periods,
         ~HasRow(u, op, k), NEW o, NEW q, NEW ks
  PROVE  LET l == AddRow(u, op, k, a, p)
             old == SumRows(RowsOf(u.ledger, o, q, ks))
         IN  /\ IsFiniteSet(l) /\ old \in Int
             /\ SumRows(RowsOf(l, o, q, ks))
                  = old + (IF o = op /\ q = p /\ k \in ks THEN a ELSE 0)
  <1> DEFINE l == AddRow(u, op, k, a, p)
             e == [op |-> op, key |-> k, amount |-> a, period |-> p]
             S == RowsOf(u.ledger, o, q, ks)
  <1>1. l = u.ledger \cup {e} BY DEF AddRow
  <1>2. IsFiniteSet(l) BY <1>1, FS_AddElement
  <1>3. e \in LedgerRow /\ Amount[e] = a /\ a \in Int
    <2>1. e \in LedgerRow BY DEF LedgerRow
    <2>2. e.amount = a /\ a \in Int BY AmountsArePositive
    <2> HIDE DEF e
    <2> QED BY <2>1, <2>2 DEF Amount
  <1>4. e \notin u.ledger BY DEF HasRow
  <1>5. u.ledger \subseteq LedgerRow BY DEF UsageValue
  <1>6. \A x \in LedgerRow : Amount[x] \in Int BY AmountsAreInt
  <1>7. S \subseteq u.ledger /\ S \subseteq LedgerRow /\ IsFiniteSet(S) /\ e \notin S
    <2>1. S \subseteq u.ledger BY DEF RowsOf
    <2> HIDE DEF S, e
    <2> QED BY <1>4, <1>5, <2>1, FS_Subset
  <1>8. SumRows(S) = SumOver(Amount, S) /\ SumRows(S) \in Int
    <2> HIDE DEF S
    <2>1. SumRows(S) = SumOver(Amount, S) BY <1>7, SumRowsAddsAmounts
    <2>2. \A x \in S : Amount[x] \in Int BY <1>6, <1>7
    <2> QED BY <1>7, <2>1, <2>2, SumIsInt
  <1>9. CASE o = op /\ q = p /\ k \in ks
    <2>1. RowsOf(l, o, q, ks) = S \cup {e} BY <1>1, <1>9 DEF RowsOf
    <2> HIDE DEF S, e, l
    <2>2. S \cup {e} \subseteq LedgerRow BY <1>3, <1>7
    <2>3. SumOver(Amount, S \cup {e}) = Amount[e] + SumOver(Amount, S)
      <3>1. \A x \in S \cup {e} : Amount[x] \in Int BY <1>6, <2>2
      <3> QED BY <1>7, <3>1, SumGains
    <2>4. SumRows(RowsOf(l, o, q, ks)) = SumOver(Amount, S \cup {e})
      BY <2>1, <2>2, SumRowsAddsAmounts
    <2>5. SumRows(RowsOf(l, o, q, ks)) = SumRows(S) + a BY <1>3, <1>8, <2>3, <2>4
    <2> QED BY <1>2, <1>8, <1>9, <2>5 DEF S, l
  <1>10. CASE ~(o = op /\ q = p /\ k \in ks)
    <2>1. RowsOf(l, o, q, ks) = S BY <1>1, <1>10 DEF RowsOf
    <2> HIDE DEF S, e, l
    <2>2. SumRows(RowsOf(l, o, q, ks)) = SumRows(S) + 0 BY <1>8, <2>1
    <2> QED BY <1>2, <1>8, <1>10, <2>2 DEF S, l
  <1> QED BY <1>9, <1>10

SumsInv == IInv /\ IsFiniteSet(usage.ledger) /\ CountersMatchLedger

(* The books of one period, and all of them. *)
Balanced(u, x, p) ==
  /\ u.consumed[p] = SumRows(RowsOf(u.ledger, "COMMIT", p, Keys)) + x
  /\ u.reserved[p] = SumRows(RowsOf(u.ledger, "RESERVE", p, ReservationKeys))
                     - SumRows(RowsOf(u.ledger, "COMMIT", p, ReservationKeys))
                     - SumRows(RowsOf(u.ledger, "RELEASE", p, ReservationKeys))

(* CountersMatchLedger in these terms. *)
LEMMA AllBalanced == CountersMatchLedger <=> \A p \in Periods : Balanced(usage, unkeyed[p], p)
  BY DEF CountersMatchLedger, Balanced, RowsOf

(* What an operation that writes a row does to the counter of its period: a COMMIT
   consumes, and the rows of a reservation hold and set free its amount. *)
Taken(op, k, a) == IF op = "COMMIT" THEN a ELSE 0
Holding(op, k, a) ==
  IF op = "RESERVE" THEN a ELSE IF k \in ReservationKeys THEN 0 - a ELSE 0

(* A row written together with its effect on the counter keeps the books. *)
LEMMA BalancedAfterRow ==
  ASSUME NEW u \in UsageValue, NEW v \in UsageValue, IsFiniteSet(u.ledger),
         NEW op \in LedgerOps, NEW k \in Keys, NEW a \in Amounts, NEW p \in Periods,
         ~HasRow(u, op, k), op # "COMMIT" => k \in ReservationKeys,
         v.ledger = AddRow(u, op, k, a, p),
         v.consumed = [u.consumed EXCEPT ![p] = @ + Taken(op, k, a)],
         v.reserved = [u.reserved EXCEPT ![p] = @ + Holding(op, k, a)],
         NEW x \in Int, NEW q \in Periods, Balanced(u, x, q)
  PROVE  Balanced(v, x, q)
  <1> DEFINE old(o, ks) == SumRows(RowsOf(u.ledger, o, q, ks))
             new(o, ks) == SumRows(RowsOf(v.ledger, o, q, ks))
  <1>a. a \in Int BY AmountsArePositive
  <1>1. ASSUME NEW o, NEW ks
        PROVE  old(o, ks) \in Int /\ new(o, ks) = old(o, ks) + (IF o = op /\ q = p /\ k \in ks THEN a ELSE 0)
    BY WrittenRowIsSummed
  <1>2. /\ old("COMMIT", Keys) \in Int /\ old("RESERVE", ReservationKeys) \in Int
        /\ old("COMMIT", ReservationKeys) \in Int /\ old("RELEASE", ReservationKeys) \in Int
    BY <1>1
  <1>3. /\ new("COMMIT", Keys) = old("COMMIT", Keys) + (IF "COMMIT" = op /\ q = p THEN a ELSE 0)
        /\ new("RESERVE", ReservationKeys) = old("RESERVE", ReservationKeys)
                + (IF "RESERVE" = op /\ q = p /\ k \in ReservationKeys THEN a ELSE 0)
        /\ new("COMMIT", ReservationKeys) = old("COMMIT", ReservationKeys)
                + (IF "COMMIT" = op /\ q = p /\ k \in ReservationKeys THEN a ELSE 0)
        /\ new("RELEASE", ReservationKeys) = old("RELEASE", ReservationKeys)
                + (IF "RELEASE" = op /\ q = p /\ k \in ReservationKeys THEN a ELSE 0)
    BY <1>1
  <1>4. /\ u.consumed[q] = old("COMMIT", Keys) + x
        /\ u.reserved[q] = old("RESERVE", ReservationKeys) - old("COMMIT", ReservationKeys)
                           - old("RELEASE", ReservationKeys)
    BY DEF Balanced
  <1>5. /\ v.consumed[q] = IF q = p THEN u.consumed[q] + Taken(op, k, a) ELSE u.consumed[q]
        /\ v.reserved[q] = IF q = p THEN u.reserved[q] + Holding(op, k, a) ELSE u.reserved[q]
    BY DEF UsageValue
  <1> HIDE DEF old, new
  <1>6. /\ v.consumed[q] = new("COMMIT", Keys) + x
        /\ v.reserved[q] = new("RESERVE", ReservationKeys) - new("COMMIT", ReservationKeys)
                           - new("RELEASE", ReservationKeys)
    <2>1. CASE q # p BY <1>2, <1>3, <1>4, <1>5, <2>1
    <2>2. CASE q = p /\ op = "RESERVE"
      BY <1>a, <1>2, <1>3, <1>4, <1>5, <2>2 DEF Taken, Holding
    <2>3. CASE q = p /\ op = "COMMIT"
      BY <1>a, <1>2, <1>3, <1>4, <1>5, <2>3 DEF Taken, Holding
    <2>4. CASE q = p /\ op = "RELEASE"
      BY <1>a, <1>2, <1>3, <1>4, <1>5, <2>4 DEF Taken, Holding
    <2> QED BY <2>1, <2>2, <2>3, <2>4 DEF LedgerOps
  <1> QED BY <1>6 DEF Balanced, new

(* Every step keeps the ledger finite and the counters equal to its sums. *)
LEMMA SumsStep == ASSUME SumsInv, [Next]_vars PROVE SumsInv'
  <1>i. IInv' BY TypeStep, UniqueStep, SettlementStep DEF SumsInv, IInv
  <1>u. usage \in UsageValue /\ usage' \in UsageValue
    BY <1>i DEF SumsInv, IInv, TypeOK, UsageValue
  <1>f. IsFiniteSet(usage.ledger) BY DEF SumsInv
  <1>p. period \in Periods /\ unkeyed \in [Periods -> Int] BY DEF SumsInv, IInv, TypeOK
  <1>b. \A q \in Periods : Balanced(usage, unkeyed[q], q) BY AllBalanced DEF SumsInv
  <1> DEFINE Goal == IsFiniteSet(usage'.ledger) /\ \A q \in Periods : Balanced(usage', unkeyed'[q], q)
  <1>1. ASSUME NEW op \in LedgerOps, NEW k \in Keys, NEW a \in Amounts, NEW p \in Periods,
               ~HasRow(usage, op, k), op # "COMMIT" => k \in ReservationKeys,
               usage'.ledger = AddRow(usage, op, k, a, p),
               usage'.consumed = [usage.consumed EXCEPT ![p] = @ + Taken(op, k, a)],
               usage'.reserved = [usage.reserved EXCEPT ![p] = @ + Holding(op, k, a)],
               UNCHANGED unkeyed
        PROVE  Goal
    <2>1. ASSUME NEW q \in Periods PROVE Balanced(usage', unkeyed[q], q)
      <3>1. unkeyed[q] \in Int /\ Balanced(usage, unkeyed[q], q) BY <1>b, <1>p
      <3> QED BY <1>1, <1>u, <1>f, <3>1, BalancedAfterRow
    <2>2. IsFiniteSet(usage'.ledger)
      <3> DEFINE e == [op |-> op, key |-> k, amount |-> a, period |-> p]
      <3>1. usage'.ledger = usage.ledger \cup {e} BY <1>1 DEF AddRow
      <3> HIDE DEF e
      <3> QED BY <3>1, <1>f, FS_AddElement
    <2> QED BY <1>1, <2>1, <2>2
  <1>2. ASSUME UNCHANGED <<usage, unkeyed>> PROVE Goal BY <1>2, <1>b, <1>f
  <1>3. ASSUME usage'.ledger = usage.ledger, usage'.reserved = usage.reserved, NEW g \in Int,
               usage'.consumed = [usage.consumed EXCEPT ![period] = @ + g],
               unkeyed' = [unkeyed EXCEPT ![period] = @ + g]
        PROVE  Goal
    <2>1. ASSUME NEW q \in Periods PROVE Balanced(usage', unkeyed'[q], q)
      <3> DEFINE s == SumRows(RowsOf(usage.ledger, "COMMIT", q, Keys))
      <3>1. unkeyed[q] \in Int /\ usage.consumed[q] = s + unkeyed[q]
        BY <1>b, <1>p DEF Balanced
      <3>2. s \in Int
        <4>1. RowsOf(usage.ledger, "COMMIT", q, Keys) \subseteq usage.ledger BY DEF RowsOf
        <4>2. usage.ledger \subseteq LedgerRow BY <1>u DEF UsageValue
        <4> DEFINE S == RowsOf(usage.ledger, "COMMIT", q, Keys)
        <4>3. S \subseteq LedgerRow /\ IsFiniteSet(S) BY <1>f, <4>1, <4>2, FS_Subset
        <4> HIDE DEF S
        <4>4. \A x \in S : Amount[x] \in Int BY <4>3, AmountsAreInt
        <4> QED BY <4>3, <4>4, SumRowsAddsAmounts, SumIsInt DEF S
      <3>3. /\ usage'.consumed[q] = IF q = period THEN usage.consumed[q] + g ELSE usage.consumed[q]
            /\ unkeyed'[q] = IF q = period THEN unkeyed[q] + g ELSE unkeyed[q]
        BY <1>3, <1>u, <1>p DEF UsageValue
      <3> HIDE DEF s
      <3>4. usage'.consumed[q] = s + unkeyed'[q] BY <1>3, <3>1, <3>2, <3>3
      <3> QED BY <1>3, <1>b, <3>4 DEF Balanced, s
    <2> QED BY <1>3, <1>f, <2>1
  <1>4. ASSUME NEW k \in ConsumeKeys, NEW a \in Amounts, Consume(k, a) PROVE Goal
    <2>1. CASE HasRow(usage, "COMMIT", k) BY <1>2, <1>4, <2>1 DEF Consume, Consumed
    <2>2. CASE ~HasRow(usage, "COMMIT", k)
      <3>1. /\ usage'.consumed = [usage.consumed EXCEPT ![period] = @ + a]
            /\ usage'.reserved = usage.reserved
            /\ usage'.ledger = AddRow(usage, "COMMIT", k, a, period) /\ UNCHANGED unkeyed
        BY <1>4, <2>2, <1>u DEF Consume, Consumed, UsageValue
      <3>2. Taken("COMMIT", k, a) = a /\ Holding("COMMIT", k, a) = 0
        BY KeysAreDisjoint DEF Taken, Holding
      <3>3. usage'.reserved = [usage.reserved EXCEPT ![period] = @ + 0]
        BY <1>u, <1>p, <3>1 DEF UsageValue
      <3>4. "COMMIT" \in LedgerOps /\ k \in Keys BY DEF LedgerOps, Keys
      <3> QED BY <1>1, <1>p, <2>2, <3>1, <3>2, <3>3, <3>4
    <2> QED BY <2>1, <2>2
  <1>5. ASSUME NEW k \in ReservationKeys, NEW a \in Amounts, Reserve(k, a) PROVE Goal
    <2>1. CASE HasRow(usage, "RESERVE", k) BY <1>2, <1>5, <2>1 DEF Reserve, Reserved
    <2>2. CASE ~HasRow(usage, "RESERVE", k)
      <3>1. /\ usage'.reserved = [usage.reserved EXCEPT ![period] = @ + a]
            /\ usage'.consumed = usage.consumed
            /\ usage'.ledger = AddRow(usage, "RESERVE", k, a, period) /\ UNCHANGED unkeyed
        BY <1>5, <2>2, <1>u DEF Reserve, Reserved, UsageValue
      <3>2. Taken("RESERVE", k, a) = 0 /\ Holding("RESERVE", k, a) = a BY DEF Taken, Holding
      <3>3. usage'.consumed = [usage.consumed EXCEPT ![period] = @ + 0]
        BY <1>u, <1>p, <3>1 DEF UsageValue
      <3>4. "RESERVE" \in LedgerOps /\ k \in Keys BY DEF LedgerOps, Keys
      <3> QED BY <1>1, <1>p, <2>2, <3>1, <3>2, <3>3, <3>4
    <2> QED BY <2>1, <2>2
  <1>6. ASSUME NEW k \in ReservationKeys, NEW op \in {"COMMIT", "RELEASE"}, Settle(op, k) PROVE Goal
    <2>1. CASE HasRow(usage, op, k) BY <1>2, <1>6, <2>1 DEF Settle, Settled
    <2>2. CASE ~HasRow(usage, op, k)
      <3> DEFINE r == Row(usage, "RESERVE", k)
                 a == r.amount
                 p == r.period
      <3>1. HasRow(usage, "RESERVE", k) BY <1>6, <2>2 DEF Settle, CanSettle
      <3>2. r \in LedgerRow BY <1>u, <3>1, RowIsFound DEF UsageValue
      <3>3. a \in Amounts /\ a \in Nat /\ p \in Periods BY <3>2, AmountsArePositive DEF LedgerRow
      <3>4. usage' = [usage EXCEPT !.reserved[p] = @ - a,
                                   !.consumed[p] = @ + (IF op = "COMMIT" THEN a ELSE 0),
                                   !.ledger = AddRow(usage, op, k, a, p)] /\ UNCHANGED unkeyed
        BY <1>6, <2>2 DEF Settle, Settled
      <3> HIDE DEF r, a, p
      <3>5. /\ usage'.reserved = [usage.reserved EXCEPT ![p] = @ - a]
            /\ usage'.consumed = [usage.consumed EXCEPT ![p] = @ + (IF op = "COMMIT" THEN a ELSE 0)]
            /\ usage'.ledger = AddRow(usage, op, k, a, p)
        BY <3>4, <1>u DEF UsageValue
      <3>6. Taken(op, k, a) = (IF op = "COMMIT" THEN a ELSE 0) /\ Holding(op, k, a) = 0 - a
        BY DEF Taken, Holding
      <3>7. usage'.reserved = [usage.reserved EXCEPT ![p] = @ + (0 - a)]
        <4>1. usage.reserved[p] - a = usage.reserved[p] + (0 - a) BY <1>u, <3>3 DEF UsageValue
        <4> QED BY <3>5, <4>1
      <3>8. op \in LedgerOps /\ k \in Keys BY DEF LedgerOps, Keys
      <3> QED BY <1>1, <2>2, <3>3, <3>4, <3>5, <3>6, <3>7, <3>8
    <2> QED BY <2>1, <2>2
  <1>7. ASSUME NEW a \in Amounts, ConsumeUnkeyed(a) PROVE Goal
    <2>1. a \in Int BY AmountsArePositive
    <2>2. /\ usage'.consumed = [usage.consumed EXCEPT ![period] = @ + a]
          /\ usage'.reserved = usage.reserved /\ usage'.ledger = usage.ledger
          /\ unkeyed' = [unkeyed EXCEPT ![period] = @ + a]
      BY <1>7, <1>u DEF ConsumeUnkeyed, UsageValue
    <2> QED BY <1>3, <2>1, <2>2
  <1>8. ASSUME NEW a \in Amounts, GiveBack(a) PROVE Goal
    <2> DEFINE g == GivenBack(usage, period, a)
    <2>1. g \in Nat BY <1>u, <1>p, GiveBackType
    <2>2. /\ usage' = [usage EXCEPT !.consumed[period] = @ - g]
          /\ unkeyed' = [unkeyed EXCEPT ![period] = @ - g]
      BY <1>8 DEF GiveBack, AfterGiveBack
    <2> HIDE DEF g
    <2>3. /\ usage'.consumed = [usage.consumed EXCEPT ![period] = @ - g]
          /\ usage'.reserved = usage.reserved /\ usage'.ledger = usage.ledger
      BY <1>u, <2>2 DEF UsageValue
    <2>4. /\ usage.consumed[period] - g = usage.consumed[period] + (0 - g)
          /\ unkeyed[period] - g = unkeyed[period] + (0 - g) /\ 0 - g \in Int
      BY <1>u, <1>p, <2>1 DEF UsageValue
    <2>5. /\ usage'.consumed = [usage.consumed EXCEPT ![period] = @ + (0 - g)]
          /\ unkeyed' = [unkeyed EXCEPT ![period] = @ + (0 - g)]
      BY <2>2, <2>3, <2>4
    <2> QED BY <1>3, <2>3, <2>4, <2>5
  <1>9. Goal
    BY <1>2, <1>4, <1>5, <1>6, <1>7, <1>8 DEF Next, vars, ChangeEntitlement, EnterPeriod
  <1>10. CountersMatchLedger'
    BY <1>9, AllBalanced DEF CountersMatchLedger, Balanced, RowsOf
  <1> QED BY <1>i, <1>9, <1>10 DEF SumsInv

(* Double entry: the counter of every period is what the ledger rows of that period
   add up to, whoever calls usage.ts in whatever order and however the period and the
   entitlement change underneath. *)
THEOREM CountersAreSums == Spec => []CountersMatchLedger
  <1>1. Init => SumsInv
    <2> SUFFICES ASSUME Init PROVE SumsInv OBVIOUS
    <2>1. IInv
      BY DEF Init, IInv, TypeOK, OneRowPerOperation, SettlementMatchesReservation, NoUsage
    <2>2. usage.ledger = {} BY DEF Init, NoUsage
    <2>3. IsFiniteSet(usage.ledger) BY <2>2, FS_EmptySet
    <2>4. \A op, p, ks : SumRows(RowsOf(usage.ledger, op, p, ks)) = 0
      <3>1. \A op, p, ks : RowsOf(usage.ledger, op, p, ks) = {} BY <2>2 DEF RowsOf
      <3>2. SumRows({}) = 0 BY SumRowsAddsAmounts, SumOfNone
      <3> QED BY <3>1, <3>2
    <2>5. \A p \in Periods : usage.consumed[p] = 0 /\ usage.reserved[p] = 0 /\ unkeyed[p] = 0
      BY DEF Init, NoUsage
    <2>6. CountersMatchLedger BY <2>4, <2>5, AllBalanced DEF Balanced
    <2> QED BY <2>1, <2>3, <2>6 DEF SumsInv
  <1>2. SumsInv /\ [Next]_vars => SumsInv' BY SumsStep
  <1>3. SumsInv => CountersMatchLedger BY DEF SumsInv
  <1> QED BY <1>1, <1>2, <1>3, PTL DEF Spec
=============================================================================
