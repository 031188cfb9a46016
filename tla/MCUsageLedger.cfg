CONSTANTS
  Periods = {p1, p2}
  ReservationKeys = {k1, k2}
  ConsumeKeys = {c1}
  Amounts = {1, 2}
  Limits <- MCLimits
  MaxUnkeyed = 2
SPECIFICATION Spec
SYMMETRY Symmetry
INVARIANTS
  TypeOK
  CountersMatchLedger
  SettlementMatchesReservation
  OneRowPerOperation
PROPERTIES
  GrantsStayWithinLimit
