CONSTANTS
  m1 = m1
  m2 = m2
  m3 = m3
  NoMedia = NoMedia
  Media = {m1, m2, m3}
  Size <- MCSize
  Limit = 3
  Deleters = {d1, d2}
  Readers = {}
  Users = {u1}
  Faults = {"put", "create", "erase"}
SPECIFICATION Spec
SYMMETRY Symmetry
INVARIANTS
  TypeOK
  StorageBooksBalance
CHECK_DEADLOCK FALSE
