CONSTANTS
  m1 = m1
  m2 = m2
  m3 = m3
  NoMedia = NoMedia
  Media = {m1, m2}
  Size <- MCSize
  Limit = 3
  Deleters = {d1, d2}
  Readers = {r1}
  Users = {u1}
  Faults = {"put", "create", "erase", "lost row", "lost", "commit"}
SPECIFICATION Spec
SYMMETRY Symmetry
INVARIANTS
  ReferencedIsKept
CHECK_DEADLOCK FALSE
