SPECIFICATION Spec
CONSTANTS
  j1 = j1
  j2 = j2
  j3 = j3
  i1 = i1
  i2 = i2
  u1 = u1
  h1 = h1
  h2 = h2
  thumbnail = thumbnail
  None = None
  Jobs = {j1, j2, j3}
  Images = {i1, i2}
  Users = {u1}
  Owner <- AllOfOne
  Hash <- HashOf
  Blocked = {h2}
  Kinds = {thumbnail}
  Bytes = 1
  MaxVariant = 1
  Quota = 1
  Production = TRUE
  MaxFaults = 1
SYMMETRY Symmetry
INVARIANTS
  TypeOK
  StorageIsCounted
  ShownHasObjects
  NoOriginalLeftOver
