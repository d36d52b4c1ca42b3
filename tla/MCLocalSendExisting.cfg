SPECIFICATION Spec
CONSTANTS
  Session = {1, 2}
  Upload = {u1, u2}
  Reliable = {u2}
  Meta <- MCMeta
  Bodies <- MCBodies
  BadNames <- MCBadNames
  safe_identifier <- MCSafeIdentifier
  MaxSuffix = 1
  NoSlot = NoSlot
  NoTarget = NoTarget
  NoHash = NoHash
PROPERTY ExistingKept
CHECK_DEADLOCK FALSE
