SPECIFICATION FairSpec
CONSTANTS
  d1 = d1
  d2 = d2
  a1 = a1
  a2 = a2
  Device <- MCDevice
  Address <- MCAddress
  Alias <- MCAlias
  Target <- MCTarget
  Plain <- MCPlain
  Policy <- MCPolicy
  Send = {s1}
  MaxRekeys = 1
  MaxChanges = 2
  MayLeave = TRUE
  Absent = Absent
  NoCert = NoCert
  Nobody = Nobody
  None = None
INVARIANTS
  TypeOK
  PinnedDelivery
  ReceiptWasTrusted
  ReportIsTrue
PROPERTIES
  NativeSendEnds
CHECK_DEADLOCK FALSE
