SPECIFICATION Spec
CONSTANTS
  r1 = r1
  r2 = r2
  tui = tui
  cli = cli
  Fingerprint <- MCFingerprint
  Canonical <- MCCanonical
  Empty = ""
  Absent = Absent
  Request <- MCRequest
  Operator <- MCOperator
  Offered <- MCOffered
  Named <- MCNamed
  Inline <- MCInline
  FileContents <- MCFileContents
  Unreadable = Unreadable
  None = None
  Nobody = Nobody
  Tui = tui
SYMMETRY Symmetry
INVARIANTS
  TypeOK
  DecisionStands
  ApprovalHonoured
  AdmittedWasTrusted
  
  RefusedIsRecorded
  
CHECK_DEADLOCK FALSE
