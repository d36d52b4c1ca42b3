SPECIFICATION FairSpec
CONSTANTS
  Daemon = d
  Cli = c
  Process = {d, c}
  MaxMinted = 5
  Absent = Absent
  Call = {t1}
  Sink = {web, cmd}
  Webhook = {web}
  MaxAttempts = 2
  Capacity = 1
  MaxEvents = 2
  Watcher = {ui, rpc}
  HttpWatcher = {ui}
  Ui = ui
  Enabled = {"api", "localsend", "native", "wan"}
  MaxSpent = 3
  Job = {j1, j2}
  TokenReadable = TRUE
INVARIANTS TypeOK IdentityKept HookAccounting 
PROPERTY ShutdownEnds
CHECK_DEADLOCK FALSE
