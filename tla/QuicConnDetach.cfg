\* The event loop closes while a callback runs; StreamClose waits for callbacks.
SPECIFICATION Spec
CONSTANTS
  Threads = {main, other}
  Worker = worker
  Senders = {}
  Closers = {main}
  Dgrams = {d1}
  Metas = {m1}
  StreamCloseWaits = TRUE
  ConfigurationFails = FALSE
INVARIANTS ConnectionNeverUsedAfterFree
CHECK_DEADLOCK FALSE
