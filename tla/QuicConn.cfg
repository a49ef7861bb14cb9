\* The event loop sends and closes; the worker runs callbacks, which send.
SPECIFICATION Spec
CONSTANTS
  Threads = {main}
  Worker = worker
  Senders = {main, worker}
  Closers = {main}
  Dgrams = {d1}
  Metas = {m1}
  StreamCloseWaits = FALSE
  ConfigurationFails = TRUE
INVARIANTS RefcountIsHolders  
PROPERTIES ClosedIsFreed
CHECK_DEADLOCK FALSE
