SPECIFICATION MCSpec
CONSTANTS
  Listener = l
  Ios = {a, b, l}
  Pipe = pipe
  Fds = {4, 6}
  PipeFd = 5
  Started <- MCStarted
  Periodic = {p}
  OneShot = {o}
  MaxDelay = 1
  None = None
  MaxOps = 3
  MaxSignals = 1
  Less = Less
  More = More
  Conns = {x, y, z}
INVARIANTS ListIsTree  EventIsCurrent  FileIsParsed JoinerKnows ReloadIsRestart
PROPERTIES IsOrderedSet SignalHandled
CHECK_DEADLOCK FALSE
