SPECIFICATION Spec
CONSTANTS
  Capturers = {t1, t2}
  Executors = {t3, t4}
  MaxOut = 2
  PipeSize = 1
  MaxCalls = 2
  EmptyWrites = TRUE
INVARIANTS
  CaptureComplete
  ReadEndNotInherited
  NoHandleLeft
  CtrlRestored
PROPERTIES
  WaitsForChildrenOnly
