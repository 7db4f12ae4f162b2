SPECIFICATION Spec
CONSTANTS
  MaxEvents = 2
  MaxBytes = 3
  Sizes = {1, 2, 4}
  MaxFrames = 4
  QueuedEvents = 2
  BufferedBytes = 3
  OutSizes = {1, 3}
CHECK_DEADLOCK FALSE
INVARIANTS
  TypeOK
  NoLostWakeup
  InOrder
  BuffersBalanced
PROPERTIES
  UpstreamReleased
  HandlerFinishes
