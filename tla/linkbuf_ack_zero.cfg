\* MallocAck(0) after bytes were allocated in the node b.flush points at.
CONSTANTS
  Nodes = {1, 2, 3, 4, 5}
  Nil = Nil
  NodeCap = 1
  PageSize = 2
  InitSizes = {0, 1}
  WriteSizes = {1, 2, 3}
  AckSizes = {0}
  ReadSizes = {1, 2, 3}
  MaxBytes = 4
  Ok = Ok
  Err = Err
  Panic = Panic
SPECIFICATION Spec
PROPERTY RefinesLinkStream
CHECK_DEADLOCK FALSE
