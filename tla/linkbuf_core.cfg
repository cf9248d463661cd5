\* LinkBufferCap 1 and pagesize 2 keep the code's ratio (pagesize is twice
\* LinkBufferCap, BinaryInplaceThreshold equals it): a 3-byte Malloc makes a
\* tail node larger than a page, a 2- or 3-byte WriteBinary is linked
\* without copying, and a 2- or 3-byte read crosses nodes.
CONSTANTS
  Nodes = {1, 2, 3, 4, 5}
  Nil = Nil
  NodeCap = 1
  PageSize = 2
  InitSizes = {0, 1}
  WriteSizes = {1, 2, 3}
  AckSizes = {1, 2}
  ReadSizes = {1, 2, 3}
  MaxBytes = 4
  Ok = Ok
  Err = Err
  Panic = Panic
SPECIFICATION Spec
INVARIANT TypeOK
INVARIANT ChainOrdered
PROPERTY RefinesLinkStream
CHECK_DEADLOCK FALSE
