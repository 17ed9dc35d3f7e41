SPECIFICATION Spec
CONSTANTS
  Msgs = {"a", "bb", "ccc"}
  MsgBytes <- Bytes
  MaxBytes = 6
  Nodes = {n1, n2, n3, n4, n5, n6, n7}
  NULL = NULL
SYMMETRY NodeSymmetry
INVARIANTS TypeOK LogAsserts NothingLeaks
PROPERTY ImplementsBoundedLog
