CONSTANTS
  NumBo = 3
  Thread = {t1, t2}
  HeapPages = 2
  SharePages = 3
  MaxExports = 1
  MaxOther = 1
  PageSize = 4
  U32 = 32
  U64 = 64
  Faults = {"nomem", "handle", "vmap", "wq", "pin_user", "attach"}
SYMMETRY ThreadSymmetry
SPECIFICATION Spec
 
INVARIANT PinsInv
 
INVARIANT FirstPageFlushed
CHECK_DEADLOCK FALSE
