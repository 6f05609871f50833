CONSTANTS
  Slots = 2
  MaxSeq = 3
  Thread = {t1, t2}
  Ops = {"user", "list", "noop"}
  Faults = {"nomem", "send", "mm", "interrupt", "enter", "hang", "guess"}
  BufSize = 8
  Header = 2
  Payloads = {2, 3, 4, 9}
  U32 = 32
SPECIFICATION FairSpec
INVARIANT JobsInv
INVARIANT CmdBufSound
 
PROPERTY EndsTold
 
CHECK_DEADLOCK FALSE
