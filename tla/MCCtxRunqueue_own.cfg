SPECIFICATION Spec
CONSTANTS
  c1 = c1  c2 = c2  c3 = c3  t1 = t1  t2 = t2  t3 = t3
  NoCtx = NoCtx  NoWork = NoWork
  Ctx = {c1, c2, c3}
  Thread = {t1, t2}
  CtxOf <- CtxSplit
  Prio <- PrioLow
  NumPriority = 2
  CtxLimit = 3
  HwctxLimit = 2
  MaxCmds = 4
  IdleCount = 1
  MaxJobs = 1
  MaxDepth = 2
  Env = {"destroy", "submit_fail", "hang", "suspend"}
INVARIANT ConnListOrdered
 
PROPERTY NoLostCommand
CHECK_DEADLOCK FALSE
