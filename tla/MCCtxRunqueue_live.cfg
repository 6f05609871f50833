SPECIFICATION FairSpec
CONSTANTS
  c1 = c1  c2 = c2  c3 = c3  t1 = t1  t2 = t2  t3 = t3
  NoCtx = NoCtx  NoWork = NoWork
  Ctx = {c1, c2}
  Thread = {t1, t2}
  CtxOf <- CtxOwn
  Prio <- PrioFlat
  NumPriority = 2
  CtxLimit = 2
  HwctxLimit = 1
  MaxCmds = 4
  IdleCount = 1
  MaxJobs = 3
  MaxDepth = 1
  Env = {"connect_fail", "submit_fail"}
 
PROPERTY BlockResolved
CHECK_DEADLOCK FALSE
