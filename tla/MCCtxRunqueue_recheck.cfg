SPECIFICATION Spec
CONSTANTS
  c1 = c1  c2 = c2  c3 = c3  t1 = t1  t2 = t2  t3 = t3
  NoCtx = NoCtx  NoWork = NoWork
  Ctx = {c1, c2}
  Thread = {t1, t2}
  CtxOf <- CtxAll
  Prio <- PrioMixed
  NumPriority = 2
  CtxLimit = 2
  HwctxLimit = 1
  MaxCmds = 4
  IdleCount = 1
  MaxJobs = 2
  MaxDepth = 2
  Env = {}
INVARIANT IoOnConnectedCtx
CHECK_DEADLOCK FALSE
