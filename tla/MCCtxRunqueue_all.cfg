SPECIFICATION Spec
CONSTANTS
  c1 = c1  c2 = c2  c3 = c3  t1 = t1  t2 = t2  t3 = t3
  NoCtx = NoCtx  NoWork = NoWork
  Ctx = {c1, c2}
  Thread = {t1, t2}
  CtxOf <- CtxPair
  Prio <- PrioMixed
  NumPriority = 2
  CtxLimit = 2
  HwctxLimit = 1
  MaxCmds = 4
  IdleCount = 1
  MaxJobs = 1
  MaxDepth = 2
  Env = {"signal", "connect_fail", "run_fail", "submit_fail", "hang", "tdr", "suspend"}
INVARIANT RqInv
INVARIANT PendingCntExact
PROPERTY NoDisconnectUnderIo
CHECK_DEADLOCK FALSE
