\* One slot for events, two clients, every step may fail, one of them does.
CONSTANTS
  Event = {"e1"}
  Client = {"c1", "c2"}
  RB = 4
  Faults = {"res", "hw_start", "rq", "xrs", "events", "send", "trace", "sysfs", "register", "refused", "timeout", "irq", "malformed"}
  MaxFaults = 1
SPECIFICATION Spec
INVARIANT DriverInv
INVARIANT FailuresNeedFault
INVARIANT EventsRegistered
INVARIANT TraceSound
INVARIANT UnboundClean
PROPERTY EveryCallReturns
