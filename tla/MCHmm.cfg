CONSTANTS
  Bo = {"b1"}
  Vma = {"v1", "v2"}
  Job = {"j1", "j2"}
  Faults = {"insert", "fault", "timeout", "signal"}
  MaxMoves = 1
SPECIFICATION Spec
INVARIANT DmaSafe
INVARIANT UmapInv
PROPERTY MappingsEnd
