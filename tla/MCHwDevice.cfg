\* U32 stands for 2^32.
CONSTANTS
    Ctx = {"c1", "c2", "c3"}
    TotalCol = 3
    FirstCol = 0
    AlignNature = TRUE
    NumCol <- Widths
    Clk <- Clock
    MaxLevel = 6
    Qos <- Requests
    U32 = 1048576
    Faults = {"msg_fail", "timeout", "smu_fail", "start_fail", "chan_fail"}
    MaxFaults = 1
    DpmChecked = TRUE
    Modes = {"DEFAULT", "LOW", "TURBO"}
SPECIFICATION Spec
INVARIANT DeviceInv
INVARIANT FirmwareMatchesLeases
 
INVARIANT ClockFits
INVARIANT LaddersUndo
PROPERTY ColumnsLeased
