SPECIFICATION Spec
CONSTANTS
    Bars <- MCBars
    MaxBars = 6
    Calendar <- MCCalendar
    SwingLength = 1
    CloseBreak = TRUE
    CloseMitigation = FALSE
    JoinConsecutive = TRUE
    RangeNum = 1
    RangeDen = 3
INVARIANTS
    SwingsAreLegs
    BreaksAreInOrder
    ReadFromSwings
PROPERTIES
    ReportedStays
