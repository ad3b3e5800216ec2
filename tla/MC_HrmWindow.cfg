\* Window measures against the full-history reference, ring of 4 entries,
\* windows shorter than the ring, enough ticks to wrap the ring.
CONSTANTS
    R = 4
    NWin = 2
    WinSizes = {1, 3}
    MaxTicks = 6
    MaxBeats = 1
    PeriodUs = 1000
SPECIFICATION Spec
INVARIANT TypeOK
INVARIANT WindowMeasureCorrect
