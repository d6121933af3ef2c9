\* The nuvoton driver: a hardware counter with a mask (small, so that it wraps)
\* and the default off delay, with the disable timer of the drivers or disabling in
\* the interrupt handler.  Safety, and delivery of the events under fairness.
SPECIFICATION FairSpec
CONSTANTS
    Tasks = {t1, t2}
    Flip = flip
    MaxCount = 3
    MaxAhead = 2
    HwCounter = TRUE
    MaxHwCount = 1
    OffDelay = "positive"
    Immediate = {TRUE, FALSE}
INVARIANTS TypeOK RefcountBalance EventsNeedIrq OffIsOff
PROPERTIES CountFrozenWhileOff FramesCounted EventuallySent
