\* Safety on the DC8200.  A commit that oopses stops everything.
SPECIFICATION Spec
CONSTANTS
    FBs = {f1, f2}
    Modes = {m1, m2}
    None = none
    Gen = "dc8200"
    Invisible = TRUE
    MaxCount = 3
    HwCounter = FALSE
    MaxHwCount = 0
    OffDelay = "positive"
    Immediate = {FALSE}
INVARIANTS ClockOrder RefsHeld OneFlip SettledHw
PROPERTIES RateSetWhileOff
SYMMETRY Symmetry
CHECK_DEADLOCK FALSE
