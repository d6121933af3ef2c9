\* The DC8000 (DCUltra Lite) with the vblank interrupt off at once: safety, and
\* progress under fairness.  No plane is attached where it is invisible, so no
\* commit oopses.
SPECIFICATION FairSpec
CONSTANTS
    FBs = {f1}
    Modes = {m1, m2}
    None = none
    Gen = "dc8000"
    Invisible = FALSE
    MaxCount = 3
    HwCounter = FALSE
    MaxHwCount = 0
    OffDelay = "negative"
    Immediate = {FALSE}
INVARIANTS SettledHw
PROPERTIES CommitsEnd FlipsEnd StallsEnd
