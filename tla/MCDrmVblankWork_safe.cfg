\* Vblank works on a pipe of the verisilicon driver: no hardware counter, the
\* default off delay with its disable timer.
SPECIFICATION WSpec
CONSTANTS
    Tasks = {t1}
    Flip = flip
    MaxCount = 3
    MaxAhead = 1
    HwCounter = FALSE
    MaxHwCount = 0
    OffDelay = "positive"
    Immediate = {FALSE}
    Works = {w1}
    Threads = {d1, d2}
    None = None
SYMMETRY Symm
INVARIANTS WorkRefBalance WorksNeedIrq QuietWhileOff CancelIsFinal NoLostWakeup
