\* The two host controllers of the OTG port and the gadget; safety, and the end
\* of every bring-up under fairness.
SPECIFICATION FairSpec
CONSTANT Hosts = {ehci0, ohci0}
INVARIANTS NotStuckInReset ClockBalance
PROPERTY BringUpEnds
