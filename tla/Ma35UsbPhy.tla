----------------------------- MODULE Ma35UsbPhy -----------------------------
(***************************************************************************)
(* USB PHY0 of the MA35D1 and the two drivers that share it: the gadget    *)
(* PHY driver phy-ma35d1-usb2.c, used by dwc2, and the host PHY driver     *)
(* phy-ma35d1-otg.c, used by the host controllers of the OTG port.  Each   *)
(* brings the PHY up by itself, through the same three control bits of     *)
(* USBPMISCR, with sleeps between its register accesses; nothing orders    *)
(* one driver against the other.                                           *)
(*                                                                         *)
(* Outside the repository, modelled from its use here and from dev.md: the *)
(* generic PHY framework (phy_init and phy_power_on count their callers    *)
(* and hold the mutex of one struct phy; each driver has its own) and the  *)
(* PHY hardware, which settles into device or host mode by the ID pin, the *)
(* two sets of clock-stable bits being exclusive.                          *)
(***************************************************************************)
EXTENDS Naturals, FiniteSets

CONSTANT Hosts   \* host controllers with phys = <&usb_hphy0>: ehci0 and ohci0

ASSUME HostsAssumption == IsFiniteSet(Hosts)

VARIABLES
    id,          \* PWRONOTP.USBP0ID: the role the cable gives the port
    por,         \* USBPMISCR.PHY0POR
    suspend,     \* USBPMISCR.PHY0SUSPEND, TRUE = operational
    stable,      \* which clock-stable bits are set: "none", "device", "host"
    cur_role,    \* ma35_otg_phy.cur_role
    gpc,         \* dwc2 in __dwc2_lowlevel_hw_enable / ma35_usb_phy_power_on
    gclk,        \* enable count of the gadget PHY clock
    dclk,        \* enable count of the dwc2 clock
    hpc,         \* each host controller, in phy_init / ma35_otg_phy_init
    init_count,  \* of the host struct phy
    power_count, \* of the host struct phy
    hclk         \* enable count of the host PHY clock

phyVars == <<id, por, suspend, stable>>
gadgetVars == <<gpc, gclk, dclk>>
hostVars == <<hpc, init_count, power_count, hclk>>
vars == <<phyVars, cur_role, gadgetVars, hostVars>>

Roles == {"none", "host", "device"}

(* USBPMISCR_PHY_HOST_READY and the DEVCKSTB test of the gadget driver *)
HostReady == suspend /\ stable = "host"
DeviceClock == stable = "device"

Init ==
    /\ id \in {"device", "host"}
    /\ suspend \in BOOLEAN    \* the boot loader may have used the PHY
    /\ por = FALSE
    /\ stable = IF suspend THEN id ELSE "none"
    /\ cur_role = id
    /\ gpc = "off" /\ gclk = 0 /\ dclk = 0
    /\ hpc = [h \in Hosts |-> "off"]
    /\ init_count = 0 /\ power_count = 0 /\ hclk = 0

-----------------------------------------------------------------------------
(* The PHY hardware *)

Settle ==
    /\ ~por /\ suspend /\ stable = "none"
    /\ stable' = id
    /\ UNCHANGED <<id, por, suspend, cur_role, gadgetVars, hostVars>>

IdChange ==
    /\ id' = IF id = "host" THEN "device" ELSE "host"
    /\ stable' = "none"
    /\ UNCHANGED <<por, suspend, cur_role, gadgetVars, hostVars>>

(* regmap_update_bits of the control bits: both drivers write POR|SUSPEND, *)
(* then SUSPEND alone.  Reset stops the clocks.                            *)
AssertPor ==
    /\ por' = TRUE /\ suspend' = TRUE /\ stable' = "none"
    /\ UNCHANGED id

DeassertPor ==
    /\ por' = FALSE /\ suspend' = TRUE
    /\ UNCHANGED <<id, stable>>

-----------------------------------------------------------------------------
(* dwc2 and its PHY driver.  dwc2 calls from its probe, udc_start and      *)
(* resume, one at a time.                                                  *)

(* ma35_usb_phy_power_on enables the PHY clock, ma35_usb_phy_power_off     *)
(* disables it and leaves the registers alone.                             *)
PhyClockOn == gclk' = gclk + 1
ma35_usb_phy_power_off == gclk' = gclk - 1

(* dwc2 clock, phy_init (no hook), then ma35_usb_phy_power_on up to the    *)
(* first read; a clock that cannot be enabled undoes what was done.        *)
GadgetStart ==
    /\ gpc = "off"
    /\ \/ gpc' = "check" /\ PhyClockOn /\ dclk' = dclk + 1
       \/ UNCHANGED gadgetVars
    /\ UNCHANGED <<phyVars, cur_role, hostVars>>

(* Already operational: wait for the device clock before deciding. *)
GadgetCheck ==
    /\ gpc = "check"
    /\ gpc' = IF suspend THEN "poll" ELSE "assert"
    /\ UNCHANGED <<phyVars, cur_role, gclk, dclk, hostVars>>

GadgetPoll ==
    /\ gpc = "poll"
    /\ gpc' = IF DeviceClock THEN "on" ELSE "assert"
    /\ UNCHANGED <<phyVars, cur_role, gclk, dclk, hostVars>>

GadgetAssert ==
    /\ gpc = "assert"
    /\ AssertPor
    /\ gpc' = "por"
    /\ UNCHANGED <<cur_role, gclk, dclk, hostVars>>

GadgetDeassert ==
    /\ gpc = "por"
    /\ DeassertPor
    /\ gpc' = "settle"
    /\ UNCHANGED <<cur_role, gclk, dclk, hostVars>>

(* mutant: the timeout path keeps the PHY clock *)
MutGadgetSettle ==
    /\ gpc = "settle"
    /\ \/ DeviceClock /\ gpc' = "on" /\ UNCHANGED <<gclk, dclk>>
       \/ ~DeviceClock /\ gpc' = "off" /\ gclk' = gclk /\ dclk' = dclk - 1
    /\ UNCHANGED <<phyVars, cur_role, hostVars>>

(* mutant: the last poll has no timeout *)
MutGadgetForever ==
    /\ gpc = "settle" /\ DeviceClock
    /\ gpc' = "on"
    /\ UNCHANGED <<phyVars, cur_role, gclk, dclk, hostVars>>

(* The last poll; on timeout the PHY driver gives its clock back and dwc2  *)
(* its own.                                                                *)
GadgetSettle ==
    /\ gpc = "settle"
    /\ \/ DeviceClock /\ gpc' = "on" /\ UNCHANGED <<gclk, dclk>>
       \/ ~DeviceClock /\ gpc' = "off" /\ gclk' = gclk - 1 /\ dclk' = dclk - 1
    /\ UNCHANGED <<phyVars, cur_role, hostVars>>

(* __dwc2_lowlevel_hw_disable, from udc_stop, suspend and the end of probe *)
GadgetStop ==
    /\ gpc = "on"
    /\ gpc' = "off" /\ ma35_usb_phy_power_off /\ dclk' = dclk - 1
    /\ UNCHANGED <<phyVars, cur_role, hostVars>>

Gadget ==
    \/ GadgetCheck \/ GadgetPoll \/ GadgetAssert \/ GadgetDeassert \/ GadgetSettle

-----------------------------------------------------------------------------
(* The host controllers and their PHY driver *)

(* the mutex of the host struct phy, held across the init hook *)
PhyMutexFree == \A h \in Hosts : hpc[h] \notin {"assert", "por", "settle"}

(* phy_init: the first caller runs ma35_otg_phy_init, which returns at     *)
(* once if the PHY is ready for host mode.                                 *)
HostInit(h) ==
    /\ hpc[h] = "off" /\ PhyMutexFree
    /\ IF init_count > 0 \/ HostReady
       THEN hpc' = [hpc EXCEPT ![h] = "inited"] /\ init_count' = init_count + 1
       ELSE hpc' = [hpc EXCEPT ![h] = "assert"] /\ UNCHANGED init_count
    /\ UNCHANGED <<phyVars, cur_role, gadgetVars, power_count, hclk>>

HostAssert(h) ==
    /\ hpc[h] = "assert"
    /\ AssertPor
    /\ hpc' = [hpc EXCEPT ![h] = "por"]
    /\ UNCHANGED <<cur_role, gadgetVars, init_count, power_count, hclk>>

(* mutant: the reset is left asserted when the sleep is over *)
MutHostDeassert(h) ==
    /\ hpc[h] = "por"
    /\ hpc' = [hpc EXCEPT ![h] = "settle"]
    /\ UNCHANGED <<phyVars, cur_role, gadgetVars, init_count, power_count, hclk>>

HostDeassert(h) ==
    /\ hpc[h] = "por"
    /\ DeassertPor
    /\ hpc' = [hpc EXCEPT ![h] = "settle"]
    /\ UNCHANGED <<cur_role, gadgetVars, init_count, power_count, hclk>>

(* The poll for host mode: ready, or timed out and phy_init fails. *)
HostSettle(h) ==
    /\ hpc[h] = "settle"
    /\ \/ /\ HostReady
          /\ hpc' = [hpc EXCEPT ![h] = "inited"]
          /\ init_count' = init_count + 1
       \/ /\ ~HostReady
          /\ hpc' = [hpc EXCEPT ![h] = "off"]
          /\ UNCHANGED init_count
    /\ UNCHANGED <<phyVars, cur_role, gadgetVars, power_count, hclk>>

(* phy_power_on: the first caller enables the clock.  If that fails the    *)
(* USB core calls phy_exit.                                                *)
HostPowerOn(h) ==
    /\ hpc[h] = "inited" /\ PhyMutexFree
    /\ \/ /\ power_count' = power_count + 1
          /\ hclk' = IF power_count = 0 THEN hclk + 1 ELSE hclk
          /\ hpc' = [hpc EXCEPT ![h] = "on"]
       \/ /\ power_count = 0
          /\ hpc' = [hpc EXCEPT ![h] = "exit"]
          /\ UNCHANGED <<power_count, hclk>>
    /\ UNCHANGED <<phyVars, cur_role, gadgetVars, init_count>>

(* the controller is removed: phy_power_off, then phy_exit *)
HostPowerOff(h) ==
    /\ hpc[h] = "on" /\ PhyMutexFree
    /\ power_count' = power_count - 1
    /\ hclk' = IF power_count = 1 THEN hclk - 1 ELSE hclk
    /\ hpc' = [hpc EXCEPT ![h] = "exit"]
    /\ UNCHANGED <<phyVars, cur_role, gadgetVars, init_count>>

HostExit(h) ==
    /\ hpc[h] = "exit" /\ PhyMutexFree
    /\ init_count' = init_count - 1
    /\ hpc' = [hpc EXCEPT ![h] = "off"]
    /\ UNCHANGED <<phyVars, cur_role, gadgetVars, power_count, hclk>>

Host(h) ==
    HostAssert(h) \/ HostDeassert(h) \/ HostSettle(h) \/ HostPowerOn(h) \/ HostExit(h)

-----------------------------------------------------------------------------
(* The role switch in sysfs; get() reads the ID pin *)

ma35_otg_role_sw_set(role) ==
    /\ cur_role' = role
    /\ UNCHANGED <<phyVars, gadgetVars, hostVars>>

-----------------------------------------------------------------------------
Next ==
    \/ Settle \/ IdChange
    \/ GadgetStart \/ Gadget \/ GadgetStop
    \/ \E h \in Hosts : HostInit(h) \/ Host(h) \/ HostPowerOff(h)
    \/ \E role \in Roles : ma35_otg_role_sw_set(role)

Spec == Init /\ [][Next]_vars

(* A driver call that has begun goes on: sleeps end and polls time out. *)
FairSpec == Spec /\ WF_vars(Gadget) /\ \A h \in Hosts : WF_vars(Host(h))

-----------------------------------------------------------------------------
(* The types of the registers, counters and program positions. *)
TypeOK ==
    /\ id \in {"device", "host"} /\ stable \in {"none", "device", "host"}
    /\ por \in BOOLEAN /\ suspend \in BOOLEAN
    /\ cur_role \in Roles
    /\ gpc \in {"off", "check", "poll", "assert", "por", "settle", "on"}
    /\ hpc \in [Hosts -> {"off", "assert", "por", "settle", "inited", "on", "exit"}]
    /\ gclk \in Nat /\ dclk \in Nat /\ hclk \in Nat
    /\ init_count \in Nat /\ power_count \in Nat

(* Reset is asserted only while a driver is inside its reset pulse: no     *)
(* interleaving of the two unsynchronised sequences, timeouts included,    *)
(* leaves the PHY held in reset.                                           *)
NotStuckInReset == por => gpc = "por" \/ \E h \in Hosts : hpc[h] = "por"

(* Every clock is enabled exactly as often as somebody uses it, also after *)
(* a timeout half way up: the dwc2 and gadget PHY clocks from start to     *)
(* stop, the host PHY clock while any host controller is powered.          *)
ClockBalance ==
    /\ gclk = IF gpc = "off" THEN 0 ELSE 1
    /\ dclk = gclk
    /\ power_count = Cardinality({h \in Hosts : hpc[h] = "on"})
    /\ hclk = IF power_count = 0 THEN 0 ELSE 1
    /\ init_count = Cardinality({h \in Hosts : hpc[h] \in {"inited", "on", "exit"}})

(* Bringing the PHY up always comes to an end, whatever the cable and the  *)
(* other driver do meanwhile: success or a timeout.                        *)
BringUpEnds ==
    /\ (gpc = "check") ~> (gpc \in {"on", "off"})
    /\ \A h \in Hosts : (hpc[h] = "assert") ~> (hpc[h] \in {"inited", "off"})

(* phy-ma35d1-otg.c and dev.md promise that the readiness test of          *)
(* ma35_otg_phy_init spares PHY0 the reset once the gadget controller      *)
(* brought it up.                                                          *)
GadgetNotReset ==
    [][ \A h \in Hosts : (gpc = "on" /\ suspend /\ DeviceClock)
            => ~(hpc[h] = "off" /\ hpc'[h] = "assert") ]_vars
=============================================================================
