------------------------- MODULE Ma35UsbPhyProofs -------------------------
(***************************************************************************)
(* Proofs about Ma35UsbPhy for any finite set of host controllers.  The    *)
(* balance of the clocks needs to know who can be inside the init hook:    *)
(* one host at a time, and only while nobody has the PHY initialised.      *)
(***************************************************************************)
EXTENDS Ma35UsbPhy, FiniteSetTheorems, TLAPS

Powered == {h \in Hosts : hpc[h] = "on"}
Inited == {h \in Hosts : hpc[h] \in {"inited", "on", "exit"}}
InHook(h) == hpc[h] \in {"assert", "por", "settle"}

(* The init hook of the host PHY runs for one host controller at a time,    *)
(* and only while no host controller has the PHY: the mutex and the         *)
(* init_count of the PHY framework together.                                *)
OneInHook ==
    \A h \in Hosts : InHook(h) => Inited = {} /\ \A k \in Hosts : InHook(k) => k = h

IInv == TypeOK /\ NotStuckInReset /\ ClockBalance /\ OneInHook

-----------------------------------------------------------------------------
(* Counting host controllers is counting finite sets. *)
LEMMA HostCounts ==
    /\ IsFiniteSet(Powered) /\ Cardinality(Powered) \in Nat
    /\ IsFiniteSet(Inited) /\ Cardinality(Inited) \in Nat
    /\ Cardinality(Powered) = 0 <=> Powered = {}
    /\ Cardinality(Inited) = 0 <=> Inited = {}
<1>1. Powered \in SUBSET Hosts /\ Inited \in SUBSET Hosts
  BY DEF Powered, Inited
<1>2. IsFiniteSet(Powered) /\ IsFiniteSet(Inited)
  BY <1>1, HostsAssumption, FS_Subset
<1> QED
  BY <1>2, FS_CardinalityType, FS_EmptySet

(* Both sets of hosts, and the hook, when one host moves and the others     *)
(* stay where they are.                                                     *)
LEMMA HostMoves ==
    ASSUME TypeOK, NEW h \in Hosts,
           NEW pc \in {"off", "assert", "por", "settle", "inited", "on", "exit"},
           hpc' = [hpc EXCEPT ![h] = pc]
    PROVE  /\ pc = "on" => Powered' = Powered \cup {h}
           /\ pc # "on" => Powered' = Powered \ {h}
           /\ pc # "on" /\ h \notin Powered => Powered' = Powered
           /\ pc \in {"inited", "on", "exit"} => Inited' = Inited \cup {h}
           /\ pc \notin {"inited", "on", "exit"} => Inited' = Inited \ {h}
           /\ (pc \in {"inited", "on", "exit"} <=> h \in Inited) => Inited' = Inited
           /\ hpc' \in [Hosts -> {"off", "assert", "por", "settle", "inited", "on", "exit"}]
           /\ hpc'[h] = pc /\ \A k \in Hosts \ {h} : hpc'[k] = hpc[k]
BY DEF TypeOK, Powered, Inited

(* Steps of the hardware, of dwc2 and of the role switch leave the hosts    *)
(* and their counters alone.                                                *)
LEMMA HostsUntouched ==
    ASSUME IInv, UNCHANGED hostVars
    PROVE  /\ OneInHook'
           /\ power_count' = Cardinality({h \in Hosts : hpc[h] = "on"})'
           /\ hclk' = IF power_count' = 0 THEN 0 ELSE 1
           /\ init_count' = Cardinality({h \in Hosts : hpc[h] \in {"inited", "on", "exit"}})'
           /\ hpc' \in [Hosts -> {"off", "assert", "por", "settle", "inited", "on", "exit"}]
           /\ hclk' \in Nat /\ init_count' \in Nat /\ power_count' \in Nat
<1>1. hpc' = hpc /\ hclk' = hclk /\ init_count' = init_count /\ power_count' = power_count
  BY DEF hostVars
<1>2. OneInHook'
  BY <1>1 DEF IInv, OneInHook, InHook, Inited
<1> QED
  BY <1>1, <1>2 DEF IInv, TypeOK, ClockBalance

-----------------------------------------------------------------------------
LEMMA InitIInv == Init => IInv
<1> SUFFICES ASSUME Init PROVE IInv
  OBVIOUS
<1>1. TypeOK
  BY DEF Init, TypeOK, Roles
<1>2. Powered = {} /\ Inited = {}
  BY DEF Init, Powered, Inited
<1>3. ClockBalance
  BY <1>2, FS_EmptySet DEF Init, ClockBalance, Powered, Inited
<1>4. OneInHook
  BY DEF Init, OneInHook, InHook
<1>5. NotStuckInReset
  BY DEF Init, NotStuckInReset
<1> QED
  BY <1>1, <1>3, <1>4, <1>5 DEF IInv

(* The hardware and the role switch *)
LEMMA OutsideStep ==
    ASSUME IInv, Settle \/ IdChange \/ \E role \in Roles : ma35_otg_role_sw_set(role)
    PROVE  IInv'
<1>1. UNCHANGED hostVars /\ UNCHANGED gadgetVars /\ por' = por /\ suspend' = suspend
  BY DEF Settle, IdChange, ma35_otg_role_sw_set, phyVars
<1>2. TypeOK'
  BY <1>1, HostsUntouched DEF IInv, TypeOK, Settle, IdChange, ma35_otg_role_sw_set, phyVars,
                              gadgetVars
<1>3. NotStuckInReset'
  BY <1>1 DEF IInv, NotStuckInReset, gadgetVars, hostVars
<1> QED
  BY <1>1, <1>2, <1>3, HostsUntouched DEF IInv, ClockBalance, gadgetVars

(* dwc2 *)
LEMMA GadgetStep ==
    ASSUME IInv, GadgetStart \/ Gadget \/ GadgetStop
    PROVE  IInv'
<1> USE DEF GadgetStart, Gadget, GadgetCheck, GadgetPoll, GadgetAssert, GadgetDeassert,
            GadgetSettle, GadgetStop, AssertPor, DeassertPor, PhyClockOn,
            ma35_usb_phy_power_off, phyVars, gadgetVars
<1>1. UNCHANGED hostVars
  OBVIOUS
<1>2. /\ gclk' = IF gpc' = "off" THEN 0 ELSE 1
      /\ dclk' = gclk'
  BY DEF IInv, ClockBalance
<1>3. TypeOK'
  <2>1. gclk' \in Nat /\ dclk' \in Nat
    BY <1>2
  <2> QED
    BY <1>1, <2>1, HostsUntouched DEF IInv, TypeOK
<1>4. NotStuckInReset'
  BY <1>1 DEF IInv, NotStuckInReset, hostVars
<1> QED
  BY <1>1, <1>2, <1>3, <1>4, HostsUntouched DEF IInv, ClockBalance

(* What a step of one host has to show: the new position of the host, what  *)
(* becomes of the reset bit, and counters that follow the two sets.         *)
LEMMA HostStep ==
    ASSUME IInv, NEW h \in Hosts,
           NEW pc \in {"off", "assert", "por", "settle", "inited", "on", "exit"},
           hpc' = [hpc EXCEPT ![h] = pc],
           UNCHANGED <<cur_role, gadgetVars>>, id' = id,
           por' \in BOOLEAN, suspend' \in BOOLEAN, stable' \in {"none", "device", "host"},
           \/ por' = por /\ hpc[h] # "por"
           \/ por' = TRUE /\ pc = "por"
           \/ por' = FALSE,
           power_count' = Cardinality(Powered)', init_count' = Cardinality(Inited)',
           hclk' = IF power_count' = 0 THEN 0 ELSE 1,
           pc \in {"assert", "por", "settle"} => Inited' = {},
           pc \in {"inited", "on", "exit"} => \A k \in Hosts \ {h} : ~InHook(k),
           pc \in {"assert", "por", "settle"} => \A k \in Hosts \ {h} : ~InHook(k)
    PROVE  IInv'
<1> DEFINE PCs == {"off", "assert", "por", "settle", "inited", "on", "exit"}
<1>0. TypeOK
  BY DEF IInv
<1>1. /\ hpc' \in [Hosts -> PCs]
      /\ hpc'[h] = pc /\ \A k \in Hosts \ {h} : hpc'[k] = hpc[k]
      /\ pc = "off" => Inited' = Inited \ {h}
  BY <1>0, HostMoves
<1>2. power_count' \in Nat /\ init_count' \in Nat /\ hclk' \in Nat
  <2>1. Cardinality(Powered)' \in Nat /\ Cardinality(Inited)' \in Nat
    <3>1. Powered' \in SUBSET Hosts /\ Inited' \in SUBSET Hosts
      BY DEF Powered, Inited
    <3> QED
      BY <3>1, HostsAssumption, FS_Subset, FS_CardinalityType
  <2> QED
    BY <2>1
<1>3. TypeOK'
  BY <1>0, <1>1, <1>2 DEF TypeOK, gadgetVars
<1>4. NotStuckInReset'
  BY <1>1 DEF IInv, NotStuckInReset, gadgetVars
<1>5. ClockBalance'
  BY DEF IInv, ClockBalance, gadgetVars, Powered, Inited
<1>6. OneInHook'
  BY <1>1 DEF IInv, OneInHook, InHook
<1> QED
  BY <1>3, <1>4, <1>5, <1>6 DEF IInv

(* phy_init, up to the hook or past it *)
LEMMA HostInitStep ==
    ASSUME IInv, NEW h \in Hosts, HostInit(h)
    PROVE  IInv'
<1>0. TypeOK /\ hpc[h] = "off" /\ \A k \in Hosts : ~InHook(k)
  BY DEF IInv, HostInit, PhyMutexFree, InHook
<1>1. UNCHANGED <<phyVars, cur_role, gadgetVars, power_count, hclk>>
  BY DEF HostInit
<1>2. init_count = Cardinality(Inited) /\ power_count = Cardinality(Powered)
  BY DEF IInv, ClockBalance, Powered, Inited
<1>3. h \notin Powered /\ h \notin Inited
  BY <1>0 DEF Powered, Inited
<1>4. CASE init_count > 0 \/ HostReady
  <2>1. hpc' = [hpc EXCEPT ![h] = "inited"] /\ init_count' = init_count + 1
    BY <1>4 DEF HostInit
  <2>2. Powered' = Powered /\ Inited' = Inited \cup {h}
    BY <1>0, <1>3, <2>1, HostMoves
  <2>3. Cardinality(Inited)' = Cardinality(Inited) + 1
    BY <1>3, <2>2, HostCounts, FS_AddElement
  <2> QED
    BY <1>0, <1>1, <1>2, <2>1, <2>2, <2>3, HostStep DEF IInv, ClockBalance, TypeOK, phyVars
<1>5. CASE ~(init_count > 0 \/ HostReady)
  <2>1. hpc' = [hpc EXCEPT ![h] = "assert"] /\ init_count' = init_count
    BY <1>5 DEF HostInit
  <2>2. Powered' = Powered /\ Inited' = Inited
    BY <1>0, <1>3, <2>1, HostMoves
  <2>3. Inited = {}
    BY <1>2, <1>5, HostCounts
  <2> QED
    BY <1>0, <1>1, <1>2, <2>1, <2>2, <2>3, HostStep DEF IInv, ClockBalance, TypeOK, phyVars
<1> QED
  BY <1>4, <1>5

(* Inside the hook: the reset pulse and the poll *)
LEMMA HostHookStep ==
    ASSUME IInv, NEW h \in Hosts, HostAssert(h) \/ HostDeassert(h) \/ HostSettle(h)
    PROVE  IInv'
<1>0. TypeOK /\ InHook(h)
  BY DEF IInv, HostAssert, HostDeassert, HostSettle, InHook
<1>1. Inited = {} /\ \A k \in Hosts \ {h} : ~InHook(k)
  BY <1>0 DEF IInv, OneInHook
<1>2. /\ init_count = Cardinality(Inited) /\ power_count = Cardinality(Powered)
      /\ hclk = IF power_count = 0 THEN 0 ELSE 1
  BY DEF IInv, ClockBalance, Powered, Inited
<1>3. h \notin Powered /\ h \notin Inited
  BY <1>0 DEF Powered, Inited, InHook
<1>4. CASE HostAssert(h) \/ HostDeassert(h)
  <2>1. PICK pc \in {"por", "settle"} :
             /\ hpc' = [hpc EXCEPT ![h] = pc]
             /\ \/ pc = "por" /\ AssertPor
                \/ pc = "settle" /\ DeassertPor
    BY <1>4 DEF HostAssert, HostDeassert
  <2>2. UNCHANGED <<cur_role, gadgetVars, init_count, power_count, hclk>>
    BY <1>4 DEF HostAssert, HostDeassert
  <2>3. Powered' = Powered /\ Inited' = Inited
    BY <1>0, <1>3, <2>1, HostMoves
  <2>4. /\ id' = id /\ por' \in BOOLEAN /\ suspend' \in BOOLEAN
        /\ stable' \in {"none", "device", "host"}
        /\ (por' = TRUE /\ pc = "por") \/ por' = FALSE
    BY <1>0, <2>1 DEF AssertPor, DeassertPor, TypeOK
  <2> QED
    BY <1>1, <1>2, <2>1, <2>2, <2>3, <2>4, HostStep
<1>5. CASE HostSettle(h)
  <2>1. UNCHANGED <<phyVars, cur_role, gadgetVars, power_count, hclk>> /\ hpc[h] # "por"
    BY <1>5 DEF HostSettle
  <2>2. CASE HostReady
    <3>1. hpc' = [hpc EXCEPT ![h] = "inited"] /\ init_count' = init_count + 1
      BY <1>5, <2>2 DEF HostSettle
    <3>2. Powered' = Powered /\ Inited' = Inited \cup {h}
      BY <1>0, <1>3, <3>1, HostMoves
    <3>3. Cardinality(Inited)' = Cardinality(Inited) + 1
      BY <1>3, <3>2, HostCounts, FS_AddElement
    <3> QED
      BY <1>0, <1>1, <1>2, <2>1, <3>1, <3>2, <3>3, HostStep DEF TypeOK, phyVars
  <2>3. CASE ~HostReady
    <3>1. hpc' = [hpc EXCEPT ![h] = "off"] /\ init_count' = init_count
      BY <1>5, <2>3 DEF HostSettle
    <3>2. Powered' = Powered /\ Inited' = Inited
      BY <1>0, <1>3, <3>1, HostMoves
    <3> QED
      BY <1>0, <1>1, <1>2, <2>1, <3>1, <3>2, HostStep DEF TypeOK, phyVars
  <2> QED
    BY <2>2, <2>3
<1> QED
  BY <1>4, <1>5

(* phy_power_on, phy_power_off and phy_exit *)
LEMMA HostPowerStep ==
    ASSUME IInv, NEW h \in Hosts, HostPowerOn(h) \/ HostPowerOff(h) \/ HostExit(h)
    PROVE  IInv'
<1>0. /\ TypeOK /\ \A k \in Hosts : ~InHook(k)
      /\ hpc[h] \in {"inited", "on", "exit"}
      /\ UNCHANGED <<phyVars, cur_role, gadgetVars>>
  BY DEF IInv, HostPowerOn, HostPowerOff, HostExit, PhyMutexFree, InHook
<1>1. /\ init_count = Cardinality(Inited) /\ power_count = Cardinality(Powered)
      /\ hclk = IF power_count = 0 THEN 0 ELSE 1
  BY DEF IInv, ClockBalance, Powered, Inited
<1>2. h \in Inited
  BY <1>0 DEF Inited
<1>3. CASE HostPowerOn(h) /\ power_count' = power_count + 1
  <2>1. /\ hpc[h] = "inited" /\ hpc' = [hpc EXCEPT ![h] = "on"]
        /\ hclk' = IF power_count = 0 THEN hclk + 1 ELSE hclk
        /\ init_count' = init_count
    BY <1>1, <1>3, HostCounts DEF HostPowerOn
  <2>2. Powered' = Powered \cup {h} /\ Inited' = Inited /\ h \notin Powered
    BY <1>0, <1>2, <2>1, HostMoves DEF Powered
  <2>3. Cardinality(Powered)' = Cardinality(Powered) + 1
    BY <2>2, HostCounts, FS_AddElement
  <2>4. hclk' = IF power_count' = 0 THEN 0 ELSE 1
    BY <1>1, <1>3, <2>1, HostCounts
  <2> QED
    BY <1>0, <1>1, <1>3, <2>1, <2>2, <2>3, <2>4, HostStep DEF TypeOK, phyVars
<1>4. CASE HostPowerOn(h) /\ power_count' # power_count + 1
  <2>1. /\ hpc[h] = "inited" /\ hpc' = [hpc EXCEPT ![h] = "exit"]
        /\ hclk' = hclk /\ power_count' = power_count /\ init_count' = init_count
    BY <1>4 DEF HostPowerOn
  <2>2. Powered' = Powered /\ Inited' = Inited
    BY <1>0, <1>2, <2>1, HostMoves DEF Powered
  <2> QED
    BY <1>0, <1>1, <2>1, <2>2, HostStep DEF TypeOK, phyVars
<1>5. CASE HostPowerOff(h)
  <2>1. /\ hpc[h] = "on" /\ hpc' = [hpc EXCEPT ![h] = "exit"]
        /\ power_count' = power_count - 1
        /\ hclk' = IF power_count = 1 THEN hclk - 1 ELSE hclk
        /\ init_count' = init_count
    BY <1>5 DEF HostPowerOff
  <2>2. Powered' = Powered \ {h} /\ Inited' = Inited /\ h \in Powered
    BY <1>0, <1>2, <2>1, HostMoves DEF Powered
  <2>3. Cardinality(Powered)' = Cardinality(Powered) - 1 /\ Cardinality(Powered) # 0
    BY <2>2, HostCounts, FS_RemoveElement
  <2>4. hclk' = IF power_count' = 0 THEN 0 ELSE 1
    BY <1>1, <2>1, <2>3, HostCounts
  <2> QED
    BY <1>0, <1>1, <2>1, <2>2, <2>3, <2>4, HostStep DEF TypeOK, phyVars
<1>6. CASE HostExit(h)
  <2>1. /\ hpc[h] = "exit" /\ hpc' = [hpc EXCEPT ![h] = "off"]
        /\ init_count' = init_count - 1 /\ power_count' = power_count /\ hclk' = hclk
    BY <1>6 DEF HostExit
  <2>2. Powered' = Powered /\ Inited' = Inited \ {h}
    BY <1>0, <1>2, <2>1, HostMoves DEF Powered
  <2>3. Cardinality(Inited)' = Cardinality(Inited) - 1
    BY <1>2, <2>2, HostCounts, FS_RemoveElement
  <2> QED
    BY <1>0, <1>1, <2>1, <2>2, <2>3, HostStep DEF TypeOK, phyVars
<1> QED
  BY <1>3, <1>4, <1>5, <1>6

LEMMA NextIInv == IInv /\ [Next]_vars => IInv'
<1> SUFFICES ASSUME IInv, [Next]_vars PROVE IInv'
  OBVIOUS
<1>1. CASE UNCHANGED vars
  <2>1. UNCHANGED hostVars /\ UNCHANGED <<phyVars, cur_role, gadgetVars>>
    BY <1>1 DEF vars
  <2>2. TypeOK' /\ NotStuckInReset' /\ ClockBalance'
    BY <2>1 DEF IInv, TypeOK, NotStuckInReset, ClockBalance, phyVars, gadgetVars, hostVars
  <2> QED
    BY <2>1, <2>2, HostsUntouched DEF IInv
<1> QED
  BY <1>1, OutsideStep, GadgetStep, HostInitStep, HostHookStep, HostPowerStep DEF Next, Host

-----------------------------------------------------------------------------
(* The inductive invariant holds throughout. *)
THEOREM PhyInvariance == Spec => []IInv
BY InitIInv, NextIInv, PTL DEF Spec

(* The registers, counters and program positions keep their types: no       *)
(* enable count or user count of the PHY framework ever becomes negative.   *)
THEOREM PhyTypeCorrect == Spec => []TypeOK
<1>1. IInv => TypeOK
  BY DEF IInv
<1> QED
  BY <1>1, PhyInvariance, PTL

(* No interleaving of the two unsynchronised bring-up sequences leaves the  *)
(* PHY in reset, with any number of host controllers.                       *)
THEOREM ResetEnds == Spec => []NotStuckInReset
<1>1. IInv => NotStuckInReset
  BY DEF IInv
<1> QED
  BY <1>1, PhyInvariance, PTL

(* Clocks and user counts are balanced on every path through probe, failed  *)
(* bring-up, removal and suspend, with any number of host controllers.      *)
THEOREM ClocksBalance == Spec => []ClockBalance
<1>1. IInv => ClockBalance
  BY DEF IInv
<1> QED
  BY <1>1, PhyInvariance, PTL
=============================================================================
