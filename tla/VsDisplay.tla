----------------------------- MODULE VsDisplay -----------------------------
(***************************************************************************)
(* One output of the Verisilicon display controller (drm/verisilicon)      *)
(* driven by the atomic commit helpers (drm_atomic_helper.c): the CRTC,    *)
(* its bridge and its primary plane.  The actors are user space (or the    *)
(* shutdown path) submitting commits, the thread or worker in the tail of  *)
(* a commit, the older commits that still wait for their vblank before     *)
(* they clean up, the scan-out hardware, and the interrupt handler.        *)
(*                                                                         *)
(* drm_atomic_helper_swap_state waits for hw_done of the previous commit,  *)
(* so one commit at a time is between swap and hw_done: "com".  Those past *)
(* hw_done are in "trail", in commit order, until cleanup_done.            *)
(*                                                                         *)
(* The vblank count is only ever compared with samples of itself, so it is *)
(* shifted down (Rebase) when the oldest sample is dropped.                *)
(***************************************************************************)
EXTENDS DrmVblankCore, Sequences, SequencesExt

CONSTANTS
    FBs,        \* framebuffers
    Modes,      \* display modes; a mode stands for its pixel clock rate too
    None,       \* no framebuffer (hence no crtc) on the plane; no mode
    Gen,        \* "dc8200" or "dc8000": which vs_dc_funcs the chip has
    Invisible,  \* may a plane be attached where none of it is visible
    MaxCount    \* bound: no interrupt is raised once the count is here

ASSUME VsDisplayAssumption ==
    /\ None \notin FBs \cup Modes
    /\ Gen \in {"dc8200", "dc8000"}
    /\ Invisible \in BOOLEAN
    /\ MaxCount \in Nat
    /\ HwCounter = FALSE   \* vs_crtc_funcs has no get_vblank_counter

VARIABLES
    vb,     \* struct drm_vblank_crtc
    st,     \* crtc->state and primary->state: what was last swapped in
    com,    \* the commit in its tail
    dep,    \* flip_done of the commit before com
    flip,   \* flip_done of the latest commit
    pend,   \* the armed page-flip event: its sequence, 0 if none, and its fb
    trail,  \* commits after hw_done and before cleanup_done
    hw,     \* registers, pixel clock and scan-out
    irq     \* the vsync bit of the interrupt status register

vars == <<vb, st, com, dep, flip, pend, trail, hw, irq>>

States == [active: BOOLEAN, mode: Modes \cup {None}, fb: FBs \cup {None}, vis: BOOLEAN]
OffState == [active |-> FALSE, mode |-> None, fb |-> None, vis |-> FALSE]
NoEvent == [seq |-> 0, fb |-> None]
Idle == [pc |-> "idle", old |-> OffState, conn |-> FALSE, event |-> FALSE, legacy |-> FALSE]

DC8200 == Gen = "dc8200"

(* The output is being scanned out. *)
Scanning == hw.clk /\ IF DC8200 THEN hw.running ELSE hw.reset /\ hw.en

Init ==
    /\ \E immediate \in Immediate : vb = drm_crtc_vblank_reset(immediate)
    /\ st = OffState
    /\ com = Idle
    /\ dep = TRUE /\ flip = TRUE
    /\ pend = NoEvent
    /\ trail = <<>>
    /\ hw = [clk |-> FALSE, rate |-> None, running |-> FALSE, reset |-> FALSE,
             en |-> FALSE, valid |-> FALSE, addr |-> None, frames |-> 0]
    /\ irq = FALSE

-----------------------------------------------------------------------------
(* struct vs_dc_funcs: what the functions of each generation do to the      *)
(* registers.  The DC8200 has no crtc functions, the DC8000 none for the    *)
(* primary plane.                                                           *)

vs_dc8200_panel_enable_ex(h) == [h EXCEPT !.running = TRUE]
vs_dc8200_panel_disable_ex(h) == [h EXCEPT !.running = FALSE]

(* On the DC8200 enable and disable alike set FB_CONFIG_EX_FB_EN. *)
vs_dc8200_primary_plane_enable_ex(h) == [h EXCEPT !.en = TRUE]
vs_dc8200_primary_plane_disable_ex(h) == [h EXCEPT !.en = TRUE]

vs_dc8000_panel_enable_ex(h) == [h EXCEPT !.reset = TRUE]
vs_dc8000_panel_disable_ex(h) == [h EXCEPT !.reset = FALSE]
vs_dc8000_crtc_enable_ex(h) == [h EXCEPT !.en = TRUE]
vs_dc8000_crtc_disable_ex(h) == [h EXCEPT !.en = FALSE]
vs_dc8000_crtc_begin(h) == [h EXCEPT !.valid = TRUE]

(* mutant: the hold bit is left set *)
MutCrtcFlush(h) == h

vs_dc8000_crtc_flush(h) == [h EXCEPT !.valid = FALSE]

-----------------------------------------------------------------------------
(* The hooks of the driver: what vs_bridge.c, vs_crtc.c and                 *)
(* vs_primary_plane.c make of those functions.                              *)

vs_bridge_atomic_disable(h) ==
    IF DC8200 THEN vs_dc8200_panel_disable_ex(h) ELSE vs_dc8000_panel_disable_ex(h)

vs_bridge_enable_common(h) ==
    IF DC8200 THEN vs_dc8200_panel_enable_ex(h) ELSE vs_dc8000_panel_enable_ex(h)

(* the pixel clock, then the registers, of vs_crtc_atomic_disable *)
CrtcOff(h) ==
    LET off == [h EXCEPT !.clk = FALSE]
    IN  IF DC8200 THEN off ELSE vs_dc8000_crtc_disable_ex(off)

(* the same of vs_crtc_atomic_enable *)
CrtcOn(h) ==
    LET on == [h EXCEPT !.clk = TRUE]
    IN  IF DC8200 THEN on ELSE vs_dc8000_crtc_enable_ex(on)

(* the timings and the rate of the pixel clock *)
vs_crtc_mode_set_nofb(h, mode) == [h EXCEPT !.rate = mode]

vs_crtc_atomic_begin(h) == IF DC8200 THEN h ELSE vs_dc8000_crtc_begin(h)

vs_primary_plane_atomic_enable(h) ==
    IF DC8200 THEN vs_dc8200_primary_plane_enable_ex(h) ELSE h

vs_primary_plane_atomic_disable(h) ==
    IF DC8200 THEN vs_dc8200_primary_plane_disable_ex(h) ELSE h

(* for a plane that is not visible the function of atomic_disable *)
vs_primary_plane_atomic_update(h, s) ==
    IF s.vis THEN [h EXCEPT !.addr = s.fb, !.frames = 0]
             ELSE vs_primary_plane_atomic_disable(h)

-----------------------------------------------------------------------------
(* Submission: drm_atomic_helper_check and drm_atomic_helper_commit *)

mode_changed(old, new) == old.mode # new.mode

(* mutant: a mode change alone is no modeset *)
MutNeedsModeset(old, new, conn) == old.active # new.active \/ conn

(* drm_atomic_crtc_needs_modeset, with the flags of                        *)
(* drm_atomic_helper_check_modeset: mode_changed, active_changed, and      *)
(* connectors_changed for another route, link status or bpc                *)
needs_modeset(old, new, conn) == mode_changed(old, new) \/ old.active # new.active \/ conn

(* drm_atomic_helper_check_plane_state finds a plane visible only if it has *)
(* a framebuffer and its CRTC a mode.                                       *)
vs_primary_plane_atomic_check(s) ==
    /\ s.vis => s.fb # None /\ s.mode # None
    /\ ~Invisible => (s.vis <=> s.fb # None)

(* What passes the checks: only an enabled CRTC (one with a mode) can be    *)
(* active.                                                                  *)
Acceptable(s) == (s.active => s.mode # None) /\ vs_primary_plane_atomic_check(s)

(* the commits that hold a vblank reference and a sample of the count *)
Waiting(tr) == {k \in DOMAIN tr : tr[k].pc = "wait"}

(* The count moved down by the oldest sample of it that is still in use. *)
Rebase(v, p, tr) ==
    LET used == {v.count} \cup {tr[k].base : k \in Waiting(tr)}
                \cup (IF p.seq = 0 THEN {} ELSE {p.seq - 1})
        low == CHOOSE m \in used : \A n \in used : m <= n
    IN  /\ vb' = [v EXCEPT !.count = @ - low]
        /\ pend' = IF p.seq = 0 THEN p ELSE [p EXCEPT !.seq = @ - low]
        /\ trail' = [k \in DOMAIN tr |-> IF tr[k].pc = "wait"
                                         THEN [tr[k] EXCEPT !.base = @ - low]
                                         ELSE tr[k]]

(* drm_atomic_helper_swap_state: hw_done of the previous commit *)
SwapStall == com.pc = "idle"

(* A nonblocking commit is refused (-EBUSY) while the last commit on the    *)
(* list has not flipped; any commit stalls while two are on the list.       *)
stall_checks(nonblock) == Len(trail) < 2 /\ (nonblock => trail = <<>> \/ flip)

(* A legacy cursor update counts as flipped from the start, as does a       *)
(* commit between inactive states; any other commit gets an event.          *)
setup_commit(new, conn, legacy) ==
    LET event == ~legacy /\ (st.active \/ new.active)
    IN  /\ com' = [pc |-> "dependencies", old |-> st, conn |-> conn, event |-> event,
                   legacy |-> legacy]
        /\ flip' = ~event
        /\ dep' = flip

(* drm_atomic_helper_commit.  A legacy cursor update leaves CRTC and        *)
(* primary plane as they are; only an enabled CRTC has connectors.  "conn"  *)
(* is connectors_changed where it is the only reason for a modeset.         *)
Commit(new, conn, nonblock, legacy) ==
    /\ SwapStall /\ stall_checks(nonblock)
    /\ legacy => new = st /\ ~conn /\ ~nonblock
    /\ conn => st.mode # None /\ ~needs_modeset(st, new, FALSE)
    /\ Acceptable(new)
    /\ setup_commit(new, conn, legacy)
    /\ st' = new
    /\ UNCHANGED <<vb, pend, trail, hw, irq>>

(* drm_atomic_helper_page_flip: refused on an inactive CRTC *)
PageFlip(fb, vis) ==
    /\ st.active
    /\ Commit([st EXCEPT !.fb = fb, !.vis = vis], FALSE, TRUE, FALSE)

(* vs_drm_shutdown_handler and vs_drm_finalize: everything off *)
Shutdown == Commit(OffState, FALSE, FALSE, FALSE)

-----------------------------------------------------------------------------
(* The tail: commit_tail and drm_atomic_helper_commit_tail *)

Step(from, to) == com.pc = from /\ com' = [com EXCEPT !.pc = to]
Modeset == needs_modeset(com.old, st, com.conn)

(* whether the hooks that turn the output off are called; no self refresh *)
crtc_needs_disable == Modeset /\ com.old.active
NeedsEnable == Modeset /\ st.active

(* the flip_done of the commit the pending event belongs to *)
Deliver == IF dep THEN flip' = TRUE /\ dep' = dep
                  ELSE dep' = TRUE /\ flip' = flip

(* mutant: the flip of the previous commit is not waited for *)
MutDependencies ==
    /\ Step("dependencies", "bridge_disable")
    /\ UNCHANGED <<vb, st, dep, flip, pend, trail, hw, irq>>

(* drm_atomic_helper_wait_for_dependencies *)
WaitForDependencies ==
    /\ dep
    /\ Step("dependencies", "bridge_disable")
    /\ UNCHANGED <<vb, st, dep, flip, pend, trail, hw, irq>>

(* drm_atomic_helper_commit_encoder_bridge_disable *)
BridgeDisable ==
    /\ Step("bridge_disable", "crtc_disable")
    /\ hw' = IF crtc_needs_disable THEN vs_bridge_atomic_disable(hw) ELSE hw
    /\ UNCHANGED <<vb, st, dep, flip, pend, trail, irq>>

(* mutant: the clock goes off before drm_crtc_vblank_off *)
MutCrtcDisable ==
    /\ Step("crtc_disable", IF crtc_needs_disable THEN "clk_disable" ELSE "set_mode")
    /\ hw' = IF crtc_needs_disable THEN CrtcOff(hw) ELSE hw
    /\ UNCHANGED <<vb, st, dep, flip, pend, trail, irq>>

(* drm_atomic_helper_commit_crtc_disable: vs_crtc_atomic_disable, whose     *)
(* drm_crtc_vblank_off sends what is still armed                            *)
CrtcDisable ==
    /\ Step("crtc_disable", IF crtc_needs_disable THEN "clk_disable" ELSE "set_mode")
    /\ IF crtc_needs_disable
       THEN /\ vb' = drm_crtc_vblank_off(vb, IF pend.seq = 0 THEN 0 ELSE 1)
            /\ pend' = NoEvent
            /\ IF pend.seq = 0 THEN UNCHANGED <<dep, flip>> ELSE Deliver
       ELSE UNCHANGED <<vb, pend, dep, flip>>
    /\ UNCHANGED <<st, trail, hw, irq>>

(* and then the pixel clock and the registers *)
ClkDisable ==
    /\ Step("clk_disable", "set_mode")
    /\ hw' = CrtcOff(hw)
    /\ UNCHANGED <<vb, st, dep, flip, pend, trail, irq>>

(* drm_atomic_helper_commit_crtc_set_mode *)
SetMode ==
    /\ Step("set_mode", "begin")
    /\ hw' = IF mode_changed(com.old, st) /\ st.mode # None
             THEN vs_crtc_mode_set_nofb(hw, st.mode) ELSE hw
    /\ UNCHANGED <<vb, st, dep, flip, pend, trail, irq>>

(* drm_atomic_helper_commit_planes: atomic_begin *)
CrtcBegin ==
    /\ Step("begin", "plane")
    /\ hw' = vs_crtc_atomic_begin(hw)
    /\ UNCHANGED <<vb, st, dep, flip, pend, trail, irq>>

(* drm_atomic_plane_disabling and drm_atomic_plane_enabling *)
Disabling == com.old.fb # None /\ st.fb = None
Enabling == com.old.fb = None /\ st.fb # None

(* vs_primary_plane_atomic_disable takes the CRTC of the old plane state. *)
NullCrtc == com.old.fb = None /\ st.fb # None /\ ~st.vis

(* mutant: the address is written only when the plane is attached *)
MutPlaneUpdate ==
    /\ Step("plane", "flush")
    /\ hw' = IF Enabling /\ st.vis
             THEN [hw EXCEPT !.addr = st.fb, !.frames = 0, !.en = IF DC8200 THEN TRUE ELSE @]
             ELSE hw
    /\ UNCHANGED <<vb, st, dep, flip, pend, trail, irq>>

(* The primary plane in drm_atomic_helper_commit_planes: atomic_disable, or *)
(* atomic_update and then atomic_enable for a plane that had no CRTC.  A    *)
(* plane that the commit leaves out would be written with what it has.      *)
(* Nothing runs after the NULL dereference: the commit stays where it is.   *)
PlaneUpdate ==
    /\ IF NullCrtc
       THEN Step("plane", "oops") /\ hw' = hw
       ELSE /\ Step("plane", "flush")
            /\ LET updated == vs_primary_plane_atomic_update(hw, st)
               IN  hw' = CASE Disabling -> vs_primary_plane_atomic_disable(hw)
                           [] Enabling -> vs_primary_plane_atomic_enable(updated)
                           [] ~Disabling /\ ~Enabling /\ st.fb # None -> updated
                           [] OTHER -> hw
    /\ UNCHANGED <<vb, st, dep, flip, pend, trail, irq>>

(* vs_crtc_atomic_flush: crtc_flush *)
CrtcFlush ==
    /\ Step("flush", "arm")
    /\ hw' = IF DC8200 THEN hw ELSE vs_dc8000_crtc_flush(hw)
    /\ UNCHANGED <<vb, st, dep, flip, pend, trail, irq>>

(* mutant: an event that cannot be armed is left to the vblank code *)
MutArmEvent ==
    /\ com.pc = "arm"
    /\ com' = [com EXCEPT !.pc = "crtc_enable", !.event = com.event /\ ~VblankGetOk(vb)]
    /\ IF com.event /\ VblankGetOk(vb)
       THEN /\ vb' = drm_update_vblank_count(drm_vblank_get(vb), FALSE)
            /\ pend' = [seq |-> vb'.count + 1, fb |-> IF st.vis THEN st.fb ELSE None]
       ELSE UNCHANGED <<vb, pend>>
    /\ UNCHANGED <<st, dep, flip, trail, hw, irq>>

(* mutant: the event is armed without a vblank reference *)
MutArmNoRef ==
    /\ com.pc = "arm"
    /\ com' = [com EXCEPT !.pc = "crtc_enable", !.event = FALSE]
    /\ IF com.event /\ ~vb.inmodeset
       THEN /\ pend' = [seq |-> vb.count + 1, fb |-> IF st.vis THEN st.fb ELSE None]
            /\ UNCHANGED <<dep, flip>>
       ELSE /\ IF com.event THEN Deliver ELSE UNCHANGED <<dep, flip>>
            /\ UNCHANGED pend
    /\ UNCHANGED <<vb, st, trail, hw, irq>>

(* vs_crtc_atomic_flush: drm_crtc_vblank_atomic_flush *)
ArmEvent ==
    /\ com.pc = "arm"
    /\ com' = [com EXCEPT !.pc = "crtc_enable", !.event = FALSE]
    /\ IF com.event /\ VblankGetOk(vb)
       THEN /\ vb' = drm_update_vblank_count(drm_vblank_get(vb), FALSE)
            /\ pend' = [seq |-> vb'.count + 1, fb |-> IF st.vis THEN st.fb ELSE None]
            /\ UNCHANGED <<dep, flip>>
       ELSE /\ IF com.event THEN Deliver ELSE UNCHANGED <<dep, flip>>
            /\ UNCHANGED <<vb, pend>>
    /\ UNCHANGED <<st, trail, hw, irq>>

(* drm_atomic_helper_commit_crtc_enable: the clock and the registers of     *)
(* vs_crtc_atomic_enable                                                    *)
CrtcEnable ==
    /\ Step("crtc_enable", IF NeedsEnable THEN "vblank_on" ELSE "bridge_enable")
    /\ hw' = IF NeedsEnable THEN CrtcOn(hw) ELSE hw
    /\ UNCHANGED <<vb, st, dep, flip, pend, trail, irq>>

(* and then drm_crtc_vblank_on *)
VblankOn ==
    /\ Step("vblank_on", "bridge_enable")
    /\ vb' = drm_crtc_vblank_on(vb)
    /\ UNCHANGED <<st, dep, flip, pend, trail, hw, irq>>

(* drm_atomic_helper_commit_encoder_bridge_enable *)
BridgeEnable ==
    /\ Step("bridge_enable", "hw_done")
    /\ hw' = IF NeedsEnable THEN vs_bridge_enable_common(hw) ELSE hw
    /\ UNCHANGED <<vb, st, dep, flip, pend, trail, irq>>

(* drm_atomic_helper_commit_hw_done: from here another commit may swap. *)
HwDone ==
    /\ com.pc = "hw_done"
    /\ com' = Idle
    /\ trail' = Append(trail, [pc |-> "get", base |-> 0, sync |-> ~com.legacy /\ st.active,
                               freed |-> FALSE])
    /\ UNCHANGED <<vb, st, dep, flip, pend, hw, irq>>

-----------------------------------------------------------------------------
(* drm_atomic_helper_wait_for_vblanks, drm_atomic_helper_cleanup_planes,    *)
(* drm_atomic_helper_commit_cleanup_done and the release of the commit      *)

(* The end of commit k frees the states it replaced, which are the new      *)
(* states of the commit before it.                                          *)
Cleaned(k) ==
    RemoveAt([j \in DOMAIN trail |-> IF j = k - 1 THEN [trail[j] EXCEPT !.freed = TRUE]
                                                  ELSE trail[j]], k)

(* Reads new_crtc_state->active of the commit, then takes a reference. *)
WaitGet(k) ==
    /\ trail[k].pc = "get"
    /\ IF trail[k].sync /\ VblankGetOk(vb)
       THEN /\ vb' = drm_vblank_get(vb)
            /\ trail' = [trail EXCEPT ![k].pc = "wait", ![k].base = vb.count]
            /\ pend' = pend
       ELSE Rebase(vb, pend, Cleaned(k))
    /\ UNCHANGED <<st, com, dep, flip, hw, irq>>

(* mutant: the put is forgotten *)
MutWaitEnds(k) == Rebase(vb, pend, Cleaned(k))

WaitEnds(k) == Rebase(drm_vblank_put(vb), pend, Cleaned(k))

(* mutant: wakes up at the next vblank or never *)
MutWaitDone(k) ==
    /\ trail[k].pc = "wait" /\ vb.count = trail[k].base + 1
    /\ WaitEnds(k)
    /\ UNCHANGED <<st, com, dep, flip, hw, irq>>

WaitDone(k) ==
    /\ trail[k].pc = "wait" /\ vb.count # trail[k].base
    /\ WaitEnds(k)
    /\ UNCHANGED <<st, com, dep, flip, hw, irq>>

(* No vblank for a second: only once the CRTC has been turned off. *)
WaitTimeout(k) ==
    /\ trail[k].pc = "wait" /\ vb.count = trail[k].base /\ vb.inmodeset
    /\ WaitEnds(k)
    /\ UNCHANGED <<st, com, dep, flip, hw, irq>>

-----------------------------------------------------------------------------
(* The hardware and the interrupt *)

(* vs_crtc_enable_vblank and vs_crtc_disable_vblank are called where        *)
(* vblank->enabled changes.                                                 *)
VsyncIrqOn == vb.enabled

(* A vertical blank: registers that are not held become the ones scanned    *)
(* out; "frames" counts the blanks since the plane's last write, up to 2.   *)
Vsync ==
    /\ Scanning
    /\ hw' = IF hw.valid THEN hw
             ELSE [hw EXCEPT !.frames = IF @ = 2 THEN 2 ELSE @ + 1]
    /\ irq' = (irq \/ (VsyncIrqOn /\ vb.count < MaxCount))
    /\ UNCHANGED <<vb, st, com, dep, flip, pend, trail>>

(* reading the status register clears it *)
irq_ack == irq /\ irq' = FALSE

(* all of it under event_lock *)
drm_handle_vblank ==
    IF vb.enabled
    THEN LET v == drm_update_vblank_count(vb, TRUE)
             sent == pend.seq # 0 /\ drm_vblank_passed(v.count, pend.seq)
             w == PutN(v, IF sent THEN 1 ELSE 0)
         IN  /\ vb' = IF vb.immediate /\ OffDelay = "positive" /\ v.refcount = 0
                      THEN vblank_disable_fn(w) ELSE w
             /\ pend' = IF sent THEN NoEvent ELSE pend
             /\ IF sent THEN Deliver ELSE UNCHANGED <<dep, flip>>
    ELSE UNCHANGED <<vb, pend, dep, flip>>

(* for the one output there is *)
vs_drm_handle_irq == drm_handle_vblank

(* vs_dc_irq_handler *)
IrqHandle ==
    /\ irq_ack
    /\ vs_drm_handle_irq
    /\ UNCHANGED <<st, com, trail, hw>>

DisableTimer ==
    /\ vb.timer
    /\ vb' = vblank_disable_fn(vb)
    /\ UNCHANGED <<st, com, dep, flip, pend, trail, hw, irq>>

-----------------------------------------------------------------------------
CommitTail ==
    \/ WaitForDependencies \/ BridgeDisable \/ CrtcDisable \/ ClkDisable \/ SetMode
    \/ CrtcBegin \/ PlaneUpdate \/ CrtcFlush \/ ArmEvent
    \/ CrtcEnable \/ VblankOn \/ BridgeEnable \/ HwDone

Waits == \E k \in DOMAIN trail : WaitGet(k) \/ WaitDone(k) \/ WaitTimeout(k)

Submit ==
    \/ \E new \in States, conn, nonblock, legacy \in BOOLEAN :
          Commit(new, conn, nonblock, legacy)
    \/ \E fb \in FBs, vis \in BOOLEAN : PageFlip(fb, vis)
    \/ Shutdown

Next ==
    \/ Submit
    \/ CommitTail \/ Waits
    \/ Vsync \/ IrqHandle \/ DisableTimer

Spec == Init /\ [][Next]_vars

(* Threads and workers run, interrupts are served, a scanned-out display    *)
(* reaches its next blank; nobody has to submit anything.                   *)
FairSpec ==
    /\ Spec
    /\ WF_vars(CommitTail) /\ WF_vars(Waits) /\ WF_vars(Vsync) /\ WF_vars(IrqHandle)

-----------------------------------------------------------------------------
(* Properties *)

(* The types of the states, the counters and the registers; at most two     *)
(* commits are past hw_done and not cleaned up.                             *)
TypeOK ==
    /\ vb \in VblankCrtc
    /\ st \in States
    /\ com \in [pc: {"idle", "dependencies", "bridge_disable", "crtc_disable", "clk_disable",
                     "set_mode", "begin", "plane", "oops", "flush", "arm", "crtc_enable",
                     "vblank_on", "bridge_enable", "hw_done"},
                old: States, conn: BOOLEAN, event: BOOLEAN, legacy: BOOLEAN]
    /\ dep \in BOOLEAN /\ flip \in BOOLEAN
    /\ pend \in [seq: Nat, fb: FBs \cup {None}]
    /\ trail \in Seq([pc: {"get", "wait"}, base: Nat, sync: BOOLEAN, freed: BOOLEAN])
    /\ Len(trail) <= 2
    /\ hw \in [clk: BOOLEAN, rate: Modes \cup {None}, running: BOOLEAN, reset: BOOLEAN,
               en: BOOLEAN, valid: BOOLEAN, addr: FBs \cup {None}, frames: 0..2]
    /\ irq \in BOOLEAN

(* The panel is never left running, nor the vblank interrupt on, without    *)
(* the pixel clock: vs_bridge_atomic_disable and drm_crtc_vblank_off come   *)
(* before clk_disable_unprepare in every commit, and clk_prepare_enable     *)
(* before both on the way up.                                               *)
ClockOrder == hw.running \/ hw.reset \/ vb.enabled => hw.clk

(* vs_crtc_mode_set_nofb changes the rate of the pixel clock only while     *)
(* the clock is off.                                                        *)
RateSetWhileOff == [][hw'.rate # hw.rate => ~hw.clk]_vars

(* Every vblank reference is accounted for: one for a modeset, one for the  *)
(* armed page-flip event, one for each commit in                            *)
(* drm_atomic_helper_wait_for_vblanks, whichever of them ends first.        *)
RefsHeld ==
    vb.refcount = (IF vb.inmodeset THEN 1 ELSE 0) + (IF pend.seq = 0 THEN 0 ELSE 1)
                  + Cardinality(Waiting(trail))

(* At most one page flip is in flight: an event is armed only when the      *)
(* flip of the commit before it is done, and flip_done is signalled exactly *)
(* once the armed event has gone out.                                       *)
OneFlip ==
    /\ com.event => dep \/ com.pc = "dependencies"
    /\ pend.seq # 0 => ~(dep /\ flip) /\ ~(com.event /\ dep)
    /\ ~dep \/ ~flip => pend.seq # 0 \/ com.event

(* Between commits the hardware is what the software state says: clock and  *)
(* rate follow the CRTC, the plane shows the committed framebuffer, and the *)
(* DC8000 does not hold its registers.                                      *)
SettledHw ==
    com.pc = "idle" =>
        /\ hw.clk = st.active
        /\ st.active => hw.rate = st.mode
        /\ st.vis => hw.addr = st.fb /\ (DC8200 => hw.en)
        /\ ~hw.valid
        /\ vb.inmodeset = ~st.active

(* Every commit reaches hw_done, though commits wait for flips, flips for   *)
(* interrupts, interrupts for a running display, and the display for        *)
(* commits.                                                                 *)
CommitsEnd == com.pc # "idle" ~> com.pc = "idle"

(* Every armed page-flip event goes out. *)
FlipsEnd == pend.seq # 0 ~> pend.seq = 0

(* A submission that stalls because two older commits are not cleaned up   *)
(* gets through: their waits for a vblank end, if only by the timeout.      *)
StallsEnd == Len(trail) = 2 ~> Len(trail) < 2

-----------------------------------------------------------------------------
(* Claims of the comments that the code does not keep *)

(* drm_crtc_arm_vblank_event: "prevent the vblank from firing ... until the *)
(* entire atomic commit sequence has run to completion".  When the event of *)
(* a flip is armed, the flip is not on the screen yet (its event would be a *)
(* frame late), and no earlier vblank waits for its interrupt (which would  *)
(* send the event before the flip).                                         *)
ArmRaceFree ==
    [][pend.seq = 0 /\ pend'.seq # 0 /\ pend'.fb # None => hw.frames = 0 /\ ~irq]_vars

(* commit_tail: new_crtc_state is not accessed once hw_done may have let    *)
(* another commit replace and free it.                                      *)
NoUseAfterFree == \A k \in DOMAIN trail : trail[k].pc = "get" => ~trail[k].freed
=============================================================================
