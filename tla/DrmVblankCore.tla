--------------------------- MODULE DrmVblankCore ---------------------------
(***************************************************************************)
(* The per-CRTC vblank bookkeeping of drm/drm_vblank.c (struct             *)
(* drm_vblank_crtc) as operators on a record.  Every function modelled     *)
(* here runs with vbl_lock and, where it touches the count, with           *)
(* vblank_time_lock held, so each is one indivisible change of the record. *)
(*                                                                         *)
(*   refcount   users of the interrupt, plus one while in a modeset        *)
(*   enabled    vblank interrupts are on; the driver's enable register is  *)
(*              written in the same vblank_time_lock section               *)
(*   inmodeset  between drm_crtc_vblank_off/reset and drm_crtc_vblank_on   *)
(*   count      the vblank counter shown to user space                     *)
(*   last       hardware counter value at the last update of count         *)
(*   hwcnt      what the driver's get_vblank_counter hook returns          *)
(*   timer      a call of vblank_disable_fn is due                         *)
(*   immediate  config.disable_immediate                                   *)
(***************************************************************************)
EXTENDS Integers

CONSTANTS
    HwCounter,   \* does the driver have get_vblank_counter (ma35 has, vs has not)
    MaxHwCount,  \* max_vblank_count, the mask of that counter: 2^k - 1
    OffDelay,    \* sign of drm_vblank_offdelay ("positive", 5000 ms, by default)
    Immediate    \* the values the device's vblank_disable_immediate may have

(* a max_vblank_count of 0 says that there is no such counter *)
ASSUME VblankCoreAssumption ==
    /\ HwCounter \in BOOLEAN
    /\ MaxHwCount \in Nat /\ (HwCounter => MaxHwCount > 0)
    /\ OffDelay \in {"negative", "zero", "positive"}
    /\ Immediate \subseteq BOOLEAN /\ Immediate # {}

VblankCrtc ==
    [refcount: Nat, enabled: BOOLEAN, inmodeset: BOOLEAN,
     count: Nat, last: 0..MaxHwCount, hwcnt: 0..MaxHwCount, timer: BOOLEAN,
     immediate: BOOLEAN]

(* The device after drm_vblank_init and drm_crtc_vblank_reset; the flag is  *)
(* the device's and the same at every drm_crtc_vblank_on.                   *)
drm_crtc_vblank_reset(immediate) ==
    [refcount |-> 1, enabled |-> FALSE, inmodeset |-> TRUE,
     count |-> 0, last |-> 0, hwcnt |-> 0, timer |-> FALSE,
     immediate |-> immediate]

(* The frames the hardware counter is ahead of the last update, going      *)
(* forward on a counter that wraps: what vblank_diff has to find.          *)
Uncounted(v) == IF v.hwcnt >= v.last THEN v.hwcnt - v.last
                                     ELSE v.hwcnt + (MaxHwCount + 1) - v.last

(* mutant: the difference, an unsigned word wider than the counter, is not  *)
(* masked                                                                   *)
MutVblankDiff(v, in_vblank_irq) ==
    IF HwCounter THEN (v.hwcnt - v.last) % 2^30 ELSE IF in_vblank_irq THEN 1 ELSE 0

(* How many vblanks went by since the last update.  Neither driver has     *)
(* get_vblank_timestamp, so the timestamp branch of the C code is never    *)
(* taken: without a hardware counter only an interrupt counts.             *)
vblank_diff(v, in_vblank_irq) ==
    IF HwCounter THEN (v.hwcnt - v.last) % (MaxHwCount + 1)
                 ELSE IF in_vblank_irq THEN 1 ELSE 0

store_vblank(v, inc) == [v EXCEPT !.count = @ + inc, !.last = v.hwcnt]

drm_update_vblank_count(v, in_vblank_irq) ==
    LET diff == vblank_diff(v, in_vblank_irq)
    IN  IF diff = 0 THEN v ELSE store_vblank(v, diff)

(* Both drivers' enable_vblank hooks return 0 on every path. *)
drm_vblank_enable(v) ==
    IF v.enabled
    THEN v
    ELSE [drm_update_vblank_count(v, FALSE) EXCEPT !.enabled = TRUE]

drm_vblank_disable_and_save(v) ==
    IF v.enabled
    THEN [drm_update_vblank_count(v, FALSE) EXCEPT !.enabled = FALSE]
    ELSE v

(* mutant: the timer does not look at the reference count *)
MutDisableFn(v) == drm_vblank_disable_and_save([v EXCEPT !.timer = FALSE])

vblank_disable_fn(v) ==
    LET w == [v EXCEPT !.timer = FALSE]
    IN  IF w.refcount = 0 THEN drm_vblank_disable_and_save(w) ELSE w

(* drm_vblank_get returns 0 *)
VblankGetOk(v) == v.refcount = 0 \/ v.enabled

drm_vblank_get(v) ==
    CASE v.refcount = 0                -> drm_vblank_enable([v EXCEPT !.refcount = 1])
      [] v.refcount # 0 /\ v.enabled   -> [v EXCEPT !.refcount = @ + 1]
      [] v.refcount # 0 /\ ~v.enabled  -> v

(* The last user is gone: arm the disable timer or, with a negative delay, *)
(* disable at once.                                                        *)
LastPut(v) ==
    CASE OffDelay = "negative"                    -> vblank_disable_fn(v)
      [] OffDelay = "positive" /\ ~v.immediate  -> [v EXCEPT !.timer = TRUE]
      [] OTHER                                    -> v

(* n calls of drm_vblank_put in a row, for the n events sent by one holder *)
(* of event_lock.  A put without a reference only warns.                   *)
PutN(v, n) ==
    LET w == [v EXCEPT !.refcount = @ - n]
    IN  IF n = 0 \/ v.refcount < n THEN v
        ELSE IF w.refcount = 0 THEN LastPut(w) ELSE w

drm_vblank_put(v) == PutN(v, 1)

(* mutant: no modeset reference is taken *)
MutVblankOff(v, n) ==
    PutN([drm_vblank_disable_and_save(v) EXCEPT !.inmodeset = TRUE], n)

(* The record after drm_crtc_vblank_off, which sends the n queued events of *)
(* the pipe.                                                                *)
drm_crtc_vblank_off(v, n) ==
    LET w == drm_vblank_disable_and_save(v)
        b == IF w.inmodeset THEN w
             ELSE [w EXCEPT !.inmodeset = TRUE, !.refcount = @ + 1]
    IN  PutN(b, n)

(* drm_crtc_vblank_on: the count is bumped so that user space never sees   *)
(* one value before and after a modeset (drm_reset_vblank_timestamp).      *)
drm_crtc_vblank_on(v) ==
    LET u == IF v.inmodeset
             THEN [v EXCEPT !.inmodeset = FALSE, !.refcount = @ - 1]
             ELSE v
        w == store_vblank(u, 1)
    IN  IF w.refcount # 0 \/ OffDelay = "zero" THEN drm_vblank_enable(w) ELSE w

(* Modelled from drm/drm_vblank.h, which is outside this repository. *)
drm_vblank_passed(seq, ref) == seq >= ref /\ seq - ref <= 8388608
=============================================================================
