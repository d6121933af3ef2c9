------------------------ MODULE DrmVblankCoreProofs ------------------------
(***************************************************************************)
(* Contracts of the operators of DrmVblankCore: what each function of      *)
(* drm_vblank.c does to the reference count, the interrupt, the modeset    *)
(* flag and the count, for every record it can be called with.  The proofs *)
(* about DrmVblank, DrmVblankWork and VsDisplay rest on these and never    *)
(* open the operators themselves.                                          *)
(***************************************************************************)
EXTENDS DrmVblankCore, TLAPS

(* w is v after an operation that leaves references and modeset state alone *)
SameRefs(v, w) ==
    /\ w \in VblankCrtc
    /\ w.refcount = v.refcount
    /\ w.inmodeset = v.inmodeset

(* The remainder of the hardware counter difference is in the mask's range. *)
LEMMA ModRange ==
    ASSUME NEW a \in Int, NEW m \in Nat
    PROVE  a % (m + 1) \in 0..m
BY SMT

(* store_vblank adds to the count and touches nothing a caller tests. *)
LEMMA StoreContract ==
    ASSUME NEW v \in VblankCrtc, NEW inc \in Nat
    PROVE  LET w == store_vblank(v, inc)
           IN  SameRefs(v, w) /\ w.enabled = v.enabled /\ w.count = v.count + inc
<1> DEFINE u == [v EXCEPT !.count = v.count + inc, !.last = v.hwcnt]
<1>1. v.count + inc \in Nat /\ v.hwcnt \in 0..MaxHwCount
  BY DEF VblankCrtc
<1>2. u \in VblankCrtc
  BY <1>1 DEF VblankCrtc
<1>3. /\ u.refcount = v.refcount /\ u.inmodeset = v.inmodeset
      /\ u.enabled = v.enabled /\ u.count = v.count + inc
  BY DEF VblankCrtc
<1> QED
  BY <1>2, <1>3 DEF store_vblank, SameRefs

(* An update of the count (drm_update_vblank_count) keeps the references   *)
(* and the enabled state and never moves the count back.                   *)
LEMMA UpdateContract ==
    ASSUME NEW v \in VblankCrtc, NEW b \in BOOLEAN
    PROVE  LET w == drm_update_vblank_count(v, b)
           IN  SameRefs(v, w) /\ w.enabled = v.enabled /\ w.count >= v.count
<1>1. vblank_diff(v, b) \in Nat
  <2>1. v.hwcnt \in Int /\ v.last \in Int
    BY VblankCoreAssumption DEF VblankCrtc
  <2>2. (v.hwcnt - v.last) % (MaxHwCount + 1) \in 0..MaxHwCount
    <3> DEFINE a == v.hwcnt - v.last
    <3>1. a \in Int /\ MaxHwCount \in Nat
      BY <2>1, VblankCoreAssumption
    <3> HIDE DEF a
    <3>2. a % (MaxHwCount + 1) \in 0..MaxHwCount
      BY <3>1, ModRange
    <3> QED
      BY <3>2 DEF a
  <2> QED
    BY <2>2, VblankCoreAssumption DEF vblank_diff
<1> DEFINE d == vblank_diff(v, b)
<1> HIDE DEF d
<1>2. drm_update_vblank_count(v, b) = IF d = 0 THEN v ELSE store_vblank(v, d)
  BY DEF drm_update_vblank_count, d
<1>3. d \in Nat /\ v.count \in Nat
  BY <1>1 DEF d, VblankCrtc
<1>4. CASE d = 0
  BY <1>2, <1>3, <1>4 DEF SameRefs
<1>5. CASE d # 0
  BY <1>2, <1>3, <1>5, StoreContract
<1> QED
  BY <1>4, <1>5

(* drm_vblank_enable leaves the interrupt enabled. *)
LEMMA EnableContract ==
    ASSUME NEW v \in VblankCrtc
    PROVE  LET w == drm_vblank_enable(v)
           IN  SameRefs(v, w) /\ w.enabled /\ w.count >= v.count
<1>1. CASE v.enabled
  BY <1>1 DEF drm_vblank_enable, VblankCrtc, SameRefs
<1>2. CASE ~v.enabled
  <2> DEFINE u == drm_update_vblank_count(v, FALSE)
  <2>1. SameRefs(v, u) /\ u.count >= v.count
    BY UpdateContract
  <2> HIDE DEF u
  <2>2. drm_vblank_enable(v) = [u EXCEPT !.enabled = TRUE]
    BY <1>2 DEF drm_vblank_enable, u
  <2> QED
    BY <2>1, <2>2 DEF SameRefs, VblankCrtc
<1> QED
  BY <1>1, <1>2

(* drm_vblank_disable_and_save leaves the interrupt disabled, and a        *)
(* disabled one untouched, count included.                                 *)
LEMMA DisableContract ==
    ASSUME NEW v \in VblankCrtc
    PROVE  LET w == drm_vblank_disable_and_save(v)
           IN  /\ SameRefs(v, w) /\ ~w.enabled /\ w.count >= v.count
               /\ ~v.enabled => w.count = v.count
<1>1. CASE ~v.enabled
  BY <1>1 DEF drm_vblank_disable_and_save, VblankCrtc, SameRefs
<1>2. CASE v.enabled
  <2> DEFINE u == drm_update_vblank_count(v, FALSE)
  <2>1. SameRefs(v, u) /\ u.count >= v.count
    BY UpdateContract
  <2> HIDE DEF u
  <2>2. drm_vblank_disable_and_save(v) = [u EXCEPT !.enabled = FALSE]
    BY <1>2 DEF drm_vblank_disable_and_save, u
  <2> QED
    BY <1>2, <2>1, <2>2 DEF SameRefs, VblankCrtc
<1> QED
  BY <1>1, <1>2

(* vblank_disable_fn disables an unreferenced interrupt and no other. *)
LEMMA DisableFnContract ==
    ASSUME NEW v \in VblankCrtc
    PROVE  LET w == vblank_disable_fn(v)
           IN  /\ SameRefs(v, w) /\ w.count >= v.count
               /\ v.refcount # 0 => w.enabled = v.enabled
               /\ ~v.enabled => ~w.enabled /\ w.count = v.count
<1> DEFINE u == [v EXCEPT !.timer = FALSE]
<1>1. /\ u \in VblankCrtc /\ u.refcount = v.refcount /\ u.inmodeset = v.inmodeset
      /\ u.enabled = v.enabled /\ u.count = v.count
  BY DEF VblankCrtc
<1> HIDE DEF u
<1>2. vblank_disable_fn(v) = IF u.refcount = 0 THEN drm_vblank_disable_and_save(u) ELSE u
  BY DEF vblank_disable_fn, u
<1>3. CASE u.refcount = 0
  BY <1>1, <1>2, <1>3, DisableContract DEF SameRefs
<1>4. CASE u.refcount # 0
  BY <1>1, <1>2, <1>4 DEF SameRefs, VblankCrtc
<1> QED
  BY <1>3, <1>4

(* A successful drm_vblank_get adds one reference and finds or leaves the  *)
(* interrupt enabled.                                                      *)
LEMMA GetContract ==
    ASSUME NEW v \in VblankCrtc, VblankGetOk(v)
    PROVE  LET w == drm_vblank_get(v)
           IN  /\ w \in VblankCrtc /\ w.refcount = v.refcount + 1
               /\ w.inmodeset = v.inmodeset /\ w.enabled /\ w.count >= v.count
<1>1. CASE v.refcount = 0
  <2> DEFINE u == [v EXCEPT !.refcount = 1]
  <2>1. u \in VblankCrtc /\ u.refcount = 1 /\ u.inmodeset = v.inmodeset /\ u.count = v.count
    BY DEF VblankCrtc
  <2>2. drm_vblank_get(v) = drm_vblank_enable(u)
    BY <1>1 DEF drm_vblank_get
  <2> HIDE DEF u
  <2> QED
    BY <1>1, <2>1, <2>2, EnableContract DEF SameRefs
<1>2. CASE v.refcount # 0
  <2>1. v.enabled
    BY <1>2 DEF VblankGetOk
  <2>2. drm_vblank_get(v) = [v EXCEPT !.refcount = v.refcount + 1]
    BY <1>2, <2>1 DEF drm_vblank_get
  <2> QED
    BY <2>1, <2>2 DEF VblankCrtc
<1> QED
  BY <1>1, <1>2

(* The last put keeps the references; it only ever disables. *)
LEMMA LastPutContract ==
    ASSUME NEW v \in VblankCrtc
    PROVE  LET w == LastPut(v)
           IN  /\ SameRefs(v, w) /\ w.count >= v.count
               /\ ~v.enabled => ~w.enabled /\ w.count = v.count
<1> DEFINE u == [v EXCEPT !.timer = TRUE]
<1>1. u \in VblankCrtc /\ SameRefs(v, u) /\ u.count = v.count /\ u.enabled = v.enabled
  BY DEF VblankCrtc, SameRefs
<1>2. SameRefs(v, v) /\ v.count >= v.count
  BY DEF VblankCrtc, SameRefs
<1>3. u.count >= v.count
  BY <1>1 DEF VblankCrtc
<1> HIDE DEF u
<1>4. LastPut(v) \in {vblank_disable_fn(v), u, v}
  BY DEF LastPut, u
<1>5. CASE LastPut(v) = vblank_disable_fn(v)
  BY <1>5, DisableFnContract
<1>6. CASE LastPut(v) = u
  BY <1>1, <1>3, <1>6
<1>7. CASE LastPut(v) = v
  BY <1>2, <1>7
<1> QED
  BY <1>4, <1>5, <1>6, <1>7

(* n puts drop n references; the interrupt stays as it is while references *)
(* remain, and putting never moves the count of a disabled pipe.           *)
LEMMA PutContract ==
    ASSUME NEW v \in VblankCrtc, NEW n \in Nat, n =< v.refcount
    PROVE  LET w == PutN(v, n)
           IN  /\ w \in VblankCrtc /\ w.refcount = v.refcount - n
               /\ w.inmodeset = v.inmodeset /\ w.count >= v.count
               /\ v.refcount # n => w.enabled = v.enabled
               /\ ~v.enabled => ~w.enabled /\ w.count = v.count
<1> DEFINE u == [v EXCEPT !.refcount = v.refcount - n]
<1>1. /\ u \in VblankCrtc /\ u.refcount = v.refcount - n /\ u.inmodeset = v.inmodeset
      /\ u.enabled = v.enabled /\ u.count = v.count
  BY DEF VblankCrtc
<1>2. v.refcount \in Nat /\ v.count \in Nat
  BY DEF VblankCrtc
<1>3. PutN(v, n) = IF n = 0 THEN v ELSE IF u.refcount = 0 THEN LastPut(u) ELSE u
  BY <1>2 DEF PutN
<1> HIDE DEF u
<1>4. CASE n = 0
  BY <1>2, <1>3, <1>4
<1>5. CASE n # 0 /\ u.refcount = 0
  <2>1. PutN(v, n) = LastPut(u)
    BY <1>3, <1>5
  <2> QED
    BY <1>1, <1>2, <1>5, <2>1, LastPutContract DEF SameRefs
<1>6. CASE n # 0 /\ u.refcount # 0
  <2>1. PutN(v, n) = u
    BY <1>3, <1>6
  <2> QED
    BY <1>1, <1>2, <1>6, <2>1
<1> QED
  BY <1>4, <1>5, <1>6

(* drm_crtc_vblank_off takes the modeset reference once, drops one per     *)
(* queued event and leaves the interrupt disabled.                         *)
LEMMA OffContract ==
    ASSUME NEW v \in VblankCrtc, NEW n \in Nat, n =< v.refcount, ~v.inmodeset
    PROVE  LET w == drm_crtc_vblank_off(v, n)
           IN  /\ w \in VblankCrtc /\ w.refcount = v.refcount + 1 - n
               /\ w.inmodeset /\ ~w.enabled /\ w.count >= v.count
               /\ ~v.enabled => w.count = v.count
<1> DEFINE d == drm_vblank_disable_and_save(v)
           b == [d EXCEPT !.inmodeset = TRUE, !.refcount = d.refcount + 1]
<1>1. /\ SameRefs(v, d) /\ ~d.enabled /\ d.count >= v.count
      /\ ~v.enabled => d.count = v.count
  BY DisableContract
<1>2. drm_crtc_vblank_off(v, n) = PutN(b, n)
  BY <1>1 DEF drm_crtc_vblank_off, SameRefs
<1> HIDE DEF d
<1>4. v.refcount \in Nat /\ v.count \in Nat
  BY DEF VblankCrtc
<1>3. /\ b \in VblankCrtc /\ b.refcount = v.refcount + 1 /\ b.inmodeset
      /\ b.enabled = d.enabled /\ b.count = d.count
  <2>1. d \in VblankCrtc /\ d.refcount + 1 \in Nat
    BY <1>1, <1>4 DEF SameRefs
  <2>2. b \in VblankCrtc
    BY <2>1 DEF VblankCrtc
  <2>3. b.refcount = d.refcount + 1 /\ b.inmodeset /\ b.enabled = d.enabled /\ b.count = d.count
    BY <2>1 DEF VblankCrtc
  <2> QED
    BY <1>1, <2>2, <2>3 DEF SameRefs
<1> HIDE DEF b
<1> DEFINE w == PutN(b, n)
<1>5. n =< b.refcount
  BY <1>3, <1>4
<1>6. /\ w \in VblankCrtc /\ w.refcount = b.refcount - n
      /\ w.inmodeset = b.inmodeset /\ w.count >= b.count
      /\ ~b.enabled => ~w.enabled /\ w.count = b.count
  BY <1>3, <1>5, PutContract
<1>7. b.count \in Nat /\ w.count \in Nat
  BY <1>3, <1>6 DEF VblankCrtc
<1> HIDE DEF w
<1>8. w.count >= v.count
  BY <1>1, <1>3, <1>4, <1>6, <1>7
<1> QED
  BY <1>1, <1>2, <1>3, <1>4, <1>6, <1>8 DEF w

(* drm_crtc_vblank_on drops the modeset reference, enables the interrupt   *)
(* if references are left, and always moves the count.                     *)
LEMMA OnContract ==
    ASSUME NEW v \in VblankCrtc, v.inmodeset, v.refcount >= 1
    PROVE  LET w == drm_crtc_vblank_on(v)
           IN  /\ w \in VblankCrtc /\ w.refcount = v.refcount - 1
               /\ ~w.inmodeset /\ w.count > v.count
               /\ w.refcount # 0 => w.enabled
<1> DEFINE u == store_vblank([v EXCEPT !.inmodeset = FALSE, !.refcount = v.refcount - 1], 1)
<1>1. /\ u \in VblankCrtc /\ u.refcount = v.refcount - 1 /\ ~u.inmodeset
      /\ u.count = v.count + 1
  <2> DEFINE x == [v EXCEPT !.inmodeset = FALSE, !.refcount = v.refcount - 1]
  <2>1. v.refcount - 1 \in Nat
    BY DEF VblankCrtc
  <2>2. x \in VblankCrtc
    BY <2>1 DEF VblankCrtc
  <2>3. x.refcount = v.refcount - 1 /\ ~x.inmodeset /\ x.count = v.count
    BY DEF VblankCrtc
  <2> HIDE DEF x
  <2>4. SameRefs(x, store_vblank(x, 1)) /\ store_vblank(x, 1).count = x.count + 1
    BY <2>2, StoreContract
  <2> QED
    BY <2>3, <2>4 DEF x, SameRefs
<1>2. drm_crtc_vblank_on(v) =
        IF u.refcount # 0 \/ OffDelay = "zero" THEN drm_vblank_enable(u) ELSE u
  BY DEF drm_crtc_vblank_on
<1>3. v.count \in Nat /\ u.count \in Nat
  BY <1>1 DEF VblankCrtc
<1> HIDE DEF u
<1>4. CASE u.refcount # 0 \/ OffDelay = "zero"
  <2>1. drm_crtc_vblank_on(v) = drm_vblank_enable(u)
    BY <1>2, <1>4
  <2> DEFINE w == drm_vblank_enable(u)
  <2>2. SameRefs(u, w) /\ w.enabled /\ w.count >= u.count
    BY <1>1, EnableContract
  <2>3. w.count \in Nat
    BY <2>2 DEF SameRefs, VblankCrtc
  <2> HIDE DEF w
  <2> QED
    BY <1>1, <1>3, <2>1, <2>2, <2>3 DEF SameRefs, w
<1>5. CASE ~(u.refcount # 0 \/ OffDelay = "zero")
  BY <1>1, <1>2, <1>3, <1>5
<1> QED
  BY <1>4, <1>5

-----------------------------------------------------------------------------
(* Frames, with a hardware counter *)

(* w is v after an operation by which no frame is lost or counted twice.   *)
(* Whoever turns the interrupt on or off brings the count up to date.      *)
SameFrames(v, w) ==
    /\ w.hwcnt = v.hwcnt
    /\ w.count + Uncounted(w) = v.count + Uncounted(v)
    /\ Uncounted(w) = Uncounted(v) \/ Uncounted(w) = 0
    /\ (w.enabled <=> v.enabled) \/ Uncounted(w) = 0

(* A difference on a counter that wraps, *)
LEMMA ModDifference ==
    ASSUME NEW m \in Nat, NEW a \in 0..m, NEW b \in 0..m
    PROVE  (a - b) % (m + 1) = IF a >= b THEN a - b ELSE a + (m + 1) - b
<1>1. CASE a >= b
  <2>1. a - b \in 0..m
    BY <1>1
  <2>2. \A c \in 0..m : c % (m + 1) = c
    BY SMT
  <2> QED
    BY <1>1, <2>1, <2>2
<1>2. CASE a < b
  BY <1>2, SMT
<1> QED
  BY <1>1, <1>2

(* and a step of it *)
LEMMA ModStep ==
    ASSUME NEW m \in Nat, NEW a \in 0..m
    PROVE  (a + 1) % (m + 1) = IF a = m THEN 0 ELSE a + 1
BY SMT

(* Uncounted frames are as many as the mask allows. *)
LEMMA UncountedRange ==
    ASSUME NEW v \in VblankCrtc
    PROVE  Uncounted(v) \in 0..MaxHwCount
BY VblankCoreAssumption DEF Uncounted, VblankCrtc

(* Fields that do not matter here *)
LEMMA SameFramesFields ==
    ASSUME NEW v, NEW w, w.hwcnt = v.hwcnt, w.last = v.last, w.count = v.count,
           w.enabled <=> v.enabled
    PROVE  SameFrames(v, w)
BY DEF SameFrames, Uncounted

LEMMA SameFramesTrans ==
    ASSUME NEW u, NEW v, NEW w, SameFrames(u, v), SameFrames(v, w)
    PROVE  SameFrames(u, w)
BY DEF SameFrames

(* drm_update_vblank_count counts all of them. *)
LEMMA UpdateFrames ==
    ASSUME HwCounter, NEW v \in VblankCrtc, NEW b \in BOOLEAN
    PROVE  LET w == drm_update_vblank_count(v, b)
           IN  SameFrames(v, w) /\ Uncounted(w) = 0
<1>1. v.hwcnt \in 0..MaxHwCount /\ v.last \in 0..MaxHwCount /\ v.count \in Nat /\ MaxHwCount \in Nat
  BY VblankCoreAssumption DEF VblankCrtc
<1>a. PICK d : d = Uncounted(v)
  OBVIOUS
<1>2. vblank_diff(v, b) = d /\ d \in Nat
  <2>1. d \in Nat
    BY <1>a, <1>1, UncountedRange
  <2>2. (v.hwcnt - v.last) % (MaxHwCount + 1)
          = IF v.hwcnt >= v.last THEN v.hwcnt - v.last ELSE v.hwcnt + (MaxHwCount + 1) - v.last
    BY <1>1, ModDifference
  <2> QED
    BY <1>a, <2>1, <2>2 DEF vblank_diff, Uncounted
<1>3. drm_update_vblank_count(v, b) = IF d = 0 THEN v ELSE store_vblank(v, d)
  BY <1>2 DEF drm_update_vblank_count
<1>4. CASE d = 0
  <2>1. drm_update_vblank_count(v, b) = v
    BY <1>3, <1>4
  <2> QED
    BY <1>a, <1>4, <2>1 DEF SameFrames
<1>5. CASE d # 0
  <2> DEFINE w == store_vblank(v, d)
  <2>1. w.hwcnt = v.hwcnt /\ w.last = v.hwcnt /\ w.count = v.count + d
    BY DEF store_vblank, VblankCrtc
  <2>2. w.enabled <=> v.enabled
    BY DEF store_vblank, VblankCrtc
  <2> HIDE DEF w
  <2>3. Uncounted(w) = 0
    BY <1>1, <2>1 DEF Uncounted
  <2>4. drm_update_vblank_count(v, b) = w
    BY <1>3, <1>5 DEF w
  <2>5. w.count + Uncounted(w) = v.count + Uncounted(v)
    BY <1>a, <1>1, <1>2, <2>1, <2>3
  <2> QED
    BY <2>1, <2>2, <2>3, <2>4, <2>5 DEF SameFrames
<1> QED
  BY <1>4, <1>5

LEMMA EnableFrames ==
    ASSUME HwCounter, NEW v \in VblankCrtc
    PROVE  SameFrames(v, drm_vblank_enable(v))
<1>1. CASE v.enabled
  BY <1>1, SameFramesFields DEF drm_vblank_enable
<1>2. CASE ~v.enabled
  <2> DEFINE u == drm_update_vblank_count(v, FALSE)
             w == [u EXCEPT !.enabled = TRUE]
  <2>1. SameFrames(v, u) /\ Uncounted(u) = 0 /\ u \in VblankCrtc
    BY UpdateFrames, UpdateContract DEF SameRefs
  <2> HIDE DEF u
  <2>2. w.hwcnt = u.hwcnt /\ w.last = u.last /\ w.count = u.count
    BY <2>1 DEF VblankCrtc
  <2>3. drm_vblank_enable(v) = w
    BY <1>2 DEF drm_vblank_enable, u
  <2> HIDE DEF w
  <2> QED
    BY <2>1, <2>2, <2>3 DEF SameFrames, Uncounted
<1> QED
  BY <1>1, <1>2

LEMMA DisableFrames ==
    ASSUME HwCounter, NEW v \in VblankCrtc
    PROVE  SameFrames(v, drm_vblank_disable_and_save(v))
<1>1. CASE ~v.enabled
  BY <1>1, SameFramesFields DEF drm_vblank_disable_and_save
<1>2. CASE v.enabled
  <2> DEFINE u == drm_update_vblank_count(v, FALSE)
             w == [u EXCEPT !.enabled = FALSE]
  <2>1. SameFrames(v, u) /\ Uncounted(u) = 0 /\ u \in VblankCrtc
    BY UpdateFrames, UpdateContract DEF SameRefs
  <2> HIDE DEF u
  <2>2. w.hwcnt = u.hwcnt /\ w.last = u.last /\ w.count = u.count
    BY <2>1 DEF VblankCrtc
  <2>3. drm_vblank_disable_and_save(v) = w
    BY <1>2 DEF drm_vblank_disable_and_save, u
  <2> HIDE DEF w
  <2> QED
    BY <2>1, <2>2, <2>3 DEF SameFrames, Uncounted
<1> QED
  BY <1>1, <1>2

LEMMA DisableFnFrames ==
    ASSUME HwCounter, NEW v \in VblankCrtc
    PROVE  SameFrames(v, vblank_disable_fn(v))
<1> DEFINE u == [v EXCEPT !.timer = FALSE]
<1>1. /\ u \in VblankCrtc /\ u.hwcnt = v.hwcnt /\ u.last = v.last /\ u.count = v.count
      /\ (u.enabled <=> v.enabled)
  BY DEF VblankCrtc
<1>2. vblank_disable_fn(v) = IF u.refcount = 0 THEN drm_vblank_disable_and_save(u) ELSE u
  BY DEF vblank_disable_fn
<1> HIDE DEF u
<1>3. SameFrames(v, u) /\ SameFrames(u, drm_vblank_disable_and_save(u))
  BY <1>1, SameFramesFields, DisableFrames
<1> QED
  BY <1>2, <1>3, SameFramesTrans

LEMMA GetFrames ==
    ASSUME HwCounter, NEW v \in VblankCrtc
    PROVE  SameFrames(v, drm_vblank_get(v))
<1> DEFINE u == [v EXCEPT !.refcount = 1]
           x == [v EXCEPT !.refcount = v.refcount + 1]
<1>1. /\ u \in VblankCrtc /\ u.hwcnt = v.hwcnt /\ u.last = v.last /\ u.count = v.count
      /\ (u.enabled <=> v.enabled)
  BY DEF VblankCrtc
<1>2. x.hwcnt = v.hwcnt /\ x.last = v.last /\ x.count = v.count /\ (x.enabled <=> v.enabled)
  BY DEF VblankCrtc
<1>3. drm_vblank_get(v) \in {drm_vblank_enable(u), x, v}
  BY DEF drm_vblank_get, VblankCrtc
<1> HIDE DEF u, x
<1>4. SameFrames(v, drm_vblank_enable(u))
  BY <1>1, SameFramesFields, EnableFrames, SameFramesTrans
<1> QED
  BY <1>2, <1>3, <1>4, SameFramesFields

LEMMA PutFrames ==
    ASSUME HwCounter, NEW v \in VblankCrtc, NEW n \in Nat
    PROVE  SameFrames(v, PutN(v, n))
<1> DEFINE u == [v EXCEPT !.refcount = v.refcount - n]
           x == [u EXCEPT !.timer = TRUE]
<1>1. CASE n = 0 \/ v.refcount < n
  <2>1. PutN(v, n) = v
    BY <1>1 DEF PutN
  <2> QED
    BY <2>1, SameFramesFields
<1>2. CASE ~(n = 0 \/ v.refcount < n)
  <2>1. v.refcount - n \in Nat
    BY <1>2 DEF VblankCrtc
  <2>2. /\ u \in VblankCrtc /\ u.hwcnt = v.hwcnt /\ u.last = v.last /\ u.count = v.count
        /\ (u.enabled <=> v.enabled)
    BY <2>1 DEF VblankCrtc
  <2>3. PutN(v, n) = IF u.refcount = 0 THEN LastPut(u) ELSE u
    BY <1>2 DEF PutN
  <2> HIDE DEF u
  <2>4. x.hwcnt = u.hwcnt /\ x.last = u.last /\ x.count = u.count /\ (x.enabled <=> u.enabled)
    BY <2>2 DEF VblankCrtc
  <2>5. LastPut(u) \in {vblank_disable_fn(u), x, u}
    BY DEF LastPut
  <2> HIDE DEF x
  <2>6. SameFrames(v, u) /\ SameFrames(u, u)
    BY <2>2, SameFramesFields
  <2>7. SameFrames(u, vblank_disable_fn(u)) /\ SameFrames(u, x)
    BY <2>2, <2>4, SameFramesFields, DisableFnFrames
  <2>8. SameFrames(u, LastPut(u))
    BY <2>5, <2>6, <2>7
  <2> QED
    BY <2>3, <2>6, <2>8, SameFramesTrans
<1> QED
  BY <1>1, <1>2

LEMMA OffFrames ==
    ASSUME HwCounter, NEW v \in VblankCrtc, NEW n \in Nat
    PROVE  SameFrames(v, drm_crtc_vblank_off(v, n))
<1> DEFINE d == drm_vblank_disable_and_save(v)
           x == [d EXCEPT !.inmodeset = TRUE, !.refcount = d.refcount + 1]
           b == IF d.inmodeset THEN d ELSE x
<1>1. d \in VblankCrtc /\ SameFrames(v, d)
  BY DisableContract, DisableFrames DEF SameRefs
<1>2. drm_crtc_vblank_off(v, n) = PutN(b, n)
  BY DEF drm_crtc_vblank_off
<1> HIDE DEF d
<1>3. d.refcount + 1 \in Nat
  BY <1>1 DEF VblankCrtc
<1>4. /\ x \in VblankCrtc /\ x.hwcnt = d.hwcnt /\ x.last = d.last /\ x.count = d.count
      /\ (x.enabled <=> d.enabled)
  BY <1>1, <1>3 DEF VblankCrtc
<1> HIDE DEF x
<1>5. b \in VblankCrtc /\ SameFrames(d, b)
  BY <1>1, <1>4, SameFramesFields
<1> HIDE DEF b
<1>6. SameFrames(b, PutN(b, n))
  BY <1>5, PutFrames
<1> QED
  BY <1>1, <1>2, <1>5, <1>6, SameFramesTrans

(* drm_crtc_vblank_on forgets the uncounted frames for the one it adds. *)
LEMMA OnFrames ==
    ASSUME HwCounter, NEW v \in VblankCrtc, v.inmodeset, v.refcount >= 1
    PROVE  LET w == drm_crtc_vblank_on(v)
           IN  w.count = v.count + 1 /\ Uncounted(w) = 0
<1> DEFINE x == [v EXCEPT !.inmodeset = FALSE, !.refcount = v.refcount - 1]
           u == store_vblank(x, 1)
<1>1. v.refcount - 1 \in Nat /\ v.count \in Nat
  BY DEF VblankCrtc
<1>2. x \in VblankCrtc /\ x.hwcnt = v.hwcnt /\ x.count = v.count
  BY <1>1 DEF VblankCrtc
<1>3. drm_crtc_vblank_on(v) =
        IF u.refcount # 0 \/ OffDelay = "zero" THEN drm_vblank_enable(u) ELSE u
  BY DEF drm_crtc_vblank_on
<1> HIDE DEF x
<1>4. u \in VblankCrtc /\ u.count = v.count + 1
  BY <1>2, StoreContract DEF SameRefs
<1>5. u.last = u.hwcnt
  BY <1>2 DEF store_vblank, VblankCrtc
<1> HIDE DEF u
<1>6. u.count \in Nat /\ u.hwcnt \in Int
  BY <1>4, VblankCoreAssumption DEF VblankCrtc
<1>7. Uncounted(u) = 0
  BY <1>5, <1>6 DEF Uncounted
<1> DEFINE w == drm_vblank_enable(u)
<1>8. SameFrames(u, w) /\ w \in VblankCrtc
  BY <1>4, EnableFrames, EnableContract DEF SameRefs
<1> HIDE DEF w
<1>9. Uncounted(w) = 0 /\ w.count \in Nat
  BY <1>7, <1>8 DEF SameFrames, VblankCrtc
<1>10. w.count = u.count
  BY <1>6, <1>7, <1>8, <1>9 DEF SameFrames
<1> QED
  BY <1>3, <1>4, <1>7, <1>9, <1>10 DEF w
=============================================================================
