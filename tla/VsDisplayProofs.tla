-------------------------- MODULE VsDisplayProofs --------------------------
(***************************************************************************)
(* Proofs about VsDisplay for any framebuffers, modes, chip generation and *)
(* bound, with and without invisible planes: what the hardware and the     *)
(* vblank references are at every point of a commit's tail, from which the *)
(* safety properties of the runs follow.  The functions of drm_vblank.c    *)
(* enter by their contracts, from DrmVblankCoreProofs.                     *)
(***************************************************************************)
EXTENDS VsDisplay, DrmVblankCoreProofs, FiniteSetTheorems, SequenceTheorems,
        WellFoundedInduction, TLAPS

-----------------------------------------------------------------------------
(* The inductive invariant *)

BeforeDisable == {"dependencies", "bridge_disable", "crtc_disable"}
BetweenOffAndOn == {"set_mode", "begin", "plane", "oops", "flush", "arm", "crtc_enable"}
AfterEnable == {"idle", "bridge_enable", "hw_done"}
BeforeMode == BeforeDisable \cup {"clk_disable", "set_mode"}
BeforePlane == BeforeMode \cup {"begin", "plane"}
BeforeArm == BeforePlane \cup {"oops", "flush", "arm"}

(* What drm_atomic_helper_check and stall_checks let through: acceptable   *)
(* states at both ends of a commit, and room for it on the trail.          *)
SubmitOK ==
    /\ Acceptable(st) /\ Acceptable(com.old)
    /\ com.pc # "idle" => Len(trail) < 2

(* Whether the CRTC is on at this point of the tail: as the old state says *)
(* until atomic_disable ran, off in a modeset until atomic_enable ran, and *)
(* as the new state says from there on.                                    *)
CrtcIsOn ==
    \/ com.pc \in BeforeDisable /\ com.old.active
    \/ com.pc \in BetweenOffAndOn /\ com.old.active /\ ~Modeset
    \/ com.pc \in AfterEnable /\ st.active

(* The pixel clock and the vblank code follow the CRTC; inside its two     *)
(* hooks the vblank code is off and the clock still or already on.         *)
CrtcOK ==
    /\ com.pc = "clk_disable" => crtc_needs_disable
    /\ com.pc = "vblank_on" => NeedsEnable
    /\ hw.clk <=> CrtcIsOn \/ com.pc \in {"clk_disable", "vblank_on"}
    /\ vb.inmodeset <=> ~CrtcIsOn
    /\ vb.inmodeset => ~vb.enabled

(* Each generation has its own way to run the panel, and the panel does    *)
(* not run without the clock, nor when the clock is about to stop.         *)
PanelOK ==
    /\ hw.running => DC8200 /\ hw.clk
    /\ hw.reset => ~DC8200 /\ hw.clk
    /\ com.pc \in {"crtc_disable", "clk_disable"} /\ crtc_needs_disable =>
          ~hw.running /\ ~hw.reset

(* The rate is that of the last mode there was, the CRTC active or not: an *)
(* activation without a mode change does not set it again.                 *)
RateOK ==
    /\ com.pc \in BeforeMode =>
          (com.old.mode # None => hw.rate = com.old.mode)
    /\ com.pc \notin BeforeMode =>
          (st.mode # None => hw.rate = st.mode)

(* s is what the plane shows.  An attached plane has its enable bit set on *)
(* the DC8200, visible or not.                                             *)
Shows(s) ==
    /\ s.vis => hw.addr = s.fb
    /\ DC8200 /\ s.fb # None => hw.en

PlaneOK ==
    /\ com.pc \in BeforePlane => Shows(com.old)
    /\ com.pc \notin BeforePlane \cup {"oops"} => Shows(st)
    /\ hw.valid => com.pc \in {"plane", "oops", "flush"} /\ ~DC8200

(* Who has flipped: only a commit that waits for its dependencies has one  *)
(* before it that has not; a commit keeps its event until it arms it, and  *)
(* has not flipped before.                                                 *)
FlipOK ==
    /\ com.pc # "dependencies" => dep
    /\ com.pc = "dependencies" => (flip <=> ~com.event)
    /\ com.event => com.pc \in BeforeArm /\ ~flip

IInv ==
    /\ TypeOK
    /\ SubmitOK
    /\ CrtcOK
    /\ PanelOK
    /\ RateOK
    /\ PlaneOK
    /\ FlipOK
    /\ OneFlip
    /\ RefsHeld

-----------------------------------------------------------------------------
(* The trail of commits and the shift of the count *)

Trailing == [pc: {"get", "wait"}, base: Nat, sync: BOOLEAN, freed: BOOLEAN]
Events == [seq: Nat, fb: FBs \cup {None}]

(* A set of numbers with a member has a least one. *)
LEMMA LeastNat ==
    ASSUME NEW T \in SUBSET Nat, T # {}
    PROVE  \E m \in T : \A n \in T : m =< n
<1> DEFINE R == OpToRel(<, Nat)
<1>1. IsWellFoundedOn(R, Nat)
  BY NatLessThanWellFounded
<1>2. R = {ss \in Nat \X Nat : ss[1] < ss[2]}
  BY DEF OpToRel
<1> HIDE DEF R
<1>3. PICK m \in T : \A n \in T : ~(<<n, m>> \in R)
  BY <1>1, WFMin
<1>4. ASSUME NEW n \in T PROVE m =< n
  <2>1. ~(<<n, m>> \in {ss \in Nat \X Nat : ss[1] < ss[2]})
    BY <1>2, <1>3
  <2> QED
    BY <2>1
<1> QED
  BY <1>4

(* Rebase moves the samples and the count together, none below zero, and   *)
(* leaves references, waits and the armed event as they are.               *)
LEMMA RebaseContract ==
    ASSUME NEW v \in VblankCrtc, NEW p \in Events, NEW tr \in Seq(Trailing),
           Rebase(v, p, tr)
    PROVE  /\ SameRefs(v, vb') /\ vb'.enabled = v.enabled
           /\ pend' \in Events /\ (pend'.seq = 0 <=> p.seq = 0)
           /\ trail' \in Seq(Trailing) /\ Len(trail') = Len(tr)
           /\ Waiting(trail') = Waiting(tr)
<1> DEFINE used == {v.count} \cup {tr[k].base : k \in Waiting(tr)}
                   \cup (IF p.seq = 0 THEN {} ELSE {p.seq - 1})
           low == CHOOSE m \in used : \A n \in used : m =< n
<1>1. /\ Len(tr) \in Nat /\ DOMAIN tr = 1..Len(tr)
      /\ \A k \in DOMAIN tr : tr[k] \in Trailing
  BY LenProperties, ElementOfSeq
<1>2. used \in SUBSET Nat /\ used # {}
  <2>1. v.count \in Nat /\ p.seq \in Nat
    BY DEF VblankCrtc, Events
  <2>2. \A k \in Waiting(tr) : tr[k].base \in Nat
    BY <1>1 DEF Waiting, Trailing
  <2> QED
    BY <2>1, <2>2
<1>3. low \in used /\ \A n \in used : low =< n
  <2> HIDE DEF used
  <2>1. \E m \in used : \A n \in used : m =< n
    BY <1>2, LeastNat
  <2> QED
    BY <2>1
<1>4. /\ low \in Nat /\ low =< v.count
      /\ p.seq # 0 => low =< p.seq - 1
      /\ \A k \in Waiting(tr) : low =< tr[k].base
  BY <1>2, <1>3
<1>5. /\ vb' = [v EXCEPT !.count = @ - low]
      /\ pend' = IF p.seq = 0 THEN p ELSE [p EXCEPT !.seq = @ - low]
      /\ trail' = [k \in DOMAIN tr |-> IF tr[k].pc = "wait"
                                       THEN [tr[k] EXCEPT !.base = @ - low]
                                       ELSE tr[k]]
  BY DEF Rebase
<1> HIDE DEF low, used
<1>6. SameRefs(v, vb') /\ vb'.enabled = v.enabled
  BY <1>4, <1>5 DEF SameRefs, VblankCrtc
<1>7. pend' \in Events /\ (pend'.seq = 0 <=> p.seq = 0)
  <2>1. CASE p.seq = 0
    BY <1>5, <2>1
  <2>2. CASE p.seq # 0
    <3>1. p.seq - low \in Nat /\ p.seq - low # 0
      BY <1>4, <2>2 DEF Events
    <3> DEFINE s == p.seq - low
    <3>2. pend' = [p EXCEPT !.seq = s]
      BY <1>5, <2>2
    <3> HIDE DEF s
    <3>3. pend' \in Events /\ pend'.seq = s
      BY <3>1, <3>2 DEF Events, s
    <3> QED
      BY <2>2, <3>1, <3>3 DEF s
  <2> QED
    BY <2>1, <2>2
<1>8. /\ DOMAIN trail' = 1..Len(tr)
      /\ \A k \in 1..Len(tr) : trail'[k] \in Trailing /\ trail'[k].pc = tr[k].pc
  <2> SUFFICES ASSUME NEW k \in 1..Len(tr)
               PROVE  trail'[k] \in Trailing /\ trail'[k].pc = tr[k].pc
    BY <1>1, <1>5
  <2>1. CASE tr[k].pc = "wait"
    <3>1. tr[k] \in Trailing /\ low =< tr[k].base
      BY <1>1, <1>4, <2>1 DEF Waiting
    <3>2. trail'[k] = [tr[k] EXCEPT !.base = @ - low]
      BY <1>1, <1>5, <2>1
    <3> DEFINE s == tr[k].base - low
    <3>3. s \in Nat
      BY <1>4, <3>1 DEF Trailing
    <3>4. trail'[k] = [tr[k] EXCEPT !.base = s]
      BY <3>2
    <3> HIDE DEF s
    <3> QED
      BY <3>1, <3>3, <3>4 DEF Trailing
  <2>2. CASE tr[k].pc # "wait"
    BY <1>1, <1>5, <2>2
  <2> QED
    BY <2>1, <2>2
<1>9. trail' \in Seq(Trailing) /\ Len(trail') = Len(tr)
  <2>1. trail' \in [1..Len(tr) -> Trailing]
    BY <1>1, <1>5, <1>8
  <2> QED
    BY <1>1, <2>1
<1>10. Waiting(trail') = Waiting(tr)
  BY <1>1, <1>8 DEF Waiting
<1> QED
  BY <1>6, <1>7, <1>9, <1>10

(* The cleanup of commit k takes it, and no other, off the trail. *)
LEMMA CleanedContract ==
    ASSUME trail \in Seq(Trailing), NEW k \in DOMAIN trail
    PROVE  /\ Cleaned(k) \in Seq(Trailing)
           /\ Len(Cleaned(k)) = Len(trail) - 1
           /\ Cardinality(Waiting(Cleaned(k))) =
                Cardinality(Waiting(trail) \ {k})
<1> DEFINE g == [j \in DOMAIN trail |-> IF j = k - 1 THEN [trail[j] EXCEPT !.freed = TRUE]
                                                     ELSE trail[j]]
           n == Len(trail)
           C == Cleaned(k)
           a == SubSeq(g, 1, k - 1)
           b == SubSeq(g, k + 1, n)
<1>1. /\ n \in Nat /\ DOMAIN trail = 1..n /\ k \in 1..n
      /\ \A j \in 1..n : trail[j] \in Trailing
  BY LenProperties, ElementOfSeq
<1>2. /\ g \in [1..n -> Trailing] /\ Len(g) = n
      /\ \A j \in 1..n : g[j] \in Trailing /\ g[j].pc = trail[j].pc
  <2>1. \A j \in 1..n : g[j] \in Trailing /\ g[j].pc = trail[j].pc
    BY <1>1 DEF Trailing
  <2>2. g \in [1..n -> Trailing]
    BY <1>1, <2>1
  <2>3. g \in Seq(Trailing) /\ Len(g) = n
    BY <1>1, <2>2
  <2> QED
    BY <2>1, <2>2, <2>3
<1>3. C = a \o b
  BY <1>2 DEF Cleaned, RemoveAt
<1> HIDE DEF g
<1>4. a \in Seq(Trailing) /\ Len(a) = k - 1 /\ \A j \in 1..(k - 1) : a[j] = g[j]
  BY <1>1, <1>2, SubSeqProperties
<1>5. b \in Seq(Trailing) /\ Len(b) = n - k /\ \A j \in 1..(n - k) : b[j] = g[k + j]
  <2>1. k + 1 \in Int /\ n \in Int /\ \A j \in (k + 1)..n : g[j] \in Trailing
    BY <1>1, <1>2
  <2>2. /\ SubSeq(g, k + 1, n) \in Seq(Trailing)
        /\ Len(SubSeq(g, k + 1, n)) = IF k + 1 =< n THEN n - (k + 1) + 1 ELSE 0
        /\ \A i \in 1 .. n - (k + 1) + 1 : SubSeq(g, k + 1, n)[i] = g[k + 1 + i - 1]
    BY <2>1, SubSeqProperties
  <2> QED
    BY <1>1, <2>2, SMTT(30)
<1> HIDE DEF a, b
<1>6. C \in Seq(Trailing) /\ Len(C) = n - 1
  <2>1. a \o b \in Seq(Trailing) /\ Len(a \o b) = Len(a) + Len(b)
    BY <1>4, <1>5, ConcatProperties
  <2>2. (k - 1) + (n - k) = n - 1
    BY <1>1
  <2> QED
    BY <1>3, <1>4, <1>5, <2>1, <2>2
<1>7. \A j \in 1..(n - 1) : C[j].pc = IF j < k THEN trail[j].pc ELSE trail[j + 1].pc
  <2> SUFFICES ASSUME NEW j \in 1..(n - 1)
               PROVE  C[j].pc = IF j < k THEN trail[j].pc ELSE trail[j + 1].pc
    OBVIOUS
  <2>1. C[j] = IF j =< k - 1 THEN a[j] ELSE b[j - (k - 1)]
    BY <1>1, <1>3, <1>4, <1>5, ConcatProperties
  <2>2. CASE j < k
    BY <1>1, <1>2, <1>4, <2>1, <2>2
  <2>3. CASE ~(j < k)
    <3>1. j - (k - 1) \in 1..(n - k) /\ k + (j - (k - 1)) = j + 1 /\ j + 1 \in 1..n
      BY <1>1, <2>3
    <3>2. C[j] = g[j + 1]
      BY <1>1, <1>5, <2>1, <2>3, <3>1
    <3> QED
      BY <1>2, <2>3, <3>1, <3>2
  <2> QED
    BY <2>2, <2>3
<1> DEFINE A == Waiting(C)
           B == Waiting(trail) \ {k}
           f == [j \in A |-> IF j < k THEN j ELSE j + 1]
<1>8. A = {j \in 1..(n - 1) : C[j].pc = "wait"}
  BY <1>1, <1>6, LenProperties DEF Waiting
<1>9. B = {j \in 1..n : j # k /\ trail[j].pc = "wait"}
  BY <1>1 DEF Waiting
<1>10. f \in Bijection(A, B)
  <2> HIDE DEF C, A, B
  <2>1. \A j \in A : f[j] \in B
    BY <1>1, <1>7, <1>8, <1>9
  <2>2. \A i, j \in A : f[i] = f[j] => i = j
    BY <1>1, <1>8
  <2>3. \A m \in B : \E j \in A : f[j] = m
    <3> SUFFICES ASSUME NEW m \in B PROVE \E j \in A : f[j] = m
      OBVIOUS
    <3>1. m \in 1..n /\ m # k /\ trail[m].pc = "wait"
      BY <1>9
    <3>2. CASE m < k
      <4>1. m \in A
        BY <1>1, <1>7, <1>8, <3>1, <3>2
      <4> QED
        BY <3>2, <4>1
    <3>3. CASE m > k
      <4>1. m - 1 \in 1..(n - 1) /\ ~(m - 1 < k) /\ (m - 1) + 1 = m
        BY <1>1, <3>1, <3>3
      <4>2. m - 1 \in A
        BY <1>7, <1>8, <3>1, <4>1
      <4> QED
        BY <4>1, <4>2
    <3> QED
      BY <1>1, <3>1, <3>2, <3>3
  <2> HIDE DEF f
  <2>4. f \in [A -> B]
    BY <2>1 DEF f
  <2> QED
    BY <2>2, <2>3, <2>4 DEF Bijection, Injection, Surjection, IsInjective
<1>11. IsFiniteSet(A)
  <2>1. IsFiniteSet(1..(n - 1))
    BY <1>1, FS_Interval
  <2> QED
    BY <1>8, <2>1, FS_Subset
<1>12. Cardinality(A) = Cardinality(B)
  BY <1>10, <1>11, FS_Bijection DEF ExistsBijection
<1> QED
  BY <1>6, <1>12

-----------------------------------------------------------------------------
(* The steps *)

Hw == [clk: BOOLEAN, rate: Modes \cup {None}, running: BOOLEAN, reset: BOOLEAN,
       en: BOOLEAN, valid: BOOLEAN, addr: FBs \cup {None}, frames: 0..2]

Pcs == {"idle", "dependencies", "bridge_disable", "crtc_disable", "clk_disable", "set_mode",
        "begin", "plane", "oops", "flush", "arm", "crtc_enable", "vblank_on", "bridge_enable",
        "hw_done"}

(* The output that is off at the start satisfies the invariant. *)
LEMMA InitIInv == Init => IInv
<1> SUFFICES ASSUME Init PROVE IInv
  OBVIOUS
<1> USE VsDisplayAssumption, VblankCoreAssumption DEF Init
<1>1. TypeOK
  <2>1. vb \in VblankCrtc
    BY DEF VblankCrtc, drm_crtc_vblank_reset
  <2>2. /\ st \in States
        /\ com \in [pc: Pcs, old: States, conn: BOOLEAN, event: BOOLEAN, legacy: BOOLEAN]
    BY DEF States, OffState, Idle, Pcs
  <2>3. pend \in Events /\ hw \in Hw
    BY DEF NoEvent, Events, Hw
  <2>4. trail \in Seq(Trailing) /\ Len(trail) =< 2
    BY EmptySeq
  <2> QED
    BY <2>1, <2>2, <2>3, <2>4 DEF TypeOK, Pcs, Events, Hw, Trailing
<1>2. SubmitOK
  BY DEF SubmitOK, Acceptable, vs_primary_plane_atomic_check, Idle, OffState
<1>3. CrtcOK
  BY DEF CrtcOK, CrtcIsOn, BeforeDisable, BetweenOffAndOn, AfterEnable, Idle, OffState,
         drm_crtc_vblank_reset
<1>4. PanelOK /\ RateOK /\ PlaneOK
  BY DEF PanelOK, RateOK, PlaneOK, Shows, BeforePlane, BeforeMode, BeforeDisable, Idle, OffState
<1>5. FlipOK /\ OneFlip
  BY DEF FlipOK, OneFlip, BeforeArm, Idle, NoEvent
<1>6. RefsHeld
  <2>1. Waiting(trail) = {}
    BY DEF Waiting
  <2>2. Cardinality(Waiting(trail)) = 0
    BY <2>1, FS_EmptySet
  <2> QED
    BY <2>2 DEF RefsHeld, NoEvent, drm_crtc_vblank_reset
<1> QED
  BY <1>1, <1>2, <1>3, <1>4, <1>5, <1>6 DEF IInv

(* The types, and what the references say of the vblank record. *)
LEMMA Facts ==
    ASSUME IInv
    PROVE  /\ vb \in VblankCrtc /\ vb.refcount \in Nat
           /\ vb.inmodeset \in BOOLEAN /\ vb.enabled \in BOOLEAN
           /\ st \in States /\ com.old \in States /\ com.pc \in Pcs
           /\ com \in [pc: Pcs, old: States, conn: BOOLEAN, event: BOOLEAN, legacy: BOOLEAN]
           /\ pend \in Events /\ pend.seq \in Nat
           /\ trail \in Seq(Trailing) /\ Len(trail) \in Nat /\ Len(trail) =< 2
           /\ hw \in Hw
           /\ IsFiniteSet(Waiting(trail)) /\ Cardinality(Waiting(trail)) \in Nat
           /\ vb.refcount = 0 => ~vb.inmodeset
           /\ vb.inmodeset => vb.refcount >= 1
           /\ pend.seq # 0 => vb.refcount >= 1
           /\ VblankGetOk(vb) => ~vb.inmodeset
<1>1. /\ vb \in VblankCrtc /\ vb.refcount \in Nat
      /\ vb.inmodeset \in BOOLEAN /\ vb.enabled \in BOOLEAN
  BY DEF IInv, TypeOK, VblankCrtc
<1>2. /\ st \in States
      /\ com \in [pc: Pcs, old: States, conn: BOOLEAN, event: BOOLEAN, legacy: BOOLEAN]
      /\ pend \in Events /\ hw \in Hw
      /\ trail \in Seq(Trailing) /\ Len(trail) =< 2
  BY DEF IInv, TypeOK, Pcs, Events, Hw, Trailing
<1>3. com.old \in States /\ com.pc \in Pcs /\ pend.seq \in Nat
  BY <1>2 DEF Events
<1>4. Len(trail) \in Nat /\ DOMAIN trail = 1..Len(trail)
  BY <1>2, LenProperties
<1>5. IsFiniteSet(Waiting(trail)) /\ Cardinality(Waiting(trail)) \in Nat
  <2>1. IsFiniteSet(1..Len(trail))
    BY <1>4, FS_Interval
  <2>2. Waiting(trail) \subseteq 1..Len(trail)
    BY <1>4 DEF Waiting
  <2> QED
    BY <2>1, <2>2, FS_Subset, FS_CardinalityType
<1> DEFINE c == Cardinality(Waiting(trail))
<1>6. vb.refcount = (IF vb.inmodeset THEN 1 ELSE 0) + (IF pend.seq = 0 THEN 0 ELSE 1) + c
  BY DEF IInv, RefsHeld
<1> HIDE DEF c
<1>7. c \in Nat
  BY <1>5 DEF c
<1>8. /\ vb.refcount = 0 => ~vb.inmodeset
      /\ vb.inmodeset => vb.refcount >= 1
      /\ pend.seq # 0 => vb.refcount >= 1
  BY <1>1, <1>6, <1>7
<1>9. VblankGetOk(vb) => ~vb.inmodeset
  BY <1>8 DEF VblankGetOk, IInv, CrtcOK
<1> QED
  BY <1>1, <1>2, <1>3, <1>4, <1>5, <1>8, <1>9

(* A step of the tail that touches the registers only leaves states, flips *)
(* and references as they are.                                             *)
LEMMA RegisterStep ==
    ASSUME IInv, com.pc # "idle", NEW to \in Pcs, to # "dependencies", dep,
           com' = [com EXCEPT !.pc = to],
           com.event => to \in BeforeArm,
           UNCHANGED <<vb, st, dep, flip, pend, trail, irq>>,
           hw' \in Hw
    PROVE  TypeOK' /\ SubmitOK' /\ FlipOK' /\ OneFlip' /\ RefsHeld'
<1>1. /\ com'.pc = to /\ com'.old = com.old /\ com'.conn = com.conn /\ com'.event = com.event
      /\ com' \in [pc: Pcs, old: States, conn: BOOLEAN, event: BOOLEAN, legacy: BOOLEAN]
  BY Facts
<1>2. TypeOK'
  BY <1>1 DEF IInv, TypeOK, Pcs, Hw
<1>3. SubmitOK'
  BY <1>1 DEF IInv, SubmitOK
<1>4. FlipOK' /\ OneFlip'
  BY <1>1 DEF IInv, FlipOK, OneFlip
<1>5. RefsHeld'
  BY DEF IInv, RefsHeld
<1> QED
  BY <1>2, <1>3, <1>4, <1>5

LEMMA DependenciesStep == IInv /\ WaitForDependencies => IInv'
<1> SUFFICES ASSUME IInv, WaitForDependencies PROVE IInv'
  OBVIOUS
<1>1. /\ dep /\ com.pc = "dependencies" /\ com' = [com EXCEPT !.pc = "bridge_disable"]
      /\ UNCHANGED <<vb, st, dep, flip, pend, trail, hw, irq>>
  BY DEF WaitForDependencies, Step
<1>2. com'.pc = "bridge_disable" /\ com'.old = com.old /\ com'.conn = com.conn
  BY <1>1, Facts
<1>3. TypeOK' /\ SubmitOK' /\ FlipOK' /\ OneFlip' /\ RefsHeld'
  BY <1>1, Facts, RegisterStep DEF Pcs, BeforeArm, BeforePlane, BeforeMode, BeforeDisable
<1>4. CrtcOK'
  BY <1>1, <1>2 DEF IInv, CrtcOK, CrtcIsOn, BeforeDisable, BetweenOffAndOn, AfterEnable
<1>5. PanelOK' /\ RateOK' /\ PlaneOK'
  BY <1>1, <1>2 DEF IInv, PanelOK, RateOK, PlaneOK, Shows, BeforePlane, BeforeMode, BeforeDisable
<1> QED
  BY <1>3, <1>4, <1>5 DEF IInv

LEMMA BridgeDisableStep == IInv /\ BridgeDisable => IInv'
<1> SUFFICES ASSUME IInv, BridgeDisable PROVE IInv'
  OBVIOUS
<1>1. /\ com.pc = "bridge_disable" /\ com' = [com EXCEPT !.pc = "crtc_disable"]
      /\ UNCHANGED <<vb, st, dep, flip, pend, trail, irq>>
      /\ hw' = IF crtc_needs_disable THEN vs_bridge_atomic_disable(hw) ELSE hw
  BY DEF BridgeDisable, Step
<1>2. com'.pc = "crtc_disable" /\ com'.old = com.old /\ com'.conn = com.conn
  BY <1>1, Facts
<1>3. /\ hw' \in Hw /\ hw'.clk = hw.clk /\ hw'.rate = hw.rate /\ hw'.en = hw.en
      /\ hw'.valid = hw.valid /\ hw'.addr = hw.addr
      /\ DC8200 => hw'.reset = hw.reset /\ (hw'.running => hw.running)
      /\ ~DC8200 => hw'.running = hw.running /\ (hw'.reset => hw.reset)
      /\ crtc_needs_disable => IF DC8200 THEN ~hw'.running ELSE ~hw'.reset
  <2>1. hw \in Hw
    BY Facts
  <2>2. CASE crtc_needs_disable /\ DC8200
    BY <1>1, <2>1, <2>2 DEF Hw, vs_bridge_atomic_disable, vs_dc8200_panel_disable_ex
  <2>3. CASE crtc_needs_disable /\ ~DC8200
    BY <1>1, <2>1, <2>3 DEF Hw, vs_bridge_atomic_disable, vs_dc8000_panel_disable_ex
  <2>4. CASE ~crtc_needs_disable
    BY <1>1, <2>1, <2>4
  <2> QED
    BY <2>2, <2>3, <2>4
<1>4. TypeOK' /\ SubmitOK' /\ FlipOK' /\ OneFlip' /\ RefsHeld'
  BY <1>1, <1>3, RegisterStep
  DEF Pcs, BeforeArm, BeforePlane, BeforeMode, BeforeDisable, IInv, FlipOK
<1>5. CrtcOK'
  BY <1>1, <1>2, <1>3
  DEF IInv, CrtcOK, CrtcIsOn, BeforeDisable, BetweenOffAndOn, AfterEnable
<1>6. crtc_needs_disable' <=> crtc_needs_disable
  BY <1>1, <1>2 DEF crtc_needs_disable, Modeset
<1>7. PanelOK'
  BY <1>1, <1>2, <1>3, <1>6 DEF IInv, PanelOK
<1>8. RateOK' /\ PlaneOK'
  BY <1>1, <1>2, <1>3 DEF IInv, RateOK, PlaneOK, Shows, BeforePlane, BeforeMode, BeforeDisable
<1> QED
  BY <1>4, <1>5, <1>7, <1>8 DEF IInv

LEMMA SetModeStep == IInv /\ SetMode => IInv'
<1> SUFFICES ASSUME IInv, SetMode PROVE IInv'
  OBVIOUS
<1>1. /\ com.pc = "set_mode" /\ com' = [com EXCEPT !.pc = "begin"]
      /\ UNCHANGED <<vb, st, dep, flip, pend, trail, irq>>
      /\ hw' = IF mode_changed(com.old, st) /\ st.mode # None
               THEN vs_crtc_mode_set_nofb(hw, st.mode) ELSE hw
  BY DEF SetMode, Step
<1>2. com'.pc = "begin" /\ com'.old = com.old /\ com'.conn = com.conn
  BY <1>1, Facts
<1>3. /\ hw' \in Hw /\ hw'.clk = hw.clk /\ hw'.en = hw.en
      /\ hw'.valid = hw.valid /\ hw'.addr = hw.addr
      /\ hw'.running = hw.running /\ hw'.reset = hw.reset
      /\ hw'.rate = IF com.old.mode # st.mode /\ st.mode # None THEN st.mode ELSE hw.rate
  <2>1. hw \in Hw /\ st.mode \in Modes \cup {None}
    BY Facts DEF States
  <2> QED
    BY <1>1, <2>1 DEF Hw, vs_crtc_mode_set_nofb, mode_changed
<1>4. TypeOK' /\ SubmitOK' /\ FlipOK' /\ OneFlip' /\ RefsHeld'
  BY <1>1, <1>3, RegisterStep
  DEF Pcs, BeforeArm, BeforePlane, BeforeMode, BeforeDisable, IInv, FlipOK
<1>5. CrtcOK'
  <2>1. Modeset' <=> Modeset
    BY <1>1, <1>2 DEF Modeset
  <2> QED
    BY <1>1, <1>2, <1>3, <2>1
    DEF IInv, CrtcOK, CrtcIsOn, BeforeDisable, BetweenOffAndOn, AfterEnable
<1>6. PanelOK' /\ RateOK' /\ PlaneOK'
  BY <1>1, <1>2, <1>3
  DEF IInv, PanelOK, RateOK, PlaneOK, Shows, BeforePlane, BeforeMode, BeforeDisable
<1> QED
  BY <1>4, <1>5, <1>6 DEF IInv

(* The armed event goes out: with the previous flip done it is the event   *)
(* of the latest commit that reached the vblank code, and otherwise that   *)
(* of the commit the one in its tail waits for.                            *)
LEMMA DeliverContract ==
    ASSUME IInv, pend.seq # 0, Deliver
    PROVE  /\ dep' \in BOOLEAN /\ flip' \in BOOLEAN /\ dep'
           /\ \/ dep /\ ~com.event /\ flip'
              \/ com.pc = "dependencies" /\ flip' = flip /\ (flip <=> ~com.event)
<1>1. dep \in BOOLEAN /\ flip \in BOOLEAN
  BY DEF IInv, TypeOK
<1>2. CASE dep
  <2>1. ~com.event
    BY <1>2 DEF IInv, OneFlip
  <2> QED
    BY <1>1, <1>2, <2>1 DEF Deliver
<1>3. CASE ~dep
  <2>1. com.pc = "dependencies" /\ (flip <=> ~com.event)
    BY <1>3 DEF IInv, FlipOK
  <2> QED
    BY <1>1, <1>3, <2>1 DEF Deliver
<1> QED
  BY <1>2, <1>3

LEMMA CrtcDisableStep == IInv /\ CrtcDisable => IInv'
<1> SUFFICES ASSUME IInv, CrtcDisable PROVE IInv'
  OBVIOUS
<1> DEFINE to == IF crtc_needs_disable THEN "clk_disable" ELSE "set_mode"
<1>1. /\ com.pc = "crtc_disable" /\ com' = [com EXCEPT !.pc = to]
      /\ UNCHANGED <<st, trail, hw, irq>>
  BY DEF CrtcDisable, Step
<1>2. /\ com'.pc = to /\ com'.old = com.old /\ com'.conn = com.conn /\ com'.event = com.event
      /\ com' \in [pc: Pcs, old: States, conn: BOOLEAN, event: BOOLEAN, legacy: BOOLEAN]
  BY <1>1, Facts DEF Pcs
<1>3. (Modeset' <=> Modeset) /\ (crtc_needs_disable' <=> crtc_needs_disable) /\ dep
  BY <1>1, <1>2 DEF Modeset, crtc_needs_disable, IInv, FlipOK
<1>4. CASE ~crtc_needs_disable
  <2>1. UNCHANGED <<vb, pend, dep, flip>> /\ to = "set_mode"
    BY <1>4 DEF CrtcDisable
  <2>2. TypeOK' /\ SubmitOK' /\ FlipOK' /\ OneFlip' /\ RefsHeld'
    BY <1>1, <1>3, <2>1, Facts, RegisterStep
    DEF Pcs, BeforeArm, BeforePlane, BeforeMode, BeforeDisable
  <2>3. CrtcOK'
    BY <1>1, <1>2, <1>3, <1>4, <2>1
    DEF IInv, CrtcOK, CrtcIsOn, BeforeDisable, BetweenOffAndOn, AfterEnable, crtc_needs_disable
  <2>4. PanelOK' /\ RateOK' /\ PlaneOK'
    BY <1>1, <1>2, <2>1
    DEF IInv, PanelOK, RateOK, PlaneOK, Shows, BeforePlane, BeforeMode, BeforeDisable
  <2> QED
    BY <2>2, <2>3, <2>4 DEF IInv
<1>5. CASE crtc_needs_disable
  <2> DEFINE n == IF pend.seq = 0 THEN 0 ELSE 1
  <2>1. /\ vb' = drm_crtc_vblank_off(vb, n) /\ pend' = NoEvent /\ to = "clk_disable"
        /\ IF pend.seq = 0 THEN UNCHANGED <<dep, flip>> ELSE Deliver
    BY <1>5 DEF CrtcDisable
  <2>2. ~vb.inmodeset /\ n \in Nat /\ n =< vb.refcount
    BY <1>1, <1>5, Facts DEF IInv, CrtcOK, CrtcIsOn, BeforeDisable, crtc_needs_disable
  <2>3. /\ vb' \in VblankCrtc /\ vb'.refcount = vb.refcount + 1 - n
        /\ vb'.inmodeset /\ ~vb'.enabled
    BY <2>1, <2>2, Facts, OffContract
  <2>4. hw' = hw /\ hw.clk
    BY <1>1, <1>5 DEF IInv, CrtcOK, CrtcIsOn, BeforeDisable, crtc_needs_disable
  <2>5. pend' \in Events /\ pend'.seq = 0
    BY <2>1 DEF NoEvent, Events
  <2>6. /\ dep' \in BOOLEAN /\ flip' \in BOOLEAN /\ dep'
        /\ com.event => ~flip'
        /\ ~flip' => com.event
    <3>1. CASE pend.seq = 0
      <4>1. dep' = dep /\ flip' = flip
        BY <2>1, <3>1
      <4> QED
        BY <1>3, <3>1, <4>1 DEF IInv, TypeOK, FlipOK, OneFlip
    <3>2. CASE pend.seq # 0
      BY <1>1, <2>1, <3>2, DeliverContract
    <3> QED
      BY <3>1, <3>2
  <2>7. TypeOK'
    BY <1>1, <1>2, <2>1, <2>3, <2>5, <2>6 DEF IInv, TypeOK, Pcs, Hw, Events
  <2>8. SubmitOK'
    BY <1>1, <1>2 DEF IInv, SubmitOK
  <2>9. CrtcOK'
    BY <1>2, <1>3, <1>5, <2>1, <2>3, <2>4
    DEF CrtcOK, CrtcIsOn, BeforeDisable, BetweenOffAndOn, AfterEnable
  <2>10. PanelOK'
    BY <1>1, <1>2, <1>5, <2>4 DEF IInv, PanelOK
  <2>11. RateOK' /\ PlaneOK'
    BY <1>1, <1>2, <2>1, <2>4
    DEF IInv, RateOK, PlaneOK, Shows, BeforePlane, BeforeMode, BeforeDisable
  <2>12. FlipOK' /\ OneFlip'
    BY <1>1, <1>2, <2>1, <2>5, <2>6
    DEF FlipOK, OneFlip, BeforeArm, BeforePlane, BeforeMode, BeforeDisable
  <2>13. RefsHeld'
    <3> DEFINE c == Cardinality(Waiting(trail))
    <3>1. vb.refcount = (IF pend.seq = 0 THEN 0 ELSE 1) + c
      BY <2>2, Facts DEF IInv, RefsHeld
    <3>2. Cardinality(Waiting(trail))' = c /\ c \in Nat
      BY <1>1, Facts
    <3> HIDE DEF c
    <3>3. vb'.refcount = 1 + c
      BY <2>3, <3>1, <3>2
    <3> QED
      BY <2>3, <2>5, <3>2, <3>3 DEF RefsHeld
  <2> QED
    BY <2>7, <2>8, <2>9, <2>10, <2>11, <2>12, <2>13 DEF IInv
<1> QED
  BY <1>4, <1>5

LEMMA ClkDisableStep == IInv /\ ClkDisable => IInv'
<1> SUFFICES ASSUME IInv, ClkDisable PROVE IInv'
  OBVIOUS
<1>1. /\ com.pc = "clk_disable" /\ com' = [com EXCEPT !.pc = "set_mode"]
      /\ UNCHANGED <<vb, st, dep, flip, pend, trail, irq>> /\ hw' = CrtcOff(hw)
  BY DEF ClkDisable, Step
<1>2. com'.pc = "set_mode" /\ com'.old = com.old /\ com'.conn = com.conn
  BY <1>1, Facts
<1>3. /\ hw' \in Hw /\ ~hw'.clk /\ hw'.rate = hw.rate /\ (DC8200 => hw'.en = hw.en)
      /\ hw'.valid = hw.valid /\ hw'.addr = hw.addr
      /\ hw'.running = hw.running /\ hw'.reset = hw.reset
  BY <1>1, Facts DEF Hw, CrtcOff, vs_dc8000_crtc_disable_ex
<1>4. TypeOK' /\ SubmitOK' /\ FlipOK' /\ OneFlip' /\ RefsHeld'
  BY <1>1, <1>3, RegisterStep
  DEF Pcs, BeforeArm, BeforePlane, BeforeMode, BeforeDisable, IInv, FlipOK
<1>5. crtc_needs_disable /\ (Modeset' <=> Modeset)
  BY <1>1, <1>2 DEF IInv, CrtcOK, Modeset
<1>6. CrtcOK'
  BY <1>1, <1>2, <1>3, <1>5
  DEF IInv, CrtcOK, CrtcIsOn, BeforeDisable, BetweenOffAndOn, AfterEnable, crtc_needs_disable
<1>7. PanelOK'
  BY <1>1, <1>2, <1>3, <1>5 DEF IInv, PanelOK
<1>8. RateOK' /\ PlaneOK'
  BY <1>1, <1>2, <1>3 DEF IInv, RateOK, PlaneOK, Shows, BeforePlane, BeforeMode, BeforeDisable
<1> QED
  BY <1>4, <1>6, <1>7, <1>8 DEF IInv

LEMMA BeginStep == IInv /\ CrtcBegin => IInv'
<1> SUFFICES ASSUME IInv, CrtcBegin PROVE IInv'
  OBVIOUS
<1>1. /\ com.pc = "begin" /\ com' = [com EXCEPT !.pc = "plane"]
      /\ UNCHANGED <<vb, st, dep, flip, pend, trail, irq>>
      /\ hw' = vs_crtc_atomic_begin(hw)
  BY DEF CrtcBegin, Step
<1>2. com'.pc = "plane" /\ com'.old = com.old /\ com'.conn = com.conn
  BY <1>1, Facts
<1>3. /\ hw' \in Hw /\ hw'.clk = hw.clk /\ hw'.en = hw.en /\ hw'.rate = hw.rate
      /\ hw'.addr = hw.addr /\ (DC8200 => hw'.valid = hw.valid)
      /\ hw'.running = hw.running /\ hw'.reset = hw.reset
  BY <1>1, Facts DEF Hw, vs_crtc_atomic_begin, vs_dc8000_crtc_begin
<1>4. TypeOK' /\ SubmitOK' /\ FlipOK' /\ OneFlip' /\ RefsHeld'
  BY <1>1, <1>3, RegisterStep
  DEF Pcs, BeforeArm, BeforePlane, BeforeMode, BeforeDisable, IInv, FlipOK
<1>5. CrtcOK'
  <2>1. Modeset' <=> Modeset
    BY <1>1, <1>2 DEF Modeset
  <2> QED
    BY <1>1, <1>2, <1>3, <2>1
    DEF IInv, CrtcOK, CrtcIsOn, BeforeDisable, BetweenOffAndOn, AfterEnable
<1>6. PanelOK' /\ RateOK' /\ PlaneOK'
  BY <1>1, <1>2, <1>3
  DEF IInv, PanelOK, RateOK, PlaneOK, Shows, BeforePlane, BeforeMode, BeforeDisable
<1> QED
  BY <1>4, <1>5, <1>6 DEF IInv

LEMMA PlaneStep == IInv /\ PlaneUpdate => IInv'
<1> SUFFICES ASSUME IInv, PlaneUpdate PROVE IInv'
  OBVIOUS
<1> DEFINE to == IF NullCrtc THEN "oops" ELSE "flush"
<1>1. /\ com.pc = "plane" /\ com' = [com EXCEPT !.pc = to]
      /\ UNCHANGED <<vb, st, dep, flip, pend, trail, irq>>
  BY DEF PlaneUpdate, Step
<1>2. com'.pc = to /\ com'.old = com.old /\ com'.conn = com.conn
  BY <1>1, Facts
<1>3. /\ hw' \in Hw /\ hw'.clk = hw.clk /\ hw'.rate = hw.rate /\ hw'.valid = hw.valid
      /\ hw'.running = hw.running /\ hw'.reset = hw.reset
      /\ DC8200 /\ hw.en => hw'.en
      /\ DC8200 /\ ~NullCrtc /\ com.old.fb = None /\ st.fb # None => hw'.en
      /\ ~NullCrtc /\ st.fb # None /\ st.vis => hw'.addr = st.fb
  <2>1. hw \in Hw /\ st.fb \in FBs \cup {None}
    BY Facts DEF States
  <2>2. CASE NullCrtc
    BY <2>1, <2>2 DEF PlaneUpdate
  <2>3. CASE ~NullCrtc
    <3> DEFINE u == vs_primary_plane_atomic_update(hw, st)
    <3>1. hw' = CASE Disabling -> vs_primary_plane_atomic_disable(hw)
                  [] Enabling -> vs_primary_plane_atomic_enable(u)
                  [] ~Disabling /\ ~Enabling /\ st.fb # None -> u
                  [] OTHER -> hw
      BY <2>3 DEF PlaneUpdate
    <3>2. /\ u \in Hw /\ u.clk = hw.clk /\ u.rate = hw.rate /\ u.valid = hw.valid
          /\ u.running = hw.running /\ u.reset = hw.reset
          /\ DC8200 /\ hw.en => u.en
          /\ st.vis => u.addr = st.fb
      <4>1. CASE st.vis
        <5>1. u = [hw EXCEPT !.addr = st.fb, !.frames = 0]
          BY <4>1 DEF vs_primary_plane_atomic_update
        <5>2. 0 \in 0..2
          OBVIOUS
        <5> HIDE DEF u
        <5> QED
          BY <2>1, <5>1, <5>2 DEF Hw
      <4>2. CASE ~st.vis
        <5>1. u = vs_primary_plane_atomic_disable(hw)
          BY <4>2 DEF vs_primary_plane_atomic_update
        <5> HIDE DEF u
        <5> QED
          BY <2>1, <4>2, <5>1
          DEF Hw, vs_primary_plane_atomic_disable, vs_dc8200_primary_plane_disable_ex
      <4> QED
        BY <4>1, <4>2
    <3> HIDE DEF u
    <3>3. CASE Disabling
      <4>1. hw' = vs_primary_plane_atomic_disable(hw) /\ st.fb = None
        BY <3>1, <3>3 DEF Disabling, Enabling
      <4> QED
        BY <2>1, <4>1 DEF Hw, vs_primary_plane_atomic_disable, vs_dc8200_primary_plane_disable_ex
    <3>4. CASE Enabling
      <4>1. hw' = vs_primary_plane_atomic_enable(u)
        BY <3>1, <3>4 DEF Disabling, Enabling
      <4> QED
        BY <3>2, <4>1 DEF Hw, vs_primary_plane_atomic_enable, vs_dc8200_primary_plane_enable_ex
    <3>5. CASE ~Disabling /\ ~Enabling
      <4>1. hw' = IF st.fb # None THEN u ELSE hw
        BY <3>1, <3>5
      <4>2. com.old.fb = None <=> st.fb = None
        BY <3>5 DEF Disabling, Enabling
      <4> QED
        BY <2>1, <3>2, <4>1, <4>2
    <3> QED
      BY <3>3, <3>4, <3>5
  <2> QED
    BY <2>2, <2>3
<1>4. TypeOK' /\ SubmitOK' /\ FlipOK' /\ OneFlip' /\ RefsHeld'
  BY <1>1, <1>3, RegisterStep
  DEF Pcs, BeforeArm, BeforePlane, BeforeMode, BeforeDisable, IInv, FlipOK
<1>5. CrtcOK'
  <2>1. Modeset' <=> Modeset
    BY <1>1, <1>2 DEF Modeset
  <2> QED
    BY <1>1, <1>2, <1>3, <2>1
    DEF IInv, CrtcOK, CrtcIsOn, BeforeDisable, BetweenOffAndOn, AfterEnable
<1>6. PanelOK' /\ RateOK'
  BY <1>1, <1>2, <1>3 DEF IInv, PanelOK, RateOK, BeforeMode, BeforeDisable
<1>7. PlaneOK'
  <2>1. st.vis => st.fb # None
    BY DEF IInv, SubmitOK, Acceptable, vs_primary_plane_atomic_check
  <2>2. Shows(com.old) /\ (hw.valid => ~DC8200)
    BY <1>1 DEF IInv, PlaneOK, BeforePlane
  <2>3. ~NullCrtc => Shows(st)'
    BY <1>1, <1>3, <2>1, <2>2 DEF Shows
  <2> QED
    BY <1>2, <1>3, <2>2, <2>3 DEF PlaneOK, BeforePlane, BeforeMode, BeforeDisable
<1> QED
  BY <1>4, <1>5, <1>6, <1>7 DEF IInv

LEMMA FlushStep == IInv /\ CrtcFlush => IInv'
<1> SUFFICES ASSUME IInv, CrtcFlush PROVE IInv'
  OBVIOUS
<1>1. /\ com.pc = "flush" /\ com' = [com EXCEPT !.pc = "arm"]
      /\ UNCHANGED <<vb, st, dep, flip, pend, trail, irq>>
      /\ hw' = IF DC8200 THEN hw ELSE vs_dc8000_crtc_flush(hw)
  BY DEF CrtcFlush, Step
<1>2. com'.pc = "arm" /\ com'.old = com.old /\ com'.conn = com.conn
  BY <1>1, Facts
<1>3. /\ hw' \in Hw /\ hw'.clk = hw.clk /\ hw'.en = hw.en /\ hw'.rate = hw.rate
      /\ hw'.addr = hw.addr /\ (DC8200 => hw'.valid = hw.valid) /\ (~DC8200 => ~hw'.valid)
      /\ hw'.running = hw.running /\ hw'.reset = hw.reset
  BY <1>1, Facts DEF Hw, vs_dc8000_crtc_flush
<1>4. TypeOK' /\ SubmitOK' /\ FlipOK' /\ OneFlip' /\ RefsHeld'
  BY <1>1, <1>3, RegisterStep
  DEF Pcs, BeforeArm, BeforePlane, BeforeMode, BeforeDisable, IInv, FlipOK
<1>5. CrtcOK'
  <2>1. Modeset' <=> Modeset
    BY <1>1, <1>2 DEF Modeset
  <2> QED
    BY <1>1, <1>2, <1>3, <2>1
    DEF IInv, CrtcOK, CrtcIsOn, BeforeDisable, BetweenOffAndOn, AfterEnable
<1>6. PanelOK' /\ RateOK' /\ PlaneOK'
  BY <1>1, <1>2, <1>3
  DEF IInv, PanelOK, RateOK, PlaneOK, Shows, BeforePlane, BeforeMode, BeforeDisable
<1> QED
  BY <1>4, <1>5, <1>6 DEF IInv

(* What a step that leaves CRTC state, registers and the position in the   *)
(* tail alone has to show: the vblank record keeps its modeset flag, the   *)
(* interrupt of a CRTC that is off stays off.                              *)
LEMMA VblankStep ==
    ASSUME IInv, UNCHANGED <<st, com, hw>>,
           Len(trail') \in Nat, Len(trail') =< Len(trail),
           vb'.inmodeset = vb.inmodeset,
           vb'.inmodeset => ~vb'.enabled
    PROVE  SubmitOK' /\ CrtcOK' /\ PanelOK' /\ RateOK' /\ PlaneOK'
<1>1. SubmitOK'
  BY Facts DEF IInv, SubmitOK, Acceptable, vs_primary_plane_atomic_check
<1>2. CrtcIsOn' <=> CrtcIsOn
  BY DEF CrtcIsOn, Modeset
<1>3. CrtcOK'
  BY <1>2 DEF IInv, CrtcOK, crtc_needs_disable, NeedsEnable, Modeset
<1>4. PanelOK' /\ RateOK' /\ PlaneOK'
  BY DEF IInv, PanelOK, RateOK, PlaneOK, Shows, crtc_needs_disable, Modeset
<1> QED
  BY <1>1, <1>3, <1>4

LEMMA ArmStep == IInv /\ ArmEvent => IInv'
<1> SUFFICES ASSUME IInv, ArmEvent PROVE IInv'
  OBVIOUS
<1>1. /\ com.pc = "arm" /\ com' = [com EXCEPT !.pc = "crtc_enable", !.event = FALSE]
      /\ UNCHANGED <<st, trail, hw, irq>>
  BY DEF ArmEvent
<1>2. /\ com'.pc = "crtc_enable" /\ com'.old = com.old /\ com'.conn = com.conn /\ ~com'.event
      /\ com' \in [pc: Pcs, old: States, conn: BOOLEAN, event: BOOLEAN, legacy: BOOLEAN]
  BY <1>1, Facts DEF Pcs
<1>3. (Modeset' <=> Modeset) /\ dep
  BY <1>1, <1>2 DEF Modeset, IInv, FlipOK
<1>4. SubmitOK' /\ PanelOK' /\ RateOK' /\ PlaneOK'
  BY <1>1, <1>2
  DEF IInv, SubmitOK, PanelOK, RateOK, PlaneOK, Shows, BeforePlane, BeforeMode, BeforeDisable
<1>5. CASE com.event /\ VblankGetOk(vb)
  <2> DEFINE g == drm_vblank_get(vb)
             s == vb'.count + 1
  <2>1. /\ vb' = drm_update_vblank_count(g, FALSE)
        /\ pend' = [seq |-> s, fb |-> IF st.vis THEN st.fb ELSE None]
        /\ UNCHANGED <<dep, flip>>
    BY <1>5 DEF ArmEvent
  <2>2. /\ g \in VblankCrtc /\ g.refcount = vb.refcount + 1
        /\ g.inmodeset = vb.inmodeset /\ g.enabled
    BY <1>5, Facts, GetContract
  <2> HIDE DEF g
  <2>3. /\ vb' \in VblankCrtc /\ vb'.refcount = vb.refcount + 1
        /\ ~vb'.inmodeset /\ ~vb.inmodeset
    BY <1>5, <2>1, <2>2, UpdateContract, Facts DEF SameRefs
  <2>4. s \in Nat /\ s # 0
    BY <2>3 DEF VblankCrtc
  <2> HIDE DEF s
  <2>5. pend' \in Events /\ pend'.seq # 0
    <3>1. (IF st.vis THEN st.fb ELSE None) \in FBs \cup {None}
      BY Facts DEF States
    <3> QED
      BY <2>1, <2>4, <3>1 DEF Events
  <2>6. pend.seq = 0 /\ ~flip
    BY <1>3, <1>5 DEF IInv, OneFlip, FlipOK
  <2>7. TypeOK'
    BY <1>1, <1>2, <2>1, <2>3, <2>5 DEF IInv, TypeOK, Pcs, Events
  <2>8. CrtcOK'
    BY <1>1, <1>2, <1>3, <2>3
    DEF IInv, CrtcOK, CrtcIsOn, BeforeDisable, BetweenOffAndOn, AfterEnable
  <2>9. FlipOK' /\ OneFlip'
    BY <1>2, <1>3, <2>1, <2>5, <2>6 DEF FlipOK, OneFlip
  <2>10. RefsHeld'
    <3> DEFINE c == Cardinality(Waiting(trail))
    <3>1. vb.refcount = c
      BY <2>3, <2>6, Facts DEF IInv, RefsHeld
    <3>2. Cardinality(Waiting(trail))' = c /\ c \in Nat
      BY <1>1, Facts
    <3> HIDE DEF c
    <3> QED
      BY <2>3, <2>5, <3>1, <3>2 DEF RefsHeld
  <2> QED
    BY <1>4, <2>7, <2>8, <2>9, <2>10 DEF IInv
<1>6. CASE ~(com.event /\ VblankGetOk(vb))
  <2>1. /\ UNCHANGED <<vb, pend>>
        /\ IF com.event THEN Deliver ELSE UNCHANGED <<dep, flip>>
    BY <1>6 DEF ArmEvent
  <2>2. /\ dep' \in BOOLEAN /\ flip' \in BOOLEAN /\ dep'
        /\ com.event => flip' /\ pend.seq = 0
        /\ ~com.event => flip' = flip
    BY <1>3, <2>1 DEF IInv, TypeOK, Deliver, OneFlip
  <2>3. TypeOK'
    BY <1>1, <1>2, <2>1, <2>2 DEF IInv, TypeOK, Pcs
  <2>4. CrtcOK'
    BY <1>1, <1>2, <1>3, <2>1
    DEF IInv, CrtcOK, CrtcIsOn, BeforeDisable, BetweenOffAndOn, AfterEnable
  <2>5. FlipOK' /\ OneFlip'
    BY <1>2, <1>3, <2>1, <2>2 DEF IInv, FlipOK, OneFlip
  <2>6. RefsHeld'
    BY <1>1, <2>1 DEF IInv, RefsHeld
  <2> QED
    BY <1>4, <2>3, <2>4, <2>5, <2>6 DEF IInv
<1> QED
  BY <1>5, <1>6

LEMMA CrtcEnableStep == IInv /\ CrtcEnable => IInv'
<1> SUFFICES ASSUME IInv, CrtcEnable PROVE IInv'
  OBVIOUS
<1> DEFINE to == IF NeedsEnable THEN "vblank_on" ELSE "bridge_enable"
<1>1. /\ com.pc = "crtc_enable" /\ com' = [com EXCEPT !.pc = to]
      /\ UNCHANGED <<vb, st, dep, flip, pend, trail, irq>>
      /\ hw' = IF NeedsEnable THEN CrtcOn(hw) ELSE hw
  BY DEF CrtcEnable, Step
<1>2. com'.pc = to /\ com'.old = com.old /\ com'.conn = com.conn
  BY <1>1, Facts
<1>3. ~com.event /\ dep
  BY <1>1 DEF IInv, FlipOK, BeforeArm, BeforePlane, BeforeMode, BeforeDisable
<1>4. /\ hw' \in Hw /\ (NeedsEnable => hw'.clk) /\ (~NeedsEnable => hw' = hw)
      /\ hw'.rate = hw.rate /\ (DC8200 => hw'.en = hw.en)
      /\ hw'.valid = hw.valid /\ hw'.addr = hw.addr
      /\ hw'.running = hw.running /\ hw'.reset = hw.reset
  BY <1>1, Facts DEF Hw, CrtcOn, vs_dc8000_crtc_enable_ex
<1>5. TypeOK' /\ SubmitOK' /\ FlipOK' /\ OneFlip' /\ RefsHeld'
  BY <1>1, <1>3, <1>4, RegisterStep DEF Pcs
<1>6. CrtcOK'
  <2>1. (Modeset' <=> Modeset) /\ (NeedsEnable' <=> NeedsEnable)
    BY <1>1, <1>2 DEF NeedsEnable, Modeset
  <2>2. CASE NeedsEnable
    BY <1>1, <1>2, <1>4, <2>1, <2>2
    DEF IInv, CrtcOK, CrtcIsOn, BeforeDisable, BetweenOffAndOn, AfterEnable, NeedsEnable
  <2>3. CASE ~NeedsEnable
    <3>1. com.old.active /\ ~Modeset <=> st.active
      BY <2>3, Facts DEF NeedsEnable, Modeset, needs_modeset, States
    <3> QED
      BY <1>1, <1>2, <1>4, <2>3, <3>1
      DEF IInv, CrtcOK, CrtcIsOn, BeforeDisable, BetweenOffAndOn, AfterEnable
  <2> QED
    BY <2>2, <2>3
<1>7. PanelOK'
  BY <1>1, <1>2, <1>4 DEF IInv, PanelOK
<1>8. RateOK' /\ PlaneOK'
  BY <1>1, <1>2, <1>4 DEF IInv, RateOK, PlaneOK, Shows, BeforePlane, BeforeMode, BeforeDisable
<1> QED
  BY <1>5, <1>6, <1>7, <1>8 DEF IInv

LEMMA VblankOnStep == IInv /\ VblankOn => IInv'
<1> SUFFICES ASSUME IInv, VblankOn PROVE IInv'
  OBVIOUS
<1>1. /\ com.pc = "vblank_on" /\ com' = [com EXCEPT !.pc = "bridge_enable"]
      /\ vb' = drm_crtc_vblank_on(vb)
      /\ UNCHANGED <<st, dep, flip, pend, trail, hw, irq>>
  BY DEF VblankOn, Step
<1>2. /\ com'.pc = "bridge_enable" /\ com'.old = com.old /\ com'.event = com.event
      /\ com' \in [pc: Pcs, old: States, conn: BOOLEAN, event: BOOLEAN, legacy: BOOLEAN]
  BY <1>1, Facts DEF Pcs
<1>3. ~com.event /\ dep
  BY <1>1 DEF IInv, FlipOK, BeforeArm, BeforePlane, BeforeMode, BeforeDisable
<1>4. vb.inmodeset /\ hw.clk /\ st.active
  BY <1>1
  DEF IInv, CrtcOK, CrtcIsOn, BeforeDisable, BetweenOffAndOn, AfterEnable, NeedsEnable
<1>5. vb' \in VblankCrtc /\ vb'.refcount = vb.refcount - 1 /\ ~vb'.inmodeset
  BY <1>1, <1>4, Facts, OnContract
<1>6. TypeOK'
  BY <1>1, <1>2, <1>5 DEF IInv, TypeOK, Pcs
<1>7. SubmitOK' /\ FlipOK' /\ OneFlip'
  BY <1>1, <1>2, <1>3 DEF IInv, SubmitOK, FlipOK, OneFlip
<1>8. CrtcOK'
  BY <1>1, <1>2, <1>4, <1>5
  DEF CrtcOK, CrtcIsOn, BeforeDisable, BetweenOffAndOn, AfterEnable
<1>9. PanelOK' /\ RateOK' /\ PlaneOK'
  BY <1>1, <1>2 DEF IInv, PanelOK, RateOK, PlaneOK, Shows, BeforePlane, BeforeMode, BeforeDisable
<1>10. RefsHeld'
  <2> DEFINE c == Cardinality(Waiting(trail))
  <2>1. vb.refcount = 1 + (IF pend.seq = 0 THEN 0 ELSE 1) + c
    BY <1>4, Facts DEF IInv, RefsHeld
  <2>2. Cardinality(Waiting(trail))' = c /\ c \in Nat
    BY <1>1, Facts
  <2> HIDE DEF c
  <2>3. vb'.refcount = (IF pend.seq = 0 THEN 0 ELSE 1) + c
    BY <1>5, <2>1, <2>2
  <2> QED
    BY <1>1, <1>5, <2>2, <2>3 DEF RefsHeld
<1> QED
  BY <1>6, <1>7, <1>8, <1>9, <1>10 DEF IInv

LEMMA BridgeEnableStep == IInv /\ BridgeEnable => IInv'
<1> SUFFICES ASSUME IInv, BridgeEnable PROVE IInv'
  OBVIOUS
<1>1. /\ com.pc = "bridge_enable" /\ com' = [com EXCEPT !.pc = "hw_done"]
      /\ UNCHANGED <<vb, st, dep, flip, pend, trail, irq>>
      /\ hw' = IF NeedsEnable THEN vs_bridge_enable_common(hw) ELSE hw
  BY DEF BridgeEnable, Step
<1>2. com'.pc = "hw_done" /\ com'.old = com.old /\ com'.conn = com.conn
  BY <1>1, Facts
<1>3. /\ hw' \in Hw /\ hw'.clk = hw.clk /\ hw'.rate = hw.rate /\ hw'.en = hw.en
      /\ hw'.valid = hw.valid /\ hw'.addr = hw.addr
      /\ DC8200 \/ ~NeedsEnable => hw'.reset = hw.reset
      /\ ~DC8200 \/ ~NeedsEnable => hw'.running = hw.running
  <2>1. hw \in Hw
    BY Facts
  <2>2. CASE NeedsEnable /\ DC8200
    BY <1>1, <2>1, <2>2 DEF Hw, vs_bridge_enable_common, vs_dc8200_panel_enable_ex
  <2>3. CASE NeedsEnable /\ ~DC8200
    BY <1>1, <2>1, <2>3 DEF Hw, vs_bridge_enable_common, vs_dc8000_panel_enable_ex
  <2>4. CASE ~NeedsEnable
    BY <1>1, <2>1, <2>4
  <2> QED
    BY <2>2, <2>3, <2>4
<1>4. TypeOK' /\ SubmitOK' /\ FlipOK' /\ OneFlip' /\ RefsHeld'
  <2>1. ~com.event /\ dep
    BY <1>1 DEF IInv, FlipOK, BeforeArm, BeforePlane, BeforeMode, BeforeDisable
  <2> QED
    BY <1>1, <1>3, <2>1, RegisterStep DEF Pcs
<1>5. CrtcOK'
  BY <1>1, <1>2, <1>3
  DEF IInv, CrtcOK, CrtcIsOn, BeforeDisable, BetweenOffAndOn, AfterEnable
<1>6. PanelOK'
  <2>1. NeedsEnable => hw.clk
    BY <1>1 DEF NeedsEnable, IInv, CrtcOK, CrtcIsOn, AfterEnable
  <2> QED
    BY <1>2, <1>3, <2>1 DEF IInv, PanelOK
<1>7. RateOK' /\ PlaneOK'
  BY <1>1, <1>2, <1>3 DEF IInv, RateOK, PlaneOK, Shows, BeforePlane, BeforeMode, BeforeDisable
<1> QED
  BY <1>4, <1>5, <1>6, <1>7 DEF IInv

LEMMA HwDoneStep == IInv /\ HwDone => IInv'
<1> SUFFICES ASSUME IInv, HwDone PROVE IInv'
  OBVIOUS
<1> DEFINE e == [pc |-> "get", base |-> 0, sync |-> ~com.legacy /\ st.active, freed |-> FALSE]
<1>1. /\ com.pc = "hw_done" /\ com' = Idle /\ trail' = Append(trail, e)
      /\ UNCHANGED <<vb, st, dep, flip, pend, hw, irq>>
  BY DEF HwDone
<1>2. /\ com'.pc = "idle" /\ com'.old = OffState /\ ~com'.event
      /\ com' \in [pc: Pcs, old: States, conn: BOOLEAN, event: BOOLEAN, legacy: BOOLEAN]
  BY <1>1 DEF Idle, OffState, States, Pcs
<1>3. e \in Trailing /\ e.pc = "get"
  BY DEF Trailing
<1> HIDE DEF e
<1>4. trail' \in Seq(Trailing) /\ Len(trail') = Len(trail) + 1 /\ Len(trail') =< 2
  <2>1. trail \in Seq(Trailing) /\ Len(trail) < 2 /\ Len(trail) \in Nat
    BY <1>1, Facts DEF IInv, SubmitOK
  <2> QED
    BY <1>1, <1>3, <2>1, AppendProperties
<1>5. Waiting(trail') = Waiting(trail)
  <2>1. DOMAIN trail = 1..Len(trail) /\ DOMAIN trail' = 1..(Len(trail) + 1)
    BY <1>4, Facts, LenProperties
  <2>2. /\ trail'[Len(trail) + 1] = e
        /\ \A i \in 1..Len(trail) : trail'[i] = trail[i]
    BY <1>1, <1>3, Facts, AppendProperties
  <2>3. Len(trail) \in Nat
    BY Facts
  <2> QED
    BY <1>3, <2>1, <2>2, <2>3 DEF Waiting
<1>6. TypeOK'
  BY <1>1, <1>2, <1>4 DEF IInv, TypeOK, Pcs, Trailing
<1>7. SubmitOK'
  <2>1. Acceptable(OffState)
    BY DEF Acceptable, vs_primary_plane_atomic_check, OffState
  <2>2. Acceptable(st)' /\ Acceptable(com.old)'
    BY <1>1, <1>2, <2>1 DEF IInv, SubmitOK, Acceptable, vs_primary_plane_atomic_check
  <2> QED
    BY <1>2, <2>2 DEF SubmitOK
<1>8. CrtcOK'
  BY <1>1, <1>2 DEF IInv, CrtcOK, CrtcIsOn, BeforeDisable, BetweenOffAndOn, AfterEnable
<1>9. PanelOK' /\ RateOK' /\ PlaneOK'
  BY <1>1, <1>2 DEF IInv, PanelOK, RateOK, PlaneOK, Shows, BeforePlane, BeforeMode, BeforeDisable
<1>10. FlipOK' /\ OneFlip'
  <2>1. dep /\ ~com.event
    BY <1>1 DEF IInv, FlipOK, BeforeArm, BeforePlane, BeforeMode, BeforeDisable
  <2> QED
    BY <1>1, <1>2, <2>1 DEF IInv, FlipOK, OneFlip
<1>11. RefsHeld'
  BY <1>1, <1>5 DEF IInv, RefsHeld
<1> QED
  BY <1>6, <1>7, <1>8, <1>9, <1>10, <1>11 DEF IInv

(* A commit that is accepted: from here on the states it replaces decide   *)
(* what the hardware does.                                                 *)
LEMMA CommitStep ==
    ASSUME IInv, NEW new \in States, NEW conn \in BOOLEAN, NEW nonblock \in BOOLEAN,
           NEW legacy \in BOOLEAN, Commit(new, conn, nonblock, legacy)
    PROVE  IInv'
<1> DEFINE event == ~legacy /\ (st.active \/ new.active)
<1>1. /\ com.pc = "idle" /\ Acceptable(new) /\ Len(trail) < 2
      /\ com' = [pc |-> "dependencies", old |-> st, conn |-> conn, event |-> event,
                 legacy |-> legacy]
      /\ flip' = ~event /\ dep' = flip /\ st' = new
      /\ UNCHANGED <<vb, pend, trail, hw, irq>>
  BY DEF Commit, stall_checks, setup_commit, SwapStall
<1>2. event \in BOOLEAN
  OBVIOUS
<1>3. dep /\ ~com.event /\ flip \in BOOLEAN
  BY <1>1 DEF IInv, FlipOK, BeforeArm, BeforePlane, BeforeMode, BeforeDisable, TypeOK
<1> HIDE DEF event
<1>4. /\ com'.pc = "dependencies" /\ com'.old = st /\ com'.event = event
      /\ com' \in [pc: Pcs, old: States, conn: BOOLEAN, event: BOOLEAN, legacy: BOOLEAN]
  BY <1>1, <1>2, Facts DEF Pcs
<1>5. dep' \in BOOLEAN /\ flip' \in BOOLEAN
  BY <1>1, <1>2, <1>3
<1>6. TypeOK'
  BY <1>1, <1>4, <1>5 DEF IInv, TypeOK, Pcs
<1>7. SubmitOK'
  BY <1>1, <1>4 DEF IInv, SubmitOK, Acceptable, vs_primary_plane_atomic_check
<1>8. CrtcOK'
  BY <1>1, <1>4 DEF IInv, CrtcOK, CrtcIsOn, BeforeDisable, BetweenOffAndOn, AfterEnable
<1>9. PanelOK' /\ RateOK' /\ PlaneOK'
  BY <1>1, <1>4 DEF IInv, PanelOK, RateOK, PlaneOK, Shows, BeforePlane, BeforeMode, BeforeDisable
<1>10. FlipOK' /\ OneFlip'
  <2>1. pend.seq # 0 <=> ~flip
    BY <1>3 DEF IInv, OneFlip
  <2>2. (flip' <=> ~event) /\ (dep' <=> flip)
    BY <1>1
  <2>3. FlipOK'
    BY <1>4, <2>2 DEF FlipOK, BeforeArm, BeforePlane, BeforeMode, BeforeDisable
  <2>4. OneFlip'
    BY <1>1, <1>4, <2>1, <2>2 DEF OneFlip
  <2> QED
    BY <2>3, <2>4
<1>11. RefsHeld'
  BY <1>1 DEF IInv, RefsHeld
<1> QED
  BY <1>6, <1>7, <1>8, <1>9, <1>10, <1>11 DEF IInv

(* The end of a wait for a vblank, or a commit that does not wait: commit  *)
(* k leaves the trail, with its reference if it had one.                   *)
LEMMA CleanupStep ==
    ASSUME IInv, NEW k \in DOMAIN trail, NEW v \in VblankCrtc,
           Rebase(v, pend, Cleaned(k)),
           v.inmodeset = vb.inmodeset, ~vb.enabled => ~v.enabled,
           v.refcount = vb.refcount - (IF k \in Waiting(trail) THEN 1 ELSE 0),
           UNCHANGED <<st, com, dep, flip, hw, irq>>
    PROVE  IInv'
<1> DEFINE C == Cleaned(k)
<1>1. /\ C \in Seq(Trailing) /\ Len(C) = Len(trail) - 1
      /\ Cardinality(Waiting(C)) = Cardinality(Waiting(trail) \ {k})
  BY Facts, CleanedContract
<1> HIDE DEF C
<1>2. /\ SameRefs(v, vb') /\ vb'.enabled = v.enabled
      /\ pend' \in Events /\ (pend'.seq = 0 <=> pend.seq = 0)
      /\ trail' \in Seq(Trailing) /\ Len(trail') = Len(C)
      /\ Waiting(trail') = Waiting(C)
  <2>1. Rebase(v, pend, C)
    BY DEF C
  <2> QED
    BY <1>1, <2>1, Facts, RebaseContract
<1>3. Len(trail') \in Nat /\ Len(trail') =< Len(trail) /\ Len(trail') =< 2
  BY <1>1, <1>2, Facts, LenProperties
<1>4. vb' \in VblankCrtc /\ vb'.refcount = v.refcount /\ vb'.inmodeset = vb.inmodeset
  BY <1>2 DEF SameRefs
<1>5. vb'.inmodeset => ~vb'.enabled
  BY <1>2, <1>4 DEF IInv, CrtcOK
<1>6. SubmitOK' /\ CrtcOK' /\ PanelOK' /\ RateOK' /\ PlaneOK'
  BY <1>3, <1>4, <1>5, VblankStep
<1>7. TypeOK'
  BY <1>2, <1>3, <1>4 DEF IInv, TypeOK, Events, Trailing
<1>8. FlipOK' /\ OneFlip'
  BY <1>2 DEF IInv, FlipOK, OneFlip
<1>9. RefsHeld'
  <2> DEFINE m == IF vb.inmodeset THEN 1 ELSE 0
             q == IF pend.seq = 0 THEN 0 ELSE 1
             c == Cardinality(Waiting(trail))
             d == Cardinality(Waiting(trail) \ {k})
  <2>1. vb.refcount = m + q + c
    BY DEF IInv, RefsHeld
  <2>2. c \in Nat /\ IsFiniteSet(Waiting(trail))
    BY Facts
  <2>3. d = c - (IF k \in Waiting(trail) THEN 1 ELSE 0)
    <3>1. CASE k \in Waiting(trail)
      BY <2>2, <3>1, FS_RemoveElement
    <3>2. CASE k \notin Waiting(trail)
      <4>1. Waiting(trail) \ {k} = Waiting(trail)
        BY <3>2
      <4>2. d = c
        BY <4>1
      <4> HIDE DEF c, d
      <4> QED
        BY <2>2, <3>2, <4>2
    <3> QED
      BY <3>1, <3>2
  <2>4. Cardinality(Waiting(trail)') = d
    BY <1>1, <1>2
  <2>5. (IF vb'.inmodeset THEN 1 ELSE 0) = m /\ (IF pend'.seq = 0 THEN 0 ELSE 1) = q
    BY <1>2, <1>4
  <2>6. m \in Nat /\ q \in Nat
    OBVIOUS
  <2> HIDE DEF m, q, c, d
  <2>7. v.refcount = m + q + d
    BY <2>1, <2>2, <2>3, <2>6
  <2> QED
    BY <1>4, <2>4, <2>5, <2>7 DEF RefsHeld
<1> QED
  BY <1>6, <1>7, <1>8, <1>9 DEF IInv

LEMMA WaitsStep ==
    ASSUME IInv, NEW k \in DOMAIN trail, WaitGet(k) \/ WaitDone(k) \/ WaitTimeout(k)
    PROVE  IInv'
<1>1. UNCHANGED <<st, com, dep, flip, hw, irq>>
  BY DEF WaitGet, WaitDone, WaitTimeout
<1>2. CASE trail[k].pc = "wait" /\ WaitEnds(k)
  <2> DEFINE v == drm_vblank_put(vb)
  <2>1. k \in Waiting(trail)
    BY <1>2 DEF Waiting
  <2>2. Cardinality(Waiting(trail)) # 0
    BY <2>1, Facts, FS_EmptySet
  <2>3. 1 =< vb.refcount
    <3> DEFINE c == Cardinality(Waiting(trail))
    <3>1. vb.refcount = (IF vb.inmodeset THEN 1 ELSE 0) + (IF pend.seq = 0 THEN 0 ELSE 1) + c
      BY DEF IInv, RefsHeld
    <3>2. c \in Nat /\ c # 0
      BY <2>2, Facts
    <3> HIDE DEF c
    <3> QED
      BY <3>1, <3>2
  <2>4. /\ v \in VblankCrtc /\ v.refcount = vb.refcount - 1
        /\ v.inmodeset = vb.inmodeset /\ (~vb.enabled => ~v.enabled)
    BY <2>3, Facts, PutContract DEF drm_vblank_put
  <2>5. Rebase(v, pend, Cleaned(k))
    BY <1>2 DEF WaitEnds
  <2> HIDE DEF v
  <2> QED
    BY <1>1, <2>1, <2>4, <2>5, CleanupStep
<1>3. CASE WaitGet(k) /\ ~(trail[k].sync /\ VblankGetOk(vb))
  <2>1. Rebase(vb, pend, Cleaned(k)) /\ k \notin Waiting(trail)
    BY <1>3 DEF WaitGet, Waiting
  <2>2. vb \in VblankCrtc /\ vb.refcount = vb.refcount - (IF k \in Waiting(trail) THEN 1 ELSE 0)
    BY <2>1, Facts
  <2> QED
    BY <1>1, <2>1, <2>2, CleanupStep
<1>4. CASE WaitGet(k) /\ trail[k].sync /\ VblankGetOk(vb)
  <2> DEFINE e == [trail[k] EXCEPT !.pc = "wait", !.base = vb.count]
  <2>1. /\ trail[k].pc = "get" /\ vb' = drm_vblank_get(vb) /\ pend' = pend
        /\ trail' = [trail EXCEPT ![k] = e]
    BY <1>4 DEF WaitGet
  <2>2. /\ vb' \in VblankCrtc /\ vb'.refcount = vb.refcount + 1
        /\ vb'.inmodeset = vb.inmodeset /\ ~vb.inmodeset
    BY <1>4, <2>1, Facts, GetContract
  <2>3. DOMAIN trail = 1..Len(trail) /\ trail[k] \in Trailing /\ vb.count \in Nat
    BY Facts, LenProperties, ElementOfSeq DEF VblankCrtc
  <2>4. e \in Trailing /\ e.pc = "wait"
    BY <2>3 DEF Trailing
  <2> HIDE DEF e
  <2>5. trail' \in Seq(Trailing) /\ Len(trail') = Len(trail)
    BY <2>1, <2>3, <2>4, Facts, ExceptSeq
  <2>6. k \notin Waiting(trail) /\ Waiting(trail)' = Waiting(trail) \cup {k}
    <3>1. DOMAIN trail' = DOMAIN trail
      BY <2>1
    <3> QED
      BY <2>1, <2>4, <3>1 DEF Waiting
  <2>7. Cardinality(Waiting(trail)') = Cardinality(Waiting(trail)) + 1
    BY <2>6, Facts, FS_AddElement
  <2>8. SubmitOK' /\ CrtcOK' /\ PanelOK' /\ RateOK' /\ PlaneOK'
    BY <1>1, <2>2, <2>5, Facts, VblankStep
  <2>9. TypeOK'
    BY <1>1, <2>1, <2>2, <2>5 DEF IInv, TypeOK, Trailing
  <2>10. FlipOK' /\ OneFlip'
    BY <1>1, <2>1 DEF IInv, FlipOK, OneFlip
  <2>11. RefsHeld'
    <3> DEFINE c == Cardinality(Waiting(trail))
               q == IF pend.seq = 0 THEN 0 ELSE 1
    <3>1. vb.refcount = q + c
      BY <2>2, Facts DEF IInv, RefsHeld
    <3>2. c \in Nat /\ q \in Nat
      BY Facts
    <3> HIDE DEF c, q
    <3>3. vb'.refcount = q + (c + 1)
      BY <2>2, <3>1, <3>2
    <3> QED
      BY <2>1, <2>2, <2>7, <3>2, <3>3 DEF RefsHeld, c, q
  <2> QED
    BY <2>8, <2>9, <2>10, <2>11 DEF IInv
<1> QED
  BY <1>2, <1>3, <1>4 DEF WaitDone, WaitTimeout

LEMMA VsyncStep == IInv /\ Vsync => IInv'
<1> SUFFICES ASSUME IInv, Vsync PROVE IInv'
  OBVIOUS
<1>1. /\ UNCHANGED <<vb, st, com, dep, flip, pend, trail>>
      /\ irq' = (irq \/ (VsyncIrqOn /\ vb.count < MaxCount))
      /\ hw' = IF hw.valid THEN hw ELSE [hw EXCEPT !.frames = IF @ = 2 THEN 2 ELSE @ + 1]
  BY DEF Vsync
<1>2. /\ hw' \in Hw /\ hw'.clk = hw.clk /\ hw'.rate = hw.rate /\ hw'.en = hw.en
      /\ hw'.valid = hw.valid /\ hw'.addr = hw.addr
      /\ hw'.running = hw.running /\ hw'.reset = hw.reset
  <2> DEFINE f == IF hw.frames = 2 THEN 2 ELSE hw.frames + 1
  <2>1. hw \in Hw
    BY Facts
  <2>2. f \in 0..2
    BY <2>1 DEF Hw
  <2>3. hw' = IF hw.valid THEN hw ELSE [hw EXCEPT !.frames = f]
    BY <1>1
  <2> HIDE DEF f
  <2> QED
    BY <2>1, <2>2, <2>3 DEF Hw
<1>3. TypeOK'
  BY <1>1, <1>2 DEF IInv, TypeOK, Hw
<1>4. SubmitOK' /\ FlipOK' /\ OneFlip' /\ RefsHeld'
  BY <1>1 DEF IInv, SubmitOK, Acceptable, vs_primary_plane_atomic_check, FlipOK, OneFlip, RefsHeld
<1>5. CrtcOK'
  <2>1. CrtcIsOn' <=> CrtcIsOn
    BY <1>1 DEF CrtcIsOn, Modeset
  <2> QED
    BY <1>1, <1>2, <2>1 DEF IInv, CrtcOK, crtc_needs_disable, NeedsEnable, Modeset
<1>6. PanelOK' /\ RateOK' /\ PlaneOK'
  BY <1>1, <1>2 DEF IInv, PanelOK, RateOK, PlaneOK, Shows, crtc_needs_disable, Modeset
<1> QED
  BY <1>3, <1>4, <1>5, <1>6 DEF IInv

LEMMA TimerStep == IInv /\ DisableTimer => IInv'
<1> SUFFICES ASSUME IInv, DisableTimer PROVE IInv'
  OBVIOUS
<1>1. /\ vb' = vblank_disable_fn(vb)
      /\ UNCHANGED <<st, com, dep, flip, pend, trail, hw, irq>>
  BY DEF DisableTimer
<1>2. SameRefs(vb, vb') /\ (~vb.enabled => ~vb'.enabled)
  BY <1>1, Facts, DisableFnContract
<1>3. /\ vb' \in VblankCrtc /\ vb'.refcount = vb.refcount /\ vb'.inmodeset = vb.inmodeset
      /\ vb'.inmodeset => ~vb'.enabled
  BY <1>2 DEF SameRefs, IInv, CrtcOK
<1>4. SubmitOK' /\ CrtcOK' /\ PanelOK' /\ RateOK' /\ PlaneOK'
  BY <1>1, <1>3, Facts, VblankStep
<1>5. TypeOK'
  BY <1>1, <1>3 DEF IInv, TypeOK
<1>6. FlipOK' /\ OneFlip' /\ RefsHeld'
  BY <1>1, <1>3 DEF IInv, FlipOK, OneFlip, RefsHeld
<1> QED
  BY <1>4, <1>5, <1>6 DEF IInv

(* drm_handle_vblank sends the armed event, with its reference, or leaves  *)
(* it armed.                                                               *)
LEMMA IrqStep == IInv /\ IrqHandle => IInv'
<1> SUFFICES ASSUME IInv, IrqHandle PROVE IInv'
  OBVIOUS
<1>1. UNCHANGED <<st, com, trail, hw>>
  BY DEF IrqHandle
<1>0. irq' \in BOOLEAN
  BY DEF IrqHandle, irq_ack
<1>2. CASE ~vb.enabled
  <2>1. UNCHANGED <<vb, pend, dep, flip>>
    BY <1>2 DEF IrqHandle, vs_drm_handle_irq, drm_handle_vblank
  <2>2. SubmitOK' /\ CrtcOK' /\ PanelOK' /\ RateOK' /\ PlaneOK'
    BY <1>1, <1>2, <2>1, Facts, VblankStep
  <2>3. TypeOK'
    BY <1>0, <1>1, <2>1 DEF IInv, TypeOK
  <2>4. FlipOK' /\ OneFlip' /\ RefsHeld'
    BY <1>1, <2>1 DEF IInv, FlipOK, OneFlip, RefsHeld
  <2> QED
    BY <2>2, <2>3, <2>4 DEF IInv
<1>3. CASE vb.enabled
  <2> DEFINE v == drm_update_vblank_count(vb, TRUE)
             sent == pend.seq # 0 /\ drm_vblank_passed(v.count, pend.seq)
             n == IF sent THEN 1 ELSE 0
             w == PutN(v, n)
  <2>1. /\ vb' = (IF vb.immediate /\ OffDelay = "positive" /\ v.refcount = 0
                  THEN vblank_disable_fn(w) ELSE w)
        /\ pend' = (IF sent THEN NoEvent ELSE pend)
        /\ IF sent THEN Deliver ELSE UNCHANGED <<dep, flip>>
    BY <1>3 DEF IrqHandle, vs_drm_handle_irq, drm_handle_vblank
  <2>2. v \in VblankCrtc /\ v.refcount = vb.refcount /\ v.inmodeset = vb.inmodeset
    BY Facts, UpdateContract DEF SameRefs
  <2>12. sent => pend.seq # 0
    OBVIOUS
  <2>3. n \in Nat /\ n =< v.refcount
    <3>1. CASE sent
      BY <2>2, <3>1, Facts
    <3>2. CASE ~sent
      <4>1. n = 0
        BY <3>2
      <4>2. v.refcount \in Nat
        BY <2>2, Facts
      <4> HIDE DEF n, v
      <4> QED
        BY <4>1, <4>2
    <3> QED
      BY <3>1, <3>2
  <2> HIDE DEF v
  <2>4. w \in VblankCrtc /\ w.refcount = vb.refcount - n /\ w.inmodeset = vb.inmodeset
    BY <2>2, <2>3, PutContract
  <2> HIDE DEF w
  <2>5. vb' \in VblankCrtc /\ vb'.refcount = vb.refcount - n /\ vb'.inmodeset = vb.inmodeset
    <3>1. SameRefs(w, vblank_disable_fn(w))
      BY <2>4, DisableFnContract
    <3> QED
      BY <2>1, <2>4, <3>1 DEF SameRefs
  <2>6. ~vb.inmodeset /\ ~vb'.inmodeset
    BY <1>3, <2>5 DEF IInv, CrtcOK
  <2>7. SubmitOK' /\ CrtcOK' /\ PanelOK' /\ RateOK' /\ PlaneOK'
    BY <1>1, <2>5, <2>6, Facts, VblankStep
  <2> DEFINE c == Cardinality(Waiting(trail))
             q == IF pend.seq = 0 THEN 0 ELSE 1
  <2>8. vb.refcount = q + c /\ c \in Nat
    BY <2>6, Facts DEF IInv, RefsHeld
  <2>9. c' = c
    BY <1>1
  <2>10. CASE sent
    <3>1. pend' = NoEvent /\ Deliver /\ pend.seq # 0 /\ n = 1 /\ q = 1
      BY <2>1, <2>12, <2>10
    <3>2. pend' \in Events /\ pend'.seq = 0
      BY <3>1 DEF NoEvent, Events
    <3>3. /\ dep' \in BOOLEAN /\ flip' \in BOOLEAN /\ dep'
          /\ \/ dep /\ ~com.event /\ flip'
             \/ com.pc = "dependencies" /\ flip' = flip /\ (flip <=> ~com.event)
      BY <3>1, DeliverContract
    <3>4. TypeOK'
      BY <1>0, <1>1, <2>5, <3>2, <3>3 DEF IInv, TypeOK, Events
    <3>5. com.pc = "dependencies" => (flip' <=> ~com.event)
      <4>1. CASE dep /\ ~com.event /\ flip'
        BY <4>1
      <4>2. CASE flip' = flip /\ (flip <=> ~com.event)
        BY <4>2
      <4> QED
        BY <3>3, <4>1, <4>2
    <3>6. (com.event => ~flip') /\ (~flip' => com.event)
      BY <3>3 DEF IInv, FlipOK
    <3>7. FlipOK' /\ OneFlip'
      BY <1>1, <3>2, <3>3, <3>5, <3>6 DEF IInv, FlipOK, OneFlip
    <3>8. RefsHeld'
      <4> HIDE DEF c, n, q
      <4>1. vb'.refcount = c
        BY <2>5, <2>8, <3>1
      <4> QED
        BY <2>6, <2>8, <2>9, <3>2, <4>1 DEF RefsHeld, c
    <3> QED
      BY <2>7, <3>4, <3>7, <3>8 DEF IInv
  <2>11. CASE ~sent
    <3>1. pend' = pend /\ dep' = dep /\ flip' = flip /\ n = 0
      BY <2>1, <2>11
    <3>2. TypeOK'
      BY <1>0, <1>1, <2>5, <3>1 DEF IInv, TypeOK
    <3>5. FlipOK' /\ OneFlip'
      BY <1>1, <3>1 DEF IInv, FlipOK, OneFlip
    <3>3. vb'.refcount = vb.refcount
      <4> HIDE DEF n
      <4> QED
        BY <2>5, <3>1, Facts
    <3>4. RefsHeld'
      BY <1>1, <2>5, <3>1, <3>3 DEF IInv, RefsHeld
    <3> QED
      BY <2>7, <3>2, <3>4, <3>5 DEF IInv
  <2> QED
    BY <2>10, <2>11
<1> QED
  BY <1>2, <1>3

(* Every step of user space, of the tail, of the waits, of the hardware    *)
(* and of the interrupt preserves the invariant.                           *)
LEMMA NextIInv == IInv /\ [Next]_vars => IInv'
<1> SUFFICES ASSUME IInv, [Next]_vars PROVE IInv'
  OBVIOUS
<1>1. CASE Submit
  <2>1. CASE \E new \in States, conn, nonblock, legacy \in BOOLEAN :
               Commit(new, conn, nonblock, legacy)
    BY <2>1, CommitStep
  <2>2. CASE \E fb \in FBs, vis \in BOOLEAN : PageFlip(fb, vis)
    <3>1. PICK fb \in FBs, vis \in BOOLEAN : PageFlip(fb, vis)
      BY <2>2
    <3>2. [st EXCEPT !.fb = fb, !.vis = vis] \in States
      BY Facts DEF States
    <3> QED
      BY <3>1, <3>2, CommitStep DEF PageFlip
  <2>3. CASE Shutdown
    <3>1. OffState \in States
      BY DEF OffState, States
    <3> QED
      BY <2>3, <3>1, CommitStep DEF Shutdown
  <2> QED
    BY <1>1, <2>1, <2>2, <2>3 DEF Submit
<1>2. CASE CommitTail
  BY <1>2, DependenciesStep, BridgeDisableStep, CrtcDisableStep, ClkDisableStep,
     SetModeStep, BeginStep, PlaneStep, FlushStep, ArmStep, CrtcEnableStep, VblankOnStep,
     BridgeEnableStep, HwDoneStep
  DEF CommitTail
<1>3. CASE Waits
  BY <1>3, WaitsStep DEF Waits
<1>4. CASE Vsync \/ IrqHandle \/ DisableTimer
  BY <1>4, VsyncStep, IrqStep, TimerStep
<1>5. CASE UNCHANGED vars
  <2>1. UNCHANGED <<vb, st, com, dep, flip, pend, trail, hw, irq>>
    BY <1>5 DEF vars
  <2>2. SubmitOK' /\ CrtcOK' /\ PanelOK' /\ RateOK' /\ PlaneOK'
    BY <2>1, Facts, VblankStep DEF IInv, CrtcOK
  <2>3. TypeOK' /\ FlipOK' /\ OneFlip' /\ RefsHeld'
    BY <2>1 DEF IInv, TypeOK, FlipOK, OneFlip, RefsHeld
  <2> QED
    BY <2>2, <2>3 DEF IInv
<1> QED
  BY <1>1, <1>2, <1>3, <1>4, <1>5 DEF Next

-----------------------------------------------------------------------------
(* The theorems *)

(* The invariant holds of every behaviour. *)
THEOREM DisplayInvariance == Spec => []IInv
BY InitIInv, NextIInv, PTL DEF Spec

(* States, counters and registers keep their types; the shifted count and  *)
(* its samples never drop below zero, and no third commit gets past        *)
(* hw_done.                                                                *)
THEOREM DisplayTypeCorrect == Spec => []TypeOK
<1>1. IInv => TypeOK
  BY DEF IInv
<1> QED
  BY <1>1, DisplayInvariance, PTL

(* The panel and the vblank interrupt are on only with the pixel clock on, *)
(* on either generation of the chip.                                       *)
THEOREM ClockFirstAndLast == Spec => []ClockOrder
<1>1. IInv => ClockOrder
  BY DEF IInv, PanelOK, CrtcOK, ClockOrder
<1> QED
  BY <1>1, DisplayInvariance, PTL

(* Modeset, armed event and waiting commits account for every vblank       *)
(* reference.                                                              *)
THEOREM ReferencesHeld == Spec => []RefsHeld
<1>1. IInv => RefsHeld
  BY DEF IInv
<1> QED
  BY <1>1, DisplayInvariance, PTL

(* At most one page flip is in flight. *)
THEOREM OneFlipAtATime == Spec => []OneFlip
<1>1. IInv => OneFlip
  BY DEF IInv
<1> QED
  BY <1>1, DisplayInvariance, PTL

(* Between commits the registers are what the committed state says. *)
THEOREM HardwareSettles == Spec => []SettledHw
<1>1. ASSUME IInv PROVE SettledHw
  <2> SUFFICES ASSUME com.pc = "idle"
               PROVE  /\ hw.clk = st.active
                      /\ st.active => hw.rate = st.mode
                      /\ st.vis => hw.addr = st.fb /\ (DC8200 => hw.en)
                      /\ ~hw.valid
                      /\ vb.inmodeset = ~st.active
    BY DEF SettledHw
  <2>1. (hw.clk <=> st.active) /\ (vb.inmodeset <=> ~st.active)
    BY <1>1 DEF IInv, CrtcOK, CrtcIsOn, BeforeDisable, BetweenOffAndOn, AfterEnable
  <2>2. hw.clk = st.active /\ vb.inmodeset = ~st.active
    <3>1. hw.clk \in BOOLEAN /\ st.active \in BOOLEAN /\ vb.inmodeset \in BOOLEAN
      BY <1>1, Facts DEF Hw, States
    <3> QED
      BY <2>1, <3>1
  <2>3. (st.active => st.mode # None) /\ (st.vis => st.fb # None)
    BY <1>1 DEF IInv, SubmitOK, Acceptable, vs_primary_plane_atomic_check
  <2>4. st.active => hw.rate = st.mode
    BY <1>1, <2>3 DEF IInv, RateOK, BeforeMode, BeforeDisable
  <2>5. Shows(st) /\ ~hw.valid
    BY <1>1 DEF IInv, PlaneOK, BeforePlane, BeforeMode, BeforeDisable
  <2> QED
    BY <2>2, <2>3, <2>4, <2>5 DEF Shows
<1> QED
  BY <1>1, DisplayInvariance, PTL

(* The rate of the pixel clock changes only while the clock is off. *)
THEOREM RateChangesWhileOff == Spec => RateSetWhileOff
<1>1. ASSUME IInv, [Next]_vars PROVE [hw'.rate # hw.rate => ~hw.clk]_vars
  <2> SUFFICES ASSUME hw'.rate # hw.rate PROVE ~hw.clk
    OBVIOUS
  <2>1. SetMode
    <3>1. hw \in Hw
      BY <1>1, Facts
    <3>2. ASSUME NEW h \in Hw
          PROVE  /\ CrtcOff(h).rate = h.rate /\ CrtcOn(h).rate = h.rate
                 /\ vs_bridge_atomic_disable(h).rate = h.rate
                 /\ vs_bridge_enable_common(h).rate = h.rate
                 /\ vs_crtc_atomic_begin(h).rate = h.rate
                 /\ vs_dc8000_crtc_flush(h).rate = h.rate
      BY DEF Hw, CrtcOff, CrtcOn, vs_bridge_atomic_disable, vs_bridge_enable_common,
             vs_crtc_atomic_begin, vs_dc8000_crtc_flush, vs_dc8000_crtc_disable_ex,
             vs_dc8000_crtc_enable_ex, vs_dc8200_panel_disable_ex, vs_dc8000_panel_disable_ex,
             vs_dc8200_panel_enable_ex, vs_dc8000_panel_enable_ex, vs_dc8000_crtc_begin
    <3>3. /\ vs_primary_plane_atomic_disable(hw) \in Hw
          /\ vs_primary_plane_atomic_disable(hw).rate = hw.rate
      BY <3>1 DEF Hw, vs_primary_plane_atomic_disable, vs_dc8200_primary_plane_disable_ex
    <3>4. /\ vs_primary_plane_atomic_update(hw, st) \in Hw
          /\ vs_primary_plane_atomic_update(hw, st).rate = hw.rate
      <4>1. [hw EXCEPT !.addr = st.fb, !.frames = 0] \in Hw
        <5>1. st.fb \in FBs \cup {None} /\ 0 \in 0..2
          BY <1>1, Facts DEF States
        <5> QED
          BY <3>1, <5>1 DEF Hw
      <4>2. [hw EXCEPT !.addr = st.fb, !.frames = 0].rate = hw.rate
        BY <3>1 DEF Hw
      <4> QED
        BY <3>3, <4>1, <4>2 DEF vs_primary_plane_atomic_update
    <3>5. vs_primary_plane_atomic_enable(vs_primary_plane_atomic_update(hw, st)).rate = hw.rate
      BY <3>4 DEF Hw, vs_primary_plane_atomic_enable, vs_dc8200_primary_plane_enable_ex
    <3>6. ~PlaneUpdate
      BY <3>3, <3>4, <3>5 DEF PlaneUpdate
    <3>7. ~Vsync
      BY <3>1 DEF Vsync, Hw
    <3>8. ~(BridgeDisable \/ ClkDisable \/ CrtcBegin \/ CrtcFlush \/ CrtcEnable \/ BridgeEnable)
      BY <3>1, <3>2 DEF BridgeDisable, ClkDisable, CrtcBegin, CrtcFlush, CrtcEnable,
                        BridgeEnable
    <3>9. ~(Submit \/ Waits \/ IrqHandle \/ DisableTimer \/ UNCHANGED vars)
      BY DEF Submit, PageFlip, Shutdown, Commit, Waits, WaitGet, WaitDone, WaitTimeout,
             IrqHandle, DisableTimer, vars
    <3>10. ~(WaitForDependencies \/ CrtcDisable \/ ArmEvent \/ VblankOn \/ HwDone)
      BY DEF WaitForDependencies, CrtcDisable, ArmEvent, VblankOn, HwDone
    <3> QED
      BY <1>1, <3>6, <3>7, <3>8, <3>9, <3>10 DEF Next, CommitTail
  <2>2. com.pc = "set_mode" /\ Modeset
    BY <2>1 DEF SetMode, Step, Modeset, needs_modeset
  <2> QED
    BY <1>1, <2>2 DEF IInv, CrtcOK, CrtcIsOn, BeforeDisable, BetweenOffAndOn, AfterEnable
<1> QED
  BY <1>1, DisplayInvariance, PTL DEF Spec, RateSetWhileOff
=============================================================================
