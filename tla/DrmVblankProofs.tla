-------------------------- MODULE DrmVblankProofs --------------------------
(***************************************************************************)
(* Proofs about DrmVblank for every finite set of tasks, every counter     *)
(* mask, off delay and bound: one inductive invariant, and the action      *)
(* properties that follow from it.  The functions of drm_vblank.c enter    *)
(* by their contracts, from DrmVblankCoreProofs.                           *)
(***************************************************************************)
EXTENDS DrmVblank, DrmVblankCoreProofs, FiniteSetTheorems, TLAPS

-----------------------------------------------------------------------------
(* The inductive invariant *)

(* A task in an ioctl has no event on the list: what makes the event it    *)
(* queues a new member of the list, so that counting the list counts the   *)
(* references.                                                             *)
HolderNotQueued == \A t \in Tasks : task[t].pc # "idle" => ~Queued(t)

(* RefcountBalance with "others" more references, held by users of the     *)
(* pipe that this module does not know: none here, the pending works in    *)
(* DrmVblankWork.                                                          *)
Balanced(others) ==
    vb.refcount = Cardinality(pend) + Cardinality(Holders) + ModesetRef + others

IInv(others) ==
    /\ TypeOK
    /\ Balanced(others)
    /\ EventsNeedIrq
    /\ OffIsOff
    /\ IsFiniteSet(pend)
    /\ HolderNotQueued

(* The initial state, after drm_crtc_vblank_reset, satisfies it. *)
LEMMA InitIInv == Init => IInv(0)
<1> SUFFICES ASSUME Init PROVE IInv(0)
  OBVIOUS
<1> USE VblankAssumption, VblankCoreAssumption
<1>1. TypeOK
  <2>1. vb \in VblankCrtc
    BY DEF Init, VblankCrtc, drm_crtc_vblank_reset
  <2>2. task \in [Tasks -> [pc: {"idle", "got", "wait", "queue", "qseq"}, seq: Nat, req: Nat]]
    BY DEF Init, Idle
  <2> QED
    BY <2>1, <2>2 DEF Init, TypeOK
<1>2. Holders = {}
  BY DEF Init, Holders, Idle
<1>3. vb.refcount = 1 /\ vb.inmodeset /\ ~vb.enabled /\ pend = {}
  BY DEF Init, drm_crtc_vblank_reset
<1>4. IsFiniteSet({}) /\ Cardinality({}) = 0
  BY FS_EmptySet
<1>5. Balanced(0)
  BY <1>2, <1>3, <1>4 DEF Balanced, ModesetRef
<1> QED
  BY <1>1, <1>3, <1>4, <1>5
  DEF IInv, EventsNeedIrq, OffIsOff, HolderNotQueued, Queued

(* What the invariant says of the counts in it. *)
LEMMA Counts ==
    ASSUME NEW others \in Nat, IInv(others)
    PROVE  /\ Cardinality(pend) \in Nat
           /\ IsFiniteSet(Holders) /\ Cardinality(Holders) \in Nat
           /\ vb \in VblankCrtc /\ vb.refcount \in Nat /\ vb.count \in Nat
           /\ vb.inmodeset \in BOOLEAN /\ vb.enabled \in BOOLEAN
           /\ Cardinality(pend) =< vb.refcount
           /\ Cardinality(pend) + others =< vb.refcount
           /\ (pend = {}) <=> (Cardinality(pend) = 0)
           /\ vb.refcount = 0 => pend = {} /\ ~vb.inmodeset
           /\ vb.inmodeset => pend = {} /\ vb.refcount >= 1
<1>1. IsFiniteSet(pend) /\ Cardinality(pend) \in Nat
  BY FS_CardinalityType DEF IInv
<1>2. IsFiniteSet(Holders) /\ Cardinality(Holders) \in Nat
  BY FS_Subset, FS_CardinalityType, VblankAssumption DEF Holders
<1>3. /\ vb \in VblankCrtc /\ vb.refcount \in Nat /\ vb.count \in Nat
      /\ vb.inmodeset \in BOOLEAN /\ vb.enabled \in BOOLEAN
  BY DEF IInv, TypeOK, VblankCrtc
<1>4. (pend = {}) <=> (Cardinality(pend) = 0)
  BY <1>1, FS_EmptySet
<1>5. ModesetRef \in {0, 1} /\ (ModesetRef = 1 <=> vb.inmodeset)
  BY DEF ModesetRef
<1>6. vb.refcount = Cardinality(pend) + Cardinality(Holders) + ModesetRef + others
  BY DEF IInv, Balanced
<1>7. vb.inmodeset => pend = {}
  BY DEF IInv, EventsNeedIrq, OffIsOff
<1>8. /\ Cardinality(pend) + others =< vb.refcount
      /\ vb.refcount = 0 => Cardinality(pend) = 0 /\ ModesetRef # 1
      /\ ModesetRef = 1 => vb.refcount >= 1
  <2> DEFINE p == Cardinality(pend)
             h == Cardinality(Holders)
             r == vb.refcount
  <2>1. p \in Nat /\ h \in Nat /\ r \in Nat /\ ModesetRef \in 0..1 /\ r = p + h + ModesetRef + others
    BY <1>1, <1>2, <1>3, <1>5, <1>6
  <2> HIDE DEF p, h, r
  <2>2. p + others =< r /\ (r = 0 => p = 0 /\ ModesetRef # 1) /\ (ModesetRef = 1 => r >= 1)
    BY <2>1
  <2> QED
    BY <2>2 DEF p, r
<1>9. Cardinality(pend) =< vb.refcount
  BY <1>1, <1>3, <1>8
<1> QED
  BY <1>1, <1>2, <1>3, <1>4, <1>5, <1>7, <1>8, <1>9

(* A task in an ioctl holds one of the references. *)
LEMMA HolderCounts ==
    ASSUME NEW others \in Nat, IInv(others), NEW t \in Tasks, task[t].pc # "idle"
    PROVE  /\ t \in Holders /\ Cardinality(Holders) # 0
           /\ 1 =< vb.refcount
           /\ others # 0 => vb.refcount # 1
<1>1. t \in Holders
  BY DEF Holders
<1>2. /\ IsFiniteSet(Holders) /\ Cardinality(Holders) \in Nat
      /\ Cardinality(pend) \in Nat /\ vb.refcount \in Nat
  BY Counts
<1>3. Cardinality(Holders) # 0
  BY <1>1, <1>2, FS_EmptySet
<1>4. vb.refcount = Cardinality(pend) + Cardinality(Holders) + ModesetRef + others
  BY DEF IInv, Balanced
<1>5. ModesetRef \in Nat
  BY DEF ModesetRef
<1>6. 1 =< vb.refcount /\ (others # 0 => vb.refcount # 1)
  BY <1>2, <1>3, <1>4, <1>5
<1> QED
  BY <1>1, <1>3, <1>6

(* The steps that leave list, tasks and references alone. *)
LEMMA QuietStep ==
    ASSUME NEW others \in Nat, IInv(others), pend' = pend, task' = task, SameRefs(vb, vb'),
           isr' \in {"idle", "acked", "events", "disable"}, irqPend' \in BOOLEAN,
           pend # {} => vb'.enabled,
           vb.inmodeset => ~vb'.enabled
    PROVE  IInv(others)'
<1>1. TypeOK'
  BY DEF IInv, TypeOK, SameRefs
<1>2. Holders' = Holders /\ ModesetRef' = ModesetRef
  BY DEF Holders, ModesetRef, SameRefs
<1>3. Balanced(others)'
  BY <1>2 DEF IInv, Balanced, SameRefs
<1>4. EventsNeedIrq' /\ OffIsOff' /\ IsFiniteSet(pend')
  BY DEF IInv, EventsNeedIrq, OffIsOff, SameRefs
<1>5. HolderNotQueued'
  BY DEF IInv, HolderNotQueued, Queued
<1> QED
  BY <1>1, <1>3, <1>4, <1>5 DEF IInv

(* A put by the task t that leaves its ioctl: the last step of every exit  *)
(* that does not queue an event.                                           *)
LEMMA ReleaseStep ==
    ASSUME NEW others \in Nat, IInv(others), NEW t \in Tasks, task[t].pc # "idle",
           vb' = drm_vblank_put(vb), task' = [task EXCEPT ![t] = Idle],
           UNCHANGED <<pend, isr, irqPend>>
    PROVE  IInv(others)'
<1>1. t \in Holders /\ Holders' = Holders \ {t}
  BY DEF Holders, IInv, TypeOK, Idle
<1>2. Cardinality(Holders') = Cardinality(Holders) - 1 /\ Cardinality(Holders) >= 1
  <2>1. IsFiniteSet(Holders) /\ Cardinality(Holders) \in Nat
    BY Counts
  <2>2. Cardinality(Holders \ {t}) = Cardinality(Holders) - 1
    BY <1>1, <2>1, FS_RemoveElement
  <2>3. Cardinality(Holders) # 0
    BY <1>1, <2>1, FS_EmptySet
  <2> QED
    BY <1>1, <2>1, <2>2, <2>3
<1>3. vb.refcount = Cardinality(pend) + Cardinality(Holders) + ModesetRef + others
  BY DEF IInv, Balanced
<1>4. ModesetRef \in {0, 1}
  BY DEF ModesetRef
<1>5. 1 =< vb.refcount
  BY <1>2, <1>3, <1>4, Counts
<1>6. /\ vb' \in VblankCrtc /\ vb'.refcount = vb.refcount - 1
      /\ vb'.inmodeset = vb.inmodeset
      /\ vb.refcount # 1 => vb'.enabled = vb.enabled
      /\ ~vb.enabled => ~vb'.enabled
  BY <1>5, Counts, PutContract DEF drm_vblank_put
<1>7. TypeOK'
  BY <1>6 DEF IInv, TypeOK, Idle
<1>8. Balanced(others)'
  <2>1. ModesetRef' = ModesetRef
    BY <1>6 DEF ModesetRef
  <2> QED
    BY <1>2, <1>3, <1>4, <1>6, <2>1, Counts DEF Balanced
<1>9. EventsNeedIrq'
  <2>1. pend # {} => vb.refcount # 1
    <3>1. Cardinality(pend) \in Nat /\ Cardinality(Holders) \in Nat
      BY Counts
    <3>2. pend # {} => Cardinality(pend) # 0
      BY Counts
    <3> QED
      BY <1>2, <1>3, <1>4, <3>1, <3>2
  <2> QED
    BY <1>6, <2>1 DEF IInv, EventsNeedIrq
<1>10. OffIsOff'
  BY <1>6 DEF IInv, OffIsOff
<1>11. IsFiniteSet(pend') /\ HolderNotQueued'
  BY DEF IInv, TypeOK, HolderNotQueued, Queued, Idle
<1> QED
  BY <1>7, <1>8, <1>9, <1>10, <1>11 DEF IInv

(* A reference taken with drm_vblank_get never meets a modeset. *)
LEMMA GetNotInModeset ==
    ASSUME NEW others \in Nat, IInv(others), VblankGetOk(vb)
    PROVE  ~vb.inmodeset
BY Counts DEF IInv, OffIsOff, VblankGetOk

(* The interrupt handler scans the list: it drops one reference per event  *)
(* it sends.                                                               *)
LEMMA EventsStep ==
    ASSUME NEW others \in Nat, IInv(others), HandleVblankEvents
    PROVE  IInv(others)'
<1> DEFINE sent == {e \in pend : Passed(e)}
           n == Cardinality(sent)
<1>1. pend' = pend \ sent /\ vb' = PutN(vb, n) /\ task' = task /\ irqPend' = irqPend
  BY DEF HandleVblankEvents
<1>2. IsFiniteSet(pend) /\ sent \subseteq pend
  BY DEF IInv
<1>3. IsFiniteSet(sent) /\ n \in Nat /\ n =< Cardinality(pend)
  BY <1>2, FS_Subset, FS_CardinalityType
<1>4. IsFiniteSet(pend') /\ Cardinality(pend') = Cardinality(pend) - n
  <2>1. sent = pend \cap sent
    BY <1>2
  <2> HIDE DEF sent
  <2>2. /\ IsFiniteSet(pend \ sent)
        /\ Cardinality(pend \ sent) = Cardinality(pend) - Cardinality(pend \cap sent)
    BY <1>2, FS_Difference
  <2> QED
    BY <1>1, <2>1, <2>2
<1> HIDE DEF n, sent
<1>5. n =< vb.refcount
  BY <1>3, Counts
<1>6. /\ vb' \in VblankCrtc /\ vb'.refcount = vb.refcount - n
      /\ vb'.inmodeset = vb.inmodeset
      /\ vb.refcount # n => vb'.enabled = vb.enabled
      /\ ~vb.enabled => ~vb'.enabled
  BY <1>1, <1>3, <1>5, Counts, PutContract
<1>7. TypeOK'
  BY <1>1, <1>6 DEF IInv, TypeOK, HandleVblankEvents
<1>8. Balanced(others)'
  <2>1. ModesetRef' = ModesetRef /\ Holders' = Holders /\ ModesetRef \in {0, 1}
    BY <1>1, <1>6 DEF ModesetRef, Holders
  <2>2. vb.refcount = Cardinality(pend) + Cardinality(Holders) + ModesetRef + others
    BY DEF IInv, Balanced
  <2> QED
    BY <1>3, <1>4, <1>6, <2>1, <2>2, Counts DEF Balanced
<1>9. EventsNeedIrq'
  <2> SUFFICES ASSUME pend' # {} PROVE vb'.enabled
    BY DEF EventsNeedIrq
  <2>1. Cardinality(pend') # 0
    BY <1>4, FS_EmptySet
  <2>2. vb.refcount # n
    BY <1>3, <1>4, <2>1, Counts
  <2>3. pend # {}
    BY <1>1
  <2> QED
    BY <1>6, <2>2, <2>3 DEF IInv, EventsNeedIrq
<1>10. OffIsOff'
  BY <1>6 DEF IInv, OffIsOff
<1>11. HolderNotQueued'
  BY <1>1 DEF IInv, HolderNotQueued, Queued
<1> QED
  BY <1>4, <1>7, <1>8, <1>9, <1>10, <1>11 DEF IInv

(* drm_crtc_vblank_off empties the list and trades its references for the  *)
(* modeset reference.                                                      *)
LEMMA OffStep ==
    ASSUME NEW others \in Nat, IInv(others), VblankOff
    PROVE  IInv(others)'
<1> DEFINE n == Cardinality(pend)
<1>1. /\ ~vb.inmodeset /\ vb' = drm_crtc_vblank_off(vb, n) /\ pend' = {}
      /\ task' = task /\ isr' = isr /\ irqPend' = irqPend
  BY DEF VblankOff
<1>2. n \in Nat /\ n =< vb.refcount /\ vb \in VblankCrtc
  BY Counts
<1> HIDE DEF n
<1>3. /\ vb' \in VblankCrtc /\ vb'.refcount = vb.refcount + 1 - n
      /\ vb'.inmodeset /\ ~vb'.enabled
  BY <1>1, <1>2, OffContract
<1>4. TypeOK'
  BY <1>1, <1>3 DEF IInv, TypeOK
<1>5. IsFiniteSet(pend') /\ Cardinality(pend') = 0
  BY <1>1, FS_EmptySet
<1>6. Balanced(others)'
  <2>1. ModesetRef' = 1 /\ ModesetRef = 0 /\ Holders' = Holders
    BY <1>1, <1>3 DEF ModesetRef, Holders
  <2>2. vb.refcount = n + Cardinality(Holders) + ModesetRef + others
    BY DEF IInv, Balanced, n
  <2>3. Cardinality(Holders) \in Nat /\ vb.refcount \in Nat
    BY Counts
  <2>4. vb'.refcount = Cardinality(Holders) + 1 + others
    BY <1>2, <1>3, <2>1, <2>2, <2>3
  <2> QED
    BY <1>5, <2>1, <2>3, <2>4 DEF Balanced
<1>7. EventsNeedIrq' /\ OffIsOff'
  BY <1>1, <1>3 DEF EventsNeedIrq, OffIsOff
<1>8. HolderNotQueued'
  BY <1>1 DEF HolderNotQueued, Queued
<1> QED
  BY <1>4, <1>5, <1>6, <1>7, <1>8 DEF IInv

(* drm_crtc_vblank_on drops the modeset reference; tasks that still hold   *)
(* one from before the modeset get the interrupt back.                     *)
LEMMA OnStep ==
    ASSUME NEW others \in Nat, IInv(others), VblankOn
    PROVE  IInv(others)'
<1>1. /\ vb.inmodeset /\ vb' = drm_crtc_vblank_on(vb)
      /\ pend' = pend /\ task' = task /\ isr' = isr /\ irqPend' = irqPend
  BY DEF VblankOn
<1>2. vb \in VblankCrtc /\ vb.refcount >= 1 /\ pend = {}
  BY <1>1, Counts
<1>3. vb' \in VblankCrtc /\ vb'.refcount = vb.refcount - 1 /\ ~vb'.inmodeset
  BY <1>1, <1>2, OnContract
<1>4. TypeOK'
  BY <1>1, <1>3 DEF IInv, TypeOK
<1>5. Balanced(others)'
  <2>1. ModesetRef' = 0 /\ ModesetRef = 1 /\ Holders' = Holders
    BY <1>1, <1>3 DEF ModesetRef, Holders
  <2>2. vb.refcount = Cardinality(pend) + Cardinality(Holders) + ModesetRef + others
    BY DEF IInv, Balanced
  <2> QED
    BY <1>1, <1>3, <2>1, <2>2, Counts DEF Balanced
<1>6. EventsNeedIrq' /\ OffIsOff'
  BY <1>1, <1>2, <1>3 DEF EventsNeedIrq, OffIsOff
<1>7. IsFiniteSet(pend') /\ HolderNotQueued'
  BY <1>1 DEF IInv, HolderNotQueued, Queued
<1> QED
  BY <1>4, <1>5, <1>6, <1>7 DEF IInv

(* A new event on the list, whoever queues it. *)
LEMMA QueuedCount ==
    ASSUME NEW others \in Nat, IInv(others), NEW i \in Ids, NEW sq, ~Queued(i)
    PROVE  LET S == pend \cup {[id |-> i, seq |-> sq]}
           IN  IsFiniteSet(S) /\ Cardinality(S) = Cardinality(pend) + 1
<1> DEFINE e == [id |-> i, seq |-> sq]
<1>1. e \notin pend
  BY DEF Queued
<1>2. IsFiniteSet(pend)
  BY DEF IInv
<1> HIDE DEF e
<1>3. IsFiniteSet(pend \cup {e}) /\ Cardinality(pend \cup {e}) = Cardinality(pend) + 1
  BY <1>1, <1>2, FS_AddElement
<1> QED
  BY <1>3 DEF e

(* The commit thread arms its flip event with a reference of its own, or   *)
(* sends it at once.                                                       *)
LEMMA FlushStep ==
    ASSUME NEW others \in Nat, IInv(others), AtomicFlush
    PROVE  IInv(others)'
<1>1. task' = task /\ isr' = isr /\ irqPend' = irqPend /\ ~Queued(Flip)
  BY DEF AtomicFlush
<1>2. CASE ~VblankGetOk(vb)
  <2>1. vb' = vb /\ pend' = pend
    BY <1>2 DEF AtomicFlush
  <2>2. SameRefs(vb, vb')
    BY <2>1 DEF SameRefs, IInv, TypeOK
  <2> QED
    BY <1>1, <2>1, <2>2, QuietStep DEF IInv, TypeOK, EventsNeedIrq, OffIsOff
<1>3. CASE VblankGetOk(vb)
  <2> DEFINE g == drm_vblank_get(vb)
             sq == vb'.count + 1
  <2>1. vb' = drm_update_vblank_count(g, FALSE) /\ pend' = pend \cup {[id |-> Flip, seq |-> sq]}
    BY <1>3 DEF AtomicFlush
  <2>2. /\ g \in VblankCrtc /\ g.refcount = vb.refcount + 1
        /\ g.inmodeset = vb.inmodeset /\ g.enabled
    BY <1>3, Counts, GetContract
  <2> HIDE DEF g
  <2>3. /\ vb' \in VblankCrtc /\ vb'.refcount = vb.refcount + 1
        /\ ~vb'.inmodeset /\ vb'.enabled
    BY <1>3, <2>1, <2>2, UpdateContract, GetNotInModeset DEF SameRefs
  <2>4. sq \in Nat
    BY <2>3 DEF VblankCrtc
  <2> HIDE DEF sq
  <2>5. TypeOK'
    <3>1. [id |-> Flip, seq |-> sq] \in [id: Ids, seq: Nat]
      BY <2>4 DEF Ids
    <3> QED
      BY <1>1, <2>1, <2>3, <3>1 DEF IInv, TypeOK
  <2>6. IsFiniteSet(pend') /\ Cardinality(pend') = Cardinality(pend) + 1
    BY <1>1, <2>1, QueuedCount DEF Ids
  <2>7. Balanced(others)'
    <3>1. ModesetRef' = 0 /\ ModesetRef = 0 /\ Holders' = Holders
      BY <1>1, <1>3, <2>3, GetNotInModeset DEF ModesetRef, Holders
    <3>2. vb.refcount = Cardinality(pend) + Cardinality(Holders) + ModesetRef + others
      BY DEF IInv, Balanced
    <3> QED
      BY <2>3, <2>6, <3>1, <3>2, Counts DEF Balanced
  <2>8. EventsNeedIrq' /\ OffIsOff'
    BY <2>3 DEF EventsNeedIrq, OffIsOff
  <2>9. HolderNotQueued'
    BY <1>1, <2>1, VblankAssumption DEF IInv, HolderNotQueued, Queued
  <2> QED
    BY <2>5, <2>6, <2>7, <2>8, <2>9 DEF IInv
<1> QED
  BY <1>2, <1>3

(* A task enters its ioctl with a reference, or fails. *)
LEMMA GetStep ==
    ASSUME NEW others \in Nat, IInv(others), NEW t \in Tasks, IoctlGet(t)
    PROVE  IInv(others)'
<1>1. /\ pend' = pend /\ isr' = isr /\ irqPend' = irqPend
      /\ task[t].pc = "idle" /\ ~Queued(t)
  BY DEF IoctlGet
<1>2. CASE ~VblankGetOk(vb)
  <2>1. vb' = vb /\ task' = task
    BY <1>2 DEF IoctlGet
  <2>2. SameRefs(vb, vb')
    BY <2>1 DEF SameRefs, IInv, TypeOK
  <2> QED
    BY <1>1, <2>1, <2>2, QuietStep DEF IInv, TypeOK, EventsNeedIrq, OffIsOff
<1>3. CASE VblankGetOk(vb)
  <2>1. vb' = drm_vblank_get(vb) /\ task' = [task EXCEPT ![t].pc = "got"]
    BY <1>3 DEF IoctlGet
  <2>2. /\ vb' \in VblankCrtc /\ vb'.refcount = vb.refcount + 1
        /\ ~vb'.inmodeset /\ vb'.enabled
    BY <1>3, <2>1, Counts, GetContract, GetNotInModeset
  <2>3. TypeOK'
    BY <1>1, <2>1, <2>2 DEF IInv, TypeOK
  <2>4. t \notin Holders /\ Holders' = Holders \cup {t}
    BY <1>1, <2>1 DEF Holders, IInv, TypeOK
  <2>5. Cardinality(Holders') = Cardinality(Holders) + 1
    BY <2>4, Counts, FS_AddElement
  <2>6. Balanced(others)'
    <3>1. ModesetRef' = 0 /\ ModesetRef = 0
      BY <1>3, <2>2, GetNotInModeset DEF ModesetRef
    <3>2. vb.refcount = Cardinality(pend) + Cardinality(Holders) + ModesetRef + others
      BY DEF IInv, Balanced
    <3> QED
      BY <1>1, <2>2, <2>5, <3>1, <3>2, Counts DEF Balanced
  <2>7. EventsNeedIrq' /\ OffIsOff'
    BY <2>2 DEF EventsNeedIrq, OffIsOff
  <2>8. HolderNotQueued' /\ IsFiniteSet(pend')
    BY <1>1, <2>1 DEF IInv, TypeOK, HolderNotQueued, Queued
  <2> QED
    BY <2>3, <2>6, <2>7, <2>8 DEF IInv
<1> QED
  BY <1>2, <1>3

(* Sampling the count moves no reference. *)
LEMMA SampleStep ==
    ASSUME NEW others \in Nat, IInv(others), NEW t \in Tasks, IoctlSample(t)
    PROVE  IInv(others)'
<1>1. /\ vb' = vb /\ pend' = pend /\ isr' = isr /\ irqPend' = irqPend
      /\ task[t].pc = "got"
  BY DEF IoctlSample
<1>2. PICK pc \in {"wait", "queue", "qseq"}, req \in Nat :
        task' = [task EXCEPT ![t] = [pc |-> pc, seq |-> vb.count, req |-> req]]
  <2>1. vb.count - 1 \in Int /\ vb.count + MaxAhead \in Int
    BY Counts, VblankAssumption
  <2>2. {n \in (vb.count - 1)..(vb.count + MaxAhead) : n >= 0} \subseteq Nat
    BY <2>1
  <2> QED
    BY <2>2 DEF IoctlSample
<1>3. TypeOK'
  BY <1>1, <1>2, Counts DEF IInv, TypeOK
<1>4. Holders' = Holders
  BY <1>1, <1>2 DEF Holders, IInv, TypeOK
<1>5. Balanced(others)' /\ EventsNeedIrq' /\ OffIsOff' /\ IsFiniteSet(pend')
  BY <1>1, <1>4 DEF IInv, Balanced, ModesetRef, EventsNeedIrq, OffIsOff
<1>6. HolderNotQueued'
  BY <1>1, <1>2 DEF IInv, TypeOK, HolderNotQueued, Queued
<1> QED
  BY <1>3, <1>5, <1>6 DEF IInv

(* A task that queues its event passes its reference on to it. *)
LEMMA QueueStep ==
    ASSUME NEW others \in Nat, IInv(others), NEW t \in Tasks, NEW sq, task[t].pc # "idle", Queue(t, sq)
    PROVE  IInv(others)'
<1>1. task' = [task EXCEPT ![t] = Idle] /\ isr' = isr /\ irqPend' = irqPend
  BY DEF Queue
<1>2. CASE vb' = drm_vblank_put(vb) /\ pend' = pend
  BY <1>1, <1>2, ReleaseStep
<1>3. CASE /\ vb.enabled /\ vb' = vb
           /\ pend' = pend \cup {[id |-> t, seq |-> task[t].req]}
  <2>1. ~Queued(t) /\ task[t].req \in Nat
    BY DEF IInv, HolderNotQueued, TypeOK
  <2>2. IsFiniteSet(pend') /\ Cardinality(pend') = Cardinality(pend) + 1
    BY <1>3, <2>1, QueuedCount DEF Ids
  <2>3. t \in Holders /\ Holders' = Holders \ {t}
    BY <1>1 DEF Holders, IInv, TypeOK, Idle
  <2>4. Cardinality(Holders') = Cardinality(Holders) - 1
    BY <2>3, Counts, FS_RemoveElement
  <2>5. TypeOK'
    <3>1. [id |-> t, seq |-> task[t].req] \in [id: Ids, seq: Nat]
      BY <2>1 DEF Ids
    <3> QED
      BY <1>1, <1>3, <3>1 DEF IInv, TypeOK, Idle
  <2>6. Balanced(others)'
    <3>1. ModesetRef' = ModesetRef /\ ModesetRef \in {0, 1}
      BY <1>3 DEF ModesetRef
    <3>2. vb.refcount = Cardinality(pend) + Cardinality(Holders) + ModesetRef + others
      BY DEF IInv, Balanced
    <3> QED
      BY <1>3, <2>2, <2>4, <3>1, <3>2, Counts DEF Balanced
  <2>7. EventsNeedIrq' /\ OffIsOff'
    BY <1>3 DEF IInv, EventsNeedIrq, OffIsOff
  <2>8. HolderNotQueued'
    BY <1>1, <1>3 DEF IInv, TypeOK, HolderNotQueued, Queued, Idle
  <2> QED
    BY <2>2, <2>5, <2>6, <2>7, <2>8 DEF IInv
<1> QED
  BY <1>2, <1>3 DEF Queue

(* The driver's acknowledgement of the interrupt moves at most its own     *)
(* counter.                                                                *)
LEMMA AckContract ==
    ASSUME NEW others \in Nat, IInv(others), IrqAck
    PROVE  SameRefs(vb, vb') /\ vb'.enabled = vb.enabled /\ vb'.count = vb.count
<1> DEFINE h == (vb.hwcnt + 1) % (MaxHwCount + 1)
<1>1. vb \in VblankCrtc
  BY DEF IInv, TypeOK
<1>2. h \in 0..MaxHwCount
  <2> DEFINE a == vb.hwcnt + 1
  <2>1. a \in Int /\ MaxHwCount \in Nat
    BY <1>1, VblankCoreAssumption DEF VblankCrtc
  <2> HIDE DEF a
  <2>2. a % (MaxHwCount + 1) \in 0..MaxHwCount
    BY <2>1, ModRange
  <2> QED
    BY <2>2 DEF a
<1>3. vb' = IF HwCounter THEN [vb EXCEPT !.hwcnt = h] ELSE vb
  BY DEF IrqAck
<1> HIDE DEF h
<1>4. CASE HwCounter
  BY <1>1, <1>2, <1>3, <1>4 DEF SameRefs, VblankCrtc
<1>5. CASE ~HwCounter
  BY <1>1, <1>3, <1>5 DEF SameRefs
<1> QED
  BY <1>4, <1>5

(* Every step of the interrupt, the timer, the commit thread and the tasks *)
(* preserves the invariant.                                                *)
LEMMA NextIInv ==
    ASSUME NEW others \in Nat, IInv(others), [Next]_vars
    PROVE  IInv(others)'
<1>0. /\ vb \in VblankCrtc /\ isr \in {"idle", "acked", "events", "disable"}
      /\ irqPend \in BOOLEAN
      /\ pend # {} => vb.enabled
      /\ vb.inmodeset => ~vb.enabled
  BY DEF IInv, TypeOK, EventsNeedIrq, OffIsOff
<1>1. CASE Vsync
  BY <1>0, <1>1, QuietStep DEF Vsync, SameRefs
<1>2. CASE IrqAck
  BY <1>0, <1>2, AckContract, QuietStep DEF IrqAck
<1>3. CASE HandleVblankCount
  <2>1. CASE vb.enabled
    <3>1. vb' = drm_update_vblank_count(vb, TRUE) /\ isr' = "events"
      BY <1>3, <2>1 DEF HandleVblankCount
    <3>2. SameRefs(vb, vb') /\ vb'.enabled = vb.enabled
      BY <1>0, <3>1, UpdateContract
    <3> QED
      BY <1>0, <1>3, <3>1, <3>2, QuietStep DEF HandleVblankCount
  <2>2. CASE ~vb.enabled
    BY <1>0, <1>3, <2>2, QuietStep DEF HandleVblankCount, SameRefs
  <2> QED
    BY <2>1, <2>2
<1>4. CASE HandleVblankEvents
  BY <1>4, EventsStep
<1>5. CASE HandleVblankDisable \/ DisableTimer
  <2>1. /\ vb' = vblank_disable_fn(vb) /\ pend' = pend /\ task' = task
        /\ isr' \in {"idle", "acked", "events", "disable"} /\ irqPend' \in BOOLEAN
    BY <1>0, <1>5 DEF HandleVblankDisable, DisableTimer
  <2>2. /\ SameRefs(vb, vb')
        /\ vb.refcount # 0 => vb'.enabled = vb.enabled
        /\ ~vb.enabled => ~vb'.enabled
    BY <1>0, <2>1, DisableFnContract
  <2>3. pend # {} => vb.refcount # 0
    BY Counts
  <2> QED
    BY <1>0, <2>1, <2>2, <2>3, QuietStep
<1>6. CASE VblankOn
  BY <1>6, OnStep
<1>7. CASE VblankOff
  BY <1>7, OffStep
<1>8. CASE AtomicFlush
  BY <1>8, FlushStep
<1>9. ASSUME NEW t \in Tasks, Ioctl(t)
      PROVE  IInv(others)'
  <2>1. CASE IoctlGet(t)
    BY <2>1, GetStep
  <2>2. CASE IoctlSample(t)
    BY <2>2, SampleStep
  <2>3. CASE IoctlQuery(t) \/ IoctlWaited(t)
    BY <2>3, ReleaseStep DEF IoctlQuery, IoctlWaited
  <2>4. CASE QueueVblankEvent(t)
    BY <2>4, QueueStep DEF QueueVblankEvent
  <2>5. CASE QueueSequence(t)
    BY <2>5, QueueStep DEF QueueSequence
  <2> QED
    BY <1>9, <2>1, <2>2, <2>3, <2>4, <2>5 DEF Ioctl
<1>10. CASE UNCHANGED vars
  BY <1>0, <1>10, QuietStep DEF vars, SameRefs
<1> QED
  BY <1>1, <1>2, <1>3, <1>4, <1>5, <1>6, <1>7, <1>8, <1>9, <1>10
  DEF Next, Isr, Commit

(* The steps that neither enter nor leave a modeset. *)
ModesetFree ==
    \/ Vsync \/ Isr \/ DisableTimer \/ AtomicFlush
    \/ \E t \in Tasks : Ioctl(t)
    \/ UNCHANGED vars

(* While others hold a reference nothing but drm_crtc_vblank_off turns the *)
(* interrupt off.                                                          *)
LEMMA KeepsIrq ==
    ASSUME NEW others \in Nat, IInv(others), others # 0, vb.enabled, VblankOn \/ ModesetFree
    PROVE  vb'.enabled
<1>0. vb \in VblankCrtc /\ vb.refcount \in Nat /\ ~vb.inmodeset
  BY Counts DEF IInv, OffIsOff
<1>1. vb.refcount # 0 /\ Cardinality(pend) \in Nat /\ vb.refcount # Cardinality(pend)
  BY Counts
<1>2. CASE Vsync \/ UNCHANGED vars
  BY <1>2 DEF Vsync, vars
<1>3. CASE IrqAck
  BY <1>3, AckContract
<1>4. CASE HandleVblankCount
  <2>1. vb' = drm_update_vblank_count(vb, TRUE)
    BY <1>4 DEF HandleVblankCount
  <2> QED
    BY <1>0, <2>1, UpdateContract
<1>5. CASE HandleVblankEvents
  <2> DEFINE sent == {x \in pend : Passed(x)}
             n == Cardinality(sent)
  <2>1. vb' = PutN(vb, n)
    BY <1>5 DEF HandleVblankEvents
  <2>2. IsFiniteSet(pend) /\ sent \subseteq pend
    BY DEF IInv
  <2>3. n \in Nat /\ n =< Cardinality(pend)
    BY <2>2, FS_Subset, FS_CardinalityType
  <2> HIDE DEF n
  <2>4. n =< vb.refcount /\ vb.refcount # n
    BY <1>0, <1>1, <2>3, Counts
  <2> QED
    BY <1>0, <2>1, <2>3, <2>4, PutContract
<1>6. CASE HandleVblankDisable \/ DisableTimer
  BY <1>0, <1>1, <1>6, DisableFnContract DEF HandleVblankDisable, DisableTimer
<1>7. CASE VblankOn
  BY <1>0, <1>7 DEF VblankOn
<1>8. CASE AtomicFlush
  <2> DEFINE g == drm_vblank_get(vb)
  <2>1. VblankGetOk(vb)
    BY DEF VblankGetOk
  <2>2. g \in VblankCrtc /\ g.enabled
    BY <1>0, <2>1, GetContract
  <2>3. vb' = drm_update_vblank_count(g, FALSE)
    BY <1>8, <2>1 DEF AtomicFlush
  <2> HIDE DEF g
  <2> QED
    BY <2>2, <2>3, UpdateContract
<1>9. ASSUME NEW t \in Tasks, Ioctl(t)
      PROVE  vb'.enabled
  <2>1. CASE IoctlGet(t)
    <3>1. VblankGetOk(vb)
      BY DEF VblankGetOk
    <3> QED
      BY <1>0, <2>1, <3>1, GetContract DEF IoctlGet
  <2>2. CASE IoctlSample(t) \/ vb' = vb
    BY <2>2 DEF IoctlSample
  <2>3. CASE task[t].pc # "idle" /\ vb' = drm_vblank_put(vb)
    <3>1. 1 =< vb.refcount /\ vb.refcount # 1
      BY <2>3, HolderCounts
    <3> QED
      BY <1>0, <2>3, <3>1, PutContract DEF drm_vblank_put
  <2> QED
    BY <1>9, <2>1, <2>2, <2>3
    DEF Ioctl, IoctlQuery, IoctlWaited, QueueVblankEvent, QueueSequence, Queue
<1> QED
  BY <1>2, <1>3, <1>4, <1>5, <1>6, <1>7, <1>8, <1>9
  DEF ModesetFree, Isr

(* They leave the modeset flag alone. *)
LEMMA KeepsModeset ==
    ASSUME NEW others \in Nat, IInv(others), ModesetFree
    PROVE  vb'.inmodeset = vb.inmodeset
<1>0. vb \in VblankCrtc /\ vb.refcount \in Nat
  BY Counts
<1>1. CASE Vsync \/ UNCHANGED vars
  BY <1>1 DEF Vsync, vars
<1>2. CASE IrqAck
  BY <1>2, AckContract DEF SameRefs
<1>3. CASE HandleVblankCount
  <2>1. SameRefs(vb, drm_update_vblank_count(vb, TRUE))
    BY <1>0, UpdateContract
  <2> QED
    BY <1>3, <2>1 DEF HandleVblankCount, SameRefs
<1>4. CASE HandleVblankEvents
  <2> DEFINE sent == {x \in pend : Passed(x)}
             n == Cardinality(sent)
  <2>1. vb' = PutN(vb, n)
    BY <1>4 DEF HandleVblankEvents
  <2>2. IsFiniteSet(pend) /\ sent \subseteq pend
    BY DEF IInv
  <2>3. n \in Nat /\ n =< Cardinality(pend)
    BY <2>2, FS_Subset, FS_CardinalityType
  <2> HIDE DEF n
  <2>4. n =< vb.refcount
    BY <2>3, Counts
  <2> QED
    BY <1>0, <2>1, <2>3, <2>4, PutContract
<1>5. CASE HandleVblankDisable \/ DisableTimer
  BY <1>0, <1>5, DisableFnContract DEF HandleVblankDisable, DisableTimer, SameRefs
<1>6. CASE AtomicFlush
  <2>1. CASE VblankGetOk(vb)
    <3> DEFINE g == drm_vblank_get(vb)
    <3>1. g \in VblankCrtc /\ g.inmodeset = vb.inmodeset
      BY <1>0, <2>1, GetContract
    <3>2. vb' = drm_update_vblank_count(g, FALSE)
      BY <1>6, <2>1 DEF AtomicFlush
    <3> HIDE DEF g
    <3> QED
      BY <3>1, <3>2, UpdateContract DEF SameRefs
  <2> QED
    BY <1>6, <2>1 DEF AtomicFlush
<1>7. ASSUME NEW t \in Tasks, Ioctl(t)
      PROVE  vb'.inmodeset = vb.inmodeset
  <2>1. CASE IoctlGet(t)
    BY <1>0, <2>1, GetContract DEF IoctlGet
  <2>2. CASE IoctlSample(t) \/ vb' = vb
    BY <2>2 DEF IoctlSample
  <2>3. CASE task[t].pc # "idle" /\ vb' = drm_vblank_put(vb)
    <3>1. 1 =< vb.refcount
      BY <2>3, HolderCounts
    <3> QED
      BY <1>0, <2>3, <3>1, PutContract DEF drm_vblank_put
  <2> QED
    BY <1>7, <2>1, <2>2, <2>3
    DEF Ioctl, IoctlQuery, IoctlWaited, QueueVblankEvent, QueueSequence, Queue
<1> QED
  BY <1>1, <1>2, <1>3, <1>4, <1>5, <1>6, <1>7
  DEF ModesetFree, Isr

(* Any step of the pipe that only takes events off the list and moves      *)
(* references between the list, the modeset and "others".                  *)
LEMMA RefStep ==
    ASSUME NEW others \in Nat, NEW after \in Nat, IInv(others),
           pend' \subseteq pend, task' = task,
           isr' \in {"idle", "acked", "events", "disable"}, irqPend' \in BOOLEAN,
           vb' \in VblankCrtc,
           vb'.refcount - Cardinality(pend') - ModesetRef' - after
               = vb.refcount - Cardinality(pend) - ModesetRef - others,
           pend' # {} => vb'.enabled,
           vb'.inmodeset => ~vb'.enabled
    PROVE  IInv(after)'
<1>1. TypeOK'
  BY DEF IInv, TypeOK
<1>2. IsFiniteSet(pend') /\ Cardinality(pend') \in Nat
  BY FS_Subset, FS_CardinalityType DEF IInv
<1>3. Holders' = Holders /\ ModesetRef \in Nat /\ ModesetRef' \in Nat
  BY DEF Holders, ModesetRef
<1>4. Balanced(after)'
  <2> DEFINE r == vb'.refcount
             p == Cardinality(pend')
             h == Cardinality(Holders)
             m == ModesetRef'
             q == Cardinality(pend)
             k == ModesetRef
             v == vb.refcount
  <2>1. /\ r \in Nat /\ p \in Nat /\ h \in Nat /\ m \in Nat /\ q \in Nat /\ k \in Nat /\ v \in Nat
        /\ v = q + h + k + others
    BY <1>2, <1>3, Counts DEF IInv, Balanced, VblankCrtc
  <2>2. r - p - m - after = v - q - k - others
    OBVIOUS
  <2>3. (vb.refcount)' = r /\ Cardinality(pend)' = p /\ Cardinality(Holders)' = h
    BY <1>3
  <2> HIDE DEF r, p, h, m, q, k, v
  <2>4. r = p + h + m + after
    BY <2>1, <2>2
  <2> QED
    BY <2>3, <2>4 DEF Balanced, m
<1>5. EventsNeedIrq' /\ OffIsOff'
  BY DEF EventsNeedIrq, OffIsOff
<1>6. HolderNotQueued'
  BY DEF IInv, HolderNotQueued, Queued
<1> QED
  BY <1>1, <1>2, <1>4, <1>5, <1>6 DEF IInv

(* The invariant holds of every behaviour. *)
THEOREM Invariance == Spec => []IInv(0)
<1>1. IInv(0) /\ [Next]_vars => IInv(0)'
  BY NextIInv
<1> QED
  BY <1>1, InitIInv, PTL DEF Spec

(* The vblank bookkeeping keeps its types. *)
THEOREM TypeCorrect == Spec => []TypeOK
<1>1. IInv(0) => TypeOK
  BY DEF IInv
<1> QED
  BY <1>1, Invariance, PTL

(* The vblank reference count always equals the queued events, the ioctls  *)
(* in flight and the modeset reference, whatever the number of tasks.      *)
THEOREM RefcountsBalance == Spec => []RefcountBalance
<1>1. IInv(0) => RefcountBalance
  BY Counts DEF IInv, Balanced, RefcountBalance, ModesetRef
<1> QED
  BY <1>1, Invariance, PTL

(* No event ever sits on the list of a pipe whose interrupt is off. *)
THEOREM NoOrphanEvent == Spec => []EventsNeedIrq
<1>1. IInv(0) => EventsNeedIrq
  BY DEF IInv
<1> QED
  BY <1>1, Invariance, PTL

(* Nothing turns the interrupt on between drm_crtc_vblank_off and          *)
(* drm_crtc_vblank_on.                                                     *)
THEOREM OffStaysOff == Spec => []OffIsOff
<1>1. IInv(0) => OffIsOff
  BY DEF IInv
<1> QED
  BY <1>1, Invariance, PTL

-----------------------------------------------------------------------------
(* Action properties *)

(* One step with the interrupt off on both sides, other than               *)
(* drm_crtc_vblank_on, leaves the count alone.                             *)
LEMMA FrozenStep ==
    ASSUME NEW others \in Nat, IInv(others), [Next]_vars, ~vb.enabled, ~vb'.enabled,
           ~(vb.inmodeset /\ ~vb'.inmodeset)
    PROVE  vb'.count = vb.count
<1>0. vb \in VblankCrtc /\ vb.refcount \in Nat
  BY Counts
<1>1. CASE Vsync \/ UNCHANGED vars
  BY <1>1 DEF Vsync, vars
<1>2. CASE IrqAck
  BY <1>2, AckContract
<1>3. CASE HandleVblankCount
  BY <1>3 DEF HandleVblankCount
<1>4. CASE HandleVblankEvents
  <2> DEFINE n == Cardinality({e \in pend : Passed(e)})
  <2>1. pend = {}
    BY DEF IInv, EventsNeedIrq
  <2>2. {e \in pend : Passed(e)} = {}
    BY <2>1
  <2>3. n = 0
    BY <2>2, FS_EmptySet
  <2>4. vb' = PutN(vb, n)
    BY <1>4 DEF HandleVblankEvents
  <2> HIDE DEF n
  <2> QED
    BY <2>3, <2>4 DEF PutN
<1>5. CASE HandleVblankDisable \/ DisableTimer
  BY <1>0, <1>5, DisableFnContract DEF HandleVblankDisable, DisableTimer
<1>6. CASE VblankOn
  BY <1>0, <1>6, Counts, OnContract DEF VblankOn
<1>7. CASE VblankOff
  BY <1>0, <1>7, Counts, OffContract DEF VblankOff
<1>8. CASE AtomicFlush
  <2>1. CASE VblankGetOk(vb)
    <3> DEFINE g == drm_vblank_get(vb)
    <3>1. g \in VblankCrtc /\ g.enabled
      BY <1>0, <2>1, GetContract
    <3>2. vb' = drm_update_vblank_count(g, FALSE)
      BY <1>8, <2>1 DEF AtomicFlush
    <3> HIDE DEF g
    <3> QED
      BY <3>1, <3>2, UpdateContract
  <2> QED
    BY <1>8, <2>1 DEF AtomicFlush
<1>9. ASSUME NEW t \in Tasks, Ioctl(t)
      PROVE  vb'.count = vb.count
  <2>1. CASE IoctlGet(t)
    BY <1>0, <2>1, GetContract DEF IoctlGet
  <2>2. CASE IoctlSample(t) \/ vb' = vb
    BY <2>2 DEF IoctlSample
  <2>3. CASE task[t].pc # "idle" /\ vb' = drm_vblank_put(vb)
    <3>1. 1 =< vb.refcount
      BY <2>3, HolderCounts
    <3> QED
      BY <1>0, <2>3, <3>1, PutContract DEF drm_vblank_put
  <2> QED
    BY <1>9, <2>1, <2>2, <2>3
    DEF Ioctl, IoctlQuery, IoctlWaited, QueueVblankEvent, QueueSequence, Queue
<1> QED
  BY <1>1, <1>2, <1>3, <1>4, <1>5, <1>6, <1>7, <1>8, <1>9
  DEF Next, Isr, Commit

(* With the interrupt off only drm_crtc_vblank_on moves the count.         *)
THEOREM CountFrozen == Spec => CountFrozenWhileOff
<1>1. IInv(0) /\ [Next]_vars =>
        [(~vb.enabled /\ ~vb'.enabled /\ ~(vb.inmodeset /\ ~vb'.inmodeset))
            => vb'.count = vb.count]_vars
  BY FrozenStep
<1> QED
  BY <1>1, Invariance, PTL DEF Spec, CountFrozenWhileOff

(* One frame at most is uncounted: that of an interrupt in the handler, or *)
(* of one that came after the interrupt was disabled, and then no other    *)
(* interrupt comes before drm_vblank_enable counts it.                     *)
OneUncounted ==
    HwCounter =>
        /\ Uncounted(vb) \in {0, 1}
        /\ Uncounted(vb) = 1 => IF vb.enabled THEN isr = "acked" ELSE ~irqPend

(* what FramesCounted says of a step *)
Counted ==
    HwCounter =>
        IF vb.inmodeset /\ ~vb'.inmodeset
        THEN vb'.count = vb.count + 1
        ELSE vb'.count + Uncounted(vb') =
               vb.count + Uncounted(vb) + (IF isr = "idle" /\ isr' = "acked" THEN 1 ELSE 0)

(* A step by which no frame is lost or counted twice *)
LEMMA QuietFrames ==
    ASSUME OneUncounted, HwCounter, vb \in VblankCrtc, SameFrames(vb, vb'),
           isr = "acked" => isr' = "acked" \/ ~vb.enabled \/ Uncounted(vb') = 0,
           isr' = "acked" => isr = "acked",
           irqPend' => irqPend \/ vb.enabled,
           vb.inmodeset => vb'.inmodeset
    PROVE  OneUncounted' /\ Counted
<1>1. OneUncounted'
  BY DEF OneUncounted, SameFrames
<1>2. vb.count + Uncounted(vb) \in Int
  BY UncountedRange DEF VblankCrtc
<1>3. Counted
  BY <1>2 DEF Counted, SameFrames
<1> QED
  BY <1>1, <1>3

(* The driver's acknowledgement finds all frames counted and adds one. *)
LEMMA AckFrames ==
    ASSUME NEW others \in Nat, IInv(others), OneUncounted, HwCounter, IrqAck
    PROVE  OneUncounted' /\ Counted
<1>1. vb \in VblankCrtc /\ isr = "idle" /\ irqPend /\ ~irqPend' /\ isr' = "acked"
  BY DEF IInv, TypeOK, IrqAck
<1>2. Uncounted(vb) = 0
  BY <1>1 DEF OneUncounted
<1>3. /\ vb.hwcnt \in 0..MaxHwCount /\ vb.last \in 0..MaxHwCount /\ vb.count \in Nat
      /\ MaxHwCount \in Nat /\ MaxHwCount > 0
  BY <1>1, VblankCoreAssumption DEF VblankCrtc
<1>4. vb.hwcnt = vb.last
  BY <1>2, <1>3 DEF Uncounted
<1>a. PICK h : h = (vb.hwcnt + 1) % (MaxHwCount + 1)
  OBVIOUS
<1>5. h = IF vb.hwcnt = MaxHwCount THEN 0 ELSE vb.hwcnt + 1
  BY <1>a, <1>3, ModStep
<1>6. vb' = [vb EXCEPT !.hwcnt = h]
  BY <1>a DEF IrqAck
<1>7. vb'.hwcnt = h /\ vb'.last = vb.last /\ vb'.count = vb.count
  BY <1>1, <1>6 DEF VblankCrtc
<1>8. Uncounted(vb') = 1
  BY <1>3, <1>4, <1>5, <1>7 DEF Uncounted
<1>9. vb'.inmodeset <=> vb.inmodeset
  BY <1>1, <1>6 DEF VblankCrtc
<1>10. Counted
  BY <1>1, <1>2, <1>3, <1>7, <1>8, <1>9 DEF Counted
<1> QED
  BY <1>1, <1>8, <1>10 DEF OneUncounted

(* Every step counts frames as FramesCounted says. *)
LEMMA FramesStep ==
    ASSUME NEW others \in Nat, IInv(others), OneUncounted, HwCounter, [Next]_vars
    PROVE  OneUncounted' /\ Counted
<1>0. vb \in VblankCrtc /\ vb.refcount \in Nat /\ SameFrames(vb, vb)
  BY Counts, SameFramesFields
<1>1. CASE Vsync \/ UNCHANGED vars
  <2>1. vb' = vb /\ isr' = isr /\ (irqPend' => irqPend \/ vb.enabled)
    BY <1>1 DEF Vsync, vars
  <2> QED
    BY <1>0, <2>1, QuietFrames
<1>2. CASE IrqAck
  BY <1>2, AckFrames
<1>3. CASE HandleVblankCount
  <2>1. /\ isr' \in {"events", "idle"} /\ irqPend' = irqPend
        /\ vb' = IF vb.enabled THEN drm_update_vblank_count(vb, TRUE) ELSE vb
    BY <1>3 DEF HandleVblankCount
  <2>2. vb'.inmodeset = vb.inmodeset
    BY <1>3, KeepsModeset DEF ModesetFree, Isr
  <2>3. SameFrames(vb, vb') /\ (vb.enabled => Uncounted(vb') = 0)
    BY <1>0, <2>1, UpdateFrames
  <2> QED
    BY <1>0, <2>1, <2>2, <2>3, QuietFrames
<1>4. CASE HandleVblankEvents
  <2> DEFINE n == Cardinality({x \in pend : Passed(x)})
  <2>1. vb' = PutN(vb, n) /\ isr = "events" /\ isr' \in {"disable", "idle"} /\ irqPend' = irqPend
    BY <1>4 DEF HandleVblankEvents
  <2>2. n \in Nat
    BY FS_Subset, FS_CardinalityType DEF IInv
  <2> HIDE DEF n
  <2>3. vb'.inmodeset = vb.inmodeset
    BY <1>4, KeepsModeset DEF ModesetFree, Isr
  <2> QED
    BY <1>0, <2>1, <2>2, <2>3, PutFrames, QuietFrames
<1>5. CASE HandleVblankDisable \/ DisableTimer
  <2>1. /\ vb' = vblank_disable_fn(vb) /\ irqPend' = irqPend
        /\ isr' = isr \/ (isr = "disable" /\ isr' = "idle")
    BY <1>5 DEF HandleVblankDisable, DisableTimer
  <2>2. vb'.inmodeset = vb.inmodeset
    BY <1>5, KeepsModeset DEF ModesetFree, Isr
  <2> QED
    BY <1>0, <2>1, <2>2, DisableFnFrames, QuietFrames
<1>6. CASE VblankOn
  <2>1. vb.inmodeset /\ vb.refcount >= 1 /\ vb' = drm_crtc_vblank_on(vb)
    BY <1>6, Counts DEF VblankOn
  <2>2. ~vb'.inmodeset /\ vb'.count = vb.count + 1 /\ Uncounted(vb') = 0
    BY <1>0, <2>1, OnContract, OnFrames
  <2> QED
    BY <2>1, <2>2 DEF OneUncounted, Counted
<1>7. CASE VblankOff
  <2>1. /\ vb' = drm_crtc_vblank_off(vb, Cardinality(pend)) /\ isr' = isr /\ irqPend' = irqPend
        /\ ~vb.inmodeset
    BY <1>7 DEF VblankOff
  <2>2. Cardinality(pend) \in Nat
    BY Counts
  <2> QED
    BY <1>0, <2>1, <2>2, OffFrames, QuietFrames
<1>8. CASE AtomicFlush
  <2>1. vb'.inmodeset = vb.inmodeset /\ isr' = isr /\ irqPend' = irqPend
    BY <1>8, KeepsModeset DEF ModesetFree, AtomicFlush
  <2>2. CASE VblankGetOk(vb)
    <3> DEFINE g == drm_vblank_get(vb)
    <3>1. g \in VblankCrtc /\ SameFrames(vb, g)
      BY <1>0, <2>2, GetContract, GetFrames
    <3>2. vb' = drm_update_vblank_count(g, FALSE)
      BY <1>8, <2>2 DEF AtomicFlush
    <3> HIDE DEF g
    <3>3. SameFrames(vb, vb')
      BY <3>1, <3>2, UpdateFrames, SameFramesTrans
    <3> QED
      BY <1>0, <2>1, <3>3, QuietFrames
  <2>3. CASE ~VblankGetOk(vb)
    <3>1. vb' = vb
      BY <1>8, <2>3 DEF AtomicFlush
    <3> QED
      BY <1>0, <2>1, <3>1, QuietFrames
  <2> QED
    BY <2>2, <2>3
<1>9. ASSUME NEW t \in Tasks, Ioctl(t)
      PROVE  OneUncounted' /\ Counted
  <2>1. vb'.inmodeset = vb.inmodeset
    BY <1>9, KeepsModeset DEF ModesetFree
  <2>2. /\ isr' = isr /\ irqPend' = irqPend
        /\ vb' \in {vb, drm_vblank_get(vb), drm_vblank_put(vb)}
    BY <1>9 DEF Ioctl, IoctlGet, IoctlSample, IoctlQuery, IoctlWaited, QueueVblankEvent,
                QueueSequence, Queue
  <2>3. SameFrames(vb, vb')
    BY <1>0, <2>2, GetFrames, PutFrames DEF drm_vblank_put
  <2> QED
    BY <1>0, <2>1, <2>2, <2>3, QuietFrames
<1> QED
  BY <1>1, <1>2, <1>3, <1>4, <1>5, <1>6, <1>7, <1>8, <1>9
  DEF Next, Isr, Commit

(* With a hardware counter of any width every frame whose interrupt was    *)
(* taken is counted exactly once, at whichever update comes first, and     *)
(* drm_crtc_vblank_on moves the count by exactly one.                      *)
THEOREM FramesCountedOnce == Spec => FramesCounted
<1> DEFINE Both == IInv(0) /\ OneUncounted
<1>1. Init => Both
  <2>1. Init => OneUncounted
    BY DEF Init, OneUncounted, Uncounted, drm_crtc_vblank_reset
  <2> QED
    BY <2>1, InitIInv
<1>2. Both /\ [Next]_vars => Both' /\ [Counted]_vars
  <2> SUFFICES ASSUME IInv(0), OneUncounted, [Next]_vars
               PROVE  Both' /\ Counted
    OBVIOUS
  <2>1. IInv(0)'
    BY NextIInv
  <2>2. HwCounter => OneUncounted' /\ Counted
    BY FramesStep
  <2>3. ~HwCounter => OneUncounted' /\ Counted
    BY DEF OneUncounted, Counted
  <2> QED
    BY <2>1, <2>2, <2>3
<1> HIDE DEF Both
<1>3. Spec => [][Counted]_vars
  BY <1>1, <1>2, PTL DEF Spec
<1> QED
  BY <1>3 DEF Counted, FramesCounted
=============================================================================
