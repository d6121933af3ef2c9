----------------------------- MODULE DrmVblank -----------------------------
(***************************************************************************)
(* One display pipe of drm/drm_vblank.c as its clients drive it: the       *)
(* interrupt handler of the display driver, the disable timer, the atomic  *)
(* commit thread (vblank on, vblank off, page-flip event) and user tasks   *)
(* in the wait-vblank, queue-sequence and get-sequence ioctls.             *)
(*                                                                         *)
(* Locks.  vbl_lock and vblank_time_lock sections are single steps, the    *)
(* operators of DrmVblankCore.  event_lock is held by the handler across   *)
(* the count update and the event scan, two steps with lock-free and       *)
(* vbl_lock steps of others between them; every other event_lock section   *)
(* is one step, guarded by EventLockFree.                                  *)
(***************************************************************************)
EXTENDS DrmVblankCore, FiniteSets

CONSTANTS
    Tasks,     \* user tasks, each with at most one event or ioctl in flight
    Flip,      \* the page-flip event of the commit thread
    MaxCount,  \* bound: no vblank is raised once the count is here
    MaxAhead   \* bound: how far ahead of the count a task may ask

ASSUME VblankAssumption ==
    /\ IsFiniteSet(Tasks)
    /\ Flip \notin Tasks
    /\ MaxCount \in Nat
    /\ MaxAhead \in Nat

VARIABLES
    vb,       \* struct drm_vblank_crtc
    pend,     \* vblank_event_list: whose event, and its e->sequence
    task,     \* per task: where it is in its ioctl, its samples seq, req_seq
    isr,      \* progress of the interrupt handler
    irqPend   \* the vsync bit of the interrupt status register

vars == <<vb, pend, task, isr, irqPend>>

Ids == Tasks \cup {Flip}
Idle == [pc |-> "idle", seq |-> 0, req |-> 0]
Queued(i) == \E e \in pend : e.id = i
EventLockFree == isr # "events"

Init ==
    /\ \E immediate \in Immediate : vb = drm_crtc_vblank_reset(immediate)
    /\ pend = {}
    /\ task = [t \in Tasks |-> Idle]
    /\ isr = "idle"
    /\ irqPend = FALSE

-----------------------------------------------------------------------------
(* The display hardware and the interrupt handler *)

(* The hardware raises its vsync interrupt; only an enabled one is seen. *)
Vsync ==
    /\ vb.enabled /\ ~irqPend /\ vb.count < MaxCount
    /\ irqPend' = TRUE
    /\ UNCHANGED <<vb, pend, task, isr>>

(* The driver's handler clears the status bit; ma35 then bumps its software *)
(* vblank_counter, before and outside the locks of drm_handle_vblank.       *)
IrqAck ==
    /\ isr = "idle" /\ irqPend
    /\ irqPend' = FALSE
    /\ isr' = "acked"
    /\ vb' = IF HwCounter THEN [vb EXCEPT !.hwcnt = (@ + 1) % (MaxHwCount + 1)]
                          ELSE vb
    /\ UNCHANGED <<pend, task>>

(* mutant: no test of vblank->enabled *)
MutHandleVblankCount ==
    /\ isr = "acked"
    /\ isr' = "events"
    /\ vb' = drm_update_vblank_count(vb, TRUE)
    /\ UNCHANGED <<pend, task, irqPend>>

(* drm_handle_vblank up to the wake_up: takes event_lock, updates the count. *)
HandleVblankCount ==
    /\ isr = "acked"
    /\ IF vb.enabled
       THEN /\ vb' = drm_update_vblank_count(vb, TRUE)
            /\ isr' = "events"
       ELSE /\ vb' = vb
            /\ isr' = "idle"
    /\ UNCHANGED <<pend, task, irqPend>>

(* the events drm_handle_vblank_events finds passed *)
Passed(e) == drm_vblank_passed(vb.count, e.seq)

(* drm_handle_vblank_events, then event_lock is dropped.  disable_irq is   *)
(* decided from the reference count before the events drop theirs.         *)
HandleVblankEvents ==
    /\ isr = "events"
    /\ LET sent == {e \in pend : Passed(e)}
       IN  /\ pend' = pend \ sent
           /\ vb' = PutN(vb, Cardinality(sent))
    /\ isr' = IF vb.immediate /\ OffDelay = "positive" /\ vb.refcount = 0 THEN "disable"
                                                              ELSE "idle"
    /\ UNCHANGED <<task, irqPend>>

HandleVblankDisable ==
    /\ isr = "disable"
    /\ vb' = vblank_disable_fn(vb)
    /\ isr' = "idle"
    /\ UNCHANGED <<pend, task, irqPend>>

(* disable_timer expires *)
DisableTimer ==
    /\ vb.timer
    /\ vb' = vblank_disable_fn(vb)
    /\ UNCHANGED <<pend, task, isr, irqPend>>

-----------------------------------------------------------------------------
(* The commit thread: the drivers' atomic_enable, atomic_disable and       *)
(* atomic_flush hooks.                                                     *)

VblankOn ==
    /\ vb.inmodeset /\ vb.count < MaxCount
    /\ vb' = drm_crtc_vblank_on(vb)
    /\ UNCHANGED <<pend, task, isr, irqPend>>

(* Sends every queued event of the pipe, passed or not. *)
VblankOff ==
    /\ ~vb.inmodeset /\ EventLockFree
    /\ vb' = drm_crtc_vblank_off(vb, Cardinality(pend))
    /\ pend' = {}
    /\ UNCHANGED <<task, isr, irqPend>>

(* The flip event of a commit.  The previous commit's event was sent       *)
(* before this commit's tail runs (wait_for_dependencies on flip_done).    *)
(* With the interrupt unavailable the event is sent at once.               *)
AtomicFlush ==
    /\ EventLockFree /\ ~Queued(Flip)
    /\ IF VblankGetOk(vb)
       THEN /\ vb' = drm_update_vblank_count(drm_vblank_get(vb), FALSE)
            /\ pend' = pend \cup {[id |-> Flip, seq |-> vb'.count + 1]}
       ELSE UNCHANGED <<vb, pend>>
    /\ UNCHANGED <<task, isr, irqPend>>

-----------------------------------------------------------------------------
(* User tasks *)

(* The drm_vblank_get of the three ioctls; without it they fail. *)
IoctlGet(t) ==
    /\ task[t].pc = "idle" /\ ~Queued(t)
    /\ IF VblankGetOk(vb)
       THEN /\ vb' = drm_vblank_get(vb)
            /\ task' = [task EXCEPT ![t].pc = "got"]
       ELSE UNCHANGED <<vb, task>>
    /\ UNCHANGED <<pend, isr, irqPend>>

(* The count is sampled and the request made absolute: relative, absolute  *)
(* and next-on-miss requests together ask for any value near the sample.   *)
IoctlSample(t) ==
    /\ task[t].pc = "got"
    /\ \E pc \in {"wait", "queue", "qseq"},
          req \in {n \in (vb.count - 1)..(vb.count + MaxAhead) : n >= 0} :
             task' = [task EXCEPT ![t] = [pc |-> pc, seq |-> vb.count, req |-> req]]
    /\ UNCHANGED <<vb, pend, isr, irqPend>>

(* drm_crtc_get_sequence_ioctl, and a wait with a bad request type *)
IoctlQuery(t) ==
    /\ task[t].pc = "got"
    /\ vb' = drm_vblank_put(vb)
    /\ task' = [task EXCEPT ![t] = Idle]
    /\ UNCHANGED <<pend, isr, irqPend>>

(* mutant: an exit of the wait that forgets the reference *)
MutWaited(t) ==
    /\ task[t].pc = "wait"
    /\ vb' \in {vb, drm_vblank_put(vb)}
    /\ task' = [task EXCEPT ![t] = Idle]
    /\ UNCHANGED <<pend, isr, irqPend>>

(* A blocking wait ends: passed, interrupts off, timeout or signal. *)
IoctlWaited(t) ==
    /\ task[t].pc = "wait"
    /\ vb' = drm_vblank_put(vb)
    /\ task' = [task EXCEPT ![t] = Idle]
    /\ UNCHANGED <<pend, isr, irqPend>>

(* mutant: vblank->enabled is not looked at again under event_lock *)
MutQueue(t, seq) ==
    /\ EventLockFree
    /\ task' = [task EXCEPT ![t] = Idle]
    /\ \/ /\ drm_vblank_passed(seq, task[t].req)
          /\ vb' = drm_vblank_put(vb)
          /\ UNCHANGED pend
       \/ /\ ~drm_vblank_passed(seq, task[t].req)
          /\ pend' = pend \cup {[id |-> t, seq |-> task[t].req]}
          /\ vb' = vb
    /\ UNCHANGED <<isr, irqPend>>

(* The event_lock section common to drm_queue_vblank_event and             *)
(* drm_crtc_queue_sequence_ioctl: seq decides whether the event goes on    *)
(* the list.  The put of the failing exits runs after the unlock; it is    *)
(* the last thing the task does.                                           *)
Queue(t, seq) ==
    /\ EventLockFree
    /\ task' = [task EXCEPT ![t] = Idle]
    /\ \/ \* interrupts turned off since the get, no room for the event, or passed
          /\ vb' = drm_vblank_put(vb)
          /\ UNCHANGED pend
       \/ /\ vb.enabled
          /\ ~drm_vblank_passed(seq, task[t].req)
          /\ pend' = pend \cup {[id |-> t, seq |-> task[t].req]}
          /\ vb' = vb
    /\ UNCHANGED <<isr, irqPend>>

(* drm_queue_vblank_event reads the count again under event_lock. *)
QueueVblankEvent(t) == task[t].pc = "queue" /\ Queue(t, vb.count)

(* drm_crtc_queue_sequence_ioctl decides from the sample taken before it. *)
QueueSequence(t) == task[t].pc = "qseq" /\ Queue(t, task[t].seq)

-----------------------------------------------------------------------------
Isr == IrqAck \/ HandleVblankCount \/ HandleVblankEvents \/ HandleVblankDisable

Commit == VblankOn \/ VblankOff \/ AtomicFlush

Ioctl(t) ==
    \/ IoctlGet(t) \/ IoctlSample(t) \/ IoctlQuery(t) \/ IoctlWaited(t)
    \/ QueueVblankEvent(t) \/ QueueSequence(t)

Next == Vsync \/ Isr \/ DisableTimer \/ Commit \/ \E t \in Tasks : Ioctl(t)

Spec == Init /\ [][Next]_vars

(* The display keeps refreshing while its interrupt is on, and the         *)
(* interrupt is taken: the handler runs to its end once it is raised.      *)
FairSpec == Spec /\ WF_vars(Vsync) /\ WF_vars(Isr)

-----------------------------------------------------------------------------
(* Every variable keeps its type; no counter of struct drm_vblank_crtc     *)
(* leaves its range.                                                       *)
TypeOK ==
    /\ vb \in VblankCrtc
    /\ pend \subseteq [id: Ids, seq: Nat]
    /\ task \in [Tasks -> [pc: {"idle", "got", "wait", "queue", "qseq"},
                           seq: Nat, req: Nat]]
    /\ isr \in {"idle", "acked", "events", "disable"}
    /\ irqPend \in BOOLEAN

Holders == {t \in Tasks : task[t].pc # "idle"}
ModesetRef == IF vb.inmodeset THEN 1 ELSE 0

(* No reference leaks and none is dropped twice: the reference count is    *)
(* the queued events, the ioctls in flight and the modeset reference that  *)
(* drm_crtc_vblank_off takes, at every interleaving of on, off, interrupt, *)
(* timer and ioctls.                                                       *)
RefcountBalance ==
    vb.refcount = Cardinality(pend) + Cardinality(Holders) + ModesetRef

(* A queued event always has the interrupt that will deliver it: the       *)
(* recheck of vblank->enabled under event_lock, the reference the event    *)
(* holds, and the scan in drm_crtc_vblank_off leave no event on the list   *)
(* of a pipe whose interrupt is off.                                       *)
EventsNeedIrq == pend # {} => vb.enabled

(* Between drm_crtc_vblank_off and drm_crtc_vblank_on nobody, not even a   *)
(* late drm_vblank_get, turns the interrupt on.                            *)
OffIsOff == vb.inmodeset => ~vb.enabled

(* "no updates of timestamps or count can happen after we've disabled":    *)
(* while the interrupt is off only drm_crtc_vblank_on moves the count, an  *)
(* interrupt that was already on its way does not.                         *)
CountFrozenWhileOff ==
    [][ (~vb.enabled /\ ~vb'.enabled /\ ~(vb.inmodeset /\ ~vb'.inmodeset))
            => vb'.count = vb.count ]_vars

(* With a hardware counter every frame whose interrupt the driver took is   *)
(* counted once, at whichever update of interrupt handler, timer, get, off  *)
(* or flip comes first, although the counter wraps and interrupts arrive    *)
(* after the pipe was disabled: the count and what the counter is ahead of  *)
(* it go up by one with the interrupt and by nothing else.  But for         *)
(* drm_crtc_vblank_on: it moves the count by one and forgets the rest.      *)
FramesCounted ==
    [][ HwCounter =>
          IF vb.inmodeset /\ ~vb'.inmodeset
          THEN vb'.count = vb.count + 1
          ELSE vb'.count + Uncounted(vb') =
                 vb.count + Uncounted(vb) + (IF isr = "idle" /\ isr' = "acked" THEN 1 ELSE 0)
      ]_vars

(* Every queued event is sent in the end (or the run reaches its bound):   *)
(* neither the disable timer nor a modeset nor a stale sample of the count *)
(* leaves one behind.                                                      *)
EventuallySent == \A i \in Ids : Queued(i) ~> (~Queued(i) \/ vb.count >= MaxCount)
=============================================================================
