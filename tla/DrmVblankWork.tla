--------------------------- MODULE DrmVblankWork ---------------------------
(***************************************************************************)
(* Vblank works (drm/drm_vblank_work.c) on the pipe of DrmVblank: work     *)
(* items that wait for a vblank, the worker thread that runs them, and     *)
(* driver threads that schedule, cancel and flush them while the interrupt *)
(* handler and drm_crtc_vblank_off take them off the pending list.         *)
(*                                                                         *)
(* Every event_lock section is one step, as in DrmVblank, together with    *)
(* the wake_up_all that follows it.  Of the interrupt handler and of       *)
(* drm_crtc_vblank_off this module has the versions with works; the other  *)
(* actions are those of DrmVblank.                                         *)
(***************************************************************************)
EXTENDS DrmVblank, Sequences, SequencesExt

CONSTANTS
    Works,    \* struct drm_vblank_work
    Threads,  \* driver threads that cancel and flush
    None      \* no work

CommitThread == "commit"

ASSUME WorkAssumption ==
    /\ IsFiniteSet(Works) /\ IsFiniteSet(Threads)
    /\ Works \cap Threads = {} /\ None \notin Works \cup Threads
    /\ CommitThread \notin Works \cup Threads

VARIABLES
    work,  \* per work: on pending_work, the count asked for, cancelling
    kq,    \* work list of the kthread worker: works, and threads that flush it
    krun,  \* the work whose function runs
    thr,   \* per thread: where it is in a cancel or flush, and of which work
    off    \* where the commit thread is in drm_crtc_vblank_off

wvars == <<work, kq, krun, thr, off>>
allvars == <<vars, wvars>>

Free == [pc |-> "idle", w |-> None]

(* drm_vblank_work_init, drm_vblank_worker_init *)
WInit ==
    /\ Init
    /\ work = [w \in Works |-> [pending |-> FALSE, count |-> 0, cancelling |-> 0]]
    /\ kq = <<>> /\ krun = None
    /\ thr = [t \in Threads |-> Free]
    /\ off = "idle"

Pending == {w \in Works : work[w].pending}
(* off the list; the count is not looked at any more *)
Unlinked(S) ==
    [w \in Works |-> IF w \in S THEN [work[w] EXCEPT !.pending = FALSE, !.count = 0] ELSE work[w]]

-----------------------------------------------------------------------------
(* The kthread worker: one work after the other, in the order they were    *)
(* queued.  A thread that flushes is an entry of the list, too.            *)

InQueue(x) == \E i \in DOMAIN kq : kq[i] = x
Position(x) == CHOOSE i \in DOMAIN kq : kq[i] = x

(* the list after the works in S were queued, in one order or the other *)
kthread_queue_work(S) == {kq \o s : s \in SetToSeqs({w \in S : ~InQueue(w)})}

(* the entry of flusher t, behind the queued work or else the running one *)
kthread_flush_work(t, w) ==
    IF InQueue(w)
    THEN InsertAt(kq, Position(w) + 1, t)
    ELSE <<t>> \o kq

(* The worker takes its next work, or lets a flusher go. *)
WorkerTake ==
    /\ krun = None /\ kq # <<>>
    /\ kq' = Tail(kq)
    /\ \/ /\ Head(kq) \in Works
          /\ krun' = Head(kq)
          /\ UNCHANGED <<thr, off>>
       \/ /\ Head(kq) \in Threads
          /\ thr' = [thr EXCEPT ![Head(kq)] =
                       IF @.pc = "kcancel" THEN [@ EXCEPT !.pc = "cancelled"] ELSE Free]
          /\ UNCHANGED <<krun, off>>
       \/ /\ Head(kq) = CommitThread
          /\ off' = "idle"
          /\ UNCHANGED <<krun, thr>>
    /\ UNCHANGED <<vars, work>>

(* The function of a work returns. *)
WorkerDone ==
    /\ krun # None
    /\ krun' = None
    /\ UNCHANGED <<vars, work, kq, thr, off>>

-----------------------------------------------------------------------------
(* drm_vblank_work_schedule and the other users of the pending list *)

(* the condition that thread t waits for in drm_vblank_work_flush or _flush_all *)
Emptied(t, pending) == IF thr[t].w = None THEN pending = {} ELSE thr[t].w \notin pending

(* wake_up_all(&work_wait_queue), after which sleepers look at the list again *)
wake_up_all ==
    [t \in Threads |-> IF thr[t].pc = "sleep" THEN [thr[t] EXCEPT !.pc = "flush"] ELSE thr[t]]

(* mutant: no wake-up when a pending work is run at once *)
MutRescheduleWakes(wake) == FALSE

RescheduleWakes(wake) == wake

(* mutant: the reference of a work that is run at once is kept *)
MutScheduled(v, now) == v

Scheduled(v, now) == IF now THEN drm_vblank_put(v) ELSE v

(* mutant: cancelling is not looked at *)
MutNotCancelled(w) == TRUE

NotCancelled(w) == work[w].cancelling = 0

(* Called by a driver or by the function of the work itself.  Refused      *)
(* while the work is cancelled and inside a modeset.  A count that has     *)
(* passed runs the work at once unless nextonmiss.                         *)
drm_vblank_work_schedule(w, count, nextonmiss) ==
    LET v == IF work[w].pending THEN vb ELSE drm_vblank_get(vb)
        now == ~nextonmiss /\ drm_vblank_passed(v.count, count)
    IN  /\ EventLockFree
        /\ NotCancelled(w) /\ ~vb.inmodeset
        /\ IF work[w].pending THEN work[w].count # count ELSE VblankGetOk(vb)
        /\ vb' = Scheduled(v, now)
        /\ work' = IF now THEN Unlinked({w})
                   ELSE [work EXCEPT ![w].count = count, ![w].pending = TRUE]
        /\ kq' \in kthread_queue_work(IF now THEN {w} ELSE {})
        /\ thr' = IF RescheduleWakes(now /\ work[w].pending) THEN wake_up_all ELSE thr
        /\ UNCHANGED <<pend, task, isr, irqPend, krun, off>>

(* HandleVblankEvents of DrmVblank with drm_handle_vblank_works after it *)
HandleVblankWorks ==
    LET sent == {e \in pend : Passed(e)}
        due == {w \in Pending : drm_vblank_passed(vb.count, work[w].count)}
    IN  /\ isr = "events"
        /\ pend' = pend \ sent
        /\ vb' = PutN(vb, Cardinality(sent) + Cardinality(due))
        /\ work' = Unlinked(due)
        /\ kq' \in kthread_queue_work(due)
        /\ thr' = IF due = {} THEN thr ELSE wake_up_all
        /\ isr' = IF vb.immediate /\ OffDelay = "positive" /\ vb.refcount = 0 THEN "disable" ELSE "idle"
        /\ UNCHANGED <<task, irqPend, krun, off>>

(* mutant: pending works are not cancelled *)
MutVblankOffWorks ==
    /\ off = "idle" /\ ~vb.inmodeset /\ EventLockFree
    /\ vb' = drm_crtc_vblank_off(vb, Cardinality(pend))
    /\ pend' = {}
    /\ off' = "flush"
    /\ UNCHANGED <<task, isr, irqPend, work, kq, krun, thr>>

(* drm_crtc_vblank_off with drm_vblank_cancel_pending_works, then the call  *)
(* of drm_vblank_flush_worker.                                              *)
VblankOffWorks ==
    /\ off = "idle" /\ ~vb.inmodeset /\ EventLockFree
    /\ vb' = drm_crtc_vblank_off(vb, Cardinality(pend) + Cardinality(Pending))
    /\ pend' = {}
    /\ work' = Unlinked(Pending)
    /\ thr' = wake_up_all
    /\ off' = "flush"
    /\ UNCHANGED <<task, isr, irqPend, kq, krun>>

(* mutant: drm_crtc_vblank_off does not wait for the worker *)
MutFlushWorker == off = "flush" /\ off' = "idle" /\ UNCHANGED <<vars, work, kq, krun, thr>>

drm_vblank_flush_worker ==
    /\ off = "flush"
    /\ kq' = Append(kq, CommitThread)
    /\ off' = "kflush"
    /\ UNCHANGED <<vars, work, krun, thr>>

-----------------------------------------------------------------------------
(* drm_vblank_work_cancel_sync *)

CancelBegin(t, w) ==
    /\ thr[t].pc = "idle" /\ EventLockFree
    /\ vb' = IF work[w].pending THEN drm_vblank_put(vb) ELSE vb
    /\ work' = [Unlinked({w}) EXCEPT ![w].cancelling = @ + 1]
    /\ thr' = [wake_up_all EXCEPT ![t] = [pc |-> "cancel", w |-> w]]
    /\ UNCHANGED <<pend, task, isr, irqPend, kq, krun, off>>

(* kthread_cancel_work_sync: off the work list, and waits if it is running. *)
CancelWork(t) ==
    LET rest == IF InQueue(thr[t].w) THEN RemoveAt(kq, Position(thr[t].w)) ELSE kq
    IN  /\ thr[t].pc = "cancel"
        /\ IF krun = thr[t].w
           THEN /\ kq' = <<t>> \o rest
                /\ thr' = [thr EXCEPT ![t].pc = "kcancel"]
           ELSE /\ kq' = rest
                /\ thr' = [thr EXCEPT ![t].pc = "cancelled"]
        /\ UNCHANGED <<vars, work, krun, off>>

CancelEnd(t) ==
    /\ thr[t].pc = "cancelled" /\ EventLockFree
    /\ work' = [work EXCEPT ![thr[t].w].cancelling = @ - 1]
    /\ thr' = [thr EXCEPT ![t] = Free]
    /\ UNCHANGED <<vars, kq, krun, off>>

-----------------------------------------------------------------------------
(* drm_vblank_work_flush and, for no work in particular, _flush_all *)

FlushBegin(t, w) ==
    /\ thr[t].pc = "idle"
    /\ thr' = [thr EXCEPT ![t] = [pc |-> "flush", w |-> w]]
    /\ UNCHANGED <<vars, work, kq, krun, off>>

(* wait_event_lock_irq looks at the list and goes on or to sleep. *)
FlushLook(t) ==
    /\ thr[t].pc = "flush" /\ EventLockFree
    /\ thr' = [thr EXCEPT ![t].pc = IF Emptied(t, Pending) THEN "kflush" ELSE "sleep"]
    /\ UNCHANGED <<vars, work, kq, krun, off>>

(* kthread_flush_work, or kthread_flush_worker *)
FlushWorker(t) ==
    /\ thr[t].pc = "kflush"
    /\ \/ /\ thr[t].w # None /\ ~InQueue(thr[t].w) /\ krun # thr[t].w
          /\ thr' = [thr EXCEPT ![t] = Free]
          /\ kq' = kq
       \/ /\ thr[t].w # None /\ (InQueue(thr[t].w) \/ krun = thr[t].w)
          /\ thr' = [thr EXCEPT ![t].pc = "kwait"]
          /\ kq' = kthread_flush_work(t, thr[t].w)
       \/ /\ thr[t].w = None
          /\ thr' = [thr EXCEPT ![t].pc = "kwait"]
          /\ kq' = Append(kq, t)
    /\ UNCHANGED <<vars, work, krun, off>>

-----------------------------------------------------------------------------
(* DrmVblank without the two actions that works take part in; the commit   *)
(* thread goes on once drm_crtc_vblank_off has returned.                    *)
Pipe ==
    /\ \/ Vsync \/ IrqAck \/ HandleVblankCount \/ HandleVblankDisable \/ DisableTimer
       \/ off = "idle" /\ (VblankOn \/ AtomicFlush)
       \/ \E t \in Tasks : Ioctl(t)
    /\ UNCHANGED wvars

Schedule ==
    \E w \in Works, nextonmiss \in BOOLEAN,
       count \in {n \in (vb.count - 1)..(vb.count + MaxAhead) : n >= 0} :
           drm_vblank_work_schedule(w, count, nextonmiss)

Thread(t) ==
    \/ \E w \in Works : CancelBegin(t, w)
    \/ \E w \in Works \cup {None} : FlushBegin(t, w)
    \/ CancelWork(t) \/ CancelEnd(t) \/ FlushLook(t) \/ FlushWorker(t)

WNext ==
    \/ Pipe \/ Schedule \/ HandleVblankWorks \/ VblankOffWorks \/ drm_vblank_flush_worker
    \/ WorkerTake \/ WorkerDone
    \/ \E t \in Threads : Thread(t)

WSpec == WInit /\ [][WNext]_allvars

-----------------------------------------------------------------------------
(* A pending work holds exactly one vblank reference, next to those of      *)
(* DrmVblank, whichever of schedule, reschedule, cancel, interrupt and      *)
(* drm_crtc_vblank_off takes it off the list.                               *)
WorkRefBalance ==
    vb.refcount = Cardinality(pend) + Cardinality(Holders) + ModesetRef + Cardinality(Pending)

(* A pending work has the interrupt on that will run it, so that none is    *)
(* left behind by drm_crtc_vblank_off or by the interrupt's own disable.    *)
WorksNeedIrq == Pending # {} => vb.enabled

(* "Wait for any vblank work that's still executing to finish": once        *)
(* drm_crtc_vblank_off has returned no work is pending, queued or running   *)
(* until the pipe is turned on again.                                       *)
QuietWhileOff ==
    vb.inmodeset /\ off = "idle" =>
        Pending = {} /\ krun = None /\ \A w \in Works : ~InQueue(w)

(* "On return, work is guaranteed to no longer be scheduled or running,     *)
(* even if it's self-arming": between kthread_cancel_work_sync and the      *)
(* return it is neither, whoever schedules it.                              *)
CancelIsFinal ==
    \A t \in Threads : thr[t].pc = "cancelled" =>
        ~work[thr[t].w].pending /\ ~InQueue(thr[t].w) /\ krun # thr[t].w

(* No flusher sleeps once the works it waits for have left the pending      *)
(* list: each of the four ways off the list wakes work_wait_queue.          *)
NoLostWakeup == \A t \in Threads : thr[t].pc = "sleep" => ~Emptied(t, Pending)
=============================================================================
