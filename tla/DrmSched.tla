------------------------------ MODULE DrmSched ------------------------------
(***************************************************************************)
(* The GPU scheduler (drm/scheduler): one scheduler, its entities and      *)
(* their jobs.  The actors are the owners of the entities (push, flush,    *)
(* fini), the ordered work queue that runs work_run_job and work_free_job  *)
(* one at a time, the hardware, the timeout worker with the driver's       *)
(* timedout_job in it, and the works of killed jobs.                       *)
(*                                                                         *)
(* A job is <<e, n>>: job n of entity e, n being its fence sequence number. *)
(* The order of the run queue (virtual run times) is left open: any ready  *)
(* entity in the tree may be the first.  The pop loop of the kill is one    *)
(* step.  Between the test of pause_submit and the queue_work after it the  *)
(* work queue may be stopped (late).                                        *)
(*                                                                         *)
(* drm_sched_stop and drm_sched_fini walk the pending list without its      *)
(* lock.  Nothing can be said of the jobs once one of them does so beside   *)
(* another accessor; raced remembers it.                                    *)
(***************************************************************************)
EXTENDS Integers, Sequences, FiniteSets, Functions

CONSTANTS
    Entities,     \* struct drm_sched_entity
    Exts,         \* fences of other devices, which a job may depend on
    None,         \* no entity, no job, no fence
    MaxJobs,      \* bound: jobs pushed to all entities together
    MaxDeps,      \* bound: dependencies of one job
    CreditLimit,  \* sched->credit_limit
    Credits,      \* credits of a job, by its sequence number
    CancelJob,    \* whether sched->ops->cancel_job is there, or both to try both
    OwnWq         \* sched->own_submit_wq

ASSUME SchedAssumption ==
    /\ IsFiniteSet(Entities)
    /\ MaxJobs \in Nat /\ MaxDeps \in Nat
    /\ CreditLimit \in Nat \ {0}
    /\ Credits \in [1..MaxJobs -> Nat \ {0}]
    /\ CancelJob \in SUBSET BOOLEAN \ {{}} /\ OwnWq \in BOOLEAN

VARIABLES
    job,    \* struct drm_sched_job with its fences and its hardware fence
    ent,    \* struct drm_sched_entity and where its owner is
    sched,  \* struct drm_gpu_scheduler
    wk,     \* the work item of submit_wq that is running
    tdr,    \* drm_sched_job_timedout
    ext,    \* the fences of Exts that have signalled
    raced   \* history: a walk along the pending list had company

vars == <<job, ent, sched, wk, tdr, ext, raced>>

Jobs == Entities \X (1..MaxJobs)

(* A fence: a scheduled or finished fence of a job, or a foreign one.  What *)
(* pop_job waits for is one of these.                                       *)
Fence(kind, f) == [kind |-> kind, f |-> f]
Fences == [kind: {"scheduled", "finished"}, f: Jobs] \cup [kind: {"ext"}, f: Exts]

ASSUME NoneAssumption == None \notin Entities \cup Jobs \cup Fences

(* drm_sched_can_queue truncates the credits of a job to the limit. *)
Cost(j) == IF Credits[j[2]] > CreditLimit THEN CreditLimit ELSE Credits[j[2]]
CostOf(S) == Cardinality(UNION {{j} \X (1..Cost(j)) : j \in S})

(* late, which no code reads: the job was pushed to a killed entity *)
NewJob == [at |-> "new", late |-> FALSE, deps |-> {}, left |-> {}, prev |-> None,
           scheduled |-> FALSE, finished |-> FALSE, parent |-> "none", cb |-> FALSE]
NewEntity == [queue |-> <<>>, list |-> FALSE, tree |-> FALSE, stopped |-> FALSE,
              dep |-> None, idle |-> TRUE, last |-> None, adding |-> FALSE, owner |-> "open", n |-> 0]
IdleWork == [pc |-> "idle", e |-> None, j |-> None]
IdleTdr == [pc |-> "idle", j |-> None]

(* drm_sched_init and drm_sched_entity_init *)
Init ==
    /\ job = [j \in Jobs |-> NewJob]
    /\ ent = [e \in Entities |-> NewEntity]
    /\ sched = [paused |-> FALSE, credits |-> 0, pending |-> <<>>, runq |-> FALSE,
                freeq |-> FALSE, late |-> {}, timer |-> FALSE, guilty |-> FALSE,
                fini |-> "no", cur |-> None, tmp |-> None]
    /\ wk = IdleWork
    /\ tdr = IdleTdr
    /\ ext = {}
    /\ raced = FALSE

-----------------------------------------------------------------------------
(* Helpers on the scheduler *)

drm_sched_run_job_queue(s) == IF s.paused THEN s ELSE [s EXCEPT !.runq = TRUE]
drm_sched_run_free_queue(s) == IF s.paused THEN s ELSE [s EXCEPT !.freeq = TRUE]

(* The same for callers outside of the work queue and the timeout worker,   *)
(* which queue the works in S: they have seen pause_submit unset and may    *)
(* come to queue_work only after drm_sched_wqueue_stop.                     *)
Late(S, s) == IF s.paused THEN s ELSE [s EXCEPT !.late = @ \cup S]
LateRun(W) == IF W = {} THEN {} ELSE {"run"}

(* cancel_work_sync for both works; those in L are queued after it. *)
Cancelled(L, s) == [s EXCEPT !.runq = ("run" \in L), !.freeq = ("free" \in L), !.late = {}]

drm_sched_start_timeout(s) == IF s.pending = <<>> THEN s ELSE [s EXCEPT !.timer = TRUE]

(* drm_sched_entity_wakeup: the entities in S waited for a fence that has    *)
(* just signalled.                                                          *)
Woken(S, en) == [e \in Entities |-> IF e \in S THEN [en[e] EXCEPT !.dep = None] ELSE en[e]]
WakeSched(S, s) == IF S = {} THEN s ELSE drm_sched_run_job_queue(s)

(* dma_fence_signal on one of the fences in F *)
Waiting(F) == {e \in Entities : ent[e].dep \in F}

Signalled(f, jb) ==
    \/ f.kind = "scheduled" /\ jb[f.f].scheduled
    \/ f.kind = "finished" /\ jb[f.f].finished
    \/ f.kind = "ext" /\ f.f \in ext

(* drm_sched_job_done for the jobs in S, without the fences: the credits    *)
(* are given back and the free worker is queued.                            *)
JobsDone(S, s) ==
    IF S = {} THEN s
    ELSE drm_sched_run_free_queue([s EXCEPT !.credits = @ - CostOf(S)])

Finished(S, jb) == [j \in Jobs |-> IF j \in S THEN [jb[j] EXCEPT !.finished = TRUE] ELSE jb[j]]
FinishedFences(S) == {Fence("finished", j) : j \in S}

(* free_job of the driver, with drm_sched_job_cleanup in it: only the fences *)
(* of the job may live on.                                                   *)
Freed(j, jb) == [NewJob EXCEPT !.at = "freed", !.late = jb[j].late,
                               !.scheduled = jb[j].scheduled, !.finished = jb[j].finished]
free_job(S, jb) == [j \in Jobs |-> IF j \in S THEN Freed(j, jb) ELSE jb[j]]
-----------------------------------------------------------------------------
(* The owner of an entity *)

(* drm_sched_job_add_dependency: of the fences of one entity only the last *)
(* is kept.                                                                *)
drm_sched_job_add_dependency(D) ==
    {d \in D : ~\E x \in D : x[1] = d[1] /\ x[2] > d[2]}

(* drm_sched_job_init, drm_sched_job_arm and the first half of              *)
(* drm_sched_entity_push_job, under the lock that drivers hold over them.   *)
Push(e, D, X) ==
    LET n == ent[e].n + 1
        deps == {Fence("finished", d) : d \in drm_sched_job_add_dependency(D)}
                \cup {Fence("ext", x) : x \in X}
    IN  /\ ent[e].owner \in {"open", "killed"} /\ ~ent[e].adding
        /\ Cardinality(D) + Cardinality(X) <= MaxDeps
        /\ Cardinality({j \in Jobs : job[j].at # "new"}) < MaxJobs
        /\ job' = [job EXCEPT ![<<e, n>>].at = "queue", ![<<e, n>>].deps = deps,
                              ![<<e, n>>].left = deps, ![<<e, n>>].late = ent[e].stopped]
        /\ ent' = [ent EXCEPT ![e].queue = Append(@, <<e, n>>), ![e].n = n,
                              ![e].adding = (ent[e].queue = <<>>)]
        /\ UNCHANGED <<sched, wk, tdr, ext, raced>>

(* The first job of an empty queue: drm_sched_rq_add_entity, refused for a  *)
(* killed entity, and drm_sched_wakeup.                                     *)
AddEntity(e) ==
    /\ ent[e].adding
    /\ IF ent[e].stopped
       THEN /\ ent' = [ent EXCEPT ![e].adding = FALSE]
            /\ UNCHANGED sched
       ELSE /\ ent' = [ent EXCEPT ![e].adding = FALSE, ![e].list = TRUE, ![e].tree = TRUE]
            /\ sched' = Late({"run"}, drm_sched_run_job_queue(sched))
    /\ UNCHANGED <<job, wk, tdr, ext, raced>>

drm_sched_entity_is_idle(en) == ~en.list \/ en.queue = <<>> \/ en.stopped

(* drm_sched_entity_flush: goes to sleep unless the entity is idle. *)
Flush(e) ==
    /\ ent[e].owner = "open" /\ ~ent[e].adding /\ ~drm_sched_entity_is_idle(ent[e])
    /\ ent' = [ent EXCEPT ![e].owner = "sleep"]
    /\ UNCHANGED <<job, sched, wk, tdr, ext, raced>>

(* mutant: job_scheduled is not woken *)
MutWakeFlushers(en) == en

(* wake_up(&sched->job_scheduled): the sleepers look again.  Nobody pushes  *)
(* to an entity during the flush, so what they see then is true now.        *)
WakeFlushers(en) ==
    [e \in Entities |-> IF en[e].owner = "sleep" /\ drm_sched_entity_is_idle(en[e])
                        THEN [en[e] EXCEPT !.owner = "open"] ELSE en[e]]

(* drm_sched_entity_kill up to the wait: from a flush in a killed process,  *)
(* also one that timed out or did not sleep, or from drm_sched_entity_fini. *)
KillStart(e) ==
    /\ ~ent[e].adding
    /\ \/ ent[e].owner \in {"open", "sleep"}
          /\ ent' = [ent EXCEPT ![e].owner = "kill", ![e].stopped = TRUE,
                                ![e].list = FALSE, ![e].tree = @ /\ ~ent[e].list]
       \/ ent[e].owner \in {"open", "killed"}
          /\ ent' = [ent EXCEPT ![e].owner = "fini", ![e].stopped = TRUE,
                                ![e].list = FALSE, ![e].tree = @ /\ ~ent[e].list]
    /\ UNCHANGED <<job, sched, wk, tdr, ext, raced>>

(* mutant: entity_idle is not waited for *)
MutKillIdle(e) == TRUE

KillIdle(e) == ent[e].idle

(* mutant: the killed jobs do not wait for the job before them *)
MutPrev(e, n) == None

(* the finished fence that killed job n of the queue is chained to *)
Prev(e, n) == IF n = 1 THEN ent[e].last ELSE ent[e].queue[n - 1]

(* The rest of it: every queued job is popped and chained to the finished   *)
(* fence of the job before it.  The end of drm_sched_entity_fini gives up   *)
(* the wait for a dependency.                                               *)
KillJobs(e) ==
    /\ ent[e].owner \in {"kill", "fini"} /\ KillIdle(e)
    /\ job' = [j \in Jobs |->
                 IF \E n \in DOMAIN ent[e].queue : ent[e].queue[n] = j
                 THEN LET n == CHOOSE k \in DOMAIN ent[e].queue : ent[e].queue[k] = j
                      IN  [job[j] EXCEPT !.at = "kill", !.prev = Prev(e, n)]
                 ELSE job[j]]
    /\ ent' = [ent EXCEPT ![e].queue = <<>>,
                          ![e].owner = IF @ = "kill" THEN "killed" ELSE "gone",
                          ![e].dep = IF ent[e].owner = "fini" THEN None ELSE @,
                          ![e].last = IF ent[e].owner = "fini" THEN None ELSE @]
    /\ UNCHANGED <<sched, wk, tdr, ext, raced>>

(* drm_sched_entity_kill_jobs_work, which is queued again until the fence   *)
(* before and all dependencies have signalled.                              *)
KillWork(j) ==
    LET W == Waiting({Fence("scheduled", j), Fence("finished", j)})
    IN  /\ job[j].at = "kill"
        /\ job[j].prev # None => job[job[j].prev].finished
        /\ \A f \in job[j].deps : Signalled(f, job)
        /\ job' = [job EXCEPT ![j].at = "killed", ![j].prev = None, ![j].left = {},
                                  ![j].scheduled = TRUE, ![j].finished = TRUE]
        /\ ent' = Woken(W, ent)
        /\ sched' = Late(LateRun(W), WakeSched(W, sched))
        /\ UNCHANGED <<wk, tdr, ext, raced>>

(* A foreign fence signals. *)
ExtSignal(x) ==
    LET W == Waiting({Fence("ext", x)})
    IN  /\ x \notin ext
        /\ ext' = ext \cup {x}
        /\ ent' = Woken(W, ent)
        /\ sched' = Late(LateRun(W), WakeSched(W, sched))
        /\ UNCHANGED <<job, wk, tdr, raced>>

-----------------------------------------------------------------------------
(* drm_sched_run_job_work *)

(* submit_wq, which drm_sched_fini destroys if it is the scheduler's own *)
WqAlive == ~(OwnWq /\ sched.fini \in {"done", "left"})

drm_sched_entity_is_ready(e) == ent[e].queue # <<>> /\ ent[e].dep = None

(* mutant: the credits in use are not looked at *)
MutCanQueue(e) == TRUE

drm_sched_can_queue(e) == sched.credits + Cost(Head(ent[e].queue)) <= CreditLimit

(* drm_sched_select_entity: the first ready entity of the tree. *)
Select ==
    /\ wk.pc = "idle" /\ sched.runq /\ WqAlive
    /\ sched' = [sched EXCEPT !.runq = FALSE, !.late = @ \ {"run"}]
    /\ LET ready == {e \in Entities : ent[e].tree /\ drm_sched_entity_is_ready(e)}
       IN  \/ ready = {} /\ UNCHANGED <<ent, wk>>
           \/ \E e \in ready :
                IF drm_sched_can_queue(e)
                THEN /\ ent' = [ent EXCEPT ![e].idle = FALSE]
                     /\ wk' = [pc |-> "pop", e |-> e, j |-> Head(ent[e].queue)]
                ELSE UNCHANGED <<ent, wk>>
    /\ UNCHANGED <<job, tdr, ext, raced>>

(* drm_sched_entity_add_dependency_cb: of a job of this scheduler only the  *)
(* scheduled fence is waited for, or the finished one if that has an error  *)
(* or must not be pipelined.                                                *)
Awaited(f) == IF f.kind = "finished" THEN {Fence("scheduled", f.f), f} ELSE {f}

(* mutant: no fence of this scheduler is waited for *)
MutOwn(e, f) == f.kind = "finished"

Own(e, f) == f.kind = "finished" /\ f.f[1] = e

(* drm_sched_entity_pop_job: one dependency of the job.  If it has to be    *)
(* waited for, the entity is given up until drm_sched_entity_wakeup.        *)
PopDependency ==
    /\ wk.pc = "pop"
    /\ \E f \in job[wk.j].left : \E a \in Awaited(f) :
         /\ job' = [job EXCEPT ![wk.j].left = @ \ {f}]
         /\ IF Own(wk.e, f) \/ Signalled(a, job)
            THEN UNCHANGED <<ent, sched, wk>>
            ELSE /\ ent' = [ent EXCEPT ![wk.e].dep = a, ![wk.e].idle = TRUE]
                 /\ sched' = drm_sched_run_job_queue(sched)
                 /\ wk' = IdleWork
    /\ UNCHANGED <<tdr, ext, raced>>

(* The same, once no dependency is left. *)
PopJob ==
    /\ wk.pc = "pop" /\ job[wk.j].left = {}
    /\ job' = [job EXCEPT ![wk.j].at = "run"]
    /\ ent' = [ent EXCEPT ![wk.e].last = wk.j, ![wk.e].queue = Tail(@)]
    /\ wk' = [wk EXCEPT !.pc = "requeue"]
    /\ UNCHANGED <<sched, tdr, ext, raced>>

(* drm_sched_rq_pop_entity: in the tree exactly if it has another job.      *)
PopEntity ==
    /\ wk.pc = "requeue"
    /\ ent' = [ent EXCEPT ![wk.e].tree = (ent[wk.e].queue # <<>>)]
    /\ wk' = [wk EXCEPT !.pc = "begin"]
    /\ UNCHANGED <<job, sched, tdr, ext, raced>>

(* drm_sched_job_begin *)
JobBegin ==
    /\ wk.pc = "begin"
    /\ sched' = drm_sched_start_timeout(
                  [sched EXCEPT !.credits = @ + Cost(wk.j), !.pending = Append(@, wk.j)])
    /\ wk' = [wk EXCEPT !.pc = "run"]
    /\ UNCHANGED <<job, ent, tdr, ext, raced>>

(* run_job gives no fence, or one of a job that will end or of one that     *)
(* hangs; then complete_all and drm_sched_fence_scheduled.  The entity is   *)
(* not touched any more.                                                    *)
RunJob ==
    LET W == Waiting({Fence("scheduled", wk.j)})
    IN  /\ wk.pc = "run"
        /\ \E hw \in {"none", "running", "hung"} :
             job' = [job EXCEPT ![wk.j].parent = hw, ![wk.j].scheduled = TRUE]
        /\ ent' = [Woken(W, ent) EXCEPT ![wk.e].idle = TRUE]
        /\ sched' = WakeSched(W, sched)
        /\ wk' = [wk EXCEPT !.pc = "callback", !.e = None]
        /\ UNCHANGED <<tdr, ext, raced>>

(* Without a fence, or with a signalled one, the job is done; else its      *)
(* callback is added.  Then flushers are woken and the work queues itself.  *)
AddCallback ==
    LET done == IF job[wk.j].parent \in {"none", "signalled"} THEN {wk.j} ELSE {}
        W == Waiting(FinishedFences(done))
    IN  /\ wk.pc = "callback"
        /\ job' = [Finished(done, job) EXCEPT ![wk.j].cb = (done = {})]
        /\ ent' = WakeFlushers(Woken(W, ent))
        /\ sched' = drm_sched_run_job_queue(JobsDone(done, sched))
        /\ wk' = IdleWork
        /\ UNCHANGED <<tdr, ext, raced>>

(* The hardware ends a job, its fence calls drm_sched_job_done_cb. *)
HwDone(j) ==
    LET done == IF job[j].cb THEN {j} ELSE {}
        W == Waiting(FinishedFences(done))
    IN  /\ job[j].parent = "running"
        /\ job' = [Finished(done, job) EXCEPT ![j].parent = "signalled", ![j].cb = FALSE]
        /\ ent' = Woken(W, ent)
        /\ sched' = Late(LateRun(W) \cup (IF done = {} THEN {} ELSE {"free"}),
                         WakeSched(W, JobsDone(done, sched)))
        /\ UNCHANGED <<wk, tdr, ext, raced>>

-----------------------------------------------------------------------------
(* drm_sched_free_job_work *)

FreeStart ==
    /\ wk.pc = "idle" /\ sched.freeq /\ WqAlive
    /\ sched' = [sched EXCEPT !.freeq = FALSE, !.late = @ \ {"free"}]
    /\ wk' = [IdleWork EXCEPT !.pc = "free"]
    /\ UNCHANGED <<job, ent, tdr, ext, raced>>

(* drm_sched_get_finished_job looks at the head of the pending list only.   *)
HeadFinished == sched.pending # <<>> /\ job[Head(sched.pending)].finished

FreeJob ==
    /\ wk.pc = "free"
    /\ IF HeadFinished
       THEN /\ sched' = drm_sched_start_timeout([sched EXCEPT !.pending = Tail(@), !.timer = FALSE])
            /\ job' = free_job({Head(sched.pending)}, job)
            /\ wk' = wk
       ELSE /\ sched' = drm_sched_run_job_queue(sched)
            /\ wk' = IdleWork
            /\ job' = job
    /\ UNCHANGED <<ent, tdr, ext, raced>>

-----------------------------------------------------------------------------
(* drm_sched_job_timedout *)

(* mutant: the job stays on the list *)
MutTdrFire ==
    /\ tdr.pc = "idle" /\ sched.timer /\ sched.fini # "timer" /\ sched.pending # <<>>
    /\ sched' = [sched EXCEPT !.timer = FALSE]
    /\ tdr' = [pc |-> "driver", j |-> Head(sched.pending)]
    /\ UNCHANGED <<job, ent, wk, ext, raced>>

(* The first pending job is taken off the list while the driver looks at it. *)
TdrFire ==
    /\ tdr.pc = "idle" /\ sched.timer /\ sched.fini # "timer"
    /\ IF sched.pending = <<>>
       THEN sched' = [sched EXCEPT !.timer = FALSE] /\ tdr' = tdr
       ELSE /\ sched' = [sched EXCEPT !.timer = FALSE, !.pending = Tail(@)]
            /\ tdr' = [pc |-> "driver", j |-> Head(sched.pending)]
    /\ UNCHANGED <<job, ent, wk, ext, raced>>

(* mutant: the free worker is not queued again *)
MutNoHang ==
    /\ tdr.pc = "driver" /\ job[tdr.j].parent # "hung"
    /\ sched' = drm_sched_start_timeout([sched EXCEPT !.pending = <<tdr.j>> \o @])
    /\ tdr' = IdleTdr
    /\ UNCHANGED <<job, ent, wk, ext, raced>>

(* The driver finds no hang: drm_sched_job_reinsert_on_false_timeout. *)
NoHang ==
    /\ tdr.pc = "driver" /\ job[tdr.j].parent # "hung"
    /\ sched' = drm_sched_start_timeout(
                  drm_sched_run_free_queue([sched EXCEPT !.pending = <<tdr.j>> \o @]))
    /\ tdr' = IdleTdr
    /\ UNCHANGED <<job, ent, wk, ext, raced>>

(* The driver resets: drm_sched_wqueue_stop, begun and ... *)
StopBegin ==
    /\ tdr.pc = "driver"
    /\ sched' = [sched EXCEPT !.paused = TRUE]
    /\ tdr' = [tdr EXCEPT !.pc = "stop"]
    /\ UNCHANGED <<job, ent, wk, ext, raced>>

(* mutant: the callbacks stay, the credits are given back *)
MutDeactivated(S, jb) == jb

(* the jobs in S with their hardware callback removed *)
Deactivated(S, jb) ==
    [j \in Jobs |-> IF j \in S THEN [jb[j] EXCEPT !.cb = FALSE, !.parent = "none"] ELSE jb[j]]

(* the members of S on the list, in their order *)
Kept(list, S) ==
    LET I == {i \in DOMAIN list : list[i] \in S}
        Rank(i) == Cardinality({k \in I : k <= i})
    IN  [n \in 1..Cardinality(I) |-> list[CHOOSE i \in I : Rank(i) = n]]

(* ... ended when no work item runs; then the rest of drm_sched_stop.  The  *)
(* bad job comes back to the head of the list.  Jobs whose callback can be  *)
(* removed lose it, and their credits; the others are done and freed, the   *)
(* bad job by the timeout worker later.  With no work queued nobody else    *)
(* uses the list, and the walk along it is one step.                        *)
Stop ==
    LET list == <<tdr.j>> \o sched.pending
        alive == {j \in Range(list) : job[j].cb}
    IN  /\ tdr.pc = "stop" /\ wk.pc = "idle"
        /\ \A j \in Range(list) \ alive : job[j].finished
        /\ job' = free_job(Range(list) \ (alive \cup {tdr.j}), Deactivated(alive, job))
        /\ sched' = [Cancelled({}, sched) EXCEPT
                                  !.timer = FALSE, !.pending = Kept(list, alive),
                                  !.credits = @ - CostOf(alive),
                                  !.guilty = tdr.j \notin alive]
        /\ tdr' = [tdr EXCEPT !.pc = "stopped"]
        /\ UNCHANGED <<ent, wk, ext, raced>>

(* A walk along the pending list from its end, list_for_each_entry_safe_-   *)
(* reverse: it is at job cur, and tmp, the job before, was looked up in      *)
(* advance.  A job that list_del_init took off the list is before itself.   *)
Before(list, j) ==
    IF j \notin Range(list) THEN j
    ELSE LET n == CHOOSE k \in DOMAIN list : list[k] = j
         IN  IF n = 1 THEN None ELSE list[n - 1]
Walk(s) == [s EXCEPT !.cur = s.pending[Len(s.pending)],
                     !.tmp = Before(s.pending, s.pending[Len(s.pending)])]
WalkOn(s) == [s EXCEPT !.cur = s.tmp,
                       !.tmp = IF s.tmp = None THEN None ELSE Before(s.pending, s.tmp)]
Without(list, j) == Kept(list, Range(list) \ {j})

(* the walk is about to use memory that was freed *)
IsFreed(j, jb) == j # None /\ jb[j].at = "freed"

(* drm_sched_stop again: a caller that is late has queued a work after      *)
(* cancel_work_sync, and the walk is not alone.  It is followed to its end. *)
StopBeside ==
    /\ tdr.pc = "stop" /\ wk.pc = "idle" /\ sched.fini \notin {"cancel", "free"}
    /\ \E L \in SUBSET sched.late :
         /\ L # {}
         /\ sched' = Walk([Cancelled(L, sched) EXCEPT !.pending = <<tdr.j>> \o @])
    /\ tdr' = [tdr EXCEPT !.pc = "walk"]
    /\ raced' = TRUE
    /\ UNCHANGED <<job, ent, wk, ext>>

StopWalk ==
    LET j == sched.cur
        out == IF job[j].cb THEN {} ELSE {j}
        jobs == free_job(out \ {tdr.j}, Deactivated({j} \ out, job))
        s == WalkOn([sched EXCEPT !.pending = IF out = {} THEN @ ELSE Without(@, j),
                                  !.credits = @ - CostOf({j} \ out),
                                  !.guilty = @ \/ tdr.j \in out])
    IN  /\ tdr.pc = "walk"
        /\ IF IsFreed(j, job) \/ IsFreed(sched.tmp, jobs)
           THEN /\ tdr' = [tdr EXCEPT !.pc = "oops"]
                /\ UNCHANGED <<job, sched>>
           ELSE /\ job[j].cb \/ job[j].finished
                /\ job' = jobs
                /\ sched' = s
                /\ tdr' = [tdr EXCEPT !.pc = IF s.cur = None THEN "walked" ELSE @]
        /\ UNCHANGED <<ent, wk, ext, raced>>

(* The driver may run the jobs again: drm_sched_increase_karma, with a hang *)
(* limit of 0, and drm_sched_resubmit_jobs.  The driver's run_job refuses   *)
(* the jobs of the guilty entity, whose fences have an error by then.       *)
Resubmit ==
    /\ tdr.pc = "stopped"
    /\ \E hw \in [Range(sched.pending) -> {"none", "running", "hung"}] :
         /\ ~sched.guilty => \A j \in DOMAIN hw : j[1] = tdr.j[1] => hw[j] = "none"
         /\ job' = [j \in Jobs |-> IF j \in Range(sched.pending)
                                THEN [job[j] EXCEPT !.parent = hw[j]] ELSE job[j]]
    /\ tdr' = [tdr EXCEPT !.pc = "resubmitted"]
    /\ UNCHANGED <<ent, sched, wk, ext, raced>>

(* drm_sched_start: a job without a hardware fence is done with an error.   *)
Start ==
    LET P == Range(sched.pending)
        done == {j \in P : job[j].parent \in {"none", "signalled"}}
        W == Waiting(FinishedFences(done))
    IN  /\ tdr.pc \in {"stopped", "resubmitted"}
        /\ job' = [j \in Jobs |-> IF j \in P \ done THEN [job[j] EXCEPT !.cb = TRUE]
                                                   ELSE Finished(done, job)[j]]
        /\ ent' = Woken(W, ent)
        /\ sched' = drm_sched_start_timeout(
                      [JobsDone(done, [sched EXCEPT !.credits = @ + CostOf(P)])
                         EXCEPT !.paused = FALSE, !.runq = TRUE, !.freeq = TRUE])
        /\ tdr' = [tdr EXCEPT !.pc = "reset"]
        /\ UNCHANGED <<wk, ext, raced>>

(* The end of drm_sched_job_timedout after a reset. *)
TdrEnd ==
    /\ tdr.pc = "reset"
    /\ job' = IF sched.guilty THEN free_job({tdr.j}, job) ELSE job
    /\ sched' = drm_sched_start_timeout([sched EXCEPT !.guilty = FALSE])
    /\ tdr' = IdleTdr
    /\ UNCHANGED <<ent, wk, ext, raced>>

(* drm_sched_fault *)
Fault ==
    /\ ~sched.timer /\ tdr.pc = "idle" /\ sched.fini = "no"
    /\ sched' = [sched EXCEPT !.timer = TRUE]
    /\ UNCHANGED <<job, ent, wk, tdr, ext, raced>>

-----------------------------------------------------------------------------
(* drm_sched_fini.  It looks at no entity: that all of them are gone is the *)
(* caller's part, and the flushers it wakes are none then.                  *)

(* drm_sched_wqueue_stop, begun and ... *)
FiniBegin ==
    /\ sched.fini = "no" /\ \A e \in Entities : ent[e].owner = "gone"
    /\ sched' = [sched EXCEPT !.fini = "stop", !.paused = TRUE]
    /\ UNCHANGED <<job, ent, wk, tdr, ext, raced>>

(* ... ended *)
FiniStop ==
    /\ sched.fini = "stop" /\ wk.pc = "idle"
    /\ \E L \in SUBSET sched.late : sched' = [Cancelled(L, sched) EXCEPT !.fini = "timer"]
    /\ UNCHANGED <<job, ent, wk, tdr, ext, raced>>

(* what drm_sched_cancel_remaining_jobs takes for granted *)
WorkersStopped == sched.paused /\ ~sched.runq /\ ~sched.freeq /\ wk.pc = "idle"

(* cancel_delayed_work_sync, under which the work cannot be queued again;   *)
(* then drm_sched_cancel_remaining_jobs, if the driver has cancel_job,      *)
(* begins at the end of the list.  Without it the jobs are left there.      *)
FiniTimer ==
    /\ sched.fini = "timer" /\ tdr.pc = "idle"
    /\ \E cancel \in CancelJob :
         sched' = IF cancel /\ sched.pending # <<>>
                  THEN Walk([sched EXCEPT !.fini = "cancel", !.timer = FALSE])
                  ELSE [sched EXCEPT !.fini = IF cancel THEN "destroy" ELSE "leave",
                                     !.timer = FALSE]
    /\ raced' = (raced \/ (sched'.fini = "cancel" /\ ~WorkersStopped))
    /\ UNCHANGED <<job, ent, wk, tdr, ext>>

(* cancel_job signals the hardware fence, whose callback ends the job. *)
FiniCancel ==
    LET j == sched.cur
        done == IF job[j].cb THEN {j} ELSE {}
        W == Waiting(FinishedFences(done))
    IN  /\ sched.fini = "cancel"
        /\ IF IsFreed(j, job)
           THEN /\ sched' = [sched EXCEPT !.fini = "oops"]
                /\ UNCHANGED <<job, ent>>
           ELSE /\ job' = [Finished(done, job) EXCEPT ![j].cb = FALSE,
                             ![j].parent = IF @ = "none" THEN @ ELSE "signalled"]
                /\ ent' = Woken(W, ent)
                /\ sched' = [WakeSched(W, JobsDone(done, sched)) EXCEPT !.fini = "free"]
        /\ UNCHANGED <<wk, tdr, ext, raced>>

(* list_del and free_job, and on to the job before *)
FiniFree ==
    LET j == sched.cur
        s == WalkOn([sched EXCEPT !.pending = Without(@, j)])
    IN  /\ sched.fini = "free"
        /\ IF IsFreed(j, job) \/ IsFreed(sched.tmp, free_job({j}, job))
           THEN /\ sched' = [sched EXCEPT !.fini = "oops"]
                /\ UNCHANGED job
           ELSE /\ job' = free_job({j}, job)
                /\ sched' = [s EXCEPT !.fini = IF s.cur = None THEN "destroy" ELSE "cancel"]
        /\ UNCHANGED <<ent, wk, tdr, ext, raced>>

(* destroy_workqueue of an own work queue lets it run dry first. *)
FiniDestroy ==
    /\ sched.fini \in {"destroy", "leave"}
    /\ OwnWq => wk.pc = "idle" /\ ~sched.runq /\ ~sched.freeq
    /\ sched' = [sched EXCEPT !.fini = IF @ = "destroy" THEN "done" ELSE "left"]
    /\ UNCHANGED <<job, ent, wk, tdr, ext, raced>>

-----------------------------------------------------------------------------
Owner(e) ==
    \/ AddEntity(e) \/ KillJobs(e)

Client(e) ==
    \/ \E D \in SUBSET {j \in Jobs : job[j].at # "new"}, X \in SUBSET Exts : Push(e, D, X)
    \/ Flush(e) \/ KillStart(e)

RunWork == Select \/ PopDependency \/ PopJob \/ PopEntity \/ JobBegin \/ RunJob \/ AddCallback
FreeWork == FreeStart \/ FreeJob
Timedout ==
    \/ TdrFire \/ NoHang \/ StopBegin \/ Stop \/ StopBeside \/ StopWalk
    \/ Resubmit \/ Start \/ TdrEnd
FiniEnds == FiniStop \/ FiniTimer \/ FiniCancel \/ FiniFree \/ FiniDestroy

Next ==
    \/ \E e \in Entities : Owner(e) \/ Client(e)
    \/ \E j \in Jobs : KillWork(j) \/ HwDone(j)
    \/ \E x \in Exts : ExtSignal(x)
    \/ RunWork \/ FreeWork \/ Timedout \/ Fault \/ FiniBegin \/ FiniEnds

Spec == Init /\ [][Next]_vars

(* What each happens finitely often for a job or an entity and must not be  *)
(* left out: threads go on, killed jobs are signalled, the hardware ends    *)
(* what does not hang, foreign fences signal, a killed entity is torn down  *)
(* in the end, and so is a scheduler once that has begun.                   *)
Progress ==
    \/ \E e \in Entities : Owner(e) \/ (ent[e].owner = "killed" /\ KillStart(e))
    \/ \E j \in Jobs : KillWork(j) \/ HwDone(j)
    \/ \E x \in Exts : ExtSignal(x)
    \/ FiniEnds

(* The work queue is first come, first served, and a timeout is long enough *)
(* for the free worker to see the list with the job on it.  Nobody has to   *)
(* push or flush.                                                           *)
FairSpec ==
    /\ Spec /\ WF_vars(Progress) /\ WF_vars(Timedout)
    /\ SF_vars(RunWork) /\ SF_vars(FreeWork)
    /\ SF_vars(HeadFinished /\ FreeStart) /\ SF_vars(HeadFinished /\ FreeJob)

-----------------------------------------------------------------------------
(* Every variable keeps its type. *)
JobRecord ==
    [at: {"new", "queue", "run", "kill", "killed", "freed"}, late: BOOLEAN,
     deps: SUBSET Fences, left: SUBSET Fences, prev: Jobs \cup {None},
     scheduled: BOOLEAN, finished: BOOLEAN,
     parent: {"none", "running", "hung", "signalled"}, cb: BOOLEAN]
EntityRecord ==
    [queue: Seq(Jobs), list: BOOLEAN, tree: BOOLEAN, stopped: BOOLEAN,
     dep: Fences \cup {None}, idle: BOOLEAN, last: Jobs \cup {None}, adding: BOOLEAN,
     owner: {"open", "sleep", "kill", "killed", "fini", "gone"}, n: 0..MaxJobs]
SchedRecord ==
    [paused: BOOLEAN, credits: Nat, pending: Seq(Jobs), runq: BOOLEAN, freeq: BOOLEAN,
     late: SUBSET {"run", "free"}, timer: BOOLEAN, guilty: BOOLEAN,
     fini: {"no", "stop", "timer", "cancel", "free", "destroy", "done", "leave", "left", "oops"},
     cur: Jobs \cup {None}, tmp: Jobs \cup {None}]
TypeOK ==
    /\ job \in [Jobs -> JobRecord]
    /\ ent \in [Entities -> EntityRecord]
    /\ sched \in SchedRecord
    /\ wk \in [pc: {"idle", "pop", "requeue", "begin", "run", "callback", "free"},
              e: Entities \cup {None}, j: Jobs \cup {None}]
    /\ tdr \in [pc: {"idle", "driver", "stop", "walk", "walked", "oops",
                    "stopped", "resubmitted", "reset"},
               j: Jobs \cup {None}]
    /\ ext \subseteq Exts

(* popped and not yet on the pending list *)
InWorker(j) == wk.j = j /\ wk.pc \in {"requeue", "begin"}

(* who must free job j once it has left its entity *)
Holders(j) ==
    {h \in {"list", "driver", "worker"} :
        \/ h = "list" /\ j \in Range(sched.pending)
        \/ h = "driver" /\ tdr.j = j /\ (tdr.pc \in {"driver", "stop"} \/ sched.guilty)
        \/ h = "worker" /\ InWorker(j)}

(* A job that left its queue and is not freed is in exactly one hand: the   *)
(* pending list, the timeout worker that took it off the list, or the run   *)
(* worker.  A freed job is in none, is not being run and has no hardware    *)
(* callback left.  So no job is lost or freed twice by the list operations  *)
(* of drm_sched_get_finished_job, drm_sched_job_timedout, drm_sched_stop    *)
(* and drm_sched_fini, unless one of the last two walks along the list      *)
(* beside another accessor: StopWalksAlive and FiniWalksAlive are about     *)
(* that.                                                                    *)
OneOwner == ~raced =>
    /\ IsInjective(sched.pending)
    /\ \A j \in Jobs :
         /\ Cardinality(Holders(j)) = IF job[j].at = "run" THEN 1 ELSE 0
         /\ job[j].cb \/ wk.j = j => job[j].at \notin {"freed", "killed"}

(* drm_sched_stop says of its walk along the pending list: "This iteration  *)
(* is thread safe as the scheduler's work items have been cancelled."  It   *)
(* meets no freed job then.                                                 *)
StopWalksAlive == tdr.pc # "oops"


(* credit_count is what the jobs given to the hardware and not finished     *)
(* cost, across any number of resets; between drm_sched_stop and            *)
(* drm_sched_start it is 0.  It holds until a walk has company (OneOwner).  *)
CreditBalance ==
    LET busy == {j \in Jobs : job[j].at = "run" /\ ~job[j].finished /\ ~InWorker(j)}
    IN  ~raced => sched.credits = IF tdr.pc \in {"stopped", "resubmitted"} THEN 0 ELSE CostOf(busy)

(* The jobs of an entity reach the hardware in the order they were pushed,  *)
(* and a job that drm_sched_entity_kill discards ends after the job before. *)
(* A job pushed to a killed entity, which the code reports as an error, is  *)
(* left out: it is not chained to the jobs killed before.                   *)
OrderKept ==
    \A j \in Jobs : j[2] > 1 /\ ~job[j].late =>
        LET before == <<j[1], j[2] - 1>>
        IN  /\ job[j].scheduled => job[before].scheduled
            /\ job[j].at = "killed" => job[before].finished

(* No job runs before what it depends on has been given to the same        *)
(* scheduler or, for a foreign fence, has signalled; a killed job ends only *)
(* after all of it has signalled.                                           *)
DepsHonoured ==
    \A j \in Jobs : \A f \in job[j].deps :
        /\ job[j].at = "run" =>
             IF f.kind = "finished" THEN f.f[1] = j[1] \/ job[f.f].scheduled
                                    ELSE Signalled(f, job)
        /\ job[j].at = "killed" => Signalled(f, job)

(* The run worker never holds an entity that drm_sched_entity_fini has let  *)
(* go: the kill waits for entity_idle.                                      *)
EntityHeld == wk.e # None => ent[wk.e].owner # "gone"

(* What drm_sched_entity_fini says it makes sure of: "that the scheduler    *)
(* won't touch this entity any more".  An entity left in the tree is looked *)
(* at by every drm_sched_select_entity.                                     *)
EntityForgotten == \A e \in Entities : ent[e].owner = "gone" => ~ent[e].tree

(* The job as its owner sees it: running from drm_sched_job_begin until its *)
(* finished fence signals.                                                  *)
Phase(j) ==
    IF job[j].finished THEN "over"
    ELSE IF job[j].at = "new" THEN "new"
    ELSE IF job[j].at = "queue" \/ InWorker(j) THEN "waiting"
    ELSE IF job[j].at = "kill" THEN "withdrawn"
    ELSE IF job[j].at = "run" THEN "running" ELSE "lost"

Server == INSTANCE JobServer WITH
    phase <- [j \in Jobs |-> Phase(j)], closed <- sched.fini # "no",
    broken <- raced, Capacity <- CreditLimit

(* The scheduler implements JobServer, through any number of timeouts,      *)
(* resets, resubmissions, kills and its own end: in order, within the       *)
(* credits, every job ended once and by one of them only, and none freed    *)
(* before its finished fence signals.  It breaks when a walk has company.   *)
ImplementsJobServer == Server!Spec

(* Every job that was pushed is freed in the end: it is run, and if it      *)
(* hangs a timeout ends it, or it is killed; one that signals while the     *)
(* timeout worker has it off the list is not forgotten.  Excepted are what  *)
(* drm_sched_fini says of itself, "If cancel_job is not implemented, memory *)
(* could leak", and a walk that had company.                                *)
JobsFreed ==
    LET open == {j \in Jobs : job[j].at \notin {"new", "freed", "killed"}}
    IN  open # {} ~> open = {} \/ raced \/ sched.fini = "left"

(* drm_sched_entity_flush returns: a sleeper is woken after the last job of *)
(* its entity has gone to the hardware, unless a reset died in its walk.    *)
FlushEnds ==
    LET asleep == {e \in Entities : ent[e].owner = "sleep"}
    IN  asleep # {} ~> asleep = {} \/ raced
=============================================================================
