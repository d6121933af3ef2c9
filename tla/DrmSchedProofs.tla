--------------------------- MODULE DrmSchedProofs ---------------------------
(***************************************************************************)
(* Proofs about DrmSched for any finite set of entities, any foreign       *)
(* fences, any credits and any bounds: the safety properties of the runs,  *)
(* and that the scheduler implements JobServer.  Both follow from one      *)
(* inductive invariant, which says where a job may be at every step of the *)
(* run worker, the free worker, the timeout worker, a kill and             *)
(* drm_sched_fini.                                                         *)
(***************************************************************************)
EXTENDS DrmSched, FiniteSetTheorems, SequenceTheorems, TLAPS

-----------------------------------------------------------------------------
(* The inductive invariant *)

(* between drm_sched_stop and drm_sched_start *)
Stopped == tdr.pc \in {"stopped", "resubmitted"}

(* where the run worker is when it has a job that left its queue, and when  *)
(* it has an entity                                                         *)
Popped == {"requeue", "begin", "run", "callback"}
Holding == {"pop", "requeue", "begin", "run"}

(* the number of jobs that have left the queue of entity e *)
Gone(e) == ent[e].n - Len(ent[e].queue)

(* An entity numbers its jobs as they are pushed and gives them out in that *)
(* order: its queue holds the last ones without a gap, and what is before   *)
(* them has left it.  An entity that is torn down has none.                 *)
QueueOK ==
    /\ \A e \in Entities :
         /\ Gone(e) >= 0
         /\ \A i \in 1..Len(ent[e].queue) : ent[e].queue[i] = <<e, Gone(e) + i>>
         /\ ent[e].owner = "gone" => ent[e].queue = <<>>
    /\ \A j \in Jobs :
         /\ job[j].at = "new" <=> j[2] > ent[j[1]].n
         /\ job[j].at = "queue" <=> Gone(j[1]) < j[2] /\ j[2] <= ent[j[1]].n

(* The fences of a job and its place: nothing of a queued or discarded job  *)
(* has signalled, finished comes after scheduled, a job with a hardware     *)
(* callback is running, and one given out is scheduled unless the run       *)
(* worker still has it in hand.                                             *)
FencesOK ==
    \A j \in Jobs :
        /\ job[j].at \in {"new", "queue", "kill"} => ~job[j].scheduled
        /\ job[j].at = "killed" => job[j].finished
        /\ job[j].finished => job[j].scheduled
        /\ job[j].cb => job[j].at = "run" /\ ~job[j].finished
        /\ job[j].at \in {"run", "freed"} =>
             job[j].scheduled \/ (wk.j = j /\ wk.pc \in {"requeue", "begin", "run"})

(* The run worker holds an entity, and its entity_idle, from the selection  *)
(* to the end of run_job; until the pop nobody takes the head of the queue, *)
(* and until drm_sched_job_begin nobody takes the credits that were free.   *)
WorkerOK ==
    /\ wk.pc \in {"idle", "free"} => wk.j = None
    /\ wk.e # None <=> wk.pc \in Holding
    /\ wk.e # None => /\ wk.j \in Jobs /\ wk.j[1] = wk.e
                      /\ ~ent[wk.e].idle /\ ent[wk.e].owner # "gone"
    /\ wk.pc = "pop" => /\ ent[wk.e].queue # <<>> /\ wk.j = Head(ent[wk.e].queue)
                        /\ ent[wk.e].dep = None
    /\ wk.pc \in Popped => /\ wk.j \in Jobs /\ job[wk.j].at = "run"
                           /\ ~job[wk.j].finished /\ ~job[wk.j].cb
    /\ wk.pc \in {"pop", "requeue", "begin"} => sched.credits + Cost(wk.j) <= CreditLimit

(* drm_sched_fini comes after the last entity, and past the stop of the     *)
(* work queue no job is in the run worker.                                  *)
FiniOK ==
    /\ sched.fini # "no" => \A e \in Entities : ent[e].owner = "gone"
    /\ sched.fini \notin {"no", "stop"} => wk.pc \in {"idle", "free"}

(* the hands that hold a job which left its queue, beside the run worker    *)
OnList(j) == j \in Range(sched.pending)
WithDriver(j) == tdr.j = j /\ (tdr.pc \in {"driver", "stop"} \/ sched.guilty)

(* The timeout worker: the works are stopped from drm_sched_stop to         *)
(* drm_sched_start; in that time no hardware callback is left and no job on *)
(* the list is finished.  A guilty job that it keeps for itself is over.    *)
TdrOK ==
    /\ tdr.pc # "idle" => tdr.j \in Jobs
    /\ tdr.pc = "stop" => sched.paused
    /\ sched.guilty => tdr.pc \in {"stopped", "resubmitted", "reset"} /\ job[tdr.j].finished
    /\ Stopped => /\ sched.paused /\ ~sched.runq /\ ~sched.freeq /\ sched.late = {}
                  /\ wk.pc = "idle"
                  /\ \A j \in Jobs : ~job[j].cb /\ (OnList(j) => ~job[j].finished)

(* A job runs exactly while one of the three hands holds it, and no two do. *)
HandsOK ==
    /\ IsInjective(sched.pending)
    /\ \A j \in Jobs :
         /\ job[j].at = "run" <=> OnList(j) \/ WithDriver(j) \/ InWorker(j)
         /\ ~(OnList(j) /\ WithDriver(j))
         /\ ~(OnList(j) /\ InWorker(j))
         /\ ~(WithDriver(j) /\ InWorker(j))

(* An unfinished job without a hardware callback is in the run worker, or   *)
(* drm_sched_stop took the callback away.                                   *)
BusyOK ==
    \A j \in Jobs : job[j].at = "run" /\ ~job[j].finished /\ ~job[j].cb =>
        (wk.j = j /\ wk.pc \in Popped) \/ Stopped

(* credit_count covers the jobs from drm_sched_job_begin to their end. *)
Busy == {j \in Jobs : job[j].at = "run" /\ ~job[j].finished /\ ~InWorker(j)}
CreditOK == sched.credits = IF Stopped THEN 0 ELSE CostOf(Busy)

(* the jobs with one before them on their entity, and that one *)
Later == {j \in Jobs : j[2] > 1}
Pred(j) == <<j[1], j[2] - 1>>

(* a kill stops the entity first *)
Halted(r) == r.owner \notin {"open", "sleep"} => r.stopped

(* What the order of an entity rests on: jobs are discarded only once it is *)
(* stopped, and then all that are left; a discarded job is chained to the   *)
(* one before; last is the job given out last.                              *)
OrderOK ==
    /\ \A e \in Entities : Halted(ent[e])
    /\ \A j \in Jobs : job[j].at \in {"kill", "killed"} => ent[j[1]].stopped
    /\ \A j \in Later : ~job[j].late =>
         /\ job[j].at \notin {"new", "kill", "killed"} => job[Pred(j)].at \notin {"kill", "killed"}
         /\ job[j].at = "kill" => job[j].prev = Pred(j)
    /\ \A e \in Entities, j \in Jobs :
         ent[e].owner # "gone" /\ j = <<e, Gone(e)>> /\ job[j].at \in {"run", "freed"} =>
           ent[e].last = j

(* A job is scheduled after the one before it, and a discarded one ends     *)
(* after it.                                                                *)
InOrder ==
    \A j \in Later : ~job[j].late =>
        /\ job[j].scheduled => job[Pred(j)].scheduled
        /\ job[j].at = "killed" => job[Pred(j)].finished

(* Dependency f no longer holds job j back. *)
Settled(j, f) == IF f.kind = "finished" THEN f.f[1] = j[1] \/ job[f.f].scheduled
                                        ELSE Signalled(f, job)
(* A dependency that pop_job has taken off a queued job is settled, or the  *)
(* entity waits for it with that job at the head of the queue.              *)
DepOK ==
    \A j \in Jobs :
        job[j].at = "queue" => \A f \in job[j].deps \ job[j].left :
            Settled(j, f) \/ (j = Head(ent[j[1]].queue) /\ ent[j[1]].dep \in Awaited(f))

(* All of it, but for the walks. *)
IInv ==
    /\ TypeOK /\ QueueOK /\ FencesOK /\ WorkerOK /\ FiniOK /\ TdrOK /\ HandsOK /\ BusyOK
    /\ CreditOK /\ OrderOK /\ InOrder /\ DepOK /\ DepsHonoured

(* A walk that began alone stays alone: nothing is queued, and neither the  *)
(* timer nor the timeout worker runs.  It is at the end of what is left of  *)
(* the list, with the job before in mind, and what it cancelled has ended.  *)
AtEnd ==
    /\ sched.pending # <<>> /\ sched.cur = sched.pending[Len(sched.pending)]
    /\ sched.tmp = IF Len(sched.pending) = 1 THEN None ELSE sched.pending[Len(sched.pending) - 1]
WalkOK ==
    /\ tdr.pc \notin {"walk", "walked", "oops"} /\ sched.fini # "oops"
    /\ sched.fini \in {"cancel", "free"} =>
         /\ sched.paused /\ ~sched.runq /\ ~sched.freeq /\ ~sched.timer
         /\ wk.pc = "idle" /\ tdr.pc = "idle" /\ AtEnd
    /\ sched.fini = "free" => job[sched.cur].finished

(* Until a walk has company all of it holds. *)
SchedInv == ~raced => IInv /\ WalkOK

-----------------------------------------------------------------------------
(* Jobs are pairs, *)
LEMMA JobPairs ==
    /\ MaxJobs \in Nat
    /\ \A j \in Jobs : j[1] \in Entities /\ j[2] \in 1..MaxJobs /\ j = <<j[1], j[2]>>
    /\ \A e \in Entities, i \in 1..MaxJobs :
         <<e, i>> \in Jobs /\ <<e, i>>[1] = e /\ <<e, i>>[2] = i
BY SchedAssumption DEF Jobs

(* there are finitely many, *)
LEMMA JobsFinite == IsFiniteSet(Jobs)
<1>1. MaxJobs \in Nat /\ IsFiniteSet(Entities)
  BY SchedAssumption
<1>2. IsFiniteSet(1..MaxJobs)
  BY <1>1, FS_Interval
<1> QED
  BY <1>1, <1>2, FS_Product DEF Jobs

(* and None is not one of them. *)
LEMMA NoneApart == None \notin Entities /\ None \notin Jobs /\ None \notin Fences
BY NoneAssumption

(* A job takes at least one credit and never more than there are. *)
LEMMA CostRange == \A j \in Jobs : Cost(j) \in 1..CreditLimit
BY SchedAssumption, JobPairs DEF Cost

-----------------------------------------------------------------------------
(* Credits of sets of jobs *)

(* the credits that the jobs in S take, one by one *)
Taken(S) == UNION {{j} \X (1..Cost(j)) : j \in S}

(* The credits of finitely many jobs are finitely many. *)
LEMMA TakenFinite ==
    ASSUME NEW S \in SUBSET Jobs
    PROVE  IsFiniteSet(Taken(S)) /\ CostOf(S) = Cardinality(Taken(S)) /\ CostOf(S) \in Nat
<1>0. IsFiniteSet(Jobs) /\ IsFiniteSet(1..CreditLimit)
  <2>1. CreditLimit \in Nat
    BY SchedAssumption
  <2> QED
    BY <2>1, JobsFinite, FS_Interval
<1>1. IsFiniteSet(Jobs \X (1..CreditLimit))
  BY <1>0, FS_Product
<1>2. Taken(S) \in SUBSET (Jobs \X (1..CreditLimit))
  <2> SUFFICES ASSUME NEW j \in S, NEW u \in {j} \X (1..Cost(j))
               PROVE  u \in Jobs \X (1..CreditLimit)
    BY DEF Taken
  <2> QED
    BY CostRange, SchedAssumption
<1>3. IsFiniteSet(Taken(S))
  BY <1>1, <1>2, FS_Subset
<1> QED
  BY <1>3, FS_CardinalityType DEF Taken, CostOf

(* No jobs take no credits; *)
LEMMA CostOfNone == CostOf({}) = 0
<1>1. Taken({}) = {}
  BY DEF Taken
<1> QED
  BY <1>1, FS_EmptySet DEF Taken, CostOf

(* one job takes its own. *)
LEMMA CostOfOne ==
    ASSUME NEW j \in Jobs
    PROVE  CostOf({j}) = Cost(j)
<1> DEFINE c == Cost(j)
<1>0. c \in Nat
  BY CostRange, SchedAssumption
<1>1. Taken({j}) = {j} \X (1..c)
  BY DEF Taken
<1>2. IsFiniteSet({j}) /\ Cardinality({j}) = 1
  BY FS_Singleton
<1> HIDE DEF c
<1>3. IsFiniteSet(1..c) /\ Cardinality(1..c) = c
  BY <1>0, FS_Interval
<1>4. Cardinality({j} \X (1..c)) = Cardinality({j}) * Cardinality(1..c)
  BY <1>2, <1>3, FS_Product
<1>5. Cardinality(Taken({j})) = 1 * c
  BY <1>1, <1>2, <1>3, <1>4 DEF c
<1>6. 1 * c = c
  BY <1>0
<1> QED
  BY <1>5, <1>6 DEF Taken, CostOf, c

(* Disjoint sets of jobs add up. *)
LEMMA CostOfParts ==
    ASSUME NEW S \in SUBSET Jobs, NEW T \in SUBSET Jobs, S \cap T = {}
    PROVE  CostOf(S \cup T) = CostOf(S) + CostOf(T)
<1>1. Taken(S \cup T) = Taken(S) \cup Taken(T)
  BY DEF Taken
<1>2. Taken(S) \cap Taken(T) = {}
  <2> SUFFICES ASSUME NEW j \in S, NEW k \in T, NEW u \in {j} \X (1..Cost(j)),
                      u \in {k} \X (1..Cost(k))
               PROVE  FALSE
    BY DEF Taken
  <2> QED
    OBVIOUS
<1>3. Cardinality(Taken(S) \cap Taken(T)) = 0
  BY <1>2, FS_EmptySet
<1>4. IsFiniteSet(Taken(S)) /\ IsFiniteSet(Taken(T)) /\ S \cup T \in SUBSET Jobs
  BY TakenFinite
<1>5. Cardinality(Taken(S) \cup Taken(T)) = Cardinality(Taken(S)) + Cardinality(Taken(T)) - 0
  BY <1>3, <1>4, FS_Union
<1>6. /\ CostOf(S) = Cardinality(Taken(S)) /\ CostOf(S) \in Nat
      /\ CostOf(T) = Cardinality(Taken(T)) /\ CostOf(T) \in Nat
      /\ CostOf(S \cup T) = Cardinality(Taken(S \cup T))
  BY <1>4, TakenFinite
<1>7. CostOf(S \cup T) = CostOf(S) + CostOf(T) - 0
  BY <1>1, <1>5, <1>6
<1> QED
  BY <1>6, <1>7

(* Jobs that end leave the credits of the others. *)
LEMMA CostOfRest ==
    ASSUME NEW S \in SUBSET Jobs, NEW T \in SUBSET S
    PROVE  /\ CostOf(S \ T) = CostOf(S) - CostOf(T)
           /\ CostOf(T) <= CostOf(S)
           /\ CostOf(S) \in Nat /\ CostOf(T) \in Nat /\ CostOf(S \ T) \in Nat
<1>1. T \in SUBSET Jobs /\ S \ T \in SUBSET Jobs /\ (S \ T) \cap T = {} /\ (S \ T) \cup T = S
  OBVIOUS
<1>2. CostOf(S) = CostOf(S \ T) + CostOf(T)
  BY <1>1, CostOfParts
<1>3. CostOf(S) \in Nat /\ CostOf(T) \in Nat /\ CostOf(S \ T) \in Nat
  BY <1>1, TakenFinite
<1> QED
  BY <1>2, <1>3

-----------------------------------------------------------------------------
(* What drm_sched_stop leaves on the list: the jobs asked for, each once. *)
LEMMA KeptContract ==
    ASSUME NEW list \in Seq(Jobs), NEW S, IsInjective(list)
    PROVE  /\ Kept(list, S) \in Seq(Jobs)
           /\ Range(Kept(list, S)) = Range(list) \cap S
           /\ IsInjective(Kept(list, S))
<1> DEFINE I == {i \in DOMAIN list : list[i] \in S}
           Rank(i) == Cardinality({k \in I : k <= i})
           c == Cardinality(I)
           r == [i \in I |-> Rank(i)]
           pick(n) == CHOOSE i \in I : Rank(i) = n
<1>1. DOMAIN list = 1..Len(list) /\ Len(list) \in Nat /\ IsFiniteSet(1..Len(list))
  BY FS_Interval
<1>2. I \in SUBSET (1..Len(list)) /\ IsFiniteSet(I) /\ c \in Nat
  BY <1>1, FS_Subset, FS_CardinalityType
<1>3. ASSUME NEW i \in I
      PROVE  Rank(i) \in 1..c
  <2> DEFINE U == {k \in I : k <= i}
  <2>1. U \in SUBSET I /\ i \in U
    BY <1>2
  <2>2. IsFiniteSet(U) /\ Cardinality(U) <= c /\ Cardinality(U) \in Nat
    BY <1>2, <2>1, FS_Subset, FS_CardinalityType
  <2>3. Cardinality(U) # 0
    BY <2>1, <2>2, FS_EmptySet
  <2> QED
    BY <1>2, <2>2, <2>3
<1>4. ASSUME NEW i \in I, NEW k \in I, i < k
      PROVE  Rank(i) < Rank(k)
  <2> DEFINE U == {m \in I : m <= i}
             V == {m \in I : m <= k}
  <2>1. U \in SUBSET V /\ k \in V /\ k \notin U /\ V \in SUBSET I
    BY <1>2, <1>4
  <2>2. IsFiniteSet(V)
    BY <1>2, <2>1, FS_Subset
  <2>3. Cardinality(U) <= Cardinality(V) /\ Cardinality(U) # Cardinality(V)
    BY <2>1, <2>2, FS_Subset
  <2>4. Rank(i) = Cardinality(U) /\ Rank(k) = Cardinality(V)
    OBVIOUS
  <2> HIDE DEF U, V, Rank
  <2>5. Rank(i) \in Nat /\ Rank(k) \in Nat
    BY <1>3, <1>2
  <2> QED
    BY <2>3, <2>4, <2>5
<1> HIDE DEF I, Rank
<1>5. \A i, k \in I : Rank(i) = Rank(k) => i = k
  BY <1>2, <1>3, <1>4
<1>6. r \in Injection(I, 1..c)
  BY <1>3, <1>5, Zenon DEF Injection, IsInjective
<1>7. IsFiniteSet(1..c) /\ Cardinality(1..c) = Cardinality(I)
  BY <1>2, FS_Interval
<1>8. \A n \in 1..c : \E i \in I : Rank(i) = n
  <2>1. r \in Surjection(I, 1..c)
    <3> HIDE DEF r, c
    <3> QED
      BY <1>6, <1>7, FS_Injection
  <2> QED
    BY <2>1 DEF Surjection
<1>9. \A n \in 1..c : pick(n) \in I /\ Rank(pick(n)) = n
  BY <1>8
<1>10. \A i \in I : Rank(i) \in 1..c /\ pick(Rank(i)) = i
  BY <1>3, <1>5, <1>9
<1>11. Kept(list, S) = [n \in 1..c |-> list[pick(n)]]
  BY DEF Kept, I, Rank
<1>12. I = {i \in 1..Len(list) : list[i] \in S}
  BY <1>1 DEF I
<1> HIDE DEF c, pick
<1>13. Kept(list, S) \in Seq(Jobs)
  BY <1>2, <1>9, <1>11, <1>12
<1>14. \A j : j \in Range(Kept(list, S)) => j \in Range(list) \cap S
  BY <1>1, <1>9, <1>11, <1>12 DEF Range
<1>15. \A j : j \in Range(list) \cap S => j \in Range(Kept(list, S))
  BY <1>1, <1>10, <1>11, <1>12 DEF Range
<1>16. IsInjective(Kept(list, S))
  BY <1>1, <1>9, <1>11, <1>12 DEF IsInjective
<1> QED
  BY <1>13, <1>14, <1>15, <1>16

-----------------------------------------------------------------------------
(* The helpers on the scheduler and on the entities *)

(* Scheduler t is s but for its timer and for works queued if not paused. *)
Like(s, t) ==
    /\ t \in SchedRecord
    /\ t.credits = s.credits /\ t.pending = s.pending /\ t.fini = s.fini
    /\ t.guilty <=> s.guilty
    /\ t.paused <=> s.paused
    /\ s.paused => (t.runq <=> s.runq) /\ (t.freeq <=> s.freeq) /\ t.late = s.late

(* Queueing a work or arming the timer moves no job, and does nothing else  *)
(* to a paused scheduler.                                                   *)
LEMMA QueueingContract ==
    ASSUME NEW s \in SchedRecord
    PROVE  /\ Like(s, s)
           /\ Like(s, drm_sched_run_job_queue(s))
           /\ Like(s, drm_sched_run_free_queue(s))
           /\ Like(s, drm_sched_start_timeout(s))
           /\ \A W : Like(s, WakeSched(W, s))
<1>1. Like(s, s)
  BY DEF Like
<1>2. Like(s, drm_sched_run_job_queue(s))
  BY DEF Like, SchedRecord, drm_sched_run_job_queue
<1>3. Like(s, drm_sched_run_free_queue(s))
  BY DEF Like, SchedRecord, drm_sched_run_free_queue
<1>4. Like(s, drm_sched_start_timeout(s))
  BY DEF Like, SchedRecord, drm_sched_start_timeout
<1>5. \A W : Like(s, WakeSched(W, s))
  BY <1>1, <1>2 DEF WakeSched
<1> QED
  BY <1>1, <1>2, <1>3, <1>4, <1>5

(* Nor does a caller that is late. *)
LEMMA LateContract ==
    ASSUME NEW s \in SchedRecord, NEW S \in SUBSET {"run", "free"}
    PROVE  Like(s, Late(S, s))
BY DEF Like, SchedRecord, Late

(* Such steps compose. *)
LEMMA LikeTrans ==
    ASSUME NEW s, NEW t, NEW u, Like(s, t), Like(t, u)
    PROVE  Like(s, u)
BY DEF Like

(* drm_sched_wakeup and drm_sched_entity_wakeup of such a caller. *)
LEMMA OutsideContract ==
    ASSUME NEW s \in SchedRecord, NEW S \in SUBSET {"run", "free"}, NEW W
    PROVE  /\ Like(s, Late({"run"}, drm_sched_run_job_queue(s)))
           /\ Like(s, Late(LateRun(W), WakeSched(W, s)))
           /\ Like(s, Late(LateRun(W) \cup S, WakeSched(W, s)))
<1>1. LateRun(W) \in SUBSET {"run", "free"} /\ LateRun(W) \cup S \in SUBSET {"run", "free"}
  BY DEF LateRun
<1>2. Like(s, drm_sched_run_job_queue(s)) /\ Like(s, WakeSched(W, s))
  BY QueueingContract
<1>3. drm_sched_run_job_queue(s) \in SchedRecord /\ WakeSched(W, s) \in SchedRecord
  BY <1>2 DEF Like
<1>4. /\ Like(drm_sched_run_job_queue(s), Late({"run"}, drm_sched_run_job_queue(s)))
      /\ Like(WakeSched(W, s), Late(LateRun(W), WakeSched(W, s)))
      /\ Like(WakeSched(W, s), Late(LateRun(W) \cup S, WakeSched(W, s)))
  BY <1>1, <1>3, LateContract
<1> QED
  BY <1>2, <1>4, LikeTrans

(* drm_sched_job_done gives back the credits and may queue the free worker. *)
LEMMA JobsDoneContract ==
    ASSUME NEW s \in SchedRecord, NEW S \in SUBSET Jobs, CostOf(S) <= s.credits
    PROVE  Like([s EXCEPT !.credits = s.credits - CostOf(S)], JobsDone(S, s))
<1> DEFINE t == [s EXCEPT !.credits = s.credits - CostOf(S)]
<1>1. CostOf(S) \in Nat /\ s.credits \in Nat
  BY TakenFinite DEF SchedRecord
<1>2. t \in SchedRecord
  BY <1>1 DEF SchedRecord
<1>3. CASE S = {}
  <2>1. t = s
    BY <1>1, <1>3, CostOfNone DEF SchedRecord
  <2> QED
    BY <1>3, <2>1, QueueingContract DEF JobsDone
<1>4. CASE S # {}
  BY <1>2, <1>4, QueueingContract DEF JobsDone
<1> QED
  BY <1>3, <1>4

(* drm_sched_entity_wakeup only ends the wait for a fence. *)
EntityLike(en, em) ==
    \A e \in Entities :
        /\ em[e].queue = en[e].queue /\ em[e].n = en[e].n /\ em[e].last = en[e].last
        /\ em[e].owner = "gone" <=> en[e].owner = "gone"
        /\ en[e].stopped => em[e].stopped
        /\ Halted(en[e]) => Halted(em[e])

(* What drm_sched_entity_wakeup does to the entities. *)
LEMMA WokenContract ==
    ASSUME NEW W, NEW en \in [Entities -> EntityRecord]
    PROVE  /\ Woken(W, en) \in [Entities -> EntityRecord]
           /\ EntityLike(en, Woken(W, en))
           /\ \A e \in Entities :
                /\ Woken(W, en)[e].idle <=> en[e].idle
                /\ Woken(W, en)[e].owner = en[e].owner
                /\ Woken(W, en)[e].dep = IF e \in W THEN None ELSE en[e].dep
BY ZenonT(60) DEF Woken, EntityRecord, EntityLike, Halted

-----------------------------------------------------------------------------
(* Numbers and places of jobs *)

(* The job before a later one. *)
LEMMA Laters ==
    /\ Later \subseteq Jobs
    /\ \A j \in Later : Pred(j) \in Jobs /\ Pred(j) # j /\ Pred(j)[1] = j[1] /\ Pred(j)[2] = j[2] - 1
BY JobPairs DEF Later, Pred, Jobs

(* What is on a list is a job, and the numbers of an entity are numbers. *)
LEMMA Places ==
    ASSUME TypeOK
    PROVE  /\ \A j : OnList(j) => j \in Jobs
           /\ \A e \in Entities : /\ ent[e].queue \in Seq(Jobs) /\ Len(ent[e].queue) \in Nat
                                  /\ ent[e].n \in 0..MaxJobs /\ Gone(e) \in Int
<1>1. sched.pending \in Seq(Jobs)
  BY DEF TypeOK, SchedRecord
<1>2. \A j : OnList(j) => j \in Jobs
  BY <1>1 DEF OnList, Range
<1>3. ASSUME NEW e \in Entities
      PROVE  ent[e].queue \in Seq(Jobs) /\ ent[e].n \in 0..MaxJobs
  BY DEF TypeOK, EntityRecord
<1>4. ASSUME NEW e \in Entities
      PROVE  Len(ent[e].queue) \in Nat /\ Gone(e) \in Int
  BY <1>3, JobPairs DEF Gone
<1> QED
  BY <1>2, <1>3, <1>4

-----------------------------------------------------------------------------
(* What keeps a part of the invariant *)

(* QueueOK needs to be looked at only where a job enters or leaves a queue. *)
LEMMA KeepsQueues ==
    ASSUME QueueOK, EntityLike(ent, ent'),
           \A k \in Jobs : \/ job'[k].at = job[k].at
                           \/ /\ job[k].at \notin {"new", "queue"}
                              /\ job'[k].at \notin {"new", "queue"}
    PROVE  QueueOK'
<1>1. \A e \in Entities : Gone(e)' = Gone(e)
  BY DEF EntityLike, Gone
<1>2. ASSUME NEW j \in Jobs
      PROVE  /\ job'[j].at = "new" <=> j[2] > ent'[j[1]].n
             /\ job'[j].at = "queue" <=> Gone(j[1]) < j[2] /\ j[2] <= ent'[j[1]].n
  <2>1. ent'[j[1]].n = ent[j[1]].n
    BY JobPairs DEF EntityLike
  <2> QED
    BY <2>1 DEF QueueOK
<1> QED
  BY <1>1, <1>2, JobPairs DEF QueueOK, EntityLike

(* OrderOK survives the ends of jobs. *)
LEMMA KeepsOrder ==
    ASSUME OrderOK, EntityLike(ent, ent'),
           \A k \in Jobs : /\ job'[k].late <=> job[k].late
                           /\ \/ job'[k].at = job[k].at /\ job'[k].prev = job[k].prev
                              \/ job[k].at = "run" /\ job'[k].at = "freed"
                              \/ job[k].at = "kill" /\ job'[k].at = "killed"
    PROVE  OrderOK'
<1>1. \A e \in Entities : Gone(e)' = Gone(e)
  BY DEF EntityLike, Gone
<1>2. /\ (\A e \in Entities : Halted(ent[e]))'
      /\ (\A j \in Jobs : job[j].at \in {"kill", "killed"} => ent[j[1]].stopped)'
  BY JobPairs DEF OrderOK, EntityLike, Halted
<1>3. ASSUME NEW j \in Later, ~job'[j].late
      PROVE  /\ job'[j].at \notin {"new", "kill", "killed"} => job'[Pred(j)].at \notin {"kill", "killed"}
             /\ job'[j].at = "kill" => job'[j].prev = Pred(j)
  BY <1>3, Laters DEF OrderOK
<1>4. ASSUME NEW e \in Entities, NEW j \in Jobs, j = <<e, Gone(e)>>,
             ent'[e].owner # "gone", job'[j].at \in {"run", "freed"}
      PROVE  ent'[e].last = j
  BY <1>4 DEF OrderOK, EntityLike
<1> QED
  BY <1>1, <1>2, <1>3, <1>4 DEF OrderOK

(* Fences stay signalled. *)
Forward ==
    /\ \A k \in Jobs : /\ job[k].scheduled => job'[k].scheduled
                       /\ job[k].finished => job'[k].finished
    /\ ext \subseteq ext'

(* InOrder has to be shown only for the jobs in S that a step schedules or  *)
(* discards.                                                                *)
LEMMA KeepsInOrder ==
    ASSUME InOrder, Forward,
           NEW S,
           \A k \in Jobs \ S : /\ job'[k].late <=> job[k].late
                               /\ job'[k].scheduled <=> job[k].scheduled
                               /\ job'[k].at = "killed" <=> job[k].at = "killed",
           \A k \in S \cap Later : ~job'[k].late =>
               /\ job'[k].scheduled => job'[Pred(k)].scheduled
               /\ job'[k].at = "killed" => job'[Pred(k)].finished
    PROVE  InOrder'
BY Laters DEF InOrder, Forward

(* A signalled fence stays signalled, *)
LEMMA SignalledForward ==
    ASSUME Forward, NEW f \in Fences, Signalled(f, job)
    PROVE  Signalled(f, job)'
BY DEF Forward, Signalled, Fences

(* and a settled dependency settled. *)
LEMMA SettledForward ==
    ASSUME Forward, NEW j, NEW f \in Fences, Settled(j, f)
    PROVE  Settled(j, f)'
BY SignalledForward DEF Forward, Settled, Fences

(* An entity gives up a fence it waits for when that has signalled. *)
LEMMA KeepsDeps ==
    ASSUME TypeOK, QueueOK, DepOK, DepsHonoured, Forward,
           \A k \in Jobs : \/ job'[k].at = "freed" /\ job'[k].deps = {}
                           \/ /\ job'[k].at = job[k].at /\ job'[k].deps = job[k].deps
                              /\ job'[k].left = job[k].left
                           \/ /\ job'[k].at = "killed" /\ job'[k].deps = job[k].deps
                              /\ \A f \in job[k].deps : Signalled(f, job),
           \A e \in Entities :
              /\ ent'[e].queue = ent[e].queue
              /\ \/ ent'[e].dep = ent[e].dep
                 \/ \E f \in Fences : f = ent[e].dep /\ Signalled(f, job)',
           FencesOK'
    PROVE  DepOK' /\ DepsHonoured'
<1>1. \A j \in Jobs : job[j].deps \in SUBSET Fences
  BY DEF TypeOK, JobRecord
<1>2. ASSUME NEW j \in Jobs, job'[j].at = "queue", NEW f \in job'[j].deps \ job'[j].left
      PROVE  Settled(j, f)' \/ (j = Head(ent'[j[1]].queue) /\ ent'[j[1]].dep \in Awaited(f))
  <2>1. job[j].at = "queue" /\ f \in job[j].deps \ job[j].left /\ f \in Fences
    BY <1>1, <1>2
  <2>2. CASE Settled(j, f)
    BY <2>1, <2>2, SettledForward
  <2>3. CASE j = Head(ent[j[1]].queue) /\ ent[j[1]].dep \in Awaited(f)
    <3>1. CASE ent'[j[1]].dep = ent[j[1]].dep
      BY <2>3, <3>1, JobPairs
    <3>2. CASE \E d \in Fences : d = ent[j[1]].dep /\ Signalled(d, job)'
      <4> PICK d \in Fences : d = ent[j[1]].dep /\ Signalled(d, job)'
        BY <3>2
      <4>1. CASE d = f
        <5>1. f.kind = "finished" => f.f \in Jobs /\ job'[f.f].finished
          BY <2>1, <4>1 DEF Signalled, Fences
        <5>2. Settled(j, f)'
          BY <4>1, <5>1 DEF Settled, FencesOK
        <5> QED
          BY <5>2
      <4>2. CASE f.kind = "finished" /\ d = Fence("scheduled", f.f)
        <5>1. job'[f.f].scheduled
          BY <4>2 DEF Signalled, Fence
        <5> QED
          BY <4>2, <5>1 DEF Settled
      <4> QED
        BY <2>3, <4>1, <4>2 DEF Awaited
    <3> QED
      BY <3>1, <3>2, JobPairs
  <2> QED
    BY <2>1, <2>2, <2>3 DEF DepOK
<1>3. ASSUME NEW j \in Jobs, NEW f \in job'[j].deps
      PROVE  /\ job'[j].at = "run" => Settled(j, f)'
             /\ job'[j].at = "killed" => Signalled(f, job)'
  <2>1. f \in job[j].deps /\ f \in Fences
    BY <1>1, <1>3
  <2>2. CASE job'[j].at = "run"
    <3>1. Settled(j, f)
      BY <2>1, <2>2 DEF DepsHonoured, Settled
    <3> QED
      BY <2>1, <2>2, <3>1, SettledForward
  <2>3. CASE job'[j].at = "killed"
    <3>1. Signalled(f, job)
      BY <2>1, <2>3 DEF DepsHonoured
    <3> QED
      BY <2>1, <2>3, <3>1, SignalledForward
  <2> QED
    BY <2>2, <2>3
<1> QED
  BY <1>2, <1>3 DEF DepOK, DepsHonoured, Settled, Awaited

(* TdrOK survives steps of others that add no callback and end no listed    *)
(* job of a stopped scheduler.                                              *)
LEMMA KeepsTdr ==
    ASSUME TypeOK, TdrOK, tdr' = tdr, Like(sched, sched'),
           Stopped => wk'.pc = "idle",
           \A k \in Jobs : /\ job[k].finished => job'[k].finished
                           /\ Stopped => /\ job'[k].cb => job[k].cb
                                         /\ OnList(k) /\ job'[k].finished => job[k].finished
    PROVE  TdrOK'
<1>1. \A k : OnList(k)' <=> OnList(k)
  BY DEF OnList, Like
<1>2. Stopped' <=> Stopped
  BY DEF Stopped
<1>3. sched.guilty => tdr.pc \in {"stopped", "resubmitted", "reset"} /\ job'[tdr.j].finished
  BY DEF TdrOK
<1> QED
  BY <1>1, <1>2, <1>3 DEF TdrOK, Like

(* HandsOK survives steps that move no job. *)
LEMMA KeepsHands ==
    ASSUME HandsOK, Like(sched, sched'), tdr' = tdr,
           \A k \in Jobs : InWorker(k)' <=> InWorker(k),
           \A k \in Jobs : job'[k].at = "run" <=> job[k].at = "run"
    PROVE  HandsOK'
BY DEF HandsOK, Like, OnList, WithDriver

(* A step that moves no job and no worker, but may signal foreign fences. *)
LEMMA SteadyStep ==
    ASSUME IInv, TypeOK', job' = job, wk' = wk, tdr' = tdr, ext \subseteq ext',
           Like(sched, sched'), EntityLike(ent, ent'),
           \A e \in Entities :
              /\ ent'[e].idle <=> ent[e].idle
              /\ \/ ent'[e].dep = ent[e].dep
                 \/ \E f \in Fences : f = ent[e].dep /\ Signalled(f, job)'
    PROVE  IInv'
<1>0. TypeOK /\ QueueOK /\ FencesOK /\ WorkerOK /\ FiniOK /\ TdrOK /\ HandsOK /\ BusyOK
      /\ CreditOK /\ OrderOK /\ InOrder /\ DepOK /\ DepsHonoured
  BY DEF IInv
<1>1. Forward
  BY DEF Forward
<1>2. QueueOK'
  BY <1>0, KeepsQueues
<1>3. FencesOK'
  BY <1>0 DEF FencesOK
<1>4. WorkerOK'
  BY <1>0, NoneApart DEF WorkerOK, Popped, Holding, Like, EntityLike, TypeOK
<1>5. FiniOK'
  BY <1>0 DEF FiniOK, EntityLike, Like
<1>6. TdrOK'
  BY <1>0, KeepsTdr DEF TdrOK
<1>7. HandsOK'
  BY <1>0, KeepsHands DEF InWorker
<1>8. BusyOK'
  BY <1>0 DEF BusyOK, Stopped
<1>9. CreditOK'
  <2>1. Busy' = Busy
    BY DEF Busy, InWorker
  <2> QED
    BY <1>0, <2>1 DEF CreditOK, Stopped, Like
<1>10. OrderOK'
  BY <1>0, KeepsOrder
<1>11. InOrder'
  BY <1>0 DEF InOrder
<1>12. DepOK' /\ DepsHonoured'
  BY <1>0, <1>1, <1>3, KeepsDeps DEF EntityLike
<1> QED
  BY <1>2, <1>3, <1>4, <1>5, <1>6, <1>7, <1>8, <1>9, <1>10, <1>11, <1>12 DEF IInv

(* the same but for lists, flush and adding *)
Same(r, s) ==
    /\ s.queue = r.queue /\ s.n = r.n /\ s.last = r.last /\ s.dep = r.dep
    /\ s.owner = "gone" <=> r.owner = "gone"
    /\ r.stopped => s.stopped
    /\ Halted(r) => Halted(s)
    /\ s.idle <=> r.idle

(* One entity is changed. *)
LEMMA EntityUpdate ==
    ASSUME TypeOK, NEW a \in Entities, NEW r \in EntityRecord, ent' = [ent EXCEPT ![a] = r]
    PROVE  /\ ent' \in [Entities -> EntityRecord]
           /\ ent'[a] = r /\ \A e \in Entities \ {a} : ent'[e] = ent[e]
BY DEF TypeOK

(* One job is changed. *)
LEMMA JobUpdate ==
    ASSUME TypeOK, NEW j \in Jobs, NEW r \in JobRecord, job' = [job EXCEPT ![j] = r]
    PROVE  /\ job' \in [Jobs -> JobRecord]
           /\ job'[j] = r /\ \A k \in Jobs \ {j} : job'[k] = job[k]
BY DEF TypeOK

-----------------------------------------------------------------------------
(* The owners *)

(* AddEntity touches the lists of the run queue only. *)
LEMMA AddEntityStep ==
    ASSUME IInv, NEW a \in Entities, AddEntity(a)
    PROVE  IInv'
<1>0. TypeOK
  BY DEF IInv
<1>1. /\ ent' \in [Entities -> EntityRecord] /\ EntityLike(ent, ent')
      /\ \A e \in Entities : (ent'[e].idle <=> ent[e].idle) /\ ent'[e].dep = ent[e].dep
  <2> DEFINE r == [ent[a] EXCEPT !.adding = FALSE]
             s == [ent[a] EXCEPT !.adding = FALSE, !.list = TRUE, !.tree = TRUE]
  <2>1. ent[a] \in EntityRecord
    BY <1>0 DEF TypeOK
  <2>2. r \in EntityRecord /\ s \in EntityRecord
    BY <2>1 DEF EntityRecord
  <2>3. ent' = [ent EXCEPT ![a] = r] \/ ent' = [ent EXCEPT ![a] = s]
    BY DEF AddEntity
  <2>6. Same(ent[a], r) /\ Same(ent[a], s)
    BY <2>1 DEF EntityRecord, Same, Halted
  <2>7. \A e \in Entities : Same(ent[e], ent[e])
    BY DEF Same
  <2> HIDE DEF r, s
  <2>4. CASE ent' = [ent EXCEPT ![a] = r]
    <3>1. ent' \in [Entities -> EntityRecord] /\ ent'[a] = r
          /\ \A e \in Entities \ {a} : ent'[e] = ent[e]
      BY <1>0, <2>2, <2>4, EntityUpdate
    <3> QED
      BY <2>6, <2>7, <3>1 DEF EntityLike, Same
  <2>5. CASE ent' = [ent EXCEPT ![a] = s]
    <3>1. ent' \in [Entities -> EntityRecord] /\ ent'[a] = s
          /\ \A e \in Entities \ {a} : ent'[e] = ent[e]
      BY <1>0, <2>2, <2>5, EntityUpdate
    <3> QED
      BY <2>6, <2>7, <3>1 DEF EntityLike, Same
  <2> QED
    BY <2>3, <2>4, <2>5
<1>2. Like(sched, sched')
  BY <1>0, QueueingContract, OutsideContract DEF AddEntity, TypeOK
<1>3. job' = job /\ wk' = wk /\ tdr' = tdr /\ ext' = ext
  BY DEF AddEntity
<1>4. TypeOK'
  BY <1>0, <1>1, <1>2, <1>3 DEF TypeOK, Like
<1> QED
  BY <1>1, <1>2, <1>3, <1>4, SteadyStep

(* Flush only puts the owner to sleep. *)
LEMMA FlushStep ==
    ASSUME IInv, NEW a \in Entities, Flush(a)
    PROVE  IInv'
<1>0. TypeOK
  BY DEF IInv
<1>1. ent' \in [Entities -> EntityRecord] /\ EntityLike(ent, ent')
      /\ \A e \in Entities : (ent'[e].idle <=> ent[e].idle) /\ ent'[e].dep = ent[e].dep
  <2> DEFINE r == [ent[a] EXCEPT !.owner = "sleep"]
  <2>1. ent[a] \in EntityRecord /\ ent[a].owner = "open" /\ ent' = [ent EXCEPT ![a] = r]
    BY <1>0 DEF Flush, TypeOK
  <2>2. r \in EntityRecord /\ Same(ent[a], r)
    BY <2>1 DEF EntityRecord, Same, Halted
  <2> HIDE DEF r
  <2>3. /\ ent' \in [Entities -> EntityRecord] /\ ent'[a] = r
        /\ \A e \in Entities \ {a} : ent'[e] = ent[e]
    BY <1>0, <2>1, <2>2, EntityUpdate
  <2> QED
    BY <2>2, <2>3 DEF EntityLike, Same
<1>2. Like(sched, sched')
  BY <1>0, QueueingContract DEF Flush, TypeOK
<1>3. job' = job /\ wk' = wk /\ tdr' = tdr /\ ext' = ext
  BY DEF Flush
<1>4. TypeOK'
  BY <1>0, <1>1, <1>2, <1>3 DEF TypeOK, Like
<1> QED
  BY <1>1, <1>2, <1>3, <1>4, SteadyStep

(* drm_sched_fault arms the timer. *)
LEMMA FaultStep ==
    ASSUME IInv, Fault
    PROVE  IInv'
<1>0. TypeOK
  BY DEF IInv
<1>1. job' = job /\ ent' = ent /\ wk' = wk /\ tdr' = tdr /\ ext' = ext
  BY DEF Fault
<1>2. Like(sched, sched')
  BY <1>0 DEF Fault, TypeOK, Like, SchedRecord
<1>3. TypeOK'
  BY <1>0, <1>1, <1>2 DEF TypeOK, Like
<1> QED
  BY <1>1, <1>2, <1>3, SteadyStep DEF EntityLike

(* Nothing changes. *)
LEMMA StutterStep ==
    ASSUME IInv, UNCHANGED vars
    PROVE  IInv'
<1>0. TypeOK
  BY DEF IInv
<1>1. job' = job /\ ent' = ent /\ sched' = sched /\ wk' = wk /\ tdr' = tdr /\ ext' = ext
  BY DEF vars
<1>2. Like(sched, sched')
  BY <1>0, <1>1, QueueingContract DEF TypeOK
<1>3. TypeOK'
  BY <1>0, <1>1 DEF TypeOK
<1> QED
  BY <1>1, <1>2, <1>3, SteadyStep DEF EntityLike

(* A foreign fence signals: those who waited for it are settled. *)
LEMMA ExtSignalStep ==
    ASSUME IInv, NEW x \in Exts, ExtSignal(x)
    PROVE  IInv'
<1>0. TypeOK
  BY DEF IInv
<1> DEFINE W == Waiting({Fence("ext", x)})
<1>1. /\ ent' \in [Entities -> EntityRecord] /\ EntityLike(ent, ent')
      /\ \A e \in Entities : /\ ent'[e].idle <=> ent[e].idle
                             /\ ent'[e].dep = IF e \in W THEN None ELSE ent[e].dep
  BY <1>0, WokenContract DEF ExtSignal, TypeOK
<1>2. Like(sched, sched')
  BY <1>0, OutsideContract DEF ExtSignal, TypeOK
<1>3. job' = job /\ wk' = wk /\ tdr' = tdr /\ ext' = ext \cup {x}
  BY DEF ExtSignal
<1>4. TypeOK'
  BY <1>0, <1>1, <1>2, <1>3 DEF TypeOK, Like
<1>5. Fence("ext", x) \in Fences /\ Signalled(Fence("ext", x), job)'
  BY <1>3 DEF Fence, Fences, Signalled
<1>6. \A e \in W : ent[e].dep = Fence("ext", x)
  BY DEF Waiting
<1> QED
  BY <1>1, <1>2, <1>3, <1>4, <1>5, <1>6, SteadyStep

(* A kill begins by stopping the entity. *)
LEMMA KillStartStep ==
    ASSUME IInv, NEW a \in Entities, KillStart(a)
    PROVE  IInv'
<1>0. TypeOK /\ ent[a] \in EntityRecord
  BY DEF IInv, TypeOK
<1> DEFINE t == ent[a].tree /\ ~ent[a].list
           r == [ent[a] EXCEPT !.owner = "kill", !.stopped = TRUE, !.list = FALSE, !.tree = t]
           s == [ent[a] EXCEPT !.owner = "fini", !.stopped = TRUE, !.list = FALSE, !.tree = t]
<1>1. t \in BOOLEAN
  OBVIOUS
<1>2. /\ ent[a].owner # "gone"
      /\ ent' = [ent EXCEPT ![a] = r] \/ ent' = [ent EXCEPT ![a] = s]
      /\ job' = job /\ sched' = sched /\ wk' = wk /\ tdr' = tdr /\ ext' = ext
  BY DEF KillStart
<1> HIDE DEF t
<1>3. r \in EntityRecord /\ s \in EntityRecord
  BY <1>0, <1>1 DEF EntityRecord
<1>4. Same(ent[a], r) /\ Same(ent[a], s)
  BY <1>0, <1>2 DEF EntityRecord, Same, Halted
<1>5. \A e \in Entities : Same(ent[e], ent[e])
  BY DEF Same
<1> HIDE DEF r, s
<1>6. PICK u \in {r, s} : ent' = [ent EXCEPT ![a] = u]
  BY <1>2
<1>7. /\ ent' \in [Entities -> EntityRecord] /\ ent'[a] = u
      /\ \A e \in Entities \ {a} : ent'[e] = ent[e]
  BY <1>0, <1>3, <1>6, EntityUpdate
<1>8. EntityLike(ent, ent')
      /\ \A e \in Entities : (ent'[e].idle <=> ent[e].idle) /\ ent'[e].dep = ent[e].dep
  BY <1>4, <1>5, <1>6, <1>7 DEF EntityLike, Same
<1>9. Like(sched, sched')
  BY <1>0, <1>2, QueueingContract DEF TypeOK
<1>10. TypeOK'
  BY <1>0, <1>2, <1>7 DEF TypeOK
<1> QED
  BY <1>2, <1>8, <1>9, <1>10, SteadyStep

(* The bound on the jobs leaves a number for the job that is pushed. *)
LEMMA PushRoom ==
    ASSUME TypeOK, QueueOK, NEW e \in Entities,
           Cardinality({j \in Jobs : job[j].at # "new"}) < MaxJobs
    PROVE  ent[e].n + 1 \in 1..MaxJobs /\ <<e, ent[e].n + 1>> \in Jobs
<1> DEFINE n == ent[e].n
           P == {j \in Jobs : job[j].at # "new"}
           T == {e} \X (1..n)
<1>1. n \in 0..MaxJobs /\ n \in Nat
  BY Places, JobPairs
<1>2. T \in SUBSET P
  BY <1>1, JobPairs DEF QueueOK
<1>3. IsFiniteSet(P)
  BY JobsFinite, FS_Subset
<1>4. Cardinality(T) <= Cardinality(P) /\ Cardinality(P) \in Nat
  BY <1>2, <1>3, FS_Subset, FS_CardinalityType
<1> HIDE DEF n
<1>5. IsFiniteSet({e}) /\ Cardinality({e}) = 1 /\ IsFiniteSet(1..n) /\ Cardinality(1..n) = n
  <2>1. IsFiniteSet({e}) /\ Cardinality({e}) = 1
    BY FS_Singleton
  <2>2. IsFiniteSet(1..n) /\ Cardinality(1..n) = n
    BY <1>1, FS_Interval
  <2> QED
    BY <2>1, <2>2
<1>6. Cardinality(T) = Cardinality({e}) * Cardinality(1..n)
  BY <1>5, FS_Product
<1>7. Cardinality(T) = 1 * n
  BY <1>5, <1>6
<1>8. Cardinality(T) = n
  BY <1>1, <1>7
<1> HIDE DEF T, P
<1>9. n < MaxJobs
  BY <1>1, <1>4, <1>8, JobPairs DEF P
<1> QED
  BY <1>1, <1>9, JobPairs DEF n

(* A job in a queue: the queue is not empty. *)
LEMMA QueuedMeansQueue ==
    ASSUME TypeOK, QueueOK, NEW j \in Jobs, job[j].at = "queue"
    PROVE  ent[j[1]].queue # <<>> /\ Len(ent[j[1]].queue) > 0
<1>1. Gone(j[1]) < j[2] /\ j[2] <= ent[j[1]].n /\ j[1] \in Entities /\ j[2] \in 1..MaxJobs
  BY JobPairs DEF QueueOK
<1>2. Len(ent[j[1]].queue) > 0
  BY <1>1, Places, JobPairs DEF Gone
<1> QED
  BY <1>2

(* A pushed job is new and goes to the end of the queue, behind the jobs of *)
(* smaller numbers.                                                         *)
LEMMA PushStep ==
    ASSUME IInv, NEW a \in Entities, NEW D \in SUBSET Jobs, NEW X \in SUBSET Exts, Push(a, D, X)
    PROVE  IInv'
<1>0. TypeOK /\ QueueOK /\ FencesOK /\ WorkerOK /\ FiniOK /\ TdrOK /\ HandsOK /\ BusyOK
      /\ CreditOK /\ OrderOK /\ InOrder /\ DepOK /\ DepsHonoured
  BY DEF IInv
<1> DEFINE n == ent[a].n
           q == ent[a].queue
           j == <<a, n + 1>>
           deps == {Fence("finished", d) : d \in drm_sched_job_add_dependency(D)}
                     \cup {Fence("ext", x) : x \in X}
           b == (q = <<>>)
           r == [job[j] EXCEPT !.at = "queue", !.deps = deps, !.left = deps,
                               !.late = ent[a].stopped]
           m == n + 1
           nq == Append(q, j)
           s == [ent[a] EXCEPT !.queue = nq, !.n = m, !.adding = b]
<1>1. n + 1 \in 1..MaxJobs /\ j \in Jobs /\ j[1] = a /\ j[2] = n + 1
  BY <1>0, PushRoom DEF Push
<1>2. /\ job' = [job EXCEPT ![j] = r] /\ ent' = [ent EXCEPT ![a] = s]
      /\ ent[a].owner \in {"open", "killed"}
      /\ sched' = sched /\ wk' = wk /\ tdr' = tdr /\ ext' = ext
  BY DEF Push
<1>3. deps \in SUBSET Fences
  BY DEF Fence, Fences, drm_sched_job_add_dependency
<1>4. /\ b \in BOOLEAN /\ q \in Seq(Jobs) /\ nq \in Seq(Jobs) /\ Len(nq) = Len(q) + 1
      /\ n \in Nat /\ m \in 0..MaxJobs /\ Len(q) \in Nat
  BY <1>0, <1>1, Places, JobPairs
<1>5. job[j] \in JobRecord /\ ent[a] \in EntityRecord /\ ent[a].stopped \in BOOLEAN
  BY <1>0, <1>1 DEF TypeOK, EntityRecord
<1> HIDE DEF deps, b, m, nq
<1>6. /\ r \in JobRecord /\ r.at = "queue" /\ r.deps = r.left /\ (r.late <=> ent[a].stopped)
      /\ (r.scheduled <=> job[j].scheduled) /\ (r.finished <=> job[j].finished)
      /\ (r.cb <=> job[j].cb)
  BY <1>3, <1>5 DEF JobRecord
<1>7. /\ s \in EntityRecord /\ s.queue = nq /\ s.n = m /\ s.last = ent[a].last
      /\ s.dep = ent[a].dep /\ s.owner = ent[a].owner /\ (s.stopped <=> ent[a].stopped)
      /\ (s.idle <=> ent[a].idle)
  BY <1>1, <1>4, <1>5 DEF EntityRecord
<1>8. job' \in [Jobs -> JobRecord] /\ job'[j] = r /\ \A k \in Jobs \ {j} : job'[k] = job[k]
  BY <1>0, <1>1, <1>2, <1>6, JobUpdate, ZenonT(60)
<1>9. /\ ent' \in [Entities -> EntityRecord] /\ ent'[a] = s
      /\ \A e \in Entities \ {a} : ent'[e] = ent[e]
  BY <1>0, <1>2, <1>7, EntityUpdate
<1> HIDE DEF r, s
<1>10. job[j].at = "new" /\ ~job[j].scheduled /\ ~job[j].finished /\ ~job[j].cb
  BY <1>0, <1>1, <1>4 DEF QueueOK, FencesOK
<1>11. TypeOK'
  BY <1>0, <1>2, <1>8, <1>9 DEF TypeOK
<1>12. \A e \in Entities : Gone(e)' = Gone(e)
  <2>1. Gone(a)' = Gone(a)
    <3>1. ent'[a].n - Len(ent'[a].queue) = m - Len(nq)
      BY <1>7, <1>9
    <3> QED
      BY <1>4, <3>1, SMTT(30) DEF Gone, m
  <2> QED
    BY <1>9, <2>1 DEF Gone
<1>13. QueueOK'
  <2>1. ASSUME NEW e \in Entities
        PROVE  (/\ Gone(e) >= 0
                /\ \A i \in 1..Len(ent[e].queue) : ent[e].queue[i] = <<e, Gone(e) + i>>
                /\ ent[e].owner = "gone" => ent[e].queue = <<>>)'
    <3>1. CASE e = a
      <4>1. Gone(a) + (Len(q) + 1) = n + 1
        BY <1>4 DEF Gone
      <4>2. \A i \in 1..(Len(q) + 1) : nq[i] = <<a, Gone(a) + i>>
        BY <1>0, <1>4, <4>1 DEF QueueOK, nq
      <4> QED
        BY <1>0, <1>2, <1>4, <1>7, <1>9, <1>12, <3>1, <4>2 DEF QueueOK
    <3>2. CASE e # a
      BY <1>0, <1>9, <1>12, <3>2 DEF QueueOK
    <3> QED
      BY <3>1, <3>2
  <2>2. ASSUME NEW k \in Jobs
        PROVE  (/\ job[k].at = "new" <=> k[2] > ent[k[1]].n
                /\ job[k].at = "queue" <=> Gone(k[1]) < k[2] /\ k[2] <= ent[k[1]].n)'
    <3>0. k[1] \in Entities /\ k[2] \in 1..MaxJobs /\ Gone(k[1]) \in Int /\ ent[k[1]].n \in Nat
      BY <1>0, JobPairs, Places
    <3>1. CASE k = j
      <4>1. Gone(a) <= n
        BY <1>4 DEF Gone
      <4>2. Gone(a) < n + 1
        BY <1>4, <3>0, <3>1, <1>1, <4>1
      <4> QED
        BY <1>1, <1>4, <1>6, <1>7, <1>8, <1>9, <1>12, <3>1, <4>2 DEF m
    <3>2. CASE k # j /\ k[1] = a
      <4>1. k[2] # n + 1
        BY <3>2, JobPairs
      <4> QED
        <5>1. job'[k].at = job[k].at /\ ent'[k[1]].n = n + 1 /\ Gone(k[1])' = Gone(k[1])
          BY <1>7, <1>8, <1>9, <1>12, <3>0, <3>2 DEF m
        <5>2. /\ job[k].at = "new" <=> k[2] > n
              /\ job[k].at = "queue" <=> Gone(k[1]) < k[2] /\ k[2] <= n
          BY <1>0, <3>2 DEF QueueOK
        <5>3. Gone(k[1]) <= n
          BY <1>4, <3>2 DEF Gone
        <5> HIDE DEF n
        <5>4. (k[2] > n + 1 <=> k[2] > n) /\ (k[2] <= n + 1 <=> k[2] <= n)
          BY <1>4, <3>0, <4>1
        <5> QED
          BY <5>1, <5>2, <5>4
    <3>3. CASE k[1] # a
      BY <1>0, <1>1, <1>8, <1>9, <1>12, <3>0, <3>3 DEF QueueOK
    <3> QED
      BY <3>1, <3>2, <3>3
  <2> QED
    BY <2>1, <2>2 DEF QueueOK
<1>14. FencesOK'
  <2>1. \A k \in Jobs \ {j} :
          /\ job'[k] = job[k]
          /\ job[k].at \in {"new", "queue", "kill"} => ~job[k].scheduled
          /\ job[k].at = "killed" => job[k].finished
          /\ job[k].finished => job[k].scheduled
          /\ job[k].cb => job[k].at = "run" /\ ~job[k].finished
          /\ job[k].at \in {"run", "freed"} =>
               job[k].scheduled \/ (wk'.j = k /\ wk'.pc \in {"requeue", "begin", "run"})
    BY <1>0, <1>2, <1>8 DEF FencesOK
  <2>2. job'[j].at = "queue" /\ ~job'[j].scheduled /\ ~job'[j].finished /\ ~job'[j].cb
    BY <1>6, <1>8, <1>10
  <2> QED
    BY <2>1, <2>2 DEF FencesOK
<1>15. WorkerOK'
  <2>1. wk.j \in Jobs /\ wk.pc \in Popped => wk.j # j
    BY <1>0, <1>10 DEF WorkerOK
  <2>2. wk.pc = "pop" /\ wk.e = a => Head(nq) = Head(q) /\ nq # <<>>
    BY <1>0, <1>4, SMTT(30) DEF WorkerOK, nq
  <2>3. wk.e # None => wk.e \in Entities
    BY <1>0 DEF TypeOK
  <2>4. wk.pc = "pop" => wk.e # None
    BY <1>0 DEF WorkerOK, Holding
  <2>5. wk.pc = "pop" => /\ ent'[wk.e].queue # <<>> /\ wk.j = Head(ent'[wk.e].queue)
                         /\ ent'[wk.e].dep = None
    BY <1>0, <1>7, <1>9, <2>2, <2>3, <2>4 DEF WorkerOK
  <2>6. wk.e # None => ~ent'[wk.e].idle /\ ent'[wk.e].owner # "gone"
    BY <1>0, <1>7, <1>9, <2>3 DEF WorkerOK
  <2> QED
    BY <1>0, <1>2, <1>8, <2>1, <2>5, <2>6 DEF WorkerOK
<1>16. FiniOK'
  BY <1>0, <1>2, <1>7, <1>9 DEF FiniOK
<1>17. Like(sched, sched')
  BY <1>0, <1>2, QueueingContract DEF TypeOK
<1>18. TdrOK'
  BY <1>0, <1>2, <1>6, <1>8, <1>10, <1>17, KeepsTdr DEF TdrOK
<1>19. HandsOK'
  BY <1>0, <1>2, <1>6, <1>8, <1>10, <1>17, KeepsHands DEF InWorker
<1>20. BusyOK'
  BY <1>0, <1>2, <1>6, <1>8 DEF BusyOK, Stopped
<1>21. CreditOK'
  <2>1. Busy' = Busy
    BY <1>2, <1>6, <1>8, <1>10 DEF Busy, InWorker
  <2> QED
    BY <1>0, <1>2, <2>1 DEF CreditOK, Stopped
<1>22. OrderOK'
  <2>0. (\A e \in Entities : Halted(ent[e]))'
    BY <1>0, <1>7, <1>9 DEF OrderOK, Halted
  <2>1. (\A k \in Jobs : job[k].at \in {"kill", "killed"} => ent[k[1]].stopped)'
    BY <1>0, <1>6, <1>7, <1>8, <1>9, JobPairs DEF OrderOK
  <2>2. ASSUME NEW k \in Later, ~job'[k].late
        PROVE  /\ job'[k].at \notin {"new", "kill", "killed"} => job'[Pred(k)].at \notin {"kill", "killed"}
               /\ job'[k].at = "kill" => job'[k].prev = Pred(k)
    <3>1. CASE k = j
      BY <1>0, <1>1, <1>6, <1>8, <2>2, <3>1, Laters DEF OrderOK
    <3>2. CASE k # j
      BY <1>0, <1>6, <1>8, <2>2, <3>2, Laters DEF OrderOK
    <3> QED
      BY <3>1, <3>2
  <2>3. ASSUME NEW e \in Entities, NEW k \in Jobs, k = <<e, Gone(e)>>,
               ent'[e].owner # "gone", job'[k].at \in {"run", "freed"}
        PROVE  ent'[e].last = k
    BY <1>0, <1>6, <1>7, <1>8, <1>9, <2>3 DEF OrderOK
  <2> QED
    BY <1>12, <2>0, <2>1, <2>2, <2>3 DEF OrderOK
<1>23. Forward
  BY <1>2, <1>8, <1>10 DEF Forward
<1>24. InOrder'
  BY <1>0, <1>6, <1>8, <1>10, <1>23, KeepsInOrder, ZenonT(60)
<1>25. DepOK'
  <2> SUFFICES ASSUME NEW k \in Jobs, job'[k].at = "queue", NEW f \in job'[k].deps \ job'[k].left
               PROVE  Settled(k, f)' \/ (k = Head(ent'[k[1]].queue) /\ ent'[k[1]].dep \in Awaited(f))
    BY DEF DepOK, Awaited
  <2>1. k # j /\ job'[k] = job[k] /\ f \in Fences
    BY <1>0, <1>6, <1>8 DEF TypeOK, JobRecord
  <2>2. ent[k[1]].queue # <<>> /\ k[1] \in Entities
    BY <1>0, <2>1, QueuedMeansQueue, JobPairs
  <2>3. Head(ent'[k[1]].queue) = Head(ent[k[1]].queue) /\ ent'[k[1]].dep = ent[k[1]].dep
    <3>1. q # <<>> => Head(nq) = Head(q)
      BY <1>4 DEF nq
    <3> QED
      BY <1>7, <1>9, <2>2, <3>1
  <2> QED
    BY <1>0, <1>23, <2>1, <2>3, SettledForward DEF DepOK
<1>26. DepsHonoured'
  <2> SUFFICES ASSUME NEW k \in Jobs, NEW f \in job'[k].deps
               PROVE  /\ job'[k].at = "run" => Settled(k, f)'
                      /\ job'[k].at = "killed" => Signalled(f, job)'
    BY DEF DepsHonoured, Settled
  <2>1. CASE k = j
    BY <1>6, <1>8, <2>1
  <2>2. CASE k # j
    <3>1. job'[k] = job[k] /\ f \in Fences
      BY <1>0, <1>8, <2>2 DEF TypeOK, JobRecord
    <3> QED
      BY <1>0, <1>23, <3>1, SettledForward, SignalledForward DEF DepsHonoured, Settled
  <2> QED
    BY <2>1, <2>2
<1> QED
  BY <1>11, <1>13, <1>14, <1>15, <1>16, <1>18, <1>19, <1>20, <1>21, <1>22, <1>24, <1>25, <1>26
     DEF IInv

(* A discarded job ends after the job before it and after its dependencies. *)
LEMMA KillWorkStep ==
    ASSUME IInv, NEW j \in Jobs, KillWork(j)
    PROVE  IInv'
<1>0. TypeOK /\ QueueOK /\ FencesOK /\ WorkerOK /\ FiniOK /\ TdrOK /\ HandsOK /\ BusyOK
      /\ CreditOK /\ OrderOK /\ InOrder /\ DepOK /\ DepsHonoured
  BY DEF IInv
<1> DEFINE W == Waiting({Fence("scheduled", j), Fence("finished", j)})
           r == [job[j] EXCEPT !.at = "killed", !.prev = None, !.left = {},
                               !.scheduled = TRUE, !.finished = TRUE]
<1>1. /\ job' = [job EXCEPT ![j] = r] /\ job[j].at = "kill"
      /\ job[j].prev # None => job[job[j].prev].finished
      /\ \A f \in job[j].deps : Signalled(f, job)
      /\ wk' = wk /\ tdr' = tdr /\ ext' = ext
  BY DEF KillWork
<1>2. job[j] \in JobRecord
  BY <1>0 DEF TypeOK
<1>3. /\ r \in JobRecord /\ r.at = "killed" /\ r.scheduled /\ r.finished
      /\ r.deps = job[j].deps /\ (r.late <=> job[j].late) /\ (r.cb <=> job[j].cb)
  BY <1>2 DEF JobRecord
<1>4. job' \in [Jobs -> JobRecord] /\ job'[j] = r /\ \A k \in Jobs \ {j} : job'[k] = job[k]
  BY <1>0, <1>1, <1>3, JobUpdate
<1> HIDE DEF r
<1>5. /\ ent' \in [Entities -> EntityRecord] /\ EntityLike(ent, ent')
      /\ \A e \in Entities : /\ ent'[e].idle <=> ent[e].idle
                             /\ ent'[e].dep = IF e \in W THEN None ELSE ent[e].dep
  BY <1>0, WokenContract DEF KillWork, TypeOK
<1>6. Like(sched, sched')
  BY <1>0, OutsideContract DEF KillWork, TypeOK
<1>7. ~job[j].scheduled /\ ~job[j].finished /\ ~job[j].cb
  BY <1>0, <1>1 DEF FencesOK
<1>8. TypeOK'
  BY <1>0, <1>1, <1>4, <1>5, <1>6 DEF TypeOK, Like
<1>9. QueueOK'
  BY <1>0, <1>1, <1>3, <1>4, <1>5, KeepsQueues
<1>10. FencesOK'
  BY <1>0, <1>1, <1>3, <1>4, <1>7 DEF FencesOK
<1>11. WorkerOK'
  BY <1>0, <1>1, <1>3, <1>4, <1>5, <1>6
     DEF WorkerOK, Popped, Holding, Like, EntityLike, TypeOK
<1>12. FiniOK'
  BY <1>0, <1>1, <1>5, <1>6 DEF FiniOK, Like, EntityLike
<1>13. TdrOK'
  <2>1. ~OnList(j)
    BY <1>0, <1>1 DEF HandsOK
  <2> QED
    BY <1>0, <1>1, <1>3, <1>4, <1>6, <1>7, <2>1, KeepsTdr DEF TdrOK
<1>14. HandsOK'
  BY <1>0, <1>1, <1>3, <1>4, <1>6, KeepsHands DEF InWorker
<1>15. BusyOK'
  BY <1>0, <1>1, <1>3, <1>4 DEF BusyOK, Stopped
<1>16. CreditOK'
  <2>1. Busy' = Busy
    BY <1>1, <1>3, <1>4 DEF Busy, InWorker
  <2> QED
    BY <1>0, <1>1, <1>6, <2>1 DEF CreditOK, Stopped, Like
<1>17. OrderOK'
  BY <1>0, <1>1, <1>3, <1>4, <1>5, KeepsOrder
<1>18. Forward
  BY <1>1, <1>3, <1>4 DEF Forward
<1>19. InOrder'
  <2>1. ASSUME j \in Later, ~job[j].late
        PROVE  job[Pred(j)].finished /\ job[Pred(j)].scheduled
    <3>1. job[j].prev = Pred(j) /\ Pred(j) \in Jobs
      BY <1>0, <1>1, <2>1, Laters DEF OrderOK
    <3> QED
      BY <1>0, <1>1, <3>1, NoneApart DEF FencesOK
  <2>2. \A k \in Jobs \ {j} : /\ job'[k].late <=> job[k].late
                              /\ job'[k].scheduled <=> job[k].scheduled
                              /\ job'[k].at = "killed" <=> job[k].at = "killed"
    BY <1>4
  <2>3. \A k \in {j} \cap Later : ~job'[k].late =>
               /\ job'[k].scheduled => job'[Pred(k)].scheduled
               /\ job'[k].at = "killed" => job'[Pred(k)].finished
    BY <1>3, <1>4, <2>1, Laters
  <2> QED
    BY <1>0, <1>18, <2>2, <2>3, KeepsInOrder
<1>20. DepOK' /\ DepsHonoured'
  <2>1. ASSUME NEW e \in W
        PROVE  e \in Entities /\ \E f \in Fences : f = ent[e].dep /\ Signalled(f, job)'
    <3>1. PICK f \in {Fence("scheduled", j), Fence("finished", j)} : f = ent[e].dep
      BY DEF Waiting
    <3>2. f \in Fences
      BY <3>1 DEF Fence, Fences
    <3>3. Signalled(f, job)'
      BY <1>3, <1>4, <3>1 DEF Fence, Signalled
    <3> QED
      BY <3>1, <3>2, <3>3 DEF Waiting
  <2>2. \A e \in Entities :
          /\ ent'[e].queue = ent[e].queue
          /\ \/ ent'[e].dep = ent[e].dep
             \/ \E f \in Fences : f = ent[e].dep /\ Signalled(f, job)'
    BY <1>5, <2>1 DEF EntityLike
  <2> QED
    BY <1>0, <1>1, <1>3, <1>4, <1>10, <1>18, <2>2, KeepsDeps
<1> QED
  BY <1>8, <1>9, <1>10, <1>11, <1>12, <1>13, <1>14, <1>15, <1>16, <1>17, <1>19, <1>20 DEF IInv

(* The queue is discarded as a whole while the run worker does not hold the *)
(* entity.                                                                  *)
LEMMA KillJobsStep ==
    ASSUME IInv, NEW a \in Entities, KillJobs(a)
    PROVE  IInv'
<1>0. TypeOK /\ QueueOK /\ FencesOK /\ WorkerOK /\ FiniOK /\ TdrOK /\ HandsOK /\ BusyOK
      /\ CreditOK /\ OrderOK /\ InOrder /\ DepOK /\ DepsHonoured
  BY DEF IInv
<1> DEFINE q == ent[a].queue
           At(j) == CHOOSE i \in DOMAIN q : q[i] = j
           Q == {j \in Jobs : j[1] = a /\ job[j].at = "queue"}
           own == IF ent[a].owner = "kill" THEN "killed" ELSE "gone"
           dep == IF ent[a].owner = "fini" THEN None ELSE ent[a].dep
           last == IF ent[a].owner = "fini" THEN None ELSE ent[a].last
           s == [ent[a] EXCEPT !.queue = <<>>, !.owner = own, !.dep = dep, !.last = last]
<1>1. /\ ent[a].owner \in {"kill", "fini"} /\ ent[a].idle
      /\ ent' = [ent EXCEPT ![a] = s]
      /\ sched' = sched /\ wk' = wk /\ tdr' = tdr /\ ext' = ext
  BY DEF KillJobs, KillIdle
<1>2. /\ ent[a] \in EntityRecord /\ q \in Seq(Jobs) /\ Len(q) \in Nat /\ DOMAIN q = 1..Len(q)
      /\ ent[a].n \in 0..MaxJobs /\ ent[a].n \in Nat /\ Gone(a) \in Int
      /\ Gone(a) + Len(q) = ent[a].n /\ Gone(a) >= 0
  BY <1>0, Places, JobPairs DEF TypeOK, Gone, QueueOK
<1>3. \A i \in DOMAIN q : q[i] = <<a, Gone(a) + i>> /\ q[i] \in Jobs
  BY <1>0, <1>2 DEF QueueOK
<1>4. ASSUME NEW j \in Jobs
      PROVE  j \in Q <=> \E i \in DOMAIN q : q[i] = j
  <2>1. j[1] = a => (job[j].at = "queue" <=> Gone(a) < j[2] /\ j[2] <= ent[a].n)
    BY <1>0 DEF QueueOK
  <2>2. ASSUME j \in Q
        PROVE  \E i \in DOMAIN q : q[i] = j
    <3>1. j[2] - Gone(a) \in DOMAIN q
      BY <1>2, <2>1, <2>2, JobPairs
    <3>2. Gone(a) + (j[2] - Gone(a)) = j[2]
      BY <1>2, JobPairs
    <3> QED
      BY <1>3, <2>2, <3>1, <3>2, JobPairs
  <2>3. ASSUME NEW i \in DOMAIN q, q[i] = j
        PROVE  j \in Q
    <3>1. j[1] = a /\ j[2] = Gone(a) + i
      BY <1>3, <2>3
    <3> QED
      BY <1>2, <2>1, <3>1
  <2> QED
    BY <2>2, <2>3
<1>5. \A j \in Q : At(j) \in DOMAIN q /\ q[At(j)] = j
  BY <1>4
<1>6. \A j \in Jobs : job'[j] = IF j \in Q THEN [job[j] EXCEPT !.at = "kill", !.prev = Prev(a, At(j))]
                                           ELSE job[j]
  BY <1>4 DEF KillJobs
<1>7. DOMAIN job' = Jobs /\ job' = [j \in Jobs |-> job'[j]]
  BY DEF KillJobs
<1> HIDE DEF At
<1>8. ASSUME NEW j \in Q
      PROVE  Prev(a, At(j)) \in Jobs \cup {None}
  BY <1>2, <1>3, <1>5 DEF Prev, EntityRecord
<1>9. ASSUME NEW j \in Q, j \in Later, ~job[j].late
      PROVE  Prev(a, At(j)) = Pred(j)
  <2>0. At(j) \in DOMAIN q /\ j = <<a, Gone(a) + At(j)>>
    BY <1>3, <1>5
  <2>1. j = <<a, Gone(a) + At(j)>> /\ j[2] = Gone(a) + At(j) /\ j[1] = a /\ At(j) \in 1..Len(q)
    BY <1>2, <2>0
  <2>2. CASE At(j) # 1
    <3>1. At(j) - 1 \in DOMAIN q
      BY <1>2, <2>1, <2>2
    <3>2. Gone(a) + (At(j) - 1) = j[2] - 1
      BY <1>2, <2>1
    <3> QED
      BY <1>3, <2>1, <2>2, <3>1, <3>2 DEF Prev, Pred
  <2>3. CASE At(j) = 1
    <3>1. Pred(j) = <<a, Gone(a)>> /\ Pred(j) \in Jobs /\ Pred(j)[1] = a /\ Pred(j)[2] = Gone(a)
      BY <1>2, <1>9, <2>1, <2>3, Laters DEF Pred
    <3>2. job[Pred(j)].at \notin {"kill", "killed"}
      BY <1>0, <1>9 DEF OrderOK
    <3>3. job[Pred(j)].at \notin {"new", "queue"}
      BY <1>0, <1>2, <3>1 DEF QueueOK
    <3>4. job[Pred(j)].at \in {"run", "freed"}
      BY <1>0, <3>1, <3>2, <3>3 DEF TypeOK, JobRecord
    <3>5. ent[a].last = Pred(j)
      BY <1>0, <1>1, <3>1, <3>4 DEF OrderOK
    <3> QED
      BY <2>3, <3>5 DEF Prev
  <2> QED
    BY <2>2, <2>3
<1>10. ASSUME NEW j \in Q
       PROVE  /\ job'[j] \in JobRecord /\ job'[j].at = "kill" /\ job'[j].prev = Prev(a, At(j))
              /\ job'[j].deps = job[j].deps /\ (job'[j].late <=> job[j].late)
              /\ (job'[j].scheduled <=> job[j].scheduled)
              /\ (job'[j].finished <=> job[j].finished) /\ (job'[j].cb <=> job[j].cb)
  <2> DEFINE p == Prev(a, At(j))
  <2>1. job[j] \in JobRecord /\ job'[j] = [job[j] EXCEPT !.at = "kill", !.prev = p]
    BY <1>0, <1>6 DEF TypeOK
  <2>2. p \in Jobs \cup {None}
    BY <1>8
  <2> HIDE DEF p
  <2> QED
    BY <2>1, <2>2 DEF JobRecord, p
<1>11. \A j \in Jobs \ Q : job'[j] = job[j]
  BY <1>6
<1>12. own \in {"killed", "gone"} /\ dep \in Fences \cup {None} /\ last \in Jobs \cup {None}
       /\ (ent[a].owner = "kill" => last = ent[a].last) /\ (own # "gone" => ent[a].owner = "kill")
  BY <1>1, <1>2 DEF EntityRecord
<1> HIDE DEF Q, own, dep, last
<1>13. /\ s \in EntityRecord /\ s.queue = <<>> /\ s.owner = own /\ s.last = last
       /\ s.n = ent[a].n /\ (s.stopped <=> ent[a].stopped)
  <2>1. <<>> \in Seq(Jobs)
    OBVIOUS
  <2> QED
    BY <1>2, <1>12, <2>1 DEF EntityRecord
<1>14. /\ ent' \in [Entities -> EntityRecord] /\ ent'[a] = s
       /\ \A e \in Entities \ {a} : ent'[e] = ent[e]
  BY <1>0, <1>1, <1>13, EntityUpdate
<1> HIDE DEF s
<1>15. job' \in [Jobs -> JobRecord]
  <2>1. \A j \in Jobs : job'[j] \in JobRecord
    BY <1>0, <1>10, <1>11 DEF TypeOK
  <2> QED
    BY <1>7, <2>1
<1>16. \A j \in Q : j \in Jobs /\ j[1] = a /\ job[j].at = "queue"
  BY DEF Q
<1>17. TypeOK'
  BY <1>0, <1>1, <1>14, <1>15 DEF TypeOK
<1>18. Gone(a)' = ent[a].n /\ \A e \in Entities \ {a} : Gone(e)' = Gone(e)
  <2>1. Len(<<>>) = 0
    OBVIOUS
  <2> QED
    BY <1>2, <1>13, <1>14, <2>1 DEF Gone
<1>19. QueueOK'
  <2>1. ASSUME NEW e \in Entities
        PROVE  (/\ Gone(e) >= 0
                /\ \A i \in 1..Len(ent[e].queue) : ent[e].queue[i] = <<e, Gone(e) + i>>
                /\ ent[e].owner = "gone" => ent[e].queue = <<>>)'
    BY <1>0, <1>2, <1>13, <1>14, <1>18 DEF QueueOK
  <2>2. ASSUME NEW k \in Jobs
        PROVE  (/\ job[k].at = "new" <=> k[2] > ent[k[1]].n
                /\ job[k].at = "queue" <=> Gone(k[1]) < k[2] /\ k[2] <= ent[k[1]].n)'
    <3>1. CASE k[1] = a
      <4>1. job'[k].at # "queue" /\ (job'[k].at = "new" <=> job[k].at = "new")
        BY <1>10, <1>11, <1>16, <3>1 DEF Q
      <4> QED
        BY <1>0, <1>2, <1>13, <1>14, <1>18, <3>1, <4>1, JobPairs DEF QueueOK
    <3>2. CASE k[1] # a
      BY <1>0, <1>11, <1>14, <1>16, <1>18, <3>2, JobPairs DEF QueueOK
    <3> QED
      BY <3>1, <3>2
  <2> QED
    BY <2>1, <2>2 DEF QueueOK
<1>20. FencesOK'
  BY <1>0, <1>1, <1>10, <1>11, <1>16 DEF FencesOK
<1>21. WorkerOK'
  <2>1. wk.e # a /\ wk.j \in Jobs /\ wk.pc \in Popped => wk.j \notin Q
    BY <1>0, <1>16 DEF WorkerOK
  <2>2. wk.e # a /\ (wk.e # None => wk.e \in Entities)
    BY <1>0, <1>1, NoneApart DEF WorkerOK, TypeOK
  <2> QED
    BY <1>0, <1>1, <1>11, <1>14, <2>1, <2>2 DEF WorkerOK, Popped, Holding
<1>22. FiniOK'
  BY <1>0, <1>1 DEF FiniOK
<1>23. Like(sched, sched')
  BY <1>0, <1>1, QueueingContract DEF TypeOK
<1>24. \A k \in Jobs : /\ job'[k].finished <=> job[k].finished
                       /\ job'[k].scheduled <=> job[k].scheduled
                       /\ job'[k].cb <=> job[k].cb
                       /\ job'[k].late <=> job[k].late
                       /\ job'[k].at = "run" <=> job[k].at = "run"
                       /\ job'[k].at = "killed" <=> job[k].at = "killed"
                       /\ job'[k].deps = job[k].deps
  BY <1>10, <1>11, <1>16
<1>25. TdrOK'
  BY <1>0, <1>1, <1>23, <1>24, KeepsTdr DEF TdrOK
<1>26. HandsOK'
  BY <1>0, <1>1, <1>23, <1>24, KeepsHands DEF InWorker
<1>27. BusyOK'
  BY <1>0, <1>1, <1>24 DEF BusyOK, Stopped
<1>28. CreditOK'
  <2>1. Busy' = Busy
    BY <1>1, <1>24 DEF Busy, InWorker
  <2> QED
    BY <1>0, <1>1, <2>1 DEF CreditOK, Stopped
<1>29. OrderOK'
  <2>0. (\A e \in Entities : Halted(ent[e]))' /\ ent[a].stopped
    BY <1>0, <1>1, <1>13, <1>14 DEF OrderOK, Halted
  <2>1. (\A k \in Jobs : job[k].at \in {"kill", "killed"} => ent[k[1]].stopped)'
    BY <1>0, <1>11, <1>13, <1>14, <1>16, <2>0, JobPairs DEF OrderOK
  <2>2. ASSUME NEW k \in Later, ~job'[k].late
        PROVE  /\ job'[k].at \notin {"new", "kill", "killed"} => job'[Pred(k)].at \notin {"kill", "killed"}
               /\ job'[k].at = "kill" => job'[k].prev = Pred(k)
    <3>0. k \in Jobs /\ Pred(k) \in Jobs /\ Pred(k)[1] = k[1] /\ Pred(k)[2] = k[2] - 1 /\ ~job[k].late
      BY <1>24, <2>2, Laters
    <3>1. CASE k \in Q
      BY <1>9, <1>10, <3>0, <3>1
    <3>2. CASE k \notin Q /\ Pred(k) \in Q
      <4>1. k[1] = a /\ Gone(a) < k[2] - 1
        BY <1>0, <1>16, <3>0, <3>2 DEF QueueOK
      <4>2. k[2] > ent[a].n
        BY <1>0, <1>2, <3>0, <3>2, <4>1, JobPairs DEF QueueOK, Q
      <4>3. job[k].at = "new"
        BY <1>0, <3>0, <4>1, <4>2 DEF QueueOK
      <4> QED
        BY <1>11, <3>0, <3>2, <4>3
    <3>3. CASE k \notin Q /\ Pred(k) \notin Q
      BY <1>0, <1>11, <3>0, <3>3 DEF OrderOK
    <3> QED
      BY <3>1, <3>2, <3>3
  <2>3. ASSUME NEW e \in Entities, NEW k \in Jobs, k = <<e, Gone(e)'>>,
               ent'[e].owner # "gone", job'[k].at \in {"run", "freed"}
        PROVE  ent'[e].last = k
    <3>0. k \notin Q /\ job[k].at \in {"run", "freed"}
      BY <1>10, <1>11, <2>3
    <3>1. CASE e = a
      <4>1. k[1] = a /\ k[2] = ent[a].n
        BY <1>18, <2>3, <3>1
      <4>2. Gone(a) = ent[a].n
        BY <1>0, <1>2, <3>0, <4>1 DEF QueueOK
      <4> QED
        BY <1>0, <1>1, <1>12, <1>13, <1>14, <1>18, <2>3, <3>0, <3>1, <4>2 DEF OrderOK
    <3>2. CASE e # a
      BY <1>0, <1>14, <1>18, <2>3, <3>0, <3>2 DEF OrderOK
    <3> QED
      BY <3>1, <3>2
  <2> QED
    BY <2>0, <2>1, <2>2, <2>3 DEF OrderOK
<1>30. Forward
  BY <1>1, <1>24 DEF Forward
<1>31. InOrder'
  BY <1>0, <1>24, <1>30, Laters DEF InOrder, Forward
<1>32. DepOK'
  <2> SUFFICES ASSUME NEW k \in Jobs, job'[k].at = "queue", NEW f \in job'[k].deps \ job'[k].left
               PROVE  Settled(k, f)' \/ (k = Head(ent'[k[1]].queue) /\ ent'[k[1]].dep \in Awaited(f))
    BY DEF DepOK, Awaited
  <2>1. k \notin Q /\ job'[k] = job[k] /\ f \in Fences
    BY <1>0, <1>10, <1>11 DEF TypeOK, JobRecord
  <2>2. k[1] # a /\ k[1] \in Entities
    BY <2>1, JobPairs DEF Q
  <2> QED
    BY <1>0, <1>14, <1>30, <2>1, <2>2, SettledForward DEF DepOK
<1>33. DepsHonoured'
  <2> SUFFICES ASSUME NEW k \in Jobs, NEW f \in job'[k].deps
               PROVE  /\ job'[k].at = "run" => Settled(k, f)'
                      /\ job'[k].at = "killed" => Signalled(f, job)'
    BY DEF DepsHonoured, Settled
  <2>1. f \in job[k].deps /\ f \in Fences
    BY <1>0, <1>24 DEF TypeOK, JobRecord
  <2> QED
    BY <1>0, <1>24, <1>30, <2>1, SettledForward, SignalledForward DEF DepsHonoured, Settled
<1> QED
  BY <1>17, <1>19, <1>20, <1>21, <1>22, <1>25, <1>26, <1>27, <1>28, <1>29, <1>31, <1>32, <1>33
     DEF IInv

-----------------------------------------------------------------------------
(* The pending list *)

(* The first job is taken off a list that holds no job twice; *)
LEMMA ListHead ==
    ASSUME NEW s \in Seq(Jobs), s # <<>>, IsInjective(s)
    PROVE  /\ Head(s) \in Jobs /\ Head(s) \in Range(s)
           /\ Tail(s) \in Seq(Jobs) /\ IsInjective(Tail(s))
           /\ Range(Tail(s)) = Range(s) \ {Head(s)}
<1>1. /\ Len(s) \in Nat /\ Len(s) > 0 /\ DOMAIN s = 1..Len(s) /\ Head(s) = s[1]
      /\ \A i \in 1..Len(s) : s[i] \in Jobs
  <2>1. Len(s) \in Nat /\ Len(s) # 0 /\ DOMAIN s = 1..Len(s)
    BY EmptySeq
  <2> QED
    BY <2>1
<1>2. /\ Tail(s) \in Seq(Jobs) /\ Len(Tail(s)) = Len(s) - 1 /\ DOMAIN Tail(s) = 1..(Len(s) - 1)
      /\ \A i \in 1..(Len(s) - 1) : Tail(s)[i] = s[i + 1]
  BY <1>1, HeadTailProperties
<1>3. \A i, k \in 1..Len(s) : s[i] = s[k] => i = k
  BY <1>1 DEF IsInjective
<1>4. IsInjective(Tail(s))
  BY <1>1, <1>2, <1>3 DEF IsInjective
<1>5. \A j : j \in Range(Tail(s)) => j \in Range(s) \ {Head(s)}
  BY <1>1, <1>2, <1>3 DEF Range
<1>6. ASSUME NEW j \in Range(s), j # Head(s)
      PROVE  j \in Range(Tail(s))
  <2>1. PICK i \in 1..Len(s) : j = s[i]
    BY <1>1 DEF Range
  <2>2. i - 1 \in 1..(Len(s) - 1) /\ (i - 1) + 1 = i
    BY <1>1, <1>6, <2>1
  <2> QED
    BY <1>2, <2>1, <2>2 DEF Range
<1>7. Head(s) \in Jobs /\ Head(s) \in Range(s)
  BY <1>1 DEF Range
<1>8. Range(Tail(s)) = Range(s) \ {Head(s)}
  BY <1>5, <1>6
<1> QED
  BY <1>2, <1>4, <1>7, <1>8

(* a job that is not on it is put at either end. *)
LEMMA ListAdd ==
    ASSUME NEW s \in Seq(Jobs), NEW j \in Jobs, j \notin Range(s), IsInjective(s)
    PROVE  /\ <<j>> \o s \in Seq(Jobs) /\ Append(s, j) \in Seq(Jobs)
           /\ IsInjective(<<j>> \o s) /\ IsInjective(Append(s, j))
           /\ Range(<<j>> \o s) = Range(s) \cup {j}
           /\ Range(Append(s, j)) = Range(s) \cup {j}
<1>1. /\ Len(s) \in Nat /\ DOMAIN s = 1..Len(s)
      /\ \A i \in 1..Len(s) : s[i] \in Jobs /\ s[i] # j
  BY DEF Range
<1>3. \A i, k \in 1..Len(s) : s[i] = s[k] => i = k
  BY <1>1 DEF IsInjective
<1> DEFINE c == <<j>> \o s
           d == Append(s, j)
<1>4. /\ c \in Seq(Jobs) /\ Len(c) = Len(s) + 1 /\ DOMAIN c = 1..(Len(s) + 1)
      /\ c[1] = j /\ \A i \in 2..(Len(s) + 1) : c[i] = s[i - 1]
  BY <1>1
<1>5. /\ d \in Seq(Jobs) /\ Len(d) = Len(s) + 1 /\ DOMAIN d = 1..(Len(s) + 1)
      /\ d[Len(s) + 1] = j /\ \A i \in 1..Len(s) : d[i] = s[i]
  BY <1>1
<1> HIDE DEF c, d
<1>6. IsInjective(c)
  <2> SUFFICES ASSUME NEW i \in 1..(Len(s) + 1), NEW k \in 1..(Len(s) + 1), c[i] = c[k]
               PROVE  i = k
    BY <1>4 DEF IsInjective
  <2>1. i # 1 => i \in 2..(Len(s) + 1) /\ i - 1 \in 1..Len(s)
    BY <1>1
  <2>2. k # 1 => k \in 2..(Len(s) + 1) /\ k - 1 \in 1..Len(s)
    BY <1>1
  <2> QED
    BY <1>1, <1>3, <1>4, <2>1, <2>2
<1>7. IsInjective(d)
  BY <1>1, <1>3, <1>5 DEF IsInjective
<1>8. ASSUME NEW x
      PROVE  x \in Range(c) <=> x \in Range(s) \cup {j}
  <2>1. ASSUME NEW i \in 1..(Len(s) + 1), x = c[i]
        PROVE  x \in Range(s) \cup {j}
    <3>1. i # 1 => i \in 2..(Len(s) + 1) /\ i - 1 \in 1..Len(s)
      BY <1>1
    <3> QED
      BY <1>1, <1>4, <2>1, <3>1 DEF Range
  <2>2. ASSUME NEW i \in 1..Len(s), x = s[i]
        PROVE  x \in Range(c)
    <3>1. i + 1 \in 2..(Len(s) + 1) /\ i + 1 \in 1..(Len(s) + 1) /\ (i + 1) - 1 = i
      BY <1>1
    <3> QED
      BY <1>4, <2>2, <3>1 DEF Range
  <2>3. j \in Range(c)
    BY <1>1, <1>4 DEF Range
  <2> QED
    BY <1>1, <1>4, <2>1, <2>2, <2>3 DEF Range
<1>9. ASSUME NEW x
      PROVE  x \in Range(d) <=> x \in Range(s) \cup {j}
  <2>1. ASSUME NEW i \in 1..(Len(s) + 1), x = d[i]
        PROVE  x \in Range(s) \cup {j}
    <3>1. i # Len(s) + 1 => i \in 1..Len(s)
      BY <1>1
    <3> QED
      BY <1>1, <1>5, <2>1, <3>1 DEF Range
  <2>2. ASSUME NEW i \in 1..Len(s), x = s[i]
        PROVE  x \in Range(d)
    <3>1. i \in 1..(Len(s) + 1)
      BY <1>1
    <3> QED
      BY <1>5, <2>2, <3>1 DEF Range
  <2>3. j \in Range(d)
    BY <1>1, <1>5 DEF Range
  <2> QED
    BY <1>1, <1>5, <2>1, <2>2, <2>3 DEF Range
<1> QED
  BY <1>4, <1>5, <1>6, <1>7, <1>8, <1>9 DEF c, d

-----------------------------------------------------------------------------
(* Steps that leave the queues alone *)

(* The job s is r, or r ended and perhaps freed. *)
Carried(r, s) ==
    /\ s.late <=> r.late
    /\ s.scheduled <=> r.scheduled
    /\ r.finished => s.finished
    /\ \/ s.at = r.at /\ s.prev = r.prev /\ s.deps = r.deps /\ s.left = r.left
       \/ r.at = "run" /\ s.at = "freed" /\ s.deps = {}

(* A step that only ends or frees jobs which left their queues keeps what   *)
(* is said of queues, order and dependencies.                               *)
LEMMA QueuesLeftAlone ==
    ASSUME TypeOK, QueueOK, OrderOK, InOrder, DepOK, DepsHonoured, FencesOK',
           EntityLike(ent, ent'), ext' = ext,
           \A k \in Jobs : Carried(job[k], job'[k]),
           \A e \in Entities : \/ ent'[e].dep = ent[e].dep
                               \/ \E f \in Fences : f = ent[e].dep /\ Signalled(f, job)'
    PROVE  QueueOK' /\ OrderOK' /\ InOrder' /\ DepOK' /\ DepsHonoured'
<1>1. Forward
  BY DEF Forward, Carried
<1>2. QueueOK'
  <2>1. \A k \in Jobs : \/ job'[k].at = job[k].at
                        \/ /\ job[k].at \notin {"new", "queue"}
                           /\ job'[k].at \notin {"new", "queue"}
    BY DEF Carried
  <2> QED
    BY <2>1, KeepsQueues
<1>3. OrderOK'
  <2>1. \A k \in Jobs : /\ job'[k].late <=> job[k].late
                        /\ \/ job'[k].at = job[k].at /\ job'[k].prev = job[k].prev
                           \/ job[k].at = "run" /\ job'[k].at = "freed"
                           \/ job[k].at = "kill" /\ job'[k].at = "killed"
    BY DEF Carried
  <2> QED
    BY <2>1, KeepsOrder
<1>4. InOrder'
  BY <1>1, Laters DEF InOrder, Forward, Carried
<1>5. DepOK' /\ DepsHonoured'
  <2>1. \A k \in Jobs : \/ job'[k].at = "freed" /\ job'[k].deps = {}
                        \/ /\ job'[k].at = job[k].at /\ job'[k].deps = job[k].deps
                           /\ job'[k].left = job[k].left
                        \/ /\ job'[k].at = "killed" /\ job'[k].deps = job[k].deps
                           /\ \A f \in job[k].deps : Signalled(f, job)
    BY DEF Carried
  <2>2. \A e \in Entities :
          /\ ent'[e].queue = ent[e].queue
          /\ \/ ent'[e].dep = ent[e].dep
             \/ \E f \in Fences : f = ent[e].dep /\ Signalled(f, job)'
    BY DEF EntityLike
  <2> QED
    BY <1>1, <2>1, <2>2, KeepsDeps
<1> QED
  BY <1>2, <1>3, <1>4, <1>5

(* No job and no entity moves: the workers, the lists, the end. *)
LEMMA JobsLeftAlone ==
    ASSUME IInv, FencesOK', job' = job, ent' = ent, ext' = ext
    PROVE  QueueOK' /\ OrderOK' /\ InOrder' /\ DepOK' /\ DepsHonoured'
<1>1. \A k \in Jobs : Carried(job[k], job'[k])
  BY DEF Carried
<1>2. EntityLike(ent, ent')
  BY DEF EntityLike
<1> QED
  BY <1>1, <1>2, QueuesLeftAlone DEF IInv

(* Those woken by a signalled fence wait for it no more. *)
LEMMA WokenDeps ==
    ASSUME NEW F, \A f \in F : f \in Fences /\ Signalled(f, job)',
           \A e \in Entities : ent'[e].dep = IF e \in Waiting(F) THEN None ELSE ent[e].dep
    PROVE  \A e \in Entities : \/ ent'[e].dep = ent[e].dep
                               \/ \E f \in Fences : f = ent[e].dep /\ Signalled(f, job)'
BY DEF Waiting

(* The finished fences of jobs that end. *)
LEMMA EndedFences ==
    ASSUME NEW S \in SUBSET Jobs, \A j \in S : job'[j].finished
    PROVE  \A f \in FinishedFences(S) : f \in Fences /\ Signalled(f, job)'
<1> SUFFICES ASSUME NEW j \in S
             PROVE  Fence("finished", j) \in Fences /\ Signalled(Fence("finished", j), job)'
  BY DEF FinishedFences
<1> QED
  BY DEF Fence, Fences, Signalled

-----------------------------------------------------------------------------
(* The end of the scheduler *)

(* The job before the last one *)
LEMMA LastBefore ==
    ASSUME NEW p \in Seq(Jobs), p # <<>>, IsInjective(p)
    PROVE  /\ Len(p) \in Nat \ {0} /\ p[Len(p)] \in Jobs /\ p[Len(p)] \in Range(p)
           /\ Before(p, p[Len(p)]) = IF Len(p) = 1 THEN None ELSE p[Len(p) - 1]
           /\ Before(p, p[Len(p)]) \in Jobs \cup {None}
<1> DEFINE l == Len(p)
           c == p[l]
<1>1. l \in Nat \ {0} /\ DOMAIN p = 1..l
  BY EmptySeq, LenProperties
<1>2. c \in Jobs /\ c \in Range(p)
  BY <1>1 DEF Range
<1>3. \A k \in DOMAIN p : p[k] = c => k = l
  BY <1>1 DEF IsInjective
<1>4. PICK n : n = CHOOSE k \in DOMAIN p : p[k] = c
  OBVIOUS
<1>a. n = l
  BY <1>1, <1>3, <1>4
<1>5. Before(p, c) = IF l = 1 THEN None ELSE p[l - 1]
  <2> HIDE DEF l, c
  <2>1. Before(p, c) = IF n = 1 THEN None ELSE p[n - 1]
    BY <1>2, <1>4 DEF Before
  <2> QED
    BY <1>a, <2>1
<1>6. l # 1 => p[l - 1] \in Jobs
  BY <1>1
<1> QED
  BY <1>1, <1>2, <1>5, <1>6

(* Only the flags of the scheduler change. *)
LEMMA FlagStep ==
    ASSUME IInv, sched' \in SchedRecord, sched'.credits = sched.credits,
           sched'.pending = sched.pending, sched'.guilty <=> sched.guilty, FiniOK',
           Stopped => sched'.paused /\ ~sched'.runq /\ ~sched'.freeq /\ sched'.late = {},
           sched.paused => sched'.paused,
           job' = job, ent' = ent, wk' = wk, tdr' = tdr, ext' = ext
    PROVE  IInv'
<1>0. TypeOK /\ FencesOK /\ WorkerOK /\ TdrOK /\ HandsOK /\ BusyOK /\ CreditOK
  BY DEF IInv
<1>1. TypeOK'
  BY <1>0 DEF TypeOK
<1>2. FencesOK'
  BY <1>0 DEF FencesOK
<1>3. WorkerOK'
  BY <1>0 DEF WorkerOK, Popped, Holding
<1>4. TdrOK'
  BY <1>0 DEF TdrOK, Stopped, OnList
<1>5. HandsOK'
  BY <1>0 DEF HandsOK, OnList, WithDriver, InWorker
<1>6. BusyOK'
  BY <1>0 DEF BusyOK, Stopped
<1>7. CreditOK'
  <2>1. Busy' = Busy
    BY DEF Busy, InWorker
  <2> QED
    BY <1>0, <2>1 DEF CreditOK, Stopped
<1> QED
  BY <1>1, <1>2, <1>3, <1>4, <1>5, <1>6, <1>7, JobsLeftAlone DEF IInv

(* drm_sched_fini begins when every entity is gone. *)
LEMMA FiniBeginStep ==
    ASSUME IInv, FiniBegin
    PROVE  IInv'
<1>0. TypeOK /\ TdrOK /\ FiniOK
  BY DEF IInv
<1>1. /\ sched \in SchedRecord /\ sched' = [sched EXCEPT !.fini = "stop", !.paused = TRUE]
      /\ \A e \in Entities : ent[e].owner = "gone"
      /\ job' = job /\ ent' = ent /\ wk' = wk /\ tdr' = tdr /\ ext' = ext
  BY <1>0 DEF FiniBegin, TypeOK
<1>2. /\ sched' \in SchedRecord /\ sched'.credits = sched.credits /\ sched'.fini = "stop"
      /\ sched'.pending = sched.pending /\ sched'.paused
      /\ (sched'.guilty <=> sched.guilty) /\ (sched'.runq <=> sched.runq)
      /\ (sched'.freeq <=> sched.freeq) /\ sched'.late = sched.late
  BY <1>1 DEF SchedRecord
<1>3. FiniOK'
  BY <1>1, <1>2 DEF FiniOK
<1>4. Stopped => ~sched.runq /\ ~sched.freeq /\ sched.late = {}
  BY <1>0 DEF TdrOK
<1> QED
  BY <1>1, <1>2, <1>3, <1>4, FlagStep

(* The work queue has stopped. *)
LEMMA FiniStopStep ==
    ASSUME IInv, FiniStop
    PROVE  IInv'
<1>0. TypeOK /\ TdrOK /\ FiniOK
  BY DEF IInv
<1>1. /\ sched \in SchedRecord /\ sched.fini = "stop" /\ wk.pc = "idle"
      /\ job' = job /\ ent' = ent /\ wk' = wk /\ tdr' = tdr /\ ext' = ext
  BY <1>0 DEF FiniStop, TypeOK
<1>a. PICK L \in SUBSET sched.late : sched' = [Cancelled(L, sched) EXCEPT !.fini = "timer"]
  BY DEF FiniStop
<1>2. /\ sched' \in SchedRecord /\ sched'.credits = sched.credits /\ sched'.fini = "timer"
      /\ sched'.pending = sched.pending /\ (sched'.paused <=> sched.paused)
      /\ (sched'.guilty <=> sched.guilty)
      /\ (sched'.runq <=> "run" \in L) /\ (sched'.freeq <=> "free" \in L)
      /\ sched'.late = {}
  <2> DEFINE r == ("run" \in L)
             f == ("free" \in L)
  <2>1. r \in BOOLEAN /\ f \in BOOLEAN /\ {} \in SUBSET {"run", "free"}
    OBVIOUS
  <2>2. sched' = [sched EXCEPT !.runq = r, !.freeq = f, !.late = {}, !.fini = "timer"]
    BY <1>a DEF Cancelled
  <2> HIDE DEF r, f
  <2>3. /\ sched' \in SchedRecord /\ sched'.credits = sched.credits /\ sched'.fini = "timer"
        /\ sched'.pending = sched.pending /\ (sched'.paused <=> sched.paused)
        /\ (sched'.guilty <=> sched.guilty) /\ (sched'.runq <=> r) /\ (sched'.freeq <=> f)
        /\ sched'.late = {}
    BY <1>1, <2>1, <2>2 DEF SchedRecord
  <2> QED
    BY <2>3 DEF r, f
<1>3. FiniOK'
  BY <1>0, <1>1, <1>2 DEF FiniOK
<1>4. Stopped => sched.paused /\ L = {}
  BY <1>0, <1>a DEF TdrOK
<1> QED
  BY <1>1, <1>2, <1>3, <1>4, FlagStep

(* The timer is cancelled, and the walk begins at the end of the list. *)
LEMMA FiniTimerStep ==
    ASSUME IInv, FiniTimer
    PROVE  /\ IInv'
           /\ sched'.fini \in {"cancel", "destroy", "leave"} /\ ~sched'.timer
           /\ (sched'.paused <=> sched.paused) /\ (sched'.runq <=> sched.runq)
           /\ (sched'.freeq <=> sched.freeq)
           /\ sched'.fini = "cancel" => sched.pending # <<>> /\ AtEnd'
<1>0. TypeOK /\ TdrOK /\ FiniOK /\ HandsOK
  BY DEF IInv
<1> DEFINE p == sched.pending
           c == p[Len(p)]
           b == Before(p, c)
<1>1. /\ sched \in SchedRecord /\ sched.fini = "timer"
      /\ job' = job /\ ent' = ent /\ wk' = wk /\ tdr' = tdr /\ ext' = ext
  BY <1>0 DEF FiniTimer, TypeOK
<1>2. /\ sched' \in SchedRecord /\ sched'.credits = sched.credits
      /\ sched'.fini \in {"cancel", "destroy", "leave"} /\ ~sched'.timer
      /\ sched'.pending = sched.pending /\ (sched'.paused <=> sched.paused)
      /\ (sched'.guilty <=> sched.guilty) /\ (sched'.runq <=> sched.runq)
      /\ (sched'.freeq <=> sched.freeq) /\ sched'.late = sched.late
      /\ sched'.fini = "cancel" => sched.pending # <<>> /\ AtEnd'
  <2>0. PICK cancel \in CancelJob :
          sched' = IF cancel /\ p # <<>>
                   THEN Walk([sched EXCEPT !.fini = "cancel", !.timer = FALSE])
                   ELSE [sched EXCEPT !.fini = IF cancel THEN "destroy" ELSE "leave",
                                      !.timer = FALSE]
    BY DEF FiniTimer
  <2>1. CASE cancel /\ p # <<>>
    <3>1. sched' = [sched EXCEPT !.fini = "cancel", !.timer = FALSE, !.cur = c, !.tmp = b]
      BY <1>1, <2>0, <2>1 DEF Walk, SchedRecord
    <3>2. /\ p \in Seq(Jobs) /\ c \in Jobs
          /\ b = IF Len(p) = 1 THEN None ELSE p[Len(p) - 1]
          /\ b \in Jobs \cup {None}
      BY <1>0, <1>1, <2>1, LastBefore DEF HandsOK, SchedRecord
    <3> HIDE DEF c, b
    <3>3. /\ sched' \in SchedRecord /\ sched'.credits = sched.credits
          /\ sched'.fini = "cancel" /\ ~sched'.timer
          /\ sched'.pending = sched.pending /\ (sched'.paused <=> sched.paused)
          /\ (sched'.guilty <=> sched.guilty) /\ (sched'.runq <=> sched.runq)
          /\ (sched'.freeq <=> sched.freeq) /\ sched'.late = sched.late
          /\ sched'.cur = c /\ sched'.tmp = b
      BY <1>1, <3>1, <3>2 DEF SchedRecord
    <3>4. AtEnd'
      BY <2>1, <3>2, <3>3 DEF AtEnd, c
    <3> QED
      BY <2>1, <3>3, <3>4
  <2>2. CASE ~(cancel /\ p # <<>>)
    <3> DEFINE f == IF cancel THEN "destroy" ELSE "leave"
    <3>1. sched' = [sched EXCEPT !.fini = f, !.timer = FALSE]
      BY <2>0, <2>2
    <3>2. f \in {"destroy", "leave"}
      OBVIOUS
    <3> HIDE DEF f
    <3> QED
      BY <1>1, <3>1, <3>2 DEF SchedRecord
  <2> QED
    BY <2>1, <2>2
<1>3. FiniOK'
  BY <1>0, <1>1, <1>2 DEF FiniOK
<1>4. Stopped => sched.paused /\ ~sched.runq /\ ~sched.freeq /\ sched.late = {}
  BY <1>0 DEF TdrOK
<1>5. IInv'
  BY <1>1, <1>2, <1>3, <1>4, FlagStep
<1> QED
  BY <1>2, <1>5

-----------------------------------------------------------------------------
(* The timeout worker *)

(* drm_sched_wqueue_stop begins. *)
LEMMA StopBeginStep ==
    ASSUME IInv, StopBegin
    PROVE  IInv'
<1>0. TypeOK /\ FencesOK /\ WorkerOK /\ FiniOK /\ TdrOK /\ HandsOK /\ BusyOK /\ CreditOK
  BY DEF IInv
<1>1. /\ sched \in SchedRecord /\ tdr.pc = "driver"
      /\ sched' = [sched EXCEPT !.paused = TRUE]
      /\ job' = job /\ ent' = ent /\ wk' = wk /\ ext' = ext
  BY <1>0 DEF StopBegin, TypeOK
<1>a. tdr' = [tdr EXCEPT !.pc = "stop"] /\ tdr.j \in Jobs \cup {None} /\ tdr'.pc = "stop" /\ tdr'.j = tdr.j
  BY <1>0 DEF StopBegin, TypeOK
<1>2. /\ sched' \in SchedRecord /\ sched'.credits = sched.credits /\ sched'.fini = sched.fini
      /\ sched'.pending = sched.pending /\ sched'.paused
      /\ (sched'.guilty <=> sched.guilty) /\ (sched'.runq <=> sched.runq)
      /\ (sched'.freeq <=> sched.freeq)
  BY <1>1 DEF SchedRecord
<1>3. TypeOK'
  BY <1>0, <1>1, <1>a, <1>2 DEF TypeOK
<1>4. FencesOK'
  BY <1>0, <1>1 DEF FencesOK
<1>5. WorkerOK'
  BY <1>0, <1>1, <1>2 DEF WorkerOK, Popped, Holding
<1>6. FiniOK'
  BY <1>0, <1>1, <1>2 DEF FiniOK
<1>7. TdrOK'
  BY <1>0, <1>1, <1>a, <1>2 DEF TdrOK, Stopped, OnList
<1>8. HandsOK'
  BY <1>0, <1>1, <1>a, <1>2 DEF HandsOK, OnList, WithDriver, InWorker
<1>b. ~Stopped /\ ~Stopped'
  BY <1>1, <1>a DEF Stopped
<1>9. BusyOK'
  BY <1>0, <1>1, <1>b DEF BusyOK
<1>10. CreditOK'
  <2>1. Busy' = Busy
    BY <1>1 DEF Busy, InWorker
  <2> QED
    BY <1>0, <1>1, <1>b, <1>2, <2>1 DEF CreditOK
<1> QED
  BY <1>1, <1>3, <1>4, <1>5, <1>6, <1>7, <1>8, <1>9, <1>10, JobsLeftAlone DEF IInv

(* The first job goes from the list to the timeout worker, *)
LEMMA TdrFireStep ==
    ASSUME IInv, TdrFire
    PROVE  IInv'
<1>0. TypeOK /\ FencesOK /\ WorkerOK /\ FiniOK /\ TdrOK /\ HandsOK /\ BusyOK /\ CreditOK
  BY DEF IInv
<1>1. /\ sched \in SchedRecord /\ tdr.pc = "idle" /\ ~sched.guilty
      /\ job' = job /\ ent' = ent /\ wk' = wk /\ ext' = ext
  BY <1>0 DEF TdrFire, TypeOK, TdrOK
<1>2. CASE sched.pending = <<>>
  <2>1. sched' = [sched EXCEPT !.timer = FALSE] /\ tdr' = tdr
    BY <1>2 DEF TdrFire
  <2>2. Like(sched, sched')
    BY <1>1, <2>1 DEF Like, SchedRecord
  <2>3. TypeOK'
    BY <1>0, <1>1, <2>1, <2>2 DEF TypeOK, Like
  <2> QED
    BY <1>1, <2>1, <2>2, <2>3, SteadyStep DEF EntityLike
<1>3. CASE sched.pending # <<>>
  <2> DEFINE h == Head(sched.pending)
             t == Tail(sched.pending)
  <2>0. /\ sched' = [sched EXCEPT !.timer = FALSE, !.pending = t]
        /\ tdr' = [pc |-> "driver", j |-> h]
    BY <1>3 DEF TdrFire
  <2>1. /\ h \in Jobs /\ h \in Range(sched.pending) /\ t \in Seq(Jobs) /\ IsInjective(t)
        /\ Range(t) = Range(sched.pending) \ {h}
    BY <1>0, <1>1, <1>3, ListHead DEF HandsOK, SchedRecord
  <2> HIDE DEF h, t
  <2>2. /\ sched' \in SchedRecord /\ sched'.credits = sched.credits /\ sched'.fini = sched.fini
        /\ sched'.pending = t /\ ~sched'.guilty
    BY <1>1, <2>0, <2>1 DEF SchedRecord
  <2>3. tdr'.pc = "driver" /\ tdr'.j = h
    BY <2>0
  <2>4. TypeOK'
    BY <1>0, <1>1, <2>0, <2>1, <2>2 DEF TypeOK
  <2>5. FencesOK'
    BY <1>0, <1>1 DEF FencesOK
  <2>6. WorkerOK'
    BY <1>0, <1>1, <2>2 DEF WorkerOK, Popped, Holding
  <2>7. FiniOK'
    BY <1>0, <1>1, <2>2 DEF FiniOK
  <2>8. ~Stopped /\ ~Stopped'
    BY <1>1, <2>3 DEF Stopped
  <2>9. TdrOK'
    BY <2>1, <2>2, <2>3, <2>8 DEF TdrOK
  <2>10. HandsOK'
    <3>1. \A k \in Jobs : OnList(k)' <=> OnList(k) /\ k # h
      BY <2>1, <2>2 DEF OnList
    <3>2. \A k \in Jobs : ~WithDriver(k) /\ (WithDriver(k)' <=> k = h)
      BY <1>1, <2>2, <2>3 DEF WithDriver
    <3>3. OnList(h) /\ \A k \in Jobs : InWorker(k)' <=> InWorker(k)
      BY <1>1, <2>1 DEF OnList, InWorker
    <3> QED
      BY <1>0, <1>1, <2>1, <2>2, <3>1, <3>2, <3>3 DEF HandsOK
  <2>11. BusyOK'
    BY <1>0, <1>1, <2>8 DEF BusyOK
  <2>12. CreditOK'
    <3>1. Busy' = Busy
      BY <1>1 DEF Busy, InWorker
    <3> QED
      BY <1>0, <1>1, <2>2, <2>8, <3>1 DEF CreditOK
  <2> QED
    BY <1>1, <2>4, <2>5, <2>6, <2>7, <2>9, <2>10, <2>11, <2>12, JobsLeftAlone DEF IInv
<1> QED
  BY <1>2, <1>3

(* and back. *)
LEMMA NoHangStep ==
    ASSUME IInv, NoHang
    PROVE  IInv'
<1>0. TypeOK /\ FencesOK /\ WorkerOK /\ FiniOK /\ TdrOK /\ HandsOK /\ BusyOK /\ CreditOK
  BY DEF IInv
<1> DEFINE h == tdr.j
           t == <<h>> \o sched.pending
           s == [sched EXCEPT !.pending = t]
<1>1. /\ sched \in SchedRecord /\ tdr.pc = "driver" /\ ~sched.guilty /\ h \in Jobs
      /\ sched' = drm_sched_start_timeout(drm_sched_run_free_queue(s))
      /\ tdr' = IdleTdr
      /\ job' = job /\ ent' = ent /\ wk' = wk /\ ext' = ext
  BY <1>0 DEF NoHang, TypeOK, TdrOK
<1>2. WithDriver(h) /\ ~OnList(h)
  BY <1>0, <1>1 DEF HandsOK, WithDriver
<1>3. t \in Seq(Jobs) /\ IsInjective(t) /\ Range(t) = Range(sched.pending) \cup {h}
  BY <1>0, <1>1, <1>2, ListAdd DEF HandsOK, OnList, SchedRecord
<1> HIDE DEF t
<1>4. /\ s \in SchedRecord /\ s.credits = sched.credits /\ s.fini = sched.fini
      /\ s.pending = t /\ ~s.guilty
  BY <1>1, <1>3 DEF SchedRecord
<1> HIDE DEF s, h
<1>5. Like(s, sched')
  <2>1. Like(s, drm_sched_run_free_queue(s))
    BY <1>4, QueueingContract
  <2>2. drm_sched_run_free_queue(s) \in SchedRecord
    BY <2>1 DEF Like
  <2>3. Like(drm_sched_run_free_queue(s), sched')
    BY <1>1, <2>2, QueueingContract
  <2> QED
    BY <2>1, <2>3, LikeTrans
<1>6. /\ sched' \in SchedRecord /\ sched'.credits = sched.credits /\ sched'.fini = sched.fini
      /\ sched'.pending = t /\ ~sched'.guilty
  BY <1>4, <1>5 DEF Like
<1>7. tdr'.pc = "idle" /\ tdr'.j = None
  BY <1>1 DEF IdleTdr
<1>8. TypeOK'
  BY <1>0, <1>1, <1>6 DEF TypeOK, IdleTdr
<1>9. FencesOK'
  BY <1>0, <1>1 DEF FencesOK
<1>10. WorkerOK'
  BY <1>0, <1>1, <1>6 DEF WorkerOK, Popped, Holding
<1>11. FiniOK'
  BY <1>0, <1>1, <1>6 DEF FiniOK
<1>12. ~Stopped /\ ~Stopped'
  BY <1>1, <1>7 DEF Stopped
<1>13. TdrOK'
  BY <1>6, <1>7, <1>12 DEF TdrOK
<1>14. HandsOK'
  <2>1. \A k \in Jobs : OnList(k)' <=> OnList(k) \/ k = h
    BY <1>3, <1>6 DEF OnList
  <2>2. \A k \in Jobs : ~WithDriver(k)' /\ (WithDriver(k) <=> k = h)
    BY <1>1, <1>6, <1>7, NoneApart DEF WithDriver, h
  <2>3. \A k \in Jobs : InWorker(k)' <=> InWorker(k)
    BY <1>1 DEF InWorker
  <2> QED
    BY <1>0, <1>1, <1>3, <1>6, <2>1, <2>2, <2>3 DEF HandsOK
<1>15. BusyOK'
  BY <1>0, <1>1, <1>12 DEF BusyOK
<1>16. CreditOK'
  <2>1. Busy' = Busy
    BY <1>1 DEF Busy, InWorker
  <2> QED
    BY <1>0, <1>1, <1>6, <1>12, <2>1 DEF CreditOK
<1> QED
  BY <1>1, <1>8, <1>9, <1>10, <1>11, <1>13, <1>14, <1>15, <1>16, JobsLeftAlone DEF IInv

-----------------------------------------------------------------------------
(* The run worker and the free worker *)

(* The free worker starts. *)
LEMMA FreeStartStep ==
    ASSUME IInv, FreeStart
    PROVE  IInv'
<1>0. TypeOK /\ FencesOK /\ WorkerOK /\ FiniOK /\ TdrOK /\ HandsOK /\ BusyOK /\ CreditOK
  BY DEF IInv
<1>1. /\ sched \in SchedRecord /\ wk.pc = "idle" /\ sched.freeq
      /\ sched' = [sched EXCEPT !.freeq = FALSE, !.late = @ \ {"free"}]
      /\ job' = job /\ ent' = ent /\ tdr' = tdr /\ ext' = ext
  BY <1>0 DEF FreeStart, TypeOK
<1>2. wk' = [pc |-> "free", e |-> None, j |-> None] /\ wk'.pc = "free" /\ wk'.e = None /\ wk'.j = None
  BY DEF FreeStart, IdleWork
<1>3. /\ sched' \in SchedRecord /\ sched'.credits = sched.credits /\ sched'.fini = sched.fini
      /\ sched'.pending = sched.pending /\ (sched'.guilty <=> sched.guilty)
      /\ (sched'.paused <=> sched.paused)
  BY <1>1 DEF SchedRecord
<1>4. wk.j = None /\ wk.e = None
  BY <1>0, <1>1 DEF WorkerOK, Holding
<1>5. TypeOK'
  BY <1>0, <1>1, <1>2, <1>3 DEF TypeOK
<1>6. FencesOK'
  BY <1>0, <1>1, <1>2, <1>4, NoneApart DEF FencesOK
<1>7. WorkerOK'
  BY <1>2 DEF WorkerOK, Popped, Holding
<1>8. FiniOK'
  BY <1>0, <1>1, <1>2, <1>3 DEF FiniOK
<1>9. ~Stopped /\ ~Stopped'
  BY <1>0, <1>1 DEF TdrOK, Stopped
<1>10. TdrOK'
  BY <1>0, <1>1, <1>3, <1>9 DEF TdrOK
<1>11. \A k \in Jobs : ~InWorker(k) /\ ~InWorker(k)'
  BY <1>1, <1>2 DEF InWorker
<1>12. HandsOK'
  BY <1>0, <1>1, <1>3, <1>11 DEF HandsOK, OnList, WithDriver
<1>13. BusyOK'
  BY <1>0, <1>1, <1>2, <1>9 DEF BusyOK, Popped
<1>14. CreditOK'
  <2>1. Busy' = Busy
    BY <1>1, <1>11 DEF Busy
  <2> QED
    BY <1>0, <1>3, <1>9, <2>1 DEF CreditOK
<1> QED
  BY <1>1, <1>5, <1>6, <1>7, <1>8, <1>10, <1>12, <1>13, <1>14, JobsLeftAlone DEF IInv

(* The first job of a queue *)
LEMMA QueueHead ==
    ASSUME TypeOK, QueueOK, NEW e \in Entities, ent[e].queue # <<>>
    PROVE  LET h == Head(ent[e].queue) IN
           /\ h \in Jobs /\ h[1] = e /\ h[2] = Gone(e) + 1 /\ h = <<e, Gone(e) + 1>>
           /\ job[h].at = "queue" /\ ent[e].owner # "gone"
           /\ Len(ent[e].queue) \in Nat /\ Len(ent[e].queue) > 0
<1> DEFINE q == ent[e].queue
           h == Head(q)
<1>1. q \in Seq(Jobs) /\ Len(q) \in Nat /\ Gone(e) \in Int /\ ent[e].n \in 0..MaxJobs
  BY Places
<1>2. Len(q) \in Nat \ {0}
  BY <1>1, EmptySeq
<1>3. h = q[1] /\ h \in Jobs
  BY <1>1, <1>2
<1>4. h = <<e, Gone(e) + 1>>
  BY <1>1, <1>2, <1>3 DEF QueueOK
<1>5. h[1] = e /\ h[2] = Gone(e) + 1
  BY <1>4
<1>6. Gone(e) < h[2] /\ h[2] <= ent[e].n
  BY <1>1, <1>2, <1>5, JobPairs DEF Gone
<1>7. job[h].at = "queue"
  BY <1>3, <1>5, <1>6 DEF QueueOK
<1> QED
  BY <1>1, <1>2, <1>3, <1>4, <1>5, <1>7 DEF QueueOK

(* The run worker takes an entity whose first job fits into the free        *)
(* credits.                                                                 *)
LEMMA SelectStep ==
    ASSUME IInv, Select
    PROVE  IInv'
<1>0. TypeOK /\ QueueOK /\ FencesOK /\ WorkerOK /\ FiniOK /\ TdrOK /\ HandsOK /\ BusyOK
      /\ CreditOK /\ OrderOK /\ InOrder /\ DepOK /\ DepsHonoured
  BY DEF IInv
<1>1. /\ sched \in SchedRecord /\ wk.pc = "idle" /\ sched.runq
      /\ sched' = [sched EXCEPT !.runq = FALSE, !.late = @ \ {"run"}]
      /\ job' = job /\ tdr' = tdr /\ ext' = ext
  BY <1>0 DEF Select, TypeOK
<1>2. /\ sched' \in SchedRecord /\ sched'.credits = sched.credits /\ sched'.fini = sched.fini
      /\ sched'.pending = sched.pending /\ (sched'.guilty <=> sched.guilty)
      /\ (sched'.paused <=> sched.paused)
  BY <1>1 DEF SchedRecord
<1>3. ~Stopped /\ ~Stopped'
  BY <1>0, <1>1 DEF TdrOK, Stopped
<1>4. CASE ent' = ent /\ wk' = wk
  <2>1. FiniOK'
    BY <1>0, <1>2, <1>4 DEF FiniOK
  <2> QED
    BY <1>1, <1>2, <1>3, <1>4, <2>1, FlagStep
<1>5. CASE \E e \in Entities : /\ ent[e].tree /\ drm_sched_entity_is_ready(e)
                               /\ drm_sched_can_queue(e)
                               /\ ent' = [ent EXCEPT ![e].idle = FALSE]
                               /\ wk' = [pc |-> "pop", e |-> e, j |-> Head(ent[e].queue)]
  <2> PICK a \in Entities : /\ drm_sched_entity_is_ready(a)
                            /\ drm_sched_can_queue(a)
                            /\ ent' = [ent EXCEPT ![a].idle = FALSE]
                            /\ wk' = [pc |-> "pop", e |-> a, j |-> Head(ent[a].queue)]
    BY <1>5
  <2> DEFINE h == Head(ent[a].queue)
             s == [ent[a] EXCEPT !.idle = FALSE]
  <2>1. /\ wk'.pc = "pop" /\ wk'.e = a /\ wk'.j = h
        /\ ent[a].queue # <<>> /\ ent[a].dep = None
        /\ sched.credits + Cost(h) <= CreditLimit
    BY DEF drm_sched_entity_is_ready, drm_sched_can_queue
  <2>2. h \in Jobs /\ h[1] = a /\ job[h].at = "queue" /\ ent[a].owner # "gone"
    BY <1>0, <2>1, QueueHead
  <2>3. ent[a] \in EntityRecord /\ ent' = [ent EXCEPT ![a] = s]
    BY <1>0 DEF TypeOK
  <2>4. s \in EntityRecord /\ Same([ent[a] EXCEPT !.idle = FALSE], s) /\ ~s.idle
        /\ s.queue = ent[a].queue /\ s.n = ent[a].n /\ s.last = ent[a].last /\ s.dep = ent[a].dep
        /\ s.owner = ent[a].owner /\ (s.stopped <=> ent[a].stopped)
    BY <2>3 DEF EntityRecord, Same
  <2> HIDE DEF s, h
  <2>5. /\ ent' \in [Entities -> EntityRecord] /\ ent'[a] = s
        /\ \A e \in Entities \ {a} : ent'[e] = ent[e]
    BY <1>0, <2>3, <2>4, EntityUpdate
  <2>6. EntityLike(ent, ent') /\ \A e \in Entities : ent'[e].dep = ent[e].dep
    BY <2>4, <2>5 DEF EntityLike, Halted
  <2>7. TypeOK'
    BY <1>0, <1>1, <1>2, <2>2, <2>5 DEF TypeOK, h
  <2>8. wk.j = None /\ wk.e = None
    BY <1>0, <1>1 DEF WorkerOK, Holding
  <2>9. FencesOK'
    BY <1>0, <1>1, <2>8, NoneApart DEF FencesOK
  <2>10. WorkerOK'
    BY <1>2, <2>1, <2>2, <2>4, <2>5, NoneApart DEF WorkerOK, Popped, Holding, h
  <2>11. FiniOK'
    BY <1>0, <1>2, <2>2 DEF FiniOK
  <2>12. TdrOK'
    BY <1>0, <1>1, <1>2, <1>3 DEF TdrOK
  <2>13. \A k \in Jobs : ~InWorker(k) /\ ~InWorker(k)'
    BY <1>1, <2>1 DEF InWorker
  <2>14. HandsOK'
    BY <1>0, <1>1, <1>2, <2>13 DEF HandsOK, OnList, WithDriver
  <2>15. BusyOK'
    BY <1>0, <1>1, <1>3 DEF BusyOK, Popped
  <2>16. CreditOK'
    <3>1. Busy' = Busy
      BY <1>1, <2>13 DEF Busy
    <3> QED
      BY <1>0, <1>2, <1>3, <3>1 DEF CreditOK
  <2>17. \A k \in Jobs : Carried(job[k], job'[k])
    BY <1>1 DEF Carried
  <2>18. QueueOK' /\ OrderOK' /\ InOrder' /\ DepOK' /\ DepsHonoured'
    BY <1>0, <1>1, <2>6, <2>9, <2>17, QueuesLeftAlone
  <2> QED
    BY <2>7, <2>9, <2>10, <2>11, <2>12, <2>14, <2>15, <2>16, <2>18 DEF IInv
<1> QED
  BY <1>4, <1>5 DEF Select

(* The entity is put back into the run queue or not; the job stays in hand. *)
LEMMA PopEntityStep ==
    ASSUME IInv, PopEntity
    PROVE  IInv'
<1>0. TypeOK /\ QueueOK /\ FencesOK /\ WorkerOK /\ FiniOK /\ TdrOK /\ HandsOK /\ BusyOK
      /\ CreditOK /\ OrderOK /\ InOrder /\ DepOK /\ DepsHonoured
  BY DEF IInv
<1> DEFINE a == wk.e
           b == (ent[a].queue # <<>>)
           s == [ent[a] EXCEPT !.tree = b]
<1>1. /\ wk.pc = "requeue" /\ ent' = [ent EXCEPT ![a] = s]
      /\ sched' = sched /\ job' = job /\ tdr' = tdr /\ ext' = ext
      /\ wk' = [wk EXCEPT !.pc = "begin"]
  BY DEF PopEntity
<1>2. a \in Entities /\ ent[a] \in EntityRecord /\ b \in BOOLEAN
  BY <1>0, <1>1 DEF WorkerOK, Holding, TypeOK
<1>3. wk'.pc = "begin" /\ wk'.e = wk.e /\ wk'.j = wk.j
      /\ wk' \in [pc: {"idle", "pop", "requeue", "begin", "run", "callback", "free"},
                  e: Entities \cup {None}, j: Jobs \cup {None}]
  BY <1>0, <1>1 DEF TypeOK
<1> HIDE DEF b
<1>4. s \in EntityRecord /\ Same(ent[a], s)
  BY <1>2 DEF EntityRecord, Same, Halted
<1> HIDE DEF s
<1>5. /\ ent' \in [Entities -> EntityRecord] /\ ent'[a] = s
      /\ \A e \in Entities \ {a} : ent'[e] = ent[e]
  BY <1>0, <1>1, <1>2, <1>4, EntityUpdate
<1>6. EntityLike(ent, ent') /\ \A e \in Entities : ent'[e].dep = ent[e].dep /\ (ent'[e].idle <=> ent[e].idle)
  BY <1>4, <1>5 DEF EntityLike, Same
<1>7. TypeOK'
  BY <1>0, <1>1, <1>3, <1>5 DEF TypeOK
<1>8. FencesOK'
  BY <1>0, <1>1, <1>3 DEF FencesOK
<1>9. WorkerOK'
  BY <1>0, <1>1, <1>2, <1>3, <1>6 DEF WorkerOK, Popped, Holding, EntityLike
<1>10. FiniOK'
  BY <1>0, <1>1, <1>3, <1>6 DEF FiniOK, EntityLike
<1>11. ~Stopped /\ ~Stopped'
  BY <1>0, <1>1 DEF TdrOK, Stopped
<1>12. TdrOK'
  BY <1>0, <1>1, <1>11 DEF TdrOK
<1>13. \A k \in Jobs : InWorker(k)' <=> InWorker(k)
  BY <1>1, <1>3 DEF InWorker
<1>14. HandsOK'
  BY <1>0, <1>1, <1>13 DEF HandsOK, OnList, WithDriver
<1>15. BusyOK'
  BY <1>0, <1>1, <1>3, <1>11 DEF BusyOK, Popped
<1>16. CreditOK'
  <2>1. Busy' = Busy
    BY <1>1, <1>13 DEF Busy
  <2> QED
    BY <1>0, <1>1, <1>11, <2>1 DEF CreditOK
<1>17. \A k \in Jobs : Carried(job[k], job'[k])
  BY <1>1 DEF Carried
<1>18. QueueOK' /\ OrderOK' /\ InOrder' /\ DepOK' /\ DepsHonoured'
  BY <1>0, <1>1, <1>6, <1>8, <1>17, QueuesLeftAlone
<1> QED
  BY <1>7, <1>8, <1>9, <1>10, <1>12, <1>14, <1>15, <1>16, <1>18 DEF IInv

(* The job goes from the run worker to the list and takes its credits. *)
LEMMA JobBeginStep ==
    ASSUME IInv, JobBegin
    PROVE  IInv'
<1>0. TypeOK /\ FencesOK /\ WorkerOK /\ FiniOK /\ TdrOK /\ HandsOK /\ BusyOK /\ CreditOK
  BY DEF IInv
<1> DEFINE h == wk.j
           t == Append(sched.pending, h)
           c == sched.credits + Cost(h)
           s == [sched EXCEPT !.credits = c, !.pending = t]
<1>1. /\ wk.pc = "begin" /\ sched' = drm_sched_start_timeout(s)
      /\ job' = job /\ ent' = ent /\ tdr' = tdr /\ ext' = ext
      /\ wk' = [wk EXCEPT !.pc = "run"]
  BY DEF JobBegin
<1>2. /\ sched \in SchedRecord /\ h \in Jobs /\ job[h].at = "run" /\ ~job[h].finished
      /\ InWorker(h) /\ ~OnList(h) /\ ~WithDriver(h)
  BY <1>0, <1>1 DEF WorkerOK, Popped, TypeOK, HandsOK, InWorker
<1>3. t \in Seq(Jobs) /\ IsInjective(t) /\ Range(t) = Range(sched.pending) \cup {h}
  BY <1>0, <1>2, ListAdd DEF HandsOK, OnList, SchedRecord
<1>4. c \in Nat /\ Cost(h) \in Nat /\ sched.credits \in Nat
  BY <1>2, CostRange, SchedAssumption DEF SchedRecord
<1>5. wk'.pc = "run" /\ wk'.e = wk.e /\ wk'.j = h
      /\ wk' \in [pc: {"idle", "pop", "requeue", "begin", "run", "callback", "free"},
                  e: Entities \cup {None}, j: Jobs \cup {None}]
  BY <1>0, <1>1 DEF TypeOK
<1> HIDE DEF t, c
<1>6. /\ s \in SchedRecord /\ s.credits = c /\ s.fini = sched.fini
      /\ s.pending = t /\ (s.guilty <=> sched.guilty) /\ (s.paused <=> sched.paused)
  BY <1>2, <1>3, <1>4 DEF SchedRecord
<1> HIDE DEF s, h
<1>7. /\ sched' \in SchedRecord /\ sched'.credits = c /\ sched'.fini = sched.fini
      /\ sched'.pending = t /\ (sched'.guilty <=> sched.guilty) /\ (sched'.paused <=> sched.paused)
  BY <1>1, <1>6, QueueingContract DEF Like
<1>8. TypeOK'
  BY <1>0, <1>1, <1>5, <1>7 DEF TypeOK
<1>9. FencesOK'
  BY <1>0, <1>1, <1>5 DEF FencesOK, h
<1>10. WorkerOK'
  BY <1>0, <1>1, <1>2, <1>5 DEF WorkerOK, Popped, Holding, h
<1>11. FiniOK'
  BY <1>0, <1>1, <1>5, <1>7 DEF FiniOK
<1>12. ~Stopped /\ ~Stopped'
  BY <1>0, <1>1 DEF TdrOK, Stopped
<1>13. TdrOK'
  BY <1>0, <1>1, <1>7, <1>12 DEF TdrOK
<1>14. \A k \in Jobs : (InWorker(k) <=> k = h) /\ ~InWorker(k)'
  BY <1>1, <1>5 DEF InWorker, h
<1>15. HandsOK'
  <2>1. \A k \in Jobs : OnList(k)' <=> OnList(k) \/ k = h
    BY <1>3, <1>7 DEF OnList
  <2>2. \A k \in Jobs : WithDriver(k)' <=> WithDriver(k)
    BY <1>1, <1>7 DEF WithDriver
  <2> QED
    BY <1>0, <1>1, <1>2, <1>3, <1>7, <1>14, <2>1, <2>2 DEF HandsOK
<1>16. BusyOK'
  BY <1>0, <1>1, <1>5, <1>12 DEF BusyOK, Popped, h
<1>17. CreditOK'
  <2>1. Busy' = Busy \cup {h} /\ Busy \cap {h} = {} /\ Busy \in SUBSET Jobs
    BY <1>1, <1>2, <1>14 DEF Busy
  <2>2. CostOf(Busy \cup {h}) = CostOf(Busy) + CostOf({h})
    BY <1>2, <2>1, CostOfParts
  <2>3. CostOf({h}) = Cost(h)
    BY <1>2, CostOfOne
  <2> QED
    BY <1>0, <1>7, <1>12, <2>1, <2>2, <2>3 DEF CreditOK, c
<1> QED
  BY <1>1, <1>8, <1>9, <1>10, <1>11, <1>13, <1>15, <1>16, <1>17, JobsLeftAlone DEF IInv

(* A dependency is taken off: it is settled, or the entity is given up      *)
(* until it is.                                                             *)
LEMMA PopDependencyStep ==
    ASSUME IInv, PopDependency
    PROVE  IInv'
<1>0. TypeOK /\ QueueOK /\ FencesOK /\ WorkerOK /\ FiniOK /\ TdrOK /\ HandsOK /\ BusyOK
      /\ CreditOK /\ OrderOK /\ InOrder /\ DepOK /\ DepsHonoured
  BY DEF IInv
<1> DEFINE a == wk.e
           h == wk.j
<1>1. wk.pc = "pop" /\ tdr' = tdr /\ ext' = ext
  BY DEF PopDependency
<1>2. /\ a \in Entities /\ h = Head(ent[a].queue) /\ ent[a].queue # <<>> /\ ent[a].dep = None
      /\ ent[a] \in EntityRecord
  BY <1>0, <1>1 DEF WorkerOK, Holding, TypeOK
<1>3. h \in Jobs /\ h[1] = a /\ job[h].at = "queue"
  BY <1>0, <1>2, QueueHead
<1>4. PICK f \in job[h].left : \E d \in Awaited(f) :
         /\ job' = [job EXCEPT ![h].left = @ \ {f}]
         /\ IF Own(a, f) \/ Signalled(d, job)
            THEN UNCHANGED <<ent, sched, wk>>
            ELSE /\ ent' = [ent EXCEPT ![a].dep = d, ![a].idle = TRUE]
                 /\ sched' = drm_sched_run_job_queue(sched)
                 /\ wk' = IdleWork
  BY DEF PopDependency
<1>5. PICK d \in Awaited(f) :
         /\ job' = [job EXCEPT ![h].left = @ \ {f}]
         /\ IF Own(a, f) \/ Signalled(d, job)
            THEN UNCHANGED <<ent, sched, wk>>
            ELSE /\ ent' = [ent EXCEPT ![a].dep = d, ![a].idle = TRUE]
                 /\ sched' = drm_sched_run_job_queue(sched)
                 /\ wk' = IdleWork
  BY <1>4
<1> DEFINE r == [job[h] EXCEPT !.left = job[h].left \ {f}]
<1>6. job[h] \in JobRecord /\ job' = [job EXCEPT ![h] = r] /\ f \in Fences
  BY <1>0, <1>3, <1>4, <1>5 DEF TypeOK, JobRecord
<1>7. d \in Fences
  BY <1>5, <1>6 DEF Awaited, Fence, Fences
<1>8. /\ r \in JobRecord /\ r.at = job[h].at /\ r.left = job[h].left \ {f} /\ r.deps = job[h].deps
      /\ r.prev = job[h].prev /\ (r.late <=> job[h].late) /\ (r.scheduled <=> job[h].scheduled)
      /\ (r.finished <=> job[h].finished) /\ (r.cb <=> job[h].cb)
  BY <1>6 DEF JobRecord
<1>9. job' \in [Jobs -> JobRecord] /\ job'[h] = r /\ \A k \in Jobs \ {h} : job'[k] = job[k]
  BY <1>0, <1>3, <1>6, <1>8, JobUpdate
<1> HIDE DEF r
<1>10. \A k \in Jobs : /\ job'[k].at = job[k].at /\ job'[k].deps = job[k].deps
                       /\ job'[k].prev = job[k].prev
                       /\ job'[k].late <=> job[k].late
                       /\ job'[k].scheduled <=> job[k].scheduled
                       /\ job'[k].finished <=> job[k].finished
                       /\ job'[k].cb <=> job[k].cb
  BY <1>8, <1>9
<1>11. Forward
  BY <1>1, <1>10 DEF Forward
(* what the two outcomes have in common *)
<1>12. /\ ent' \in [Entities -> EntityRecord] /\ EntityLike(ent, ent')
       /\ Like(sched, sched')
       /\ \A e \in Entities \ {a} : ent'[e] = ent[e]
       /\ \/ wk' = wk /\ ent' = ent /\ (Own(a, f) \/ Signalled(d, job))
          \/ wk' = IdleWork /\ ent'[a].dep = d
  <2>1. CASE Own(a, f) \/ Signalled(d, job)
    <3>1. ent' = ent /\ sched' = sched /\ wk' = wk
      BY <1>5, <2>1
    <3>2. EntityLike(ent, ent')
      BY <3>1 DEF EntityLike
    <3> QED
      BY <1>0, <2>1, <3>1, <3>2, QueueingContract DEF TypeOK
  <2>2. CASE ~(Own(a, f) \/ Signalled(d, job))
    <3> DEFINE s == [ent[a] EXCEPT !.dep = d, !.idle = TRUE]
    <3>1. /\ ent' = [ent EXCEPT ![a] = s] /\ sched' = drm_sched_run_job_queue(sched)
          /\ wk' = IdleWork
      BY <1>5, <2>2
    <3>2. /\ s \in EntityRecord /\ s.dep = d /\ s.queue = ent[a].queue /\ s.n = ent[a].n
          /\ s.last = ent[a].last /\ s.owner = ent[a].owner /\ (s.stopped <=> ent[a].stopped)
      BY <1>2, <1>7 DEF EntityRecord
    <3> HIDE DEF s
    <3>3. /\ ent' \in [Entities -> EntityRecord] /\ ent'[a] = s
          /\ \A e \in Entities \ {a} : ent'[e] = ent[e]
      BY <1>0, <1>2, <3>1, <3>2, EntityUpdate
    <3>4. EntityLike(ent, ent')
      BY <3>2, <3>3 DEF EntityLike, Halted
    <3> QED
      BY <1>0, <3>1, <3>2, <3>3, <3>4, QueueingContract DEF TypeOK
  <2> QED
    BY <2>1, <2>2
<1>13. IdleWork.pc = "idle" /\ IdleWork.e = None /\ IdleWork.j = None
  BY DEF IdleWork
<1>14. TypeOK'
  BY <1>0, <1>1, <1>9, <1>12 DEF TypeOK, Like, IdleWork
<1>15. FencesOK'
  BY <1>0, <1>1, <1>10, <1>12 DEF FencesOK
<1>16. WorkerOK'
  <2>1. CASE wk' = wk /\ ent' = ent
    BY <1>0, <1>1, <1>10, <1>12, <2>1 DEF WorkerOK, Popped, Holding, Like
  <2>2. CASE wk' = IdleWork
    BY <1>13, <2>2 DEF WorkerOK, Popped, Holding
  <2> QED
    BY <1>12, <2>1, <2>2
<1>17. FiniOK'
  BY <1>0, <1>12, <1>13 DEF FiniOK, EntityLike, Like
<1>18. ~Stopped /\ ~Stopped'
  BY <1>0, <1>1 DEF TdrOK, Stopped
<1>19. TdrOK'
  BY <1>0, <1>1, <1>10, <1>12, <1>18, KeepsTdr
<1>20. \A k \in Jobs : ~InWorker(k) /\ ~InWorker(k)'
  BY <1>1, <1>12, <1>13 DEF InWorker
<1>21. HandsOK'
  BY <1>0, <1>1, <1>10, <1>12, <1>20, KeepsHands
<1>22. BusyOK'
  BY <1>0, <1>1, <1>10, <1>18 DEF BusyOK, Popped
<1>23. CreditOK'
  <2>1. Busy' = Busy
    BY <1>10, <1>20 DEF Busy
  <2> QED
    BY <1>0, <1>12, <1>18, <2>1 DEF CreditOK, Like
<1>24. QueueOK'
  BY <1>0, <1>10, <1>12, KeepsQueues
<1>25. OrderOK'
  BY <1>0, <1>10, <1>12, KeepsOrder
<1>26. InOrder'
  BY <1>0, <1>10, <1>11, Laters DEF InOrder, Forward
<1>27. ASSUME Own(a, f) \/ Signalled(d, job)
       PROVE  Settled(h, f)
  <2>1. CASE Own(a, f)
    BY <1>3, <2>1 DEF Own, Settled
  <2>2. CASE Signalled(d, job) /\ f.kind = "finished"
    <3>1. f.f \in Jobs /\ (d = Fence("scheduled", f.f) \/ d = f)
      BY <1>5, <1>6, <2>2 DEF Awaited, Fences
    <3>2. job[f.f].scheduled
      BY <1>0, <2>2, <3>1 DEF Signalled, Fence, FencesOK
    <3> QED
      BY <2>2, <3>2 DEF Settled
  <2>3. CASE Signalled(d, job) /\ f.kind # "finished"
    <3>1. d = f
      BY <1>5, <2>3 DEF Awaited
    <3> QED
      BY <2>3, <3>1 DEF Settled
  <2> QED
    BY <1>27, <2>1, <2>2, <2>3
<1>28. DepOK'
  <2> SUFFICES ASSUME NEW k \in Jobs, job'[k].at = "queue", NEW g \in job'[k].deps \ job'[k].left
               PROVE  Settled(k, g)' \/ (k = Head(ent'[k[1]].queue) /\ ent'[k[1]].dep \in Awaited(g))
    BY DEF DepOK, Awaited
  <2>1. job[k].at = "queue" /\ g \in job[k].deps /\ g \in Fences /\ k[1] \in Entities
    BY <1>0, <1>10, JobPairs DEF TypeOK, JobRecord
  <2>2. CASE Settled(k, g)
    BY <1>11, <2>1, <2>2, SettledForward
  <2>3. CASE k = h /\ g = f
    <3>1. CASE Own(a, f) \/ Signalled(d, job)
      BY <1>11, <1>27, <2>1, <2>3, <3>1, SettledForward
    <3>2. CASE ent'[a].dep = d
      BY <1>2, <1>3, <1>5, <1>12, <2>3, <3>2, ZenonT(60) DEF EntityLike
    <3> QED
      BY <1>12, <3>1, <3>2
  <2>4. CASE ~Settled(k, g) /\ ~(k = h /\ g = f)
    <3>1. g \in job[k].deps \ job[k].left
      BY <1>8, <1>9, <2>1, <2>4
    <3>2. k = Head(ent[k[1]].queue) /\ ent[k[1]].dep \in Awaited(g)
      BY <1>0, <2>1, <2>4, <3>1 DEF DepOK
    <3>3. k[1] # a
      <4>1. None \notin Awaited(g)
        BY <2>1, NoneApart DEF Awaited, Fence, Fences
      <4> QED
        BY <1>2, <3>2, <4>1
    <3> QED
      BY <1>12, <2>1, <3>2, <3>3
  <2> QED
    BY <2>2, <2>3, <2>4
<1>29. DepsHonoured'
  <2> SUFFICES ASSUME NEW k \in Jobs, NEW g \in job'[k].deps
               PROVE  /\ job'[k].at = "run" => Settled(k, g)'
                      /\ job'[k].at = "killed" => Signalled(g, job)'
    BY DEF DepsHonoured, Settled
  <2>1. g \in job[k].deps /\ g \in Fences
    BY <1>0, <1>10 DEF TypeOK, JobRecord
  <2> QED
    BY <1>0, <1>10, <1>11, <2>1, SettledForward, SignalledForward DEF DepsHonoured, Settled
<1> QED
  BY <1>14, <1>15, <1>16, <1>17, <1>19, <1>21, <1>22, <1>23, <1>24, <1>25, <1>26, <1>28, <1>29
     DEF IInv

(* No dependency is left, so all are settled; the job leaves the queue      *)
(* after the job before it.                                                 *)
LEMMA PopJobStep ==
    ASSUME IInv, PopJob
    PROVE  IInv'
<1>0. TypeOK /\ QueueOK /\ FencesOK /\ WorkerOK /\ FiniOK /\ TdrOK /\ HandsOK /\ BusyOK
      /\ CreditOK /\ OrderOK /\ InOrder /\ DepOK /\ DepsHonoured
  BY DEF IInv
<1>a. PICK a \in Entities, h \in Jobs : a = wk.e /\ h = wk.j
  BY <1>0 DEF PopJob, WorkerOK, Holding, TypeOK
<1> DEFINE q == ent[a].queue
           tq == Tail(q)
           r == [job[h] EXCEPT !.at = "run"]
           s == [ent[a] EXCEPT !.last = h, !.queue = tq]
<1>1. /\ wk.pc = "pop" /\ job[h].left = {} /\ wk' = [wk EXCEPT !.pc = "requeue"]
      /\ job' = [job EXCEPT ![h] = r] /\ ent' = [ent EXCEPT ![a] = s]
      /\ sched' = sched /\ tdr' = tdr /\ ext' = ext
  BY <1>a DEF PopJob
<1>2. /\ a \in Entities /\ h = Head(q) /\ q # <<>> /\ ent[a].dep = None
      /\ ent[a] \in EntityRecord /\ ~ent[a].idle /\ ent[a].owner # "gone"
      /\ sched.credits + Cost(h) <= CreditLimit
  BY <1>0, <1>a, <1>1 DEF WorkerOK, Holding, TypeOK
<1>3. /\ h \in Jobs /\ h[1] = a /\ h[2] = Gone(a) + 1 /\ h = <<a, Gone(a) + 1>>
      /\ job[h].at = "queue" /\ Len(q) \in Nat /\ Len(q) > 0
  BY <1>0, <1>2, QueueHead
<1>4. /\ q \in Seq(Jobs) /\ tq \in Seq(Jobs) /\ Len(tq) = Len(q) - 1
      /\ \A i \in 1..(Len(q) - 1) : tq[i] = q[i + 1]
  BY <1>0, <1>2, <1>3, Places, HeadTailProperties
<1>5. wk'.pc = "requeue" /\ wk'.e = a /\ wk'.j = h
      /\ wk' \in [pc: {"idle", "pop", "requeue", "begin", "run", "callback", "free"},
                  e: Entities \cup {None}, j: Jobs \cup {None}]
  BY <1>0, <1>a, <1>1 DEF TypeOK
<1>6. job[h] \in JobRecord
  BY <1>0, <1>3 DEF TypeOK
<1> HIDE DEF tq
<1>7. /\ r \in JobRecord /\ r.at = "run" /\ r.left = job[h].left /\ r.deps = job[h].deps
      /\ (r.late <=> job[h].late) /\ (r.scheduled <=> job[h].scheduled)
      /\ (r.finished <=> job[h].finished) /\ (r.cb <=> job[h].cb)
  BY <1>6 DEF JobRecord
<1>8. /\ s \in EntityRecord /\ s.queue = tq /\ s.n = ent[a].n /\ s.last = h
      /\ s.dep = None /\ s.owner = ent[a].owner /\ (s.stopped <=> ent[a].stopped)
      /\ ~s.idle
  BY <1>2, <1>3, <1>4 DEF EntityRecord
<1>9. job' \in [Jobs -> JobRecord] /\ job'[h] = r /\ \A k \in Jobs \ {h} : job'[k] = job[k]
  BY <1>0, <1>1, <1>3, <1>7, JobUpdate
<1>10. /\ ent' \in [Entities -> EntityRecord] /\ ent'[a] = s
       /\ \A e \in Entities \ {a} : ent'[e] = ent[e]
  BY <1>0, <1>1, <1>2, <1>8, EntityUpdate
<1> HIDE DEF r, s
<1>11. ~job[h].scheduled /\ ~job[h].finished /\ ~job[h].cb
  BY <1>0, <1>3 DEF FencesOK
<1>12. TypeOK'
  BY <1>0, <1>1, <1>5, <1>9, <1>10 DEF TypeOK
<1>13. Gone(a)' = Gone(a) + 1 /\ \A e \in Entities \ {a} : Gone(e)' = Gone(e)
  <2>1. Gone(a)' = ent[a].n - (Len(q) - 1)
    BY <1>4, <1>8, <1>10 DEF Gone
  <2>2. ent[a].n \in Int
    BY <1>0, <1>2, Places, JobPairs
  <2>3. Gone(a)' = Gone(a) + 1
    BY <1>3, <2>1, <2>2 DEF Gone
  <2> QED
    BY <1>10, <2>3 DEF Gone
<1>14. Gone(a) \in Nat /\ ent[a].n \in Nat /\ Gone(a) + Len(q) = ent[a].n
  <2>1. Gone(a) \in Int /\ Gone(a) >= 0 /\ ent[a].n \in 0..MaxJobs /\ Gone(a) = ent[a].n - Len(q)
    BY <1>0, <1>2, Places DEF QueueOK, Gone
  <2> QED
    BY <1>3, <2>1, JobPairs
<1>15. QueueOK'
  <2>1. ASSUME NEW e \in Entities
        PROVE  (/\ Gone(e) >= 0
                /\ \A i \in 1..Len(ent[e].queue) : ent[e].queue[i] = <<e, Gone(e) + i>>
                /\ ent[e].owner = "gone" => ent[e].queue = <<>>)'
    <3>1. CASE e = a
      <4>1. ASSUME NEW i \in 1..(Len(q) - 1)
            PROVE  tq[i] = <<a, (Gone(a) + 1) + i>>
        <5>1. tq[i] = q[i + 1] /\ i + 1 \in 1..Len(q)
          BY <1>3, <1>4
        <5>2. q[i + 1] = <<a, Gone(a) + (i + 1)>>
          BY <1>0, <1>2, <5>1 DEF QueueOK
        <5>3. Gone(a) + (i + 1) = (Gone(a) + 1) + i
          BY <1>3, <1>14
        <5> QED
          BY <5>1, <5>2, <5>3
      <4>2. /\ ent'[a].queue = tq /\ Len(ent'[a].queue) = Len(q) - 1
            /\ ent'[a].owner # "gone" /\ Gone(a)' = Gone(a) + 1
        BY <1>2, <1>4, <1>8, <1>10, <1>13
      <4>3. Gone(a) + 1 >= 0
        BY <1>14
      <4> QED
        BY <3>1, <4>1, <4>2, <4>3
    <3>2. CASE e # a
      BY <1>0, <1>10, <1>13, <3>2 DEF QueueOK
    <3> QED
      BY <3>1, <3>2
  <2>2. ASSUME NEW k \in Jobs
        PROVE  (/\ job[k].at = "new" <=> k[2] > ent[k[1]].n
                /\ job[k].at = "queue" <=> Gone(k[1]) < k[2] /\ k[2] <= ent[k[1]].n)'
    <3>1. CASE k = h
      <4>1. job'[k].at = "run" /\ ent'[k[1]].n = ent[a].n /\ Gone(k[1])' = Gone(a) + 1
            /\ k[2] = Gone(a) + 1
        BY <1>2, <1>3, <1>7, <1>8, <1>9, <1>10, <1>13, <3>1
      <4> QED
        BY <1>3, <1>14, <4>1
    <3>2. CASE k # h /\ k[1] = a
      <4>1. k[2] # Gone(a) + 1 /\ k[2] \in Nat
        BY <1>3, <3>2, JobPairs
      <4>2. /\ job'[k].at = job[k].at /\ ent'[k[1]].n = ent[a].n /\ Gone(k[1])' = Gone(a) + 1
        BY <1>2, <1>8, <1>9, <1>10, <1>13, <3>2
      <4>3. /\ job[k].at = "new" <=> k[2] > ent[a].n
            /\ job[k].at = "queue" <=> Gone(a) < k[2] /\ k[2] <= ent[a].n
        BY <1>0, <3>2 DEF QueueOK
      <4>4. Gone(a) + 1 < k[2] <=> Gone(a) < k[2]
        BY <1>14, <4>1
      <4> QED
        BY <4>2, <4>3, <4>4
    <3>3. CASE k[1] # a
      BY <1>0, <1>3, <1>9, <1>10, <1>13, <3>3, JobPairs DEF QueueOK
    <3> QED
      BY <3>1, <3>2, <3>3
  <2> QED
    BY <2>1, <2>2 DEF QueueOK
<1>16. FencesOK'
  BY <1>0, <1>1, <1>5, <1>7, <1>9, <1>11 DEF FencesOK
<1>17. WorkerOK'
  BY <1>1, <1>2, <1>3, <1>5, <1>7, <1>8, <1>9, <1>10, <1>11, NoneApart
     DEF WorkerOK, Popped, Holding
<1>18. FiniOK'
  BY <1>0, <1>1, <1>2 DEF FiniOK
<1>19. ~Stopped /\ ~Stopped'
  BY <1>0, <1>1 DEF TdrOK, Stopped
<1>20. TdrOK'
  <2>1. sched.guilty => job'[tdr.j].finished
    BY <1>0, <1>7, <1>9, <1>11 DEF TdrOK
  <2> QED
    BY <1>0, <1>1, <1>19, <2>1 DEF TdrOK
<1>21. \A k \in Jobs : ~InWorker(k) /\ (InWorker(k)' <=> k = h)
  BY <1>1, <1>5 DEF InWorker
<1>22. HandsOK'
  <2>1. ~OnList(h) /\ ~WithDriver(h)
    BY <1>0, <1>3 DEF HandsOK
  <2>2. \A k \in Jobs : (OnList(k)' <=> OnList(k)) /\ (WithDriver(k)' <=> WithDriver(k))
    BY <1>1 DEF OnList, WithDriver
  <2> QED
    BY <1>0, <1>1, <1>3, <1>7, <1>9, <1>21, <2>1, <2>2 DEF HandsOK
<1>23. BusyOK'
  BY <1>0, <1>1, <1>5, <1>7, <1>9, <1>19 DEF BusyOK, Popped
<1>24. CreditOK'
  <2>1. Busy' = Busy
    BY <1>3, <1>7, <1>9, <1>21 DEF Busy
  <2> QED
    BY <1>0, <1>1, <1>19, <2>1 DEF CreditOK
<1>25. OrderOK'
  <2>1. (\A e \in Entities : Halted(ent[e]))'
    BY <1>0, <1>2, <1>8, <1>10 DEF OrderOK, Halted
  <2>2. (\A k \in Jobs : job[k].at \in {"kill", "killed"} => ent[k[1]].stopped)'
    BY <1>0, <1>7, <1>8, <1>9, <1>10, JobPairs DEF OrderOK
  <2>3. ASSUME NEW k \in Later, ~job'[k].late
        PROVE  /\ job'[k].at \notin {"new", "kill", "killed"} => job'[Pred(k)].at \notin {"kill", "killed"}
               /\ job'[k].at = "kill" => job'[k].prev = Pred(k)
    <3>1. k \in Jobs /\ Pred(k) \in Jobs /\ ~job[k].late
      BY <1>7, <1>9, <2>3, Laters
    <3>2. CASE k = h
      BY <1>0, <1>3, <1>7, <1>9, <2>3, <3>1, <3>2 DEF OrderOK
    <3>3. CASE k # h
      BY <1>0, <1>7, <1>9, <2>3, <3>1, <3>3 DEF OrderOK
    <3> QED
      BY <3>2, <3>3
  <2>4. ASSUME NEW e \in Entities, NEW k \in Jobs, k = <<e, Gone(e)'>>,
               ent'[e].owner # "gone", job'[k].at \in {"run", "freed"}
        PROVE  ent'[e].last = k
    <3>1. CASE e = a
      BY <1>3, <1>8, <1>10, <1>13, <2>4, <3>1
    <3>2. CASE e # a
      <4>1. k # h
        BY <1>3, <2>4, <3>2, JobPairs
      <4> QED
        BY <1>0, <1>9, <1>10, <1>13, <2>4, <3>2, <4>1 DEF OrderOK
    <3> QED
      BY <3>1, <3>2
  <2> QED
    BY <2>1, <2>2, <2>3, <2>4 DEF OrderOK
<1>26. Forward
  BY <1>1, <1>7, <1>9 DEF Forward
<1>27. InOrder'
  BY <1>0, <1>3, <1>7, <1>9, <1>26, Laters DEF InOrder, Forward
<1>28. ASSUME NEW k \in Jobs, k[1] = a, job[k].at = "queue", NEW g \in job[k].deps \ job[k].left
       PROVE  Settled(k, g)
  <2>1. g \in Fences
    BY <1>0 DEF TypeOK, JobRecord
  <2>2. None \notin Awaited(g)
    BY <2>1, NoneApart DEF Awaited, Fence, Fences
  <2> QED
    BY <1>0, <1>2, <1>28, <2>2 DEF DepOK
<1>29. DepOK'
  <2> SUFFICES ASSUME NEW k \in Jobs, job'[k].at = "queue", NEW g \in job'[k].deps \ job'[k].left
               PROVE  Settled(k, g)' \/ (k = Head(ent'[k[1]].queue) /\ ent'[k[1]].dep \in Awaited(g))
    BY DEF DepOK, Awaited
  <2>1. k # h /\ job'[k] = job[k] /\ k[1] \in Entities /\ g \in Fences
    BY <1>0, <1>7, <1>9, JobPairs DEF TypeOK, JobRecord
  <2>2. CASE k[1] = a
    BY <1>26, <1>28, <2>1, <2>2, SettledForward
  <2>3. CASE k[1] # a
    BY <1>0, <1>10, <1>26, <2>1, <2>3, SettledForward DEF DepOK
  <2> QED
    BY <2>2, <2>3
<1>30. DepsHonoured'
  <2> SUFFICES ASSUME NEW k \in Jobs, NEW g \in job'[k].deps
               PROVE  /\ job'[k].at = "run" => Settled(k, g)'
                      /\ job'[k].at = "killed" => Signalled(g, job)'
    BY DEF DepsHonoured, Settled
  <2>1. g \in job[k].deps /\ g \in Fences
    BY <1>0, <1>7, <1>9 DEF TypeOK, JobRecord
  <2>2. CASE k = h
    <3>1. Settled(k, g)
      BY <1>1, <1>3, <1>28, <2>1, <2>2
    <3> QED
      BY <1>7, <1>9, <1>26, <2>1, <2>2, <3>1, SettledForward
  <2>3. CASE k # h
    <3>1. job'[k] = job[k]
      BY <1>9, <2>3
    <3> QED
      BY <1>0, <1>26, <2>1, <3>1, SettledForward, SignalledForward DEF DepsHonoured, Settled
  <2> QED
    BY <2>2, <2>3
<1> QED
  BY <1>12, <1>15, <1>16, <1>17, <1>18, <1>20, <1>22, <1>23, <1>24, <1>25, <1>27, <1>29, <1>30
     DEF IInv

(* The scheduled fence signals, after that of the job before. *)
LEMMA RunJobStep ==
    ASSUME IInv, RunJob
    PROVE  IInv'
<1>0. TypeOK /\ QueueOK /\ FencesOK /\ WorkerOK /\ FiniOK /\ TdrOK /\ HandsOK /\ BusyOK
      /\ CreditOK /\ OrderOK /\ InOrder /\ DepOK /\ DepsHonoured
  BY DEF IInv
<1>a. PICK a \in Entities, h \in Jobs : a = wk.e /\ h = wk.j
  BY <1>0 DEF RunJob, WorkerOK, Holding, TypeOK
<1> DEFINE W == Waiting({Fence("scheduled", h)})
           en == Woken(W, ent)
           s == [en[a] EXCEPT !.idle = TRUE]
<1>1. /\ wk.pc = "run" /\ wk' = [wk EXCEPT !.pc = "callback", !.e = None]
      /\ \E hw \in {"none", "running", "hung"} :
           job' = [job EXCEPT ![h].parent = hw, ![h].scheduled = TRUE]
      /\ ent' = [en EXCEPT ![a] = s] /\ sched' = WakeSched(W, sched)
      /\ tdr' = tdr /\ ext' = ext
  BY <1>a DEF RunJob
<1>2. /\ job[h].at = "run" /\ ~job[h].finished /\ ~job[h].cb /\ job[h] \in JobRecord
      /\ h[1] = a /\ ent[a].owner # "gone"
  BY <1>0, <1>a, <1>1, NoneApart DEF WorkerOK, Popped, TypeOK
<1>3. PICK hw \in {"none", "running", "hung"} :
           job' = [job EXCEPT ![h].parent = hw, ![h].scheduled = TRUE]
  BY <1>1
<1> DEFINE r == [job[h] EXCEPT !.parent = hw, !.scheduled = TRUE]
<1>4. /\ r \in JobRecord /\ r.at = "run" /\ r.left = job[h].left /\ r.deps = job[h].deps
      /\ r.prev = job[h].prev /\ (r.late <=> job[h].late) /\ r.scheduled /\ ~r.finished /\ ~r.cb
  BY <1>2 DEF JobRecord
<1>5. job' = [job EXCEPT ![h] = r]
  BY <1>3
<1>6. job' \in [Jobs -> JobRecord] /\ job'[h] = r /\ \A k \in Jobs \ {h} : job'[k] = job[k]
  BY <1>0, <1>4, <1>5, JobUpdate
<1> HIDE DEF r
<1>7. /\ en \in [Entities -> EntityRecord] /\ EntityLike(ent, en)
      /\ \A e \in Entities : en[e].dep = IF e \in W THEN None ELSE ent[e].dep
  BY <1>0, WokenContract DEF TypeOK
<1>8. en[a] \in EntityRecord
  BY <1>7
<1> HIDE DEF en
<1>9. /\ s \in EntityRecord /\ s.queue = en[a].queue /\ s.n = en[a].n /\ s.last = en[a].last
      /\ s.dep = en[a].dep /\ s.owner = en[a].owner /\ (s.stopped <=> en[a].stopped)
  BY <1>8 DEF EntityRecord
<1> HIDE DEF s
<1>10. /\ ent' \in [Entities -> EntityRecord] /\ ent'[a] = s
       /\ \A e \in Entities \ {a} : ent'[e] = en[e]
  BY <1>1, <1>7, <1>9
<1>11. EntityLike(ent, ent') /\ \A e \in Entities : ent'[e].dep = IF e \in W THEN None ELSE ent[e].dep
  <2>1. \A e \in Entities : /\ ent'[e].queue = en[e].queue /\ ent'[e].n = en[e].n
                            /\ ent'[e].last = en[e].last /\ ent'[e].dep = en[e].dep
                            /\ ent'[e].owner = en[e].owner /\ (ent'[e].stopped <=> en[e].stopped)
    BY <1>9, <1>10
  <2> QED
    BY <1>7, <2>1, ZenonT(60) DEF EntityLike, Halted
<1>12. Like(sched, sched')
  BY <1>0, <1>1, QueueingContract DEF TypeOK
<1>13. wk'.pc = "callback" /\ wk'.e = None /\ wk'.j = h
      /\ wk' \in [pc: {"idle", "pop", "requeue", "begin", "run", "callback", "free"},
                  e: Entities \cup {None}, j: Jobs \cup {None}]
  BY <1>0, <1>a, <1>1 DEF TypeOK
<1>14. TypeOK'
  BY <1>0, <1>1, <1>6, <1>10, <1>12, <1>13 DEF TypeOK, Like
<1>15. FencesOK'
  <2> SUFFICES ASSUME NEW k \in Jobs
               PROVE  /\ job'[k].at \in {"new", "queue", "kill"} => ~job'[k].scheduled
                      /\ job'[k].at = "killed" => job'[k].finished
                      /\ job'[k].finished => job'[k].scheduled
                      /\ job'[k].cb => job'[k].at = "run" /\ ~job'[k].finished
                      /\ job'[k].at \in {"run", "freed"} => job'[k].scheduled
    BY DEF FencesOK
  <2>1. CASE k = h
    BY <1>4, <1>6, <2>1
  <2>2. CASE k # h
    BY <1>0, <1>a, <1>6, <2>2 DEF FencesOK
  <2> QED
    BY <2>1, <2>2
<1>16. WorkerOK'
  BY <1>4, <1>6, <1>13 DEF WorkerOK, Popped, Holding
<1>17. FiniOK'
  BY <1>0, <1>2, <1>12 DEF FiniOK, Like
<1>18. ~Stopped /\ ~Stopped'
  BY <1>0, <1>1 DEF TdrOK, Stopped
<1>19. \A k \in Jobs : /\ job'[k].at = job[k].at /\ job'[k].prev = job[k].prev
                       /\ job'[k].deps = job[k].deps /\ job'[k].left = job[k].left
                       /\ job'[k].finished <=> job[k].finished
                       /\ job'[k].cb <=> job[k].cb
                       /\ job'[k].late <=> job[k].late
                       /\ job[k].scheduled => job'[k].scheduled
  BY <1>2, <1>4, <1>6
<1>20. TdrOK'
  BY <1>0, <1>1, <1>12, <1>18, <1>19, KeepsTdr
<1>21. \A k \in Jobs : ~InWorker(k) /\ ~InWorker(k)'
  BY <1>1, <1>13 DEF InWorker
<1>22. HandsOK'
  BY <1>0, <1>1, <1>12, <1>19, <1>21, KeepsHands
<1>23. BusyOK'
  BY <1>0, <1>a, <1>1, <1>13, <1>18, <1>19 DEF BusyOK, Popped
<1>24. CreditOK'
  <2>1. Busy' = Busy
    BY <1>19, <1>21 DEF Busy
  <2> QED
    BY <1>0, <1>12, <1>18, <2>1 DEF CreditOK, Like
<1>25. QueueOK'
  BY <1>0, <1>11, <1>19, KeepsQueues
<1>26. OrderOK'
  BY <1>0, <1>11, <1>19, KeepsOrder
<1>27. Forward
  BY <1>1, <1>19 DEF Forward
<1>28. InOrder'
  <2>1. ASSUME h \in Later, ~job[h].late
        PROVE  job[Pred(h)].scheduled
    <3>1. Pred(h) \in Jobs /\ Pred(h) # h /\ Pred(h)[1] = a /\ Pred(h)[2] = h[2] - 1
      BY <1>2, <2>1, Laters
    <3>2. job[Pred(h)].at \notin {"kill", "killed"}
      BY <1>0, <1>2, <2>1 DEF OrderOK
    <3>3. ~(h[2] > ent[a].n) /\ ~(Gone(a) < h[2] /\ h[2] <= ent[a].n)
      BY <1>0, <1>2 DEF QueueOK
    <3>4. /\ job[Pred(h)].at = "new" <=> h[2] - 1 > ent[a].n
          /\ job[Pred(h)].at = "queue" <=> Gone(a) < h[2] - 1 /\ h[2] - 1 <= ent[a].n
      BY <1>0, <3>1 DEF QueueOK
    <3>5. Gone(a) \in Int /\ ent[a].n \in Int /\ h[2] \in Int
      BY <1>0, Places, JobPairs
    <3>6. job[Pred(h)].at \notin {"new", "queue"}
      BY <3>3, <3>4, <3>5
    <3>7. job[Pred(h)].at \in {"run", "freed"}
      BY <1>0, <3>1, <3>2, <3>6 DEF TypeOK, JobRecord
    <3> QED
      BY <1>0, <1>a, <3>1, <3>7 DEF FencesOK
  <2>2. \A k \in Jobs \ {h} : /\ job'[k].late <=> job[k].late
                              /\ job'[k].scheduled <=> job[k].scheduled
                              /\ job'[k].at = "killed" <=> job[k].at = "killed"
    BY <1>6
  <2>3. \A k \in {h} \cap Later : ~job'[k].late =>
               /\ job'[k].scheduled => job'[Pred(k)].scheduled
               /\ job'[k].at = "killed" => job'[Pred(k)].finished
    BY <1>4, <1>6, <2>1, Laters
  <2> QED
    BY <1>0, <1>27, <2>2, <2>3, KeepsInOrder
<1>29. DepOK' /\ DepsHonoured'
  <2>1. \A f \in {Fence("scheduled", h)} : f \in Fences /\ Signalled(f, job)'
    BY <1>4, <1>6 DEF Fence, Fences, Signalled
  <2>2. \A e \in Entities : \/ ent'[e].dep = ent[e].dep
                            \/ \E f \in Fences : f = ent[e].dep /\ Signalled(f, job)'
    BY <1>11, <2>1, WokenDeps
  <2> QED
    BY <1>0, <1>11, <1>15, <1>19, <1>27, <2>2, KeepsDeps DEF EntityLike
<1> QED
  BY <1>14, <1>15, <1>16, <1>17, <1>20, <1>22, <1>23, <1>24, <1>25, <1>26, <1>28, <1>29 DEF IInv

-----------------------------------------------------------------------------
(* Jobs that end *)

(* What the end of jobs changes in them, *)
LEMMA FinishedContract ==
    ASSUME NEW jb \in [Jobs -> JobRecord], NEW S
    PROVE  /\ Finished(S, jb) \in [Jobs -> JobRecord]
           /\ \A k \in Jobs :
                /\ Finished(S, jb)[k].at = jb[k].at /\ Finished(S, jb)[k].prev = jb[k].prev
                /\ Finished(S, jb)[k].deps = jb[k].deps /\ Finished(S, jb)[k].left = jb[k].left
                /\ Finished(S, jb)[k].late <=> jb[k].late
                /\ Finished(S, jb)[k].scheduled <=> jb[k].scheduled
                /\ Finished(S, jb)[k].cb <=> jb[k].cb
                /\ Finished(S, jb)[k].finished <=> jb[k].finished \/ k \in S
<1> SUFFICES ASSUME NEW k \in Jobs
             PROVE  /\ Finished(S, jb)[k] \in JobRecord
                    /\ Finished(S, jb)[k].at = jb[k].at /\ Finished(S, jb)[k].prev = jb[k].prev
                    /\ Finished(S, jb)[k].deps = jb[k].deps /\ Finished(S, jb)[k].left = jb[k].left
                    /\ Finished(S, jb)[k].late <=> jb[k].late
                    /\ Finished(S, jb)[k].scheduled <=> jb[k].scheduled
                    /\ Finished(S, jb)[k].cb <=> jb[k].cb
                    /\ Finished(S, jb)[k].finished <=> jb[k].finished \/ k \in S
  BY DEF Finished
<1>1. jb[k] \in JobRecord
  OBVIOUS
<1>2. CASE k \notin S
  BY <1>1, <1>2 DEF Finished
<1>3. CASE k \in S
  <2>1. Finished(S, jb)[k] = [jb[k] EXCEPT !.finished = TRUE]
    BY <1>3 DEF Finished
  <2> QED
    BY <1>1, <1>3, <2>1 DEF JobRecord
<1> QED
  BY <1>2, <1>3

(* and what free_job does. *)
LEMMA FreedContract ==
    ASSUME NEW jb \in [Jobs -> JobRecord], NEW S
    PROVE  /\ free_job(S, jb) \in [Jobs -> JobRecord]
           /\ \A k \in Jobs :
                /\ free_job(S, jb)[k].late <=> jb[k].late
                /\ free_job(S, jb)[k].scheduled <=> jb[k].scheduled
                /\ free_job(S, jb)[k].finished <=> jb[k].finished
                /\ k \in S => /\ free_job(S, jb)[k].at = "freed" /\ free_job(S, jb)[k].deps = {}
                              /\ ~free_job(S, jb)[k].cb
                /\ k \notin S => free_job(S, jb)[k] = jb[k]
<1> SUFFICES ASSUME NEW k \in Jobs
             PROVE  /\ free_job(S, jb)[k] \in JobRecord
                    /\ free_job(S, jb)[k].late <=> jb[k].late
                    /\ free_job(S, jb)[k].scheduled <=> jb[k].scheduled
                    /\ free_job(S, jb)[k].finished <=> jb[k].finished
                    /\ k \in S => /\ free_job(S, jb)[k].at = "freed" /\ free_job(S, jb)[k].deps = {}
                                  /\ ~free_job(S, jb)[k].cb
                    /\ k \notin S => free_job(S, jb)[k] = jb[k]
  BY DEF free_job
<1>1. jb[k] \in JobRecord
  OBVIOUS
<1>2. CASE k \notin S
  BY <1>1, <1>2 DEF free_job
<1>3. CASE k \in S
  <2>1. free_job(S, jb)[k] = Freed(k, jb)
    BY <1>3 DEF free_job
  <2>2. /\ jb[k].late \in BOOLEAN /\ jb[k].scheduled \in BOOLEAN /\ jb[k].finished \in BOOLEAN
    BY <1>1 DEF JobRecord
  <2>3. /\ Freed(k, jb) \in JobRecord /\ Freed(k, jb).at = "freed" /\ Freed(k, jb).deps = {}
        /\ ~Freed(k, jb).cb /\ (Freed(k, jb).late <=> jb[k].late)
        /\ (Freed(k, jb).scheduled <=> jb[k].scheduled) /\ (Freed(k, jb).finished <=> jb[k].finished)
    BY <2>2 DEF Freed, NewJob, JobRecord
  <2> QED
    BY <1>3, <2>1, <2>3
<1> QED
  BY <1>2, <1>3

(* The jobs that end give back their credits. *)
LEMMA DoneCredits ==
    ASSUME TypeOK, CreditOK, ~Stopped, NEW S \in SUBSET Busy
    PROVE  /\ JobsDone(S, sched) \in SchedRecord
           /\ JobsDone(S, sched).credits = CostOf(Busy \ S)
           /\ JobsDone(S, sched).credits <= sched.credits
           /\ JobsDone(S, sched).pending = sched.pending
           /\ JobsDone(S, sched).fini = sched.fini
           /\ JobsDone(S, sched).guilty <=> sched.guilty
           /\ JobsDone(S, sched).paused <=> sched.paused
<1>1. Busy \in SUBSET Jobs /\ S \in SUBSET Jobs /\ sched \in SchedRecord
  BY DEF Busy, TypeOK
<1>2. /\ sched.credits = CostOf(Busy) /\ CostOf(Busy \ S) = CostOf(Busy) - CostOf(S)
      /\ CostOf(S) <= CostOf(Busy) /\ CostOf(Busy) \in Nat /\ CostOf(S) \in Nat
      /\ CostOf(Busy \ S) \in Nat
  BY <1>1, CostOfRest DEF CreditOK
<1> DEFINE c == sched.credits - CostOf(S)
           t == [sched EXCEPT !.credits = c]
<1>3. c = CostOf(Busy \ S) /\ c <= sched.credits /\ c \in Nat
  BY <1>2
<1>4. Like(t, JobsDone(S, sched))
  BY <1>1, <1>2, JobsDoneContract
<1> HIDE DEF c
<1>5. /\ t.credits = c /\ t.pending = sched.pending /\ t.fini = sched.fini
      /\ (t.guilty <=> sched.guilty) /\ (t.paused <=> sched.paused)
  BY <1>1, <1>3 DEF SchedRecord
<1> HIDE DEF t
<1> QED
  BY <1>3, <1>4, <1>5 DEF Like

(* Waking the flushers changes no entity but those that slept. *)
LEMMA FlushersContract ==
    ASSUME NEW en \in [Entities -> EntityRecord]
    PROVE  /\ WakeFlushers(en) \in [Entities -> EntityRecord]
           /\ EntityLike(en, WakeFlushers(en))
           /\ \A e \in Entities : WakeFlushers(en)[e].dep = en[e].dep
<1> SUFFICES ASSUME NEW e \in Entities
             PROVE  /\ WakeFlushers(en)[e] \in EntityRecord
                    /\ WakeFlushers(en)[e].queue = en[e].queue /\ WakeFlushers(en)[e].n = en[e].n
                    /\ WakeFlushers(en)[e].last = en[e].last
                    /\ WakeFlushers(en)[e].owner = "gone" <=> en[e].owner = "gone"
                    /\ en[e].stopped => WakeFlushers(en)[e].stopped
                    /\ Halted(en[e]) => Halted(WakeFlushers(en)[e])
                    /\ WakeFlushers(en)[e].dep = en[e].dep
  BY DEF WakeFlushers, EntityLike
<1>1. en[e] \in EntityRecord
  OBVIOUS
<1>2. CASE WakeFlushers(en)[e] = en[e]
  BY <1>1, <1>2
<1>3. CASE en[e].owner = "sleep" /\ WakeFlushers(en)[e] = [en[e] EXCEPT !.owner = "open"]
  BY <1>1, <1>3 DEF EntityRecord, Halted
<1> QED
  BY <1>2, <1>3 DEF WakeFlushers

(* Such steps compose. *)
LEMMA EntityLikeTrans ==
    ASSUME NEW x, NEW y, NEW z, EntityLike(x, y), EntityLike(y, z)
    PROVE  EntityLike(x, z)
BY DEF EntityLike

(* The job has a callback from now on, or it is done. *)
LEMMA AddCallbackStep ==
    ASSUME IInv, AddCallback
    PROVE  IInv'
<1>0. TypeOK /\ QueueOK /\ FencesOK /\ WorkerOK /\ FiniOK /\ TdrOK /\ HandsOK /\ BusyOK
      /\ CreditOK /\ OrderOK /\ InOrder /\ DepOK /\ DepsHonoured
  BY DEF IInv
<1>a. PICK h \in Jobs : h = wk.j
  BY <1>0 DEF AddCallback, WorkerOK, Popped
<1>b. PICK done \in SUBSET {h} : done = IF job[h].parent \in {"none", "signalled"} THEN {h} ELSE {}
  OBVIOUS
<1> DEFINE W == Waiting(FinishedFences(done))
           jb == Finished(done, job)
           en == Woken(W, ent)
           b == (done = {})
           r == [jb[h] EXCEPT !.cb = b]
           t == JobsDone(done, sched)
<1>1. /\ wk.pc = "callback" /\ wk' = IdleWork /\ job' = [jb EXCEPT ![h] = r]
      /\ ent' = WakeFlushers(en) /\ sched' = drm_sched_run_job_queue(t)
      /\ tdr' = tdr /\ ext' = ext
  BY <1>a, <1>b DEF AddCallback
<1>2. job[h].at = "run" /\ ~job[h].finished /\ ~job[h].cb /\ wk.e = None
  BY <1>0, <1>a, <1>1 DEF WorkerOK, Popped, Holding
<1>3. /\ jb \in [Jobs -> JobRecord]
      /\ \A k \in Jobs : /\ jb[k].at = job[k].at /\ jb[k].prev = job[k].prev
                         /\ jb[k].deps = job[k].deps /\ jb[k].left = job[k].left
                         /\ jb[k].late <=> job[k].late
                         /\ jb[k].scheduled <=> job[k].scheduled
                         /\ jb[k].cb <=> job[k].cb
                         /\ jb[k].finished <=> job[k].finished \/ k \in done
  BY <1>0, FinishedContract DEF TypeOK
<1>4. b \in BOOLEAN /\ jb[h] \in JobRecord
  BY <1>3
<1> HIDE DEF jb, b
<1>5. /\ r \in JobRecord /\ r.at = jb[h].at /\ r.prev = jb[h].prev /\ r.deps = jb[h].deps
      /\ r.left = jb[h].left /\ (r.late <=> jb[h].late) /\ (r.scheduled <=> jb[h].scheduled)
      /\ (r.finished <=> jb[h].finished) /\ (r.cb <=> b)
  BY <1>4 DEF JobRecord
<1> HIDE DEF r
<1>6. job' \in [Jobs -> JobRecord] /\ job'[h] = r /\ \A k \in Jobs \ {h} : job'[k] = jb[k]
  BY <1>1, <1>3, <1>5
<1>7. \A k \in Jobs : /\ job'[k].at = job[k].at /\ job'[k].prev = job[k].prev
                      /\ job'[k].deps = job[k].deps /\ job'[k].left = job[k].left
                      /\ job'[k].late <=> job[k].late
                      /\ job'[k].scheduled <=> job[k].scheduled
                      /\ job'[k].finished <=> job[k].finished \/ k \in done
                      /\ k # h => (job'[k].cb <=> job[k].cb)
  BY <1>3, <1>5, <1>6
<1>8. job'[h].cb <=> ~job'[h].finished
  BY <1>2, <1>5, <1>6, <1>7 DEF b
<1>9. ~Stopped /\ ~Stopped'
  BY <1>0, <1>1 DEF TdrOK, Stopped
<1>10. \A k \in Jobs : ~InWorker(k) /\ ~InWorker(k)'
  BY <1>1 DEF InWorker, IdleWork
<1>11. done \in SUBSET Busy /\ done \in SUBSET Jobs
  BY <1>2, <1>10 DEF Busy
<1>12. /\ t \in SchedRecord /\ t.credits = CostOf(Busy \ done) /\ t.pending = sched.pending
       /\ t.fini = sched.fini /\ (t.guilty <=> sched.guilty) /\ (t.paused <=> sched.paused)
  BY <1>0, <1>9, <1>11, DoneCredits
<1> HIDE DEF t
<1>13. /\ sched' \in SchedRecord /\ sched'.credits = CostOf(Busy \ done)
       /\ sched'.pending = sched.pending /\ sched'.fini = sched.fini
       /\ (sched'.guilty <=> sched.guilty) /\ (sched'.paused <=> sched.paused)
  BY <1>1, <1>12, QueueingContract DEF Like
<1>14. /\ en \in [Entities -> EntityRecord] /\ EntityLike(ent, en)
       /\ \A e \in Entities : en[e].dep = IF e \in W THEN None ELSE ent[e].dep
  BY <1>0, WokenContract DEF TypeOK
<1> HIDE DEF en
<1>15. /\ ent' \in [Entities -> EntityRecord] /\ EntityLike(en, ent')
       /\ \A e \in Entities : ent'[e].dep = en[e].dep
  BY <1>1, <1>14, FlushersContract
<1>16. EntityLike(ent, ent')
  BY <1>14, <1>15, EntityLikeTrans
<1>17. TypeOK'
  BY <1>0, <1>1, <1>6, <1>13, <1>15 DEF TypeOK, IdleWork
<1>18. FencesOK'
  <2> SUFFICES ASSUME NEW k \in Jobs
               PROVE  /\ job'[k].at \in {"new", "queue", "kill"} => ~job'[k].scheduled
                      /\ job'[k].at = "killed" => job'[k].finished
                      /\ job'[k].finished => job'[k].scheduled
                      /\ job'[k].cb => job'[k].at = "run" /\ ~job'[k].finished
                      /\ job'[k].at \in {"run", "freed"} => job'[k].scheduled
    BY DEF FencesOK
  <2>1. job[h].scheduled
    BY <1>0, <1>1, <1>2 DEF FencesOK
  <2>2. CASE k = h
    BY <1>2, <1>7, <1>8, <2>1, <2>2
  <2>3. CASE k # h
    BY <1>0, <1>1, <1>7, <2>3 DEF FencesOK
  <2> QED
    BY <2>2, <2>3
<1>19. WorkerOK'
  BY <1>1 DEF WorkerOK, Popped, Holding, IdleWork
<1>20. FiniOK'
  BY <1>0, <1>1, <1>13, <1>16 DEF FiniOK, EntityLike, IdleWork
<1>21. TdrOK'
  BY <1>0, <1>1, <1>7, <1>9, <1>13 DEF TdrOK
<1>22. HandsOK'
  BY <1>0, <1>1, <1>7, <1>10, <1>13 DEF HandsOK, OnList, WithDriver
<1>23. BusyOK'
  BY <1>0, <1>a, <1>7, <1>8, <1>9 DEF BusyOK
<1>24. CreditOK'
  <2>1. Busy' = Busy \ done
    BY <1>7, <1>10 DEF Busy
  <2> QED
    BY <1>9, <1>13, <2>1 DEF CreditOK
<1>25. \A k \in Jobs : Carried(job[k], job'[k])
  BY <1>7 DEF Carried
<1>26. \A e \in Entities : \/ ent'[e].dep = ent[e].dep
                           \/ \E f \in Fences : f = ent[e].dep /\ Signalled(f, job)'
  <2>1. \A f \in FinishedFences(done) : f \in Fences /\ Signalled(f, job)'
    BY <1>7, <1>11, EndedFences
  <2>2. \A e \in Entities : ent'[e].dep = IF e \in W THEN None ELSE ent[e].dep
    BY <1>14, <1>15
  <2> QED
    BY <2>1, <2>2, WokenDeps
<1>27. QueueOK' /\ OrderOK' /\ InOrder' /\ DepOK' /\ DepsHonoured'
  BY <1>0, <1>1, <1>16, <1>18, <1>25, <1>26, QueuesLeftAlone
<1> QED
  BY <1>17, <1>18, <1>19, <1>20, <1>21, <1>22, <1>23, <1>24, <1>27 DEF IInv

(* What drm_sched_job_done for one job does to the scheduler: nothing if    *)
(* the job has no callback. *)
LEMMA DoneOne ==
    ASSUME IInv, NEW h \in Jobs, NEW done \in SUBSET {h},
           done = IF job[h].cb THEN {h} ELSE {}
    PROVE  LET t == JobsDone(done, sched) IN
           /\ done \in SUBSET Busy /\ done \in SUBSET Jobs
           /\ Stopped => done = {}
           /\ job[h].cb => ~InWorker(h) /\ ~(wk.j = h /\ wk.pc \in Popped)
           /\ job[h].cb => job[h].at = "run" /\ ~job[h].finished
           /\ t \in SchedRecord /\ t.credits <= sched.credits /\ t.pending = sched.pending
           /\ t.fini = sched.fini /\ (t.guilty <=> sched.guilty) /\ (t.paused <=> sched.paused)
           /\ Stopped => t = sched
           /\ ~Stopped => t.credits = CostOf(Busy \ done)
<1> DEFINE t == JobsDone(done, sched)
<1>0. TypeOK /\ FencesOK /\ WorkerOK /\ TdrOK /\ CreditOK
  BY DEF IInv
<1>1. job[h].cb => job[h].at = "run" /\ ~job[h].finished
  BY <1>0 DEF FencesOK
<1>2. job[h].cb => ~InWorker(h) /\ ~(wk.j = h /\ wk.pc \in Popped)
  BY <1>0 DEF WorkerOK, Popped, InWorker
<1>3. done \in SUBSET Busy /\ done \in SUBSET Jobs
  BY <1>1, <1>2 DEF Busy
<1>4. Stopped => done = {}
  BY <1>0 DEF TdrOK
<1>5. /\ t \in SchedRecord /\ t.credits <= sched.credits /\ t.pending = sched.pending
      /\ t.fini = sched.fini /\ (t.guilty <=> sched.guilty) /\ (t.paused <=> sched.paused)
      /\ Stopped => t = sched
      /\ ~Stopped => t.credits = CostOf(Busy \ done)
  <2>1. CASE Stopped
    <3>1. t = sched
      BY <1>4, <2>1 DEF JobsDone
    <3>2. sched \in SchedRecord /\ sched.credits \in Nat
      BY <1>0 DEF TypeOK, SchedRecord
    <3> QED
      BY <2>1, <3>1, <3>2
  <2>2. CASE ~Stopped
    BY <1>0, <1>3, <2>2, DoneCredits
  <2> QED
    BY <2>1, <2>2
<1> QED
  BY <1>1, <1>2, <1>3, <1>4, <1>5

(* The fence of one job signals: drm_sched_job_done ends the job if it has  *)
(* the callback.                                                            *)
Ended(h, done, p, u) ==
    /\ done = IF job[h].cb THEN {h} ELSE {}
    /\ job' = [Finished(done, job) EXCEPT ![h].parent = p, ![h].cb = FALSE]
    /\ ent' = Woken(Waiting(FinishedFences(done)), ent)
    /\ wk' = wk /\ tdr' = tdr /\ ext' = ext
    /\ Like(JobsDone(done, sched), u)
    /\ sched' \in SchedRecord
    /\ sched'.credits = u.credits /\ sched'.pending = u.pending
    /\ sched'.guilty <=> u.guilty
    /\ sched'.paused <=> u.paused
    /\ sched'.runq <=> u.runq
    /\ sched'.freeq <=> u.freeq
    /\ sched'.late = u.late
    /\ \/ sched'.fini = sched.fini
       \/ ~Stopped /\ sched.fini = "cancel" /\ sched'.fini = "free"

LEMMA EndedStep ==
    ASSUME IInv, NEW h \in Jobs, NEW done \in SUBSET {h},
           NEW p \in {"none", "running", "hung", "signalled"}, NEW u, Ended(h, done, p, u)
    PROVE  IInv'
<1>0. TypeOK /\ QueueOK /\ FencesOK /\ WorkerOK /\ FiniOK /\ TdrOK /\ HandsOK /\ BusyOK
      /\ CreditOK /\ OrderOK /\ InOrder /\ DepOK /\ DepsHonoured
  BY DEF IInv
<1> DEFINE W == Waiting(FinishedFences(done))
           jb == Finished(done, job)
           r == [jb[h] EXCEPT !.parent = p, !.cb = FALSE]
           t == JobsDone(done, sched)
<1>1. /\ wk' = wk /\ job' = [jb EXCEPT ![h] = r] /\ ent' = Woken(W, ent)
      /\ tdr' = tdr /\ ext' = ext /\ done = IF job[h].cb THEN {h} ELSE {}
  BY DEF Ended
<1>2. job[h].cb => job[h].at = "run" /\ ~job[h].finished
  BY <1>0 DEF FencesOK
<1>3. /\ jb \in [Jobs -> JobRecord]
      /\ \A k \in Jobs : /\ jb[k].at = job[k].at /\ jb[k].prev = job[k].prev
                         /\ jb[k].deps = job[k].deps /\ jb[k].left = job[k].left
                         /\ jb[k].late <=> job[k].late
                         /\ jb[k].scheduled <=> job[k].scheduled
                         /\ jb[k].cb <=> job[k].cb
                         /\ jb[k].finished <=> job[k].finished \/ k \in done
  BY <1>0, FinishedContract DEF TypeOK
<1>4. jb[h] \in JobRecord
  BY <1>3
<1> HIDE DEF jb
<1>5. /\ r \in JobRecord /\ r.at = jb[h].at /\ r.prev = jb[h].prev /\ r.deps = jb[h].deps
      /\ r.left = jb[h].left /\ (r.late <=> jb[h].late) /\ (r.scheduled <=> jb[h].scheduled)
      /\ (r.finished <=> jb[h].finished) /\ ~r.cb
  BY <1>4 DEF JobRecord
<1> HIDE DEF r
<1>6. job' \in [Jobs -> JobRecord] /\ job'[h] = r /\ \A k \in Jobs \ {h} : job'[k] = jb[k]
  BY <1>1, <1>3, <1>5
<1>7. \A k \in Jobs : /\ job'[k].at = job[k].at /\ job'[k].prev = job[k].prev
                      /\ job'[k].deps = job[k].deps /\ job'[k].left = job[k].left
                      /\ job'[k].late <=> job[k].late
                      /\ job'[k].scheduled <=> job[k].scheduled
                      /\ job'[k].finished <=> job[k].finished \/ k \in done
                      /\ k # h => (job'[k].cb <=> job[k].cb)
  BY <1>3, <1>5, <1>6
<1>8. ~job'[h].cb /\ (job[h].cb <=> h \in done)
  BY <1>1, <1>5, <1>6
<1>9. \A k \in Jobs : InWorker(k)' <=> InWorker(k)
  BY <1>1 DEF InWorker
<1>10. job[h].cb => ~InWorker(h) /\ ~(wk.j = h /\ wk.pc \in Popped)
  BY <1>1, DoneOne
<1>11. done \in SUBSET Busy /\ done \in SUBSET Jobs
  BY <1>1, DoneOne
<1>12. Stopped => done = {}
  BY <1>1, DoneOne
<1>13. Busy' = Busy \ done
  BY <1>7, <1>9 DEF Busy
<1>14. /\ t \in SchedRecord /\ t.credits <= sched.credits /\ t.pending = sched.pending
       /\ t.fini = sched.fini /\ (t.guilty <=> sched.guilty) /\ (t.paused <=> sched.paused)
       /\ Stopped => t = sched
       /\ ~Stopped => t.credits = CostOf(Busy \ done)
  BY <1>1, DoneOne
<1> HIDE DEF t
<1>15. Stopped => Like(sched, sched')
  BY <1>14 DEF Ended, Like, t
<1>16. /\ sched' \in SchedRecord /\ sched'.credits = t.credits /\ sched'.pending = sched.pending
       /\ (sched'.guilty <=> sched.guilty) /\ (sched'.paused <=> sched.paused)
       /\ (sched'.fini = sched.fini \/ (sched.fini = "cancel" /\ sched'.fini = "free"))
  BY <1>14 DEF Ended, Like, t
<1>17. /\ ent' \in [Entities -> EntityRecord] /\ EntityLike(ent, ent')
       /\ \A e \in Entities : /\ ent'[e].idle <=> ent[e].idle
                              /\ ent'[e].dep = IF e \in W THEN None ELSE ent[e].dep
  BY <1>0, <1>1, WokenContract DEF TypeOK
<1>18. TypeOK'
  BY <1>0, <1>1, <1>6, <1>16, <1>17 DEF TypeOK
<1>19. FencesOK'
  <2> SUFFICES ASSUME NEW k \in Jobs
               PROVE  /\ job'[k].at \in {"new", "queue", "kill"} => ~job'[k].scheduled
                      /\ job'[k].at = "killed" => job'[k].finished
                      /\ job'[k].finished => job'[k].scheduled
                      /\ job'[k].cb => job'[k].at = "run" /\ ~job'[k].finished
                      /\ job'[k].at \in {"run", "freed"} =>
                           job'[k].scheduled \/ (wk'.j = k /\ wk'.pc \in {"requeue", "begin", "run"})
    BY DEF FencesOK
  <2>1. CASE k = h
    <3>1. job[h].cb => job[h].scheduled
      BY <1>0, <1>2, <1>10 DEF FencesOK, Popped
    <3> QED
      BY <1>0, <1>1, <1>7, <1>8, <2>1, <3>1 DEF FencesOK
  <2>2. CASE k # h
    BY <1>0, <1>1, <1>7, <2>2 DEF FencesOK
  <2> QED
    BY <2>1, <2>2
<1>20. WorkerOK'
  <2>1. wk.pc \in Popped => job'[wk.j].at = "run" /\ ~job'[wk.j].finished /\ ~job'[wk.j].cb
    BY <1>0, <1>7, <1>8, <1>10 DEF WorkerOK
  <2>2. wk.pc \in {"pop", "requeue", "begin"} => sched'.credits + Cost(wk.j) <= CreditLimit
    <3>1. ASSUME wk.pc \in {"pop", "requeue", "begin"}
          PROVE  wk.j \in Jobs /\ sched.credits + Cost(wk.j) <= CreditLimit
      BY <1>0, <3>1 DEF WorkerOK, Holding
    <3>2. sched'.credits <= sched.credits /\ sched'.credits \in Nat /\ sched.credits \in Nat
      BY <1>0, <1>14, <1>16 DEF TypeOK, SchedRecord
    <3> QED
      BY <3>1, <3>2, CostRange, SchedAssumption
  <2>3. wk.e # None => wk.e \in Entities
    BY <1>0 DEF TypeOK
  <2> QED
    BY <1>0, <1>1, <1>17, <2>1, <2>2, <2>3 DEF WorkerOK, EntityLike, Popped, Holding
<1>21. FiniOK'
  BY <1>0, <1>1, <1>16, <1>17 DEF FiniOK, EntityLike
<1>22. TdrOK'
  <2>1. CASE Stopped
    BY <1>0, <1>1, <1>7, <1>8, <1>12, <1>15, <2>1, KeepsTdr DEF TdrOK
  <2>2. CASE ~Stopped
    BY <1>0, <1>1, <1>7, <1>16, <2>2 DEF TdrOK, Stopped
  <2> QED
    BY <2>1, <2>2
<1>23. HandsOK'
  BY <1>0, <1>1, <1>7, <1>9, <1>16 DEF HandsOK, OnList, WithDriver
<1>24. BusyOK'
  BY <1>0, <1>1, <1>7, <1>8 DEF BusyOK, Stopped
<1>25. CreditOK'
  BY <1>0, <1>1, <1>13, <1>14, <1>16 DEF CreditOK, Stopped
<1>26. \A k \in Jobs : Carried(job[k], job'[k])
  BY <1>7 DEF Carried
<1>27. \A e \in Entities : \/ ent'[e].dep = ent[e].dep
                           \/ \E f \in Fences : f = ent[e].dep /\ Signalled(f, job)'
  <2>1. \A f \in FinishedFences(done) : f \in Fences /\ Signalled(f, job)'
    BY <1>7, <1>11, EndedFences
  <2> QED
    BY <1>17, <2>1, WokenDeps
<1>28. QueueOK' /\ OrderOK' /\ InOrder' /\ DepOK' /\ DepsHonoured'
  BY <1>0, <1>1, <1>17, <1>19, <1>26, <1>27, QueuesLeftAlone
<1> QED
  BY <1>18, <1>19, <1>20, <1>21, <1>22, <1>23, <1>24, <1>25, <1>28 DEF IInv

(* The hardware does that. *)
LEMMA HwDoneStep ==
    ASSUME IInv, NEW h \in Jobs, HwDone(h)
    PROVE  IInv'
<1>1. PICK done \in SUBSET {h} : done = IF job[h].cb THEN {h} ELSE {}
  OBVIOUS
<1> DEFINE W == Waiting(FinishedFences(done))
           t == JobsDone(done, sched)
           L == IF done = {} THEN {} ELSE {"free"}
<1>2. /\ job' = [Finished(done, job) EXCEPT ![h].parent = "signalled", ![h].cb = FALSE]
      /\ ent' = Woken(W, ent) /\ wk' = wk /\ tdr' = tdr /\ ext' = ext
      /\ sched' = Late(LateRun(W) \cup L, WakeSched(W, t))
  BY <1>1 DEF HwDone
<1>3. t \in SchedRecord /\ t.fini = sched.fini
  BY <1>1, DoneOne
<1>4. Like(t, sched')
  <2>1. L \in SUBSET {"run", "free"}
    OBVIOUS
  <2> HIDE DEF L, t
  <2> QED
    BY <1>2, <1>3, <2>1, OutsideContract
<1>5. sched' \in SchedRecord /\ sched'.fini = sched.fini
  BY <1>3, <1>4 DEF Like
<1> HIDE DEF L
<1>6. Ended(h, done, "signalled", sched')
  <2> HIDE DEF W
  <2>1. ent' = Woken(Waiting(FinishedFences(done)), ent)
    BY <1>2 DEF W
  <2> QED
    BY <1>1, <1>2, <1>4, <1>5, <2>1 DEF Ended
<1> QED
  BY <1>6, EndedStep

(* The first job of the list is freed if it is finished. *)
LEMMA FreeJobStep ==
    ASSUME IInv, FreeJob
    PROVE  IInv'
<1>0. TypeOK /\ QueueOK /\ FencesOK /\ WorkerOK /\ FiniOK /\ TdrOK /\ HandsOK /\ BusyOK
      /\ CreditOK /\ OrderOK /\ InOrder /\ DepOK /\ DepsHonoured
  BY DEF IInv
<1>1. wk.pc = "free" /\ sched \in SchedRecord /\ ent' = ent /\ tdr' = tdr /\ ext' = ext
  BY <1>0 DEF FreeJob, TypeOK
<1>2. wk.j = None /\ wk.e = None
  BY <1>0, <1>1 DEF WorkerOK, Holding
<1>3. ~Stopped /\ ~Stopped'
  BY <1>0, <1>1 DEF TdrOK, Stopped
<1>4. EntityLike(ent, ent')
  BY <1>1 DEF EntityLike
<1>5. CASE HeadFinished
  <2>1. PICK h : h = Head(sched.pending)
    OBVIOUS
  <2> DEFINE t == Tail(sched.pending)
             s == [sched EXCEPT !.pending = t, !.timer = FALSE]
  <2>2. /\ sched' = drm_sched_start_timeout(s) /\ job' = free_job({h}, job) /\ wk' = wk
        /\ sched.pending # <<>> /\ job[h].finished
    BY <1>5, <2>1 DEF FreeJob, HeadFinished
  <2>3. /\ h \in Jobs /\ h \in Range(sched.pending) /\ t \in Seq(Jobs) /\ IsInjective(t)
        /\ Range(t) = Range(sched.pending) \ {h}
    BY <1>0, <1>1, <2>1, <2>2, ListHead DEF HandsOK, SchedRecord
  <2> HIDE DEF t
  <2>4. /\ s \in SchedRecord /\ s.credits = sched.credits /\ s.fini = sched.fini
        /\ s.pending = t /\ (s.guilty <=> sched.guilty) /\ (s.paused <=> sched.paused)
    BY <1>1, <2>3 DEF SchedRecord
  <2> HIDE DEF s
  <2>5. /\ sched' \in SchedRecord /\ sched'.credits = sched.credits /\ sched'.fini = sched.fini
        /\ sched'.pending = t /\ (sched'.guilty <=> sched.guilty) /\ (sched'.paused <=> sched.paused)
    BY <2>2, <2>4, QueueingContract DEF Like
  <2>6. /\ job' \in [Jobs -> JobRecord]
        /\ \A k \in Jobs : /\ job'[k].late <=> job[k].late
                           /\ job'[k].scheduled <=> job[k].scheduled
                           /\ job'[k].finished <=> job[k].finished
        /\ job'[h].at = "freed" /\ job'[h].deps = {} /\ ~job'[h].cb
        /\ \A k \in Jobs \ {h} : job'[k] = job[k]
    BY <1>0, <2>2, <2>3, FreedContract, SMTT(30) DEF TypeOK
  <2>7. OnList(h) /\ job[h].at = "run"
    BY <1>0, <2>3 DEF OnList, HandsOK
  <2>8. TypeOK'
    BY <1>0, <1>1, <2>2, <2>5, <2>6 DEF TypeOK
  <2>9. FencesOK'
    <3>1. job[h].scheduled /\ wk'.j = wk.j /\ wk'.pc = wk.pc
      BY <1>0, <2>2, <2>3 DEF FencesOK
    <3> SUFFICES ASSUME NEW k \in Jobs
                 PROVE  /\ job'[k].at \in {"new", "queue", "kill"} => ~job'[k].scheduled
                        /\ job'[k].at = "killed" => job'[k].finished
                        /\ job'[k].finished => job'[k].scheduled
                        /\ job'[k].cb => job'[k].at = "run" /\ ~job'[k].finished
                        /\ job'[k].at \in {"run", "freed"} =>
                             job'[k].scheduled \/ (wk'.j = k /\ wk'.pc \in {"requeue", "begin", "run"})
      BY DEF FencesOK
    <3>2. CASE k = h
      BY <2>6, <3>1, <3>2
    <3>3. CASE k # h
      BY <1>0, <2>2, <2>6, <3>3, ZenonT(60) DEF FencesOK
    <3> QED
      BY <3>2, <3>3
  <2>10. WorkerOK'
    BY <1>1, <1>2, <2>2 DEF WorkerOK, Popped, Holding
  <2>11. FiniOK'
    BY <1>0, <1>1, <2>2, <2>5 DEF FiniOK
  <2>12. TdrOK'
    BY <1>0, <1>1, <1>3, <2>5, <2>6 DEF TdrOK
  <2>13. \A k \in Jobs : ~InWorker(k) /\ ~InWorker(k)'
    BY <1>1, <2>2 DEF InWorker
  <2>14. HandsOK'
    <3>1. \A k \in Jobs : OnList(k)' <=> OnList(k) /\ k # h
      BY <2>3, <2>5 DEF OnList
    <3>2. \A k \in Jobs : WithDriver(k)' <=> WithDriver(k)
      BY <1>1, <2>5 DEF WithDriver
    <3> QED
      BY <1>0, <2>3, <2>5, <2>6, <2>7, <2>13, <3>1, <3>2 DEF HandsOK
  <2>15. BusyOK'
    BY <1>0, <1>3, <2>2, <2>6 DEF BusyOK
  <2>16. CreditOK'
    <3>1. Busy' = Busy
      BY <2>2, <2>6, <2>13 DEF Busy
    <3> QED
      BY <1>0, <1>3, <2>5, <3>1 DEF CreditOK
  <2>17. \A k \in Jobs : Carried(job[k], job'[k])
    BY <2>6, <2>7 DEF Carried
  <2>18. QueueOK' /\ OrderOK' /\ InOrder' /\ DepOK' /\ DepsHonoured'
    BY <1>0, <1>1, <1>4, <2>9, <2>17, QueuesLeftAlone
  <2> QED
    BY <2>8, <2>9, <2>10, <2>11, <2>12, <2>14, <2>15, <2>16, <2>18 DEF IInv
<1>6. CASE ~HeadFinished
  <2>1. sched' = drm_sched_run_job_queue(sched) /\ wk' = IdleWork /\ job' = job
    BY <1>6 DEF FreeJob
  <2>2. Like(sched, sched')
    BY <1>1, <2>1, QueueingContract
  <2>3. wk'.pc = "idle" /\ wk'.e = None /\ wk'.j = None
    BY <2>1 DEF IdleWork
  <2>4. TypeOK'
    BY <1>0, <1>1, <2>1, <2>2 DEF TypeOK, Like, IdleWork
  <2>5. FencesOK'
    BY <1>0, <1>1, <2>1 DEF FencesOK
  <2>6. WorkerOK'
    BY <2>3 DEF WorkerOK, Popped, Holding
  <2>7. FiniOK'
    BY <1>0, <1>1, <2>2, <2>3 DEF FiniOK, Like
  <2>8. TdrOK'
    BY <1>0, <1>1, <1>3, <2>1, <2>2 DEF TdrOK, Like
  <2>9. \A k \in Jobs : ~InWorker(k) /\ ~InWorker(k)'
    BY <1>1, <2>3 DEF InWorker
  <2>10. HandsOK'
    BY <1>0, <1>1, <2>1, <2>2, <2>9 DEF HandsOK, OnList, WithDriver, Like
  <2>11. BusyOK'
    BY <1>0, <1>1, <1>3, <2>1 DEF BusyOK, Popped
  <2>12. CreditOK'
    <3>1. Busy' = Busy
      BY <2>1, <2>9 DEF Busy
    <3> QED
      BY <1>0, <1>3, <2>2, <3>1 DEF CreditOK, Like
  <2> QED
    BY <1>1, <2>1, <2>4, <2>5, <2>6, <2>7, <2>8, <2>10, <2>11, <2>12, JobsLeftAlone DEF IInv
<1> QED
  BY <1>5, <1>6

-----------------------------------------------------------------------------
(* The reset *)

(* What the removal of the callbacks changes in the jobs. *)
LEMMA DeactivatedContract ==
    ASSUME NEW jb \in [Jobs -> JobRecord], NEW S
    PROVE  /\ Deactivated(S, jb) \in [Jobs -> JobRecord]
           /\ \A k \in Jobs :
                /\ Deactivated(S, jb)[k].at = jb[k].at /\ Deactivated(S, jb)[k].prev = jb[k].prev
                /\ Deactivated(S, jb)[k].deps = jb[k].deps /\ Deactivated(S, jb)[k].left = jb[k].left
                /\ Deactivated(S, jb)[k].late <=> jb[k].late
                /\ Deactivated(S, jb)[k].scheduled <=> jb[k].scheduled
                /\ Deactivated(S, jb)[k].finished <=> jb[k].finished
                /\ Deactivated(S, jb)[k].cb <=> jb[k].cb /\ k \notin S
<1> SUFFICES ASSUME NEW k \in Jobs
             PROVE  /\ Deactivated(S, jb)[k] \in JobRecord
                    /\ Deactivated(S, jb)[k].at = jb[k].at /\ Deactivated(S, jb)[k].prev = jb[k].prev
                    /\ Deactivated(S, jb)[k].deps = jb[k].deps
                    /\ Deactivated(S, jb)[k].left = jb[k].left
                    /\ Deactivated(S, jb)[k].late <=> jb[k].late
                    /\ Deactivated(S, jb)[k].scheduled <=> jb[k].scheduled
                    /\ Deactivated(S, jb)[k].finished <=> jb[k].finished
                    /\ Deactivated(S, jb)[k].cb <=> jb[k].cb /\ k \notin S
  BY DEF Deactivated
<1>1. jb[k] \in JobRecord
  OBVIOUS
<1>2. CASE k \notin S
  BY <1>1, <1>2 DEF Deactivated
<1>3. CASE k \in S
  <2>1. Deactivated(S, jb)[k] = [jb[k] EXCEPT !.cb = FALSE, !.parent = "none"]
    BY <1>3 DEF Deactivated
  <2> QED
    BY <1>1, <1>3, <2>1, ZenonT(60) DEF JobRecord
<1> QED
  BY <1>2, <1>3

(* drm_sched_stop sorts the listed jobs and the bad one: those whose        *)
(* callback it removes stay, with their credits given back, the others are  *)
(* finished and freed.                                                      *)
LEMMA StopStep ==
    ASSUME IInv, Stop
    PROVE  IInv'
<1>0. TypeOK /\ QueueOK /\ FencesOK /\ WorkerOK /\ FiniOK /\ TdrOK /\ HandsOK /\ BusyOK
      /\ CreditOK /\ OrderOK /\ InOrder /\ DepOK /\ DepsHonoured
  BY DEF IInv
<1>a. PICK h \in Jobs : h = tdr.j
  BY <1>0 DEF Stop, TdrOK
<1>b. PICK list : list = <<h>> \o sched.pending
  OBVIOUS
<1>c. PICK alive : alive = {j \in Range(list) : job[j].cb}
  OBVIOUS
<1> DEFINE F == Range(list) \ (alive \cup {h})
           kept == Kept(list, alive)
           c == sched.credits - CostOf(alive)
           g == h \notin alive
           jb == Deactivated(alive, job)
<1>1. /\ tdr.pc = "stop" /\ wk.pc = "idle"
      /\ \A j \in Range(list) \ alive : job[j].finished
      /\ job' = free_job(F, jb)
      /\ sched' = [sched EXCEPT !.runq = FALSE, !.freeq = FALSE, !.late = {},
                                !.timer = FALSE, !.pending = kept, !.credits = c, !.guilty = g]
      /\ tdr' = [tdr EXCEPT !.pc = "stopped"]
      /\ ent' = ent /\ wk' = wk /\ ext' = ext
  <2>1. ("run" \in {}) = FALSE /\ ("free" \in {}) = FALSE
    OBVIOUS
  <2> QED
    BY <1>a, <1>b, <1>c, <2>1 DEF Stop, Cancelled
<1>2. /\ sched \in SchedRecord /\ sched.paused /\ ~sched.guilty /\ wk.j = None
      /\ WithDriver(h) /\ ~OnList(h) /\ job[h].at = "run"
  BY <1>0, <1>a, <1>1 DEF TypeOK, TdrOK, WorkerOK, WithDriver, HandsOK
<1>3. list \in Seq(Jobs) /\ IsInjective(list) /\ Range(list) = Range(sched.pending) \cup {h}
  BY <1>0, <1>b, <1>2, ListAdd DEF HandsOK, OnList, SchedRecord
<1>4. kept \in Seq(Jobs) /\ IsInjective(kept) /\ Range(kept) = Range(list) \cap alive
  BY <1>3, KeptContract
<1>5. ~Stopped /\ tdr'.pc = "stopped" /\ tdr'.j = h /\ Stopped'
      /\ tdr' \in [pc: {"idle", "driver", "stop", "walk", "walked", "oops",
                        "stopped", "resubmitted", "reset"},
                   j: Jobs \cup {None}]
  BY <1>0, <1>a, <1>1 DEF Stopped, TypeOK
<1>6. \A k \in Jobs : ~InWorker(k) /\ ~InWorker(k)'
  BY <1>1 DEF InWorker
<1>7. \A k \in Jobs : job[k].at = "run" <=> k \in Range(list)
  <2>1. \A k \in Jobs : WithDriver(k) <=> k = h
    BY <1>a, <1>2 DEF WithDriver
  <2> QED
    BY <1>0, <1>3, <1>6, <2>1 DEF HandsOK, OnList
<1>8. Busy = alive
  <2>1. \A k \in Busy : k \in alive
    BY <1>0, <1>c, <1>1, <1>2, <1>5, <1>7, NoneApart DEF Busy, BusyOK
  <2>2. \A k \in alive : k \in Jobs
    BY <1>c, <1>3 DEF Range
  <2>3. \A k \in alive : k \in Busy
    BY <1>0, <1>c, <1>6, <2>2 DEF Busy, FencesOK
  <2> QED
    BY <2>1, <2>3
<1>9. c = 0
  <2>1. sched.credits = CostOf(alive)
    BY <1>0, <1>5, <1>8 DEF CreditOK
  <2>2. sched.credits \in Nat
    BY <1>2 DEF SchedRecord
  <2> QED
    BY <2>1, <2>2
<1>10. g \in BOOLEAN
  OBVIOUS
<1> HIDE DEF kept, c, g
<1>11. /\ sched' \in SchedRecord /\ sched'.credits = 0 /\ sched'.pending = kept
       /\ sched'.fini = sched.fini /\ sched'.paused /\ ~sched'.runq /\ ~sched'.freeq
       /\ (sched'.guilty <=> h \notin alive) /\ sched'.late = {}
  <2>1. /\ sched' \in SchedRecord /\ sched'.credits = c /\ sched'.pending = kept
       /\ sched'.fini = sched.fini /\ (sched'.paused <=> sched.paused)
       /\ ~sched'.runq /\ ~sched'.freeq /\ (sched'.guilty <=> g) /\ sched'.late = {}
    BY <1>1, <1>2, <1>4, <1>9, <1>10 DEF SchedRecord
  <2> QED
    BY <1>2, <1>9, <2>1 DEF g
<1>12. /\ jb \in [Jobs -> JobRecord]
       /\ \A k \in Jobs : /\ jb[k].at = job[k].at /\ jb[k].prev = job[k].prev
                          /\ jb[k].deps = job[k].deps /\ jb[k].left = job[k].left
                          /\ jb[k].late <=> job[k].late
                          /\ jb[k].scheduled <=> job[k].scheduled
                          /\ jb[k].finished <=> job[k].finished
                          /\ jb[k].cb <=> job[k].cb /\ k \notin alive
  BY <1>0, DeactivatedContract DEF TypeOK
<1> HIDE DEF jb, F
<1>13. /\ job' \in [Jobs -> JobRecord]
       /\ \A k \in Jobs : /\ job'[k].late <=> jb[k].late
                          /\ job'[k].scheduled <=> jb[k].scheduled
                          /\ job'[k].finished <=> jb[k].finished
                          /\ k \in F => job'[k].at = "freed" /\ job'[k].deps = {} /\ ~job'[k].cb
                          /\ k \notin F => job'[k] = jb[k]
  BY <1>1, <1>12, FreedContract
<1>14. \A k \in Jobs : /\ job'[k].late <=> job[k].late
                       /\ job'[k].scheduled <=> job[k].scheduled
                       /\ job'[k].finished <=> job[k].finished
                       /\ k \in F => job'[k].at = "freed" /\ job'[k].deps = {} /\ job[k].at = "run"
                       /\ k \notin F => /\ job'[k].at = job[k].at /\ job'[k].prev = job[k].prev
                                        /\ job'[k].deps = job[k].deps /\ job'[k].left = job[k].left
  BY <1>7, <1>12, <1>13 DEF F
<1>15. \A k \in Jobs : ~job'[k].cb
  <2>1. \A k \in Jobs : job[k].cb => k \in alive
    BY <1>0, <1>c, <1>7 DEF FencesOK
  <2> QED
    BY <1>12, <1>13, <2>1
<1>16. TypeOK'
  BY <1>0, <1>1, <1>5, <1>11, <1>13 DEF TypeOK
<1>17. FencesOK'
  <2> SUFFICES ASSUME NEW k \in Jobs
               PROVE  /\ job'[k].at \in {"new", "queue", "kill"} => ~job'[k].scheduled
                      /\ job'[k].at = "killed" => job'[k].finished
                      /\ job'[k].finished => job'[k].scheduled
                      /\ job'[k].at \in {"run", "freed"} => job'[k].scheduled
    BY <1>15 DEF FencesOK
  <2> QED
    BY <1>0, <1>1, <1>14 DEF FencesOK
<1>18. WorkerOK'
  BY <1>0, <1>1, <1>2 DEF WorkerOK, Popped, Holding
<1>19. FiniOK'
  BY <1>0, <1>1, <1>11 DEF FiniOK
<1>20. \A k \in Jobs : OnList(k)' <=> k \in alive
  BY <1>c, <1>4, <1>11 DEF OnList
<1>21. TdrOK'
  <2>1. sched'.guilty => job'[h].finished
    BY <1>1, <1>3, <1>11, <1>14
  <2>2. \A k \in Jobs : OnList(k)' => ~job'[k].finished
    BY <1>0, <1>c, <1>14, <1>20 DEF FencesOK
  <2> QED
    BY <1>1, <1>5, <1>11, <1>15, <2>1, <2>2 DEF TdrOK
<1>22. HandsOK'
  <2>1. \A k \in Jobs : WithDriver(k)' <=> k = h /\ h \notin alive
    BY <1>5, <1>11 DEF WithDriver
  <2>2. \A k \in Jobs : job'[k].at = "run" <=> k \in alive \/ k = h
    BY <1>c, <1>2, <1>7, <1>14 DEF F
  <2> QED
    BY <1>4, <1>6, <1>11, <1>20, <2>1, <2>2 DEF HandsOK
<1>23. BusyOK'
  BY <1>5 DEF BusyOK
<1>24. CreditOK'
  BY <1>5, <1>11 DEF CreditOK
<1>25. \A k \in Jobs : Carried(job[k], job'[k])
  BY <1>14 DEF Carried
<1>26. EntityLike(ent, ent')
  BY <1>1 DEF EntityLike
<1>27. QueueOK' /\ OrderOK' /\ InOrder' /\ DepOK' /\ DepsHonoured'
  BY <1>0, <1>1, <1>17, <1>25, <1>26, QueuesLeftAlone
<1> QED
  BY <1>16, <1>17, <1>18, <1>19, <1>21, <1>22, <1>23, <1>24, <1>27 DEF IInv

(* The hardware fences of listed jobs are replaced. *)
LEMMA ResubmitStep ==
    ASSUME IInv, Resubmit
    PROVE  IInv'
<1>0. TypeOK /\ QueueOK /\ FencesOK /\ WorkerOK /\ FiniOK /\ TdrOK /\ HandsOK /\ BusyOK
      /\ CreditOK /\ OrderOK /\ InOrder /\ DepOK /\ DepsHonoured
  BY DEF IInv
<1>1. PICK hw \in [Range(sched.pending) -> {"none", "running", "hung"}] :
         job' = [j \in Jobs |-> IF j \in Range(sched.pending)
                                THEN [job[j] EXCEPT !.parent = hw[j]] ELSE job[j]]
  BY DEF Resubmit
<1>2. /\ tdr.pc = "stopped" /\ tdr' = [tdr EXCEPT !.pc = "resubmitted"]
      /\ ent' = ent /\ sched' = sched /\ wk' = wk /\ ext' = ext
  BY DEF Resubmit
<1>3. Stopped /\ Stopped' /\ tdr'.pc = "resubmitted" /\ tdr'.j = tdr.j
      /\ tdr' \in [pc: {"idle", "driver", "stop", "walk", "walked", "oops",
                        "stopped", "resubmitted", "reset"},
                   j: Jobs \cup {None}]
  BY <1>0, <1>2 DEF Stopped, TypeOK
<1>4. ASSUME NEW k \in Jobs
      PROVE  /\ job'[k] \in JobRecord
             /\ job'[k].at = job[k].at /\ job'[k].prev = job[k].prev
             /\ job'[k].deps = job[k].deps /\ job'[k].left = job[k].left
             /\ job'[k].late <=> job[k].late
             /\ job'[k].scheduled <=> job[k].scheduled
             /\ job'[k].finished <=> job[k].finished
             /\ job'[k].cb <=> job[k].cb
  <2>1. job[k] \in JobRecord
    BY <1>0 DEF TypeOK
  <2>2. CASE k \in Range(sched.pending)
    <3>1. PICK p \in {"none", "running", "hung"} : job'[k] = [job[k] EXCEPT !.parent = p]
      BY <1>1, <2>2
    <3> QED
      BY <2>1, <3>1 DEF JobRecord
  <2>3. CASE k \notin Range(sched.pending)
    BY <1>1, <2>1, <2>3
  <2> QED
    BY <2>2, <2>3
<1>5. job' \in [Jobs -> JobRecord]
  BY <1>1, <1>4
<1>6. TypeOK'
  BY <1>0, <1>2, <1>3, <1>5 DEF TypeOK
<1>7. FencesOK'
  BY <1>0, <1>2, <1>4 DEF FencesOK
<1>8. WorkerOK'
  BY <1>0, <1>2, <1>4 DEF WorkerOK, Popped, Holding
<1>9. FiniOK'
  BY <1>0, <1>2 DEF FiniOK
<1>10. TdrOK'
  <2>1. tdr.j \in Jobs
    BY <1>0, <1>2 DEF TdrOK
  <2> QED
    BY <1>0, <1>2, <1>3, <1>4, <2>1 DEF TdrOK, OnList
<1>11. HandsOK'
  BY <1>0, <1>2, <1>3, <1>4 DEF HandsOK, OnList, WithDriver, InWorker
<1>12. BusyOK'
  BY <1>3 DEF BusyOK
<1>13. CreditOK'
  BY <1>0, <1>2, <1>3 DEF CreditOK
<1>14. \A k \in Jobs : Carried(job[k], job'[k])
  BY <1>4 DEF Carried
<1>15. EntityLike(ent, ent')
  BY <1>2 DEF EntityLike
<1>16. QueueOK' /\ OrderOK' /\ InOrder' /\ DepOK' /\ DepsHonoured'
  BY <1>0, <1>2, <1>7, <1>14, <1>15, QueuesLeftAlone
<1> QED
  BY <1>6, <1>7, <1>8, <1>9, <1>10, <1>11, <1>12, <1>13, <1>16 DEF IInv

(* drm_sched_start takes the credits again and ends the jobs that have no   *)
(* hardware fence.                                                          *)
LEMMA StartStep ==
    ASSUME IInv, Start
    PROVE  IInv'
<1>0. TypeOK /\ QueueOK /\ FencesOK /\ WorkerOK /\ FiniOK /\ TdrOK /\ HandsOK /\ BusyOK
      /\ CreditOK /\ OrderOK /\ InOrder /\ DepOK /\ DepsHonoured
  BY DEF IInv
<1>a. PICK P : P = Range(sched.pending)
  OBVIOUS
<1>b. PICK done : done = {j \in P : job[j].parent \in {"none", "signalled"}}
  OBVIOUS
<1> DEFINE W == Waiting(FinishedFences(done))
           jb == Finished(done, job)
           c == sched.credits + CostOf(P)
           s == [sched EXCEPT !.credits = c]
           t == JobsDone(done, s)
           u == [t EXCEPT !.paused = FALSE, !.runq = TRUE, !.freeq = TRUE]
<1>1. /\ tdr.pc \in {"stopped", "resubmitted"}
      /\ job' = [j \in Jobs |-> IF j \in P \ done THEN [job[j] EXCEPT !.cb = TRUE] ELSE jb[j]]
      /\ ent' = Woken(W, ent)
      /\ sched' = drm_sched_start_timeout(u)
      /\ tdr' = [tdr EXCEPT !.pc = "reset"]
      /\ wk' = wk /\ ext' = ext
  BY <1>a, <1>b DEF Start
<1>2. /\ sched \in SchedRecord /\ Stopped /\ ~Stopped' /\ wk.pc = "idle" /\ wk.j = None
      /\ sched.credits = 0 /\ tdr'.pc = "reset" /\ tdr'.j = tdr.j /\ tdr.j \in Jobs
      /\ tdr' \in [pc: {"idle", "driver", "stop", "walk", "walked", "oops",
                        "stopped", "resubmitted", "reset"},
                   j: Jobs \cup {None}]
  BY <1>0, <1>1 DEF TypeOK, Stopped, TdrOK, WorkerOK, CreditOK
<1>3. P \in SUBSET Jobs /\ done \in SUBSET P /\ done \in SUBSET Jobs
  BY <1>0, <1>a, <1>b, Places DEF OnList
<1>4. /\ CostOf(P \ done) = CostOf(P) - CostOf(done) /\ CostOf(done) <= CostOf(P)
      /\ CostOf(P) \in Nat /\ CostOf(done) \in Nat /\ CostOf(P \ done) \in Nat
  BY <1>3, CostOfRest
<1>5. c = CostOf(P) /\ c \in Nat
  BY <1>2, <1>4
<1> HIDE DEF c
<1>6. /\ s \in SchedRecord /\ s.credits = c /\ s.pending = sched.pending
      /\ s.fini = sched.fini /\ (s.guilty <=> sched.guilty)
  BY <1>2, <1>5 DEF SchedRecord
<1> HIDE DEF s
<1> DEFINE d == s.credits - CostOf(done)
           v == [s EXCEPT !.credits = d]
<1>7. d = CostOf(P \ done) /\ d \in Nat
  BY <1>4, <1>5, <1>6
<1>8. Like(v, t)
  BY <1>3, <1>4, <1>5, <1>6, JobsDoneContract
<1> HIDE DEF d, t
<1>9. /\ v \in SchedRecord /\ v.credits = d /\ v.pending = sched.pending
      /\ v.fini = sched.fini /\ (v.guilty <=> sched.guilty)
  BY <1>6, <1>7 DEF SchedRecord
<1> HIDE DEF v
<1>10. /\ t \in SchedRecord /\ t.credits = d /\ t.pending = sched.pending
       /\ t.fini = sched.fini /\ (t.guilty <=> sched.guilty)
  BY <1>8, <1>9 DEF Like
<1>11. /\ u \in SchedRecord /\ u.credits = d /\ u.pending = sched.pending
       /\ u.fini = sched.fini /\ (u.guilty <=> sched.guilty)
  BY <1>10 DEF SchedRecord
<1> HIDE DEF u
<1>12. /\ sched' \in SchedRecord /\ sched'.credits = CostOf(P \ done)
       /\ sched'.pending = sched.pending /\ sched'.fini = sched.fini
       /\ (sched'.guilty <=> sched.guilty)
  BY <1>1, <1>7, <1>11, QueueingContract DEF Like
<1>13. /\ jb \in [Jobs -> JobRecord]
       /\ \A k \in Jobs : /\ jb[k].at = job[k].at /\ jb[k].prev = job[k].prev
                          /\ jb[k].deps = job[k].deps /\ jb[k].left = job[k].left
                          /\ jb[k].late <=> job[k].late
                          /\ jb[k].scheduled <=> job[k].scheduled
                          /\ jb[k].cb <=> job[k].cb
                          /\ jb[k].finished <=> job[k].finished \/ k \in done
  BY <1>0, FinishedContract DEF TypeOK
<1> HIDE DEF jb
<1>14. ASSUME NEW k \in Jobs
       PROVE  /\ job'[k] \in JobRecord
              /\ job'[k].at = job[k].at /\ job'[k].prev = job[k].prev
              /\ job'[k].deps = job[k].deps /\ job'[k].left = job[k].left
              /\ job'[k].late <=> job[k].late
              /\ job'[k].scheduled <=> job[k].scheduled
              /\ job'[k].finished <=> job[k].finished \/ k \in done
              /\ job'[k].cb <=> job[k].cb \/ k \in P \ done
  <2>1. job[k] \in JobRecord
    BY <1>0 DEF TypeOK
  <2>2. CASE k \in P \ done
    <3>1. job'[k] = [job[k] EXCEPT !.cb = TRUE]
      BY <1>1, <2>2
    <3> QED
      BY <2>1, <2>2, <3>1 DEF JobRecord
  <2>3. CASE k \notin P \ done
    <3>1. job'[k] = jb[k]
      BY <1>1, <2>3
    <3> QED
      BY <1>13, <2>3, <3>1
  <2> QED
    BY <2>2, <2>3
<1>15. job' \in [Jobs -> JobRecord]
  BY <1>1, <1>14
<1>16. \A k \in Jobs : ~job[k].cb /\ (k \in P => job[k].at = "run" /\ ~job[k].finished)
  BY <1>0, <1>a, <1>2 DEF TdrOK, HandsOK, OnList
<1>17. \A k \in Jobs : ~InWorker(k) /\ ~InWorker(k)'
  BY <1>1, <1>2 DEF InWorker
<1>18. \A k \in Jobs : job[k].at = "run" /\ ~job[k].finished => k \in P
  <2>1. \A k \in Jobs : WithDriver(k) => job[k].finished
    BY <1>0, <1>1 DEF TdrOK, WithDriver
  <2> QED
    BY <1>0, <1>a, <1>17, <2>1 DEF HandsOK, OnList
<1>19. /\ ent' \in [Entities -> EntityRecord] /\ EntityLike(ent, ent')
       /\ \A e \in Entities : /\ ent'[e].idle <=> ent[e].idle
                              /\ ent'[e].dep = IF e \in W THEN None ELSE ent[e].dep
  BY <1>0, <1>1, WokenContract DEF TypeOK
<1>20. TypeOK'
  BY <1>0, <1>1, <1>2, <1>12, <1>15, <1>19 DEF TypeOK
<1>21. FencesOK'
  <2> SUFFICES ASSUME NEW k \in Jobs
               PROVE  /\ job'[k].at \in {"new", "queue", "kill"} => ~job'[k].scheduled
                      /\ job'[k].at = "killed" => job'[k].finished
                      /\ job'[k].finished => job'[k].scheduled
                      /\ job'[k].cb => job'[k].at = "run" /\ ~job'[k].finished
                      /\ job'[k].at \in {"run", "freed"} => job'[k].scheduled
    BY DEF FencesOK
  <2>1. job[k].at \in {"run", "freed"} => job[k].scheduled
    BY <1>0, <1>2 DEF FencesOK
  <2>2. k \in P => job[k].at = "run" /\ job[k].scheduled /\ ~job[k].finished
    BY <1>16, <2>1
  <2>3. k \in done => k \in P
    BY <1>3
  <2> QED
    BY <1>0, <1>14, <1>16, <2>1, <2>2, <2>3 DEF FencesOK
<1>22. WorkerOK'
  BY <1>0, <1>1, <1>2 DEF WorkerOK, Popped, Holding
<1>23. FiniOK'
  BY <1>0, <1>1, <1>12, <1>19 DEF FiniOK, EntityLike
<1>24. TdrOK'
  <2>1. sched'.guilty => job'[tdr.j].finished
    BY <1>0, <1>2, <1>12, <1>14 DEF TdrOK
  <2> QED
    BY <1>2, <2>1 DEF TdrOK
<1>25. HandsOK'
  <2>1. \A k \in Jobs : (OnList(k)' <=> OnList(k)) /\ (WithDriver(k)' <=> WithDriver(k))
    BY <1>1, <1>2, <1>12 DEF OnList, WithDriver
  <2> QED
    BY <1>0, <1>12, <1>14, <1>17, <2>1 DEF HandsOK
<1>26. BusyOK'
  BY <1>14, <1>18 DEF BusyOK
<1>27. CreditOK'
  <2>1. Busy' = P \ done
    BY <1>3, <1>14, <1>16, <1>17, <1>18 DEF Busy
  <2> QED
    BY <1>2, <1>12, <2>1 DEF CreditOK
<1>28. \A k \in Jobs : Carried(job[k], job'[k])
  BY <1>14 DEF Carried
<1>29. \A e \in Entities : \/ ent'[e].dep = ent[e].dep
                           \/ \E f \in Fences : f = ent[e].dep /\ Signalled(f, job)'
  <2>1. \A f \in FinishedFences(done) : f \in Fences /\ Signalled(f, job)'
    BY <1>3, <1>14, EndedFences
  <2> QED
    BY <1>19, <2>1, WokenDeps
<1>30. QueueOK' /\ OrderOK' /\ InOrder' /\ DepOK' /\ DepsHonoured'
  BY <1>0, <1>1, <1>19, <1>21, <1>28, <1>29, QueuesLeftAlone
<1> QED
  BY <1>20, <1>21, <1>22, <1>23, <1>24, <1>25, <1>26, <1>27, <1>30 DEF IInv

(* The timeout worker frees the guilty job, which is over. *)
LEMMA TdrEndStep ==
    ASSUME IInv, TdrEnd
    PROVE  IInv'
<1>0. TypeOK /\ QueueOK /\ FencesOK /\ WorkerOK /\ FiniOK /\ TdrOK /\ HandsOK /\ BusyOK
      /\ CreditOK /\ OrderOK /\ InOrder /\ DepOK /\ DepsHonoured
  BY DEF IInv
<1>a. PICK h \in Jobs : h = tdr.j
  BY <1>0 DEF TdrEnd, TdrOK
<1>b. PICK F \in SUBSET {h} : F = IF sched.guilty THEN {h} ELSE {}
  OBVIOUS
<1> DEFINE s == [sched EXCEPT !.guilty = FALSE]
<1>1. /\ tdr.pc = "reset" /\ job' = free_job(F, job)
      /\ sched' = drm_sched_start_timeout(s)
      /\ tdr' = IdleTdr /\ ent' = ent /\ wk' = wk /\ ext' = ext
  <2>1. ~sched.guilty => free_job(F, job) = job
    BY <1>0, <1>b DEF free_job, TypeOK
  <2> QED
    BY <1>a, <1>b, <2>1 DEF TdrEnd
<1>2. /\ sched \in SchedRecord /\ ~Stopped /\ ~Stopped' /\ tdr'.pc = "idle" /\ tdr'.j = None
      /\ (h \in F <=> sched.guilty) /\ (sched.guilty => job[h].finished)
  BY <1>0, <1>a, <1>b, <1>1 DEF TypeOK, Stopped, IdleTdr, TdrOK
<1>3. /\ s \in SchedRecord /\ s.credits = sched.credits /\ s.fini = sched.fini
      /\ s.pending = sched.pending /\ ~s.guilty
  BY <1>2 DEF SchedRecord
<1> HIDE DEF s
<1>4. /\ sched' \in SchedRecord /\ sched'.credits = sched.credits /\ sched'.fini = sched.fini
      /\ sched'.pending = sched.pending /\ ~sched'.guilty
  BY <1>1, <1>3, QueueingContract DEF Like
<1>5. \A k \in Jobs : (WithDriver(k) <=> k \in F) /\ ~WithDriver(k)'
  BY <1>a, <1>b, <1>1, <1>2, <1>4, NoneApart DEF WithDriver
<1>6. /\ job' \in [Jobs -> JobRecord]
      /\ \A k \in Jobs : /\ job'[k].late <=> job[k].late
                         /\ job'[k].scheduled <=> job[k].scheduled
                         /\ job'[k].finished <=> job[k].finished
                         /\ k \in F => job'[k].at = "freed" /\ job'[k].deps = {} /\ ~job'[k].cb
                         /\ k \notin F => job'[k] = job[k]
  BY <1>0, <1>1, FreedContract DEF TypeOK
<1>7. \A k \in Jobs : k \in F => job[k].at = "run" /\ job[k].finished
  BY <1>0, <1>b, <1>2, <1>5 DEF HandsOK
<1>8. TypeOK'
  BY <1>0, <1>1, <1>4, <1>6 DEF TypeOK, IdleTdr
<1>9. FencesOK'
  <2> SUFFICES ASSUME NEW k \in Jobs
               PROVE  /\ job'[k].at \in {"new", "queue", "kill"} => ~job'[k].scheduled
                      /\ job'[k].at = "killed" => job'[k].finished
                      /\ job'[k].finished => job'[k].scheduled
                      /\ job'[k].cb => job'[k].at = "run" /\ ~job'[k].finished
                      /\ job'[k].at \in {"run", "freed"} =>
                           job'[k].scheduled \/ (wk'.j = k /\ wk'.pc \in {"requeue", "begin", "run"})
    BY DEF FencesOK
  <2>1. CASE k \in F
    BY <1>0, <1>6, <1>7, <2>1 DEF FencesOK
  <2>2. CASE k \notin F
    BY <1>0, <1>1, <1>6, <2>2 DEF FencesOK
  <2> QED
    BY <2>1, <2>2
<1>10. WorkerOK'
  <2>1. wk.pc \in Popped => wk.j \notin F
    BY <1>0, <1>7 DEF WorkerOK
  <2> QED
    BY <1>0, <1>1, <1>4, <1>6, <2>1 DEF WorkerOK, Popped, Holding
<1>11. FiniOK'
  BY <1>0, <1>1, <1>4 DEF FiniOK
<1>12. TdrOK'
  BY <1>2, <1>4 DEF TdrOK
<1>13. \A k \in Jobs : (InWorker(k)' <=> InWorker(k)) /\ (OnList(k)' <=> OnList(k))
  BY <1>1, <1>4 DEF InWorker, OnList
<1>14. HandsOK'
  BY <1>0, <1>4, <1>5, <1>6, <1>13 DEF HandsOK
<1>15. BusyOK'
  BY <1>0, <1>1, <1>2, <1>6 DEF BusyOK
<1>16. CreditOK'
  <2>1. Busy' = Busy
    BY <1>6, <1>7, <1>13 DEF Busy
  <2> QED
    BY <1>0, <1>2, <1>4, <2>1 DEF CreditOK
<1>17. \A k \in Jobs : Carried(job[k], job'[k])
  BY <1>6, <1>7 DEF Carried
<1>18. EntityLike(ent, ent')
  BY <1>1 DEF EntityLike
<1>19. QueueOK' /\ OrderOK' /\ InOrder' /\ DepOK' /\ DepsHonoured'
  BY <1>0, <1>1, <1>9, <1>17, <1>18, QueuesLeftAlone
<1> QED
  BY <1>8, <1>9, <1>10, <1>11, <1>12, <1>14, <1>15, <1>16, <1>19 DEF IInv

-----------------------------------------------------------------------------
(* The walk of drm_sched_fini *)

(* A list without its last job *)
LEMMA WithoutLast ==
    ASSUME NEW p \in Seq(Jobs), p # <<>>, IsInjective(p)
    PROVE  LET q == Without(p, p[Len(p)]) IN
           /\ q \in Seq(Jobs) /\ IsInjective(q) /\ Range(q) = Range(p) \ {p[Len(p)]}
           /\ Len(q) = Len(p) - 1 /\ \A i \in 1..(Len(p) - 1) : q[i] = p[i]
<1>a. PICK l : l = Len(p)
  OBVIOUS
<1>b. PICK c : c = p[l]
  OBVIOUS
<1> DEFINE q == Without(p, c)
           I == {i \in DOMAIN p : p[i] \in Range(p) \ {c}}
           Rank(i) == Cardinality({k \in I : k <= i})
<1>1. l \in Nat \ {0} /\ DOMAIN p = 1..l
  BY <1>a, EmptySeq, LenProperties
<1>13. l - 1 \in Nat
  BY <1>1
<1>2. \A i \in 1..l : p[i] \in Range(p) /\ (p[i] = c <=> i = l)
  <2> SUFFICES ASSUME NEW i \in 1..l
               PROVE  p[i] \in Range(p) /\ (p[i] = c <=> i = l)
    OBVIOUS
  <2>1. l \in DOMAIN p /\ i \in DOMAIN p
    BY <1>1
  <2>2. \A x, y \in DOMAIN p : p[x] = p[y] => x = y
    BY DEF IsInjective
  <2> QED
    BY <1>b, <2>1, <2>2 DEF Range
<1>3. I = 1..(l - 1)
  <2>1. \A i \in 1..l : i \in I <=> i # l
    BY <1>1, <1>2
  <2>2. \A i : i \in I => i \in 1..l
    BY <1>1
  <2>3. \A i : i \in 1..(l - 1) <=> i \in 1..l /\ i # l
    BY <1>1
  <2> HIDE DEF I
  <2> QED
    BY <2>1, <2>2, <2>3
<1>4. q \in Seq(Jobs) /\ IsInjective(q) /\ Range(q) = Range(p) \cap (Range(p) \ {c})
  BY KeptContract DEF Without
<1>5. \A i \in I : Rank(i) = i
  <2> SUFFICES ASSUME NEW i \in I
               PROVE  Rank(i) = i
    OBVIOUS
  <2>1. {k \in I : k <= i} = 1..i /\ i \in Nat /\ i \in Int /\ i - 1 + 1 = i /\ 1 <= i
    BY <1>1, <1>3
  <2>2. Cardinality(1..i) = i
    BY <2>1, FS_Interval
  <2> HIDE DEF I
  <2> QED
    BY <2>1, <2>2
<1>6. Cardinality(I) = l - 1
  <2>1. Cardinality(1..(l - 1)) = l - 1
    BY <1>13, FS_Interval
  <2> HIDE DEF I
  <2> QED
    BY <1>3, <2>1
<1>7. \A n \in I : (CHOOSE i \in I : Rank(i) = n) = n
  <2> HIDE DEF Rank, I
  <2> QED
    BY <1>5
<1>8. q = [n \in 1..Cardinality(I) |-> p[CHOOSE i \in I : Rank(i) = n]]
  BY DEF Without, Kept
<1>9. q = [n \in 1..(l - 1) |-> p[CHOOSE i \in I : Rank(i) = n]]
  BY <1>6, <1>8
<1>10. \A n \in 1..(l - 1) : q[n] = p[n]
  <2> HIDE DEF q, I, Rank
  <2> QED
    BY <1>3, <1>7, <1>9
<1>11. Len(q) = l - 1
  <2>1. DOMAIN q = 1..(l - 1)
    BY <1>9
  <2> HIDE DEF q
  <2> QED
    BY <1>13, <1>4, <2>1, LenProperties
<1> HIDE DEF q
<1>12. q = Without(p, p[Len(p)])
  BY <1>a, <1>b DEF q
<1> QED
  BY <1>a, <1>b, <1>4, <1>10, <1>11, <1>12

(* What a walk that is alone is at *)
LEMMA WalkPlace ==
    ASSUME IInv, WalkOK, sched.fini \in {"cancel", "free"}
    PROVE  /\ sched.cur \in Jobs /\ OnList(sched.cur) /\ job[sched.cur].at = "run"
           /\ sched.pending \in Seq(Jobs) /\ sched.pending # <<>> /\ IsInjective(sched.pending)
           /\ sched.cur = sched.pending[Len(sched.pending)]
           /\ Len(sched.pending) \in Nat \ {0}
           /\ sched.tmp # None => /\ Len(sched.pending) > 1 /\ sched.tmp # sched.cur
                                  /\ sched.tmp = sched.pending[Len(sched.pending) - 1]
                                  /\ sched.tmp \in Jobs /\ job[sched.tmp].at = "run"
           /\ sched.tmp = None => Len(sched.pending) = 1
           /\ ~Stopped /\ ~sched.guilty /\ sched.paused
           /\ wk.pc = "idle" /\ wk.j = None /\ wk.e = None
<1> DEFINE p == sched.pending
           l == Len(p)
<1>0. TypeOK /\ WorkerOK /\ TdrOK /\ HandsOK
  BY DEF IInv
<1>1. /\ p \in Seq(Jobs) /\ p # <<>> /\ IsInjective(p) /\ sched.cur = p[l]
      /\ sched.tmp = IF l = 1 THEN None ELSE p[l - 1]
      /\ sched.paused /\ wk.pc = "idle" /\ tdr.pc = "idle"
  BY <1>0 DEF WalkOK, AtEnd, TypeOK, SchedRecord, HandsOK
<1>2. l \in Nat \ {0} /\ DOMAIN p = 1..l
  BY <1>1, EmptySeq, LenProperties
<1>3. \A i \in 1..l : p[i] \in Jobs /\ p[i] \in Range(p) /\ job[p[i]].at = "run"
  <2>1. \A i \in 1..l : p[i] \in Jobs /\ p[i] \in Range(p)
    BY <1>1, <1>2 DEF Range
  <2> QED
    BY <1>0, <2>1 DEF HandsOK, OnList
<1>4. l # 1 => l - 1 \in 1..l /\ l \in 1..l /\ l > 1 /\ p[l - 1] # p[l]
  <2>0. \A i \in Nat \ {0} : i # 1 => i - 1 \in 1..i /\ i \in 1..i /\ i > 1 /\ i - 1 # i
    OBVIOUS
  <2>2. \A x, y \in DOMAIN p : p[x] = p[y] => x = y
    BY <1>1 DEF IsInjective
  <2> HIDE DEF p, l
  <2>1. l # 1 => l - 1 \in 1..l /\ l \in 1..l /\ l > 1 /\ l - 1 # l
    BY <1>2, <2>0
  <2> QED
    BY <1>2, <2>1, <2>2
<1>5. l \in 1..l /\ (l # 1 => p[l - 1] # None)
  BY <1>2, <1>3, <1>4, NoneApart
<1> QED
  BY <1>0, <1>1, <1>2, <1>3, <1>4, <1>5 DEF OnList, Stopped, TdrOK, WorkerOK, Holding

(* cancel_job ends the job at the end of the list, *)
LEMMA FiniCancelStep ==
    ASSUME IInv, WalkOK, FiniCancel
    PROVE  IInv' /\ WalkOK'
<1>0. sched.fini = "cancel" /\ TypeOK /\ BusyOK
  BY DEF FiniCancel, IInv
<1>a. PICK h \in Jobs : h = sched.cur
  BY <1>0, WalkPlace
<1>b. PICK done \in SUBSET {h} : done = IF job[h].cb THEN {h} ELSE {}
  OBVIOUS
<1>c. /\ job[h].at = "run" /\ ~Stopped /\ sched.paused /\ wk.pc = "idle" /\ wk.j = None
      /\ sched \in SchedRecord
  BY <1>0, <1>a, WalkPlace DEF TypeOK
<1> DEFINE W == Waiting(FinishedFences(done))
           t == JobsDone(done, sched)
           u == WakeSched(W, t)
           o == job[h].parent
           p == IF o = "none" THEN o ELSE "signalled"
<1>d. /\ job' = [Finished(done, job) EXCEPT ![h].cb = FALSE,
                    ![h].parent = IF @ = "none" THEN @ ELSE "signalled"]
      /\ ent' = Woken(W, ent) /\ wk' = wk /\ tdr' = tdr /\ ext' = ext
      /\ sched' = [u EXCEPT !.fini = "free"]
  BY <1>a, <1>b, <1>c DEF FiniCancel, IsFreed
<1>1. /\ Finished(done, job) \in [Jobs -> JobRecord]
      /\ Finished(done, job)[h].parent = o /\ o \in {"none", "running", "hung", "signalled"}
  <2>1. Finished(done, job) \in [Jobs -> JobRecord] /\ job[h] \in JobRecord
    BY <1>0, FinishedContract DEF TypeOK
  <2> QED
    BY <2>1 DEF Finished, JobRecord
<1>2. job' = [Finished(done, job) EXCEPT ![h].parent = p, ![h].cb = FALSE]
  BY <1>d, <1>1 DEF JobRecord
<1>3. t \in SchedRecord /\ t.paused /\ t = [sched EXCEPT !.credits = t.credits]
  <2>1. t \in SchedRecord /\ (t.paused <=> sched.paused)
    BY <1>b, DoneOne
  <2>2. t = [sched EXCEPT !.credits = t.credits]
    BY <1>c DEF JobsDone, drm_sched_run_free_queue, SchedRecord
  <2> QED
    BY <1>c, <2>1, <2>2
<1>4. u = t
  BY <1>3 DEF WakeSched, drm_sched_run_job_queue
<1> HIDE DEF u, t
<1>5. /\ sched' \in SchedRecord /\ sched'.credits = u.credits /\ sched'.pending = u.pending
      /\ (sched'.guilty <=> u.guilty) /\ (sched'.paused <=> u.paused)
      /\ (sched'.runq <=> u.runq) /\ (sched'.freeq <=> u.freeq) /\ (sched'.timer <=> u.timer)
      /\ sched'.late = u.late /\ sched'.fini = "free" /\ sched'.cur = u.cur /\ sched'.tmp = u.tmp
  BY <1>d, <1>3, <1>4 DEF SchedRecord
<1>6. Like(t, u)
  BY <1>3, <1>4, QueueingContract
<1>7. IInv'
  <2> HIDE DEF p
  <2>1. p \in {"none", "running", "hung", "signalled"}
    BY <1>1 DEF p
  <2> QED
    <3>1. Ended(h, done, p, u)
      BY <1>0, <1>b, <1>c, <1>d, <1>2, <1>5, <1>6 DEF Ended, t
    <3> QED
      BY <2>1, <3>1, EndedStep
<1>8. /\ u.pending = sched.pending /\ u.cur = sched.cur /\ u.tmp = sched.tmp /\ u.paused
      /\ (u.runq <=> sched.runq) /\ (u.freeq <=> sched.freeq) /\ (u.timer <=> sched.timer)
  BY <1>c, <1>3, <1>4 DEF SchedRecord
<1>9. job'[h].finished
  <2>1. Finished(done, job)[h].finished
    <3>1. job[h].finished \/ h \in done
      BY <1>0, <1>b, <1>c, NoneApart DEF BusyOK
    <3> QED
      BY <1>0, <3>1, FinishedContract DEF TypeOK
  <2> QED
    BY <1>1, <1>2, <2>1 DEF JobRecord
<1>10. AtEnd'
  BY <1>0, <1>5, <1>8 DEF AtEnd, WalkOK
<1> QED
  BY <1>0, <1>a, <1>d, <1>5, <1>7, <1>8, <1>9, <1>10 DEF WalkOK

(* then it leaves the list and is freed, *)
LEMMA FiniFreeStep ==
    ASSUME IInv, WalkOK, FiniFree
    PROVE  IInv' /\ WalkOK'
<1>0. sched.fini = "free" /\ sched \in SchedRecord
      /\ TypeOK /\ QueueOK /\ FencesOK /\ WorkerOK /\ FiniOK /\ TdrOK /\ HandsOK /\ BusyOK
      /\ CreditOK /\ OrderOK /\ InOrder /\ DepOK /\ DepsHonoured
  BY DEF FiniFree, IInv, TypeOK
<1>a. PICK h \in Jobs : h = sched.cur
  BY <1>0, WalkPlace
<1>b. PICK p \in Seq(Jobs) : p = sched.pending
  BY <1>0, WalkPlace
<1>c. PICK m \in Jobs \cup {None} : m = sched.tmp
  BY <1>0 DEF SchedRecord
<1> DEFINE t == Without(p, h)
           n == IF m = None THEN None ELSE Before(t, m)
           f == IF m = None THEN "destroy" ELSE "cancel"
<1>1. /\ p # <<>> /\ IsInjective(p) /\ h = p[Len(p)] /\ Len(p) \in Nat \ {0}
      /\ job[h].at = "run" /\ OnList(h) /\ job[h].finished
      /\ m # None => Len(p) > 1 /\ m # h /\ m = p[Len(p) - 1] /\ m \in Jobs /\ job[m].at = "run"
      /\ m = None => Len(p) = 1
      /\ ~Stopped /\ ~sched.guilty /\ wk.pc = "idle" /\ wk.j = None /\ wk.e = None
  BY <1>0, <1>a, <1>b, <1>c, WalkPlace DEF WalkOK
<1>2. /\ t \in Seq(Jobs) /\ IsInjective(t) /\ Range(t) = Range(p) \ {h}
      /\ Len(t) = Len(p) - 1 /\ \A i \in 1..(Len(p) - 1) : t[i] = p[i]
  BY <1>1, WithoutLast
<1> HIDE DEF t
<1>3. m # None => /\ Len(t) \in Nat \ {0} /\ t # <<>> /\ m = t[Len(t)]
                  /\ n = IF Len(t) = 1 THEN None ELSE t[Len(t) - 1]
  <2> SUFFICES ASSUME m # None
               PROVE  /\ Len(t) \in Nat \ {0} /\ t # <<>> /\ m = t[Len(t)]
                      /\ n = IF Len(t) = 1 THEN None ELSE t[Len(t) - 1]
    OBVIOUS
  <2>1. Len(t) \in Nat \ {0} /\ Len(t) = Len(p) - 1 /\ Len(t) \in 1..(Len(p) - 1)
    BY <1>1, <1>2
  <2>2. t # <<>> /\ m = t[Len(t)]
    BY <1>1, <1>2, <2>1
  <2> QED
    BY <1>2, <2>1, <2>2, LastBefore
<1>4. n \in Jobs \cup {None} /\ f \in {"destroy", "cancel"}
  <2>1. m # None => Before(t, t[Len(t)]) \in Jobs \cup {None}
    BY <1>2, <1>3, LastBefore
  <2> QED
    BY <1>3, <2>1
<1>5. /\ job' = free_job({h}, job) /\ ent' = ent /\ wk' = wk /\ tdr' = tdr /\ ext' = ext
      /\ sched' = [sched EXCEPT !.pending = t, !.cur = m, !.tmp = n, !.fini = f]
  <2>1. ~IsFreed(h, job)
    BY <1>1 DEF IsFreed
  <2>2. ~IsFreed(m, free_job({h}, job))
    BY <1>1 DEF IsFreed, free_job
  <2>3. WalkOn([sched EXCEPT !.pending = t]) = [sched EXCEPT !.pending = t, !.cur = m, !.tmp = n]
    BY <1>0, <1>c DEF WalkOn, SchedRecord
  <2>4. [sched EXCEPT !.pending = t, !.cur = m, !.tmp = n].cur = m
    BY <1>0 DEF SchedRecord
  <2>5. sched' = [[sched EXCEPT !.pending = t, !.cur = m, !.tmp = n] EXCEPT !.fini = f]
    BY <1>a, <1>b, <1>c, <2>1, <2>2, <2>3, <2>4 DEF FiniFree, t
  <2> QED
    BY <1>a, <1>c, <2>1, <2>2, <2>5 DEF FiniFree
<1> HIDE DEF n, f
<1>6. /\ sched' \in SchedRecord /\ sched'.credits = sched.credits /\ sched'.fini = f
      /\ sched'.pending = t /\ sched'.cur = m /\ sched'.tmp = n
      /\ (sched'.guilty <=> sched.guilty) /\ (sched'.paused <=> sched.paused)
      /\ (sched'.runq <=> sched.runq) /\ (sched'.freeq <=> sched.freeq)
      /\ (sched'.timer <=> sched.timer)
  BY <1>0, <1>2, <1>4, <1>5 DEF SchedRecord
<1>7. /\ job' \in [Jobs -> JobRecord]
      /\ \A k \in Jobs : /\ job'[k].late <=> job[k].late
                         /\ job'[k].scheduled <=> job[k].scheduled
                         /\ job'[k].finished <=> job[k].finished
      /\ job'[h].at = "freed" /\ job'[h].deps = {} /\ ~job'[h].cb
      /\ \A k \in Jobs \ {h} : job'[k] = job[k]
  BY <1>0, <1>5, FreedContract DEF TypeOK
<1>8. TypeOK'
  BY <1>0, <1>5, <1>6, <1>7 DEF TypeOK
<1>9. FencesOK'
  <2>1. job[h].scheduled
    BY <1>0, <1>1 DEF FencesOK
  <2> SUFFICES ASSUME NEW k \in Jobs
               PROVE  /\ job'[k].at \in {"new", "queue", "kill"} => ~job'[k].scheduled
                      /\ job'[k].at = "killed" => job'[k].finished
                      /\ job'[k].finished => job'[k].scheduled
                      /\ job'[k].cb => job'[k].at = "run" /\ ~job'[k].finished
                      /\ job'[k].at \in {"run", "freed"} =>
                           job'[k].scheduled \/ (wk'.j = k /\ wk'.pc \in {"requeue", "begin", "run"})
    BY DEF FencesOK
  <2>2. CASE k = h
    BY <1>7, <2>1, <2>2
  <2>3. CASE k # h
    BY <1>0, <1>5, <1>7, <2>3, ZenonT(60) DEF FencesOK
  <2> QED
    BY <2>2, <2>3
<1>10. WorkerOK'
  BY <1>1, <1>5 DEF WorkerOK, Popped, Holding
<1>11. FiniOK'
  BY <1>0, <1>1, <1>5 DEF FiniOK
<1>12. TdrOK'
  BY <1>0, <1>1, <1>5, <1>6, <1>7 DEF TdrOK, Stopped
<1>13. \A k \in Jobs : ~InWorker(k) /\ ~InWorker(k)'
  BY <1>1, <1>5 DEF InWorker
<1>14. HandsOK'
  <2>1. \A k \in Jobs : OnList(k)' <=> OnList(k) /\ k # h
    BY <1>b, <1>2, <1>6 DEF OnList
  <2>2. \A k \in Jobs : WithDriver(k)' <=> WithDriver(k)
    BY <1>5, <1>6 DEF WithDriver
  <2> QED
    BY <1>0, <1>1, <1>2, <1>6, <1>7, <1>13, <2>1, <2>2 DEF HandsOK
<1>15. BusyOK'
  BY <1>0, <1>1, <1>5, <1>7, ZenonT(60) DEF BusyOK
<1>16. CreditOK'
  <2>1. Busy' = Busy
    BY <1>1, <1>7, <1>13 DEF Busy
  <2>2. ~Stopped'
    BY <1>1, <1>5 DEF Stopped
  <2> QED
    BY <1>0, <1>1, <1>6, <2>1, <2>2 DEF CreditOK
<1>17. \A k \in Jobs : Carried(job[k], job'[k])
  BY <1>1, <1>7 DEF Carried
<1>18. EntityLike(ent, ent')
  BY <1>5 DEF EntityLike
<1>19. QueueOK' /\ OrderOK' /\ InOrder' /\ DepOK' /\ DepsHonoured'
  BY <1>0, <1>5, <1>9, <1>17, <1>18, QueuesLeftAlone
<1>20. m # None => AtEnd'
  BY <1>3, <1>6 DEF AtEnd
<1>21. WalkOK'
  BY <1>0, <1>5, <1>6, <1>20 DEF WalkOK, f
<1> QED
  BY <1>8, <1>9, <1>10, <1>11, <1>12, <1>14, <1>15, <1>16, <1>19, <1>21 DEF IInv

(* and the work queue is destroyed. *)
LEMMA FiniDestroyStep ==
    ASSUME IInv, FiniDestroy
    PROVE  IInv'
<1>0. TypeOK /\ TdrOK /\ FiniOK
  BY DEF IInv
<1>1. /\ sched \in SchedRecord /\ sched.fini \in {"destroy", "leave"}
      /\ sched' = [sched EXCEPT !.fini = IF @ = "destroy" THEN "done" ELSE "left"]
      /\ job' = job /\ ent' = ent /\ wk' = wk /\ tdr' = tdr /\ ext' = ext
  BY <1>0 DEF FiniDestroy, TypeOK
<1>2. /\ sched' \in SchedRecord /\ sched'.credits = sched.credits
      /\ sched'.fini \in {"done", "left"}
      /\ sched'.pending = sched.pending /\ (sched'.paused <=> sched.paused)
      /\ (sched'.guilty <=> sched.guilty) /\ (sched'.runq <=> sched.runq)
      /\ (sched'.freeq <=> sched.freeq) /\ sched'.late = sched.late
  BY <1>1 DEF SchedRecord
<1>3. FiniOK'
  BY <1>0, <1>1, <1>2 DEF FiniOK
<1>4. Stopped => sched.paused /\ ~sched.runq /\ ~sched.freeq /\ sched.late = {}
  BY <1>0 DEF TdrOK
<1> QED
  BY <1>1, <1>2, <1>3, <1>4, FlagStep

(* Nobody else is at work beside a walk that is alone: the steps that are   *)
(* not the walk's leave it where it is.                                     *)
Undisturbed ==
    /\ tdr'.pc \notin {"walk", "walked", "oops"} /\ sched'.fini # "oops"
    /\ sched'.fini \in {"cancel", "free"} =>
         /\ sched'.fini = sched.fini /\ (sched'.paused <=> sched.paused)
         /\ (sched'.runq <=> sched.runq) /\ (sched'.freeq <=> sched.freeq)
         /\ (sched'.timer <=> sched.timer) /\ sched'.pending = sched.pending
         /\ sched'.cur = sched.cur /\ sched'.tmp = sched.tmp
         /\ wk'.pc = wk.pc /\ tdr'.pc = tdr.pc
         /\ \A j \in Jobs : job[j].finished => job'[j].finished

LEMMA UndisturbedKeeps ==
    ASSUME IInv, WalkOK, Undisturbed
    PROVE  WalkOK'
<1>1. sched.fini = "free" => sched.cur \in Jobs
  BY WalkPlace
<1> QED
  BY <1>1 DEF WalkOK, AtEnd, Undisturbed

(* The helpers leave the walk alone, and a paused scheduler as it is. *)
LEMMA QueueingWalk ==
    ASSUME NEW s \in SchedRecord, NEW S, NEW W
    PROVE  /\ drm_sched_start_timeout(s).fini = s.fini
           /\ drm_sched_run_job_queue(s).fini = s.fini
           /\ drm_sched_run_free_queue(s).fini = s.fini
           /\ WakeSched(W, s).fini = s.fini
           /\ Late(S, s).fini = s.fini
           /\ s.paused => /\ drm_sched_run_job_queue(s) = s /\ drm_sched_run_free_queue(s) = s
                          /\ WakeSched(W, s) = s /\ Late(S, s) = s
BY DEF SchedRecord, drm_sched_start_timeout, drm_sched_run_job_queue, drm_sched_run_free_queue,
       WakeSched, Late

(* So do callers from outside. *)
LEMMA OutsideWalk ==
    ASSUME NEW s \in SchedRecord, NEW S, NEW W
    PROVE  /\ Late(S, WakeSched(W, s)).fini = s.fini
           /\ Late(S, drm_sched_run_job_queue(s)).fini = s.fini
           /\ s.paused => /\ Late(S, WakeSched(W, s)) = s
                          /\ Late(S, drm_sched_run_job_queue(s)) = s
<1>1. WakeSched(W, s) \in SchedRecord /\ drm_sched_run_job_queue(s) \in SchedRecord
  BY QueueingContract DEF Like
<1> QED
  BY <1>1, QueueingWalk

(* A step of another is not taken beside the walk, or does nothing to it. *)
LEMMA ElsewhereUndisturbed ==
    ASSUME WalkOK, sched'.fini = sched.fini,
           tdr'.pc \notin {"walk", "walked", "oops"},
           sched.fini \notin {"cancel", "free"}
    PROVE  Undisturbed
BY DEF WalkOK, Undisturbed

LEMMA OwnersUndisturbed ==
    ASSUME IInv, WalkOK, NEW e \in Entities, Owner(e) \/ Client(e)
    PROVE  Undisturbed
<1>0. TypeOK /\ FiniOK /\ sched \in SchedRecord /\ tdr.pc \notin {"walk", "walked", "oops"}
  BY DEF IInv, TypeOK, WalkOK
<1>1. CASE AddEntity(e)
  <2>1. job' = job /\ wk' = wk /\ tdr' = tdr
    BY <1>1 DEF AddEntity
  <2>2. sched' = sched \/ sched' = Late({"run"}, drm_sched_run_job_queue(sched))
    BY <1>1 DEF AddEntity
  <2>3. sched'.fini = sched.fini /\ (sched.paused => sched' = sched)
    BY <1>0, <2>2, OutsideWalk
  <2> QED
    BY <1>0, <2>1, <2>3 DEF Undisturbed, WalkOK
<1>2. CASE ~AddEntity(e)
  <2>1. sched' = sched /\ tdr' = tdr /\ ent[e].owner # "gone"
    BY <1>2 DEF Owner, Client, Push, Flush, KillStart, KillJobs
  <2> QED
    BY <1>0, <2>1, ElsewhereUndisturbed DEF FiniOK
<1> QED
  BY <1>1, <1>2

LEMMA OutsideUndisturbed ==
    ASSUME IInv, WalkOK,
           (\E j \in Jobs : KillWork(j) \/ HwDone(j)) \/ \E x \in Exts : ExtSignal(x)
    PROVE  Undisturbed
<1>0. TypeOK /\ FiniOK /\ sched \in SchedRecord /\ tdr.pc \notin {"walk", "walked", "oops"}
  BY DEF IInv, TypeOK, WalkOK
<1>1. ASSUME NEW j \in Jobs, KillWork(j)
      PROVE  Undisturbed
  <2>1. wk' = wk /\ tdr' = tdr
    BY <1>1 DEF KillWork
  <2>2. sched'.fini = sched.fini /\ (sched.paused => sched' = sched)
    BY <1>0, <1>1, OutsideWalk DEF KillWork
  <2>3. \A k \in Jobs : job[k].finished => job'[k].finished
    <3>1. \A k \in Jobs \ {j} : job'[k] = job[k]
      BY <1>0, <1>1, ZenonT(60) DEF KillWork, TypeOK
    <3>2. job'[j].finished
      BY <1>0, <1>1, ZenonT(60) DEF KillWork, TypeOK, JobRecord
    <3> QED
      BY <3>1, <3>2
  <2> QED
    BY <1>0, <2>1, <2>2, <2>3 DEF Undisturbed, WalkOK
<1>2. ASSUME NEW j \in Jobs, HwDone(j)
      PROVE  Undisturbed
  <2>a. PICK done \in SUBSET {j} : done = IF job[j].cb THEN {j} ELSE {}
    OBVIOUS
  <2> DEFINE t == JobsDone(done, sched)
             W == Waiting(FinishedFences(done))
  <2>1. /\ wk' = wk /\ tdr' = tdr
        /\ job' = [Finished(done, job) EXCEPT ![j].parent = "signalled", ![j].cb = FALSE]
        /\ sched' = Late(LateRun(W) \cup (IF done = {} THEN {} ELSE {"free"}), WakeSched(W, t))
    BY <1>2, <2>a DEF HwDone
  <2>2. t \in SchedRecord /\ t.fini = sched.fini /\ (t.paused <=> sched.paused)
    BY <2>a, DoneOne
  <2>3. sched.paused => t = [sched EXCEPT !.credits = t.credits]
    BY <1>0 DEF JobsDone, drm_sched_run_free_queue, SchedRecord
  <2> HIDE DEF t
  <2>4. sched'.fini = sched.fini /\ (sched.paused => sched' = t)
    BY <2>1, <2>2, OutsideWalk
  <2>5. \A k \in Jobs : job[k].finished => job'[k].finished
    <3>1. /\ Finished(done, job) \in [Jobs -> JobRecord]
          /\ \A k \in Jobs : job[k].finished => Finished(done, job)[k].finished
      BY <1>0, FinishedContract DEF TypeOK
    <3> QED
      BY <2>1, <3>1 DEF JobRecord
  <2>6. sched.paused => /\ t.paused /\ (t.runq <=> sched.runq) /\ (t.freeq <=> sched.freeq)
                        /\ (t.timer <=> sched.timer) /\ t.pending = sched.pending
                        /\ t.cur = sched.cur /\ t.tmp = sched.tmp
    BY <1>0, <2>2, <2>3 DEF SchedRecord
  <2> QED
    BY <1>0, <2>1, <2>4, <2>5, <2>6 DEF Undisturbed, WalkOK
<1>3. ASSUME NEW x \in Exts, ExtSignal(x)
      PROVE  Undisturbed
  <2>1. job' = job /\ wk' = wk /\ tdr' = tdr
    BY <1>3 DEF ExtSignal
  <2>2. sched'.fini = sched.fini /\ (sched.paused => sched' = sched)
    BY <1>0, <1>3, OutsideWalk DEF ExtSignal
  <2> QED
    BY <1>0, <2>1, <2>2 DEF Undisturbed, WalkOK
<1> QED
  BY <1>1, <1>2, <1>3

LEMMA WorkersUndisturbed ==
    ASSUME IInv, WalkOK, RunWork \/ FreeWork
    PROVE  Undisturbed
<1>0. TypeOK /\ sched \in SchedRecord /\ tdr.pc \notin {"walk", "walked", "oops"}
  BY DEF IInv, TypeOK, WalkOK
<1>1. tdr' = tdr
  BY DEF RunWork, FreeWork, Select, PopDependency, PopJob, PopEntity, JobBegin, RunJob, AddCallback,
         FreeStart, FreeJob
<1>2. wk.pc # "idle" \/ sched.runq \/ sched.freeq
  BY DEF RunWork, FreeWork, Select, PopDependency, PopJob, PopEntity, JobBegin, RunJob, AddCallback,
         FreeStart, FreeJob
<1>3. sched'.fini = sched.fini
  <2>1. CASE Select \/ FreeStart
    BY <1>0, <2>1 DEF Select, FreeStart, SchedRecord
  <2>5. CASE PopDependency
    <3>1. sched' = sched \/ sched' = drm_sched_run_job_queue(sched)
      BY <2>5 DEF PopDependency
    <3> QED
      BY <1>0, <3>1, QueueingWalk
  <2>6. CASE PopJob \/ PopEntity
    BY <2>6 DEF PopJob, PopEntity
  <2>7. CASE RunJob
    <3>1. \E W : sched' = WakeSched(W, sched)
      BY <2>7 DEF RunJob
    <3> QED
      BY <1>0, <3>1, QueueingWalk
  <2>2. CASE JobBegin
    BY <1>0, <2>2 DEF JobBegin, drm_sched_start_timeout, SchedRecord
  <2>3. CASE AddCallback
    BY <1>0, <2>3 DEF AddCallback, JobsDone, drm_sched_run_job_queue, drm_sched_run_free_queue,
                      SchedRecord
  <2>4. CASE FreeJob
    BY <1>0, <2>4 DEF FreeJob, drm_sched_start_timeout, drm_sched_run_job_queue, SchedRecord
  <2> QED
    BY <2>1, <2>2, <2>3, <2>4, <2>5, <2>6, <2>7 DEF RunWork, FreeWork
<1> QED
  BY <1>0, <1>1, <1>2, <1>3, ElsewhereUndisturbed DEF WalkOK

LEMMA TimeoutUndisturbed ==
    ASSUME IInv, WalkOK, ~raced', Timedout
    PROVE  Undisturbed
<1>0. TypeOK /\ sched \in SchedRecord /\ tdr.pc \notin {"walk", "walked", "oops"}
  BY DEF IInv, TypeOK, WalkOK
<1>1. ~StopBeside /\ ~StopWalk
  BY <1>0 DEF StopBeside, StopWalk
<1>2. tdr.pc # "idle" \/ sched.timer
  BY <1>1 DEF Timedout, TdrFire, NoHang, StopBegin, Stop, Resubmit, Start, TdrEnd
<1>3. tdr'.pc \notin {"walk", "walked", "oops"}
  BY <1>0, <1>1 DEF Timedout, TdrFire, NoHang, StopBegin, Stop, Resubmit, Start, TdrEnd, IdleTdr,
                    TypeOK
<1>4. sched'.fini = sched.fini
  <2>1. CASE TdrFire \/ StopBegin \/ Resubmit
    BY <1>0, <2>1 DEF TdrFire, StopBegin, Resubmit, SchedRecord
  <2>2. CASE NoHang
    BY <1>0, <2>2 DEF NoHang, drm_sched_start_timeout, drm_sched_run_free_queue, SchedRecord
  <2>3. CASE Stop
    BY <1>0, <2>3 DEF Stop, Cancelled, SchedRecord
  <2>4. CASE Start
    BY <1>0, <2>4 DEF Start, JobsDone, drm_sched_start_timeout, drm_sched_run_free_queue,
                      SchedRecord
  <2>5. CASE TdrEnd
    BY <1>0, <2>5 DEF TdrEnd, drm_sched_start_timeout, SchedRecord
  <2> QED
    BY <1>1, <2>1, <2>2, <2>3, <2>4, <2>5 DEF Timedout
<1> QED
  BY <1>2, <1>3, <1>4, ElsewhereUndisturbed DEF WalkOK

(* Every step of another keeps the walk as it is. *)
LEMMA WalkUndisturbed ==
    ASSUME IInv, WalkOK, ~raced', [Next]_vars, ~FiniTimer, ~FiniCancel, ~FiniFree
    PROVE  WalkOK'
<1>0. TypeOK /\ sched \in SchedRecord /\ tdr.pc \notin {"walk", "walked", "oops"}
  BY DEF IInv, TypeOK, WalkOK
<1>1. CASE Fault
  <2>1. sched.fini = "no" /\ sched'.fini = sched.fini /\ tdr' = tdr
    BY <1>0, <1>1 DEF Fault, SchedRecord
  <2> QED
    BY <1>0, <2>1, ElsewhereUndisturbed, UndisturbedKeeps
<1>4. CASE UNCHANGED vars
  BY <1>4 DEF vars, WalkOK, AtEnd
<1>2. CASE FiniBegin \/ FiniStop \/ FiniDestroy
  BY <1>0, <1>2 DEF FiniBegin, FiniStop, FiniDestroy, Cancelled, Undisturbed, WalkOK, SchedRecord
<1>3. CASE (\E e \in Entities : Owner(e) \/ Client(e)) \/ RunWork \/ FreeWork \/ Timedout
           \/ (\E j \in Jobs : KillWork(j) \/ HwDone(j)) \/ (\E x \in Exts : ExtSignal(x))
  BY <1>3, OwnersUndisturbed, OutsideUndisturbed, WorkersUndisturbed, TimeoutUndisturbed,
     UndisturbedKeeps
<1> QED
  BY <1>1, <1>2, <1>3, <1>4 DEF Next, FiniEnds

-----------------------------------------------------------------------------
(* The invariant *)

(* It holds initially, *)
LEMMA InitStep ==
    ASSUME Init
    PROVE  IInv /\ WalkOK
<1>1. /\ \A j \in Jobs : job[j] = NewJob
      /\ \A e \in Entities : ent[e] = NewEntity
      /\ job \in [Jobs -> {NewJob}] /\ ent \in [Entities -> {NewEntity}]
      /\ wk.pc = "idle" /\ wk.e = None /\ wk.j = None /\ tdr.pc = "idle" /\ tdr.j = None /\ ext = {}
      /\ sched = [paused |-> FALSE, credits |-> 0, pending |-> <<>>, runq |-> FALSE,
                  freeq |-> FALSE, late |-> {}, timer |-> FALSE, guilty |-> FALSE,
                  fini |-> "no", cur |-> None, tmp |-> None]
  BY DEF Init, IdleWork, IdleTdr
<1>2. <<>> \in Seq(Jobs) /\ Len(<<>>) = 0 /\ 0 \in 0..MaxJobs
  BY JobPairs
<1>3. /\ NewJob \in JobRecord /\ NewJob.at = "new" /\ ~NewJob.scheduled /\ ~NewJob.finished
      /\ ~NewJob.cb
  BY DEF NewJob, JobRecord
<1>4. /\ NewEntity \in EntityRecord /\ NewEntity.queue = <<>> /\ NewEntity.n = 0
      /\ NewEntity.owner = "open"
  BY <1>2 DEF NewEntity, EntityRecord
<1>5. /\ sched \in SchedRecord /\ sched.credits = 0 /\ sched.pending = <<>> /\ ~sched.guilty
      /\ sched.fini = "no"
  BY <1>1, <1>2 DEF SchedRecord
<1>6. TypeOK
  BY <1>1, <1>3, <1>4, <1>5 DEF TypeOK, Init, IdleWork, IdleTdr
<1>7. \A e \in Entities : Gone(e) = 0
  BY <1>1, <1>2, <1>4 DEF Gone
<1>8. QueueOK
  <2>1. \A j \in Jobs : j[1] \in Entities /\ j[2] > 0 /\ ~(j[2] <= 0)
    BY JobPairs
  <2> QED
    BY <1>1, <1>2, <1>3, <1>4, <1>7, <2>1 DEF QueueOK
<1>9. FencesOK
  BY <1>1, <1>3 DEF FencesOK
<1>10. WorkerOK
  BY <1>1 DEF WorkerOK, Popped, Holding
<1>11. FiniOK
  BY <1>1, <1>5 DEF FiniOK
<1>12. ~Stopped /\ TdrOK
  BY <1>1, <1>5 DEF Stopped, TdrOK
<1>13. HandsOK
  <2>1. IsInjective(<<>>) /\ \A j : ~OnList(j)
    BY <1>5 DEF IsInjective, OnList, Range
  <2> QED
    BY <1>1, <1>3, <1>5, <2>1 DEF HandsOK, WithDriver, InWorker
<1>14. BusyOK
  BY <1>1, <1>3 DEF BusyOK
<1>15. CreditOK
  <2>1. Busy = {}
    BY <1>1, <1>3 DEF Busy
  <2> QED
    BY <1>5, <1>12, <2>1, CostOfNone DEF CreditOK
<1>16. OrderOK
  BY <1>1, <1>3, <1>4, Laters DEF OrderOK, Halted
<1>17. InOrder
  BY <1>1, <1>3, Laters DEF InOrder
<1>18. DepOK /\ DepsHonoured
  BY <1>1, <1>3 DEF DepOK, DepsHonoured, NewJob
<1>19. WalkOK
  BY <1>1, <1>5 DEF WalkOK
<1> QED
  BY <1>6, <1>8, <1>9, <1>10, <1>11, <1>12, <1>13, <1>14, <1>15, <1>16, <1>17, <1>18, <1>19 DEF IInv

(* every step keeps it unless a walk gets company, *)
LEMMA NextStep ==
    ASSUME IInv, WalkOK, ~raced', [Next]_vars
    PROVE  IInv'
<1>1. CASE \E e \in Entities : Owner(e) \/ Client(e)
  <2> PICK e \in Entities : Owner(e) \/ Client(e)
    BY <1>1
  <2>1. CASE Owner(e)
    BY <2>1, AddEntityStep, KillJobsStep DEF Owner
  <2>2. CASE \E D \in SUBSET {j \in Jobs : job[j].at # "new"}, X \in SUBSET Exts : Push(e, D, X)
    <3> PICK D \in SUBSET {j \in Jobs : job[j].at # "new"}, X \in SUBSET Exts : Push(e, D, X)
      BY <2>2
    <3>1. D \in SUBSET Jobs
      OBVIOUS
    <3> QED
      BY <3>1, PushStep
  <2>3. CASE Flush(e) \/ KillStart(e)
    BY <2>3, FlushStep, KillStartStep
  <2> QED
    BY <2>1, <2>2, <2>3 DEF Client
<1>2. CASE \E j \in Jobs : KillWork(j) \/ HwDone(j)
  BY <1>2, KillWorkStep, HwDoneStep
<1>3. CASE \E x \in Exts : ExtSignal(x)
  BY <1>3, ExtSignalStep
<1>4. CASE RunWork
  BY <1>4, SelectStep, PopDependencyStep, PopJobStep, PopEntityStep, JobBeginStep, RunJobStep,
     AddCallbackStep DEF RunWork
<1>5. CASE FreeWork
  BY <1>5, FreeStartStep, FreeJobStep DEF FreeWork
<1>6. CASE Timedout
  <2>1. ~StopBeside /\ ~StopWalk
    BY DEF StopBeside, StopWalk, WalkOK
  <2> QED
    BY <1>6, <2>1, TdrFireStep, NoHangStep, StopBeginStep, StopStep, ResubmitStep, StartStep,
       TdrEndStep DEF Timedout
<1>7. CASE Fault
  BY <1>7, FaultStep
<1>8. CASE FiniBegin \/ FiniEnds
  BY <1>8, FiniBeginStep, FiniStopStep, FiniTimerStep, FiniCancelStep, FiniFreeStep, FiniDestroyStep
     DEF FiniEnds
<1>9. CASE UNCHANGED vars
  BY <1>9, StutterStep
<1> QED
  BY <1>1, <1>2, <1>3, <1>4, <1>5, <1>6, <1>7, <1>8, <1>9 DEF Next

(* and a walk that is alone stays alone. *)
LEMMA WalkStep ==
    ASSUME IInv, WalkOK, ~raced', [Next]_vars
    PROVE  WalkOK'
<1>1. CASE FiniTimer
  <2>1. /\ sched'.fini \in {"cancel", "destroy", "leave"} /\ ~sched'.timer
        /\ (sched'.paused <=> sched.paused) /\ (sched'.runq <=> sched.runq)
        /\ (sched'.freeq <=> sched.freeq)
        /\ sched'.fini = "cancel" => sched.pending # <<>> /\ AtEnd'
    BY <1>1, FiniTimerStep
  <2>2. tdr.pc = "idle" /\ tdr' = tdr /\ wk' = wk
    BY <1>1 DEF FiniTimer
  <2>3. sched'.fini = "cancel" => WorkersStopped
    BY <1>1, <2>1 DEF FiniTimer
  <2> QED
    BY <2>1, <2>2, <2>3 DEF WalkOK, WorkersStopped
<1>2. CASE FiniCancel \/ FiniFree
  BY <1>2, FiniCancelStep, FiniFreeStep
<1>3. CASE ~FiniTimer /\ ~FiniCancel /\ ~FiniFree
  BY <1>3, WalkUndisturbed
<1> QED
  BY <1>1, <1>2, <1>3

(* Company is not forgotten. *)
LEMMA RacedStep ==
    ASSUME raced \in BOOLEAN, [Next]_vars
    PROVE  raced' \in BOOLEAN /\ (raced => raced')
<1>1. CASE \E e \in Entities : Owner(e) \/ Client(e)
  <2>1. PICK e \in Entities : Owner(e) \/ Client(e)
    BY <1>1
  <2>2. CASE AddEntity(e) \/ KillJobs(e) \/ Flush(e) \/ KillStart(e)
    BY <2>2 DEF AddEntity, KillJobs, Flush, KillStart
  <2>3. CASE \E D \in SUBSET {j \in Jobs : job[j].at # "new"}, X \in SUBSET Exts : Push(e, D, X)
    <3>1. PICK D, X : Push(e, D, X)
      BY <2>3
    <3> QED
      BY <3>1 DEF Push
  <2> QED
    BY <2>1, <2>2, <2>3 DEF Owner, Client
<1>2. CASE (\E j \in Jobs : KillWork(j) \/ HwDone(j)) \/ (\E x \in Exts : ExtSignal(x))
  BY <1>2 DEF KillWork, HwDone, ExtSignal
<1>3. CASE RunWork \/ FreeWork
  BY <1>3 DEF RunWork, FreeWork, Select, PopDependency, PopJob, PopEntity, JobBegin, RunJob,
              AddCallback, FreeStart, FreeJob
<1>4. CASE Timedout
  BY <1>4 DEF Timedout, TdrFire, NoHang, StopBegin, Stop, StopBeside, StopWalk, Resubmit, Start,
              TdrEnd
<1>5. CASE Fault \/ FiniBegin \/ FiniEnds
  <2>1. CASE FiniTimer
    <3> DEFINE r == sched'.fini = "cancel" /\ ~WorkersStopped
    <3>1. raced' = (raced \/ r)
      BY <2>1 DEF FiniTimer
    <3> HIDE DEF r
    <3> QED
      BY <3>1
  <2>2. CASE ~FiniTimer
    BY <1>5, <2>2 DEF Fault, FiniBegin, FiniEnds, FiniStop, FiniCancel, FiniFree, FiniDestroy
  <2> QED
    BY <2>1, <2>2
<1>6. CASE UNCHANGED vars
  BY <1>6 DEF vars
<1> QED
  BY <1>1, <1>2, <1>3, <1>4, <1>5, <1>6 DEF Next

(* Until drm_sched_stop or drm_sched_fini walks along the pending list      *)
(* beside another accessor, the inductive invariant holds: where every job  *)
(* is, which fences of it have signalled and what the workers may rely on,  *)
(* at every step of sched_main.c, sched_entity.c and sched_rq.c that is     *)
(* modelled, the walk of drm_sched_cancel_remaining_jobs job by job         *)
(* included.                                                                *)
THEOREM SchedInvariance == Spec => [](raced \in BOOLEAN /\ SchedInv)
<1> DEFINE Both == raced \in BOOLEAN /\ SchedInv
<1>1. Init => Both
  BY InitStep DEF Init, SchedInv
<1>2. Both /\ [Next]_vars => Both'
  BY RacedStep, NextStep, WalkStep DEF SchedInv
<1> QED
  BY <1>1, <1>2, PTL DEF Spec

(* Until then every variable keeps its type; so credit_count never          *)
(* underflows.                                                              *)
THEOREM SchedTypeCorrect == Spec => [](raced \/ TypeOK)
<1>1. SchedInv => raced \/ TypeOK
  BY DEF SchedInv, IInv
<1> QED
  BY <1>1, SchedInvariance, PTL

(* where a job is for each hand that may hold it *)
LEMMA HandsCounted ==
    ASSUME NEW j \in Jobs,
           job[j].at = "run" <=> OnList(j) \/ WithDriver(j) \/ InWorker(j),
           ~(OnList(j) /\ WithDriver(j)), ~(OnList(j) /\ InWorker(j)),
           ~(WithDriver(j) /\ InWorker(j))
    PROVE  Cardinality(Holders(j)) = IF job[j].at = "run" THEN 1 ELSE 0
<1>1. Holders(j) = {h \in {"list", "driver", "worker"} : \/ h = "list" /\ OnList(j)
                                                         \/ h = "driver" /\ WithDriver(j)
                                                         \/ h = "worker" /\ InWorker(j)}
  BY DEF Holders, OnList, WithDriver
<1> HIDE DEF OnList, WithDriver, InWorker, Holders
<1>2. CASE job[j].at # "run"
  <2>1. Holders(j) = {}
    BY <1>1, <1>2
  <2> QED
    BY <1>2, <2>1, FS_EmptySet
<1>3. CASE job[j].at = "run"
  <2>1. Holders(j) = {"list"} \/ Holders(j) = {"driver"} \/ Holders(j) = {"worker"}
    <3>1. CASE OnList(j)
      BY <1>1, <3>1
    <3>2. CASE WithDriver(j)
      BY <1>1, <3>2
    <3>3. CASE InWorker(j)
      BY <1>1, <3>3
    <3> QED
      BY <1>3, <3>1, <3>2, <3>3
  <2>2. \A x : Cardinality({x}) = 1
    BY FS_Singleton
  <2> QED
    BY <1>3, <2>1, <2>2
<1> QED
  BY <1>2, <1>3

(* A job that left its queue is in exactly one hand until it is freed       *)
(* (drm_sched_get_finished_job, drm_sched_job_timedout, drm_sched_stop and  *)
(* drm_sched_fini, whose walk frees job after job): none is lost, none      *)
(* freed twice, until a walk gets company.                                  *)
THEOREM SchedOneOwner == Spec => []OneOwner
<1>1. ASSUME IInv
      PROVE  OneOwner
  <2>0. TypeOK /\ QueueOK /\ FencesOK /\ WorkerOK /\ HandsOK
    BY <1>1 DEF IInv
  <2>1. ASSUME NEW j \in Jobs
        PROVE  Cardinality(Holders(j)) = IF job[j].at = "run" THEN 1 ELSE 0
    BY <2>0, HandsCounted DEF HandsOK
  <2>2. ASSUME NEW j \in Jobs, job[j].cb \/ wk.j = j
        PROVE  job[j].at \notin {"freed", "killed"}
    <3>1. CASE job[j].cb
      BY <2>0, <3>1 DEF FencesOK
    <3>2. CASE wk.j = j /\ wk.pc = "pop"
      <4>1. wk.e \in Entities /\ ent[wk.e].queue # <<>> /\ wk.j = Head(ent[wk.e].queue)
        BY <2>0, <3>2 DEF WorkerOK, Holding, TypeOK
      <4> QED
        BY <2>0, <3>2, <4>1, QueueHead
    <3>3. CASE wk.j = j /\ wk.pc \in Popped
      BY <2>0, <3>3 DEF WorkerOK
    <3> QED
      BY <2>0, <2>2, <3>1, <3>2, <3>3, NoneApart DEF WorkerOK, Popped, TypeOK
  <2> QED
    BY <2>0, <2>1, <2>2 DEF OneOwner, HandsOK
<1>2. SchedInv => OneOwner
  BY <1>1 DEF SchedInv, OneOwner
<1> QED
  BY <1>2, SchedInvariance, PTL

(* credit_count is what the running jobs cost, through any number of        *)
(* resets, and 0 between drm_sched_stop and drm_sched_start.                *)
THEOREM SchedCreditBalance == Spec => []CreditBalance
<1>1. SchedInv => CreditBalance
  BY DEF SchedInv, IInv, CreditOK, CreditBalance, Busy, Stopped
<1> QED
  BY <1>1, SchedInvariance, PTL

(* The jobs of an entity are given to the hardware in the order of          *)
(* drm_sched_entity_push_job, and jobs that drm_sched_entity_kill discards  *)
(* end in that order too, until a walk gets company.                        *)
THEOREM SchedOrderKept == Spec => [](raced \/ OrderKept)
<1>1. SchedInv => raced \/ OrderKept
  BY DEF SchedInv, IInv, InOrder, OrderKept, Later, Pred
<1> QED
  BY <1>1, SchedInvariance, PTL

(* No job is run before its dependencies are settled, and no killed job     *)
(* ends before they have signalled (drm_sched_entity_pop_job,               *)
(* drm_sched_entity_kill_jobs_work), until a walk gets company.             *)
THEOREM SchedDepsHonoured == Spec => [](raced \/ DepsHonoured)
<1>1. SchedInv => raced \/ DepsHonoured
  BY DEF SchedInv, IInv
<1> QED
  BY <1>1, SchedInvariance, PTL

(* The run worker never holds an entity that drm_sched_entity_fini has let  *)
(* go, until a walk gets company.                                           *)
THEOREM SchedEntityHeld == Spec => [](raced \/ EntityHeld)
<1>1. SchedInv => raced \/ EntityHeld
  BY DEF SchedInv, IInv, WorkerOK, EntityHeld
<1> QED
  BY <1>1, SchedInvariance, PTL

-----------------------------------------------------------------------------
(* The scheduler implements JobServer *)

(* No job changes its phase. *)
LEMMA SamePhases ==
    ASSUME \A k \in Jobs : /\ InWorker(k)' <=> InWorker(k)
                           /\ job'[k].finished <=> job[k].finished
                           /\ job'[k].at = job[k].at \/ job[k].finished,
           sched'.fini = "no" <=> sched.fini = "no"
    PROVE  UNCHANGED <<[j \in Jobs |-> Phase(j)], sched.fini # "no">>
<1>1. \A k \in Jobs : Phase(k)' = Phase(k)
  BY DEF Phase
<1>2. [j \in Jobs |-> Phase(j)]' = [j \in Jobs |-> Phase(j)]
  BY <1>1
<1>3. (sched.fini # "no")' = (sched.fini # "no")
  OBVIOUS
<1> QED
  BY <1>2, <1>3

(* The jobs in S end. *)
LEMMA EndPhases ==
    ASSUME NEW S \in SUBSET Jobs,
           \A k \in S : Phase(k) = "running" /\ job'[k].finished,
           \A k \in Jobs \ S : Phase(k)' = Phase(k),
           sched'.fini = "no" <=> sched.fini = "no"
    PROVE  [Server!Serve]_<<[j \in Jobs |-> Phase(j)], sched.fini # "no">>
<1>1. (sched.fini # "no")' = (sched.fini # "no")
  OBVIOUS
<1>2. \A k \in S : Phase(k)' = "over"
  BY DEF Phase
<1>3. CASE S = {}
  <2>1. [j \in Jobs |-> Phase(j)]' = [j \in Jobs |-> Phase(j)]
    BY <1>3
  <2> QED
    BY <1>1, <2>1
<1>4. CASE S # {}
  <2>1. S \in SUBSET Server!In("running")
    BY DEF Server!In
  <2>2. [j \in Jobs |-> Phase(j)]' = Server!Moved(S, "over")
    BY <1>2 DEF Server!Moved
  <2>3. Server!End(S)
    BY <1>1, <1>4, <2>1, <2>2 DEF Server!End
  <2>4. PICK k \in S : TRUE
    BY <1>4
  <2>5. [j \in Jobs |-> Phase(j)]' # [j \in Jobs |-> Phase(j)]
    <3>1. [j \in Jobs |-> Phase(j)]'[k] = "over" /\ [j \in Jobs |-> Phase(j)][k] = "running"
      BY <1>2, <2>4
    <3> QED
      BY <3>1
  <2> QED
    BY <2>1, <2>3, <2>5 DEF Server!Serve
<1> QED
  BY <1>3, <1>4

(* A push submits a job: those before it are submitted already. *)
LEMMA PushServes ==
    ASSUME IInv, NEW a \in Entities, NEW D \in SUBSET Jobs, NEW X \in SUBSET Exts, Push(a, D, X)
    PROVE  [Server!Serve]_<<[j \in Jobs |-> Phase(j)], sched.fini # "no">>
<1>0. TypeOK /\ QueueOK /\ FencesOK /\ FiniOK /\ HandsOK
  BY DEF IInv
<1>1. PICK n \in Nat : n = ent[a].n
  BY <1>0, Places, JobPairs
<1> DEFINE j == <<a, n + 1>>
<1>2. n + 1 \in 1..MaxJobs /\ j \in Jobs /\ j[1] = a /\ j[2] = n + 1
  BY <1>0, <1>1, PushRoom DEF Push
<1>3. /\ \A k \in Jobs \ {j} : job'[k] = job[k]
      /\ job'[j].at = "queue" /\ (job'[j].finished <=> job[j].finished)
      /\ ent[a].owner # "gone" /\ sched' = sched /\ wk' = wk
  <2> DEFINE deps == {Fence("finished", d) : d \in drm_sched_job_add_dependency(D)}
                       \cup {Fence("ext", x) : x \in X}
             r == [job[j] EXCEPT !.at = "queue", !.deps = deps, !.left = deps,
                                 !.late = ent[a].stopped]
  <2>1. /\ job' = [job EXCEPT ![j] = r] /\ ent[a].owner \in {"open", "killed"}
        /\ sched' = sched /\ wk' = wk
    BY <1>1 DEF Push
  <2>2. deps \in SUBSET Fences /\ job[j] \in JobRecord /\ ent[a].stopped \in BOOLEAN
    BY <1>0, <1>2 DEF Fence, Fences, drm_sched_job_add_dependency, TypeOK, EntityRecord
  <2> HIDE DEF deps
  <2>3. r \in JobRecord /\ r.at = "queue" /\ (r.finished <=> job[j].finished)
    BY <2>2 DEF JobRecord
  <2>4. job'[j] = r /\ \A k \in Jobs \ {j} : job'[k] = job[k]
    BY <1>0, <1>2, <2>1, <2>3, JobUpdate, ZenonT(60)
  <2> QED
    BY <2>1, <2>3, <2>4
<1>4. job[j].at = "new" /\ ~job[j].finished /\ ~InWorker(j)
  BY <1>0, <1>1, <1>2 DEF QueueOK, FencesOK, HandsOK
<1>5. sched.fini = "no" /\ (sched.fini # "no")' = (sched.fini # "no")
  BY <1>0, <1>3 DEF FiniOK
<1>6. Phase(j) = "new" /\ Phase(j)' = "waiting" /\ \A k \in Jobs \ {j} : Phase(k)' = Phase(k)
  BY <1>3, <1>4 DEF Phase, InWorker
<1>7. Server!Before(j) \cap Server!In("new") = {}
  <2>1. \A k \in Jobs : k[1] = a /\ k[2] < n + 1 => job[k].at # "new"
    BY <1>0, <1>1, JobPairs DEF QueueOK
  <2>2. \A k \in Jobs : k[1] = a /\ k[2] < n + 1 => Phase(k) # "new"
    BY <2>1 DEF Phase
  <2> QED
    BY <1>2, <2>2 DEF Server!Before, Server!In
<1> HIDE DEF j
<1>8. [k \in Jobs |-> Phase(k)]' = Server!Moved({j}, "waiting")
  BY <1>6 DEF Server!Moved
<1>9. Server!Submit(j)
  BY <1>2, <1>5, <1>6, <1>7, <1>8 DEF Server!Submit
<1>10. [k \in Jobs |-> Phase(k)]' # [k \in Jobs |-> Phase(k)]
  <2>1. [k \in Jobs |-> Phase(k)]'[j] = "waiting" /\ [k \in Jobs |-> Phase(k)][j] = "new"
    BY <1>2, <1>6
  <2> QED
    BY <2>1
<1> QED
  BY <1>2, <1>9, <1>10 DEF Server!Serve

(* The work of a killed job discards it. *)
LEMMA KillWorkServes ==
    ASSUME IInv, NEW j \in Jobs, KillWork(j)
    PROVE  [Server!Serve]_<<[k \in Jobs |-> Phase(k)], sched.fini # "no">>
<1>0. TypeOK /\ FencesOK /\ HandsOK
  BY DEF IInv
<1>1. /\ job[j].at = "kill" /\ job'[j].finished /\ \A k \in Jobs \ {j} : job'[k] = job[k]
      /\ wk' = wk
  BY <1>0 DEF KillWork, TypeOK, JobRecord
<1>2. ~job[j].finished /\ ~InWorker(j)
  BY <1>0, <1>1 DEF FencesOK, HandsOK
<1>3. Phase(j) = "withdrawn" /\ Phase(j)' = "over" /\ \A k \in Jobs \ {j} : Phase(k)' = Phase(k)
  BY <1>1, <1>2 DEF Phase, InWorker
<1>4. sched'.fini = sched.fini
  BY <1>0, OutsideWalk DEF KillWork, TypeOK
<1>5. (sched.fini # "no")' = (sched.fini # "no")
  BY <1>4
<1>6. [k \in Jobs |-> Phase(k)]' = Server!Moved({j}, "over")
  BY <1>3 DEF Server!Moved
<1>7. Server!Discard(j)
  BY <1>3, <1>5, <1>6 DEF Server!Discard
<1>8. [k \in Jobs |-> Phase(k)]' # [k \in Jobs |-> Phase(k)]
  <2>1. [k \in Jobs |-> Phase(k)]'[j] = "over" /\ [k \in Jobs |-> Phase(k)][j] = "withdrawn"
    BY <1>3
  <2> QED
    BY <2>1
<1> QED
  BY <1>7, <1>8 DEF Server!Serve

(* A kill withdraws all jobs of its entity that wait: none of them is in    *)
(* the run worker.                                                          *)
LEMMA KillJobsServes ==
    ASSUME IInv, NEW a \in Entities, KillJobs(a)
    PROVE  [Server!Serve]_<<[k \in Jobs |-> Phase(k)], sched.fini # "no">>
<1>0. TypeOK /\ QueueOK /\ FencesOK /\ WorkerOK /\ HandsOK
  BY DEF IInv
<1> DEFINE q == ent[a].queue
<1>a. PICK Q \in SUBSET Jobs : Q = {j \in Jobs : \E i \in DOMAIN q : q[i] = j}
  OBVIOUS
<1>1. /\ ent[a].idle /\ wk' = wk /\ sched' = sched
      /\ \A j \in Jobs \ Q : job'[j] = job[j]
  BY <1>a DEF KillJobs, KillIdle
<1>2. ASSUME NEW j \in Q
      PROVE  job'[j].at = "kill" /\ (job'[j].finished <=> job[j].finished)
  <2>1. PICK p : job'[j] = [job[j] EXCEPT !.at = "kill", !.prev = p]
    BY <1>a, <1>2 DEF KillJobs
  <2>2. job[j] \in JobRecord
    BY <1>0 DEF TypeOK
  <2> QED
    BY <2>1, <2>2 DEF JobRecord
<1>3. ASSUME NEW j \in Jobs
      PROVE  j \in Q <=> j[1] = a /\ job[j].at = "queue"
  <2>0. /\ q \in Seq(Jobs) /\ Len(q) \in Nat /\ DOMAIN q = 1..Len(q) /\ ent[a].n \in Nat
        /\ Gone(a) \in Int /\ Gone(a) + Len(q) = ent[a].n /\ Gone(a) >= 0
    BY <1>0, Places, JobPairs DEF Gone, QueueOK
  <2>1. \A i \in DOMAIN q : q[i] = <<a, Gone(a) + i>>
    BY <1>0, <2>0 DEF QueueOK
  <2>2. j[1] = a => (job[j].at = "queue" <=> Gone(a) < j[2] /\ j[2] <= ent[a].n)
    BY <1>0 DEF QueueOK
  <2>3. ASSUME j[1] = a, job[j].at = "queue"
        PROVE  j \in Q
    <3>1. j[2] - Gone(a) \in DOMAIN q
      BY <2>0, <2>2, <2>3, JobPairs
    <3>2. Gone(a) + (j[2] - Gone(a)) = j[2]
      BY <2>0, JobPairs
    <3> QED
      BY <1>a, <2>1, <2>3, <3>1, <3>2, JobPairs
  <2>4. ASSUME NEW i \in DOMAIN q, q[i] = j
        PROVE  j[1] = a /\ job[j].at = "queue"
    <3>1. j[1] = a /\ j[2] = Gone(a) + i
      BY <2>1, <2>4
    <3> QED
      BY <2>0, <2>2, <3>1
  <2> QED
    BY <1>a, <2>3, <2>4
<1>4. \A j \in Q : ~job[j].finished /\ ~InWorker(j)
  BY <1>0, <1>3 DEF FencesOK, HandsOK
<1>5. /\ \A j \in Q : Phase(j) = "waiting" /\ Phase(j)' = "withdrawn"
      /\ \A j \in Jobs \ Q : Phase(j)' = Phase(j)
  BY <1>1, <1>2, <1>3, <1>4 DEF Phase, InWorker
<1>6. (sched.fini # "no")' = (sched.fini # "no")
  BY <1>1
<1>7. CASE Q = {}
  <2>1. [k \in Jobs |-> Phase(k)]' = [k \in Jobs |-> Phase(k)]
    BY <1>5, <1>7
  <2> QED
    BY <1>6, <2>1
<1>8. CASE Q # {}
  <2>1. \A j \in Jobs : InWorker(j) => j[1] # a
    BY <1>0, <1>1 DEF InWorker, WorkerOK, Holding
  <2>2. \A j \in Jobs : Phase(j) = "waiting" /\ j[1] = a => j \in Q
    BY <1>3, <2>1 DEF Phase
  <2>3. {j \in Server!In("waiting") : j[1] = a} = Q
    BY <1>3, <1>5, <2>2 DEF Server!In
  <2>4. [k \in Jobs |-> Phase(k)]' = Server!Moved({j \in Server!In("waiting") : j[1] = a}, "withdrawn")
    BY <1>5, <2>3 DEF Server!Moved
  <2>5. PICK j \in Q : TRUE
    BY <1>8
  <2>6. j \in Server!In("waiting") /\ j[1] = a /\ j \in Jobs
    BY <2>3
  <2>7. Server!Withdraw(a)
    BY <1>6, <2>4, <2>6 DEF Server!Withdraw
  <2>8. [k \in Jobs |-> Phase(k)]' # [k \in Jobs |-> Phase(k)]
    <3>1. [k \in Jobs |-> Phase(k)]'[j] = "withdrawn" /\ [k \in Jobs |-> Phase(k)][j] = "waiting"
      BY <1>5, <2>5
    <3> QED
      BY <3>1
  <2>9. a \in {k[1] : k \in Jobs}
    BY <2>6
  <2> QED
    BY <2>7, <2>8, <2>9 DEF Server!Serve
<1> QED
  BY <1>7, <1>8

(* The steps of the owners, of the timeout worker and of drm_sched_fini that *)
(* leave the jobs and the run worker alone.                                  *)
LEMMA QuietServes ==
    ASSUME IInv, job' = job, wk' = wk, sched'.fini = sched.fini
    PROVE  UNCHANGED <<[k \in Jobs |-> Phase(k)], sched.fini # "no">>
BY SamePhases DEF InWorker

(* Other steps of the owners, *)
LEMMA OwnerServes ==
    ASSUME IInv, NEW a \in Entities, AddEntity(a) \/ Flush(a) \/ KillStart(a)
    PROVE  UNCHANGED <<[k \in Jobs |-> Phase(k)], sched.fini # "no">>
<1>0. sched \in SchedRecord
  BY DEF IInv, TypeOK
<1>1. /\ job' = job /\ wk' = wk
      /\ sched' = sched \/ sched' = Late({"run"}, drm_sched_run_job_queue(sched))
  BY DEF AddEntity, Flush, KillStart
<1>2. sched'.fini = sched.fini
  BY <1>0, <1>1, OutsideWalk
<1> QED
  BY <1>1, <1>2, QuietServes

(* foreign fences, *)
LEMMA ExtSignalServes ==
    ASSUME IInv, NEW x \in Exts, ExtSignal(x)
    PROVE  UNCHANGED <<[k \in Jobs |-> Phase(k)], sched.fini # "no">>
<1>1. sched'.fini = sched.fini
  BY OutsideWalk DEF ExtSignal, IInv, TypeOK
<1> QED
  BY <1>1, QuietServes DEF ExtSignal

(* the timeout worker when it moves a job from the list and back, *)
LEMMA TimerServes ==
    ASSUME IInv, TdrFire \/ NoHang \/ StopBegin \/ Fault
    PROVE  UNCHANGED <<[k \in Jobs |-> Phase(k)], sched.fini # "no">>
<1>0. sched \in SchedRecord
  BY DEF IInv, TypeOK
<1>1. job' = job /\ wk' = wk
  BY DEF TdrFire, NoHang, StopBegin, Fault
<1>2. sched'.fini = sched.fini
  <2>1. CASE TdrFire
    BY <1>0, <2>1 DEF TdrFire, SchedRecord
  <2>2. CASE NoHang
    BY <1>0, <2>2 DEF NoHang, SchedRecord, drm_sched_start_timeout, drm_sched_run_free_queue
  <2>3. CASE StopBegin
    BY <1>0, <2>3 DEF StopBegin, SchedRecord
  <2>4. CASE Fault
    BY <1>0, <2>4 DEF Fault, SchedRecord
  <2> QED
    BY <2>1, <2>2, <2>3, <2>4
<1> QED
  BY <1>1, <1>2, QuietServes

(* and the middle of drm_sched_fini are not seen by JobServer. *)
LEMMA FiniStepServes ==
    ASSUME IInv, FiniStop \/ FiniTimer \/ FiniDestroy
    PROVE  UNCHANGED <<[k \in Jobs |-> Phase(k)], sched.fini # "no">>
<1>0. sched \in SchedRecord
  BY DEF IInv, TypeOK
<1>1. job' = job /\ wk' = wk
  BY DEF FiniStop, FiniTimer, FiniDestroy
<1>2. sched'.fini # "no" /\ sched.fini # "no"
  BY <1>0 DEF FiniStop, FiniTimer, FiniDestroy, Cancelled, Walk, SchedRecord
<1> QED
  BY <1>1, <1>2, SamePhases DEF InWorker

(* The steps of the two workers before drm_sched_job_begin and after it: a   *)
(* popped job waits until then.                                              *)
LEMMA WorkerServes ==
    ASSUME IInv, Select \/ PopEntity \/ FreeStart
    PROVE  UNCHANGED <<[k \in Jobs |-> Phase(k)], sched.fini # "no">>
<1>0. TypeOK /\ WorkerOK /\ sched \in SchedRecord
  BY DEF IInv, TypeOK
<1>1. job' = job /\ sched'.fini = sched.fini
  BY <1>0 DEF Select, PopEntity, FreeStart, SchedRecord
<1>2. \A k \in Jobs : InWorker(k)' <=> InWorker(k)
  <2>1. CASE Select
    BY <2>1 DEF Select, InWorker
  <2>2. CASE PopEntity
    BY <1>0, <2>2 DEF PopEntity, InWorker, TypeOK
  <2>3. CASE FreeStart
    BY <2>3 DEF FreeStart, InWorker, IdleWork
  <2> QED
    BY <2>1, <2>2, <2>3
<1> QED
  BY <1>1, <1>2, SamePhases

(* A dependency is taken off a job that waits. *)
LEMMA PopDependencyServes ==
    ASSUME IInv, PopDependency
    PROVE  UNCHANGED <<[k \in Jobs |-> Phase(k)], sched.fini # "no">>
<1>0. TypeOK /\ WorkerOK /\ sched \in SchedRecord
  BY DEF IInv, TypeOK
<1>a. PICK h \in Jobs : h = wk.j
  BY <1>0 DEF PopDependency, WorkerOK, Holding
<1>1. PICK f \in job[h].left : job' = [job EXCEPT ![h].left = job[h].left \ {f}]
  BY <1>a DEF PopDependency
<1> DEFINE r == [job[h] EXCEPT !.left = job[h].left \ {f}]
<1>2. job[h] \in JobRecord /\ job' = [job EXCEPT ![h] = r]
  BY <1>0, <1>1 DEF TypeOK
<1>3. r \in JobRecord /\ r.at = job[h].at /\ (r.finished <=> job[h].finished)
  BY <1>2 DEF JobRecord
<1>4. job'[h] = r /\ \A k \in Jobs \ {h} : job'[k] = job[k]
  BY <1>0, <1>2, <1>3, JobUpdate
<1> HIDE DEF r
<1>5. \A k \in Jobs : job'[k].at = job[k].at /\ (job'[k].finished <=> job[k].finished)
  BY <1>3, <1>4
<1>6. wk.pc = "pop" /\ (wk' = wk \/ wk' = IdleWork)
      /\ (sched' = sched \/ sched' = drm_sched_run_job_queue(sched))
  BY DEF PopDependency
<1>7. sched'.fini = sched.fini
  BY <1>0, <1>6, QueueingContract DEF Like
<1>8. \A k \in Jobs : InWorker(k)' <=> InWorker(k)
  BY <1>6 DEF InWorker, IdleWork
<1> QED
  BY <1>5, <1>7, <1>8, SamePhases

(* A popped job waits on, now in the run worker. *)
LEMMA PopJobServes ==
    ASSUME IInv, PopJob
    PROVE  UNCHANGED <<[k \in Jobs |-> Phase(k)], sched.fini # "no">>
<1>0. TypeOK /\ QueueOK /\ FencesOK /\ WorkerOK
  BY DEF IInv
<1>a. PICK a \in Entities, h \in Jobs : a = wk.e /\ h = wk.j
  BY <1>0 DEF PopJob, WorkerOK, Holding, TypeOK
<1> DEFINE r == [job[h] EXCEPT !.at = "run"]
<1>1. /\ wk.pc = "pop" /\ wk' = [wk EXCEPT !.pc = "requeue"]
      /\ job' = [job EXCEPT ![h] = r] /\ sched' = sched
  BY <1>a DEF PopJob
<1>2. job[h].at = "queue" /\ ~job[h].finished /\ job[h] \in JobRecord
  BY <1>0, <1>a, <1>1, QueueHead DEF WorkerOK, Holding, TypeOK, FencesOK
<1>3. r \in JobRecord /\ r.at = "run" /\ (r.finished <=> job[h].finished)
  BY <1>2 DEF JobRecord
<1>4. job'[h] = r /\ \A k \in Jobs \ {h} : job'[k] = job[k]
  BY <1>0, <1>1, <1>3, JobUpdate
<1> HIDE DEF r
<1>5. \A k \in Jobs : ~InWorker(k) /\ (InWorker(k)' <=> k = h)
  BY <1>0, <1>a, <1>1 DEF InWorker, TypeOK
<1>6. \A k \in Jobs : Phase(k)' = Phase(k)
  BY <1>2, <1>3, <1>4, <1>5 DEF Phase
<1>7. [k \in Jobs |-> Phase(k)]' = [k \in Jobs |-> Phase(k)]
  BY <1>6
<1> QED
  BY <1>1, <1>7

(* run_job of a running job. *)
LEMMA RunJobServes ==
    ASSUME IInv, RunJob
    PROVE  UNCHANGED <<[k \in Jobs |-> Phase(k)], sched.fini # "no">>
<1>0. TypeOK /\ WorkerOK /\ sched \in SchedRecord
  BY DEF IInv, TypeOK
<1>a. PICK h \in Jobs : h = wk.j
  BY <1>0 DEF RunJob, WorkerOK, Holding
<1>1. PICK hw \in {"none", "running", "hung"} :
           job' = [job EXCEPT ![h].parent = hw, ![h].scheduled = TRUE]
  BY <1>a DEF RunJob
<1> DEFINE r == [job[h] EXCEPT !.parent = hw, !.scheduled = TRUE]
<1>2. job[h] \in JobRecord /\ job' = [job EXCEPT ![h] = r]
  BY <1>0, <1>1 DEF TypeOK
<1>3. r \in JobRecord /\ r.at = job[h].at /\ (r.finished <=> job[h].finished)
  BY <1>2 DEF JobRecord
<1>4. job'[h] = r /\ \A k \in Jobs \ {h} : job'[k] = job[k]
  BY <1>0, <1>2, <1>3, JobUpdate
<1> HIDE DEF r
<1>5. \A k \in Jobs : job'[k].at = job[k].at /\ (job'[k].finished <=> job[k].finished)
  BY <1>3, <1>4
<1>6. wk.pc = "run" /\ wk'.pc = "callback"
  BY <1>0 DEF RunJob, TypeOK
<1>7. sched'.fini = sched.fini
  BY <1>0, QueueingContract DEF RunJob, Like
<1>8. \A k \in Jobs : InWorker(k)' <=> InWorker(k)
  BY <1>6 DEF InWorker
<1> QED
  BY <1>5, <1>7, <1>8, SamePhases

(* Only jobs that are finished are freed before drm_sched_fini. *)
LEMMA FreeJobServes ==
    ASSUME IInv, FreeJob
    PROVE  UNCHANGED <<[k \in Jobs |-> Phase(k)], sched.fini # "no">>
<1>0. TypeOK /\ HandsOK /\ sched \in SchedRecord
  BY DEF IInv, TypeOK
<1>1. wk.pc = "free" /\ (wk' = wk \/ wk' = IdleWork)
  BY DEF FreeJob
<1>2. \A k \in Jobs : InWorker(k)' <=> InWorker(k)
  BY <1>1 DEF InWorker, IdleWork
<1>3. CASE HeadFinished
  <2>1. PICK h : h = Head(sched.pending)
    OBVIOUS
  <2>2. /\ job' = free_job({h}, job) /\ job[h].finished
        /\ sched' = drm_sched_start_timeout([sched EXCEPT !.pending = Tail(@), !.timer = FALSE])
    BY <1>3, <2>1 DEF FreeJob, HeadFinished
  <2>3. \A k \in Jobs : /\ job'[k].finished <=> job[k].finished
                        /\ k # h => job'[k] = job[k]
    BY <1>0, <2>2, FreedContract DEF TypeOK
  <2>4. sched'.fini = sched.fini
    BY <1>0, <2>2 DEF SchedRecord, drm_sched_start_timeout
  <2> QED
    BY <1>2, <2>2, <2>3, <2>4, SamePhases
<1>4. CASE ~HeadFinished
  <2>1. job' = job /\ sched' = drm_sched_run_job_queue(sched)
    BY <1>4 DEF FreeJob
  <2>2. sched'.fini = sched.fini
    BY <1>0, <2>1, QueueingContract DEF Like
  <2> QED
    BY <1>2, <2>1, <2>2, SamePhases
<1> QED
  BY <1>3, <1>4

(* drm_sched_stop frees finished jobs only, *)
LEMMA StopServes ==
    ASSUME IInv, Stop
    PROVE  UNCHANGED <<[k \in Jobs |-> Phase(k)], sched.fini # "no">>
<1>0. TypeOK /\ sched \in SchedRecord
  BY DEF IInv, TypeOK
<1>a. PICK L : L = Range(<<tdr.j>> \o sched.pending)
  OBVIOUS
<1>b. PICK alive : alive = {j \in L : job[j].cb}
  OBVIOUS
<1> DEFINE jb == Deactivated(alive, job)
           F == L \ (alive \cup {tdr.j})
<1>1. /\ job' = free_job(F, jb) /\ wk' = wk /\ \A k \in F : job[k].finished
  BY <1>a, <1>b DEF Stop
<1>2. sched'.fini = sched.fini
  BY <1>0 DEF Stop, Cancelled, SchedRecord
<1>3. /\ jb \in [Jobs -> JobRecord]
      /\ \A k \in Jobs : jb[k].at = job[k].at /\ (jb[k].finished <=> job[k].finished)
  BY <1>0, DeactivatedContract DEF TypeOK
<1> HIDE DEF jb, F
<1>4. \A k \in Jobs : /\ job'[k].finished <=> jb[k].finished
                      /\ k \notin F => job'[k] = jb[k]
  BY <1>1, <1>3, FreedContract
<1>5. \A k \in Jobs : /\ job'[k].finished <=> job[k].finished
                      /\ job'[k].at = job[k].at \/ job[k].finished
  BY <1>1, <1>3, <1>4
<1> QED
  BY <1>1, <1>2, <1>5, SamePhases DEF InWorker

(* the resubmission none, *)
LEMMA ResubmitServes ==
    ASSUME IInv, Resubmit
    PROVE  UNCHANGED <<[k \in Jobs |-> Phase(k)], sched.fini # "no">>
<1>0. TypeOK
  BY DEF IInv
<1>1. PICK hw \in [Range(sched.pending) -> {"none", "running", "hung"}] :
         job' = [j \in Jobs |-> IF j \in Range(sched.pending)
                                THEN [job[j] EXCEPT !.parent = hw[j]] ELSE job[j]]
  BY DEF Resubmit
<1>2. ASSUME NEW k \in Jobs
      PROVE  job'[k].at = job[k].at /\ (job'[k].finished <=> job[k].finished)
  <2>1. job[k] \in JobRecord
    BY <1>0 DEF TypeOK
  <2>2. job'[k] = job[k] \/ \E p : job'[k] = [job[k] EXCEPT !.parent = p]
    BY <1>1
  <2> QED
    BY <2>1, <2>2 DEF JobRecord
<1>3. wk' = wk /\ sched' = sched
  BY DEF Resubmit
<1> QED
  BY <1>2, <1>3, SamePhases DEF InWorker

(* and the timeout worker one that is over. *)
LEMMA TdrEndServes ==
    ASSUME IInv, TdrEnd
    PROVE  UNCHANGED <<[k \in Jobs |-> Phase(k)], sched.fini # "no">>
<1>0. TypeOK /\ TdrOK /\ sched \in SchedRecord
  BY DEF IInv, TypeOK
<1>a. PICK h \in Jobs : h = tdr.j
  BY <1>0 DEF TdrEnd, TdrOK
<1>1. wk' = wk /\ (job' = job \/ (job[h].finished /\ job' = free_job({h}, job)))
  BY <1>0, <1>a DEF TdrEnd, TdrOK
<1>2. sched'.fini = sched.fini
  BY <1>0 DEF TdrEnd, SchedRecord, drm_sched_start_timeout
<1>3. \A k \in Jobs : /\ free_job({h}, job)[k].finished <=> job[k].finished
                      /\ k # h => free_job({h}, job)[k] = job[k]
  BY <1>0, FreedContract DEF TypeOK
<1>4. \A k \in Jobs : /\ job'[k].finished <=> job[k].finished
                      /\ job'[k].at = job[k].at \/ job[k].finished
  BY <1>1, <1>3
<1> QED
  BY <1>1, <1>2, <1>4, SamePhases DEF InWorker

-----------------------------------------------------------------------------
(* The steps that end jobs *)

(* A job without a hardware fence ends at once, *)
LEMMA AddCallbackServes ==
    ASSUME IInv, AddCallback
    PROVE  [Server!Serve]_<<[k \in Jobs |-> Phase(k)], sched.fini # "no">>
<1>0. TypeOK /\ WorkerOK /\ TdrOK /\ CreditOK
  BY DEF IInv
<1>a. PICK h \in Jobs : h = wk.j
  BY <1>0 DEF AddCallback, WorkerOK, Popped
<1>b. PICK done \in SUBSET {h} : done = IF job[h].parent \in {"none", "signalled"} THEN {h} ELSE {}
  OBVIOUS
<1> DEFINE jb == Finished(done, job)
           b == (done = {})
           r == [jb[h] EXCEPT !.cb = b]
<1>1. /\ wk.pc = "callback" /\ wk' = IdleWork /\ job' = [jb EXCEPT ![h] = r]
      /\ sched' = drm_sched_run_job_queue(JobsDone(done, sched))
  BY <1>a, <1>b DEF AddCallback
<1>2. job[h].at = "run" /\ ~job[h].finished
  BY <1>0, <1>a, <1>1 DEF WorkerOK, Popped
<1>3. /\ jb \in [Jobs -> JobRecord]
      /\ \A k \in Jobs : /\ jb[k].at = job[k].at
                         /\ jb[k].finished <=> job[k].finished \/ k \in done
  BY <1>0, FinishedContract DEF TypeOK
<1>4. b \in BOOLEAN /\ jb[h] \in JobRecord
  BY <1>3
<1> HIDE DEF jb, b
<1>5. r.at = jb[h].at /\ (r.finished <=> jb[h].finished)
  BY <1>4 DEF JobRecord
<1> HIDE DEF r
<1>6. \A k \in Jobs : /\ job'[k].at = job[k].at
                      /\ job'[k].finished <=> job[k].finished \/ k \in done
  BY <1>1, <1>3, <1>5
<1>7. ~Stopped /\ \A k \in Jobs : ~InWorker(k) /\ ~InWorker(k)'
  BY <1>0, <1>1 DEF TdrOK, Stopped, InWorker, IdleWork
<1>8. done \in SUBSET Busy /\ done \in SUBSET Jobs
  BY <1>2, <1>7 DEF Busy
<1>9. sched'.fini = sched.fini
  <2>1. JobsDone(done, sched) \in SchedRecord /\ JobsDone(done, sched).fini = sched.fini
    BY <1>0, <1>7, <1>8, DoneCredits
  <2> QED
    BY <1>1, <2>1, QueueingContract DEF Like
<1>10. \A k \in done : Phase(k) = "running" /\ job'[k].finished
  BY <1>2, <1>6, <1>7, <1>8 DEF Phase
<1>11. \A k \in Jobs \ done : Phase(k)' = Phase(k)
  BY <1>6, <1>7 DEF Phase
<1> QED
  BY <1>8, <1>9, <1>10, <1>11, EndPhases

(* one with a fence when it signals, once, *)
LEMMA HwDoneServes ==
    ASSUME IInv, NEW h \in Jobs, HwDone(h)
    PROVE  [Server!Serve]_<<[k \in Jobs |-> Phase(k)], sched.fini # "no">>
<1>0. TypeOK /\ FencesOK /\ WorkerOK /\ TdrOK /\ CreditOK
  BY DEF IInv
<1>b. PICK done \in SUBSET {h} : done = IF job[h].cb THEN {h} ELSE {}
  OBVIOUS
<1> DEFINE W == Waiting(FinishedFences(done))
           jb == Finished(done, job)
           r == [jb[h] EXCEPT !.parent = "signalled", !.cb = FALSE]
           L == IF done = {} THEN {} ELSE {"free"}
<1>1. /\ wk' = wk /\ job' = [jb EXCEPT ![h] = r]
      /\ sched' = Late(LateRun(W) \cup L, WakeSched(W, JobsDone(done, sched)))
  BY <1>b DEF HwDone
<1>2. h \in done => job[h].at = "run" /\ ~job[h].finished /\ job[h].cb
  BY <1>0, <1>b DEF FencesOK
<1>3. /\ jb \in [Jobs -> JobRecord]
      /\ \A k \in Jobs : /\ jb[k].at = job[k].at
                         /\ jb[k].finished <=> job[k].finished \/ k \in done
  BY <1>0, FinishedContract DEF TypeOK
<1>4. jb[h] \in JobRecord
  BY <1>3
<1> HIDE DEF jb
<1>5. r.at = jb[h].at /\ (r.finished <=> jb[h].finished)
  BY <1>4 DEF JobRecord
<1> HIDE DEF r
<1>6. \A k \in Jobs : /\ job'[k].at = job[k].at
                      /\ job'[k].finished <=> job[k].finished \/ k \in done
  BY <1>1, <1>3, <1>5
<1>7. \A k \in Jobs : InWorker(k)' <=> InWorker(k)
  BY <1>1 DEF InWorker
<1>8. h \in done => ~Stopped /\ ~InWorker(h)
  BY <1>0, <1>2 DEF TdrOK, WorkerOK, Popped, InWorker
<1>9. done \in SUBSET Busy /\ done \in SUBSET Jobs
  BY <1>2, <1>8 DEF Busy
<1>10. sched'.fini = sched.fini
  <2>1. JobsDone(done, sched) \in SchedRecord /\ JobsDone(done, sched).fini = sched.fini
    <3>1. CASE h \in done
      BY <1>0, <1>8, <1>9, <3>1, DoneCredits
    <3>2. CASE h \notin done
      <4>1. done = {}
        BY <3>2
      <4> QED
        BY <1>0, <4>1 DEF JobsDone, TypeOK
    <3> QED
      BY <3>1, <3>2
  <2>2. L \in SUBSET {"run", "free"}
    OBVIOUS
  <2> HIDE DEF L
  <2> QED
    BY <1>1, <2>1, <2>2, OutsideContract DEF Like
<1>11. \A k \in done : Phase(k) = "running" /\ job'[k].finished
  BY <1>2, <1>6, <1>8, <1>9 DEF Phase
<1>12. \A k \in Jobs \ done : Phase(k)' = Phase(k)
  BY <1>6, <1>7 DEF Phase
<1> QED
  BY <1>9, <1>10, <1>11, <1>12, EndPhases

(* and drm_sched_start ends those that were not resubmitted. *)
LEMMA StartServes ==
    ASSUME IInv, Start
    PROVE  [Server!Serve]_<<[k \in Jobs |-> Phase(k)], sched.fini # "no">>
<1>0. TypeOK /\ TdrOK /\ HandsOK /\ sched \in SchedRecord
  BY DEF IInv, TypeOK
<1>a. PICK P : P = Range(sched.pending)
  OBVIOUS
<1>b. PICK done : done = {j \in P : job[j].parent \in {"none", "signalled"}}
  OBVIOUS
<1> DEFINE jb == Finished(done, job)
<1>1. /\ tdr.pc \in {"stopped", "resubmitted"} /\ wk' = wk
      /\ job' = [j \in Jobs |-> IF j \in P \ done THEN [job[j] EXCEPT !.cb = TRUE] ELSE jb[j]]
  BY <1>a, <1>b DEF Start
<1>2. P \in SUBSET Jobs /\ done \in SUBSET P /\ done \in SUBSET Jobs
  BY <1>0, <1>a, <1>b, Places DEF OnList
<1>3. \A k \in Jobs : /\ jb[k].at = job[k].at
                      /\ jb[k].finished <=> job[k].finished \/ k \in done
  BY <1>0, FinishedContract DEF TypeOK
<1> HIDE DEF jb
<1>4. ASSUME NEW k \in Jobs
      PROVE  /\ job'[k].at = job[k].at
             /\ job'[k].finished <=> job[k].finished \/ k \in done
  <2>1. CASE k \in P \ done
    <3>1. job'[k] = [job[k] EXCEPT !.cb = TRUE] /\ job[k] \in JobRecord
      BY <1>0, <1>1, <2>1 DEF TypeOK
    <3> QED
      BY <2>1, <3>1 DEF JobRecord
  <2>2. CASE k \notin P \ done
    BY <1>1, <1>3, <2>2
  <2> QED
    BY <2>1, <2>2
<1>5. \A k \in Jobs : ~InWorker(k) /\ ~InWorker(k)'
  BY <1>0, <1>1 DEF TdrOK, Stopped, InWorker
<1>6. \A k \in done : job[k].at = "run" /\ ~job[k].finished
  BY <1>0, <1>a, <1>1, <1>2 DEF HandsOK, TdrOK, Stopped, OnList
<1>7. sched'.fini = sched.fini
  BY <1>0 DEF Start, JobsDone, drm_sched_run_free_queue, drm_sched_start_timeout, SchedRecord
<1>8. \A k \in done : Phase(k) = "running" /\ job'[k].finished
  BY <1>2, <1>4, <1>5, <1>6 DEF Phase
<1>9. \A k \in Jobs \ done : Phase(k)' = Phase(k)
  BY <1>4, <1>5 DEF Phase
<1> QED
  BY <1>2, <1>7, <1>8, <1>9, EndPhases

-----------------------------------------------------------------------------
(* The step that starts a job: its credits are still free, and no job of    *)
(* its entity that waits was pushed before it.                              *)
LEMMA JobBeginServes ==
    ASSUME IInv, JobBegin
    PROVE  [Server!Serve]_<<[k \in Jobs |-> Phase(k)], sched.fini # "no">>
<1>0. TypeOK /\ QueueOK /\ FencesOK /\ WorkerOK /\ FiniOK /\ TdrOK /\ CreditOK /\ sched \in SchedRecord
  BY DEF IInv, TypeOK
<1>a. PICK h \in Jobs : h = wk.j
  BY <1>0 DEF JobBegin, WorkerOK, Popped
<1>1. /\ wk.pc = "begin" /\ job' = job /\ wk' = [wk EXCEPT !.pc = "run"]
      /\ sched' = drm_sched_start_timeout(
                    [sched EXCEPT !.credits = @ + Cost(wk.j), !.pending = Append(@, wk.j)])
  BY DEF JobBegin
<1>2. sched'.fini = sched.fini
  BY <1>0, <1>1 DEF drm_sched_start_timeout, SchedRecord
<1>3. job[h].at = "run" /\ ~job[h].finished /\ ~Stopped
  BY <1>0, <1>a, <1>1 DEF WorkerOK, Popped, TdrOK
<1>4. sched.fini = "no" /\ (sched.fini # "no")' = (sched.fini # "no")
  BY <1>0, <1>1, <1>2 DEF FiniOK, WorkerOK, Holding, TypeOK
<1>5. \A k \in Jobs : (InWorker(k) <=> k = h) /\ ~InWorker(k)'
  BY <1>0, <1>a, <1>1 DEF InWorker, TypeOK
<1>6. Phase(h) = "waiting" /\ Phase(h)' = "running" /\ \A k \in Jobs \ {h} : Phase(k)' = Phase(k)
  BY <1>1, <1>3, <1>5 DEF Phase
<1>7. Server!Before(h) \cap Server!In("waiting") = {}
  <2>1. /\ h[1] \in Entities /\ h[2] \in Nat /\ Gone(h[1]) \in Int /\ ent[h[1]].n \in Int
        /\ \A k \in Jobs : k[2] \in Nat
    BY <1>0, Places, JobPairs
  <2>2. h[2] <= Gone(h[1])
    BY <1>0, <1>3, <2>1 DEF QueueOK
  <2>3. \A k \in Jobs : k[1] = h[1] /\ k[2] < h[2] => job[k].at # "queue"
    BY <1>0, <2>1, <2>2 DEF QueueOK
  <2>4. \A k \in Jobs : k[2] < h[2] => k # h
    BY <2>1
  <2>5. \A k \in Jobs : k[1] = h[1] /\ k[2] < h[2] => Phase(k) # "waiting"
    BY <1>5, <2>3, <2>4 DEF Phase
  <2> QED
    BY <2>5 DEF Server!Before, Server!In
<1>8. Server!In("running") = Busy
  <2>1. \A k \in Jobs : Phase(k) = "running" <=> k \in Busy
    BY DEF Phase, Busy
  <2> QED
    BY <2>1 DEF Server!In, Busy
<1>9. Server!Cardinality(Server!Taken(Server!In("running") \cup {h})) <= CreditLimit
  <2>1. Busy \in SUBSET Jobs /\ {h} \in SUBSET Jobs /\ Busy \cap {h} = {}
    BY <1>5 DEF Busy
  <2>2. CostOf(Busy \cup {h}) = CostOf(Busy) + Cost(h)
    BY <2>1, CostOfParts, CostOfOne
  <2>3. sched.credits = CostOf(Busy) /\ sched.credits + Cost(h) <= CreditLimit
    BY <1>0, <1>a, <1>1, <1>3 DEF CreditOK, WorkerOK
  <2>4. Server!Cardinality(Server!Taken(Busy \cup {h})) = CostOf(Busy \cup {h})
    BY DEF Server!Taken, CostOf, Server!Cardinality, Cardinality
  <2> QED
    BY <1>8, <2>2, <2>3, <2>4
<1>10. [k \in Jobs |-> Phase(k)]' = Server!Moved({h}, "running")
  BY <1>6 DEF Server!Moved
<1>11. Server!Start(h)
  <2>1. ~(sched.fini # "no") /\ [k \in Jobs |-> Phase(k)][h] = "waiting"
    BY <1>4, <1>6
  <2> QED
    BY <1>4, <1>7, <1>9, <1>10, <2>1 DEF Server!Start
<1>12. [k \in Jobs |-> Phase(k)]' # [k \in Jobs |-> Phase(k)]
  <2>1. [k \in Jobs |-> Phase(k)]'[h] = "running" /\ [k \in Jobs |-> Phase(k)][h] = "waiting"
    BY <1>6
  <2> QED
    BY <2>1
<1> QED
  BY <1>11, <1>12 DEF Server!Serve

-----------------------------------------------------------------------------
(* The end of the scheduler *)

(* drm_sched_fini closes the server: with every entity gone no job waits. *)
LEMMA FiniBeginServes ==
    ASSUME IInv, FiniBegin
    PROVE  [Server!Serve]_<<[k \in Jobs |-> Phase(k)], sched.fini # "no">>
<1>0. TypeOK /\ QueueOK /\ WorkerOK /\ sched \in SchedRecord
  BY DEF IInv, TypeOK
<1>1. /\ sched.fini = "no" /\ \A e \in Entities : ent[e].owner = "gone"
      /\ job' = job /\ wk' = wk /\ sched'.fini = "stop"
  BY <1>0 DEF FiniBegin, SchedRecord
<1>2. \A k \in Jobs : job[k].at # "queue"
  <2> SUFFICES ASSUME NEW k \in Jobs
               PROVE  job[k].at # "queue"
    OBVIOUS
  <2>1. k[1] \in Entities /\ ent[k[1]].queue = <<>>
    BY <1>0, <1>1, JobPairs DEF QueueOK
  <2>2. Len(<<>>) = 0
    OBVIOUS
  <2>3. Gone(k[1]) = ent[k[1]].n /\ ent[k[1]].n \in Int /\ k[2] \in Int
    BY <1>0, <2>1, <2>2, Places, JobPairs DEF Gone
  <2> QED
    BY <1>0, <2>3 DEF QueueOK
<1>3. \A k \in Jobs : ~InWorker(k)
  BY <1>0, <1>1 DEF InWorker, WorkerOK, Holding, TypeOK
<1>4. Server!In("waiting") = {}
  BY <1>2, <1>3 DEF Server!In, Phase
<1>5. \A k \in Jobs : Phase(k)' = Phase(k)
  BY <1>1 DEF Phase, InWorker
<1>6. [k \in Jobs |-> Phase(k)]' = [k \in Jobs |-> Phase(k)]
  BY <1>5
<1>7. Server!Close
  BY <1>1, <1>4, <1>6 DEF Server!Close
<1> QED
  BY <1>7 DEF Server!Serve

(* cancel_job ends the job it cancels unless that is over already, *)
LEMMA FiniCancelServes ==
    ASSUME IInv, WalkOK, FiniCancel
    PROVE  [Server!Serve]_<<[k \in Jobs |-> Phase(k)], sched.fini # "no">>
<1>0. TypeOK /\ FencesOK /\ WorkerOK /\ FiniOK /\ sched \in SchedRecord /\ sched.fini = "cancel"
  BY DEF IInv, TypeOK, FiniCancel
<1>a. PICK h \in Jobs : h = sched.cur
  BY <1>0, WalkPlace
<1>b. PICK done \in SUBSET {h} : done = IF job[h].cb THEN {h} ELSE {}
  OBVIOUS
<1>c. job[h].at = "run" /\ wk.pc = "idle"
  BY <1>0, <1>a, WalkPlace
<1> DEFINE jb == Finished(done, job)
           W == Waiting(FinishedFences(done))
           p == IF jb[h].parent = "none" THEN "none" ELSE "signalled"
           r == [jb[h] EXCEPT !.cb = FALSE, !.parent = p]
<1>d. /\ wk' = wk
      /\ job' = [jb EXCEPT ![h].cb = FALSE,
                           ![h].parent = IF @ = "none" THEN @ ELSE "signalled"]
      /\ sched' = [WakeSched(W, JobsDone(done, sched)) EXCEPT !.fini = "free"]
  BY <1>a, <1>b, <1>c DEF FiniCancel, IsFreed
<1>2. /\ jb \in [Jobs -> JobRecord]
      /\ \A k \in Jobs : /\ jb[k].at = job[k].at
                         /\ jb[k].finished <=> job[k].finished \/ k \in done
  BY <1>0, FinishedContract DEF TypeOK
<1>3. jb[h] \in JobRecord
  BY <1>2
<1> HIDE DEF jb
<1>1. job' = [jb EXCEPT ![h] = r]
  BY <1>d, <1>2, <1>3 DEF JobRecord
<1> HIDE DEF p
<1>4. r.at = jb[h].at /\ (r.finished <=> jb[h].finished)
  BY <1>3 DEF JobRecord
<1> HIDE DEF r
<1>5. \A k \in Jobs : /\ job'[k].at = job[k].at
                      /\ job'[k].finished <=> job[k].finished \/ k \in done
  BY <1>1, <1>2, <1>4
<1>6. \A k \in Jobs : ~InWorker(k) /\ ~InWorker(k)'
  BY <1>c, <1>d DEF InWorker
<1>7. sched'.fini # "no"
  <2>1. JobsDone(done, sched) \in SchedRecord
    BY <1>b, DoneOne
  <2>2. WakeSched(W, JobsDone(done, sched)) \in SchedRecord
    BY <2>1, QueueingContract DEF Like
  <2> QED
    BY <1>d, <2>2 DEF SchedRecord
<1>8. \A k \in done : Phase(k) = "running" /\ job'[k].finished
  BY <1>0, <1>b, <1>c, <1>5, <1>6 DEF Phase, FencesOK
<1>9. \A k \in Jobs \ done : Phase(k)' = Phase(k)
  BY <1>5, <1>6 DEF Phase
<1>10. done \in SUBSET Jobs
  OBVIOUS
<1> QED
  BY <1>0, <1>7, <1>8, <1>9, <1>10, EndPhases

(* and free_job frees a job that is over. *)
LEMMA FiniFreeServes ==
    ASSUME IInv, WalkOK, FiniFree
    PROVE  UNCHANGED <<[k \in Jobs |-> Phase(k)], sched.fini # "no">>
<1>0. TypeOK /\ sched \in SchedRecord /\ sched.fini = "free"
  BY DEF IInv, TypeOK, FiniFree
<1>a. PICK h \in Jobs : h = sched.cur
  BY <1>0, WalkPlace
<1>1. job[h].finished /\ wk' = wk
  BY <1>0, <1>a DEF WalkOK, FiniFree
<1>2. job' = job \/ job' = free_job({h}, job)
  BY <1>a DEF FiniFree
<1>3. \A k \in Jobs : /\ job'[k].finished <=> job[k].finished
                      /\ job'[k].at = job[k].at \/ job[k].finished
  BY <1>0, <1>1, <1>2, FreedContract DEF TypeOK
<1>4. sched'.fini # "no"
  <2>1. CASE sched' = [sched EXCEPT !.fini = "oops"]
    BY <1>0, <2>1 DEF SchedRecord
  <2>2. CASE sched' # [sched EXCEPT !.fini = "oops"]
    <3> DEFINE s == WalkOn([sched EXCEPT !.pending = Without(@, sched.cur)])
               f == IF s.cur = None THEN "destroy" ELSE "cancel"
    <3>1. sched' = [s EXCEPT !.fini = f]
      BY <2>2 DEF FiniFree
    <3>2. "fini" \in DOMAIN s
      BY <1>0 DEF WalkOn, SchedRecord
    <3> QED
      BY <3>1, <3>2
  <2> QED
    BY <2>1, <2>2
<1> QED
  BY <1>0, <1>1, <1>3, <1>4, SamePhases DEF InWorker

-----------------------------------------------------------------------------
(* Every step of the scheduler is one of JobServer or leaves the phases.     *)
LEMMA NextServes ==
    ASSUME IInv, WalkOK, ~raced', [Next]_vars
    PROVE  [Server!Serve]_<<[k \in Jobs |-> Phase(k)], sched.fini # "no">>
<1>1. CASE \E e \in Entities : Owner(e) \/ Client(e)
  <2> PICK e \in Entities : Owner(e) \/ Client(e)
    BY <1>1
  <2>1. CASE KillJobs(e)
    BY <2>1, KillJobsServes
  <2>2. CASE \E D \in SUBSET {j \in Jobs : job[j].at # "new"}, X \in SUBSET Exts : Push(e, D, X)
    <3> PICK D \in SUBSET {j \in Jobs : job[j].at # "new"}, X \in SUBSET Exts : Push(e, D, X)
      BY <2>2
    <3>1. D \in SUBSET Jobs
      OBVIOUS
    <3> QED
      BY <3>1, PushServes
  <2>3. CASE AddEntity(e) \/ Flush(e) \/ KillStart(e)
    BY <2>3, OwnerServes
  <2> QED
    BY <2>1, <2>2, <2>3 DEF Owner, Client
<1>2. CASE \E j \in Jobs : KillWork(j) \/ HwDone(j)
  BY <1>2, KillWorkServes, HwDoneServes
<1>3. CASE \E x \in Exts : ExtSignal(x)
  BY <1>3, ExtSignalServes
<1>4. CASE RunWork
  BY <1>4, WorkerServes, PopDependencyServes, PopJobServes, JobBeginServes, RunJobServes,
     AddCallbackServes DEF RunWork
<1>5. CASE FreeWork
  BY <1>5, WorkerServes, FreeJobServes DEF FreeWork
<1>6. CASE Timedout
  <2>1. ~StopBeside /\ ~StopWalk
    BY DEF StopBeside, StopWalk, WalkOK
  <2> QED
    BY <1>6, <2>1, TimerServes, StopServes, ResubmitServes, StartServes, TdrEndServes DEF Timedout
<1>7. CASE Fault
  BY <1>7, TimerServes
<1>8. CASE FiniBegin \/ FiniEnds
  BY <1>8, FiniBeginServes, FiniStepServes, FiniCancelServes, FiniFreeServes DEF FiniEnds
<1>9. CASE UNCHANGED vars
  BY <1>9, QuietServes DEF vars
<1> QED
  BY <1>1, <1>2, <1>3, <1>4, <1>5, <1>6, <1>7, <1>8, <1>9 DEF Next

(* No job is there at first. *)
LEMMA InitServes ==
    ASSUME Init
    PROVE  Server!Init
<1>1. sched.fini = "no" /\ raced = FALSE /\ \A j \in Jobs : Phase(j) = "new"
  BY DEF Init, NewJob, Phase
<1>2. [j \in Jobs |-> Phase(j)] = [j \in Jobs |-> "new"]
  BY <1>1
<1> QED
  BY <1>1, <1>2 DEF Server!Init

(* The scheduler implements JobServer: through timeouts, resets,            *)
(* resubmissions, kills and drm_sched_fini every job is started in order    *)
(* and within the credits, and ended or withdrawn once.  It breaks only     *)
(* when drm_sched_stop or drm_sched_fini walks along the list in company.   *)
THEOREM SchedImplementsJobServer == Spec => ImplementsJobServer
<1>1. Init => Server!Init
  BY InitServes
<1>2. (raced \in BOOLEAN /\ SchedInv) /\ [Next]_vars
        => [Server!Next]_<<[j \in Jobs |-> Phase(j)], sched.fini # "no", raced>>
  <2> SUFFICES ASSUME raced \in BOOLEAN, SchedInv, [Next]_vars
               PROVE  [Server!Next]_<<[j \in Jobs |-> Phase(j)], sched.fini # "no", raced>>
    OBVIOUS
  <2>0. raced' \in BOOLEAN /\ (raced => raced')
    BY RacedStep
  <2>1. CASE raced'
    BY <2>0, <2>1 DEF Server!Next
  <2>2. CASE ~raced'
    <3>1. ~raced /\ raced' = raced
      BY <2>0, <2>2
    <3>2. [Server!Serve]_<<[j \in Jobs |-> Phase(j)], sched.fini # "no">>
      BY <2>2, <3>1, NextServes DEF SchedInv
    <3> QED
      BY <3>1, <3>2 DEF Server!Next
  <2> QED
    BY <2>1, <2>2
<1> QED
  BY <1>1, <1>2, SchedInvariance, PTL DEF Spec, ImplementsJobServer, Server!Spec
=============================================================================
