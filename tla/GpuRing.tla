------------------------------- MODULE GpuRing -------------------------------
(* The GPU's one ring: jobs from the scheduler into the hardware and back, hang
   detection, recovery, and the power the whole of it runs on.

   drivers/gpu/drm/msm: msm_ringbuffer.c (msm_job_run), msm_gpu.c (submit,
   retire, hangcheck, recover), msm_fence.c, adreno/a6xx_gpu.c (interrupts,
   recovery), adreno/adreno_gpu.c (hw_init's fences).  The hardware is modelled
   from how these use it.  Four parties move:
     - the scheduler's thread (`sched`), in msm_job_run;
     - the GPU's kthread worker (`wpc`), taking `works` in order: the retire,
       recover and fault works;
     - interrupts and the hangcheck timer;
     - the hardware, and whoever else holds the GPU's power (`holds`).
   gpu->lock is held by the scheduler between `listed` and `counted`, and by
   the worker while Recovering.  A job is its sequence number, counted from 1;
   fence_after and fence_before are then the order of the numbers.            *)
EXTENDS Integers, Sequences, SequencesExt, RuntimePm

CONSTANTS
    MaxJobs,        \* bound: jobs the scheduler runs
    MaxHangs,       \* bound: jobs that hang
    MaxFaults,      \* bound: GMU and SMMU faults
    MaxHolds,       \* bound: others holding the GPU's power at once
    Retries,        \* DRM_MSM_HANGCHECK_PROGRESS_RETRIES
    LosesIrqs       \* whether a completion's interrupt may be missed

ASSUME GpuConstants ==
    /\ {MaxJobs, MaxHangs, MaxFaults, MaxHolds, Retries} \subseteq Nat
    /\ LosesIrqs \in BOOLEAN

VARIABLES
    pm,             \* the GPU's runtime PM slot
    needsInit,      \* gpu->needs_hw_init
    sqe,            \* the CP's engine: "off", "run" or "halt"
    ring,           \* jobs the hardware has been given and not finished
    stuck,          \* the first of them hangs
    irq,            \* a completion's interrupt is pending
    last,           \* fctx->last_fence
    fence,          \* memptrs->fence, written by the hardware
    completed,      \* fctx->completed_fence
    submits,        \* ring->submits
    active,         \* gpu->active_submits
    sched,          \* the scheduler: "idle", "inited", "listed", "counted"
    timer,          \* gpu->hangcheck_timer is pending
    checked,        \* ring->hangcheck_fence
    retries,        \* ring->hangcheck_progress_retries
    works,          \* works queued on gpu->worker
    wpc,            \* where the worker is
    mark,           \* recover_worker's `fence`
    saved,          \* a6xx_recover's `active_submits`
    holds,          \* gets of others: sysprof, TLB flushes, timestamps
    muted,          \* history: an interrupt has stopped the hangcheck timer
    hangs, faults   \* how many there have been

power == <<pm, needsInit, sqe, ring, stuck, irq>>
fences == <<last, fence, completed>>
jobs == <<submits, active, sched>>
hangcheck == <<timer, muted, checked, retries>>
worker == <<works, wpc, mark, saved>>
others == <<holds, hangs, faults>>
vars == <<power, fences, jobs, hangcheck, worker, others>>

Recovering == wpc \in {"accused", "read", "cull", "culled", "halted",
                       "dropped", "raised", "leave"}
Submitting == sched \in {"listed", "counted"}

(* Once adreno_load_gpu is done: initialised, nobody's, and about to suspend. *)
Init ==
    /\ pm = [usage |-> 0, enabled |-> TRUE, active |-> TRUE, autosuspend |-> TRUE,
             timer |-> TRUE, on |-> TRUE]
    /\ needsInit = FALSE /\ sqe = "run" /\ ring = <<>> /\ stuck = FALSE /\ irq = FALSE
    /\ last = 0 /\ fence = 0 /\ completed = 0
    /\ submits = <<>> /\ active = 0 /\ sched = "idle"
    /\ timer = FALSE /\ muted = FALSE /\ checked = 0 /\ retries = 0
    /\ works = <<>> /\ wpc = "idle" /\ mark = 0 /\ saved = 0
    /\ holds = 0 /\ hangs = 0 /\ faults = 0

-----------------------------------------------------------------------------
(* Helpers. *)

Later(a, b) == IF a > b THEN a ELSE b

(* kthread_queue_work: nothing, for a work already queued. *)
Queued(q, w) == IF w \in ToSet(q) THEN q ELSE Append(q, w)

(* msm_fence_signaled *)
Signalled(n) == completed >= n \/ fence >= n

(* a6xx_gmu_pm_resume, which a get on a suspended GPU calls, asks for hw_init,
   whether or not it then succeeds. *)
AskedBy(q) == needsInit \/ (~pm.active /\ q.usage > pm.usage)

(* Mutant: the fence is not asked. *)
ThereIsOne == submits # <<>>

FirstIsDone == submits # <<>> /\ Signalled(Head(submits))

(* What the GPU is after runtime PM calls that left it `q`: losing its power it
   loses all it was doing. *)
Powered(q) ==
    /\ pm' = q
    /\ needsInit' = AskedBy(q)
    /\ IF q.on THEN UNCHANGED <<sqe, ring, stuck, irq>>
       ELSE sqe' = "off" /\ ring' = <<>> /\ stuck' = FALSE /\ irq' = FALSE

(* msm_gpu_hw_init, on a GPU whose runtime PM calls left it `q`: the ring
   restarts empty, and a fence ahead of every job is taken back. *)
HwInit(q, asked) ==
    IF q.on /\ asked
    THEN /\ needsInit' = FALSE /\ sqe' = "run" /\ ring' = <<>> /\ stuck' = FALSE
         /\ irq' = FALSE
         /\ fence' = IF last < fence THEN last ELSE fence
    ELSE /\ needsInit' = asked
         /\ IF q.on THEN UNCHANGED <<sqe, ring, stuck, irq>>
            ELSE sqe' = "off" /\ ring' = <<>> /\ stuck' = FALSE /\ irq' = FALSE
         /\ UNCHANGED fence

(* msm_gpu_retire *)
Retire ==
    /\ completed' = Later(completed, fence)
    /\ works' = Queued(works, "retire")

-----------------------------------------------------------------------------
(* The scheduler: msm_job_run.  It gives the ring one job at a time, and may
   have the next one's fence before it has gpu->lock. *)

InitFence ==
    /\ sched = "idle" /\ last < MaxJobs
    /\ last' = last + 1
    /\ sched' = "inited"
    /\ UNCHANGED <<power, fence, completed, submits, active, hangcheck, worker, others>>

(* msm_gpu_submit, up to ring->submits. *)
ListJob ==
    /\ sched = "inited" /\ ~Recovering
    /\ \E q \in GetSync(pm) : pm' = q /\ HwInit(q, AskedBy(q))
    /\ submits' = Append(submits, last)
    /\ sched' = "listed"
    /\ UNCHANGED <<last, completed, active, hangcheck, worker, others>>

(* Under active_lock: the first active submit holds the power for all. *)
CountJob ==
    /\ sched = "listed"
    /\ IF active = 0 THEN \E q \in GetSync(pm) : Powered(q) ELSE UNCHANGED power
    /\ active' = active + 1
    /\ sched' = "counted"
    /\ UNCHANGED <<fences, submits, hangcheck, worker, others>>

(* gpu->funcs->submit: what is written to a GPU without power is lost. *)
KickJob ==
    /\ sched = "counted"
    /\ \E q \in Put(pm, FALSE) :
          IF q.on THEN /\ pm' = q /\ ring' = Append(ring, last)
                       /\ UNCHANGED <<needsInit, sqe, stuck, irq>>
          ELSE Powered(q)
    /\ timer' = TRUE /\ muted' = FALSE
    /\ sched' = "idle"
    /\ UNCHANGED <<fences, submits, active, checked, retries, worker, others>>

-----------------------------------------------------------------------------
(* The hardware, its interrupts and the hangcheck timer. *)

Execute ==
    /\ sqe = "run" /\ ring # <<>> /\ ~stuck
    /\ fence' = Head(ring) /\ ring' = Tail(ring)
    /\ irq' = TRUE
    /\ UNCHANGED <<pm, needsInit, sqe, stuck, last, completed, jobs, hangcheck, worker, others>>

Hang ==
    /\ sqe = "run" /\ ring # <<>> /\ ~stuck /\ hangs < MaxHangs
    /\ stuck' = TRUE /\ hangs' = hangs + 1
    /\ UNCHANGED <<pm, needsInit, sqe, ring, irq, fences, jobs, hangcheck, worker, holds, faults>>

(* a6xx_irq, CP_CACHE_FLUSH_TS *)
CompletionIrq ==
    /\ irq /\ irq' = FALSE
    /\ Retire
    /\ UNCHANGED <<pm, needsInit, sqe, ring, stuck, last, fence, jobs, hangcheck,
                   wpc, mark, saved, others>>

LoseIrq ==
    /\ LosesIrqs
    /\ irq /\ irq' = FALSE
    /\ UNCHANGED <<pm, needsInit, sqe, ring, stuck, fences, jobs, hangcheck, worker, others>>

(* a6xx_fault_detect_irq: the hardware saw the hang itself. *)
HangIrq ==
    /\ sqe = "run" /\ stuck
    /\ timer' = FALSE /\ muted' = TRUE
    /\ works' = Queued(works, "recover")
    /\ UNCHANGED <<power, fences, jobs, checked, retries, wpc, mark, saved, others>>

(* a6xx_gmu_fault *)
GmuFault ==
    /\ pm.on /\ faults < MaxFaults
    /\ faults' = faults + 1
    /\ timer' = FALSE /\ muted' = TRUE
    /\ works' = Queued(works, "recover")
    /\ UNCHANGED <<power, fences, jobs, checked, retries, wpc, mark, saved, holds, hangs>>

(* adreno_fault_handler, with the SMMU's account of the fault and no crash state
   kept: the port has the one and never the other. *)
SmmuFault ==
    /\ pm.on /\ faults < MaxFaults
    /\ faults' = faults + 1
    /\ timer' = FALSE /\ muted' = TRUE
    /\ works' = Queued(works, "fault")
    /\ UNCHANGED <<power, fences, jobs, checked, retries, wpc, mark, saved, holds, hangs>>

(* made_progress *)
MadeProgress(progress) == retries < Retries /\ progress

(* Mutant: the timer goes off once. *)
NothingToCome == FALSE

MoreToCome == last > fence

(* hangcheck_handler.  A hung engine shows no progress (a6xx_progress); one
   that is only slow may or may not. *)
Hangcheck ==
    /\ timer
    /\ \E progress \in BOOLEAN :
          LET moved == fence # checked
              hung == ~moved /\ fence < last /\ ~MadeProgress(progress)
          IN /\ stuck => ~progress
             /\ retries' = IF moved \/ hung THEN 0
                           ELSE IF fence < last THEN retries + 1 ELSE retries
             /\ works' = Queued(IF hung THEN Queued(works, "recover") ELSE works, "retire")
    /\ checked' = fence
    /\ timer' = MoreToCome
    /\ completed' = Later(completed, fence)
    /\ UNCHANGED <<power, muted, last, fence, jobs, wpc, mark, saved, others>>

-----------------------------------------------------------------------------
(* The worker: one work at a time, and each may be queued anew as it runs. *)

TakeWork ==
    /\ wpc = "idle" /\ works # <<>>
    /\ wpc' = Head(works) /\ works' = Tail(works)
    /\ UNCHANGED <<power, fences, jobs, hangcheck, mark, saved, others>>

(* Mutant: the last active submit keeps the power. *)
HoldKept == UNCHANGED power

(* The last active submit gives the power back for all. *)
HoldDropped ==
    IF active = 1 THEN \E q \in Put(pm, FALSE) : Powered(q) ELSE UNCHANGED power

(* retire_submits, for the retire work and within recovery: the first job
   leaves the list once its fence is signalled, and then the count. *)
Unlist ==
    /\ wpc \in {"retire", "cull"}
    /\ FirstIsDone
    /\ submits' = Tail(submits)
    /\ wpc' = IF wpc = "retire" THEN "retired" ELSE "culled"
    /\ UNCHANGED <<power, fences, active, sched, hangcheck, works, mark, saved, others>>

Uncount ==
    /\ wpc \in {"retired", "culled"}
    /\ active' = active - 1
    /\ HoldDropped
    /\ wpc' = IF wpc = "retired" THEN "retire" ELSE "cull"
    /\ UNCHANGED <<fences, submits, sched, hangcheck, works, mark, saved, others>>

AllRetired ==
    /\ wpc = "retire"
    /\ ~FirstIsDone
    /\ wpc' = "idle"
    /\ UNCHANGED <<power, fences, jobs, hangcheck, works, mark, saved, others>>

(* fault_worker: a get and a put, and none for a submit dumped before. *)
FaultWork ==
    /\ wpc = "fault" /\ ~Submitting
    /\ \/ UNCHANGED power
       \/ \E p \in GetSync(pm) : \E q \in Put(p, FALSE) :
            /\ pm' = q /\ needsInit' = AskedBy(p)
            /\ IF q.on THEN UNCHANGED <<sqe, ring, stuck, irq>>
               ELSE sqe' = "off" /\ ring' = <<>> /\ stuck' = FALSE /\ irq' = FALSE
    /\ wpc' = "idle"
    /\ UNCHANGED <<fences, jobs, hangcheck, works, mark, saved, others>>

(* recover_worker, step by step as the hardware runs on.  Under gpu->lock it
   looks for the job after the fence: there is none, or that one is blamed. *)
NoneToBlame ==
    /\ wpc = "recover" /\ ~Submitting
    /\ fence + 1 \notin ToSet(submits)
    /\ Retire
    /\ wpc' = "idle"
    /\ UNCHANGED <<power, last, fence, jobs, hangcheck, mark, saved, others>>

Blame ==
    /\ wpc = "recover" /\ ~Submitting
    /\ fence + 1 \in ToSet(submits)
    /\ \E q \in GetSync(pm) : Powered(q)
    /\ wpc' = "accused"
    /\ UNCHANGED <<fences, jobs, hangcheck, works, mark, saved, others>>

ReadFence ==
    /\ wpc = "accused"
    /\ mark' = fence
    /\ wpc' = "read"
    /\ UNCHANGED <<power, fences, jobs, hangcheck, works, saved, others>>

(* ... and clears what it takes for the blamed job.  Unless that leaves work
   to do, the GPU is not reset. *)
ClearFence ==
    /\ wpc = "read"
    /\ fence' = mark + 1
    /\ completed' = Later(completed, mark + 1)
    /\ wpc' = IF last > mark + 1 THEN "cull" ELSE "leave"
    /\ mark' = 0
    /\ UNCHANGED <<power, last, jobs, hangcheck, works, saved, others>>

(* a6xx_recover *)
HaltEngine ==
    /\ wpc = "cull"
    /\ ~FirstIsDone
    /\ \E q \in DontUseAutosuspend(pm) : pm' = q
    /\ sqe' = IF pm.on THEN "halt" ELSE sqe
    /\ wpc' = "halted"
    /\ UNCHANGED <<needsInit, ring, stuck, irq, fences, jobs, hangcheck, works, mark, saved, others>>

(* Mutant: runtime_suspend sees the count. *)
CountShown == saved' = active /\ active' = active

(* The count is cleared to silence runtime_suspend's WARN. *)
CountHidden == saved' = active /\ active' = 0

DropPower ==
    /\ wpc = "halted"
    /\ CountHidden
    /\ \E p \in (IF active # 0 THEN Put(pm, FALSE) ELSE {pm}) :
         \E q \in Put(p, FALSE) : Powered(q)
    /\ wpc' = "dropped"
    /\ UNCHANGED <<fences, submits, sched, hangcheck, works, mark, others>>

RaisePower ==
    /\ wpc = "dropped"
    /\ active' = saved /\ saved' = 0
    /\ \E p \in (IF saved # 0 THEN GetSync(UseAutosuspend(pm)) ELSE {UseAutosuspend(pm)}) :
         \E q \in GetSync(p) : Powered(q)
    /\ wpc' = "raised"
    /\ UNCHANGED <<fences, submits, sched, hangcheck, works, mark, others>>

(* hw_init, which does nothing for a GPU that kept its power, and the replay. *)
Replay ==
    /\ wpc = "raised"
    /\ pm' = pm
    /\ IF pm.on /\ needsInit
       THEN /\ needsInit' = FALSE /\ sqe' = "run" /\ stuck' = FALSE /\ irq' = FALSE
            /\ fence' = IF last < fence THEN last ELSE fence
       ELSE UNCHANGED <<needsInit, sqe, stuck, irq, fence>>
    /\ ring' = IF ~pm.on THEN ring ELSE IF needsInit THEN submits ELSE ring \o submits
    /\ wpc' = "leave"
    /\ UNCHANGED <<last, completed, jobs, hangcheck, works, mark, saved, others>>

LeaveRecovery ==
    /\ wpc = "leave"
    /\ \E q \in Put(pm, FALSE) : Powered(q)
    /\ Retire
    /\ wpc' = "idle"
    /\ UNCHANGED <<last, fence, jobs, hangcheck, mark, saved, others>>

-----------------------------------------------------------------------------
(* The autosuspend work, and the others who hold the GPU's power. *)

Autosuspend ==
    /\ pm.timer
    /\ \E q \in SuspendWork(pm) : Powered(q)
    /\ UNCHANGED <<fences, jobs, hangcheck, worker, others>>

(* sysprof and the timestamp's get; a TLB flush gets only what is in use. *)
Hold ==
    /\ holds < MaxHolds
    /\ \E q \in GetSync(pm) \cup {GetIfInUse(pm)} :
          q.usage > pm.usage /\ Powered(q)
    /\ holds' = holds + 1
    /\ UNCHANGED <<fences, jobs, hangcheck, worker, hangs, faults>>

Release ==
    /\ holds > 0
    /\ \E q \in Put(pm, FALSE) : Powered(q)
    /\ holds' = holds - 1
    /\ UNCHANGED <<fences, jobs, hangcheck, worker, hangs, faults>>

Scheduler == InitFence \/ ListJob \/ CountJob \/ KickJob
Worker == \/ TakeWork \/ Unlist \/ Uncount \/ AllRetired \/ FaultWork
          \/ NoneToBlame \/ Blame \/ ReadFence \/ ClearFence
          \/ HaltEngine \/ DropPower \/ RaisePower \/ Replay \/ LeaveRecovery
Device == Execute \/ Hang \/ CompletionIrq \/ LoseIrq \/ HangIrq \/ GmuFault \/ SmmuFault
Rest == Hangcheck \/ Autosuspend \/ Hold \/ Release

Next == Scheduler \/ Worker \/ Device \/ Rest

(* The threads are run, the timer goes off, the hardware works on what does not
   hang, and powers are given back.  No hang, fault or interrupt is promised. *)
Fairness ==
    /\ WF_vars(Scheduler) /\ WF_vars(Worker)
    /\ WF_vars(Hangcheck) /\ WF_vars(Execute)
    /\ WF_vars(Release)

Spec == Init /\ [][Next]_vars
FairSpec == Spec /\ Fairness

-----------------------------------------------------------------------------
(* Properties. *)

(* Every variable is of its kind, and no more progress is granted than retries. *)
RingTypeOK ==
    /\ pm \in Slot /\ needsInit \in BOOLEAN /\ sqe \in {"off", "run", "halt"}
    /\ ring \in Seq(Nat) /\ stuck \in BOOLEAN /\ irq \in BOOLEAN
    /\ last \in Nat /\ fence \in Nat /\ completed \in Nat
    /\ submits \in Seq(Nat) /\ active \in Int
    /\ sched \in {"idle", "inited", "listed", "counted"}
    /\ timer \in BOOLEAN /\ muted \in BOOLEAN /\ checked \in Nat
    /\ retries \in 0..Retries
    /\ works \in Seq({"retire", "recover", "fault"})
    /\ wpc \in {"idle", "retire", "retired", "recover", "fault", "accused", "read", "cull",
                "culled", "halted", "dropped", "raised", "leave"}
    /\ mark \in Nat /\ saved \in Int
    /\ holds \in Nat /\ hangs \in Nat /\ faults \in Nat

One(b) == IF b THEN 1 ELSE 0

(* What the counts are: a job listed and not yet counted is one short, a job
   unlisted and not yet uncounted one over, and while recovery has taken the
   active jobs' hold away it keeps their number.  The GPU's usage count is then
   the hold of the active jobs together (msm_gpu_submit, retire_submit), the
   scheduler's and the recovery's own, and the others'.  A put too many would
   cut the power under a running job, one too few never let the GPU sleep. *)
CountsAgree ==
    /\ (IF wpc = "dropped" THEN saved ELSE active)
         = Len(submits) + One(wpc \in {"retired", "culled"}) - One(sched = "listed")
    /\ pm.usage = One(wpc # "dropped" /\ active > 0) + One(Submitting)
                   + One(Recovering /\ wpc # "dropped") + holds

(* The GPU loses its power only with no active submit: the WARN_ON_ONCE of
   adreno_runtime_suspend never speaks, not in the middle of a recovery either,
   which hides the count from it. *)
SuspendsOnlyIdle == [][pm.on /\ ~pm'.on => active' = 0]_vars

(* A job that has left ring->submits, and with it the buffers it held, has a
   signalled fence, and keeps it, though recovery clears fences, hw_init takes
   one back, and both write the number the hardware writes. *)
RetiredIsSignalled ==
    \A n \in 1..last :
        n \in ToSet(submits) \/ (sched = "inited" /\ n = last) \/ Signalled(n)

(* Whoever waits on a job's fence is let go, though jobs hang, interrupts are
   missed and recovery resets the GPU under the others: the hangcheck timer sees
   to it.  The one exception is the code's own: a6xx_fault_detect_irq, a6xx_gmu_fault
   and adreno_fault_handler stop that timer, and only a submission starts it. *)
EveryJobIsSignalled ==
    \A n \in 1..MaxJobs : (last >= n) ~> (Signalled(n) \/ []muted)

(* retire_submit's WARN_ON: no more jobs are uncounted than were counted. *)
ActiveNeverNegative == active >= 0
=============================================================================
