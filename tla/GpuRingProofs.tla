---------------------------- MODULE GpuRingProofs ----------------------------
(* Proofs about GpuRing and the runtime PM it stands on. *)
EXTENDS GpuRing, TLAPS

(* A slot whose device follows it: enabled, and on while it is active. *)
Sound(p) == p \in Slot /\ p.enabled /\ p.on = p.active

LEMMA ResumeSound ==
    ASSUME NEW p, Sound(p), NEW q \in Resume(p)
    PROVE  Sound(q) /\ q.usage = p.usage /\ (p.on => q.on) /\ q.timer = p.timer
  <1>1. CASE p.active
    BY <1>1 DEF Resume, Sound, Slot
  <1>2. CASE ~p.active
    <2>1. CASE q = [p EXCEPT !.active = TRUE, !.on = p.on \/ p.enabled]
      BY <1>2, <2>1 DEF Sound, Slot
    <2>2. CASE q = p
      BY <2>2
    <2> QED  BY <1>2, <2>1, <2>2 DEF Resume
  <1> QED  BY <1>1, <1>2

LEMMA SuspendSound ==
    ASSUME NEW p, Sound(p)
    PROVE  Sound(Suspend(p)) /\ Suspend(p).usage = p.usage /\ ~Suspend(p).on
  BY DEF Suspend, Sound, Slot

LEMMA IdleSound ==
    ASSUME NEW p, Sound(p), NEW now \in BOOLEAN, NEW q \in Idle(p, now)
    PROVE  Sound(q) /\ q.usage = p.usage /\ (q.on => p.on)
  <1>1. CASE q = Suspend(p)
    BY <1>1, SuspendSound
  <1>2. CASE q = [p EXCEPT !.timer = TRUE]
    BY <1>2 DEF Sound, Slot
  <1> QED  BY <1>1, <1>2 DEF Idle

LEMMA GetSyncSound ==
    ASSUME NEW p, Sound(p), NEW q \in GetSync(p)
    PROVE  Sound(q) /\ q.usage = p.usage + 1 /\ (p.on => q.on)
  <1> DEFINE r == [p EXCEPT !.timer = FALSE, !.usage = @ + 1]
  <1>1. Sound(r) /\ r.usage = p.usage + 1 /\ r.on = p.on
    <2>1. r.usage = p.usage + 1 /\ r.on = p.on /\ r.enabled = p.enabled
            /\ r.active = p.active
      BY DEF Sound, Slot
    <2>2. p.usage + 1 \in Nat
      BY DEF Sound, Slot
    <2>3. r \in Slot
      BY <2>2, Zenon DEF Sound, Slot
    <2> QED  BY <2>1, <2>3 DEF Sound
  <1>2. q \in Resume(r)
    BY DEF GetSync
  <1> HIDE DEF r
  <1> QED  BY <1>1, <1>2, ResumeSound

LEMMA PutSound ==
    ASSUME NEW p, Sound(p), p.usage # 0, NEW now \in BOOLEAN, NEW q \in Put(p, now)
    PROVE  Sound(q) /\ q.usage = p.usage - 1 /\ (q.on => p.on) /\ (q.usage # 0 => q.on = p.on)
  <1> DEFINE r == [p EXCEPT !.usage = @ - 1]
  <1>1. Sound(r) /\ r.usage = p.usage - 1 /\ r.on = p.on
    BY DEF Sound, Slot
  <1>2. q \in IF r.usage = 0 THEN Idle(r, now) ELSE {r}
    BY DEF Put
  <1> HIDE DEF r
  <1> QED  BY <1>1, <1>2, IdleSound

LEMMA DontUseSound ==
    ASSUME NEW p, Sound(p), p.usage # 0, NEW q \in DontUseAutosuspend(p)
    PROVE  Sound(q) /\ q.usage = p.usage /\ q.on = p.on
  BY DEF DontUseAutosuspend, Sound, Slot

LEMMA UseSound ==
    ASSUME NEW p, Sound(p)
    PROVE  LET q == UseAutosuspend(p) IN Sound(q) /\ q.usage = p.usage /\ q.on = p.on
  BY DEF UseAutosuspend, Sound, Slot

LEMMA SuspendWorkSound ==
    ASSUME NEW p, Sound(p), NEW q \in SuspendWork(p)
    PROVE  Sound(q) /\ q.usage = p.usage /\ (q.on => p.on) /\ (q.usage # 0 => q.on = p.on)
  <1> DEFINE r == [p EXCEPT !.timer = FALSE]
  <1>1. Sound(r) /\ r.usage = p.usage /\ r.on = p.on
    BY DEF Sound, Slot
  <1>2. q \in IF r.usage = 0 THEN Idle(r, FALSE) ELSE {r}
    BY DEF SuspendWork
  <1> HIDE DEF r
  <1> QED  BY <1>1, <1>2, IdleSound

LEMMA GetIfInUseSound ==
    ASSUME NEW p, Sound(p), GetIfInUse(p).usage > p.usage
    PROVE  LET q == GetIfInUse(p) IN Sound(q) /\ q.usage = p.usage + 1 /\ q.on = p.on
  BY DEF GetIfInUse, Sound, Slot
-----------------------------------------------------------------------------
(* The counts. *)

Turns ==
    /\ Recovering => ~Submitting
    /\ wpc = "dropped" => active = 0

PowerInv == RingTypeOK /\ Sound(pm) /\ Turns /\ CountsAgree

Flags == needsInit \in BOOLEAN /\ stuck \in BOOLEAN /\ irq \in BOOLEAN
          /\ timer \in BOOLEAN /\ muted \in BOOLEAN
Given == sqe \in {"off", "run", "halt"} /\ ring \in Seq(Nat)
Numbers ==
    /\ last \in Nat /\ fence \in Nat /\ completed \in Nat
    /\ submits \in Seq(Nat) /\ active \in Int
    /\ checked \in Nat
    /\ retries \in 0..Retries
    /\ mark \in Nat /\ saved \in Int
    /\ holds \in Nat /\ hangs \in Nat /\ faults \in Nat
Places ==
    /\ sched \in {"idle", "inited", "listed", "counted"}
    /\ works \in Seq({"retire", "recover", "fault"})
    /\ wpc \in {"idle", "retire", "retired", "recover", "fault", "accused", "read", "cull",
                "culled", "halted", "dropped", "raised", "leave"}

LEMMA TypeParts == RingTypeOK <=> pm \in Slot /\ Flags /\ Given /\ Numbers /\ Places
  BY Zenon DEF RingTypeOK, Flags, Given, Numbers, Places

LEMMA PoweredTyped ==
    ASSUME Flags, Given, NEW q, Powered(q)
    PROVE  pm' = q /\ (UNCHANGED <<timer, muted>> => Flags') /\ Given'
  <1>1. needsInit' \in BOOLEAN
    BY Zenon DEF Powered, AskedBy, Flags
  <1>2. stuck' \in BOOLEAN /\ irq' \in BOOLEAN
    BY Zenon DEF Powered, Flags
  <1>3. Given'
    <2>1. (sqe' = sqe \/ sqe' = "off") /\ (ring' = ring \/ ring' = <<>>)
      BY Zenon DEF Powered
    <2>2. <<>> \in Seq(Nat)
      OBVIOUS
    <2> QED  BY <2>1, <2>2, Zenon DEF Given
  <1> QED  BY <1>1, <1>2, <1>3, Zenon DEF Powered, Flags

LEMMA HwInitTyped ==
    ASSUME Flags, Given, Numbers, NEW q, NEW asked \in BOOLEAN, HwInit(q, asked)
    PROVE  (UNCHANGED <<timer, muted>> => Flags') /\ Given' /\ fence' \in Nat
  <1>1. needsInit' \in BOOLEAN /\ stuck' \in BOOLEAN /\ irq' \in BOOLEAN
    BY Zenon DEF HwInit, Flags
  <1>2. Given'
    <2>1. (sqe' = sqe \/ sqe' \in {"off", "run"}) /\ (ring' = ring \/ ring' = <<>>)
      BY Zenon DEF HwInit
    <2>2. <<>> \in Seq(Nat)
      OBVIOUS
    <2> QED  BY <2>1, <2>2, Zenon DEF Given
  <1>3. fence' \in Nat
    BY DEF HwInit, Numbers
  <1> QED  BY <1>1, <1>2, <1>3, Zenon DEF Flags

LEMMA QueuedTyped ==
    ASSUME NEW W, NEW q \in Seq(W), NEW w \in W
    PROVE  Queued(q, w) \in Seq(W)
  BY DEF Queued

LEMMA TypeStep ==
    ASSUME RingTypeOK, Next, pm' \in Slot
    PROVE  RingTypeOK'
  <1> SUFFICES Numbers' /\ Places' /\ Given' /\ Flags'
    BY Zenon DEF RingTypeOK, Flags, Given, Numbers, Places
  <1>0. Flags /\ Given /\ Numbers /\ Places
    BY TypeParts
  <1> USE GpuConstants
  <1>1. CASE InitFence
    <2>1. Numbers' /\ Places'
      BY <1>0, <1>1, QueuedTyped DEF InitFence, Numbers, Places, Queued, power, fences, jobs, hangcheck, worker, others
    <2>2. Given' /\ Flags'
      BY <1>0, <1>1, Zenon DEF InitFence, Given, Flags, power, fences, jobs, hangcheck, worker, others
    <2> QED  BY <2>1, <2>2
  <1>2. CASE ListJob
    <2>1. PICK q \in GetSync(pm) : HwInit(q, AskedBy(q))
      BY <1>2, Zenon DEF ListJob
    <2>2. UNCHANGED <<timer, muted>> /\ AskedBy(q) \in BOOLEAN
      BY <1>0, <1>2, Zenon DEF ListJob, hangcheck, AskedBy, Flags
    <2>3. Given' /\ Flags' /\ fence' \in Nat
      BY <1>0, <2>1, <2>2, HwInitTyped
    <2>4. UNCHANGED <<last, completed, active, checked, retries, works, wpc, mark, saved, others>>
            /\ submits' = Append(submits, last) /\ sched' = "listed"
      BY <1>2, Zenon DEF ListJob, hangcheck, worker
    <2> QED  BY <1>0, <2>3, <2>4 DEF Numbers, Places, others
  <1>3. CASE CountJob
    <2>1. UNCHANGED <<timer, muted>>
      BY <1>3, Zenon DEF CountJob, hangcheck
    <2>2. ASSUME NEW q, Powered(q)  PROVE Given' /\ Flags'
      BY <1>0, <2>1, <2>2, PoweredTyped
    <2>3. ASSUME UNCHANGED power  PROVE Given' /\ Flags'
      BY <1>0, <2>1, <2>3, Zenon DEF Given, Flags, power
    <2>4. Given' /\ Flags'
      BY <1>3, <2>2, <2>3, Zenon DEF CountJob
    <2>5. UNCHANGED <<fences, submits, hangcheck, worker, others>> /\ active' = active + 1 /\ sched' = "counted"
      BY <1>3, Zenon DEF CountJob
    <2>6. Numbers' /\ Places'
      BY <1>0, <2>5 DEF Numbers, Places, fences, hangcheck, worker, others
    <2> QED  BY <2>4, <2>6
  <1>4. CASE KickJob
    <2>1. ring' = ring \/ ring' = <<>> \/ ring' = Append(ring, last)
      BY <1>4, Zenon DEF KickJob, Powered
    <2>2. sqe' = sqe \/ sqe' = "off"
      BY <1>4, Zenon DEF KickJob, Powered
    <2>3. Append(ring, last) \in Seq(Nat) /\ <<>> \in Seq(Nat)
      BY <1>0 DEF Given, Numbers
    <2>4. Given'
      BY <1>0, <2>1, <2>2, <2>3, Zenon DEF Given
    <2>5. Flags'
      BY <1>0, <1>4, Zenon DEF KickJob, Powered, AskedBy, Flags
    <2>6. UNCHANGED <<fences, submits, active, checked, retries, worker, others>>
            /\ sched' = "idle"
      BY <1>4, Zenon DEF KickJob
    <2>7. Numbers' /\ Places'
      BY <1>0, <2>6 DEF Numbers, Places, fences, worker, others
    <2> QED  BY <2>4, <2>5, <2>7
  <1>5. CASE Execute
    <2>1. fence' = Head(ring) /\ ring' = Tail(ring) /\ ring # <<>>
            /\ UNCHANGED <<sqe, last, completed, jobs, checked, retries, worker, others>>
      BY <1>5, Zenon DEF Execute, hangcheck
    <2>2. Numbers' /\ Places' /\ Given'
      BY <1>0, <2>1 DEF Numbers, Places, Given, jobs, worker, others
    <2>3. Flags'
      BY <1>0, <1>5, Zenon DEF Execute, Flags, hangcheck
    <2> QED  BY <2>2, <2>3
  <1>6. CASE Hang
    <2>1. Numbers' /\ Places'
      BY <1>0, <1>6, QueuedTyped DEF Hang, Numbers, Places, Queued, power, fences, jobs, hangcheck, worker, others
    <2>2. Given' /\ Flags'
      BY <1>0, <1>6, Zenon DEF Hang, Given, Flags, power, fences, jobs, hangcheck, worker, others
    <2> QED  BY <2>1, <2>2
  <1>7. CASE CompletionIrq
    <2>1. Numbers' /\ Places'
      BY <1>0, <1>7, QueuedTyped DEF CompletionIrq, Numbers, Places, Queued, Retire, Later, power, fences, jobs, hangcheck, worker, others
    <2>2. Given' /\ Flags'
      BY <1>0, <1>7, Zenon DEF CompletionIrq, Given, Flags, power, fences, jobs, hangcheck, worker, others
    <2> QED  BY <2>1, <2>2
  <1>8. CASE LoseIrq
    <2>1. Numbers' /\ Places'
      BY <1>0, <1>8, QueuedTyped DEF LoseIrq, Numbers, Places, Queued, power, fences, jobs, hangcheck, worker, others
    <2>2. Given' /\ Flags'
      BY <1>0, <1>8, Zenon DEF LoseIrq, Given, Flags, power, fences, jobs, hangcheck, worker, others
    <2> QED  BY <2>1, <2>2
  <1>9. CASE HangIrq
    <2>1. Numbers' /\ Places'
      BY <1>0, <1>9, QueuedTyped DEF HangIrq, Numbers, Places, Queued, power, fences, jobs, hangcheck, worker, others
    <2>2. Given' /\ Flags'
      BY <1>0, <1>9, Zenon DEF HangIrq, Given, Flags, power, fences, jobs, hangcheck, worker, others
    <2> QED  BY <2>1, <2>2
  <1>10. CASE GmuFault
    <2>1. Numbers' /\ Places'
      BY <1>0, <1>10, QueuedTyped DEF GmuFault, Numbers, Places, Queued, power, fences, jobs, hangcheck, worker, others
    <2>2. Given' /\ Flags'
      BY <1>0, <1>10, Zenon DEF GmuFault, Given, Flags, power, fences, jobs, hangcheck, worker, others
    <2> QED  BY <2>1, <2>2
  <1>11. CASE SmmuFault
    <2>1. Numbers' /\ Places'
      BY <1>0, <1>11, QueuedTyped DEF SmmuFault, Numbers, Places, Queued, power, fences, jobs, hangcheck, worker, others
    <2>2. Given' /\ Flags'
      BY <1>0, <1>11, Zenon DEF SmmuFault, Given, Flags, power, fences, jobs, hangcheck, worker, others
    <2> QED  BY <2>1, <2>2
  <1>12. CASE Hangcheck
    <2>1. PICK progress \in BOOLEAN :
             LET hung == fence = checked /\ fence < last /\ ~MadeProgress(progress)
             IN /\ retries' = IF fence # checked \/ hung THEN 0
                              ELSE IF fence < last THEN retries + 1 ELSE retries
                /\ works' = Queued(IF hung THEN Queued(works, "recover") ELSE works, "retire")
      BY <1>12, Zenon DEF Hangcheck
    <2>2. completed' \in Nat /\ checked' \in Nat
      BY <1>0, <1>12 DEF Hangcheck, Numbers, Later
    <2>3. retries' \in 0..Retries
      BY <1>0, <2>1 DEF Numbers, MadeProgress
    <2>4. works' \in Seq({"retire", "recover", "fault"})
      BY <1>0, <2>1 DEF Places, Queued
    <2>5. UNCHANGED <<power, muted, last, fence, jobs, wpc, mark, saved, others>>
      BY <1>12, Zenon DEF Hangcheck
    <2>6. Numbers' /\ Places'
      BY <1>0, <2>2, <2>3, <2>4, <2>5 DEF Numbers, Places, jobs, others
    <2>7. timer' \in BOOLEAN
      BY <1>12 DEF Hangcheck, MoreToCome
    <2>8. Given' /\ Flags'
      BY <1>0, <2>5, <2>7, Zenon DEF Given, Flags, power
    <2> QED  BY <2>6, <2>8
  <1>13. CASE TakeWork
    <2>1. Numbers' /\ Places'
      BY <1>0, <1>13, QueuedTyped DEF TakeWork, Numbers, Places, Queued, power, fences, jobs, hangcheck, worker, others
    <2>2. Given' /\ Flags'
      BY <1>0, <1>13, Zenon DEF TakeWork, Given, Flags, power, fences, jobs, hangcheck, worker, others
    <2> QED  BY <2>1, <2>2
  <1>14. CASE Unlist
    <2>1. Numbers' /\ Places'
      BY <1>0, <1>14, QueuedTyped DEF Unlist, Numbers, Places, Queued, FirstIsDone, power, fences, jobs, hangcheck, worker, others
    <2>2. Given' /\ Flags'
      BY <1>0, <1>14, Zenon DEF Unlist, Given, Flags, power, fences, jobs, hangcheck, worker, others
    <2> QED  BY <2>1, <2>2
  <1>15. CASE Uncount
    <2>1. UNCHANGED <<timer, muted>>
      BY <1>15, Zenon DEF Uncount, hangcheck
    <2>2. ASSUME NEW q, Powered(q)  PROVE Given' /\ Flags'
      BY <1>0, <2>1, <2>2, PoweredTyped
    <2>3. ASSUME UNCHANGED power  PROVE Given' /\ Flags'
      BY <1>0, <2>1, <2>3, Zenon DEF Given, Flags, power
    <2>4. Given' /\ Flags'
      BY <1>15, <2>2, <2>3, Zenon DEF Uncount, HoldDropped
    <2>5. UNCHANGED <<fences, submits, hangcheck, works, mark, saved, sched, others>> /\ active' = active - 1 /\ wpc' \in {"retire", "cull"}
      BY <1>15, Zenon DEF Uncount
    <2>6. Numbers' /\ Places'
      BY <1>0, <2>5 DEF Numbers, Places, fences, hangcheck, worker, others
    <2> QED  BY <2>4, <2>6
  <1>16. CASE AllRetired
    <2>1. Numbers' /\ Places'
      BY <1>0, <1>16, QueuedTyped DEF AllRetired, Numbers, Places, Queued, power, fences, jobs, hangcheck, worker, others
    <2>2. Given' /\ Flags'
      BY <1>0, <1>16, Zenon DEF AllRetired, Given, Flags, power, fences, jobs, hangcheck, worker, others
    <2> QED  BY <2>1, <2>2
  <1>17. CASE FaultWork
    <2>1. UNCHANGED <<fences, jobs, hangcheck, works, mark, saved, others>> /\ wpc' = "idle"
      BY <1>17, Zenon DEF FaultWork
    <2>2. Numbers' /\ Places'
      BY <1>0, <2>1 DEF Numbers, Places, fences, jobs, hangcheck, others
    <2>3. Flags'
      BY <1>0, <1>17, Zenon DEF FaultWork, AskedBy, Flags, power, hangcheck
    <2>4. (sqe' = sqe \/ sqe' = "off") /\ (ring' = ring \/ ring' = <<>>)
      BY <1>17, Zenon DEF FaultWork, power
    <2>5. <<>> \in Seq(Nat)
      OBVIOUS
    <2>6. Given'
      BY <1>0, <2>4, <2>5, Zenon DEF Given
    <2> QED  BY <2>2, <2>3, <2>6
  <1>18. CASE NoneToBlame
    <2>1. Numbers' /\ Places'
      BY <1>0, <1>18, QueuedTyped DEF NoneToBlame, Numbers, Places, Queued, Retire, Later, power, fences, jobs, hangcheck, worker, others
    <2>2. Given' /\ Flags'
      BY <1>0, <1>18, Zenon DEF NoneToBlame, Given, Flags, power, fences, jobs, hangcheck, worker, others
    <2> QED  BY <2>1, <2>2
  <1>19. CASE Blame
    <2>1. Numbers' /\ Places'
      BY <1>0, <1>19, QueuedTyped DEF Blame, Numbers, Places, Queued, power, fences, jobs, hangcheck, worker, others
    <2>2. PICK q : Powered(q)
      BY <1>19, Zenon DEF Blame
    <2>3. UNCHANGED <<timer, muted>>
      BY <1>19, Zenon DEF Blame, hangcheck
    <2>4. Given' /\ Flags'
      BY <1>0, <2>2, <2>3, PoweredTyped
    <2> QED  BY <2>1, <2>2, <2>4
  <1>20. CASE ReadFence
    <2>1. Numbers' /\ Places'
      BY <1>0, <1>20, QueuedTyped DEF ReadFence, Numbers, Places, Queued, power, fences, jobs, hangcheck, worker, others
    <2>2. Given' /\ Flags'
      BY <1>0, <1>20, Zenon DEF ReadFence, Given, Flags, power, fences, jobs, hangcheck, worker, others
    <2> QED  BY <2>1, <2>2
  <1>21. CASE ClearFence
    <2>1. Numbers' /\ Places'
      BY <1>0, <1>21, QueuedTyped DEF ClearFence, Numbers, Places, Queued, Later, power, fences, jobs, hangcheck, worker, others
    <2>2. Given' /\ Flags'
      BY <1>0, <1>21, Zenon DEF ClearFence, Given, Flags, power, fences, jobs, hangcheck, worker, others
    <2> QED  BY <2>1, <2>2
  <1>22. CASE HaltEngine
    <2>1. UNCHANGED <<needsInit, ring, stuck, irq, fences, jobs, hangcheck, works, mark, saved, others>>
            /\ wpc' = "halted" /\ (sqe' = sqe \/ sqe' = "halt")
      BY <1>22, Zenon DEF HaltEngine
    <2>2. Numbers' /\ Places'
      BY <1>0, <2>1 DEF Numbers, Places, fences, jobs, hangcheck, others
    <2>3. Given' /\ Flags'
      BY <1>0, <2>1, Zenon DEF Given, Flags, hangcheck
    <2> QED  BY <2>2, <2>3
  <1>23. CASE DropPower
    <2>1. Numbers' /\ Places'
      BY <1>0, <1>23, QueuedTyped DEF DropPower, Numbers, Places, Queued, CountHidden, power, fences, jobs, hangcheck, worker, others
    <2>2. PICK q : Powered(q)
      BY <1>23, Zenon DEF DropPower
    <2>3. UNCHANGED <<timer, muted>>
      BY <1>23, Zenon DEF DropPower, hangcheck
    <2>4. Given' /\ Flags'
      BY <1>0, <2>2, <2>3, PoweredTyped
    <2> QED  BY <2>1, <2>2, <2>4
  <1>24. CASE RaisePower
    <2>1. Numbers' /\ Places'
      BY <1>0, <1>24, QueuedTyped DEF RaisePower, Numbers, Places, Queued, power, fences, jobs, hangcheck, worker, others
    <2>2. PICK q : Powered(q)
      BY <1>24, Zenon DEF RaisePower
    <2>3. UNCHANGED <<timer, muted>>
      BY <1>24, Zenon DEF RaisePower, hangcheck
    <2>4. Given' /\ Flags'
      BY <1>0, <2>2, <2>3, PoweredTyped
    <2> QED  BY <2>1, <2>2, <2>4
  <1>25. CASE Replay
    <2>1. UNCHANGED <<last, completed, jobs, hangcheck, works, mark, saved, others>> /\ wpc' = "leave"
            /\ (fence' = fence \/ fence' = last)
            /\ (ring' = ring \/ ring' = submits \/ ring' = ring \o submits)
            /\ (sqe' = sqe \/ sqe' = "run")
      BY <1>25, Zenon DEF Replay
    <2>2. Numbers' /\ Places'
      BY <1>0, <2>1 DEF Numbers, Places, jobs, hangcheck, others
    <2>3. ring \o submits \in Seq(Nat) /\ submits \in Seq(Nat)
      BY <1>0 DEF Given, Numbers
    <2>4. Given'
      BY <1>0, <2>1, <2>3, Zenon DEF Given
    <2>5. Flags'
      BY <1>0, <1>25, Zenon DEF Replay, Flags, hangcheck
    <2> QED  BY <2>2, <2>4, <2>5
  <1>26. CASE LeaveRecovery
    <2>1. Numbers' /\ Places'
      BY <1>0, <1>26, QueuedTyped DEF LeaveRecovery, Numbers, Places, Queued, Retire, Later, power, fences, jobs, hangcheck, worker, others
    <2>2. PICK q : Powered(q)
      BY <1>26, Zenon DEF LeaveRecovery
    <2>3. UNCHANGED <<timer, muted>>
      BY <1>26, Zenon DEF LeaveRecovery, hangcheck
    <2>4. Given' /\ Flags'
      BY <1>0, <2>2, <2>3, PoweredTyped
    <2> QED  BY <2>1, <2>2, <2>4
  <1>27. CASE Autosuspend
    <2>1. Numbers' /\ Places'
      BY <1>0, <1>27, QueuedTyped DEF Autosuspend, Numbers, Places, Queued, power, fences, jobs, hangcheck, worker, others
    <2>2. PICK q : Powered(q)
      BY <1>27, Zenon DEF Autosuspend
    <2>3. UNCHANGED <<timer, muted>>
      BY <1>27, Zenon DEF Autosuspend, hangcheck
    <2>4. Given' /\ Flags'
      BY <1>0, <2>2, <2>3, PoweredTyped
    <2> QED  BY <2>1, <2>2, <2>4
  <1>28. CASE Hold
    <2>1. Numbers' /\ Places'
      BY <1>0, <1>28, QueuedTyped DEF Hold, Numbers, Places, Queued, power, fences, jobs, hangcheck, worker, others
    <2>2. PICK q : Powered(q)
      BY <1>28, Zenon DEF Hold
    <2>3. UNCHANGED <<timer, muted>>
      BY <1>28, Zenon DEF Hold, hangcheck
    <2>4. Given' /\ Flags'
      BY <1>0, <2>2, <2>3, PoweredTyped
    <2> QED  BY <2>1, <2>2, <2>4
  <1>29. CASE Release
    <2>1. Numbers' /\ Places'
      BY <1>0, <1>29, QueuedTyped DEF Release, Numbers, Places, Queued, power, fences, jobs, hangcheck, worker, others
    <2>2. PICK q : Powered(q)
      BY <1>29, Zenon DEF Release
    <2>3. UNCHANGED <<timer, muted>>
      BY <1>29, Zenon DEF Release, hangcheck
    <2>4. Given' /\ Flags'
      BY <1>0, <2>2, <2>3, PoweredTyped
    <2> QED  BY <2>1, <2>2, <2>4
  <1> QED
    BY <1>1, <1>2, <1>3, <1>4, <1>5, <1>6, <1>7, <1>8, <1>9, <1>10, <1>11, <1>12, <1>13, <1>14, <1>15, <1>16, <1>17, <1>18, <1>19, <1>20, <1>21, <1>22, <1>23, <1>24, <1>25, <1>26, <1>27, <1>28, <1>29, Zenon DEF Next, Scheduler, Worker, Device, Rest


LEMMA InitPower == Init => PowerInv
  <1> SUFFICES ASSUME Init PROVE PowerInv
    OBVIOUS
  <1>1. pm \in Slot /\ Sound(pm)
    BY DEF Init, Sound, Slot
  <1>2. RingTypeOK
    <2>1. Flags
      BY Zenon DEF Init, Flags
    <2>2. Given /\ Numbers /\ Places
      BY GpuConstants DEF Init, Given, Numbers, Places
    <2> QED  BY <1>1, <2>1, <2>2, TypeParts
  <1>3. Turns /\ CountsAgree
    BY DEF Init, Turns, CountsAgree, Recovering, Submitting, One
  <1> QED  BY <1>1, <1>2, <1>3 DEF PowerInv

(* The count of the active submits, as the list and the two half-done steps have
   it, is no less than nothing while no submission is between its two. *)
LEMMA NoneMissing ==
    ASSUME PowerInv, sched # "listed", wpc # "dropped"
    PROVE  active >= 0 /\ (active = 0 => submits = <<>>)
  BY DEF PowerInv, RingTypeOK, CountsAgree, One

(* Every step keeps the counts, and none but an idle one takes the power away. *)
LEMMA PowerStep ==
    ASSUME PowerInv, Next
    PROVE  PowerInv' /\ (pm.on /\ ~pm'.on => active' = 0)
  <1> SUFFICES /\ Sound(pm') /\ Turns' /\ CountsAgree'
               /\ pm.on /\ ~pm'.on => active' = 0
    BY TypeStep DEF PowerInv, Sound
  <1>0. Sound(pm) /\ Turns /\ CountsAgree /\ Len(submits) \in Nat /\ active \in Int /\ saved \in Int
          /\ holds \in Nat /\ pm.usage \in Nat /\ submits \in Seq(Nat)
    BY DEF PowerInv, RingTypeOK, Slot
  <1>1. CASE InitFence
    <2>1. sched = "idle" /\ sched' = "inited" /\ UNCHANGED <<pm, submits, active, saved, holds, wpc>>
      BY <1>1, Zenon DEF InitFence, power, jobs, worker, others
    <2> QED  BY <1>0, <2>1 DEF Turns, CountsAgree, Recovering, Submitting, One
  <1>2. CASE ListJob
    <2>1. pm' \in GetSync(pm)
      BY <1>2, Zenon DEF ListJob, Powered
    <2>2. Sound(pm') /\ pm'.usage = pm.usage + 1 /\ (pm.on => pm'.on)
      BY <1>0, <2>1, GetSyncSound
    <2>3. submits' = Append(submits, last) /\ sched = "inited" /\ sched' = "listed" /\ ~Recovering
            /\ UNCHANGED <<active, saved, holds, wpc>>
      BY <1>2, Zenon DEF ListJob, jobs, worker, others
    <2> QED  BY <1>0, <2>1, <2>2, <2>3 DEF Turns, CountsAgree, Recovering, Submitting, One
  <1>3. CASE CountJob
    <2>1. sched = "listed" /\ sched' = "counted" /\ active' = active + 1
            /\ UNCHANGED <<submits, saved, holds, wpc>>
      BY <1>3, Zenon DEF CountJob, worker, others
    <2>2. CASE active = 0
      <3>1. pm' \in GetSync(pm)
        BY <1>3, <2>2, Zenon DEF CountJob, Powered
      <3>2. Sound(pm') /\ pm'.usage = pm.usage + 1 /\ (pm.on => pm'.on)
        BY <1>0, <3>1, GetSyncSound
      <3> QED  BY <1>0, <2>1, <2>2, <3>2 DEF Turns, CountsAgree, Recovering, Submitting, One
    <2>3. CASE active # 0
      <3>1. pm' = pm
        BY <1>3, <2>3, Zenon DEF CountJob, power
      <3> QED  BY <1>0, <2>1, <2>3, <3>1 DEF Turns, CountsAgree, Recovering, Submitting, One
    <2> QED  BY <2>2, <2>3
  <1>4. CASE KickJob
    <2>1. pm' \in Put(pm, FALSE)
      BY <1>4, Zenon DEF KickJob, Powered
    <2>2. sched = "counted" /\ sched' = "idle" /\ UNCHANGED <<submits, active, saved, holds, wpc>>
      BY <1>4, Zenon DEF KickJob, worker, others
    <2>3. pm.usage # 0
      BY <1>0, <2>2 DEF Turns, CountsAgree, Recovering, Submitting, One
    <2>4. Sound(pm') /\ pm'.usage = pm.usage - 1 /\ (pm'.usage # 0 => pm'.on = pm.on)
      BY <1>0, <2>1, <2>3, PutSound
    <2>5. Turns' /\ CountsAgree'
      BY <1>0, <2>2, <2>4 DEF Turns, CountsAgree, Recovering, Submitting, One
    <2>6. active >= 0
      BY <1>0, <2>2 DEF Turns, CountsAgree, Recovering, Submitting, One
    <2> QED  BY <1>0, <2>2, <2>4, <2>5, <2>6 DEF Turns, CountsAgree, Recovering, Submitting, One
  <1>5. CASE Execute
    <2>1. UNCHANGED <<pm, submits, active, saved, holds, sched, wpc>>
      BY <1>5, Zenon DEF Execute, power, jobs, worker, others
    <2> QED  BY <1>0, <2>1 DEF Turns, CountsAgree, Recovering, Submitting, One
  <1>6. CASE Hang
    <2>1. UNCHANGED <<pm, submits, active, saved, holds, sched, wpc>>
      BY <1>6, Zenon DEF Hang, power, jobs, worker, others
    <2> QED  BY <1>0, <2>1 DEF Turns, CountsAgree, Recovering, Submitting, One
  <1>7. CASE CompletionIrq
    <2>1. UNCHANGED <<pm, submits, active, saved, holds, sched, wpc>>
      BY <1>7, Zenon DEF CompletionIrq, power, jobs, worker, others
    <2> QED  BY <1>0, <2>1 DEF Turns, CountsAgree, Recovering, Submitting, One
  <1>8. CASE LoseIrq
    <2>1. UNCHANGED <<pm, submits, active, saved, holds, sched, wpc>>
      BY <1>8, Zenon DEF LoseIrq, power, jobs, worker, others
    <2> QED  BY <1>0, <2>1 DEF Turns, CountsAgree, Recovering, Submitting, One
  <1>9. CASE HangIrq
    <2>1. UNCHANGED <<pm, submits, active, saved, holds, sched, wpc>>
      BY <1>9, Zenon DEF HangIrq, power, jobs, worker, others
    <2> QED  BY <1>0, <2>1 DEF Turns, CountsAgree, Recovering, Submitting, One
  <1>10. CASE GmuFault
    <2>1. UNCHANGED <<pm, submits, active, saved, holds, sched, wpc>>
      BY <1>10, Zenon DEF GmuFault, power, jobs, worker, others
    <2> QED  BY <1>0, <2>1 DEF Turns, CountsAgree, Recovering, Submitting, One
  <1>11. CASE SmmuFault
    <2>1. UNCHANGED <<pm, submits, active, saved, holds, sched, wpc>>
      BY <1>11, Zenon DEF SmmuFault, power, jobs, worker, others
    <2> QED  BY <1>0, <2>1 DEF Turns, CountsAgree, Recovering, Submitting, One
  <1>12. CASE Hangcheck
    <2>1. UNCHANGED <<pm, submits, active, saved, holds, sched, wpc>>
      BY <1>12, Zenon DEF Hangcheck, power, jobs, worker, others
    <2> QED  BY <1>0, <2>1 DEF Turns, CountsAgree, Recovering, Submitting, One
  <1>13. CASE TakeWork
    <2>1. wpc = "idle" /\ wpc' \in {"retire", "recover", "fault"}
            /\ UNCHANGED <<pm, submits, active, saved, holds, sched>>
      <3>1. Head(works) \in {"retire", "recover", "fault"}
        BY <1>13 DEF TakeWork, PowerInv, RingTypeOK
      <3> QED  BY <1>13, <3>1, Zenon DEF TakeWork, power, jobs, others
    <2> QED  BY <1>0, <2>1 DEF Turns, CountsAgree, Recovering, Submitting, One
  <1>14. CASE Unlist
    <2>1. /\ submits # <<>> /\ submits' = Tail(submits)
          /\ (wpc = "retire" /\ wpc' = "retired") \/ (wpc = "cull" /\ wpc' = "culled")
          /\ UNCHANGED <<pm, active, saved, holds, sched>>
      BY <1>14, Zenon DEF Unlist, FirstIsDone, power, jobs, worker, others
    <2> QED  BY <1>0, <2>1 DEF Turns, CountsAgree, Recovering, Submitting, One
  <1>15. CASE Uncount
    <2>1. /\ (wpc = "retired" /\ wpc' = "retire") \/ (wpc = "culled" /\ wpc' = "cull")
          /\ active' = active - 1 /\ UNCHANGED <<submits, saved, holds, sched>>
      BY <1>15, Zenon DEF Uncount, others
    <2>2. CASE active = 1
      <3>1. pm' \in Put(pm, FALSE)
        BY <1>15, <2>2, Zenon DEF Uncount, HoldDropped, Powered
      <3>2. pm.usage # 0
        BY <1>0, <2>1, <2>2 DEF Turns, CountsAgree, Recovering, Submitting, One
      <3>3. Sound(pm') /\ pm'.usage = pm.usage - 1 /\ (pm'.usage # 0 => pm'.on = pm.on)
        BY <1>0, <3>1, <3>2, PutSound
      <3> QED  BY <1>0, <2>1, <2>2, <3>3 DEF Turns, CountsAgree, Recovering, Submitting, One
    <2>3. CASE active # 1
      <3>1. pm' = pm
        BY <1>15, <2>3, Zenon DEF Uncount, HoldDropped, power
      <3> QED  BY <1>0, <2>1, <2>3, <3>1 DEF Turns, CountsAgree, Recovering, Submitting, One
    <2> QED  BY <2>2, <2>3
  <1>16. CASE AllRetired
    <2>1. wpc = "retire" /\ wpc' = "idle" /\ UNCHANGED <<pm, submits, active, saved, holds, sched>>
      BY <1>16, Zenon DEF AllRetired, power, jobs, worker, others
    <2> QED  BY <1>0, <2>1 DEF Turns, CountsAgree, Recovering, Submitting, One
  <1>17. CASE FaultWork
    <2>1. wpc = "fault" /\ wpc' = "idle" /\ ~Submitting
            /\ UNCHANGED <<submits, active, saved, holds, sched>>
      BY <1>17, Zenon DEF FaultWork, jobs, others
    <2>2. CASE pm' = pm
      BY <1>0, <2>1, <2>2 DEF Turns, CountsAgree, Recovering, Submitting, One
    <2>3. CASE \E p \in GetSync(pm) : pm' \in Put(p, FALSE)
      <3>1. PICK p \in GetSync(pm) : pm' \in Put(p, FALSE)
        BY <2>3
      <3>2. Sound(p) /\ p.usage = pm.usage + 1 /\ (pm.on => p.on)
        BY <1>0, GetSyncSound
      <3>6. p.usage # 0 /\ p.usage - 1 = pm.usage
        BY <1>0, <3>2
      <3>7. Sound(pm') /\ pm'.usage = p.usage - 1 /\ (pm'.usage # 0 => pm'.on = p.on)
        BY <3>1, <3>2, <3>6, PutSound
      <3>3. Sound(pm') /\ pm'.usage = pm.usage /\ (pm'.usage # 0 => pm'.on = p.on)
        BY <3>6, <3>7
      <3>4. Turns' /\ CountsAgree'
        BY <1>0, <2>1, <3>3 DEF Turns, CountsAgree, Recovering, Submitting, One
      <3>5. pm.usage = 0 => active = 0
        BY <1>0, <2>1 DEF Turns, CountsAgree, Recovering, Submitting, One
      <3> QED  BY <1>0, <2>1, <3>2, <3>3, <3>4, <3>5
    <2> QED  BY <1>17, <2>2, <2>3, Zenon DEF FaultWork, power
  <1>18. CASE NoneToBlame
    <2>1. wpc = "recover" /\ wpc' = "idle" /\ UNCHANGED <<pm, submits, active, saved, holds, sched>>
      BY <1>18, Zenon DEF NoneToBlame, power, jobs, worker, others
    <2> QED  BY <1>0, <2>1 DEF Turns, CountsAgree, Recovering, Submitting, One
  <1>19. CASE Blame
    <2>1. pm' \in GetSync(pm)
      BY <1>19, Zenon DEF Blame, Powered
    <2>2. Sound(pm') /\ pm'.usage = pm.usage + 1 /\ (pm.on => pm'.on)
      BY <1>0, <2>1, GetSyncSound
    <2>3. wpc = "recover" /\ wpc' = "accused" /\ ~Submitting
            /\ UNCHANGED <<submits, active, saved, holds, sched>>
      BY <1>19, Zenon DEF Blame, jobs, worker, others
    <2> QED  BY <1>0, <2>1, <2>2, <2>3 DEF Turns, CountsAgree, Recovering, Submitting, One
  <1>20. CASE ReadFence
    <2>1. wpc = "accused" /\ wpc' = "read" /\ UNCHANGED <<pm, submits, active, saved, holds, sched>>
      BY <1>20, Zenon DEF ReadFence, power, jobs, worker, others
    <2> QED  BY <1>0, <2>1 DEF Turns, CountsAgree, Recovering, Submitting, One
  <1>21. CASE ClearFence
    <2>1. wpc = "read" /\ wpc' \in {"cull", "leave"}
            /\ UNCHANGED <<pm, submits, active, saved, holds, sched>>
      BY <1>21, Zenon DEF ClearFence, power, jobs, worker, others
    <2> QED  BY <1>0, <2>1 DEF Turns, CountsAgree, Recovering, Submitting, One
  <1>22. CASE HaltEngine
    <2>1. pm' \in DontUseAutosuspend(pm)
      BY <1>22, Zenon DEF HaltEngine
    <2>2. wpc = "cull" /\ wpc' = "halted" /\ UNCHANGED <<submits, active, saved, holds, sched>>
      BY <1>22, Zenon DEF HaltEngine, jobs, others
    <2>3. pm.usage # 0
      BY <1>0, <2>2 DEF Turns, CountsAgree, Recovering, Submitting, One
    <2>4. Sound(pm') /\ pm'.usage = pm.usage /\ pm'.on = pm.on
      BY <1>0, <2>1, <2>3, DontUseSound
    <2> QED  BY <1>0, <2>2, <2>4 DEF Turns, CountsAgree, Recovering, Submitting, One
  <1>23. CASE DropPower
    <2>1. wpc = "halted" /\ wpc' = "dropped" /\ saved' = active /\ active' = 0
            /\ UNCHANGED <<submits, holds, sched>>
      BY <1>23, Zenon DEF DropPower, CountHidden, others
    <2>2. PICK p \in (IF active # 0 THEN Put(pm, FALSE) ELSE {pm}) : pm' \in Put(p, FALSE)
      BY <1>23, Zenon DEF DropPower, Powered
    <2>3. pm.usage = One(active > 0) + 1 + holds /\ active >= 0
      BY <1>0, <2>1 DEF Turns, CountsAgree, Recovering, Submitting, One
    <2>4. Sound(p) /\ p.usage = 1 + holds
      <3>1. CASE active # 0
        <4>0. p \in Put(pm, FALSE)
          BY <2>2, <3>1, Zenon
        <4>1. pm.usage = holds + 2
          BY <1>0, <2>3, <3>1 DEF One
        <4>2. pm.usage # 0
          BY <1>0, <4>1
        <4>3. Sound(p) /\ p.usage = pm.usage - 1
          BY <1>0, <4>0, <4>2, PutSound
        <4> QED  BY <1>0, <4>1, <4>3
      <3>2. CASE active = 0
        BY <1>0, <2>2, <2>3, <3>2 DEF One
      <3> QED  BY <3>1, <3>2
    <2>5. Sound(pm') /\ pm'.usage = holds
      <3>1. p.usage # 0
        BY <1>0, <2>4
      <3>2. Sound(pm') /\ pm'.usage = p.usage - 1
        BY <2>2, <2>4, <3>1, PutSound
      <3> QED  BY <1>0, <2>4, <3>2
    <2> QED  BY <1>0, <2>1, <2>5 DEF Turns, CountsAgree, Recovering, Submitting, One
  <1>24. CASE RaisePower
    <2>1. wpc = "dropped" /\ wpc' = "raised" /\ active' = saved
            /\ UNCHANGED <<submits, holds, sched>>
      BY <1>24, Zenon DEF RaisePower, others
    <2>2. PICK p \in (IF saved # 0 THEN GetSync(UseAutosuspend(pm)) ELSE {UseAutosuspend(pm)}) :
             pm' \in GetSync(p)
      BY <1>24, Zenon DEF RaisePower, Powered
    <2>3. pm.usage = holds /\ saved >= 0
      BY <1>0, <2>1 DEF Turns, CountsAgree, Recovering, Submitting, One
    <2>4. Sound(p) /\ p.usage = One(saved > 0) + holds /\ (pm.on => p.on)
      BY <1>0, <2>2, <2>3, UseSound, GetSyncSound DEF One
    <2>5. Sound(pm') /\ pm'.usage = p.usage + 1 /\ (pm.on => pm'.on)
      BY <1>0, <2>2, <2>4, GetSyncSound
    <2> QED  BY <1>0, <2>1, <2>3, <2>4, <2>5 DEF Turns, CountsAgree, Recovering, Submitting, One
  <1>25. CASE Replay
    <2>1. wpc = "raised" /\ wpc' = "leave" /\ UNCHANGED <<pm, submits, active, saved, holds, sched>>
      BY <1>25, Zenon DEF Replay, power, jobs, worker, others
    <2> QED  BY <1>0, <2>1 DEF Turns, CountsAgree, Recovering, Submitting, One
  <1>26. CASE LeaveRecovery
    <2>1. pm' \in Put(pm, FALSE)
      BY <1>26, Zenon DEF LeaveRecovery, Powered
    <2>2. wpc = "leave" /\ wpc' = "idle" /\ UNCHANGED <<submits, active, saved, holds, sched>>
      BY <1>26, Zenon DEF LeaveRecovery, jobs, others
    <2>3. pm.usage # 0
      BY <1>0, <2>2 DEF Turns, CountsAgree, Recovering, Submitting, One
    <2>4. Sound(pm') /\ pm'.usage = pm.usage - 1 /\ (pm'.usage # 0 => pm'.on = pm.on)
      BY <1>0, <2>1, <2>3, PutSound
    <2>5. Turns' /\ CountsAgree'
      BY <1>0, <2>2, <2>4 DEF Turns, CountsAgree, Recovering, Submitting, One
    <2>6. active >= 0
      BY <1>0, <2>2 DEF Turns, CountsAgree, Recovering, Submitting, One
    <2> QED  BY <1>0, <2>2, <2>4, <2>5, <2>6 DEF Turns, CountsAgree, Recovering, Submitting, One
  <1>27. CASE Autosuspend
    <2>1. pm' \in SuspendWork(pm)
      BY <1>27, Zenon DEF Autosuspend, Powered
    <2>2. Sound(pm') /\ pm'.usage = pm.usage /\ (pm'.usage # 0 => pm'.on = pm.on)
      BY <1>0, <2>1, SuspendWorkSound
    <2>3. UNCHANGED <<submits, active, saved, holds, sched, wpc>>
      BY <1>27, Zenon DEF Autosuspend, jobs, worker, others
    <2>4. Turns' /\ CountsAgree'
      BY <1>0, <2>2, <2>3 DEF Turns, CountsAgree, Recovering, Submitting, One
    <2>5. pm.usage = 0 => active = 0
      BY <1>0 DEF Turns, CountsAgree, Recovering, Submitting, One
    <2> QED  BY <2>2, <2>3, <2>4, <2>5
  <1>28. CASE Hold
    <2>1. pm' \in GetSync(pm) \cup {GetIfInUse(pm)} /\ pm'.usage > pm.usage
      BY <1>28, Zenon DEF Hold, Powered
    <2>2. Sound(pm') /\ pm'.usage = pm.usage + 1 /\ (pm.on => pm'.on)
      BY <1>0, <2>1, GetSyncSound, GetIfInUseSound
    <2>3. holds' = holds + 1 /\ UNCHANGED <<submits, active, saved, sched, wpc>>
      BY <1>28, Zenon DEF Hold, jobs, worker
    <2> QED  BY <1>0, <2>2, <2>3 DEF Turns, CountsAgree, Recovering, Submitting, One
  <1>29. CASE Release
    <2>1. pm' \in Put(pm, FALSE)
      BY <1>29, Zenon DEF Release, Powered
    <2>2. holds > 0 /\ holds' = holds - 1 /\ UNCHANGED <<submits, active, saved, sched, wpc>>
      BY <1>29, Zenon DEF Release, jobs, worker
    <2>3. pm.usage # 0
      BY <1>0, <2>2 DEF Turns, CountsAgree, Recovering, Submitting, One
    <2>4. Sound(pm') /\ pm'.usage = pm.usage - 1 /\ (pm'.usage # 0 => pm'.on = pm.on)
      BY <1>0, <2>1, <2>3, PutSound
    <2>5. Turns' /\ CountsAgree'
      BY <1>0, <2>2, <2>4 DEF Turns, CountsAgree, Recovering, Submitting, One
    <2>6. pm'.usage = 0 => active = 0
      BY <1>0, <2>2, <2>4 DEF Turns, CountsAgree, Recovering, Submitting, One
    <2> QED  BY <1>0, <2>2, <2>4, <2>5, <2>6 DEF Turns, CountsAgree, Recovering, Submitting, One
  <1> QED
    BY <1>1, <1>2, <1>3, <1>4, <1>5, <1>6, <1>7, <1>8, <1>9, <1>10, <1>11, <1>12, <1>13, <1>14, <1>15, <1>16, <1>17, <1>18, <1>19, <1>20, <1>21, <1>22, <1>23, <1>24, <1>25, <1>26, <1>27, <1>28, <1>29, Zenon DEF Next, Scheduler, Worker, Device, Rest

-----------------------------------------------------------------------------
(* Whatever the number of jobs, hangs, faults and holders: every state is of its
   type, and the power is held as often as somebody needs it. *)
THEOREM PowerIsHeld == Spec => []PowerInv
  <1>1. PowerInv /\ [Next]_vars => PowerInv'
    <2>1. ASSUME PowerInv, UNCHANGED vars  PROVE PowerInv'
      <3>1. /\ UNCHANGED <<pm, needsInit, sqe, ring, stuck, irq>>
            /\ UNCHANGED <<last, fence, completed, submits, active, sched>>
            /\ UNCHANGED <<timer, muted, checked, retries, works, wpc, mark, saved>>
            /\ UNCHANGED <<holds, hangs, faults>>
        BY <2>1, Zenon DEF vars, power, fences, jobs, hangcheck, worker, others
      <3>2. pm' \in Slot /\ Flags' /\ Given' /\ Numbers' /\ Places'
        <4>1. pm \in Slot /\ Flags /\ Given /\ Numbers /\ Places
          BY <2>1, TypeParts DEF PowerInv
        <4>2. pm' \in Slot /\ Flags' /\ Given'
          BY <3>1, <4>1, Zenon DEF Flags, Given
        <4>3. Numbers' /\ Places'
          BY <3>1, <4>1 DEF Numbers, Places
        <4> QED  BY <4>2, <4>3
      <3>3. RingTypeOK'
        BY <3>2, Zenon DEF RingTypeOK, Flags, Given, Numbers, Places
      <3>4. Sound(pm')
        BY <2>1, <3>1 DEF PowerInv
      <3>5. Turns' /\ CountsAgree'
        BY <2>1, <3>1 DEF PowerInv, Turns, CountsAgree, Recovering, Submitting, One
      <3> QED  BY <3>3, <3>4, <3>5, Zenon DEF PowerInv, Sound
    <2> QED  BY <2>1, PowerStep
  <1> QED  BY <1>1, InitPower, PTL DEF Spec

(* The type invariant. *)
THEOREM RingIsTyped == Spec => []RingTypeOK
  <1>1. PowerInv => RingTypeOK
    BY DEF PowerInv
  <1> QED  BY <1>1, PowerIsHeld, PTL

(* The counts of the active submits and of the power agree with who there is. *)
THEOREM CountsAlwaysAgree == Spec => []CountsAgree
  <1>1. PowerInv => CountsAgree
    BY DEF PowerInv
  <1> QED  BY <1>1, PowerIsHeld, PTL

(* adreno_runtime_suspend's WARN_ON_ONCE never speaks. *)
THEOREM AlwaysSuspendsIdle == Spec => SuspendsOnlyIdle
  <1>1. PowerInv /\ [Next]_vars => [pm.on /\ ~pm'.on => active' = 0]_vars
    BY PowerStep
  <1> QED  BY <1>1, PowerIsHeld, PTL DEF Spec, SuspendsOnlyIdle


-----------------------------------------------------------------------------
(* The fences. *)

AllFrom(r, n) == \A i \in 1..Len(r) : n <= r[i]
AllUpTo(r, n) == \A i \in 1..Len(r) : r[i] <= n
Rising(r) == \A i, j \in 1..Len(r) : i < j => r[i] < r[j]

LEMMA OfNothing ==
    ASSUME NEW n \in Int
    PROVE  AllFrom(<<>>, n) /\ AllUpTo(<<>>, n) /\ Rising(<<>>)
  BY DEF AllFrom, AllUpTo, Rising

LEMMA OfTail ==
    ASSUME NEW r \in Seq(Nat), r # <<>>
    PROVE  /\ Head(r) \in Nat
           /\ \A n \in Int : AllFrom(r, n) => AllFrom(Tail(r), n) /\ n <= Head(r)
           /\ \A n \in Int : AllUpTo(r, n) => AllUpTo(Tail(r), n) /\ Head(r) <= n
           /\ Rising(r) => Rising(Tail(r)) /\ AllFrom(Tail(r), Head(r))
  BY DEF AllFrom, AllUpTo, Rising

LEMMA OfAppend ==
    ASSUME NEW r \in Seq(Nat), NEW m \in Nat
    PROVE  /\ \A n \in Int : AllFrom(r, n) /\ n <= m => AllFrom(Append(r, m), n)
           /\ \A n \in Int : AllUpTo(r, n) /\ m <= n => AllUpTo(Append(r, m), n)
           /\ Rising(r) /\ AllUpTo(r, m - 1) => Rising(Append(r, m))
  BY DEF AllFrom, AllUpTo, Rising

LEMMA OfConcat ==
    ASSUME NEW r \in Seq(Nat), NEW s \in Seq(Nat)
    PROVE  /\ \A n \in Int : AllFrom(r, n) /\ AllFrom(s, n) => AllFrom(r \o s, n)
           /\ \A n \in Int : AllUpTo(r, n) /\ AllUpTo(s, n) => AllUpTo(r \o s, n)
  BY DEF AllFrom, AllUpTo

(* The jobs that have been listed, and those of them that have left the list. *)
Listed == IF sched = "inited" THEN last - 1 ELSE last
Gone == Listed - Len(submits)

(* ring->submits holds the last jobs listed, in the order of their numbers. *)
AsListed ==
    /\ Listed \in Nat /\ Gone \in Nat
    /\ \A i \in 1..Len(submits) : submits[i] = Gone + i

(* Whatever has left the list is over for good: for completed_fence, or for the
   hardware's fence, and then nothing in the ring can set that one back. *)
GoneIsOver == Gone <= completed \/ (Gone <= fence /\ AllFrom(ring, Gone))

(* ... recovery's own copy of that fence included. *)
MarkIsOver == wpc = "read" => Gone <= completed \/ Gone <= mark

(* The hardware's fence is in completed_fence, or behind the ring, but at the end
   of a recovery, whose replay may hold what was done before. *)
FenceKept == wpc # "leave" => fence <= completed \/ AllFrom(ring, fence)
FenceBound == fence <= completed \/ fence <= last

(* The ring holds jobs listed, and in order, once more only behind a halt. *)
Bound == IF sched = "idle" THEN last ELSE last - 1
Fences ==
    /\ AllUpTo(ring, Bound)
    /\ sqe # "halt" => Rising(ring)

(* Recovery replays onto an empty ring, or behind a halted engine. *)
HaltIsReset == wpc \in {"halted", "dropped", "raised"} => needsInit \/ ~pm.on \/ sqe = "halt"

FencesInv ==
    AsListed /\ GoneIsOver /\ MarkIsOver /\ FenceKept /\ FenceBound /\ Fences
FenceInv == FencesInv /\ HaltIsReset

(* Steps that neither list nor unlist a job nor write its fence: the hardware is
   left alone or off, and completed_fence only goes up. *)
LEMMA FencesLeftAlone ==
    ASSUME RingTypeOK, FencesInv, UNCHANGED <<last, fence, submits>>,
           sched' = sched \/ (sched = "listed" /\ sched' = "counted"),
           completed' \in Nat, completed' >= completed,
           (ring' = ring /\ sqe' = sqe) \/ ring' = <<>> \/ (ring' = ring /\ sqe' = "halt"),
           wpc' = "read" => wpc = "read" /\ mark' = mark,
           wpc = "leave" => wpc' = "leave" \/ fence <= completed'
    PROVE  FencesInv'
  <1>1. last \in Nat /\ fence \in Nat /\ completed \in Nat /\ mark \in Nat /\ Len(submits) \in Nat
    BY DEF RingTypeOK
  <1>2. Listed' = Listed /\ Gone' = Gone /\ Bound' = Bound /\ Gone \in Nat /\ Bound \in Int
    BY <1>1 DEF Listed, Gone, Bound, FencesInv, AsListed
  <1>3. AsListed'
    BY <1>2 DEF FencesInv, AsListed
  <1>5. AllUpTo(ring', Bound) /\ \A n \in Int : AllFrom(ring, n) => AllFrom(ring', n)
    BY <1>2, OfNothing DEF FencesInv, Fences
  <1>6. sqe' # "halt" => Rising(ring')
    BY OfNothing DEF FencesInv, Fences
  <1>7. Fences'
    BY <1>2, <1>5, <1>6 DEF Fences
  <1>8. GoneIsOver'
    BY <1>1, <1>2, <1>5 DEF FencesInv, GoneIsOver
  <1>9. MarkIsOver'
    BY <1>1, <1>2 DEF FencesInv, MarkIsOver
  <1>10. FenceKept' /\ FenceBound'
    BY <1>1, <1>5 DEF FencesInv, FenceKept, FenceBound
  <1> QED  BY <1>3, <1>7, <1>8, <1>9, <1>10 DEF FencesInv


LEMMA FencesStep ==
    ASSUME PowerInv, FenceInv, Next
    PROVE  FencesInv'
  <1>0. /\ RingTypeOK /\ FencesInv /\ Turns /\ Sound(pm)
        /\ last \in Nat /\ fence \in Nat /\ completed \in Nat /\ mark \in Nat
        /\ Len(submits) \in Nat /\ submits \in Seq(Nat) /\ ring \in Seq(Nat)
    BY DEF PowerInv, RingTypeOK, FenceInv
  <1>a. Listed \in Nat /\ Gone \in Nat /\ Gone <= Listed /\ Listed <= last /\ Bound \in Int
    BY <1>0 DEF FencesInv, AsListed, Listed, Gone, Bound
  <1>1. CASE InitFence
    <2>1. sched = "idle" /\ sched' = "inited" /\ last' = last + 1
            /\ UNCHANGED <<fence, completed, submits, ring, sqe, wpc, mark>>
      BY <1>1, Zenon DEF InitFence, power, worker
    <2>2. Listed' = Listed /\ Gone' = Gone /\ Bound' = Bound
      BY <1>0, <2>1 DEF Listed, Gone, Bound
    <2> QED  BY <1>0, <2>1, <2>2 DEF FencesInv, AsListed, GoneIsOver, MarkIsOver, FenceKept,
               FenceBound, Fences
  <1>2. CASE ListJob
    <2>1. PICK q \in GetSync(pm) : pm' = q /\ HwInit(q, AskedBy(q))
      BY <1>2, Zenon DEF ListJob
    <2>2. sched = "inited" /\ sched' = "listed" /\ submits' = Append(submits, last) /\ ~Recovering
            /\ UNCHANGED <<last, completed, wpc, mark>>
      BY <1>2, Zenon DEF ListJob, worker
    <2>3. Listed' = last /\ Gone' = Gone /\ Bound' = Bound /\ wpc # "read"
      BY <1>0, <2>2 DEF Listed, Gone, Bound, Recovering
    <2>4. AsListed'
      <3>1. last = Gone + Len(submits) + 1
        BY <1>0, <1>a, <2>2 DEF Listed, Gone
      <3>2. Len(submits') = Len(submits) + 1 /\ submits'[Len(submits) + 1] = last
              /\ \A i \in 1..Len(submits) : submits'[i] = submits[i]
        BY <1>0, <2>2
      <3>3. \A i \in 1..Len(submits') : submits'[i] = Gone + i
        <4> SUFFICES ASSUME NEW i \in 1..Len(submits')  PROVE submits'[i] = Gone + i
          OBVIOUS
        <4>1. CASE i \in 1..Len(submits)
          BY <1>0, <3>2, <4>1 DEF FencesInv, AsListed
        <4>2. CASE i = Len(submits) + 1
          BY <1>0, <1>a, <3>1, <3>2, <4>2
        <4> QED  BY <1>0, <3>2, <4>1, <4>2
      <3> QED  BY <1>0, <1>a, <2>2, <2>3, <3>3 DEF AsListed
    <2>5. \/ ring' = ring /\ sqe' = sqe /\ fence' = fence
          \/ ring' = <<>> /\ (fence' = fence \/ (last < fence /\ fence' = last))
      BY <2>1, Zenon DEF HwInit
    <2>6. AllUpTo(ring', Bound) /\ (sqe' # "halt" => Rising(ring'))
      BY <1>0, <1>a, <2>5, OfNothing DEF FencesInv, Fences
    <2>7. GoneIsOver'
      BY <1>0, <1>a, <2>2, <2>3, <2>5, OfNothing DEF FencesInv, GoneIsOver
    <2>8. FenceKept' /\ FenceBound'
      BY <1>0, <1>a, <2>2, <2>5, OfNothing DEF FencesInv, FenceKept, FenceBound
    <2> QED  BY <2>2, <2>3, <2>4, <2>6, <2>7, <2>8 DEF FencesInv, Fences, MarkIsOver
  <1>3. CASE CountJob
    <2>1. UNCHANGED <<last, fence, submits>> /\ sched = "listed" /\ sched' = "counted" /\ completed' = completed /\ wpc' = wpc /\ mark' = mark
            /\ ((ring' = ring /\ sqe' = sqe) \/ ring' = <<>> \/ (ring' = ring /\ sqe' = "halt"))
      BY <1>3, Zenon DEF CountJob, Powered, power, fences, worker
    <2>2. completed' \in Nat /\ completed' >= completed
      BY <1>0, <2>1
    <2> QED  BY <1>0, <2>1, <2>2, FencesLeftAlone
  <1>4. CASE KickJob
    <2>1. sched = "counted" /\ sched' = "idle"
            /\ UNCHANGED <<last, fence, completed, submits, wpc, mark>>
      BY <1>4, Zenon DEF KickJob, fences, worker
    <2>2. Listed' = Listed /\ Gone' = Gone /\ Bound' = last /\ Bound = last - 1
      BY <1>0, <2>1 DEF Listed, Gone, Bound
    <2>3. AsListed' /\ MarkIsOver' /\ FenceBound'
      BY <1>0, <2>1, <2>2 DEF FencesInv, AsListed, MarkIsOver, FenceBound
    <2>4. \/ ring' = Append(ring, last) /\ sqe' = sqe
          \/ ring' = ring /\ sqe' = sqe
          \/ ring' = <<>>
      BY <1>4, Zenon DEF KickJob, Powered
    <2>5. /\ AllUpTo(ring', last) /\ (sqe' # "halt" => Rising(ring'))
          /\ \A n \in Int : AllFrom(ring, n) /\ n <= last => AllFrom(ring', n)
      <3>1. AllUpTo(ring, last - 1) /\ AllUpTo(ring, last) /\ (sqe # "halt" => Rising(ring))
        BY <1>0, <2>2 DEF FencesInv, Fences, AllUpTo
      <3>2. CASE ring' = Append(ring, last) /\ sqe' = sqe
        BY <1>0, <3>1, <3>2, OfAppend
      <3>3. CASE (ring' = ring /\ sqe' = sqe) \/ ring' = <<>>
        BY <1>0, <3>1, <3>3, OfNothing
      <3> QED  BY <2>4, <3>2, <3>3
    <2>6. GoneIsOver' /\ FenceKept'
      BY <1>0, <1>a, <2>1, <2>2, <2>5 DEF FencesInv, GoneIsOver, FenceKept, FenceBound
    <2> QED  BY <2>2, <2>3, <2>5, <2>6 DEF FencesInv, Fences
  <1>5. CASE Execute
    <2>1. sqe = "run" /\ ring # <<>> /\ fence' = Head(ring) /\ ring' = Tail(ring)
            /\ UNCHANGED <<sqe, last, completed, submits, sched, wpc, mark>>
      BY <1>5, Zenon DEF Execute, jobs, worker
    <2>2. Listed' = Listed /\ Gone' = Gone /\ Bound' = Bound /\ Bound <= last
      BY <1>0, <2>1 DEF Listed, Gone, Bound
    <2>3. AsListed' /\ MarkIsOver'
      BY <1>0, <2>1, <2>2 DEF FencesInv, AsListed, MarkIsOver
    <2>4. Rising(ring) /\ AllUpTo(ring, Bound)
      BY <1>0, <2>1 DEF FencesInv, Fences
    <2>5. Fences' /\ fence' \in Nat /\ AllFrom(ring', fence') /\ fence' <= last
      BY <1>0, <1>a, <2>1, <2>2, <2>4, OfTail DEF Fences
    <2>6. FenceKept' /\ FenceBound'
      BY <2>1, <2>5 DEF FenceKept, FenceBound
    <2>7. GoneIsOver'
      BY <1>0, <1>a, <2>1, <2>2, OfTail DEF FencesInv, GoneIsOver
    <2> QED  BY <2>3, <2>5, <2>6, <2>7 DEF FencesInv
  <1>6. CASE Hang
    <2>1. UNCHANGED <<last, fence, submits, sched>> /\ completed' = completed /\ wpc' = wpc /\ mark' = mark
            /\ ((ring' = ring /\ sqe' = sqe) \/ ring' = <<>> \/ (ring' = ring /\ sqe' = "halt"))
      BY <1>6, Zenon DEF Hang, fences, jobs, worker
    <2>2. completed' \in Nat /\ completed' >= completed
      BY <1>0, <2>1
    <2> QED  BY <1>0, <2>1, <2>2, FencesLeftAlone
  <1>7. CASE CompletionIrq
    <2>1. UNCHANGED <<last, fence, submits, sched>> /\ completed' = Later(completed, fence) /\ wpc' = wpc /\ mark' = mark
            /\ ((ring' = ring /\ sqe' = sqe) \/ ring' = <<>> \/ (ring' = ring /\ sqe' = "halt"))
      BY <1>7, Zenon DEF CompletionIrq, Retire, jobs
    <2>2. completed' \in Nat /\ completed' >= completed /\ fence <= completed'
      BY <1>0, <2>1 DEF Later
    <2> QED  BY <1>0, <2>1, <2>2, FencesLeftAlone
  <1>8. CASE LoseIrq
    <2>1. UNCHANGED <<last, fence, submits, sched>> /\ completed' = completed /\ wpc' = wpc /\ mark' = mark
            /\ ((ring' = ring /\ sqe' = sqe) \/ ring' = <<>> \/ (ring' = ring /\ sqe' = "halt"))
      BY <1>8, Zenon DEF LoseIrq, fences, jobs, worker
    <2>2. completed' \in Nat /\ completed' >= completed
      BY <1>0, <2>1
    <2> QED  BY <1>0, <2>1, <2>2, FencesLeftAlone
  <1>9. CASE HangIrq
    <2>1. UNCHANGED <<last, fence, submits, sched>> /\ completed' = completed /\ wpc' = wpc /\ mark' = mark
            /\ ((ring' = ring /\ sqe' = sqe) \/ ring' = <<>> \/ (ring' = ring /\ sqe' = "halt"))
      BY <1>9, Zenon DEF HangIrq, power, fences, jobs
    <2>2. completed' \in Nat /\ completed' >= completed
      BY <1>0, <2>1
    <2> QED  BY <1>0, <2>1, <2>2, FencesLeftAlone
  <1>10. CASE GmuFault
    <2>1. UNCHANGED <<last, fence, submits, sched>> /\ completed' = completed /\ wpc' = wpc /\ mark' = mark
            /\ ((ring' = ring /\ sqe' = sqe) \/ ring' = <<>> \/ (ring' = ring /\ sqe' = "halt"))
      BY <1>10, Zenon DEF GmuFault, power, fences, jobs
    <2>2. completed' \in Nat /\ completed' >= completed
      BY <1>0, <2>1
    <2> QED  BY <1>0, <2>1, <2>2, FencesLeftAlone
  <1>11. CASE SmmuFault
    <2>1. UNCHANGED <<last, fence, submits, sched>> /\ completed' = completed /\ wpc' = wpc /\ mark' = mark
            /\ ((ring' = ring /\ sqe' = sqe) \/ ring' = <<>> \/ (ring' = ring /\ sqe' = "halt"))
      BY <1>11, Zenon DEF SmmuFault, power, fences, jobs
    <2>2. completed' \in Nat /\ completed' >= completed
      BY <1>0, <2>1
    <2> QED  BY <1>0, <2>1, <2>2, FencesLeftAlone
  <1>12. CASE Hangcheck
    <2>1. UNCHANGED <<last, fence, submits, sched>> /\ completed' = Later(completed, fence) /\ wpc' = wpc /\ mark' = mark
            /\ ((ring' = ring /\ sqe' = sqe) \/ ring' = <<>> \/ (ring' = ring /\ sqe' = "halt"))
      BY <1>12, Zenon DEF Hangcheck, power, jobs
    <2>2. completed' \in Nat /\ completed' >= completed /\ fence <= completed'
      BY <1>0, <2>1 DEF Later
    <2> QED  BY <1>0, <2>1, <2>2, FencesLeftAlone
  <1>13. CASE TakeWork
    <2>1. Head(works) \in {"retire", "recover", "fault"}
      BY <1>0, <1>13 DEF TakeWork, RingTypeOK
    <2>2. UNCHANGED <<last, fence, completed, submits, sched, ring, sqe>> /\ wpc = "idle"
            /\ wpc' \in {"retire", "recover", "fault"}
      BY <1>13, <2>1, Zenon DEF TakeWork, power, fences, jobs
    <2> QED  BY <1>0, <2>2, FencesLeftAlone
  <1>14. CASE Unlist
    <2>1. wpc \in {"retire", "cull"} /\ wpc' \in {"retired", "culled"}
            /\ submits # <<>> /\ submits' = Tail(submits) /\ Signalled(Head(submits))
            /\ UNCHANGED <<last, fence, completed, sched, ring, sqe>>
      BY <1>14, Zenon DEF Unlist, FirstIsDone, power, fences
    <2>2. Listed' = Listed /\ Gone' = Gone + 1 /\ Head(submits) = Gone + 1 /\ Bound' = Bound
      BY <1>0, <1>a, <2>1 DEF FencesInv, AsListed, Listed, Gone, Bound
    <2>3. AsListed'
      BY <1>0, <1>a, <2>1, <2>2 DEF FencesInv, AsListed
    <2>4. GoneIsOver'
      <3>1. CASE completed >= Gone + 1
        BY <1>0, <1>a, <2>1, <2>2, <3>1 DEF GoneIsOver
      <3>2. CASE fence >= Gone + 1 /\ AllFrom(ring, fence)
        BY <1>0, <1>a, <2>1, <2>2, <3>2 DEF GoneIsOver, AllFrom
      <3> QED  BY <1>0, <1>a, <2>1, <2>2, <3>1, <3>2 DEF Signalled, FencesInv, FenceKept
    <2> QED  BY <1>0, <2>1, <2>2, <2>3, <2>4 DEF FencesInv, MarkIsOver, FenceKept, FenceBound, Fences
  <1>15. CASE Uncount
    <2>1. UNCHANGED <<last, fence, submits, sched>> /\ completed' = completed /\ wpc' # "read" /\ wpc # "leave"
            /\ ((ring' = ring /\ sqe' = sqe) \/ ring' = <<>> \/ (ring' = ring /\ sqe' = "halt"))
      BY <1>15, Zenon DEF Uncount, HoldDropped, Powered, power, fences
    <2>2. completed' \in Nat /\ completed' >= completed
      BY <1>0, <2>1
    <2> QED  BY <1>0, <2>1, <2>2, FencesLeftAlone
  <1>16. CASE AllRetired
    <2>1. UNCHANGED <<last, fence, submits, sched>> /\ completed' = completed /\ wpc' # "read" /\ wpc # "leave"
            /\ ((ring' = ring /\ sqe' = sqe) \/ ring' = <<>> \/ (ring' = ring /\ sqe' = "halt"))
      BY <1>16, Zenon DEF AllRetired, power, fences, jobs
    <2>2. completed' \in Nat /\ completed' >= completed
      BY <1>0, <2>1
    <2> QED  BY <1>0, <2>1, <2>2, FencesLeftAlone
  <1>17. CASE FaultWork
    <2>1. UNCHANGED <<last, fence, submits, sched>> /\ completed' = completed /\ wpc' # "read" /\ wpc # "leave"
            /\ ((ring' = ring /\ sqe' = sqe) \/ ring' = <<>> \/ (ring' = ring /\ sqe' = "halt"))
      BY <1>17, Zenon DEF FaultWork, power, fences, jobs
    <2>2. completed' \in Nat /\ completed' >= completed
      BY <1>0, <2>1
    <2> QED  BY <1>0, <2>1, <2>2, FencesLeftAlone
  <1>18. CASE NoneToBlame
    <2>1. UNCHANGED <<last, fence, submits, sched>> /\ completed' = Later(completed, fence) /\ wpc' # "read" /\ wpc # "leave"
            /\ ((ring' = ring /\ sqe' = sqe) \/ ring' = <<>> \/ (ring' = ring /\ sqe' = "halt"))
      BY <1>18, Zenon DEF NoneToBlame, Retire, power, jobs
    <2>2. completed' \in Nat /\ completed' >= completed /\ fence <= completed'
      BY <1>0, <2>1 DEF Later
    <2> QED  BY <1>0, <2>1, <2>2, FencesLeftAlone
  <1>19. CASE Blame
    <2>1. UNCHANGED <<last, fence, submits, sched>> /\ completed' = completed /\ wpc' # "read" /\ wpc # "leave"
            /\ ((ring' = ring /\ sqe' = sqe) \/ ring' = <<>> \/ (ring' = ring /\ sqe' = "halt"))
      BY <1>19, Zenon DEF Blame, Powered, fences, jobs
    <2>2. completed' \in Nat /\ completed' >= completed
      BY <1>0, <2>1
    <2> QED  BY <1>0, <2>1, <2>2, FencesLeftAlone
  <1>20. CASE ReadFence
    <2>1. wpc = "accused" /\ wpc' = "read" /\ mark' = fence
            /\ UNCHANGED <<last, fence, completed, submits, sched, ring, sqe>>
      BY <1>20, Zenon DEF ReadFence, power, fences, jobs
    <2>2. Listed' = Listed /\ Gone' = Gone /\ Bound' = Bound
      BY <2>1 DEF Listed, Gone, Bound
    <2> QED  BY <1>0, <1>a, <2>1, <2>2 DEF FencesInv, AsListed, GoneIsOver, MarkIsOver, FenceKept,
               FenceBound, Fences
  <1>21. CASE ClearFence
    <2>1. wpc = "read" /\ wpc' \in {"cull", "leave"} /\ fence' = mark + 1
            /\ completed' = Later(completed, mark + 1) /\ UNCHANGED <<last, submits, sched, ring, sqe>>
      BY <1>21, Zenon DEF ClearFence, power, jobs
    <2>2. Listed' = Listed /\ Gone' = Gone /\ Bound' = Bound
      BY <2>1 DEF Listed, Gone, Bound
    <2>3. completed' \in Nat /\ completed' >= completed /\ completed' >= mark + 1
      BY <1>0, <2>1 DEF Later
    <2> QED  BY <1>0, <1>a, <2>1, <2>2, <2>3 DEF FencesInv, AsListed, GoneIsOver, MarkIsOver, FenceKept,
               FenceBound, Fences
  <1>22. CASE HaltEngine
    <2>1. UNCHANGED <<last, fence, submits, sched>> /\ completed' = completed /\ wpc' # "read" /\ wpc # "leave"
            /\ ((ring' = ring /\ sqe' = sqe) \/ ring' = <<>> \/ (ring' = ring /\ sqe' = "halt"))
      BY <1>22, Zenon DEF HaltEngine, fences, jobs
    <2>2. completed' \in Nat /\ completed' >= completed
      BY <1>0, <2>1
    <2> QED  BY <1>0, <2>1, <2>2, FencesLeftAlone
  <1>23. CASE DropPower
    <2>1. UNCHANGED <<last, fence, submits, sched>> /\ completed' = completed /\ wpc' # "read" /\ wpc # "leave"
            /\ ((ring' = ring /\ sqe' = sqe) \/ ring' = <<>> \/ (ring' = ring /\ sqe' = "halt"))
      BY <1>23, Zenon DEF DropPower, Powered, fences
    <2>2. completed' \in Nat /\ completed' >= completed
      BY <1>0, <2>1
    <2> QED  BY <1>0, <2>1, <2>2, FencesLeftAlone
  <1>24. CASE RaisePower
    <2>1. UNCHANGED <<last, fence, submits, sched>> /\ completed' = completed /\ wpc' # "read" /\ wpc # "leave"
            /\ ((ring' = ring /\ sqe' = sqe) \/ ring' = <<>> \/ (ring' = ring /\ sqe' = "halt"))
      BY <1>24, Zenon DEF RaisePower, Powered, fences
    <2>2. completed' \in Nat /\ completed' >= completed
      BY <1>0, <2>1
    <2> QED  BY <1>0, <2>1, <2>2, FencesLeftAlone
  <1>25. CASE Replay
    <2>1. wpc = "raised" /\ wpc' = "leave" /\ UNCHANGED <<last, completed, submits, sched>>
      BY <1>25, Zenon DEF Replay, jobs
    <2>2. \/ ring' = ring /\ sqe' = sqe /\ fence' = fence
          \/ ring' = submits /\ (fence' = fence \/ fence' = last)
          \/ sqe' = "halt" /\ ring' = ring \o submits /\ fence' = fence
      BY <1>25, <2>1, Zenon DEF Replay, FenceInv, HaltIsReset
    <2>3. Listed' = Listed /\ Gone' = Gone /\ Bound' = Bound /\ Listed = Bound
      BY <1>0, <2>1 DEF Listed, Gone, Bound, Turns, Recovering, Submitting, RingTypeOK
    <2>4. AllFrom(submits, Gone) /\ AllUpTo(submits, Bound) /\ Rising(submits)
      BY <1>0, <1>a, <2>3 DEF FencesInv, AsListed, Gone, AllFrom, AllUpTo, Rising
    <2>5. AllUpTo(ring, Bound) /\ (sqe # "halt" => Rising(ring))
      BY <1>0 DEF FencesInv, Fences
    <2>6. Fences'
      <3>1. CASE ring' = ring /\ sqe' = sqe
        BY <2>3, <2>5, <3>1 DEF Fences
      <3>2. CASE ring' = submits
        BY <2>3, <2>4, <3>2 DEF Fences
      <3>3. CASE sqe' = "halt" /\ ring' = ring \o submits
        BY <1>0, <1>a, <2>3, <2>4, <2>5, <3>3, OfConcat DEF Fences
      <3> QED  BY <2>2, <3>1, <3>2, <3>3
    <2>7. GoneIsOver'
      <3>1. CASE ring' = ring /\ fence' = fence
        BY <1>0, <2>1, <2>3, <3>1 DEF FencesInv, GoneIsOver
      <3>2. CASE ring' = submits /\ (fence' = fence \/ fence' = last)
        BY <1>0, <1>a, <2>1, <2>3, <2>4, <3>2 DEF FencesInv, GoneIsOver
      <3>3. CASE ring' = ring \o submits /\ fence' = fence
        BY <1>0, <1>a, <2>1, <2>3, <2>4, <3>3, OfConcat DEF FencesInv, GoneIsOver
      <3> QED  BY <2>2, <3>1, <3>2, <3>3
    <2>8. AsListed' /\ MarkIsOver' /\ FenceKept' /\ FenceBound'
      BY <1>0, <2>1, <2>2, <2>3 DEF FencesInv, AsListed, MarkIsOver, FenceKept, FenceBound
    <2> QED  BY <2>6, <2>7, <2>8 DEF FencesInv
  <1>26. CASE LeaveRecovery
    <2>1. UNCHANGED <<last, fence, submits, sched>> /\ completed' = Later(completed, fence) /\ wpc' # "read"
            /\ ((ring' = ring /\ sqe' = sqe) \/ ring' = <<>> \/ (ring' = ring /\ sqe' = "halt"))
      BY <1>26, Zenon DEF LeaveRecovery, Retire, Powered, jobs
    <2>2. completed' \in Nat /\ completed' >= completed /\ fence <= completed'
      BY <1>0, <2>1 DEF Later
    <2> QED  BY <1>0, <2>1, <2>2, FencesLeftAlone
  <1>27. CASE Autosuspend
    <2>1. UNCHANGED <<last, fence, submits, sched>> /\ completed' = completed /\ wpc' = wpc /\ mark' = mark
            /\ ((ring' = ring /\ sqe' = sqe) \/ ring' = <<>> \/ (ring' = ring /\ sqe' = "halt"))
      BY <1>27, Zenon DEF Autosuspend, Powered, fences, jobs, worker
    <2>2. completed' \in Nat /\ completed' >= completed
      BY <1>0, <2>1
    <2> QED  BY <1>0, <2>1, <2>2, FencesLeftAlone
  <1>28. CASE Hold
    <2>1. UNCHANGED <<last, fence, submits, sched>> /\ completed' = completed /\ wpc' = wpc /\ mark' = mark
            /\ ((ring' = ring /\ sqe' = sqe) \/ ring' = <<>> \/ (ring' = ring /\ sqe' = "halt"))
      BY <1>28, Zenon DEF Hold, Powered, fences, jobs, worker
    <2>2. completed' \in Nat /\ completed' >= completed
      BY <1>0, <2>1
    <2> QED  BY <1>0, <2>1, <2>2, FencesLeftAlone
  <1>29. CASE Release
    <2>1. UNCHANGED <<last, fence, submits, sched>> /\ completed' = completed /\ wpc' = wpc /\ mark' = mark
            /\ ((ring' = ring /\ sqe' = sqe) \/ ring' = <<>> \/ (ring' = ring /\ sqe' = "halt"))
      BY <1>29, Zenon DEF Release, Powered, fences, jobs, worker
    <2>2. completed' \in Nat /\ completed' >= completed
      BY <1>0, <2>1
    <2> QED  BY <1>0, <2>1, <2>2, FencesLeftAlone
  <1> QED
    BY <1>1, <1>2, <1>3, <1>4, <1>5, <1>6, <1>7, <1>8, <1>9, <1>10, <1>11, <1>12, <1>13, <1>14, <1>15, <1>16, <1>17, <1>18, <1>19, <1>20, <1>21, <1>22, <1>23, <1>24, <1>25, <1>26, <1>27, <1>28, <1>29, Zenon DEF Next, Scheduler, Worker, Device, Rest

LEMMA PutOnlyDrops ==
    ASSUME NEW p, Sound(p), NEW now \in BOOLEAN, NEW q \in Put(p, now)
    PROVE  Sound(q) /\ (q.on => p.on)
  <1>1. CASE p.usage = 0
    BY <1>1 DEF Put
  <1>2. CASE p.usage # 0
    BY <1>2, PutSound
  <1> QED  BY <1>1, <1>2

(* A GPU that gets its power back is asked for hw_init. *)
LEMMA PowerOnAsks ==
    ASSUME PowerInv, NEW q, Powered(q), q.on /\ ~pm.on => q.usage > pm.usage,
           needsInit \/ ~pm.on \/ sqe = "halt"
    PROVE  needsInit' \/ ~pm'.on \/ sqe' = "halt"
  <1>1. pm' = q /\ (needsInit' <=> AskedBy(q)) /\ (q.on => sqe' = sqe)
    BY Zenon DEF Powered
  <1>2. pm.on = pm.active
    BY DEF PowerInv, Sound
  <1>3. CASE q.on /\ ~pm.on
    BY <1>1, <1>2, <1>3, Zenon DEF AskedBy
  <1>4. CASE q.on /\ pm.on
    BY <1>1, <1>4, Zenon DEF AskedBy
  <1> QED  BY <1>1, <1>3, <1>4, Zenon

LEMMA HaltStep ==
    ASSUME PowerInv, FenceInv, Next
    PROVE  HaltIsReset'
  <1>0. HaltIsReset /\ Sound(pm) /\ Turns /\ pm.usage \in Nat
    BY DEF PowerInv, RingTypeOK, FenceInv, Slot
  <1>1. ASSUME wpc' \notin {"halted", "dropped", "raised"}  PROVE HaltIsReset'
    BY <1>1 DEF HaltIsReset
  <1>2. CASE HaltEngine
    <2>1. pm' \in DontUseAutosuspend(pm) /\ wpc = "cull" /\ sqe' = IF pm.on THEN "halt" ELSE sqe
      BY <1>2, Zenon DEF HaltEngine
    <2>2. pm.usage # 0
      BY <1>0, <2>1 DEF PowerInv, RingTypeOK, CountsAgree, Recovering, Submitting, One, Turns
    <2>3. pm'.on = pm.on
      BY <1>0, <2>1, <2>2, DontUseSound
    <2> QED  BY <2>1, <2>3, Zenon DEF HaltIsReset
  <1>3. CASE DropPower
    <2>1. PICK q : Powered(q) /\ wpc = "halted"
                   /\ \E p \in (IF active # 0 THEN Put(pm, FALSE) ELSE {pm}) : q \in Put(p, FALSE)
      BY <1>3, Zenon DEF DropPower
    <2>2. PICK p \in (IF active # 0 THEN Put(pm, FALSE) ELSE {pm}) : q \in Put(p, FALSE)
      BY <2>1
    <2>3. Sound(p) /\ (p.on => pm.on)
      BY <1>0, <2>2, PutOnlyDrops
    <2>4. q.on => pm.on
      BY <2>2, <2>3, PutOnlyDrops
    <2>5. needsInit \/ ~pm.on \/ sqe = "halt"
      BY <1>0, <2>1 DEF HaltIsReset
    <2>6. needsInit' \/ ~pm'.on \/ sqe' = "halt"
      BY <2>1, <2>4, <2>5, PowerOnAsks
    <2> QED  BY <2>6, Zenon DEF HaltIsReset
  <1>4. CASE RaisePower
    <2>1. PICK q : Powered(q) /\ wpc = "dropped"
                   /\ \E p \in (IF saved # 0 THEN GetSync(UseAutosuspend(pm)) ELSE {UseAutosuspend(pm)}) :
                         q \in GetSync(p)
      BY <1>4, Zenon DEF RaisePower
    <2>2. PICK p \in (IF saved # 0 THEN GetSync(UseAutosuspend(pm)) ELSE {UseAutosuspend(pm)}) :
                         q \in GetSync(p)
      BY <2>1
    <2>3. Sound(p) /\ p.usage >= pm.usage
      BY <1>0, <2>2, UseSound, GetSyncSound
    <2>4. q.usage > pm.usage
      <3>1. q.usage = p.usage + 1 /\ p.usage \in Nat
        BY <2>2, <2>3, GetSyncSound DEF Sound, Slot
      <3> QED  BY <1>0, <2>3, <3>1
    <2>5. needsInit \/ ~pm.on \/ sqe = "halt"
      BY <1>0, <2>1 DEF HaltIsReset
    <2>6. needsInit' \/ ~pm'.on \/ sqe' = "halt"
      BY <2>1, <2>4, <2>5, PowerOnAsks
    <2> QED  BY <2>6, Zenon DEF HaltIsReset
  <1>5. ASSUME NEW q, Powered(q), wpc' = wpc, q.on /\ ~pm.on => q.usage > pm.usage
        PROVE  HaltIsReset'
    <2>1. CASE wpc \in {"halted", "dropped", "raised"}
      <3>1. needsInit \/ ~pm.on \/ sqe = "halt"
        BY <1>0, <2>1 DEF HaltIsReset
      <3>2. needsInit' \/ ~pm'.on \/ sqe' = "halt"
        BY <1>5, <3>1, PowerOnAsks
      <3> QED  BY <3>2, Zenon DEF HaltIsReset
    <2> QED  BY <1>1, <1>5, <2>1
  <1>6. CASE Hold
    <2>1. PICK q \in GetSync(pm) \cup {GetIfInUse(pm)} : q.usage > pm.usage /\ Powered(q)
      BY <1>6, Zenon DEF Hold
    <2>2. wpc' = wpc
      BY <1>6, Zenon DEF Hold, worker
    <2> QED  BY <1>5, <2>1, <2>2
  <1>7. CASE Release
    <2>1. PICK q \in Put(pm, FALSE) : Powered(q)
      BY <1>7, Zenon DEF Release
    <2>2. wpc' = wpc
      BY <1>7, Zenon DEF Release, worker
    <2>3. q.on => pm.on
      BY <1>0, <2>1, PutOnlyDrops
    <2> QED  BY <1>5, <2>1, <2>2, <2>3
  <1>8. CASE Autosuspend
    <2>1. PICK q \in SuspendWork(pm) : Powered(q)
      BY <1>8, Zenon DEF Autosuspend
    <2>2. wpc' = wpc
      BY <1>8, Zenon DEF Autosuspend, worker
    <2>3. q.on => pm.on
      BY <1>0, <2>1, SuspendWorkSound
    <2> QED  BY <1>5, <2>1, <2>2, <2>3
  <1>9. CASE Scheduler
    <2>1. CASE InitFence
      BY <1>0, <2>1, Zenon DEF InitFence, HaltIsReset, power, worker
    <2>2. ~Recovering /\ wpc' = wpc => HaltIsReset'
      BY <1>1 DEF Recovering
    <2>3. CASE ListJob
      BY <2>2, <2>3, Zenon DEF ListJob, worker
    <2>4. CASE CountJob \/ KickJob
      <3>1. Submitting /\ wpc' = wpc
        BY <2>4, Zenon DEF CountJob, KickJob, worker, Submitting
      <3> QED  BY <1>0, <2>2, <3>1 DEF Turns
    <2> QED  BY <1>9, <2>1, <2>3, <2>4, Zenon DEF Scheduler
  <1>10. CASE Device \/ Hangcheck
    <2>1. UNCHANGED <<pm, needsInit, sqe, wpc>>
      BY <1>10, Zenon DEF Device, Execute, Hang, CompletionIrq, LoseIrq, HangIrq, GmuFault, SmmuFault,
         Hangcheck, power, worker
    <2> QED  BY <1>0, <2>1 DEF HaltIsReset
  <1>11. CASE TakeWork
    <2>1. wpc' \in {"retire", "recover", "fault"}
      BY <1>11 DEF TakeWork, PowerInv, RingTypeOK
    <2> QED  BY <1>1, <2>1
  <1>12. CASE Unlist \/ Uncount \/ AllRetired \/ FaultWork \/ NoneToBlame \/ Blame \/ ReadFence
                \/ ClearFence \/ Replay \/ LeaveRecovery
    <2>1. wpc' \in {"retired", "culled", "retire", "cull", "idle", "accused", "read", "leave"}
      BY <1>12, Zenon DEF Unlist, Uncount, AllRetired, FaultWork, NoneToBlame, Blame, ReadFence,
         ClearFence, Replay, LeaveRecovery
    <2> QED  BY <1>1, <2>1
  <1> QED
    BY <1>2, <1>3, <1>4, <1>6, <1>7, <1>8, <1>9, <1>10, <1>11, <1>12, Zenon DEF Next, Worker, Rest

LEMMA InitFences == Init => FenceInv
  <1> SUFFICES ASSUME Init PROVE FenceInv
    OBVIOUS
  <1>1. Listed = 0 /\ Gone = 0
    <2>1. sched = "idle" /\ last = 0 /\ submits = <<>>
      BY Zenon DEF Init
    <2>2. Len(submits) = 0
      BY <2>1
    <2>3. Listed = 0
      BY <2>1 DEF Listed
    <2> QED  BY <2>2, <2>3 DEF Gone
  <1>2. AsListed /\ GoneIsOver /\ MarkIsOver /\ FenceKept /\ FenceBound
    BY <1>1 DEF Init, AsListed, GoneIsOver, MarkIsOver, FenceKept, FenceBound
  <1>3. Fences /\ HaltIsReset
    BY OfNothing DEF Init, Fences, HaltIsReset, Bound
  <1> QED  BY <1>2, <1>3 DEF FenceInv, FencesInv

(* No fence is lost: what has left the ring's list is signalled, in completed_fence
   or in a number that nothing in the ring can set back. *)
THEOREM FencesAreKept == Spec => []FenceInv
  <1>1. PowerInv /\ FenceInv /\ [Next]_vars => FenceInv'
    <2>1. ASSUME FenceInv, UNCHANGED vars  PROVE FenceInv'
      <3>1. UNCHANGED <<pm, needsInit, sqe, ring, last, fence, completed, submits, sched, wpc, mark>>
        BY <2>1, Zenon DEF vars, power, fences, jobs, worker
      <3>2. FencesInv'
        BY <2>1, <3>1 DEF FenceInv, FencesInv, AsListed, Listed, Gone, GoneIsOver, MarkIsOver,
           FenceKept, FenceBound, Fences, Bound
      <3>3. HaltIsReset'
        BY <2>1, <3>1 DEF FenceInv, HaltIsReset
      <3> QED  BY <3>2, <3>3 DEF FenceInv
    <2> QED  BY <2>1, FencesStep, HaltStep DEF FenceInv
  <1> QED  BY <1>1, InitFences, PowerIsHeld, PTL DEF Spec

(* A job whose buffers are given back has a signalled fence, for good. *)
THEOREM RetiredStaysSignalled == Spec => []RetiredIsSignalled
  <1>1. PowerInv /\ FenceInv => RetiredIsSignalled
    <2> SUFFICES ASSUME PowerInv, FenceInv, NEW n \in 1..last,
                        n \notin ToSet(submits), ~(sched = "inited" /\ n = last)
                 PROVE  Signalled(n)
      BY DEF RetiredIsSignalled
    <2>0. last \in Nat /\ fence \in Nat /\ completed \in Nat /\ Len(submits) \in Nat
      BY DEF PowerInv, RingTypeOK
    <2>1. n <= Listed /\ Listed \in Nat /\ Gone \in Nat /\ Gone = Listed - Len(submits)
      BY <2>0 DEF Listed, Gone, FenceInv, FencesInv, AsListed
    <2>2. CASE n > Gone
      <3>1. n - Gone \in 1..Len(submits) /\ submits[n - Gone] = n
        BY <2>0, <2>1, <2>2 DEF FenceInv, FencesInv, AsListed
      <3>2. DOMAIN submits = 1..Len(submits)
        BY DEF PowerInv, RingTypeOK
      <3>3. n \in ToSet(submits)
        BY <3>1, <3>2 DEF ToSet
      <3> QED  BY <3>3
    <2>3. CASE n <= Gone
      BY <2>0, <2>1, <2>3 DEF FenceInv, FencesInv, GoneIsOver, Signalled
    <2> QED  BY <2>1, <2>2, <2>3
  <1> QED  BY <1>1, PowerIsHeld, FencesAreKept, PTL

=============================================================================
