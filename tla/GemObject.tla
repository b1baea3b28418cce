----------------------------- MODULE GemObject -----------------------------
(* The GPU's buffers: what backs and maps them, who pins them, and the shrinker
   that takes the backing away.

   drivers/gpu/drm/msm: msm_gem.c, msm_gem_vma.c, msm_gem_shrinker.c,
   msm_gem_prime.c, msm_gem_submit.c, and of msm_ringbuffer.c and msm_gpu.c what
   a job does to its buffers.  Each object is a record, and each function of the
   code that changes one is an operator from records to records.  All of it
   happens under the object's lock but for msm_job_run's unpinning, which has
   the LRUs' lock only: so the steps are those of the two that hold an object's
   lock for long, the submit ioctl and the shrinker, with the unpinning between.
   Any job pushed may run, and any running one finish: the order is not used.

   External: the DRM core (handles, dma-buf, mmap, drm_gem_lru_scan, drm_exec).
   An allocation with GFP_KERNEL, the sg_table's too, waits on FreeBSD and does
   not fail; pages, iovas, page tables and kernel mappings may.               *)
EXTENDS Integers, FiniteSets

CONSTANTS
    Objs,           \* GEM objects
    Jobs,           \* submits
    Spaces,         \* address spaces (struct msm_gem_address_space)
    Takes,          \* bound: the objects each submit takes
    Imports,        \* bound: those that may be imports
    Shared,         \* bound: those that programs map and share
    MaxShares       \* bound: mmaps, attachments and vmaps of an object

ASSUME GemConstants ==
    /\ IsFiniteSet(Jobs) /\ "none" \notin Objs /\ "none" \notin Spaces
    /\ Takes \in [Jobs -> SUBSET Objs]
    /\ Imports \subseteq Objs /\ Shared \subseteq Objs
    /\ MaxShares \in Nat

VARIABLES
    bo,             \* the objects
    job,            \* the submits
    scan,           \* the shrinker's scan
    torn            \* history: <<j, o>> whose iova was cleared under the job

vars == <<bo, job, scan, torn>>

(* No object: nothing is left of it. *)
Gone == [refs |-> 0, handle |-> FALSE, imported |-> FALSE, mmap |-> "none",
         attached |-> 0, vmaps |-> 0, vaddr |-> FALSE, pages |-> FALSE,
         madv |-> "willneed", pins |-> 0, lru |-> "none",
         vma |-> [s \in Spaces |-> "none"]]

(* msm_gem_new_handle and msm_gem_import: the handle's is the one reference. *)
New == [Gone EXCEPT !.refs = 1, !.handle = TRUE, !.lru = "unbacked"]
Imported == [New EXCEPT !.imported = TRUE, !.pages = TRUE, !.lru = "pinned"]

NoJob == [pc |-> "none", bos |-> {}, space |-> "none"]
NoScan == [pc |-> "idle", obj |-> "none", from |-> "none"]

Init ==
    /\ bo = [o \in Objs |-> Gone]
    /\ job = [j \in Jobs |-> NoJob]
    /\ scan = NoScan
    /\ torn = {}

-----------------------------------------------------------------------------
(* What the code does to an object. *)

(* update_lru_locked, update_lru_active *)
Home(b) ==
    IF ~b.pages THEN "unbacked"
    ELSE IF b.pins > 0 THEN "pinned" ELSE b.madv

UpdateLru(b) == [b EXCEPT !.lru = Home(b)]

(* get_pages, when it succeeds. *)
Backed(b) == IF b.pages THEN b ELSE UpdateLru([b EXCEPT !.pages = TRUE])

(* msm_gem_pin_obj_locked; msm_gem_unpin_locked and msm_gem_unpin_active *)
Pinned(b) == [b EXCEPT !.pins = @ + 1, !.lru = "pinned"]

(* Mutant: the LRU is left as it is. *)
UnpinnedInPlace(b) == [b EXCEPT !.pins = @ - 1]

Unpinned(b) == UpdateLru([b EXCEPT !.pins = @ - 1])

(* get_vma_locked, when it succeeds. *)
Opened(b, s) == [b EXCEPT !.vma[s] = IF @ = "none" THEN "open" ELSE @]

(* msm_gem_pin_vma_locked on the vma: the object it leaves when it succeeds ... *)
Mapped(b, s) == [Backed(Opened(b, s)) EXCEPT !.vma[s] = "mapped"]

(* ... which takes madv WILLNEED, and those it may leave when it fails: for want
   of an iova, of the madv or of pages, or in the page tables. *)
MapFailures(b, s) ==
    IF b.madv = "willneed"
    THEN IF b.vma[s] = "mapped" THEN {} ELSE {b, Opened(b, s), Backed(Opened(b, s))}
    ELSE {b, Opened(b, s)}

(* put_iova_spaces *)
Unmapped(b, close) ==
    [b EXCEPT !.vma = [s \in Spaces |->
        IF close THEN "none" ELSE IF @[s] = "mapped" THEN "open" ELSE @[s]]]

(* drm_vma_node_unmap: the CPU's mappings lose the pages, not the mapping. *)
Untouched(b) == [b EXCEPT !.mmap = IF @ = "touched" THEN "open" ELSE @]

(* put_pages *)
Unbacked(b) == IF b.pages THEN UpdateLru([b EXCEPT !.pages = FALSE]) ELSE b

(* msm_gem_purge (msm_gem_vunmap in it), msm_gem_evict *)
Purged(b) ==
    [Unbacked(Untouched([Unmapped(b, TRUE) EXCEPT !.vaddr = FALSE]))
        EXCEPT !.madv = "purged"]

(* Mutant: the programs' mappings are forgotten. *)
EvictedOnly(b) == Unbacked(Unmapped(b, FALSE))

Evicted(b) == Unbacked(Untouched(Unmapped(b, FALSE)))

(* drm_gem_object_get and _put; the last put is msm_gem_free_object. *)
Got(b) == [b EXCEPT !.refs = @ + 1]
Put(b) == IF b.refs = 1 THEN Gone ELSE [b EXCEPT !.refs = @ - 1]

(* A function of the code over a submit's objects. *)
Each(F(_), S) == [o \in Objs |-> IF o \in S THEN F(bo[o]) ELSE bo[o]]

-----------------------------------------------------------------------------
(* Locks, and what is in use. *)

(* Between submit_lock_objects and submit_cleanup. *)
Held(j) == job[j].pc \in {"locked", "mapped", "botched", "pinned", "doomed"}

(* Mutant: the shrinker does not keep the lock it tried. *)
LockedBySubmit(o) == \E j \in Jobs : Held(j) /\ o \in job[j].bos

Locked(o) ==
    \/ \E j \in Jobs : Held(j) /\ o \in job[j].bos
    \/ scan.pc = "sure" /\ scan.obj = o

(* The job's fence is attached and not signalled. *)
InFlight(j) == job[j].pc \in {"pushed", "running"}

(* Mutant: the fences are not asked. *)
PinnedNow(o) == bo[o].pins > 0

(* msm_gem_active *)
Active(o) == bo[o].pins > 0 \/ \E j \in Jobs : InFlight(j) /\ o \in job[j].bos

(* is_purgeable, is_unevictable *)
Purgeable(b) == b.madv = "dontneed" /\ b.pages /\ ~b.imported /\ b.pins = 0
Unevictable(b) == b.imported \/ b.pins > 0 \/ b.vaddr

One(b) == IF b THEN 1 ELSE 0

Shares(o) == bo[o].attached + bo[o].vmaps + One(bo[o].mmap # "none")

Becomes(o, b) == bo' = [bo EXCEPT ![o] = b]

-----------------------------------------------------------------------------
(* Ioctls, faults and the dma-buf calls on one object. *)

Create(o) ==
    /\ bo[o].refs = 0
    /\ \E b \in IF o \in Imports THEN {New, Imported} ELSE {New} : Becomes(o, b)
    /\ UNCHANGED <<job, scan, torn>>

CloseHandle(o) ==
    /\ bo[o].handle
    /\ Becomes(o, Put([bo[o] EXCEPT !.handle = FALSE]))
    /\ UNCHANGED <<job, scan, torn>>

Mmap(o) ==
    /\ o \in Shared /\ bo[o].handle /\ bo[o].mmap = "none" /\ Shares(o) < MaxShares
    /\ Becomes(o, Got([bo[o] EXCEPT !.mmap = "open"]))
    /\ UNCHANGED <<job, scan, torn>>

Munmap(o) ==
    /\ bo[o].mmap # "none"
    /\ Becomes(o, Put([bo[o] EXCEPT !.mmap = "none"]))
    /\ UNCHANGED <<job, scan, torn>>

(* msm_gem_fault, when there are pages to be had. *)
Fault(o) ==
    /\ bo[o].mmap # "none" /\ ~Locked(o)
    /\ bo[o].madv = "willneed"
    /\ Becomes(o, [Backed(bo[o]) EXCEPT !.mmap = "touched"])
    /\ UNCHANGED <<job, scan, torn>>

Madvise(o, madv) ==
    /\ bo[o].handle /\ ~Locked(o)
    /\ Becomes(o, UpdateLru([bo[o] EXCEPT !.madv = IF @ = "purged" THEN @ ELSE madv]))
    /\ UNCHANGED <<job, scan, torn>>

(* msm_gem_get_iova, and msm_gem_set_iova of an object that has none. *)
GetIova(o, s) ==
    /\ bo[o].handle /\ ~Locked(o)
    /\ Becomes(o, Opened(bo[o], s))
    /\ UNCHANGED <<job, scan, torn>>

(* msm_gem_set_iova: to zero, or to another address than the one it has. *)
ClearIova(o, s) ==
    /\ bo[o].handle /\ ~Locked(o)
    /\ Becomes(o, [bo[o] EXCEPT !.vma[s] = "none"])
    /\ torn' = torn \cup {<<j, o>> : j \in {i \in Jobs : InFlight(i) /\ o \in job[i].bos
                                                         /\ job[i].space = s}}
    /\ UNCHANGED <<job, scan>>

(* msm_gem_prime_pin, msm_gem_prime_unpin, for a dma-buf attached. *)
Attach(o) ==
    /\ o \in Shared /\ bo[o].handle /\ ~bo[o].imported
    /\ ~Locked(o) /\ Shares(o) < MaxShares
    /\ bo[o].madv = "willneed"
    /\ Becomes(o, Got([Pinned(Backed(bo[o])) EXCEPT !.attached = @ + 1]))
    /\ UNCHANGED <<job, scan, torn>>

Detach(o) ==
    /\ bo[o].attached > 0 /\ ~Locked(o)
    /\ Becomes(o, Put([Unpinned(bo[o]) EXCEPT !.attached = @ - 1]))
    /\ UNCHANGED <<job, scan, torn>>

(* get_vaddr: if vmap fails the pin is undone, and the pages stay. *)
Vmap(o) ==
    /\ o \in Shared /\ bo[o].handle /\ ~bo[o].imported
    /\ ~Locked(o) /\ Shares(o) < MaxShares
    /\ bo[o].madv = "willneed"
    /\ \/ Becomes(o, Got([Pinned(Backed(bo[o])) EXCEPT !.vmaps = @ + 1, !.vaddr = TRUE]))
       \/ ~bo[o].vaddr /\ Becomes(o, Unpinned(Pinned(Backed(bo[o]))))
    /\ UNCHANGED <<job, scan, torn>>

(* msm_gem_put_vaddr_locked: the mapping itself is kept. *)
Vunmap(o) ==
    /\ bo[o].vmaps > 0 /\ ~Locked(o)
    /\ Becomes(o, Put([Unpinned(bo[o]) EXCEPT !.vmaps = @ - 1]))
    /\ UNCHANGED <<job, scan, torn>>

-----------------------------------------------------------------------------
(* msm_ioctl_gem_submit. *)

Goes(j, pc) == job' = [job EXCEPT ![j].pc = pc]

(* submit_lookup_objects, and submit_lookup_cmds. *)
Lookup(j) ==
    /\ job[j].pc = "none"
    /\ \A o \in Takes[j] : bo[o].handle
    /\ bo' = Each(Got, Takes[j])
    /\ \E s \in Spaces :
          job' = [job EXCEPT ![j] = [pc |-> "found", bos |-> Takes[j], space |-> s]]
    /\ UNCHANGED <<scan, torn>>

(* submit_lock_objects: all, or none and it starts over. *)
Lock(j) ==
    /\ job[j].pc = "found"
    /\ \A o \in job[j].bos : ~Locked(o)
    /\ Goes(j, "locked")
    /\ UNCHANGED <<bo, scan, torn>>

(* submit_pin_objects' first loop, to its end ... *)
MapAll(j) ==
    /\ job[j].pc = "locked"
    /\ \A o \in job[j].bos : bo[o].madv = "willneed"
    /\ bo' = Each(LAMBDA b : Mapped(b, job[j].space), job[j].bos)
    /\ Goes(j, "mapped")
    /\ UNCHANGED <<scan, torn>>

(* ... or to the object f that fails. *)
MapSome(j) ==
    /\ job[j].pc = "locked"
    /\ \E f \in job[j].bos : \E S \in SUBSET (job[j].bos \ {f}) :
          /\ \A o \in S : bo[o].madv = "willneed"
          /\ \E b \in MapFailures(bo[f], job[j].space) :
                bo' = [Each(LAMBDA x : Mapped(x, job[j].space), S) EXCEPT ![f] = b]
    /\ Goes(j, "botched")
    /\ UNCHANGED <<scan, torn>>

(* Its second loop counts every object's pin, whether the first got there or not. *)
PinAll(j) ==
    /\ job[j].pc \in {"mapped", "botched"}
    /\ bo' = Each(Pinned, job[j].bos)
    /\ Goes(j, IF job[j].pc = "mapped" THEN "pinned" ELSE "doomed")
    /\ UNCHANGED <<scan, torn>>

(* submit_attach_object_fences, drm_sched_entity_push_job, and the locks go. *)
Push(j) ==
    /\ job[j].pc = "pinned"
    /\ Goes(j, "pushed")
    /\ UNCHANGED <<bo, scan, torn>>

(* Mutant: bos_pinned is set by a submit_pin_objects that succeeded. *)
UnpinnedIfAll(j, b) == IF job[j].pc = "pinned" THEN Unpinned(b) ELSE b

(* submit_unpin_objects, if bos_pinned. *)
UnpinnedIfAny(j, b) == IF job[j].pc \in {"pinned", "doomed"} THEN Unpinned(b) ELSE b

(* submit_cleanup of an error, at any step. *)
Fail(j) ==
    /\ job[j].pc \in {"found", "locked", "pinned", "doomed"}
    /\ bo' = Each(LAMBDA b : Put(UnpinnedIfAny(j, b)), job[j].bos)
    /\ job' = [job EXCEPT ![j] = NoJob]
    /\ UNCHANGED <<scan, torn>>

-----------------------------------------------------------------------------
(* The job, once the scheduler has it. *)

(* msm_job_run, with the LRUs' lock and no object's. *)
Run(j) ==
    /\ job[j].pc = "pushed"
    /\ bo' = Each(Unpinned, job[j].bos)
    /\ Goes(j, "running")
    /\ UNCHANGED <<scan, torn>>

(* retire_submits: the fence is found signalled ... *)
Finish(j) ==
    /\ job[j].pc = "running"
    /\ Goes(j, "finished")
    /\ UNCHANGED <<bo, scan, torn>>

(* ... and msm_submit_retire lets the objects go. *)
RetireSubmit(j) ==
    /\ job[j].pc = "finished"
    /\ bo' = Each(Put, job[j].bos)
    /\ job' = [job EXCEPT ![j] = NoJob]
    /\ torn' = {t \in torn : t[1] # j}
    /\ UNCHANGED scan

-----------------------------------------------------------------------------
(* msm_gem_shrinker_scan: an object at a time, out of its LRU for the while. *)

Pick(o) ==
    /\ scan.pc = "idle"
    /\ bo[o].lru \in {"willneed", "dontneed"}
    /\ scan' = [pc |-> "picked", obj |-> o, from |-> bo[o].lru]
    /\ Becomes(o, Got([bo[o] EXCEPT !.lru = "scan"]))
    /\ UNCHANGED <<job, torn>>

(* The lock is only tried for; purge and evict then ask, with or without a wait
   for the fences. *)
MakeSure ==
    /\ scan.pc = "picked" /\ ~Locked(scan.obj)
    /\ IF scan.from = "dontneed" THEN Purgeable(bo[scan.obj]) ELSE ~Unevictable(bo[scan.obj])
    /\ ~Active(scan.obj)
    /\ scan' = [scan EXCEPT !.pc = "sure"]
    /\ UNCHANGED <<bo, job, torn>>

(* The object goes back to its LRU unless it was put into one since. *)
Back(b) == IF b.lru = "scan" THEN [b EXCEPT !.lru = scan.from] ELSE b

(* Somebody else has the lock, or the object is not to be had. *)
GiveUp ==
    /\ scan.pc = "picked"
    /\ Becomes(scan.obj, Put(Back(bo[scan.obj])))
    /\ scan' = NoScan
    /\ UNCHANGED <<job, torn>>

Shrink ==
    /\ scan.pc = "sure"
    /\ LET b == bo[scan.obj]
       IN Becomes(scan.obj,
                  Put(Back(IF scan.from = "dontneed" THEN Purged(b) ELSE Evicted(b))))
    /\ scan' = NoScan
    /\ UNCHANGED <<job, torn>>

Object(o) ==
    \/ Create(o) \/ CloseHandle(o) \/ Mmap(o) \/ Munmap(o) \/ Fault(o)
    \/ \E madv \in {"willneed", "dontneed"} : Madvise(o, madv)
    \/ \E s \in Spaces : GetIova(o, s) \/ ClearIova(o, s)
    \/ Attach(o) \/ Detach(o) \/ Vmap(o) \/ Vunmap(o)
Submit(j) ==
    Lookup(j) \/ Lock(j) \/ MapAll(j) \/ MapSome(j) \/ PinAll(j) \/ Push(j) \/ Fail(j)
Job(j) == Run(j) \/ Finish(j) \/ RetireSubmit(j)
Shrinker == (\E o \in Objs : Pick(o)) \/ MakeSure \/ GiveUp \/ Shrink

Next == (\E o \in Objs : Object(o)) \/ (\E j \in Jobs : Submit(j) \/ Job(j)) \/ Shrinker

Spec == Init /\ [][Next]_vars

-----------------------------------------------------------------------------
(* Properties. *)

Users(o, states) == {j \in Jobs : o \in job[j].bos /\ job[j].pc \in states}

(* The pin count is that of the submits pinning the object, its attachments and
   its vmaps, however a submit ends: pushed and run, or failed before, between or
   after submit_pin_objects' two loops.  Its references are those of its holders,
   so it is freed when the last of them is gone, and not before. *)
HoldersAreCounted ==
    \A o \in Objs :
        /\ bo[o].pins = Cardinality(Users(o, {"pinned", "doomed", "pushed"}))
                          + bo[o].attached + bo[o].vmaps
        /\ bo[o].refs = Cardinality({j \in Jobs : o \in job[j].bos})
                          + Shares(o) + One(bo[o].handle) + One(scan.obj = o)

(* From the time a submit has its pins to the time its fence is signalled, each
   of its objects has its pages, mapped in the submit's address space, though
   msm_job_run gives the pins back as it starts (msm_gem_unpin_active) and the
   shrinker looks on: only the program's own SET_IOVA takes a mapping away. *)
InFlightIsMapped ==
    \A j \in Jobs : job[j].pc \in {"pinned", "pushed", "running"} =>
        \A o \in job[j].bos :
            /\ bo[o].pages
            /\ bo[o].vma[job[j].space] = "mapped" \/ <<j, o>> \in torn

(* An object is in the LRU of its state (msm_drv.h's account of them), so the
   shrinker finds what it may take and leaves the rest.  Three are not: one in
   the shrinker's hands, an import not yet used (among the pinned), and one
   whose submit has failed and holds it still (pinned, without pages). *)
LruTellsTheState ==
    \A o \in Objs :
        \/ bo[o].refs = 0 /\ bo[o].lru = "none"
        \/ bo[o].refs > 0 /\ bo[o].lru = Home(bo[o])
        \/ bo[o].lru = "scan" /\ scan.obj = o /\ scan.from = Home(bo[o])
        \/ bo[o].imported /\ bo[o].lru = "pinned"
        \/ bo[o].lru = "pinned" /\ Users(o, {"doomed"}) # {}

(* Whatever maps an object - the GPU, the kernel, a program - maps pages it still
   has; a purged one has none, and an import never loses its own. *)
NothingMapsTheGone ==
    \A o \in Objs :
        /\ bo[o].vaddr \/ bo[o].mmap = "touched" \/ (\E s \in Spaces : bo[o].vma[s] = "mapped")
              => bo[o].pages
        /\ bo[o].madv = "purged" => ~bo[o].pages
        /\ bo[o].imported => bo[o].pages

(* What a program has said it needs is not thrown away: madvise(WILLNEED) tells
   whether the contents were retained, and a purge under way cannot make a liar
   of it. *)
RetainedIsKept ==
    [][\A o \in Objs : bo[o].madv = "willneed" => bo'[o].madv # "purged"]_vars
=============================================================================
