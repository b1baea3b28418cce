------------------------------ MODULE RuntimePm ------------------------------
(* Runtime power management as the FreeBSD port of the msm driver has it
   (freebsd/msm_freebsd_power.c): one device's slot, and each call as the set
   of slots it may leave behind.  Every call, the driver's own resume and
   suspend callbacks included, runs under the slot's lock: it is one step.

   `usage`, `enabled`, `active` and `autosuspend` are the slot's; `timer` says
   that suspend_work is scheduled.  A get's cancel_delayed_work does not wait
   for one that has begun: that one finds the count up, and does nothing, or
   down again, and then a put has scheduled it anew.  `on` is what the callbacks
   did to the device.  Time is not kept: whether the autosuspend delay is over
   is a choice wherever the code looks.  The slots (8) outnumber the devices
   (5), so a call always finds one; the delay is never negative.            *)
EXTENDS Naturals

CONSTANT ResumeMayFail      \* whether the device's runtime_resume can fail

ASSUME ResumeMayFailIsBool == ResumeMayFail \in BOOLEAN

Slot == [usage: Nat, enabled: BOOLEAN, active: BOOLEAN, autosuspend: BOOLEAN,
         timer: BOOLEAN, on: BOOLEAN]

(* The device's runtime_resume and runtime_suspend are called only while
   runtime PM is enabled; without it `active` alone changes. *)
Resume(p) ==
    IF p.active THEN {p}
    ELSE {[p EXCEPT !.active = TRUE, !.on = p.on \/ p.enabled]}
         \cup {q \in {p} : ResumeMayFail /\ p.enabled}

(* a6xx_gmu_pm_suspend always succeeds. *)
Suspend(p) ==
    IF p.active THEN [p EXCEPT !.active = FALSE, !.on = p.on /\ ~p.enabled] ELSE p

Idle(p, now) ==
    IF now \/ ~p.autosuspend \/ ~p.active THEN {Suspend(p)}
    ELSE {Suspend(p), [p EXCEPT !.timer = TRUE]}

GetSync(p) == Resume([p EXCEPT !.timer = FALSE, !.usage = @ + 1])

Put(p, now) ==
    IF p.usage = 0 THEN {p}
    ELSE LET q == [p EXCEPT !.usage = @ - 1]
         IN IF q.usage = 0 THEN Idle(q, now) ELSE {q}

GetIfInUse(p) ==
    IF p.active /\ p.usage > 0 THEN [p EXCEPT !.usage = @ + 1] ELSE p

DontUseAutosuspend(p) ==
    LET q == [p EXCEPT !.autosuspend = FALSE, !.timer = FALSE]
    IN IF q.usage = 0 THEN Idle(q, TRUE) ELSE {q}

UseAutosuspend(p) == [p EXCEPT !.autosuspend = TRUE]

(* suspend_work: a get may have come in, or the deadline have moved. *)
SuspendWork(p) ==
    LET q == [p EXCEPT !.timer = FALSE]
    IN IF q.usage = 0 THEN Idle(q, FALSE) ELSE {q}
=============================================================================
