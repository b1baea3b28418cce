# AbyssBSD: a verification project

AbyssBSD's desktop (`src/desktop/de`) is a Rust rewrite of a session: a
compositor, a supervisor, two root daemons and a few dozen clients, each a
single-threaded poll loop, talking over sockets. Most of what can go wrong in it
is in the gaps between those loops: an exit heard late, a word read by the wrong
question, a process that dies between two steps. Under it is a GPU driver in C
(`src/kmod/drm-msm`), Linux's with a port around it, where threads, interrupts
and timers share state under several locks: a submission counted late, power
given up once too often, a buffer taken while the GPU reads it. This project
models those gaps in TLA+, checks them with TLC on small instances and proves the
safety results with TLAPS for every value of the constants.

Source paths below are relative to `src/desktop/de/` and, of the driver, to
`src/kmod/drm-msm/drivers/gpu/drm/msm/` (the port's own, `freebsd/...`, to
`src/kmod/drm-msm/`); the map from every definition to the lines it models is in
`PROJECT.json`.

## 1. What there is to model

The one story that runs through most of the desktop is **the locked session**,
and the first half of this project follows it from the root daemon down to the glass:

    abyss-loginwindow  --"sleep" / "lock"-->  abyss-idle  --lock, status-->  anchor
      (root, one to a machine)                 (one to a session)             |
      LoginDaemon, LoginSessions               SessionChain                   | spawns, reads
                                                                              v  its pipe
                   undertow  <--ext-session-lock--  the lock screen (Aqua's lock scene)
                   (the compositor)
                   SessionLock, LockDisplays, LockSeat

The other half is **a job's way through the GPU**, from the ioctl to the fence:

    SUBMIT ioctl --pins, fences--> drm_sched --msm_job_run--> the ring --> hardware
      GemObject                                GpuRing                      |
        ^  the shrinker takes                    ^  retire, recover, fault  | irq, timer
        |  what is idle                          |  (gpu->worker)  <--------+
        buffers                                RuntimePm: who holds the power
                                               GmuMailbox: how it is switched on and off

| Component | Its state | Its operations | What is hard about it |
|---|---|---|---|
| **anchor** (`anchor/src/supervisor.rs`, `policy.rs`), the session's supervisor | the compositor's child, the components' and their failure streaks, the lock screen's child, pipe, outcome and crashes, the exit code | bring-up in dependency order, one batch of `poll` at a time, restart or give up, `lock`/`status`/`quit`, teardown | exits are in any order within a batch; it waits for sockets *inside* the loop; five places end the session |
| **undertow's session lock** (`undertow/src/session_lock.rs`) | who holds the lock, whether the session is locked, the lock surfaces, the `locked` it still owes | a lock asked for, refused, granted, drawn, told, unlocked, abandoned | the holder dies at any point; a second client asks at any point; outputs go with their surfaces |
| **undertow's displays** (`metronome.rs`, `backend.rs`, `display_sleep.rs`, `undertowbin`) | what each output last drew and shows, whether the displays sleep | a pass of the loop: which outputs are due, commits the driver takes or refuses, flips | a frame drawn is not a frame shown |
| **undertow's seat** (`seat.rs`, `compositor.rs`, `grab.rs`, `tide.rs`) | what has the keys and the pointer; grabs, drags, Ebb, layer keyboards | every input event, every map and unmap | clients go on doing what they like behind the lock |
| **the lock screen** (`aqua/src/lock_screen.rs`, `surface/src/lock.rs`, `aquademo`) | where it is with its lock | ask, hear `locked`, unlock on the authenticator's yes, one last word | it may die, or its connection fail, between any two of them; an unlock sent is not an unlock heard |
| **abyss-idle** (`idlebin/src/main.rs`) | what it is confirming, its watch connection | lock and confirm, answer the root daemon | it believes anchor, who believes a pipe |
| **abyss-loginwindow** (`login/src/service.rs`, `sessions.rs`) | the watchers, the sessions with their VTs, which is in front, the login window's deaths | login, resume, switch-user, sleep, power; a session's or the window's exit | one thread waits up to 8 s for other processes' answers; connections hang up unnoticed |
| **abyss-jaild** (`jaild/src`) | the jails alive, their roots' mounts, the files granted into them | open, spawn, grant, revoke, reap; a sweep on start | its state outlives it in the kernel's mount table |
| **the GPU's ring** (`msm_gpu.c`, `msm_ringbuffer.c`, `msm_fence.c`, `adreno/a6xx_gpu.c`) | the submits listed and counted, three copies of the fence, the hangcheck's memory, the worker's queue | run a job, retire, hangcheck, recover, a fault | five parties; recovery rewrites the fence, the counts and the power while jobs come in and complete |
| **runtime PM** (`freebsd/msm_freebsd_power.c`) | a usage count, what is active, an autosuspend work | get, put, and the suspend they schedule | a put too many cuts the power under a job; a resume fails and nobody asks |
| **the GMU's mailbox** (`adreno/a6xx_hfi.c`, `a6xx_gmu.c`) | two queues in shared memory, sequence numbers, a register of interrupts, whether the GMU is known to hang | boot, the frequency vote, out-of-band requests, slumber, force-off | a microcontroller that answers late, wrongly or not at all; what one boot leaves the next one finds |
| **buffers** (`msm_gem*.c`) | pages, mappings, pins, references, the LRU of each | create, map, pin, fault, madvise, export; submit in its steps; the shrinker's scan | a submit fails at any step; pins go before the job is done; the shrinker takes what others still know |

The rest of the repository, and why it is not modelled, is listed component by
component in `PROJECT.json`: the toolkit and its applications (sequential view
code, golden images), parsers, codecs, configuration, one-shot programs, C
shims, scripts, and of the driver what is not built (its display half, the other
GPUs), preemption, which one ring does without, or registers. Of these the metronome's arithmetic,
the failed-password limiter, the agents' budget, the D-Bus bridge and the jail
keeper are in the plan (section 7).

What makes each part correct, in a sentence: anchor loses no exit, blames nobody
for the compositor's, and leaves nothing behind; the lock has one holder and
survives it; nothing of the desktop is shown, typed at or pointed at behind it;
"locked" is said of a locked session; the login window and the VTs are where the
daemon thinks they are, and the daemon comes back from every question it asks.
In the driver: every job's fence signals, and stays so; the power is held just as
long as somebody holds it; and no buffer loses its pages or its mapping to anyone
while a job uses it, nor keeps a pin or a reference of a submit that failed; and the
GPU that is taken to be up has a GMU that was told all it must know, since it booted.

## 2. The modules

| Module | Of the source | Builds on |
|---|---|---|
| `LockKeeper` | what anchor does about the lock screen and nothing else: the abstract specification of that part | |
| `Supervisor` | the whole of anchor | implements `LockKeeper` (`KeepsTheLock`) |
| `LockProtocol` | what ext-session-lock-v1 promises: the abstract specification of the lock | |
| `SessionLock` | undertow's `session_lock.rs` | implements `LockProtocol` (`KeepsTheProtocol`) |
| `LockDisplays` | `SessionLock` with the loop's passes, commits, flips, sleep | EXTENDS `SessionLock` |
| `LockSeat` | `SessionLock` with the keys and the pointer | EXTENDS `SessionLock` |
| `SessionChain` | abyss-idle, anchor's keeper, the lock screen and the compositor together | INSTANCEs `LockKeeper` and `LockProtocol` |
| `LoginSessions` | `sessions.rs`: the session manager's operations | |
| `LoginDaemon` | `service.rs`'s loop, the agents, the people | EXTENDS `LoginSessions` |
| `JailDaemon` | abyss-jaild: a jail's root, its grants, the daemon's deaths and starts | |
| `RuntimePm` | the port's runtime PM: each call as the set of slots it may leave | |
| `GpuRing` | jobs, fences, hang detection and recovery of the one ring, on its power | EXTENDS `RuntimePm` |
| `GmuMailbox` | the driver's talk with the GMU: what `GpuRing`'s resume and suspend are inside | |
| `GemObject` | the buffers under ioctls, submits and the shrinker | |
| `LockProofs` | theorems and proofs about the compositor's lock, its displays and its seat | EXTENDS `LockDisplays`, `LockSeat`, TLAPS |
| `*Proofs` | theorems and proofs about the module they are named for | EXTENDS it, TLAPS |
| `MC*` | the instances TLC checks | EXTENDS it |

`SessionChain` composes the two *abstract* specifications, not the two detailed
ones: `Supervisor` and `SessionLock` are shown (by TLC and by proof) to implement
them, so what holds of the chain holds of the programs as far as the chain looks
at them. The chain would be out of reach with both details in it.

### How state and actions correspond to the code

Every program here is one thread around `poll`, and the models keep that: `pc`
(or `phase`) is where the thread is, `batch` is what the last `poll` reported and
is not handled yet, and a handler, with everything it calls, is one action. What
interleaves is the other processes, which die, connect, answer and hang up
between any two actions, also between `poll` and the handler it led to. A wait
inside a handler (anchor's `wait_for_socket`, the daemon's `lock_every_session`)
is a value of `pc` of its own, because the world goes on meanwhile.

* **Supervisor.** `batch` is drained in the order `run_loop` adds owners to the
  poll set. `start()` is three actions: `SocketAccepts` for each socket it needs,
  `Spawned`, `StartFails`; in bring-up it goes on to the next component, in the
  loop back to the batch. `ReapAll` is teardown. `clock[i]` is what anchor's clock
  will say of a component's run, `life[i]` how long it really ran: the
  difference is the time anchor spent not looking. `compositor`, `child[i]`,
  `firstRun` are a `Child`'s three states: none or reaped, running, exited and
  not reaped. The compositor is always one of the session's own children, so
  the loop always has somebody to watch.
* **LockKeeper.** `keeper` is anchor's five fields about the lock screen;
  `screen` the process, with the words it has printed and anchor has not read.
  `Crashed(k, kept)` is the sliding window: of the earlier crashes any number may
  still be within the minute.
* **SessionLock.** One action per listener. `surfaces` is `LockState.surfaces` by
  output and `drew` those with a buffer. wlroots is external: that an unlock
  before `locked` is a protocol error that kills the client, and that a lock's
  surfaces go with it, are its part.
* **LockDisplays.** `Serve(due, taken)` is one pass of `serve_next`: the outputs
  whose plans are due, and those of them whose commit the driver took. `drawn`
  is the last commit taken, `shown` what the glass has; `Flip` carries one to the
  other. `EndFrame` says the `locked` that is owed.
* **LockSeat.** `kbd` and `ptr` name what has the keys and the pointer: an output
  stands for its lock surface, `Desk` for anything of the desktop, `Stale` for a
  lock surface whose output went and whose client has not closed it. Two rules
  are wlroots': with a popup's grab on, entering and clearing do nothing, and
  entering needs a keyboard.
* **SessionChain.** `phase` is how far the lock screen's run is: started, asked, `open`
  (it heard `locked`), unlocking (the authenticator said yes, whatever was heard), finished
  (it said its last word). `link` is its connection, which may fail at any point, and
  `unheard` an unlock sent and not read by the compositor: `unlock` waits for its roundtrip
  before the word is said, and one before `locked` is a protocol error, for which the
  client is cut off and its lock abandoned. `idle` is abyss-idle's loop in
  `lock_and_confirm`. A dead lock screen's hang-up reaches the compositor before
  its successor's request: the successor is spawned after the exit was reaped
  and connects later. There is no other lock client, so `finished` never comes; the
  client would take it as it takes a connection that failed.
* **LoginSessions / LoginDaemon.** A manager is a record; an operation is the set
  of managers it may leave, since every spawn may fail and operations call each
  other. `watch[u]` is the daemon's end of an agent's connection: `hung` is one
  that has hung up and was not read. `inbox` and `answers` are the two directions
  of it. `lock_every_session` is `Ask`, then `TakeAnswer`, `HungUpInstead` or
  `TooLate` until `Sleeps` or `Switches`. The 8 s deadline may come any time.
  `end_greeter`, which waits up to 7 s for the window's exit, is atomic: nothing
  it waits for can fail. The order of two users' exits within a batch is left
  open (the code goes by name); the login window's comes first, as in
  `child_fds`. `lockedFor` is a history variable for `SwitchLocksFirst` alone.

* **JailDaemon.** Here the hard part is not who interleaves but what survives: `live`
  to `pending` are the daemon's and `Crash` loses them; `jail`, `root` and `mounted` are
  the kernel's. So a handler is cut where dying in the middle leaves something
  different: `OpenBuilds` / `OpenCreates`, `GrantMounts` / `GrantRecorded`, and `Teardown`
  by itself. The mounts of a root are one value (`part`: some of them); those of
  granted files are kept in the order they were made, since `umount` takes the last one at
  a point and opening a placeholder writes through it. `At(g)` is what is mounted
  at a grant's place, by its number and its base name, which is all a place
  is. `refused` is a history variable: an undoing failed and what it left is there
  yet, until a teardown goes through. Registering a descriptor of a jail that is
  already gone reports it at once (the kernel's filter tests it), so a sweep needs
  no gap between the two. Old mounts under a root built over them are forgotten
  by the model: no path reaches them, and a teardown takes them by the mount table.

* **RuntimePm.** A slot is a record. Every call runs under the slot's lock, callbacks
  included, so it is one step; what the clock decides (is the autosuspend delay
  over?) and whether a resume fails are choices.
* **GpuRing.** `sched` is where `msm_job_run` is (`inited`: the job has its number;
  `listed`: it is in `ring->submits`; `counted`: in `active_submits`), `wpc` where the
  worker is. `gpu->lock` is not a variable: it is held when `Recovering` or
  `Submitting`, and the actions that take it ask for the other. A step is what
  happens under one lock or between two reads of what others write: recovery
  reads the fence twice (`Blame`, `ReadFence`), `a6xx_recover` hides the count, drops
  the power, raises it. `fence` is the number in memory the hardware writes,
  `completed` the driver's copy; a job is signalled by either. A lost power loses the
  ring's contents (`Powered`), and `Replay` writes every listed job again. `muted` is a
  history variable: a fault's interrupt has stopped the hangcheck timer.
  A job's number stands for its 32-bit sequence number: `fence_after` and
  `fence_before` order two numbers exactly while they are less than 2^31 apart, and a
  ring has at most as many outstanding as the scheduler lets in.
* **GemObject.** `bo[o]` is an object and the operators from records to records are the
  functions of `msm_gem.c`. An object's lock is derived (`Locked`) from who is where
  with it: a submit from `submit_lock_objects` to its cleanup or push, the
  shrinker from its `trylock`; whoever else takes it does so for one step. `Lock` takes
  all of a submit's objects or none, as `drm_exec` does when it backs off. `MapSome` is
  `submit_pin_objects`' first loop stopped by any object that fails, at any point of the
  order; its second loop pins all the same (`PinAll`). `Run` unpins with the LRUs' lock
  only, so it may come while the shrinker holds the object. `torn` is a history
  variable: iovas a program cleared under its own job.

* **GmuMailbox.** `pc` is where the holder of `gmu->lock` is, `kind` the message and `oob` the
  request it has in hand; `Write`, `Poll`, `Read` are `a6xx_hfi_send_msg` cut where the
  GMU can come between, and `Result` is what each caller of it does with what it
  returns. A queue is what lies between its two indices. Its dwords are counted, and
  `Written` is what the code does with them: the space check counts the message, the
  index moves over its padding too. The GMU is not in the repository: it takes messages
  and requests in order, writes a response before it raises the bit for it (`owes`),
  may stop at any point, and starts again where the queues' headers, which are in memory,
  say. Whether `GMU2HOST_INTR_INFO` survives its reset is left open. `old` marks a
  message another boot left, `heard` and `slow` are history; `HeardUpTo(n)` reads off
  `heard` that the first n of this boot's messages are there, in order and each once. `Touch` stands for both users
  of an out-of-band request, `hw_init` (`a6xx_gpu.c:1048` to `1385`) and the timestamp.

Definitions whose comment begins `Mutant:` are not part of any specification:
each is a plausible bug in the definition after it, against which the properties
were tried (`PROJECT.json`, "mutants").

## 3. What the runs check

| Run | Instance | Shows |
|---|---|---|
| `MCComponents` | anchor, two components, the second needing the first's socket, a Setup Assistant; 230 750 states | the session ends whole (`NothingOutlivesTheSession`), nobody is charged for the compositor's exit (`LeavingIsNoFailure`), every exit is answered (`EveryExitIsAnswered`), a stop stops (`StoppingEnds`) |
| `MCLockScreen` | anchor, one component, a lock screen; 365 432 states | inside batches of other work, anchor implements `LockKeeper` (`KeepsTheLock`); one that said its outcome is never restarted; its exit is heard |
| `MCDisplays` | two clients, two outputs; 17 024 states | the protocol kept, a hidden display stays hidden, whoever asks is told or gone, a lock hides the desktop in the end |
| `MCSeat` | two clients, two outputs; 54 400 states | no key and no motion is the desktop's; the lock screen keeps its keys |
| `MCChain` | two crashes survived, a connection that may fail at any time; 2 922 states | `status` is honest but for a screen that has unlocked and is leaving; `unlocked` is said of an unlock that was heard; a session whose lock screen died without a last word gets its next one, or anchor gives up |
| `MCLogin` | two people, one without a password to wake, two VTs; 366 654 states | the window is up when and only when in front; VTs are one's own; the slow are not dropped; the daemon comes back; a session that ends gives way |
| `MCJaild` | one jail, two files, two grants to a life of the daemon, three mounted; 285 472 states | a living jail keeps its root; what fails or is let go leaves no root behind, also across a death of the daemon; what is listed is mounted, and mounting empties no file |
| `MCGpu` | two jobs, one hang, one fault, one other holder of the power, one retry; interrupts may be lost, resumes fail; 249 617 states | counts and power agree whatever recovery does; the power goes only when idle; what is retired is signalled; every job is signalled in the end |
| `MCGem` | two buffers, one of which may be an import or shared, a submit of both and one of the first; 1 812 527 states | holders are counted; a job in flight keeps its buffers; the LRU tells the state; nothing maps what is gone; what is needed is not purged |
| `MCGmu` | two boots, both out-of-band requests, one late answer, one error, one crash; a queue of 16 dwords; 1 955 981 states | a GPU that came up has a GMU that heard this boot's messages in order; no message is done by another's answer; an acknowledgement is this boot's; every wait ends |
| `MCSwitchUnlocked` | **violation** of `SwitchLocksFirst` | section 5 |
| `MCPlaceholder` | **violation** of `PlaceholdersAreNew` | section 5 |

Four properties are proved for all constants and are in no run, since a run's other
properties imply or use them: `OneLockAtATime` and `NoTakeover` (the first under
`KeepsTheProtocol`'s proof, the second part of what it promises), `LockScreenIsHeld` and
`DrawingTakesTheKeys`. The type invariants are not among the runs' properties either: each
is a theorem (`GemObject`'s, as part of its inductive invariant), but for
`GmuMailbox`'s `CommandsFit`, that a queue holds no more than it can, which TLC finds
true of its instance.

### Bounds, and why they are enough

* **Two components** give everything the supervisor distinguishes: one before and
  one after in a batch, one that another waits for. `MaxFailures = 1` and
  `LockCrashLimit = 1` or `2` reach both sides of a limit; the source's numbers
  are larger and nothing compares them to anything else. `MCComponents` and
  `MCLockScreen` split what would be one instance: a lock screen is handled
  independently of how many components there are, which `KeepsTheLock` is proved
  for in general.
* **Two clients and two outputs**: one that holds and one that wants, one main
  display and one other. Every guard of the lock compares with the holder or
  with one output.
* **Two people, two VTs**: one in front and one behind. The limit of VTs is
  reached only by starts that fail; `FailureLimit = 1` is the login window's
  five.
* **`MaxLate = 1`** bounds, in `Ask`'s guard, how many agents may owe a late
  answer when the next question is put, and one event in flight per agent bounds
  `inbox`. A late answer of one agent is enough to be read in the wrong place.
* **One jail, two files**: a request reads and writes what is kept under its own
  name only. Two files are two places under one number, or one place twice;
  `MaxGrants = 2` gives a first grant and a later one, `MaxMounted = 3` leaves room
  above an old one. The daemon's deaths and starts are not bounded.
* **Two jobs, one hang, one fault**: one job that hangs and one queued behind it is
  what recovery distinguishes (the blamed one, and whether there is more to do); a
  third would come after the second as the second after the first. One other holder
  of the power is one that recovery cannot make let go. `Retries = 1` has both sides.
  With `LosesIrqs` and `ResumeMayFail` the hardware is at its worst.
* **Two buffers, two submits**: both submits take the first, so they meet in its
  lock and its pins; the second is the one the bigger submit fails at or not.
  One address space, one share. Two spaces, without imports and shares, were
  run once as well (5.2 million states, too long to keep) and showed nothing else.
* **Two boots, one late answer**: what a boot finds is what the one before left. Three
  boots with two late answers, without out-of-band requests, were run once as well and showed
  nothing else. `MaxLate` bounds the timeouts of a GMU that would
  have answered; one that is dead times out as often as it likes. The real queue has 1024 dwords
  and the messages 59, 160, 2, 1, 4 and 3, so that it takes a row of failed boots to fill it;
  with `Size = 16` and `MCDwords` what one boot left and one message more do: they fill
  it to the last dword, or do not fit. The
  sequence number does not come round within two boots; 4095 messages later a late answer might.
* `crashes` and `failures` saturate one past their limit: nothing tells larger
  ones apart.

No symmetry is used: the runs with interchangeable clients or users check
liveness, for which it is not sound.

### Fairness

Each `Fair...` specification has weak fairness of the modelled program's own
thread (`Anchor`, `Daemon`, `Undertow`, a live `LockScreen`), which only says its
process is scheduled: every wait in it has a deadline, and the deadline's action
(`StartFails`, `TooLate`) is among those that may be taken. Nothing is assumed of
the world: processes need never die (but a lock screen that said its last word
exits: that is its next call), agents need never answer, people need never type. `LockDisplays` alone assumes more, for `LockHidesTheDesktop`: every output
comes due again and its commit is not refused for ever (strong fairness of
`Draws(o)`), and a flip that was queued is shown. The first is `metronome.rs`'s
(a plan is kept until it fires and cannot recede), the second is the driver's.
`GpuRing`'s says that the scheduler's thread and the worker run (kthreads), that the
hangcheck timer goes off, that the hardware works on what does not hang and that
other holders of the power give it back. No interrupt, hang or fault is promised.
`GmuMailbox`'s says that the caller runs, each of whose polls has a timeout, and that a
GMU that runs gets on; none that it answers in time.
`GemObject` states no fairness: it has no liveness. The safety and action properties need none of it and are proved of the unfair
specifications.

## 4. What is proved

| Theorem | Says |
|---|---|
| `SupervisorProofs!AnchorKeepsTheLock` | anchor implements `LockKeeper` |
| `LockScreenIsAlwaysHeld` | no lock screen runs without its descriptor and pipe held |
| `SupervisorTypes` | `TypeOK`, for any number of components and any dependencies |
| `TheSessionEndsWhole` | nothing outlives the session |
| `NobodyIsBlamed` | `LeavingIsNoFailure` |
| `TheHeardAreNotRestarted` | `OnlyACrashIsRestarted` |
| `LockProofs!LockIsOne`, `LockIsNotTakenOver`, `LockKeepsTheProtocol` | `OneLockAtATime`, `NoTakeover`, and that undertow implements `LockProtocol` |
| `SeatKeepsTheLock`, `DesktopIsOutOfReach`, `LockScreenKeepsItsKeys` | the three carry over to the seat; no key and no motion behind the lock; the keys stay |
| `PointerIsOutOfReach`, `TheDrawnGetTheKeys` | the pointer's half by itself; `DrawingTakesTheKeys` |
| `DisplaysKeepTheLock`, `HiddenStaysHidden` | the same for the displays; `OnceHiddenStaysHidden` |
| `DisplaysKeepTheProtocol`, `SeatKeepsTheProtocol` | the compositor with its displays' loop, or with its seat, implements `LockProtocol` |
| `SessionChainProofs!ChainIsOfItsParts` | the chain's steps are steps of `LockKeeper` and of `LockProtocol` |
| `StatusIsAlwaysHonest`, `UnlockedIsTrue` | `StatusIsHonest`; `UnlockedIsOpen` |
| `LoginDaemonProofs!GreeterIsAlwaysInFront`, `VTsAreNeverShared`, `TheSlowAreKept` | the daemon's invariants and `OnlyTheGoneAreDropped` |
| `JailDaemonProofs!LivingJailsKeepTheirRoots`, `NoRootIsForgotten` | roots and jails go together |
| `ListedIsMounted`, `NoFileIsEmptied` | `GrantsAreListed`, `GrantsLeaveFilesAlone` |
| `GpuRingProofs!PowerIsHeld`, `CountsAlwaysAgree`, `AlwaysSuspendsIdle` | the power's inductive invariant; `CountsAgree`; `SuspendsOnlyIdle` |
| `RingIsTyped` | `RingTypeOK` |
| `FencesAreKept`, `RetiredStaysSignalled` | the fences' inductive invariant; `RetiredIsSignalled` |
| `GemObjectProofs!HoldersAlwaysCounted` | `HoldersAreCounted`, for any objects, submits and address spaces |
| `FlightStaysMapped`, `NothingEverMapsTheGone`, `RetainedAlwaysKept` | `InFlightIsMapped`, `NothingMapsTheGone`, `RetainedIsKept` |
| `LrusAlwaysTell` | `LruTellsTheState` |
| `GmuMailboxProofs!AckedIsAlwaysHeld` | `AckedIsHeld`, for any queue and any number of boots |
| `OwnAnswerCounts`, `BootsAreInOrder` | `OnlyItsOwnAnswerCounts` and `BootedInOrder`, while no message is given a number in flight (`NumbersAreNew`) |
| `NumbersComeRoundLate` | `NumbersAreNew`, while fewer messages than there are numbers were sent since nothing was in flight |
| `FewBootsAreInOrder` | both properties with no such condition, for boots too few for the numbers to come round |
| `LockProofs!SeatTypes`, `DisplaysTypes`, `LoginDaemonProofs!LoginTypes`, `SessionChainProofs!ChainIsTyped`, `JailDaemonProofs!JaildIsTyped`, `GmuMailboxProofs!MailboxIsTyped` | the type invariants |

The assumptions are the modules' own (`SupervisorAssumption`,
`SessionLockAssumption`, `LockSeatAssumption`, `SessionChainAssumption`,
`LoginAssumption`, `JailAssumption`, `GpuConstants`, `ResumeMayFailIsBool`,
`GemConstants`, `MailboxConstants`): types of the constants, and that model values are
different. TLC evaluates each of them. `OwnAnswerCounts` and `BootsAreInOrder` have
`NumbersAreNew` for a hypothesis, which the argument below explains, and
`FewBootsAreInOrder` assumes `6 * MaxBoots < SeqSpace`, which the instance of `MCGmu`
(two boots, 4095 numbers) meets by far.

**The arguments.**

* *The refinements.* Every step of `Supervisor` changes `keeper` and `screen` by a
  step of `LockKeeper`'s or not at all (`StepsAreKeeperSteps`), since the handlers
  call its operators; the work is in the three handlers that combine it with
  anchor's own decisions. `SessionLock`'s mapping takes `told` to "there is a
  holder and that client's state is told"; the step that needs an invariant is
  `LockFrameDrawn`, which is a `Tell` only because `OneLockAtATime` says the
  holder was waiting while `locked` was owed.
  What the displays' loop and the seat add is about `SessionLock`'s steps and never in
  them: their specifications imply its, and so what it implements.
* *`OneLockAtATime`* is inductive with the types.
* *The chain.* `ChainIsOfItsParts` says the composition steps outside neither of the
  abstract specifications it is made of: it adds nothing to what
  `AnchorKeepsTheLock` and `LockKeepsTheProtocol` prove of the detailed ones. Its
  properties are then about the two together. `StatusIsHonest` needs `StatusInv`: while
  there is a holder, or a lock screen that is `open`, the session is locked
  (`HeldIsLocked`, `OpenIsLocked`); and if anchor has heard a `locked`, or has one still
  to read from the pipe, this lock screen has got as far as `open` (`LockedWasHeard`):
  it was not one before it that said so. There `LockScreenIsHeld` comes in: anchor
  starts no second screen while it holds the first, so no word of one is read for the
  other's. `UnlockedIsOpen` needs `UnlockInv`, and all of that. A lock screen whose connection
  holds has its lock until its unlock is heard (`AskerHolds`), which is then heard of a
  holder (`UnheardHolds`), so when the roundtrip is over with the connection up the session
  is open (`HeardIsOpen`); the word is said no sooner (`SaidWasUnlocking`), and nobody but
  the next lock screen locks again, by whose start the word has been forgotten. An unlock
  its dead sender left unread is where this could go wrong: the compositor reads it while
  the sender holds the lock, or drops it with the hang-up, and never for its successor.
* *`NothingOutlivesTheSession`* is inductive as it stands: `pc = "down"` is reached by
  `ReapAll` alone and left by nothing, and nothing can be spawned, or listen,
  there. `LockScreenIsHeld` is needed for the screen.
* *`OnlyACrashIsRestarted`* needs `LastWordIsThere`: the pipe of a lock screen anchor holds
  goes only when it has been read to the end, so what was said and not heard is still
  in it when the exit is handled, whichever of the two poll reported first.
* *`LeavingIsNoFailure`* is an action property that needs `NotLiveYet`: the compositor
  is started while the session is not live, so in a live one an exited
  compositor was one, and stays exited until its handler.
* *`DesktopIsOutOfReach`*: with the types, "locked ⇒ the keys are not the
  desktop's" is inductive because taking the lock breaks the grab under which
  clearing would do nothing; without that the invariant would need to know of
  grabs.
* *The login daemon.* `Sound(m)` says the parts of a manager agree (a window iff in
  front, VTs iff sessions). Operations call each other, and half-way through one
  they do not agree: `Between(m)` is what holds then (no window, nobody's window in
  front). One lemma per operation takes `Sound` or `Between` to `Sound`; the
  daemon's steps then cannot break it, given `BatchOK`, that a batch names
  users and the window only. `TheSlowAreKept` needs `WatchOK`: a watcher in the
  batch either has something to read or has hung up, so one found with nothing
  to read has hung up, however many answers were read meanwhile.

  `LoginTypes` needs `AskOK`: nobody is waited for but while the daemon asks.

* *The jails.* `Phases` says what each place in the daemon implies: it tears down only
  what is dead or cannot be adopted, and creates only where nobody has the name.
  With it "a root is some jail's, or an undoing failed" is inductive. For the
  grants, `OwnGrants`: as long as this life of the daemon made them all, every mounted
  grant has a number smaller than the next, so the next one's place is empty, a
  write goes through nothing, and unmounting one leaves the others. A restart
  breaks exactly this, and `PlaceholdersAreNew` with it. `JaildIsTyped` needs of it only
  the numbers (`Numbered`), which a restart keeps: it counts from one with an empty list.

* *The ring's power* (`PowerInv`). `CountsAgree` says what the counts are in every
  place the scheduler and the worker can be; it is inductive with the types, with
  `Sound(pm)` (runtime PM is enabled, and the device is on exactly while its slot
  says active) and with `Turns`, that the two who take `gpu->lock` do
  not hold it together and that the count is hidden as long as recovery has the power down. `SuspendsOnlyIdle` follows: what is on and goes off had its last
  hold put, and by `CountsAgree` that leaves no active submit, or recovery has just
  hidden their count.
* *The ring's fences* (`FenceInv`). The listed jobs are a block of consecutive numbers
  up to the last one listed (`AsListed`). What has left the list is over for good
  (`GoneIsOver`, `MarkIsOver`): either `completed` has passed it, which only goes up, or the
  fence in memory has, and then nothing still in the ring is below it, and recovery's
  copy of that fence is not either. For this the ring must rise, which it does but
  behind a halted engine, where the replay may repeat a job; and a halted engine is
  reset before it runs again (`HaltIsReset`). The one place that takes a fence back,
  `hw_init`, only undoes one ahead of every job.
* *The buffers.* `IInv` is six parts: the types; `Accounted`, that what each object counts
  beyond its own shares are the submits and the scan that hold it; `Exclusive`, that
  two submits between locking and letting go share no object, and neither shares one
  with the shrinker; `SureInv`, that what made the shrinker sure stays so
  until it acts, though `Run` can still unpin and a job finish; `AllSound`, that nothing
  maps missing pages; and `MapInv`, that pinned or in flight means backed and mapped.
  One lemma for each operator on records says what of this it keeps (`MappedIs`,
  `PurgedIs`, ...), and the steps combine them.
  `LruTellsTheState` is inductive on top of it. Every operator leaves an object *told* (in the
  LRU of its state) or *alike* (same LRU, same state), which are enough for a step
  that leaves the scan alone; `PinAll` of a submit that failed is neither, and is why
  the failed one is excepted until `Fail` unpins. For the shrinker, `SureInv` and
  `Exclusive` exclude the exceptions: what it takes is no import and no failed submit's,
  so one found without pages is among the unbacked already.

* *The GMU's requests out of band* (`OobInv`). Of a boot that is over, with no timeout yet, at
  most one request is open, the caller's. Until the GMU takes it, it is the last of
  `asks`, behind nothing but withdrawals; once taken, the GPU is on for it and nothing
  that waits in `asks` withdraws it (`Kept`). What makes this inductive is where the
  code clears the register: at the end of the boot, so an acknowledgement that another
  boot's GMU raised is gone before anybody can wait for one of the same name.
* *The GMU's messages* (`MailInv`). `BootedInOrder` and `OnlyItsOwnAnswerCounts` rest on
  one thing the code never checks: that the number of the message in hand is not the number of
  another in flight. Numbers are a counter modulo 4095 that no boot resets, and what a
  failed boot left in the queues stays there, so a message could in the end find an answer of
  its own number that is 4095 messages old. Without that condition both are false, as TLC
  shows of both with a `SeqSpace` of 2, two late answers and three boots; so the two
  theorems have it as a hypothesis, `NumbersAreNew`, and two more say when it is met.
  `NumbersComeRoundLate` counts in a variable of its own, `behind`, the messages sent since
  there was last nothing in flight, and while there are fewer than numbers the next is new
  (`AgeInv`: what is in flight was sent within those). In normal operation every answered
  message brings that count back to zero; only failures without a break add to it.
  `FewBootsAreInOrder` needs no count: a boot sends six messages at most (`Ahead` is those
  still to come), so with few boots nothing in flight has a number above the last one.
  On this stands `AnswerInv`, that whatever in flight has the number in hand is the
  message in hand, and its answer means it was heard (`HeardIt`); and on this
  `OrderInv`: of the message in hand either nothing was heard and at most one is in the
  queue, or it was and none is. `Read` goes on only in the second case, which is why
  asking an answer for its number is what keeps the boot in order.

**What is only model-checked.** Liveness (`EveryExitIsAnswered`, `StoppingEnds`,
`LockExitIsHeard`, `EveryLockIsAnswered`, `LockHidesTheDesktop`,
`AbandonedIsTakenOver`, `AskingEnds`, `TheFrontGivesWay`, `RootsGoInTheEnd`,
`EveryJobIsSignalled`, `CallsEnd`), which is out of the prover's reach with fairness; and
`CommandsFit`, whose `Used` folds over a queue: what a fold adds up to for every queue
is an induction over data. No other theorem needs it, since `Written` is proved about
in both its cases. Every safety property of a passing run is a theorem.

## 5. Where the code and what is said of it differ

Each of these is a run TLC ends with a counterexample; `PROJECT.json`,
"findings", quotes the words.

* **Switched without a lock** (`MCSwitchUnlocked`). `switch_user` refuses if nobody
  watches for the account, "never 'nobody objected'"; but it asks the list of
  watchers, and an agent whose hang-up has not been polled is still in it. The
  question cannot be sent, the watcher is dropped, the list of those waited for
  is empty, and empty means everyone is ready. There is a second way to the same
  end, found with the agents kept from dying: an answer carries nothing to say
  which question it answers, so a late "ready" of a sleep that was called off, of
  an agent that needs no password to wake and so locked nothing, is taken for the
  answer to the switch.

* **A placeholder that is somebody's file** (`MCPlaceholder`). After a restart jaild
  adopts the jails still alive and counts their grants from one again. Grant a file
  of the same name as the old first grant (the same file will do): its place is where the
  old one is mounted, and the placeholder, opened to be truncated, is the person's file.
  The old grants can also be neither listed nor revoked any more, and a new grant that
  fails unmounts the old one from under the application.

**Seen and not among the runs.** These are stated as properties in the modules,
with the words they quote, and TLC finds each violated on the instance of the
module's passing run; they are of less weight or near another.

* `ActiveNeverNegative` (`GpuRing`): `recover_worker` finds the job
  that hung by the fence, and after a dump and a get reads the fence again to clear it.
  If the job completed in between, it clears the next one, which `msm_job_run` may
  have numbered and not submitted yet. `msm_gpu_submit` then lists it, its fence is
  signalled, and the worker retires it before it is counted: `active_submits` goes to
  -1, which `retire_submit`'s `WARN_ON` says it never does. The job is then given to the
  ring all the same, its fence signalled and its buffers let go. The power survives
  it: the counts are one short only until the job is counted (`CountsAgree` allows
  exactly this and is proved).
* `EmptyMeansLost` (`GmuMailbox`): a message that timed out is answered later, and raises
  the interrupt the next message waits for. The stale answer is skipped, the queue is
  empty, and the wait ends in an error at once, though the GMU has not heard the message
  yet. The frequency vote's timeout is ignored, so the next message is the
  slumber's: the GPU is forced off for no reason.
* `HearsOnlyItsOwn` (`GmuMailbox`): a resume that fails neither halts the GMU nor flushes the
  queues, though it is to "leave it in a good state", and the next suspend does nothing, as the
  device is not active. The next GMU hears the last boot's messages first. That
  it hears its own all the same, each and in order, before the boot is taken
  for good is `BootedInOrder`.
* `ForcedOnWhileRead` (`GmuMailbox`): the timestamp's out-of-band request may time out; the
  register is read all the same.
* `ADeadDependencyComesBack` (`Supervisor`): a component is restarted by waiting, inside
  the loop, for the sockets it needs. If the component behind such a socket has died
  too, only the loop could restart it: after 10 s anchor ends the session with exit
  code 1, though neither was past its limit.
* `ToldOncePresented` (`LockDisplays`): `locked` is said as the pass that drew ends; the flip is
  still queued, and a refused commit is not looked at. The protocol's text asks for
  it to be *presented*.
* `ReadyIsLocked` (`SessionChain`): `status` takes `locked` back when the lock screen's exit is
  reaped. Between the unlock and the reap it says locked of an open session, and
  abyss-idle reports it ready to sleep.
* `LastWordIsTrue` (`SessionChain`): the lock scene ends with `unlocked` "once the authenticator
  said yes and the session is given back" and with `refused` "if the compositor would not
  lock" (`aquademo/src/main.rs:286`). It says `refused` whenever its loop ends without an
  accepted password, so also when its connection fails under a lock it has; and `unlocked`
  whenever one was accepted, so also when the connection fails under the unlock, or
  when the unlock came before `locked` and was a protocol error. anchor takes either for the end
  of it ("the compositor refused it", `supervisor.rs:518`) and starts no other lock screen: the
  session stays locked, safe and with nobody to open it, until somebody asks anchor to lock.
  `AbandonedIsTakenOver` leaves this case out (`~SaidItsOutcome`), and else only a session given up on.
* `ShortRunsCount` (`Supervisor`): a run's length is taken when its exit is
  handled; anchor may have sat in `wait_for_socket` meanwhile, and a component that
  lived no time is charged as a healthy one: its streak starts again.
* `ToldOnceDrawn` (`LockDisplays`): the pass that says `locked` drew the outputs
  that were due; with two displays, another may not have been drawn at all.
* `AsleepHidesTheDesktop` (`LockDisplays`): turning an output off may fail; it is
  taken for asleep, nothing is drawn on it, and a lock that comes then leaves the
  desktop on it.
* `KeysGoToWhatIsLeft` (`LockSeat`): the display whose lock surface has the keys is
  unplugged and its surface is closed; the other lock surface is not given them until it draws
  or a key is pressed under a grab.
* `PointerReachesTheLockScreen`, `NoDragBehindTheLock` (`LockSeat`): Ebb open as the
  session locks, or a move begun behind the lock, keeps the pointer's motion from
  the lock screen. Nothing reaches the desktop by it.
* `ALivingJailKeepsItsRoot` (`JailDaemon`) without its `known`: the sweep is to tear down the
  roots "of those that are gone", and takes a living jail's too if its class or account is.
* `KeysComeBack` (`LockSeat`): a popup that grabbed behind the lock keeps the keys
  from the frontmost window at the unlock.

## 6. What is left out of what is modelled

* anchor: the plan's names, argv and environment; messages' wording; Linux's
  `ap_child_reap`, which waits (the model's reap is FreeBSD's, where closing the
  descriptor kills).
* undertow: everything of the seat that cannot hold the keys or the pointer across
  a lock (selections, drag and drop, cursors, keybinds, input methods); one window
  stands for the desktop's; one keyboard; real time.
* the lock screen's form: its dots, its wait, which output its panel is on.
* abyss-idle's timers and preferences.
* the root daemon: the power key, which asks and waits for nobody, restart and
  shut down, `resumed` (carries no answer), the password check itself, a daemon run
  without sessions, its own stop; VT switching as such (which VT is on the screen is
  the console's).
* abyss-jaild: what is in a root and what a plan refuses (`jails`, pure and
  unit-tested), the order within a build (its tests read it), `spawn`, whose child
  is the kernel's and the caller's, and the reaping of those children; whose jail a
  request may name; a mount table the kernel will not give.
* the GPU's ring: what is dumped and printed; registers; performance counters and devfreq
  (a stub on FreeBSD); preemption (this GPU gets one ring); system sleep, shutdown and
  unload; the end of a scheduler entity, which its jobs put off
  by holding their queue.
* the GMU: legacy ones (the first version of HFI, the requests for slumber and frequency), which
  the board does not have; RPMh and the power's registers; loading the firmware; what
  is in the tables; loading and unloading the driver; that its faults queue a recovery, which is
  `GpuRing`'s `fault`. The two modules are not composed: `GpuRing` takes a resume for
  one step that may fail, and what of it is not one step is here.
* runtime PM: clocks, OPP tables, power domains, enabling and disabling.
* buffers: relocations and the kernel's own mappings they take for a while, syncobjs
  and fence files, names, metadata, the submit's parsing; `msm_gem_kernel_new` and
  its users; the notifier that unmaps idle kernel mappings, which the port does not have; more than one scan
  at a time; the GPU's page tables as data. An `sg_table` is allocated with
  `GFP_KERNEL`, which on FreeBSD waits and does not fail.

**How much of the source this is.** The models follow control, in the places listed;
most of the repository's lines are elsewhere. Of the C, three quarters are generated register
headers, vendored protocol headers, and the driver's display half and older GPUs,
which the module's `Makefile` does not build; what is left after those is the driver
above and shims around system calls. Of the Rust, the
session's own programs are modelled, and the toolkit and the applications are not.

## 7. The plan

In this order; each is a module with its instance, and what is worth proving of it.

1. **The failed-password limiter** (`login/src/lib.rs`): `Authenticator`'s delays as
   operators over an account's failures and the clock, against a reference that
   looks at the whole history. To be composed with `LoginDaemon`, whose accepted
   password is an event today.
2. **The metronome's arithmetic** (`undertow/src/metronome.rs`): deadlines, latch margins
   and retunes as functions of integers, with their widths; that a plan never
   recedes, which the fairness of `LockDisplays` rests on, as a theorem.
3. **The jail keeper** (`jailkeeper`): who holds a jail, its bus, bridge and model, and
   lets go of all of them; composed with `JailDaemon`, whose `OwnerLetsGo` it is.
   `spawn` and its zombies, who keep a removed jail dying, belong here.
4. **The D-Bus bridge** (`dbusbridge/src/router.rs`): names, their owners and the
   matches of a client that leaves in the middle; the portal's answer before its
   response (`dbusportal`).
5. **The agents' budget** (`model/src/session.rs`): what is reserved, spent and given back
   by requests that are cancelled half-way.
6. **The rest of undertow's seat**: two keyboards; text input; selections; and windows
   and islands without a lock.
7. **The undo history** (`textmodel/src/model.rs`), against a list of whole texts.

8. **The driver's rest**: `GpuRing`'s resume refined by `GmuMailbox`'s boot, its suspend by
   the slumber; system sleep (`pm_runtime_force_suspend`) against submits; `GpuRing` and
   `GemObject` composed, a fence signalled by the one freeing a buffer of the other.

Of the proofs: every safety property the passing runs check is a theorem. What is left
goes with what is left of the model: each module of the list above with its own, and the refinement of
`GpuRing`'s resume and suspend by `GmuMailbox`'s boot and slumber, step by step.
A run answers one question, so a new
component gets one passing run, and runs are put together where their modules
share an instance before another is added.
