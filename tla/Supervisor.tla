------------------------------ MODULE Supervisor ------------------------------
(***************************************************************************)
(* anchor, the session's supervisor (anchor/src/supervisor.rs, policy.rs): *)
(* it starts the compositor and the components in order, each once the     *)
(* sockets it needs accept, keeps them alive, keeps the lock screen        *)
(* (LockKeeper), answers the control socket, and ends everything together. *)
(* One thread: `pc` is where it is, and while it waits for a socket nothing*)
(* else of it runs.  The children are processes of their own; they die when*)
(* they like and anchor hears of it through poll.                          *)
(***************************************************************************)
EXTENDS Naturals, Sequences, FiniteSets

CONSTANTS
  N,              \* components, started in the order 1 .. N
  Requires,       \* i -> the sockets component i waits for, in order; 0 is the compositor's
  MaxFailures,    \* RestartPolicy.max_consecutive_failures
  LockCrashLimit, \* see LockKeeper
  HasLockScreen,  \* whether the session's plan has a lock screen
  HasFirstRun     \* and a Setup Assistant

Comps == 1 .. N

ASSUME SupervisorAssumption ==
  /\ N \in Nat
  /\ Requires \in [Comps -> Seq(0 .. N)]
  /\ MaxFailures \in Nat /\ LockCrashLimit \in Nat
  /\ HasLockScreen \in BOOLEAN /\ HasFirstRun \in BOOLEAN

VARIABLES
  pc,         \* "compositor" | "start" | "services" | "poll" | "batch" | "grace" | "down"
  at,         \* the component start() is at; N + 1 is the Setup Assistant
  needs,      \* the sockets it still waits for
  batch,      \* the owners poll reported, not handled yet
  up,         \* the session is live: bring_up has returned
  stopping, exitCode,
  control,    \* the control socket is served
  signals,    \* the signal pipe is there
  compositor, \* the compositor's child: a Child
  child,      \* the components' children: i -> a Child
  firstRun,   \* the Setup Assistant's child
  failures,   \* i -> failures in a row
  clock,      \* i -> what anchor's clock says of its run: "short" | "healthy"
  life,       \* i -> how long it really ran, once it exited
  accepting,  \* the sockets that accept a connection
  asked,      \* the control requests nobody has answered yet
  signalled,  \* a signal byte is in the pipe
  keeper, screen

LK == INSTANCE LockKeeper

lifeVars == <<clock, life, failures>>
askVars == <<asked, signalled>>
flagVars == <<stopping, exitCode>>
serviceVars == <<control, signals, up>>
vars == <<pc, at, needs, batch, up, stopping, exitCode, control, signals, compositor,
          child, firstRun, failures, clock, life, accepting, asked, signalled, keeper, screen>>

(* A Child: none or reaped; running; exited and not reaped (its descriptor is readable). *)
Child == {"none", "running", "exited"}
Methods == {"lock", "quit"} \* `status` and an unknown method change nothing

(* Owner, numbered in the order run_loop adds them to the poll set: component i is i. *)
Compositor == 0
Control == N + 1
Lock == N + 2
LockPipe == N + 3
FirstRun == N + 4
Signal == N + 5
Owners == 0 .. N + 5

TypeOK ==
  /\ pc \in {"compositor", "start", "services", "poll", "batch", "grace", "down"}
  /\ at \in 1 .. N + 1
  /\ needs \in Seq(0 .. N)
  /\ batch \in SUBSET Owners
  /\ up \in BOOLEAN /\ stopping \in BOOLEAN /\ exitCode \in {0, 1}
  /\ control \in BOOLEAN /\ signals \in BOOLEAN
  /\ compositor \in Child /\ child \in [Comps -> Child] /\ firstRun \in Child
  /\ failures \in [Comps -> 0 .. MaxFailures]
  /\ clock \in [Comps -> {"short", "healthy"}]
  /\ life \in [Comps -> {"short", "healthy"}]
  /\ accepting \in SUBSET (0 .. N)
  /\ asked \in SUBSET Methods /\ signalled \in BOOLEAN
  /\ LK!TypeOK

Init ==
  /\ pc = "compositor" /\ at = 1 /\ needs = <<>> /\ batch = {} /\ up = FALSE
  /\ stopping = FALSE /\ exitCode = 0 /\ control = FALSE /\ signals = FALSE
  /\ compositor = "none" /\ child = [i \in Comps |-> "none"] /\ firstRun = "none"
  /\ failures = [i \in Comps |-> 0]
  /\ clock = [i \in Comps |-> "short"] /\ life = [i \in Comps |-> "short"]
  /\ accepting = {} /\ asked = {} /\ signalled = FALSE
  /\ LK!Init

-----------------------------------------------------------------------------
(* The end of the session: SIGTERM to everything live and one shared beat. *)

(* Mutant: whoever ends the session leaves its children as they are. *)
TearDownAtOnce == pc' = "down" /\ batch' = {}

TearDown == pc' = "grace" /\ batch' = {}

FailedToStart == \* run(): bring_up's error is the exit code 1, whatever exit_code says
  /\ TearDown /\ stopping' = TRUE /\ exitCode' = 1
  /\ UNCHANGED <<at, needs, serviceVars>>

-----------------------------------------------------------------------------
(* Starting. *)

BeginStart(i) ==
  /\ pc' = "start" /\ at' = i
  /\ needs' = IF i = N + 1 THEN <<0>> ELSE Requires[i]

(* After component `at`: the next one, or the control socket and signals. *)
NextOfBringUp ==
  IF at < N THEN BeginStart(at + 1) ELSE pc' = "services" /\ UNCHANGED <<at, needs>>

StartCompositor ==
  /\ pc = "compositor"
  /\ \/ /\ compositor' = "running"
        /\ IF N > 0 THEN BeginStart(1) ELSE pc' = "services" /\ UNCHANGED <<at, needs>>
        /\ UNCHANGED <<batch, flagVars, serviceVars>>
     \/ compositor' = "none" /\ FailedToStart
  /\ UNCHANGED <<child, firstRun, lifeVars, accepting, askVars, keeper, screen>>

(* Mutant: the wait has no deadline. *)
NeverRefused == FALSE

(* wait_for_socket: one connection is enough; refused, it looks again until the deadline. *)
Refused == needs # <<>> /\ Head(needs) \notin accepting

SocketAccepts ==
  /\ pc = "start" /\ needs # <<>> /\ Head(needs) \in accepting
  /\ needs' = Tail(needs)
  /\ UNCHANGED <<pc, at, batch, flagVars, serviceVars, compositor, child, firstRun,
                 lifeVars, accepting, askVars, keeper, screen>>

(* The component is spawned: bring_up goes on, or the batch that restarted it. *)
Spawned ==
  /\ pc = "start" /\ at \in Comps /\ needs = <<>>
  /\ child' = [child EXCEPT ![at] = "running"]
  /\ clock' = [clock EXCEPT ![at] = "short"]
  /\ life' = [life EXCEPT ![at] = "short"]
  /\ IF up THEN pc' = "batch" /\ UNCHANGED <<at, needs>> ELSE NextOfBringUp
  /\ UNCHANGED <<batch, flagVars, serviceVars, compositor, firstRun, failures,
                 accepting, askVars, keeper, screen>>

(* Mutant: the compositor's exit is heard in its own turn only. *)
CompositorNotAsked == FALSE

(* compositor_is_gone: its exit is waiting to be heard. *)
CompositorIsGone == compositor = "exited"

(* compositor_exited: reaped, and the session ends with it. *)
CompositorExited == compositor' = "none" /\ stopping' = TRUE /\ TearDown

(* A socket that never accepts, or a spawn that fails.  In the loop a compositor *)
(* already gone is why, and no failure.                                          *)
StartFails ==
  /\ pc = "start" /\ at \in Comps
  /\ needs = <<>> \/ Refused
  /\ \/ ~up /\ FailedToStart /\ UNCHANGED compositor
     \/ /\ up
        /\ \/ CompositorIsGone /\ CompositorExited /\ UNCHANGED exitCode
           \/ /\ ~CompositorIsGone
              /\ TearDown /\ stopping' = TRUE /\ exitCode' = 1 /\ UNCHANGED compositor
        /\ UNCHANGED <<at, needs, serviceVars>>
  /\ UNCHANGED <<child, firstRun, lifeVars, accepting, askVars, keeper, screen>>

(* The control socket and the signal pipe are best effort; then the loop, by way *)
(* of the Setup Assistant's own wait when there is one to show.                  *)
StartServices ==
  /\ pc = "services"
  /\ control' \in BOOLEAN /\ signals' \in BOOLEAN
  /\ IF HasFirstRun THEN BeginStart(N + 1) /\ UNCHANGED up
     ELSE pc' = "poll" /\ up' = TRUE /\ UNCHANGED <<at, needs>>
  /\ UNCHANGED <<batch, flagVars, compositor, child, firstRun, lifeVars, accepting,
                 askVars, keeper, screen>>

FirstRunSettled ==
  /\ pc = "start" /\ at = N + 1
  /\ \/ needs = <<>> /\ firstRun' = "running"
     \/ (needs = <<>> \/ Refused) /\ firstRun' = "none"
  /\ pc' = "poll" /\ up' = TRUE
  /\ UNCHANGED <<at, needs, batch, flagVars, control, signals, compositor, child,
                 lifeVars, accepting, askVars, keeper, screen>>

-----------------------------------------------------------------------------
(* The loop: poll, then every ready owner in the order it was added. *)

Ready(o) ==
  CASE o = Compositor -> compositor = "exited"
    [] o \in Comps    -> child[o] = "exited"
    [] o = Control    -> control /\ asked # {}
    [] o = Lock       -> keeper.child /\ ~screen.alive
    [] o = LockPipe   -> keeper.pipe /\ (screen.unread # {} \/ ~screen.alive)
    [] o = FirstRun   -> firstRun = "exited"
    [] o = Signal     -> signals /\ signalled

Poll ==
  /\ pc = "poll" /\ ~stopping
  /\ \E o \in Owners : Ready(o)
  /\ batch' = {o \in Owners : Ready(o)} /\ pc' = "batch"
  /\ UNCHANGED <<at, needs, flagVars, serviceVars, compositor, child, firstRun,
                 lifeVars, accepting, askVars, keeper, screen>>

(* The batch is handled in the owners' order; a handler goes on to the next. *)
Handling(o) == pc = "batch" /\ o \in batch /\ \A p \in batch : o <= p

NextOwner(o) ==
  /\ batch' = batch \ {o}
  /\ pc' = IF batch = {o} THEN "poll" ELSE "batch"

HandleCompositor ==
  /\ Handling(Compositor) /\ CompositorExited
  /\ UNCHANGED <<at, needs, exitCode, serviceVars, child, firstRun, lifeVars,
                 accepting, askVars, keeper, screen>>

(* RestartPolicy::decide: the streak with this exit in it. *)
Streak(i) == IF clock[i] = "healthy" THEN 1 ELSE failures[i] + 1

GivesUp(i) == Streak(i) > MaxFailures

ComponentExited(i) ==
  /\ Handling(i)
  /\ child' = [child EXCEPT ![i] = "none"]
  /\ \/ /\ CompositorIsGone \* a client whose compositor is leaving has not failed
        /\ CompositorExited
        /\ UNCHANGED <<at, needs, exitCode, failures>>
     \/ /\ ~CompositorIsGone /\ GivesUp(i)
        /\ TearDown /\ stopping' = TRUE /\ exitCode' = 1
        /\ UNCHANGED <<at, needs, compositor, failures>>
     \/ /\ ~CompositorIsGone /\ ~GivesUp(i)
        /\ failures' = [failures EXCEPT ![i] = Streak(i)]
        /\ batch' = batch \ {i} /\ BeginStart(i)
        /\ UNCHANGED <<compositor, flagVars>>
  /\ UNCHANGED <<serviceVars, firstRun, clock, life, accepting, askVars, keeper, screen>>

HandleControl ==
  /\ Handling(Control)
  /\ \E m \in asked :
       /\ asked' = asked \ {m}
       /\ \/ m = "quit" /\ stopping' = TRUE /\ TearDown /\ UNCHANGED <<keeper, screen>>
          \/ /\ m = "lock"
             /\ IF HasLockScreen THEN LK!AnswerLock ELSE UNCHANGED <<keeper, screen>>
             /\ NextOwner(Control) /\ UNCHANGED stopping
  /\ UNCHANGED <<at, needs, exitCode, serviceVars, compositor, child, firstRun,
                 lifeVars, accepting, signalled>>

(* Mutant: the lock screen's exit is reaped and its last word never read. *)
LockExitNotRead ==
  /\ Handling(Lock)
  /\ keeper' = [keeper EXCEPT !.child = FALSE] /\ UNCHANGED screen
  /\ NextOwner(Lock)
  /\ UNCHANGED <<at, needs, flagVars, serviceVars, compositor, child, firstRun, lifeVars,
                 accepting, askVars>>

LockExited ==
  /\ Handling(Lock)
  /\ \/ CompositorIsGone /\ LK!BuryOnly /\ CompositorExited
     \/ /\ ~CompositorIsGone /\ LK!LockExited
        /\ NextOwner(Lock) /\ UNCHANGED <<compositor, stopping>>
  /\ UNCHANGED <<at, needs, exitCode, serviceVars, child, firstRun, lifeVars,
                 accepting, askVars>>

(* The pipe may have gone with the exit handled just before it. *)
DrainLock ==
  /\ Handling(LockPipe)
  /\ IF keeper.pipe THEN LK!DrainLock ELSE UNCHANGED <<keeper, screen>>
  /\ NextOwner(LockPipe)
  /\ UNCHANGED <<at, needs, flagVars, serviceVars, compositor, child, firstRun,
                 lifeVars, accepting, askVars>>

FirstRunExited ==
  /\ Handling(FirstRun)
  /\ firstRun' = "none" /\ NextOwner(FirstRun)
  /\ UNCHANGED <<at, needs, flagVars, serviceVars, compositor, child, lifeVars,
                 accepting, askVars, keeper, screen>>

HandleSignal ==
  /\ Handling(Signal)
  /\ signalled' = FALSE /\ stopping' = TRUE /\ TearDown
  /\ UNCHANGED <<at, needs, exitCode, serviceVars, compositor, child, firstRun,
                 lifeVars, accepting, asked, keeper, screen>>

(* A restart that was the last of its batch. *)
BatchDone ==
  /\ pc = "batch" /\ batch = {}
  /\ pc' = "poll"
  /\ UNCHANGED <<at, needs, batch, flagVars, serviceVars, compositor, child, firstRun,
                 lifeVars, accepting, askVars, keeper, screen>>

(* teardown's reaps, after the beat: closing a descriptor ends the child.  *)
ReapAll ==
  /\ pc = "grace" /\ pc' = "down"
  /\ child' = [i \in Comps |-> "none"]
  /\ LK!EndLock
  /\ firstRun' = "none" /\ compositor' = "none"
  /\ control' = FALSE
  /\ accepting' = {}
  /\ UNCHANGED <<at, needs, batch, flagVars, signals, up, lifeVars, askVars>>

(* Mutant: waited for, a child that takes no notice of SIGTERM. *)
ReapTheDead == compositor # "running" /\ (\A i \in Comps : child[i] # "running") /\ ReapAll

Reap == ReapAll

Anchor ==
  \/ StartCompositor \/ SocketAccepts \/ Spawned \/ StartFails \/ StartServices
  \/ FirstRunSettled \/ Poll
  \/ HandleCompositor \/ HandleControl \/ LockExited \/ DrainLock \/ FirstRunExited
  \/ HandleSignal \/ BatchDone \/ Reap
  \/ \E i \in Comps : ComponentExited(i)

-----------------------------------------------------------------------------
(* The processes and the people around it. *)

anchorVars == <<pc, at, needs, batch, flagVars, serviceVars, failures>>

CompositorDies ==
  /\ compositor = "running" /\ compositor' = "exited"
  /\ accepting' = accepting \ {0}
  /\ UNCHANGED <<anchorVars, child, firstRun, clock, life, askVars, keeper, screen>>

ComponentDies(i) ==
  /\ child[i] = "running" /\ child' = [child EXCEPT ![i] = "exited"]
  /\ life' = [life EXCEPT ![i] = clock[i]]
  /\ accepting' = accepting \ {i}
  /\ UNCHANGED <<anchorVars, compositor, firstRun, clock, askVars, keeper, screen>>

FirstRunDies ==
  /\ firstRun = "running" /\ firstRun' = "exited"
  /\ UNCHANGED <<anchorVars, compositor, child, clock, life, accepting, askVars, keeper, screen>>

(* healthy_run_seconds go by.  For a child already dead they can go by only *)
(* while anchor waits in start(), up to DEPENDENCY_TIMEOUT a socket.        *)
TimePasses(i) ==
  /\ clock[i] = "short"
  /\ child[i] = "running" \/ (child[i] = "exited" /\ pc = "start" /\ needs # <<>>)
  /\ clock' = [clock EXCEPT ![i] = "healthy"]
  /\ UNCHANGED <<anchorVars, compositor, child, firstRun, life, accepting, askVars, keeper, screen>>

Listens(s) ==
  /\ s \notin accepting
  /\ IF s = 0 THEN compositor = "running" ELSE child[s] = "running"
  /\ accepting' = accepting \cup {s}
  /\ UNCHANGED <<anchorVars, compositor, child, firstRun, clock, life, askVars, keeper, screen>>

Asks(m) ==
  /\ control /\ m \notin asked /\ asked' = asked \cup {m}
  /\ UNCHANGED <<anchorVars, compositor, child, firstRun, clock, life, accepting,
                 signalled, keeper, screen>>

SignalComes ==
  /\ signals /\ pc # "down" /\ ~signalled /\ signalled' = TRUE
  /\ UNCHANGED <<anchorVars, compositor, child, firstRun, clock, life, accepting,
                 asked, keeper, screen>>

ScreenSteps ==
  /\ (\E w \in LK!Words : LK!ScreenSays(w)) \/ LK!ScreenDies
  /\ UNCHANGED <<anchorVars, compositor, child, firstRun, clock, life, accepting, askVars>>

World ==
  \/ CompositorDies \/ FirstRunDies \/ SignalComes \/ ScreenSteps
  \/ \E i \in Comps : ComponentDies(i) \/ TimePasses(i)
  \/ \E s \in 0 .. N : Listens(s)
  \/ \E m \in Methods : Asks(m)

Done == pc = "down" /\ UNCHANGED vars

Next == Anchor \/ World \/ Done

(* anchor's own thread is scheduled; nothing is assumed of anyone else. *)
Spec == Init /\ [][Next]_vars
FairSpec == Spec /\ WF_vars(Anchor)

-----------------------------------------------------------------------------
(* The session ends whole: once anchor has returned, no child of it is     *)
(* left, running or a zombie, and nothing still listens (teardown,         *)
(* supervisor.rs:540-574).                                                 *)
NothingOutlivesTheSession ==
  pc = "down" => /\ compositor = "none" /\ firstRun = "none"
                 /\ \A i \in Comps : child[i] = "none"
                 /\ ~screen.alive /\ ~keeper.child
                 /\ accepting = {} /\ ~control

(* A client whose compositor is leaving has not failed (supervisor.rs:334):*)
(* once the compositor's exit waits to be heard, in a live session, no     *)
(* streak grows, no component is given up on and the exit code stays.      *)
LeavingIsNoFailure ==
  [][up /\ compositor = "exited" => failures' = failures /\ exitCode' = exitCode]_vars

(* What anchor leaves waiting while it handles something else still gets   *)
(* its turn: a component that exits is running again, or the session ends. *)
EveryExitIsAnswered ==
  \A i \in Comps : child[i] = "exited" ~> (child[i] = "running" \/ pc = "down")

(* Whoever ends the session, it does end: no wait for a socket, and no     *)
(* owner left in the batch, keeps teardown from being reached.             *)
StoppingEnds == stopping ~> pc = "down"

(* The same for the lock screen: one that dies is replaced or its outcome  *)
(* heard, whatever else anchor is waiting for.                             *)
LockExitIsHeard == (keeper.child /\ ~screen.alive) ~> (screen.alive \/ ~keeper.child)

(* anchor keeps the lock screen as LockKeeper says, whatever is interleaved*)
(* with it in a batch.                                                     *)
KeepsTheLock == LK!Spec
LockScreenIsHeld == LK!ScreenIsHeld

(* And what LockKeeper promises of its words and crashes holds of anchor.  *)
OnlyACrashIsRestarted == LK!OnlyACrashIsRestarted

(* policy.rs:34, "how long this run lasted": a component restarted after a  *)
(* short run has one failure more in a row.  anchor's clock also counts the *)
(* time it was not looking (supervisor.rs:330).                             *)
ShortRunsCount ==
  [][ \A i \in Comps :
        child[i] = "exited" /\ child'[i] = "none" /\ ~stopping' /\ life[i] = "short"
        => failures'[i] = failures[i] + 1 ]_vars

(* policy.rs:8-10, "A component that dies comes back": a live session ends  *)
(* in failure only for a component past its limit, one that cannot be       *)
(* spawned, or a dependency that runs and never accepts; not for one that   *)
(* died and would be restarted, were anchor not waiting for its socket.     *)
ADeadDependencyComesBack ==
  [][ up /\ exitCode' # exitCode
      => \/ \E i \in Comps : child[i] = "exited" /\ Streak(i) > MaxFailures
         \/ pc = "start" /\ (needs = <<>> \/ Head(needs) = 0)
         \/ pc = "start" /\ child[Head(needs)] = "running" ]_vars
=============================================================================
