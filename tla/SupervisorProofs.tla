--------------------------- MODULE SupervisorProofs ---------------------------
(***************************************************************************)
(* anchor for any number of components, whatever they wait for, whatever   *)
(* the limits: its types, the session that ends whole, and the lock screen *)
(* it keeps as LockKeeper says and always holds.                           *)
(***************************************************************************)
EXTENDS Supervisor, SequenceTheorems, TLAPS

(* Where bring_up goes next is a place there is. *)
LEMMA BeginStartTypes ==
  ASSUME NEW i \in 1 .. N + 1, BeginStart(i)
  PROVE  pc' = "start" /\ at' \in 1 .. N + 1 /\ needs' \in Seq(0 .. N)
<1>0. N \in Nat /\ Requires \in [Comps -> Seq(0 .. N)]
  BY SupervisorAssumption
<1>1. CASE i = N + 1
  <2>1. <<0>> \in Seq(0 .. N)
    BY <1>0
  <2> QED
    BY <1>0, <1>1, <2>1 DEF BeginStart
<1>2. CASE i # N + 1
  <2>1. i \in Comps
    BY <1>0, <1>2 DEF Comps
  <2> QED
    BY <1>0, <1>2, <2>1 DEF BeginStart
<1> QED
  BY <1>1, <1>2

(***************************************************************************)
(* The lock screen's keeper.  Each handler's part leaves a keeper, and     *)
(* each step of LockKeeper's leaves its types as they were.                *)
(***************************************************************************)
LEMMA KeeperParts ==
  ASSUME NEW k \in LK!Keeper, NEW s \in LK!Screen
  PROVE  /\ LK!Started(k) \in LK!Keeper
         /\ \A final \in BOOLEAN : LK!Drained(k, s, final) \in LK!Keeper
         /\ LK!Buried(k, s) \in LK!Keeper
         /\ \A kept \in Nat : LK!Crashed(k, kept) \in LK!Keeper
<1> USE SupervisorAssumption DEF LK!Keeper, LK!Screen, LK!LastWords, LK!Words
<1>1. LK!Started(k) \in LK!Keeper
  BY DEF LK!Started
<1>2. LK!OutcomeOf(k, s.unread) \in LK!LastWords \cup {"none"}
  BY DEF LK!OutcomeOf
<1>3. ASSUME NEW final \in BOOLEAN PROVE LK!Drained(k, s, final) \in LK!Keeper
  BY <1>2 DEF LK!Drained
<1>4. LK!Buried(k, s) \in LK!Keeper
  <2> DEFINE j == [k EXCEPT !.child = FALSE]
  <2>1. j \in LK!Keeper
    OBVIOUS
  <2>2. LK!OutcomeOf(j, s.unread) \in LK!LastWords \cup {"none"}
    BY <2>1 DEF LK!OutcomeOf
  <2>3. LK!Drained(j, s, TRUE) \in LK!Keeper
    BY <2>1, <2>2 DEF LK!Drained
  <2> QED
    BY <2>3 DEF LK!Buried
<1>5. ASSUME NEW kept \in Nat PROVE LK!Crashed(k, kept) \in LK!Keeper
  <2> DEFINE v == IF kept < LockCrashLimit THEN kept + 1 ELSE LockCrashLimit + 1
  <2>1. v \in 0 .. LockCrashLimit + 1
    OBVIOUS
  <2> HIDE DEF v
  <2>2. [k EXCEPT !.crashes = v] \in LK!Keeper
    BY <2>1
  <2> QED
    BY <2>2 DEF LK!Crashed, v
<1> QED
  BY <1>1, <1>3, <1>4, <1>5

LEMMA KeeperStepTypes ==
  ASSUME LK!TypeOK, [LK!Next]_(LK!lockVars)
  PROVE  LK!TypeOK'
<1>k. keeper \in LK!Keeper /\ screen \in LK!Screen
  BY DEF LK!TypeOK
<1>n. LK!NewScreen \in LK!Screen /\ LK!NoScreen \in LK!Screen
  BY DEF LK!NewScreen, LK!NoScreen, LK!Screen
<1>s. ASSUME NEW k \in LK!Keeper, LK!StartLock(k) PROVE LK!TypeOK'
  <2>1. LK!Started(k) \in LK!Keeper
    BY <1>k, KeeperParts
  <2> QED
    BY <1>s, <1>n, <2>1 DEF LK!StartLock, LK!TypeOK
<1>1. CASE LK!AnswerLock
  BY <1>1, <1>k, <1>s DEF LK!AnswerLock, LK!TypeOK, LK!lockVars
<1>2. CASE LK!DrainLock
  <2>1. LK!Drained(keeper, screen, FALSE) \in LK!Keeper
    BY <1>k, KeeperParts
  <2>2. [screen EXCEPT !.unread = {}] \in LK!Screen
    BY <1>k DEF LK!Screen
  <2> QED
    BY <1>2, <2>1, <2>2 DEF LK!DrainLock, LK!TypeOK
<1>b. LK!Buried(keeper, screen) \in LK!Keeper
  BY <1>k, KeeperParts
<1>3. CASE LK!LockExited
  <2> DEFINE b == LK!Buried(keeper, screen)
  <2> HIDE DEF b
  <2>b. b \in LK!Keeper /\ b.crashes \in Nat
    BY <1>b, SupervisorAssumption DEF b, LK!Keeper
  <2>1. [b EXCEPT !.crashes = 0] \in LK!Keeper
    BY <2>b, SupervisorAssumption DEF LK!Keeper
  <2>2. ASSUME NEW kept \in 0 .. b.crashes,
               \/ keeper' = LK!Crashed(b, kept) /\ screen' = LK!NoScreen
               \/ LK!StartLock(LK!Crashed(b, kept))
        PROVE LK!TypeOK'
    <3>1. LK!Crashed(b, kept) \in LK!Keeper
      BY <2>b, <1>k, KeeperParts
    <3> QED
      BY <2>2, <3>1, <1>s, <1>n DEF LK!TypeOK
  <2> QED
    BY <1>3, <1>n, <2>b, <2>1, <2>2 DEF LK!LockExited, LK!TypeOK, b
<1>4. CASE LK!BuryOnly
  BY <1>4, <1>b, <1>n DEF LK!BuryOnly, LK!TypeOK
<1>5. CASE LK!EndLock
  BY <1>5, <1>k, <1>n DEF LK!EndLock, LK!TypeOK, LK!Keeper
<1>6. ASSUME NEW w \in LK!Words, LK!ScreenSays(w) PROVE LK!TypeOK'
  BY <1>6, <1>k DEF LK!ScreenSays, LK!TypeOK, LK!Screen
<1>7. CASE LK!ScreenDies
  BY <1>7, <1>k DEF LK!ScreenDies, LK!TypeOK, LK!Screen
<1>8. CASE UNCHANGED LK!lockVars
  BY <1>8 DEF LK!lockVars, LK!TypeOK
<1> QED
  BY <1>1, <1>2, <1>3, <1>4, <1>5, <1>6, <1>7, <1>8 DEF LK!Next

(* anchor goes on holding a lock screen that runs, by its descriptor and   *)
(* its pipe, at every step of the keeper's.                                *)
LEMMA KeeperStepHolds ==
  ASSUME LK!TypeOK, LK!ScreenIsHeld, [LK!Next]_(LK!lockVars)
  PROVE  LK!ScreenIsHeld'
<1>k. keeper \in LK!Keeper /\ screen \in LK!Screen
  BY DEF LK!TypeOK
<1>s. ASSUME NEW k \in LK!Keeper, LK!StartLock(k) PROVE LK!ScreenIsHeld'
  BY <1>s DEF LK!StartLock, LK!Started, LK!Keeper, LK!Screen, LK!ScreenIsHeld, LK!NewScreen, LK!NoScreen
<1>1. CASE LK!AnswerLock
  BY <1>k, <1>1, <1>s DEF LK!AnswerLock, LK!lockVars, LK!ScreenIsHeld
<1>2. CASE LK!DrainLock
  BY <1>k, <1>2 DEF LK!DrainLock, LK!Drained, LK!Keeper, LK!Screen, LK!ScreenIsHeld, LK!NewScreen, LK!NoScreen
<1>3. CASE LK!LockExited
  <2> DEFINE b == LK!Buried(keeper, screen)
  <2> HIDE DEF b
  <2>1. b \in LK!Keeper
    BY <1>k, KeeperParts DEF b
  <2>2. b.crashes \in Nat
    BY <2>1, SupervisorAssumption DEF LK!Keeper
  <2>3. ASSUME NEW kept \in 0 .. b.crashes, LK!StartLock(LK!Crashed(b, kept))
        PROVE LK!ScreenIsHeld'
    <3>1. kept \in Nat
      BY <2>2
    <3>2. LK!Crashed(b, kept) \in LK!Keeper
      BY <1>k, <2>1, <3>1, KeeperParts
    <3> QED
      BY <2>3, <3>2, <1>s
  <2>4. CASE screen' = LK!NoScreen
    BY <2>4 DEF LK!ScreenIsHeld, LK!NoScreen, LK!NewScreen
  <2> QED
    BY <1>3, <2>3, <2>4 DEF LK!LockExited, b
<1>4. CASE LK!BuryOnly \/ LK!EndLock
  BY <1>4 DEF LK!BuryOnly, LK!EndLock, LK!ScreenIsHeld, LK!NewScreen, LK!NoScreen
<1>5. ASSUME NEW w \in LK!Words, LK!ScreenSays(w) PROVE LK!ScreenIsHeld'
  BY <1>k, <1>5 DEF LK!ScreenSays, LK!ScreenIsHeld, LK!Screen
<1>6. CASE LK!ScreenDies
  BY <1>k, <1>6 DEF LK!ScreenDies, LK!ScreenIsHeld, LK!Screen
<1>7. CASE UNCHANGED LK!lockVars
  BY <1>7 DEF LK!lockVars, LK!ScreenIsHeld
<1> QED
  BY <1>1, <1>2, <1>3, <1>4, <1>5, <1>6, <1>7 DEF LK!Next

-----------------------------------------------------------------------------
(* A step of the whole of anchor, or of the world around it, is one of the *)
(* keeper's or leaves the keeper alone.                                    *)
LEMMA StepsAreKeeperSteps ==
  ASSUME [Next]_vars
  PROVE  [LK!Next]_(LK!lockVars)
<1> USE DEF LK!lockVars, LK!Next
<1>1. CASE StartCompositor \/ SocketAccepts \/ Spawned \/ StartFails \/ StartServices
  BY <1>1 DEF StartCompositor, SocketAccepts, Spawned, StartFails, StartServices
<1>2. CASE FirstRunSettled \/ Poll \/ HandleCompositor \/ FirstRunExited
  BY <1>2 DEF FirstRunSettled, Poll, HandleCompositor, FirstRunExited
<1>3. CASE HandleSignal \/ BatchDone \/ \E i \in Comps : ComponentExited(i)
  BY <1>3 DEF HandleSignal, BatchDone, ComponentExited
<1>4. CASE HandleControl
  BY <1>4 DEF HandleControl
<1>5. CASE LockExited
  BY <1>5 DEF LockExited
<1>6. CASE DrainLock
  BY <1>6 DEF DrainLock
<1>7. CASE Reap
  BY <1>7 DEF Reap, ReapAll
<1>8. CASE CompositorDies \/ FirstRunDies \/ SignalComes
  BY <1>8 DEF CompositorDies, FirstRunDies, SignalComes
<1>9. CASE ScreenSteps
  BY <1>9 DEF ScreenSteps
<1>10. CASE \/ \E i \in Comps : ComponentDies(i) \/ TimePasses(i)
            \/ \E s \in 0 .. N : Listens(s)
            \/ \E m \in Methods : Asks(m)
  BY <1>10 DEF ComponentDies, TimePasses, Listens, Asks
<1>11. CASE Done \/ UNCHANGED vars
  BY <1>11 DEF Done, vars
<1> QED
  BY <1>1, <1>2, <1>3, <1>4, <1>5, <1>6, <1>7, <1>8, <1>9, <1>10, <1>11
     DEF Next, Anchor, World

(* anchor, whatever else it has to do and however its exits, requests and  *)
(* signals are batched, keeps the lock screen as LockKeeper says.          *)
THEOREM AnchorKeepsTheLock == Spec => KeepsTheLock
<1>1. Init => LK!Init
  BY DEF Init
<1>2. [Next]_vars => [LK!Next]_(LK!lockVars)
  BY StepsAreKeeperSteps
<1> QED
  BY <1>1, <1>2, PTL DEF Spec, KeepsTheLock, LK!Spec

(* No lock screen is ever running without anchor holding the descriptor its*)
(* exit is heard through and the pipe its last word comes by.              *)
THEOREM LockScreenIsAlwaysHeld == Spec => []LockScreenIsHeld
<1>1. LK!Init => LK!TypeOK /\ LK!ScreenIsHeld
  <2>1. LK!NoLockScreen \in LK!Keeper
    BY SupervisorAssumption DEF LK!NoLockScreen, LK!Keeper
  <2>2. LK!NoScreen \in LK!Screen /\ ~LK!NoScreen.alive
    BY DEF LK!NoScreen, LK!NewScreen, LK!Screen
  <2> QED
    BY <2>1, <2>2 DEF LK!Init, LK!TypeOK, LK!ScreenIsHeld
<1>2. LK!TypeOK /\ LK!ScreenIsHeld /\ [LK!Next]_(LK!lockVars) => (LK!TypeOK /\ LK!ScreenIsHeld)'
  BY KeeperStepTypes, KeeperStepHolds
<1>3. Spec => LK!Spec
  BY AnchorKeepsTheLock DEF KeepsTheLock
<1> QED
  BY <1>1, <1>2, <1>3, PTL DEF LK!Spec, LockScreenIsHeld

(* What is left of a keeper that has buried its lock screen.               *)
LEMMA BuriedIs ==
  ASSUME NEW k \in LK!Keeper, NEW s \in LK!Screen
  PROVE  /\ LK!Buried(k, s) \in LK!Keeper
         /\ ~LK!Buried(k, s).child
         /\ LK!Buried(k, s).crashes = k.crashes
         /\ LK!Buried(k, s).outcome = IF k.pipe THEN LK!OutcomeOf(k, s.unread) ELSE k.outcome
<1> DEFINE j == [k EXCEPT !.child = FALSE]
           d == LK!Drained(j, s, TRUE)
           c == j.confirmed \/ "locked" \in s.unread
           w == LK!OutcomeOf(j, s.unread)
           p == s.alive /\ ~TRUE
<1>1. /\ j \in LK!Keeper /\ j.pipe = k.pipe /\ j.outcome = k.outcome
      /\ j.crashes = k.crashes /\ ~j.child
  BY DEF LK!Keeper
<1>2. w = LK!OutcomeOf(k, s.unread)
  BY <1>1 DEF LK!OutcomeOf
<1>3. d = IF ~j.pipe THEN j ELSE [j EXCEPT !.confirmed = c, !.outcome = w, !.pipe = p]
  BY DEF LK!Drained
<1>4. LK!Buried(k, s) = [d EXCEPT !.confirmed = FALSE]
  BY DEF LK!Buried
<1> HIDE DEF j
<1>5. d \in LK!Keeper
  BY <1>1, KeeperParts
<1> HIDE DEF d, c, w, p
<1>6. /\ d.child = j.child /\ d.crashes = j.crashes
      /\ d.outcome = IF j.pipe THEN w ELSE j.outcome
  BY <1>1, <1>3 DEF LK!Keeper
<1>7. LK!Buried(k, s) \in LK!Keeper
  BY KeeperParts
<1> QED
  BY <1>1, <1>2, <1>4, <1>5, <1>6, <1>7 DEF LK!Keeper

(* What a held lock screen has said and nobody has read is still to be had: *)
(* its pipe goes only once it is dead and read to the end.                 *)
LastWordIsThere == keeper.child /\ ~keeper.pipe => screen.unread = {}

LEMMA KeeperStepLosesNoWord ==
  ASSUME LK!TypeOK, LK!ScreenIsHeld, LastWordIsThere, [LK!Next]_(LK!lockVars)
  PROVE  LastWordIsThere'
<1>k. keeper \in LK!Keeper /\ screen \in LK!Screen
  BY DEF LK!TypeOK
<1>s. ASSUME NEW k \in LK!Keeper, ~k.child, LK!StartLock(k) PROVE LastWordIsThere'
  BY <1>s DEF LK!StartLock, LK!Started, LK!Keeper, LastWordIsThere
<1>b. LK!Buried(keeper, screen) \in LK!Keeper /\ ~LK!Buried(keeper, screen).child
  BY <1>k, BuriedIs
<1>1. CASE LK!AnswerLock
  BY <1>k, <1>1, <1>s DEF LK!AnswerLock, LK!lockVars, LastWordIsThere
<1>2. CASE LK!DrainLock
  BY <1>k, <1>2 DEF LK!DrainLock, LK!Screen, LastWordIsThere
<1>3. CASE LK!LockExited
  <2> DEFINE b == LK!Buried(keeper, screen)
  <2> HIDE DEF b
  <2>1. b \in LK!Keeper /\ ~b.child /\ b.crashes \in Nat
    BY <1>b, SupervisorAssumption DEF b, LK!Keeper
  <2>2. ASSUME NEW kept \in 0 .. b.crashes
        PROVE  LK!Crashed(b, kept) \in LK!Keeper /\ ~LK!Crashed(b, kept).child
    <3>1. LK!Crashed(b, kept) \in LK!Keeper
      BY <1>k, <2>1, KeeperParts
    <3>2. LK!Crashed(b, kept).child = b.child
      BY <2>1 DEF LK!Crashed, LK!Keeper
    <3> QED
      BY <2>1, <3>1, <3>2
  <2>3. ~[b EXCEPT !.crashes = 0].child
    BY <2>1 DEF LK!Keeper
  <2> QED
    BY <1>3, <1>s, <2>1, <2>2, <2>3 DEF LK!LockExited, LastWordIsThere, b
<1>4. CASE LK!BuryOnly
  BY <1>4, <1>b DEF LK!BuryOnly, LastWordIsThere
<1>5. CASE LK!EndLock
  BY <1>k, <1>5 DEF LK!EndLock, LK!Keeper, LastWordIsThere
<1>6. ASSUME NEW w \in LK!Words, LK!ScreenSays(w) PROVE LastWordIsThere'
  BY <1>6 DEF LK!ScreenSays, LK!ScreenIsHeld, LastWordIsThere
<1>7. CASE LK!ScreenDies
  BY <1>k, <1>7 DEF LK!ScreenDies, LK!Screen, LastWordIsThere
<1>8. CASE UNCHANGED LK!lockVars
  BY <1>8 DEF LK!lockVars, LastWordIsThere
<1> QED
  BY <1>1, <1>2, <1>3, <1>4, <1>5, <1>6, <1>7, <1>8 DEF LK!Next

(* A dead lock screen that said its outcome, read by now or not.           *)
LEMMA KeeperStepHearsTheOutcome ==
  ASSUME LK!TypeOK, LastWordIsThere, [LK!Next]_(LK!lockVars),
         keeper.child, ~screen.alive, LK!SaidItsOutcome
  PROVE  ~screen'.alive /\ keeper'.crashes <= keeper.crashes
<1>k. keeper \in LK!Keeper /\ screen \in LK!Screen /\ keeper.crashes \in Nat
  BY SupervisorAssumption DEF LK!TypeOK, LK!Keeper
<1>n. LK!NoScreen.alive = FALSE
  BY DEF LK!NoScreen, LK!NewScreen
<1>z. \A n \in Nat : n <= n /\ 0 <= n
  OBVIOUS
<1> SUFFICES screen'.alive = FALSE /\ (keeper'.crashes = keeper.crashes \/ keeper'.crashes = 0)
  BY <1>k, <1>z
<1>a. screen.alive = FALSE
  BY <1>k DEF LK!Screen
<1> DEFINE b == LK!Buried(keeper, screen)
<1>b. b.outcome \in LK!LastWords /\ b.crashes = keeper.crashes /\ b \in LK!Keeper
  <2>1. /\ b \in LK!Keeper /\ b.crashes = keeper.crashes
        /\ b.outcome = IF keeper.pipe THEN LK!OutcomeOf(keeper, screen.unread) ELSE keeper.outcome
    BY <1>k, BuriedIs
  <2>2. ~keeper.pipe => keeper.outcome \in LK!LastWords
    BY DEF LK!SaidItsOutcome, LastWordIsThere
  <2>3. LK!OutcomeOf(keeper, screen.unread) \in LK!LastWords
    BY DEF LK!OutcomeOf, LK!SaidItsOutcome
  <2> QED
    BY <2>1, <2>2, <2>3
<1> HIDE DEF b
<1>1. CASE LK!AnswerLock
  BY <1>a, <1>1 DEF LK!AnswerLock, LK!lockVars
<1>2. CASE LK!DrainLock
  <2>1. LK!Drained(keeper, screen, FALSE).crashes = keeper.crashes
    BY <1>k DEF LK!Drained, LK!Keeper
  <2>2. [screen EXCEPT !.unread = {}].alive = screen.alive
    BY <1>k DEF LK!Screen
  <2> QED
    BY <1>2, <1>a, <2>1, <2>2 DEF LK!DrainLock
<1>3. CASE LK!LockExited
  <2>1. b.outcome # "none"
    BY <1>b DEF LK!LastWords
  <2>2. screen' = LK!NoScreen /\ keeper' \in {b, [b EXCEPT !.crashes = 0]}
    BY <1>3, <2>1 DEF LK!LockExited, b
  <2>3. [b EXCEPT !.crashes = 0].crashes = 0
    BY <1>b DEF LK!Keeper
  <2> QED
    BY <1>n, <1>b, <2>2, <2>3
<1>4. CASE LK!BuryOnly
  BY <1>4, <1>n, <1>b DEF LK!BuryOnly, b
<1>5. CASE LK!EndLock
  BY <1>5, <1>k, <1>n DEF LK!EndLock, LK!Keeper
<1>6. CASE (\E w \in LK!Words : LK!ScreenSays(w)) \/ LK!ScreenDies
  BY <1>6 DEF LK!ScreenSays, LK!ScreenDies
<1>7. CASE UNCHANGED LK!lockVars
  <2>1. keeper' = keeper /\ screen' = screen
    BY <1>7 DEF LK!lockVars
  <2> QED
    BY <1>a, <2>1
<1> QED
  BY <1>1, <1>2, <1>3, <1>4, <1>5, <1>6, <1>7 DEF LK!Next

(* A lock screen that said what became of it is not taken for one that     *)
(* crashed, whichever of its exit and its last word poll reports first.    *)
THEOREM TheHeardAreNotRestarted == Spec => OnlyACrashIsRestarted
<1>1. LK!Init => LK!TypeOK /\ LK!ScreenIsHeld /\ LastWordIsThere
  <2>1. LK!NoLockScreen \in LK!Keeper /\ ~LK!NoLockScreen.child
    BY SupervisorAssumption DEF LK!NoLockScreen, LK!Keeper
  <2>2. LK!NoScreen \in LK!Screen /\ ~LK!NoScreen.alive
    BY DEF LK!NoScreen, LK!NewScreen, LK!Screen
  <2> QED
    BY <2>1, <2>2 DEF LK!Init, LK!TypeOK, LK!ScreenIsHeld, LastWordIsThere
<1>2. LK!TypeOK /\ LK!ScreenIsHeld /\ LastWordIsThere /\ [LK!Next]_(LK!lockVars)
      => (LK!TypeOK /\ LK!ScreenIsHeld /\ LastWordIsThere)'
  BY KeeperStepTypes, KeeperStepHolds, KeeperStepLosesNoWord
<1>3. LK!TypeOK /\ LastWordIsThere /\ [LK!Next]_(LK!lockVars)
      => [keeper.child /\ ~screen.alive /\ LK!SaidItsOutcome
          => ~screen'.alive /\ keeper'.crashes <= keeper.crashes]_(LK!lockVars)
  BY KeeperStepHearsTheOutcome
<1>4. Spec => LK!Spec
  BY AnchorKeepsTheLock DEF KeepsTheLock
<1> QED
  BY <1>1, <1>2, <1>3, <1>4, PTL DEF LK!Spec, OnlyACrashIsRestarted, LK!OnlyACrashIsRestarted

-----------------------------------------------------------------------------
(* The types of the rest. *)
LEMMA StepTypes ==
  ASSUME TypeOK, [Next]_vars
  PROVE  TypeOK'
<1>0. N \in Nat /\ MaxFailures \in Nat
  BY SupervisorAssumption
<1>k. LK!TypeOK'
  BY StepsAreKeeperSteps, KeeperStepTypes DEF TypeOK
<1>p. ASSUME NextOfBringUp
      PROVE  pc' \in {"start", "services"} /\ at' \in 1 .. N + 1 /\ needs' \in Seq(0 .. N)
  <2>1. CASE at < N
    <3>1. at + 1 \in 1 .. N + 1
      BY <1>0, <2>1 DEF TypeOK
    <3> QED
      BY <1>p, <2>1, <3>1, BeginStartTypes DEF NextOfBringUp
  <2> QED
    BY <1>p, <2>1 DEF NextOfBringUp, TypeOK
<1>1. CASE StartCompositor
  <2>1. 1 \in 1 .. N + 1
    BY <1>0
  <2>2. BeginStart(1) => pc' = "start" /\ at' \in 1 .. N + 1 /\ needs' \in Seq(0 .. N)
    BY <2>1, BeginStartTypes
  <2> QED
    BY <1>1, <1>k, <2>2
       DEF StartCompositor, FailedToStart, TearDown, TypeOK, Child, Owners, Methods,
           flagVars, serviceVars, lifeVars, askVars
<1>2. CASE SocketAccepts
  <2>1. Tail(needs) \in Seq(0 .. N)
    BY <1>2, HeadTailProperties DEF SocketAccepts, TypeOK
  <2> QED
    BY <1>2, <1>k, <2>1
       DEF SocketAccepts, TypeOK, flagVars, serviceVars, lifeVars, askVars
<1>3. CASE Spawned
  BY <1>3, <1>k, <1>p
     DEF Spawned, TypeOK, Child, flagVars, serviceVars, askVars
<1>4. CASE StartFails
  BY <1>4, <1>k
     DEF StartFails, FailedToStart, CompositorExited, TearDown, TypeOK, Child, Owners,
         flagVars, serviceVars, lifeVars, askVars
<1>5. CASE StartServices
  <2>1. N + 1 \in 1 .. N + 1
    BY <1>0
  <2>2. BeginStart(N + 1) => pc' = "start" /\ at' \in 1 .. N + 1 /\ needs' \in Seq(0 .. N)
    BY <2>1, BeginStartTypes
  <2> QED
    BY <1>5, <1>k, <2>2 DEF StartServices, TypeOK, flagVars, lifeVars, askVars
<1>6. CASE FirstRunSettled
  BY <1>6, <1>k DEF FirstRunSettled, TypeOK, Child, flagVars, lifeVars, askVars
<1>7. CASE Poll
  BY <1>7, <1>k
     DEF Poll, TearDown, TypeOK, Owners, flagVars, serviceVars, lifeVars, askVars
<1>8. CASE HandleCompositor
  BY <1>8, <1>k
     DEF HandleCompositor, CompositorExited, TearDown, TypeOK, Child, Owners,
         serviceVars, lifeVars, askVars
<1>9. ASSUME NEW i \in Comps, ComponentExited(i) PROVE TypeOK'
  <2>1. [child EXCEPT ![i] = "none"] \in [Comps -> Child]
    BY DEF TypeOK, Child
  <2>5. Streak(i) \in Nat
    BY <1>0 DEF Streak, TypeOK
  <2>2. CASE CompositorIsGone
    BY <1>9, <1>k, <2>1, <2>2
       DEF ComponentExited, CompositorExited, TearDown, TypeOK, Child, Owners,
           serviceVars, askVars
  <2>3. CASE ~CompositorIsGone /\ GivesUp(i)
    <3>1. /\ pc' = "grace" /\ batch' = {} /\ stopping' = TRUE /\ exitCode' = 1
          /\ UNCHANGED <<at, needs, compositor, failures>>
      BY <1>9, <1>0, <2>3, <2>5 DEF ComponentExited, TearDown
    <3> QED
      BY <1>9, <1>k, <2>1, <3>1 DEF ComponentExited, TypeOK, serviceVars, askVars
  <2>4. CASE ~CompositorIsGone /\ ~GivesUp(i)
    <3>1. Streak(i) \in 0 .. MaxFailures
      BY <1>0, <2>4 DEF GivesUp, Streak, TypeOK
    <3>2. i \in 1 .. N + 1
      BY <1>0 DEF Comps
    <3>3. BeginStart(i) /\ batch' = batch \ {i}
      BY <1>9, <2>4, <1>0, <3>1 DEF ComponentExited
    <3>4. pc' = "start" /\ at' \in 1 .. N + 1 /\ needs' \in Seq(0 .. N)
      BY <3>2, <3>3, BeginStartTypes
    <3>5. failures' = [failures EXCEPT ![i] = Streak(i)]
      BY <1>9, <2>4, <1>0, <3>1 DEF ComponentExited
    <3>6. failures' \in [Comps -> 0 .. MaxFailures]
      BY <3>1, <3>5 DEF TypeOK
    <3> QED
      BY <1>9, <1>0, <1>k, <2>1, <2>4, <3>1, <3>3, <3>4, <3>6
         DEF ComponentExited, TypeOK, flagVars, serviceVars, askVars
  <2> QED
    BY <1>0, <2>2, <2>3, <2>4, <2>5
<1>10. CASE HandleControl
  BY <1>10, <1>k
     DEF HandleControl, TearDown, NextOwner, TypeOK, Owners, serviceVars, lifeVars
<1>11. CASE LockExited
  BY <1>11, <1>k
     DEF LockExited, CompositorExited, TearDown, NextOwner, TypeOK, Child, Owners,
         serviceVars, lifeVars, askVars
<1>n. ASSUME NEW o \in Owners, NextOwner(o)
      PROVE  pc' \in {"poll", "batch"} /\ batch' \in SUBSET Owners
  BY <1>n DEF NextOwner, TypeOK
<1>o. {Compositor, Control, Lock, LockPipe, FirstRun, Signal} \subseteq Owners
  BY <1>0 DEF Compositor, Control, Lock, LockPipe, FirstRun, Signal, Owners
<1>12. CASE DrainLock
  <2>1. pc' \in {"poll", "batch"} /\ batch' \in SUBSET Owners
    BY <1>12, <1>n, <1>o DEF DrainLock
  <2> QED
    BY <1>12, <1>k, <2>1 DEF DrainLock, TypeOK, flagVars, serviceVars, lifeVars, askVars
<1>23. CASE FirstRunExited
  <2>1. pc' \in {"poll", "batch"} /\ batch' \in SUBSET Owners
    BY <1>23, <1>n, <1>o DEF FirstRunExited
  <2> QED
    BY <1>23, <1>k, <2>1
       DEF FirstRunExited, TypeOK, Child, flagVars, serviceVars, lifeVars, askVars
<1>24. CASE BatchDone
  BY <1>24, <1>k DEF BatchDone, TypeOK, flagVars, serviceVars, lifeVars, askVars
<1>13. CASE HandleSignal
  BY <1>13, <1>k DEF HandleSignal, TearDown, TypeOK, Owners, serviceVars, lifeVars
<1>14. CASE Reap
  <2>1. /\ child' \in [Comps -> Child] /\ firstRun' \in Child /\ compositor' \in Child
        /\ accepting' \in SUBSET (0 .. N)
    BY <1>14 DEF Reap, ReapAll, Child
  <2>2. UNCHANGED <<at, needs, batch, stopping, exitCode, signals, up, lifeVars, asked, signalled>>
    BY <1>14 DEF Reap, ReapAll, flagVars, lifeVars, askVars
  <2>3. pc' = "down" /\ control' = FALSE
    BY <1>14 DEF Reap, ReapAll
  <2> QED
    BY <1>k, <2>1, <2>2, <2>3 DEF TypeOK, lifeVars
<1>15. CASE CompositorDies
  <2>1. accepting' \in SUBSET (0 .. N)
    BY <1>15 DEF CompositorDies, TypeOK
  <2>2. compositor' \in Child
    BY <1>15 DEF CompositorDies, Child
  <2>3. UNCHANGED <<anchorVars, child, firstRun, clock, life, asked, signalled>>
    BY <1>15 DEF CompositorDies, askVars
  <2> QED
    BY <1>k, <2>1, <2>2, <2>3 DEF anchorVars, TypeOK, flagVars, serviceVars
<1>20. CASE FirstRunDies
  BY <1>20, <1>k DEF FirstRunDies, anchorVars, TypeOK, Child, flagVars, serviceVars, askVars
<1>25. CASE SignalComes
  BY <1>25, <1>k DEF SignalComes, anchorVars, TypeOK, flagVars, serviceVars
<1>21. CASE ScreenSteps
  BY <1>21, <1>k
     DEF ScreenSteps, anchorVars, TypeOK, flagVars, serviceVars, askVars
<1>16. ASSUME NEW i \in Comps, ComponentDies(i) PROVE TypeOK'
  <2>1. child' \in [Comps -> Child] /\ accepting' \in SUBSET (0 .. N)
    BY <1>16 DEF ComponentDies, TypeOK, Child
  <2>2. life' \in [Comps -> {"short", "healthy"}]
    BY <1>16 DEF ComponentDies, TypeOK
  <2> QED
    BY <1>16, <1>k, <2>1, <2>2
       DEF ComponentDies, anchorVars, TypeOK, flagVars, serviceVars, askVars
<1>22. ASSUME NEW i \in Comps, TimePasses(i) PROVE TypeOK'
  BY <1>22, <1>k DEF TimePasses, anchorVars, TypeOK, flagVars, serviceVars, askVars
<1>17. ASSUME NEW s \in 0 .. N, Listens(s) PROVE TypeOK'
  BY <1>17, <1>k DEF Listens, anchorVars, TypeOK, flagVars, serviceVars, askVars
<1>18. ASSUME NEW m \in Methods, Asks(m) PROVE TypeOK'
  BY <1>18, <1>k DEF Asks, anchorVars, TypeOK, flagVars, serviceVars
<1>19. CASE Done \/ UNCHANGED vars
  BY <1>19, <1>k DEF Done, vars, TypeOK, flagVars, serviceVars, lifeVars, askVars
<1> QED
  BY <1>1, <1>2, <1>3, <1>4, <1>5, <1>6, <1>7, <1>8, <1>9, <1>10, <1>11, <1>12, <1>13,
     <1>14, <1>15, <1>16, <1>17, <1>18, <1>19, <1>20, <1>21, <1>22, <1>23,
     <1>24, <1>25 DEF Next, Anchor, World

(* anchor's state stays what its fields can hold; above all no component's *)
(* streak passes the policy's limit, and it is always at a component there *)
(* is.                                                                     *)
THEOREM SupervisorTypes == Spec => []TypeOK
<1>1. Init => TypeOK
  <2>1. Init => LK!TypeOK
    <3>1. LK!NoLockScreen \in LK!Keeper
      BY SupervisorAssumption DEF LK!NoLockScreen, LK!Keeper
    <3>2. LK!NoScreen \in LK!Screen
      BY DEF LK!NoScreen, LK!NewScreen, LK!Screen
    <3> QED
      BY <3>1, <3>2 DEF Init, LK!Init, LK!TypeOK
  <2>2. 1 \in 1 .. N + 1 /\ 0 \in 0 .. MaxFailures /\ <<>> \in Seq(0 .. N)
    BY SupervisorAssumption
  <2>3. ASSUME Init PROVE /\ failures \in [Comps -> 0 .. MaxFailures]
                          /\ child \in [Comps -> Child]
                          /\ clock \in [Comps -> {"short", "healthy"}]
                          /\ life \in [Comps -> {"short", "healthy"}]
    BY <2>2, <2>3 DEF Init, Child
  <2> QED
    BY <2>1, <2>2, <2>3 DEF Init, TypeOK, Child
<1>2. TypeOK /\ [Next]_vars => TypeOK'
  BY StepTypes
<1> QED
  BY <1>1, <1>2, PTL DEF Spec

-----------------------------------------------------------------------------
(* What is down stays down, and what is not is brought down by Reap alone. *)
LEMMA StepKeepsTheEnd ==
  ASSUME TypeOK, NothingOutlivesTheSession, [Next]_vars
  PROVE  NothingOutlivesTheSession'
<1> USE DEF NothingOutlivesTheSession
<1>1. CASE Reap
  <2>1. ~keeper'.child /\ ~screen'.alive
    BY <1>1 DEF Reap, ReapAll, LK!EndLock, LK!NoScreen, LK!NewScreen, TypeOK, LK!TypeOK, LK!Keeper
  <2> QED
    BY <1>1, <2>1 DEF Reap, ReapAll
<1>2. CASE StartCompositor \/ SocketAccepts \/ StartFails
  BY <1>2 DEF StartCompositor, SocketAccepts, StartFails, BeginStart, FailedToStart,
              CompositorExited, TearDown
<1>3. CASE Spawned \/ StartServices \/ FirstRunSettled \/ Poll
  BY <1>3 DEF Spawned, NextOfBringUp, BeginStart, StartServices, FirstRunSettled, Poll,
              TearDown
<1>4. CASE HandleCompositor \/ HandleControl \/ HandleSignal \/ LockExited
  BY <1>4 DEF HandleCompositor, HandleControl, HandleSignal, LockExited, CompositorExited,
              TearDown, NextOwner
<1>5. CASE DrainLock \/ FirstRunExited \/ BatchDone \/ \E i \in Comps : ComponentExited(i)
  BY <1>5 DEF DrainLock, FirstRunExited, BatchDone, ComponentExited, CompositorExited,
              TearDown, NextOwner, BeginStart
<1>6. CASE CompositorDies \/ FirstRunDies \/ SignalComes
  BY <1>6 DEF CompositorDies, FirstRunDies, SignalComes, anchorVars, serviceVars
<1>7. CASE ScreenSteps
  <2>1. screen.alive
    BY <1>7 DEF ScreenSteps, LK!ScreenSays, LK!ScreenDies
  <2> QED
    BY <1>7, <2>1 DEF ScreenSteps, anchorVars
<1>8. ASSUME NEW i \in Comps, ComponentDies(i) \/ TimePasses(i)
      PROVE NothingOutlivesTheSession'
  BY <1>8 DEF ComponentDies, TimePasses, anchorVars
<1>9. ASSUME NEW s \in 0 .. N, Listens(s) PROVE NothingOutlivesTheSession'
  <2>1. s = 0 \/ s \in Comps
    BY SupervisorAssumption DEF Comps
  <2> QED
    BY <1>9, <2>1 DEF Listens, anchorVars
<1>10. ASSUME NEW m \in Methods, Asks(m) PROVE NothingOutlivesTheSession'
  BY <1>10 DEF Asks, anchorVars
<1>11. CASE Done \/ UNCHANGED vars
  BY <1>11 DEF Done, vars
<1> QED
  BY <1>1, <1>2, <1>3, <1>4, <1>5, <1>6, <1>7, <1>8, <1>9, <1>10, <1>11
     DEF Next, Anchor, World

(* The session ends whole, however many components it has and whichever of *)
(* them, the lock screen and the Setup Assistant were dying as it ended.   *)
THEOREM TheSessionEndsWhole == Spec => []NothingOutlivesTheSession
<1>1. Init => NothingOutlivesTheSession
  BY DEF Init, NothingOutlivesTheSession
<1>2. TypeOK /\ NothingOutlivesTheSession /\ [Next]_vars => NothingOutlivesTheSession'
  BY StepKeepsTheEnd
<1> QED
  BY <1>1, <1>2, SupervisorTypes, PTL DEF Spec

(* The session is live only after bring_up: before the compositor's start  *)
(* it is not.                                                              *)
NotLiveYet == pc = "compositor" => ~up

LEMMA StepKeepsNotLive ==
  ASSUME NotLiveYet, [Next]_vars
  PROVE  NotLiveYet'
<1> USE DEF NotLiveYet
<1>1. CASE StartCompositor \/ SocketAccepts \/ Spawned \/ StartFails \/ StartServices
  BY <1>1 DEF StartCompositor, SocketAccepts, Spawned, StartFails, StartServices,
              NextOfBringUp, BeginStart, FailedToStart, CompositorExited, TearDown
<1>2. CASE FirstRunSettled \/ Poll \/ HandleCompositor \/ HandleSignal \/ Reap
  BY <1>2 DEF FirstRunSettled, Poll, HandleCompositor, HandleSignal, Reap, ReapAll,
              CompositorExited, TearDown
<1>3. CASE HandleControl \/ LockExited \/ DrainLock \/ FirstRunExited \/ BatchDone
  BY <1>3 DEF HandleControl, LockExited, DrainLock, FirstRunExited, BatchDone, NextOwner,
              CompositorExited, TearDown
<1>4. CASE \E i \in Comps : ComponentExited(i)
  BY <1>4 DEF ComponentExited, CompositorExited, TearDown, BeginStart
<1>5. CASE World
  BY <1>5 DEF World, CompositorDies, FirstRunDies, SignalComes, ScreenSteps, ComponentDies,
              TimePasses, Listens, Asks, anchorVars, serviceVars
<1>6. CASE Done \/ UNCHANGED vars
  BY <1>6 DEF Done, vars
<1> QED
  BY <1>1, <1>2, <1>3, <1>4, <1>5, <1>6 DEF Next, Anchor

(* A step in a live session whose compositor has exited. *)
LEMMA StepBlamesNobody ==
  ASSUME NotLiveYet, up, compositor = "exited", [Next]_vars
  PROVE  failures' = failures /\ exitCode' = exitCode
<1>1. CASE StartCompositor
  BY <1>1 DEF StartCompositor, NotLiveYet
<1>2. CASE SocketAccepts \/ Spawned \/ StartFails \/ StartServices \/ FirstRunSettled
  BY <1>2 DEF SocketAccepts, Spawned, StartFails, StartServices, FirstRunSettled, flagVars,
              lifeVars, CompositorIsGone
<1>3. CASE Poll \/ HandleCompositor \/ HandleSignal \/ Reap \/ HandleControl
  BY <1>3 DEF Poll, HandleCompositor, HandleSignal, Reap, ReapAll, HandleControl, flagVars,
              lifeVars
<1>4. CASE LockExited \/ DrainLock \/ FirstRunExited \/ BatchDone
  BY <1>4 DEF LockExited, DrainLock, FirstRunExited, BatchDone, flagVars, lifeVars
<1>5. CASE \E i \in Comps : ComponentExited(i)
  BY <1>5 DEF ComponentExited, CompositorIsGone
<1>6. CASE World
  BY <1>6 DEF World, CompositorDies, FirstRunDies, SignalComes, ScreenSteps, ComponentDies,
              TimePasses, Listens, Asks, anchorVars, flagVars
<1>7. CASE Done \/ UNCHANGED vars
  BY <1>7 DEF Done, vars
<1> QED
  BY <1>1, <1>2, <1>3, <1>4, <1>5, <1>6, <1>7 DEF Next, Anchor

(* However many components go with their compositor, and in whatever order *)
(* poll reports them, none of them is blamed for it.                       *)
THEOREM NobodyIsBlamed == Spec => LeavingIsNoFailure
<1>1. Init => NotLiveYet
  BY DEF Init, NotLiveYet
<1>2. NotLiveYet /\ [Next]_vars => NotLiveYet'
  BY StepKeepsNotLive
<1>3. NotLiveYet /\ [Next]_vars
      => [up /\ compositor = "exited" => failures' = failures /\ exitCode' = exitCode]_vars
  BY StepBlamesNobody
<1> QED
  BY <1>1, <1>2, <1>3, PTL DEF Spec, LeavingIsNoFailure
=============================================================================
