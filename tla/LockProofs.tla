------------------------------ MODULE LockProofs ------------------------------
(***************************************************************************)
(* undertow's session lock for every set of clients and outputs: the lock  *)
(* itself (SessionLock), what the displays show of it (LockDisplays) and   *)
(* where the keys and the pointer go (LockSeat).  The displays and the     *)
(* seat each conjoin their own half to the lock's steps, so that what is   *)
(* proved of the lock holds of both; neither reads the other's variables.  *)
(***************************************************************************)
EXTENDS LockSeat, LockDisplays, TLAPS

-----------------------------------------------------------------------------
(* The lock itself. *)

(* Type correctness: in particular every surface listed is on an output   *)
(* wlroots has, and every one that drew is listed (session_lock.rs:51-65).*)
LEMMA LockTypes == Spec => []TypeOK
<1>1. Init => TypeOK
  BY SessionLockAssumption DEF Init, TypeOK
<1>2. TypeOK /\ [Next]_sessionVars => TypeOK'
  <2> SUFFICES ASSUME TypeOK, [Next]_sessionVars PROVE TypeOK'
    OBVIOUS
  <2> USE SessionLockAssumption DEF TypeOK, lockStateVars
  <2>1. ASSUME NEW c \in Clients, Refuse(c) \/ NewLock(c) \/ RefusedLeaves(c) PROVE TypeOK'
    BY <2>1 DEF Refuse, NewLock, RefusedLeaves
  <2>2. ASSUME NEW o \in Outputs, NewLockSurface(o) \/ Commit(o) \/ SurfaceCloses(o) PROVE TypeOK'
    BY <2>2 DEF NewLockSurface, Commit, SurfaceCloses
  <2>3. ASSUME NEW o \in Outputs, OutputLost(o) \/ OutputReturned(o) PROVE TypeOK'
    BY <2>3 DEF OutputLost, OutputReturned
  <2>4. CASE LockFrameDrawn
    BY <2>4 DEF LockFrameDrawn
  <2>5. CASE Unlock
    BY <2>5 DEF Unlock
  <2>6. CASE LockGone
    BY <2>6 DEF LockGone
  <2>7. CASE UNCHANGED sessionVars
    BY <2>7 DEF sessionVars
  <2> QED
    BY <2>1, <2>2, <2>3, <2>4, <2>5, <2>6, <2>7 DEF Next
<1> QED
  BY <1>1, <1>2, PTL DEF Spec

(***************************************************************************)
(* One lock at a time.  OneLockAtATime is inductive beside the types: a    *)
(* new lock is taken only from nobody, and whoever had it is idle by then. *)
(***************************************************************************)
THEOREM LockIsOne == Spec => []OneLockAtATime
<1>1. Init => OneLockAtATime
  BY SessionLockAssumption DEF Init, OneLockAtATime
<1>2. TypeOK /\ OneLockAtATime /\ [Next]_sessionVars => OneLockAtATime'
  <2> SUFFICES ASSUME TypeOK, OneLockAtATime, [Next]_sessionVars PROVE OneLockAtATime'
    OBVIOUS
  <2> USE SessionLockAssumption DEF TypeOK, OneLockAtATime, lockStateVars
  <2>1. ASSUME NEW c \in Clients, Refuse(c) PROVE OneLockAtATime'
    BY <2>1 DEF Refuse
  <2>2. ASSUME NEW c \in Clients, NewLock(c) PROVE OneLockAtATime'
    BY <2>2 DEF NewLock
  <2>3. ASSUME NEW c \in Clients, RefusedLeaves(c) PROVE OneLockAtATime'
    BY <2>3 DEF RefusedLeaves
  <2>4. ASSUME NEW o \in Outputs, NewLockSurface(o) \/ Commit(o) \/ SurfaceCloses(o)
        PROVE OneLockAtATime'
    BY <2>4 DEF NewLockSurface, Commit, SurfaceCloses
  <2>5. ASSUME NEW o \in Outputs, OutputLost(o) \/ OutputReturned(o) PROVE OneLockAtATime'
    BY <2>5 DEF OutputLost, OutputReturned
  <2>6. CASE LockFrameDrawn
    BY <2>6 DEF LockFrameDrawn
  <2>7. CASE Unlock
    BY <2>7 DEF Unlock
  <2>8. CASE LockGone
    BY <2>8 DEF LockGone
  <2>9. CASE UNCHANGED sessionVars
    BY <2>9 DEF sessionVars
  <2> QED
    BY <2>1, <2>2, <2>3, <2>4, <2>5, <2>6, <2>7, <2>8, <2>9 DEF Next
<1> QED
  BY <1>1, <1>2, LockTypes, PTL DEF Spec

(* A lock passes from one client to another only through nobody.           *)
THEOREM LockIsNotTakenOver == Spec => NoTakeover
<1>1. [Next]_sessionVars => (lock # None /\ lock' # None => lock' = lock)
  BY DEF Next, sessionVars, lockStateVars, Refuse, NewLock, RefusedLeaves, NewLockSurface, Commit,
         SurfaceCloses, OutputLost, OutputReturned, LockFrameDrawn, Unlock, LockGone
<1> QED
  BY <1>1, PTL DEF Spec, NoTakeover

(***************************************************************************)
(* undertow keeps the protocol's promise: every step of the lock's state   *)
(* is one of LockProtocol's or none.  OneLockAtATime is needed where the   *)
(* owed word is said: the holder is then one that was not told yet.        *)
(***************************************************************************)
THEOREM LockKeepsTheProtocol == Spec => KeepsTheProtocol
<1>1. Init => Protocol!Init
  BY SessionLockAssumption DEF Init, Protocol!Init
<1>2. TypeOK /\ OneLockAtATime /\ [Next]_sessionVars => [Protocol!Next]_(Protocol!protocolVars)
  <2> SUFFICES ASSUME TypeOK, OneLockAtATime, [Next]_sessionVars
               PROVE [Protocol!Next]_(Protocol!protocolVars)
    OBVIOUS
  <2> USE SessionLockAssumption DEF TypeOK, OneLockAtATime, lockStateVars, Protocol!protocolVars
  <2>1. ASSUME NEW c \in Clients, Refuse(c) \/ RefusedLeaves(c)
        PROVE UNCHANGED Protocol!protocolVars
    BY <2>1 DEF Refuse, RefusedLeaves
  <2>2. ASSUME NEW c \in Clients, NewLock(c) PROVE Protocol!Take(c)
    BY <2>2 DEF NewLock, Protocol!Take
  <2>3. ASSUME NEW o \in Outputs, \/ NewLockSurface(o) \/ Commit(o) \/ SurfaceCloses(o)
                                  \/ OutputLost(o) \/ OutputReturned(o)
        PROVE UNCHANGED Protocol!protocolVars
    BY <2>3 DEF NewLockSurface, Commit, SurfaceCloses, OutputLost, OutputReturned
  <2>4. CASE LockFrameDrawn
    <3>1. Protocol!Tell
      BY <2>4 DEF LockFrameDrawn, Protocol!Tell
    <3> QED
      BY <3>1 DEF Protocol!Next
  <2>5. CASE Unlock
    <3>1. Protocol!Give
      BY <2>5 DEF Unlock, Protocol!Give
    <3> QED
      BY <3>1 DEF Protocol!Next
  <2>6. CASE LockGone
    <3>1. Protocol!Lose
      BY <2>6 DEF LockGone, Protocol!Lose
    <3> QED
      BY <3>1 DEF Protocol!Next
  <2>7. CASE UNCHANGED sessionVars
    BY <2>7 DEF sessionVars
  <2> QED
    BY <2>1, <2>2, <2>3, <2>4, <2>5, <2>6, <2>7 DEF Next, Protocol!Next
<1> QED
  BY <1>1, <1>2, LockTypes, LockIsOne, PTL DEF Spec, Protocol!Spec, KeepsTheProtocol

-----------------------------------------------------------------------------
(* While the session is locked, a display that has hidden the desktop goes *)
(* on hiding it.                                                           *)

(* A step of the displays' is one of the lock's, or none of its business.  *)
LEMMA DisplayStepsAreLockSteps == [DisplaysNext]_allVars => [Next]_sessionVars
  BY DEF DisplaysNext, allVars, Next, Requests, Detach, Attach, Flip, Sleep, Wake, ServeSome,
         Serve, EndFrame

(* So undertow's loop keeps the lock as SessionLock says, in particular    *)
(* with one holder at a time, whatever it draws and when.                  *)
THEOREM DisplaysKeepTheLock == DisplaysSpec => Spec
<1>1. DisplaysInit => Init
  BY DEF DisplaysInit
<1> QED
  BY <1>1, DisplayStepsAreLockSteps, PTL DEF DisplaysSpec, Spec

(* What the run of the displays checks: the loop that draws them keeps the *)
(* protocol's promise, and so a lock client that dies leaves the session   *)
(* locked whatever its displays were doing.                                *)
THEOREM DisplaysKeepTheProtocol == DisplaysSpec => KeepsTheProtocol
  BY DisplaysKeepTheLock, LockKeepsTheProtocol

(* Type correctness of the displays. *)
LEMMA DisplaysTypes == DisplaysSpec => []DisplaysTypeOK
<1>1. DisplaysInit => DisplaysTypeOK
  BY SessionLockAssumption DEF DisplaysInit, DisplaysTypeOK, Init, TypeOK, Content
<1>2. DisplaysTypeOK /\ TypeOK' /\ [DisplaysNext]_allVars => DisplaysTypeOK'
  <2> SUFFICES ASSUME DisplaysTypeOK, TypeOK', [DisplaysNext]_allVars PROVE DisplaysTypeOK'
    OBVIOUS
  <2> USE DEF DisplaysTypeOK, Content, displayVars, Blanked
  <2>1. CASE Requests
    BY <2>1 DEF Requests
  <2>2. ASSUME NEW o \in Outputs, Detach(o) \/ Attach(o) \/ Flip(o) PROVE DisplaysTypeOK'
    BY <2>2 DEF Detach, Attach, Flip
  <2>3. CASE Sleep \/ Wake
    BY <2>3 DEF Sleep, Wake
  <2>4. CASE ServeSome
    BY <2>4 DEF ServeSome, Serve, Frame
  <2>5. CASE EndFrame
    BY <2>5 DEF EndFrame
  <2>6. CASE UNCHANGED allVars
    BY <2>6 DEF allVars
  <2> QED
    BY <2>1, <2>2, <2>3, <2>4, <2>5, <2>6 DEF DisplaysNext
<1> QED
  BY <1>1, <1>2, DisplaysKeepTheLock, LockTypes, PTL DEF DisplaysSpec

(***************************************************************************)
(* A display once hidden stays hidden until the session is unlocked: the   *)
(* frames drawn under a lock are the lock's, and a flip shows a frame that *)
(* was drawn.  Only the types are needed beside the step itself.           *)
(***************************************************************************)
THEOREM HiddenStaysHidden == DisplaysSpec => OnceHiddenStaysHidden
<1>1. ASSUME DisplaysTypeOK, [DisplaysNext]_allVars, locked, locked',
             NEW o \in Outputs, Hidden(o)
      PROVE  Hidden(o)'
  <2> USE <1>1 DEF Hidden, DisplaysTypeOK, Blanked
  <2>1. CASE Requests
    BY <2>1 DEF Requests, displayVars
  <2>2. ASSUME NEW p \in Outputs, Detach(p) \/ Attach(p) \/ Flip(p) PROVE Hidden(o)'
    BY <2>2 DEF Detach, Attach, Flip, displayVars
  <2>3. CASE Sleep \/ Wake
    BY <2>3 DEF Sleep, Wake
  <2>4. CASE ServeSome
    BY <2>4 DEF ServeSome, Serve, Frame
  <2>5. CASE EndFrame
    BY <2>5 DEF EndFrame
  <2>6. CASE UNCHANGED allVars
    BY <2>6 DEF allVars, displayVars
  <2> QED
    BY <2>1, <2>2, <2>3, <2>4, <2>5, <2>6 DEF DisplaysNext
<1>2. DisplaysTypeOK /\ [DisplaysNext]_allVars
      => (locked /\ locked' => \A o \in Outputs : Hidden(o) => Hidden(o)')
  BY <1>1
<1> QED
  BY <1>2, DisplaysTypes, PTL DEF DisplaysSpec, OnceHiddenStaysHidden

-----------------------------------------------------------------------------
(* Whatever is plugged in, mapped, grabbed or dragged behind a lock,       *)
(* neither the keys nor the pointer are the desktop's.                     *)

(* A step of the seat's is one of the lock's, or none of its business. *)
LEMMA SeatStepsAreLockSteps == [SeatNext]_seatAllVars => [Next]_sessionVars
  BY DEF SeatNext, seatAllVars, Next, sessionVars, Locks, SurfaceCommitted, Unlocks, HolderDies,
         LockSurfaceCloses, LockSurfaceLosesOutput, StaleCloses, RestOfTheLock,
         KeyboardComes, KeyboardGoes, Motion, Release, LockedInput, ToggleEbb, WindowMaps,
         WindowCloses, GiveKeyboard, RestoreKeyboard, PopupGrabs, DragBegins

(* So all that is proved of SessionLock holds of a session with a seat.   *)
THEOREM SeatKeepsTheLock == SeatSpec => Spec
<1>1. SeatInit => Init
  BY DEF SeatInit
<1> QED
  BY <1>1, SeatStepsAreLockSteps, PTL DEF SeatSpec, Spec

(* And it keeps the protocol's promise, the keyboards and grabs included.  *)
THEOREM SeatKeepsTheProtocol == SeatSpec => KeepsTheProtocol
  BY SeatKeepsTheLock, LockKeepsTheProtocol

(* Whatever the drawn lock surfaces, the target is one of them or nobody. *)
LEMMA TargetsAreSurfaces ==
  ASSUME NEW d \in SUBSET Outputs
  PROVE  Targets(d) \in SUBSET (Outputs \cup {None})
  BY SessionLockAssumption DEF Targets

(* Type correctness of the seat. *)
LEMMA SeatTypes == SeatSpec => []SeatTypeOK
<1>1. SeatInit => SeatTypeOK
  BY SessionLockAssumption DEF SeatInit, SeatTypeOK, Init, TypeOK, Places
<1>2. SeatTypeOK /\ TypeOK' /\ [SeatNext]_seatAllVars => SeatTypeOK'
  <2> SUFFICES ASSUME SeatTypeOK, TypeOK', [SeatNext]_seatAllVars PROVE SeatTypeOK'
    OBVIOUS
  <2>t. Targets(drew) \in SUBSET (Outputs \cup {None}) /\ Targets(drew') \in SUBSET (Outputs \cup {None})
    BY TargetsAreSurfaces DEF SeatTypeOK, TypeOK
  <2> USE SessionLockAssumption, LockSeatAssumption
      DEF SeatTypeOK, Places, deskVars, seatVars, Entered, Broken, Leave, LockHover, DeskHover
  <2>1. ASSUME NEW c \in Clients, Locks(c) PROVE SeatTypeOK'
    BY <2>1 DEF Locks
  <2>2. ASSUME NEW o \in Outputs, SurfaceCommitted(o) PROVE SeatTypeOK'
    BY <2>2, <2>t DEF SurfaceCommitted
  <2>3. ASSUME NEW o \in Outputs, LockSurfaceCloses(o) \/ LockSurfaceLosesOutput(o)
        PROVE SeatTypeOK'
    BY <2>3 DEF LockSurfaceCloses, LockSurfaceLosesOutput
  <2>4. ASSUME NEW o \in Outputs, Motion(o) PROVE SeatTypeOK'
    BY <2>4, <2>t DEF Motion, BreakGrabs
  <2>5. CASE Unlocks
    BY <2>5 DEF Unlocks
  <2>6. CASE HolderDies \/ StaleCloses \/ RestOfTheLock
    BY <2>6 DEF HolderDies, StaleCloses, RestOfTheLock
  <2>7. CASE KeyboardComes \/ KeyboardGoes
    BY <2>7, <2>t DEF KeyboardComes, KeyboardGoes
  <2>8. CASE Release \/ LockedInput
    BY <2>8, <2>t DEF Release, LockedInput, BreakGrabs
  <2>9. CASE WindowMaps \/ WindowCloses
    BY <2>9 DEF WindowMaps, WindowCloses
  <2>10. CASE GiveKeyboard \/ RestoreKeyboard
    BY <2>10 DEF GiveKeyboard, RestoreKeyboard
  <2>11. CASE PopupGrabs \/ DragBegins \/ ToggleEbb
    BY <2>11 DEF PopupGrabs, DragBegins, ToggleEbb
  <2>12. CASE UNCHANGED seatAllVars
    BY <2>12 DEF seatAllVars
  <2> QED
    BY <2>1, <2>2, <2>3, <2>4, <2>5, <2>6, <2>7, <2>8, <2>9, <2>10, <2>11, <2>12 DEF SeatNext
<1> QED
  BY <1>1, <1>2, SeatKeepsTheLock, LockTypes, PTL DEF SeatSpec

(***************************************************************************)
(* Nothing of the desktop is reachable while the session is locked.  The   *)
(* two invariants are inductive together with the types: the only steps    *)
(* that lock the session leave the keys and the pointer with nobody, and   *)
(* while it is locked both move only to lock surfaces.                     *)
(***************************************************************************)
THEOREM DesktopIsOutOfReach ==
  SeatSpec => [](KeysStayOffTheDesktop /\ PointerStaysOffTheDesktop)
<1> DEFINE Inv == KeysStayOffTheDesktop /\ PointerStaysOffTheDesktop
<1>1. SeatInit => Inv
  BY DEF SeatInit, Init, KeysStayOffTheDesktop, PointerStaysOffTheDesktop
<1>2. SeatTypeOK /\ Inv /\ [SeatNext]_seatAllVars => Inv'
  <2> SUFFICES ASSUME SeatTypeOK, Inv, [SeatNext]_seatAllVars PROVE Inv'
    OBVIOUS
  <2>d. drew \in SUBSET Outputs /\ surfaces \in SUBSET Outputs
    BY DEF SeatTypeOK, TypeOK
  <2>t. Targets(drew) \in SUBSET (Outputs \cup {None})
    BY <2>d, TargetsAreSurfaces
  <2> USE LockSeatAssumption
      DEF KeysStayOffTheDesktop, PointerStaysOffTheDesktop, Entered, Broken, Leave, LockHover
  <2>1. ASSUME NEW c \in Clients, Locks(c) PROVE Inv'
    BY <2>1 DEF Locks
  <2>2. ASSUME NEW o \in Outputs, SurfaceCommitted(o) PROVE Inv'
    <3>1. drew' \in SUBSET Outputs /\ locked' = locked
      BY <2>2, <2>d DEF SurfaceCommitted, Commit, lockStateVars
    <3>2. Targets(drew') \in SUBSET (Outputs \cup {None})
      BY <3>1, TargetsAreSurfaces
    <3> QED
      BY <2>2, <3>1, <3>2 DEF SurfaceCommitted
  <2>3. ASSUME NEW o \in Outputs, LockSurfaceCloses(o) PROVE Inv'
    BY <2>3 DEF LockSurfaceCloses, SurfaceCloses, lockStateVars
  <2>4. ASSUME NEW o \in Outputs, LockSurfaceLosesOutput(o) PROVE Inv'
    BY <2>4 DEF LockSurfaceLosesOutput, OutputLost, lockStateVars
  <2>5. ASSUME NEW o \in Outputs, Motion(o) PROVE Inv'
    BY <2>5, <2>d, <2>t DEF Motion, BreakGrabs, sessionVars
  <2>6. CASE Unlocks
    BY <2>6 DEF Unlocks, Unlock
  <2>7. CASE HolderDies
    BY <2>7 DEF HolderDies, LockGone
  <2>8. CASE StaleCloses
    BY <2>8 DEF StaleCloses, sessionVars
  <2>9. CASE RestOfTheLock
    BY <2>9 DEF RestOfTheLock, Refuse, RefusedLeaves, NewLockSurface, OutputReturned,
                LockFrameDrawn, lockStateVars, seatVars
  <2>10. CASE KeyboardComes
    BY <2>10, <2>t DEF KeyboardComes, sessionVars
  <2>11. CASE KeyboardGoes \/ ToggleEbb \/ PopupGrabs \/ DragBegins
    BY <2>11 DEF KeyboardGoes, ToggleEbb, PopupGrabs, DragBegins, sessionVars
  <2>12. CASE Release \/ LockedInput
    BY <2>12, <2>t DEF Release, LockedInput, BreakGrabs, sessionVars
  <2>13. CASE WindowMaps \/ WindowCloses
    BY <2>13 DEF WindowMaps, WindowCloses, sessionVars
  <2>14. CASE GiveKeyboard \/ RestoreKeyboard
    BY <2>14 DEF GiveKeyboard, RestoreKeyboard, sessionVars
  <2>15. CASE UNCHANGED seatAllVars
    BY <2>15 DEF seatAllVars, sessionVars, seatVars
  <2> QED
    BY <2>1, <2>2, <2>3, <2>4, <2>5, <2>6, <2>7, <2>8, <2>9, <2>10, <2>11, <2>12, <2>13,
       <2>14, <2>15 DEF SeatNext
<1> QED
  BY <1>1, <1>2, SeatTypes, PTL DEF SeatSpec

(***************************************************************************)
(* A lock screen that has the keys keeps them while it has the surface.    *)
(* The step that could take them is a break of somebody's grab, which      *)
(* hands them to the target; and the target of a locked session that has   *)
(* drawn is a lock surface.                                                *)
(***************************************************************************)
THEOREM LockScreenKeepsItsKeys == SeatSpec => LockScreenKeepsTheKeys
<1>1. ASSUME SeatTypeOK, OneLockAtATime, [SeatNext]_seatAllVars,
             NEW o \in Outputs, kbd = o, o \in surfaces'
      PROVE  kbd' \in surfaces'
  <2>d. drew \in SUBSET surfaces /\ surfaces \in SUBSET Outputs /\ o # None
    BY <1>1, SessionLockAssumption DEF SeatTypeOK, TypeOK
  <2>t. drew # {} => Targets(drew) \subseteq surfaces
    BY <2>d, SessionLockAssumption DEF Targets
  <2>n. drew = {} => Targets(drew) = {None}
    BY DEF Targets
  <2>u. surfaces # {} => locked
    BY <1>1 DEF OneLockAtATime
  <2> USE <1>1 DEF Entered, Broken, Leave, sessionVars
  <2>1. ASSUME NEW c \in Clients, Locks(c) PROVE kbd' \in surfaces'
    BY <2>1 DEF Locks, NewLock, OneLockAtATime
  <2>2. ASSUME NEW p \in Outputs, SurfaceCommitted(p) PROVE kbd' \in surfaces'
    <3>1. p \in drew' /\ drew' \subseteq surfaces' /\ surfaces' = surfaces
      BY <2>2, <2>d DEF SurfaceCommitted, Commit
    <3>2. Targets(drew') \subseteq surfaces'
      BY <3>1 DEF Targets
    <3> QED
      BY <2>2, <3>1, <3>2 DEF SurfaceCommitted
  <2>3. ASSUME NEW p \in Outputs, LockSurfaceCloses(p) PROVE kbd' \in surfaces'
    BY <2>3 DEF LockSurfaceCloses, SurfaceCloses
  <2>4. ASSUME NEW p \in Outputs, LockSurfaceLosesOutput(p) PROVE kbd' \in surfaces'
    BY <2>4 DEF LockSurfaceLosesOutput, OutputLost
  <2>5. ASSUME NEW p \in Outputs, Motion(p) PROVE kbd' \in surfaces'
    BY <2>5, <2>t, <2>n DEF Motion, BreakGrabs
  <2>6. CASE Unlocks \/ HolderDies
    BY <2>6 DEF Unlocks, Unlock, HolderDies, LockGone
  <2>7. CASE StaleCloses
    BY <2>7, LockSeatAssumption DEF StaleCloses
  <2>8. CASE RestOfTheLock
    BY <2>8 DEF RestOfTheLock, seatVars
  <2>9. CASE KeyboardComes
    BY <2>9, <2>t, <2>n, <2>u DEF KeyboardComes
  <2>10. CASE KeyboardGoes \/ ToggleEbb \/ PopupGrabs \/ DragBegins
    BY <2>10 DEF KeyboardGoes, ToggleEbb, PopupGrabs, DragBegins
  <2>11. CASE Release \/ LockedInput
    BY <2>11, <2>t, <2>n DEF Release, LockedInput, BreakGrabs
  <2>12. CASE WindowMaps \/ WindowCloses
    BY <2>12, <2>u DEF WindowMaps, WindowCloses
  <2>13. CASE GiveKeyboard \/ RestoreKeyboard
    BY <2>13, <2>u DEF GiveKeyboard, RestoreKeyboard
  <2>14. CASE UNCHANGED seatAllVars
    BY <2>14 DEF seatAllVars, seatVars
  <2> QED
    BY <2>1, <2>2, <2>3, <2>4, <2>5, <2>6, <2>7, <2>8, <2>9, <2>10, <2>11, <2>12, <2>13,
       <2>14 DEF SeatNext
<1>2. SeatTypeOK /\ OneLockAtATime /\ [SeatNext]_seatAllVars
      => \A o \in Outputs : kbd = o /\ o \in surfaces' => kbd' \in surfaces'
  BY <1>1
<1> QED
  BY <1>2, SeatTypes, SeatKeepsTheLock, LockIsOne, PTL DEF SeatSpec, LockScreenKeepsTheKeys

(* Of the two, the pointer's half by its name. *)
THEOREM PointerIsOutOfReach == SeatSpec => []PointerStaysOffTheDesktop
<1>1. KeysStayOffTheDesktop /\ PointerStaysOffTheDesktop => PointerStaysOffTheDesktop
  OBVIOUS
<1> QED
  BY <1>1, DesktopIsOutOfReach, PTL

(***************************************************************************)
(* Whichever lock surface is drawn first gets the keys, whoever had them:  *)
(* a drawing is SurfaceCommitted's alone, and the target it gives the keys *)
(* to has drawn.                                                           *)
(***************************************************************************)
THEOREM TheDrawnGetTheKeys == SeatSpec => DrawingTakesTheKeys
<1>1. ASSUME SeatTypeOK, [SeatNext]_seatAllVars, keyboard, drew # drew', drew \subseteq drew'
      PROVE  kbd' \in surfaces'
  <2>d. drew \in SUBSET surfaces /\ surfaces \in SUBSET Outputs
    BY <1>1 DEF SeatTypeOK, TypeOK
  <2>1. ASSUME NEW o \in Outputs, SurfaceCommitted(o) PROVE kbd' \in surfaces'
    <3>1. drew' # {} /\ drew' \subseteq surfaces' /\ surfaces' = surfaces
      BY <2>1, <2>d DEF SurfaceCommitted, Commit
    <3>2. Targets(drew') \subseteq surfaces'
      BY <3>1 DEF Targets
    <3>3. None \notin surfaces'
      BY <2>d, <3>1, SessionLockAssumption
    <3>4. PICK t \in Targets(drew') :
             kbd' = IF kbd \in surfaces THEN Broken(kbd, t) ELSE Entered(kbd, t)
      BY <2>1 DEF SurfaceCommitted
    <3> QED
      BY <1>1, <3>1, <3>2, <3>3, <3>4 DEF Broken, Entered
  <2>2. ASSUME NEW c \in Clients, Locks(c) PROVE FALSE
    BY <1>1, <2>2 DEF Locks, NewLock
  <2>3. ASSUME NEW o \in Outputs, LockSurfaceCloses(o) \/ LockSurfaceLosesOutput(o)
        PROVE  FALSE
    BY <1>1, <2>3 DEF LockSurfaceCloses, SurfaceCloses, LockSurfaceLosesOutput, OutputLost
  <2>4. CASE Unlocks \/ HolderDies
    BY <1>1, <2>4 DEF Unlocks, Unlock, HolderDies, LockGone
  <2>5. CASE RestOfTheLock
    BY <1>1, <2>5 DEF RestOfTheLock, Refuse, RefusedLeaves, NewLockSurface, OutputReturned,
                      LockFrameDrawn
  <2>6. ASSUME NEW o \in Outputs, Motion(o) PROVE FALSE
    BY <1>1, <2>6 DEF Motion, sessionVars
  <2>7. CASE \/ StaleCloses \/ KeyboardComes \/ KeyboardGoes \/ Release \/ LockedInput \/ ToggleEbb
             \/ WindowMaps \/ WindowCloses \/ GiveKeyboard \/ RestoreKeyboard
             \/ PopupGrabs \/ DragBegins \/ UNCHANGED seatAllVars
    BY <1>1, <2>7
       DEF StaleCloses, KeyboardComes, KeyboardGoes, Release, LockedInput, ToggleEbb, WindowMaps,
           WindowCloses, GiveKeyboard, RestoreKeyboard, PopupGrabs, DragBegins, seatAllVars,
           sessionVars
  <2> QED
    BY <1>1, <2>1, <2>2, <2>3, <2>4, <2>5, <2>6, <2>7 DEF SeatNext
<1>2. SeatTypeOK /\ [SeatNext]_seatAllVars
      => (keyboard /\ drew # drew' /\ drew \subseteq drew' => kbd' \in surfaces')
  BY <1>1
<1> QED
  BY <1>2, SeatTypes, PTL DEF SeatSpec, DrawingTakesTheKeys
=============================================================================
