------------------------------- MODULE LockSeat -------------------------------
(***************************************************************************)
(* The seat's half of the session lock (undertow/src/seat.rs, and what it  *)
(* asks of compositor.rs): where the keys and the pointer go, before, while*)
(* and after the session is locked.  Everything here is dispatched by the  *)
(* one loop, so a handler is one step; what is interleaved is the clients',*)
(* the lock client's and the person's doings.                              *)
(*                                                                         *)
(* wlroots' part, as seat.rs and access.c rely on it: with a popup's grab  *)
(* on, keyboard enter and clear do nothing (so break_grabs enters the lock *)
(* surface again once the grab is ended); entering needs a keyboard; a     *)
(* surface that is destroyed is left by whatever was on it.  A lock surface*)
(* whose output went is still a surface, until its client closes it.       *)
(***************************************************************************)
EXTENDS SessionLock

CONSTANTS
  Desk, \* anything of the desktop: a window, a layer surface, a popup
  Stale \* a surface that was a lock surface, its output gone

ASSUME LockSeatAssumption ==
  /\ Desk \notin Outputs \cup {None, Stale}
  /\ Stale \notin Outputs \cup {None}

VARIABLES
  kbd,      \* what has the keyboard: an output stands for its lock surface
  ptr,      \* what the pointer has entered, the same way
  at,       \* the output the pointer is over
  keyboard, \* there is a keyboard in the seat
  grab,     \* a popup of the desktop has a grab
  bar,      \* keyboard_layer: a layer surface asked for the keys and has them
  window,   \* the desktop's window: "none", "mapped", or "front" (focused)
  drag,     \* a move or resize owns the pointer
  ebb       \* Ebb is open

seatVars == <<kbd, ptr, at, keyboard, grab, bar, window, drag, ebb>>
deskVars == <<keyboard, bar, window, drag, ebb>>
seatAllVars == <<sessionVars, seatVars>>

Places == Outputs \cup {None, Desk, Stale}

SeatTypeOK ==
  /\ TypeOK
  /\ kbd \in Places /\ ptr \in Places /\ at \in Outputs
  /\ window \in {"none", "mapped", "front"}
  /\ \A b \in {keyboard, grab, bar, drag, ebb} : b \in BOOLEAN

SeatInit ==
  /\ Init
  /\ at \in Outputs /\ keyboard \in BOOLEAN
  /\ kbd = None /\ ptr = None /\ grab = FALSE /\ bar = FALSE
  /\ window = "none" /\ drag = FALSE /\ ebb = FALSE

-----------------------------------------------------------------------------
(* lock_keyboard_target: the main display's lock surface, else any that drew. *)
Targets(d) == IF d = {} THEN {None} ELSE IF Main \in d THEN {Main} ELSE d

(* keyboard_enter, with no grab in the way. *)
Entered(k, t) == IF keyboard /\ t # None THEN t ELSE k

(* break_grabs: a grab that ends leaves the keys to the lock surface. *)
Broken(k, t) == IF grab THEN Entered(k, t) ELSE k

(* Mutant: where the lock screen has drawn nothing the desktop is found. *)
LockHoverFallsThrough(o, d) ==
  IF drag THEN ptr ELSE IF ebb THEN None ELSE IF o \in d THEN o ELSE Desk

(* What the pointer is told to enter, over output o of a locked session, *)
(* with lock surfaces drawn on d: the one there, unless a drag or Ebb     *)
(* takes the motion first.                                                *)
LockHover(o, d) ==
  IF drag THEN ptr ELSE IF ebb THEN None ELSE IF o \in d THEN o ELSE None

(* And of one that is not: whatever of the desktop is there, or nothing. *)
DeskHover(p) == IF drag THEN {p} ELSE IF ebb THEN {None} ELSE {Desk, None}

Leave(p, gone) == IF p \in gone THEN None ELSE p

-----------------------------------------------------------------------------
(* The lock's own events, with what the seat does at each (lock_event). *)

(* Mutant: the grab is not broken, and keyboard clear does nothing under it. *)
LocksUnderAGrab(c) ==
  /\ NewLock(c)
  /\ bar' = FALSE /\ drag' = FALSE
  /\ kbd' = IF grab THEN kbd ELSE None
  /\ ptr' = None
  /\ UNCHANGED <<at, keyboard, grab, window, ebb>>

(* Locked: nothing behind the lock keeps the pointer, the keys or a grab. *)
Locks(c) ==
  /\ NewLock(c)
  /\ grab' = FALSE /\ bar' = FALSE /\ drag' = FALSE
  /\ kbd' = None /\ ptr' = None
  /\ UNCHANGED <<at, keyboard, window, ebb>>

(* SurfaceCommitted: the keys if no lock surface has them, then rehover. *)
SurfaceCommitted(o) ==
  /\ Commit(o)
  /\ \E t \in Targets(drew') :
       kbd' = IF kbd \in surfaces THEN Broken(kbd, t) ELSE Entered(kbd, t)
  /\ grab' = FALSE
  /\ ptr' = LockHover(at, drew')
  /\ UNCHANGED <<at, deskVars>>

(* Unlocked: the keys to the window that was frontmost, or the topmost. *)
Unlocks ==
  /\ Unlock
  /\ window' = IF window = "mapped" THEN "front" ELSE window
  /\ kbd' = IF grab THEN IF kbd \in Outputs THEN Stale ELSE kbd
            ELSE IF window = "none" THEN None ELSE Entered(None, Desk)
  /\ ptr' \in DeskHover(None)
  /\ UNCHANGED <<at, keyboard, grab, bar, drag, ebb>>

(* The holder went: its surfaces with it, and the session stays locked. *)
HolderDies ==
  /\ LockGone
  /\ kbd' = Leave(kbd, Outputs \cup {Stale})
  /\ ptr' = Leave(ptr, Outputs \cup {Stale})
  /\ UNCHANGED <<at, grab, deskVars>>

LockSurfaceCloses(o) ==
  /\ SurfaceCloses(o)
  /\ kbd' = Leave(kbd, {o}) /\ ptr' = Leave(ptr, {o})
  /\ UNCHANGED <<at, grab, deskVars>>

LockSurfaceLosesOutput(o) ==
  /\ OutputLost(o)
  /\ kbd' = IF kbd = o THEN Stale ELSE kbd
  /\ ptr' = IF ptr = o THEN Stale ELSE ptr
  /\ UNCHANGED <<at, grab, deskVars>>

StaleCloses ==
  /\ Stale \in {kbd, ptr}
  /\ kbd' = Leave(kbd, {Stale}) /\ ptr' = Leave(ptr, {Stale})
  /\ UNCHANGED <<sessionVars, at, grab, deskVars>>

RestOfTheLock ==
  /\ \/ \E c \in Clients : Refuse(c) \/ RefusedLeaves(c)
     \/ \E o \in Outputs : NewLockSurface(o) \/ OutputReturned(o)
     \/ LockFrameDrawn
  /\ UNCHANGED seatVars

-----------------------------------------------------------------------------
(* Devices and the person. *)

(* attach_keyboard delivers the focus recorded before there was one. *)
KeyboardComes ==
  /\ ~keyboard /\ keyboard' = TRUE
  /\ \E t \in (IF locked THEN Targets(drew) ELSE IF window = "front" THEN {Desk} ELSE {None}) :
       kbd' = IF grab \/ t = None THEN kbd ELSE t
  /\ UNCHANGED <<sessionVars, ptr, at, grab, bar, window, drag, ebb>>

KeyboardGoes ==
  /\ keyboard /\ keyboard' = FALSE
  /\ UNCHANGED <<sessionVars, kbd, ptr, at, grab, bar, window, drag, ebb>>

(* What a key, a motion and a button do first, locked. *)
BreakGrabs ==
  /\ \E t \in Targets(drew) : kbd' = Broken(kbd, t)
  /\ grab' = FALSE

Motion(o) ==
  /\ at' = o
  /\ IF locked
     THEN BreakGrabs /\ ptr' = LockHover(o, drew)
     ELSE ptr' \in DeskHover(ptr) /\ UNCHANGED <<kbd, grab>>
  /\ UNCHANGED <<sessionVars, deskVars>>

(* A release ends a move or resize, locked or not. *)
Release ==
  /\ drag /\ drag' = FALSE
  /\ IF locked THEN BreakGrabs ELSE UNCHANGED <<kbd, grab>>
  /\ UNCHANGED <<sessionVars, ptr, at, keyboard, bar, window, ebb>>

(* A key or a press on the lock screen moves nothing else. *)
LockedInput ==
  /\ locked /\ grab
  /\ BreakGrabs
  /\ UNCHANGED <<sessionVars, ptr, at, deskVars>>

(* F3 and the like: intercept hears keys only while unlocked, *)
(* and with Ebb open a click puts it back.                     *)
ToggleEbb ==
  /\ ~locked
  /\ ebb \/ window # "none"
  /\ ebb' = ~ebb
  /\ UNCHANGED <<sessionVars, kbd, ptr, at, keyboard, grab, bar, window, drag>>

-----------------------------------------------------------------------------
(* The desktop's clients, who do as they did, locked or not. *)

(* place and focus: a window that maps behind the lock takes nothing. *)
WindowMaps ==
  /\ window = "none"
  /\ IF locked
     THEN window' = "mapped" /\ UNCHANGED <<kbd, bar>>
     ELSE /\ window' = "front" /\ bar' = FALSE
          /\ kbd' = IF grab THEN kbd ELSE Entered(kbd, Desk)
  /\ UNCHANGED <<sessionVars, ptr, at, keyboard, grab, drag, ebb>>

(* Mutant: nobody left to focus clears the keyboard, locked or not. *)
WindowClosesAndClears ==
  /\ window # "none" /\ window' = "none"
  /\ kbd' = None
  /\ ptr' \in {ptr, Leave(ptr, {Desk})}
  /\ drag' = FALSE
  /\ UNCHANGED <<sessionVars, at, keyboard, grab, bar, ebb>>

(* forget and focus_topmost: nobody to focus, unless the session is locked. *)
WindowCloses ==
  /\ window # "none" /\ window' = "none"
  /\ kbd' = IF locked THEN kbd ELSE None
  /\ ptr' \in {ptr, Leave(ptr, {Desk})}
  /\ drag' = FALSE
  /\ UNCHANGED <<sessionVars, at, keyboard, grab, bar, ebb>>

(* give_keyboard: the menu bar on a click, an exclusive layer as it maps. *)
GiveKeyboard ==
  /\ ~locked /\ ~bar /\ keyboard
  /\ bar' = TRUE
  /\ kbd' = IF grab THEN kbd ELSE Desk
  /\ UNCHANGED <<sessionVars, ptr, at, keyboard, grab, window, drag, ebb>>

RestoreKeyboard ==
  /\ ~locked /\ bar
  /\ bar' = FALSE
  /\ kbd' = IF grab THEN kbd ELSE IF window = "front" THEN Entered(kbd, Desk) ELSE None
  /\ UNCHANGED <<sessionVars, ptr, at, keyboard, grab, window, drag, ebb>>

(* xdg_popup.grab, and the popup going. *)
PopupGrabs ==
  /\ grab' = ~grab
  /\ UNCHANGED <<sessionVars, kbd, ptr, at, deskVars>>

(* A title bar pressed, or xdg_toplevel.move and resize: begin_move asks nothing. *)
DragBegins ==
  /\ window # "none" /\ ~drag
  /\ drag' = TRUE
  /\ UNCHANGED <<sessionVars, kbd, ptr, at, keyboard, grab, bar, window, ebb>>

SeatNext ==
  \/ \E c \in Clients : Locks(c)
  \/ \E o \in Outputs : \/ SurfaceCommitted(o) \/ LockSurfaceCloses(o)
                        \/ LockSurfaceLosesOutput(o) \/ Motion(o)
  \/ Unlocks \/ HolderDies \/ StaleCloses \/ RestOfTheLock
  \/ KeyboardComes \/ KeyboardGoes \/ Release \/ LockedInput \/ ToggleEbb
  \/ WindowMaps \/ WindowCloses \/ GiveKeyboard \/ RestoreKeyboard
  \/ PopupGrabs \/ DragBegins

SeatSpec == SeatInit /\ [][SeatNext]_seatAllVars

-----------------------------------------------------------------------------
(* Nothing of the desktop is reachable while the session is locked         *)
(* (session_lock.rs:5-6): whatever its clients do behind the lock, and     *)
(* whatever goes or comes, no key and no motion is theirs.                 *)
KeysStayOffTheDesktop == locked => kbd # Desk
PointerStaysOffTheDesktop == locked => ptr # Desk

(* A lock screen that has the keys keeps them, as long as it has the       *)
(* surface: no popup, no window and no second lock client takes them       *)
(* (focus_topmost, compositor.rs:908: clearing it left the lock screen     *)
(* deaf).  StaleCloses and the surface's own end are the only ways out.    *)
LockScreenKeepsTheKeys ==
  [][ \A o \in Outputs : kbd = o /\ o \in surfaces' => kbd' \in surfaces' ]_seatAllVars

(* The first surface drawn does get the keys, if there are any to have.    *)
DrawingTakesTheKeys ==
  [][ keyboard /\ drew # drew' /\ drew \subseteq drew' => kbd' \in surfaces' ]_seatAllVars

(* compositor.rs:908, "Locked: the keyboard is the lock screen's, whatever *)
(* closes behind it".  Beside it, though: the display the keys are on goes,*)
(* its surface is closed, and the other one is not given them.             *)
KeysGoToWhatIsLeft ==
  [][ locked' /\ kbd \in Outputs \cup {Stale} /\ drew' # {} => kbd' # None ]_seatAllVars

(* session_lock.rs:5-6, "the pointer and keys go to those surfaces alone": *)
(* moved over a lock surface, the pointer is on it.  An Ebb open as the    *)
(* session locks keeps the motion (seat.rs:736 does not ask is_locked).    *)
PointerReachesTheLockScreen ==
  [][ \A o \in Outputs : locked /\ Motion(o) /\ o \in drew /\ ~drag => ptr' = o ]_seatAllVars

(* The same, a client's move request having come behind the lock.          *)
NoDragBehindTheLock == locked => ~drag

(* session_lock.rs:34: at the unlock "the keys go back to the window that  *)
(* was frontmost".                                                         *)
KeysComeBack ==
  [][ locked /\ ~locked' /\ window # "none" /\ keyboard => kbd' = Desk ]_seatAllVars
=============================================================================
