----------------------------- MODULE LockDisplays -----------------------------
(***************************************************************************)
(* What the displays show around a lock.  undertow is one loop: it waits   *)
(* for the next frame's deadline dispatching clients and devices, draws    *)
(* the outputs that are due (Conductor::serve_next), and ends the pass     *)
(* (end_frame), where a `locked` owed is said.  A frame drawn is not a     *)
(* frame shown: the commit queues a flip, and may be refused.              *)
(***************************************************************************)
EXTENDS SessionLock

VARIABLES
  phase,  \* "wait": dispatching; "drew": outputs were served, end_frame is next
  asleep, \* the displays sleep (U.9): submit draws nothing
  drawn,  \* o -> what the last commit the driver took holds
  shown   \* o -> what the glass shows

displayVars == <<phase, asleep, drawn, shown>>
allVars == <<sessionVars, displayVars>>

(* A frame hides the desktop or it does not; a display that is off, gone, *)
(* or back and not drawn on yet shows nothing.                            *)
Content == {"desktop", "locked", "blank"}

DisplaysTypeOK ==
  /\ TypeOK
  /\ phase \in {"wait", "drew"}
  /\ asleep \in BOOLEAN
  /\ drawn \in [Outputs -> Content]
  /\ shown \in [Outputs -> Content]

DisplaysInit ==
  /\ Init
  /\ phase = "wait" /\ asleep = FALSE
  /\ drawn = [o \in Outputs |-> "desktop"]
  /\ shown = [o \in Outputs |-> "desktop"]

-----------------------------------------------------------------------------
(* Dispatched while the loop waits. *)

Requests ==
  /\ phase = "wait"
  /\ \/ \E c \in Clients : Refuse(c) \/ NewLock(c) \/ RefusedLeaves(c)
     \/ \E o \in Outputs : NewLockSurface(o) \/ Commit(o) \/ SurfaceCloses(o)
     \/ Unlock \/ LockGone
  /\ UNCHANGED displayVars

Blanked(f, O) == [o \in Outputs |-> IF o \in O THEN "blank" ELSE f[o]]

(* detach: the VT is another's, or the cable was pulled. *)
Detach(o) ==
  /\ phase = "wait" /\ OutputLost(o)
  /\ drawn' = Blanked(drawn, {o}) /\ shown' = Blanked(shown, {o})
  /\ UNCHANGED <<phase, asleep>>

(* attach: a new output shows nothing until drawn. *)
Attach(o) ==
  /\ phase = "wait" /\ OutputReturned(o)
  /\ UNCHANGED displayVars

(* display_sleep_tick: set_asleep on every output.  The disabling commit *)
(* may be refused, which is logged; the output is asleep all the same.   *)
Sleep ==
  /\ phase = "wait" /\ ~asleep
  /\ asleep' = TRUE
  /\ \E off \in SUBSET attached :
       drawn' = Blanked(drawn, off) /\ shown' = Blanked(shown, off)
  /\ UNCHANGED <<phase, sessionVars>>

(* activity: a key, a motion, a button. *)
Wake ==
  /\ phase = "wait" /\ asleep
  /\ asleep' = FALSE
  /\ UNCHANGED <<phase, drawn, shown, sessionVars>>

-----------------------------------------------------------------------------
(* The loop's own steps. *)

(* Mutant: only a lock somebody holds hides the desktop. *)
FrameWhileHeld == IF lock # None THEN "locked" ELSE "desktop"

(* latch_and_composite: locked, nothing of the desktop is in the frame. *)
Frame == IF locked THEN "locked" ELSE "desktop"

(* serve_next fires the outputs in `due`; the driver takes the commits of `taken`. *)
Serve(due, taken) ==
  /\ phase = "wait" /\ phase' = "drew"
  /\ due # {} /\ taken \subseteq due
  /\ drawn' = [o \in Outputs |-> IF o \in taken \cap attached /\ ~asleep THEN Frame ELSE drawn[o]]
  /\ UNCHANGED <<asleep, shown, sessionVars>>

(* Mutant: the pass ends and nobody is told. *)
EndFrameUntold ==
  /\ phase = "drew" /\ phase' = "wait"
  /\ UNCHANGED <<asleep, drawn, shown, sessionVars>>

EndFrame ==
  /\ phase = "drew" /\ phase' = "wait"
  /\ IF owed THEN LockFrameDrawn ELSE UNCHANGED sessionVars
  /\ UNCHANGED <<asleep, drawn, shown>>

(* The flip a commit queued. *)
Flip(o) ==
  /\ shown[o] # drawn[o]
  /\ shown' = [shown EXCEPT ![o] = drawn[o]]
  /\ UNCHANGED <<phase, asleep, drawn, sessionVars>>

ServeSome == \E due \in SUBSET Outputs : \E taken \in SUBSET due : Serve(due, taken)

DisplaysNext ==
  \/ Requests
  \/ \E o \in Outputs : Detach(o) \/ Attach(o) \/ Flip(o)
  \/ Sleep \/ Wake \/ ServeSome \/ EndFrame

DisplaysSpec == DisplaysInit /\ [][DisplaysNext]_allVars

(* Every output comes due again and again: its plan is kept until it fires *)
(* and cannot recede (metronome.rs:374-381); the driver does not refuse an *)
(* output for ever, and a flip it took is shown.  Nothing of the clients,  *)
(* the cables or the person.                                               *)
Draws(o) == \E due \in SUBSET Outputs : \E taken \in SUBSET due : o \in taken /\ Serve(due, taken)

Fairness ==
  /\ WF_allVars(EndFrame)
  /\ \A o \in Outputs : SF_allVars(Draws(o)) /\ WF_allVars(Flip(o))

FairDisplaysSpec == DisplaysSpec /\ Fairness

-----------------------------------------------------------------------------
(* While the session is locked a display that has stopped showing the      *)
(* desktop, with no frame of it on the way, never shows it again: not for  *)
(* a lost holder, a new one, a display asleep or plugged back in           *)
(* (session_lock.rs:4, "nothing of the desktop is shown").                 *)
Hidden(o) == drawn[o] # "desktop" /\ shown[o] # "desktop"

OnceHiddenStaysHidden ==
  [][ locked /\ locked' => \A o \in Outputs : Hidden(o) => Hidden(o)' ]_allVars

(* `locked` is owed only until the pass that drew ends: whoever asked is   *)
(* told, or is gone (session_lock.rs:15).                                  *)
EveryLockIsAnswered == \A c \in Clients : client[c] = "waiting" ~> client[c] # "waiting"

(* A lock hides the desktop in the end, on every display that is awake.    *)
LockHidesTheDesktop ==
  \A o \in Outputs : locked ~> (Hidden(o) \/ asleep \/ ~locked)

(* session_lock.rs:14-15: `locked` is said after a frame, "so the frame    *)
(* that hides everything has been drawn before the client is told".  The   *)
(* pass that said it drew the outputs that were due, and no others.        *)
ToldOnceDrawn == \A c \in Clients :
  client[c] = "told" => \A o \in Outputs : drawn[o] # "desktop"

(* The same of a session with one display: only a refused commit is left   *)
(* to come between (ext-session-lock-v1.xml:87-90, "must not be sent until *)
(* a new "locked" frame ... has been presented on all outputs").           *)
ToldOncePresented == \A c \in Clients :
  client[c] = "told" => \A o \in Outputs : shown[o] # "desktop"

(* session_lock.rs:4-5: from the lock until it unlocks nothing of the      *)
(* desktop is shown; a lock that found the displays asleep included.       *)
AsleepHidesTheDesktop ==
  \A o \in Outputs : (locked /\ asleep) ~> (Hidden(o) \/ ~locked \/ ~asleep)
=============================================================================
