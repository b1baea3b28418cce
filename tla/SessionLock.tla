----------------------------- MODULE SessionLock ------------------------------
(***************************************************************************)
(* undertow's half of ext-session-lock-v1 (undertow/src/session_lock.rs):  *)
(* who holds the lock, the lock surfaces that screen has made, and the     *)
(* `locked` it is owed.  LockDisplays adds what the displays show and      *)
(* LockSeat where the keys and the pointer go; both EXTEND this module and *)
(* conjoin their own half of each step.                                    *)
(*                                                                         *)
(* wlroots is outside the repository, modelled by what session_lock.rs     *)
(* relies on: an unlock before `locked` is a protocol error that kills the *)
(* client; a lock that goes takes its lock surfaces with it, and so does   *)
(* an output.  So `surfaces` are always the holder's, one to an output.    *)
(***************************************************************************)
EXTENDS FiniteSets

CONSTANTS
  Clients, \* those that may bind the lock manager
  Outputs,
  Main,    \* the layout's main display
  None

ASSUME SessionLockAssumption ==
  /\ Main \in Outputs
  /\ None \notin Clients \cup Outputs

VARIABLES
  lock,     \* LockState.lock: the holder, or None
  locked,   \* LockState.locked: held, or abandoned
  owed,     \* LockState.locked_owed
  client,   \* c -> where the client is with its own lock object
  attached, \* the outputs wlroots has
  surfaces, \* LockState.surfaces, by output
  drew      \* those of them with a buffer

sessionVars == <<lock, locked, owed, client, attached, surfaces, drew>>
lockStateVars == <<lock, locked, owed, client>>

TypeOK ==
  /\ lock \in Clients \cup {None}
  /\ locked \in BOOLEAN /\ owed \in BOOLEAN
  /\ client \in [Clients -> {"idle", "waiting", "told", "refused"}]
  /\ attached \in SUBSET Outputs
  /\ surfaces \in SUBSET attached
  /\ drew \in SUBSET surfaces

Init ==
  /\ lock = None /\ locked = FALSE /\ owed = FALSE
  /\ client = [c \in Clients |-> "idle"]
  /\ attached = Outputs /\ surfaces = {} /\ drew = {}

-----------------------------------------------------------------------------

(* new_lock: somebody holds it and keeps it, or it is this client's now. *)
Refuse(c) ==
  /\ client[c] = "idle" /\ lock # None
  /\ client' = [client EXCEPT ![c] = "refused"]
  /\ UNCHANGED <<lock, locked, owed, attached, surfaces, drew>>

NewLock(c) ==
  /\ client[c] = "idle" /\ lock = None
  /\ lock' = c /\ locked' = TRUE /\ owed' = TRUE
  /\ client' = [client EXCEPT ![c] = "waiting"]
  /\ UNCHANGED <<attached, surfaces, drew>>

(* `finished` is answered with `destroy`. *)
RefusedLeaves(c) ==
  /\ client[c] = "refused"
  /\ client' = [client EXCEPT ![c] = "idle"]
  /\ UNCHANGED <<lock, locked, owed, attached, surfaces, drew>>

(* new_lock_surface: for an output without one, and nothing drawn on it yet. *)
NewLockSurface(o) ==
  /\ lock # None /\ o \in attached \ surfaces
  /\ surfaces' = surfaces \cup {o}
  /\ UNCHANGED <<lockStateVars, attached, drew>>

Commit(o) ==
  /\ o \in surfaces
  /\ drew' = drew \cup {o}
  /\ UNCHANGED <<lockStateVars, attached, surfaces>>

(* The lock surface's destroy, whether its client's or its output's. *)
SurfaceCloses(o) ==
  /\ o \in surfaces
  /\ surfaces' = surfaces \ {o} /\ drew' = drew \ {o}
  /\ UNCHANGED <<lockStateVars, attached>>

OutputLost(o) ==
  /\ o \in attached
  /\ attached' = attached \ {o}
  /\ surfaces' = surfaces \ {o} /\ drew' = drew \ {o}
  /\ UNCHANGED lockStateVars

OutputReturned(o) ==
  /\ o \in Outputs \ attached
  /\ attached' = attached \cup {o}
  /\ UNCHANGED <<lockStateVars, surfaces, drew>>

(* lock_frame_drawn: the end of the loop's pass; nothing owed, nothing said. *)
LockFrameDrawn ==
  /\ owed
  /\ owed' = FALSE
  /\ client' = IF lock = None THEN client ELSE [client EXCEPT ![lock] = "told"]
  /\ UNCHANGED <<lock, locked, attached, surfaces, drew>>

(* unlocked *)
Unlock ==
  /\ lock # None /\ client[lock] = "told"
  /\ lock' = None /\ locked' = FALSE
  /\ client' = [client EXCEPT ![lock] = "idle"]
  /\ surfaces' = {} /\ drew' = {}
  /\ UNCHANGED <<owed, attached>>

(* Mutant: the lock ends with its holder. *)
LockEndsWithHolder ==
  /\ lock # None
  /\ lock' = None /\ locked' = FALSE /\ owed' = FALSE
  /\ client' = [client EXCEPT ![lock] = "idle"]
  /\ surfaces' = {} /\ drew' = {}
  /\ UNCHANGED attached

(* lock_gone with the lock still held: its client went, or was killed. *)
LockGone ==
  /\ lock # None
  /\ lock' = None /\ owed' = FALSE
  /\ client' = [client EXCEPT ![lock] = "idle"]
  /\ surfaces' = {} /\ drew' = {}
  /\ UNCHANGED <<locked, attached>>

Next ==
  \/ \E c \in Clients : Refuse(c) \/ NewLock(c) \/ RefusedLeaves(c)
  \/ \E o \in Outputs : \/ NewLockSurface(o) \/ Commit(o) \/ SurfaceCloses(o)
                        \/ OutputLost(o) \/ OutputReturned(o)
  \/ LockFrameDrawn \/ Unlock \/ LockGone

Spec == Init /\ [][Next]_sessionVars

-----------------------------------------------------------------------------
(* One lock at a time (session_lock.rs:11): whoever is waiting for         *)
(* `locked`, or was told it, is the holder; a holder is waiting exactly    *)
(* while it is owed the word; and there is no lock surface of anybody else.*)
OneLockAtATime ==
  /\ \A c \in Clients : client[c] \in {"waiting", "told"} <=> c = lock
  /\ owed <=> lock # None /\ client[lock] = "waiting"
  /\ lock # None => locked
  /\ lock = None => surfaces = {}

(* A refused client is no threat to the holder: the lock it asked for and  *)
(* lost changes nothing, now or as it leaves (session_lock.rs:106-112).    *)
(* A lock passes from one client to another only through nobody.           *)
NoTakeover == [][lock # None /\ lock' # None => lock' = lock]_sessionVars

Protocol == INSTANCE LockProtocol
              WITH holder <- lock, told <- lock # None /\ client[lock] = "told"

(* undertow keeps the protocol's promise: in particular a lock client that *)
(* dies without unlocking leaves the session locked (session_lock.rs:13).  *)
KeepsTheProtocol == Protocol!Spec
=============================================================================
