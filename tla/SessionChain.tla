----------------------------- MODULE SessionChain -----------------------------
(***************************************************************************)
(* Who may believe that the session is locked.  Four parties in a chain:   *)
(* abyss-idle asks anchor to lock and polls `status` until it says locked  *)
(* (idlebin/src/main.rs); anchor keeps the lock screen (LockKeeper) and    *)
(* knows what it read on its pipe; the lock screen (aqua/src/lock_screen.rs*)
(* and aquademo's lock scene) asks the compositor and prints what it hears;*)
(* the compositor holds the lock (LockProtocol, which SessionLock          *)
(* implements).                                                            *)
(*                                                                         *)
(* A dead lock screen's hang-up reaches the compositor before the next     *)
(* one's request, which is another process's connection made later.  There *)
(* is no lock client but anchor's; with one, `finished` would be answered  *)
(* as a failed connection is.                                              *)
(***************************************************************************)
EXTENDS Naturals, Sequences

CONSTANTS
  LockCrashLimit, \* see LockKeeper
  LockClient,     \* the lock screen, as a client of the compositor
  None

ASSUME SessionChainAssumption == LockCrashLimit \in Nat /\ LockClient # None

VARIABLES
  keeper, screen,       \* anchor and the process it keeps: LockKeeper
  holder, locked, told, \* the compositor: LockProtocol
  phase,                \* the lock screen: "started", "asked", "open", "unlocking", "finished"
  link,                 \* its connection to the compositor: "up" or "cut"
  unheard,              \* an unlock is on its way to the compositor
  idle                  \* abyss-idle: "rest", "polling", "ready"

LK == INSTANCE LockKeeper
Compositor == INSTANCE LockProtocol WITH Clients <- {LockClient}

lkVars == <<keeper, screen>>
compositorVars == <<holder, locked, told>>
clientVars == <<phase, link, unheard>>
vars == <<lkVars, compositorVars, clientVars, idle>>

TypeOK ==
  /\ LK!TypeOK
  /\ holder \in {LockClient, None} /\ locked \in BOOLEAN /\ told \in BOOLEAN
  /\ phase \in {"started", "asked", "open", "unlocking", "finished"}
  /\ link \in {"up", "cut"} /\ unheard \in BOOLEAN
  /\ idle \in {"rest", "polling", "ready"}

Init ==
  /\ LK!Init /\ Compositor!Init
  /\ phase = "finished" /\ link = "up" /\ unheard = FALSE
  /\ idle = "rest"

-----------------------------------------------------------------------------
(* A step of anchor's that may start a lock screen. *)
StartsAfresh ==
  /\ IF screen'.alive /\ ~screen.alive THEN phase' = "started" /\ link' = "up"
                                       ELSE UNCHANGED <<phase, link>>
  /\ UNCHANGED unheard

(* lock: anchor answers `already`, starts one, or says why it could not. *)
AskToLock ==
  /\ idle = "rest"
  /\ LK!AnswerLock /\ StartsAfresh
  /\ idle' = IF keeper'.child THEN "polling" ELSE "rest"
  /\ UNCHANGED compositorVars

(* Mutant: a lock screen that runs is a session that is locked. *)
StatusSaysRunning == keeper.child

(* lock_and_confirm's loop: `status` says locked, or five seconds are over. *)
StatusSaysLocked == keeper.child /\ keeper.confirmed

Confirm ==
  /\ idle = "polling" /\ StatusSaysLocked
  /\ idle' = "ready"
  /\ UNCHANGED <<lkVars, compositorVars, clientVars>>

GiveUp ==
  /\ idle = "polling"
  /\ idle' = "rest"
  /\ UNCHANGED <<lkVars, compositorVars, clientVars>>

(* The machine slept, or switched to the login window, and is back. *)
Resume ==
  /\ idle = "ready"
  /\ idle' = "rest"
  /\ UNCHANGED <<lkVars, compositorVars, clientVars>>

DrainLock == LK!DrainLock /\ UNCHANGED <<compositorVars, clientVars, idle>>

LockExited == LK!LockExited /\ StartsAfresh /\ UNCHANGED <<compositorVars, idle>>

-----------------------------------------------------------------------------
(* The lock screen. *)

(* Mutant: a session that is locked already is taken for one held. *)
AsksOnlyUnlocked ==
  /\ screen.alive /\ phase = "started" /\ ~locked
  /\ Compositor!Take(LockClient)
  /\ phase' = "asked"
  /\ UNCHANGED <<lkVars, link, unheard, idle>>

(* LockScreen::new: it has its lock, or no lock to ask for: none is        *)
(* offered, or the connection failed before it was found.                  *)
AsksTheCompositor ==
  /\ screen.alive /\ phase = "started"
  /\ \/ /\ Compositor!Take(LockClient)
        /\ phase' = "asked" /\ UNCHANGED screen
     \/ /\ phase' = "finished"
        /\ LK!ScreenSays("refused")
        /\ UNCHANGED compositorVars
  /\ UNCHANGED <<keeper, link, unheard, idle>>

(* `locked` arrives: the scene prints it. *)
HearsLocked ==
  /\ phase = "asked" /\ link = "up" /\ holder = LockClient /\ told
  /\ LK!ScreenSays("locked")
  /\ phase' = "open"
  /\ UNCHANGED <<compositorVars, link, unheard, idle>>

(* The connection fails, on either side: an error, or a client too slow to *)
(* read.  Who notices when is the next steps' business.                    *)
ConnectionFails ==
  /\ screen.alive /\ phase \in {"asked", "open", "unlocking"}
  /\ link' = "cut"
  /\ UNCHANGED <<lkVars, compositorVars, phase, unheard, idle>>

(* answered, Accepted: whatever the lock screen has heard yet (its surfaces*)
(* have the keys before `locked` is said), the unlock is sent if it can be.*)
Accepted ==
  /\ screen.alive /\ phase \in {"asked", "open"}
  /\ phase' = "unlocking"
  /\ unheard' = (link = "up")
  /\ UNCHANGED <<lkVars, compositorVars, link, idle>>

(* Mutant: nobody waits for the compositor to have heard the unlock. *)
SaysUnlockedUnheard ==
  /\ phase = "unlocking"
  /\ LK!ScreenSays("unlocked")
  /\ phase' = "finished"
  /\ UNCHANGED <<compositorVars, link, unheard, idle>>

(* unlock's roundtrip is over, answered or failed, and so is the loop: the *)
(* last word.                                                              *)
SaysUnlocked ==
  /\ phase = "unlocking" /\ (~unheard \/ link = "cut")
  /\ LK!ScreenSays("unlocked")
  /\ phase' = "finished"
  /\ UNCHANGED <<compositorVars, link, unheard, idle>>

(* The loop ends with the connection, locked or not yet: the other one. *)
SaysRefused ==
  /\ phase \in {"asked", "open"} /\ link = "cut"
  /\ LK!ScreenSays("refused")
  /\ phase' = "finished"
  /\ UNCHANGED <<compositorVars, link, unheard, idle>>

(* It dies, at any time; or exits, once it has said its last word. *)
ScreenEnds ==
  /\ LK!ScreenDies
  /\ UNCHANGED <<compositorVars, clientVars, idle>>

Exits == phase = "finished" /\ ScreenEnds

-----------------------------------------------------------------------------
(* The compositor: a frame was drawn; an unlock was read; a client's       *)
(* connection is over.                                                     *)

SaysLocked == Compositor!Tell /\ UNCHANGED <<lkVars, clientVars, idle>>

(* The unlock may be read when its client is dead already.  One before     *)
(* `locked` is a protocol error: its client is cut off, the lock abandoned.*)
HearsUnlock ==
  /\ unheard /\ holder = LockClient
  /\ unheard' = FALSE
  /\ IF told THEN Compositor!Give /\ UNCHANGED link
             ELSE /\ Compositor!Lose
                  /\ link' = IF phase = "unlocking" THEN "cut" ELSE link
  /\ UNCHANGED <<lkVars, phase, idle>>

(* What the client had sent is not read any more. *)
HearsHangUp ==
  /\ ~screen.alive \/ phase = "started" \/ link = "cut"
  /\ Compositor!Lose
  /\ unheard' = FALSE
  /\ UNCHANGED <<lkVars, phase, link, idle>>

Anchor == DrainLock \/ LockExited
Undertow == SaysLocked \/ HearsUnlock \/ HearsHangUp
LockScreen == AsksTheCompositor \/ HearsLocked \/ SaysUnlocked \/ SaysRefused \/ Exits

Next ==
  \/ AskToLock \/ Confirm \/ GiveUp \/ Resume
  \/ Anchor \/ Undertow \/ LockScreen \/ Accepted \/ ConnectionFails \/ ScreenEnds

Spec == Init /\ [][Next]_vars

(* anchor's loop, the compositor's loop and a live lock screen's all run;   *)
(* nobody has to type the password, and nothing keeps a process from dying.*)
FairSpec == Spec /\ WF_vars(Anchor) /\ WF_vars(Undertow) /\ WF_vars(LockScreen)

-----------------------------------------------------------------------------
(* A status that says locked is anchor's word for the compositor's: it is  *)
(* true while the lock screen has its lock, and after that only of one that*)
(* has unlocked and is leaving.  A crashed one's session stays locked.     *)
StatusIsHonest == StatusSaysLocked => locked \/ phase \in {"unlocking", "finished"}

(* What anchor knows of an unlock, or will once it reads the pipe. *)
SaidUnlocked == keeper.outcome = "unlocked" \/ "unlocked" \in screen.unread

(* The last word is said when the compositor has heard the unlock, not when*)
(* it was sent: a process that exits takes what nobody has read with it    *)
(* (lock.rs:118, the roundtrip).  anchor brings no lock screen back after  *)
(* `unlocked`, so the word must be true of the session; and it is, unless  *)
(* the connection failed, or was ended for an unlock before `locked`.      *)
UnlockedIsOpen == SaidUnlocked => ~locked \/ link = "cut"

(* What anchor keeps of a lock screen that died without a last word: the   *)
(* count of its crashes.  No other is started if that one could not be, or *)
(* if there were too many.                                                 *)
GivenUp == ~keeper.child /\ keeper.outcome = "none" /\ keeper.crashes > 0

(* An abandoned session gets its lock screen back: one that died without a *)
(* last word is replaced or given up on, and a live one takes the lock over*)
(* or ends.  One that said a last word over a locked session is replaced by*)
(* nobody: see LastWordIsTrue.                                             *)
AbandonedIsTakenOver ==
  /\ (locked /\ keeper.child /\ ~screen.alive /\ ~LK!SaidItsOutcome)
       ~> (screen.alive \/ GivenUp)
  /\ (locked /\ holder = None /\ screen.alive)
       ~> (holder = LockClient \/ ~screen.alive)

(* aquademo/src/main.rs:286-288, "exits 0 once the authenticator said yes  *)
(* and the session is given back, 1 if the compositor would not lock": a   *)
(* last word is said of a session that is not locked, or no more.  It is   *)
(* said of a locked one, too: `refused` if the connection failed under the *)
(* lock, `unlocked` if it failed under the unlock, or the password was     *)
(* accepted before `locked`.  anchor then starts nothing, and the session  *)
(* stays locked until somebody asks anchor to lock it.                     *)
LastWordIsTrue == LK!SaidItsOutcome => ~locked

(* idlebin/src/main.rs:99-100, "wait for anchor to say the **compositor**  *)
(* has locked", and supervisor.rs:85-86, "`status` says `locked` only      *)
(* then".  The word is not taken back when the compositor unlocks, only    *)
(* when the process is reaped.                                             *)
ReadyIsLocked == [][idle = "polling" /\ idle' = "ready" => locked]_vars
=============================================================================
