-------------------------- MODULE SessionChainProofs --------------------------
(***************************************************************************)
(* The chain from abyss-idle to the compositor for every crash limit: what *)
(* a `status` of anchor's is worth, and what a last word is.               *)
(***************************************************************************)
EXTENDS SessionChain, TLAPS

(***************************************************************************)
(* What makes StatusIsHonest inductive.  anchor's word is as old as the    *)
(* last read of the pipe, and what is still in the pipe may become it: so  *)
(* both are counted, and both are this lock screen's, which has heard      *)
(* `locked` if it said it.  From then on the session is locked until the   *)
(* lock screen itself gives the lock back, whether it is alive or not.     *)
(***************************************************************************)
SaidLocked == StatusSaysLocked \/ "locked" \in screen.unread

HeldIsLocked == holder # None => locked
OpenIsLocked == phase = "open" => locked
LockedWasHeard == SaidLocked => phase \in {"open", "unlocking", "finished"}

(***************************************************************************)
(* What makes UnlockedIsOpen inductive.  A lock screen whose connection    *)
(* holds has its lock until its unlock was heard; an unlock on its way has *)
(* somebody's lock to end, and is nobody's who has not been accepted; and  *)
(* one that was heard, of a client not cut off, opened the session, which  *)
(* only the next lock screen can lock again.                               *)
(***************************************************************************)
AskerHolds == screen.alive /\ phase \in {"asked", "open"} /\ link = "up" => holder = LockClient
UnheardHolds == unheard => holder # None /\ phase \notin {"asked", "open"}
HeardIsOpen == screen.alive /\ phase = "unlocking" /\ link = "up" /\ ~unheard => ~locked
SaidWasUnlocking == SaidUnlocked => phase = "finished"

StatusInv == LK!ScreenIsHeld /\ HeldIsLocked /\ OpenIsLocked /\ LockedWasHeard
UnlockInv == AskerHolds /\ UnheardHolds /\ HeardIsOpen /\ SaidWasUnlocking /\ UnlockedIsOpen
ChainInv == StatusInv /\ UnlockInv

-----------------------------------------------------------------------------
(* Every step of the chain is one of the keeper's, or leaves it alone; and *)
(* one of the compositor's, or leaves that alone.                          *)
LEMMA ChainStepsAreKeeperSteps ==
  ASSUME [Next]_vars
  PROVE  [LK!Next]_(LK!lockVars)
  BY DEF Next, vars, lkVars, AskToLock, Confirm, GiveUp, Resume, Anchor, DrainLock, LockExited,
         Undertow, SaysLocked, HearsUnlock, HearsHangUp, LockScreen, AsksTheCompositor,
         HearsLocked, SaysUnlocked, SaysRefused, Exits, Accepted, ConnectionFails, ScreenEnds, LK!Next, LK!lockVars, LK!Words, LK!LastWords

LEMMA ChainStepsAreProtocolSteps ==
  ASSUME [Next]_vars
  PROVE  [Compositor!Next]_(Compositor!protocolVars)
  BY DEF Next, vars, compositorVars, AskToLock, Confirm, GiveUp, Resume, Anchor, DrainLock,
         LockExited, Undertow, SaysLocked, HearsUnlock, HearsHangUp, LockScreen, AsksTheCompositor,
         HearsLocked, SaysUnlocked, SaysRefused, Exits, Accepted, ConnectionFails, ScreenEnds,
         Compositor!Next,
         Compositor!protocolVars

(* The chain adds nothing to its two ends: what is proved of anchor's      *)
(* keeper, which Supervisor implements, and of the protocol, which the     *)
(* session lock implements, is true of them here.                          *)
THEOREM ChainIsOfItsParts == Spec => LK!Spec /\ Compositor!Spec
<1>1. Init => LK!Init /\ Compositor!Init
  BY DEF Init
<1>2. [Next]_vars => [LK!Next]_(LK!lockVars)
  BY ChainStepsAreKeeperSteps
<1>3. [Next]_vars => [Compositor!Next]_(Compositor!protocolVars)
  BY ChainStepsAreProtocolSteps
<1> QED
  BY <1>1, <1>2, <1>3, PTL DEF Spec, LK!Spec, Compositor!Spec

-----------------------------------------------------------------------------
(* What the keeper's handlers leave: a keeper, with its pipe at end of     *)
(* file only of a dead lock screen, and after an exit nothing confirmed.   *)
LEMMA KeeperParts ==
  ASSUME NEW k \in LK!Keeper, NEW s \in LK!Screen
  PROVE  /\ LK!Started(k) \in LK!Keeper
         /\ LK!Drained(k, s, FALSE) \in LK!Keeper
         /\ LK!Drained(k, s, FALSE).child = k.child
         /\ k.pipe => LK!Drained(k, s, FALSE).pipe = s.alive
         /\ LK!Drained(k, s, FALSE).confirmed => k.confirmed \/ "locked" \in s.unread
         /\ LK!Drained(k, s, FALSE).outcome = "unlocked"
              => k.outcome = "unlocked" \/ "unlocked" \in s.unread
         /\ LK!Buried(k, s).outcome = "unlocked"
              => k.outcome = "unlocked" \/ "unlocked" \in s.unread
         /\ \A kept \in Nat : LK!Crashed(LK!Buried(k, s), kept).outcome = LK!Buried(k, s).outcome
         /\ LK!Buried(k, s) \in LK!Keeper /\ ~LK!Buried(k, s).child
         /\ \A kept \in Nat : LK!Crashed(LK!Buried(k, s), kept) \in LK!Keeper
         /\ \A kept \in Nat : ~LK!Crashed(LK!Buried(k, s), kept).child
<1> USE SessionChainAssumption DEF LK!Keeper, LK!Screen, LK!LastWords, LK!Words
<1>1. LK!Started(k) \in LK!Keeper
  BY DEF LK!Started
<1>2. ASSUME NEW j \in LK!Keeper 
      PROVE  /\ LK!OutcomeOf(j, s.unread) \in LK!LastWords \cup {"none"}
             /\ LK!OutcomeOf(j, s.unread) = "unlocked"
                  => j.outcome = "unlocked" \/ "unlocked" \in s.unread
  BY DEF LK!OutcomeOf
<1>3. ASSUME NEW j \in LK!Keeper, NEW final \in BOOLEAN
      PROVE  /\ LK!Drained(j, s, final) \in LK!Keeper
             /\ LK!Drained(j, s, final).child = j.child
             /\ LK!Drained(j, s, final).confirmed => j.confirmed \/ "locked" \in s.unread
             /\ LK!Drained(j, s, final).outcome = "unlocked"
                  => j.outcome = "unlocked" \/ "unlocked" \in s.unread
             /\ j.pipe => LK!Drained(j, s, final).pipe = (s.alive /\ ~final)
  BY <1>2 DEF LK!Drained
<1>4. /\ LK!Buried(k, s) \in LK!Keeper /\ ~LK!Buried(k, s).child
      /\ LK!Buried(k, s).outcome = "unlocked"
           => k.outcome = "unlocked" \/ "unlocked" \in s.unread
  <2> DEFINE j == [k EXCEPT !.child = FALSE]
  <2>1. j \in LK!Keeper /\ ~j.child /\ j.outcome = k.outcome
    OBVIOUS
  <2>2. /\ LK!Drained(j, s, TRUE) \in LK!Keeper /\ ~LK!Drained(j, s, TRUE).child
        /\ LK!Drained(j, s, TRUE).outcome = "unlocked"
             => k.outcome = "unlocked" \/ "unlocked" \in s.unread
    BY <2>1, <1>3
  <2> QED
    BY <2>2 DEF LK!Buried
<1>5. ASSUME NEW j \in LK!Keeper, NEW kept \in Nat
      PROVE  /\ LK!Crashed(j, kept) \in LK!Keeper /\ LK!Crashed(j, kept).child = j.child
             /\ LK!Crashed(j, kept).outcome = j.outcome
  <2> DEFINE v == IF kept < LockCrashLimit THEN kept + 1 ELSE LockCrashLimit + 1
  <2>1. v \in 0 .. LockCrashLimit + 1
    OBVIOUS
  <2> HIDE DEF v
  <2>2. /\ [j EXCEPT !.crashes = v] \in LK!Keeper /\ [j EXCEPT !.crashes = v].child = j.child
        /\ [j EXCEPT !.crashes = v].outcome = j.outcome
    BY <2>1
  <2> QED
    BY <2>2 DEF LK!Crashed, v
<1> HIDE DEF LK!Keeper, LK!Screen, LK!LastWords, LK!Words
<1>6. \A kept \in Nat : /\ LK!Crashed(LK!Buried(k, s), kept) \in LK!Keeper
                       /\ ~LK!Crashed(LK!Buried(k, s), kept).child
                       /\ LK!Crashed(LK!Buried(k, s), kept).outcome = LK!Buried(k, s).outcome
  BY <1>4, <1>5
<1>7. k.pipe => LK!Drained(k, s, FALSE).pipe = s.alive
  BY <1>3 DEF LK!Keeper, LK!Screen
<1> QED
  BY <1>1, <1>3, <1>4, <1>6, <1>7

(* anchor starts a lock screen or does not: what there was is forgotten.   *)
LEMMA StartForgets ==
  ASSUME NEW k \in LK!Keeper, ~k.child, LK!StartLock(k)
  PROVE  /\ LK!TypeOK' /\ LK!ScreenIsHeld' /\ ~SaidLocked'
         /\ SaidUnlocked' => k.outcome = "unlocked" /\ ~screen'.alive
<1>1. LK!NewScreen \in LK!Screen /\ LK!NoScreen \in LK!Screen
  BY DEF LK!NewScreen, LK!NoScreen, LK!Screen
<1>2. LK!Started(k) \in LK!Keeper
  BY <1>1, KeeperParts
<1> USE DEF LK!TypeOK, LK!ScreenIsHeld, LK!NewScreen, LK!NoScreen, SaidLocked, StatusSaysLocked,
            SaidUnlocked
<1>3. CASE keeper' = LK!Started(k) /\ screen' = LK!NewScreen
  <2>1. keeper'.child /\ keeper'.pipe /\ ~keeper'.confirmed /\ keeper'.outcome = "none"
    BY <1>3 DEF LK!Started, LK!Keeper
  <2> QED
    BY <1>1, <1>2, <1>3, <2>1
<1>4. CASE keeper' = k /\ screen' = LK!NoScreen
  BY <1>1, <1>4
<1> QED
  BY <1>3, <1>4 DEF LK!StartLock

(* A `lock` request, answered; an exit, heard.  The one confirmation that  *)
(* survives is that of a lock screen still held; a last word, none that    *)
(* another lock screen started after.                                      *)
LEMMA AnswersAndExits ==
  ASSUME LK!TypeOK, LK!ScreenIsHeld, LK!AnswerLock \/ LK!LockExited
  PROVE  /\ LK!TypeOK' /\ LK!ScreenIsHeld'
         /\ \/ UNCHANGED lkVars
            \/ /\ ~screen.alive /\ ~SaidLocked'
               /\ SaidUnlocked' => SaidUnlocked /\ ~screen'.alive
<1>k. keeper \in LK!Keeper /\ screen \in LK!Screen
  BY DEF LK!TypeOK
<1>1. CASE LK!AnswerLock
  BY <1>1, <1>k, StartForgets
     DEF LK!AnswerLock, LK!lockVars, lkVars, LK!ScreenIsHeld, LK!TypeOK, SaidUnlocked
<1>2. CASE LK!LockExited
  <2> DEFINE b == LK!Buried(keeper, screen)
  <2>b. b \in LK!Keeper /\ ~b.child /\ (b.outcome = "unlocked" => SaidUnlocked)
    BY <1>k, KeeperParts DEF SaidUnlocked
  <2>c. \A kept \in Nat : /\ LK!Crashed(b, kept) \in LK!Keeper /\ ~LK!Crashed(b, kept).child
                         /\ LK!Crashed(b, kept).outcome = b.outcome
    BY <1>k, KeeperParts
  <2> HIDE DEF b
  <2>n. /\ b.crashes \in Nat /\ [b EXCEPT !.crashes = 0] \in LK!Keeper /\ ~[b EXCEPT !.crashes = 0].child
        /\ [b EXCEPT !.crashes = 0].outcome = b.outcome
    BY <2>b, SessionChainAssumption DEF LK!Keeper
  <2> DEFINE Forgotten == /\ LK!TypeOK' /\ LK!ScreenIsHeld' /\ ~SaidLocked'
                          /\ SaidUnlocked' => b.outcome = "unlocked" /\ ~screen'.alive
  <2>1. ASSUME NEW k \in LK!Keeper, ~k.child, k.outcome = b.outcome, keeper' = k, screen' = LK!NoScreen
        PROVE  Forgotten
    BY <2>1 DEF LK!NoScreen, LK!NewScreen, LK!Screen, LK!TypeOK, LK!ScreenIsHeld, SaidLocked,
                StatusSaysLocked, SaidUnlocked
  <2>2. ASSUME NEW kept \in 0 .. b.crashes,
               \/ keeper' = LK!Crashed(b, kept) /\ screen' = LK!NoScreen
               \/ LK!StartLock(LK!Crashed(b, kept))
        PROVE  Forgotten
    <3>1. kept \in Nat
      BY <2>n
    <3>2. /\ LK!Crashed(b, kept) \in LK!Keeper /\ ~LK!Crashed(b, kept).child
          /\ LK!Crashed(b, kept).outcome = b.outcome
      BY <2>c, <3>1
    <3> QED
      BY <2>2, <3>2, <2>1, StartForgets
  <2>3. ~screen.alive
    BY <1>2 DEF LK!LockExited
  <2> HIDE DEF Forgotten
  <2>4. Forgotten
    BY <1>2, <2>b, <2>n, <2>1, <2>2 DEF LK!LockExited, b
  <2> QED
    BY <2>3, <2>4, <2>b DEF Forgotten
<1> QED
  BY <1>1, <1>2

(* A read of the pipe makes anchor's word of what was in it, no more.      *)
LEMMA DrainTellsNoMore ==
  ASSUME LK!TypeOK, LK!ScreenIsHeld, LK!DrainLock
  PROVE  /\ LK!TypeOK' /\ LK!ScreenIsHeld' /\ screen'.alive = screen.alive
         /\ (SaidLocked' => SaidLocked) /\ (SaidUnlocked' => SaidUnlocked)
<1>k. keeper \in LK!Keeper /\ screen \in LK!Screen
  BY DEF LK!TypeOK
<1> DEFINE d == LK!Drained(keeper, screen, FALSE)
<1>1. /\ d \in LK!Keeper /\ d.child = keeper.child /\ (keeper.pipe => d.pipe = screen.alive)
      /\ d.confirmed => keeper.confirmed \/ "locked" \in screen.unread
      /\ d.outcome = "unlocked" => keeper.outcome = "unlocked" \/ "unlocked" \in screen.unread
  BY <1>k, KeeperParts
<1> HIDE DEF d
<1>2. keeper' = d /\ keeper.pipe /\ screen' = [screen EXCEPT !.unread = {}]
  BY DEF LK!DrainLock, d
<1> QED
  BY <1>k, <1>1, <1>2 DEF LK!TypeOK, LK!Screen, LK!ScreenIsHeld, SaidLocked, StatusSaysLocked,
                          SaidUnlocked

(* The lock screen says a word, or dies; only "locked" tells of the lock,  *)
(* and only "unlocked" of an unlock.                                       *)
LEMMA ScreenTells ==
  ASSUME LK!TypeOK, LK!ScreenIsHeld
  PROVE  /\ \A w \in LK!Words :
              LK!ScreenSays(w) => /\ LK!TypeOK' /\ LK!ScreenIsHeld' /\ screen.alive
                                  /\ w # "locked" => (SaidLocked' => SaidLocked)
                                  /\ w # "unlocked" => (SaidUnlocked' => SaidUnlocked)
         /\ LK!ScreenDies => /\ LK!TypeOK' /\ LK!ScreenIsHeld' /\ ~screen'.alive
                             /\ SaidLocked' => SaidLocked
                             /\ SaidUnlocked' => SaidUnlocked
<1> USE DEF LK!TypeOK, LK!Screen, LK!ScreenIsHeld, LK!LastWords, LK!Words, SaidLocked, StatusSaysLocked,
            SaidUnlocked
<1>1. ASSUME NEW w \in LK!Words, LK!ScreenSays(w)
      PROVE  /\ LK!TypeOK' /\ LK!ScreenIsHeld' /\ screen.alive
             /\ w # "locked" => (SaidLocked' => SaidLocked)
             /\ w # "unlocked" => (SaidUnlocked' => SaidUnlocked)
  <2>1. /\ screen' = [screen EXCEPT !.said = IF w = "locked" THEN "locked" ELSE "over",
                                    !.unread = @ \cup {w}]
        /\ screen.alive /\ keeper' = keeper
    BY <1>1 DEF LK!ScreenSays
  <2> QED
    BY <2>1
<1>2. ASSUME LK!ScreenDies
      PROVE  /\ LK!TypeOK' /\ LK!ScreenIsHeld' /\ ~screen'.alive
             /\ (SaidLocked' => SaidLocked) /\ (SaidUnlocked' => SaidUnlocked)
  BY <1>2 DEF LK!ScreenDies
<1> QED
  BY <1>1, <1>2

-----------------------------------------------------------------------------
(* Type correctness of the chain, the keeper's descriptor and pipe of      *)
(* every lock screen that runs with it.                                    *)
LEMMA ChainTypes ==
  ASSUME TypeOK, LK!ScreenIsHeld, [Next]_vars
  PROVE  TypeOK' /\ LK!ScreenIsHeld'
<1> USE DEF lkVars, compositorVars, clientVars
<1>k. ASSUME UNCHANGED lkVars PROVE LK!TypeOK' /\ LK!ScreenIsHeld'
  BY <1>k DEF TypeOK, LK!TypeOK, LK!ScreenIsHeld
<1>0. LK!TypeOK
  BY DEF TypeOK
<1>1. CASE AskToLock \/ LockExited
  <2>1. LK!TypeOK' /\ LK!ScreenIsHeld'
    BY <1>0, <1>1, AnswersAndExits DEF AskToLock, LockExited
  <2> QED
    BY <1>1, <2>1 DEF AskToLock, LockExited, StartsAfresh, TypeOK
<1>2. CASE Confirm \/ GiveUp \/ Resume
  BY <1>2, <1>k DEF Confirm, GiveUp, Resume, TypeOK
<1>3. CASE DrainLock
  BY <1>0, <1>3, DrainTellsNoMore DEF DrainLock, TypeOK
<1>4. CASE Undertow
  BY <1>4, <1>k DEF Undertow, SaysLocked, HearsUnlock, HearsHangUp, Compositor!Tell, Compositor!Give,
                    Compositor!Lose, TypeOK
<1>5. CASE AsksTheCompositor
  <2>1. "refused" \in LK!Words
    BY DEF LK!Words, LK!LastWords
  <2>2. LK!TypeOK' /\ LK!ScreenIsHeld'
    BY <1>0, <1>5, <1>k, <2>1, ScreenTells DEF AsksTheCompositor
  <2> QED
    BY <1>5, <2>2 DEF AsksTheCompositor, Compositor!Take, TypeOK
<1>6. CASE HearsLocked \/ SaysUnlocked \/ SaysRefused
  <2>1. LK!LastWords \cup {"locked"} \subseteq LK!Words /\ {"unlocked", "refused"} \subseteq LK!LastWords
    BY DEF LK!Words, LK!LastWords
  <2>2. LK!TypeOK' /\ LK!ScreenIsHeld'
    BY <1>0, <1>6, <2>1, ScreenTells DEF HearsLocked, SaysUnlocked, SaysRefused
  <2> QED
    BY <1>6, <2>2 DEF HearsLocked, SaysUnlocked, SaysRefused, TypeOK
<1>7. CASE Accepted \/ ConnectionFails
  BY <1>7, <1>k DEF Accepted, ConnectionFails, TypeOK
<1>8. CASE ScreenEnds
  BY <1>0, <1>8, ScreenTells DEF ScreenEnds, TypeOK
<1>9. CASE UNCHANGED vars
  BY <1>9, <1>k DEF vars, TypeOK
<1> QED
  BY <1>1, <1>2, <1>3, <1>4, <1>5, <1>6, <1>7, <1>8, <1>9 DEF Next, Anchor, LockScreen, Exits

(* The chain starts with no lock screen, nothing held and nothing said.    *)
LEMMA ChainStarts ==
  ASSUME Init
  PROVE  TypeOK /\ ChainInv
<1>1. LK!NoLockScreen \in LK!Keeper
  BY SessionChainAssumption DEF LK!NoLockScreen, LK!Keeper
<1>2. LK!NoScreen \in LK!Screen /\ ~LK!NoScreen.alive /\ LK!NoScreen.unread = {}
  BY DEF LK!NoScreen, LK!NewScreen, LK!Screen
<1>3. TypeOK
  BY <1>1, <1>2 DEF Init, LK!Init, Compositor!Init, TypeOK, LK!TypeOK
<1>4. StatusInv
  BY <1>2 DEF Init, LK!Init, Compositor!Init, StatusInv, LK!ScreenIsHeld, HeldIsLocked, OpenIsLocked,
              LockedWasHeard, SaidLocked, StatusSaysLocked, LK!NoLockScreen
<1>5. UnlockInv
  BY <1>2 DEF Init, LK!Init, Compositor!Init, UnlockInv, AskerHolds, UnheardHolds, HeardIsOpen,
              SaidWasUnlocking, UnlockedIsOpen, SaidUnlocked, LK!NoLockScreen
<1> QED
  BY <1>3, <1>4, <1>5 DEF ChainInv

(* Type correctness: whoever holds the session is the lock screen or       *)
(* nobody, and no lock screen runs without anchor holding it.              *)
THEOREM ChainIsTyped == Spec => [](TypeOK /\ LK!ScreenIsHeld)
<1>1. Init => TypeOK /\ LK!ScreenIsHeld
  BY ChainStarts DEF ChainInv, StatusInv
<1>2. TypeOK /\ LK!ScreenIsHeld /\ [Next]_vars => (TypeOK /\ LK!ScreenIsHeld)'
  BY ChainTypes
<1> QED
  BY <1>1, <1>2, PTL DEF Spec

(* The words and what they rest on.  One is read, lost with its lock       *)
(* screen, or said by one that has heard it from a locked compositor.      *)
LEMMA StepKeepsStatus ==
  ASSUME TypeOK, ChainInv, [Next]_vars
  PROVE  StatusInv'
<1>t. LK!TypeOK /\ LK!ScreenIsHeld /\ LK!ScreenIsHeld'
  BY ChainTypes DEF TypeOK, ChainInv, StatusInv
<1>u. ASSUME UNCHANGED lkVars PROVE SaidLocked' <=> SaidLocked
  BY <1>u DEF lkVars, SaidLocked, StatusSaysLocked
<1>w. LK!Words = {"locked", "unlocked", "refused"}
  BY DEF LK!Words, LK!LastWords
<1> USE DEF ChainInv, StatusInv, HeldIsLocked, OpenIsLocked, LockedWasHeard, compositorVars, clientVars
<1>1. CASE AskToLock \/ LockExited
  <2>1. LK!AnswerLock \/ LK!LockExited
    BY <1>1 DEF AskToLock, LockExited
  <2>2. CASE UNCHANGED lkVars
    BY <1>1, <1>t, <1>u, <2>2 DEF AskToLock, LockExited, StartsAfresh, lkVars
  <2>3. CASE ~screen.alive /\ ~SaidLocked'
    BY <1>1, <1>t, <2>3 DEF AskToLock, LockExited, StartsAfresh
  <2> QED
    BY <1>t, <2>1, <2>2, <2>3, AnswersAndExits
<1>2. CASE Confirm \/ GiveUp \/ Resume
  BY <1>2, <1>t, <1>u DEF Confirm, GiveUp, Resume
<1>3. CASE DrainLock
  BY <1>3, <1>t, DrainTellsNoMore DEF DrainLock
<1>4. CASE SaysLocked \/ HearsHangUp
  BY <1>4, <1>t, <1>u DEF SaysLocked, HearsHangUp, Compositor!Tell, Compositor!Lose
<1>5. CASE HearsUnlock
  BY <1>5, <1>t, <1>u DEF HearsUnlock, Compositor!Give, Compositor!Lose, UnlockInv, UnheardHolds
<1>6. CASE AsksTheCompositor
  <2>1. CASE Compositor!Take(LockClient) /\ phase' = "asked" /\ UNCHANGED lkVars
    BY <1>6, <1>t, <1>u, <2>1 DEF AsksTheCompositor, Compositor!Take
  <2>2. CASE phase' = "finished" /\ UNCHANGED compositorVars
    BY <1>t, <2>2
  <2> QED
    BY <1>6, <2>1, <2>2 DEF AsksTheCompositor, lkVars
<1>7. CASE HearsLocked
  BY <1>7, <1>t, SessionChainAssumption DEF HearsLocked
<1>8. CASE SaysUnlocked \/ SaysRefused
  BY <1>8, <1>t DEF SaysUnlocked, SaysRefused
<1>9. CASE Accepted \/ ConnectionFails
  BY <1>9, <1>t, <1>u DEF Accepted, ConnectionFails
<1>10. CASE ScreenEnds
  BY <1>10, <1>t, ScreenTells DEF ScreenEnds
<1>11. CASE UNCHANGED vars
  BY <1>11, <1>t, <1>u DEF vars
<1> QED
  BY <1>1, <1>2, <1>3, <1>4, <1>5, <1>6, <1>7, <1>8, <1>9, <1>10, <1>11
     DEF Next, Anchor, Undertow, LockScreen, Exits

(* The unlock: sent, heard, or lost with the connection it was sent by.    *)
LEMMA StepKeepsUnlocks ==
  ASSUME TypeOK, ChainInv, [Next]_vars
  PROVE  UnlockInv'
<1>t. LK!TypeOK /\ LK!ScreenIsHeld
  BY DEF TypeOK, ChainInv, StatusInv
<1>u. ASSUME UNCHANGED lkVars PROVE (SaidUnlocked' <=> SaidUnlocked) /\ screen'.alive = screen.alive
  BY <1>u DEF lkVars, SaidUnlocked
<1>w. LK!Words = {"locked", "unlocked", "refused"}
  BY DEF LK!Words, LK!LastWords
<1> USE DEF ChainInv, UnlockInv, AskerHolds, UnheardHolds, HeardIsOpen, SaidWasUnlocking,
            UnlockedIsOpen, compositorVars, clientVars
<1>a. ASSUME NEW w \in LK!Words, LK!ScreenSays(w) PROVE screen'.alive = screen.alive
  BY <1>a, <1>t DEF LK!ScreenSays, LK!TypeOK, LK!Screen
<1>1. CASE AskToLock \/ LockExited
  <2>1. LK!AnswerLock \/ LK!LockExited
    BY <1>1 DEF AskToLock, LockExited
  <2>2. CASE UNCHANGED lkVars
    <3>1. UNCHANGED <<compositorVars, clientVars>>
      BY <1>1, <2>2 DEF AskToLock, LockExited, StartsAfresh, lkVars
    <3> QED
      BY <1>u, <2>2, <3>1
  <2>3. CASE ~screen.alive /\ (SaidUnlocked' => SaidUnlocked /\ ~screen'.alive)
    <3>1. CASE screen'.alive
      BY <1>1, <2>3, <3>1 DEF AskToLock, LockExited, StartsAfresh
    <3>2. CASE ~screen'.alive
      BY <1>1, <2>3, <3>2 DEF AskToLock, LockExited, StartsAfresh
    <3> QED
      BY <3>1, <3>2
  <2> QED
    BY <1>t, <2>1, <2>2, <2>3, AnswersAndExits
<1>2. CASE Confirm \/ GiveUp \/ Resume
  BY <1>2, <1>u DEF Confirm, GiveUp, Resume
<1>3. CASE DrainLock
  BY <1>3, <1>t, DrainTellsNoMore DEF DrainLock
<1>4. CASE SaysLocked
  BY <1>4, <1>u DEF SaysLocked, Compositor!Tell
<1>5. CASE HearsHangUp
  BY <1>5, <1>u DEF HearsHangUp, Compositor!Lose
<1>6. CASE HearsUnlock
  BY <1>6, <1>u DEF HearsUnlock, Compositor!Give, Compositor!Lose
<1>7. CASE AsksTheCompositor
  <2>1. ~SaidUnlocked
    BY <1>7 DEF AsksTheCompositor
  <2>2. CASE Compositor!Take(LockClient) /\ phase' = "asked" /\ UNCHANGED lkVars
    BY <1>7, <1>u, <2>1, <2>2 DEF AsksTheCompositor, Compositor!Take
  <2>3. CASE LK!ScreenSays("refused") /\ phase' = "finished" /\ UNCHANGED compositorVars
    BY <1>7, <1>t, <1>w, <2>1, <2>3, ScreenTells DEF AsksTheCompositor
  <2> QED
    BY <1>7, <2>2, <2>3 DEF AsksTheCompositor, lkVars
<1>8. CASE HearsLocked
  BY <1>8, <1>t, <1>w, <1>a, ScreenTells DEF HearsLocked
<1>9. CASE SaysRefused
  BY <1>9, <1>t, <1>w, <1>a, ScreenTells DEF SaysRefused
<1>10. CASE SaysUnlocked
  <2>1. screen.alive
    BY <1>10, <1>t, <1>w, ScreenTells DEF SaysUnlocked
  <2>2. /\ phase = "unlocking" /\ phase' = "finished" /\ (~unheard \/ link = "cut")
        /\ UNCHANGED <<holder, locked, link, unheard>>
    BY <1>10 DEF SaysUnlocked
  <2>3. ~locked \/ link = "cut"
    BY <1>t, <2>1, <2>2 DEF TypeOK
  <2>4. ~locked' \/ link' = "cut"
    BY <2>2, <2>3
  <2> QED
    BY <2>2, <2>4
<1>11. CASE Accepted
  BY <1>11, <1>u, SessionChainAssumption DEF Accepted
<1>12. CASE ConnectionFails
  BY <1>12, <1>u DEF ConnectionFails
<1>13. CASE ScreenEnds
  BY <1>13, <1>t, ScreenTells DEF ScreenEnds
<1>14. CASE UNCHANGED vars
  BY <1>14, <1>u DEF vars
<1> QED
  BY <1>1, <1>2, <1>3, <1>4, <1>5, <1>6, <1>7, <1>8, <1>9, <1>10, <1>11, <1>12, <1>13, <1>14
     DEF Next, Anchor, Undertow, LockScreen, Exits

LEMMA ChainInvariant == Spec => [](TypeOK /\ ChainInv)
<1>1. Init => TypeOK /\ ChainInv
  BY ChainStarts
<1>2. TypeOK /\ ChainInv /\ [Next]_vars => (TypeOK /\ ChainInv)'
  BY ChainTypes, StepKeepsStatus, StepKeepsUnlocks DEF ChainInv, StatusInv
<1> QED
  BY <1>1, <1>2, PTL DEF Spec

(***************************************************************************)
(* A `status` that says locked is true while the lock screen has its lock, *)
(* and after that only of one that has unlocked and is leaving.            *)
(***************************************************************************)
THEOREM StatusIsAlwaysHonest == Spec => []StatusIsHonest
<1>1. ChainInv => StatusIsHonest
  BY DEF ChainInv, StatusInv, OpenIsLocked, LockedWasHeard, SaidLocked, StatusIsHonest
<1> QED
  BY <1>1, ChainInvariant, PTL

(***************************************************************************)
(* A lock screen that said `unlocked` has left the session open, whoever   *)
(* died before it and whatever of theirs was still to be heard, unless the *)
(* connection it had to the compositor failed or was ended.                *)
(***************************************************************************)
THEOREM UnlockedIsTrue == Spec => []UnlockedIsOpen
<1>1. ChainInv => UnlockedIsOpen
  BY DEF ChainInv, UnlockInv
<1> QED
  BY <1>1, ChainInvariant, PTL
=============================================================================
