------------------------------ MODULE LockKeeper ------------------------------
(***************************************************************************)
(* What anchor does about the session's lock screen (P16.2c), and nothing  *)
(* else of it: the child it may be running, the socket its outcome comes   *)
(* back on, the last minute's crashes.  Supervisor.tla is the whole of     *)
(* anchor and implements this module; SessionChain.tla composes it with    *)
(* the compositor and the lock screen itself.                              *)
(*                                                                         *)
(* A handler of the source is a function from the keeper's record to the   *)
(* record it leaves, because anchor runs one handler at a time and a       *)
(* handler calls others (lock_exited drains, then may start).              *)
(***************************************************************************)
EXTENDS Naturals

CONSTANT LockCrashLimit \* LOCK_CRASH_LIMIT, a natural: crashes in the window survived

VARIABLES
  keeper,  \* anchor's fields: [child, pipe, outcome, confirmed, crashes]
  screen   \* the lock screen process: [alive, said, unread]

lockVars == <<keeper, screen>>

(***************************************************************************)
(* `child`: a live process descriptor is held (exited and unreaped counts).*)
(* `crashes` counts the recent ones; past the limit one more is the same.  *)
(* `said` is how far the process is through its words: it says "locked" at *)
(* most once, then one last word; `unread` are those anchor has not read.  *)
(***************************************************************************)
LastWords == {"unlocked", "refused"}
Words == {"locked"} \cup LastWords

Keeper == [child : BOOLEAN, pipe : BOOLEAN, outcome : LastWords \cup {"none"},
           confirmed : BOOLEAN, crashes : 0 .. LockCrashLimit + 1]
Screen == [alive : BOOLEAN, said : {"nothing", "locked", "over"}, unread : SUBSET Words]

NoLockScreen == [child |-> FALSE, pipe |-> FALSE, outcome |-> "none",
                 confirmed |-> FALSE, crashes |-> 0]
NewScreen == [alive |-> TRUE, said |-> "nothing", unread |-> {}]
NoScreen == [NewScreen EXCEPT !.alive = FALSE]

TypeOK == keeper \in Keeper /\ screen \in Screen

Init == keeper = NoLockScreen /\ screen = NoScreen

-----------------------------------------------------------------------------
(* The handlers' parts. *)

Started(k) ==
  [k EXCEPT !.child = TRUE, !.pipe = TRUE, !.outcome = "none", !.confirmed = FALSE]

(* The outcome once `unread` is read: the last word, if it is there. *)
OutcomeOf(k, unread) ==
  IF unread \cap LastWords = {} THEN k.outcome ELSE CHOOSE w \in unread : w \in LastWords

(* drain_lock: the pipe goes at end of file, or when it is the last look. *)
Drained(k, s, final) ==
  IF ~k.pipe THEN k
  ELSE [k EXCEPT !.confirmed = @ \/ "locked" \in s.unread,
                 !.outcome = OutcomeOf(k, s.unread),
                 !.pipe = s.alive /\ ~final]

(* Mutant: the exit is heard before the last word is read. *)
BuriedUnread(k, s) == [k EXCEPT !.child = FALSE, !.pipe = FALSE, !.confirmed = FALSE]

(* lock_exited up to its decision: reaped, drained, nothing confirmed. *)
Buried(k, s) == [Drained([k EXCEPT !.child = FALSE], s, TRUE) EXCEPT !.confirmed = FALSE]

(* A crash, with `kept` of the earlier ones still inside the window. *)
Crashed(k, kept) ==
  [k EXCEPT !.crashes = IF kept < LockCrashLimit THEN kept + 1 ELSE LockCrashLimit + 1]

-----------------------------------------------------------------------------
(* anchor's steps. *)

(* start_lock: the pair is made and the process spawned, or neither is. *)
StartLock(k) ==
  \/ keeper' = Started(k) /\ screen' = NewScreen
  \/ keeper' = k /\ screen' = NoScreen

(* A `lock` request: a held child answers `already`, else one is started. *)
AnswerLock ==
  \/ keeper.child /\ UNCHANGED lockVars
  \/ ~keeper.child /\ StartLock(keeper)

DrainLock ==
  /\ keeper.pipe
  /\ keeper' = Drained(keeper, screen, FALSE)
  /\ screen' = [screen EXCEPT !.unread = {}]

(* The exit is reaped and nothing more: the compositor is leaving too. *)
BuryOnly ==
  /\ keeper.child /\ ~screen.alive
  /\ keeper' = Buried(keeper, screen)
  /\ screen' = NoScreen

LockExited ==
  /\ keeper.child /\ ~screen.alive
  /\ LET k == Buried(keeper, screen) IN
       \/ /\ k.outcome = "unlocked"
          /\ keeper' = [k EXCEPT !.crashes = 0]
          /\ screen' = NoScreen
       \/ /\ k.outcome = "refused"
          /\ keeper' = k
          /\ screen' = NoScreen
       \/ /\ k.outcome = "none"
          /\ \E kept \in 0 .. k.crashes :
               LET c == Crashed(k, kept) IN
                 IF c.crashes > LockCrashLimit
                 THEN keeper' = c /\ screen' = NoScreen
                 ELSE StartLock(c)

(* teardown's reap: closing the descriptor ends a child still running. *)
EndLock ==
  /\ keeper' = [keeper EXCEPT !.child = FALSE, !.pipe = FALSE]
  /\ screen' = NoScreen

-----------------------------------------------------------------------------
(* The lock screen process, as anchor can see it: aquademo's lock scene    *)
(* prints "locked" when the compositor says so, and one last word when its *)
(* loop is over; it may die at any point instead.                          *)

ScreenSays(w) ==
  /\ screen.alive
  /\ \/ w = "locked" /\ screen.said = "nothing"
     \/ w \in LastWords /\ screen.said # "over"
  /\ screen' = [screen EXCEPT !.said = IF w = "locked" THEN "locked" ELSE "over",
                              !.unread = @ \cup {w}]
  /\ UNCHANGED keeper

ScreenDies ==
  /\ screen.alive
  /\ screen' = [screen EXCEPT !.alive = FALSE]
  /\ UNCHANGED keeper

Next ==
  \/ AnswerLock \/ DrainLock \/ LockExited \/ BuryOnly \/ EndLock
  \/ \E w \in Words : ScreenSays(w)
  \/ ScreenDies

Spec == Init /\ [][Next]_lockVars

-----------------------------------------------------------------------------
(* A process with no holder is not left behind: anchor holds the           *)
(* descriptor of every lock screen that runs, so its exit is always heard. *)
ScreenIsHeld == screen.alive => keeper.child /\ keeper.pipe

(* A lock screen that did say what became of it is never counted a crash   *)
(* and never restarted (lock_exited, supervisor.rs:511-521): a step that   *)
(* replaces a dead screen by a new one, or counts a crash, replaces one    *)
(* that said neither "unlocked" nor "refused".                             *)
SaidItsOutcome == keeper.outcome \in LastWords \/ screen.unread \cap LastWords # {}

OnlyACrashIsRestarted ==
  [][ /\ keeper.child /\ ~screen.alive /\ SaidItsOutcome
      => ~screen'.alive /\ keeper'.crashes <= keeper.crashes ]_lockVars
=============================================================================
