----------------------------- MODULE LoginSessions -----------------------------
(***************************************************************************)
(* The root daemon's sessions (login/src/sessions.rs, SessionManager): the *)
(* login window's own, everybody's with the VT each has, and which of them *)
(* is in front.  An operation calls others and a spawn may fail, so each is*)
(* the set of managers it may leave of the one it was given; LoginDaemon is*)
(* the loop that calls them.                                               *)
(***************************************************************************)
EXTENDS Naturals

CONSTANTS
  Users,        \* the accounts somebody may log in as
  VTs,          \* VTPlan's FIRST .. LAST
  FailureLimit, \* the login window's deaths in a minute that are made good
  Greeter, None

ASSUME LoginAssumption ==
  /\ VTs \subseteq Nat /\ None \notin VTs
  /\ Greeter \notin Users /\ None \notin Users /\ Greeter # None
  /\ FailureLimit \in Nat

(* A Child: none or reaped; running; exited and not reaped. *)
Child == {"none", "running", "exited"}

Manager ==
  [greeter  : Child,                        \* the login window's session
   users    : [Users -> Child],
   vt       : [Users -> VTs \cup {None}],   \* VTPlan.assigned
   front    : Users \cup {Greeter, None},   \* which session is on the screen
   failures : 0 .. FailureLimit + 1]        \* greeter_failures within the minute

NewManager ==
  [greeter |-> "none", users |-> [u \in Users |-> "none"],
   vt |-> [u \in Users |-> None], front |-> None, failures |-> 0]

-----------------------------------------------------------------------------
(* start_greeter: to the front if there is one, else spawned, if it can be. *)
StartGreeter(m) ==
  IF m.greeter # "none"
  THEN {[m EXCEPT !.front = Greeter]}
  ELSE {m, [m EXCEPT !.greeter = "running", !.front = Greeter]}

EndGreeter(m) ==
  [m EXCEPT !.greeter = "none", !.front = IF @ = Greeter THEN None ELSE @]

ShowLoginWindow(m, u) == IF m.front = u THEN StartGreeter(m) ELSE {m}

(* Mutant: the login window is left running behind the session. *)
ResumeOverTheGreeter(m, u) ==
  IF m.front = Greeter /\ m.users[u] # "none" THEN {[m EXCEPT !.front = u]} ELSE {m}

(* resume: only from the login window, only to a session there is. *)
Resume(m, u) ==
  IF m.front = Greeter /\ m.users[u] # "none"
  THEN {[EndGreeter(m) EXCEPT !.front = u]}
  ELSE {m}

(* VTPlan::vt: the lowest that nobody has, if there is one. *)
Free(m) == {v \in VTs : \A u \in Users : m.vt[u] # v}
LowestFree(m) == {v \in Free(m) : \A w \in Free(m) : v <= w}

(* A session started, or not: then its VT is released and the window is back. *)
StartSession(m, u) ==
  {[m EXCEPT !.users[u] = "running", !.vt[u] = v, !.front = u] : v \in LowestFree(m)}
    \cup StartGreeter(m)

(* login: one who has a session goes back to it, locked. *)
Login(m, u) ==
  IF m.front # Greeter THEN {m}
  ELSE LET e == EndGreeter(m) IN
         IF e.users[u] # "none" THEN {[e EXCEPT !.front = u]} ELSE StartSession(e, u)

(* Mutant: the VT of a session that ended is never given back. *)
UserExitedKeepsVT(m, u) ==
  LET e == [m EXCEPT !.users[u] = "none"] IN
    IF m.front = u THEN StartGreeter([e EXCEPT !.front = None]) ELSE {e}

(* Mutant: the session in front ends and stays in front. *)
UserExitedInFront(m, u) == {[m EXCEPT !.users[u] = "none", !.vt[u] = None]}

(* child_exited, of a person's session. *)
UserExited(m, u) ==
  LET e == [m EXCEPT !.users[u] = "none", !.vt[u] = None] IN
    IF m.front = u THEN StartGreeter([e EXCEPT !.front = None]) ELSE {e}

(* A death more, with `kept` of the earlier ones still inside the minute. *)
Failed(m, kept) ==
  [m EXCEPT !.failures = IF kept < FailureLimit THEN kept + 1 ELSE FailureLimit + 1]

(* child_exited, of the login window: back, until it has died too often. *)
GreeterExited(m) ==
  LET e == [m EXCEPT !.greeter = "none"] IN
    IF m.front \notin {Greeter, None} THEN {e}
    ELSE UNION { LET f == Failed([e EXCEPT !.front = None], kept) IN
                   IF f.failures > FailureLimit THEN {f} ELSE StartGreeter(f)
                 : kept \in 0 .. m.failures }

-----------------------------------------------------------------------------
(* A login window is in front, and one in front is there. *)
OneLoginWindow(m) == m.greeter # "none" <=> m.front = Greeter

(* Who has a session has a VT, theirs alone; the session in front is one. *)
OwnVTs(m) ==
  /\ \A u \in Users : m.vt[u] # None <=> m.users[u] # "none"
  /\ \A u, w \in Users : m.vt[u] = m.vt[w] => u = w \/ m.vt[u] = None
  /\ m.front \in Users => m.users[m.front] # "none"
=============================================================================
