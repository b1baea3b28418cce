------------------------------ MODULE LoginDaemon ------------------------------
(***************************************************************************)
(* abyss-loginwindow's loop (login/src/service.rs) with the sessions it    *)
(* runs (LoginSessions) and the agents that watch it (abyss-idle, one to a *)
(* session: idlebin/src/main.rs).  Before the machine sleeps, or a session *)
(* gives way to the login window, the daemon tells the sessions' agents and*)
(* waits for each to say it has locked; it is one thread, and everybody    *)
(* else goes on meanwhile.                                                 *)
(*                                                                         *)
(* An agent's next connection is accepted after its last one's hang-up was *)
(* polled, so there is one watcher to a user at most.                      *)
(***************************************************************************)
EXTENDS LoginSessions, Sequences, FiniteSets

CONSTANTS
  NoPassword,     \* the users whose energy.ini requires no password to wake
  MaxLate         \* bound: the agents that may owe a late answer when the next is asked

VARIABLES
  pc,       \* "poll" | "batch" | "asking": lock_every_session waits
  batch,    \* what poll reported and is not handled yet
  sessions, \* the SessionManager
  event,    \* what the sessions were last asked: "sleep" | "lock"
  waiting,  \* those whose answer is waited for
  watch,    \* u -> its agent's connection: "none", "open", "hung" up and not read
  inbox,    \* u -> the events on the way to the agent
  answers,  \* u -> the answers on the way back: `ready`
  locked,   \* the users whose session is locked
  lockedFor \* history: those locked at some time since the last question was put

daemonVars == <<pc, batch, event, waiting>>
wireVars == <<watch, inbox, answers>>
lockVars == <<locked, lockedFor>>
vars == <<daemonVars, sessions, wireVars, lockVars>>

Events == {"sleep", "lock"}
NoBatch == [exits |-> {}, watchers |-> {}, server |-> FALSE]

LoginTypeOK ==
  /\ pc \in {"poll", "batch", "asking"}
  /\ batch \in [exits : SUBSET (Users \cup {Greeter}), watchers : SUBSET Users, server : BOOLEAN]
  /\ sessions \in Manager
  /\ event \in Events /\ waiting \in SUBSET {u \in Users : watch[u] # "none"}
  /\ watch \in [Users -> {"none", "open", "hung"}]
  /\ inbox \in [Users -> Seq(Events)] /\ answers \in [Users -> Seq(BOOLEAN)]
  /\ locked \in SUBSET Users /\ lockedFor \in SUBSET Users

(* run: the login window first. *)
Init ==
  /\ pc = "poll" /\ batch = NoBatch /\ event = "sleep" /\ waiting = {}
  /\ sessions \in StartGreeter(NewManager)
  /\ watch = [u \in Users |-> "none"]
  /\ inbox = [u \in Users |-> <<>>] /\ answers = [u \in Users |-> <<>>]
  /\ locked = {} /\ lockedFor = {}

-----------------------------------------------------------------------------
(* The loop: who ended, what the watchers sent, then one request. *)

Exited == {u \in Users : sessions.users[u] = "exited"}
            \cup (IF sessions.greeter = "exited" THEN {Greeter} ELSE {})
Readable == {u \in Users : watch[u] = "hung" \/ answers[u] # <<>>}

Poll ==
  /\ pc = "poll" /\ pc' = "batch"
  /\ \E asked \in BOOLEAN :
       batch' = [exits |-> Exited, watchers |-> Readable, server |-> asked]
  /\ batch' # NoBatch
  /\ UNCHANGED <<sessions, event, waiting, wireVars, lockVars>>

HandleExit(w) ==
  /\ pc = "batch" /\ w \in batch.exits
  /\ w = Greeter \/ Greeter \notin batch.exits
  /\ batch' = [batch EXCEPT !.exits = @ \ {w}]
  /\ sessions' \in IF w = Greeter THEN GreeterExited(sessions) ELSE UserExited(sessions, w)
  /\ UNCHANGED <<pc, event, waiting, wireVars, lockVars>>

(* Mutant: whatever a watcher sends unasked ends its watch. *)
LateAnswerEndsTheWatch(u) ==
  /\ pc = "batch" /\ batch.exits = {} /\ u \in batch.watchers
  /\ batch' = [batch EXCEPT !.watchers = @ \ {u}]
  /\ watch' = [watch EXCEPT ![u] = "none"]
  /\ answers' = [answers EXCEPT ![u] = <<>>] /\ inbox' = [inbox EXCEPT ![u] = <<>>]
  /\ UNCHANGED <<pc, sessions, event, waiting, lockVars>>

(* A late answer is read and set aside; a watcher that hung up is dropped. *)
HandleWatcher(u) ==
  /\ pc = "batch" /\ batch.exits = {} /\ u \in batch.watchers
  /\ batch' = [batch EXCEPT !.watchers = @ \ {u}]
  /\ IF answers[u] # <<>>
     THEN answers' = [answers EXCEPT ![u] = Tail(@)] /\ UNCHANGED watch
     ELSE watch' = [watch EXCEPT ![u] = "none"] /\ UNCHANGED answers
  /\ UNCHANGED <<pc, sessions, event, waiting, inbox, lockVars>>

(* serve_one's turn, and the turn over. *)
Serving == pc = "batch" /\ batch.exits = {} /\ batch.watchers = {} /\ batch.server
BackToPoll == pc' = "poll" /\ batch' = NoBatch

(* No request in the batch; or one that says nothing, only asks, or is refused. *)
NothingToServe ==
  /\ pc = "batch" /\ batch.exits = {} /\ batch.watchers = {}
  /\ BackToPoll
  /\ UNCHANGED <<sessions, event, waiting, wireVars, lockVars>>

ServeWatch(u) ==
  /\ Serving /\ sessions.users[u] = "running" /\ watch[u] = "none"
  /\ watch' = [watch EXCEPT ![u] = "open"]
  /\ BackToPoll
  /\ UNCHANGED <<sessions, event, waiting, inbox, answers, lockVars>>

(* The login window's `login`, its password accepted; and its `resume`. *)
ServeLogin(u) ==
  /\ Serving
  /\ sessions' \in Login(sessions, u)
  /\ BackToPoll
  /\ UNCHANGED <<event, waiting, wireVars, lockVars>>

ServeResume(u) ==
  /\ Serving
  /\ sessions' \in Resume(sessions, u)
  /\ BackToPoll
  /\ UNCHANGED <<event, waiting, wireVars, lockVars>>

-----------------------------------------------------------------------------
(* lock_every_session. *)

(* The question put to `asked`: one that cannot hear it is dropped. *)
Ask(e, asked) ==
  /\ \A u \in Users : Len(inbox[u]) + Len(answers[u]) <= 1
  /\ Cardinality({u \in Users : inbox[u] # <<>> \/ answers[u] # <<>>}) <= MaxLate
  /\ pc' = "asking" /\ batch' = NoBatch /\ event' = e
  /\ waiting' = {u \in asked : watch[u] = "open"}
  /\ inbox' = [u \in Users |-> IF u \in waiting' THEN Append(inbox[u], e) ELSE inbox[u]]
  /\ watch' = [u \in Users |-> IF u \in asked \ waiting' THEN "none" ELSE watch[u]]
  /\ answers' = [u \in Users |-> IF u \in asked \ waiting' THEN <<>> ELSE answers[u]]
  /\ lockedFor' = locked
  /\ UNCHANGED <<sessions, locked>>

ServeSleep == Serving /\ Ask("sleep", {u \in Users : watch[u] # "none"})

(* switch-user, from the session in front, and never with nobody to lock it. *)
ServeSwitch(u) ==
  /\ Serving /\ sessions.front = u /\ watch[u] # "none"
  /\ Ask("lock", {u})

AskingIsOver == pc' = "poll" /\ lockedFor' = {}
CalledOff == waiting' = {} /\ AskingIsOver

TakeAnswer(u) ==
  /\ pc = "asking" /\ u \in waiting /\ answers[u] # <<>>
  /\ answers' = [answers EXCEPT ![u] = Tail(@)]
  /\ IF Head(answers[u]) THEN waiting' = waiting \ {u} /\ UNCHANGED <<pc, lockedFor>>
                         ELSE CalledOff
  /\ UNCHANGED <<batch, event, sessions, watch, inbox, locked>>

HungUpInstead(u) ==
  /\ pc = "asking" /\ u \in waiting /\ answers[u] = <<>> /\ watch[u] = "hung"
  /\ watch' = [watch EXCEPT ![u] = "none"]
  /\ CalledOff
  /\ UNCHANGED <<batch, event, sessions, inbox, answers, locked>>

(* Mutant: the sessions are waited for as long as they take. *)
NeverTooLate == FALSE /\ UNCHANGED vars

TooLate ==
  /\ pc = "asking" /\ waiting # {}
  /\ CalledOff
  /\ UNCHANGED <<batch, event, sessions, wireVars, locked>>

(* All did: acpiconf, and when it returns everybody is told; or the switch. *)
Sleeps ==
  /\ pc = "asking" /\ waiting = {} /\ event = "sleep"
  /\ AskingIsOver
  /\ watch' = [u \in Users |-> IF watch[u] = "hung" THEN "none" ELSE watch[u]]
  /\ answers' = [u \in Users |-> IF watch[u] = "hung" THEN <<>> ELSE answers[u]]
  /\ UNCHANGED <<batch, event, waiting, sessions, inbox, locked>>

Switches ==
  /\ pc = "asking" /\ waiting = {} /\ event = "lock"
  /\ AskingIsOver
  /\ sessions' \in ShowLoginWindow(sessions, sessions.front)
  /\ UNCHANGED <<batch, event, waiting, wireVars, locked>>

Asking == Sleeps \/ Switches \/ TooLate \/ \E u \in Users : TakeAnswer(u) \/ HungUpInstead(u)

Daemon ==
  \/ Poll \/ NothingToServe \/ ServeSleep \/ Asking \/ HandleExit(Greeter)
  \/ \E u \in Users : \/ HandleExit(u) \/ HandleWatcher(u) \/ ServeWatch(u)
                      \/ ServeLogin(u) \/ ServeResume(u) \/ ServeSwitch(u)

-----------------------------------------------------------------------------
(* The sessions, their agents and the people. *)

Lock(u) ==
  /\ locked' = locked \cup {u}
  /\ lockedFor' = IF pc = "asking" THEN lockedFor \cup {u} ELSE lockedFor

(* event: locked and confirmed, or not ready; a sleep that needs no lock is ready. *)
AgentAnswers(u) ==
  /\ watch[u] = "open" /\ inbox[u] # <<>>
  /\ inbox' = [inbox EXCEPT ![u] = Tail(@)]
  /\ \E ready \in BOOLEAN :
       /\ answers' = [answers EXCEPT ![u] = Append(@, ready)]
       /\ IF Head(inbox[u]) = "sleep" /\ u \in NoPassword
          THEN ready /\ UNCHANGED lockVars
          ELSE Lock(u) \/ (~ready /\ UNCHANGED lockVars)
  /\ UNCHANGED <<daemonVars, sessions, watch>>

HangUp(u) ==
  /\ watch' = [watch EXCEPT ![u] = IF @ = "open" THEN "hung" ELSE @]
  /\ inbox' = [inbox EXCEPT ![u] = <<>>]

AgentDies(u) ==
  /\ watch[u] = "open" /\ HangUp(u)
  /\ UNCHANGED <<daemonVars, sessions, answers, lockVars>>

SessionEnds(u) ==
  /\ sessions.users[u] = "running"
  /\ sessions' = [sessions EXCEPT !.users[u] = "exited"]
  /\ HangUp(u)
  /\ locked' = locked \ {u}
  /\ UNCHANGED <<daemonVars, answers, lockedFor>>

GreeterEnds ==
  /\ sessions.greeter = "running"
  /\ sessions' = [sessions EXCEPT !.greeter = "exited"]
  /\ UNCHANGED <<daemonVars, wireVars, lockVars>>

(* The idle policy or the person locks; a password unlocks, the session in front. *)
PersonLocks(u) ==
  /\ sessions.users[u] = "running" /\ u \notin locked /\ Lock(u)
  /\ UNCHANGED <<daemonVars, sessions, wireVars>>

PersonUnlocks(u) ==
  /\ sessions.front = u /\ u \in locked
  /\ locked' = locked \ {u}
  /\ UNCHANGED <<daemonVars, sessions, wireVars, lockedFor>>

World ==
  \/ GreeterEnds
  \/ \E u \in Users : \/ AgentAnswers(u) \/ AgentDies(u) \/ SessionEnds(u)
                      \/ PersonLocks(u) \/ PersonUnlocks(u)

Next == Daemon \/ World

(* The daemon's thread is scheduled; an agent need not answer, nor anybody act. *)
Spec == Init /\ [][Next]_vars
FairSpec == Spec /\ WF_vars(Daemon)

-----------------------------------------------------------------------------
(* The login window never runs behind somebody's session, and there is one *)
(* whenever it is in front: whatever ends, starts, fails to start or is    *)
(* asked for in one batch (sessions.rs:156-178, 301-344).                  *)
GreeterIsInFront == OneLoginWindow(sessions)

(* One VT each (sessions.rs:16): everybody with a session has one, and only*)
(* they, no two the same; and the session in front is one there is.        *)
EachTheirOwnVT == OwnVTs(sessions)

(* A watcher is dropped for hanging up and nothing else: an agent that was *)
(* too slow once, its sleep called off without it, is asked again the next *)
(* time (service.rs:169-181, 359-362).                                     *)
OnlyTheGoneAreDropped == [][\A u \in Users : watch[u] = "open" => watch'[u] # "none"]_vars

(* One request holds the loop for lock_timeout at the most, whatever the   *)
(* agents do (service.rs:356-361): the daemon is back for the next one.    *)
AskingEnds == pc = "asking" ~> pc = "poll"

(* The session in front ends: whatever the daemon is at, that is heard and *)
(* the screen is somebody else's (sessions.rs:319-323).                    *)
TheFrontGivesWay ==
  \A u \in Users :
    (sessions.front = u /\ sessions.users[u] = "exited") ~> sessions.front # u

(* sessions.rs:12-13, "the session is **locked first** and stays running   *)
(* behind the greeter", and service.rs:317-318, "Nobody watching for that  *)
(* account is nobody to lock it: refused, never "nobody objected"": a      *)
(* session that gives way to the login window at its own asking has been   *)
(* locked since it asked.                                                  *)
SwitchLocksFirst ==
  [][ pc = "asking" /\ sessions.front \in Users /\ sessions'.front = Greeter
      => sessions.front \in lockedFor ]_vars
=============================================================================
