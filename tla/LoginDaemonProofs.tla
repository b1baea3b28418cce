--------------------------- MODULE LoginDaemonProofs ---------------------------
(***************************************************************************)
(* Proofs about LoginDaemon: the session manager's operations keep its     *)
(* parts in step, so the daemon does; and a watcher is dropped only for    *)
(* hanging up.                                                             *)
(***************************************************************************)
EXTENDS LoginDaemon, SequenceTheorems, TLAPS

(* A manager whose parts agree. *)
Sound(m) == m \in Manager /\ OneLoginWindow(m) /\ OwnVTs(m)

USE LoginAssumption

(* A manager with no login window and nobody in front, as every operation  *)
(* has it before it brings the window back or a person forward.            *)
Between(m) ==
  /\ m \in Manager /\ OwnVTs(m)
  /\ m.greeter = "none" /\ m.front \notin {Greeter}

-----------------------------------------------------------------------------
(* The operations, in the order they call each other. *)

LEMMA StartGreeterSound ==
  ASSUME NEW m, Sound(m) \/ Between(m), NEW x \in StartGreeter(m)
  PROVE  Sound(x)
BY DEF Sound, Between, StartGreeter, Manager, Child, OneLoginWindow, OwnVTs

LEMMA EndGreeterBetween ==
  ASSUME NEW m, Sound(m)
  PROVE  Between(EndGreeter(m))
BY DEF Sound, Between, EndGreeter, Manager, Child, OneLoginWindow, OwnVTs

LEMMA ShowLoginWindowSound ==
  ASSUME NEW m, Sound(m), NEW u, NEW x \in ShowLoginWindow(m, u)
  PROVE  Sound(x)
BY StartGreeterSound DEF ShowLoginWindow

LEMMA FrontSound ==
  ASSUME NEW m, Between(m), NEW u \in Users, m.users[u] # "none"
  PROVE  Sound([m EXCEPT !.front = u])
BY DEF Sound, Between, Manager, OneLoginWindow, OwnVTs

LEMMA ResumeSound ==
  ASSUME NEW m, Sound(m), NEW u \in Users, NEW x \in Resume(m, u)
  PROVE  Sound(x)
<1>1. CASE m.front = Greeter /\ m.users[u] # "none"
  <2>1. EndGreeter(m).users = m.users
    BY DEF EndGreeter, Sound, Manager
  <2> QED BY <1>1, <2>1, EndGreeterBetween, FrontSound DEF Resume
<1>2. CASE ~(m.front = Greeter /\ m.users[u] # "none")
  BY <1>2 DEF Resume
<1> QED BY <1>1, <1>2

LEMMA StartSessionSound ==
  ASSUME NEW m, Between(m), NEW u \in Users, m.users[u] = "none",
         NEW x \in StartSession(m, u)
  PROVE  Sound(x)
<1>1. CASE x \in StartGreeter(m)
  BY <1>1, StartGreeterSound
<1>2. ASSUME NEW v \in LowestFree(m),
             x = [m EXCEPT !.users[u] = "running", !.vt[u] = v, !.front = u]
      PROVE  Sound(x)
  <2>1. v \in VTs /\ \A w \in Users : m.vt[w] # v
    BY DEF LowestFree, Free
  <2>2. x \in Manager
    BY <1>2, <2>1 DEF Between, Manager, Child
  <2>3. OneLoginWindow(x)
    BY <1>2 DEF Between, Manager, OneLoginWindow
  <2>4. OwnVTs(x)
    BY <1>2, <2>1 DEF Between, Manager, OwnVTs
  <2> QED BY <2>2, <2>3, <2>4 DEF Sound
<1> QED BY <1>1, <1>2 DEF StartSession

LEMMA LoginSound ==
  ASSUME NEW m, Sound(m), NEW u \in Users, NEW x \in Login(m, u)
  PROVE  Sound(x)
<1> DEFINE e == EndGreeter(m)
<1>1. Between(e)
  BY EndGreeterBetween
<1>2. CASE m.front # Greeter
  BY <1>2 DEF Login
<1>3. CASE m.front = Greeter /\ e.users[u] # "none"
  BY <1>1, <1>3, FrontSound DEF Login
<1>4. CASE m.front = Greeter /\ e.users[u] = "none"
  BY <1>1, <1>4, StartSessionSound DEF Login
<1> QED BY <1>2, <1>3, <1>4

LEMMA UserExitedSound ==
  ASSUME NEW m, Sound(m), NEW u \in Users, NEW x \in UserExited(m, u)
  PROVE  Sound(x)
<1> DEFINE e == [m EXCEPT !.users[u] = "none", !.vt[u] = None]
<1>1. e \in Manager /\ [e EXCEPT !.front = None] \in Manager
  BY DEF Sound, Manager, Child
<1>2. /\ e.users = [m.users EXCEPT ![u] = "none"] /\ e.vt = [m.vt EXCEPT ![u] = None]
      /\ e.front = m.front /\ e.greeter = m.greeter
  BY DEF Sound, Manager
<1>3. /\ \A v \in Users : e.vt[v] # None <=> e.users[v] # "none"
      /\ \A v, w \in Users : e.vt[v] = e.vt[w] => v = w \/ e.vt[v] = None
  BY <1>2 DEF Sound, Manager, OwnVTs
<1>4. CASE m.front = u
  <2>1. m.greeter = "none"
    BY <1>4 DEF Sound, OneLoginWindow
  <2>2. /\ [e EXCEPT !.front = None].users = e.users
        /\ [e EXCEPT !.front = None].vt = e.vt
        /\ [e EXCEPT !.front = None].greeter = "none"
        /\ [e EXCEPT !.front = None].front = None
    BY <1>1, <1>2, <2>1 DEF Manager
  <2>3. Between([e EXCEPT !.front = None])
    BY <1>1, <1>3, <2>2 DEF Between, OwnVTs
  <2> QED BY <1>4, <2>3, StartGreeterSound DEF UserExited
<1>5. CASE m.front # u
  <2>1. OneLoginWindow(e)
    BY <1>2 DEF Sound, OneLoginWindow
  <2>2. OwnVTs(e)
    BY <1>2, <1>3, <1>5 DEF Sound, Manager, OwnVTs
  <2> QED BY <1>1, <1>5, <2>1, <2>2 DEF UserExited, Sound
<1> QED BY <1>4, <1>5

LEMMA GreeterExitedSound ==
  ASSUME NEW m, Sound(m), NEW x \in GreeterExited(m)
  PROVE  Sound(x)
<1> DEFINE e == [m EXCEPT !.greeter = "none"]
<1>1. CASE m.front \notin {Greeter, None}
  BY <1>1 DEF GreeterExited, Sound, Manager, Child, OneLoginWindow, OwnVTs
<1>2. CASE m.front \in {Greeter, None}
  <2>1. PICK kept \in 0 .. m.failures :
          LET f == Failed([e EXCEPT !.front = None], kept)
          IN  x \in IF f.failures > FailureLimit THEN {f} ELSE StartGreeter(f)
    BY <1>2 DEF GreeterExited
  <2> DEFINE f == Failed([e EXCEPT !.front = None], kept)
  <2> DEFINE n == IF kept < FailureLimit THEN kept + 1 ELSE FailureLimit + 1
  <2>4. n \in 0 .. FailureLimit + 1 /\ f = [e EXCEPT !.front = None, !.failures = n]
    BY DEF Failed, Sound, Manager
  <2> HIDE DEF n
  <2>2. Between(f)
    BY <1>2, <2>4 DEF Sound, Between, Manager, Child, OneLoginWindow, OwnVTs
  <2>3. Sound(f)
    BY <2>2 DEF Sound, Between, OneLoginWindow
  <2> QED BY <2>1, <2>2, <2>3, StartGreeterSound
<1> QED BY <1>1, <1>2

-----------------------------------------------------------------------------
(* The loop and the world keep the manager sound. *)

LEMMA StepKeepsSound ==
  ASSUME Sound(sessions), batch.exits \subseteq Users \cup {Greeter}, [Next]_vars
  PROVE  Sound(sessions')
<1>1. ASSUME NEW w \in Users \cup {Greeter}, HandleExit(w) PROVE Sound(sessions')
  BY <1>1, UserExitedSound, GreeterExitedSound DEF HandleExit
<1>2. ASSUME NEW u \in Users, ServeLogin(u) PROVE Sound(sessions')
  BY <1>2, LoginSound DEF ServeLogin
<1>3. ASSUME NEW u \in Users, ServeResume(u) PROVE Sound(sessions')
  BY <1>3, ResumeSound DEF ServeResume
<1>4. CASE Switches
  BY <1>4, ShowLoginWindowSound DEF Switches
<1>5. ASSUME NEW u \in Users, SessionEnds(u) PROVE Sound(sessions')
  BY <1>5 DEF SessionEnds, Sound, Manager, Child, OneLoginWindow, OwnVTs
<1>6. CASE GreeterEnds
  BY <1>6 DEF GreeterEnds, Sound, Manager, Child, OneLoginWindow, OwnVTs
<1>7. CASE UNCHANGED sessions
  BY <1>7
<1>8. ASSUME NEW u \in Users, ServeWatch(u) \/ ServeSwitch(u) \/ HandleWatcher(u)
                              \/ TakeAnswer(u) \/ HungUpInstead(u)
      PROVE  UNCHANGED sessions
  BY <1>8 DEF ServeWatch, ServeSwitch, HandleWatcher, TakeAnswer, HungUpInstead, Ask
<1>9. ASSUME NEW u \in Users, AgentAnswers(u) \/ AgentDies(u) \/ PersonLocks(u)
                              \/ PersonUnlocks(u)
      PROVE  UNCHANGED sessions
  BY <1>9 DEF AgentAnswers, AgentDies, PersonLocks, PersonUnlocks
<1>10. CASE Poll \/ NothingToServe \/ ServeSleep \/ Sleeps \/ TooLate \/ UNCHANGED vars
  BY <1>10 DEF Poll, NothingToServe, ServeSleep, Ask, Sleeps, TooLate, vars
<1> QED
  BY <1>1, <1>2, <1>3, <1>4, <1>5, <1>6, <1>7, <1>8, <1>9, <1>10
  DEF Next, Daemon, Asking, World

(* What the loop has of the batch is only ever what poll reported. *)
BatchOK ==
  batch \in [exits : SUBSET (Users \cup {Greeter}), watchers : SUBSET Users, server : BOOLEAN]

LEMMA BatchTypes ==
  ASSUME BatchOK, [Next]_vars
  PROVE  BatchOK'
<1>1. CASE Poll
  BY <1>1 DEF Poll, BatchOK, Exited, Readable
<1>2. CASE batch' = NoBatch
  BY <1>2 DEF BatchOK, NoBatch
<1>3. CASE UNCHANGED batch
  BY <1>3 DEF BatchOK
<1>4. ASSUME NEW w \in Users \cup {Greeter}, HandleExit(w) \/ HandleWatcher(w)
      PROVE  BatchOK'
  BY <1>4 DEF HandleExit, HandleWatcher, BatchOK
<1>5. ASSUME NEW u \in Users, ServeWatch(u) \/ ServeLogin(u) \/ ServeResume(u) \/ ServeSwitch(u)
      PROVE  batch' = NoBatch
  BY <1>5 DEF ServeWatch, ServeLogin, ServeResume, ServeSwitch, Ask, BackToPoll
<1>6. ASSUME NEW u \in Users, TakeAnswer(u) \/ HungUpInstead(u) \/ AgentAnswers(u) \/ AgentDies(u)
                              \/ SessionEnds(u) \/ PersonLocks(u) \/ PersonUnlocks(u)
      PROVE  UNCHANGED batch
  BY <1>6 DEF TakeAnswer, HungUpInstead, AgentAnswers, AgentDies, SessionEnds, PersonLocks,
              PersonUnlocks, daemonVars
<1>7. CASE NothingToServe \/ ServeSleep
  BY <1>7, <1>2 DEF NothingToServe, ServeSleep, Ask, BackToPoll
<1>8. CASE Sleeps \/ Switches \/ TooLate \/ GreeterEnds \/ UNCHANGED vars
  BY <1>8, <1>3 DEF Sleeps, Switches, TooLate, GreeterEnds, daemonVars, vars
<1> QED
  BY <1>1, <1>2, <1>3, <1>4, <1>5, <1>6, <1>7, <1>8 DEF Next, Daemon, Asking, World

LEMMA SessionsSound == Spec => [](Sound(sessions) /\ BatchOK)
<1>1. Init => Sound(sessions) /\ BatchOK
  <2>1. Between(NewManager)
    BY DEF Between, NewManager, Manager, Child, OwnVTs
  <2> QED BY <2>1, StartGreeterSound DEF Init, BatchOK, NoBatch
<1>2. Sound(sessions) /\ BatchOK /\ [Next]_vars => (Sound(sessions) /\ BatchOK)'
  BY StepKeepsSound, BatchTypes DEF BatchOK
<1> QED BY <1>1, <1>2, PTL DEF Spec

(* The login window never runs behind somebody's session, for any number   *)
(* of people, VTs and deaths of it (sessions.rs).                          *)
THEOREM GreeterIsAlwaysInFront == Spec => []GreeterIsInFront
<1>1. Sound(sessions) /\ BatchOK => GreeterIsInFront
  BY DEF Sound, GreeterIsInFront
<1> QED BY <1>1, SessionsSound, PTL

(* Nobody is ever given another's VT, or left without one (VTPlan).        *)
THEOREM VTsAreNeverShared == Spec => []EachTheirOwnVT
<1>1. Sound(sessions) /\ BatchOK => EachTheirOwnVT
  BY DEF Sound, EachTheirOwnVT
<1> QED BY <1>1, SessionsSound, PTL

-----------------------------------------------------------------------------
(* No step of the daemon ends the watch of an agent that has not hung up:  *)
(* who is polled as readable, and has sent nothing, has hung up, and both  *)
(* stay so until the daemon comes to it.                                   *)
AnswerSeqs == Seq(BOOLEAN)

LEMMA AnswerSeqsFacts ==
  /\ <<>> \in AnswerSeqs
  /\ \A s \in AnswerSeqs : s # <<>> => Tail(s) \in AnswerSeqs
  /\ \A s \in AnswerSeqs, b \in BOOLEAN : Append(s, b) \in AnswerSeqs /\ Append(s, b) # <<>>
BY EmptySeq, HeadTailProperties, AppendProperties DEF AnswerSeqs

WatchOK ==
  /\ BatchOK
  /\ watch \in [Users -> {"none", "open", "hung"}]
  /\ answers \in [Users -> AnswerSeqs]
  /\ pc = "batch" => \A u \in batch.watchers : watch[u] = "hung" \/ answers[u] # <<>>

LEMMA WatchInit == Init => WatchOK
BY AnswerSeqsFacts DEF Init, WatchOK, BatchOK, NoBatch

LEMMA HangUpKeepsTheBatch ==
  ASSUME WatchOK, NEW u \in Users, HangUp(u), UNCHANGED <<pc, batch, answers>>
  PROVE  WatchOK'
BY DEF WatchOK, BatchOK, HangUp

LEMMA WatchStep ==
  ASSUME WatchOK, [Next]_vars
  PROVE  WatchOK'
<1>1. BatchOK'
  BY BatchTypes DEF WatchOK
<1>2. CASE Poll
  BY <1>1, <1>2 DEF WatchOK, Poll, Readable, wireVars
<1>3. ASSUME NEW w \in Users \cup {Greeter}, HandleExit(w) PROVE WatchOK'
  BY <1>1, <1>3 DEF WatchOK, BatchOK, HandleExit, wireVars
<1>4. ASSUME NEW u \in Users, HandleWatcher(u) PROVE WatchOK'
  <2>1. /\ watch' \in [Users -> {"none", "open", "hung"}]
        /\ answers' \in [Users -> AnswerSeqs]
    <3>1. CASE answers[u] # <<>>
      <4>1. answers' = [answers EXCEPT ![u] = Tail(answers[u])] /\ watch' = watch
        BY <1>4, <3>1 DEF HandleWatcher
      <4>2. u \in Users /\ Tail(answers[u]) \in AnswerSeqs
        BY <3>1, AnswerSeqsFacts DEF WatchOK
      <4> QED BY <4>1, <4>2 DEF WatchOK
    <3>2. CASE answers[u] = <<>>
      BY <1>4, <3>2 DEF WatchOK, HandleWatcher
    <3> QED BY <3>1, <3>2
  <2>2. /\ batch'.watchers = batch.watchers \ {u}
        /\ \A w \in Users \ {u} : watch'[w] = watch[w] /\ answers'[w] = answers[w]
    BY <1>4 DEF WatchOK, BatchOK, HandleWatcher
  <2> QED BY <1>1, <1>4, <2>1, <2>2 DEF WatchOK, BatchOK, HandleWatcher
<1>5. ASSUME NEW u \in Users, ServeWatch(u) \/ ServeLogin(u) \/ ServeResume(u) PROVE WatchOK'
  BY <1>1, <1>5 DEF WatchOK, ServeWatch, ServeLogin, ServeResume, BackToPoll, wireVars
<1>6. ASSUME NEW e, NEW asked, Ask(e, asked) PROVE WatchOK'
  BY <1>1, <1>6, AnswerSeqsFacts DEF WatchOK, Ask
<1>7. ASSUME NEW u \in Users, ServeSwitch(u) PROVE WatchOK'
  BY <1>6, <1>7 DEF ServeSwitch
<1>8. CASE ServeSleep
  BY <1>6, <1>8 DEF ServeSleep
<1>9. ASSUME NEW u \in Users, TakeAnswer(u) PROVE WatchOK'
  <2>1. answers' \in [Users -> AnswerSeqs]
    BY <1>9, AnswerSeqsFacts DEF WatchOK, TakeAnswer
  <2>2. pc' # "batch"
    BY <1>9 DEF TakeAnswer, CalledOff, AskingIsOver
  <2> QED BY <1>1, <1>9, <2>1, <2>2 DEF WatchOK, TakeAnswer
<1>10. ASSUME NEW u \in Users, HungUpInstead(u) PROVE WatchOK'
  BY <1>1, <1>10 DEF WatchOK, HungUpInstead, CalledOff, AskingIsOver
<1>11. CASE Sleeps \/ Switches \/ TooLate \/ NothingToServe
  BY <1>1, <1>11, AnswerSeqsFacts
  DEF WatchOK, Sleeps, Switches, TooLate, NothingToServe, BackToPoll, CalledOff, AskingIsOver,
      wireVars
<1>12. ASSUME NEW u \in Users, AgentAnswers(u) PROVE WatchOK'
  <2>1. PICK ready \in BOOLEAN : answers' = [answers EXCEPT ![u] = Append(@, ready)]
    BY <1>12 DEF AgentAnswers
  <2>2. /\ answers' \in [Users -> AnswerSeqs]
        /\ \A w \in Users : answers[w] # <<>> => answers'[w] # <<>>
    BY <2>1, AnswerSeqsFacts DEF WatchOK
  <2> QED BY <1>1, <1>12, <2>2 DEF WatchOK, BatchOK, AgentAnswers, daemonVars
<1>13. ASSUME NEW u \in Users, AgentDies(u) \/ SessionEnds(u) PROVE WatchOK'
  BY <1>13, HangUpKeepsTheBatch DEF AgentDies, SessionEnds, daemonVars
<1>14. CASE UNCHANGED <<pc, batch, watch, answers>>
  BY <1>1, <1>14 DEF WatchOK
<1>15. ASSUME NEW u \in Users, PersonLocks(u) \/ PersonUnlocks(u)
       PROVE  UNCHANGED <<pc, batch, watch, answers>>
  BY <1>15 DEF PersonLocks, PersonUnlocks, daemonVars, wireVars
<1>16. CASE GreeterEnds \/ UNCHANGED vars
  BY <1>14, <1>16 DEF GreeterEnds, daemonVars, wireVars, vars
<1> QED
  BY <1>2, <1>3, <1>4, <1>5, <1>7, <1>8, <1>9, <1>10, <1>11, <1>12, <1>13, <1>14, <1>15,
     <1>16
  DEF Next, Daemon, Asking, World

LEMMA StepDropsTheGone ==
  ASSUME WatchOK, Next, NEW u \in Users, watch[u] = "open"
  PROVE  watch'[u] # "none"
<1>1. ASSUME NEW w \in Users, HandleWatcher(w) PROVE watch'[u] # "none"
  <2>1. w = u => answers[u] # <<>>
    BY <1>1 DEF WatchOK, HandleWatcher
  <2> QED BY <1>1, <2>1 DEF WatchOK, HandleWatcher
<1>2. ASSUME NEW e, NEW asked, Ask(e, asked) PROVE watch'[u] # "none"
  BY <1>2 DEF WatchOK, Ask
<1>3. ASSUME NEW w \in Users, HungUpInstead(w) \/ ServeWatch(w) PROVE watch'[u] # "none"
  BY <1>3 DEF WatchOK, HungUpInstead, ServeWatch
<1>4. CASE Sleeps
  BY <1>4 DEF WatchOK, Sleeps
<1>5. ASSUME NEW w \in Users, AgentDies(w) \/ SessionEnds(w) PROVE watch'[u] # "none"
  BY <1>5 DEF WatchOK, AgentDies, SessionEnds, HangUp
<1>6. ASSUME NEW w \in Users \cup {Greeter}, HandleExit(w) PROVE UNCHANGED watch
  BY <1>6 DEF HandleExit, wireVars
<1>7. ASSUME NEW w \in Users, ServeLogin(w) \/ ServeResume(w) \/ TakeAnswer(w)
                              \/ AgentAnswers(w) \/ PersonLocks(w) \/ PersonUnlocks(w)
      PROVE  UNCHANGED watch
  BY <1>7 DEF ServeLogin, ServeResume, TakeAnswer, AgentAnswers, PersonLocks, PersonUnlocks,
              wireVars
<1>8. CASE Poll \/ NothingToServe \/ Switches \/ TooLate \/ GreeterEnds
  BY <1>8 DEF Poll, NothingToServe, Switches, TooLate, GreeterEnds, wireVars
<1>9. ASSUME NEW w \in Users, ServeSwitch(w) PROVE watch'[u] # "none"
  BY <1>2, <1>9 DEF ServeSwitch
<1>10. CASE ServeSleep
  BY <1>2, <1>10 DEF ServeSleep
<1> QED
  BY <1>1, <1>3, <1>4, <1>5, <1>6, <1>7, <1>8, <1>9, <1>10 DEF Next, Daemon, Asking, World

(* An agent that was too slow once goes on being asked, whatever number of *)
(* people and questions there is.                                          *)
THEOREM TheSlowAreKept == Spec => OnlyTheGoneAreDropped
<1>1. WatchOK /\ [Next]_vars => WatchOK'
  BY WatchStep
<1>2. WatchOK /\ [Next]_vars => [\A u \in Users : watch[u] = "open" => watch'[u] # "none"]_vars
  BY StepDropsTheGone
<1> QED BY <1>1, <1>2, WatchInit, PTL DEF Spec, OnlyTheGoneAreDropped

-----------------------------------------------------------------------------
(* The types of the rest.  That nobody without a watcher is waited for     *)
(* rests on the daemon's one thread: it waits for nobody but while it asks,*)
(* and drops a watcher meanwhile only as it stops waiting for anybody.     *)
EventSeqs == Seq(Events)

LEMMA EventSeqsFacts ==
  /\ <<>> \in EventSeqs
  /\ \A s \in EventSeqs : s # <<>> => Tail(s) \in EventSeqs
  /\ \A s \in EventSeqs, e \in Events : Append(s, e) \in EventSeqs
BY EmptySeq, HeadTailProperties, AppendProperties DEF EventSeqs

AskOK ==
  /\ pc \in {"poll", "batch", "asking"} /\ event \in Events
  /\ waiting \in SUBSET {u \in Users : watch[u] # "none"}
  /\ pc # "asking" => waiting = {}
  /\ inbox \in [Users -> EventSeqs]
  /\ locked \in SUBSET Users /\ lockedFor \in SUBSET Users

LEMMA AskInit == Init => AskOK
BY EventSeqsFacts DEF Init, AskOK, Events

LEMMA HangUpKeepsAsking ==
  ASSUME WatchOK, AskOK, NEW u \in Users, HangUp(u), UNCHANGED <<pc, event, waiting>>,
         locked' \in SUBSET Users, lockedFor' \in SUBSET Users
  PROVE  AskOK'
<1>1. inbox' \in [Users -> EventSeqs]
  BY EventSeqsFacts DEF AskOK, HangUp
<1>2. \A w \in Users : watch[w] # "none" => watch'[w] # "none"
  BY DEF WatchOK, HangUp
<1> QED BY <1>1, <1>2 DEF AskOK

LEMMA AskStep ==
  ASSUME WatchOK, AskOK, [Next]_vars
  PROVE  AskOK'
<1>1. CASE Poll
  BY <1>1 DEF AskOK, Poll, wireVars, lockVars
<1>2. ASSUME NEW w \in Users \cup {Greeter}, HandleExit(w) PROVE AskOK'
  BY <1>2 DEF AskOK, HandleExit, wireVars, lockVars
<1>3. ASSUME NEW u \in Users, HandleWatcher(u) PROVE AskOK'
  BY <1>3 DEF AskOK, HandleWatcher, lockVars
<1>4. ASSUME NEW u \in Users, ServeWatch(u) \/ ServeLogin(u) \/ ServeResume(u) PROVE AskOK'
  BY <1>4 DEF AskOK, ServeWatch, ServeLogin, ServeResume, Serving, BackToPoll, wireVars, lockVars
<1>5. ASSUME NEW e \in Events, NEW asked \in SUBSET Users, Ask(e, asked) PROVE AskOK'
  <2>1. \A u \in Users : Append(inbox[u], e) \in EventSeqs /\ inbox[u] \in EventSeqs
    BY EventSeqsFacts DEF AskOK
  <2>2. inbox' = [u \in Users |-> IF u \in waiting' THEN Append(inbox[u], e) ELSE inbox[u]]
    BY <1>5 DEF Ask
  <2>3. inbox' \in [Users -> EventSeqs]
    BY <2>1, <2>2
  <2>4. /\ waiting' = {u \in asked : watch[u] = "open"}
        /\ watch' = [u \in Users |-> IF u \in asked \ waiting' THEN "none" ELSE watch[u]]
    BY <1>5 DEF Ask
  <2>5. waiting' \in SUBSET {u \in Users : watch'[u] # "none"}
    BY <2>4 DEF WatchOK
  <2> QED BY <1>5, <2>3, <2>5 DEF AskOK, Ask
<1>6. ASSUME NEW u \in Users, ServeSwitch(u) PROVE AskOK'
  <2>1. {u} \in SUBSET Users /\ Ask("lock", {u}) /\ "lock" \in Events
    BY <1>6 DEF ServeSwitch, Events
  <2> QED BY <1>5, <2>1
<1>7. CASE ServeSleep
  <2> DEFINE S == {u \in Users : watch[u] # "none"}
  <2>1. S \in SUBSET Users /\ Ask("sleep", S) /\ "sleep" \in Events
    BY <1>7 DEF ServeSleep, Events
  <2> HIDE DEF S
  <2> QED BY <1>5, <2>1
<1>8. ASSUME NEW u \in Users, TakeAnswer(u) PROVE AskOK'
  BY <1>8 DEF AskOK, TakeAnswer, CalledOff, AskingIsOver
<1>9. ASSUME NEW u \in Users, HungUpInstead(u) PROVE AskOK'
  BY <1>9 DEF AskOK, HungUpInstead, CalledOff, AskingIsOver
<1>10. CASE Sleeps \/ Switches \/ TooLate \/ NothingToServe
  BY <1>10
  DEF AskOK, Sleeps, Switches, TooLate, NothingToServe, BackToPoll, CalledOff, AskingIsOver,
      wireVars, lockVars
<1>11. ASSUME NEW u \in Users, AgentAnswers(u) PROVE AskOK'
  <2>1. inbox' \in [Users -> EventSeqs]
    BY <1>11, EventSeqsFacts DEF AskOK, AgentAnswers
  <2>2. locked' \in SUBSET Users /\ lockedFor' \in SUBSET Users
    BY <1>11 DEF AskOK, AgentAnswers, Lock, lockVars
  <2> QED BY <1>11, <2>1, <2>2 DEF AskOK, AgentAnswers, daemonVars
<1>12. ASSUME NEW u \in Users, AgentDies(u) \/ SessionEnds(u) PROVE AskOK'
  <2>1. locked' \in SUBSET Users /\ lockedFor' \in SUBSET Users
    BY <1>12 DEF AskOK, AgentDies, SessionEnds, lockVars
  <2> QED BY <1>12, <2>1, HangUpKeepsAsking DEF AgentDies, SessionEnds, daemonVars
<1>13. ASSUME NEW u \in Users, PersonLocks(u) \/ PersonUnlocks(u) PROVE AskOK'
  BY <1>13 DEF AskOK, PersonLocks, PersonUnlocks, Lock, daemonVars, wireVars
<1>14. CASE GreeterEnds \/ UNCHANGED vars
  BY <1>14 DEF AskOK, GreeterEnds, daemonVars, wireVars, lockVars, vars
<1> QED
  BY <1>1, <1>2, <1>3, <1>4, <1>6, <1>7, <1>8, <1>9, <1>10, <1>11, <1>12, <1>13, <1>14
  DEF Next, Daemon, Asking, World

(* What the daemon and its agents have is always of its type; above all    *)
(* nobody is waited for who cannot answer, or hang up.                     *)
THEOREM LoginTypes == Spec => []LoginTypeOK
<1>1. Sound(sessions) /\ WatchOK /\ AskOK => LoginTypeOK
  BY DEF Sound, WatchOK, BatchOK, AskOK, LoginTypeOK, AnswerSeqs, EventSeqs
<1>2. WatchOK /\ AskOK /\ [Next]_vars => (WatchOK /\ AskOK)'
  BY WatchStep, AskStep
<1> QED BY <1>1, <1>2, WatchInit, AskInit, SessionsSound, PTL DEF Spec
=============================================================================
