----------------------------- MODULE LockProtocol -----------------------------
(***************************************************************************)
(* What ext-session-lock-v1 promises of a session, and nothing of how      *)
(* undertow keeps it (desktop/protocols/ext-session-lock-v1.xml): one      *)
(* holder at a time; only the holder, once told `locked`, ends the lock;   *)
(* a holder that goes any other way leaves the session locked.             *)
(***************************************************************************)
CONSTANTS Clients, None

VARIABLES
  holder, \* the client whose lock this is, or None
  locked, \* the session is locked, held or abandoned
  told    \* the holder has been sent `locked`

protocolVars == <<holder, locked, told>>

Init == holder = None /\ locked = FALSE /\ told = FALSE

Take(c) ==
  /\ holder = None
  /\ holder' = c /\ locked' = TRUE /\ told' = FALSE

Tell ==
  /\ holder # None /\ ~told
  /\ told' = TRUE
  /\ UNCHANGED <<holder, locked>>

Give ==
  /\ holder # None /\ told
  /\ holder' = None /\ locked' = FALSE /\ told' = FALSE

Lose ==
  /\ holder # None
  /\ holder' = None /\ told' = FALSE
  /\ UNCHANGED locked

Next == (\E c \in Clients : Take(c)) \/ Tell \/ Give \/ Lose

Spec == Init /\ [][Next]_protocolVars
=============================================================================
