--------------------------- MODULE JailDaemonProofs ---------------------------
(***************************************************************************)
(* Proofs about JailDaemon: a living jail keeps its root, no root is       *)
(* forgotten, and in a jail this life of the daemon opened the grants      *)
(* listed are those mounted and empty nobody's file.                       *)
(***************************************************************************)
EXTENDS JailDaemon, SequenceTheorems, TLAPS

(* Where the daemon is and what it has of the jail agree.                  *)
Phases ==
  /\ pc \in {"gone", "sweep", "poll", "serve", "creating", "checking", "tearing"}
  /\ pc \in {"gone", "sweep", "creating", "tearing"} => ~live
  /\ pc = "checking" => live
  /\ pc # "checking" => pending = {}
  /\ pc = "creating" => ~jail /\ root = "whole" /\ mounted = <<>>
  /\ pc = "tearing" => ~jail \/ ~known

(* A root belongs to a jail in `live` unless the daemon is at work on it.  *)
Rooted ==
  /\ live => root # "none"
  /\ pc \in {"poll", "serve", "checking"} /\ root # "none" => live \/ refused

Orderly == Phases /\ Rooted

LEMMA OrderlyInit == Init => Orderly
BY DEF Init, Orderly, Phases, Rooted

LEMMA OrderlyStep == Orderly /\ [Next]_vars => Orderly'
<1> SUFFICES ASSUME Orderly, [Next]_vars
             PROVE  Orderly'
  OBVIOUS
<1> USE DEF Orderly, Phases, Rooted, liveVars, kernelVars
<1>1. CASE Start
  BY <1>1 DEF Start
<1>2. CASE Crash
  BY <1>2 DEF Crash, NothingLive
<1>3. CASE OwnerLetsGo
  BY <1>3 DEF OwnerLetsGo
<1>4. CASE Sweep
  BY <1>4 DEF Sweep, NothingLeft, Adopt, SweepAway, NewLive, Adoptable
<1>5. CASE Teardown
  BY <1>5 DEF Teardown
<1>6. CASE Reap
  BY <1>6 DEF Reap, NothingLive, Removed
<1>7. CASE Wake \/ NothingToDo
  BY <1>7 DEF Wake, NothingToDo
<1>8. CASE Open
  BY <1>8 DEF Open, OpenBuilds, OpenCreates, OpenRefused, NewLive
<1>9. CASE Granting
  <2>1. ASSUME NEW f \in Files, GrantMounts(f)
        PROVE  Orderly'
    BY <2>1 DEF GrantMounts
  <2>2. ASSUME NEW f \in Files, GrantFails(f)
        PROVE  Orderly'
    BY <2>2 DEF GrantFails, GrantUndone
  <2>3. CASE GrantRecorded
    BY <2>3 DEF GrantRecorded
  <2>4. CASE GrantChanged
    BY <2>4 DEF GrantChanged, GrantUndone
  <2> QED BY <1>9, <2>1, <2>2, <2>3, <2>4 DEF Granting
<1>10. CASE Revoking
  BY <1>10 DEF Revoking, Revoke
<1>11. CASE UNCHANGED vars
  BY <1>11 DEF vars
<1> QED BY <1>1, <1>2, <1>3, <1>4, <1>5, <1>6, <1>7, <1>8, <1>9, <1>10, <1>11
        DEF Next, Daemon

LEMMA AlwaysOrderly == Spec => []Orderly
BY OrderlyInit, OrderlyStep, PTL DEF Spec

(* Between two turns of the loop a root is there if and only if a jail in  *)
(* `live` has it, or an undoing failed (RootsAreAccountedFor).             *)
THEOREM NoRootIsForgotten == Spec => []RootsAreAccountedFor
<1>1. Orderly => RootsAreAccountedFor
  BY DEF Orderly, Rooted, RootsAreAccountedFor
<1> QED BY <1>1, AlwaysOrderly, PTL

(* A jail that is there, of a class and account that are, keeps its root   *)
(* whole whatever the daemon does, dies at or finds on its next start      *)
(* (ALivingJailKeepsItsRoot).                                              *)
THEOREM LivingJailsKeepTheirRoots == Spec => ALivingJailKeepsItsRoot
<1> DEFINE Kept == jail /\ jail' /\ known /\ root = "whole" => root' = "whole"
<1>1. Orderly /\ [Next]_vars => [Kept]_vars
  <2> SUFFICES ASSUME Orderly, Next, jail, known, root = "whole"
               PROVE  root' = "whole" \/ ~jail'
    OBVIOUS
  <2> USE DEF Orderly, Phases, liveVars, kernelVars
  <2>1. CASE Start \/ Crash \/ OwnerLetsGo
    BY <2>1 DEF Start, Crash, OwnerLetsGo
  <2>2. CASE Sweep \/ Reap \/ Wake \/ NothingToDo
    BY <2>2 DEF Sweep, NothingLeft, Adopt, SweepAway, Reap, Wake, NothingToDo
  <2>3. CASE Teardown \/ Open
    BY <2>3 DEF Teardown, Open, OpenBuilds, OpenCreates, OpenRefused
  <2>4. CASE Granting \/ Revoking
    BY <2>4 DEF Granting, GrantMounts, GrantFails, GrantRecorded, GrantChanged, Revoking, Revoke
  <2> QED BY <2>1, <2>2, <2>3, <2>4 DEF Next, Daemon
<1>2. Spec => [][Kept]_vars
  BY <1>1, AlwaysOrderly, PTL DEF Spec
<1> QED BY <1>2 DEF ALivingJailKeepsItsRoot

-----------------------------------------------------------------------------
(* The grants of a jail this life of the daemon opened.                    *)

(* Every one has a number of its own, smaller than the next.               *)
OwnGrants ==
  /\ mounted \in Seq(Grant) /\ next \in Nat \ {0}
  /\ grants \cup pending = {mounted[i] : i \in DOMAIN mounted}
  /\ \A i, j \in DOMAIN mounted : mounted[i].n = mounted[j].n => i = j
  /\ \A g \in grants : g.n < next
  /\ \A g \in pending : g.n = next

Fresh == live /\ ~adopted /\ ~refused

GrantsInOrder == Orderly /\ (Fresh => OwnGrants)

(* Taking one out of a sequence leaves the others, in their order. *)
LEMMA RemovedOne ==
  ASSUME NEW S, NEW s \in Seq(S), NEW i \in DOMAIN s
  PROVE  /\ RemoveAt(s, i) \in Seq(S)
         /\ Len(RemoveAt(s, i)) = Len(s) - 1
         /\ \A j \in 1 .. Len(s) - 1 : RemoveAt(s, i)[j] = IF j < i THEN s[j] ELSE s[j + 1]
<1> DEFINE before == SubSeq(s, 1, i - 1)
           after == SubSeq(s, i + 1, Len(s))
<1>1. i \in 1 .. Len(s) /\ Len(s) \in Nat
  OBVIOUS
<1>2. before \in Seq(S) /\ Len(before) = i - 1 /\ \A j \in 1 .. i - 1 : before[j] = s[j]
  BY <1>1
<1>3. /\ after \in Seq(S) /\ Len(after) = Len(s) - i
      /\ \A j \in 1 .. Len(s) - i : after[j] = s[i + j]
  BY <1>1
<1> HIDE DEF before, after
<1>4. /\ before \o after \in Seq(S)
      /\ Len(before \o after) = Len(before) + Len(after)
      /\ \A j \in 1 .. Len(before) + Len(after) :
           (before \o after)[j] = IF j <= Len(before) THEN before[j] ELSE after[j - Len(before)]
  BY <1>2, <1>3, ConcatProperties, Zenon
<1>5. \A j \in 1 .. Len(s) - 1 : (before \o after)[j] = IF j < i THEN s[j] ELSE s[j + 1]
  <2> TAKE j \in 1 .. Len(s) - 1
  <2>0. j \in 1 .. Len(before) + Len(after)
    BY <1>1, <1>2, <1>3
  <2>1. CASE j < i
    BY <1>1, <1>2, <1>4, <2>0, <2>1
  <2>2. CASE ~(j < i)
    <3>1. j - (i - 1) \in 1 .. Len(s) - i /\ i + (j - (i - 1)) = j + 1
      BY <1>1, <2>2
    <3>2. (before \o after)[j] = after[j - (i - 1)]
      BY <1>1, <1>2, <1>4, <2>0, <2>2
    <3> QED BY <1>3, <2>2, <3>1, <3>2
  <2> QED BY <2>1, <2>2
<1>6. RemoveAt(s, i) = before \o after
  BY DEF RemoveAt, before, after
<1>7. Len(before) + Len(after) = Len(s) - 1
  BY <1>1, <1>2, <1>3
<1> QED BY <1>4, <1>5, <1>6, <1>7

(* Nothing is mounted where the next grant goes. *)
LEMMA NextPlaceIsEmpty ==
  ASSUME OwnGrants, pending = {}, NEW f \in Files, NEW g \in NextGrants(f)
  PROVE  At(g) = {} /\ WrittenThrough(g) = {} /\ Unmounted(g) = {mounted}
<1>1. g.n = next
  BY DEF NextGrants
<1>2. At(g) = {}
  BY <1>1 DEF OwnGrants, At, SamePoint, Grant
<1> QED BY <1>2 DEF WrittenThrough, Unmounted, Topmost

(* Unmounting a grant leaves the others mounted. *)
LEMMA OneIsTakenOut ==
  ASSUME OwnGrants, NEW g \in grants \cup pending, NEW m \in Unmounted(g)
  PROVE  /\ m \in Seq(Grant)
         /\ {m[k] : k \in DOMAIN m} = (grants \cup pending) \ {g}
         /\ \A i, j \in DOMAIN m : m[i].n = m[j].n => i = j
<1>1. PICK i \in DOMAIN mounted : mounted[i] = g
  BY DEF OwnGrants
<1>2. At(g) = {i}
  BY <1>1 DEF At, SamePoint, OwnGrants
<1>3. i \in Nat
  BY <1>1 DEF OwnGrants
<1>4. Topmost(g) = {i}
  BY <1>2, <1>3 DEF Topmost
<1>5. m = RemoveAt(mounted, i)
  BY <1>2, <1>4 DEF Unmounted
<1>6. /\ m \in Seq(Grant) /\ Len(m) = Len(mounted) - 1
      /\ \A j \in 1 .. Len(mounted) - 1 : m[j] = IF j < i THEN mounted[j] ELSE mounted[j + 1]
  BY <1>1, <1>5, RemovedOne DEF OwnGrants
<1>7. DOMAIN m = 1 .. Len(mounted) - 1 /\ DOMAIN mounted = 1 .. Len(mounted) /\ Len(mounted) \in Nat
  BY <1>6 DEF OwnGrants
<1> DEFINE from(j) == IF j < i THEN j ELSE j + 1
<1>8. \A j \in DOMAIN m : from(j) \in DOMAIN mounted /\ from(j) # i /\ m[j] = mounted[from(j)]
  BY <1>3, <1>6, <1>7
<1>9. \A j, k \in DOMAIN m : from(j) = from(k) => j = k
  BY <1>3, <1>7
<1>10. \A k \in DOMAIN mounted \ {i} : \E j \in DOMAIN m : from(j) = k
  <2> TAKE k \in DOMAIN mounted \ {i}
  <2>1. CASE k < i
    BY <1>1, <1>3, <1>7, <2>1
  <2>2. CASE ~(k < i)
    <3>1. k - 1 \in DOMAIN m /\ from(k - 1) = k
      BY <1>3, <1>7, <2>2
    <3> QED BY <3>1
  <2> QED BY <2>1, <2>2
<1> HIDE DEF from
<1>11. \A j, k \in DOMAIN m : m[j].n = m[k].n => j = k
  BY <1>8, <1>9 DEF OwnGrants
<1>12. {m[j] : j \in DOMAIN m} = {mounted[k] : k \in DOMAIN mounted \ {i}}
  BY <1>8, <1>10
<1>13. {mounted[k] : k \in DOMAIN mounted \ {i}} = (grants \cup pending) \ {g}
  BY <1>1 DEF OwnGrants
<1> QED BY <1>6, <1>11, <1>12, <1>13

LEMMA GrantsInit == Init => GrantsInOrder
BY OrderlyInit DEF Init, GrantsInOrder, Fresh

LEMMA GrantsStep == GrantsInOrder /\ [Next]_vars => GrantsInOrder'
<1> SUFFICES ASSUME GrantsInOrder, [Next]_vars, Fresh'
             PROVE  OwnGrants'
  BY OrderlyStep DEF GrantsInOrder
<1> USE DEF Fresh
<1>0. Phases /\ (Fresh => OwnGrants)
  BY DEF GrantsInOrder, Orderly
<1>1. CASE Start \/ Crash \/ Sweep \/ Teardown \/ Reap
  BY <1>0, <1>1 DEF Start, Crash, Sweep, NothingLeft, Adopt, SweepAway, Teardown, Reap,
     NothingLive, NewLive, Phases, liveVars
<1>2. CASE OwnerLetsGo \/ Wake \/ NothingToDo \/ UNCHANGED vars
  <2>1. UNCHANGED <<live, adopted, refused, grants, pending, mounted, next>>
    BY <1>2 DEF OwnerLetsGo, Wake, NothingToDo, vars, liveVars, kernelVars
  <2>2. OwnGrants
    BY <1>0, <2>1
  <2> QED BY <2>1, <2>2 DEF OwnGrants
<1>3. CASE Open
  <2>1. CASE OpenBuilds \/ OpenRefused
    BY <1>0, <2>1 DEF OpenBuilds, OpenRefused, Phases, liveVars
  <2>2. CASE OpenCreates
    BY <1>0, <2>2 DEF OpenCreates, NewLive, Phases, OwnGrants
  <2> QED BY <1>3, <2>1, <2>2 DEF Open
<1>4. ASSUME NEW f \in Files, GrantMounts(f)
      PROVE  OwnGrants'
  <2>1. PICK g \in NextGrants(f) :
          mounted' = Append(mounted, g) /\ pending' = {g}
    BY <1>4 DEF GrantMounts
  <2>2. OwnGrants /\ pending = {} /\ UNCHANGED <<grants, next>>
    BY <1>0, <1>4 DEF GrantMounts, Phases, liveVars
  <2>3. g \in Grant /\ g.n = next
    BY <1>4, <2>1, <2>2, JailAssumption DEF GrantMounts, NextGrants, Grant, OwnGrants
  <2>4. /\ mounted' \in Seq(Grant)
        /\ DOMAIN mounted' = DOMAIN mounted \cup {Len(mounted) + 1}
        /\ mounted'[Len(mounted) + 1] = g /\ Len(mounted) + 1 \notin DOMAIN mounted
        /\ \A i \in DOMAIN mounted : mounted'[i] = mounted[i]
    BY <2>1, <2>2, <2>3 DEF OwnGrants
  <2>5. grants' \cup pending' = {mounted'[i] : i \in DOMAIN mounted'}
    BY <2>1, <2>2, <2>4 DEF OwnGrants
  <2>6. \A i \in DOMAIN mounted : mounted[i].n # g.n
    BY <2>2, <2>3 DEF OwnGrants, Grant
  <2>7. \A i, j \in DOMAIN mounted' : mounted'[i].n = mounted'[j].n => i = j
    BY <2>2, <2>4, <2>6 DEF OwnGrants
  <2> QED BY <2>1, <2>2, <2>3, <2>4, <2>5, <2>7 DEF OwnGrants
<1>5. ASSUME NEW f \in Files, GrantFails(f)
      PROVE  OwnGrants'
  <2>1. OwnGrants /\ pending = {} /\ UNCHANGED <<grants, next, pending>>
    BY <1>0, <1>5 DEF GrantFails, GrantUndone, Phases, liveVars
  <2>2. mounted' = mounted
    BY <1>5, <2>1, NextPlaceIsEmpty DEF GrantFails, GrantUndone
  <2> QED BY <2>1, <2>2 DEF OwnGrants
<1>6. CASE GrantRecorded
  <2>1. OwnGrants
    BY <1>0, <1>6 DEF GrantRecorded
  <2>2. /\ grants' = grants \cup pending /\ pending' = {}
        /\ next' = next + 1 /\ mounted' = mounted
    BY <1>6 DEF GrantRecorded, kernelVars
  <2>3. grants' \cup pending' = {mounted[i] : i \in DOMAIN mounted}
    BY <2>1, <2>2 DEF OwnGrants
  <2>4. \A g \in grants' : g.n < next'
    <3> TAKE g \in grants'
    <3>1. g \in Grant
      BY <2>1, <2>2 DEF OwnGrants
    <3>2. g.n \in Nat /\ g.n <= next
      BY <2>1, <2>2, <3>1 DEF OwnGrants, Grant
    <3> QED BY <2>1, <2>2, <3>2 DEF OwnGrants
  <2> QED BY <2>1, <2>2, <2>3, <2>4 DEF OwnGrants
<1>7. CASE GrantChanged
  <2>1. PICK g \in pending : GrantUndone(g)
    BY <1>7 DEF GrantChanged
  <2>2. mounted' \in Unmounted(g) /\ UNCHANGED <<refused, grants, next>> /\ pending' = {}
    BY <1>7, <2>1 DEF GrantChanged, GrantUndone, liveVars
  <2>3. OwnGrants
    BY <1>0, <1>7, <2>2 DEF GrantChanged, liveVars
  <2>4. (grants \cup pending) \ {g} = grants
    BY <2>3 DEF OwnGrants
  <2> QED BY <2>2, <2>3, <2>4, OneIsTakenOut DEF OwnGrants
<1>8. ASSUME NEW g \in grants, Revoke(g)
      PROVE  OwnGrants'
  <2>1. mounted' \in Unmounted(g) /\ grants' = grants \ {g} /\ UNCHANGED <<next, pending, refused>>
    BY <1>8 DEF Revoke
  <2>2. OwnGrants /\ pending = {}
    BY <1>0, <1>8, <2>1 DEF Revoke, Phases
  <2> QED BY <2>1, <2>2, OneIsTakenOut DEF OwnGrants
<1> QED BY <1>1, <1>2, <1>3, <1>4, <1>5, <1>6, <1>7, <1>8 DEF Next, Daemon, Granting, Revoking

LEMMA AlwaysInOrder == Spec => []GrantsInOrder
BY GrantsInit, GrantsStep, PTL DEF Spec

(* In a jail this life of the daemon opened, and while every undoing      *)
(* succeeds, the grants listed are the files mounted (GrantsAreListed).   *)
THEOREM ListedIsMounted == Spec => []GrantsAreListed
<1>1. GrantsInOrder => GrantsAreListed
  BY DEF GrantsInOrder, Orderly, Phases, Fresh, OwnGrants, GrantsAreListed
<1> QED BY <1>1, AlwaysInOrder, PTL

(* And mounting one truncates no file (GrantsLeaveFilesAlone).            *)
THEOREM NoFileIsEmptied == Spec => GrantsLeaveFilesAlone
<1> DEFINE Kept == ~adopted /\ ~refused => UNCHANGED emptied
<1>1. GrantsInOrder /\ [Next]_vars => [Kept]_vars
  <2> SUFFICES ASSUME GrantsInOrder, Next, ~adopted, ~refused
               PROVE  UNCHANGED emptied
    OBVIOUS
  <2>1. CASE Start \/ Crash \/ OwnerLetsGo \/ Sweep \/ Teardown \/ Reap \/ Wake \/ NothingToDo
    BY <2>1 DEF Start, Crash, OwnerLetsGo, Sweep, NothingLeft, Adopt, SweepAway, Teardown,
       Reap, Wake, NothingToDo, kernelVars
  <2>2. CASE Open \/ Revoking \/ GrantRecorded \/ GrantChanged
    BY <2>2 DEF Open, OpenBuilds, OpenCreates, OpenRefused, Revoking, Revoke, GrantRecorded,
       GrantChanged, kernelVars
  <2>3. ASSUME NEW f \in Files, GrantMounts(f) \/ GrantFails(f)
        PROVE  UNCHANGED emptied
    <3>1. OwnGrants /\ pending = {}
      BY <2>3 DEF GrantMounts, GrantFails, GrantsInOrder, Orderly, Phases, Fresh
    <3>2. \A g \in NextGrants(f) : WrittenThrough(g) = {}
      BY <3>1, NextPlaceIsEmpty
    <3> QED BY <2>3, <3>2 DEF GrantMounts, GrantFails
  <2> QED BY <2>1, <2>2, <2>3 DEF Next, Daemon, Granting
<1>2. Spec => [][Kept]_vars
  BY <1>1, AlwaysInOrder, PTL DEF Spec
<1> QED BY <1>2 DEF GrantsLeaveFilesAlone

-----------------------------------------------------------------------------
(* Types, for a jail of this life or of one before.                        *)

(* The grants of this life have numbers of their own, below the next.      *)
Numbered ==
  /\ \A g \in grants : g.n < next
  /\ \A g \in pending : g.n = next
  /\ \A g, h \in pending : g = h

JaildTyped == JaildTypeOK /\ Numbered /\ Orderly

(* Unmounting one leaves granted files, and a grant undone does. *)
LEMMA UnmountedTyped ==
  ASSUME mounted \in Seq(Grant), NEW g, NEW m \in Unmounted(g)
  PROVE  m \in Seq(Grant) /\ (mounted = <<>> => m = <<>>)
<1>1. CASE m = mounted
  BY <1>1
<1>2. ASSUME NEW i \in Topmost(g), m = RemoveAt(mounted, i) PROVE m \in Seq(Grant) /\ mounted # <<>>
  <2>1. i \in DOMAIN mounted
    BY DEF Topmost, At
  <2> QED BY <1>2, <2>1, RemovedOne
<1> QED BY <1>1, <1>2 DEF Unmounted

LEMMA UndoneTyped ==
  ASSUME mounted \in Seq(Grant), refused \in BOOLEAN, NEW g, GrantUndone(g)
  PROVE  mounted' \in Seq(Grant) /\ refused' \in BOOLEAN /\ (mounted = <<>> => mounted' = <<>>)
<1>1. CASE mounted' \in Unmounted(g) /\ UNCHANGED refused
  BY <1>1, UnmountedTyped
<1>2. CASE refused' = TRUE /\ UNCHANGED mounted
  BY <1>2
<1> QED BY <1>1, <1>2 DEF GrantUndone

(* What is written through are the person's files. *)
LEMMA WrittenTyped ==
  ASSUME mounted \in Seq(Grant), NEW g
  PROVE  WrittenThrough(g) \subseteq Files
<1>1. \A i \in DOMAIN mounted : mounted[i].file \in Files
  <2>1. \A i \in DOMAIN mounted : mounted[i] \in Grant
    OBVIOUS
  <2> QED BY <2>1 DEF Grant
<1> QED BY <1>1 DEF WrittenThrough, Topmost, At

LEMMA TypedInit == Init => JaildTyped
<1> SUFFICES ASSUME Init PROVE JaildTypeOK /\ Numbered
  BY OrderlyInit DEF JaildTyped
<1>1. next \in 1 .. MaxGrants + 1 /\ mounted \in Seq(Grant)
  BY JailAssumption DEF Init
<1>2. known \in BOOLEAN /\ live \in BOOLEAN /\ watched \in BOOLEAN
  BY DEF Init
<1>3. jail \in BOOLEAN /\ adopted \in BOOLEAN /\ refused \in BOOLEAN
  BY DEF Init
<1>4. grants = {} /\ pending = {} /\ emptied = {} /\ pc = "sweep" /\ root = "none" /\ mounted = <<>>
  BY DEF Init
<1> QED BY <1>1, <1>2, <1>3, <1>4 DEF JaildTypeOK, Numbered

LEMMA TypedStep == JaildTyped /\ [Next]_vars => JaildTyped'
<1> SUFFICES ASSUME JaildTypeOK, Numbered, Orderly, [Next]_vars
             PROVE  JaildTypeOK' /\ Numbered'
  BY OrderlyStep DEF JaildTyped
<1> USE DEF JaildTypeOK, Numbered, liveVars, kernelVars
<1>0. 1 \in 1 .. MaxGrants + 1
  BY JailAssumption
<1>1. CASE Start \/ OwnerLetsGo \/ Wake \/ NothingToDo \/ UNCHANGED vars
  <2>1. CASE Start
    BY <2>1 DEF Start
  <2>2. CASE OwnerLetsGo
    <3>1. jail' = FALSE /\ UNCHANGED <<pc, known, pending, refused, liveVars, root, mounted, emptied>>
      BY <2>2 DEF OwnerLetsGo
    <3>2. jail' \in BOOLEAN
      BY <3>1
    <3> QED BY <3>1, <3>2
  <2>3. CASE Wake
    BY <2>3 DEF Wake
  <2>4. CASE NothingToDo
    BY <2>4 DEF NothingToDo
  <2>5. CASE UNCHANGED vars
    BY <2>5 DEF vars
  <2> QED BY <1>1, <2>1, <2>2, <2>3, <2>4, <2>5
<1>2. CASE Crash \/ Reap
  <2>1. NothingLive /\ UNCHANGED <<known, kernelVars, refused>> /\ pending' = {}
        /\ pc' \in {"gone", "tearing"}
    BY <1>2 DEF Crash, Reap, Orderly, Phases
  <2>2. /\ live' = FALSE /\ watched' = FALSE /\ adopted' = FALSE /\ grants' = {} /\ next' = 1
    BY <2>1 DEF NothingLive
  <2>3. live' \in BOOLEAN /\ watched' \in BOOLEAN /\ adopted' \in BOOLEAN
    BY <2>2
  <2> QED BY <1>0, <2>1, <2>2, <2>3
<1>3. CASE Sweep
  <2>1. CASE NothingLeft \/ SweepAway
    BY <2>1 DEF NothingLeft, SweepAway
  <2>2. CASE Adopt
    <3>1. /\ NewLive(TRUE) /\ UNCHANGED <<known, pending, refused, kernelVars>>
          /\ pc = "sweep" /\ pc' = "poll"
      BY <2>2 DEF Adopt
    <3> QED BY <1>0, <3>1 DEF NewLive
  <2> QED BY <1>3, <2>1, <2>2 DEF Sweep
<1>4. CASE Teardown
  <2>1. pc' = "poll" /\ UNCHANGED <<known, pending, liveVars, jail, emptied>> /\ pc = "tearing"
    BY <1>4 DEF Teardown
  <2>2. /\ mounted' \in Seq(Grant) /\ (root' = "none" => mounted' = <<>>)
        /\ root' \in {"none", "part"}
    <3>1. CASE root' = "none" /\ mounted' = <<>>
      BY <3>1
    <3>2. ASSUME root' = "part", NEW n \in 0 .. Len(mounted), NEW left \in [1 .. n -> DOMAIN mounted],
                 mounted' = [i \in 1 .. n |-> mounted[left[i]]]
          PROVE  mounted' \in Seq(Grant)
      <4>1. mounted' \in [1 .. n -> Grant] /\ n \in Nat
        BY <3>2
      <4>2. mounted' \in UNION {[1 .. k -> Grant] : k \in Nat}
        BY <4>1
      <4> QED BY <4>2, SeqDef
    <3> QED BY <1>4, <3>1, <3>2 DEF Teardown
  <2>3. refused' \in BOOLEAN
    BY <1>4 DEF Teardown
  <2> QED BY <2>1, <2>2, <2>3
<1>5. CASE Open
  <2>1. CASE OpenBuilds
    <3>1. /\ pc = "serve" /\ pc' \in {"creating", "tearing"}
          /\ UNCHANGED <<known, pending, refused, liveVars, jail, emptied>>
      BY <2>1 DEF OpenBuilds
    <3>2. CASE root' \in {"whole", "part"} /\ mounted' = <<>>
      <4>1. mounted' \in Seq(Grant)
        BY <3>2
      <4> QED BY <3>1, <3>2, <4>1
    <3>3. CASE UNCHANGED <<root, mounted>>
      BY <3>1, <3>3
    <3> QED BY <2>1, <3>2, <3>3 DEF OpenBuilds
  <2>2. CASE OpenCreates
    <3>1. /\ NewLive(FALSE) /\ UNCHANGED <<known, pending, refused, root, mounted, emptied>>
          /\ pc = "creating" /\ pc' = "poll" /\ jail' = TRUE
      BY <2>2 DEF OpenCreates
    <3>2. jail' \in BOOLEAN
      BY <3>1
    <3> QED BY <1>0, <3>1, <3>2 DEF NewLive
  <2>3. CASE OpenRefused
    BY <2>3 DEF OpenRefused
  <2> QED BY <1>5, <2>1, <2>2, <2>3 DEF Open
<1>6. ASSUME NEW f \in Files, GrantMounts(f) PROVE JaildTypeOK' /\ Numbered'
  <2>1. PICK g \in NextGrants(f) :
          /\ emptied' = emptied \cup WrittenThrough(g)
          /\ mounted' = Append(mounted, g) /\ pending' = {g}
    BY <1>6 DEF GrantMounts
  <2>2. /\ pc = "serve" /\ live /\ next <= MaxGrants /\ pc' = "checking"
        /\ UNCHANGED <<known, refused, liveVars, jail, root>>
    BY <1>6 DEF GrantMounts
  <2>3. g \in Grant /\ g.n = next
    BY <2>2, JailAssumption DEF NextGrants, Grant
  <2>4. mounted' \in Seq(Grant) /\ emptied' \subseteq Files
    BY <2>1, <2>3, WrittenTyped
  <2>5. root # "none"
    BY <2>2 DEF Orderly, Rooted
  <2> QED BY <2>1, <2>2, <2>3, <2>4, <2>5
<1>7. ASSUME NEW f \in Files, GrantFails(f) PROVE JaildTypeOK' /\ Numbered'
  <2>1. PICK g \in NextGrants(f) :
          emptied' \in {emptied, emptied \cup WrittenThrough(g)} /\ GrantUndone(g)
    BY <1>7 DEF GrantFails
  <2>2. pc = "serve" /\ pc' = "poll" /\ UNCHANGED <<known, pending, liveVars, jail, root>>
    BY <1>7 DEF GrantFails
  <2>3. /\ mounted' \in Seq(Grant) /\ refused' \in BOOLEAN /\ (mounted = <<>> => mounted' = <<>>)
        /\ emptied' \subseteq Files
    BY <2>1, UndoneTyped, WrittenTyped
  <2> QED BY <2>2, <2>3
<1>8. CASE GrantRecorded
  <2>1. /\ pc = "checking" /\ pc' = "poll" /\ grants' = grants \cup pending /\ next' = next + 1
        /\ pending' = {} /\ UNCHANGED <<known, live, watched, adopted, refused, kernelVars>>
    BY <1>8 DEF GrantRecorded
  <2>2. next \in 1 .. MaxGrants
    BY <2>1 DEF Grant
  <2>3. next' \in 1 .. MaxGrants + 1
    BY <2>1, <2>2, JailAssumption
  <2>4. \A g \in grants' : g \in Grant /\ g.n \in Nat
    BY <2>1 DEF Grant
  <2>5. \A g \in grants' : g.n < next'
    BY <2>1, <2>2, <2>4
  <2>6. \A g, h \in grants' : g.n = h.n => g = h
    BY <2>1, <2>2, <2>4
  <2> QED BY <2>1, <2>3, <2>4, <2>5, <2>6
<1>9. CASE GrantChanged
  <2>1. PICK g \in pending : GrantUndone(g)
    BY <1>9 DEF GrantChanged
  <2>2. /\ pc = "checking" /\ pc' = "poll" /\ pending' = {}
        /\ UNCHANGED <<known, liveVars, jail, root, emptied>>
    BY <1>9 DEF GrantChanged
  <2>3. /\ mounted' \in Seq(Grant) /\ refused' \in BOOLEAN /\ (mounted = <<>> => mounted' = <<>>)
    BY <2>1, UndoneTyped
  <2> QED BY <2>2, <2>3
<1>10. ASSUME NEW g \in grants, Revoke(g) PROVE JaildTypeOK' /\ Numbered'
  <2>1. /\ pc = "serve" /\ pc' = "poll" /\ grants' \subseteq grants
        /\ mounted' \in Unmounted(g) \cup {mounted}
        /\ UNCHANGED <<known, live, watched, next, adopted, pending, jail, root, emptied>>
    BY <1>10 DEF Revoke
  <2>2. refused' \in BOOLEAN
    BY <1>10 DEF Revoke
  <2>3. mounted' \in Seq(Grant) /\ (mounted = <<>> => mounted' = <<>>)
    BY <2>1, UnmountedTyped
  <2> QED BY <2>1, <2>2, <2>3
<1> QED BY <1>1, <1>2, <1>3, <1>4, <1>5, <1>6, <1>7, <1>8, <1>9, <1>10
        DEF Next, Daemon, Granting, Revoking

(* Every variable of the daemon's is of its kind; among others no two      *)
(* grants it lists have one number, and where there is no root nothing is  *)
(* mounted (JaildTypeOK).                                                  *)
THEOREM JaildIsTyped == Spec => []JaildTypeOK
<1>1. JaildTyped => JaildTypeOK
  BY DEF JaildTyped
<1> QED BY <1>1, TypedInit, TypedStep, PTL DEF Spec
=============================================================================
