------------------------------ MODULE JailDaemon ------------------------------
(***************************************************************************)
(* abyss-jaild (jaild/src): it mounts a root for a person's jail of a      *)
(* class, creates the jail and hands its owner the descriptor it lives by; *)
(* it mounts single files into it; and it takes the root down when the jail*)
(* is gone.  What it keeps is lost when it dies; the jail and the mounts   *)
(* are the kernel's and stay, for its next start to sweep.                 *)
(*                                                                         *)
(* One name, one jail: a name's requests read and write nothing of another *)
(* name's.  The mounts a root is made of are one value, `root`; those of   *)
(* the granted files are kept one by one.                                  *)
(***************************************************************************)
EXTENDS Naturals, Sequences, SequencesExt

CONSTANTS
  Files,       \* the person's files
  NameOf,      \* file -> its base name, which it keeps inside
  MaxGrants,   \* bound: grants in one life of the daemon
  MaxMounted   \* bound: granted files mounted at a time

ASSUME JailAssumption == MaxGrants \in Nat /\ MaxMounted \in Nat

VARIABLES
  pc,       \* "gone", "sweep", "poll", "serve", "creating", "checking", "tearing"
  known,    \* the jail's class and its person's account are there on this start
  live,     \* the jail is in `live`, with the fields of a Live:
  watched,  \*   watch: the kqueue says when it is removed
  grants,   \*   grants
  next,     \*   next_grant
  pending,  \* the grant that is mounted and not checked yet
  jail,     \* kernel: the jail is there, its owner holding it
  root,     \* kernel: "none", "part" of the root's mounts, the "whole"
  mounted,  \* kernel: the granted files' mounts, the oldest first
  emptied,  \* the person's files that were truncated
  adopted,  \* history: the jail in `live` was found by a sweep
  refused   \* history: an undoing failed, and what it left is still there

liveVars == <<live, watched, grants, next, adopted>>
kernelVars == <<jail, root, mounted, emptied>>
vars == <<pc, known, pending, refused, liveVars, kernelVars>>

Grant == [n : 1 .. MaxGrants, file : Files, writable : BOOLEAN]

JaildTypeOK ==
  /\ pc \in {"gone", "sweep", "poll", "serve", "creating", "checking", "tearing"}
  /\ known \in BOOLEAN /\ live \in BOOLEAN /\ watched \in BOOLEAN
  /\ grants \in SUBSET Grant /\ \A g, h \in grants : g.n = h.n => g = h
  /\ next \in 1 .. MaxGrants + 1
  /\ pending \in SUBSET Grant /\ (pending # {} <=> pc = "checking")
  /\ jail \in BOOLEAN /\ root \in {"none", "part", "whole"}
  /\ mounted \in Seq(Grant) /\ (root = "none" => mounted = <<>>)
  /\ emptied \in SUBSET Files /\ adopted \in BOOLEAN /\ refused \in BOOLEAN

NothingLive ==
  live' = FALSE /\ watched' = FALSE /\ grants' = {} /\ next' = 1 /\ adopted' = FALSE

(* Live::new; its descriptor may not be had, or not be watched. *)
NewLive(swept) ==
  live' = TRUE /\ watched' \in BOOLEAN /\ grants' = {} /\ next' = 1 /\ adopted' = swept

Init ==
  /\ pc = "sweep" /\ known \in BOOLEAN /\ pending = {} /\ refused = FALSE
  /\ live = FALSE /\ watched = FALSE /\ grants = {} /\ next = 1 /\ adopted = FALSE
  /\ jail = FALSE /\ root = "none" /\ mounted = <<>> /\ emptied = {}

-----------------------------------------------------------------------------
(* The steps of a grant, as the performer carries them out.                *)

SamePoint(g, h) == g.n = h.n /\ NameOf[g.file] = NameOf[h.file]
At(g) == {i \in DOMAIN mounted : SamePoint(mounted[i], g)}
Topmost(g) == {i \in At(g) : \A j \in At(g) : j <= i}

(* The placeholder is opened with O_TRUNC, whatever is mounted in its place. *)
WrittenThrough(g) == {mounted[i].file : i \in {t \in Topmost(g) : mounted[t].writable}}

(* umount -f takes, of what is mounted at a point, what came last. *)
Unmounted(g) == IF At(g) = {} THEN {mounted} ELSE {RemoveAt(mounted, i) : i \in Topmost(g)}

(* revoke's steps after a grant that failed: all are tried, none is looked at. *)
GrantUndone(g) ==
  \/ mounted' \in Unmounted(g) /\ UNCHANGED refused
  \/ At(g) # {} /\ refused' = TRUE /\ UNCHANGED mounted

-----------------------------------------------------------------------------
(* On start: adopt the jail still alive, tear down what else is mounted.   *)

Start ==
  /\ pc = "gone" /\ pc' = "sweep"
  /\ known' \in BOOLEAN
  /\ UNCHANGED <<pending, refused, liveVars, kernelVars>>

Adoptable == jail /\ known

NothingLeft ==
  /\ pc = "sweep" /\ root = "none" /\ pc' = "poll"
  /\ UNCHANGED <<known, pending, refused, liveVars, kernelVars>>

Adopt ==
  /\ pc = "sweep" /\ root # "none" /\ Adoptable /\ pc' = "poll"
  /\ NewLive(TRUE)
  /\ UNCHANGED <<known, pending, refused, kernelVars>>

(* Mutant: whatever is mounted is a dead jail's. *)
SweepEverything ==
  /\ pc = "sweep" /\ root # "none" /\ pc' = "tearing"
  /\ UNCHANGED <<known, pending, refused, liveVars, kernelVars>>

(* Mutant: what a dead daemon left is left. *)
SweepNothing ==
  /\ pc = "sweep" /\ root # "none" /\ ~Adoptable /\ pc' = "poll"
  /\ UNCHANGED <<known, pending, refused, liveVars, kernelVars>>

(* Also a living jail's, when its class or its account is gone. *)
SweepAway ==
  /\ pc = "sweep" /\ root # "none" /\ ~Adoptable /\ pc' = "tearing"
  /\ UNCHANGED <<known, pending, refused, liveVars, kernelVars>>

(* The places of those that stay, in their order: of the mounts at a point, *)
(* which is unmounted as often as it is mounted, those that came first.     *)
StayMounted(left) ==
  \A i \in DOMAIN left :
    /\ \A j \in DOMAIN left : i < j => left[i] < left[j]
    /\ \A k \in At(mounted[left[i]]) : k < left[i] => \E j \in DOMAIN left : left[j] = k

(* Every mount is tried, and what refuses stays. *)
Teardown ==
  /\ pc = "tearing" /\ pc' = "poll"
  /\ \/ root' = "none" /\ mounted' = <<>> /\ refused' = FALSE
     \/ /\ root # "none" /\ root' = "part" /\ refused' = TRUE
        /\ \E n \in 0 .. Len(mounted) : \E left \in [1 .. n -> DOMAIN mounted] :
             /\ StayMounted(left)
             /\ mounted' = [i \in 1 .. n |-> mounted[left[i]]]
  /\ UNCHANGED <<known, pending, liveVars, jail, emptied>>

-----------------------------------------------------------------------------
(* The loop: jails that are gone, then one request.                        *)

Removed == live /\ watched /\ ~jail

Reap ==
  /\ pc = "poll" /\ Removed /\ pc' = "tearing"
  /\ NothingLive
  /\ UNCHANGED <<known, pending, refused, kernelVars>>

Wake ==
  /\ pc = "poll" /\ ~Removed /\ pc' = "serve"
  /\ UNCHANGED <<known, pending, refused, liveVars, kernelVars>>

(* A spawn, a list, an open that is shared or refused, no such grant. *)
NothingToDo ==
  /\ pc = "serve" /\ pc' = "poll"
  /\ UNCHANGED <<known, pending, refused, liveVars, kernelVars>>

(* open, of a name neither live nor anybody else's: build a root over whatever is there. *)
OpenBuilds ==
  /\ pc = "serve" /\ known /\ ~live /\ ~jail
  /\ \/ root' = "whole" /\ mounted' = <<>> /\ pc' = "creating"
     \/ root' = "part" /\ mounted' = <<>> /\ pc' = "tearing"
     \/ UNCHANGED <<root, mounted>> /\ pc' = "tearing"
  /\ UNCHANGED <<known, pending, refused, liveVars, jail, emptied>>

OpenCreates ==
  /\ pc = "creating" /\ pc' = "poll"
  /\ jail' = TRUE
  /\ NewLive(FALSE)
  /\ UNCHANGED <<known, pending, refused, root, mounted, emptied>>

(* Mutant: the root is left there. *)
OpenRefusedLeavesTheRoot ==
  /\ pc = "creating" /\ pc' = "poll"
  /\ UNCHANGED <<known, pending, refused, liveVars, kernelVars>>

OpenRefused ==
  /\ pc = "creating" /\ pc' = "tearing"
  /\ UNCHANGED <<known, pending, refused, liveVars, kernelVars>>

(* What the next grant of f will be. *)
NextGrants(f) == [n : {next}, file : {f}, writable : BOOLEAN]

GrantMounts(f) ==
  /\ pc = "serve" /\ live /\ next <= MaxGrants /\ Len(mounted) < MaxMounted
  /\ \E g \in NextGrants(f) :
       /\ \A i \in Topmost(g) : mounted[i].writable
       /\ emptied' = emptied \cup WrittenThrough(g)
       /\ mounted' = Append(mounted, g) /\ pending' = {g}
  /\ pc' = "checking"
  /\ UNCHANGED <<known, refused, liveVars, jail, root>>

(* Its directory or placeholder cannot be made, or it cannot be mounted. *)
GrantFails(f) ==
  /\ pc = "serve" /\ live /\ next <= MaxGrants /\ pc' = "poll"
  /\ \E g \in NextGrants(f) :
       /\ emptied' \in {emptied, emptied \cup WrittenThrough(g)}
       /\ GrantUndone(g)
  /\ UNCHANGED <<known, pending, liveVars, jail, root>>

(* Mutant: the number is not counted up. *)
GrantKeepsNumber ==
  /\ pc = "checking" /\ pc' = "poll"
  /\ grants' = grants \cup pending /\ pending' = {}
  /\ UNCHANGED <<known, live, watched, next, adopted, refused, kernelVars>>

GrantRecorded ==
  /\ pc = "checking" /\ pc' = "poll"
  /\ grants' = grants \cup pending /\ next' = next + 1 /\ pending' = {}
  /\ UNCHANGED <<known, live, watched, adopted, refused, kernelVars>>

(* What is mounted is not the file the descriptor was of. *)
GrantChanged ==
  /\ pc = "checking" /\ pc' = "poll"
  /\ \E g \in pending : GrantUndone(g)
  /\ pending' = {}
  /\ UNCHANGED <<known, liveVars, jail, root, emptied>>

(* Mutant: it is struck off although it could not be unmounted. *)
RevokeAnyway(g) ==
  /\ pc = "serve" /\ live /\ g \in grants /\ pc' = "poll"
  /\ mounted' \in Unmounted(g) \cup {mounted}
  /\ grants' = grants \ {g}
  /\ UNCHANGED <<known, live, watched, next, adopted, pending, refused, jail, root, emptied>>

(* A grant is struck off when it was unmounted and its directory is gone. *)
Revoke(g) ==
  /\ pc = "serve" /\ live /\ g \in grants /\ pc' = "poll"
  /\ \/ /\ At(g) # {} /\ mounted' \in Unmounted(g)
        /\ \A i \in DOMAIN mounted' : mounted'[i].n # g.n
        /\ grants' = grants \ {g} /\ UNCHANGED refused
     \/ /\ mounted' \in Unmounted(g) \cup {mounted}
        /\ refused' = TRUE /\ UNCHANGED grants
  /\ UNCHANGED <<known, live, watched, next, adopted, pending, jail, root, emptied>>

-----------------------------------------------------------------------------
(* The world: the daemon dies anywhere, and nothing starts it again but a  *)
(* person; the owner closes the jail's descriptor, or dies.                *)

Crash ==
  /\ pc # "gone" /\ pc' = "gone" /\ pending' = {}
  /\ NothingLive
  /\ UNCHANGED <<known, refused, kernelVars>>

OwnerLetsGo ==
  /\ jail /\ jail' = FALSE
  /\ UNCHANGED <<pc, known, pending, refused, liveVars, root, mounted, emptied>>

Sweep == NothingLeft \/ Adopt \/ SweepAway
Open == OpenBuilds \/ OpenCreates \/ OpenRefused
Granting == (\E f \in Files : GrantMounts(f) \/ GrantFails(f)) \/ GrantRecorded \/ GrantChanged
Revoking == \E g \in grants : Revoke(g)

Daemon == Sweep \/ Teardown \/ Reap \/ Wake \/ NothingToDo \/ Open \/ Granting \/ Revoking

Next == Daemon \/ Start \/ Crash \/ OwnerLetsGo

Spec == Init /\ [][Next]_vars

(* The daemon is scheduled. Whether anybody asks or lets go is the world's affair. *)
FairSpec == Spec /\ WF_vars(Daemon)

-----------------------------------------------------------------------------
(* A jail that is there, of a class and an account that are, keeps its     *)
(* root whole: no sweep, no failed open, no late reap takes it down.       *)
ALivingJailKeepsItsRoot ==
  [][jail /\ jail' /\ known /\ root = "whole" => root' = "whole"]_vars

(* Between two turns of the loop a root is there if and only if a jail in  *)
(* `live` has it, or something has refused to be unmounted: none is        *)
(* forgotten by an open that failed or by a reap.                          *)
RootsAreAccountedFor ==
  pc \in {"poll", "serve"} =>
    /\ live => root # "none"
    /\ root # "none" => live \/ refused

(* "The grants are listed per jail, and revoking one unmounts it"          *)
(* (desktop/docs/PHASE18.md:141): what is listed is what is mounted, in a  *)
(* jail this life of the daemon opened, while every undoing succeeds.      *)
GrantsAreListed ==
  pc \in {"poll", "serve"} /\ live /\ ~adopted /\ ~refused =>
    grants = {mounted[i] : i \in DOMAIN mounted}

(* Mounting a file touches no other: none is emptied, in such a jail.      *)
GrantsLeaveFilesAlone ==
  [][~adopted /\ ~refused => UNCHANGED emptied]_vars

(* Once the jail is gone so is its root in the end, also of a jail let go  *)
(* while the daemon was dead; unless it dies again, something refuses, or  *)
(* the jail could not be watched.                                          *)
RootsGoInTheEnd ==
  ~jail /\ root # "none" /\ pc # "gone"
    ~> root = "none" \/ refused \/ pc = "gone" \/ jail \/ (live /\ ~watched)

(* "a directory of its own, a placeholder to mount over" (jaild/src/       *)
(* steps.rs:153): a grant is made in a place that was empty, and so        *)
(* truncates nothing of the person's.                                      *)
PlaceholdersAreNew == [][~refused => UNCHANGED emptied]_vars
=============================================================================
