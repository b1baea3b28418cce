--------------------------- MODULE GmuMailboxProofs ---------------------------
(***************************************************************************)
(* The driver's talk with the GMU for every size of its queues and every   *)
(* number of boots, late answers, errors and crashes.                      *)
(***************************************************************************)
EXTENDS GmuMailbox, SequenceTheorems, TLAPS

(* A caller in hand of a message knows which, one that made a request too. *)
InHand ==
    /\ IF pc \in {"write", "poll", "read"} THEN kind \in Kinds ELSE kind = "none"
    /\ IF pc \in {"oob", "touch"} THEN oob \in Oobs ELSE oob = "none"
Typed == MailboxTypeOK /\ InHand

(***************************************************************************)
(* What makes AckedIsHeld inductive.  Of a boot that is over and without a *)
(* timeout, at most one request is open: the caller's.  Until the GMU took *)
(* it it is the last of `asks`, behind whatever was let go of before; once *)
(* the GMU did, the GPU is on for it, and nobody lets go of it but the     *)
(* caller.  During the boot there are none, so that what is in the         *)
(* register is the last boot's, and the end of the boot clears it.         *)
(***************************************************************************)
AfterBoot == pc \in {"up", "oob", "touch"} \/ (pc \in {"write", "poll", "read"} /\ kind = "vote")

LetGo == \A i \in DOMAIN asks : asks[i][2] = "clear"
Kept(o) == o \in held /\ LetGo /\ \A i \in DOMAIN asks : asks[i] # <<o, "clear">>
NotTaken(o) ==
    /\ asks # <<>> /\ asks[Len(asks)] = <<o, "set">>
    /\ \A i \in 1..(Len(asks) - 1) : asks[i][2] = "clear"

OobInv ==
    /\ Booting \/ kind = "vote" => asks = <<>>
    /\ AfterBoot => bits \subseteq {"msgq"} \cup (IF pc = "oob" THEN {oob} ELSE {})
    /\ pc = "up" => LetGo
    /\ pc = "touch" => Kept(oob)
    /\ pc = "oob" => IF oob \in bits THEN Kept(oob) ELSE NotTaken(oob)

(* The numbers in flight: of messages not heard, or not answered, and of answers. *)
InFlight ==
    {cmdq[i].seq : i \in DOMAIN cmdq} \cup {busy[i].seq : i \in DOMAIN busy}
    \cup {respq[i].seq : i \in {j \in DOMAIN respq : respq[j].what # "error"}}

(* What the code never looks at: that the next number is none of those. *)
NewNumber == Write => seq' \notin InFlight
NumbersAreNew == [][NewNumber]_vars

InHandIs(m) == m.seq = seq => ~m.old /\ m.kind = kind
HeardIt == \E i \in DOMAIN heard : heard[i].seq = seq /\ InHandIs(heard[i])

QueuedIsInHand == \A i \in DOMAIN cmdq : InHandIs(cmdq[i])
TakenIsInHand == \A i \in DOMAIN busy : InHandIs(busy[i])
AnsweredIsHeard == \A i \in DOMAIN respq : OwnAnswer(respq[i]) => HeardIt

AnswerInv ==
    /\ \A i \in DOMAIN busy : \E j \in DOMAIN heard : heard[j] = busy[i]
    /\ pc \in {"poll", "read"} =>
         QueuedIsInHand /\ TakenIsInHand /\ AnsweredIsHeard

Fresh(m) == ~m.old /\ m.kind \in ToSet(BootMsgs)
NoneFresh == \A i \in DOMAIN cmdq : ~Fresh(cmdq[i])
OneFresh == \A i, j \in DOMAIN cmdq : Fresh(cmdq[i]) /\ Fresh(cmdq[j]) => i = j /\ cmdq[i].kind = kind

(* What was heard of the boot, by the message in hand. *)
BootInv ==
    \A n \in 1..4 : kind = BootMsgs[n] =>
      IF pc = "write" THEN HeardUpTo(n - 1) /\ NoneFresh
      ELSE (HeardUpTo(n - 1) /\ OneFresh) \/ (HeardUpTo(n) /\ NoneFresh)
UpInv == HfiIrqOn => HeardUpTo(4) /\ NoneFresh
OrderInv == BootInv /\ UpInv

MailInv == Typed /\ AnswerInv /\ OrderInv

-----------------------------------------------------------------------------
(* The kinds of message there are, and the order of the boot's. *)
LEMMA KindsAre ==
    /\ BootMsgs \in Seq(Kinds) /\ DOMAIN BootMsgs = 1..4
    /\ BootMsgs[1] = "perf" /\ BootMsgs[2] = "bw" /\ BootMsgs[3] = "core" /\ BootMsgs[4] = "start"
    /\ ToSet(BootMsgs) = {"perf", "bw", "core", "start"}
    /\ Kinds = {"perf", "bw", "core", "start", "vote", "slumber"} /\ "none" \notin Kinds
<1>1. /\ BootMsgs[1] = "perf" /\ BootMsgs[2] = "bw" /\ BootMsgs[3] = "core" /\ BootMsgs[4] = "start"
      /\ DOMAIN BootMsgs = 1..4
  BY DEF BootMsgs
<1>2. ToSet(BootMsgs) = {"perf", "bw", "core", "start"}
  BY <1>1 DEF ToSet
<1>3. Kinds = {"perf", "bw", "core", "start", "vote", "slumber"} /\ "none" \notin Kinds
  BY <1>2 DEF Kinds
<1>4. BootMsgs \in Seq(Kinds)
  BY <1>3 DEF BootMsgs
<1> QED
  BY <1>1, <1>2, <1>3, <1>4

LEMMA KindNames ==
  Kinds = {"perf", "bw", "core", "start", "vote", "slumber"} /\ "none" \notin Kinds
  BY KindsAre

(* ... which a6xx_hfi_start goes through one by one. *)
NextOfBoot ==
    \/ kind = "perf" /\ kind' = "bw"
    \/ kind = "bw" /\ kind' = "core"
    \/ kind = "core" /\ kind' = "start"

LEMMA NextKindIs ==
  ASSUME kind \in ToSet(BootMsgs), kind # "start", kind' = NextKind
  PROVE  NextOfBoot
<1>1. ASSUME NEW i \in 1..3, kind = BootMsgs[i] PROVE kind' = BootMsgs[i + 1]
  <2>1. \A j \in 2..4 : BootMsgs[j - 1] = kind <=> j = i + 1
    <3>1. ASSUME NEW j \in 2..4 PROVE j = 2 \/ j = 3 \/ j = 4
      OBVIOUS
    <3>2. i = 1 \/ i = 2 \/ i = 3
      OBVIOUS
    <3> QED
      BY <1>1, <3>1, <3>2, KindsAre
  <2>2. (CHOOSE j \in 2..4 : BootMsgs[j - 1] = kind) = i + 1
    BY <2>1
  <2> QED
    BY <2>2 DEF NextKind
<1> QED
  BY <1>1, KindsAre DEF NextOfBoot

(* What the caller does with a result: the boot goes on, is over or has    *)
(* failed; the vote's is not looked at; slumber is granted or forced.      *)
LEMMA ResultIs ==
  ASSUME NEW ok \in BOOLEAN, kind \in Kinds, Result(ok)
  PROVE  \/ ok /\ NextOfBoot /\ pc' = "write" /\ bits' = bits
         \/ ok /\ kind = "start" /\ pc' = "write" /\ kind' = "vote" /\ bits' = {}
         \/ ~ok /\ kind \in ToSet(BootMsgs) /\ pc' = "off" /\ kind' = "none" /\ bits' = bits
         \/ kind = "vote" /\ pc' = "up" /\ kind' = "none" /\ bits' = bits
         \/ /\ kind = "slumber" /\ pc' = (IF ok THEN "rest" ELSE "flush")
            /\ kind' = "none" /\ bits' = bits
  BY NextKindIs DEF Result, Onward, BitsCleared

(* One more at a queue's end, one less at its head. *)
LEMMA AppendIs ==
  ASSUME NEW S, NEW q \in Seq(S), NEW x \in S
  PROVE  /\ Append(q, x) \in Seq(S) /\ Len(q) + 1 \notin DOMAIN q
         /\ DOMAIN Append(q, x) = DOMAIN q \cup {Len(q) + 1}
         /\ \A i \in DOMAIN q : Append(q, x)[i] = q[i] /\ i < Len(q) + 1
         /\ Append(q, x)[Len(q) + 1] = x
         /\ Len(Append(q, x)) = Len(q) + 1 /\ DOMAIN q = 1..Len(q)
  OBVIOUS

LEMMA TailIs ==
  ASSUME NEW S, NEW q \in Seq(S), q # <<>>
  PROVE  /\ Tail(q) \in Seq(S) /\ Head(q) = q[1] /\ Head(q) \in S /\ 1 \in DOMAIN q
         /\ Len(Tail(q)) = Len(q) - 1 /\ Len(q) \in Nat /\ DOMAIN q = 1..Len(q)
         /\ \A i \in DOMAIN Tail(q) : i + 1 \in DOMAIN q /\ Tail(q)[i] = q[i + 1]
  OBVIOUS

-----------------------------------------------------------------------------
(* Types, and what the caller has in hand, by the callers' steps ... *)

LEMMA StartsTyped ==
  ASSUME Typed, Resume \/ FirmwareStarts \/ FirmwareFails
  PROVE  Typed'
<1> USE KindNames DEF Typed, MailboxTypeOK, InHand, host, queues, gmu, counts, Late
<1>1. CASE Resume
  <2>1. boots' \in Nat
    BY <1>1 DEF Resume
  <2>2. /\ pc = "off" /\ pc' = "load" /\ hung' = FALSE /\ needsInit' = TRUE
        /\ UNCHANGED <<kind, oob, seq, bits, asks, queues, gmu, slow, late, errors, crashes>>
    BY <1>1 DEF Resume
  <2>3. MailboxTypeOK'
    BY <2>1, <2>2
  <2>4. InHand'
    BY <2>2
  <2> QED
    BY <2>3, <2>4
<1>2. CASE FirmwareStarts
  <2>1. cmdq' \in Seq(Message)
    <3>1. ASSUME NEW i \in DOMAIN cmdq PROVE [cmdq[i] EXCEPT !.old = TRUE] \in Message
      <4>1. cmdq[i] \in Message
        OBVIOUS
      <4> QED
        BY <4>1 DEF Message
    <3>2. DOMAIN cmdq = 1..Len(cmdq) /\ Len(cmdq) \in Nat
      OBVIOUS
    <3>3. cmdq' = [i \in DOMAIN cmdq |-> [cmdq[i] EXCEPT !.old = TRUE]]
      BY <1>2 DEF FirmwareStarts
    <3>4. cmdq' \in [1..Len(cmdq) -> Message]
      BY <3>1, <3>2, <3>3
    <3> QED
      <4>1. cmdq' \in UNION {[1..n -> Message] : n \in Nat}
        BY <3>2, <3>4
      <4> QED
        BY <4>1, SeqDef
  <2>2. busy' \in Seq(Message) /\ heard' \in Seq(Message) /\ Len(busy') <= 1
    BY <1>2 DEF FirmwareStarts
  <2>3. /\ pc = "load" /\ pc' = "write" /\ kind' = "perf" /\ fw' = "run" /\ owes' = FALSE /\ held' = {}
        /\ asks' = <<>> /\ bits' \subseteq bits /\ slow' = FALSE
        /\ UNCHANGED <<oob, seq, hung, needsInit, respq, late, counts>>
    BY <1>2 DEF FirmwareStarts
  <2> QED
    <3>0. asks' \in Seq(Oobs \X {"set", "clear"})
      BY <2>3
    <3>1. owes' \in BOOLEAN /\ slow' \in BOOLEAN
      BY <2>3
    <3>2. /\ pc' \in {"write"} /\ kind' \in Kinds /\ fw' \in {"run"} /\ held' \subseteq Oobs
          /\ bits' \subseteq {"msgq", "fault"} \cup Oobs
      BY <2>3
    <3>3. MailboxTypeOK'
      BY <2>1, <2>2, <2>3, <3>0, <3>1, <3>2
    <3>4. InHand'
      BY <2>3
    <3> QED
      BY <3>3, <3>4
<1>3. CASE FirmwareFails
  BY <1>3 DEF FirmwareFails
<1> QED
  BY <1>1, <1>2, <1>3

(* Where a result takes the caller is a place there is. *)
LEMMA ResultTyped ==
  ASSUME Typed, pc \in {"write", "poll", "read"}, NEW ok \in BOOLEAN, Result(ok)
  PROVE  /\ pc' \in {"off", "write", "up", "rest", "flush"} /\ kind' \in Kinds \cup {"none"}
         /\ IF pc' = "write" THEN kind' \in Kinds ELSE kind' = "none"
         /\ bits' \subseteq bits
  BY ResultIs, KindsAre DEF Typed, InHand, NextOfBoot

LEMMA TalkTyped ==
  ASSUME Typed, Write \/ Poll \/ TimesOut \/ Read
  PROVE  Typed'
<1> USE KindNames DEF Typed, MailboxTypeOK, InHand, host, queues, gmu, counts, Late
<1>1. CASE Write
  <2> DEFINE m == [seq |-> (seq + 1) % SeqSpace, kind |-> kind, old |-> FALSE]
  <2>1. m \in Message /\ m.seq = seq' /\ seq' \in 0..(SeqSpace - 1)
    BY <1>1, MailboxConstants DEF Write, Message
  <2>2. CASE Result(FALSE) /\ UNCHANGED cmdq
    BY <1>1, <2>1, <2>2, ResultTyped DEF Write
  <2>3. CASE cmdq' = Written(cmdq, m) /\ pc' = "poll" /\ UNCHANGED <<kind, bits>>
    <3>1. cmdq' \in Seq(Message)
      BY <2>1, <2>3, AppendIs DEF Written
    <3> QED
      BY <1>1, <2>1, <2>3, <3>1 DEF Write
  <2> QED
    BY <1>1, <2>2, <2>3 DEF Write
<1>2. CASE Poll
  BY <1>2 DEF Poll
<1>3. CASE TimesOut
  <2>1. late' \in Nat
    BY <1>3 DEF TimesOut
  <2>2. /\ Result(FALSE)
        /\ UNCHANGED <<oob, seq, hung, needsInit, asks, queues, gmu, slow, counts>>
    BY <1>3 DEF TimesOut
  <2> QED
    BY <1>3, <2>1, <2>2, ResultTyped DEF TimesOut
<1>4. CASE Read
  <2>1. CASE respq = <<>> /\ Result(FALSE) /\ UNCHANGED respq
    BY <1>4, <2>1, ResultTyped DEF Read
  <2>2. CASE respq # <<>> /\ respq' = Tail(respq)
    <3>1. respq' \in Seq(Response)
      BY <2>2, TailIs
    <3>2. CASE Result(Head(respq).what = "done")
      BY <1>4, <2>2, <3>1, <3>2, ResultTyped DEF Read
    <3>3. CASE UNCHANGED <<pc, kind, bits>>
      BY <1>4, <2>2, <3>1, <3>3 DEF Read
    <3> QED
      BY <1>4, <2>2, <3>2, <3>3 DEF Read
  <2> QED
    BY <1>4, <2>1, <2>2 DEF Read
<1> QED
  BY <1>1, <1>2, <1>3, <1>4

LEMMA AskedTyped ==
  ASSUME NEW q \in Seq(Oobs \X {"set", "clear"}), NEW o \in Oobs, NEW w \in {"set", "clear"}
  PROVE  Asked(q, <<o, w>>) \in Seq(Oobs \X {"set", "clear"})
  BY AppendIs DEF Asked

LEMMA OobTyped ==
  ASSUME Typed, (\E o \in Oobs : SetOob(o)) \/ OobAcked \/ OobTimesOut \/ Touch
  PROVE  Typed'
<1> USE KindNames DEF Typed, MailboxTypeOK, InHand, host, queues, gmu, counts, Late
<1>0. "none" \notin Oobs
  BY MailboxConstants
<1>1. ASSUME NEW o \in Oobs, SetOob(o) PROVE Typed'
  BY <1>1, AskedTyped DEF SetOob
<1>2. CASE OobAcked
  BY <1>2 DEF OobAcked
<1>3. CASE OobTimesOut
  <2>1. late' \in Nat
    BY <1>3 DEF OobTimesOut
  <2> QED
    BY <1>0, <1>3, <2>1 DEF OobTimesOut
<1>4. CASE Touch
  <2>1. Asked(asks, <<oob, "clear">>) \in Seq(Oobs \X {"set", "clear"})
    BY <1>4, AskedTyped DEF Touch
  <2> QED
    BY <1>0, <1>4, <2>1 DEF Touch
<1> QED
  BY <1>1, <1>2, <1>3, <1>4

LEMMA SuspendTyped ==
  ASSUME Typed, Stop \/ Rest \/ Flush \/ Halt
  PROVE  Typed'
<1> USE KindNames DEF Typed, MailboxTypeOK, InHand, host, queues, gmu, counts, Late
<1>1. CASE Stop
  BY <1>1 DEF Stop
<1>2. CASE Rest \/ Flush
  <2>1. <<>> \in Seq(Message) /\ <<>> \in Seq(Response)
    OBVIOUS
  <2> QED
    BY <1>2, <2>1 DEF Rest, Flush, Flushed
<1>3. CASE Halt
  BY <1>3 DEF Halt
<1> QED
  BY <1>1, <1>2, <1>3

(* ... and by the GMU's. *)
LEMMA GmuTyped ==
  ASSUME Typed, Hear \/ Answer \/ Complain \/ Raise \/ TakeOob
  PROVE  Typed'
<1> USE KindNames DEF Typed, MailboxTypeOK, InHand, host, queues, gmu, counts
<1>1. CASE Hear
  <2>1. Head(cmdq) \in Message /\ Tail(cmdq) \in Seq(Message)
    BY <1>1, TailIs DEF Hear
  <2>2. <<Head(cmdq)>> \in Seq(Message) /\ Len(<<Head(cmdq)>>) = 1
    BY <2>1
  <2>3. Append(heard, Head(cmdq)) \in Seq(Message)
    BY <2>1, AppendIs
  <2> QED
    BY <1>1, <2>1, <2>2, <2>3 DEF Hear
<1>2. CASE Answer
  <2>1. busy[1].seq \in 0..(SeqSpace - 1)
    <3>1. busy[1] \in Message
      BY <1>2, TailIs DEF Answer
    <3> QED
      BY <3>1 DEF Message
  <2>2. ASSUME NEW what \in {"done", "failed"}
        PROVE  Append(respq, [seq |-> busy[1].seq, what |-> what]) \in Seq(Response)
    BY <2>1, AppendIs DEF Response
  <2>3. <<>> \in Seq(Message) /\ Len(<<>>) = 0
    OBVIOUS
  <2> QED
    BY <1>2, <2>2, <2>3 DEF Answer
<1>3. CASE Complain
  <2>1. Append(respq, [seq |-> 0, what |-> "error"]) \in Seq(Response)
    <3>1. [seq |-> 0, what |-> "error"] \in Response
      BY MailboxConstants DEF Response
    <3> QED
      BY <3>1, AppendIs
  <2> QED
    BY <1>3, <2>1 DEF Complain
<1>4. CASE Raise
  BY <1>4 DEF Raise
<1>5. CASE TakeOob
  <2>1. Tail(asks) \in Seq(Oobs \X {"set", "clear"}) /\ Head(asks)[1] \in Oobs
    BY <1>5, TailIs DEF TakeOob
  <2> QED
    BY <1>5, <2>1 DEF TakeOob
<1> QED
  BY <1>1, <1>2, <1>3, <1>4, <1>5

LEMMA RareTyped ==
  ASSUME Typed, Crash \/ HfiIrq \/ WatchdogIrq \/ UNCHANGED vars
  PROVE  Typed'
<1> USE KindNames DEF Typed, MailboxTypeOK, InHand, host, queues, gmu, counts
<1>1. CASE Crash
  BY <1>1 DEF Crash
<1>2. CASE HfiIrq
  BY <1>2 DEF HfiIrq
<1>3. CASE WatchdogIrq
  BY <1>3 DEF WatchdogIrq
<1>4. CASE UNCHANGED vars
  BY <1>4 DEF vars
<1> QED
  BY <1>1, <1>2, <1>3, <1>4

LEMMA StepTyped ==
  ASSUME Typed, [Next]_vars
  PROVE  Typed'
  BY StartsTyped, TalkTyped, OobTyped, SuspendTyped, GmuTyped, RareTyped
     DEF Next, Caller, Gmu, Rare

(* Every variable of the mailbox's is of its kind, whatever the GMU does.  *)
THEOREM MailboxIsTyped == Spec => []Typed
<1>1. Init => Typed
  <2>1. ASSUME Init
        PROVE  /\ seq \in 0..(SeqSpace - 1) /\ Len(busy) <= 1
               /\ boots \in Nat /\ late \in Nat /\ errors \in Nat /\ crashes \in Nat
    BY <2>1, MailboxConstants DEF Init
  <2>2. ASSUME Init
        PROVE  /\ asks \in Seq(Oobs \X {"set", "clear"}) /\ respq \in Seq(Response)
               /\ cmdq \in Seq(Message) /\ busy \in Seq(Message) /\ heard \in Seq(Message)
    BY <2>2 DEF Init
  <2>3. ASSUME Init
        PROVE  /\ hung \in BOOLEAN /\ needsInit \in BOOLEAN /\ owes \in BOOLEAN /\ slow \in BOOLEAN
               /\ pc = "off" /\ kind = "none" /\ oob = "none" /\ fw = "off" /\ bits = {} /\ held = {}
    BY <2>3 DEF Init
  <2>4. ASSUME Init PROVE MailboxTypeOK
    BY <2>1, <2>2, <2>3, <2>4 DEF MailboxTypeOK
  <2>5. ASSUME Init PROVE InHand
    BY <2>3, <2>5, KindNames DEF InHand
  <2> QED
    BY <2>4, <2>5 DEF Typed
<1>2. Typed /\ [Next]_vars => Typed'
  BY StepTyped
<1> QED
  BY <1>1, <1>2, PTL DEF Spec

-----------------------------------------------------------------------------
(* The requests out of band. *)

OobHolds == fw = "run" /\ ~slow => OobInv

(* Where no message is in hand and none is asked for, nothing is promised;  *)
(* nor is it while a message of the suspend's is.                          *)
LEMMA NothingAsked ==
  ASSUME \/ pc \in {"off", "load", "rest", "flush", "halt"} /\ kind = "none"
         \/ pc \in {"write", "poll", "read"} /\ kind = "slumber"
  PROVE  OobInv
  BY KindsAre DEF OobInv, Booting, AfterBoot

LEMMA OobStartsAndStops ==
  ASSUME Typed, OobHolds,
         Resume \/ FirmwareStarts \/ FirmwareFails \/ Stop \/ Rest \/ Flush \/ Halt
  PROVE  OobHolds'
<1>t. InHand'
  BY StepTyped DEF Next, Caller, Typed
<1>1. CASE FirmwareStarts
  BY <1>1, KindsAre DEF FirmwareStarts, OobHolds, OobInv, Booting, AfterBoot
<1>2. CASE Resume \/ FirmwareFails \/ Rest \/ Flush \/ Halt
  <2>1. pc' \in {"off", "load", "rest", "flush", "halt"}
    BY <1>2 DEF Resume, FirmwareFails, Rest, Flush, Halt
  <2>2. kind' = "none"
    BY <1>t, <2>1 DEF InHand
  <2> QED
    BY <2>1, <2>2 DEF OobHolds, OobInv, Booting, AfterBoot
<1>3. CASE Stop
  <2>1. pc' \in {"flush", "rest"} \/ (pc' = "write" /\ kind' = "slumber")
    BY <1>3 DEF Stop
  <2> QED
    BY <1>t, <2>1, KindsAre DEF InHand, OobHolds, OobInv, Booting, AfterBoot
<1> QED
  BY <1>1, <1>2, <1>3

(* A message more, or its result: the boot's last one clears the register. *)
LEMMA OobResult ==
  ASSUME Typed, OobInv, pc \in {"write", "poll", "read"}, NEW ok \in BOOLEAN, Result(ok),
         UNCHANGED <<asks, held, oob>>
  PROVE  OobInv'
<1>1. kind \in Kinds
  BY DEF Typed, InHand
<1> USE KindsAre DEF OobInv, Booting, AfterBoot
<1>2. CASE NextOfBoot /\ pc' = "write"
  BY <1>2 DEF NextOfBoot
<1>3. CASE kind = "start" /\ pc' = "write" /\ kind' = "vote" /\ bits' = {}
  BY <1>3
<1>4. CASE kind = "vote" /\ pc' = "up" /\ kind' = "none" /\ bits' = bits
  BY <1>4 DEF LetGo
<1>5. CASE pc' \in {"off", "rest", "flush"} /\ kind' = "none"
  BY <1>5
<1> QED
  BY <1>1, <1>2, <1>3, <1>4, <1>5, ResultIs

LEMMA OobTalk ==
  ASSUME Typed, OobHolds, Write \/ Poll \/ TimesOut \/ Read
  PROVE  OobHolds'
<1>0. fw' = fw /\ slow' = slow
  BY DEF Write, Poll, TimesOut, Read, gmu
<1> SUFFICES ASSUME fw = "run", ~slow, OobInv PROVE OobInv'
  BY <1>0 DEF OobHolds
<1>u. UNCHANGED <<asks, held, oob>>
  BY DEF Write, Poll, TimesOut, Read, gmu
<1>1. CASE \E ok \in BOOLEAN : Result(ok)
  BY <1>1, <1>u, OobResult DEF Write, Poll, TimesOut, Read
<1>2. CASE /\ pc \in {"write", "poll", "read"} /\ pc' \in {"write", "poll", "read"}
           /\ kind' = kind /\ bits' \subseteq bits
  BY <1>u, <1>2 DEF OobInv, Booting, AfterBoot
<1> QED
  BY <1>1, <1>2 DEF Write, Poll, TimesOut, Read

(* A request is made behind what was let go of, is acknowledged once it is *)
(* kept, and is let go of behind that.                                     *)
LEMMA OobAsks ==
  ASSUME Typed, OobHolds, (\E o \in Oobs : SetOob(o)) \/ OobAcked \/ OobTimesOut \/ Touch
  PROVE  OobHolds'
<1>a. asks \in Seq(Oobs \X {"set", "clear"}) /\ "msgq" \notin Oobs /\ kind = "none"
  BY MailboxConstants DEF Typed, MailboxTypeOK, InHand, SetOob, OobAcked, OobTimesOut, Touch
<1>k. kind' = "none"
  BY <1>a DEF SetOob, OobAcked, OobTimesOut, Touch
<1>0. fw' = fw /\ (slow' = slow \/ slow' = TRUE)
  BY DEF SetOob, OobAcked, OobTimesOut, Touch, gmu
<1> SUFFICES ASSUME fw = "run", ~slow, ~slow', OobInv PROVE OobInv'
  BY <1>0 DEF OobHolds
<1> USE <1>k DEF OobInv, Booting, AfterBoot
<1>1. ASSUME NEW o \in Oobs, SetOob(o) PROVE OobInv'
  <2>1. LetGo /\ bits \subseteq {"msgq"} /\ pc' = "oob" /\ oob' = o /\ bits' = bits
    BY <1>1 DEF SetOob
  <2>2. <<o, "set">> \notin ToSet(asks)
    BY <2>1 DEF LetGo, ToSet
  <2>3. asks' = Append(asks, <<o, "set">>)
    BY <1>1, <2>2 DEF SetOob, Asked
  <2>4. NotTaken(o)'
    BY <1>a, <2>1, <2>3, AppendIs DEF NotTaken, LetGo
  <2> QED
    BY <1>a, <2>1, <2>4 DEF NotTaken
<1>2. CASE OobAcked
  <2>1. Kept(oob) /\ bits' \subseteq {"msgq"} /\ pc' = "touch"
    BY <1>2 DEF OobAcked
  <2>2. UNCHANGED <<asks, held, oob>>
    BY <1>2 DEF OobAcked, gmu
  <2> QED
    BY <2>1, <2>2 DEF Kept, LetGo
<1>3. CASE OobTimesOut
  BY <1>3 DEF OobTimesOut
<1>4. CASE Touch
  <2>1. pc = "touch" /\ pc' = "up" /\ bits' = bits /\ oob \in Oobs
    BY <1>4 DEF Touch, Typed, InHand
  <2>2. asks' = asks \/ asks' = Append(asks, <<oob, "clear">>)
    BY <1>4 DEF Touch, Asked
  <2>3. LetGo
    BY <2>1 DEF Kept
  <2>4. LetGo'
    BY <1>a, <2>1, <2>2, <2>3, AppendIs DEF LetGo
  <2> QED
    BY <2>1, <2>4
<1> QED
  BY <1>1, <1>2, <1>3, <1>4

(* The GMU takes the oldest request: one let go of, which is not the       *)
(* caller's, or the caller's own, which it then keeps.                     *)
LEMMA OobTaken ==
  ASSUME Typed, OobInv, TakeOob
  PROVE  OobInv'
<1>a. asks \in Seq(Oobs \X {"set", "clear"}) /\ asks # <<>>
  BY DEF Typed, MailboxTypeOK, TakeOob
<1>b. /\ asks[1] \in Oobs \X {"set", "clear"} /\ Head(asks) = asks[1] /\ asks' = Tail(asks)
      /\ 1 \in DOMAIN asks /\ Len(asks) \in Nat /\ DOMAIN asks = 1..Len(asks)
  BY <1>a, TailIs DEF TakeOob
<1>c. \A i \in DOMAIN asks' : i + 1 \in DOMAIN asks /\ asks'[i] = asks[i + 1]
  BY <1>a, <1>b, TailIs
<1>d. UNCHANGED <<pc, kind, oob>>
  BY DEF TakeOob, host
<1>l. LetGo => LetGo'
  BY <1>c DEF LetGo
<1> USE DEF OobInv
<1>0. ~Booting /\ kind # "vote"
  BY <1>a
<1>1. CASE pc = "up"
  <2>1. asks[1][2] = "clear" /\ bits' = bits
    BY <1>1, <1>b DEF LetGo, TakeOob
  <2> QED
    BY <1>0, <1>1, <1>d, <1>l, <2>1 DEF Booting, AfterBoot
<1>2. ASSUME Kept(oob) PROVE Kept(oob)' /\ bits' = bits
  <2>1. asks[1][2] = "clear" /\ asks[1] # <<oob, "clear">>
    BY <1>2, <1>b DEF Kept, LetGo
  <2>2. asks[1][1] # oob
    BY <1>b, <2>1
  <2>3. bits' = bits /\ held' = held \ {asks[1][1]}
    BY <1>b, <2>1 DEF TakeOob
  <2> QED
    BY <1>2, <1>c, <1>d, <1>l, <2>2, <2>3 DEF Kept
<1>3. CASE pc = "touch"
  BY <1>0, <1>2, <1>3, <1>d DEF Booting, AfterBoot
<1>4. CASE pc = "oob" /\ oob \in bits
  BY <1>0, <1>2, <1>4, <1>d DEF Booting, AfterBoot
<1>5. CASE pc = "oob" /\ oob \notin bits /\ Len(asks) > 1
  <2>1. asks[1][2] = "clear" /\ NotTaken(oob)
    BY <1>5, <1>b DEF NotTaken
  <2>2. bits' = bits
    BY <1>b, <2>1 DEF TakeOob
  <2>3. Len(asks') = Len(asks) - 1 /\ asks' # <<>> /\ DOMAIN asks' = 1..Len(asks')
    <3>1. asks' \in Seq(Oobs \X {"set", "clear"}) /\ Len(asks') = Len(asks) - 1
      BY <1>a, <1>b, TailIs
    <3>2. Len(asks') # 0
      BY <1>5, <1>b, <3>1
    <3> QED
      BY <3>1, <3>2
  <2>4. NotTaken(oob)'
    BY <1>5, <1>b, <1>c, <1>d, <2>1, <2>3 DEF NotTaken
  <2> QED
    BY <1>0, <1>5, <1>d, <2>2, <2>4 DEF Booting, AfterBoot
<1>6. CASE pc = "oob" /\ oob \notin bits /\ Len(asks) = 1
  <2>1. asks[1] = <<oob, "set">>
    BY <1>6 DEF NotTaken
  <2>2. bits' = bits \cup {oob} /\ held' = held \cup {oob}
    BY <1>b, <2>1 DEF TakeOob
  <2>3. DOMAIN asks' = {}
    BY <1>6, <1>a, <1>b, <1>c
  <2>4. Kept(oob)'
    BY <1>d, <2>2, <2>3 DEF Kept, LetGo
  <2> QED
    BY <1>0, <1>6, <1>d, <2>2, <2>4 DEF Booting, AfterBoot
<1>7. CASE pc \notin {"up", "touch", "oob"}
  BY <1>0, <1>7, <1>d DEF Booting, AfterBoot
<1> QED
  BY <1>1, <1>3, <1>4, <1>5, <1>6, <1>7, <1>b

LEMMA OobOthers ==
  ASSUME Typed, OobHolds,
         \/ Hear \/ Answer \/ Complain \/ Raise \/ Crash \/ HfiIrq \/ WatchdogIrq \/ UNCHANGED vars
  PROVE  OobHolds'
<1>c. "msgq" \notin Oobs /\ "fault" \notin Oobs
  BY MailboxConstants
<1>1. CASE Hear \/ Answer \/ Complain \/ Raise \/ UNCHANGED vars
  <2>1. UNCHANGED <<pc, kind, oob, asks, held, fw, slow>>
    BY <1>1 DEF Hear, Answer, Complain, Raise, vars, host, gmu
  <2>2. bits' = bits \/ bits' = bits \cup {"msgq"}
    BY <1>1 DEF Hear, Answer, Complain, Raise, vars
  <2>3. ASSUME OobInv PROVE OobInv'
    <3>1. pc = "oob" => oob # "msgq"
      BY <1>c DEF Typed, InHand
    <3> QED
      BY <2>1, <2>2, <2>3, <3>1 DEF OobInv, Booting, AfterBoot, Kept, LetGo, NotTaken
  <2> QED
    BY <2>1, <2>3 DEF OobHolds
<1>2. CASE Crash \/ WatchdogIrq
  BY <1>2 DEF Crash, WatchdogIrq, OobHolds, gmu
<1>3. CASE HfiIrq
  <2> SUFFICES ASSUME OobInv PROVE OobInv'
    BY <1>3 DEF HfiIrq, OobHolds, gmu
  <2>1. ~Booting /\ "fault" \in bits /\ UNCHANGED <<pc, kind, oob>>
    BY <1>3 DEF HfiIrq, HfiIrqOn
  <2>2. pc = "oob" => oob # "fault"
    BY <1>c DEF Typed, InHand
  <2>3. ~AfterBoot
    BY <2>1, <2>2 DEF OobInv
  <2> QED
    BY <2>1, <2>3, KindsAre DEF OobInv, Booting, AfterBoot, Typed, InHand
<1> QED
  BY <1>1, <1>2, <1>3

LEMMA StepKeepsOob ==
  ASSUME Typed, OobHolds, [Next]_vars
  PROVE  OobHolds'
<1>1. CASE TakeOob
  BY <1>1, OobTaken DEF OobHolds, TakeOob
<1> QED
  BY <1>1, OobStartsAndStops, OobTalk, OobAsks, OobOthers DEF Next, Caller, Gmu, Rare

(***************************************************************************)
(* The registers are touched while the GMU keeps the GPU on, whatever was  *)
(* asked and let go of before, as long as no request of this boot timed    *)
(* out.                                                                    *)
(***************************************************************************)
THEOREM AckedIsAlwaysHeld == Spec => []AckedIsHeld
<1>1. Init => OobHolds
  BY DEF Init, OobHolds
<1>2. Typed /\ OobHolds /\ [Next]_vars => OobHolds'
  BY StepKeepsOob
<1>3. OobHolds => AckedIsHeld
  BY DEF OobHolds, OobInv, Kept, AckedIsHeld
<1> QED
  BY <1>1, <1>2, <1>3, MailboxIsTyped, PTL DEF Spec

-----------------------------------------------------------------------------
(* What is in the queues, with the GMU and in its history.                 *)

(* Few steps touch the queues. *)
LEMMA QueueSteps ==
  ASSUME [Next]_vars
  PROVE  \/ FirmwareStarts \/ Write \/ Read \/ Hear \/ Answer \/ Complain
         \/ cmdq' = <<>> /\ respq' = <<>> /\ UNCHANGED <<busy, heard>> /\ pc' \in {"off", "halt"}
         \/ UNCHANGED <<cmdq, respq, busy, heard>>
  BY DEF Next, Caller, Gmu, Rare, Resume, FirmwareFails, Poll, TimesOut, SetOob, OobAcked, OobTimesOut,
         Touch, Stop, Rest, Flush, Flushed, Halt, Raise, TakeOob, Crash, HfiIrq, WatchdogIrq, vars,
         queues, gmu

(* Who waits for an answer or reads one waits for the message written.     *)
LEMMA WaitersWrote ==
  ASSUME Typed, [Next]_vars, ~Write, pc' \in {"poll", "read"}
  PROVE  pc \in {"poll", "read"} /\ kind' = kind
<1>1. ASSUME NEW ok \in BOOLEAN, Result(ok), pc \in {"poll", "read"} PROVE FALSE
  BY <1>1, ResultIs DEF Typed, InHand
<1>2. CASE TimesOut \/ Read
  BY <1>1, <1>2 DEF TimesOut, Read
<1>3. CASE Poll
  BY <1>3 DEF Poll
<1>4. CASE Gmu \/ Rare \/ UNCHANGED vars
  BY <1>4 DEF Gmu, Rare, Hear, Answer, Raise, TakeOob, Complain, Crash, HfiIrq, WatchdogIrq, vars, host
<1>5. CASE \/ Resume \/ FirmwareStarts \/ FirmwareFails \/ Stop \/ Rest \/ Flush \/ Halt
           \/ (\E o \in Oobs : SetOob(o)) \/ OobAcked \/ OobTimesOut \/ Touch
  BY <1>5 DEF Resume, FirmwareStarts, FirmwareFails, Stop, Rest, Flush, Halt, SetOob, OobAcked,
              OobTimesOut, Touch
<1> QED
  BY <1>2, <1>3, <1>4, <1>5 DEF Next, Caller

(* A message written is at the end of the queue, which may be lost with it.*)
LEMMA WrittenIs ==
  ASSUME Typed, Write
  PROVE  LET m == [seq |-> seq', kind |-> kind, old |-> FALSE] IN
         /\ m \in Message /\ m.seq = seq' /\ m.kind = kind /\ m.old = FALSE
         /\ UNCHANGED <<respq, busy, heard>>
         /\ \/ pc' # "poll" /\ cmdq' = cmdq /\ Result(FALSE)
            \/ /\ pc' = "poll" /\ kind' = kind
               /\ cmdq' = <<>> \/ cmdq' = Append(cmdq, m)
<1> DEFINE m == [seq |-> seq', kind |-> kind, old |-> FALSE]
<1>1. /\ kind \in Kinds /\ seq \in 0..(SeqSpace - 1) /\ seq' = (seq + 1) % SeqSpace
  BY DEF Typed, MailboxTypeOK, InHand, Write
<1>2. seq' \in 0..(SeqSpace - 1)
  BY <1>1, MailboxConstants
<1>3. m \in Message /\ m.seq = seq' /\ m.kind = kind /\ m.old = FALSE
  BY <1>1, <1>2 DEF Message
<1>4. UNCHANGED <<respq, busy, heard>>
  BY DEF Write, gmu
<1>5. CASE Result(FALSE) /\ UNCHANGED cmdq
  BY <1>1, <1>3, <1>4, <1>5, ResultIs
<1>6. CASE cmdq' = Written(cmdq, m) /\ pc' = "poll" /\ UNCHANGED <<kind, bits>>
  BY <1>3, <1>4, <1>6 DEF Written
<1> QED
  BY <1>1, <1>5, <1>6 DEF Write

(* The reset tells nothing of a message but that it is old. *)
LEMMA MarkedOld ==
  ASSUME Typed, FirmwareStarts
  PROVE  /\ DOMAIN cmdq' = DOMAIN cmdq
         /\ \A i \in DOMAIN cmdq : cmdq'[i].seq = cmdq[i].seq /\ cmdq'[i].old = TRUE
<1>1. cmdq' = [i \in DOMAIN cmdq |-> [cmdq[i] EXCEPT !.old = TRUE]]
  BY DEF FirmwareStarts
<1>2. ASSUME NEW m \in Message
      PROVE  [m EXCEPT !.old = TRUE].seq = m.seq /\ [m EXCEPT !.old = TRUE].old = TRUE
  BY DEF Message
<1>3. \A i \in DOMAIN cmdq : cmdq[i] \in Message
  BY DEF Typed, MailboxTypeOK
<1> QED
  BY <1>1, <1>2, <1>3

(* Nothing gets into flight but by being written. *)
LEMMA SeqSteps ==
  ASSUME [Next]_vars, ~Write
  PROVE  seq' = seq
  BY DEF Next, Caller, Gmu, Rare, Resume, FirmwareStarts, FirmwareFails, Poll, TimesOut, Read, SetOob,
         OobAcked, OobTimesOut, Touch, Stop, Rest, Flush, Halt, Hear, Answer, Complain, Raise, TakeOob,
         Crash, HfiIrq, WatchdogIrq, vars, host

LEMMA InFlightIs ==
  ASSUME NEW S,
         \A i \in DOMAIN cmdq : cmdq[i].seq \in S,
         \A i \in DOMAIN busy : busy[i].seq \in S,
         \A i \in DOMAIN respq : respq[i].what # "error" => respq[i].seq \in S
  PROVE  InFlight \subseteq S
  BY DEF InFlight

LEMMA InFlightTyped ==
  ASSUME Typed
  PROVE  InFlight \subseteq 0..(SeqSpace - 1)
<1>1. \A m \in Message : m.seq \in 0..(SeqSpace - 1)
  BY DEF Message
<1>2. \A r \in Response : r.seq \in 0..(SeqSpace - 1)
  BY DEF Response
<1>3. cmdq \in Seq(Message) /\ busy \in Seq(Message) /\ respq \in Seq(Response)
  BY DEF Typed, MailboxTypeOK
<1> DEFINE S == 0..(SeqSpace - 1)
<1> HIDE DEF S
<1>4. \A m \in Message : m.seq \in S
  BY <1>1 DEF S
<1>5. \A r \in Response : r.seq \in S
  BY <1>2 DEF S
<1>6. \A i \in DOMAIN cmdq : cmdq[i].seq \in S
  BY <1>3, <1>4
<1>7. \A i \in DOMAIN busy : busy[i].seq \in S
  BY <1>3, <1>4
<1>8. \A i \in DOMAIN respq : respq[i].seq \in S
  BY <1>3, <1>5
<1>9. InFlight \subseteq S
  BY <1>6, <1>7, <1>8, InFlightIs
<1> QED
  BY <1>9 DEF S

LEMMA InFlightGrows ==
  ASSUME Typed, [Next]_vars
  PROVE  InFlight' \subseteq InFlight \cup (IF Write THEN {seq'} ELSE {})
<1> DEFINE S == InFlight \cup (IF Write THEN {seq'} ELSE {})
<1>t. cmdq \in Seq(Message) /\ busy \in Seq(Message) /\ respq \in Seq(Response)
  BY DEF Typed, MailboxTypeOK
<1>s. /\ \A i \in DOMAIN cmdq : cmdq[i].seq \in S
      /\ \A i \in DOMAIN busy : busy[i].seq \in S
      /\ \A i \in DOMAIN respq : respq[i].what # "error" => respq[i].seq \in S
  BY DEF InFlight
<1>w. Write => seq' \in S
  OBVIOUS
<1> HIDE DEF S
<1>1. \A i \in DOMAIN cmdq' : cmdq'[i].seq \in S
  <2>1. CASE Write
    <3> DEFINE m == [seq |-> seq', kind |-> kind, old |-> FALSE]
    <3>1. /\ m \in Message /\ m.seq = seq'
          /\ cmdq' = cmdq \/ cmdq' = <<>> \/ cmdq' = Append(cmdq, m)
      BY <2>1, WrittenIs
    <3> HIDE DEF m
    <3>2. CASE cmdq' = Append(cmdq, m)
      <4>1. /\ DOMAIN cmdq' = DOMAIN cmdq \cup {Len(cmdq) + 1} /\ cmdq'[Len(cmdq) + 1] = m
            /\ \A i \in DOMAIN cmdq : cmdq'[i] = cmdq[i]
        BY <1>t, <3>1, <3>2, AppendIs
      <4> QED
        BY <1>s, <1>w, <2>1, <3>1, <4>1
    <3> QED
      BY <1>s, <3>1, <3>2
  <2>2. CASE FirmwareStarts
    BY <1>s, <2>2, MarkedOld
  <2>3. CASE Hear
    BY <1>s, <1>t, <2>3, TailIs DEF Hear
  <2>4. CASE cmdq' = cmdq \/ cmdq' = <<>>
    BY <1>s, <2>4
  <2> QED
    BY <2>1, <2>2, <2>3, <2>4, QueueSteps DEF Read, Answer, Complain
<1>2. \A i \in DOMAIN busy' : busy'[i].seq \in S
  <2>1. CASE Hear
    <3>1. Head(cmdq).seq \in S
      BY <1>s, <1>t, <2>1, TailIs DEF Hear
    <3> QED
      BY <2>1, <3>1 DEF Hear
  <2>2. CASE busy' = busy \/ busy' = <<>>
    BY <1>s, <2>2
  <2> QED
    BY <2>1, <2>2, QueueSteps DEF FirmwareStarts, Write, Read, Answer, Complain, gmu
<1>3. \A i \in DOMAIN respq' : respq'[i].what # "error" => respq'[i].seq \in S
  <2>1. CASE Answer
    <3>1. busy[1] \in Message /\ 1 \in DOMAIN busy
      BY <1>t, <2>1, TailIs DEF Answer
    <3>2. PICK what \in {"done", "failed"} :
             respq' = Append(respq, [seq |-> busy[1].seq, what |-> what])
      BY <2>1 DEF Answer
    <3> DEFINE r == [seq |-> busy[1].seq, what |-> what]
    <3>3. r \in Response /\ r.seq \in S
      BY <1>s, <3>1 DEF Message, Response
    <3> HIDE DEF r
    <3>4. respq' = Append(respq, r)
      BY <3>2 DEF r
    <3> QED
      BY <1>s, <1>t, <3>3, <3>4, AppendIs
  <2>2. CASE Complain
    <3> DEFINE r == [seq |-> 0, what |-> "error"]
    <3>1. r \in Response /\ r.what = "error" /\ respq' = Append(respq, r)
      BY <2>2, MailboxConstants DEF Complain, Response
    <3> HIDE DEF r
    <3> QED
      BY <1>s, <1>t, <3>1, AppendIs
  <2>3. CASE respq # <<>> /\ respq' = Tail(respq)
    BY <1>s, <1>t, <2>3, TailIs
  <2>4. CASE respq' = respq \/ respq' = <<>>
    BY <1>s, <2>4
  <2> QED
    BY <2>1, <2>2, <2>3, <2>4, QueueSteps DEF FirmwareStarts, Write, Hear, Read, queues
<1>4. InFlight' \subseteq S
  BY <1>1, <1>2, <1>3 DEF InFlight
<1> QED
  BY <1>4 DEF S

-----------------------------------------------------------------------------
(* An answer to the message in hand is about one that was heard.           *)

(* A message just written is not yet with the GMU, nor answered. *)
LEMMA WriteKeepsAnswers ==
  ASSUME Typed, AnswerInv, NewNumber, Write
  PROVE  AnswerInv'
<1> DEFINE m == [seq |-> seq', kind |-> kind, old |-> FALSE]
<1>1. /\ \A i \in DOMAIN cmdq : cmdq[i].seq # seq'
      /\ \A i \in DOMAIN busy : busy[i].seq # seq'
      /\ \A i \in DOMAIN respq : respq[i].what # "error" => respq[i].seq # seq'
  BY DEF NewNumber, InFlight
<1>2. /\ m \in Message /\ m.seq = seq' /\ m.kind = kind /\ m.old = FALSE
      /\ UNCHANGED <<respq, busy, heard>>
      /\ \/ pc' # "poll" /\ cmdq' = cmdq /\ Result(FALSE)
         \/ pc' = "poll" /\ kind' = kind /\ (cmdq' = <<>> \/ cmdq' = Append(cmdq, m))
  BY WrittenIs
<1> HIDE DEF m
<1>3. pc' # "poll" => pc' \notin {"poll", "read"}
  BY <1>2, ResultIs DEF Typed, InHand, Write
<1> SUFFICES ASSUME pc' = "poll"
             PROVE  QueuedIsInHand' /\ TakenIsInHand' /\ AnsweredIsHeard'
  BY <1>2, <1>3 DEF AnswerInv
<1>t. cmdq \in Seq(Message)
  BY DEF Typed, MailboxTypeOK
<1>5. QueuedIsInHand'
  <2>1. CASE cmdq' = <<>>
    BY <2>1 DEF QueuedIsInHand
  <2>2. CASE cmdq' = Append(cmdq, m)
    <3>1. /\ DOMAIN cmdq' = DOMAIN cmdq \cup {Len(cmdq) + 1} /\ cmdq'[Len(cmdq) + 1] = m
          /\ \A i \in DOMAIN cmdq : cmdq'[i] = cmdq[i]
      BY <1>2, <1>t, <2>2, AppendIs
    <3>2. ~m.old /\ kind' = kind
      BY <1>2
    <3> QED
      BY <1>1, <1>2, <3>1, <3>2 DEF QueuedIsInHand, InHandIs
  <2> QED
    BY <1>2, <2>1, <2>2
<1>6. TakenIsInHand'
  BY <1>1, <1>2 DEF TakenIsInHand, InHandIs
<1>7. AnsweredIsHeard'
  BY <1>1, <1>2 DEF AnsweredIsHeard, OwnAnswer
<1> QED
  BY <1>5, <1>6, <1>7

(* Once heard, it stays heard: the caller waits, and the GMU hears more. *)
LEMMA HeardStays ==
  ASSUME Typed, [Next]_vars, ~Write, pc' \in {"poll", "read"}, HeardIt
  PROVE  HeardIt'
<1>1. pc \in {"poll", "read"} /\ kind' = kind
  BY WaitersWrote
<1>2. seq' = seq
  BY SeqSteps
<1>3. \A i \in DOMAIN heard : i \in DOMAIN heard' /\ heard'[i] = heard[i]
  <2>1. CASE Hear
    <3>1. heard \in Seq(Message) /\ Head(cmdq) \in Message
      BY <2>1, TailIs DEF Typed, MailboxTypeOK, Hear
    <3>2. heard' = Append(heard, Head(cmdq))
      BY <2>1 DEF Hear
    <3> QED
      BY <3>1, <3>2, AppendIs
  <2>2. CASE heard' = heard
    BY <2>2
  <2> QED
    BY <1>1, <2>1, <2>2, QueueSteps DEF FirmwareStarts, Read, Answer, Complain, gmu
<1> QED
  BY <1>1, <1>2, <1>3 DEF HeardIt, InHandIs

LEMMA OthersKeepAnswers ==
  ASSUME Typed, AnswerInv, [Next]_vars, ~Write
  PROVE  AnswerInv'
<1>t. /\ cmdq \in Seq(Message) /\ busy \in Seq(Message) /\ heard \in Seq(Message)
      /\ respq \in Seq(Response)
  BY DEF Typed, MailboxTypeOK
<1>1. \A i \in DOMAIN busy' : \E j \in DOMAIN heard' : heard'[j] = busy'[i]
  <2>1. CASE Hear
    <3>1. Head(cmdq) \in Message /\ heard' = Append(heard, Head(cmdq)) /\ busy' = <<Head(cmdq)>>
      BY <1>t, <2>1, TailIs DEF Hear
    <3>2. Len(heard) + 1 \in DOMAIN heard' /\ heard'[Len(heard) + 1] = Head(cmdq)
      BY <1>t, <3>1, AppendIs
    <3> QED
      BY <3>1, <3>2
  <2>2. CASE UNCHANGED <<busy, heard>>
    BY <2>2 DEF AnswerInv
  <2>3. CASE busy' = <<>>
    BY <2>3
  <2> QED
    BY <2>1, <2>2, <2>3, QueueSteps DEF FirmwareStarts, Read, Answer, Complain, gmu
<1> SUFFICES ASSUME pc' \in {"poll", "read"}
             PROVE  QueuedIsInHand' /\ TakenIsInHand' /\ AnsweredIsHeard'
  BY <1>1 DEF AnswerInv
<1>2. pc \in {"poll", "read"} /\ kind' = kind
  BY WaitersWrote
<1>3. seq' = seq
  BY SeqSteps
<1>4. ~FirmwareStarts
  BY <1>2 DEF FirmwareStarts
<1>5. /\ \A i \in DOMAIN cmdq : InHandIs(cmdq[i])
      /\ \A i \in DOMAIN busy : InHandIs(busy[i])
      /\ \A i \in DOMAIN respq : OwnAnswer(respq[i]) => HeardIt
  BY <1>2 DEF AnswerInv, QueuedIsInHand, TakenIsInHand, AnsweredIsHeard
<1>6. /\ \A x : InHandIs(x)' <=> InHandIs(x)
      /\ \A x : OwnAnswer(x)' <=> OwnAnswer(x)
  BY <1>2, <1>3 DEF InHandIs, OwnAnswer
<1>7. \A i \in DOMAIN cmdq' : \E j \in DOMAIN cmdq : cmdq'[i] = cmdq[j]
  <2>1. CASE Hear
    BY <1>t, <2>1, TailIs DEF Hear
  <2>2. CASE cmdq' = cmdq \/ cmdq' = <<>>
    BY <2>2
  <2> QED
    BY <1>4, <2>1, <2>2, QueueSteps DEF Read, Answer, Complain
<1>8. \A i \in DOMAIN busy' : InHandIs(busy'[i])
  <2>1. CASE Hear
    <3>1. InHandIs(Head(cmdq))
      BY <1>5, <1>t, <2>1, TailIs DEF Hear
    <3> QED
      BY <2>1, <3>1 DEF Hear
  <2>2. CASE busy' = busy \/ busy' = <<>>
    BY <1>5, <2>2
  <2> QED
    BY <1>4, <2>1, <2>2, QueueSteps DEF Read, Answer, Complain, gmu
<1>9. ASSUME NEW i \in DOMAIN respq', OwnAnswer(respq'[i]) PROVE HeardIt
  <2>1. CASE \E j \in DOMAIN respq : respq'[i] = respq[j]
    BY <1>5, <1>9, <2>1
  <2>2. CASE Answer
    <3>1. /\ 1 \in DOMAIN busy /\ busy[1] \in Message
      BY <1>t, <2>2, TailIs DEF Answer
    <3>2. PICK what \in {"done", "failed"} :
             respq' = Append(respq, [seq |-> busy[1].seq, what |-> what])
      BY <2>2 DEF Answer
    <3> DEFINE r == [seq |-> busy[1].seq, what |-> what]
    <3>3. r \in Response /\ r.seq = busy[1].seq
      BY <3>1 DEF Message, Response
    <3> HIDE DEF r
    <3>4. respq' = Append(respq, r)
      BY <3>2 DEF r
    <3>5. CASE i = Len(respq) + 1
      <4>1. busy[1].seq = seq
        BY <1>9, <1>t, <3>3, <3>4, <3>5, AppendIs DEF OwnAnswer
      <4>2. PICK j \in DOMAIN heard : heard[j] = busy[1]
        BY <3>1 DEF AnswerInv
      <4> QED
        BY <1>5, <3>1, <4>1, <4>2 DEF HeardIt
    <3>6. CASE i \in DOMAIN respq
      BY <1>t, <2>1, <3>3, <3>4, <3>6, AppendIs
    <3> QED
      BY <1>9, <1>t, <3>3, <3>4, <3>5, <3>6, AppendIs
  <2>3. CASE Complain
    <3> DEFINE r == [seq |-> 0, what |-> "error"]
    <3>1. r \in Response /\ r.what = "error" /\ respq' = Append(respq, r)
      BY <2>3, MailboxConstants DEF Complain, Response
    <3> HIDE DEF r
    <3>2. i # Len(respq) + 1
      BY <1>9, <1>t, <3>1, AppendIs DEF OwnAnswer
    <3>3. i \in DOMAIN respq /\ respq'[i] = respq[i]
      BY <1>9, <1>t, <3>1, <3>2, AppendIs
    <3> QED
      BY <2>1, <3>3
  <2>4. CASE Read
    <3>1. CASE respq' = respq
      BY <1>9, <2>1, <3>1
    <3>2. CASE respq # <<>> /\ respq' = Tail(respq)
      BY <1>9, <1>t, <2>1, <3>2, TailIs
    <3> QED
      BY <2>4, <3>1, <3>2 DEF Read
  <2>5. CASE respq' = respq \/ respq' = <<>>
    BY <1>9, <2>1, <2>5
  <2> QED
    BY <1>4, <2>2, <2>3, <2>4, <2>5, QueueSteps DEF Hear, queues
<1>10. HeardIt => HeardIt'
  BY HeardStays
<1>11. QueuedIsInHand'
  BY <1>5, <1>6, <1>7 DEF QueuedIsInHand
<1>12. TakenIsInHand'
  BY <1>6, <1>8 DEF TakenIsInHand
<1>13. AnsweredIsHeard'
  BY <1>6, <1>9, <1>10 DEF AnsweredIsHeard
<1> QED
  BY <1>11, <1>12, <1>13

LEMMA StepKeepsAnswers ==
  ASSUME Typed, AnswerInv, [Next]_vars, [NewNumber]_vars
  PROVE  AnswerInv'
<1>1. CASE UNCHANGED vars
  BY <1>1 DEF AnswerInv, QueuedIsInHand, TakenIsInHand, AnsweredIsHeard, HeardIt, InHandIs, OwnAnswer,
              vars, host, queues, gmu
<1>2. CASE NewNumber /\ Next
  BY <1>2, WriteKeepsAnswers, OthersKeepAnswers
<1> QED
  BY <1>1, <1>2

(* Only an answer of its own takes a caller on from a read. *)
LEMMA SuccessIsAnAnswer ==
  ASSUME Typed, [Next]_vars, Succeeds
  PROVE  /\ Read /\ pc = "read" /\ kind \in Kinds
         /\ respq # <<>> /\ OwnAnswer(Head(respq)) /\ Result(TRUE)
<1>1. /\ pc = "read" /\ pc' \in {"write", "rest"} /\ kind \in Kinds
  BY DEF Succeeds, Typed, InHand
<1>2. Read
  BY <1>1 DEF Next, Caller, Gmu, Rare, Resume, FirmwareStarts, FirmwareFails, Write, Poll, TimesOut,
              SetOob, OobAcked, OobTimesOut, Touch, Stop, Rest, Flush, Halt, Hear, Answer, Complain,
              Raise, TakeOob, Crash, HfiIrq, WatchdogIrq, vars, host
<1>3. ~Result(FALSE)
  BY <1>1, ResultIs
<1>4. respq # <<>> /\ OwnAnswer(Head(respq)) /\ Result(Head(respq).what = "done")
  BY <1>1, <1>2, <1>3 DEF Read
<1>5. Head(respq).what = "done"
  BY <1>3, <1>4
<1> QED
  BY <1>1, <1>2, <1>4, <1>5

LEMMA SuccessWasHeard ==
  ASSUME Typed, AnswerInv, [Next]_vars, Succeeds
  PROVE  HeardIt
<1>1. /\ pc = "read" /\ respq # <<>> /\ OwnAnswer(Head(respq))
  BY SuccessIsAnAnswer
<1>2. 1 \in DOMAIN respq /\ Head(respq) = respq[1]
  BY <1>1, TailIs DEF Typed, MailboxTypeOK
<1> QED
  BY <1>1, <1>2 DEF AnswerInv, AnsweredIsHeard

-----------------------------------------------------------------------------
(* The boot's messages, in their order.                                    *)

(* What it hears is the last it heard. *)
LEMMA HearsOne ==
  ASSUME Typed, NEW m \in Message, heard' = Append(heard, m), NEW k \in 1..4
  PROVE  /\ HeardAt(k)' = IF ~m.old /\ m.kind = BootMsgs[k] THEN HeardAt(k) \cup {Len(heard) + 1}
                          ELSE HeardAt(k)
         /\ Len(heard) + 1 \in DOMAIN heard'
         /\ \A i \in HeardAt(k) : i \in DOMAIN heard' /\ i < Len(heard) + 1
<1>1. /\ DOMAIN heard' = DOMAIN heard \cup {Len(heard) + 1} /\ heard'[Len(heard) + 1] = m
      /\ \A i \in DOMAIN heard : heard'[i] = heard[i] /\ i < Len(heard) + 1
      /\ Len(heard) + 1 \notin DOMAIN heard
  BY AppendIs DEF Typed, MailboxTypeOK
<1> QED
  BY <1>1 DEF HeardAt

(* A message that is none of this boot's changes nothing, ... *)
LEMMA HearsAnother ==
  ASSUME Typed, NEW m \in Message, heard' = Append(heard, m), ~Fresh(m),
         NEW n \in 0..4, HeardUpTo(n)
  PROVE  HeardUpTo(n)'
<1>1. \A k \in 1..4 : ~(~m.old /\ m.kind = BootMsgs[k])
  BY KindsAre DEF Fresh
<1>2. \A k \in 1..4 : HeardAt(k)' = HeardAt(k)
  BY <1>1, HearsOne
<1>3. DOMAIN heard \subseteq DOMAIN heard'
  BY AppendIs DEF Typed, MailboxTypeOK
<1> QED
  BY <1>2, <1>3 DEF HeardUpTo

(* ... and the next one of this boot's is the next it heard. *)
LEMMA HearsTheNext ==
  ASSUME Typed, NEW m \in Message, heard' = Append(heard, m), ~m.old,
         NEW n \in 1..4, m.kind = BootMsgs[n], HeardUpTo(n - 1)
  PROVE  HeardUpTo(n)'
<1> DEFINE last == Len(heard) + 1
<1>1. \A k \in 1..4 : m.kind = BootMsgs[k] <=> k = n
  <2>1. n = 1 \/ n = 2 \/ n = 3 \/ n = 4
    OBVIOUS
  <2>2. ASSUME NEW k \in 1..4 PROVE k = 1 \/ k = 2 \/ k = 3 \/ k = 4
    OBVIOUS
  <2> QED
    BY <2>1, <2>2, KindsAre
<1>2. HeardAt(n) = {}
  BY DEF HeardUpTo
<1>3. /\ HeardAt(n)' = {last} /\ last \in DOMAIN heard'
      /\ \A k \in 1..4 : k # n => HeardAt(k)' = HeardAt(k)
      /\ \A k \in 1..4 : \A i \in HeardAt(k) : i \in DOMAIN heard' /\ i < last
  BY <1>1, <1>2, HearsOne
<1> HIDE DEF last
<1>4. ASSUME NEW k \in 1..4
      PROVE  IF k <= n THEN \E i \in DOMAIN heard' : HeardAt(k)' = {i} ELSE HeardAt(k)' = {}
  <2>1. CASE k = n
    BY <1>3, <2>1
  <2>2. CASE k # n
    <3>1. HeardAt(k)' = HeardAt(k) /\ (k <= n <=> k <= n - 1)
      BY <1>3, <2>2
    <3>2. CASE k <= n
      <4>1. PICK i \in DOMAIN heard : HeardAt(k) = {i}
        BY <3>1, <3>2 DEF HeardUpTo
      <4>2. i \in DOMAIN heard'
        BY <1>3, <4>1
      <4> QED
        BY <3>1, <3>2, <4>1, <4>2
    <3>3. CASE ~(k <= n)
      BY <3>1, <3>3 DEF HeardUpTo
    <3> QED
      BY <3>2, <3>3
  <2> QED
    BY <2>1, <2>2
<1>5. ASSUME NEW j \in 1..n, NEW k \in 1..n, j < k, NEW i \in HeardAt(j)', NEW l \in HeardAt(k)'
      PROVE  i < l
  <2>1. j \in 1..4 /\ k \in 1..4 /\ j # n /\ HeardAt(j)' = HeardAt(j)
    BY <1>3, <1>5
  <2>2. CASE k = n
    BY <1>3, <1>5, <2>1, <2>2
  <2>3. CASE k # n
    <3>1. j \in 1..(n - 1) /\ k \in 1..(n - 1) /\ HeardAt(k)' = HeardAt(k)
      BY <1>3, <1>5, <2>1, <2>3
    <3> QED
      BY <1>5, <2>1, <3>1 DEF HeardUpTo
  <2> QED
    BY <2>2, <2>3
<1> QED
  BY <1>4, <1>5 DEF HeardUpTo

(* The reset forgets what was heard, and marks what is left of the last boot. *)
LEMMA StartKeepsOrder ==
  ASSUME Typed, FirmwareStarts
  PROVE  OrderInv'
<1>1. pc' = "write" /\ kind' = "perf" /\ heard' = <<>>
  BY DEF FirmwareStarts
<1>2. HeardUpTo(0)'
  BY <1>1 DEF HeardUpTo, HeardAt
<1>3. NoneFresh'
  BY MarkedOld DEF NoneFresh, Fresh
<1>4. ~HfiIrqOn'
  BY <1>1, KindsAre DEF HfiIrqOn, Booting
<1>5. \A n \in 1..4 : BootMsgs[n] = "perf" => n = 1
  <2>1. ASSUME NEW n \in 1..4 PROVE n = 1 \/ n = 2 \/ n = 3 \/ n = 4
    OBVIOUS
  <2> QED
    BY <2>1, KindsAre
<1>6. BootInv'
  <2> SUFFICES ASSUME NEW n \in 1..4, kind' = BootMsgs[n] PROVE HeardUpTo(n - 1)' /\ NoneFresh'
    BY <1>1 DEF BootInv
  <2>1. n = 1
    BY <1>1, <1>5
  <2> QED
    BY <1>2, <1>3, <2>1
<1> QED
  BY <1>4, <1>6 DEF OrderInv, UpInv

(* A message written is the only one of the boot's in the queue, or is none. *)
LEMMA WriteKeepsOrder ==
  ASSUME Typed, OrderInv, Write
  PROVE  OrderInv'
<1> DEFINE m == [seq |-> seq', kind |-> kind, old |-> FALSE]
<1>t. cmdq \in Seq(Message) /\ kind \in Kinds /\ pc = "write"
  BY DEF Typed, MailboxTypeOK, InHand, Write
<1>1. /\ m \in Message /\ m.kind = kind /\ m.old = FALSE /\ heard' = heard
      /\ \/ pc' # "poll" /\ cmdq' = cmdq /\ Result(FALSE)
         \/ pc' = "poll" /\ kind' = kind /\ (cmdq' = <<>> \/ cmdq' = Append(cmdq, m))
  BY WrittenIs
<1> HIDE DEF m
<1>2. \A n \in 0..4 : HeardUpTo(n) => HeardUpTo(n)'
  BY <1>1 DEF HeardUpTo, HeardAt
<1>3. NoneFresh /\ (kind \in ToSet(BootMsgs) \/ HeardUpTo(4))
  <2>1. CASE kind \in ToSet(BootMsgs)
    <3>1. PICK n \in 1..4 : kind = BootMsgs[n]
      BY <2>1, KindsAre
    <3> QED
      BY <1>t, <2>1, <3>1 DEF OrderInv, BootInv, UpInv
  <2>2. CASE kind \notin ToSet(BootMsgs)
    BY <1>t, <2>2 DEF OrderInv, BootInv, UpInv, HfiIrqOn, GmuIrqOn, Booting
  <2> QED
    BY <2>1, <2>2
<1>4. CASE cmdq' = cmdq /\ Result(FALSE)
  <2>1. NoneFresh'
    BY <1>3, <1>4 DEF NoneFresh, Fresh
  <2>2. kind' = "none" /\ (kind \in ToSet(BootMsgs) => pc' = "off")
    BY <1>4, <1>t, ResultIs, KindsAre
  <2>3. BootInv'
    BY <2>2, KindsAre DEF BootInv
  <2>4. UpInv'
    BY <1>2, <1>3, <2>1, <2>2 DEF UpInv, HfiIrqOn, GmuIrqOn
  <2> QED
    BY <2>3, <2>4 DEF OrderInv
<1>5. CASE pc' = "poll" /\ kind' = kind /\ (cmdq' = <<>> \/ cmdq' = Append(cmdq, m))
  <2>1. \A i \in DOMAIN cmdq' : Fresh(cmdq'[i]) => cmdq'[i] = m /\ (cmdq' # <<>> => i = Len(cmdq) + 1)
    <3>1. CASE cmdq' = <<>>
      BY <3>1
    <3>2. CASE cmdq' = Append(cmdq, m)
      BY <1>1, <1>3, <1>t, <3>2, AppendIs DEF NoneFresh
    <3> QED
      BY <1>5, <3>1, <3>2
  <2>2. OneFresh'
    <3>1. ASSUME NEW i \in DOMAIN cmdq', NEW j \in DOMAIN cmdq', Fresh(cmdq'[i]), Fresh(cmdq'[j])
          PROVE  i = j /\ cmdq'[i].kind = kind'
      <4>1. cmdq' # <<>>
        BY <3>1
      <4> QED
        BY <1>1, <1>5, <2>1, <3>1, <4>1
    <3>2. \A x : Fresh(x)' <=> Fresh(x)
      BY DEF Fresh
    <3> QED
      BY <3>1, <3>2 DEF OneFresh
  <2>3. kind \notin ToSet(BootMsgs) => NoneFresh'
    <3>1. Fresh(m) => kind \in ToSet(BootMsgs)
      BY <1>1 DEF Fresh
    <3>2. \A x : Fresh(x)' <=> Fresh(x)
      BY DEF Fresh
    <3> QED
      BY <2>1, <3>1, <3>2 DEF NoneFresh
  <2>4. BootInv'
    <3> SUFFICES ASSUME NEW n \in 1..4, kind' = BootMsgs[n]
                 PROVE  HeardUpTo(n - 1)' /\ OneFresh' /\ pc' # "write"
      BY DEF BootInv
    <3>1. HeardUpTo(n - 1)
      BY <1>5, <1>t DEF OrderInv, BootInv, UpInv
    <3> QED
      BY <1>2, <1>5, <2>2, <3>1
  <2>5. UpInv'
    <3>1. HfiIrqOn' => kind \notin ToSet(BootMsgs)
      BY <1>5 DEF HfiIrqOn, Booting
    <3> QED
      BY <1>2, <1>3, <2>3, <3>1 DEF UpInv
  <2> QED
    BY <2>4, <2>5 DEF OrderInv
<1> QED
  BY <1>1, <1>4, <1>5

(* The GMU hears the boot's next message, or one that is not of this boot. *)
LEMMA HearKeepsOrder ==
  ASSUME Typed, OrderInv, Hear
  PROVE  OrderInv'
<1> DEFINE m == Head(cmdq)
<1>1. /\ cmdq \in Seq(Message) /\ m \in Message /\ m = cmdq[1] /\ 1 \in DOMAIN cmdq
      /\ cmdq' = Tail(cmdq) /\ heard' = Append(heard, m)
      /\ \A i \in DOMAIN cmdq' : i + 1 \in DOMAIN cmdq /\ cmdq'[i] = cmdq[i + 1] /\ i \in Nat /\ i > 0
  BY TailIs DEF Typed, MailboxTypeOK, Hear
<1>2. pc' = pc /\ kind' = kind
  BY DEF Hear, host
<1> HIDE DEF m
<1>3. \A x : Fresh(x)' <=> Fresh(x)
  BY DEF Fresh
<1>4. NoneFresh => ~Fresh(m) /\ NoneFresh'
  BY <1>1, <1>3 DEF NoneFresh
<1>5. ASSUME OneFresh PROVE OneFresh' /\ (Fresh(m) => NoneFresh' /\ m.kind = kind)
  <2>1. OneFresh'
    <3>1. ASSUME NEW i \in DOMAIN cmdq', NEW j \in DOMAIN cmdq', Fresh(cmdq'[i]), Fresh(cmdq'[j])
          PROVE  i = j /\ cmdq'[i].kind = kind
      <4>1. i + 1 = j + 1 /\ cmdq[i + 1].kind = kind
        BY <1>1, <1>5, <3>1 DEF OneFresh
      <4> QED
        BY <1>1, <4>1
    <3> QED
      BY <1>2, <1>3, <3>1 DEF OneFresh
  <2>2. ASSUME Fresh(m) PROVE NoneFresh' /\ m.kind = kind
    <3>1. ASSUME NEW i \in DOMAIN cmdq' PROVE ~Fresh(cmdq'[i])
      <4>1. i + 1 # 1
        BY <1>1
      <4> QED
        BY <1>1, <1>5, <2>2, <4>1 DEF OneFresh
    <3>2. m.kind = kind
      BY <1>1, <1>5, <2>2 DEF OneFresh
    <3> QED
      BY <1>3, <3>1, <3>2 DEF NoneFresh
  <2> QED
    BY <2>1, <2>2
<1>6. \A n \in 0..4 : ~Fresh(m) /\ HeardUpTo(n) => HeardUpTo(n)'
  BY <1>1, HearsAnother
<1>7. \A n \in 1..4 : Fresh(m) /\ m.kind = BootMsgs[n] /\ HeardUpTo(n - 1) => HeardUpTo(n)'
  BY <1>1, HearsTheNext DEF Fresh
<1>8. BootInv'
  <2> SUFFICES ASSUME NEW n \in 1..4, kind = BootMsgs[n]
               PROVE  IF pc = "write" THEN HeardUpTo(n - 1)' /\ NoneFresh'
                      ELSE (HeardUpTo(n - 1)' /\ OneFresh') \/ (HeardUpTo(n)' /\ NoneFresh')
    BY <1>2 DEF BootInv
  <2>1. CASE pc = "write"
    BY <1>4, <1>6, <2>1 DEF OrderInv, BootInv, UpInv
  <2>2. CASE pc # "write" /\ HeardUpTo(n - 1) /\ OneFresh
    BY <1>5, <1>6, <1>7, <2>2
  <2>3. CASE pc # "write" /\ HeardUpTo(n) /\ NoneFresh
    BY <1>4, <1>6, <2>3
  <2> QED
    BY <2>1, <2>2, <2>3 DEF OrderInv, BootInv, UpInv
<1>9. UpInv'
  <2>1. HfiIrqOn' => HfiIrqOn
    BY <1>2 DEF HfiIrqOn, GmuIrqOn, Booting
  <2> QED
    BY <1>4, <1>6, <2>1 DEF OrderInv, UpInv
<1> QED
  BY <1>8, <1>9 DEF OrderInv

(* The boot goes on only past a message that was heard. *)
LEMMA ReadKeepsOrder ==
  ASSUME Typed, AnswerInv, OrderInv, [Next]_vars, Read
  PROVE  OrderInv'
<1>t. kind \in Kinds /\ pc = "read"
  BY DEF Typed, InHand, Read
<1>1. heard' = heard /\ cmdq' = cmdq
  BY DEF Read, gmu
<1>2. /\ NoneFresh <=> NoneFresh'
      /\ OneFresh /\ kind' = kind => OneFresh'
      /\ \A n \in 0..4 : HeardUpTo(n) => HeardUpTo(n)'
  BY <1>1 DEF NoneFresh, OneFresh, Fresh, HeardUpTo, HeardAt
<1>3. CASE UNCHANGED <<pc, kind>>
  BY <1>2, <1>3 DEF OrderInv, BootInv, UpInv, HfiIrqOn, GmuIrqOn, Booting
<1>4. ASSUME NEW n \in 1..4, kind = BootMsgs[n], HeardIt
      PROVE  HeardUpTo(n) /\ NoneFresh
  <2>1. PICK i \in DOMAIN heard : heard[i].seq = seq /\ InHandIs(heard[i])
    BY <1>4 DEF HeardIt
  <2>2. i \in HeardAt(n)
    BY <1>4, <2>1 DEF HeardAt, InHandIs
  <2>3. ~HeardUpTo(n - 1)
    BY <2>2 DEF HeardUpTo
  <2> QED
    BY <1>t, <1>4, <2>3 DEF OrderInv, BootInv
<1>5. ASSUME NEW ok \in BOOLEAN, Result(ok), ok /\ pc' \in {"write", "rest"} => HeardIt
      PROVE  OrderInv'
  <2>1. CASE ok /\ NextOfBoot /\ pc' = "write"
    <3>1. PICK n \in 1..3 : kind = BootMsgs[n] /\ kind' = BootMsgs[n + 1]
      BY <2>1, KindsAre DEF NextOfBoot
    <3>2. HeardUpTo(n)' /\ NoneFresh'
      BY <1>2, <1>4, <1>5, <2>1, <3>1
    <3>3. \A k \in 1..4 : kind' = BootMsgs[k] => k - 1 = n
      <4>1. \/ n = 1 /\ kind' = BootMsgs[2]
            \/ n = 2 /\ kind' = BootMsgs[3]
            \/ n = 3 /\ kind' = BootMsgs[4]
        <5>1. \A f : \A j \in 1..3 : f[j + 1] = IF j = 1 THEN f[2] ELSE IF j = 2 THEN f[3] ELSE f[4]
          OBVIOUS
        <5>2. n = 1 \/ n = 2 \/ n = 3
          OBVIOUS
        <5> QED
          BY <3>1, <5>1, <5>2
      <4>2. ASSUME NEW k \in 1..4 PROVE k = 1 \/ k = 2 \/ k = 3 \/ k = 4
        OBVIOUS
      <4> QED
        BY <4>1, <4>2, KindsAre
    <3>4. BootInv'
      <4> SUFFICES ASSUME NEW k \in 1..4, kind' = BootMsgs[k] PROVE HeardUpTo(k - 1)' /\ NoneFresh'
        BY <2>1 DEF BootInv
      <4>1. k - 1 = n
        BY <3>3
      <4> QED
        BY <3>2, <4>1
    <3>5. ~HfiIrqOn'
      BY <2>1, KindsAre DEF HfiIrqOn, Booting, NextOfBoot
    <3> QED
      BY <3>4, <3>5 DEF OrderInv, UpInv
  <2>2. CASE ok /\ kind = "start" /\ pc' = "write" /\ kind' = "vote"
    <3>1. kind = BootMsgs[4]
      BY <2>2, KindsAre
    <3>2. HeardUpTo(4)' /\ NoneFresh'
      BY <1>2, <1>4, <1>5, <2>2, <3>1
    <3>3. BootInv'
      BY <2>2, KindsAre DEF BootInv
    <3> QED
      BY <3>2, <3>3 DEF OrderInv, UpInv
  <2>3. CASE kind \in ToSet(BootMsgs) /\ pc' = "off" /\ kind' = "none"
    BY <2>3, KindsAre DEF OrderInv, BootInv, UpInv, HfiIrqOn, GmuIrqOn
  <2>4. CASE kind \in {"vote", "slumber"} /\ kind' = "none"
    <3>1. HeardUpTo(4) /\ NoneFresh
      BY <1>t, <2>4, KindsAre DEF OrderInv, UpInv, HfiIrqOn, GmuIrqOn, Booting
    <3> QED
      BY <1>2, <2>4, <3>1, KindsAre DEF OrderInv, BootInv, UpInv
  <2> QED
    BY <1>5, <1>t, <2>1, <2>2, <2>3, <2>4, ResultIs
<1>6. CASE Succeeds
  BY <1>5, <1>6, SuccessWasHeard, SuccessIsAnAnswer
<1>7. CASE ~Succeeds
  <2>1. pc' \notin {"write", "rest"}
    BY <1>t, <1>7 DEF Succeeds
  <2> QED
    BY <1>3, <1>5, <2>1 DEF Read
<1> QED
  BY <1>6, <1>7

(* Nothing else takes the boot on, or comes up out of it. *)
LEMMA OrderFrame ==
  ASSUME Typed, [Next]_vars, ~Write, ~Read, ~FirmwareStarts
  PROVE  /\ HfiIrqOn' => HfiIrqOn
         /\ kind' \in ToSet(BootMsgs) => kind' = kind /\ (pc' = "write" <=> pc = "write")
<1> USE KindsAre
<1>1. CASE Resume \/ FirmwareFails \/ Stop \/ Rest \/ Flush \/ Halt
  BY <1>1 DEF Resume, FirmwareFails, Stop, Rest, Flush, Halt, HfiIrqOn, GmuIrqOn, Booting, Typed,
              InHand
<1>2. CASE (\E o \in Oobs : SetOob(o)) \/ OobAcked \/ OobTimesOut \/ Touch
  BY <1>2 DEF SetOob, OobAcked, OobTimesOut, Touch, HfiIrqOn, GmuIrqOn, Booting
<1>3. CASE Poll
  BY <1>3 DEF Poll, HfiIrqOn, GmuIrqOn, Booting
<1>4. CASE TimesOut
  <2>1. Result(FALSE) /\ pc = "poll" /\ kind \in Kinds
    BY <1>4 DEF TimesOut, Typed, InHand
  <2>2. kind' = "none" /\ (kind \in ToSet(BootMsgs) => pc' = "off")
    BY <2>1, ResultIs
  <2> QED
    BY <2>1, <2>2 DEF HfiIrqOn, GmuIrqOn, Booting
<1>5. CASE Gmu \/ Rare \/ UNCHANGED vars
  <2>1. pc' = pc /\ kind' = kind
    BY <1>5 DEF Gmu, Rare, Hear, Answer, Raise, TakeOob, Complain, Crash, HfiIrq, WatchdogIrq, vars, host
  <2> QED
    BY <2>1 DEF HfiIrqOn, GmuIrqOn, Booting
<1> QED
  BY <1>1, <1>2, <1>3, <1>4, <1>5 DEF Next, Caller

LEMMA OthersKeepOrder ==
  ASSUME Typed, OrderInv, [Next]_vars, ~Write, ~Read, ~FirmwareStarts, ~Hear
  PROVE  OrderInv'
<1>1. heard' = heard /\ (cmdq' = cmdq \/ cmdq' = <<>>)
  BY QueueSteps DEF Answer, Complain
<1>2. /\ NoneFresh => NoneFresh'
      /\ \A n \in 0..4 : HeardUpTo(n) => HeardUpTo(n)'
  BY <1>1 DEF NoneFresh, Fresh, HeardUpTo, HeardAt
<1>3. OneFresh /\ kind' = kind => OneFresh'
  BY <1>1 DEF OneFresh, Fresh
<1>4. BootInv'
  <2> SUFFICES ASSUME NEW n \in 1..4, kind' = BootMsgs[n]
               PROVE  IF pc' = "write" THEN HeardUpTo(n - 1)' /\ NoneFresh'
                      ELSE (HeardUpTo(n - 1)' /\ OneFresh') \/ (HeardUpTo(n)' /\ NoneFresh')
    BY DEF BootInv
  <2>1. kind' \in ToSet(BootMsgs)
    BY KindsAre
  <2>2. kind' = kind /\ (pc' = "write" <=> pc = "write")
    BY <2>1, OrderFrame
  <2>3. n - 1 \in 0..4 /\ n \in 0..4
    OBVIOUS
  <2> QED
    BY <1>2, <1>3, <2>2, <2>3 DEF OrderInv, BootInv
<1>5. UpInv'
  BY <1>2, OrderFrame DEF OrderInv, UpInv
<1> QED
  BY <1>4, <1>5 DEF OrderInv

LEMMA StepKeepsOrder ==
  ASSUME Typed, AnswerInv, OrderInv, [Next]_vars
  PROVE  OrderInv'
  BY StartKeepsOrder, WriteKeepsOrder, ReadKeepsOrder, HearKeepsOrder, OthersKeepOrder

(* ... for as long as the numbers are new. *)
LEMMA MailInvariant == Spec /\ NumbersAreNew => []MailInv
<1>1. Init => AnswerInv /\ OrderInv
  BY KindsAre DEF Init, AnswerInv, OrderInv, BootInv, UpInv, HfiIrqOn, GmuIrqOn
<1>2. Typed /\ AnswerInv /\ OrderInv /\ [Next]_vars /\ [NewNumber]_vars => (AnswerInv /\ OrderInv)'
  BY StepKeepsAnswers, StepKeepsOrder
<1> QED
  BY <1>1, <1>2, MailboxIsTyped, PTL DEF Spec, MailInv, NumbersAreNew

(***************************************************************************)
(* A message is taken for done only when the GMU that runs now has heard   *)
(* that very message, through late answers, timeouts, errors and boots     *)
(* that failed, as long as no number is used that is in flight.            *)
(***************************************************************************)
THEOREM OwnAnswerCounts == Spec /\ NumbersAreNew => OnlyItsOwnAnswerCounts
<1>1. MailInv /\ [Next]_vars => [Succeeds => \E m \in ToSet(heard) : m.seq = seq]_vars
  <2> SUFFICES ASSUME MailInv, [Next]_vars, Succeeds
               PROVE  \E m \in ToSet(heard) : m.seq = seq
    OBVIOUS
  <2>1. PICK i \in DOMAIN heard : heard[i].seq = seq
    BY SuccessWasHeard DEF MailInv, HeardIt
  <2>2. heard[i] \in ToSet(heard)
    BY DEF ToSet
  <2> QED
    BY <2>1, <2>2
<1> QED
  BY <1>1, MailInvariant, PTL DEF Spec, OnlyItsOwnAnswerCounts

(***************************************************************************)
(* A GPU that came up has a GMU that heard this boot's tables, start and   *)
(* go, in their order and each once, whatever was left in its queue by     *)
(* boots before, as long as no number is used that is in flight.           *)
(***************************************************************************)
THEOREM BootsAreInOrder == Spec /\ NumbersAreNew => []BootedInOrder
<1>1. MailInv => BootedInOrder
  BY DEF MailInv, OrderInv, UpInv, BootedInOrder
<1> QED
  BY <1>1, MailInvariant, PTL

-----------------------------------------------------------------------------
(* When the numbers are new: since there was last nothing in flight, fewer *)
(* messages were sent than there are numbers.                              *)

VARIABLE behind \* so many were sent

Behind == behind' = IF InFlight' = {} THEN 0 ELSE IF Write THEN behind + 1 ELSE behind
Counted == behind = 0 /\ [][Behind]_<<vars, behind>>

(* How many messages ago n was sent. *)
Age(n) == IF n <= seq THEN seq - n ELSE seq + SeqSpace - n

AgeInv == behind \in Nat /\ \A n \in InFlight : Age(n) < behind

LEMMA WrittenNext ==
  ASSUME Typed, Write
  PROVE  /\ seq \in 0..(SeqSpace - 1) /\ SeqSpace \in Nat
         /\ seq' = IF seq + 1 < SeqSpace THEN seq + 1 ELSE 0
<1>1. seq \in 0..(SeqSpace - 1) /\ SeqSpace \in Nat /\ seq' = (seq + 1) % SeqSpace
  BY MailboxConstants DEF Typed, MailboxTypeOK, Write
<1>2. CASE seq + 1 < SeqSpace
  BY <1>1, <1>2
<1>3. CASE seq + 1 = SeqSpace
  <2>1. SeqSpace % SeqSpace = 0
    BY <1>1, <1>3
  <2> QED
    BY <1>1, <1>3, <2>1
<1> QED
  BY <1>1, <1>2, <1>3

LEMMA StepKeepsAges ==
  ASSUME Typed, AgeInv, [Next]_vars, [Behind]_<<vars, behind>>
  PROVE  AgeInv'
<1>t. InFlight \subseteq 0..(SeqSpace - 1) /\ SeqSpace \in Nat /\ behind \in Nat
  BY InFlightTyped, MailboxConstants DEF AgeInv
<1>1. CASE UNCHANGED <<vars, behind>>
  BY <1>1 DEF AgeInv, Age, InFlight, vars, host, queues, gmu
<1>2. CASE Behind /\ Write
  <2>1. behind' \in Nat
    BY <1>2, <1>t DEF Behind
  <2>2. ASSUME NEW n \in InFlight' PROVE Age(n)' < behind'
    <3>1. behind' = behind + 1 /\ n \in InFlight \cup {seq'}
      BY <1>2, <2>2, InFlightGrows DEF Behind
    <3>2. CASE n = seq'
      <4>1. seq' \in Nat
        BY <1>2, <1>t, WrittenNext
      <4>2. \A k \in Nat : k <= k /\ k - k = 0
        OBVIOUS
      <4>3. Age(n)' = 0
        BY <3>2, <4>1, <4>2 DEF Age
      <4> QED
        BY <1>t, <3>1, <4>3
    <3>3. CASE n \in InFlight /\ n # seq'
      <4>1. Age(n) < behind /\ n \in 0..(SeqSpace - 1)
        BY <1>t, <3>3 DEF AgeInv
      <4> QED
        BY <1>2, <1>t, <3>1, <3>3, <4>1, WrittenNext DEF Age
    <3> QED
      BY <3>1, <3>2, <3>3
  <2> QED
    BY <2>1, <2>2 DEF AgeInv
<1>3. CASE Behind /\ ~Write
  <2>1. seq' = seq /\ InFlight' \subseteq InFlight
    BY <1>3, InFlightGrows, SeqSteps
  <2>2. InFlight' # {} => behind' = behind
    BY <1>3 DEF Behind
  <2>3. behind' \in Nat
    BY <1>3, <1>t DEF Behind
  <2> QED
    BY <2>1, <2>2, <2>3 DEF AgeInv, Age
<1> QED
  BY <1>1, <1>2, <1>3

(***************************************************************************)
(* The driver counts its messages round a fixed number of them.  However   *)
(* much failed boots and late answers leave in flight, no number is used   *)
(* that is in flight before as many messages were sent since there was     *)
(* last nothing in flight.                                                 *)
(***************************************************************************)
THEOREM NumbersComeRoundLate == Spec /\ Counted /\ [](behind < SeqSpace) => NumbersAreNew
<1>1. Init /\ behind = 0 => AgeInv
  BY DEF Init, AgeInv, InFlight
<1>2. Typed /\ AgeInv /\ [Next]_vars /\ [Behind]_<<vars, behind>> => AgeInv'
  BY StepKeepsAges
<1>3. Typed /\ AgeInv /\ behind < SeqSpace => [NewNumber]_vars
  <2> SUFFICES ASSUME Typed, AgeInv, behind < SeqSpace, Write, seq' \in InFlight PROVE FALSE
    BY DEF NewNumber
  <2>1. seq' \in 0..(SeqSpace - 1) /\ behind \in Nat /\ Age(seq') < behind
    BY InFlightTyped DEF AgeInv
  <2>2. Age(seq') = SeqSpace - 1
    BY <2>1, WrittenNext DEF Age
  <2> QED
    BY <2>1, <2>2, MailboxConstants
<1> QED
  BY <1>1, <1>2, <1>3, MailboxIsTyped, PTL DEF Spec, Counted, NumbersAreNew

-----------------------------------------------------------------------------
(* And so they are for few boots: a boot sends six messages at most.       *)

(* At most so many messages does this boot send after one of kind k. *)
After(k) ==
    CASE k = "perf" -> 5 [] k = "bw" -> 4 [] k = "core" -> 3
      [] k = "start" -> 2 [] k = "vote" -> 1 [] OTHER -> 0

(* ... and from here on. *)
Ahead ==
    CASE pc = "load" -> 6
      [] pc = "write" -> After(kind) + 1
      [] pc \in {"poll", "read"} -> After(kind)
      [] pc \in {"up", "oob", "touch"} -> 1
      [] OTHER -> 0

(* The numbers have not come round at all. *)
Unrepeated == 6 * boots < SeqSpace
NumberInv == seq + Ahead <= 6 * boots /\ \A n \in InFlight : n <= seq

(* What is ahead of a boot grows less with every message. *)
LEMMA ResultAhead ==
  ASSUME kind \in Kinds, NEW ok \in BOOLEAN, Result(ok)
  PROVE  Ahead' \in Nat /\ After(kind) \in Nat /\ Ahead' <= After(kind)
  BY ResultIs, KindsAre DEF Ahead, After, NextOfBoot

LEMMA AheadIs ==
  ASSUME Typed
  PROVE  Ahead \in Nat /\ After(kind) \in Nat
  BY KindNames DEF Ahead, After

(* So the next message's number is the next one. *)
LEMMA NextNumber ==
  ASSUME Typed, Unrepeated, seq + Ahead <= 6 * boots, Write
  PROVE  seq' = seq + 1 /\ seq' + Ahead' <= 6 * boots /\ seq \in Nat
<1>t. seq \in Nat /\ boots \in Nat /\ SeqSpace \in Nat /\ kind \in Kinds /\ pc = "write"
  BY MailboxConstants DEF Typed, MailboxTypeOK, InHand, Write
<1>1. Ahead = After(kind) + 1 /\ After(kind) \in Nat
  BY <1>t, AheadIs DEF Ahead
<1>2. seq + 1 < SeqSpace
  BY <1>t, <1>1 DEF Unrepeated
<1>3. (seq + 1) % SeqSpace = seq + 1
  BY <1>t, <1>2
<1>4. seq' = seq + 1
  BY <1>3 DEF Write
<1>5. Ahead' \in Nat /\ Ahead' <= After(kind)
  <2>1. CASE Result(FALSE)
    BY <1>t, <2>1, ResultAhead
  <2>2. CASE pc' = "poll" /\ UNCHANGED <<kind, bits>>
    <3>1. Ahead' = After(kind)
      BY <2>2 DEF Ahead, After
    <3> QED
      BY <1>1, <3>1
  <2> QED
    BY <2>1, <2>2 DEF Write
<1>6. seq + 1 + Ahead' <= seq + Ahead
  BY <1>t, <1>1, <1>5
<1>7. 6 * boots \in Nat /\ Ahead \in Nat
  BY <1>t, AheadIs
<1>8. seq + 1 + Ahead' <= 6 * boots
  <2>1. \A s, a, b, c \in Nat : s + a <= c /\ s + 1 + b <= s + a => s + 1 + b <= c
    OBVIOUS
  <2> QED
    BY <1>t, <1>5, <1>6, <1>7, <2>1
<1> QED
  BY <1>t, <1>4, <1>8

(* Whatever else the caller does, no more is ahead of it. *)
LEMMA NoMoreAhead ==
  ASSUME Typed, seq + Ahead <= 6 * boots, [Next]_vars, ~Write
  PROVE  seq' = seq /\ seq' + Ahead' <= 6 * boots'
<1>t. seq \in Nat /\ boots \in Nat /\ SeqSpace \in Nat /\ Ahead \in Nat
  BY AheadIs, MailboxConstants DEF Typed, MailboxTypeOK
<1>1. CASE Resume
  <2>1. seq' = seq /\ boots' = boots + 1 /\ Ahead' = 6 /\ Ahead = 0
    BY <1>1 DEF Resume, Ahead
  <2> QED
    BY <1>t, <2>1
<1> SUFFICES ASSUME ~Resume PROVE seq' = seq /\ boots' = boots /\ Ahead' \in Nat /\ Ahead' <= Ahead
  BY <1>1, <1>t
<1>2. CASE FirmwareStarts \/ FirmwareFails
  <2>1. seq' = seq /\ boots' = boots /\ pc = "load"
    BY <1>2 DEF FirmwareStarts, FirmwareFails, counts
  <2>2. (pc' = "write" /\ kind' = "perf") \/ pc' = "off"
    BY <1>2 DEF FirmwareStarts, FirmwareFails
  <2>3. Ahead = 6 /\ Ahead' \in {0, 6}
    BY <2>1, <2>2 DEF Ahead, After
  <2> QED
    BY <2>1, <2>3
<1>3. CASE Poll
  <2>1. pc = "poll" /\ pc' = "read" /\ kind' = kind /\ seq' = seq /\ boots' = boots
    BY <1>3 DEF Poll, counts
  <2> QED
    BY <1>t, <2>1 DEF Ahead, After
<1>4. CASE TimesOut \/ Read
  <2>1. seq' = seq /\ boots' = boots /\ pc \in {"poll", "read"} /\ kind \in Kinds
    BY <1>4 DEF TimesOut, Read, counts, Typed, InHand
  <2>2. Ahead = After(kind)
    BY <2>1 DEF Ahead
  <2>3. CASE \E ok \in BOOLEAN : Result(ok)
    BY <2>1, <2>2, <2>3, ResultAhead
  <2>4. CASE UNCHANGED <<pc, kind, bits>>
    BY <1>t, <2>1, <2>4 DEF Ahead, After
  <2> QED
    BY <1>4, <2>1, <2>3, <2>4 DEF TimesOut, Read
<1>5. CASE (\E o \in Oobs : SetOob(o)) \/ OobAcked \/ OobTimesOut \/ Touch
  <2>1. /\ pc \in {"up", "oob", "touch"} /\ pc' \in {"up", "oob", "touch"}
        /\ seq' = seq /\ boots' = boots
    BY <1>5 DEF SetOob, OobAcked, OobTimesOut, Touch, counts
  <2> QED
    BY <2>1 DEF Ahead
<1>6. CASE Stop \/ Rest \/ Flush \/ Halt
  <2>1. seq' = seq /\ boots' = boots
    BY <1>6 DEF Stop, Rest, Flush, Halt, counts
  <2>2. CASE pc' \in {"rest", "flush", "off", "halt"}
    BY <1>t, <2>1, <2>2 DEF Ahead
  <2>3. CASE pc = "up" /\ pc' = "write" /\ kind' = "slumber"
    BY <2>1, <2>3 DEF Ahead, After
  <2> QED
    BY <1>6, <2>2, <2>3 DEF Stop, Rest, Flush, Halt
<1>7. CASE Gmu \/ Rare \/ UNCHANGED vars
  <2>1. seq' = seq /\ boots' = boots /\ pc' = pc /\ kind' = kind
    BY <1>7 DEF Gmu, Rare, Hear, Answer, Raise, TakeOob, Complain, Crash, HfiIrq, WatchdogIrq, vars,
                host, counts
  <2> QED
    BY <1>t, <2>1 DEF Ahead, After
<1> QED
  BY <1>2, <1>3, <1>4, <1>5, <1>6, <1>7 DEF Next, Caller

LEMMA StepKeepsNumbers ==
  ASSUME Typed, NumberInv, Unrepeated, [Next]_vars
  PROVE  NumberInv'
<1>t. InFlight \subseteq Nat /\ seq \in Nat /\ seq' \in Nat
  BY InFlightTyped, StepTyped DEF Typed, MailboxTypeOK
<1>1. CASE Write
  <2>1. seq' = seq + 1 /\ seq' + Ahead' <= 6 * boots /\ boots' = boots
    BY <1>1, NextNumber DEF NumberInv, Write, counts
  <2>2. \A n \in InFlight' : n \in InFlight \/ n = seq'
    BY <1>1, InFlightGrows
  <2>3. \A n \in InFlight' : n <= seq'
    <3>1. \A n \in InFlight : n \in Nat /\ n <= seq
      BY <1>t DEF NumberInv
    <3>2. seq' = seq + 1
      BY <2>1
    <3> TAKE n \in InFlight'
    <3>3. CASE n \in InFlight
      <4>1. n \in Nat /\ n <= seq /\ seq \in Nat
        BY <1>t, <3>1, <3>3
      <4> QED
        BY <3>2, <4>1
    <3>4. CASE n = seq'
      BY <1>t, <3>4
    <3> QED
      BY <2>2, <3>3, <3>4
  <2> QED
    BY <2>1, <2>3 DEF NumberInv
<1>2. CASE ~Write
  <2>1. seq' = seq /\ seq' + Ahead' <= 6 * boots'
    BY <1>2, NoMoreAhead DEF NumberInv
  <2>2. InFlight' \subseteq InFlight
    BY <1>2, InFlightGrows
  <2> QED
    BY <2>1, <2>2 DEF NumberInv
<1> QED
  BY <1>1, <1>2

(***************************************************************************)
(* As checked by TLC: with so few boots that the numbers cannot come round *)
(* no message is done by another's answer and every boot is in order.      *)
(***************************************************************************)
THEOREM FewBootsAreInOrder ==
  ASSUME 6 * MaxBoots < SeqSpace
  PROVE  Spec => []BootedInOrder /\ OnlyItsOwnAnswerCounts
<1>1. Init => boots <= MaxBoots /\ NumberInv
  BY MailboxConstants DEF Init, NumberInv, Ahead, InFlight
<1>2. Typed /\ boots <= MaxBoots /\ [Next]_vars => (boots <= MaxBoots)'
  <2> SUFFICES ASSUME Typed, boots <= MaxBoots, [Next]_vars PROVE boots' <= MaxBoots
    OBVIOUS
  <2>1. boots \in Nat /\ MaxBoots \in Nat
    BY MailboxConstants DEF Typed, MailboxTypeOK
  <2>2. CASE Resume
    BY <2>1, <2>2 DEF Resume
  <2>3. CASE ~Resume
    <3>1. boots' = boots
      BY <2>3 DEF Next, Caller, Gmu, Rare, FirmwareStarts, FirmwareFails, Write, Poll, TimesOut, Read,
             SetOob, OobAcked, OobTimesOut, Touch, Stop, Rest, Flush, Halt, Hear, Answer, Complain,
             Raise, TakeOob, Crash, HfiIrq, WatchdogIrq, vars, counts
    <3> QED
      BY <3>1
  <2> QED
    BY <2>2, <2>3
<1>3. Typed /\ boots <= MaxBoots => Unrepeated
  BY MailboxConstants DEF Typed, MailboxTypeOK, Unrepeated
<1>4. Typed /\ NumberInv /\ Unrepeated /\ [Next]_vars => NumberInv'
  BY StepKeepsNumbers
<1>5. Typed /\ NumberInv /\ Unrepeated => [NewNumber]_vars
  <2> SUFFICES ASSUME Typed, NumberInv, Unrepeated, Write, seq' \in InFlight PROVE FALSE
    BY DEF NewNumber
  <2>1. seq' = seq + 1 /\ seq \in Nat /\ seq' <= seq
    BY NextNumber DEF NumberInv
  <2> QED
    BY <2>1
<1>6. Spec => NumbersAreNew
  BY <1>1, <1>2, <1>3, <1>4, <1>5, MailboxIsTyped, PTL DEF Spec, NumbersAreNew
<1> QED
  BY <1>6, OwnAnswerCounts, BootsAreInOrder
=============================================================================
