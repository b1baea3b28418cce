------------------------------ MODULE GmuMailbox ------------------------------
(* The GMU, the GPU's power microcontroller, and the driver's talk with it:
   drivers/gpu/drm/msm/adreno, a6xx_hfi.c (two queues of messages in shared
   memory, HFI) and a6xx_gmu.c (boot, slumber, force-off, the out-of-band
   requests, the interrupts), for a GMU that is not `legacy`, as the board's.

   Whoever talks holds gmu->lock: `pc` is where that caller is, "off" and "up"
   when there is none.  Every wait of its is a poll with a timeout, and the GMU,
   external, may be late for any of them: it hears, answers and raises its
   interrupt in its own time, across timeouts, and across boots until the next
   one resets it.                                                            *)
EXTENDS Naturals, Sequences, SequencesExt

CONSTANTS
    Size,           \* header->size: dwords in a queue
    Dwords,         \* by kind of message: its dwords
    SeqSpace,       \* sequence numbers there are (0xfff)
    Oobs,           \* the out-of-band requests made: of hw_init, of timestamps
    MaxBoots,       \* bound: resumes
    MaxLate,        \* bound: timeouts of a GMU that would have answered
    MaxErrors,      \* bound: errors the GMU reports
    MaxCrashes      \* bound: crashes of the GMU

BootMsgs == <<"perf", "bw", "core", "start">>
Kinds == ToSet(BootMsgs) \cup {"vote", "slumber"}

ASSUME MailboxConstants ==
    /\ Size \in Nat /\ SeqSpace \in Nat /\ MaxBoots \in Nat
    /\ MaxLate \in Nat /\ MaxErrors \in Nat /\ MaxCrashes \in Nat
    /\ Size > 0 /\ Size % 4 = 0 /\ SeqSpace > 0
    /\ Dwords \in [Kinds -> 1..(Size - 1)]
    /\ Oobs \subseteq {"gpu", "stamp"}

VARIABLES
    pc,             \* where the caller is
    kind,           \* the message in hand
    oob,            \* the out-of-band request in hand
    seq,            \* the command queue's seqnum, as sent
    hung,           \* gmu->hung
    needsInit,      \* gpu->needs_hw_init
    bits,           \* GMU2HOST_INTR_INFO
    asks,           \* HOST2GMU_INTR_SET: out-of-band requests not yet taken
    cmdq, respq,    \* the queues, between their indices
    fw,             \* the GMU: "off", "run", "dead"
    busy,           \* the message it is at
    owes,           \* it has written a response and not raised the interrupt
    held,           \* the requests for which it keeps the GPU on
    heard,          \* history: the messages it heard since it booted
    slow,           \* history: a request to it has timed out
    boots, late, errors, crashes

host == <<pc, kind, oob, seq, hung, needsInit>>
queues == <<cmdq, respq>>
gmu == <<fw, busy, owes, held, heard>>
counts == <<boots, errors, crashes>>
vars == <<host, bits, asks, queues, gmu, slow, late, counts>>

(* Once adreno_load_gpu has let it suspend for the first time. *)
Init ==
    /\ pc = "off" /\ kind = "none" /\ oob = "none" /\ seq = 0
    /\ hung = FALSE /\ needsInit = TRUE
    /\ bits = {} /\ asks = <<>> /\ cmdq = <<>> /\ respq = <<>>
    /\ fw = "off" /\ busy = <<>> /\ owes = FALSE /\ held = {} /\ heard = <<>>
    /\ slow = FALSE /\ boots = 0 /\ late = 0 /\ errors = 0 /\ crashes = 0

-----------------------------------------------------------------------------
(* Helpers. *)

(* What a message takes of the queue: its end is padded to four dwords. *)
Padded(k) == 4 * ((Dwords[k] + 3) \div 4)

Used(q) == FoldSeq(LAMBDA m, n : n + Padded(m.kind), 0, q)

(* CIRC_SPACE *)
Space(q) == Size - 1 - Used(q)

(* a6xx_hfi_queue_write, which counts the message without its padding: where that
   brings the indices together, what was in the queue is in it no more. *)
Written(q, m) == IF Used(q) + Padded(m.kind) = Size THEN <<>> ELSE Append(q, m)

(* HOST2GMU_INTR_SET: setting a bit that is set changes nothing. *)
Asked(q, a) == IF a \in ToSet(q) THEN q ELSE Append(q, a)

Booting == pc \in {"write", "poll", "read"} /\ kind \in ToSet(BootMsgs)

(* The interrupts that are enabled: the GMU's own from the start of a resume,
   HFI's once the boot is done; both until the stop. *)
GmuIrqOn == pc \notin {"off", "load", "halt"}
HfiIrqOn == GmuIrqOn /\ ~Booting

(* There is an answer to come yet. *)
Coming == fw = "run" /\ (cmdq # <<>> \/ busy # <<>> \/ owes)

(* A timeout, which is the GMU's fault if something is still to come. *)
Late(due) ==
    /\ due => late < MaxLate
    /\ late' = IF due THEN late + 1 ELSE late

NextKind == BootMsgs[CHOOSE i \in 2..4 : BootMsgs[i - 1] = kind]

(* Mutant: of the boot's messages only the last one's result is looked at. *)
OnwardAnyway(ok) == kind \in ToSet(BootMsgs) /\ (ok \/ kind # "start")

Onward(ok) == kind \in ToSet(BootMsgs) /\ ok

(* Mutant: what the last GMU raised is still there. *)
BitsLeft == bits

(* GMU2HOST_INTR_CLR, ~0 *)
BitsCleared == {}

(* What the caller does next: a6xx_hfi_start and the end of a6xx_gmu_resume for
   a message of the boot, a6xx_gmu_set_freq for the vote, whose result is not
   looked at, a6xx_gmu_shutdown for the slumber. *)
Result(ok) ==
    \/ /\ Onward(ok) /\ kind # "start"
       /\ pc' = "write" /\ kind' = NextKind /\ UNCHANGED bits
    \/ /\ Onward(ok) /\ kind = "start"
       /\ pc' = "write" /\ kind' = "vote" /\ bits' = BitsCleared
    \/ /\ kind \in ToSet(BootMsgs) /\ ~Onward(ok)
       /\ pc' = "off" /\ kind' = "none" /\ UNCHANGED bits
    \/ /\ kind = "vote"
       /\ pc' = "up" /\ kind' = "none" /\ UNCHANGED bits
    \/ /\ kind = "slumber"
       /\ pc' = (IF ok THEN "rest" ELSE "flush") /\ kind' = "none" /\ UNCHANGED bits

-----------------------------------------------------------------------------
(* Resume: a6xx_gmu_pm_resume, a6xx_gmu_resume. *)

Resume ==
    /\ pc = "off" /\ boots < MaxBoots
    /\ pc' = "load"
    /\ boots' = boots + 1
    /\ hung' = FALSE /\ needsInit' = TRUE
    /\ UNCHANGED <<kind, oob, seq, bits, asks, queues, gmu, slow, late, errors, crashes>>

(* a6xx_gmu_fw_start: the GMU comes out of its reset and finds the queues where
   their headers say.  Whether the interrupt register survives is the hardware's. *)
FirmwareStarts ==
    /\ pc = "load"
    /\ pc' = "write" /\ kind' = "perf"
    /\ fw' = "run" /\ busy' = <<>> /\ owes' = FALSE /\ held' = {} /\ heard' = <<>>
    /\ cmdq' = [i \in DOMAIN cmdq |-> [cmdq[i] EXCEPT !.old = TRUE]]
    /\ asks' = <<>> /\ bits' \in {bits, {}}
    /\ slow' = FALSE
    /\ UNCHANGED <<oob, seq, hung, needsInit, respq, late, counts>>

(* One of its polls times out, before the reset or after. *)
FirmwareFails ==
    /\ pc = "load" /\ Late(TRUE)
    /\ pc' = "off"
    /\ fw' \in {fw, "dead"}
    /\ UNCHANGED <<kind, oob, seq, hung, needsInit, bits, asks, queues, busy, owes, held, heard, slow, counts>>

-----------------------------------------------------------------------------
(* A message: a6xx_hfi_send_msg, a6xx_hfi_wait_for_ack. *)

Write ==
    /\ pc = "write"
    /\ LET m == [seq |-> (seq + 1) % SeqSpace, kind |-> kind, old |-> FALSE]
       IN /\ seq' = m.seq
          /\ \/ /\ Space(cmdq) < Dwords[kind]
                /\ Result(FALSE) /\ UNCHANGED cmdq
             \/ /\ Space(cmdq) >= Dwords[kind]
                /\ cmdq' = Written(cmdq, m)
                /\ pc' = "poll" /\ UNCHANGED <<kind, bits>>
    /\ UNCHANGED <<oob, hung, needsInit, asks, respq, gmu, slow, late, counts>>

Poll ==
    /\ pc = "poll" /\ "msgq" \in bits
    /\ bits' = bits \ {"msgq"}
    /\ pc' = "read"
    /\ UNCHANGED <<kind, oob, seq, hung, needsInit, asks, queues, gmu, slow, late, counts>>

(* Mutant: the GMU is waited for. *)
NeverTimesOut == FALSE /\ UNCHANGED vars

TimesOut ==
    /\ pc = "poll" /\ "msgq" \notin bits
    /\ Late(Coming)
    /\ Result(FALSE)
    /\ UNCHANGED <<oob, seq, hung, needsInit, asks, queues, gmu, slow, counts>>

(* Mutant: the answer is not asked whose it is. *)
AnyAnswer(r) == r.what # "error"

(* The answer to the message in hand. *)
OwnAnswer(r) == r.what # "error" /\ r.seq = seq

(* One packet of the response queue. *)
Read ==
    /\ pc = "read"
    /\ \/ /\ respq = <<>>
          /\ Result(FALSE) /\ UNCHANGED respq
       \/ /\ respq # <<>>
          /\ respq' = Tail(respq)
          /\ IF OwnAnswer(Head(respq)) THEN Result(Head(respq).what = "done")
             ELSE UNCHANGED <<pc, kind, bits>>
    /\ UNCHANGED <<oob, seq, hung, needsInit, asks, cmdq, gmu, slow, late, counts>>

-----------------------------------------------------------------------------
(* Out of band: a6xx_gmu_set_oob and a6xx_gmu_clear_oob, as hw_init ("gpu")
   and a6xx_gmu_get_timestamp ("stamp") use them. *)

SetOob(o) ==
    /\ pc = "up"
    /\ o = "gpu" => needsInit
    /\ pc' = "oob" /\ oob' = o
    /\ asks' = Asked(asks, <<o, "set">>)
    /\ UNCHANGED <<kind, seq, hung, needsInit, bits, queues, gmu, slow, late, counts>>

OobAcked ==
    /\ pc = "oob" /\ oob \in bits
    /\ bits' = bits \ {oob}
    /\ pc' = "touch"
    /\ UNCHANGED <<kind, oob, seq, hung, needsInit, asks, queues, gmu, slow, late, counts>>

(* hw_init gives up; the timestamp is read all the same.  An acknowledgement
   that comes just after the last look is cleared too. *)
OobTimesOut ==
    /\ pc = "oob"
    /\ Late(fw = "run")
    /\ bits' = bits \ {oob}
    /\ slow' = TRUE
    /\ pc' = (IF oob = "gpu" THEN "up" ELSE "touch")
    /\ oob' = (IF oob = "gpu" THEN "none" ELSE oob)
    /\ UNCHANGED <<kind, seq, hung, needsInit, asks, queues, gmu, counts>>

(* The registers are touched.  hw_init may fail, and where the zap shader does
   not load it does not clear its request. *)
Touch ==
    /\ pc = "touch"
    /\ \/ /\ asks' = Asked(asks, <<oob, "clear">>)
          /\ needsInit' \in (IF oob = "gpu" THEN {FALSE, needsInit} ELSE {needsInit})
       \/ oob = "gpu" /\ UNCHANGED <<asks, needsInit>>
    /\ pc' = "up" /\ oob' = "none"
    /\ UNCHANGED <<kind, seq, hung, bits, queues, gmu, slow, late, counts>>

-----------------------------------------------------------------------------
(* Suspend: a6xx_gmu_pm_suspend, a6xx_gmu_stop. *)

(* By force if it is known to hang or does not get idle; a GMU in slumber yet is
   not asked again. *)
Stop ==
    /\ pc = "up"
    /\ \/ hung /\ pc' = "flush" /\ UNCHANGED <<kind, late>>
       \/ ~hung /\ pc' = "rest" /\ UNCHANGED <<kind, late>>
       \/ ~hung /\ pc' = "write" /\ kind' = "slumber" /\ UNCHANGED late
       \/ ~hung /\ pc' = "flush" /\ Late(fw = "run") /\ UNCHANGED kind
    /\ UNCHANGED <<oob, seq, hung, needsInit, bits, asks, queues, gmu, slow, counts>>

(* a6xx_hfi_stop *)
Flushed == cmdq' = <<>> /\ respq' = <<>>

(* The end of a6xx_gmu_shutdown.  The GMU is left as it is. *)
Rest ==
    /\ pc = "rest"
    /\ Flushed
    /\ pc' = "off"
    /\ UNCHANGED <<kind, oob, seq, hung, needsInit, bits, asks, gmu, slow, late, counts>>

(* a6xx_gmu_force_off flushes the queues first ... *)
Flush ==
    /\ pc = "flush"
    /\ Flushed
    /\ pc' = "halt"
    /\ UNCHANGED <<kind, oob, seq, hung, needsInit, bits, asks, gmu, slow, late, counts>>

(* ... and halts the GMU last. *)
Halt ==
    /\ pc = "halt"
    /\ fw' = "dead"
    /\ pc' = "off"
    /\ UNCHANGED <<kind, oob, seq, hung, needsInit, bits, asks, queues, busy, owes, held, heard, slow, late, counts>>

-----------------------------------------------------------------------------
(* The GMU, and its interrupts. *)

Hear ==
    /\ fw = "run" /\ busy = <<>> /\ cmdq # <<>>
    /\ busy' = <<Head(cmdq)>> /\ cmdq' = Tail(cmdq)
    /\ heard' = Append(heard, Head(cmdq))
    /\ UNCHANGED <<host, bits, asks, respq, fw, owes, held, slow, late, counts>>

Answer ==
    /\ fw = "run" /\ busy # <<>>
    /\ \E what \in {"done", "failed"} :
          /\ what = "failed" => errors < MaxErrors
          /\ errors' = IF what = "failed" THEN errors + 1 ELSE errors
          /\ respq' = Append(respq, [seq |-> busy[1].seq, what |-> what])
    /\ busy' = <<>> /\ owes' = TRUE
    /\ UNCHANGED <<host, bits, asks, cmdq, fw, held, heard, slow, late, boots, crashes>>

(* HFI_F2H_MSG_ERROR, which answers nobody. *)
Complain ==
    /\ fw = "run" /\ errors < MaxErrors
    /\ errors' = errors + 1
    /\ respq' = Append(respq, [seq |-> 0, what |-> "error"])
    /\ owes' = TRUE
    /\ UNCHANGED <<host, bits, asks, cmdq, fw, busy, held, heard, slow, late, boots, crashes>>

Raise ==
    /\ fw = "run" /\ owes
    /\ owes' = FALSE
    /\ bits' = bits \cup {"msgq"}
    /\ UNCHANGED <<host, asks, queues, fw, busy, held, heard, slow, late, counts>>

(* It takes out-of-band requests in the order they were made. *)
TakeOob ==
    /\ fw = "run" /\ asks # <<>>
    /\ asks' = Tail(asks)
    /\ LET o == Head(asks)[1]
       IN IF Head(asks)[2] = "set" THEN held' = held \cup {o} /\ bits' = bits \cup {o}
          ELSE held' = held \ {o} /\ UNCHANGED bits
    /\ UNCHANGED <<host, queues, fw, busy, owes, heard, slow, late, counts>>

(* It faults, and says so, or is only missed by its watchdog. *)
Crash ==
    /\ fw = "run" /\ crashes < MaxCrashes
    /\ crashes' = crashes + 1
    /\ fw' = "dead"
    /\ bits' \in {bits, bits \cup {"fault"}}
    /\ UNCHANGED <<host, asks, queues, busy, owes, held, heard, slow, late, boots, errors>>

(* a6xx_hfi_irq clears whatever it reads, also what somebody polls for. *)
HfiIrq ==
    /\ HfiIrqOn /\ "fault" \in bits
    /\ bits' = {}
    /\ hung' = TRUE
    /\ UNCHANGED <<pc, kind, oob, seq, needsInit, asks, queues, gmu, slow, late, counts>>

(* a6xx_gmu_irq, WDOG_BITE *)
WatchdogIrq ==
    /\ GmuIrqOn /\ fw = "dead" /\ ~hung
    /\ hung' = TRUE
    /\ UNCHANGED <<pc, kind, oob, seq, needsInit, bits, asks, queues, gmu, slow, late, counts>>

Caller == \/ FirmwareStarts \/ FirmwareFails \/ Write \/ Poll \/ TimesOut \/ Read
          \/ OobAcked \/ OobTimesOut \/ Touch \/ Rest \/ Flush \/ Halt
Gmu == Hear \/ Answer \/ Raise \/ TakeOob
Rare == Complain \/ Crash \/ HfiIrq \/ WatchdogIrq

Next ==
    \/ Resume \/ Stop \/ (\E o \in Oobs : SetOob(o))
    \/ Caller \/ Gmu \/ Rare

(* The caller runs, and its polls end; a GMU that runs gets on.  Nobody need
   resume the GPU, ask it anything or let it suspend. *)
Fairness == WF_vars(Caller) /\ WF_vars(Gmu)

Spec == Init /\ [][Next]_vars
FairSpec == Spec /\ Fairness

-----------------------------------------------------------------------------
(* Properties. *)

Message == [seq : 0..(SeqSpace - 1), kind : Kinds, old : BOOLEAN]
Response == [seq : 0..(SeqSpace - 1), what : {"done", "failed", "error"}]

(* Every variable is of its kind. *)
MailboxTypeOK ==
    /\ pc \in {"off", "load", "write", "poll", "read", "up", "oob", "touch", "rest",
               "flush", "halt"}
    /\ kind \in Kinds \cup {"none"} /\ oob \in Oobs \cup {"none"} /\ seq \in 0..(SeqSpace - 1)
    /\ hung \in BOOLEAN /\ needsInit \in BOOLEAN /\ owes \in BOOLEAN /\ slow \in BOOLEAN
    /\ bits \subseteq {"msgq", "fault"} \cup Oobs /\ held \subseteq Oobs
    /\ asks \in Seq(Oobs \X {"set", "clear"})
    /\ cmdq \in Seq(Message) /\ busy \in Seq(Message) /\ heard \in Seq(Message)
    /\ respq \in Seq(Response)
    /\ fw \in {"off", "run", "dead"} /\ Len(busy) <= 1
    /\ boots \in Nat /\ late \in Nat /\ errors \in Nat /\ crashes \in Nat

(* The command queue never holds more than it can. *)
CommandsFit == Used(cmdq) < Size

(* The caller takes its message for done. *)
Succeeds == pc = "read" /\ pc' \in {"write", "rest"}

(* A message is taken for done only when the GMU that runs now has heard that very
   message: not on the late answer to one before it, nor on one to the boot before. *)
OnlyItsOwnAnswerCounts ==
    [][Succeeds => \E m \in ToSet(heard) : m.seq = seq]_vars

(* Where it heard this boot's n-th message. *)
HeardAt(n) == {i \in DOMAIN heard : ~heard[i].old /\ heard[i].kind = BootMsgs[n]}

(* It heard the first n of this boot's messages, each once and in their order, and
   none of the others. *)
HeardUpTo(n) ==
    /\ \A k \in 1..4 : IF k <= n THEN \E i \in DOMAIN heard : HeardAt(k) = {i} ELSE HeardAt(k) = {}
    /\ \A j, k \in 1..n : j < k => \A i \in HeardAt(j), l \in HeardAt(k) : i < l

(* A GPU that came up has a GMU that heard, since it booted, this boot's tables,
   start and go, in this order, each once, whatever else it heard before them. *)
BootedInOrder == HfiIrqOn => HeardUpTo(4)

(* The registers are touched while the GMU keeps the GPU on for it, as long as no
   request of this boot has timed out: no acknowledgement is another boot's. *)
AckedIsHeld == pc = "touch" /\ fw = "run" /\ ~slow => oob \in held

(* Whoever talks to the GMU lets go of its lock, though it is late, in error or
   dead: every poll ends, and the responses do. *)
CallsEnd == []<>(pc \in {"off", "up"})

(* a6xx_hfi_wait_for_ack's "If the queue is empty our response never made it":
   a message given up on an empty queue is one the GMU is done with. *)
EmptyMeansLost ==
    [][pc = "read" /\ respq = <<>> /\ pc' # pc /\ fw = "run"
         => seq \notin {m.seq : m \in ToSet(cmdq) \cup ToSet(busy)}]_vars

(* a6xx_gmu_resume's "On failure, shut down the GMU to leave it in a good state": the
   next GMU hears nothing but what is said to it. *)
HearsOnlyItsOwn == \A m \in ToSet(heard) : ~m.old

(* a6xx_gmu_get_timestamp's "Force the GPU power on so we can read this register":
   it is read while the GMU keeps the GPU on. *)
ForcedOnWhileRead == pc = "touch" /\ oob = "stamp" /\ fw = "run" => "stamp" \in held
=============================================================================
