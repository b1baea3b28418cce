--------------------------- MODULE GemObjectProofs ---------------------------
(* TLAPS proofs about the GPU's buffers. *)
EXTENDS GemObject, FiniteSetTheorems, TLAPS

Buffers == [refs: Nat, handle: BOOLEAN, imported: BOOLEAN,
            mmap: {"none", "open", "touched"}, attached: Nat, vmaps: Nat,
            vaddr: BOOLEAN, pages: BOOLEAN,
            madv: {"willneed", "dontneed", "purged"}, pins: Int,
            lru: {"none", "unbacked", "pinned", "willneed", "dontneed", "purged", "scan"},
            vma: [Spaces -> {"none", "open", "mapped"}]]

PinsOf(b) == b.pins - b.attached - b.vmaps
RefsOf(b) == b.refs - b.attached - b.vmaps - One(b.handle) - One(b.mmap # "none")

Sound(b) ==
    /\ b.vaddr \/ b.mmap = "touched" \/ (\E s \in Spaces : b.vma[s] = "mapped") => b.pages
    /\ b.madv = "purged" => ~b.pages
    /\ b.imported => b.pages

Body(b) == <<b.pages, b.vma, b.vaddr, b.madv, b.imported, b.pins>>

Keeps(b, c) ==
    /\ b.pages => c.pages
    /\ \A s \in Spaces : b.vma[s] = "mapped" => c.vma[s] = "mapped"

LEMMA GoneIs == Gone \in Buffers /\ Sound(Gone) /\ PinsOf(Gone) = 0 /\ RefsOf(Gone) = 0
<1>1. Gone \in Buffers
  BY DEF Gone, New, Imported, Buffers
<1>2. Sound(Gone)
  BY DEF Gone, New, Imported, Sound
<1>3. PinsOf(Gone) = 0
  BY DEF Gone, New, Imported, PinsOf
<1>4. RefsOf(Gone) = 0
  <2>1. Gone.refs = 0 /\ Gone.attached = 0 /\ Gone.vmaps = 0 /\ ~Gone.handle /\ Gone.mmap = "none"
    BY DEF Gone
  <2>2. One(Gone.handle) = 0 /\ One(Gone.mmap # "none") = 0
    BY <2>1, Zenon DEF One
  <2> QED BY <2>1, <2>2 DEF RefsOf
<1> QED BY <1>1, <1>2, <1>3, <1>4

LEMMA NewIs == New \in Buffers /\ Sound(New) /\ PinsOf(New) = 0 /\ RefsOf(New) = 0
<1>1. New \in Buffers
  BY GoneIs DEF New, Buffers
<1>2. Sound(New)
  BY DEF Gone, New, Imported, Sound
<1>3. PinsOf(New) = 0
  BY DEF Gone, New, Imported, PinsOf
<1>4. RefsOf(New) = 0
  BY DEF Gone, New, Imported, RefsOf, One
<1> QED BY <1>1, <1>2, <1>3, <1>4

LEMMA ImportedIs == Imported \in Buffers /\ Sound(Imported) /\ PinsOf(Imported) = 0 /\ RefsOf(Imported) = 0
<1>1. Imported \in Buffers
  BY NewIs DEF Imported, Buffers
<1>2. Sound(Imported)
  BY DEF Gone, New, Imported, Sound
<1>3. PinsOf(Imported) = 0
  BY DEF Gone, New, Imported, PinsOf
<1>4. RefsOf(Imported) = 0
  BY DEF Gone, New, Imported, RefsOf, One
<1> QED BY <1>1, <1>2, <1>3, <1>4

LEMMA UpdateLruIs ==
  ASSUME NEW b \in Buffers
  PROVE  /\ UpdateLru(b) \in Buffers
         /\ PinsOf(UpdateLru(b)) = PinsOf(b) /\ RefsOf(UpdateLru(b)) = RefsOf(b)
         /\ Sound(b) => Sound(UpdateLru(b))
         /\ Keeps(b, UpdateLru(b))
<1>1. UpdateLru(b) \in Buffers
  BY DEF UpdateLru, Home, Buffers
<1>2. PinsOf(UpdateLru(b)) = PinsOf(b) /\ RefsOf(UpdateLru(b)) = RefsOf(b)
  BY DEF UpdateLru, Buffers, PinsOf, RefsOf, One
<1>3. Sound(b) => Sound(UpdateLru(b))
  BY DEF UpdateLru, Buffers, Sound
<1>4. Keeps(b, UpdateLru(b))
  BY DEF UpdateLru, Buffers, Keeps
<1> QED BY <1>1, <1>2, <1>3, <1>4

LEMMA BackedIs ==
  ASSUME NEW b \in Buffers
  PROVE  /\ Backed(b) \in Buffers
         /\ PinsOf(Backed(b)) = PinsOf(b) /\ RefsOf(Backed(b)) = RefsOf(b)
         /\ b.madv = "willneed" => (Sound(b) => Sound(Backed(b)))
         /\ Keeps(b, Backed(b))
         /\ Backed(b).pages = TRUE /\ Backed(b).vma = b.vma /\ Backed(b).madv = b.madv
<1> DEFINE c == [b EXCEPT !.pages = TRUE]
<1>1. c \in Buffers /\ c.pages = TRUE /\ c.vma = b.vma /\ c.madv = b.madv
  BY DEF Buffers
<1>2. PinsOf(c) = PinsOf(b) /\ RefsOf(c) = RefsOf(b)
  BY DEF Buffers, PinsOf, RefsOf, One
<1>3. b.madv = "willneed" => (Sound(b) => Sound(c))
  BY DEF Buffers, Sound
<1>4. Keeps(b, c) /\ Keeps(b, b)
  BY DEF Buffers, Keeps
<1>5. (Backed(b) = b /\ b.pages = TRUE) \/ Backed(b) = UpdateLru(c)
  BY DEF Backed, Buffers
<1>6. UpdateLru(c).pages = c.pages /\ UpdateLru(c).vma = c.vma /\ UpdateLru(c).madv = c.madv
  BY <1>1 DEF UpdateLru, Buffers
<1>7. Keeps(b, UpdateLru(c))
  BY <1>4, <1>6 DEF Keeps
<1> QED BY <1>1, <1>2, <1>3, <1>4, <1>5, <1>6, <1>7, UpdateLruIs

LEMMA OpenedIs ==
  ASSUME NEW b \in Buffers, NEW s \in Spaces
  PROVE  /\ Opened(b, s) \in Buffers
         /\ PinsOf(Opened(b, s)) = PinsOf(b) /\ RefsOf(Opened(b, s)) = RefsOf(b)
         /\ Sound(b) => Sound(Opened(b, s))
         /\ Keeps(b, Opened(b, s))
         /\ Opened(b, s).madv = b.madv
<1>1. Opened(b, s) \in Buffers /\ Opened(b, s).madv = b.madv
  BY DEF Opened, Buffers
<1>2. PinsOf(Opened(b, s)) = PinsOf(b) /\ RefsOf(Opened(b, s)) = RefsOf(b)
  BY DEF Opened, Buffers, PinsOf, RefsOf, One
<1>3. Sound(b) => Sound(Opened(b, s))
  BY DEF Opened, Buffers, Sound
<1>4. Keeps(b, Opened(b, s))
  BY DEF Opened, Buffers, Keeps
<1> QED BY <1>1, <1>2, <1>3, <1>4

LEMMA BackedOpenedIs ==
  ASSUME NEW b \in Buffers, NEW s \in Spaces, b.madv = "willneed"
  PROVE  LET c == Backed(Opened(b, s))
         IN /\ c \in Buffers /\ PinsOf(c) = PinsOf(b) /\ RefsOf(c) = RefsOf(b)
            /\ Sound(b) => Sound(c)
            /\ Keeps(b, c) /\ c.pages = TRUE
<1> DEFINE e == Opened(b, s)
<1>1. /\ e \in Buffers /\ PinsOf(e) = PinsOf(b) /\ RefsOf(e) = RefsOf(b)
      /\ Sound(b) => Sound(e)
      /\ Keeps(b, e) /\ e.madv = "willneed"
  BY OpenedIs
<1> HIDE DEF e
<1>2. /\ Backed(e) \in Buffers /\ PinsOf(Backed(e)) = PinsOf(b) /\ RefsOf(Backed(e)) = RefsOf(b)
      /\ Sound(b) => Sound(Backed(e))
      /\ Keeps(e, Backed(e)) /\ Backed(e).pages = TRUE
  BY <1>1, BackedIs
<1>3. Keeps(b, Backed(e))
  BY <1>1, <1>2 DEF Keeps
<1> QED BY <1>2, <1>3 DEF e

LEMMA MappedIs ==
  ASSUME NEW b \in Buffers, NEW s \in Spaces, b.madv = "willneed"
  PROVE  /\ Mapped(b, s) \in Buffers
         /\ PinsOf(Mapped(b, s)) = PinsOf(b) /\ RefsOf(Mapped(b, s)) = RefsOf(b)
         /\ Sound(b) => Sound(Mapped(b, s))
         /\ Keeps(b, Mapped(b, s))
         /\ Mapped(b, s).pages /\ Mapped(b, s).vma[s] = "mapped"
<1> DEFINE c == Backed(Opened(b, s))
<1>1. /\ c \in Buffers /\ PinsOf(c) = PinsOf(b) /\ RefsOf(c) = RefsOf(b)
      /\ Sound(b) => Sound(c)
      /\ Keeps(b, c) /\ c.pages = TRUE
  BY BackedOpenedIs
<1> HIDE DEF c
<1> DEFINE d == [c EXCEPT !.vma[s] = "mapped"]
<1>2. d \in Buffers /\ d.pages = TRUE /\ d.vma[s] = "mapped"
  BY <1>1 DEF Buffers
<1>3. PinsOf(d) = PinsOf(c) /\ RefsOf(d) = RefsOf(c)
  BY <1>1 DEF Buffers, PinsOf, RefsOf, One
<1>4. Sound(c) => Sound(d)
  BY <1>1 DEF Buffers, Sound
<1>5. Keeps(c, d)
  BY <1>1 DEF Buffers, Keeps
<1>6. Mapped(b, s) = d
  BY DEF Mapped, c
<1> HIDE DEF d
<1> QED BY <1>1, <1>2, <1>3, <1>4, <1>5, <1>6 DEF Keeps

LEMMA MapFailureIs ==
  ASSUME NEW b \in Buffers, NEW s \in Spaces, NEW c \in MapFailures(b, s)
  PROVE  /\ c \in Buffers
         /\ PinsOf(c) = PinsOf(b) /\ RefsOf(c) = RefsOf(b)
         /\ Sound(b) => Sound(c)
         /\ Keeps(b, c)
<1>1. c = b \/ c = Opened(b, s) \/ (b.madv = "willneed" /\ c = Backed(Opened(b, s)))
  BY DEF MapFailures
<1>2. Keeps(b, b)
  BY DEF Keeps
<1>3. ASSUME b.madv = "willneed", c = Backed(Opened(b, s))
      PROVE  /\ c \in Buffers
             /\ PinsOf(c) = PinsOf(b) /\ RefsOf(c) = RefsOf(b)
             /\ Sound(b) => Sound(c)
             /\ Keeps(b, c)
  BY <1>3, BackedOpenedIs
<1> QED BY <1>1, <1>2, <1>3, OpenedIs

LEMMA PinnedIs ==
  ASSUME NEW b \in Buffers
  PROVE  /\ Pinned(b) \in Buffers
         /\ PinsOf(Pinned(b)) = PinsOf(b) + 1 /\ RefsOf(Pinned(b)) = RefsOf(b)
         /\ Sound(b) => Sound(Pinned(b))
         /\ Keeps(b, Pinned(b))
         /\ Pinned(b).refs = b.refs
<1> DEFINE c == [b EXCEPT !.pins = @ + 1]
<1>0. c \in Buffers /\ c.refs = b.refs /\ Pinned(b) = [c EXCEPT !.lru = "pinned"]
  BY DEF Pinned, Buffers
<1> HIDE DEF c
<1>1. Pinned(b) \in Buffers /\ Pinned(b).refs = b.refs
  BY <1>0 DEF Buffers
<1>2. PinsOf(Pinned(b)) = PinsOf(b) + 1 /\ RefsOf(Pinned(b)) = RefsOf(b)
  BY DEF Pinned, Buffers, PinsOf, RefsOf, One
<1>3. Sound(b) => Sound(Pinned(b))
  BY DEF Pinned, Buffers, Sound
<1>4. Keeps(b, Pinned(b))
  BY DEF Pinned, Buffers, Keeps
<1> QED BY <1>1, <1>2, <1>3, <1>4

LEMMA UnpinnedIs ==
  ASSUME NEW b \in Buffers
  PROVE  /\ Unpinned(b) \in Buffers
         /\ PinsOf(Unpinned(b)) = PinsOf(b) - 1 /\ RefsOf(Unpinned(b)) = RefsOf(b)
         /\ Sound(b) => Sound(Unpinned(b))
         /\ Keeps(b, Unpinned(b))
         /\ Unpinned(b).refs = b.refs
<1> DEFINE c == [b EXCEPT !.pins = @ - 1]
<1>1. c \in Buffers
  BY DEF Buffers
<1>2. PinsOf(c) = PinsOf(b) - 1 /\ RefsOf(c) = RefsOf(b)
  BY DEF Buffers, PinsOf, RefsOf, One
<1>3. Sound(b) => Sound(c)
  BY DEF Buffers, Sound
<1>4. Keeps(b, c)
  BY DEF Buffers, Keeps
<1>5. Unpinned(b) = UpdateLru(c) /\ UpdateLru(c).refs = b.refs
  BY DEF Unpinned, UpdateLru, Buffers
<1> HIDE DEF c
<1> QED BY <1>1, <1>2, <1>3, <1>4, <1>5, UpdateLruIs DEF Keeps

LEMMA GotIs ==
  ASSUME NEW b \in Buffers
  PROVE  /\ Got(b) \in Buffers
         /\ PinsOf(Got(b)) = PinsOf(b) /\ RefsOf(Got(b)) = RefsOf(b) + 1
         /\ Sound(b) => Sound(Got(b))
         /\ Body(Got(b)) = Body(b)
<1>1. Got(b) \in Buffers
  BY DEF Got, Buffers
<1>2. PinsOf(Got(b)) = PinsOf(b) /\ RefsOf(Got(b)) = RefsOf(b) + 1
  BY DEF Got, Buffers, PinsOf, RefsOf, One
<1>3. Sound(b) => Sound(Got(b))
  BY DEF Got, Buffers, Sound
<1>4. Body(Got(b)) = Body(b)
  BY DEF Got, Buffers, Body
<1> QED BY <1>1, <1>2, <1>3, <1>4

LEMMA BodyKeeps ==
  ASSUME NEW b, NEW c, Body(c) = Body(b)
  PROVE  Keeps(b, c)
  BY DEF Body, Keeps

LEMMA PutIs ==
  ASSUME NEW b \in Buffers, NEW h \in Nat, NEW u \in 0..h, NEW z \in {0, 1},
         PinsOf(b) = u, RefsOf(b) = h + z + 1
  PROVE  /\ Put(b) \in Buffers
         /\ PinsOf(Put(b)) = u /\ RefsOf(Put(b)) = h + z
         /\ Sound(b) => Sound(Put(b))
         /\ h + z > 0 => Body(Put(b)) = Body(b)
<1> DEFINE c == [b EXCEPT !.refs = @ - 1]
<1>1. b.refs >= h + z + 1 /\ b.refs \in Nat
  BY DEF Buffers, RefsOf, One
<1>2. CASE b.refs = 1
  <2>1. h + z = 0 /\ u = 0
    BY <1>1, <1>2
  <2>2. Put(b) = Gone
    BY <1>2 DEF Put
  <2> QED BY <2>1, <2>2, GoneIs
<1>3. CASE b.refs # 1
  <2>1. Put(b) = c
    BY <1>3 DEF Put
  <2>2. c \in Buffers
    BY <1>1 DEF Buffers
  <2>3. PinsOf(c) = PinsOf(b) /\ RefsOf(c) = RefsOf(b) - 1
    BY <1>1 DEF Buffers, PinsOf, RefsOf, One
  <2>4. Sound(b) => Sound(c)
    BY DEF Buffers, Sound
  <2>5. Body(c) = Body(b)
    BY DEF Buffers, Body
  <2> HIDE DEF c
  <2> QED BY <2>1, <2>2, <2>3, <2>4, <2>5
<1> QED BY <1>2, <1>3

-----------------------------------------------------------------------------
(* What the shrinker does to one. *)

LEMMA UnmappedIs ==
  ASSUME NEW b \in Buffers, NEW close \in BOOLEAN
  PROVE  LET c == Unmapped(b, close)
         IN /\ c \in Buffers
            /\ PinsOf(c) = PinsOf(b) /\ RefsOf(c) = RefsOf(b)
            /\ Sound(b) => Sound(c)
            /\ \A s \in Spaces : c.vma[s] # "mapped"
            /\ c.imported = b.imported /\ c.vaddr = b.vaddr
<1> DEFINE v == [s \in Spaces |-> IF close THEN "none"
                                  ELSE IF b.vma[s] = "mapped" THEN "open" ELSE b.vma[s]]
           c == [b EXCEPT !.vma = v]
<1>1. v \in [Spaces -> {"none", "open", "mapped"}] /\ \A s \in Spaces : v[s] # "mapped"
  BY DEF Buffers
<1> HIDE DEF v
<1>2. /\ c \in Buffers /\ c.vma = v /\ c.imported = b.imported /\ c.vaddr = b.vaddr
  BY <1>1 DEF Buffers
<1>3. PinsOf(c) = PinsOf(b) /\ RefsOf(c) = RefsOf(b)
  BY DEF Buffers, PinsOf, RefsOf, One
<1>4. Sound(b) => Sound(c)
  BY <1>1 DEF Buffers, Sound
<1>5. Unmapped(b, close) = c
  BY DEF Unmapped, v, Buffers
<1> HIDE DEF c
<1> QED BY <1>1, <1>2, <1>3, <1>4, <1>5

LEMMA UntouchedIs ==
  ASSUME NEW b \in Buffers
  PROVE  LET c == Untouched(b)
         IN /\ c \in Buffers
            /\ PinsOf(c) = PinsOf(b) /\ RefsOf(c) = RefsOf(b)
            /\ Sound(b) => Sound(c)
            /\ c.mmap # "touched" /\ c.vma = b.vma
            /\ c.imported = b.imported /\ c.vaddr = b.vaddr
<1>1. /\ Untouched(b) \in Buffers /\ Untouched(b).mmap # "touched"
      /\ Untouched(b).vma = b.vma
      /\ Untouched(b).imported = b.imported /\ Untouched(b).vaddr = b.vaddr
  BY DEF Untouched, Buffers
<1>2. PinsOf(Untouched(b)) = PinsOf(b)
  BY DEF Untouched, Buffers, PinsOf
<1>3. RefsOf(Untouched(b)) = RefsOf(b)
  BY DEF Untouched, Buffers, RefsOf, One
<1>4. Sound(b) => Sound(Untouched(b))
  BY DEF Untouched, Buffers, Sound
<1> QED BY <1>1, <1>2, <1>3, <1>4

LEMMA UnbackedIs ==
  ASSUME NEW b \in Buffers, ~b.imported, ~b.vaddr, b.mmap # "touched",
         \A s \in Spaces : b.vma[s] # "mapped"
  PROVE  LET c == Unbacked(b)
         IN /\ c \in Buffers
            /\ PinsOf(c) = PinsOf(b) /\ RefsOf(c) = RefsOf(b)
            /\ Sound(b) => Sound(c)
            /\ ~c.pages /\ ~c.imported /\ ~c.vaddr /\ c.mmap # "touched"
            /\ \A s \in Spaces : c.vma[s] # "mapped"
<1> DEFINE c == [b EXCEPT !.pages = FALSE]
<1>1. c \in Buffers
  BY DEF Buffers
<1>2. PinsOf(c) = PinsOf(b) /\ RefsOf(c) = RefsOf(b)
  BY DEF Buffers, PinsOf, RefsOf, One
<1>3. Sound(c)
  BY DEF Buffers, Sound
<1>4. \/ Unbacked(b) = UpdateLru(c)
      \/ Unbacked(b) = b /\ ~b.pages
  BY DEF Unbacked, Buffers
<1>5. /\ ~UpdateLru(c).pages /\ ~UpdateLru(c).imported /\ ~UpdateLru(c).vaddr
      /\ UpdateLru(c).mmap # "touched" /\ \A s \in Spaces : UpdateLru(c).vma[s] # "mapped"
  BY DEF UpdateLru, Buffers
<1> HIDE DEF c
<1>6. UpdateLru(c) \in Buffers /\ PinsOf(UpdateLru(c)) = PinsOf(b)
      /\ RefsOf(UpdateLru(c)) = RefsOf(b) /\ Sound(UpdateLru(c))
  BY <1>1, <1>2, <1>3, UpdateLruIs
<1> QED BY <1>4, <1>5, <1>6

LEMMA PurgedIs ==
  ASSUME NEW b \in Buffers, ~b.imported, Sound(b)
  PROVE  LET c == Purged(b)
         IN c \in Buffers /\ PinsOf(c) = PinsOf(b) /\ RefsOf(c) = RefsOf(b) /\ Sound(c)
<1> DEFINE u == Unmapped(b, TRUE)
           v == [u EXCEPT !.vaddr = FALSE]
           t == Untouched(v)
           n == Unbacked(t)
           c == [n EXCEPT !.madv = "purged"]
<1>1. /\ u \in Buffers /\ PinsOf(u) = PinsOf(b) /\ RefsOf(u) = RefsOf(b) /\ Sound(u)
      /\ \A s \in Spaces : u.vma[s] # "mapped"
      /\ ~u.imported
  BY UnmappedIs
<1> HIDE DEF u
<1>2. /\ v \in Buffers /\ ~v.imported /\ ~v.vaddr /\ \A s \in Spaces : v.vma[s] # "mapped"
  BY <1>1 DEF Buffers
<1>3. PinsOf(v) = PinsOf(b) /\ RefsOf(v) = RefsOf(b)
  BY <1>1 DEF Buffers, PinsOf, RefsOf, One
<1>4. Sound(v)
  BY <1>1 DEF Buffers, Sound
<1> HIDE DEF v
<1>5. /\ t \in Buffers /\ PinsOf(t) = PinsOf(b) /\ RefsOf(t) = RefsOf(b) /\ Sound(t)
      /\ ~t.imported /\ ~t.vaddr /\ t.mmap # "touched" /\ \A s \in Spaces : t.vma[s] # "mapped"
  BY <1>2, <1>3, <1>4, UntouchedIs
<1> HIDE DEF t
<1>6. /\ n \in Buffers /\ PinsOf(n) = PinsOf(b) /\ RefsOf(n) = RefsOf(b)
      /\ ~n.pages /\ ~n.imported /\ ~n.vaddr /\ n.mmap # "touched"
      /\ \A s \in Spaces : n.vma[s] # "mapped"
  BY <1>5, UnbackedIs
<1> HIDE DEF n
<1>7. c \in Buffers
  BY <1>6 DEF Buffers
<1>8. PinsOf(c) = PinsOf(b) /\ RefsOf(c) = RefsOf(b)
  BY <1>6 DEF Buffers, PinsOf, RefsOf, One
<1>9. Sound(c)
  BY <1>6 DEF Buffers, Sound
<1>10. Purged(b) = c
  BY DEF Purged, c, n, t, v, u
<1> HIDE DEF c
<1> QED BY <1>7, <1>8, <1>9, <1>10

LEMMA EvictedIs ==
  ASSUME NEW b \in Buffers, ~b.imported, ~b.vaddr, Sound(b)
  PROVE  LET c == Evicted(b)
         IN /\ c \in Buffers /\ PinsOf(c) = PinsOf(b) /\ RefsOf(c) = RefsOf(b)
            /\ Sound(c)
<1> DEFINE u == Unmapped(b, FALSE)
           t == Untouched(u)
<1>1. /\ u \in Buffers /\ PinsOf(u) = PinsOf(b) /\ RefsOf(u) = RefsOf(b) /\ Sound(u)
      /\ \A s \in Spaces : u.vma[s] # "mapped"
      /\ ~u.imported /\ ~u.vaddr
  BY UnmappedIs
<1> HIDE DEF u
<1>2. /\ t \in Buffers /\ PinsOf(t) = PinsOf(b) /\ RefsOf(t) = RefsOf(b) /\ Sound(t)
      /\ ~t.imported /\ ~t.vaddr /\ t.mmap # "touched" /\ \A s \in Spaces : t.vma[s] # "mapped"
  BY <1>1, UntouchedIs
<1>3. Evicted(b) = Unbacked(t)
  BY DEF Evicted, t, u
<1> HIDE DEF t
<1> QED BY <1>2, <1>3, UnbackedIs

LEMMA BackIs ==
  ASSUME NEW b \in Buffers, scan.from \in {"willneed", "dontneed"}
  PROVE  /\ Back(b) \in Buffers
         /\ PinsOf(Back(b)) = PinsOf(b) /\ RefsOf(Back(b)) = RefsOf(b)
         /\ Sound(b) => Sound(Back(b))
         /\ Body(Back(b)) = Body(b)
<1>1. Back(b) \in Buffers
  BY DEF Back, Buffers
<1>2. PinsOf(Back(b)) = PinsOf(b) /\ RefsOf(Back(b)) = RefsOf(b)
  BY DEF Back, Buffers, PinsOf, RefsOf, One
<1>3. Sound(b) => Sound(Back(b))
  BY DEF Back, Buffers, Sound
<1>4. Body(Back(b)) = Body(b)
  BY DEF Back, Buffers, Body
<1> QED BY <1>1, <1>2, <1>3, <1>4

-----------------------------------------------------------------------------
(* The inductive invariant. *)

States == {"none", "found", "locked", "mapped", "botched", "pinned", "doomed", "pushed",
           "running", "finished"}
PinStates == {"pinned", "doomed", "pushed"}
MapStates == {"mapped", "pinned", "pushed", "running"}
HoldStates == {"locked", "mapped", "botched", "pinned", "doomed"}
FlightStates == {"pushed", "running"}

Submits == [pc: States, bos: SUBSET Objs, space: Spaces \cup {"none"}]
Scans == [pc: {"idle", "picked", "sure"}, obj: Objs \cup {"none"},
          from: {"none", "willneed", "dontneed"}]

Holding(o) == {j \in Jobs : o \in job[j].bos}

TypeInv ==
    /\ bo \in [Objs -> Buffers]
    /\ job \in [Jobs -> Submits]
    /\ scan \in Scans
    /\ torn \subseteq Jobs \X Objs
    /\ \A j \in Jobs : IF job[j].pc = "none" THEN job[j].bos = {} ELSE job[j].space \in Spaces
    /\ IF scan.pc = "idle" THEN scan.obj = "none"
       ELSE scan.obj \in Objs /\ scan.from \in {"willneed", "dontneed"}

Accounted ==
    \A o \in Objs : /\ PinsOf(bo[o]) = Cardinality(Users(o, PinStates))
                     /\ RefsOf(bo[o]) = Cardinality(Holding(o)) + One(scan.obj = o)

Exclusive ==
    \A j \in Jobs : job[j].pc \in HoldStates =>
        \A o \in job[j].bos :
            /\ \A i \in Jobs \ {j} : job[i].pc \in HoldStates => o \notin job[i].bos
            /\ ~(scan.pc = "sure" /\ scan.obj = o)

SureInv ==
    scan.pc = "sure" =>
        /\ bo[scan.obj].pins <= 0
        /\ \A j \in Jobs : job[j].pc \in FlightStates => scan.obj \notin job[j].bos
        /\ ~bo[scan.obj].imported
        /\ scan.from = "dontneed" => bo[scan.obj].madv = "dontneed"
        /\ scan.from # "dontneed" => ~bo[scan.obj].vaddr

AllSound == \A o \in Objs : Sound(bo[o])

MapInv ==
    \A j \in Jobs : job[j].pc \in MapStates =>
        \A o \in job[j].bos :
            /\ bo[o].pages
            /\ bo[o].vma[job[j].space] = "mapped" \/ <<j, o>> \in torn

IInv == TypeInv /\ Accounted /\ Exclusive /\ SureInv /\ AllSound /\ MapInv

LEMMA Counts ==
  ASSUME TypeInv, NEW o \in Objs
  PROVE  /\ Cardinality(Holding(o)) \in Nat
         /\ Cardinality(Users(o, PinStates)) \in 0..Cardinality(Holding(o))
         /\ \A j \in Jobs : o \in job[j].bos => Cardinality(Holding(o)) > 0
<1>1. IsFiniteSet(Holding(o))
  BY GemConstants, FS_Subset DEF Holding
<1>2. Users(o, PinStates) \subseteq Holding(o)
  BY DEF Users, Holding
<1>3. Cardinality(Holding(o)) \in Nat
  BY <1>1, FS_CardinalityType
<1>4. IsFiniteSet(Users(o, PinStates)) /\ Cardinality(Users(o, PinStates)) <= Cardinality(Holding(o))
  BY <1>1, <1>2, FS_Subset
<1>5. Cardinality(Users(o, PinStates)) \in Nat
  BY <1>4, FS_CardinalityType
<1>6. ASSUME NEW j \in Jobs, o \in job[j].bos PROVE Cardinality(Holding(o)) # 0
  BY <1>1, <1>6, FS_EmptySet DEF Holding
<1> QED BY <1>3, <1>4, <1>5, <1>6

(* A set of submits, of which one may come or go. *)
LEMMA CountsChange ==
  ASSUME NEW A \in SUBSET Jobs, NEW B \in SUBSET Jobs, NEW j \in Jobs, A \ {j} = B \ {j}
  PROVE  Cardinality(B) = Cardinality(A) - One(j \in A) + One(j \in B)
<1>1. IsFiniteSet(A) /\ IsFiniteSet(B)
  BY GemConstants, FS_Subset
<1> DEFINE C == A \ {j}
<1>2. IsFiniteSet(C) /\ Cardinality(C) \in Nat /\ j \notin C
  BY <1>1, FS_RemoveElement, FS_CardinalityType
<1>3. Cardinality(C \cup {j}) = Cardinality(C) + 1
  BY <1>2, FS_AddElement
<1>4. A = (IF j \in A THEN C \cup {j} ELSE C)
  OBVIOUS
<1>5. B = (IF j \in B THEN C \cup {j} ELSE C)
  OBVIOUS
<1> HIDE DEF C
<1>6. Cardinality(A) = Cardinality(C) + One(j \in A)
  <2>1. CASE j \in A
    BY <2>1, <1>2, <1>3, <1>4 DEF One
  <2>2. CASE j \notin A
    BY <2>2, <1>2, <1>4 DEF One
  <2> QED BY <2>1, <2>2
<1>7. Cardinality(B) = Cardinality(C) + One(j \in B)
  <2>1. CASE j \in B
    BY <2>1, <1>2, <1>3, <1>5 DEF One
  <2>2. CASE j \notin B
    BY <2>2, <1>2, <1>5 DEF One
  <2> QED BY <2>1, <2>2
<1> QED
  <2>1. One(j \in A) \in Nat /\ One(j \in B) \in Nat
    BY DEF One
  <2> QED BY <2>1, <1>2, <1>6, <1>7

LEMMA InitHolds == Init => IInv
<1> SUFFICES ASSUME Init PROVE IInv
  OBVIOUS
<1> USE DEF Init
<1>1. TypeInv
  <2>1. NoJob \in Submits /\ NoScan \in Scans /\ NoJob.pc = "none" /\ NoJob.bos = {}
        /\ NoScan.pc = "idle" /\ NoScan.obj = "none"
    BY DEF NoJob, NoScan, Submits, Scans, States
  <2> QED BY <2>1, GoneIs DEF TypeInv
<1>2. Accounted
  <2> SUFFICES ASSUME NEW o \in Objs
               PROVE  /\ PinsOf(bo[o]) = Cardinality(Users(o, PinStates))
                      /\ RefsOf(bo[o]) = Cardinality(Holding(o)) + One(scan.obj = o)
    BY DEF Accounted
  <2>1. Users(o, PinStates) = {} /\ Holding(o) = {}
    BY DEF Users, Holding, NoJob, PinStates
  <2>2. One(scan.obj = o) = 0
    BY GemConstants DEF NoScan, One
  <2> QED BY <2>1, <2>2, GoneIs, FS_EmptySet
<1>3. Exclusive /\ SureInv /\ MapInv
  BY DEF Exclusive, SureInv, MapInv, NoJob, NoScan, HoldStates, MapStates
<1>4. AllSound
  BY GoneIs DEF AllSound
<1> QED BY <1>1, <1>2, <1>3, <1>4 DEF IInv

(* A step on one object, and the shrinker's view of it. *)
LEMMA ObjectStep ==
  ASSUME IInv, NEW o \in Objs, NEW c \in Buffers,
         bo' = [bo EXCEPT ![o] = c], job' = job,
         scan' \in Scans,
         IF scan'.pc = "idle" THEN scan'.obj = "none"
         ELSE scan'.obj \in Objs /\ scan'.from \in {"willneed", "dontneed"},
         torn' \subseteq Jobs \X Objs, torn \subseteq torn',
         Sound(c),
         PinsOf(c) = PinsOf(bo[o]),
         RefsOf(c) = Cardinality(Holding(o)) + One(scan'.obj = o),
         \A p \in Objs \ {o} : (scan'.obj = p) = (scan.obj = p),
         \A j \in Jobs : job[j].pc \in MapStates /\ o \in job[j].bos =>
            /\ c.pages
            /\ c.vma[job[j].space] = "mapped" \/ <<j, o>> \in torn',
         \/ scan'.pc # "sure"
         \/ scan' = scan /\ (scan.obj = o => Body(c) = Body(bo[o]))
  PROVE  IInv'
<1> USE DEF IInv
<1>0. \A p \in Objs : bo'[p] = IF p = o THEN c ELSE bo[p]
  BY DEF TypeInv
<1>1. TypeInv'
  BY DEF TypeInv
<1>2. Accounted'
  <2> SUFFICES ASSUME NEW p \in Objs
               PROVE  /\ (PinsOf(bo[p]))' = Cardinality(Users(p, PinStates)')
                      /\ (RefsOf(bo[p]))' = Cardinality(Holding(p)') + One(scan'.obj = p)
    BY DEF Accounted
  <2>0. /\ (PinsOf(bo[p]))' = PinsOf(bo'[p]) /\ (RefsOf(bo[p]))' = RefsOf(bo'[p])
        /\ Users(p, PinStates)' = Users(p, PinStates) /\ Holding(p)' = Holding(p)
    BY DEF PinsOf, RefsOf, Users, Holding
  <2>1. CASE p = o
    BY <2>0, <2>1, <1>0 DEF Accounted
  <2>2. CASE p # o
    <3>1. One(scan'.obj = p) = One(scan.obj = p)
      BY <2>2 DEF One
    <3> QED BY <2>0, <2>2, <3>1, <1>0 DEF Accounted
  <2> QED BY <2>1, <2>2
<1>3. Exclusive'
  BY DEF Exclusive
<1>4. SureInv'
  <2> SUFFICES ASSUME scan'.pc = "sure" PROVE SureInv'
    BY DEF SureInv
  <2>1. scan' = scan /\ (scan.obj = o => Body(c) = Body(bo[o]))
    OBVIOUS
  <2>2. scan.obj \in Objs
    BY <2>1 DEF TypeInv
  <2>3. Body(bo'[scan.obj]) = Body(bo[scan.obj])
    BY <2>1, <2>2, <1>0
  <2> QED BY <2>1, <2>3 DEF SureInv, Body
<1>5. AllSound'
  BY <1>0 DEF AllSound, Sound
<1>6. MapInv'
  BY <1>0 DEF MapInv, TypeInv, Submits
<1> QED BY <1>1, <1>2, <1>3, <1>4, <1>5, <1>6

(* A step of one submit, on its objects. *)
LEMMA SubmitStep ==
  ASSUME IInv, NEW j \in Jobs, NEW r \in Submits,
         job' = [job EXCEPT ![j] = r], scan' = scan,
         IF r.pc = "none" THEN r.bos = {} ELSE r.space \in Spaces,
         bo' \in [Objs -> Buffers],
         torn' \subseteq torn, \A t \in torn : t[1] # j => t \in torn',
         \A o \in Objs : Sound(bo'[o]),
         \A o \in Objs :
            PinsOf(bo'[o]) = PinsOf(bo[o]) - One(o \in job[j].bos /\ job[j].pc \in PinStates)
                                           + One(o \in r.bos /\ r.pc \in PinStates),
         \A o \in Objs :
            RefsOf(bo'[o]) = RefsOf(bo[o]) - One(o \in job[j].bos) + One(o \in r.bos),
         \A i \in Jobs \ {j} : \A o \in job[i].bos : Keeps(bo[o], bo'[o]),
         scan.pc = "sure" => /\ Body(bo'[scan.obj]) = Body(bo[scan.obj])
                             /\ r.pc \in FlightStates \cup HoldStates => scan.obj \notin r.bos,
         r.pc \in HoldStates => \A o \in r.bos : \A i \in Jobs \ {j} :
                                  job[i].pc \in HoldStates => o \notin job[i].bos,
         r.pc \in MapStates => \A o \in r.bos :
            /\ bo'[o].pages
            /\ bo'[o].vma[r.space] = "mapped" \/ <<j, o>> \in torn'
  PROVE  IInv'
<1> USE DEF IInv
<1>0. \A i \in Jobs : job'[i] = IF i = j THEN r ELSE job[i]
  BY DEF TypeInv
<1>1. TypeInv'
  BY DEF TypeInv
<1>2. Accounted'
  <2> SUFFICES ASSUME NEW o \in Objs
               PROVE  /\ (PinsOf(bo[o]))' = Cardinality(Users(o, PinStates)')
                      /\ (RefsOf(bo[o]))' = Cardinality(Holding(o)') + One(scan'.obj = o)
    BY DEF Accounted
  <2>0. (PinsOf(bo[o]))' = PinsOf(bo'[o]) /\ (RefsOf(bo[o]))' = RefsOf(bo'[o])
    BY DEF PinsOf, RefsOf
  <2>1. Cardinality(Users(o, PinStates)')
          = Cardinality(Users(o, PinStates)) - One(j \in Users(o, PinStates))
            + One(j \in Users(o, PinStates)')
    <3>1. Users(o, PinStates)' \ {j} = Users(o, PinStates) \ {j}
      BY <1>0 DEF Users
    <3> QED BY <3>1, CountsChange DEF Users
  <2>2. Cardinality(Holding(o)')
          = Cardinality(Holding(o)) - One(j \in Holding(o)) + One(j \in Holding(o)')
    <3>1. Holding(o)' \ {j} = Holding(o) \ {j}
      BY <1>0 DEF Holding
    <3> QED BY <3>1, CountsChange DEF Holding
  <2>3. /\ One(j \in Users(o, PinStates)) = One(o \in job[j].bos /\ job[j].pc \in PinStates)
        /\ One(j \in Users(o, PinStates)') = One(o \in r.bos /\ r.pc \in PinStates)
    BY <1>0 DEF Users, One
  <2>4. /\ One(j \in Holding(o)) = One(o \in job[j].bos)
        /\ One(j \in Holding(o)') = One(o \in r.bos)
    BY <1>0 DEF Holding, One
  <2>5. Cardinality(Users(o, PinStates)) \in Nat /\ Cardinality(Holding(o)) \in Nat
    BY Counts
  <2>6. \A b : One(b) \in Nat
    BY DEF One
  <2>7. PinsOf(bo'[o]) = Cardinality(Users(o, PinStates)')
    BY <2>1, <2>3 DEF Accounted
  <2>8. RefsOf(bo'[o]) = Cardinality(Holding(o)') + One(scan.obj = o)
    BY <2>2, <2>4, <2>5, <2>6 DEF Accounted
  <2> QED BY <2>0, <2>7, <2>8
<1>3. Exclusive'
  BY <1>0 DEF Exclusive
<1>4. SureInv'
  <2> SUFFICES ASSUME scan.pc = "sure" PROVE SureInv'
    BY DEF SureInv
  <2> QED BY <1>0 DEF SureInv, Body
<1>5. AllSound'
  BY DEF AllSound, Sound
<1>6. MapInv'
  <2> SUFFICES ASSUME NEW i \in Jobs, job'[i].pc \in MapStates, NEW o \in job'[i].bos
               PROVE  /\ bo'[o].pages
                      /\ bo'[o].vma[job'[i].space] = "mapped" \/ <<i, o>> \in torn'
    BY DEF MapInv
  <2>1. CASE i = j
    BY <2>1, <1>0
  <2>2. CASE i # j
    <3>1. job'[i] = job[i] /\ o \in Objs /\ job[i].space \in Spaces
      BY <2>2, <1>0 DEF TypeInv, Submits, MapStates
    <3>2. bo[o].pages /\ (bo[o].vma[job[i].space] = "mapped" \/ <<i, o>> \in torn)
      BY <3>1 DEF MapInv
    <3>3. <<i, o>> \in torn => <<i, o>> \in torn'
      BY <2>2
    <3> QED BY <2>2, <3>1, <3>2, <3>3 DEF Keeps
  <2> QED BY <2>1, <2>2
<1> QED BY <1>1, <1>2, <1>3, <1>4, <1>5, <1>6

-----------------------------------------------------------------------------
(* The steps on one object. *)

LEMMA OnOneObject ==
  ASSUME IInv, NEW o \in Objs, NEW c \in Buffers,
         Becomes(o, c), UNCHANGED <<job, scan, torn>>,
         Sound(c), PinsOf(c) = PinsOf(bo[o]), RefsOf(c) = RefsOf(bo[o]),
         Keeps(bo[o], c), ~Locked(o) \/ Body(c) = Body(bo[o])
  PROVE  IInv'
<1> USE DEF IInv
<1>1. /\ scan' \in Scans /\ torn' \subseteq Jobs \X Objs /\ torn \subseteq torn'
      /\ IF scan'.pc = "idle" THEN scan'.obj = "none"
         ELSE scan'.obj \in Objs /\ scan'.from \in {"willneed", "dontneed"}
  BY DEF TypeInv
<1>2. RefsOf(c) = Cardinality(Holding(o)) + One(scan'.obj = o)
  BY DEF Accounted
<1>3. \A j \in Jobs : job[j].pc \in MapStates /\ o \in job[j].bos =>
         c.pages /\ (c.vma[job[j].space] = "mapped" \/ <<j, o>> \in torn')
  <2> SUFFICES ASSUME NEW j \in Jobs, job[j].pc \in MapStates, o \in job[j].bos
               PROVE  c.pages /\ (c.vma[job[j].space] = "mapped" \/ <<j, o>> \in torn')
    OBVIOUS
  <2>1. job[j].space \in Spaces
    BY DEF TypeInv, MapStates
  <2>2. bo[o].pages /\ (bo[o].vma[job[j].space] = "mapped" \/ <<j, o>> \in torn)
    BY DEF MapInv
  <2> QED BY <2>1, <2>2 DEF Keeps
<1>4. scan'.pc # "sure" \/ (scan' = scan /\ (scan.obj = o => Body(c) = Body(bo[o])))
  BY DEF Locked
<1> QED BY <1>1, <1>2, <1>3, <1>4, ObjectStep DEF Becomes

LEMMA PutOneObject ==
  ASSUME IInv, NEW o \in Objs, NEW b \in Buffers,
         Becomes(o, Put(b)), UNCHANGED <<job, scan, torn>>,
         Sound(b), PinsOf(b) = PinsOf(bo[o]), RefsOf(b) = RefsOf(bo[o]) + 1,
         Keeps(bo[o], b), ~Locked(o) \/ Body(b) = Body(bo[o])
  PROVE  IInv'
<1> USE DEF IInv
<1> DEFINE h == Cardinality(Holding(o))
           u == Cardinality(Users(o, PinStates))
           z == One(scan.obj = o)
           c == Put(b)
<1>1. h \in Nat /\ u \in 0..h /\ z \in {0, 1} /\ (scan.obj = o => z = 1)
      /\ \A j \in Jobs : o \in job[j].bos => h > 0
  BY Counts DEF One
<1>2. PinsOf(b) = u /\ RefsOf(b) = h + z + 1
  BY DEF Accounted
<1> HIDE DEF h, u, z
<1>3. /\ c \in Buffers /\ PinsOf(c) = u /\ RefsOf(c) = h + z /\ Sound(c)
      /\ h + z > 0 => Body(c) = Body(b)
  BY <1>1, <1>2, PutIs
<1> HIDE DEF c
<1>4. /\ scan' \in Scans /\ torn' \subseteq Jobs \X Objs /\ torn \subseteq torn'
      /\ IF scan'.pc = "idle" THEN scan'.obj = "none"
         ELSE scan'.obj \in Objs /\ scan'.from \in {"willneed", "dontneed"}
  BY DEF TypeInv
<1>5. RefsOf(c) = Cardinality(Holding(o)) + One(scan'.obj = o)
  BY <1>3 DEF h, z
<1>6. \A j \in Jobs : job[j].pc \in MapStates /\ o \in job[j].bos =>
         c.pages /\ (c.vma[job[j].space] = "mapped" \/ <<j, o>> \in torn')
  <2> SUFFICES ASSUME NEW j \in Jobs, job[j].pc \in MapStates, o \in job[j].bos
               PROVE  c.pages /\ (c.vma[job[j].space] = "mapped" \/ <<j, o>> \in torn')
    OBVIOUS
  <2>1. job[j].space \in Spaces
    BY DEF TypeInv, MapStates
  <2>2. bo[o].pages /\ (bo[o].vma[job[j].space] = "mapped" \/ <<j, o>> \in torn)
    BY DEF MapInv
  <2>3. Body(c) = Body(b)
    BY <1>1, <1>3
  <2>4. Keeps(b, c)
    BY <2>3, BodyKeeps
  <2> QED BY <2>1, <2>2, <2>4 DEF Keeps
<1>7. scan'.pc # "sure" \/ (scan' = scan /\ (scan.obj = o => Body(c) = Body(bo[o])))
  <2> SUFFICES ASSUME scan.pc = "sure", scan.obj = o PROVE Body(c) = Body(bo[o])
    OBVIOUS
  <2>1. Body(b) = Body(bo[o])
    BY DEF Locked
  <2> QED BY <2>1, <1>1, <1>3
<1>8. PinsOf(c) = PinsOf(bo[o])
  BY <1>2, <1>3
<1> QED BY <1>3, <1>4, <1>5, <1>6, <1>7, <1>8, ObjectStep DEF Becomes, c

LEMMA CreateKeeps == ASSUME IInv, NEW o \in Objs, Create(o) PROVE IInv'
<1> USE DEF IInv
<1>1. PICK c \in {New, Imported} : Becomes(o, c)
  BY DEF Create
<1>2. c \in Buffers /\ Sound(c) /\ PinsOf(c) = 0 /\ RefsOf(c) = 0
  BY NewIs, ImportedIs
<1> DEFINE h == Cardinality(Holding(o))
           u == Cardinality(Users(o, PinStates))
           z == One(scan.obj = o)
<1>3. h \in Nat /\ u \in 0..h /\ z \in {0, 1} /\ (scan.obj = o => z = 1)
      /\ \A j \in Jobs : o \in job[j].bos => h > 0
  BY Counts DEF One
<1>4. PinsOf(bo[o]) = u /\ RefsOf(bo[o]) = h + z
  BY DEF Accounted
<1>5. bo[o] \in Buffers /\ bo[o].refs = 0
  BY DEF TypeInv, Create
<1> HIDE DEF h, u, z
<1>6. h + z <= 0
  BY <1>3, <1>4, <1>5 DEF RefsOf, Buffers, One
<1>7. h = 0 /\ z = 0 /\ u = 0
  BY <1>3, <1>6
<1>8. scan.obj # o /\ \A j \in Jobs : o \notin job[j].bos
  BY <1>3, <1>7
<1>9. /\ scan' = scan /\ job' = job /\ torn' = torn
  BY DEF Create
<1>10. /\ scan' \in Scans /\ torn' \subseteq Jobs \X Objs /\ torn \subseteq torn'
      /\ IF scan'.pc = "idle" THEN scan'.obj = "none"
         ELSE scan'.obj \in Objs /\ scan'.from \in {"willneed", "dontneed"}
  BY <1>9 DEF TypeInv
<1>11. RefsOf(c) = Cardinality(Holding(o)) + One(scan'.obj = o) /\ PinsOf(c) = PinsOf(bo[o])
  BY <1>2, <1>4, <1>7, <1>9 DEF h, z
<1> QED BY <1>1, <1>2, <1>8, <1>9, <1>10, <1>11, ObjectStep DEF Becomes

LEMMA CloseHandleKeeps == ASSUME IInv, NEW o \in Objs, CloseHandle(o) PROVE IInv'
<1> DEFINE b == [bo[o] EXCEPT !.handle = FALSE]
<1>1. bo[o] \in Buffers /\ Sound(bo[o]) /\ bo[o].handle
  BY DEF IInv, TypeInv, AllSound, CloseHandle
<1>2. b \in Buffers
  BY <1>1 DEF Buffers
<1>3. Sound(b) /\ Body(b) = Body(bo[o])
  BY <1>1 DEF Buffers, Sound, Body
<1>4. PinsOf(b) = PinsOf(bo[o]) /\ RefsOf(b) = RefsOf(bo[o]) + 1
  BY <1>1 DEF Buffers, PinsOf, RefsOf, One
<1>5. Keeps(bo[o], b)
  BY <1>3, BodyKeeps
<1>6. Becomes(o, Put(b)) /\ UNCHANGED <<job, scan, torn>>
  BY DEF CloseHandle
<1> HIDE DEF b
<1> QED BY <1>2, <1>3, <1>4, <1>5, <1>6, PutOneObject

LEMMA MmapKeeps == ASSUME IInv, NEW o \in Objs, Mmap(o) PROVE IInv'
<1> DEFINE b == [bo[o] EXCEPT !.mmap = "open"]
<1>1. bo[o] \in Buffers /\ Sound(bo[o]) /\ bo[o].mmap = "none"
  BY DEF IInv, TypeInv, AllSound, Mmap
<1>2. b \in Buffers
  BY <1>1 DEF Buffers
<1>3. Sound(b) /\ Body(b) = Body(bo[o])
  BY <1>1 DEF Buffers, Sound, Body
<1>4. PinsOf(b) = PinsOf(bo[o]) /\ RefsOf(b) = RefsOf(bo[o]) - 1
  BY <1>1 DEF Buffers, PinsOf, RefsOf, One
<1>5. Becomes(o, Got(b)) /\ UNCHANGED <<job, scan, torn>>
  BY DEF Mmap
<1> HIDE DEF b
<1>6. /\ Got(b) \in Buffers /\ PinsOf(Got(b)) = PinsOf(bo[o]) /\ Sound(Got(b))
      /\ Body(Got(b)) = Body(bo[o])
  BY <1>2, <1>3, <1>4, GotIs
<1>7. RefsOf(bo[o]) \in Int
  BY <1>1 DEF RefsOf, Buffers, One
<1>8. RefsOf(Got(b)) = RefsOf(bo[o])
  BY <1>2, <1>4, <1>7, GotIs
<1> QED BY <1>5, <1>6, <1>8, BodyKeeps, OnOneObject

LEMMA MunmapKeeps == ASSUME IInv, NEW o \in Objs, Munmap(o) PROVE IInv'
<1> DEFINE b == [bo[o] EXCEPT !.mmap = "none"]
<1>1. bo[o] \in Buffers /\ Sound(bo[o]) /\ bo[o].mmap # "none"
  BY DEF IInv, TypeInv, AllSound, Munmap
<1>2. b \in Buffers
  BY <1>1 DEF Buffers
<1>3. Sound(b) /\ Body(b) = Body(bo[o])
  BY <1>1 DEF Buffers, Sound, Body
<1>4. PinsOf(b) = PinsOf(bo[o]) /\ RefsOf(b) = RefsOf(bo[o]) + 1
  BY <1>1 DEF Buffers, PinsOf, RefsOf, One
<1>5. Becomes(o, Put(b)) /\ UNCHANGED <<job, scan, torn>>
  BY DEF Munmap
<1> HIDE DEF b
<1> QED BY <1>2, <1>3, <1>4, <1>5, BodyKeeps, PutOneObject

LEMMA FaultKeeps == ASSUME IInv, NEW o \in Objs, Fault(o) PROVE IInv'
<1> DEFINE b == Backed(bo[o])
           c == [b EXCEPT !.mmap = "touched"]
<1>1. bo[o] \in Buffers /\ Sound(bo[o]) /\ bo[o].mmap # "none" /\ bo[o].madv = "willneed"
  BY DEF IInv, TypeInv, AllSound, Fault
<1>2. b \in Buffers /\ PinsOf(b) = PinsOf(bo[o]) /\ RefsOf(b) = RefsOf(bo[o]) /\ Sound(b)
      /\ Keeps(bo[o], b) /\ b.pages /\ b.madv = "willneed"
  BY <1>1, BackedIs
<1>3. b.mmap # "none"
  BY <1>1 DEF Backed, UpdateLru, Buffers
<1>4. Becomes(o, c) /\ UNCHANGED <<job, scan, torn>> /\ ~Locked(o)
  BY DEF Fault
<1> HIDE DEF b
<1>5. c \in Buffers
  BY <1>2 DEF Buffers
<1>6. Sound(c)
  BY <1>2 DEF Buffers, Sound
<1>7. PinsOf(c) = PinsOf(b) /\ RefsOf(c) = RefsOf(b)
  BY <1>2, <1>3 DEF Buffers, PinsOf, RefsOf, One
<1>8. Keeps(bo[o], c)
  BY <1>2 DEF Buffers, Keeps
<1> HIDE DEF c
<1> QED BY <1>2, <1>4, <1>5, <1>6, <1>7, <1>8, OnOneObject

LEMMA MadviseKeeps ==
  ASSUME IInv, NEW o \in Objs, NEW madv \in {"willneed", "dontneed"}, Madvise(o, madv)
  PROVE  IInv'
<1> DEFINE b == [bo[o] EXCEPT !.madv = IF @ = "purged" THEN @ ELSE madv]
           c == UpdateLru(b)
<1>1. bo[o] \in Buffers /\ Sound(bo[o])
  BY DEF IInv, TypeInv, AllSound
<1>2. Becomes(o, c) /\ UNCHANGED <<job, scan, torn>> /\ ~Locked(o)
  BY DEF Madvise
<1>3. b \in Buffers
  BY <1>1 DEF Buffers
<1>4. Sound(b)
  BY <1>1 DEF Buffers, Sound
<1>5. PinsOf(b) = PinsOf(bo[o]) /\ RefsOf(b) = RefsOf(bo[o])
  BY <1>1 DEF Buffers, PinsOf, RefsOf, One
<1>6. Keeps(bo[o], b)
  BY <1>1 DEF Buffers, Keeps
<1> HIDE DEF b
<1>7. c \in Buffers /\ Sound(c) /\ PinsOf(c) = PinsOf(bo[o]) /\ RefsOf(c) = RefsOf(bo[o])
      /\ Keeps(b, c)
  BY <1>3, <1>4, <1>5, UpdateLruIs
<1>8. Keeps(bo[o], c)
  BY <1>6, <1>7 DEF Keeps
<1> HIDE DEF c
<1> QED BY <1>2, <1>7, <1>8, OnOneObject

LEMMA GetIovaKeeps ==
  ASSUME IInv, NEW o \in Objs, NEW s \in Spaces, GetIova(o, s) PROVE IInv'
<1>1. bo[o] \in Buffers /\ Sound(bo[o])
  BY DEF IInv, TypeInv, AllSound
<1>2. Becomes(o, Opened(bo[o], s)) /\ UNCHANGED <<job, scan, torn>> /\ ~Locked(o)
  BY DEF GetIova
<1> QED BY <1>1, <1>2, OpenedIs, OnOneObject

LEMMA ClearIovaKeeps ==
  ASSUME IInv, NEW o \in Objs, NEW s \in Spaces, ClearIova(o, s) PROVE IInv'
<1> DEFINE c == [bo[o] EXCEPT !.vma[s] = "none"]
<1>1. bo[o] \in Buffers /\ Sound(bo[o])
  BY DEF IInv, TypeInv, AllSound
<1>2. bo' = [bo EXCEPT ![o] = c] /\ job' = job /\ scan' = scan /\ ~Locked(o)
  BY DEF ClearIova, Becomes
<1>3. torn' = torn \cup {<<j, o>> : j \in {i \in Jobs : InFlight(i) /\ o \in job[i].bos
                                                         /\ job[i].space = s}}
  BY DEF ClearIova
<1>4. c \in Buffers /\ c.pages = bo[o].pages
      /\ \A t \in Spaces : c.vma[t] = IF t = s THEN "none" ELSE bo[o].vma[t]
  BY <1>1 DEF Buffers
<1>5. Sound(c)
  BY <1>1 DEF Buffers, Sound
<1>6. PinsOf(c) = PinsOf(bo[o]) /\ RefsOf(c) = RefsOf(bo[o])
  BY <1>1 DEF Buffers, PinsOf, RefsOf, One
<1> HIDE DEF c
<1>7. torn' \subseteq Jobs \X Objs /\ torn \subseteq torn'
  BY <1>3 DEF IInv, TypeInv
<1>8. scan' \in Scans
      /\ IF scan'.pc = "idle" THEN scan'.obj = "none"
         ELSE scan'.obj \in Objs /\ scan'.from \in {"willneed", "dontneed"}
  BY <1>2 DEF IInv, TypeInv
<1>9. RefsOf(c) = Cardinality(Holding(o)) + One(scan'.obj = o)
  BY <1>2, <1>6 DEF IInv, Accounted
<1>10. \A j \in Jobs : job[j].pc \in MapStates /\ o \in job[j].bos =>
         c.pages /\ (c.vma[job[j].space] = "mapped" \/ <<j, o>> \in torn')
  <2> SUFFICES ASSUME NEW j \in Jobs, job[j].pc \in MapStates, o \in job[j].bos
               PROVE  c.pages /\ (c.vma[job[j].space] = "mapped" \/ <<j, o>> \in torn')
    OBVIOUS
  <2>1. job[j].space \in Spaces
    BY DEF IInv, TypeInv, MapStates
  <2>2. bo[o].pages /\ (bo[o].vma[job[j].space] = "mapped" \/ <<j, o>> \in torn)
    BY DEF IInv, MapInv
  <2>3. InFlight(j)
    BY <1>2 DEF Locked, Held, InFlight, MapStates
  <2> QED BY <1>3, <1>4, <2>1, <2>2, <2>3
<1>11. scan'.pc # "sure" \/ (scan' = scan /\ (scan.obj = o => Body(c) = Body(bo[o])))
  BY <1>2 DEF Locked
<1> QED BY <1>2, <1>4, <1>5, <1>6, <1>7, <1>8, <1>9, <1>10, <1>11, ObjectStep

(* get_pages and a pin, as prime_pin and get_vaddr take them. *)
LEMMA PinnedBackedIs ==
  ASSUME NEW b \in Buffers, Sound(b), b.madv = "willneed"
  PROVE  LET c == Pinned(Backed(b))
         IN /\ c \in Buffers /\ Sound(c) /\ PinsOf(c) = PinsOf(b) + 1 /\ RefsOf(c) = RefsOf(b)
            /\ Keeps(b, c) /\ c.pages
<1> DEFINE e == Backed(b)
<1>1. e \in Buffers /\ Sound(e) /\ PinsOf(e) = PinsOf(b) /\ RefsOf(e) = RefsOf(b)
      /\ Keeps(b, e) /\ e.pages
  BY BackedIs
<1> HIDE DEF e
<1>2. /\ Pinned(e) \in Buffers /\ Sound(Pinned(e)) /\ PinsOf(Pinned(e)) = PinsOf(b) + 1
      /\ RefsOf(Pinned(e)) = RefsOf(b) /\ Keeps(e, Pinned(e))
  BY <1>1, PinnedIs
<1>3. Keeps(b, Pinned(e)) /\ Pinned(e).pages
  BY <1>1, <1>2 DEF Keeps
<1> QED BY <1>2, <1>3 DEF e

LEMMA AttachKeeps == ASSUME IInv, NEW o \in Objs, Attach(o) PROVE IInv'
<1> DEFINE b == Pinned(Backed(bo[o]))
           c == [b EXCEPT !.attached = @ + 1]
<1>1. bo[o] \in Buffers /\ Sound(bo[o]) /\ bo[o].madv = "willneed"
  BY DEF IInv, TypeInv, AllSound, Attach
<1>2. /\ b \in Buffers /\ Sound(b) /\ PinsOf(b) = PinsOf(bo[o]) + 1
      /\ RefsOf(b) = RefsOf(bo[o]) /\ Keeps(bo[o], b)
  BY <1>1, PinnedBackedIs
<1>3. Becomes(o, Got(c)) /\ UNCHANGED <<job, scan, torn>> /\ ~Locked(o)
  BY DEF Attach
<1> HIDE DEF b
<1>4. c \in Buffers
  BY <1>2 DEF Buffers
<1>5. Sound(c) /\ Body(c) = Body(b)
  BY <1>2 DEF Buffers, Sound, Body
<1>6. PinsOf(c) = PinsOf(b) - 1 /\ RefsOf(c) = RefsOf(b) - 1
  BY <1>2 DEF Buffers, PinsOf, RefsOf, One
<1>7. RefsOf(b) \in Int /\ PinsOf(bo[o]) \in Int
  BY <1>1, <1>2 DEF RefsOf, PinsOf, Buffers, One
<1> HIDE DEF c
<1>8. /\ Got(c) \in Buffers /\ Sound(Got(c)) /\ PinsOf(Got(c)) = PinsOf(bo[o])
      /\ RefsOf(Got(c)) = RefsOf(bo[o]) /\ Body(Got(c)) = Body(b)
  BY <1>2, <1>4, <1>5, <1>6, <1>7, GotIs
<1>9. Keeps(bo[o], Got(c))
  BY <1>2, <1>8 DEF Keeps, Body
<1> QED BY <1>3, <1>8, <1>9, OnOneObject

LEMMA DetachKeeps == ASSUME IInv, NEW o \in Objs, Detach(o) PROVE IInv'
<1> DEFINE b == Unpinned(bo[o])
           c == [b EXCEPT !.attached = @ - 1]
<1>1. bo[o] \in Buffers /\ Sound(bo[o]) /\ bo[o].attached > 0
  BY DEF IInv, TypeInv, AllSound, Detach
<1>2. /\ b \in Buffers /\ Sound(b) /\ PinsOf(b) = PinsOf(bo[o]) - 1
      /\ RefsOf(b) = RefsOf(bo[o]) /\ Keeps(bo[o], b)
  BY <1>1, UnpinnedIs
<1>3. b.attached > 0
  BY <1>1 DEF Unpinned, UpdateLru, Buffers
<1>4. Becomes(o, Put(c)) /\ UNCHANGED <<job, scan, torn>> /\ ~Locked(o)
  BY DEF Detach
<1> HIDE DEF b
<1>5. c \in Buffers
  BY <1>2, <1>3 DEF Buffers
<1>6. Sound(c) /\ Body(c) = Body(b)
  BY <1>2 DEF Buffers, Sound, Body
<1>7. PinsOf(c) = PinsOf(b) + 1 /\ RefsOf(c) = RefsOf(b) + 1
  BY <1>2 DEF Buffers, PinsOf, RefsOf, One
<1>8. PinsOf(bo[o]) \in Int
  BY <1>1 DEF PinsOf, Buffers
<1>9. Keeps(bo[o], c)
  BY <1>2, <1>6 DEF Keeps, Body
<1> HIDE DEF c
<1> QED BY <1>2, <1>4, <1>5, <1>6, <1>7, <1>8, <1>9, PutOneObject

LEMMA VmapKeeps == ASSUME IInv, NEW o \in Objs, Vmap(o) PROVE IInv'
<1> DEFINE b == Pinned(Backed(bo[o]))
           e == [b EXCEPT !.vmaps = @ + 1]
           c == [b EXCEPT !.vmaps = @ + 1, !.vaddr = TRUE]
<1>1. bo[o] \in Buffers /\ Sound(bo[o]) /\ bo[o].madv = "willneed"
  BY DEF IInv, TypeInv, AllSound, Vmap
<1>2. /\ b \in Buffers /\ Sound(b) /\ PinsOf(b) = PinsOf(bo[o]) + 1
      /\ RefsOf(b) = RefsOf(bo[o]) /\ Keeps(bo[o], b) /\ b.pages
  BY <1>1, PinnedBackedIs
<1>3. /\ Becomes(o, Got(c)) \/ Becomes(o, Unpinned(b))
      /\ UNCHANGED <<job, scan, torn>> /\ ~Locked(o)
  BY DEF Vmap
<1> HIDE DEF b
<1>4. c \in Buffers
  <2>1. e \in Buffers
    BY <1>2 DEF Buffers
  <2>2. c = [e EXCEPT !.vaddr = TRUE]
    OBVIOUS
  <2> HIDE DEF c, e
  <2> QED BY <2>1, <2>2 DEF Buffers
<1> HIDE DEF e
<1>5. Sound(c)
  BY <1>2 DEF Buffers, Sound
<1>6. PinsOf(c) = PinsOf(b) - 1 /\ RefsOf(c) = RefsOf(b) - 1
  BY <1>2 DEF Buffers, PinsOf, RefsOf, One
<1>7. RefsOf(b) \in Int /\ PinsOf(bo[o]) \in Int
  BY <1>1, <1>2 DEF RefsOf, PinsOf, Buffers, One
<1>8. c.pages = b.pages /\ c.vma = b.vma
  BY <1>2 DEF Buffers
<1> HIDE DEF c
<1>9. /\ Got(c) \in Buffers /\ Sound(Got(c)) /\ PinsOf(Got(c)) = PinsOf(bo[o])
      /\ RefsOf(Got(c)) = RefsOf(bo[o]) /\ Body(Got(c)) = Body(c)
  BY <1>2, <1>4, <1>5, <1>6, <1>7, GotIs
<1>10. Keeps(bo[o], Got(c))
  BY <1>2, <1>8, <1>9 DEF Keeps, Body
<1>11. /\ Unpinned(b) \in Buffers /\ Sound(Unpinned(b)) /\ PinsOf(Unpinned(b)) = PinsOf(bo[o])
       /\ RefsOf(Unpinned(b)) = RefsOf(bo[o]) /\ Keeps(b, Unpinned(b))
  BY <1>2, <1>7, UnpinnedIs
<1>12. Keeps(bo[o], Unpinned(b))
  BY <1>2, <1>11 DEF Keeps
<1>13. ASSUME Becomes(o, Got(c)) PROVE IInv'
  BY <1>13, <1>3, <1>9, <1>10, OnOneObject
<1>14. ASSUME Becomes(o, Unpinned(b)) PROVE IInv'
  BY <1>14, <1>3, <1>11, <1>12, OnOneObject
<1> QED BY <1>3, <1>13, <1>14

LEMMA VunmapKeeps == ASSUME IInv, NEW o \in Objs, Vunmap(o) PROVE IInv'
<1> DEFINE b == Unpinned(bo[o])
           c == [b EXCEPT !.vmaps = @ - 1]
<1>1. bo[o] \in Buffers /\ Sound(bo[o]) /\ bo[o].vmaps > 0
  BY DEF IInv, TypeInv, AllSound, Vunmap
<1>2. /\ b \in Buffers /\ Sound(b) /\ PinsOf(b) = PinsOf(bo[o]) - 1
      /\ RefsOf(b) = RefsOf(bo[o]) /\ Keeps(bo[o], b)
  BY <1>1, UnpinnedIs
<1>3. b.vmaps > 0
  BY <1>1 DEF Unpinned, UpdateLru, Buffers
<1>4. Becomes(o, Put(c)) /\ UNCHANGED <<job, scan, torn>> /\ ~Locked(o)
  BY DEF Vunmap
<1> HIDE DEF b
<1>5. c \in Buffers
  BY <1>2, <1>3 DEF Buffers
<1>6. Sound(c) /\ Body(c) = Body(b)
  BY <1>2 DEF Buffers, Sound, Body
<1>7. PinsOf(c) = PinsOf(b) + 1 /\ RefsOf(c) = RefsOf(b) + 1
  BY <1>2 DEF Buffers, PinsOf, RefsOf, One
<1>8. PinsOf(bo[o]) \in Int
  BY <1>1 DEF PinsOf, Buffers
<1>9. Keeps(bo[o], c)
  BY <1>2, <1>6 DEF Keeps, Body
<1> HIDE DEF c
<1> QED BY <1>2, <1>4, <1>5, <1>6, <1>7, <1>8, <1>9, PutOneObject

-----------------------------------------------------------------------------
(* The shrinker's steps. *)

LEMMA PickKeeps == ASSUME IInv, NEW o \in Objs, Pick(o) PROVE IInv'
<1> DEFINE b == [bo[o] EXCEPT !.lru = "scan"]
<1>1. bo[o] \in Buffers /\ Sound(bo[o]) /\ scan.pc = "idle" /\ scan.obj = "none"
  BY DEF IInv, TypeInv, AllSound, Pick
<1>2. b \in Buffers
  BY <1>1 DEF Buffers
<1>3. Sound(b) /\ Body(b) = Body(bo[o])
  BY <1>1 DEF Buffers, Sound, Body
<1>4. PinsOf(b) = PinsOf(bo[o]) /\ RefsOf(b) = RefsOf(bo[o])
  BY <1>1 DEF Buffers, PinsOf, RefsOf, One
<1>5. /\ bo' = [bo EXCEPT ![o] = Got(b)] /\ job' = job /\ torn' = torn
      /\ scan' = [pc |-> "picked", obj |-> o, from |-> bo[o].lru]
      /\ bo[o].lru \in {"willneed", "dontneed"}
  BY DEF Pick, Becomes
<1> HIDE DEF b
<1>6. /\ Got(b) \in Buffers /\ Sound(Got(b)) /\ PinsOf(Got(b)) = PinsOf(bo[o])
      /\ RefsOf(Got(b)) = RefsOf(bo[o]) + 1 /\ Body(Got(b)) = Body(bo[o])
  BY <1>2, <1>3, <1>4, GotIs
<1>7. scan' \in Scans /\ torn' \subseteq Jobs \X Objs /\ torn \subseteq torn'
      /\ scan'.obj \in Objs /\ scan'.from \in {"willneed", "dontneed"} /\ scan'.pc = "picked"
  BY <1>5 DEF Scans, IInv, TypeInv
<1>8. RefsOf(Got(b)) = Cardinality(Holding(o)) + One(scan'.obj = o)
  <2>1. One(scan.obj = o) = 0 /\ One(scan'.obj = o) = 1
    BY <1>1, <1>5, GemConstants DEF One
  <2>2. Cardinality(Holding(o)) \in Nat
    BY Counts DEF IInv
  <2> QED BY <2>1, <2>2, <1>6 DEF IInv, Accounted
<1>9. \A p \in Objs \ {o} : (scan'.obj = p) = (scan.obj = p)
  BY <1>1, <1>5, GemConstants
<1>10. \A j \in Jobs : job[j].pc \in MapStates /\ o \in job[j].bos =>
         Got(b).pages /\ (Got(b).vma[job[j].space] = "mapped" \/ <<j, o>> \in torn')
  BY <1>5, <1>6 DEF IInv, MapInv, Body
<1> QED BY <1>5, <1>6, <1>7, <1>8, <1>9, <1>10, ObjectStep

LEMMA MakeSureKeeps == ASSUME IInv, MakeSure PROVE IInv'
<1> USE DEF IInv
<1>1. /\ bo' = bo /\ job' = job /\ torn' = torn /\ scan' = [scan EXCEPT !.pc = "sure"]
      /\ scan.pc = "picked" /\ ~Locked(scan.obj) /\ ~Active(scan.obj)
      /\ IF scan.from = "dontneed" THEN Purgeable(bo[scan.obj]) ELSE ~Unevictable(bo[scan.obj])
  BY DEF MakeSure
<1>2. /\ scan' \in Scans /\ scan'.pc = "sure" /\ scan'.obj = scan.obj /\ scan'.from = scan.from
      /\ scan.obj \in Objs /\ scan.from \in {"willneed", "dontneed"}
  BY <1>1 DEF TypeInv, Scans
<1>3. bo[scan.obj] \in Buffers
  BY <1>2 DEF TypeInv
<1>4. TypeInv'
  BY <1>1, <1>2 DEF TypeInv
<1>5. Accounted'
  BY <1>1, <1>2 DEF Accounted, Users, Holding, PinsOf, RefsOf
<1>6. Exclusive'
  BY <1>1, <1>2 DEF Exclusive, Locked, Held, HoldStates
<1>7. SureInv'
  <2>1. bo[scan.obj].pins <= 0 /\ ~bo[scan.obj].imported
    BY <1>1, <1>3 DEF Active, Purgeable, Unevictable, Buffers
  <2>2. \A j \in Jobs : job[j].pc \in FlightStates => scan.obj \notin job[j].bos
    BY <1>1 DEF Active, InFlight, FlightStates
  <2>3. scan.from = "dontneed" => bo[scan.obj].madv = "dontneed"
    BY <1>1 DEF Purgeable
  <2>4. scan.from # "dontneed" => ~bo[scan.obj].vaddr
    BY <1>1 DEF Unevictable
  <2> QED BY <1>1, <1>2, <2>1, <2>2, <2>3, <2>4 DEF SureInv
<1>8. AllSound' /\ MapInv'
  BY <1>1 DEF AllSound, Sound, MapInv
<1> QED BY <1>4, <1>5, <1>6, <1>7, <1>8

(* The shrinker lets its object go: as it was, or without its backing. *)
LEMMA LetGo ==
  ASSUME IInv, NEW o \in Objs, scan.obj = o, scan.pc # "idle", NEW b \in Buffers, Sound(b),
         PinsOf(b) = PinsOf(bo[o]), RefsOf(b) = RefsOf(bo[o]),
         Becomes(o, Put(Back(b))), scan' = NoScan, UNCHANGED <<job, torn>>,
         Body(b) = Body(bo[o]) \/ \A j \in Jobs : job[j].pc \in MapStates => o \notin job[j].bos
  PROVE  IInv'
<1> DEFINE h == Cardinality(Holding(o))
           u == Cardinality(Users(o, PinStates))
           d == Back(b)
           c == Put(d)
<1>0. scan.from \in {"willneed", "dontneed"}
  BY DEF IInv, TypeInv
<1>1. /\ d \in Buffers /\ PinsOf(d) = PinsOf(bo[o]) /\ RefsOf(d) = RefsOf(bo[o])
      /\ Sound(d) /\ Body(d) = Body(b)
  BY <1>0, BackIs
<1> HIDE DEF d
<1>2. h \in Nat /\ u \in 0..h /\ \A j \in Jobs : o \in job[j].bos => h > 0
  BY Counts DEF IInv
<1>3. PinsOf(d) = u /\ RefsOf(d) = h + 0 + 1
  <2>1. One(scan.obj = o) = 1
    BY DEF One
  <2> QED BY <1>1, <1>2, <2>1 DEF IInv, Accounted
<1> HIDE DEF h, u
<1>4. /\ c \in Buffers /\ PinsOf(c) = u /\ RefsOf(c) = h + 0 /\ Sound(c)
      /\ h + 0 > 0 => Body(c) = Body(d)
  BY <1>1, <1>2, <1>3, PutIs
<1> HIDE DEF c
<1>5. bo' = [bo EXCEPT ![o] = c] /\ job' = job /\ torn' = torn
  BY DEF Becomes, c, d
<1>6. scan' \in Scans /\ scan'.pc = "idle" /\ scan'.obj = "none"
  BY DEF NoScan, Scans
<1>7. torn' \subseteq Jobs \X Objs /\ torn \subseteq torn'
  BY <1>5 DEF IInv, TypeInv
<1>8. PinsOf(c) = PinsOf(bo[o]) /\ RefsOf(c) = Cardinality(Holding(o)) + One(scan'.obj = o)
  <2>1. One(scan'.obj = o) = 0
    BY <1>6, GemConstants DEF One
  <2> QED BY <2>1, <1>1, <1>2, <1>3, <1>4 DEF h
<1>9. \A p \in Objs \ {o} : (scan'.obj = p) = (scan.obj = p)
  BY <1>6, GemConstants
<1>10. \A j \in Jobs : job[j].pc \in MapStates /\ o \in job[j].bos =>
         c.pages /\ (c.vma[job[j].space] = "mapped" \/ <<j, o>> \in torn')
  <2> SUFFICES ASSUME NEW j \in Jobs, job[j].pc \in MapStates, o \in job[j].bos
               PROVE  c.pages /\ (c.vma[job[j].space] = "mapped" \/ <<j, o>> \in torn')
    OBVIOUS
  <2>1. Body(c) = Body(bo[o])
    BY <1>1, <1>2, <1>4
  <2> QED BY <2>1, <1>5 DEF IInv, MapInv, Body
<1> QED BY <1>4, <1>5, <1>6, <1>7, <1>8, <1>9, <1>10, ObjectStep

LEMMA GiveUpKeeps == ASSUME IInv, GiveUp PROVE IInv'
<1>1. /\ scan.pc = "picked" /\ Becomes(scan.obj, Put(Back(bo[scan.obj])))
      /\ scan' = NoScan /\ UNCHANGED <<job, torn>>
  BY DEF GiveUp
<1>2. scan.obj \in Objs
  BY <1>1 DEF IInv, TypeInv
<1>3. bo[scan.obj] \in Buffers /\ Sound(bo[scan.obj])
  BY <1>2 DEF IInv, TypeInv, AllSound
<1> QED BY <1>1, <1>2, <1>3, LetGo

LEMMA ShrinkKeeps == ASSUME IInv, Shrink PROVE IInv'
<1> DEFINE o == scan.obj
           b == IF scan.from = "dontneed" THEN Purged(bo[o]) ELSE Evicted(bo[o])
<1>1. scan.pc = "sure" /\ Becomes(o, Put(Back(b))) /\ scan' = NoScan /\ UNCHANGED <<job, torn>>
  BY DEF Shrink
<1>2. o \in Objs
  BY <1>1 DEF IInv, TypeInv
<1>3. bo[o] \in Buffers /\ Sound(bo[o])
  BY <1>2 DEF IInv, TypeInv, AllSound
<1>4. ~bo[o].imported /\ (scan.from # "dontneed" => ~bo[o].vaddr)
  BY <1>1 DEF IInv, SureInv
<1>5. b \in Buffers /\ Sound(b) /\ PinsOf(b) = PinsOf(bo[o]) /\ RefsOf(b) = RefsOf(bo[o])
  BY <1>3, <1>4, PurgedIs, EvictedIs
<1>6. \A j \in Jobs : job[j].pc \in MapStates => o \notin job[j].bos
  BY <1>1 DEF IInv, SureInv, Exclusive, MapStates, FlightStates, HoldStates
<1> HIDE DEF b
<1> QED BY <1>1, <1>2, <1>5, <1>6, LetGo

-----------------------------------------------------------------------------
(* The steps of a submit. *)

(* It keeps its objects, and no other's is touched. *)
LEMMA OwnStep ==
  ASSUME IInv, NEW j \in Jobs, NEW pc \in States \ {"none"}, job[j].pc # "none",
         Goes(j, pc), UNCHANGED <<scan, torn>>, bo' \in [Objs -> Buffers],
         \A o \in Objs \ job[j].bos : bo'[o] = bo[o],
         \A o \in job[j].bos :
            /\ Sound(bo'[o]) /\ Keeps(bo[o], bo'[o]) /\ RefsOf(bo'[o]) = RefsOf(bo[o])
            /\ PinsOf(bo'[o]) = PinsOf(bo[o]) - One(job[j].pc \in PinStates) + One(pc \in PinStates),
         bo' = bo \/ (scan.pc = "sure" => scan.obj \notin job[j].bos),
         scan.pc = "sure" /\ pc \in FlightStates \cup HoldStates => scan.obj \notin job[j].bos,
         pc \in HoldStates => \A o \in job[j].bos : \A i \in Jobs \ {j} :
                                job[i].pc \in HoldStates => o \notin job[i].bos,
         pc \in MapStates => \A o \in job[j].bos :
            /\ bo'[o].pages
            /\ bo'[o].vma[job[j].space] = "mapped" \/ <<j, o>> \in torn
  PROVE  IInv'
<1> DEFINE r == [job[j] EXCEPT !.pc = pc]
<1>1. job[j] \in Submits /\ job[j].space \in Spaces /\ job[j].bos \subseteq Objs
  BY DEF IInv, TypeInv, Submits
<1>2. r \in Submits /\ r.pc = pc /\ r.bos = job[j].bos /\ r.space = job[j].space
  BY <1>1 DEF Submits
<1>3. job' = [job EXCEPT ![j] = r] /\ scan' = scan /\ torn' = torn
  BY DEF Goes
<1> HIDE DEF r
<1>4. \A o \in Objs : Sound(bo'[o])
  BY DEF IInv, AllSound
<1>5. \A o \in Objs : Keeps(bo[o], bo'[o])
  BY DEF Keeps
<1>6. \A o \in Objs :
            PinsOf(bo'[o]) = PinsOf(bo[o]) - One(o \in job[j].bos /\ job[j].pc \in PinStates)
                                           + One(o \in r.bos /\ r.pc \in PinStates)
  <2> SUFFICES ASSUME NEW o \in Objs
               PROVE  PinsOf(bo'[o]) = PinsOf(bo[o]) - One(o \in job[j].bos /\ job[j].pc \in PinStates)
                                           + One(o \in r.bos /\ r.pc \in PinStates)
    OBVIOUS
  <2>0. bo[o] \in Buffers /\ PinsOf(bo[o]) \in Int
    BY DEF IInv, TypeInv, PinsOf, Buffers
  <2>1. CASE o \in job[j].bos
    <3>1. /\ One(o \in job[j].bos /\ job[j].pc \in PinStates) = One(job[j].pc \in PinStates)
          /\ One(o \in r.bos /\ r.pc \in PinStates) = One(pc \in PinStates)
      BY <1>2, <2>1 DEF One
    <3> QED BY <2>1, <3>1
  <2>2. CASE o \notin job[j].bos
    <3>1. /\ One(o \in job[j].bos /\ job[j].pc \in PinStates) = 0
          /\ One(o \in r.bos /\ r.pc \in PinStates) = 0
      BY <1>2, <2>2 DEF One
    <3> QED BY <2>0, <2>2, <3>1
  <2> QED BY <2>1, <2>2
<1>7. \A o \in Objs :
            RefsOf(bo'[o]) = RefsOf(bo[o]) - One(o \in job[j].bos) + One(o \in r.bos)
  <2> SUFFICES ASSUME NEW o \in Objs
               PROVE  RefsOf(bo'[o]) = RefsOf(bo[o]) - One(o \in job[j].bos) + One(o \in r.bos)
    OBVIOUS
  <2>1. RefsOf(bo[o]) \in Int /\ RefsOf(bo'[o]) = RefsOf(bo[o])
    BY DEF IInv, TypeInv, RefsOf, Buffers, One
  <2>2. One(o \in r.bos) = One(o \in job[j].bos) /\ One(o \in r.bos) \in Nat
    BY <1>2 DEF One
  <2> QED BY <2>1, <2>2
<1>8. scan.pc = "sure" => /\ Body(bo'[scan.obj]) = Body(bo[scan.obj])
                          /\ r.pc \in FlightStates \cup HoldStates => scan.obj \notin r.bos
  BY <1>2 DEF IInv, TypeInv
<1> QED
  <2>1. IF r.pc = "none" THEN r.bos = {} ELSE r.space \in Spaces
    BY <1>1, <1>2
  <2>2. torn' \subseteq torn /\ \A t \in torn : t[1] # j => t \in torn'
    BY <1>3
  <2>3. \A i \in Jobs \ {j} : \A o \in job[i].bos : Keeps(bo[o], bo'[o])
    BY <1>5 DEF IInv, TypeInv, Submits
  <2>4. r.pc \in HoldStates => \A o \in r.bos : \A i \in Jobs \ {j} :
                                  job[i].pc \in HoldStates => o \notin job[i].bos
    BY <1>2
  <2>5. r.pc \in MapStates => \A o \in r.bos :
            /\ bo'[o].pages
            /\ bo'[o].vma[r.space] = "mapped" \/ <<j, o>> \in torn'
    BY <1>2, <1>3
  <2> QED BY <1>2, <1>3, <1>4, <1>6, <1>7, <1>8, <2>1, <2>2, <2>3, <2>4, <2>5, SubmitStep

LEMMA LookupKeeps == ASSUME IInv, NEW j \in Jobs, Lookup(j) PROVE IInv'
<1>1. PICK s \in Spaces : job' = [job EXCEPT ![j] = [pc |-> "found", bos |-> Takes[j], space |-> s]]
  BY DEF Lookup
<1> DEFINE r == [pc |-> "found", bos |-> Takes[j], space |-> s]
<1>2. r \in Submits /\ r.pc = "found" /\ r.bos = Takes[j] /\ r.space = s /\ r.bos \subseteq Objs
  BY GemConstants DEF Submits, States
<1>3. job[j].pc = "none" /\ job[j].bos = {} /\ scan' = scan /\ torn' = torn
  BY DEF IInv, TypeInv, Lookup
<1>4. \A o \in Objs : bo'[o] = IF o \in r.bos THEN Got(bo[o]) ELSE bo[o]
  BY DEF Lookup, Each
<1>5. bo' = [o \in Objs |-> IF o \in r.bos THEN Got(bo[o]) ELSE bo[o]]
  BY DEF Lookup, Each
<1>6. job' = [job EXCEPT ![j] = r]
  BY <1>1
<1> HIDE DEF r
<1>7. \A o \in Objs : /\ bo'[o] \in Buffers /\ Sound(bo'[o]) /\ PinsOf(bo'[o]) = PinsOf(bo[o])
                      /\ RefsOf(bo'[o]) = RefsOf(bo[o]) + One(o \in r.bos)
                      /\ Body(bo'[o]) = Body(bo[o])
  <2> SUFFICES ASSUME NEW o \in Objs
               PROVE  /\ bo'[o] \in Buffers /\ Sound(bo'[o]) /\ PinsOf(bo'[o]) = PinsOf(bo[o])
                      /\ RefsOf(bo'[o]) = RefsOf(bo[o]) + One(o \in r.bos)
                      /\ Body(bo'[o]) = Body(bo[o])
    OBVIOUS
  <2>1. bo[o] \in Buffers /\ Sound(bo[o])
    BY DEF IInv, TypeInv, AllSound
  <2>2. RefsOf(bo[o]) \in Int
    BY <2>1 DEF RefsOf, Buffers, One
  <2>3. CASE o \in r.bos
    <3>1. One(o \in r.bos) = 1
      BY <2>3 DEF One
    <3> QED BY <2>1, <2>3, <3>1, <1>4, GotIs
  <2>4. CASE o \notin r.bos
    <3>1. One(o \in r.bos) = 0
      BY <2>4 DEF One
    <3> QED BY <2>1, <2>2, <2>4, <3>1, <1>4
  <2> QED BY <2>3, <2>4
<1>8. bo' \in [Objs -> Buffers]
  BY <1>4, <1>5, <1>7
<1>9. \A o \in Objs :
            PinsOf(bo'[o]) = PinsOf(bo[o]) - One(o \in job[j].bos /\ job[j].pc \in PinStates)
                                           + One(o \in r.bos /\ r.pc \in PinStates)
  <2> SUFFICES ASSUME NEW o \in Objs
               PROVE  PinsOf(bo'[o]) = PinsOf(bo[o]) - One(o \in job[j].bos /\ job[j].pc \in PinStates)
                                           + One(o \in r.bos /\ r.pc \in PinStates)
    OBVIOUS
  <2>1. One(o \in job[j].bos /\ job[j].pc \in PinStates) = 0 /\ One(o \in r.bos /\ r.pc \in PinStates) = 0
    BY <1>2, <1>3 DEF One, PinStates
  <2>2. PinsOf(bo[o]) \in Int
    BY DEF IInv, TypeInv, PinsOf, Buffers
  <2> QED BY <2>1, <2>2, <1>7
<1>10. \A o \in Objs :
            RefsOf(bo'[o]) = RefsOf(bo[o]) - One(o \in job[j].bos) + One(o \in r.bos)
  <2> SUFFICES ASSUME NEW o \in Objs
               PROVE  RefsOf(bo'[o]) = RefsOf(bo[o]) - One(o \in job[j].bos) + One(o \in r.bos)
    OBVIOUS
  <2>1. One(o \in job[j].bos) = 0 /\ One(o \in r.bos) \in Nat
    BY <1>3 DEF One
  <2>2. RefsOf(bo[o]) \in Int
    BY DEF IInv, TypeInv, RefsOf, Buffers, One
  <2> QED BY <2>1, <2>2, <1>7
<1>11. \A i \in Jobs \ {j} : \A o \in job[i].bos : Keeps(bo[o], bo'[o])
  BY <1>7 DEF IInv, TypeInv, Submits, Body, Keeps
<1>12. r.pc \notin FlightStates \cup HoldStates \cup MapStates \cup {"none"}
  BY <1>2 DEF FlightStates, HoldStates, MapStates
<1>13. scan.pc = "sure" => Body(bo'[scan.obj]) = Body(bo[scan.obj])
  BY <1>7 DEF IInv, TypeInv
<1> QED BY <1>2, <1>3, <1>6, <1>7, <1>8, <1>9, <1>10, <1>11, <1>12, <1>13, SubmitStep

LEMMA LockKeeps == ASSUME IInv, NEW j \in Jobs, Lock(j) PROVE IInv'
<1>1. /\ job[j].pc = "found" /\ Goes(j, "locked") /\ bo' = bo /\ UNCHANGED <<scan, torn>>
      /\ \A o \in job[j].bos : ~Locked(o)
  BY DEF Lock
<1>2. "locked" \in States \ {"none"}
  BY DEF States
<1>3. One(job[j].pc \in PinStates) = 0 /\ One("locked" \in PinStates) = 0
  BY <1>1 DEF One, PinStates
<1>4. \A o \in job[j].bos :
            /\ Sound(bo'[o]) /\ Keeps(bo[o], bo'[o]) /\ RefsOf(bo'[o]) = RefsOf(bo[o])
            /\ PinsOf(bo'[o]) = PinsOf(bo[o]) - One(job[j].pc \in PinStates) + One("locked" \in PinStates)
  <2> SUFFICES ASSUME NEW o \in job[j].bos
               PROVE  Sound(bo[o]) /\ Keeps(bo[o], bo[o]) /\ PinsOf(bo[o]) = PinsOf(bo[o]) - 0 + 0
    BY <1>1, <1>3
  <2>1. bo[o] \in Buffers /\ Sound(bo[o])
    BY DEF IInv, TypeInv, AllSound, Submits
  <2> QED BY <2>1 DEF Keeps, PinsOf, Buffers
<1>5. bo' \in [Objs -> Buffers]
  BY <1>1 DEF IInv, TypeInv
<1>6. "locked" \notin MapStates
  BY DEF MapStates
<1>7. scan.pc = "sure" => scan.obj \notin job[j].bos
  BY <1>1 DEF Locked
<1>8. \A o \in job[j].bos : \A i \in Jobs \ {j} : job[i].pc \in HoldStates => o \notin job[i].bos
  BY <1>1 DEF Locked, Held, HoldStates
<1> QED BY <1>1, <1>2, <1>4, <1>5, <1>6, <1>7, <1>8, OwnStep

(* What holding its objects gives a submit. *)
LEMMA HoldingThem ==
  ASSUME IInv, NEW j \in Jobs, job[j].pc \in HoldStates
  PROVE  /\ job[j].bos \subseteq Objs /\ job[j].space \in Spaces
         /\ scan.pc = "sure" => scan.obj \notin job[j].bos
         /\ \A o \in job[j].bos : \A i \in Jobs \ {j} :
               job[i].pc \in HoldStates => o \notin job[i].bos
         /\ \A o \in job[j].bos : bo[o] \in Buffers /\ Sound(bo[o])
                                  /\ PinsOf(bo[o]) \in Int /\ RefsOf(bo[o]) \in Int
<1>1. job[j].bos \subseteq Objs /\ job[j].space \in Spaces
  BY DEF IInv, TypeInv, Submits, HoldStates
<1>2. /\ scan.pc = "sure" => scan.obj \notin job[j].bos
      /\ \A o \in job[j].bos : \A i \in Jobs \ {j} :
               job[i].pc \in HoldStates => o \notin job[i].bos
  BY DEF IInv, Exclusive
<1>3. \A o \in job[j].bos : bo[o] \in Buffers /\ Sound(bo[o])
  BY <1>1 DEF IInv, TypeInv, AllSound
<1>4. \A o \in job[j].bos : PinsOf(bo[o]) \in Int /\ RefsOf(bo[o]) \in Int
  BY <1>3 DEF PinsOf, RefsOf, Buffers, One
<1> QED BY <1>1, <1>2, <1>3, <1>4

LEMMA MapAllKeeps == ASSUME IInv, NEW j \in Jobs, MapAll(j) PROVE IInv'
<1> DEFINE s == job[j].space
<1>1. /\ job[j].pc = "locked" /\ Goes(j, "mapped") /\ UNCHANGED <<scan, torn>>
      /\ \A o \in job[j].bos : bo[o].madv = "willneed"
  BY DEF MapAll
<1>2. job[j].pc \in HoldStates /\ "mapped" \in States \ {"none"}
  BY <1>1 DEF HoldStates, States
<1>3. bo' = [o \in Objs |-> IF o \in job[j].bos THEN Mapped(bo[o], s) ELSE bo[o]]
  BY DEF MapAll, Each
<1>4. s \in Spaces /\ job[j].bos \subseteq Objs
  BY <1>2, HoldingThem
<1> HIDE DEF s
<1>5. \A o \in job[j].bos : bo'[o] = Mapped(bo[o], s)
  BY <1>3, <1>4
<1>6. \A o \in Objs \ job[j].bos : bo'[o] = bo[o]
  BY <1>3
<1>7. \A o \in job[j].bos : /\ bo'[o] \in Buffers /\ Sound(bo'[o]) /\ Keeps(bo[o], bo'[o])
                            /\ RefsOf(bo'[o]) = RefsOf(bo[o]) /\ PinsOf(bo'[o]) = PinsOf(bo[o])
                            /\ bo'[o].pages /\ bo'[o].vma[s] = "mapped"
  BY <1>1, <1>2, <1>4, <1>5, HoldingThem, MappedIs
<1>8. bo' \in [Objs -> Buffers]
  BY <1>3, <1>6, <1>7 DEF IInv, TypeInv
<1>9. One(job[j].pc \in PinStates) = 0 /\ One("mapped" \in PinStates) = 0
  BY <1>1 DEF One, PinStates
<1>10. \A o \in job[j].bos :
         PinsOf(bo'[o]) = PinsOf(bo[o]) - One(job[j].pc \in PinStates) + One("mapped" \in PinStates)
  BY <1>2, <1>7, <1>9, HoldingThem
<1> HIDE DEF s
<1> QED BY <1>1, <1>2, <1>6, <1>7, <1>8, <1>10, HoldingThem, OwnStep DEF s

LEMMA MapSomeKeeps == ASSUME IInv, NEW j \in Jobs, MapSome(j) PROVE IInv'
<1> DEFINE s == job[j].space
<1>1. job[j].pc = "locked" /\ Goes(j, "botched") /\ UNCHANGED <<scan, torn>>
  BY DEF MapSome
<1>2. job[j].pc \in HoldStates /\ "botched" \in States \ {"none"}
  BY <1>1 DEF HoldStates, States
<1>3. s \in Spaces /\ job[j].bos \subseteq Objs
  BY <1>2, HoldingThem
<1>a. PICK f \in job[j].bos : \E S \in SUBSET (job[j].bos \ {f}) :
        /\ \A o \in S : bo[o].madv = "willneed"
        /\ \E b \in MapFailures(bo[f], s) :
           bo' = [[o \in Objs |-> IF o \in S THEN Mapped(bo[o], s) ELSE bo[o]] EXCEPT ![f] = b]
  BY DEF MapSome, Each
<1>b. PICK S \in SUBSET (job[j].bos \ {f}) :
        /\ \A o \in S : bo[o].madv = "willneed"
        /\ \E b \in MapFailures(bo[f], s) :
           bo' = [[o \in Objs |-> IF o \in S THEN Mapped(bo[o], s) ELSE bo[o]] EXCEPT ![f] = b]
  BY <1>a
<1>4. PICK b \in MapFailures(bo[f], s) :
        bo' = [[o \in Objs |-> IF o \in S THEN Mapped(bo[o], s) ELSE bo[o]] EXCEPT ![f] = b]
  BY <1>b
<1> HIDE DEF s
<1>5. /\ bo'[f] = b
      /\ \A o \in S : bo'[o] = Mapped(bo[o], s)
      /\ \A o \in Objs \ (S \cup {f}) : bo'[o] = bo[o]
      /\ bo' = [o \in Objs |-> bo'[o]]
  BY <1>3, <1>4
<1>6. \A o \in job[j].bos : /\ bo'[o] \in Buffers /\ Sound(bo'[o]) /\ Keeps(bo[o], bo'[o])
                            /\ RefsOf(bo'[o]) = RefsOf(bo[o]) /\ PinsOf(bo'[o]) = PinsOf(bo[o])
  <2> SUFFICES ASSUME NEW o \in job[j].bos
               PROVE  /\ bo'[o] \in Buffers /\ Sound(bo'[o]) /\ Keeps(bo[o], bo'[o])
                      /\ RefsOf(bo'[o]) = RefsOf(bo[o]) /\ PinsOf(bo'[o]) = PinsOf(bo[o])
    OBVIOUS
  <2>0. bo[o] \in Buffers /\ Sound(bo[o]) /\ o \in Objs
    BY <1>2, <1>3, HoldingThem
  <2>1. CASE o = f
    BY <2>0, <2>1, <1>3, <1>5, MapFailureIs
  <2>2. CASE o \in S
    BY <2>0, <2>2, <1>3, <1>b, <1>5, MappedIs
  <2>3. CASE o \notin S \cup {f}
    BY <2>0, <2>3, <1>5 DEF Keeps
  <2> QED BY <2>1, <2>2, <2>3
<1>7. \A o \in Objs \ job[j].bos : bo'[o] = bo[o]
  BY <1>5
<1>8. bo' \in [Objs -> Buffers]
  <2>1. \A o \in Objs : bo'[o] \in Buffers
    BY <1>6, <1>7 DEF IInv, TypeInv
  <2> QED BY <2>1, <1>5
<1>9. One(job[j].pc \in PinStates) = 0 /\ One("botched" \in PinStates) = 0
  BY <1>1 DEF One, PinStates
<1>10. \A o \in job[j].bos :
         PinsOf(bo'[o]) = PinsOf(bo[o]) - One(job[j].pc \in PinStates) + One("botched" \in PinStates)
  BY <1>2, <1>6, <1>9, HoldingThem
<1>11. "botched" \notin MapStates
  BY DEF MapStates
<1> QED BY <1>1, <1>2, <1>6, <1>7, <1>8, <1>10, <1>11, HoldingThem, OwnStep

LEMMA PinAllKeeps == ASSUME IInv, NEW j \in Jobs, PinAll(j) PROVE IInv'
<1> DEFINE pc == IF job[j].pc = "mapped" THEN "pinned" ELSE "doomed"
<1>1. job[j].pc \in {"mapped", "botched"} /\ Goes(j, pc) /\ UNCHANGED <<scan, torn>>
  BY DEF PinAll
<1>2. job[j].pc \in HoldStates /\ pc \in States \ {"none"} /\ pc \in PinStates
      /\ job[j].pc \notin PinStates /\ (pc \in MapStates => job[j].pc \in MapStates)
  BY <1>1 DEF HoldStates, States, PinStates, MapStates
<1>3. bo' = [o \in Objs |-> IF o \in job[j].bos THEN Pinned(bo[o]) ELSE bo[o]]
  BY DEF PinAll, Each
<1> HIDE DEF pc
<1>4. \A o \in job[j].bos : bo'[o] = Pinned(bo[o])
  BY <1>2, <1>3, HoldingThem
<1>5. \A o \in Objs \ job[j].bos : bo'[o] = bo[o]
  BY <1>3
<1>6. \A o \in job[j].bos : /\ bo'[o] \in Buffers /\ Sound(bo'[o]) /\ Keeps(bo[o], bo'[o])
                            /\ RefsOf(bo'[o]) = RefsOf(bo[o]) /\ PinsOf(bo'[o]) = PinsOf(bo[o]) + 1
  BY <1>2, <1>4, HoldingThem, PinnedIs
<1>7. bo' \in [Objs -> Buffers]
  BY <1>3, <1>5, <1>6 DEF IInv, TypeInv
<1>8. One(job[j].pc \in PinStates) = 0 /\ One(pc \in PinStates) = 1
  BY <1>2 DEF One
<1>9. \A o \in job[j].bos :
         PinsOf(bo'[o]) = PinsOf(bo[o]) - One(job[j].pc \in PinStates) + One(pc \in PinStates)
  BY <1>2, <1>6, <1>8, HoldingThem
<1>10. pc \in MapStates => \A o \in job[j].bos :
            /\ bo'[o].pages
            /\ bo'[o].vma[job[j].space] = "mapped" \/ <<j, o>> \in torn
  BY <1>2, <1>6, HoldingThem DEF IInv, MapInv, Keeps
<1>11. job[j].pc # "none"
  BY <1>1
<1> QED BY <1>1, <1>2, <1>5, <1>6, <1>7, <1>9, <1>10, <1>11, HoldingThem, OwnStep

LEMMA PushKeeps == ASSUME IInv, NEW j \in Jobs, Push(j) PROVE IInv'
<1>1. job[j].pc = "pinned" /\ Goes(j, "pushed") /\ bo' = bo /\ UNCHANGED <<scan, torn>>
  BY DEF Push
<1>2. /\ job[j].pc \in HoldStates /\ "pushed" \in States \ {"none"} /\ "pushed" \notin HoldStates
      /\ job[j].pc \in MapStates
  BY <1>1 DEF HoldStates, States, MapStates
<1>3. One(job[j].pc \in PinStates) = 1 /\ One("pushed" \in PinStates) = 1
  BY <1>1 DEF One, PinStates
<1>4. \A o \in job[j].bos :
            /\ Sound(bo'[o]) /\ Keeps(bo[o], bo'[o]) /\ RefsOf(bo'[o]) = RefsOf(bo[o])
            /\ PinsOf(bo'[o]) = PinsOf(bo[o]) - One(job[j].pc \in PinStates) + One("pushed" \in PinStates)
  BY <1>1, <1>2, <1>3, HoldingThem DEF Keeps
<1>5. bo' \in [Objs -> Buffers]
  BY <1>1 DEF IInv, TypeInv
<1>6. \A o \in job[j].bos : /\ bo'[o].pages
                            /\ bo'[o].vma[job[j].space] = "mapped" \/ <<j, o>> \in torn
  BY <1>1, <1>2 DEF IInv, MapInv
<1> QED BY <1>1, <1>2, <1>4, <1>5, <1>6, HoldingThem, OwnStep

LEMMA RunKeeps == ASSUME IInv, NEW j \in Jobs, Run(j) PROVE IInv'
<1>1. job[j].pc = "pushed" /\ Goes(j, "running") /\ UNCHANGED <<scan, torn>>
  BY DEF Run
<1>2. /\ "running" \in States \ {"none"} /\ "running" \notin HoldStates
      /\ job[j].pc \in MapStates /\ job[j].pc \in FlightStates
  BY <1>1 DEF HoldStates, States, MapStates, FlightStates
<1>3. job[j].bos \subseteq Objs
  BY DEF IInv, TypeInv, Submits
<1>4. bo' = [o \in Objs |-> IF o \in job[j].bos THEN Unpinned(bo[o]) ELSE bo[o]]
  BY DEF Run, Each
<1>5. \A o \in job[j].bos : bo'[o] = Unpinned(bo[o])
  BY <1>3, <1>4
<1>6. \A o \in Objs \ job[j].bos : bo'[o] = bo[o]
  BY <1>4
<1>7. \A o \in job[j].bos : bo[o] \in Buffers /\ Sound(bo[o])
  BY <1>3 DEF IInv, TypeInv, AllSound
<1>8. \A o \in job[j].bos : PinsOf(bo[o]) \in Int
  BY <1>7 DEF PinsOf, Buffers
<1>9. \A o \in job[j].bos : /\ bo'[o] \in Buffers /\ Sound(bo'[o]) /\ Keeps(bo[o], bo'[o])
                            /\ RefsOf(bo'[o]) = RefsOf(bo[o]) /\ PinsOf(bo'[o]) = PinsOf(bo[o]) - 1
  BY <1>5, <1>7, UnpinnedIs
<1>10. bo' \in [Objs -> Buffers]
  BY <1>4, <1>6, <1>9 DEF IInv, TypeInv
<1>11. One(job[j].pc \in PinStates) = 1 /\ One("running" \in PinStates) = 0
  BY <1>1 DEF One, PinStates
<1>12. \A o \in job[j].bos :
         PinsOf(bo'[o]) = PinsOf(bo[o]) - One(job[j].pc \in PinStates) + One("running" \in PinStates)
  BY <1>8, <1>9, <1>11
<1>13. \A o \in job[j].bos : /\ bo'[o].pages
                             /\ bo'[o].vma[job[j].space] = "mapped" \/ <<j, o>> \in torn
  <2>1. job[j].space \in Spaces
    BY <1>1 DEF IInv, TypeInv
  <2>2. \A o \in job[j].bos : bo[o].pages /\ (bo[o].vma[job[j].space] = "mapped" \/ <<j, o>> \in torn)
    BY <1>2 DEF IInv, MapInv
  <2> QED BY <1>9, <2>1, <2>2 DEF Keeps
<1>14. scan.pc = "sure" => scan.obj \notin job[j].bos
  BY <1>2 DEF IInv, SureInv
<1> QED BY <1>1, <1>2, <1>6, <1>9, <1>10, <1>12, <1>13, <1>14, OwnStep

LEMMA FinishKeeps == ASSUME IInv, NEW j \in Jobs, Finish(j) PROVE IInv'
<1>1. job[j].pc = "running" /\ Goes(j, "finished") /\ bo' = bo /\ UNCHANGED <<scan, torn>>
  BY DEF Finish
<1>2. /\ "finished" \in States \ {"none"}
      /\ "finished" \notin HoldStates /\ "finished" \notin FlightStates /\ "finished" \notin MapStates
  BY DEF HoldStates, States, MapStates, FlightStates
<1>3. One(job[j].pc \in PinStates) = 0 /\ One("finished" \in PinStates) = 0
  BY <1>1 DEF One, PinStates
<1>4. \A o \in job[j].bos : bo[o] \in Buffers /\ Sound(bo[o])
  BY DEF IInv, TypeInv, AllSound, Submits
<1>5. \A o \in job[j].bos : PinsOf(bo[o]) \in Int
  BY <1>4 DEF PinsOf, Buffers
<1>6. \A o \in job[j].bos :
            /\ Sound(bo'[o]) /\ Keeps(bo[o], bo'[o]) /\ RefsOf(bo'[o]) = RefsOf(bo[o])
            /\ PinsOf(bo'[o]) = PinsOf(bo[o]) - One(job[j].pc \in PinStates) + One("finished" \in PinStates)
  BY <1>1, <1>3, <1>4, <1>5 DEF Keeps
<1>7. bo' \in [Objs -> Buffers]
  BY <1>1 DEF IInv, TypeInv
<1> QED BY <1>1, <1>2, <1>6, <1>7, OwnStep

(* A submit lets one of its objects go: it is freed when nobody else has it. *)
LEMMA PutBy ==
  ASSUME IInv, NEW j \in Jobs, NEW o \in job[j].bos, NEW b \in Buffers, Sound(b),
         PinsOf(b) = PinsOf(bo[o]) - One(job[j].pc \in PinStates), RefsOf(b) = RefsOf(bo[o])
  PROVE  /\ Put(b) \in Buffers /\ Sound(Put(b))
         /\ PinsOf(Put(b)) = PinsOf(bo[o]) - One(job[j].pc \in PinStates)
         /\ RefsOf(Put(b)) = RefsOf(bo[o]) - 1
         /\ \A i \in Jobs \ {j} : o \in job[i].bos => Body(Put(b)) = Body(b)
         /\ scan.obj = o => Body(Put(b)) = Body(b)
<1> DEFINE H == Holding(o) \ {j}
           U == Users(o, PinStates) \ {j}
           h == Cardinality(H)
           u == Cardinality(U)
           z == One(scan.obj = o)
<1>1. o \in Objs /\ j \in Holding(o)
  BY DEF IInv, TypeInv, Submits, Holding
<1>2. IsFiniteSet(H) /\ U \subseteq H /\ H \in SUBSET Jobs /\ U \in SUBSET Jobs
  BY GemConstants, FS_Subset DEF Users, Holding
<1>3. h \in Nat /\ u \in Nat /\ u <= h
  BY <1>2, FS_CardinalityType, FS_Subset
<1>4. \A i \in Jobs \ {j} : o \in job[i].bos => h # 0
  <2> SUFFICES ASSUME NEW i \in Jobs \ {j}, o \in job[i].bos PROVE h # 0
    OBVIOUS
  <2>1. i \in H
    BY DEF Holding
  <2> QED BY <2>1, <1>2, FS_EmptySet
<1>5. h = Cardinality(Holding(o)) - 1
  <2>1. H \ {j} = Holding(o) \ {j} /\ Holding(o) \in SUBSET Jobs
    BY DEF Holding
  <2>2. Cardinality(Holding(o)) \in Nat
    BY <1>1, Counts DEF IInv
  <2>3. One(j \in Holding(o)) = 1 /\ One(j \in H) = 0
    BY <1>1 DEF One
  <2> HIDE DEF H
  <2>4. h = Cardinality(Holding(o)) - One(j \in Holding(o)) + One(j \in H)
    BY <2>1, <1>2, CountsChange
  <2> QED BY <2>2, <2>3, <2>4
<1>6. u = Cardinality(Users(o, PinStates)) - One(job[j].pc \in PinStates)
  <2>1. U \ {j} = Users(o, PinStates) \ {j} /\ Users(o, PinStates) \in SUBSET Jobs
    BY DEF Users
  <2>2. Cardinality(Users(o, PinStates)) \in Nat
    BY <1>1, Counts DEF IInv
  <2>3. One(j \in Users(o, PinStates)) = One(job[j].pc \in PinStates) /\ One(j \in U) = 0
    BY DEF One, Users
  <2>4. One(job[j].pc \in PinStates) \in Nat
    BY DEF One
  <2> HIDE DEF U
  <2>5. u = Cardinality(Users(o, PinStates)) - One(j \in Users(o, PinStates)) + One(j \in U)
    BY <2>1, <1>2, CountsChange
  <2> QED BY <2>2, <2>3, <2>4, <2>5
<1> HIDE DEF H, U
<1>7. PinsOf(bo[o]) = Cardinality(Users(o, PinStates))
      /\ RefsOf(bo[o]) = Cardinality(Holding(o)) + z
      /\ Cardinality(Users(o, PinStates)) \in Nat /\ Cardinality(Holding(o)) \in Nat
  BY <1>1, Counts DEF IInv, Accounted
<1>8. z \in {0, 1} /\ (scan.obj = o => z = 1)
  BY DEF One
<1> HIDE DEF h, u, z
<1>9. PinsOf(b) = u /\ RefsOf(b) = h + z + 1
  BY <1>3, <1>5, <1>6, <1>7, <1>8
<1>10. /\ Put(b) \in Buffers /\ PinsOf(Put(b)) = u /\ RefsOf(Put(b)) = h + z /\ Sound(Put(b))
       /\ h + z > 0 => Body(Put(b)) = Body(b)
  <2>1. u \in 0..h
    BY <1>3
  <2> QED BY <2>1, <1>3, <1>8, <1>9, PutIs
<1>11. RefsOf(Put(b)) = RefsOf(bo[o]) - 1
  BY <1>3, <1>5, <1>7, <1>8, <1>10
<1>12. h + z > 0 <=> (h # 0 \/ z = 1)
  BY <1>3, <1>8
<1> QED BY <1>4, <1>8, <1>9, <1>10, <1>11, <1>12

(* It lets them all go, each as f leaves it. *)
LEMMA LetThemGo ==
  ASSUME IInv, NEW j \in Jobs, NEW f \in [Objs -> Buffers],
         job' = [job EXCEPT ![j] = NoJob], scan' = scan,
         torn' \subseteq torn, \A t \in torn : t[1] # j => t \in torn',
         bo' = [o \in Objs |-> IF o \in job[j].bos THEN Put(f[o]) ELSE bo[o]],
         \A o \in job[j].bos :
            /\ Sound(f[o]) /\ RefsOf(f[o]) = RefsOf(bo[o]) /\ Keeps(bo[o], f[o])
            /\ PinsOf(f[o]) = PinsOf(bo[o]) - One(job[j].pc \in PinStates),
         scan.pc = "sure" /\ scan.obj \in job[j].bos => Body(f[scan.obj]) = Body(bo[scan.obj])
  PROVE  IInv'
<1>1. /\ NoJob \in Submits /\ NoJob.pc = "none" /\ NoJob.bos = {}
      /\ NoJob.pc \notin FlightStates \cup HoldStates \cup MapStates
  BY DEF NoJob, Submits, States, FlightStates, HoldStates, MapStates
<1>2. job[j].bos \subseteq Objs
  BY DEF IInv, TypeInv, Submits
<1>3. \A o \in job[j].bos :
         /\ bo'[o] \in Buffers /\ Sound(bo'[o])
         /\ PinsOf(bo'[o]) = PinsOf(bo[o]) - One(job[j].pc \in PinStates)
         /\ RefsOf(bo'[o]) = RefsOf(bo[o]) - 1
         /\ \A i \in Jobs \ {j} : o \in job[i].bos => Body(bo'[o]) = Body(f[o])
         /\ scan.obj = o => Body(bo'[o]) = Body(f[o])
  <2> SUFFICES ASSUME NEW o \in job[j].bos
               PROVE  /\ Put(f[o]) \in Buffers /\ Sound(Put(f[o]))
                      /\ PinsOf(Put(f[o])) = PinsOf(bo[o]) - One(job[j].pc \in PinStates)
                      /\ RefsOf(Put(f[o])) = RefsOf(bo[o]) - 1
                      /\ \A i \in Jobs \ {j} : o \in job[i].bos => Body(Put(f[o])) = Body(f[o])
                      /\ scan.obj = o => Body(Put(f[o])) = Body(f[o])
    BY <1>2
  <2>1. f[o] \in Buffers
    BY <1>2
  <2> QED BY <2>1, PutBy
<1>4. \A o \in Objs \ job[j].bos : bo'[o] = bo[o] /\ bo[o] \in Buffers /\ Sound(bo[o])
  BY DEF IInv, TypeInv, AllSound
<1>5. bo' \in [Objs -> Buffers] /\ \A o \in Objs : Sound(bo'[o])
  <2>1. \A o \in Objs : bo'[o] \in Buffers /\ Sound(bo'[o])
    BY <1>3, <1>4
  <2> QED BY <2>1
<1>6. \A o \in Objs : PinsOf(bo[o]) \in Int /\ RefsOf(bo[o]) \in Int
  BY DEF IInv, TypeInv, PinsOf, RefsOf, Buffers, One
<1>7. \A o \in Objs :
         PinsOf(bo'[o]) = PinsOf(bo[o]) - One(o \in job[j].bos /\ job[j].pc \in PinStates)
                                        + One(o \in NoJob.bos /\ NoJob.pc \in PinStates)
  <2> SUFFICES ASSUME NEW o \in Objs
               PROVE  PinsOf(bo'[o]) = PinsOf(bo[o])
                        - One(o \in job[j].bos /\ job[j].pc \in PinStates)
                        + One(o \in NoJob.bos /\ NoJob.pc \in PinStates)
    OBVIOUS
  <2>1. One(o \in NoJob.bos /\ NoJob.pc \in PinStates) = 0
    BY <1>1 DEF One
  <2>2. CASE o \in job[j].bos
    <3>1. One(o \in job[j].bos /\ job[j].pc \in PinStates) = One(job[j].pc \in PinStates)
      BY <2>2 DEF One
    <3>2. One(job[j].pc \in PinStates) \in Nat
      BY DEF One
    <3>3. PinsOf(bo'[o]) = PinsOf(bo[o]) - One(job[j].pc \in PinStates) /\ PinsOf(bo[o]) \in Int
      BY <2>2, <1>3, <1>6
    <3> QED BY <2>1, <3>1, <3>2, <3>3
  <2>3. CASE o \notin job[j].bos
    <3>1. One(o \in job[j].bos /\ job[j].pc \in PinStates) = 0
      BY <2>3 DEF One
    <3> QED BY <2>1, <2>3, <3>1, <1>4, <1>6
  <2> QED BY <2>2, <2>3
<1>8. \A o \in Objs :
         RefsOf(bo'[o]) = RefsOf(bo[o]) - One(o \in job[j].bos) + One(o \in NoJob.bos)
  <2> SUFFICES ASSUME NEW o \in Objs
               PROVE  RefsOf(bo'[o]) = RefsOf(bo[o]) - One(o \in job[j].bos) + One(o \in NoJob.bos)
    OBVIOUS
  <2>1. One(o \in NoJob.bos) = 0
    BY <1>1 DEF One
  <2>2. CASE o \in job[j].bos
    <3>1. One(o \in job[j].bos) = 1
      BY <2>2 DEF One
    <3>2. RefsOf(bo'[o]) = RefsOf(bo[o]) - 1 /\ RefsOf(bo[o]) \in Int
      BY <2>2, <1>3, <1>6
    <3> QED BY <2>1, <3>1, <3>2
  <2>3. CASE o \notin job[j].bos
    <3>1. One(o \in job[j].bos) = 0
      BY <2>3 DEF One
    <3> QED BY <2>1, <2>3, <3>1, <1>4, <1>6
  <2> QED BY <2>2, <2>3
<1>9. \A i \in Jobs \ {j} : \A o \in job[i].bos : Keeps(bo[o], bo'[o])
  <2> SUFFICES ASSUME NEW i \in Jobs \ {j}, NEW o \in job[i].bos PROVE Keeps(bo[o], bo'[o])
    OBVIOUS
  <2>1. o \in Objs
    BY DEF IInv, TypeInv, Submits
  <2>2. CASE o \in job[j].bos
    <3>1. Body(bo'[o]) = Body(f[o])
      BY <2>2, <1>3
    <3>2. Keeps(f[o], bo'[o])
      BY <3>1, BodyKeeps
    <3>3. Keeps(bo[o], f[o])
      BY <2>2
    <3> QED BY <3>2, <3>3 DEF Keeps
  <2>3. CASE o \notin job[j].bos
    BY <2>1, <2>3, <1>4 DEF Keeps
  <2> QED BY <2>2, <2>3
<1>10. scan.pc = "sure" => Body(bo'[scan.obj]) = Body(bo[scan.obj])
  BY <1>3, <1>4 DEF IInv, TypeInv
<1> QED BY <1>1, <1>5, <1>7, <1>8, <1>9, <1>10, SubmitStep

LEMMA FailKeeps == ASSUME IInv, NEW j \in Jobs, Fail(j) PROVE IInv'
<1> DEFINE f == [o \in Objs |-> UnpinnedIfAny(j, bo[o])]
<1>1. /\ job[j].pc \in {"found", "locked", "pinned", "doomed"}
      /\ job' = [job EXCEPT ![j] = NoJob] /\ scan' = scan /\ torn' = torn
  BY DEF Fail
<1>2. bo' = [o \in Objs |-> IF o \in job[j].bos THEN Put(UnpinnedIfAny(j, bo[o])) ELSE bo[o]]
  BY DEF Fail, Each
<1>3. bo' = [o \in Objs |-> IF o \in job[j].bos THEN Put(f[o]) ELSE bo[o]]
  BY <1>2
<1>4. \A o \in Objs : bo[o] \in Buffers /\ Sound(bo[o])
                      /\ PinsOf(bo[o]) \in Int /\ RefsOf(bo[o]) \in Int
  BY DEF IInv, TypeInv, AllSound, PinsOf, RefsOf, Buffers, One
<1>5. \A o \in Objs :
         /\ f[o] \in Buffers /\ Sound(f[o]) /\ RefsOf(f[o]) = RefsOf(bo[o]) /\ Keeps(bo[o], f[o])
         /\ PinsOf(f[o]) = PinsOf(bo[o]) - One(job[j].pc \in PinStates)
         /\ job[j].pc \in {"found", "locked"} => f[o] = bo[o]
  <2> SUFFICES ASSUME NEW o \in Objs
      PROVE /\ f[o] \in Buffers /\ Sound(f[o]) /\ RefsOf(f[o]) = RefsOf(bo[o]) /\ Keeps(bo[o], f[o])
            /\ PinsOf(f[o]) = PinsOf(bo[o]) - One(job[j].pc \in PinStates)
            /\ job[j].pc \in {"found", "locked"} => f[o] = bo[o]
    OBVIOUS
  <2>1. CASE job[j].pc \in {"pinned", "doomed"}
    <3>1. One(job[j].pc \in PinStates) = 1 /\ f[o] = Unpinned(bo[o])
      BY <2>1 DEF One, PinStates, UnpinnedIfAny
    <3> QED BY <2>1, <3>1, <1>4, UnpinnedIs
  <2>2. CASE job[j].pc \in {"found", "locked"}
    <3>1. One(job[j].pc \in PinStates) = 0 /\ f[o] = bo[o]
      BY <2>2 DEF One, PinStates, UnpinnedIfAny
    <3> QED BY <2>2, <3>1, <1>4 DEF Keeps
  <2> QED BY <2>1, <2>2, <1>1
<1>6. f \in [Objs -> Buffers]
  BY <1>5
<1> HIDE DEF f
<1>7. scan.pc = "sure" /\ scan.obj \in job[j].bos => Body(f[scan.obj]) = Body(bo[scan.obj])
  <2> SUFFICES ASSUME scan.pc = "sure", scan.obj \in job[j].bos
               PROVE  f[scan.obj] = bo[scan.obj]
    OBVIOUS
  <2>1. job[j].pc \notin HoldStates /\ scan.obj \in Objs
    BY DEF IInv, TypeInv, Exclusive
  <2>2. job[j].pc = "found"
    BY <2>1, <1>1 DEF HoldStates
  <2> QED BY <2>1, <2>2, <1>5
<1>8. job[j].bos \subseteq Objs
  BY DEF IInv, TypeInv, Submits
<1> QED BY <1>1, <1>3, <1>5, <1>6, <1>7, <1>8, LetThemGo

LEMMA RetireSubmitKeeps == ASSUME IInv, NEW j \in Jobs, RetireSubmit(j) PROVE IInv'
<1>1. /\ job[j].pc = "finished" /\ job' = [job EXCEPT ![j] = NoJob] /\ scan' = scan
      /\ torn' = {t \in torn : t[1] # j}
      /\ bo' = [o \in Objs |-> IF o \in job[j].bos THEN Put(bo[o]) ELSE bo[o]]
  BY DEF RetireSubmit, Each
<1>2. bo \in [Objs -> Buffers] /\ job[j].bos \subseteq Objs
  BY DEF IInv, TypeInv, Submits
<1>3. One(job[j].pc \in PinStates) = 0
  BY <1>1 DEF One, PinStates
<1>4. \A o \in job[j].bos :
            /\ Sound(bo[o]) /\ Keeps(bo[o], bo[o])
            /\ PinsOf(bo[o]) = PinsOf(bo[o]) - One(job[j].pc \in PinStates)
  BY <1>2, <1>3 DEF IInv, AllSound, Keeps, PinsOf, Buffers
<1> QED BY <1>1, <1>2, <1>4, LetThemGo

-----------------------------------------------------------------------------
(* The invariant, and what follows from it. *)

LEMMA StepKeeps == IInv /\ [Next]_vars => IInv'
<1> SUFFICES ASSUME IInv, [Next]_vars PROVE IInv'
  OBVIOUS
<1>1. ASSUME NEW o \in Objs, Object(o) PROVE IInv'
  <2>1. ASSUME NEW madv \in {"willneed", "dontneed"}, Madvise(o, madv) PROVE IInv'
    BY <2>1, MadviseKeeps
  <2>2. ASSUME NEW s \in Spaces, GetIova(o, s) PROVE IInv'
    BY <2>2, GetIovaKeeps
  <2>3. ASSUME NEW s \in Spaces, ClearIova(o, s) PROVE IInv'
    BY <2>3, ClearIovaKeeps
  <2>4. CASE Create(o) \/ CloseHandle(o) \/ Mmap(o) \/ Munmap(o) \/ Fault(o)
    BY <2>4, CreateKeeps, CloseHandleKeeps, MmapKeeps, MunmapKeeps, FaultKeeps
  <2>5. CASE Attach(o) \/ Detach(o) \/ Vmap(o) \/ Vunmap(o)
    BY <2>5, AttachKeeps, DetachKeeps, VmapKeeps, VunmapKeeps
  <2> QED BY <1>1, <2>1, <2>2, <2>3, <2>4, <2>5 DEF Object
<1>2. ASSUME NEW j \in Jobs, Submit(j) PROVE IInv'
  BY <1>2, LookupKeeps, LockKeeps, MapAllKeeps, MapSomeKeeps, PinAllKeeps, PushKeeps, FailKeeps
     DEF Submit
<1>3. ASSUME NEW j \in Jobs, Job(j) PROVE IInv'
  BY <1>3, RunKeeps, FinishKeeps, RetireSubmitKeeps DEF Job
<1>4. CASE Shrinker
  BY <1>4, PickKeeps, MakeSureKeeps, GiveUpKeeps, ShrinkKeeps DEF Shrinker
<1>5. CASE UNCHANGED vars
  <2>1. bo' = bo /\ job' = job /\ scan' = scan /\ torn' = torn
    BY <1>5 DEF vars
  <2>2. TypeInv' /\ Exclusive' /\ SureInv' /\ MapInv'
    BY <2>1 DEF IInv, TypeInv, Exclusive, SureInv, MapInv
  <2>3. \A o \in Objs : Users(o, PinStates)' = Users(o, PinStates) /\ Holding(o)' = Holding(o)
    BY <2>1 DEF Users, Holding
  <2>4. Accounted'
    BY <2>1, <2>3 DEF IInv, Accounted
  <2>5. AllSound'
    BY <2>1 DEF IInv, AllSound
  <2> QED BY <2>2, <2>4, <2>5 DEF IInv
<1> QED BY <1>1, <1>2, <1>3, <1>4, <1>5 DEF Next

LEMMA Invariant == Spec => []IInv
<1> QED BY InitHolds, StepKeeps, PTL DEF Spec

(* Whatever way a submit ends, pins and references are those of their holders. *)
THEOREM HoldersAlwaysCounted == Spec => []HoldersAreCounted
<1>1. IInv => HoldersAreCounted
  <2> SUFFICES ASSUME IInv, NEW o \in Objs
               PROVE  /\ bo[o].pins = Cardinality(Users(o, {"pinned", "doomed", "pushed"}))
                                        + bo[o].attached + bo[o].vmaps
                      /\ bo[o].refs = Cardinality({j \in Jobs : o \in job[j].bos})
                                        + Shares(o) + One(bo[o].handle) + One(scan.obj = o)
    BY DEF HoldersAreCounted
  <2>1. PinsOf(bo[o]) = Cardinality(Users(o, PinStates))
    BY DEF IInv, Accounted
  <2>2. RefsOf(bo[o]) = Cardinality(Holding(o)) + One(scan.obj = o)
    BY DEF IInv, Accounted
  <2>3. bo[o] \in Buffers
    BY DEF IInv, TypeInv
  <2>4. /\ bo[o].pins \in Int /\ bo[o].attached \in Nat /\ bo[o].vmaps \in Nat
        /\ bo[o].refs \in Nat
    BY <2>3 DEF Buffers
  <2>5. Cardinality(Users(o, PinStates)) \in Nat /\ Cardinality(Holding(o)) \in Nat
    BY Counts DEF IInv
  <2>6. One(bo[o].handle) \in Nat /\ One(bo[o].mmap # "none") \in Nat /\ One(scan.obj = o) \in Nat
    BY DEF One
  <2>7. bo[o].pins = Cardinality(Users(o, PinStates)) + bo[o].attached + bo[o].vmaps
    BY <2>1, <2>4, <2>5 DEF PinsOf
  <2>8. bo[o].refs = Cardinality(Holding(o)) + Shares(o) + One(bo[o].handle) + One(scan.obj = o)
    <3> DEFINE n == Cardinality(Holding(o))
               d == One(bo[o].handle)
               m == One(bo[o].mmap # "none")
               z == One(scan.obj = o)
               r == bo[o].refs
               a == bo[o].attached
               v == bo[o].vmaps
    <3>1. r - a - v - d - m = n + z
      BY <2>2 DEF RefsOf
    <3>2. /\ d \in Nat /\ m \in Nat /\ z \in Nat /\ n \in Nat
          /\ r \in Nat /\ a \in Nat /\ v \in Nat
      BY <2>4, <2>5, <2>6
    <3>3. Shares(o) = a + v + m
      BY DEF Shares
    <3> HIDE DEF n, d, m, z, r, a, v
    <3>4. r = n + (a + v + m) + d + z
      BY <3>1, <3>2
    <3> QED BY <3>3, <3>4 DEF n, d, z, r
  <2> QED BY <2>7, <2>8 DEF PinStates, Holding
<1> QED BY <1>1, Invariant, PTL

(* What a pushed job uses stays backed and mapped until its fence. *)
THEOREM FlightStaysMapped == Spec => []InFlightIsMapped
<1>1. IInv => InFlightIsMapped
  BY DEF IInv, MapInv, InFlightIsMapped, MapStates
<1> QED BY <1>1, Invariant, PTL

(* Nothing maps pages that are gone. *)
THEOREM NothingEverMapsTheGone == Spec => []NothingMapsTheGone
<1>1. IInv => NothingMapsTheGone
  BY DEF IInv, AllSound, Sound, NothingMapsTheGone
<1> QED BY <1>1, Invariant, PTL

-----------------------------------------------------------------------------
(* What is needed is kept: only Shrink purges, and what it purges is not needed. *)

Retains == \A o \in Objs : bo[o].madv = "willneed" => bo'[o].madv # "purged"

LEMMA MadvIs ==
  ASSUME NEW b \in Buffers
  PROVE  /\ UpdateLru(b).madv = b.madv /\ Backed(b).madv = b.madv
         /\ Pinned(b).madv = b.madv /\ Unpinned(b).madv = b.madv
         /\ Got(b).madv = b.madv /\ Back(b).madv = b.madv
         /\ Put(b).madv \in {b.madv, "willneed"}
         /\ \A s \in Spaces : Opened(b, s).madv = b.madv
<1>1. UpdateLru(b).madv = b.madv
  BY DEF UpdateLru, Buffers
<1>2. Backed(b).madv = b.madv
  BY BackedIs
<1>3. Pinned(b).madv = b.madv
  BY DEF Pinned, Buffers
<1>4. Unpinned(b).madv = b.madv
  BY DEF Unpinned, UpdateLru, Buffers
<1>5. Got(b).madv = b.madv
  BY DEF Got, Buffers
<1>6. Back(b).madv = b.madv
  BY DEF Back, Buffers
<1>7. Put(b).madv \in {b.madv, "willneed"}
  BY DEF Put, Gone, Buffers
<1>8. \A s \in Spaces : Opened(b, s).madv = b.madv
  BY OpenedIs
<1> QED BY <1>1, <1>2, <1>3, <1>4, <1>5, <1>6, <1>7, <1>8

LEMMA MappedMadv ==
  ASSUME NEW b \in Buffers, NEW s \in Spaces
  PROVE  /\ Mapped(b, s).madv = b.madv
         /\ \A c \in MapFailures(b, s) : c.madv = b.madv
<1> DEFINE e == Opened(b, s)
<1>1. e \in Buffers /\ e.madv = b.madv
  BY OpenedIs
<1>2. MapFailures(b, s) \subseteq {b, e, Backed(e)} /\ Mapped(b, s) = [Backed(e) EXCEPT !.vma[s] = "mapped"]
  BY DEF MapFailures, Mapped
<1> HIDE DEF e
<1>3. Backed(e) \in Buffers /\ Backed(e).madv = b.madv
  BY <1>1, BackedIs
<1>4. [Backed(e) EXCEPT !.vma[s] = "mapped"].madv = Backed(e).madv
  BY <1>3 DEF Buffers
<1> QED BY <1>1, <1>2, <1>3, <1>4

LEMMA OneRetains ==
  ASSUME IInv, NEW o \in Objs, NEW c, Becomes(o, c),
         c.madv = bo[o].madv \/ c.madv \in {"willneed", "dontneed"}
  PROVE  Retains
<1>1. \A p \in Objs : bo'[p] = IF p = o THEN c ELSE bo[p]
  BY DEF Becomes, IInv, TypeInv
<1> QED BY <1>1 DEF Retains

LEMMA ObjectRetains == ASSUME IInv, NEW o \in Objs, Object(o) PROVE Retains
<1> DEFINE b == bo[o]
<1>0. b \in Buffers
  BY DEF IInv, TypeInv
<1>1. CASE Create(o)
  <2>1. New.madv = "willneed" /\ Imported.madv = "willneed"
    BY DEF New, Imported, Gone
  <2> QED BY <1>1, <2>1, OneRetains DEF Create
<1>2. CASE CloseHandle(o)
  <2> DEFINE c == [b EXCEPT !.handle = FALSE]
  <2>1. c \in Buffers /\ c.madv = b.madv
    BY <1>0 DEF Buffers
  <2>2. Becomes(o, Put(c))
    BY <1>2 DEF CloseHandle
  <2> HIDE DEF c
  <2> QED BY <2>1, <2>2, MadvIs, OneRetains
<1>3. CASE Mmap(o)
  <2> DEFINE c == [b EXCEPT !.mmap = "open"]
  <2>1. c \in Buffers /\ c.madv = b.madv
    BY <1>0 DEF Buffers
  <2>2. Becomes(o, Got(c))
    BY <1>3 DEF Mmap
  <2> HIDE DEF c
  <2> QED BY <2>1, <2>2, MadvIs, OneRetains
<1>4. CASE Munmap(o)
  <2> DEFINE c == [b EXCEPT !.mmap = "none"]
  <2>1. c \in Buffers /\ c.madv = b.madv
    BY <1>0 DEF Buffers
  <2>2. Becomes(o, Put(c))
    BY <1>4 DEF Munmap
  <2> HIDE DEF c
  <2> QED BY <2>1, <2>2, MadvIs, OneRetains
<1>5. CASE Fault(o)
  <2>1. Backed(b) \in Buffers /\ Backed(b).madv = b.madv
    BY <1>0, BackedIs
  <2>2. [Backed(b) EXCEPT !.mmap = "touched"].madv = Backed(b).madv
    BY <2>1 DEF Buffers
  <2>3. Becomes(o, [Backed(b) EXCEPT !.mmap = "touched"])
    BY <1>5 DEF Fault
  <2> QED BY <2>1, <2>2, <2>3, OneRetains
<1>6. ASSUME NEW madv \in {"willneed", "dontneed"}, Madvise(o, madv) PROVE Retains
  <2> DEFINE c == [b EXCEPT !.madv = IF @ = "purged" THEN @ ELSE madv]
  <2>1. c \in Buffers /\ (c.madv = b.madv \/ c.madv = madv)
    BY <1>0 DEF Buffers
  <2>2. Becomes(o, UpdateLru(c))
    BY <1>6 DEF Madvise
  <2> HIDE DEF c
  <2>3. UpdateLru(c).madv = c.madv
    BY <2>1, MadvIs
  <2> QED BY <2>1, <2>2, <2>3, OneRetains
<1>7. ASSUME NEW s \in Spaces, GetIova(o, s) PROVE Retains
  BY <1>0, <1>7, MadvIs, OneRetains DEF GetIova
<1>8. ASSUME NEW s \in Spaces, ClearIova(o, s) PROVE Retains
  <2>1. [b EXCEPT !.vma[s] = "none"].madv = b.madv
    BY <1>0 DEF Buffers
  <2>2. Becomes(o, [b EXCEPT !.vma[s] = "none"])
    BY <1>8 DEF ClearIova
  <2> QED BY <2>1, <2>2, OneRetains
<1>9. CASE Attach(o)
  <2> DEFINE e == Pinned(Backed(b))
             c == [e EXCEPT !.attached = @ + 1]
  <2>1. e \in Buffers /\ e.madv = b.madv
    BY <1>0, BackedIs, PinnedIs, MadvIs
  <2>2. Becomes(o, Got(c))
    BY <1>9 DEF Attach
  <2> HIDE DEF e
  <2>3. c \in Buffers /\ c.madv = e.madv
    BY <2>1 DEF Buffers
  <2> HIDE DEF c
  <2> QED BY <2>1, <2>2, <2>3, MadvIs, OneRetains
<1>10. CASE Detach(o)
  <2> DEFINE e == Unpinned(b)
             c == [e EXCEPT !.attached = @ - 1]
  <2>1. e \in Buffers /\ e.madv = b.madv /\ e.attached > 0
    <3>1. b.attached > 0
      BY <1>10 DEF Detach
    <3>2. e.attached = b.attached
      BY <1>0 DEF Unpinned, UpdateLru, Buffers
    <3> HIDE DEF e
    <3>3. e \in Buffers /\ e.madv = b.madv
      BY <1>0, UnpinnedIs, MadvIs DEF e
    <3> QED BY <3>1, <3>2, <3>3
  <2>2. Becomes(o, Put(c))
    BY <1>10 DEF Detach
  <2> HIDE DEF e
  <2>3. c \in Buffers /\ c.madv = e.madv
    BY <2>1 DEF Buffers
  <2> HIDE DEF c
  <2> QED BY <2>1, <2>2, <2>3, MadvIs, OneRetains
<1>11. CASE Vmap(o)
  <2> DEFINE e == Pinned(Backed(b))
             d == [e EXCEPT !.vmaps = @ + 1]
             c == [e EXCEPT !.vmaps = @ + 1, !.vaddr = TRUE]
  <2>1. e \in Buffers /\ e.madv = b.madv
    BY <1>0, BackedIs, PinnedIs, MadvIs
  <2>2. Becomes(o, Got(c)) \/ Becomes(o, Unpinned(e))
    BY <1>11 DEF Vmap
  <2> HIDE DEF e
  <2>3. d \in Buffers /\ d.madv = e.madv
    BY <2>1 DEF Buffers
  <2>4. c = [d EXCEPT !.vaddr = TRUE]
    OBVIOUS
  <2> HIDE DEF c, d
  <2>5. c \in Buffers /\ c.madv = d.madv
    BY <2>3, <2>4 DEF Buffers
  <2>6. Got(c).madv = b.madv /\ Unpinned(e).madv = b.madv
    BY <2>1, <2>3, <2>5, MadvIs
  <2> QED BY <2>2, <2>6, OneRetains
<1>12. CASE Vunmap(o)
  <2> DEFINE e == Unpinned(b)
             c == [e EXCEPT !.vmaps = @ - 1]
  <2>1. e \in Buffers /\ e.madv = b.madv /\ e.vmaps > 0
    <3>1. b.vmaps > 0
      BY <1>12 DEF Vunmap
    <3>2. e.vmaps = b.vmaps
      BY <1>0 DEF Unpinned, UpdateLru, Buffers
    <3> HIDE DEF e
    <3>3. e \in Buffers /\ e.madv = b.madv
      BY <1>0, UnpinnedIs, MadvIs DEF e
    <3> QED BY <3>1, <3>2, <3>3
  <2>2. Becomes(o, Put(c))
    BY <1>12 DEF Vunmap
  <2> HIDE DEF e
  <2>3. c \in Buffers /\ c.madv = e.madv
    BY <2>1 DEF Buffers
  <2> HIDE DEF c
  <2> QED BY <2>1, <2>2, <2>3, MadvIs, OneRetains
<1> QED BY <1>1, <1>2, <1>3, <1>4, <1>5, <1>6, <1>7, <1>8, <1>9, <1>10, <1>11, <1>12 DEF Object

LEMMA SubmitRetains ==
  ASSUME IInv, NEW j \in Jobs, Submit(j) \/ Job(j) PROVE Retains
<1> DEFINE s == job[j].space
<1>1. \A o \in Objs : bo[o] \in Buffers
  BY DEF IInv, TypeInv
<1>2. SUFFICES ASSUME NEW o \in Objs PROVE bo'[o].madv = bo[o].madv \/ bo'[o].madv = "willneed"
  BY DEF Retains
<1>3. CASE Lookup(j)
  <2>1. bo'[o] = bo[o] \/ bo'[o] = Got(bo[o])
    BY <1>3 DEF Lookup, Each
  <2> QED BY <1>1, <2>1, MadvIs
<1>4. CASE Lock(j) \/ Push(j) \/ Finish(j)
  BY <1>4 DEF Lock, Push, Finish
<1>5. CASE MapAll(j)
  <2>1. bo'[o] = bo[o] \/ bo'[o] = Mapped(bo[o], s)
    BY <1>5 DEF MapAll, Each
  <2>2. s \in Spaces
    BY <1>5 DEF MapAll, IInv, TypeInv
  <2> HIDE DEF s
  <2> QED BY <1>1, <2>1, <2>2, MappedMadv
<1>6. CASE MapSome(j)
  <2>1. PICK f \in job[j].bos : \E S \in SUBSET (job[j].bos \ {f}) : \E b \in MapFailures(bo[f], s) :
           bo' = [[p \in Objs |-> IF p \in S THEN Mapped(bo[p], s) ELSE bo[p]] EXCEPT ![f] = b]
    BY <1>6 DEF MapSome, Each
  <2>2. bo'[o] = bo[o] \/ bo'[o] = Mapped(bo[o], s) \/ bo'[o] \in MapFailures(bo[o], s)
    BY <2>1
  <2>3. s \in Spaces
    BY <1>6 DEF MapSome, IInv, TypeInv
  <2> HIDE DEF s
  <2> QED BY <1>1, <2>2, <2>3, MappedMadv
<1>7. CASE PinAll(j)
  <2>1. bo'[o] = bo[o] \/ bo'[o] = Pinned(bo[o])
    BY <1>7 DEF PinAll, Each
  <2> QED BY <1>1, <2>1, MadvIs
<1>8. CASE Run(j)
  <2>1. bo'[o] = bo[o] \/ bo'[o] = Unpinned(bo[o])
    BY <1>8 DEF Run, Each
  <2> QED BY <1>1, <2>1, MadvIs
<1>9. CASE RetireSubmit(j)
  <2>1. bo'[o] = bo[o] \/ bo'[o] = Put(bo[o])
    BY <1>9 DEF RetireSubmit, Each
  <2> QED BY <1>1, <2>1, MadvIs
<1>10. CASE Fail(j)
  <2> DEFINE e == UnpinnedIfAny(j, bo[o])
  <2>1. bo'[o] = bo[o] \/ bo'[o] = Put(e)
    BY <1>10 DEF Fail, Each
  <2>2. e = bo[o] \/ e = Unpinned(bo[o])
    BY DEF UnpinnedIfAny
  <2> HIDE DEF e
  <2>3. e \in Buffers /\ e.madv = bo[o].madv
    BY <1>1, <2>2, UnpinnedIs, MadvIs
  <2> QED BY <2>1, <2>3, MadvIs
<1> QED BY <1>3, <1>4, <1>5, <1>6, <1>7, <1>8, <1>9, <1>10 DEF Submit, Job

LEMMA ShrinkerRetains == ASSUME IInv, Shrinker PROVE Retains
<1>1. ASSUME NEW o \in Objs, Pick(o) PROVE Retains
  <2> DEFINE c == [bo[o] EXCEPT !.lru = "scan"]
  <2>0. bo[o] \in Buffers
    BY DEF IInv, TypeInv
  <2>1. c \in Buffers /\ c.madv = bo[o].madv
    BY <2>0 DEF Buffers
  <2>2. Becomes(o, Got(c))
    BY <1>1 DEF Pick
  <2> HIDE DEF c
  <2> QED BY <2>1, <2>2, MadvIs, OneRetains
<1>2. CASE MakeSure
  BY <1>2 DEF MakeSure, Retains
<1>3. ASSUME scan.pc # "idle" PROVE scan.obj \in Objs /\ bo[scan.obj] \in Buffers
                                    /\ scan.from \in {"willneed", "dontneed"} /\ Sound(bo[scan.obj])
  BY <1>3 DEF IInv, TypeInv, AllSound
<1>4. CASE GiveUp
  <2> DEFINE c == Back(bo[scan.obj])
  <2>1. scan.pc # "idle" /\ Becomes(scan.obj, Put(c))
    BY <1>4 DEF GiveUp
  <2>2. c \in Buffers /\ c.madv = bo[scan.obj].madv
    BY <1>3, <2>1, BackIs, MadvIs
  <2> HIDE DEF c
  <2>3. Put(c).madv \in {c.madv, "willneed"}
    BY <2>2, MadvIs
  <2> QED BY <1>3, <2>1, <2>2, <2>3, OneRetains
<1>5. CASE Shrink
  <2> DEFINE o == scan.obj
             b == IF scan.from = "dontneed" THEN Purged(bo[o]) ELSE Evicted(bo[o])
  <2>1. scan.pc = "sure" /\ Becomes(o, Put(Back(b)))
    BY <1>5 DEF Shrink
  <2>2. ~bo[o].imported /\ (scan.from # "dontneed" => ~bo[o].vaddr)
        /\ (scan.from = "dontneed" => bo[o].madv = "dontneed")
    BY <2>1 DEF IInv, SureInv
  <2>3. o \in Objs /\ bo[o] \in Buffers /\ Sound(bo[o]) /\ scan.from \in {"willneed", "dontneed"}
    BY <2>1, <1>3
  <2>4. b \in Buffers
    BY <2>2, <2>3, PurgedIs, EvictedIs
  <2>5. bo[o].madv = "dontneed" \/ b.madv = bo[o].madv
    <3>1. CASE scan.from = "dontneed"
      BY <3>1, <2>2
    <3>2. CASE scan.from # "dontneed"
      <4>1. Evicted(bo[o]).madv = bo[o].madv
        <5> DEFINE u == Unmapped(bo[o], FALSE)
                   t == Untouched(u)
        <5>1. u \in Buffers
          BY <2>3, UnmappedIs
        <5>2. u.madv = bo[o].madv
          BY <2>3 DEF Unmapped, Buffers
        <5> HIDE DEF u
        <5>3. t \in Buffers
          BY <5>1, UntouchedIs
        <5>4. t.madv = u.madv
          BY <5>1 DEF Untouched, Buffers
        <5>5. Evicted(bo[o]) = Unbacked(t)
          BY DEF Evicted, t, u
        <5> HIDE DEF t
        <5>6. Unbacked(t).madv = t.madv
          BY <5>3 DEF Unbacked, UpdateLru, Buffers
        <5> QED BY <5>2, <5>4, <5>5, <5>6
      <4> QED BY <3>2, <4>1
    <3> QED BY <3>1, <3>2
  <2> HIDE DEF b
  <2>6. Back(b) \in Buffers /\ Back(b).madv = b.madv
    BY <2>3, <2>4, BackIs, MadvIs
  <2>7. Put(Back(b)).madv \in {b.madv, "willneed"}
    BY <2>6, MadvIs
  <2>8. \A p \in Objs : bo'[p] = IF p = o THEN Put(Back(b)) ELSE bo[p]
    BY <2>1 DEF Becomes, IInv, TypeInv
  <2> QED BY <2>5, <2>7, <2>8 DEF Retains
<1> QED BY <1>1, <1>2, <1>4, <1>5 DEF Shrinker

(* madvise(WILLNEED) is never made a liar of. *)
THEOREM RetainedAlwaysKept == Spec => RetainedIsKept
<1>1. IInv /\ [Next]_vars => [Retains]_vars
  BY ObjectRetains, SubmitRetains, ShrinkerRetains DEF Next
<1>2. [Retains]_vars <=> [\A o \in Objs : bo[o].madv = "willneed" => bo'[o].madv # "purged"]_vars
  BY DEF Retains
<1> QED BY <1>1, <1>2, Invariant, PTL DEF Spec, RetainedIsKept

-----------------------------------------------------------------------------
(* The LRUs: an object told is in the one of its state; what a step leaves of an
   object is told, or as it was as far as its LRU goes. *)

Told(b) == \/ b.refs = 0 /\ b.lru = "none"
           \/ b.refs > 0 /\ b.lru = Home(b)

Alike(b, c) ==
    /\ b.refs > 0 /\ c.refs > 0 /\ c.lru = b.lru
    /\ Home(c) = Home(b) /\ c.imported = b.imported

Tells(b, c) == Told(c) \/ Alike(b, c)

LEMMA TellsOn ==
  ASSUME NEW a, NEW b, NEW c, Tells(a, b), Tells(b, c)
  PROVE  Tells(a, c)
  BY DEF Tells, Told, Alike

LEMMA SameTells ==
  ASSUME NEW b \in Buffers, b.refs > 0, NEW c, c.refs > 0, c.lru = b.lru, c.pages = b.pages,
         c.pins = b.pins, c.madv = b.madv, c.imported = b.imported
  PROVE  Tells(b, c)
  BY DEF Tells, Alike, Home

LEMMA UpdateTells ==
  ASSUME NEW b \in Buffers, b.refs > 0
  PROVE  Told(UpdateLru(b)) /\ UpdateLru(b).refs = b.refs
<1>1. Home(UpdateLru(b)) = Home(b) /\ UpdateLru(b).lru = Home(b) /\ UpdateLru(b).refs = b.refs
  BY DEF UpdateLru, Home, Buffers
<1> QED BY <1>1 DEF Told

LEMMA UnpinnedTells ==
  ASSUME NEW b \in Buffers, b.refs > 0
  PROVE  Told(Unpinned(b)) /\ Unpinned(b).refs = b.refs
<1> DEFINE c == [b EXCEPT !.pins = @ - 1]
<1>1. c \in Buffers /\ c.refs = b.refs /\ Unpinned(b) = UpdateLru(c)
  BY DEF Buffers, Unpinned
<1> HIDE DEF c
<1> QED BY <1>1, UpdateTells

LEMMA PinnedTells ==
  ASSUME NEW b \in Buffers, b.refs > 0, b.pages, b.pins >= 0
  PROVE  Told(Pinned(b)) /\ Pinned(b).refs = b.refs
<1>1. /\ Pinned(b).lru = "pinned" /\ Pinned(b).refs = b.refs /\ Pinned(b).pages
      /\ Pinned(b).pins > 0
  BY DEF Pinned, Buffers
<1>2. Home(Pinned(b)) = "pinned"
  BY <1>1 DEF Home
<1> QED BY <1>1, <1>2 DEF Told

LEMMA BackedTells ==
  ASSUME NEW b \in Buffers, b.refs > 0
  PROVE  Tells(b, Backed(b)) /\ Backed(b).refs = b.refs /\ Backed(b).pins = b.pins
<1> DEFINE c == [b EXCEPT !.pages = TRUE]
<1>1. c \in Buffers /\ c.refs = b.refs /\ c.pins = b.pins
  BY DEF Buffers
<1>2. Backed(b) = b \/ Backed(b) = UpdateLru(c)
  BY DEF Backed
<1> HIDE DEF c
<1>3. Tells(b, b)
  BY SameTells
<1>4. UpdateLru(c).pins = c.pins
  BY <1>1 DEF UpdateLru, Buffers
<1> QED BY <1>1, <1>2, <1>3, <1>4, UpdateTells DEF Tells

LEMMA OpenedTells ==
  ASSUME NEW b \in Buffers, b.refs > 0, NEW s \in Spaces
  PROVE  /\ Tells(b, Opened(b, s)) /\ Opened(b, s).refs = b.refs
         /\ Opened(b, s) \in Buffers
<1>1. /\ Opened(b, s).refs = b.refs /\ Opened(b, s).lru = b.lru /\ Opened(b, s).pages = b.pages
      /\ Opened(b, s).pins = b.pins /\ Opened(b, s).madv = b.madv
      /\ Opened(b, s).imported = b.imported
  BY DEF Opened, Buffers
<1> QED BY <1>1, SameTells, OpenedIs

LEMMA BackedOpenedTells ==
  ASSUME NEW b \in Buffers, b.refs > 0, NEW s \in Spaces
  PROVE  Tells(b, Backed(Opened(b, s))) /\ Backed(Opened(b, s)).refs = b.refs
<1> DEFINE e == Opened(b, s)
<1>1. Tells(b, e) /\ e.refs = b.refs /\ e \in Buffers
  BY OpenedTells
<1> HIDE DEF e
<1>2. Tells(e, Backed(e)) /\ Backed(e).refs = b.refs
  BY <1>1, BackedTells
<1>3. Tells(b, Backed(e))
  BY <1>1, <1>2, TellsOn
<1> QED BY <1>2, <1>3 DEF e

LEMMA MappedTells ==
  ASSUME NEW b \in Buffers, b.refs > 0, NEW s \in Spaces
  PROVE  /\ b.madv = "willneed" => Tells(b, Mapped(b, s))
         /\ \A c \in MapFailures(b, s) : Tells(b, c)
<1> DEFINE e == Backed(Opened(b, s))
           c == [e EXCEPT !.vma[s] = "mapped"]
<1>1. Tells(b, e) /\ e.refs = b.refs
  BY BackedOpenedTells
<1>2. ASSUME b.madv = "willneed" PROVE Tells(b, Mapped(b, s))
  <2>1. e \in Buffers
    BY <1>2, BackedOpenedIs
  <2>2. Mapped(b, s) = c
    BY DEF Mapped
  <2> HIDE DEF e
  <2>3. /\ c.refs = e.refs /\ c.lru = e.lru /\ c.pages = e.pages /\ c.pins = e.pins
        /\ c.madv = e.madv /\ c.imported = e.imported
    BY <2>1 DEF Buffers
  <2> HIDE DEF c
  <2>4. Tells(e, c)
    BY <1>1, <2>1, <2>3, SameTells
  <2> QED BY <1>1, <2>2, <2>4, TellsOn
<1>3. Tells(b, b) /\ Tells(b, Opened(b, s))
  BY SameTells, OpenedTells
<1>4. MapFailures(b, s) \subseteq {b, Opened(b, s), e}
  BY DEF MapFailures
<1> HIDE DEF e
<1> QED BY <1>1, <1>2, <1>3, <1>4

LEMMA GotTells ==
  ASSUME NEW b \in Buffers, b.refs > 0
  PROVE  Tells(b, Got(b))
<1>1. /\ Got(b).refs = b.refs + 1 /\ Got(b).lru = b.lru /\ Got(b).pages = b.pages
      /\ Got(b).pins = b.pins /\ Got(b).madv = b.madv /\ Got(b).imported = b.imported
  BY DEF Got, Buffers
<1>2. Got(b).refs > 0
  BY <1>1 DEF Buffers
<1> QED BY <1>1, <1>2, SameTells

LEMMA PutTells ==
  ASSUME NEW b \in Buffers, b.refs > 0
  PROVE  Tells(b, Put(b))
<1>1. CASE b.refs = 1
  BY <1>1 DEF Put, Tells, Told, Gone
<1>2. CASE b.refs # 1
  <2> DEFINE c == [b EXCEPT !.refs = @ - 1]
  <2>1. Put(b) = c
    BY <1>2 DEF Put
  <2>2. /\ c.refs > 0 /\ c.lru = b.lru /\ c.pages = b.pages
        /\ c.pins = b.pins /\ c.madv = b.madv /\ c.imported = b.imported
    BY <1>2 DEF Buffers
  <2> HIDE DEF c
  <2> QED BY <2>1, <2>2, SameTells
<1> QED BY <1>1, <1>2

(* Who holds an object is counted, so it is there. *)
LEMMA Referred ==
  ASSUME IInv, NEW o \in Objs
  PROVE  /\ bo[o] \in Buffers /\ bo[o].pins >= 0
         /\ bo[o].handle \/ bo[o].mmap # "none" \/ bo[o].attached > 0 \/ bo[o].vmaps > 0
               \/ scan.obj = o \/ (\E j \in Jobs : o \in job[j].bos)
            => bo[o].refs > 0
<1> DEFINE h == Cardinality(Holding(o))
           u == Cardinality(Users(o, PinStates))
           z == One(scan.obj = o)
<1>1. bo[o] \in Buffers /\ PinsOf(bo[o]) = u /\ RefsOf(bo[o]) = h + z
  BY DEF IInv, TypeInv, Accounted
<1>2. h \in Nat /\ u \in Nat /\ (\A j \in Jobs : o \in job[j].bos => h > 0)
  BY Counts DEF IInv
<1>3. z \in Nat /\ (scan.obj = o => z > 0)
  BY DEF One
<1> HIDE DEF h, u, z
<1>4. bo[o].pins = u + bo[o].attached + bo[o].vmaps
  BY <1>1, <1>2 DEF PinsOf, Buffers
<1> DEFINE x == One(bo[o].handle)
           y == One(bo[o].mmap # "none")
<1>5. /\ x \in Nat /\ (bo[o].handle => x > 0)
      /\ y \in Nat /\ (bo[o].mmap # "none" => y > 0)
  BY DEF One
<1>6. RefsOf(bo[o]) = bo[o].refs - bo[o].attached - bo[o].vmaps - x - y
  BY DEF RefsOf
<1> HIDE DEF x, y
<1>7. bo[o].refs \in Nat /\ bo[o].attached \in Nat /\ bo[o].vmaps \in Nat
  BY <1>1 DEF Buffers
<1>8. bo[o].refs = h + z + bo[o].attached + bo[o].vmaps + x + y
  BY <1>1, <1>2, <1>3, <1>5, <1>6, <1>7
<1>9. bo[o].pins >= 0
  BY <1>2, <1>4, <1>7
<1>10. ASSUME x > 0 \/ y > 0 \/ z > 0 \/ h > 0 \/ bo[o].attached > 0 \/ bo[o].vmaps > 0
       PROVE  bo[o].refs > 0
  <2>1. h \in Nat /\ z \in Nat /\ x \in Nat /\ y \in Nat
    BY <1>2, <1>3, <1>5
  <2> QED BY <1>7, <1>8, <1>10, <2>1
<1> QED BY <1>1, <1>2, <1>3, <1>5, <1>9, <1>10

(* A step that leaves the scan where it is. *)
LEMMA LruStep ==
  ASSUME IInv, LruTellsTheState, UNCHANGED scan,
         \A o \in Objs :
            \/ Told(bo'[o])
            \/ /\ bo'[o] = bo[o] \/ Alike(bo[o], bo'[o])
               /\ Users(o, {"doomed"}) # {} => Users(o, {"doomed"})' # {}
            \/ bo'[o].lru = "pinned" /\ Users(o, {"doomed"})' # {}
  PROVE  LruTellsTheState'
<1> DEFINE D(o) == Users(o, {"doomed"})
           E(o) == Users(o, {"doomed"})'
<1>1. SUFFICES ASSUME NEW o \in Objs
               PROVE  \/ Told(bo'[o])
                      \/ bo'[o].lru = "scan" /\ scan.obj = o /\ scan.from = Home(bo'[o])
                      \/ bo'[o].imported /\ bo'[o].lru = "pinned"
                      \/ bo'[o].lru = "pinned" /\ E(o) # {}
  BY DEF LruTellsTheState, Told, Home
<1>2. \/ Told(bo[o])
      \/ bo[o].lru = "scan" /\ scan.obj = o /\ scan.from = Home(bo[o])
      \/ bo[o].imported /\ bo[o].lru = "pinned"
      \/ bo[o].lru = "pinned" /\ D(o) # {}
  BY DEF LruTellsTheState, Told
<1>3. \/ Told(bo'[o])
      \/ (bo'[o] = bo[o] \/ Alike(bo[o], bo'[o])) /\ (D(o) # {} => E(o) # {})
      \/ bo'[o].lru = "pinned" /\ E(o) # {}
  OBVIOUS
<1> HIDE DEF D, E
<1>4. CASE Told(bo'[o])
  BY <1>4
<1>5. CASE bo'[o] = bo[o] /\ (D(o) # {} => E(o) # {})
  BY <1>2, <1>5
<1>6. CASE Alike(bo[o], bo'[o]) /\ (D(o) # {} => E(o) # {})
  BY <1>2, <1>6 DEF Alike, Told
<1> QED BY <1>3, <1>4, <1>5, <1>6

LEMMA OneTells ==
  ASSUME IInv, LruTellsTheState, NEW o \in Objs, NEW c, Becomes(o, c),
         UNCHANGED <<job, scan>>, Tells(bo[o], c)
  PROVE  LruTellsTheState'
<1>1. \A p \in Objs : bo'[p] = IF p = o THEN c ELSE bo[p]
  BY DEF Becomes, IInv, TypeInv
<1>2. \A p \in Objs : Users(p, {"doomed"})' = Users(p, {"doomed"})
  BY DEF Users
<1> QED BY <1>1, <1>2, LruStep DEF Tells

LEMMA ObjectTells ==
  ASSUME IInv, LruTellsTheState, NEW o \in Objs, Object(o) PROVE LruTellsTheState'
<1> DEFINE b == bo[o]
<1>0. b \in Buffers /\ b.pins >= 0
      /\ (b.handle \/ b.mmap # "none" \/ b.attached > 0 \/ b.vmaps > 0 => b.refs > 0)
  BY Referred
<1>1. CASE Create(o)
  <2>1. Told(New)
    BY DEF New, Gone, Told, Home
  <2>2. UNCHANGED <<job, scan>> /\ \E c \in {New, Imported} : Becomes(o, c)
    BY <1>1 DEF Create
  <2>3. CASE Becomes(o, New)
    BY <2>1, <2>2, <2>3, OneTells DEF Tells
  <2>4. CASE Becomes(o, Imported)
    <3>1. Imported.imported /\ Imported.lru = "pinned"
      BY DEF New, Imported, Gone
    <3>2. \A p \in Objs : bo'[p] = IF p = o THEN Imported ELSE bo[p]
      BY <2>4 DEF Becomes, IInv, TypeInv
    <3> QED BY <2>2, <3>1, <3>2 DEF LruTellsTheState, Users, Home
  <2> QED BY <2>2, <2>3, <2>4
<1>2. CASE CloseHandle(o)
  <2> DEFINE c == [b EXCEPT !.handle = FALSE]
  <2>1. b.refs > 0 /\ Becomes(o, Put(c)) /\ UNCHANGED <<job, scan>>
    BY <1>0, <1>2 DEF CloseHandle
  <2>2. /\ c \in Buffers /\ c.refs = b.refs /\ c.lru = b.lru /\ c.pages = b.pages
        /\ c.pins = b.pins /\ c.madv = b.madv /\ c.imported = b.imported
    BY <1>0 DEF Buffers
  <2> HIDE DEF c
  <2>3. Tells(b, c) /\ Tells(c, Put(c))
    BY <1>0, <2>1, <2>2, SameTells, PutTells
  <2> QED BY <2>1, <2>3, TellsOn, OneTells
<1>3. CASE Mmap(o)
  <2> DEFINE c == [b EXCEPT !.mmap = "open"]
  <2>1. b.refs > 0 /\ Becomes(o, Got(c)) /\ UNCHANGED <<job, scan>>
    BY <1>0, <1>3 DEF Mmap
  <2>2. /\ c \in Buffers /\ c.refs = b.refs /\ c.lru = b.lru /\ c.pages = b.pages
        /\ c.pins = b.pins /\ c.madv = b.madv /\ c.imported = b.imported
    BY <1>0 DEF Buffers
  <2> HIDE DEF c
  <2>3. Tells(b, c) /\ Tells(c, Got(c))
    BY <1>0, <2>1, <2>2, SameTells, GotTells
  <2> QED BY <2>1, <2>3, TellsOn, OneTells
<1>4. CASE Munmap(o)
  <2> DEFINE c == [b EXCEPT !.mmap = "none"]
  <2>1. b.refs > 0 /\ Becomes(o, Put(c)) /\ UNCHANGED <<job, scan>>
    BY <1>0, <1>4 DEF Munmap
  <2>2. /\ c \in Buffers /\ c.refs = b.refs /\ c.lru = b.lru /\ c.pages = b.pages
        /\ c.pins = b.pins /\ c.madv = b.madv /\ c.imported = b.imported
    BY <1>0 DEF Buffers
  <2> HIDE DEF c
  <2>3. Tells(b, c) /\ Tells(c, Put(c))
    BY <1>0, <2>1, <2>2, SameTells, PutTells
  <2> QED BY <2>1, <2>3, TellsOn, OneTells
<1>5. CASE Fault(o)
  <2> DEFINE e == Backed(b)
             c == [e EXCEPT !.mmap = "touched"]
  <2>1. b.refs > 0 /\ Becomes(o, c) /\ UNCHANGED <<job, scan>> /\ b.madv = "willneed"
    BY <1>0, <1>5 DEF Fault
  <2>2. e \in Buffers /\ Tells(b, e) /\ e.refs > 0
    BY <1>0, <2>1, BackedIs, BackedTells
  <2> HIDE DEF e
  <2>3. /\ c.refs = e.refs /\ c.lru = e.lru /\ c.pages = e.pages
        /\ c.pins = e.pins /\ c.madv = e.madv /\ c.imported = e.imported
    BY <2>2 DEF Buffers
  <2> HIDE DEF c
  <2>4. Tells(e, c)
    BY <2>2, <2>3, SameTells
  <2> QED BY <2>1, <2>2, <2>4, TellsOn, OneTells
<1>6. ASSUME NEW madv \in {"willneed", "dontneed"}, Madvise(o, madv) PROVE LruTellsTheState'
  <2> DEFINE c == [b EXCEPT !.madv = IF @ = "purged" THEN @ ELSE madv]
  <2>1. b.refs > 0 /\ Becomes(o, UpdateLru(c)) /\ UNCHANGED <<job, scan>>
    BY <1>0, <1>6 DEF Madvise
  <2>2. c \in Buffers /\ c.refs = b.refs
    BY <1>0 DEF Buffers
  <2> HIDE DEF c
  <2> QED BY <2>1, <2>2, UpdateTells, OneTells DEF Tells
<1>7. ASSUME NEW s \in Spaces, GetIova(o, s) PROVE LruTellsTheState'
  <2>1. b.refs > 0 /\ Becomes(o, Opened(b, s)) /\ UNCHANGED <<job, scan>>
    BY <1>0, <1>7 DEF GetIova
  <2> QED BY <1>0, <2>1, OpenedTells, OneTells
<1>8. ASSUME NEW s \in Spaces, ClearIova(o, s) PROVE LruTellsTheState'
  <2> DEFINE c == [b EXCEPT !.vma[s] = "none"]
  <2>1. b.refs > 0 /\ Becomes(o, c) /\ UNCHANGED <<job, scan>>
    BY <1>0, <1>8 DEF ClearIova
  <2>2. /\ c.refs = b.refs /\ c.lru = b.lru /\ c.pages = b.pages
        /\ c.pins = b.pins /\ c.madv = b.madv /\ c.imported = b.imported
    BY <1>0 DEF Buffers
  <2> HIDE DEF c
  <2> QED BY <1>0, <2>1, <2>2, SameTells, OneTells
<1>9. ASSUME b.refs > 0, b.madv = "willneed"
      PROVE  /\ Pinned(Backed(b)) \in Buffers /\ Told(Pinned(Backed(b)))
             /\ Pinned(Backed(b)).refs = b.refs
  BY <1>0, <1>9, BackedIs, BackedTells, PinnedIs, PinnedTells
<1>10. CASE Attach(o)
  <2> DEFINE e == Pinned(Backed(b))
             c == [e EXCEPT !.attached = @ + 1]
  <2>1. b.refs > 0 /\ b.madv = "willneed" /\ Becomes(o, Got(c)) /\ UNCHANGED <<job, scan>>
    BY <1>0, <1>10 DEF Attach
  <2>2. e \in Buffers /\ Told(e) /\ e.refs = b.refs
    BY <1>9, <2>1
  <2> HIDE DEF e
  <2>3. /\ c \in Buffers /\ c.refs = e.refs /\ c.lru = e.lru /\ c.pages = e.pages
        /\ c.pins = e.pins /\ c.madv = e.madv /\ c.imported = e.imported
    BY <2>2 DEF Buffers
  <2> HIDE DEF c
  <2>4. Tells(e, c) /\ Tells(c, Got(c)) /\ Tells(b, e)
    BY <2>1, <2>2, <2>3, SameTells, GotTells DEF Tells
  <2> QED BY <2>1, <2>4, TellsOn, OneTells
<1>11. CASE Detach(o)
  <2> DEFINE e == Unpinned(b)
             c == [e EXCEPT !.attached = @ - 1]
  <2>1. /\ b.attached > 0 /\ b.refs > 0 /\ Becomes(o, Put(c)) /\ UNCHANGED <<job, scan>>
    BY <1>0, <1>11 DEF Detach
  <2>2. e \in Buffers /\ Told(e) /\ e.refs = b.refs
    BY <1>0, <2>1, UnpinnedIs, UnpinnedTells
  <2>3. e.attached > 0
    BY <1>0, <2>1 DEF Unpinned, UpdateLru, Buffers
  <2> HIDE DEF e
  <2>4. /\ c \in Buffers /\ c.refs = e.refs /\ c.lru = e.lru /\ c.pages = e.pages
        /\ c.pins = e.pins /\ c.madv = e.madv /\ c.imported = e.imported
    BY <2>2, <2>3 DEF Buffers
  <2> HIDE DEF c
  <2>5. Tells(e, c) /\ Tells(c, Put(c)) /\ Tells(b, e)
    BY <2>1, <2>2, <2>4, SameTells, PutTells DEF Tells
  <2> QED BY <2>1, <2>5, TellsOn, OneTells
<1>12. CASE Vmap(o)
  <2> DEFINE e == Pinned(Backed(b))
             d == [e EXCEPT !.vmaps = @ + 1]
             c == [e EXCEPT !.vmaps = @ + 1, !.vaddr = TRUE]
  <2>1. /\ b.refs > 0 /\ b.madv = "willneed" /\ UNCHANGED <<job, scan>>
        /\ Becomes(o, Got(c)) \/ Becomes(o, Unpinned(e))
    BY <1>0, <1>12 DEF Vmap
  <2>2. e \in Buffers /\ Told(e) /\ e.refs = b.refs
    BY <1>9, <2>1
  <2> HIDE DEF e
  <2>3. /\ d \in Buffers /\ d.refs = e.refs /\ d.lru = e.lru /\ d.pages = e.pages
        /\ d.pins = e.pins /\ d.madv = e.madv /\ d.imported = e.imported
    BY <2>2 DEF Buffers
  <2>4. c = [d EXCEPT !.vaddr = TRUE]
    OBVIOUS
  <2> HIDE DEF c, d
  <2>5. /\ c \in Buffers /\ c.refs = d.refs /\ c.lru = d.lru /\ c.pages = d.pages
        /\ c.pins = d.pins /\ c.madv = d.madv /\ c.imported = d.imported
    BY <2>3, <2>4 DEF Buffers
  <2>6. Tells(e, c) /\ Tells(c, Got(c)) /\ Tells(b, e)
    BY <2>1, <2>2, <2>3, <2>5, SameTells, GotTells DEF Tells
  <2>7. Tells(b, Unpinned(e))
    BY <2>1, <2>2, UnpinnedTells DEF Tells
  <2> QED BY <2>1, <2>6, <2>7, TellsOn, OneTells
<1>13. CASE Vunmap(o)
  <2> DEFINE e == Unpinned(b)
             c == [e EXCEPT !.vmaps = @ - 1]
  <2>1. /\ b.vmaps > 0 /\ b.refs > 0 /\ Becomes(o, Put(c)) /\ UNCHANGED <<job, scan>>
    BY <1>0, <1>13 DEF Vunmap
  <2>2. e \in Buffers /\ Told(e) /\ e.refs = b.refs
    BY <1>0, <2>1, UnpinnedIs, UnpinnedTells
  <2>3. e.vmaps > 0
    BY <1>0, <2>1 DEF Unpinned, UpdateLru, Buffers
  <2> HIDE DEF e
  <2>4. /\ c \in Buffers /\ c.refs = e.refs /\ c.lru = e.lru /\ c.pages = e.pages
        /\ c.pins = e.pins /\ c.madv = e.madv /\ c.imported = e.imported
    BY <2>2, <2>3 DEF Buffers
  <2> HIDE DEF c
  <2>5. Tells(e, c) /\ Tells(c, Put(c)) /\ Tells(b, e)
    BY <2>1, <2>2, <2>4, SameTells, PutTells DEF Tells
  <2> QED BY <2>1, <2>5, TellsOn, OneTells
<1> QED BY <1>1, <1>2, <1>3, <1>4, <1>5, <1>6, <1>7, <1>8, <1>10, <1>11, <1>12, <1>13 DEF Object

(* Whose submit has failed stays so, but for the one that moves. *)
LEMMA StayDoomed ==
  ASSUME IInv, NEW j \in Jobs, NEW r, job' = [job EXCEPT ![j] = r]
  PROVE  \A o \in Objs : job[j].pc # "doomed" \/ o \notin job[j].bos
             => (Users(o, {"doomed"}) # {} => Users(o, {"doomed"})' # {})
<1>1. \A i \in Jobs \ {j} : job'[i] = job[i]
  BY DEF IInv, TypeInv
<1> QED BY <1>1 DEF Users

LEMMA SubmitTells ==
  ASSUME IInv, LruTellsTheState, NEW j \in Jobs, Submit(j) \/ Job(j)
  PROVE  LruTellsTheState'
<1> DEFINE s == job[j].space
           Stays(o) == Users(o, {"doomed"}) # {} => Users(o, {"doomed"})' # {}
<1>1. \A o \in Objs : bo[o] \in Buffers /\ bo[o].pins >= 0
                      /\ (o \in job[j].bos \/ bo[o].handle => bo[o].refs > 0)
  BY Referred
<1>2. UNCHANGED scan /\ \E r : job' = [job EXCEPT ![j] = r]
  BY DEF Submit, Job, Lookup, Lock, MapAll, MapSome, PinAll, Push, Fail, Run, Finish, RetireSubmit, Goes
<1>3. \A o \in Objs : job[j].pc # "doomed" \/ o \notin job[j].bos => Stays(o)
  BY <1>2, StayDoomed
<1>4. SUFFICES ASSUME NEW o \in Objs
               PROVE  \/ Told(bo'[o])
                      \/ (bo'[o] = bo[o] \/ Alike(bo[o], bo'[o])) /\ Stays(o)
                      \/ bo'[o].lru = "pinned" /\ Users(o, {"doomed"})' # {}
  BY <1>2, LruStep
<1> HIDE DEF Stays
<1>5. CASE Lookup(j)
  <2>1. bo'[o] = bo[o] \/ (bo[o].handle /\ bo'[o] = Got(bo[o]))
    BY <1>5 DEF Lookup, Each
  <2>2. bo[o].handle => Tells(bo[o], Got(bo[o]))
    BY <1>1, GotTells
  <2>3. job[j].pc # "doomed"
    BY <1>5 DEF Lookup
  <2> QED BY <1>3, <2>1, <2>2, <2>3 DEF Tells
<1>6. CASE Lock(j) \/ Push(j) \/ Finish(j)
  <2>1. bo' = bo /\ job[j].pc # "doomed"
    BY <1>6 DEF Lock, Push, Finish
  <2> QED BY <1>3, <2>1
<1>7. CASE MapAll(j)
  <2>1. bo'[o] = bo[o] \/ (o \in job[j].bos /\ bo[o].madv = "willneed" /\ bo'[o] = Mapped(bo[o], s))
    BY <1>7 DEF MapAll, Each
  <2>2. s \in Spaces /\ job[j].pc # "doomed"
    BY <1>7 DEF MapAll, IInv, TypeInv
  <2> HIDE DEF s
  <2> QED BY <1>1, <1>3, <2>1, <2>2, MappedTells DEF Tells
<1>8. CASE MapSome(j)
  <2>1. PICK f \in job[j].bos : \E S \in SUBSET (job[j].bos \ {f}) :
           /\ \A q \in S : bo[q].madv = "willneed"
           /\ \E b \in MapFailures(bo[f], s) :
                 bo' = [[q \in Objs |-> IF q \in S THEN Mapped(bo[q], s) ELSE bo[q]] EXCEPT ![f] = b]
    BY <1>8 DEF MapSome, Each
  <2>2. \/ bo'[o] = bo[o]
        \/ o \in job[j].bos /\ bo[o].madv = "willneed" /\ bo'[o] = Mapped(bo[o], s)
        \/ o \in job[j].bos /\ bo'[o] \in MapFailures(bo[o], s)
    BY <2>1
  <2>3. s \in Spaces /\ job[j].pc # "doomed"
    BY <1>8 DEF MapSome, IInv, TypeInv
  <2> HIDE DEF s
  <2> QED BY <1>1, <1>3, <2>2, <2>3, MappedTells DEF Tells
<1>9. CASE PinAll(j)
  <2>1. \/ bo'[o] = bo[o] /\ o \notin job[j].bos
        \/ o \in job[j].bos /\ bo'[o] = Pinned(bo[o])
    BY <1>9 DEF PinAll, Each
  <2>2. job[j].pc \in {"mapped", "botched"} /\ Goes(j, IF job[j].pc = "mapped" THEN "pinned" ELSE "doomed")
    BY <1>9 DEF PinAll
  <2>3. CASE bo'[o] = bo[o]
    BY <1>3, <2>2, <2>3
  <2>4. CASE o \in job[j].bos /\ job[j].pc = "mapped"
    <3>1. bo[o].pages
      BY <2>4 DEF IInv, MapInv, MapStates
    <3> QED BY <1>1, <2>1, <2>4, <3>1, PinnedTells
  <2>5. CASE o \in job[j].bos /\ job[j].pc = "botched"
    <3>1. job'[j].pc = "doomed" /\ job'[j].bos = job[j].bos
      BY <2>2, <2>5 DEF Goes, IInv, TypeInv, Submits
    <3>2. j \in Users(o, {"doomed"})'
      BY <2>5, <3>1 DEF Users
    <3>3. bo'[o].lru = "pinned"
      BY <1>1, <2>1, <2>5 DEF Pinned, Buffers
    <3> QED BY <3>2, <3>3
  <2> QED BY <2>1, <2>2, <2>3, <2>4, <2>5
<1>10. CASE Run(j)
  <2>1. \/ bo'[o] = bo[o]
        \/ o \in job[j].bos /\ bo'[o] = Unpinned(bo[o])
    BY <1>10 DEF Run, Each
  <2>2. job[j].pc # "doomed"
    BY <1>10 DEF Run
  <2> QED BY <1>1, <1>3, <2>1, <2>2, UnpinnedTells
<1>11. CASE RetireSubmit(j)
  <2>1. \/ bo'[o] = bo[o]
        \/ o \in job[j].bos /\ bo'[o] = Put(bo[o])
    BY <1>11 DEF RetireSubmit, Each
  <2>2. job[j].pc # "doomed"
    BY <1>11 DEF RetireSubmit
  <2> QED BY <1>1, <1>3, <2>1, <2>2, PutTells DEF Tells
<1>12. CASE Fail(j)
  <2> DEFINE e == UnpinnedIfAny(j, bo[o])
  <2>1. \/ o \notin job[j].bos /\ bo'[o] = bo[o]
        \/ o \in job[j].bos /\ bo'[o] = Put(e)
    BY <1>12 DEF Fail, Each
  <2>2. CASE o \notin job[j].bos
    BY <1>3, <2>1, <2>2
  <2>3. CASE o \in job[j].bos /\ job[j].pc \in {"pinned", "doomed"}
    <3>1. e = Unpinned(bo[o])
      BY <2>3 DEF UnpinnedIfAny
    <3> HIDE DEF e
    <3>2. e \in Buffers /\ Told(e) /\ e.refs > 0
      BY <1>1, <2>3, <3>1, UnpinnedIs, UnpinnedTells
    <3>3. Told(Put(e))
      BY <3>2, PutTells DEF Tells, Alike, Told
    <3> QED BY <2>1, <2>3, <3>3
  <2>4. CASE o \in job[j].bos /\ job[j].pc \notin {"pinned", "doomed"}
    <3>1. bo'[o] = Put(bo[o]) /\ job[j].pc # "doomed"
      BY <2>1, <2>4 DEF UnpinnedIfAny
    <3> QED BY <1>1, <1>3, <2>4, <3>1, PutTells DEF Tells
  <2> QED BY <2>2, <2>3, <2>4
<1> QED BY <1>5, <1>6, <1>7, <1>8, <1>9, <1>10, <1>11, <1>12 DEF Submit, Job

(* The object the shrinker has leaves its hands told: put back into the LRU it is
   still of, or by what it did to it. *)
LEMMA HandedBack ==
  ASSUME IInv, LruTellsTheState, NEW o \in Objs, scan.obj = o, scan.pc # "idle",
         NEW c, Becomes(o, c), scan' = NoScan, UNCHANGED job,
         \/ Told(c)
         \/ /\ c.refs > 0 /\ c.lru = IF bo[o].lru = "scan" THEN scan.from ELSE bo[o].lru
            /\ Home(c) = Home(bo[o]) /\ c.imported = bo[o].imported
  PROVE  LruTellsTheState'
<1>1. \A p \in Objs : bo'[p] = IF p = o THEN c ELSE bo[p]
  BY DEF Becomes, IInv, TypeInv
<1>2. \A p \in Objs : Users(p, {"doomed"})' = Users(p, {"doomed"})
  BY DEF Users
<1>3. bo[o].refs > 0
  BY Referred
<1>4. SUFFICES ASSUME NEW p \in Objs
               PROVE  \/ Told(bo'[p])
                      \/ bo'[p].imported /\ bo'[p].lru = "pinned"
                      \/ bo'[p].lru = "pinned" /\ Users(p, {"doomed"}) # {}
  BY <1>2 DEF LruTellsTheState, Told, Home
<1>5. \/ Told(bo[p])
      \/ bo[p].lru = "scan" /\ scan.obj = p /\ scan.from = Home(bo[p])
      \/ bo[p].imported /\ bo[p].lru = "pinned"
      \/ bo[p].lru = "pinned" /\ Users(p, {"doomed"}) # {}
  BY DEF LruTellsTheState, Told
<1>6. CASE p # o
  BY <1>1, <1>5, <1>6
<1>7. CASE p = o
  <2>1. CASE Told(c)
    BY <1>1, <1>7, <2>1
  <2>2. CASE /\ c.refs > 0 /\ c.lru = IF bo[o].lru = "scan" THEN scan.from ELSE bo[o].lru
             /\ Home(c) = Home(bo[o]) /\ c.imported = bo[o].imported
    <3>1. CASE bo[o].lru = "scan"
      <4>1. Home(bo[o]) = scan.from
        <5>1. scan.from # "scan" /\ Home(bo[o]) # "scan"
          <6>1. bo[o] \in Buffers /\ scan.from \in {"willneed", "dontneed"}
            BY DEF IInv, TypeInv
          <6> QED BY <6>1 DEF Home, Buffers
        <5> QED BY <1>3, <1>5, <1>7, <3>1, <5>1 DEF Told
      <4> QED BY <1>1, <1>7, <2>2, <3>1, <4>1 DEF Told
    <3>2. CASE bo[o].lru # "scan"
      BY <1>1, <1>3, <1>5, <1>7, <2>2, <3>2 DEF Told
    <3> QED BY <3>1, <3>2
  <2> QED BY <2>1, <2>2
<1> QED BY <1>6, <1>7

(* What purging and evicting leave is among the unbacked. *)
LEMMA TakenTells ==
  ASSUME NEW b \in Buffers, b.refs > 0, ~b.imported, ~b.pages => b.lru = "unbacked",
         NEW c \in {Purged(b), Evicted(b)}, b.vaddr => c = Purged(b), Sound(b)
  PROVE  /\ c \in Buffers /\ c.refs = b.refs
         /\ c.lru = "unbacked" /\ Told(c)
<1>1. ASSUME NEW t \in Buffers, t.pages = b.pages, t.lru = b.lru, t.refs = b.refs
      PROVE  /\ Unbacked(t) \in Buffers /\ Unbacked(t).refs = b.refs
             /\ Unbacked(t).lru = "unbacked" /\ ~Unbacked(t).pages
  <2> DEFINE u == [t EXCEPT !.pages = FALSE]
  <2>1. u \in Buffers /\ u.refs = b.refs /\ ~u.pages
    BY <1>1 DEF Buffers
  <2>2. CASE t.pages
    <3>1. Unbacked(t) = UpdateLru(u)
      BY <2>2 DEF Unbacked
    <3> HIDE DEF u
    <3>2. UpdateLru(u) \in Buffers /\ UpdateLru(u).refs = b.refs
          /\ UpdateLru(u).lru = "unbacked" /\ ~UpdateLru(u).pages
      BY <2>1 DEF UpdateLru, Home, Buffers
    <3> QED BY <3>1, <3>2
  <2>3. CASE ~t.pages
    BY <1>1, <2>3 DEF Unbacked
  <2> QED BY <2>2, <2>3
<1>2. ASSUME NEW u \in Buffers, u.pages = b.pages, u.lru = b.lru, u.refs = b.refs
      PROVE  /\ Untouched(u) \in Buffers /\ Untouched(u).pages = b.pages
             /\ Untouched(u).lru = b.lru /\ Untouched(u).refs = b.refs
  BY <1>2 DEF Untouched, Buffers
<1>3. ASSUME NEW close \in BOOLEAN
      PROVE  /\ Unmapped(b, close) \in Buffers /\ Unmapped(b, close).pages = b.pages
             /\ Unmapped(b, close).lru = b.lru /\ Unmapped(b, close).refs = b.refs
  BY DEF Unmapped, Buffers
<1>4. ASSUME NEW d \in Buffers, d.refs = b.refs, d.lru = "unbacked", ~d.pages
      PROVE  Told(d)
  BY <1>4 DEF Told, Home
<1>5. CASE c = Evicted(b)
  <2> DEFINE u == Unmapped(b, FALSE)
             t == Untouched(u)
  <2>1. u \in Buffers /\ u.pages = b.pages /\ u.lru = b.lru /\ u.refs = b.refs
    BY <1>3
  <2>2. Evicted(b) = Unbacked(t)
    BY DEF Evicted
  <2> HIDE DEF u
  <2>3. t \in Buffers /\ t.pages = b.pages /\ t.lru = b.lru /\ t.refs = b.refs
    BY <1>2, <2>1
  <2> HIDE DEF t
  <2> QED BY <1>1, <1>4, <1>5, <2>2, <2>3
<1>6. CASE c = Purged(b)
  <2> DEFINE v == Unmapped(b, TRUE)
             u == [v EXCEPT !.vaddr = FALSE]
             t == Untouched(u)
             e == Unbacked(t)
             d == [e EXCEPT !.madv = "purged"]
  <2>1. v \in Buffers /\ v.pages = b.pages /\ v.lru = b.lru /\ v.refs = b.refs
    BY <1>3
  <2>2. Purged(b) = d
    BY DEF Purged
  <2> HIDE DEF v
  <2>3. u \in Buffers /\ u.pages = b.pages /\ u.lru = b.lru /\ u.refs = b.refs
    BY <2>1 DEF Buffers
  <2> HIDE DEF u
  <2>4. t \in Buffers /\ t.pages = b.pages /\ t.lru = b.lru /\ t.refs = b.refs
    BY <1>2, <2>3
  <2> HIDE DEF t
  <2>5. e \in Buffers /\ e.refs = b.refs /\ e.lru = "unbacked" /\ ~e.pages
    BY <1>1, <2>4
  <2> HIDE DEF e
  <2>6. d \in Buffers /\ d.refs = b.refs /\ d.lru = "unbacked" /\ ~d.pages
    BY <2>5 DEF Buffers
  <2> HIDE DEF d
  <2> QED BY <1>4, <1>6, <2>2, <2>6
<1> QED BY <1>5, <1>6

LEMMA ShrinkerTells ==
  ASSUME IInv, LruTellsTheState, Shrinker PROVE LruTellsTheState'
<1>1. \A o \in Objs :
        \/ Told(bo[o])
        \/ bo[o].lru = "scan" /\ scan.obj = o /\ scan.from = Home(bo[o])
        \/ bo[o].imported /\ bo[o].lru = "pinned"
        \/ bo[o].lru = "pinned" /\ Users(o, {"doomed"}) # {}
  BY DEF LruTellsTheState, Told
<1>2. ASSUME NEW o \in Objs, Pick(o) PROVE LruTellsTheState'
  <2> DEFINE d == [bo[o] EXCEPT !.lru = "scan"]
             c == Got(d)
  <2>1. /\ scan.obj = "none" /\ bo[o].lru \in {"willneed", "dontneed"}
        /\ scan' = [pc |-> "picked", obj |-> o, from |-> bo[o].lru] /\ UNCHANGED job
    BY <1>2 DEF Pick, IInv, TypeInv
  <2>2. \A p \in Objs : bo'[p] = IF p = o THEN c ELSE bo[p]
    BY <1>2 DEF Pick, Becomes, IInv, TypeInv
  <2>3. bo[o] \in Buffers
    BY Referred
  <2>4. bo[o].lru = Home(bo[o])
    BY <1>1, <2>1 DEF Told
  <2>5. d \in Buffers /\ d.lru = "scan" /\ Home(d) = Home(bo[o])
    BY <2>3 DEF Buffers, Home
  <2> HIDE DEF d
  <2>6. c.lru = "scan" /\ Home(c) = Home(bo[o])
    BY <2>5 DEF Got, Buffers, Home
  <2> HIDE DEF c
  <2>7. scan'.obj = o /\ scan'.from = Home(c)
    BY <2>1, <2>4, <2>6
  <2>8. \A p \in Objs : Users(p, {"doomed"})' = Users(p, {"doomed"})
    BY <2>1 DEF Users
  <2>9. SUFFICES ASSUME NEW p \in Objs
                 PROVE  \/ Told(bo'[p])
                        \/ bo'[p].lru = "scan" /\ scan'.obj = p /\ scan'.from = Home(bo'[p])
                        \/ bo'[p].imported /\ bo'[p].lru = "pinned"
                        \/ bo'[p].lru = "pinned" /\ Users(p, {"doomed"}) # {}
    BY <2>8 DEF LruTellsTheState, Told, Home
  <2>10. CASE p = o
    BY <2>2, <2>6, <2>7, <2>10
  <2>11. CASE p # o
    <3>1. scan.obj # p
      BY <2>1, GemConstants
    <3> QED BY <1>1, <2>2, <2>11, <3>1
  <2> QED BY <2>10, <2>11
<1>3. CASE MakeSure
  <2>1. /\ UNCHANGED <<bo, job>> /\ scan'.obj = scan.obj /\ scan'.from = scan.from
    BY <1>3 DEF MakeSure, IInv, TypeInv, Scans
  <2>2. \A p \in Objs : Users(p, {"doomed"})' = Users(p, {"doomed"})
    BY <2>1 DEF Users
  <2> QED BY <2>1, <2>2 DEF LruTellsTheState, Home
<1>4. ASSUME scan.pc # "idle"
      PROVE  /\ scan.obj \in Objs /\ scan.from \in {"willneed", "dontneed"}
             /\ bo[scan.obj] \in Buffers /\ bo[scan.obj].refs > 0 /\ Sound(bo[scan.obj])
  BY <1>4, Referred DEF IInv, TypeInv, AllSound
<1>5. CASE GiveUp
  <2> DEFINE o == scan.obj
             d == Back(bo[o])
             c == Put(d)
  <2>1. scan.pc # "idle" /\ Becomes(o, c) /\ scan' = NoScan /\ UNCHANGED job
    BY <1>5 DEF GiveUp
  <2>2. o \in Objs /\ scan.from \in {"willneed", "dontneed"} /\ bo[o] \in Buffers
        /\ bo[o].refs > 0
    BY <1>4, <2>1
  <2>3. /\ d \in Buffers /\ d.refs = bo[o].refs
        /\ d.lru = IF bo[o].lru = "scan" THEN scan.from ELSE bo[o].lru
        /\ Home(d) = Home(bo[o]) /\ d.imported = bo[o].imported
    BY <2>2 DEF Back, Home, Buffers
  <2> HIDE DEF d
  <2>4. Tells(d, c)
    BY <2>2, <2>3, PutTells
  <2> HIDE DEF c
  <2>5. \/ Told(c)
        \/ /\ c.refs > 0 /\ c.lru = IF bo[o].lru = "scan" THEN scan.from ELSE bo[o].lru
           /\ Home(c) = Home(bo[o]) /\ c.imported = bo[o].imported
    BY <2>3, <2>4 DEF Tells, Alike
  <2> QED BY <2>1, <2>2, <2>5, HandedBack
<1>6. CASE Shrink
  <2> DEFINE o == scan.obj
             d == IF scan.from = "dontneed" THEN Purged(bo[o]) ELSE Evicted(bo[o])
             c == Put(Back(d))
  <2>1. scan.pc = "sure" /\ Becomes(o, c) /\ scan' = NoScan /\ UNCHANGED job
    BY <1>6 DEF Shrink
  <2>2. o \in Objs /\ scan.from \in {"willneed", "dontneed"} /\ bo[o] \in Buffers
        /\ bo[o].refs > 0 /\ Sound(bo[o])
    BY <1>4, <2>1
  <2>3. ~bo[o].imported /\ (scan.from # "dontneed" => ~bo[o].vaddr)
    BY <2>1 DEF IInv, SureInv
  <2>4. Users(o, {"doomed"}) = {}
    BY <2>1, <2>2 DEF Users, IInv, Exclusive, HoldStates
  <2>5. ~bo[o].pages => bo[o].lru = "unbacked"
    BY <1>1, <2>2, <2>3, <2>4 DEF Told, Home
  <2>6. d \in {Purged(bo[o]), Evicted(bo[o])} /\ (bo[o].vaddr => d = Purged(bo[o]))
    BY <2>3
  <2> HIDE DEF d
  <2>7. d \in Buffers /\ d.refs = bo[o].refs /\ d.lru = "unbacked" /\ Told(d)
    BY <2>2, <2>3, <2>5, <2>6, TakenTells
  <2>8. Back(d) = d
    BY <2>7 DEF Back
  <2>9. Told(c)
    BY <2>2, <2>7, <2>8, PutTells DEF Tells, Alike, Told
  <2> HIDE DEF c
  <2> QED BY <2>1, <2>2, <2>9, HandedBack
<1> QED BY <1>2, <1>3, <1>5, <1>6 DEF Shrinker

(* The shrinker's lists are always right. *)
THEOREM LrusAlwaysTell == Spec => []LruTellsTheState
<1>1. Init => LruTellsTheState
  <2>1. Gone.refs = 0 /\ Gone.lru = "none"
    BY DEF Gone
  <2> QED BY <2>1 DEF Init, LruTellsTheState
<1>2. IInv /\ LruTellsTheState /\ [Next]_vars => LruTellsTheState'
  <2> SUFFICES ASSUME IInv, LruTellsTheState, [Next]_vars PROVE LruTellsTheState'
    OBVIOUS
  <2>1. CASE UNCHANGED vars
    BY <2>1 DEF vars, LruTellsTheState, Users, Home
  <2> QED BY <2>1, ObjectTells, SubmitTells, ShrinkerTells DEF Next
<1> QED BY <1>1, <1>2, Invariant, PTL DEF Spec
=============================================================================
