----------------------------- MODULE KshmProofs -----------------------------
(* The ring of Kshm never grants a byte that is still to be read, for every *)
(* size, alignment and set of lengths: the argument is the layout of the    *)
(* unread packets between the two pointers.  From it follow the counters,   *)
(* the bytes kept for the reader, and that the ring is a FIFO.              *)
EXTENDS Kshm, SequenceTheorems, FiniteSetTheorems, TLAPS

\* Every packet, rounded up, is smaller than the ring.  One of exactly its
\* size is lost (see PublishedIsVisible).
Fits == \A l \in Lens : RoundUp(l) < Size

\* The counters of packets do not come round in a ring of packets.
TimesSuffice == Size + 1 < TimesMod

-----------------------------------------------------------------------------
(* The inductive invariant. *)

\* Where a packet of s bytes starts when the pointer stands at x.
Start(x, s) == IF x + s > Size THEN 0 ELSE x

Span(p) == RoundUp(p.len)

\* The packet lies in the unread part of the ring.
Placed(x, y, p) ==
    /\ p.at + Span(p) <= Size
    /\ y > x => x <= p.at /\ p.at + Span(p) <= y
    /\ y < x => x <= p.at \/ p.at + Span(p) <= y

\* Packet p comes before packet p2 in the unread part of the ring.
Precedes(x, y, p, p2) ==
    \/ p.at + Span(p) <= p2.at /\ (x <= p.at \/ p2.at < x)
    \/ y < x /\ x <= p.at /\ p2.at < x

\* The packets of s, and nothing else, lie between the pointers x and y.
Layout(x, y, s) ==
    /\ s = <<>> <=> x = y
    /\ s # <<>> => s[1].at = Start(x, Span(s[1]))
    /\ s # <<>> => y = Advance(s[Len(s)].at, Span(s[Len(s)]))
    /\ \A k \in 1..Len(s) : Placed(x, y, s[k])
    /\ \A k \in 1..(Len(s) - 1) :
          s[k + 1].at = Start(Advance(s[k].at, Span(s[k])), Span(s[k + 1]))
    /\ \A j, k \in 1..Len(s) : j < k => Precedes(x, y, s[j], s[k])

\* The writer may fill n bytes from p on, the pointers standing at x and y.
Granted(x, y, p, n) ==
    /\ p = Start(y, n)
    /\ y < x => y + n < x
    /\ (y >= x /\ y + n > Size) => n < x
    /\ (y >= x /\ y + n = Size) => x > 0

\* The read pointer has moved from z to x, without passing y.
Behind(z, x, y) ==
    /\ y >= z => z <= x /\ x <= y
    /\ y < z => z <= x \/ x <= y

ReaderInv ==
    /\ (r.pc # "idle" /\ ~flag) => (r.pc \in {"times", "bump"} \/ r.idx = index)
    /\ r.pc \in {"copy", "upd", "store"} =>
          /\ r.len \in Lens
          /\ r.at + RoundUp(r.len) <= Size
    /\ (r.pc \in {"copy", "upd"} /\ ~flag) =>
          /\ q[index] # <<>>
          /\ r.at = q[index][1].at
          /\ r.len = q[index][1].len
    /\ r.pc = "store" => (flag <=> r.idx # index) /\ q[r.idx] # <<>>
    /\ (r.pc = "store" /\ ~flag) =>
          /\ q[index] # <<>>
          /\ r.at = q[index][1].at
          /\ r.len = q[index][1].len

WriterInv ==
    /\ w.pc = "idle" => w = IdleWriter
    /\ w.pc \in {"want", "req", "copy", "commit"} => w.len \in Lens
    /\ w.pc = "req" => Behind(w.rd, rd[index], wt[index])
    /\ w.pc = "flip" =>
          /\ ~flag
          /\ w.at = 0
          /\ rd[1 - index] = 0 /\ wt[1 - index] = 0
          /\ q[1 - index] = <<>>
    /\ w.pc \in {"copy", "commit"} =>
          Granted(rd[index], wt[index], w.at, RoundUp(w.len))

IInv ==
    /\ TypeOK
    /\ flag => rd[index] = 0
    /\ Layout(rd[index], wt[index], q[index])
    /\ ReaderInv
    /\ WriterInv

\* The counters are apart by the packets in the ring, up to the packet each
\* thread is about to count, modulo TimesMod.
Apart(n) == wt_times - rd_times \in {n, n - TimesMod, n + TimesMod}
Ahead == Len(q[index]) + Uncounted - Unannounced
Counted ==
    /\ (~stale /\ w.pc = "flip") =>
          /\ wt_times = 0 /\ rd_times = 0
          /\ r.pc \notin {"store", "times", "bump"}
    /\ (~stale /\ w.pc # "flip") =>
          /\ Apart(Ahead)
          /\ (r.pc = "store" => ~flag)
          /\ (r.pc = "bump" => r.times = rd_times)

\* The bytes of every unread packet are the writer's, and so is what the reader
\* has copied.
Holds(p) == \A b \in Bytes(p.at, p.len) : mem[b] = p.tag
Stored ==
    /\ \A k \in 1..Len(q[index]) : Holds(q[index][k])
    /\ w.pc = "commit" => Holds(w)
    /\ (r.pc = "upd" /\ ~flag) => r.got = Content(q[index][1])

\* The bytes read last lie behind the read pointer at x and, beyond the base,
\* behind some e near the end of the ring, where the reader turned.
Back(s, i) == s[Len(s) + 1 - i]
Trail(x, s) ==
    \E e \in 0..Size :
        /\ Size <= e + x
        /\ \A i \in 1..Len(s) : /\ (i <= x => Back(s, i) = x - i)
                                /\ ((x < i /\ i <= x + e) => Back(s, i) = e + x - i)
Trailed ==
    /\ Trail(rd[index], kept[index])
    /\ (flag => kept[index] = <<>>)
    /\ (w.pc = "flip" => kept[1 - index] = <<>>)

-----------------------------------------------------------------------------
(* Lemmas on the pointers. *)

\* Rounding up loses nothing.
LEMMA RoundUpBounds ==
    ASSUME NEW l \in Nat
    PROVE  RoundUp(l) \in Nat /\ l <= RoundUp(l)
<1> DEFINE m == l + Align - 1
           d == m \div Align
<1>1. d \in Int /\ Align * d <= m /\ m < Align * d + Align
  BY AlignAssumption
<1>2. d * Align \in Int /\ d * Align = Align * d
  BY <1>1, AlignAssumption
<1>3. RoundUp(l) = d * Align
  BY DEF RoundUp
<1> HIDE DEF d
<1> QED
  BY <1>1, <1>2, <1>3, AlignAssumption

\* A rounded length is a positive number below the size of the ring.
LEMMA RoundUpFacts ==
    ASSUME Fits
    PROVE  \A l \in Lens : RoundUp(l) \in 1..(Size - 1)
<1> SUFFICES ASSUME NEW l \in Lens PROVE RoundUp(l) \in 1..(Size - 1)
  OBVIOUS
<1>1. l \in Nat /\ l > 0 /\ RoundUp(l) < Size
  BY LensAssumption DEF Fits
<1> QED
  BY <1>1, RoundUpBounds, SizeAssumption

\* The unread packets have such a span, whatever else is known of them.
LEMMA SpanFacts ==
    ASSUME Fits, NEW p \in Packets
    PROVE  Span(p) \in 1..(Size - 1) /\ p.at \in Offsets
BY RoundUpFacts DEF Span, Packets

\* A place that kshm_request_write grants with a read pointer loaded earlier
\* is free at the present one.
LEMMA GrantIsFree ==
    ASSUME NEW x \in Offsets, NEW y \in Offsets, NEW z \in Offsets,
           NEW n \in 1..(Size - 1),
           Behind(z, x, y), Grant(z, y, n) # NULL
    PROVE  Granted(x, y, Grant(z, y, n), n) /\ Grant(z, y, n) \in Offsets
BY SizeAssumption DEF Offsets, Behind, Grant, Granted, TailRoom, HeadRoom,
                      Start, NULL

\* What was granted stays free while the reader moves on.
LEMMA MoveKeepsGrant ==
    ASSUME NEW x \in Offsets, NEW y \in Offsets, NEW x2 \in Offsets,
           Behind(x, x2, y), x # y,
           NEW p \in Offsets, NEW n \in 1..(Size - 1), Granted(x, y, p, n)
    PROVE  Granted(x2, y, p, n)
BY SizeAssumption DEF Offsets, Behind, Granted, Start

\* The read pointer never turns back on its way to the write pointer.
LEMMA BehindTransitive ==
    ASSUME NEW x \in Offsets, NEW y \in Offsets, NEW x2 \in Offsets,
           NEW z \in Offsets, Behind(z, x, y), Behind(x, x2, y), x # y
    PROVE  Behind(z, x2, y)
BY DEF Offsets, Behind

-----------------------------------------------------------------------------
(* Lemmas on the layout of the unread packets. *)

\* Publishing a packet in a granted place extends the layout.
LEMMA PushLayout ==
    ASSUME Fits, NEW x \in Offsets, NEW y \in Offsets, NEW s \in Seq(Packets),
           NEW p \in Packets,
           Layout(x, y, s), Granted(x, y, p.at, Span(p))
    PROVE  LET y2 == Advance(y, Span(p)) IN
           y2 \in Offsets /\ Layout(x, y2, Append(s, p))
<1> DEFINE n == Span(p)
           y2 == Advance(y, n)
           t == Append(s, p)
           N == Len(s)
<1>1. n \in 1..(Size - 1) /\ p.at \in Offsets
  BY SpanFacts
<1>2. y2 \in Offsets /\ y2 = Advance(p.at, n) /\ x # y2
  BY <1>1, SizeAssumption DEF Offsets, Advance, Granted, Start
<1>3. /\ t \in Seq(Packets) /\ Len(t) = N + 1 /\ N \in Nat /\ t # <<>>
      /\ t[N + 1] = p
      /\ \A k \in 1..N : t[k] = s[k] /\ s[k] \in Packets
      /\ s = <<>> <=> N = 0
  OBVIOUS
<1>4. \A k \in 1..N : Span(s[k]) \in 1..(Size - 1) /\ s[k].at \in Offsets
  BY <1>3, SpanFacts
<1>5. t[1].at = Start(x, Span(t[1]))
  <2>1. CASE N = 0
    BY <2>1, <1>3 DEF Layout, Granted
  <2>2. CASE N # 0
    BY <2>2, <1>3 DEF Layout
  <2> QED BY <2>1, <2>2
<1>6. y2 = Advance(t[Len(t)].at, Span(t[Len(t)]))
  BY <1>2, <1>3
<1>7. ASSUME NEW k \in 1..N PROVE Placed(x, y2, s[k])
  <2>1. x # y /\ Placed(x, y, s[k])
    BY <1>3 DEF Layout
  <2> QED
    BY <2>1, <1>1, <1>4, SizeAssumption
    DEF Offsets, Placed, Advance, Granted, Start
<1>8. Placed(x, y2, p)
  BY <1>1, SizeAssumption DEF Offsets, Placed, Advance, Granted, Start
<1>9. \A k \in 1..Len(t) : Placed(x, y2, t[k])
  BY <1>3, <1>7, <1>8
<1>10. ASSUME NEW k \in 1..(Len(t) - 1)
       PROVE  t[k + 1].at = Start(Advance(t[k].at, Span(t[k])), Span(t[k + 1]))
  <2>1. CASE k = N
    <3>1. y = Advance(t[k].at, Span(t[k]))
      BY <2>1, <1>3 DEF Layout
    <3> QED BY <3>1, <2>1, <1>3 DEF Granted
  <2>2. CASE k # N
    <3>1. k \in 1..(N - 1) /\ k + 1 \in 1..N
      BY <2>2, <1>3
    <3> QED BY <3>1, <1>3 DEF Layout
  <2> QED BY <2>1, <2>2
<1>11. ASSUME NEW j \in 1..N, NEW k \in 1..N, j < k
       PROVE  Precedes(x, y2, s[j], s[k])
  <2>1. Precedes(x, y, s[j], s[k]) /\ Placed(x, y, s[j]) /\ Placed(x, y, s[k])
    BY <1>11, <1>3 DEF Layout
  <2>2. x # y
    BY <1>3 DEF Layout
  <2> QED
    BY <2>1, <2>2, <1>1, <1>4, SizeAssumption
    DEF Offsets, Placed, Precedes, Advance, Granted, Start
<1>12. ASSUME NEW j \in 1..N PROVE Precedes(x, y2, s[j], p)
  <2>1. x # y /\ Placed(x, y, s[j])
    BY <1>3 DEF Layout
  <2> QED
    BY <2>1, <1>1, <1>4, SizeAssumption
    DEF Offsets, Placed, Precedes, Advance, Granted, Start
<1>13. \A j, k \in 1..Len(t) : j < k => Precedes(x, y2, t[j], t[k])
  BY <1>3, <1>11, <1>12
<1>14. Layout(x, y2, t)
  BY <1>2, <1>3, <1>5, <1>6, <1>9, <1>10, <1>13 DEF Layout
<1> QED
  BY <1>2, <1>14

\* Consuming the oldest packet moves the read pointer towards the write
\* pointer and leaves the layout of the others.
LEMMA PopLayout ==
    ASSUME Fits, NEW x \in Offsets, NEW y \in Offsets, NEW s \in Seq(Packets),
           Layout(x, y, s), s # <<>>
    PROVE  LET x2 == Advance(x, Span(s[1])) IN
           /\ x2 \in Offsets
           /\ Behind(x, x2, y)
           /\ Layout(x2, y, Tail(s))
<1> DEFINE n == Span(s[1])
           x2 == Advance(x, n)
           t == Tail(s)
           N == Len(s)
<1>1. /\ N \in Nat \ {0} /\ t \in Seq(Packets) /\ Len(t) = N - 1
      /\ \A k \in 1..(N - 1) : t[k] = s[k + 1]
      /\ \A k \in 1..N : s[k] \in Packets
      /\ t = <<>> <=> N = 1
  <2>1. N \in Nat \ {0} /\ \A k \in 1..N : s[k] \in Packets
    BY EmptySeq, ElementOfSeq
  <2>2. t \in Seq(Packets) /\ Len(t) = N - 1
    BY HeadTailProperties
  <2>3. \A k \in 1..(N - 1) : t[k] = s[k + 1]
    BY <2>2, HeadTailProperties
  <2> HIDE DEF t
  <2> QED BY <2>1, <2>2, <2>3, EmptySeq
<1>2. \A k \in 1..N : Span(s[k]) \in 1..(Size - 1) /\ s[k].at \in Offsets
  BY <1>1, SpanFacts
<1>3. n \in 1..(Size - 1) /\ s[1].at = Start(x, n) /\ x # y /\ Placed(x, y, s[1])
  BY <1>1, <1>2 DEF Layout
<1>4. x2 \in Offsets /\ Behind(x, x2, y)
  <2> DEFINE at == s[1].at
  <2>1. /\ at = IF x + n > Size THEN 0 ELSE x
        /\ y > x => x <= at /\ at + n <= y
        /\ y < x => x <= at \/ at + n <= y
        /\ at \in Offsets /\ n \in 1..(Size - 1)
    BY <1>3, <1>2, <1>1 DEF Placed, Start
  <2> HIDE DEF n, at
  <2> QED
    BY <2>1, <1>3, SizeAssumption DEF Offsets, Advance, Behind
<1>5. x2 = Advance(s[1].at, n)
  BY <1>3, SizeAssumption DEF Offsets, Advance, Start
<1>6. ASSUME NEW k \in 2..N
      PROVE  Placed(x2, y, s[k]) /\ x2 # y
  <2>1. Precedes(x, y, s[1], s[k]) /\ Placed(x, y, s[k])
    BY <1>1 DEF Layout
  <2>2. Span(s[k]) \in 1..(Size - 1) /\ s[k].at \in Offsets
    BY <1>2
  <2> QED
    BY <2>1, <2>2, <1>3, SizeAssumption
    DEF Offsets, Placed, Precedes, Advance, Start
<1>7. t = <<>> <=> x2 = y
  <2>1. CASE N = 1
    BY <2>1, <1>1, <1>5 DEF Layout
  <2>2. CASE N # 1
    BY <2>2, <1>1, <1>6
  <2> QED BY <2>1, <2>2
<1>8. t # <<>> => t[1].at = Start(x2, Span(t[1]))
  <2> SUFFICES ASSUME t # <<>> PROVE t[1].at = Start(x2, Span(t[1]))
    OBVIOUS
  <2>1. 1 \in 1..(N - 1) /\ t[1] = s[2]
    BY <1>1
  <2> QED BY <2>1, <1>5 DEF Layout
<1>9. t # <<>> => y = Advance(t[Len(t)].at, Span(t[Len(t)]))
  <2> SUFFICES ASSUME t # <<>> PROVE y = Advance(t[Len(t)].at, Span(t[Len(t)]))
    OBVIOUS
  <2>1. t[Len(t)] = s[N]
    BY <1>1
  <2> QED BY <2>1 DEF Layout
<1>10. \A k \in 1..Len(t) : Placed(x2, y, t[k])
  <2> TAKE k \in 1..Len(t)
  <2>1. k + 1 \in 2..N /\ t[k] = s[k + 1]
    BY <1>1
  <2> QED BY <2>1, <1>6
<1>11. ASSUME NEW k \in 1..(Len(t) - 1)
       PROVE  t[k + 1].at = Start(Advance(t[k].at, Span(t[k])), Span(t[k + 1]))
  <2>1. k + 1 \in 1..(N - 1) /\ t[k] = s[k + 1] /\ t[k + 1] = s[(k + 1) + 1]
    BY <1>1
  <2> QED BY <2>1 DEF Layout
<1>12. ASSUME NEW j \in 2..N, NEW k \in 2..N, j < k
       PROVE  Precedes(x2, y, s[j], s[k])
  <2>1. /\ Precedes(x, y, s[j], s[k])
        /\ Precedes(x, y, s[1], s[j]) /\ Precedes(x, y, s[1], s[k])
        /\ Placed(x, y, s[j]) /\ Placed(x, y, s[k])
    BY <1>12, <1>1 DEF Layout
  <2>2. /\ Span(s[j]) \in 1..(Size - 1) /\ s[j].at \in Offsets
        /\ Span(s[k]) \in 1..(Size - 1) /\ s[k].at \in Offsets
    BY <1>2
  <2>3. CASE x < y
    BY <2>1, <2>2, <2>3, <1>3, SizeAssumption, SMTT(60)
    DEF Offsets, Placed, Precedes, Advance, Start
  <2>4. CASE y < x /\ x + n > Size
    BY <2>1, <2>2, <2>4, <1>3, SizeAssumption, SMTT(60)
    DEF Offsets, Placed, Precedes, Advance, Start
  <2>5. CASE y < x /\ x + n <= Size
    <3>1. s[1].at = x /\ n = Span(s[1]) /\ x2 = IF x + n = Size THEN 0 ELSE x + n
      BY <2>5, <1>3, SizeAssumption DEF Offsets, Advance, Start
    <3>2. /\ s[j].at < x \/ x + n <= s[j].at
          /\ s[k].at < x \/ x + n <= s[k].at
      BY <2>1, <2>2, <3>1 DEF Precedes
    <3>3. n \in 1..(Size - 1)
      BY <1>3
    <3> HIDE DEF n, x2
    <3>4. CASE x + n = Size
      BY <2>1, <2>2, <2>5, <3>1, <3>2, <3>3, <3>4, SizeAssumption, SMTT(60)
      DEF Offsets, Precedes
    <3>5. CASE x + n # Size
      <4>1. x2 = x + n /\ x2 \in Int /\ x \in Int /\ y \in Int /\ y < x2 /\ x < x2
        BY <2>5, <3>1, <3>3, <3>5 DEF Offsets
      <4>2. s[j].at \in Int /\ s[k].at \in Int /\ Span(s[j]) \in Int
        BY <2>2 DEF Offsets
      <4> QED
        BY <2>1, <3>2, <4>1, <4>2 DEF Precedes
    <3> QED BY <3>4, <3>5
  <2> QED
    BY <2>3, <2>4, <2>5, <1>3, SizeAssumption DEF Offsets
<1>13. \A j, k \in 1..Len(t) : j < k => Precedes(x2, y, t[j], t[k])
  <2> TAKE j, k \in 1..Len(t)
  <2>1. /\ j + 1 \in 2..N /\ t[j] = s[j + 1]
        /\ k + 1 \in 2..N /\ t[k] = s[k + 1]
        /\ j < k => j + 1 < k + 1
    BY <1>1
  <2> QED BY <2>1, <1>12
<1>14. Layout(x2, y, t)
  BY <1>7, <1>8, <1>9, <1>10, <1>11, <1>13 DEF Layout
<1> QED
  BY <1>4, <1>14

-----------------------------------------------------------------------------
(* The invariant holds at first and every action preserves it. *)

\* A function on 1..n is a sequence.
LEMMA FunctionIsSeq ==
    ASSUME NEW S, NEW n \in Nat, NEW f \in [1..n -> S]
    PROVE  f \in Seq(S)
BY SeqDef

\* The end of a sequence is a sequence over the same set.
LEMMA LastOfIsSeq ==
    ASSUME NEW S, NEW s \in Seq(S), NEW n \in Nat
    PROVE  LastOf(s, n) \in Seq(S)
<1>1. CASE Len(s) <= n
  BY <1>1 DEF LastOf
<1>2. CASE ~(Len(s) <= n)
  <2>1. Len(s) \in Nat /\ Len(s) - n + 1 \in Int
    BY LenProperties
  <2>2. \A i \in (Len(s) - n + 1)..Len(s) : s[i] \in S
    BY <1>2, <2>1, ElementOfSeq
  <2>3. SubSeq(s, Len(s) - n + 1, Len(s)) \in Seq(S)
    BY <2>1, <2>2, SubSeqProperties
  <2> QED BY <1>2, <2>3 DEF LastOf
<1> QED BY <1>1, <1>2

\* A thread outside the driver is well typed.
LEMMA IdleTypes ==
    /\ IdleWriter \in Writers /\ IdleReader \in Readers
    /\ IdleWriter.pc = "idle" /\ IdleReader.pc = "idle"
<1>1. 0 \in Offsets /\ 0 \in 0..(TimesMod - 1)
  BY SizeAssumption, TimesAssumption DEF Offsets
<1>2. <<>> \in Seq(Nat)
  BY EmptySeq
<1> QED
  BY <1>1, <1>2 DEF IdleWriter, IdleReader, Writers, Readers

\* The invariant holds at first.
LEMMA InitHolds ==
    ASSUME Init
    PROVE  IInv
<1>1. 0 \in Offsets
  BY SizeAssumption DEF Offsets
<1>2. TypeOK
  <2>1. q \in [0..1 -> Seq(Packets)] /\ kept \in [0..1 -> Seq(Nat)] /\ out \in Seq(Nat)
    BY EmptySeq DEF Init
  <2>2. /\ rd \in [0..1 -> Offsets] /\ wt \in [0..1 -> Offsets]
        /\ reserved \in [0..1 -> Nat] /\ mem \in [Offsets -> Nat]
    BY <1>1 DEF Init
  <2>3. wt_times \in 0..(TimesMod - 1) /\ rd_times \in 0..(TimesMod - 1)
    BY TimesAssumption DEF Init
  <2>4. w \in Writers /\ r \in Readers
    BY IdleTypes DEF Init
  <2> QED BY <2>1, <2>2, <2>3, <2>4 DEF Init, TypeOK
<1>3. Layout(rd[index], wt[index], q[index])
  BY EmptySeq DEF Init, Layout
<1> QED
  BY <1>2, <1>3, IdleTypes DEF Init, IInv, ReaderInv, WriterInv

\* A caller that offers a packet changes nothing in the ring.
LEMMA OfferPreserves ==
    ASSUME IInv, NEW l \in Lens, Offer(l)
    PROVE  IInv'
<1> USE DEF IInv, Offer, desc, ghosts, bounds
<1>1. TypeOK'
  <2>1. sent' \in Nat
    BY SMTT(60) DEF TypeOK
  <2>2. w' \in Writers
    BY <2>1, IdleTypes DEF Writers
  <2> QED BY <2>1, <2>2 DEF TypeOK
<1>2. Layout(rd[index], wt[index], q[index])'
  OBVIOUS
<1>3. ReaderInv'
  BY DEF ReaderInv
<1>4. WriterInv'
  BY DEF WriterInv, IdleWriter, TypeOK
<1> QED
  BY <1>1, <1>2, <1>3, <1>4

\* Nor does one that gives up,
LEMMA GiveUpPreserves ==
    ASSUME IInv, GiveUp
    PROVE  IInv'
<1> USE DEF IInv, GiveUp, desc, ghosts, bounds
<1>1. TypeOK'
  BY IdleTypes DEF TypeOK
<1>2. Layout(rd[index], wt[index], q[index])'
  OBVIOUS
<1>3. ReaderInv'
  BY DEF ReaderInv
<1>4. WriterInv'
  BY DEF WriterInv, IdleWriter
<1> QED
  BY <1>1, <1>2, <1>3, <1>4

\* nor a copy for which there is no DMA channel.
LEMMA CopyFailsPreserves ==
    ASSUME IInv, CopyFails
    PROVE  IInv'
<1> USE DEF IInv, CopyFails, desc, ghosts, bounds
<1>1. TypeOK'
  BY IdleTypes DEF TypeOK
<1>2. Layout(rd[index], wt[index], q[index])'
  OBVIOUS
<1>3. ReaderInv'
  BY DEF ReaderInv
<1>4. WriterInv'
  BY DEF WriterInv, IdleWriter
<1> QED
  BY <1>1, <1>2, <1>3, <1>4

\* The read pointer the writer loads is one of the reader's, for now the present one.
LEMMA RequestWriteLoadPreserves ==
    ASSUME IInv, RequestWriteLoad
    PROVE  IInv'
<1> USE DEF IInv, RequestWriteLoad, desc, ghosts, bounds
<1>1. TypeOK'
  <2>1. w' \in Writers
    BY DEF TypeOK, Writers
  <2> QED BY <2>1 DEF TypeOK
<1>2. Layout(rd[index], wt[index], q[index])'
  OBVIOUS
<1>3. ReaderInv'
  BY DEF ReaderInv
<1>4. Behind(rd[index], rd[index], wt[index])
  BY SMTT(60) DEF Behind, TypeOK, Offsets
<1>5. WriterInv'
  BY <1>4 DEF WriterInv, TypeOK
<1> QED
  BY <1>1, <1>2, <1>3, <1>5

\* The writer's copy touches only the place it was granted.
LEMMA CopyPreserves ==
    ASSUME IInv, Copy
    PROVE  IInv'
<1> USE DEF IInv, Copy, desc, ghosts, bounds
<1>1. TypeOK'
  <2>1. w' \in Writers
    BY DEF TypeOK, Writers
  <2>2. mem' \in [Offsets -> Nat]
    BY DEF TypeOK, Writers
  <2> QED BY <2>1, <2>2 DEF TypeOK
<1>2. Layout(rd[index], wt[index], q[index])'
  OBVIOUS
<1>3. ReaderInv'
  BY DEF ReaderInv
<1>4. WriterInv'
  BY DEF WriterInv, TypeOK
<1> QED
  BY <1>1, <1>2, <1>3, <1>4

\* A reset zeroes the pointers that are not in use.
LEMMA ZeroIdleSetPreserves ==
    ASSUME IInv, ZeroIdleSet, ~flag,
           w' \in Writers, w'.pc = "flip", w'.at = 0,
           UNCHANGED <<index, flag, mem, r, out>>,
           sent' \in Nat, resets' \in Nat
    PROVE  IInv'
<1> USE DEF IInv, ZeroIdleSet
<1>1. TypeOK'
  <2>1. 0 \in Offsets /\ 0 \in 0..(TimesMod - 1)
    BY SizeAssumption, TimesAssumption DEF Offsets
  <2>3. q' \in [0..1 -> Seq(Packets)] /\ kept' \in [0..1 -> Seq(Nat)]
    BY EmptySeq DEF TypeOK
  <2>4. /\ rd' \in [0..1 -> Offsets] /\ wt' \in [0..1 -> Offsets]
        /\ reserved' \in [0..1 -> Nat]
    BY <2>1 DEF TypeOK
  <2>5. stale' \in BOOLEAN
    OBVIOUS
  <2> QED
    BY <2>1, <2>3, <2>4, <2>5 DEF TypeOK
<1>2. /\ rd'[index] = rd[index] /\ wt'[index] = wt[index] /\ q'[index] = q[index]
      /\ rd'[1 - index] = 0 /\ wt'[1 - index] = 0 /\ q'[1 - index] = <<>>
  BY DEF TypeOK
<1>3. Layout(rd[index], wt[index], q[index])'
  BY <1>2
<1>4. ReaderInv'
  BY <1>2 DEF ReaderInv
<1>5. WriterInv'
  BY <1>2 DEF WriterInv, TypeOK
<1> QED
  BY <1>1, <1>2, <1>3, <1>4, <1>5

\* A reset begins with the pointers that are not in use.
LEMMA SpecialResetPreserves ==
    ASSUME IInv, SpecialReset
    PROVE  IInv'
<1>1. w = IdleWriter
  BY DEF IInv, WriterInv, SpecialReset
<1>2. w' \in Writers /\ w'.pc = "flip" /\ w'.at = 0
  BY <1>1, IdleTypes DEF SpecialReset, IdleWriter, Writers
<1>3. sent' \in Nat /\ resets' \in Nat
  BY SMTT(60) DEF SpecialReset, IInv, TypeOK
<1> QED
  BY <1>2, <1>3, ZeroIdleSetPreserves DEF SpecialReset

\* What kshm_request_write answers: nothing, a reset ring, or a free place.
LEMMA RequestWritePreserves ==
    ASSUME IInv, Fits, RequestWrite
    PROVE  IInv'
<1> DEFINE s == RoundUp(w.len)
           refused == NoRoom(w.rd, wt[index], reserved[index], s)
           p == Grant(w.rd, wt[index], s)
<1>1. /\ w \in Writers /\ w.pc = "req" /\ w.len \in Lens /\ s \in 1..(Size - 1)
      /\ Behind(w.rd, rd[index], wt[index])
      /\ rd[index] \in Offsets /\ wt[index] \in Offsets /\ w.rd \in Offsets
      /\ 0 \in Offsets
  <2>1. w \in Writers /\ w.pc = "req" /\ w.len \in Lens
    BY DEF IInv, TypeOK, WriterInv, RequestWrite
  <2>2. s \in 1..(Size - 1)
    BY <2>1, RoundUpFacts
  <2>3. Behind(w.rd, rd[index], wt[index])
    BY <2>1 DEF IInv, WriterInv
  <2>4. rd[index] \in Offsets /\ wt[index] \in Offsets /\ w.rd \in Offsets
    BY <2>1 DEF IInv, TypeOK, Writers
  <2>5. 0 \in Offsets
    BY SizeAssumption DEF Offsets
  <2> QED BY <2>1, <2>2, <2>3, <2>4, <2>5
<1>2. ASSUME w' = [w EXCEPT !.pc = "want"], UNCHANGED <<desc, ghosts>>,
             UNCHANGED <<mem, r, out, bounds>>
      PROVE  IInv'
  <2> USE DEF IInv, desc, ghosts, bounds
  <2>1. w' \in Writers
    BY <1>1, <1>2 DEF Writers
  <2>2. TypeOK'
    BY <1>2, <2>1 DEF TypeOK
  <2>3. ReaderInv'
    BY <1>2 DEF ReaderInv
  <2>4. WriterInv'
    BY <1>1, <1>2 DEF WriterInv, Writers
  <2> QED
    BY <1>2, <2>2, <2>3, <2>4
<1>3. ASSUME NEW a \in Offsets, Granted(rd[index], wt[index], a, s),
             w' = [w EXCEPT !.pc = "copy", !.at = a], UNCHANGED <<desc, ghosts>>,
             UNCHANGED <<mem, r, out, bounds>>
      PROVE  IInv'
  <2> USE DEF IInv, desc, ghosts, bounds
  <2>1. w' \in Writers /\ w'.len = w.len /\ w'.at = a /\ w'.pc = "copy"
    BY <1>1, <1>3 DEF Writers
  <2>2. TypeOK'
    BY <1>3, <2>1 DEF TypeOK
  <2>3. ReaderInv'
    BY <1>3 DEF ReaderInv
  <2>4. WriterInv'
    BY <1>1, <1>3, <2>1 DEF WriterInv
  <2> QED
    BY <1>3, <2>2, <2>3, <2>4
<1>4. CASE refused /\ w' = [w EXCEPT !.pc = "want"] /\ UNCHANGED <<desc, q, kept, stale>>
  BY <1>2, <1>4 DEF RequestWrite, ghosts
<1>5. CASE /\ refused /\ w.rd = wt[index] /\ flag
           /\ w' = [w EXCEPT !.pc = "copy", !.at = 0]
           /\ UNCHANGED <<desc, q, kept, stale>>
  <2>1. rd[index] = 0 /\ wt[index] = 0
    BY <1>1, <1>5 DEF IInv, Behind, Offsets
  <2>2. Granted(rd[index], wt[index], 0, s)
    BY <1>1, <2>1, SizeAssumption DEF Granted, Start, Offsets
  <2> QED
    BY <1>1, <1>3, <1>5, <2>2 DEF RequestWrite, ghosts
<1>6. CASE /\ ~flag /\ ZeroIdleSet
           /\ w' = [w EXCEPT !.pc = "flip", !.at = 0]
           /\ UNCHANGED <<index, flag>>
  <2>1. w' \in Writers /\ w'.pc = "flip" /\ w'.at = 0
    BY <1>1, <1>6 DEF Writers
  <2>2. sent' \in Nat /\ resets' \in Nat
    BY DEF RequestWrite, bounds, IInv, TypeOK
  <2> QED
    BY <1>6, <2>1, <2>2, ZeroIdleSetPreserves DEF RequestWrite
<1>7. CASE /\ ~refused /\ UNCHANGED <<desc, q, kept, stale>>
           /\ w' = IF p = NULL THEN [w EXCEPT !.pc = "want"]
                   ELSE [w EXCEPT !.pc = "copy", !.at = p]
  <2>1. CASE p = NULL
    BY <1>2, <1>7, <2>1 DEF RequestWrite, ghosts
  <2>2. CASE p # NULL
    <3>1. Granted(rd[index], wt[index], p, s) /\ p \in Offsets
      BY <1>1, <2>2, GrantIsFree
    <3> QED
      BY <1>3, <1>7, <2>2, <3>1 DEF RequestWrite, ghosts
  <2> QED BY <2>1, <2>2
<1> QED
  BY <1>4, <1>5, <1>6, <1>7 DEF RequestWrite

\* The flip makes the empty pointer set the current one.
LEMMA SpecialResetFlipPreserves ==
    ASSUME IInv, Fits, SpecialResetFlip
    PROVE  IInv'
<1> USE DEF IInv, SpecialResetFlip
<1>1. /\ w \in Writers /\ index' = 1 - index /\ index' \in 0..1 /\ index' # index
      /\ rd'[index'] = 0 /\ wt'[index'] = 0 /\ q'[index'] = <<>>
      /\ flag' = TRUE /\ ~flag /\ w.at = 0
  BY SMTT(60) DEF TypeOK, WriterInv
<1>2. w' \in Writers
  BY <1>1, IdleTypes DEF Writers
<1>3. TypeOK'
  BY <1>1, <1>2 DEF TypeOK, bounds
<1>4. Layout(rd[index], wt[index], q[index])'
  <2>1. Layout(0, 0, <<>>)
    BY EmptySeq DEF Layout
  <2> QED BY <1>1, <2>1
<1>5. ReaderInv'
  BY <1>1 DEF ReaderInv
<1>6. WriterInv'
  <2>1. CASE w.len = 0
    BY <1>1, <2>1, IdleTypes DEF WriterInv
  <2>2. CASE w.len # 0
    <3>1. w.len \in Lens /\ RoundUp(w.len) \in 1..(Size - 1)
      BY <1>1, <2>2, RoundUpFacts DEF Writers
    <3>2. Granted(0, 0, 0, RoundUp(w.len))
      BY <3>1, SizeAssumption DEF Granted, Start
    <3>3. w'.pc = "copy" /\ w'.len = w.len /\ w'.at = 0
      BY <1>1, <2>2 DEF Writers
    <3> QED BY <1>1, <3>1, <3>2, <3>3 DEF WriterInv
  <2> QED BY <2>1, <2>2
<1> QED
  BY <1>1, <1>3, <1>4, <1>5, <1>6

\* kshm_update_write adds the packet behind the others.
LEMMA UpdateWritePreserves ==
    ASSUME IInv, Fits, UpdateWrite
    PROVE  IInv'
<1> DEFINE pkt == Packet(w.at, w.len, w.tag)
           i == index
<1>1. /\ w \in Writers /\ w.len \in Lens /\ i \in 0..1
      /\ rd[i] \in Offsets /\ wt[i] \in Offsets /\ q[i] \in Seq(Packets)
      /\ Layout(rd[i], wt[i], q[i])
      /\ Granted(rd[i], wt[i], w.at, RoundUp(w.len))
  BY DEF IInv, TypeOK, WriterInv, UpdateWrite
<1>2. pkt \in Packets /\ pkt.at = w.at /\ Span(pkt) = RoundUp(w.len)
  BY <1>1 DEF Packet, Packets, Writers, Span
<1>3. /\ Advance(wt[i], RoundUp(w.len)) \in Offsets
      /\ Layout(rd[i], Advance(wt[i], RoundUp(w.len)), Append(q[i], pkt))
  BY <1>1, <1>2, PushLayout
<1>4. /\ index' = i /\ flag' = flag /\ rd' = rd /\ r' = r
      /\ w' = [IdleWriter EXCEPT !.pc = "count"]
      /\ wt'[i] = Advance(wt[i], RoundUp(w.len)) /\ q'[i] = Append(q[i], pkt)
  BY <1>1 DEF UpdateWrite, IInv, TypeOK
<1>5. TypeOK'
  <2>0. w' \in Writers
    BY <1>4, IdleTypes DEF Writers
  <2>1. wt' \in [0..1 -> Offsets]
    BY <1>3 DEF UpdateWrite, IInv, TypeOK
  <2>2. q' \in [0..1 -> Seq(Packets)]
    <3>1. Append(q[i], pkt) \in Seq(Packets)
      BY <1>1, <1>2
    <3>2. q \in [0..1 -> Seq(Packets)] /\ q' = [q EXCEPT ![i] = Append(@, pkt)]
      BY DEF UpdateWrite, IInv, TypeOK
    <3> HIDE DEF pkt
    <3> QED BY <1>1, <3>1, <3>2
  <2> QED
    BY <2>0, <2>1, <2>2 DEF UpdateWrite, IInv, TypeOK, bounds
<1>6. Layout(rd[index], wt[index], q[index])'
  BY <1>3, <1>4
<1>7. ReaderInv'
  <2>1. q[i] # <<>> => q'[i] # <<>> /\ q'[i][1] = q[i][1]
    BY <1>1, <1>2, <1>4
  <2>2. \A j \in 0..1 : q[j] # <<>> => q'[j] # <<>>
    BY <1>1, <2>1 DEF UpdateWrite, IInv, TypeOK
  <2>3. r.idx \in 0..1
    BY DEF IInv, TypeOK, Readers
  <2> QED
    BY <1>4, <2>1, <2>2, <2>3 DEF ReaderInv, IInv
<1>8. WriterInv'
  <2>1. w'.pc = "count"
    BY <1>4 DEF IdleWriter
  <2> QED BY <2>1 DEF WriterInv
<1> QED
  BY <1>4, <1>5, <1>6, <1>7, <1>8 DEF IInv

\* Counting it moves no pointer.
LEMMA WriteTimesPreserves ==
    ASSUME IInv, WriteTimes
    PROVE  IInv'
<1> USE DEF IInv, WriteTimes, ghosts, bounds
<1>1. TypeOK'
  <2>1. wt_times' \in 0..(TimesMod - 1)
    BY TimesAssumption DEF TypeOK
  <2> QED BY <2>1, IdleTypes DEF TypeOK
<1>2. Layout(rd[index], wt[index], q[index])'
  OBVIOUS
<1>3. ReaderInv'
  BY DEF ReaderInv
<1>4. WriterInv'
  BY DEF WriterInv, IdleWriter
<1> QED
  BY <1>1, <1>2, <1>3, <1>4

\* What the reader loads belongs to the set in use.
LEMMA RequestReadLoadPreserves ==
    ASSUME IInv, RequestReadLoad
    PROVE  IInv'
<1> USE DEF IInv, RequestReadLoad, desc, ghosts, bounds
<1>1. r' \in Readers /\ r'.pc = "req" /\ r'.idx = index
  BY DEF TypeOK, Readers
<1>2. TypeOK'
  BY <1>1 DEF TypeOK
<1>3. ReaderInv'
  BY <1>1 DEF ReaderInv
<1>4. WriterInv'
  BY DEF WriterInv
<1> QED
  BY <1>2, <1>3, <1>4

\* kshm_request_read hands out the oldest packet when no reset is pending.
LEMMA RequestReadPreserves ==
    ASSUME IInv, Fits, NEW l \in Lens, RequestRead(l)
    PROVE  IInv'
<1> DEFINE x == rd[r.idx]
           y == wt[r.idx]
           s == RoundUp(l)
           a == IF x + s > Size THEN 0 ELSE x
<1>1. /\ r \in Readers /\ s \in 1..(Size - 1) /\ x \in Offsets /\ y \in Offsets
      /\ r.pc = "req" /\ index \in 0..1 /\ q[index] \in Seq(Packets)
      /\ ~flag => r.idx = index
  BY RoundUpFacts DEF IInv, TypeOK, Readers, ReaderInv, RequestRead
<1>2. w' = w /\ mem' = mem /\ UNCHANGED <<desc, ghosts, bounds>>
  BY DEF RequestRead
<1>3. WriterInv'
  BY <1>2 DEF WriterInv, IInv, desc, ghosts
<1>4. CASE Avail(x, y) < s
  <2>1. r' = IdleReader
    BY <1>4 DEF RequestRead
  <2>2. TypeOK'
    BY <1>2, <2>1, IdleTypes DEF IInv, TypeOK, desc, ghosts, bounds
  <2>3. ReaderInv'
    BY <2>1, IdleTypes DEF ReaderInv
  <2> QED
    BY <1>2, <1>3, <2>2, <2>3 DEF IInv, desc, ghosts
<1>5. CASE ~(Avail(x, y) < s)
  <2>1. a \in Offsets /\ a + s <= Size
    BY <1>1, <1>5, SizeAssumption DEF Avail, Offsets
  <2>2. r' = [r EXCEPT !.pc = "copy", !.len = l, !.at = a]
    BY <1>5 DEF RequestRead
  <2> HIDE DEF a
  <2>3. /\ r' \in Readers /\ r'.pc = "copy" /\ r'.len = l /\ r'.at = a
        /\ r'.idx = r.idx
    BY <1>1, <2>1, <2>2 DEF Readers
  <2>4. TypeOK'
    BY <1>2, <2>3 DEF IInv, TypeOK, desc, ghosts, bounds
  <2>5. ASSUME ~flag
        PROVE  q[index] # <<>> /\ a = q[index][1].at /\ l = q[index][1].len
    <3>1. r.idx = index /\ Layout(x, y, q[index])
      BY <1>1, <2>5 DEF IInv
    <3>2. x # y
      BY <1>1, <1>5 DEF Avail, Offsets
    <3>3. q[index] # <<>>
      BY <3>1, <3>2 DEF Layout
    <3>4. l = q[index][1].len
      BY <1>1, <2>5, <3>1, <3>3 DEF RequestRead
    <3> QED
      BY <3>1, <3>3, <3>4 DEF a, Layout, Span, Start
  <2>6. ReaderInv'
    BY <1>1, <1>2, <2>1, <2>3, <2>5 DEF ReaderInv, desc, ghosts
  <2> QED
    BY <1>2, <1>3, <2>4, <2>6 DEF IInv, desc, ghosts
<1> QED
  BY <1>4, <1>5

\* The reader copies the head of the chain.
LEMMA ReadCopyPreserves ==
    ASSUME IInv, Fits, ReadCopy
    PROVE  IInv'
<1> DEFINE g == [k \in 1..r.len |-> mem[r.at + k - 1]]
<1>1. /\ r \in Readers /\ r.pc = "copy" /\ r.len \in Lens
      /\ r.at + RoundUp(r.len) <= Size /\ r.at \in Offsets
      /\ mem \in [Offsets -> Nat]
  BY DEF IInv, TypeOK, Readers, ReaderInv, ReadCopy
<1>2. r.len \in Nat /\ RoundUp(r.len) \in Nat /\ r.len <= RoundUp(r.len)
  BY <1>1, RoundUpBounds, LensAssumption
<1>3. g \in Seq(Nat)
  <2>1. \A k \in 1..r.len : r.at + k - 1 \in Offsets
    BY <1>1, <1>2, SizeAssumption, SMTT(60) DEF Offsets
  <2>2. g \in [1..r.len -> Nat]
    BY <1>1, <2>1
  <2> QED BY <1>2, <2>2, FunctionIsSeq
<1>4. r' = [r EXCEPT !.pc = "upd", !.got = g]
  BY DEF ReadCopy
<1> HIDE DEF g
<1>5. /\ r' \in Readers /\ r'.pc = "upd" /\ r'.idx = r.idx /\ r'.len = r.len
      /\ r'.at = r.at
  BY <1>1, <1>3, <1>4 DEF Readers
<1>6. TypeOK'
  BY <1>5 DEF IInv, TypeOK, ReadCopy, desc, ghosts, bounds
<1>7. ReaderInv'
  BY <1>1, <1>5 DEF IInv, ReaderInv, ReadCopy, desc, ghosts
<1>8. WriterInv'
  BY DEF IInv, WriterInv, ReadCopy, desc, ghosts
<1> QED
  BY <1>6, <1>7, <1>8 DEF IInv, ReadCopy, desc, ghosts

\* A read under a reset is void and clears the flag; else the head is still there.
LEMMA UpdateReadPreserves ==
    ASSUME IInv, UpdateRead
    PROVE  IInv'
<1>1. /\ r \in Readers /\ r.pc = "upd" /\ index \in 0..1
      /\ rd' = rd /\ wt' = wt /\ q' = q /\ index' = index /\ w' = w
  BY DEF IInv, TypeOK, UpdateRead
<1>2. CASE flag
  <2>1. r' = IdleReader /\ flag' = FALSE
    BY <1>2 DEF UpdateRead
  <2>2. TypeOK'
    BY <1>1, <1>2, <2>1, IdleTypes DEF IInv, TypeOK, UpdateRead, bounds
  <2>3. ReaderInv'
    BY <2>1, IdleTypes DEF ReaderInv
  <2>4. WriterInv'
    BY <1>1, <2>1 DEF IInv, WriterInv
  <2> QED
    BY <1>1, <2>1, <2>2, <2>3, <2>4 DEF IInv
<1>3. CASE ~flag
  <2>1. r' = [r EXCEPT !.pc = "store", !.idx = index] /\ flag' = flag /\ out' = r.got
    BY <1>3 DEF UpdateRead
  <2>2. /\ r' \in Readers /\ r'.pc = "store" /\ r'.idx = index
        /\ r'.len = r.len /\ r'.at = r.at
    BY <1>1, <2>1 DEF Readers
  <2>3. out' \in Seq(Nat)
    BY <1>1, <2>1 DEF Readers
  <2>4. stale' \in BOOLEAN
    BY <1>3 DEF UpdateRead, IInv, TypeOK
  <2>5. TypeOK'
    BY <1>1, <2>1, <2>2, <2>3, <2>4 DEF IInv, TypeOK, UpdateRead, bounds
  <2>6. ReaderInv'
    BY <1>1, <1>3, <2>1, <2>2 DEF IInv, ReaderInv
  <2>7. WriterInv'
    BY <1>1, <2>1 DEF IInv, WriterInv
  <2> QED
    BY <1>1, <2>1, <2>5, <2>6, <2>7 DEF IInv
<1> QED
  BY <1>2, <1>3

\* kshm_update_read consumes the oldest packet, of the current pointers or of
\* those a reset has just put out of use.
LEMMA UpdateReadStorePreserves ==
    ASSUME IInv, Fits, UpdateReadStore
    PROVE  IInv'
<1> DEFINE i == r.idx
           s == RoundUp(r.len)
<1>1. /\ r \in Readers /\ r.pc = "store" /\ i \in 0..1 /\ index \in 0..1
      /\ rd[i] \in Offsets /\ wt[i] \in Offsets /\ q[i] \in Seq(Packets)
      /\ s \in 1..(Size - 1)
      /\ wt' = wt /\ index' = index /\ flag' = flag /\ w' = w
  BY RoundUpFacts DEF IInv, TypeOK, Readers, ReaderInv, UpdateReadStore
<1>2. CASE wt[i] = rd[i]
  <2>1. r' = IdleReader /\ rd' = rd /\ q' = q /\ kept' = kept
    BY <1>2 DEF UpdateReadStore
  <2>2. TypeOK'
    BY <1>1, <2>1, IdleTypes DEF IInv, TypeOK, UpdateReadStore, bounds
  <2>3. ReaderInv'
    BY <2>1, IdleTypes DEF ReaderInv
  <2>4. WriterInv'
    BY <1>1, <2>1 DEF IInv, WriterInv
  <2> QED
    BY <1>1, <2>1, <2>2, <2>3, <2>4 DEF IInv
<1>3. CASE wt[i] # rd[i]
  <2>1. /\ rd' = [rd EXCEPT ![i] = Advance(@, s)]
        /\ q' = [q EXCEPT ![i] = Tail(@)]
        /\ r' = [r EXCEPT !.pc = "times"]
    BY <1>3 DEF UpdateReadStore
  <2>2. r' \in Readers /\ r'.pc = "times"
    BY <1>1, <2>1 DEF Readers
  <2>3. ReaderInv'
    BY <2>2 DEF ReaderInv
  <2>4. Advance(rd[i], s) \in Offsets
    BY <1>1, SizeAssumption DEF Offsets, Advance
  <2>5. TypeOK'
    <3>1. rd' \in [0..1 -> Offsets]
      BY <1>1, <2>1, <2>4 DEF IInv, TypeOK
    <3>2. q' \in [0..1 -> Seq(Packets)]
      <4>1. Tail(q[i]) \in Seq(Packets)
        BY <1>1, HeadTailProperties DEF IInv, ReaderInv
      <4> QED BY <1>1, <2>1, <4>1 DEF IInv, TypeOK
    <3>3. kept' \in [0..1 -> Seq(Nat)]
      <4> DEFINE b == [k \in 1..s |-> r.at + k - 1]
      <4>1. b \in Seq(Nat)
        <5>1. b \in [1..s -> Nat]
          BY <1>1 DEF Readers, Offsets
        <5> QED BY <1>1, <5>1, FunctionIsSeq
      <4>2. kept[i] \in Seq(Nat)
        BY <1>1 DEF IInv, TypeOK
      <4>3. kept[i] \o b \in Seq(Nat)
        BY <4>1, <4>2, ConcatProperties
      <4>4. LastOf(kept[i] \o b, MaxReserve) \in Seq(Nat)
        BY <4>3, LastOfIsSeq, ReservesAssumption
      <4>5. kept' = [kept EXCEPT ![i] = LastOf(kept[i] \o b, MaxReserve)]
        BY <1>1, <1>3 DEF UpdateReadStore, IInv, TypeOK
      <4> HIDE DEF b
      <4> QED BY <1>1, <4>4, <4>5 DEF IInv, TypeOK
    <3> QED
      BY <1>1, <2>2, <3>1, <3>2, <3>3 DEF IInv, TypeOK, UpdateReadStore, bounds
  <2>6. CASE flag
    <3>1. /\ i # index /\ rd'[index] = rd[index] /\ q'[index] = q[index]
          /\ w.pc # "flip"
      BY <1>1, <2>1, <2>6 DEF IInv, TypeOK, ReaderInv, WriterInv
    <3>2. WriterInv'
      BY <1>1, <3>1 DEF IInv, WriterInv
    <3> QED
      BY <1>1, <2>3, <2>5, <3>1, <3>2 DEF IInv
  <2>7. CASE ~flag
    <3>1. /\ i = index /\ q[i] # <<>> /\ s = Span(q[i][1])
          /\ Layout(rd[i], wt[i], q[i])
      BY <1>1, <2>7 DEF IInv, ReaderInv, Span
    <3>2. /\ Behind(rd[i], rd'[i], wt[i]) /\ rd'[i] \in Offsets
          /\ Layout(rd'[i], wt[i], q'[i])
      <4>1. rd'[i] = Advance(rd[i], s) /\ q'[i] = Tail(q[i])
        BY <1>1, <2>1 DEF IInv, TypeOK
      <4> QED BY <1>1, <3>1, <4>1, PopLayout
    <3>3. WriterInv'
      <4>1. w.pc = "req" => Behind(w.rd, rd'[i], wt[i])
        BY <1>1, <1>3, <3>1, <3>2, BehindTransitive
        DEF IInv, WriterInv, TypeOK, Writers
      <4>2. w.pc \in {"copy", "commit"} =>
              Granted(rd'[i], wt[i], w.at, RoundUp(w.len))
        BY <1>1, <1>3, <3>1, <3>2, MoveKeepsGrant, RoundUpFacts
        DEF IInv, WriterInv, TypeOK, Writers
      <4>3. rd'[1 - index] = rd[1 - index] /\ q'[1 - index] = q[1 - index]
        <5>1. 1 - index # index
          BY <1>1
        <5> QED BY <2>1, <3>1, <5>1 DEF IInv, TypeOK
      <4> QED
        BY <1>1, <3>1, <4>1, <4>2, <4>3 DEF IInv, WriterInv
    <3> QED
      BY <1>1, <2>3, <2>5, <2>7, <3>1, <3>2, <3>3 DEF IInv
  <2> QED BY <2>6, <2>7
<1> QED
  BY <1>2, <1>3

\* Counting what was read touches no pointer.
LEMMA ReadTimesPreserves ==
    ASSUME IInv, ReadTimesLoad \/ ReadTimesStore
    PROVE  IInv'
<1>1. /\ rd' = rd /\ wt' = wt /\ q' = q /\ index' = index /\ flag' = flag /\ w' = w
  BY DEF ReadTimesLoad, ReadTimesStore, desc, ghosts
<1>2. r' \in Readers /\ r'.pc \in {"idle", "bump"}
  <2>1. CASE ReadTimesLoad
    BY <2>1 DEF ReadTimesLoad, IInv, TypeOK, Readers
  <2>2. CASE ReadTimesStore
    BY <2>2, IdleTypes DEF ReadTimesStore
  <2> QED BY <2>1, <2>2
<1>3. rd_times' \in 0..(TimesMod - 1)
  <2>1. CASE ReadTimesLoad
    BY <2>1 DEF ReadTimesLoad, IInv, TypeOK, desc
  <2>2. CASE ReadTimesStore
    <3>1. r.times \in Nat
      BY DEF IInv, TypeOK, Readers
    <3> QED BY <2>2, <3>1, TimesAssumption DEF ReadTimesStore
  <2> QED BY <2>1, <2>2
<1>4. TypeOK'
  BY <1>1, <1>2, <1>3
  DEF ReadTimesLoad, ReadTimesStore, IInv, TypeOK, desc, ghosts, bounds
<1>5. ReaderInv'
  BY <1>2 DEF ReaderInv
<1>6. WriterInv'
  BY <1>1 DEF IInv, WriterInv
<1> QED
  BY <1>1, <1>4, <1>5, <1>6 DEF IInv

\* A new reserve keeps what was granted before.
LEMMA UpdateReservedPreserves ==
    ASSUME IInv, NEW n \in Reserves, UpdateReserved(n)
    PROVE  IInv'
<1>1. /\ rd' = rd /\ wt' = wt /\ q' = q /\ index' = index /\ flag' = flag
      /\ w' = w /\ r' = r
  BY DEF UpdateReserved
<1>2. RoundUp(n) \in Nat
  BY RoundUpBounds, ReservesAssumption
<1>3. reserved' \in [0..1 -> Nat]
  BY <1>2 DEF UpdateReserved, IInv, TypeOK
<1>4. TypeOK'
  BY <1>1, <1>3 DEF UpdateReserved, IInv, TypeOK, bounds
<1> QED
  BY <1>1, <1>4 DEF IInv, ReaderInv, WriterInv

\* A full reset comes while neither thread is inside.
LEMMA ResetPreserves ==
    ASSUME IInv, Reset
    PROVE  IInv'
<1>1. /\ rd' = [i \in 0..1 |-> 0] /\ wt' = [i \in 0..1 |-> 0]
      /\ q' = [i \in 0..1 |-> <<>>] /\ index' = 0 /\ flag' = FALSE
      /\ w' = w /\ r' = r /\ w.pc = "idle" /\ r.pc = "idle"
  BY DEF Reset
<1>2. TypeOK'
  <2>1. 0 \in Offsets /\ 0 \in 0..(TimesMod - 1)
    BY SizeAssumption, TimesAssumption DEF Offsets
  <2>2. q' \in [0..1 -> Seq(Packets)] /\ kept' \in [0..1 -> Seq(Nat)]
    BY EmptySeq DEF Reset
  <2>3. /\ rd' \in [0..1 -> Offsets] /\ wt' \in [0..1 -> Offsets]
        /\ reserved' \in [0..1 -> Nat]
    BY <2>1 DEF Reset
  <2>4. resets' \in Nat /\ sent' \in Nat
    BY DEF Reset, IInv, TypeOK
  <2>5. wt_times' \in 0..(TimesMod - 1) /\ rd_times' \in 0..(TimesMod - 1)
    BY <2>1 DEF Reset
  <2>6. index' \in 0..1 /\ flag' \in BOOLEAN /\ stale' \in BOOLEAN
    BY DEF Reset
  <2>7. /\ mem' \in [Offsets -> Nat] /\ out' \in Seq(Nat)
        /\ w' \in Writers /\ r' \in Readers
    BY DEF Reset, IInv, TypeOK
  <2> QED
    BY <2>2, <2>3, <2>4, <2>5, <2>6, <2>7 DEF TypeOK
<1>3. Layout(rd[index], wt[index], q[index])'
  BY <1>1, EmptySeq DEF Layout
<1>4. ReaderInv'
  BY <1>1 DEF ReaderInv
<1>5. WriterInv'
  BY <1>1 DEF IInv, WriterInv
<1> QED
  BY <1>1, <1>2, <1>3, <1>4, <1>5 DEF IInv

-----------------------------------------------------------------------------
(* The theorems. *)

\* Every step keeps the invariant.
LEMMA NextPreserves ==
    ASSUME IInv, Fits, [Next]_vars
    PROVE  IInv'
<1>1. CASE UNCHANGED vars
  BY <1>1 DEF vars, desc, ghosts, bounds, IInv, TypeOK, ReaderInv, WriterInv
<1>2. ASSUME NEW l \in Lens, Offer(l) PROVE IInv'
  BY <1>2, OfferPreserves
<1>3. CASE GiveUp \/ CopyFails \/ SpecialReset
  BY <1>3, GiveUpPreserves, CopyFailsPreserves, SpecialResetPreserves
<1>4. CASE WriterStep
  BY <1>4, RequestWriteLoadPreserves, RequestWritePreserves,
     SpecialResetFlipPreserves, CopyPreserves, UpdateWritePreserves,
     WriteTimesPreserves
  DEF WriterStep
<1>5. ASSUME NEW l \in Lens, RequestRead(l) PROVE IInv'
  BY <1>5, RequestReadPreserves
<1>6. CASE ReaderStep
  BY <1>5, <1>6, RequestReadLoadPreserves, ReadCopyPreserves,
     UpdateReadPreserves, UpdateReadStorePreserves, ReadTimesPreserves
  DEF ReaderStep
<1>7. ASSUME NEW n \in Reserves, UpdateReserved(n) PROVE IInv'
  BY <1>7, UpdateReservedPreserves
<1>8. CASE Reset
  BY <1>8, ResetPreserves
<1> QED
  BY <1>1, <1>2, <1>3, <1>4, <1>6, <1>7, <1>8 DEF Next

\* The bytes granted to the writer lie outside every unread packet.
LEMMA IInvNoOverwrite ==
    ASSUME IInv, Fits
    PROVE  NoOverwrite
<1> SUFFICES ASSUME NEW k \in 1..Len(q[index]), NEW b \in WriterBytes,
                    b \in Bytes(q[index][k].at, RoundUp(q[index][k].len))
             PROVE  FALSE
  BY DEF NoOverwrite
<1> DEFINE p == q[index][k]
           x == rd[index]
           y == wt[index]
<1>1. /\ w.pc \in {"copy", "commit"} /\ b \in Bytes(w.at, RoundUp(w.len))
      /\ w.len \in Lens /\ w.at \in Offsets /\ Granted(x, y, w.at, RoundUp(w.len))
  BY DEF WriterBytes, IInv, WriterInv, TypeOK, Writers
<1>2. q[index] \in Seq(Packets) /\ x \in Offsets /\ y \in Offsets
  BY DEF IInv, TypeOK
<1>3. p \in Packets /\ Placed(x, y, p) /\ x # y
  <2>1. p \in Packets
    BY <1>2, ElementOfSeq
  <2>2. Placed(x, y, p) /\ (q[index] = <<>> <=> x = y)
    BY DEF IInv, Layout
  <2>3. q[index] # <<>>
    BY <1>2, EmptySeq
  <2> QED BY <2>1, <2>2, <2>3
<1>4. Span(p) \in 1..(Size - 1) /\ p.at \in Offsets /\ RoundUp(w.len) \in 1..(Size - 1)
  BY <1>1, <1>3, SpanFacts, RoundUpFacts
<1>5. b \in Offsets /\ p.at <= b /\ b < p.at + Span(p)
      /\ w.at <= b /\ b < w.at + RoundUp(w.len)
  BY <1>1 DEF Bytes, Span
<1> HIDE DEF p, x, y
<1> QED
  BY <1>1, <1>2, <1>3, <1>4, <1>5, SizeAssumption, SMTT(60)
  DEF Offsets, Placed, Granted, Start

\* The packet being read, when no reset is pending, is the oldest one, and
\* the bytes granted to the writer lie outside it.
LEMMA IInvNoTornRead ==
    ASSUME IInv, Fits
    PROVE  NoTornRead
<1> SUFFICES ASSUME r.pc = "copy", ~flag
             PROVE  /\ q[index] # <<>>
                    /\ r.at = Head(q[index]).at
                    /\ r.len = Head(q[index]).len
                    /\ WriterBytes \cap Bytes(r.at, RoundUp(r.len)) = {}
  BY DEF NoTornRead
<1>1. /\ q[index] # <<>>
      /\ r.at = q[index][1].at
      /\ r.len = q[index][1].len
  BY DEF IInv, ReaderInv
<1>2. q[index] \in Seq(Packets)
  BY DEF IInv, TypeOK
<1>3. 1 \in 1..Len(q[index]) /\ Head(q[index]) = q[index][1]
  BY <1>1, <1>2, EmptySeq
<1> QED
  BY <1>1, <1>3, IInvNoOverwrite DEF NoOverwrite

\* The oldest packet is among the bytes that kshm_get_valid_size promises.
LEMMA IInvHeadReadable ==
    ASSUME IInv, Fits
    PROVE  HeadReadable
<1> DEFINE x == rd[index]
           y == wt[index]
           s == q[index]
<1>1. x \in Offsets /\ y \in Offsets /\ s \in Seq(Packets) /\ Layout(x, y, s)
  BY DEF IInv, TypeOK
<1>2. CASE s = <<>>
  BY <1>1, <1>2 DEF HeadReadable, ValidSize, Avail, Layout, Offsets
<1>3. CASE s # <<>>
  <2>1. 1 \in 1..Len(s) /\ Head(s) = s[1] /\ s[1] \in Packets
    BY <1>1, <1>3, EmptySeq
  <2>2. Span(s[1]) \in 1..(Size - 1) /\ s[1].at = Start(x, Span(s[1])) /\ Placed(x, y, s[1])
        /\ x # y
    BY <1>1, <1>3, <2>1, SpanFacts DEF Layout
  <2>3. Span(s[1]) = RoundUp(Head(s).len) /\ ValidSize = Avail(x, y)
    BY <2>1 DEF Span, ValidSize
  <2> HIDE DEF x, y, s
  <2>4. Avail(x, y) >= Span(s[1])
    BY <1>1, <2>2, SizeAssumption DEF Placed, Start, Avail, Offsets
  <2> QED BY <1>3, <2>3, <2>4 DEF HeadReadable, s
<1> QED BY <1>2, <1>3

\* One of the rooms is as large as kshm_get_free_size says, and a byte more.
LEMMA IInvFreeSizeHonoured ==
    ASSUME IInv, Fits
    PROVE  FreeSizeHonoured
<1> SUFFICES ASSUME NEW l \in Lens, RoundUp(l) <= FreeSize
             PROVE  /\ ~NoRoom(rd[index], wt[index], 0, RoundUp(l))
                    /\ Grant(rd[index], wt[index], RoundUp(l)) # NULL
  BY DEF FreeSizeHonoured
<1>1. rd[index] \in Offsets /\ wt[index] \in Offsets /\ RoundUp(l) \in 1..(Size - 1)
  BY RoundUpFacts DEF IInv, TypeOK
<1> QED
  BY <1>1, SizeAssumption
  DEF FreeSize, NoRoom, Grant, HeadRoom, TailRoom, NULL, Offsets

\* There are no more unread packets than bytes: they start at different ones.
LEMMA LayoutLength ==
    ASSUME Fits, NEW x \in Offsets, NEW y \in Offsets, NEW s \in Seq(Packets),
           Layout(x, y, s)
    PROVE  Len(s) \in 0..Size
<1> DEFINE N == Len(s)
           f == [k \in 1..N |-> s[k].at]
<1>1. N \in Nat /\ \A k \in 1..N : s[k] \in Packets
  BY ElementOfSeq
<1>2. \A k \in 1..N : Span(s[k]) \in 1..(Size - 1) /\ s[k].at \in Offsets
  BY <1>1, SpanFacts
<1>3. ASSUME NEW j \in 1..N, NEW k \in 1..N, j < k PROVE f[j] # f[k]
  <2>1. Precedes(x, y, s[j], s[k])
    BY <1>3 DEF Layout
  <2> QED BY <1>2, <2>1 DEF Precedes, Offsets
<1>4. ~\E j, k \in 1..N : j # k /\ f[j] = f[k]
  <2> SUFFICES ASSUME NEW j \in 1..N, NEW k \in 1..N, j # k PROVE f[j] # f[k]
    OBVIOUS
  <2>1. j < k \/ k < j
    BY <1>1
  <2> HIDE DEF f
  <2> QED BY <2>1, <1>3
<1>5. f \in [1..N -> Offsets]
  BY <1>2
<1>6. /\ IsFiniteSet(1..N) /\ Cardinality(1..N) = N
      /\ IsFiniteSet(Offsets) /\ Cardinality(Offsets) = Size
  <2>1. \A a, b \in Int : IsFiniteSet(a..b) /\ (a <= b => Cardinality(a..b) = b - a + 1)
                         /\ (a > b => Cardinality(a..b) = 0)
    BY FS_Interval
  <2> HIDE DEF f, N
  <2>2. 1 \in Int /\ N \in Int /\ 0 \in Int /\ Size - 1 \in Int /\ 0 <= Size - 1
    BY <1>1, SizeAssumption
  <2>3. IsFiniteSet(1..N) /\ Cardinality(1..N) = N
    <3>1. CASE N = 0
      <4>1. 1 > N
        BY <3>1
      <4> QED BY <2>1, <2>2, <3>1, <4>1
    <3>2. CASE N # 0
      <4>1. 1 <= N /\ N - 1 + 1 = N
        BY <1>1, <3>2
      <4> QED BY <2>1, <2>2, <4>1
    <3> QED BY <3>1, <3>2
  <2>4. IsFiniteSet(0..(Size - 1)) /\ Cardinality(0..(Size - 1)) = (Size - 1) - 0 + 1
    BY <2>1, <2>2
  <2> QED BY <2>3, <2>4, SizeAssumption DEF Offsets
<1> HIDE DEF f, N
<1>7. ~(Size < N)
  BY <1>4, <1>5, <1>6, FS_PigeonHole
<1> QED BY <1>1, <1>7, SizeAssumption DEF N

\* What counting modulo TimesMod gives.
LEMMA ModFacts ==
    ASSUME NEW a \in 0..(TimesMod - 1)
    PROVE  /\ a % TimesMod = a /\ (a - TimesMod) % TimesMod = a
           /\ (a + TimesMod) % TimesMod = a
           /\ (a + 1) % TimesMod = IF a + 1 = TimesMod THEN 0 ELSE a + 1
BY TimesAssumption

\* There are never more unread packets than the counters can tell apart.
LEMMA QueueLength ==
    ASSUME IInv, Fits
    PROVE  Len(q[index]) \in 0..Size
BY LayoutLength DEF IInv, TypeOK

\* A reset starts the counters again unless an update of one is under way.
LEMMA ZeroIdleSetCounted ==
    ASSUME IInv, Counted, ZeroIdleSet, w'.pc = "flip", r' = r
    PROVE  Counted'
BY DEF Counted, ZeroIdleSet

\* Every step keeps the counters apart by what they count.
LEMMA CountedKept ==
    ASSUME IInv, IInv', Fits, TimesSuffice, Counted, [Next]_vars
    PROVE  Counted'
<1>1. /\ Len(q[index]) \in 0..Size /\ Len(q'[index']) \in 0..Size /\ Size \in Nat
      /\ wt_times \in 0..(TimesMod - 1) /\ rd_times \in 0..(TimesMod - 1)
      /\ index \in 0..1 /\ q[index] \in Seq(Packets) /\ TimesMod \in Nat
      /\ Size + 1 < TimesMod /\ Uncounted \in 0..1 /\ Unannounced \in 0..1
  <2>1. /\ rd'[index'] \in Offsets /\ wt'[index'] \in Offsets
        /\ q'[index'] \in Seq(Packets)
        /\ Layout(rd'[index'], wt'[index'], q'[index'])
    BY DEF IInv, TypeOK
  <2>2. Len(q'[index']) \in 0..Size
    BY <2>1, LayoutLength
  <2>3. Len(q[index]) \in 0..Size
    BY QueueLength
  <2>4. Uncounted \in 0..1 /\ Unannounced \in 0..1
    BY DEF Uncounted, Unannounced
  <2> QED
    BY <2>2, <2>3, <2>4, SizeAssumption, TimesAssumption DEF IInv, TypeOK, TimesSuffice
<1>2. ASSUME w'.pc \notin {"flip", "count"}, w.pc \notin {"flip", "count"},
             UNCHANGED <<wt_times, rd_times, flag, r, stale>>, UNCHANGED <<index, q>>
      PROVE  Counted'
  BY <1>2 DEF Counted, Apart, Ahead, Uncounted, Unannounced
<1>3. ASSUME NEW l \in Lens, Offer(l) PROVE Counted'
  BY <1>2, <1>3 DEF Offer, desc, ghosts, IdleWriter
<1>4. CASE GiveUp \/ CopyFails
  BY <1>2, <1>4, IdleTypes DEF GiveUp, CopyFails, desc, ghosts
<1>5. CASE RequestWriteLoad \/ Copy
  BY <1>2, <1>5 DEF RequestWriteLoad, Copy, desc, ghosts, IInv, TypeOK, Writers
<1>6. CASE SpecialReset
  BY <1>6, ZeroIdleSetCounted DEF SpecialReset, IInv, TypeOK, Writers
<1>7. CASE RequestWrite
  <2>1. CASE ZeroIdleSet /\ w' = [w EXCEPT !.pc = "flip", !.at = 0]
    BY <1>7, <2>1, ZeroIdleSetCounted DEF RequestWrite, IInv, TypeOK, Writers
  <2>2. CASE UNCHANGED <<desc, q, kept, stale>> /\ w'.pc \in {"want", "copy"}
    BY <1>2, <1>7, <2>2 DEF RequestWrite, desc
  <2>3. w \in Writers
    BY DEF IInv, TypeOK
  <2> QED BY <1>7, <2>1, <2>2, <2>3 DEF RequestWrite, Writers
<1>8. CASE SpecialResetFlip
  <2>1. q'[index'] = <<>> /\ Len(q'[index']) = 0 /\ w.pc = "flip"
    BY <1>8 DEF SpecialResetFlip, IInv, WriterInv
  <2>2. w'.pc \notin {"flip", "count"}
    BY <1>8 DEF SpecialResetFlip, IdleWriter, IInv, TypeOK, Writers
  <2>3. wt_times' = wt_times /\ rd_times' = rd_times /\ r' = r /\ stale' = stale
    BY <1>8 DEF SpecialResetFlip
  <2> QED BY <2>1, <2>2, <2>3 DEF Counted, Apart, Ahead, Uncounted, Unannounced
<1>9. CASE UpdateWrite
  <2>1. /\ Len(q'[index']) = Len(q[index]) + 1 /\ w.pc = "commit" /\ w'.pc = "count"
        /\ UNCHANGED <<wt_times, rd_times, r, stale, flag>>
    <3>1. q'[index] = Append(q[index], Packet(w.at, w.len, w.tag))
      BY <1>1, <1>9 DEF UpdateWrite, IInv, TypeOK
    <3>2. w'.pc = "count"
      BY <1>9 DEF UpdateWrite, IdleWriter
    <3> QED BY <1>1, <1>9, <3>1, <3>2 DEF UpdateWrite
  <2>2. Uncounted' = Uncounted /\ Unannounced = 0 /\ Unannounced' = 1
    BY <2>1 DEF Uncounted, Unannounced
  <2>3. Ahead' = Ahead
    BY <1>1, <2>1, <2>2 DEF Ahead
  <2> QED BY <2>1, <2>3 DEF Counted, Apart
<1>18. CASE WriteTimes
  <2>1. /\ UNCHANGED <<rd_times, index, q, r, stale, flag>>
        /\ w.pc = "count" /\ w'.pc = "idle"
    BY <1>18 DEF WriteTimes, ghosts, IdleWriter
  <2>2. wt_times' = IF wt_times + 1 = TimesMod THEN 0 ELSE wt_times + 1
    BY <1>1, <1>18, ModFacts DEF WriteTimes
  <2>3. Ahead' = Ahead + 1 /\ Ahead \in Int
    BY <1>1, <2>1 DEF Ahead, Uncounted, Unannounced
  <2>4. Ahead \in -1..(Size + 1)
    BY <1>1 DEF Ahead
  <2>5. ~stale => Apart(Ahead)
    BY <2>1 DEF Counted
  <2> HIDE DEF Ahead
  <2>6. ~stale => Apart(Ahead)'
    BY <1>1, <2>1, <2>2, <2>3, <2>4, <2>5 DEF Apart
  <2> QED BY <2>1, <2>6 DEF Counted
<1>10. CASE RequestReadLoad \/ ReadCopy \/ \E l \in Lens : RequestRead(l)
  <2>1. /\ UNCHANGED <<desc, w, ghosts>> /\ r.pc \in {"idle", "req", "copy"}
        /\ r'.pc \in {"idle", "req", "copy", "upd"}
    BY <1>10, IdleTypes
    DEF RequestReadLoad, ReadCopy, RequestRead, IInv, TypeOK, Readers
  <2> QED BY <2>1 DEF Counted, Apart, Ahead, Uncounted, Unannounced, desc, ghosts
<1>11. CASE UpdateRead
  <2>1. /\ UNCHANGED <<wt_times, rd_times, index, q, w>> /\ r.pc = "upd"
        /\ (flag /\ ~flag' /\ r'.pc = "idle" /\ stale' = stale)
              \/ (~flag /\ ~flag' /\ r'.pc = "store" /\ stale' = (stale \/ w.pc = "flip"))
    BY <1>11, IdleTypes DEF UpdateRead, IInv, TypeOK, Readers
  <2> QED BY <2>1 DEF Counted, Apart, Ahead, Uncounted, Unannounced
<1>12. CASE UpdateReadStore
  <2>1. UNCHANGED <<wt_times, rd_times, index, flag, w, stale>> /\ r.pc = "store"
    BY <1>12 DEF UpdateReadStore
  <2>2. CASE stale \/ w.pc = "flip"
    BY <2>1, <2>2 DEF Counted
  <2>3. CASE ~stale /\ w.pc # "flip"
    <3>1. r.idx = index /\ q[index] # <<>> /\ wt[index] # rd[index]
      BY <2>1, <2>3 DEF Counted, IInv, ReaderInv, Layout
    <3>2. q'[index] = Tail(q[index]) /\ r'.pc = "times"
      BY <1>1, <1>12, <3>1 DEF UpdateReadStore, IInv, TypeOK, Readers
    <3>3. Len(q'[index]) = Len(q[index]) - 1
      BY <1>1, <3>1, <3>2, HeadTailProperties
    <3>4. Ahead' = Ahead
      BY <1>1, <2>1, <3>2, <3>3 DEF Ahead, Uncounted, Unannounced
    <3> QED BY <2>1, <2>3, <3>2, <3>4 DEF Counted, Apart
  <2> QED BY <2>2, <2>3
<1>13. CASE ReadTimesLoad
  <2>1. /\ UNCHANGED <<desc, w, ghosts>> /\ r.pc = "times"
        /\ r'.pc = "bump" /\ r'.times = rd_times
    BY <1>13 DEF ReadTimesLoad, IInv, TypeOK, Readers
  <2> QED BY <2>1 DEF Counted, Apart, Ahead, Uncounted, Unannounced, desc, ghosts
<1>14. CASE ReadTimesStore
  <2>1. /\ UNCHANGED <<wt_times, index, flag, w, q, stale>> /\ r.pc = "bump" /\ r'.pc = "idle"
        /\ rd_times' = (r.times + 1) % TimesMod
    BY <1>14, IdleTypes DEF ReadTimesStore
  <2>2. CASE stale \/ w.pc = "flip"
    BY <2>1, <2>2 DEF Counted
  <2>3. CASE ~stale /\ w.pc # "flip"
    <3>1. rd_times' = IF rd_times + 1 = TimesMod THEN 0 ELSE rd_times + 1
      BY <1>1, <2>1, <2>3, ModFacts DEF Counted
    <3>2. Ahead' = Ahead - 1 /\ Ahead \in -1..(Size + 1)
      BY <1>1, <2>1 DEF Ahead, Uncounted, Unannounced
    <3>3. Apart(Ahead)
      BY <2>3 DEF Counted
    <3> HIDE DEF Ahead
    <3>4. Apart(Ahead)'
      BY <1>1, <2>1, <3>1, <3>2, <3>3 DEF Apart
    <3> QED BY <2>1, <2>3, <3>4 DEF Counted
  <2> QED BY <2>2, <2>3
<1>15. CASE Reset
  <2>1. /\ wt_times' = 0 /\ rd_times' = 0 /\ Len(q'[index']) = 0
        /\ r'.pc = "idle" /\ w'.pc = "idle"
    BY <1>15 DEF Reset
  <2> QED BY <2>1 DEF Counted, Apart, Ahead, Uncounted, Unannounced
<1>16. CASE UNCHANGED vars \/ \E n \in Reserves : UpdateReserved(n)
  <2>1. UNCHANGED <<wt_times, rd_times, index, q, flag, w, r, stale>>
    BY <1>16 DEF UpdateReserved, vars, desc, ghosts
  <2> QED BY <2>1 DEF Counted, Apart, Ahead, Uncounted, Unannounced
<1> QED
  BY <1>3, <1>4, <1>5, <1>6, <1>7, <1>8, <1>9, <1>10, <1>11, <1>12, <1>13, <1>14, <1>15, <1>16,
     <1>18
  DEF Next, WriterStep, ReaderStep

\* Counters that are so far apart count the pairs.
LEMMA CountedPackets ==
    ASSUME IInv, Fits, TimesSuffice, Counted
    PROVE  PacketsCounted
<1> SUFFICES ASSUME ~stale, w.pc # "flip", ~Overtaken
             PROVE  AvailPackets = Ahead \div 2
  BY DEF PacketsCounted, Ahead
<1> DEFINE n == Ahead
<1>1. n \in 0..(TimesMod - 1)
  <2>1. Len(q[index]) \in 0..Size /\ (Len(q[index]) = 0 => q[index] = <<>>)
    BY QueueLength, EmptySeq DEF IInv, TypeOK
  <2>2. Uncounted \in 0..1 /\ Unannounced \in 0..1
    BY DEF Uncounted, Unannounced
  <2>3. Len(q[index]) = 0 /\ Uncounted = 0 => Unannounced = 0
    BY <2>1, <2>2 DEF Overtaken
  <2> QED BY <2>1, <2>2, <2>3, SizeAssumption, TimesAssumption DEF TimesSuffice, Ahead
<1>2. Apart(n)
  BY DEF Counted
<1> HIDE DEF n
<1>3. /\ n % TimesMod = n /\ (n - TimesMod) % TimesMod = n
      /\ (n + TimesMod) % TimesMod = n
  BY <1>1, ModFacts
<1>4. (wt_times - rd_times) % TimesMod = n
  BY <1>2, <1>3 DEF Apart
<1> QED BY <1>4 DEF AvailPackets, n

-----------------------------------------------------------------------------
(* The bytes read last.                                                      *)

\* The end of a sequence has its last elements.
LEMMA LastOfBack ==
    ASSUME NEW S, NEW s \in Seq(S), NEW n \in Nat
    PROVE  /\ LastOf(s, n) \in Seq(S)
           /\ Len(LastOf(s, n)) <= n /\ Len(LastOf(s, n)) <= Len(s)
           /\ \A i \in 1..Len(LastOf(s, n)) : Back(LastOf(s, n), i) = Back(s, i)
<1>1. LastOf(s, n) \in Seq(S) /\ Len(s) \in Nat
  BY LastOfIsSeq, LenProperties
<1>2. CASE Len(s) <= n
  BY <1>1, <1>2 DEF LastOf
<1>3. CASE ~(Len(s) <= n)
  <2> DEFINE m == Len(s) - n + 1
             t == SubSeq(s, m, Len(s))
  <2>1. LastOf(s, n) = t
    BY <1>3 DEF LastOf
  <2>2. m \in 1..(Len(s) + 1) /\ Len(s) \in Nat
    BY <1>1, <1>3
  <2>3. Len(t) = n /\ \A i \in 1..n : t[i] = s[m + i - 1]
    <3>1. \A i \in m..Len(s) : s[i] \in S
      BY <2>2, ElementOfSeq
    <3>2. Len(t) = IF m <= Len(s) THEN Len(s) - m + 1 ELSE 0
      BY <2>2, <3>1, SubSeqProperties
    <3>3. \A i \in 1..(Len(s) - m + 1) : t[i] = s[m + i - 1]
      BY <2>2, <3>1, SubSeqProperties
    <3> QED BY <1>1, <1>3, <3>2, <3>3
  <2>4. ASSUME NEW i \in 1..n PROVE t[n + 1 - i] = s[Len(s) + 1 - i]
    <3>1. n + 1 - i \in 1..n /\ m + (n + 1 - i) - 1 = Len(s) + 1 - i
      BY <1>1
    <3> QED BY <2>3, <3>1
  <2> HIDE DEF t, m
  <2> QED BY <1>1, <1>3, <2>1, <2>3, <2>4 DEF Back
<1> QED BY <1>2, <1>3

\* What is read next joins the trail, which turns where the pointer turns.
LEMMA TrailMoves ==
    ASSUME NEW x \in Offsets, NEW n \in 1..(Size - 1), NEW m \in Nat,
           NEW s \in Seq(Nat), Trail(x, s),
           NEW b \in Seq(Nat), Len(b) = n, \A k \in 1..n : b[k] = Start(x, n) + k - 1
    PROVE  Trail(Advance(x, n), LastOf(s \o b, m))
<1> DEFINE t == s \o b
           u == LastOf(t, m)
           a == Start(x, n)
           x2 == Advance(x, n)
<1>1. /\ t \in Seq(Nat) /\ Len(t) = Len(s) + n /\ Len(s) \in Nat
      /\ \A k \in 1..(Len(s) + n) : t[k] = IF k <= Len(s) THEN s[k] ELSE b[k - Len(s)]
  <2>1. /\ t \in Seq(Nat) /\ Len(t) = Len(s) + Len(b)
        /\ \A k \in 1..(Len(s) + Len(b)) : t[k] = IF k <= Len(s) THEN s[k] ELSE b[k - Len(s)]
    BY ConcatProperties
  <2>2. Len(s) \in Nat
    BY LenProperties
  <2> HIDE DEF t
  <2> QED BY <2>1, <2>2
<1>2. ASSUME NEW i \in 1..Len(t)
      PROVE  Back(t, i) = IF i <= n THEN a + n - i ELSE Back(s, i - n)
  <2> DEFINE k == Len(t) + 1 - i
  <2>1. /\ k \in 1..(Len(s) + n) /\ Back(t, i) = t[k]
        /\ k <= Len(s) <=> n < i
    BY <1>1 DEF Back
  <2>2. CASE i <= n
    <3>1. k - Len(s) = n + 1 - i /\ n + 1 - i \in 1..n
      BY <1>1, <2>2
    <3>2. b[n + 1 - i] = a + (n + 1 - i) - 1
      BY <3>1
    <3>4. a \in Int
      BY DEF Start, Offsets
    <3>3. t[k] = b[n + 1 - i]
      BY <1>1, <2>1, <2>2, <3>1, SMTT(60)
    <3> HIDE DEF k, t, a
    <3> QED BY <2>1, <2>2, <3>2, <3>3, <3>4
  <2>3. CASE n < i
    <3>1. k = Len(s) + 1 - (i - n)
      BY <1>1
    <3>2. t[k] = s[k]
      BY <1>1, <2>1, <2>3
    <3>3. Back(s, i - n) = s[k]
      BY <3>1 DEF Back
    <3> HIDE DEF t, k
    <3> QED BY <2>1, <2>3, <3>2, <3>3
  <2> QED BY <2>2, <2>3
<1>3. /\ Len(u) <= Len(t) /\ Len(u) \in Nat
      /\ \A i \in 1..Len(u) : Back(u, i) = Back(t, i)
  <2>1. t \in Seq(Nat)
    BY <1>1
  <2> HIDE DEF t
  <2>2. /\ LastOf(t, m) \in Seq(Nat) /\ Len(LastOf(t, m)) <= Len(t)
        /\ \A i \in 1..Len(LastOf(t, m)) : Back(LastOf(t, m), i) = Back(t, i)
    BY <2>1, LastOfBack
  <2> QED BY <2>2, LenProperties
<1>4. PICK e \in 0..Size :
         /\ Size <= e + x
         /\ \A i \in 1..Len(s) : /\ (i <= x => Back(s, i) = x - i)
                                 /\ ((x < i /\ i <= x + e) => Back(s, i) = e + x - i)
  BY DEF Trail
<1>5. ASSUME NEW i \in 1..Len(u)
      PROVE  /\ (i <= n => Back(u, i) = a + n - i)
             /\ (n < i /\ i <= n + x => Back(u, i) = x + n - i)
             /\ (n + x < i /\ i <= n + x + e => Back(u, i) = e + x + n - i)
  <2>1. i \in 1..Len(t) /\ Back(u, i) = IF i <= n THEN a + n - i ELSE Back(s, i - n)
    BY <1>1, <1>2, <1>3
  <2>2. n < i => i - n \in 1..Len(s)
    BY <1>1, <2>1
  <2> HIDE DEF t, u, a
  <2> QED BY <1>4, <2>1, <2>2 DEF Offsets
<1> HIDE DEF t, u
<1>6. CASE x + n < Size
  <2>1. a = x /\ x2 = x + n
    BY <1>6, SizeAssumption DEF Start, Advance, Offsets
  <2>2. Size <= e + x2
    BY <1>4, <2>1, SizeAssumption DEF Offsets
  <2>3. \A i \in 1..Len(u) : /\ (i <= x2 => Back(u, i) = x2 - i)
                            /\ ((x2 < i /\ i <= x2 + e) => Back(u, i) = e + x2 - i)
    <3> HIDE DEF a, x2
    <3> QED BY <1>3, <1>5, <2>1 DEF Offsets
  <2> QED BY <2>2, <2>3 DEF Trail, u, t
<1>7. CASE x + n = Size
  <2>1. a = x /\ x2 = 0
    BY <1>7, SizeAssumption DEF Start, Advance, Offsets
  <2>2. Size \in 0..Size /\ Size <= Size + x2
    BY <2>1, SizeAssumption
  <2>3. \A i \in 1..Len(u) : /\ (i <= x2 => Back(u, i) = x2 - i)
                            /\ ((x2 < i /\ i <= x2 + Size) => Back(u, i) = Size + x2 - i)
    <3> HIDE DEF a, x2
    <3> QED BY <1>3, <1>5, <1>7, <2>1 DEF Offsets
  <2> QED BY <2>2, <2>3 DEF Trail, u, t
<1>8. CASE x + n > Size
  <2>1. a = 0 /\ x2 = n
    BY <1>8, SizeAssumption DEF Start, Advance, Offsets
  <2>2. x \in 0..Size /\ Size <= x + x2
    BY <1>8, <2>1, SizeAssumption DEF Offsets
  <2>3. \A i \in 1..Len(u) : /\ (i <= x2 => Back(u, i) = x2 - i)
                            /\ ((x2 < i /\ i <= x2 + x) => Back(u, i) = x + x2 - i)
    <3> HIDE DEF a, x2
    <3> QED BY <1>3, <1>5, <2>1 DEF Offsets
  <2> QED BY <2>2, <2>3 DEF Trail, u, t
<1> QED BY <1>6, <1>7, <1>8, SizeAssumption DEF Offsets

\* A place granted with a read pointer loaded earlier holds none of the bytes
\* that were read last and are reserved.
LEMMA GrantKeepsReserve ==
    ASSUME NEW x \in Offsets, NEW y \in Offsets, NEW z \in Offsets,
           NEW n \in 1..(Size - 1), NEW res \in Nat,
           Behind(z, x, y), ~NoRoom(z, y, res, n), Grant(z, y, n) # NULL,
           NEW s \in Seq(Nat), Trail(x, s), NEW i \in 1..Len(s), i <= res
    PROVE  Back(s, i) \notin Bytes(Grant(z, y, n), n)
<1>1. PICK e \in 0..Size :
         /\ Size <= e + x
         /\ (i <= x => Back(s, i) = x - i)
         /\ ((x < i /\ i <= x + e) => Back(s, i) = e + x - i)
  BY DEF Trail
<1>2. i <= x + e
  BY <1>1, SizeAssumption DEF NoRoom, HeadRoom, TailRoom, Offsets
<1> DEFINE p == Grant(z, y, n)
           c == Back(s, i)
<1>3. c \in Int /\ (i <= x => c = x - i) /\ (x < i => c = e + x - i)
  BY <1>1, <1>2 DEF Offsets
<1>4. c < p \/ c >= p + n
  <2>1. CASE y >= z
    BY <1>1, <1>3, <2>1, SizeAssumption
    DEF NoRoom, HeadRoom, TailRoom, Grant, NULL, Behind, Offsets
  <2>2. CASE y < z
    BY <1>1, <1>3, <2>2, SizeAssumption
    DEF NoRoom, HeadRoom, TailRoom, Grant, NULL, Behind, Offsets
  <2> QED BY <2>1, <2>2 DEF Offsets
<1> QED BY <1>3, <1>4 DEF Bytes, Offsets, Grant, NULL

\* A set of pointers that a reset has zeroed has no trail yet.
LEMMA EmptyTrail == Trail(0, <<>>)
<1>1. Size \in 0..Size /\ Size <= Size + 0 /\ Len(<<>>) = 0
  BY SizeAssumption
<1> QED BY <1>1 DEF Trail

\* A reset leaves the trail of the pointers in use alone.
LEMMA ZeroIdleSetTrailed ==
    ASSUME IInv, Trailed, ZeroIdleSet, ~flag, UNCHANGED <<index, flag>>
    PROVE  Trailed'
<1>1. /\ rd'[index'] = rd[index] /\ kept'[index'] = kept[index]
      /\ kept'[1 - index'] = <<>>
  BY DEF ZeroIdleSet, IInv, TypeOK
<1> QED BY <1>1 DEF Trailed

\* Every step keeps the trail behind the read pointer.
LEMMA TrailedKept ==
    ASSUME IInv, Fits, Trailed, [Next]_vars
    PROVE  Trailed'
<1>1. index \in 0..1 /\ rd[index] \in Offsets /\ kept[index] \in Seq(Nat)
  BY DEF IInv, TypeOK
<1>2. ASSUME UNCHANGED <<index, rd, kept>>, flag' => flag,
             w'.pc = "flip" => w.pc = "flip"
      PROVE  Trailed'
  BY <1>2 DEF Trailed
<1>3. ASSUME NEW l \in Lens, Offer(l) PROVE Trailed'
  BY <1>2, <1>3 DEF Offer, desc, ghosts, IdleWriter
<1>4. CASE GiveUp \/ CopyFails
  BY <1>2, <1>4, IdleTypes DEF GiveUp, CopyFails, desc, ghosts
<1>5. CASE RequestWriteLoad \/ Copy
  BY <1>2, <1>5 DEF RequestWriteLoad, Copy, desc, ghosts, IInv, TypeOK, Writers
<1>6. CASE SpecialReset
  BY <1>6, ZeroIdleSetTrailed DEF SpecialReset
<1>7. CASE RequestWrite
  <2>1. CASE ZeroIdleSet /\ ~flag /\ UNCHANGED <<index, flag>>
    BY <2>1, ZeroIdleSetTrailed
  <2>2. CASE UNCHANGED <<desc, q, kept, stale>> /\ w'.pc \in {"want", "copy"}
    BY <1>2, <2>2 DEF desc
  <2>3. w \in Writers
    BY DEF IInv, TypeOK
  <2> QED BY <1>7, <2>1, <2>2, <2>3 DEF RequestWrite, Writers
<1>8. CASE SpecialResetFlip
  <2>1. /\ rd'[index'] = 0 /\ kept'[index'] = <<>>
    BY <1>8 DEF SpecialResetFlip, IInv, WriterInv, Trailed
  <2>2. w'.pc # "flip"
    BY <1>8 DEF SpecialResetFlip, IdleWriter, IInv, TypeOK, Writers
  <2> QED BY <2>1, <2>2, EmptyTrail DEF Trailed
<1>9. CASE UpdateWrite \/ WriteTimes
  BY <1>2, <1>9, IdleTypes DEF UpdateWrite, WriteTimes, ghosts, IdleWriter
<1>10. CASE RequestReadLoad \/ ReadCopy \/ \E l \in Lens : RequestRead(l)
  BY <1>2, <1>10 DEF RequestReadLoad, ReadCopy, RequestRead, desc, ghosts
<1>11. CASE UpdateRead
  BY <1>2, <1>11 DEF UpdateRead
<1>12. CASE UpdateReadStore
  <2> DEFINE i == r.idx
             s == RoundUp(r.len)
             b == [k \in 1..s |-> r.at + k - 1]
  <2>1. /\ UNCHANGED <<index, flag, w>> /\ r.pc = "store" /\ i \in 0..1
        /\ (flag <=> i # index)
    BY <1>12 DEF UpdateReadStore, IInv, TypeOK, Readers, ReaderInv
  <2>2. CASE wt[i] = rd[i]
    BY <1>2, <1>12, <2>1, <2>2 DEF UpdateReadStore
  <2>3. CASE wt[i] # rd[i] /\ flag
    <3>1. rd'[index] = rd[index] /\ kept'[index] = kept[index] /\ w.pc # "flip"
      BY <1>1, <1>12, <2>1, <2>3 DEF UpdateReadStore, IInv, TypeOK, WriterInv
    <3> QED BY <2>1, <3>1 DEF Trailed
  <2>4. CASE wt[i] # rd[i] /\ ~flag
    <3>1. /\ i = index /\ q[i] # <<>> /\ s = Span(q[i][1]) /\ r.at = q[i][1].at
          /\ Layout(rd[i], wt[i], q[i]) /\ q[i] \in Seq(Packets)
      BY <2>1, <2>4 DEF IInv, TypeOK, ReaderInv, Span
    <3>2. r.at = Start(rd[i], s) /\ s \in 1..(Size - 1)
      <4>1. q[i][1] \in Packets
        BY <3>1, EmptySeq, ElementOfSeq
      <4> QED BY <3>1, <4>1, SpanFacts DEF Layout
    <3>3. b \in Seq(Nat) /\ Len(b) = s /\ \A k \in 1..s : b[k] = r.at + k - 1
      <4>1. r.at \in Nat
        BY DEF IInv, TypeOK, Readers, Offsets
      <4>2. b \in [1..s -> Nat]
        BY <3>2, <4>1
      <4>3. b \in Seq(Nat)
        BY <3>2, <4>2, FunctionIsSeq, SMTT(60)
      <4> QED BY <3>2, <4>3
    <3>4. /\ rd'[index] = Advance(rd[i], s)
          /\ kept'[index] = LastOf(kept[i] \o b, MaxReserve)
          /\ kept'[1 - index] = kept[1 - index]
      <4>1. /\ rd' = [rd EXCEPT ![i] = Advance(rd[i], s)]
            /\ kept' = [kept EXCEPT ![i] = LastOf(kept[i] \o b, MaxReserve)]
        BY <1>12, <2>4 DEF UpdateReadStore
      <4>2. /\ rd \in [0..1 -> Offsets] /\ kept \in [0..1 -> Seq(Nat)]
            /\ index \in 0..1 /\ 1 - index \in 0..1 /\ 1 - index # index
        BY DEF IInv, TypeOK
      <4> HIDE DEF b, s
      <4> QED BY <3>1, <4>1, <4>2
    <3> HIDE DEF b, s, i
    <3>5. Trail(rd'[index], kept'[index])
      BY <1>1, <3>1, <3>2, <3>3, <3>4, TrailMoves, ReservesAssumption DEF Trailed
    <3> QED BY <2>1, <2>4, <3>4, <3>5 DEF Trailed
  <2> QED BY <2>2, <2>3, <2>4
<1>13. CASE ReadTimesLoad \/ ReadTimesStore
  BY <1>2, <1>13 DEF ReadTimesLoad, ReadTimesStore, desc, ghosts
<1>14. CASE Reset
  <2>1. /\ rd'[index'] = 0 /\ kept'[index'] = <<>> /\ ~flag' /\ w'.pc = "idle"
    BY <1>14 DEF Reset
  <2> QED BY <2>1, EmptyTrail DEF Trailed
<1>15. CASE UNCHANGED vars \/ \E n \in Reserves : UpdateReserved(n)
  BY <1>2, <1>15 DEF UpdateReserved, vars, desc, ghosts
<1> QED
  BY <1>3, <1>4, <1>5, <1>6, <1>7, <1>8, <1>9, <1>10, <1>11, <1>12, <1>13, <1>14, <1>15
  DEF Next, WriterStep, ReaderStep

\* A granted place leaves the reserve alone: on a ring that waits for its reset
\* to be seen nothing has been read.
LEMMA RequestWriteSpares ==
    ASSUME IInv, Fits, Trailed, RequestWrite, w'.pc = "copy",
           NEW n \in DOMAIN LastOf(kept[index], reserved[index])
    PROVE  LastOf(kept[index], reserved[index])[n] \notin Bytes(w'.at, RoundUp(w'.len))
<1> DEFINE s == kept[index]
           res == reserved[index]
           t == LastOf(s, res)
           i == Len(t) + 1 - n
           x == rd[index]
           y == wt[index]
           m == RoundUp(w.len)
           p == Grant(w.rd, y, m)
<1>1. /\ index \in 0..1 /\ s \in Seq(Nat) /\ res \in Nat /\ w \in Writers
      /\ x \in Offsets /\ y \in Offsets /\ w.rd \in Offsets /\ w.len \in Lens
      /\ Behind(w.rd, x, y) /\ w.pc = "req"
  BY DEF IInv, TypeOK, Writers, WriterInv, RequestWrite
<1>2. m \in 1..(Size - 1)
  BY <1>1, RoundUpFacts
<1>3. /\ t \in Seq(Nat) /\ Len(t) <= res /\ Len(t) <= Len(s)
      /\ \A j \in 1..Len(t) : Back(t, j) = Back(s, j)
  BY <1>1, LastOfBack
<1>4. Len(t) \in Nat /\ Len(s) \in Nat /\ n \in 1..Len(t)
  <2>1. \A u \in Seq(Nat) : Len(u) \in Nat /\ DOMAIN u = 1..Len(u)
    OBVIOUS
  <2> HIDE DEF t, s
  <2>2. n \in DOMAIN t
    BY DEF t, s
  <2> QED BY <1>1, <1>3, <2>1, <2>2
<1>5. i \in 1..Len(t) /\ i \in 1..Len(s) /\ i <= res /\ Len(t) + 1 - i = n
  <2>1. \A a, c, d \in Nat : \A k \in 1..a : a <= c /\ a <= d =>
          /\ a + 1 - k \in 1..a /\ a + 1 - k \in 1..c /\ a + 1 - k <= d
          /\ a + 1 - (a + 1 - k) = k
    OBVIOUS
  <2> HIDE DEF t, s, res
  <2> QED BY <1>1, <1>3, <1>4, <2>1
<1>6. t[n] = Back(s, i)
  <2>1. t[n] = Back(t, i)
    BY <1>5 DEF Back
  <2> QED BY <1>3, <1>5, <2>1
<1>7. CASE flag
  <2>1. s = <<>>
    BY <1>7 DEF Trailed
  <2>2. Len(s) = 0
    BY <2>1
  <2> HIDE DEF t, s, i
  <2> QED BY <1>5, <2>2
<1>8. CASE ~flag
  <2>1. ~NoRoom(w.rd, y, res, m) /\ p # NULL /\ w' = [w EXCEPT !.pc = "copy", !.at = p]
    BY <1>1, <1>8 DEF RequestWrite, Writers
  <2>2. w'.at = p /\ w'.len = w.len
    BY <1>1, <2>1 DEF Writers
  <2>3. Trail(x, s)
    BY DEF Trailed
  <2> HIDE DEF t, s, i, x, y, m, p, res
  <2>4. Back(s, i) \notin Bytes(p, m)
    BY <1>1, <1>2, <1>5, <2>1, <2>3, GrantKeepsReserve DEF p
  <2> QED BY <1>6, <2>2, <2>4 DEF m, t, s, res
<1> QED BY <1>7, <1>8

\* The write thread is granted a place by kshm_request_write alone, or by the
\* reset the reader is told of.
LEMMA GrantSpares ==
    ASSUME IInv, Fits, Trailed, Next, w.pc # "copy", w'.pc = "copy", ~flag'
    PROVE  ReservedBytes \cap Bytes(w'.at, RoundUp(w'.len)) = {}
<1>1. w \in Writers
  BY DEF IInv, TypeOK
<1>2. RequestWrite \/ SpecialResetFlip
  <2>1. ASSUME w' = w PROVE FALSE
    BY <2>1
  <2>2. ~ReaderStep /\ ~Reset /\ \A n \in Reserves : ~UpdateReserved(n)
    BY <2>1 DEF ReaderStep, RequestReadLoad, RequestRead, ReadCopy, UpdateRead,
                UpdateReadStore, ReadTimesLoad, ReadTimesStore, Reset, UpdateReserved
  <2>3. ~GiveUp /\ ~CopyFails /\ ~WriteTimes
    BY IdleTypes DEF GiveUp, CopyFails, WriteTimes
  <2>5. ASSUME UpdateWrite PROVE FALSE
    BY <2>5 DEF UpdateWrite, IdleWriter
  <2>6. ASSUME NEW l \in Lens, Offer(l) PROVE FALSE
    <3>1. w' = [IdleWriter EXCEPT !.pc = "want", !.len = l, !.tag = sent']
      BY <2>6 DEF Offer
    <3> QED BY <3>1 DEF IdleWriter
  <2>4. ~SpecialReset /\ ~RequestWriteLoad /\ ~Copy
    BY <1>1 DEF SpecialReset, RequestWriteLoad, Copy, Writers
  <2> QED BY <2>2, <2>3, <2>4, <2>5, <2>6 DEF Next, WriterStep
<1>3. RequestWrite
  BY <1>2 DEF SpecialResetFlip
<1>4. ~flag
  BY <1>1, <1>3 DEF RequestWrite, desc, Writers
<1>5. ReservedBytes = {LastOf(kept[index], reserved[index])[n] :
                         n \in DOMAIN LastOf(kept[index], reserved[index])}
  BY <1>4 DEF ReservedBytes
<1> QED BY <1>3, <1>5, RequestWriteSpares

-----------------------------------------------------------------------------
(* The ring as a FIFO.                                                       *)

\* Every step leaves the unread packets as they were written.
LEMMA StoredKept ==
    ASSUME IInv, Fits, Stored, [Next]_vars
    PROVE  Stored'
<1>1. index \in 0..1 /\ q[index] \in Seq(Packets) /\ w \in Writers /\ r \in Readers
  BY DEF IInv, TypeOK
<1>2. ASSUME UNCHANGED <<index, mem>>, q'[index] = q[index], w'.pc # "commit" \/ w' = w,
             (r'.pc = "upd" /\ ~flag') => r' = r /\ ~flag
      PROVE  Stored'
  BY <1>2 DEF Stored, Holds
<1>3. ASSUME NEW l \in Lens, Offer(l) PROVE Stored'
  BY <1>2, <1>3 DEF Offer, desc, ghosts, IdleWriter
<1>4. CASE GiveUp \/ CopyFails \/ WriteTimes
  BY <1>2, <1>4, IdleTypes DEF GiveUp, CopyFails, WriteTimes, desc, ghosts
<1>5. CASE RequestWriteLoad
  BY <1>1, <1>2, <1>5 DEF RequestWriteLoad, desc, ghosts, Writers
<1>6. ASSUME ZeroIdleSet PROVE q'[index] = q[index]
  BY <1>1, <1>6 DEF ZeroIdleSet, IInv, TypeOK
<1>7. CASE SpecialReset \/ RequestWrite
  <2>1. UNCHANGED <<index, mem, flag, r>> /\ q'[index] = q[index]
    BY <1>6, <1>7 DEF SpecialReset, RequestWrite, desc
  <2>2. w'.pc # "commit"
    BY <1>1, <1>7 DEF SpecialReset, RequestWrite, Writers
  <2> QED BY <1>2, <2>1, <2>2
<1>8. CASE SpecialResetFlip
  <2>1. Len(q'[index']) = 0 /\ flag'
    BY <1>8 DEF SpecialResetFlip, IInv, WriterInv
  <2>2. w'.pc # "commit"
    BY <1>1, <1>8 DEF SpecialResetFlip, IdleWriter, Writers
  <2> QED BY <2>1, <2>2 DEF Stored
<1>9. CASE Copy
  <2>1. /\ UNCHANGED <<index, q, flag, r>>
        /\ w'.at = w.at /\ w'.len = w.len /\ w'.tag = w.tag
        /\ \A b \in Offsets : mem'[b] = IF b \in Bytes(w.at, w.len) THEN w.tag ELSE mem[b]
    BY <1>1, <1>9 DEF Copy, desc, ghosts, Writers
  <2>2. /\ w.len \in Lens /\ w.len \in Nat /\ w.len <= RoundUp(w.len)
        /\ RoundUp(w.len) \in Nat /\ w.at \in Nat
        /\ WriterBytes = Bytes(w.at, RoundUp(w.len))
    <3>1. w.len \in Lens /\ w.len \in Nat /\ w.at \in Nat
      BY <1>1, <1>9, LensAssumption DEF Copy, IInv, WriterInv, Writers, Offsets
    <3> QED BY <1>9, <3>1, RoundUpBounds DEF Copy, WriterBytes
  <2>3. ASSUME NEW k \in 1..Len(q[index]), NEW b \in Bytes(q[index][k].at, q[index][k].len)
        PROVE  mem'[b] = q[index][k].tag
    <3> DEFINE p == q[index][k]
    <3>1. p.at \in Nat /\ p.len \in Nat /\ RoundUp(p.len) \in Nat /\ p.len <= RoundUp(p.len)
      <4>1. p \in Packets
        BY <1>1, ElementOfSeq
      <4> HIDE DEF p
      <4>2. p.at \in Nat /\ p.len \in Nat
        <5>1. p.at \in Offsets /\ p.len \in Lens
          BY <4>1 DEF Packets
        <5>2. p.at \in Nat
          BY <5>1 DEF Offsets
        <5>3. p.len \in Nat
          BY <5>1, LensAssumption
        <5> QED BY <5>2, <5>3
      <4> QED BY <4>2, RoundUpBounds
    <3>2. b \in Offsets /\ b \in Bytes(p.at, RoundUp(p.len))
      BY <3>1 DEF Bytes, Offsets
    <3>3. b \notin WriterBytes
      BY <3>2, IInvNoOverwrite DEF NoOverwrite
    <3>4. b \notin Bytes(w.at, w.len)
      BY <2>2, <3>2, <3>3 DEF Bytes, Offsets
    <3>5. mem[b] = p.tag
      BY DEF Stored, Holds
    <3> QED BY <2>1, <3>2, <3>4, <3>5
  <2>4. \A b \in Bytes(w.at, w.len) : mem'[b] = w.tag
    BY <2>1 DEF Bytes
  <2> QED BY <2>1, <2>3, <2>4 DEF Stored, Holds
<1>10. CASE UpdateWrite
  <2> DEFINE p == Packet(w.at, w.len, w.tag)
  <2>1. /\ UNCHANGED <<index, mem, flag, r>> /\ w'.pc # "commit" /\ w.pc = "commit"
        /\ q'[index] = Append(q[index], p)
    <3>1. w'.pc = "count"
      BY <1>10 DEF UpdateWrite, IdleWriter
    <3> QED BY <1>1, <1>10, <3>1 DEF UpdateWrite, IInv, TypeOK
  <2>2. p.at = w.at /\ p.len = w.len /\ p.tag = w.tag /\ p \in Packets
    BY <1>1, <1>10 DEF Packet, Packets, Writers, UpdateWrite, IInv, WriterInv
  <2>3. Holds(p)
    BY <2>1, <2>2 DEF Stored, Holds
  <2> HIDE DEF p
  <2>4. /\ Len(q'[index]) = Len(q[index]) + 1 /\ Len(q[index]) \in Nat
        /\ \A k \in 1..Len(q[index]) : q'[index][k] = q[index][k]
        /\ q'[index][Len(q[index]) + 1] = p
    BY <1>1, <2>1, <2>2
  <2>5. \A k \in 1..Len(q[index]) : Holds(q[index][k])
    BY DEF Stored
  <2>6. ASSUME NEW k \in 1..Len(q'[index]) PROVE Holds(q'[index][k])
    <3>1. CASE k = Len(q[index]) + 1
      BY <2>3, <2>4, <3>1
    <3>2. CASE k # Len(q[index]) + 1
      <4>1. k \in 1..Len(q[index])
        BY <2>4, <3>2
      <4> QED BY <2>4, <2>5, <4>1
    <3> QED BY <3>1, <3>2
  <2>7. (r.pc = "upd" /\ ~flag) => q'[index][1] = q[index][1]
    <3>1. (r.pc = "upd" /\ ~flag) => q[index] # <<>>
      BY DEF IInv, ReaderInv
    <3> QED BY <1>1, <2>4, <3>1, EmptySeq
  <2> QED BY <2>1, <2>6, <2>7 DEF Stored, Holds
<1>11. CASE RequestReadLoad \/ \E l \in Lens : RequestRead(l)
  BY <1>1, <1>2, <1>11, IdleTypes DEF RequestReadLoad, RequestRead, desc, ghosts, Readers
<1>12. CASE ReadCopy
  <2>1. /\ UNCHANGED <<index, mem, flag, q, w>> /\ r.pc = "copy"
        /\ r'.got = [k \in 1..r.len |-> mem[r.at + k - 1]]
    BY <1>1, <1>12 DEF ReadCopy, desc, ghosts, Readers
  <2>2. ASSUME ~flag PROVE r'.got = Content(q[index][1])
    <3> DEFINE p == q[index][1]
    <3>1. q[index] # <<>> /\ r.at = p.at /\ r.len = p.len /\ r.len \in Nat /\ r.at \in Nat
          /\ r.at + RoundUp(r.len) <= Size /\ RoundUp(r.len) \in Nat
          /\ r.len <= RoundUp(r.len)
      <4>1. /\ q[index] # <<>> /\ r.at = p.at /\ r.len = p.len /\ r.len \in Lens
            /\ r.at + RoundUp(r.len) <= Size
        BY <2>1, <2>2 DEF IInv, ReaderInv
      <4>2. r.len \in Nat /\ r.at \in Nat
        <5>1. r.at \in Offsets /\ r.len \in Lens
          BY <1>1, <4>1 DEF Readers
        <5>2. r.at \in Nat
          BY <5>1 DEF Offsets
        <5>3. r.len \in Nat
          BY <5>1, LensAssumption
        <5> QED BY <5>2, <5>3
      <4> QED BY <4>1, <4>2, RoundUpBounds
    <3>2. Holds(p)
      <4>1. 1 \in 1..Len(q[index])
        BY <1>1, <3>1, EmptySeq
      <4> QED BY <4>1 DEF Stored
    <3> HIDE DEF p
    <3>3. \A k \in 1..p.len : mem[r.at + k - 1] = p.tag
      BY <3>1, <3>2, SizeAssumption DEF Holds, Bytes, Offsets
    <3> QED BY <2>1, <3>1, <3>3 DEF Content, p
  <2> QED BY <2>1, <2>2 DEF Stored, Holds
<1>13. CASE UpdateRead
  BY <1>1, <1>2, <1>13, IdleTypes DEF UpdateRead, Readers
<1>14. CASE UpdateReadStore
  <2>1. UNCHANGED <<index, mem, flag, w>> /\ r'.pc # "upd"
    BY <1>1, <1>14, IdleTypes DEF UpdateReadStore, Readers
  <2>2. CASE q'[index] = q[index]
    BY <1>2, <2>1, <2>2
  <2>3. CASE q'[index] # q[index]
    <3>1. q'[index] = Tail(q[index]) /\ q[index] # <<>>
      BY <1>1, <1>14, <2>3, SMTT(60) DEF UpdateReadStore, IInv, TypeOK, ReaderInv
    <3>2. /\ Len(q'[index]) = Len(q[index]) - 1 /\ Len(q[index]) \in Nat
          /\ \A k \in 1..Len(q'[index]) : q'[index][k] = q[index][k + 1]
      <4>1. /\ Len(Tail(q[index])) = Len(q[index]) - 1
            /\ \A k \in 1..Len(Tail(q[index])) : Tail(q[index])[k] = q[index][k + 1]
        BY <1>1, <3>1, HeadTailProperties
      <4> QED BY <1>1, <3>1, <4>1, LenProperties
    <3>3. \A k \in 1..Len(q'[index]) : k + 1 \in 1..Len(q[index])
      BY <3>2
    <3> QED BY <2>1, <3>2, <3>3 DEF Stored, Holds
  <2> QED BY <2>2, <2>3
<1>15. CASE ReadTimesLoad \/ ReadTimesStore
  BY <1>1, <1>2, <1>15, IdleTypes DEF ReadTimesLoad, ReadTimesStore, desc, ghosts, Readers
<1>16. CASE Reset
  <2>1. Len(q'[index']) = 0 /\ r'.pc = "idle" /\ w'.pc = "idle"
    BY <1>16 DEF Reset
  <2> QED BY <2>1 DEF Stored
<1>17. CASE UNCHANGED vars \/ \E n \in Reserves : UpdateReserved(n)
  BY <1>2, <1>17 DEF UpdateReserved, vars, desc, ghosts
<1> QED
  BY <1>3, <1>4, <1>5, <1>7, <1>8, <1>9, <1>10, <1>11, <1>12, <1>13, <1>14, <1>15, <1>16, <1>17
  DEF Next, WriterStep, ReaderStep

\* The contents of a sequence of packets, one by one.
LEMMA ContentsSeq ==
    ASSUME NEW s \in Seq(Packets)
    PROVE  /\ Contents(s) \in Seq(Seq(Nat)) /\ Len(Contents(s)) = Len(s)
           /\ \A k \in 1..Len(s) : Contents(s)[k] = Content(s[k])
<1>1. ASSUME NEW p \in Packets PROVE Content(p) \in Seq(Nat)
  <2>1. p.len \in Lens /\ p.tag \in Nat
    BY DEF Packets
  <2>2. p.len \in Nat
    BY <2>1, LensAssumption
  <2>3. Content(p) \in [1..p.len -> Nat]
    BY <2>1 DEF Content
  <2> QED BY <2>2, <2>3, FunctionIsSeq
<1>2. Len(s) \in Nat /\ \A k \in 1..Len(s) : s[k] \in Packets
  BY LenProperties, ElementOfSeq
<1>3. Contents(s) \in [1..Len(s) -> Seq(Nat)]
  BY <1>1, <1>2 DEF Contents
<1>4. Contents(s) \in Seq(Seq(Nat))
  BY <1>2, <1>3, FunctionIsSeq
<1>5. DOMAIN Contents(s) = 1..Len(s)
  BY DEF Contents
<1>6. Len(Contents(s)) = Len(s)
  BY <1>2, <1>4, <1>5, LenProperties
<1> QED BY <1>4, <1>6 DEF Contents

\* A packet more is its contents more.
LEMMA ContentsAppend ==
    ASSUME NEW s \in Seq(Packets), NEW p \in Packets
    PROVE  /\ Len(Contents(Append(s, p))) = Len(Contents(s)) + 1
           /\ SubSeq(Contents(Append(s, p)), 1, Len(Contents(s))) = Contents(s)
<1> DEFINE a == Append(s, p)
           N == Len(s)
           c == Contents(a)
           d == Contents(s)
<1>1. /\ N \in Nat /\ a \in Seq(Packets) /\ Len(a) = N + 1
      /\ \A k \in 1..N : a[k] = s[k]
  BY AppendProperties, LenProperties
<1>2. /\ c \in Seq(Seq(Nat)) /\ d \in Seq(Seq(Nat)) /\ Len(c) = N + 1 /\ Len(d) = N
      /\ \A k \in 1..N : c[k] = d[k]
  <2> HIDE DEF a
  <2>1. /\ Contents(a) \in Seq(Seq(Nat)) /\ Len(Contents(a)) = N + 1
        /\ \A k \in 1..(N + 1) : Contents(a)[k] = Content(a[k])
    BY <1>1, ContentsSeq
  <2>2. /\ Contents(s) \in Seq(Seq(Nat)) /\ Len(Contents(s)) = N
        /\ \A k \in 1..N : Contents(s)[k] = Content(s[k])
    BY ContentsSeq
  <2>3. \A k \in 1..N : k \in 1..(N + 1)
    BY <1>1
  <2> QED BY <1>1, <2>1, <2>2, <2>3
<1> HIDE DEF c, d, N
<1>3. SubSeq(c, 1, N) = d
  <2>1. \A k \in 1..N : c[k] \in Seq(Nat)
    <3>1. \A k \in 1..N : k \in 1..Len(c)
      BY <1>1, <1>2
    <3> QED BY <1>2, <3>1, ElementOfSeq
  <2>2. /\ SubSeq(c, 1, N) \in Seq(Seq(Nat))
        /\ Len(SubSeq(c, 1, N)) = IF 1 <= N THEN N - 1 + 1 ELSE 0
        /\ \A k \in 1..(N - 1 + 1) : SubSeq(c, 1, N)[k] = c[1 + k - 1]
    BY <1>1, <2>1, SubSeqProperties
  <2>3. Len(SubSeq(c, 1, N)) = N /\ \A k \in 1..N : SubSeq(c, 1, N)[k] = c[k]
    BY <1>1, <2>2
  <2> QED BY <1>2, <2>2, <2>3, SeqEqual
<1> QED BY <1>2, <1>3 DEF c, d, N

\* The oldest packet's contents are the oldest contents.
LEMMA ContentsTail ==
    ASSUME NEW s \in Seq(Packets), s # <<>>
    PROVE  /\ Contents(s) # <<>> /\ Head(Contents(s)) = Content(s[1])
           /\ Tail(Contents(s)) = Contents(Tail(s))
<1> DEFINE t == Tail(s)
           N == Len(s)
           c == Contents(s)
           d == Contents(t)
<1>1. /\ N \in Nat /\ 1 <= N /\ t \in Seq(Packets) /\ Len(t) = N - 1
      /\ \A k \in 1..(N - 1) : t[k] = s[k + 1]
  <2>1. N \in Nat /\ N # 0
    BY EmptySeq, LenProperties
  <2>2. /\ t \in Seq(Packets) /\ Len(t) = N - 1
        /\ \A k \in 1..Len(t) : t[k] = s[k + 1]
    BY HeadTailProperties
  <2> HIDE DEF t, N
  <2> QED BY <2>1, <2>2
<1>2. /\ c \in Seq(Seq(Nat)) /\ Len(c) = N /\ \A k \in 1..N : c[k] = Content(s[k])
  BY ContentsSeq
<1>3. /\ d \in Seq(Seq(Nat)) /\ Len(d) = N - 1
      /\ \A k \in 1..(N - 1) : d[k] = Content(t[k])
  <2> HIDE DEF t
  <2> QED BY <1>1, ContentsSeq
<1> HIDE DEF c, d, N, t
<1>4. c # <<>>
  BY <1>1, <1>2, EmptySeq
<1>5. Head(c) = c[1] /\ 1 \in 1..N
  BY <1>1, <1>2, <1>4, HeadTailProperties
<1>6. Tail(c) = d
  <2>1. /\ Tail(c) \in Seq(Seq(Nat)) /\ Len(Tail(c)) = N - 1
        /\ \A k \in 1..(N - 1) : Tail(c)[k] = c[k + 1]
    BY <1>2, <1>4, HeadTailProperties
  <2>2. \A k \in 1..(N - 1) : k + 1 \in 1..N
    BY <1>1
  <2>3. \A k \in 1..(N - 1) : Tail(c)[k] = d[k]
    BY <1>1, <1>2, <1>3, <2>1, <2>2
  <2> QED BY <1>3, <2>1, <2>3, SeqEqual
<1> QED BY <1>2, <1>4, <1>5, <1>6 DEF c, d, t, N

\* Every step of the ring is one of the FIFO, or none.
LEMMA FifoStep ==
    ASSUME IInv, Stored, [Next]_vars
    PROVE  [Fifo!Next]_<<Contents(Unread), out>>
<1> DEFINE Leaving == r.pc = "store" /\ r.idx = index
<1>1. index \in 0..1 /\ q[index] \in Seq(Packets) /\ w \in Writers /\ r \in Readers
  BY DEF IInv, TypeOK
<1>2. ASSUME q'[index'] = q[index], out' = out, Leaving' <=> Leaving
      PROVE  [Fifo!Next]_<<Contents(Unread), out>>
  BY <1>2 DEF Unread, Contents
<1>3. ASSUME q'[index'] = <<>>, out' = out
      PROVE  [Fifo!Next]_<<Contents(Unread), out>>
  <2>1. Unread' = <<>>
    BY <1>3 DEF Unread
  <2>2. Contents(<<>>) = <<>>
    BY ContentsSeq, EmptySeq
  <2>3. Contents(Unread)' = <<>>
    BY <2>1, <2>2 DEF Contents
  <2> QED BY <1>3, <2>3 DEF Fifo!Next, Fifo!Empty
<1>4. CASE \/ GiveUp \/ CopyFails \/ RequestWriteLoad \/ Copy \/ WriteTimes
           \/ UNCHANGED vars
           \/ \E l \in Lens : Offer(l)
           \/ \E n \in Reserves : UpdateReserved(n)
  <2>1. UNCHANGED <<q, index, out, r>>
    BY <1>4
    DEF GiveUp, CopyFails, RequestWriteLoad, Copy, WriteTimes, Offer, UpdateReserved, vars,
        desc, ghosts
  <2> QED BY <1>2, <2>1
<1>5. CASE SpecialReset \/ RequestWrite
  <2>1. ZeroIdleSet => q'[index] = q[index]
    BY <1>1 DEF ZeroIdleSet, IInv, TypeOK
  <2>2. UNCHANGED <<index, out, r>> /\ q'[index] = q[index]
    BY <1>5, <2>1 DEF SpecialReset, RequestWrite, desc
  <2> QED BY <1>2, <2>2
<1>6. CASE SpecialResetFlip
  BY <1>3, <1>6 DEF SpecialResetFlip, IInv, WriterInv
<1>7. CASE Reset
  BY <1>3, <1>7 DEF Reset
<1>8. CASE UpdateWrite
  <2> DEFINE p == Packet(w.at, w.len, w.tag)
  <2>1. UNCHANGED <<index, r, out>> /\ q'[index] = Append(q[index], p) /\ p \in Packets
    BY <1>1, <1>8 DEF UpdateWrite, IInv, TypeOK, WriterInv, Packet, Packets, Writers
  <2> HIDE DEF p
  <2>2. Leaving => q[index] # <<>>
    BY DEF IInv, ReaderInv
  <2>3. Unread \in Seq(Packets)
    BY <1>1, <2>2, HeadTailProperties DEF Unread
  <2>4. Unread' = Append(Unread, p)
    <3>1. q'[index'] # <<>>
      BY <1>1, <2>1, AppendProperties
    <3>2. Leaving => Tail(Append(q[index], p)) = Append(Tail(q[index]), p)
      BY <1>1, <2>1, <2>2, AppendProperties
    <3> QED BY <2>1, <2>2, <3>1, <3>2 DEF Unread
  <2>5. /\ Len(Contents(Unread')) = Len(Contents(Unread)) + 1
        /\ SubSeq(Contents(Unread'), 1, Len(Contents(Unread))) = Contents(Unread)
    BY <2>1, <2>3, <2>4, ContentsAppend
  <2>6. Contents(Unread)' = Contents(Unread')
    BY DEF Contents
  <2> QED BY <2>1, <2>5, <2>6 DEF Fifo!Next, Fifo!Send
<1>9. CASE RequestReadLoad \/ ReadCopy \/ \E l \in Lens : RequestRead(l)
  <2>1. /\ UNCHANGED <<q, index, out>> /\ r.pc # "store" /\ r'.pc # "store"
    BY <1>1, <1>9, IdleTypes
    DEF RequestReadLoad, ReadCopy, RequestRead, desc, ghosts, Readers
  <2> QED BY <1>2, <2>1
<1>10. CASE UpdateRead
  <2>1. UNCHANGED <<q, index>> /\ r.pc = "upd"
    BY <1>10 DEF UpdateRead
  <2>2. CASE flag
    <3>1. r'.pc # "store" /\ out' = out
      BY <1>10, <2>2, IdleTypes DEF UpdateRead
    <3> QED BY <1>2, <2>1, <3>1
  <2>3. CASE ~flag
    <3>1. r'.pc = "store" /\ r'.idx = index /\ out' = r.got
      BY <1>1, <1>10, <2>3 DEF UpdateRead, Readers
    <3>2. q[index] # <<>> /\ r.got = Content(q[index][1])
      BY <2>1, <2>3 DEF IInv, ReaderInv, Stored
    <3>3. Unread = q[index] /\ Unread' = Tail(q[index])
      BY <2>1, <3>1, <3>2 DEF Unread
    <3>4. Contents(Unread)' = Contents(Unread')
      BY DEF Contents
    <3>5. /\ Contents(Unread) # <<>> /\ Head(Contents(Unread)) = Content(q[index][1])
          /\ Tail(Contents(Unread)) = Contents(Tail(q[index]))
      BY <1>1, <3>2, <3>3, ContentsTail
    <3> QED BY <3>1, <3>2, <3>3, <3>4, <3>5 DEF Fifo!Next, Fifo!Receive
  <2> QED BY <2>2, <2>3
<1>11. CASE UpdateReadStore
  <2>1. /\ UNCHANGED <<index, out>> /\ r.pc = "store" /\ r'.pc # "store" /\ q[r.idx] # <<>>
    BY <1>1, <1>11, IdleTypes DEF UpdateReadStore, Readers, IInv, ReaderInv
  <2>2. CASE r.idx = index
    <3>1. wt[index] # rd[index]
      BY <2>1, <2>2 DEF IInv, Layout
    <3>2. q'[index] = Tail(q[index])
      BY <1>1, <1>11, <2>2, <3>1 DEF UpdateReadStore, IInv, TypeOK
    <3>3. Unread' = Unread
      BY <2>1, <2>2, <3>2 DEF Unread
    <3> QED BY <2>1, <3>3 DEF Contents
  <2>3. CASE r.idx # index
    <3>1. q'[index] = q[index]
      BY <1>1, <1>11, <2>3 DEF UpdateReadStore, IInv, TypeOK
    <3> QED BY <1>2, <2>1, <2>3, <3>1
  <2> QED BY <2>2, <2>3
<1>12. CASE ReadTimesLoad \/ ReadTimesStore
  <2>1. /\ UNCHANGED <<q, index, out>> /\ r.pc # "store" /\ r'.pc # "store"
    BY <1>1, <1>12, IdleTypes DEF ReadTimesLoad, ReadTimesStore, desc, ghosts, Readers
  <2> QED BY <1>2, <2>1
<1> HIDE DEF Leaving
<1> QED
  BY <1>4, <1>5, <1>6, <1>7, <1>8, <1>9, <1>10, <1>11, <1>12 DEF Next, WriterStep, ReaderStep

\* The variables of the ring keep their types: above all, no pointer leaves
\* the ring.
THEOREM TypeCorrect ==
    ASSUME Fits
    PROVE  Spec => []TypeOK
<1>1. Init => IInv
  BY InitHolds
<1>2. IInv /\ [Next]_vars => IInv'
  BY NextPreserves
<1>3. IInv => TypeOK
  BY DEF IInv
<1> QED
  BY <1>1, <1>2, <1>3, PTL DEF Spec

\* In a ring of any size, no byte of an unread packet is ever granted to the
\* write thread.
THEOREM NeverOverwrites ==
    ASSUME Fits
    PROVE  Spec => []NoOverwrite
<1>1. Init => IInv
  BY InitHolds
<1>2. IInv /\ [Next]_vars => IInv'
  BY NextPreserves
<1>3. IInv => NoOverwrite
  BY IInvNoOverwrite
<1> QED
  BY <1>1, <1>2, <1>3, PTL DEF Spec

\* In a ring of any size, a read that no reset disturbs copies the oldest
\* packet while the write thread is elsewhere.
THEOREM NeverTearsARead ==
    ASSUME Fits
    PROVE  Spec => []NoTornRead
<1>1. Init => IInv
  BY InitHolds
<1>2. IInv /\ [Next]_vars => IInv'
  BY NextPreserves
<1>3. IInv => NoTornRead
  BY IInvNoTornRead
<1> QED
  BY <1>1, <1>2, <1>3, PTL DEF Spec

\* In a ring of any size, the reader finds the oldest packet by the valid size,
\* and an empty ring has none.
THEOREM HeadAlwaysReadable ==
    ASSUME Fits
    PROVE  Spec => []HeadReadable
<1>1. Init => IInv
  BY InitHolds
<1>2. IInv /\ [Next]_vars => IInv'
  BY NextPreserves
<1>3. IInv => HeadReadable
  BY IInvHeadReadable
<1> QED
  BY <1>1, <1>2, <1>3, PTL DEF Spec

\* In a ring of any size, a packet that fits into the free size is granted.
THEOREM FreeSizeIsFree ==
    ASSUME Fits
    PROVE  Spec => []FreeSizeHonoured
<1>1. Init => IInv
  BY InitHolds
<1>2. IInv /\ [Next]_vars => IInv'
  BY NextPreserves
<1>3. IInv => FreeSizeHonoured
  BY IInvFreeSizeHonoured
<1> QED
  BY <1>1, <1>2, <1>3, PTL DEF Spec

\* In a ring of any size that the counters can count, the number of packets is
\* right, however often the counters come round, unless a reset overtook one.
THEOREM PacketsAlwaysCounted ==
    ASSUME Fits, TimesSuffice
    PROVE  Spec => []PacketsCounted
<1>1. Init => IInv /\ Counted
  <2> SUFFICES ASSUME Init PROVE IInv /\ Counted
    OBVIOUS
  <2>1. Len(q[index]) = 0 /\ w.pc = "idle" /\ r.pc = "idle"
    BY IdleTypes DEF Init
  <2>2. Counted
    BY <2>1 DEF Init, Counted, Apart, Ahead, Uncounted, Unannounced
  <2> QED BY <2>2, InitHolds
<1>2. IInv /\ [Next]_vars => IInv'
  BY NextPreserves
<1>3. IInv /\ IInv' /\ Counted /\ [Next]_vars => Counted'
  BY CountedKept
<1>4. IInv /\ Counted => PacketsCounted
  BY CountedPackets
<1> QED
  BY <1>1, <1>2, <1>3, <1>4, PTL DEF Spec

\* In a ring of any size, packets come out whole, in order and once, and none
\* is lost but by a reset: the ring implements the FIFO of KshmFifo.
THEOREM RingIsFifo ==
    ASSUME Fits
    PROVE  Spec => ImplementsFifo
<1>1. Init => IInv /\ Stored
  <2> SUFFICES ASSUME Init PROVE IInv /\ Stored
    OBVIOUS
  <2>1. Len(q[index]) = 0 /\ w.pc = "idle" /\ r.pc = "idle"
    BY IdleTypes DEF Init
  <2> QED BY <2>1, InitHolds DEF Stored
<1>2. Init => Fifo!Init
  <2> SUFFICES ASSUME Init PROVE Contents(Unread) = <<>> /\ out = <<>>
    BY DEF Fifo!Init
  <2>1. Unread = <<>> /\ out = <<>>
    BY DEF Init, Unread
  <2> QED BY <2>1, ContentsSeq, EmptySeq
<1>3. IInv /\ Stored /\ [Next]_vars => IInv' /\ Stored'
  BY NextPreserves, StoredKept
<1>4. IInv /\ Stored /\ [Next]_vars => [Fifo!Next]_<<Contents(Unread), out>>
  BY FifoStep
<1> QED
  BY <1>1, <1>2, <1>3, <1>4, PTL DEF Spec, ImplementsFifo, Fifo!Spec

\* In a ring of any size, only the grant of a reset, which the reader will be
\* told of, takes the bytes read last that the reader has reserved, though they
\* may lie across the end of the ring.
THEOREM ReserveIsKept ==
    ASSUME Fits
    PROVE  Spec => ReserveKept
<1>1. Init => IInv /\ Trailed
  <2> SUFFICES ASSUME Init PROVE IInv /\ Trailed
    OBVIOUS
  <2>1. rd[index] = 0 /\ kept[index] = <<>> /\ ~flag /\ w.pc = "idle"
    BY IdleTypes DEF Init
  <2> QED BY <2>1, InitHolds, EmptyTrail DEF Trailed
<1>2. IInv /\ Trailed /\ [Next]_vars => IInv' /\ Trailed'
  BY NextPreserves, TrailedKept
<1>3. IInv /\ Trailed /\ [Next]_vars =>
        [ (w.pc # "copy" /\ w'.pc = "copy") =>
            flag' \/ ReservedBytes \cap Bytes(w'.at, RoundUp(w'.len)) = {} ]_vars
  BY GrantSpares
<1> QED
  BY <1>1, <1>2, <1>3, PTL DEF Spec, ReserveKept

=============================================================================
