-------------------------------- MODULE Kshm --------------------------------
(* The shared-memory ring buffer of the kernel's kshm driver                *)
(* (drivers/kshm/kshm.c): one write thread, one read thread, no lock.       *)
(*                                                                          *)
(* A packet occupies RoundUp(len) bytes, never wraps, and starts at offset  *)
(* 0 when it does not fit behind the previous one.  The descriptor keeps    *)
(* two sets of pointers; kshm_special_reset zeroes the idle set and flips   *)
(* to it, raising RESET_FLAG, so that a reader that is in the middle of a   *)
(* read learns at kshm_update_read that what it copied is void.             *)
(*                                                                          *)
(* Each thread is cut at every access to a word the other thread writes,    *)
(* and the write thread also between publishing a packet and counting it.   *)
(* q, out and stale are history variables no action reads except to         *)
(* choose the length the reader asks for (see RequestRead).                 *)
EXTENDS Integers, Sequences

CONSTANTS
    Size,       \* cfg.size, the bytes of the ring
    Align,      \* 32 in the code
    Lens,       \* the lengths the write thread asks for
    Reserves,   \* the arguments of kshm_update_reserved
    TimesMod,   \* rd_times and wt_times count modulo this, 2^32 in the code
    MaxPackets, \* bound: the packets offered to kshm_write
    MaxResets,  \* bound: the resets asked for by a caller
    MaxReserve  \* bound: the bytes read last that kept remembers

ASSUME SizeAssumption == Size \in Nat /\ Size > 0
ASSUME AlignAssumption == Align \in Nat /\ Align > 0
ASSUME LensAssumption == Lens \subseteq Nat \ {0}
ASSUME ReservesAssumption == Reserves \subseteq Nat /\ MaxReserve \in Nat
ASSUME TimesAssumption == TimesMod \in Nat /\ TimesMod > 1
ASSUME BoundsAssumption == MaxPackets \in Nat /\ MaxResets \in Nat

VARIABLES
    rd, wt, reserved,   \* kshm_desc: the two sets of pointers
    index, flag,        \* kshm_desc.index: its bit and KSHM_RESET_FLAG
    wt_times, rd_times, \* kshm_desc
    mem,                \* the bytes of cfg.base
    w,                  \* the write thread: where it is and what it holds
    r,                  \* the read thread
    q,                  \* per pointer set: the packets written and not read
    kept,               \* per pointer set: the offsets read last, oldest first
    out,                \* the bytes the last successful kshm_read returned
    stale,              \* a reset overtook an update of rd_times
    sent, resets        \* how often Offer and the resets were taken

desc == <<rd, wt, reserved, index, flag, wt_times, rd_times>>
ghosts == <<q, kept, out, stale>>
bounds == <<sent, resets>>
vars == <<desc, mem, w, r, ghosts, bounds>>

-----------------------------------------------------------------------------
(* Pure parts of the code. *)

RoundUp(n) == ((n + Align - 1) \div Align) * Align

NULL == -1

\* Mutant: a pointer that reaches the end of the ring is not brought back.
Advance_NotWrapped(x, s) == IF x + s > Size THEN s ELSE x + s

\* Where a pointer that stands at x goes over a packet of s bytes.
Advance(x, s) ==
    IF x + s > Size THEN s
    ELSE IF x + s = Size THEN 0
    ELSE x + s

\* Mutant: the unread data in front of the write pointer is forgotten.
TailRoom_ToEnd(x, y) == Size - y

\* The free bytes behind the write pointer and those in front of the unread data.
TailRoom(x, y) == IF y >= x THEN Size - y ELSE x - y
HeadRoom(x, y) == IF y >= x THEN x ELSE 0

\* Mutant: the reserve is not counted behind the write pointer.
NoRoom_TailUnreserved(x, y, res, s) ==
    /\ HeadRoom(x, y) < res + s
    /\ TailRoom(x, y) < s

\* kshm_request_write refuses: neither room holds the packet and the reserve.
NoRoom(x, y, res, s) ==
    /\ HeadRoom(x, y) < res + s
    /\ TailRoom(x, y) < res + s

\* Mutant: a packet may fill the free bytes in front of the unread data.
Grant_FillsHead(x, y, s) ==
    IF TailRoom(x, y) > s \/ (TailRoom(x, y) = s /\ HeadRoom(x, y) > 0) THEN y
    ELSE IF HeadRoom(x, y) >= s THEN 0
    ELSE NULL

\* Mutant: the start of the ring is never granted.
Grant_TailOnly(x, y, s) ==
    IF TailRoom(x, y) > s \/ (TailRoom(x, y) = s /\ HeadRoom(x, y) > 0)
    THEN y ELSE NULL

\* The offset kshm_request_write grants when it does not refuse.
Grant(x, y, s) ==
    IF TailRoom(x, y) > s \/ (TailRoom(x, y) = s /\ HeadRoom(x, y) > 0) THEN y
    ELSE IF HeadRoom(x, y) > s THEN 0
    ELSE NULL

\* Mutant: data that starts over at the base is not seen.
Avail_TailOnly(x, y) == IF y >= x THEN y - x ELSE Size - x

\* The bytes kshm_request_read may hand out.
Avail(x, y) ==
    IF y >= x THEN y - x
    ELSE IF Size - x > y THEN Size - x ELSE y

ValidSize == Avail(rd[index], wt[index])

\* Mutant: the byte that keeps a full ring from looking empty is forgotten.
FreeSize_Whole ==
    LET h == HeadRoom(rd[index], wt[index])
        t == TailRoom(rd[index], wt[index])
    IN  IF h > t THEN h ELSE t

FreeSize ==
    LET h == HeadRoom(rd[index], wt[index])
        t == TailRoom(rd[index], wt[index])
    IN  (IF h > t THEN h ELSE t) - 1

AvailPackets == ((wt_times - rd_times) % TimesMod) \div 2

-----------------------------------------------------------------------------
(* Threads, packets and the types of the variables. *)

Offsets == 0..(Size - 1)

IdleWriter == [pc |-> "idle", len |-> 0, at |-> 0, tag |-> 0, rd |-> 0]
IdleReader == [pc |-> "idle", idx |-> 0, len |-> 0, at |-> 0, got |-> <<>>,
               times |-> 0]

Packet(p, l, d) == [at |-> p, len |-> l, tag |-> d]

\* The offsets of the n bytes from p on.
Bytes(p, n) == {x \in Offsets : p <= x /\ x < p + n}

\* The last n elements of s.
LastOf(s, n) == IF Len(s) <= n THEN s ELSE SubSeq(s, Len(s) - n + 1, Len(s))

Init ==
    /\ rd = [i \in 0..1 |-> 0]
    /\ wt = [i \in 0..1 |-> 0]
    /\ reserved = [i \in 0..1 |-> 0]
    /\ index = 0
    /\ flag = FALSE
    /\ wt_times = 0
    /\ rd_times = 0
    /\ mem = [x \in Offsets |-> 0]
    /\ w = IdleWriter
    /\ r = IdleReader
    /\ q = [i \in 0..1 |-> <<>>]
    /\ kept = [i \in 0..1 |-> <<>>]
    /\ out = <<>>
    /\ stale = FALSE
    /\ sent = 0
    /\ resets = 0

-----------------------------------------------------------------------------
(* The write thread. *)

\* The caller has a packet for kshm_write.
Offer(l) ==
    /\ w.pc = "idle" /\ sent < MaxPackets
    /\ sent' = sent + 1
    /\ w' = [IdleWriter EXCEPT !.pc = "want", !.len = l, !.tag = sent']
    /\ UNCHANGED <<desc, mem, r, ghosts, resets>>

\* The caller takes KSHM_FAIL for an answer and drops the packet.
GiveUp ==
    /\ w.pc = "want"
    /\ w' = IdleWriter
    /\ UNCHANGED <<desc, mem, r, ghosts, bounds>>

\* kshm_request_write loads the read pointer, which the reader may move
\* before the rest of the function runs.
RequestWriteLoad ==
    /\ w.pc = "want"
    /\ w' = [w EXCEPT !.pc = "req", !.rd = rd[index]]
    /\ UNCHANGED <<desc, mem, r, ghosts, bounds>>

\* Mutant: the reset leaves rd_times alone.
ZeroIdleSet_KeepsTimes ==
    LET i == 1 - index IN
    /\ rd' = [rd EXCEPT ![i] = 0]
    /\ wt' = [wt EXCEPT ![i] = 0]
    /\ reserved' = [reserved EXCEPT ![i] = 0]
    /\ wt_times' = 0
    /\ q' = [q EXCEPT ![i] = <<>>]
    /\ kept' = [kept EXCEPT ![i] = <<>>]
    /\ stale' = (r.pc \in {"store", "times", "bump"})
    /\ UNCHANGED rd_times

\* kshm_special_reset up to its last store: the idle pointer set is zeroed.
ZeroIdleSet ==
    LET i == 1 - index IN
    /\ rd' = [rd EXCEPT ![i] = 0]
    /\ wt' = [wt EXCEPT ![i] = 0]
    /\ reserved' = [reserved EXCEPT ![i] = 0]
    /\ wt_times' = 0
    /\ rd_times' = 0
    /\ q' = [q EXCEPT ![i] = <<>>]
    /\ kept' = [kept EXCEPT ![i] = <<>>]
    /\ stale' = (r.pc \in {"store", "times", "bump"})

\* The rest of kshm_request_write: refuse (the caller retries), grant a
\* place, or, when the ring is empty and the packet still does not fit,
\* reset the ring and grant its base.
RequestWrite ==
    LET s == RoundUp(w.len)
        refused == NoRoom(w.rd, wt[index], reserved[index], s)
        p == Grant(w.rd, wt[index], s)
    IN
    /\ w.pc = "req"
    /\ \/ /\ refused
          /\ w.rd # wt[index] \/ s > Size
          /\ w' = [w EXCEPT !.pc = "want"]
          /\ UNCHANGED <<desc, q, kept, stale>>
       \/ /\ refused /\ w.rd = wt[index] /\ s <= Size
          /\ IF flag
             THEN /\ w' = [w EXCEPT !.pc = "copy", !.at = 0]
                  /\ UNCHANGED <<desc, q, kept, stale>>
             ELSE /\ ZeroIdleSet
                  /\ w' = [w EXCEPT !.pc = "flip", !.at = 0]
                  /\ UNCHANGED <<index, flag>>
       \/ /\ ~refused
          /\ w' = IF p = NULL THEN [w EXCEPT !.pc = "want"]
                  ELSE [w EXCEPT !.pc = "copy", !.at = p]
          /\ UNCHANGED <<desc, q, kept, stale>>
    /\ UNCHANGED <<mem, r, out, bounds>>

\* kshm_special_reset called by the write thread between two packets.  It
\* does nothing while an earlier reset is still unseen by the reader.
SpecialReset ==
    /\ w.pc = "idle" /\ ~flag /\ resets < MaxResets
    /\ resets' = resets + 1
    /\ ZeroIdleSet
    /\ w' = [w EXCEPT !.pc = "flip"]
    /\ UNCHANGED <<index, flag, mem, r, out, sent>>

\* Mutant: the flip does not raise KSHM_RESET_FLAG.
SpecialResetFlip_NoFlag ==
    /\ w.pc = "flip"
    /\ index' = 1 - index
    /\ w' = IF w.len = 0 THEN IdleWriter ELSE [w EXCEPT !.pc = "copy"]
    /\ UNCHANGED <<rd, wt, reserved, flag, wt_times, rd_times, mem, r, ghosts,
                   bounds>>

\* The last store of kshm_special_reset.
SpecialResetFlip ==
    /\ w.pc = "flip"
    /\ index' = 1 - index
    /\ flag' = TRUE
    /\ w' = IF w.len = 0 THEN IdleWriter ELSE [w EXCEPT !.pc = "copy"]
    /\ UNCHANGED <<rd, wt, reserved, wt_times, rd_times, mem, r, q, kept, out,
                   stale, bounds>>

\* The memcpy or the DMA transfer of kshm_write.
Copy ==
    /\ w.pc = "copy"
    /\ mem' = [x \in Offsets |->
                 IF x \in Bytes(w.at, w.len) THEN w.tag ELSE mem[x]]
    /\ w' = [w EXCEPT !.pc = "commit"]
    /\ UNCHANGED <<desc, r, ghosts, bounds>>

\* dma_copy answers -1: kshm_write returns size although nothing was queued.
CopyFails ==
    /\ w.pc = "copy"
    /\ w' = IdleWriter
    /\ UNCHANGED <<desc, mem, r, ghosts, bounds>>

\* kshm_update_write publishes the packet: from here on the reader may take it.
UpdateWrite ==
    /\ w.pc = "commit"
    /\ wt' = [wt EXCEPT ![index] = Advance(@, RoundUp(w.len))]
    /\ q' = [q EXCEPT ![index] = Append(@, Packet(w.at, w.len, w.tag))]
    /\ w' = [IdleWriter EXCEPT !.pc = "count"]
    /\ UNCHANGED <<rd, reserved, index, flag, wt_times, rd_times, mem, r, kept,
                   out, stale, bounds>>

\* wt_times++, which no other thread writes.
WriteTimes ==
    /\ w.pc = "count"
    /\ wt_times' = (wt_times + 1) % TimesMod
    /\ w' = IdleWriter
    /\ UNCHANGED <<rd, wt, reserved, index, flag, rd_times, mem, r, ghosts,
                   bounds>>

-----------------------------------------------------------------------------
(* The read thread. *)

\* kshm_request_read loads the index.
RequestReadLoad ==
    /\ r.pc = "idle"
    /\ r' = [r EXCEPT !.pc = "req", !.idx = index]
    /\ UNCHANGED <<desc, mem, w, ghosts, bounds>>

\* The rest of kshm_request_read.  The reader knows the length of the next
\* packet (the packets alternate between a header of fixed size and the
\* payload it announces), except that after a reset it has not yet heard of
\* it may ask for anything.
RequestRead(l) ==
    LET x == rd[r.idx]
        s == RoundUp(l)
    IN
    /\ r.pc = "req"
    /\ (~flag /\ q[r.idx] # <<>>) => l = Head(q[r.idx]).len
    /\ r' = IF Avail(x, wt[r.idx]) < s THEN IdleReader
            ELSE [r EXCEPT !.pc = "copy", !.len = l,
                           !.at = IF x + s > Size THEN 0 ELSE x]
    /\ UNCHANGED <<desc, mem, w, ghosts, bounds>>

\* The memcpy of kshm_read.
ReadCopy ==
    /\ r.pc = "copy"
    /\ r' = [r EXCEPT !.pc = "upd",
                      !.got = [k \in 1..r.len |-> mem[r.at + k - 1]]]
    /\ UNCHANGED <<desc, mem, w, ghosts, bounds>>

\* Mutant: kshm_update_read does not look at KSHM_RESET_FLAG.
UpdateRead_Unchecked ==
    /\ r.pc = "upd"
    /\ r' = [r EXCEPT !.pc = "store", !.idx = index]
    /\ out' = r.got
    /\ stale' = (stale \/ w.pc = "flip")
    /\ UNCHANGED <<desc, mem, w, q, kept, bounds>>

\* kshm_update_read loads the index.  When a reset happened it acknowledges
\* it and returns KSHM_RESETED, else it goes on to move the read pointer.
UpdateRead ==
    /\ r.pc = "upd"
    /\ IF flag
       THEN /\ flag' = FALSE
            /\ r' = IdleReader
            /\ UNCHANGED <<out, stale>>
       ELSE /\ r' = [r EXCEPT !.pc = "store", !.idx = index]
            /\ out' = r.got
            /\ stale' = (stale \/ w.pc = "flip")
            /\ UNCHANGED flag
    /\ UNCHANGED <<rd, wt, reserved, index, wt_times, rd_times, mem, w, q, kept,
                   bounds>>

\* kshm_update_read moves the read pointer.
UpdateReadStore ==
    LET i == r.idx
        s == RoundUp(r.len)
    IN
    /\ r.pc = "store"
    /\ IF wt[i] = rd[i]
       THEN /\ r' = IdleReader
            /\ UNCHANGED <<rd, q, kept>>
       ELSE /\ rd' = [rd EXCEPT ![i] = Advance(@, s)]
            /\ q' = [q EXCEPT ![i] = Tail(@)]
            /\ kept' = [kept EXCEPT ![i] =
                          LastOf(@ \o [k \in 1..s |-> r.at + k - 1], MaxReserve)]
            /\ r' = [r EXCEPT !.pc = "times"]
    /\ UNCHANGED <<wt, reserved, index, flag, wt_times, rd_times, mem, w, out,
                   stale, bounds>>

\* rd_times++, a load and a store.
ReadTimesLoad ==
    /\ r.pc = "times"
    /\ r' = [r EXCEPT !.pc = "bump", !.times = rd_times]
    /\ UNCHANGED <<desc, mem, w, ghosts, bounds>>

ReadTimesStore ==
    /\ r.pc = "bump"
    /\ rd_times' = (r.times + 1) % TimesMod
    /\ r' = IdleReader
    /\ UNCHANGED <<rd, wt, reserved, index, flag, wt_times, mem, w, q, kept, out,
                   stale, bounds>>

\* kshm_update_reserved, between two reads.
UpdateReserved(n) ==
    /\ r.pc = "idle"
    /\ reserved' = [reserved EXCEPT ![index] = RoundUp(n)]
    /\ UNCHANGED <<rd, wt, index, flag, wt_times, rd_times, mem, w, r, q, kept,
                   out, stale, bounds>>

\* kshm_reset clears the descriptor.  It takes no lock: its caller (the USB
\* microphone's start request) runs it before the writer is started, and it
\* is modelled with both threads outside the driver.
Reset ==
    /\ w.pc = "idle" /\ r.pc = "idle" /\ resets < MaxResets
    /\ resets' = resets + 1
    /\ rd' = [i \in 0..1 |-> 0]
    /\ wt' = [i \in 0..1 |-> 0]
    /\ reserved' = [i \in 0..1 |-> 0]
    /\ index' = 0
    /\ flag' = FALSE
    /\ wt_times' = 0
    /\ rd_times' = 0
    /\ q' = [i \in 0..1 |-> <<>>]
    /\ kept' = [i \in 0..1 |-> <<>>]
    /\ stale' = FALSE
    /\ UNCHANGED <<mem, w, r, out, sent>>

-----------------------------------------------------------------------------
(* The system. *)

WriterStep ==
    \/ RequestWriteLoad
    \/ RequestWrite
    \/ SpecialResetFlip
    \/ Copy
    \/ UpdateWrite
    \/ WriteTimes

ReaderStep ==
    \/ RequestReadLoad
    \/ \E l \in Lens : RequestRead(l)
    \/ ReadCopy
    \/ UpdateRead
    \/ UpdateReadStore
    \/ ReadTimesLoad
    \/ ReadTimesStore

Next ==
    \/ \E l \in Lens : Offer(l)
    \/ GiveUp
    \/ CopyFails
    \/ SpecialReset
    \/ WriterStep
    \/ ReaderStep
    \/ \E n \in Reserves : UpdateReserved(n)
    \/ Reset

Spec == Init /\ [][Next]_vars

\* Both threads run forever: a reader polls kshm_read and a writer that was
\* refused tries again, unless it gives up.
FairSpec == Spec /\ WF_vars(WriterStep) /\ WF_vars(ReaderStep)

-----------------------------------------------------------------------------
(* Properties. *)

Packets == [at : Offsets, len : Lens, tag : Nat]

Writers ==
    [pc : {"idle", "want", "req", "flip", "copy", "commit", "count"},
     len : Lens \cup {0}, at : Offsets, tag : Nat, rd : Offsets]

Readers ==
    [pc : {"idle", "req", "copy", "upd", "store", "times", "bump"},
     idx : 0..1, len : Lens \cup {0}, at : Offsets, got : Seq(Nat),
     times : 0..(TimesMod - 1)]

TypeOK ==
    /\ rd \in [0..1 -> Offsets]
    /\ wt \in [0..1 -> Offsets]
    /\ reserved \in [0..1 -> Nat]
    /\ index \in 0..1
    /\ flag \in BOOLEAN
    /\ wt_times \in 0..(TimesMod - 1)
    /\ rd_times \in 0..(TimesMod - 1)
    /\ mem \in [Offsets -> Nat]
    /\ w \in Writers
    /\ r \in Readers
    /\ q \in [0..1 -> Seq(Packets)]
    /\ kept \in [0..1 -> Seq(Nat)]
    /\ out \in Seq(Nat)
    /\ stale \in BOOLEAN
    /\ sent \in Nat /\ resets \in Nat

\* The bytes granted to the write thread and not yet published.
WriterBytes ==
    IF w.pc \in {"copy", "commit"} THEN Bytes(w.at, RoundUp(w.len)) ELSE {}

\* What kshm_request_write grants never holds a byte of a packet that was
\* published and not yet consumed, however far the reader has moved since
\* the write thread loaded the read pointer.
NoOverwrite ==
    \A k \in 1..Len(q[index]) :
        LET p == q[index][k] IN
        WriterBytes \cap Bytes(p.at, RoundUp(p.len)) = {}

\* While no reset is pending, what the read thread is copying is the oldest
\* unread packet, and the write thread does not own any of its bytes: a read
\* is only ever disturbed when kshm_update_read will answer KSHM_RESETED.
NoTornRead ==
    (r.pc = "copy" /\ ~flag) =>
        /\ q[index] # <<>>
        /\ r.at = Head(q[index]).at
        /\ r.len = Head(q[index]).len
        /\ WriterBytes \cap Bytes(r.at, RoundUp(r.len)) = {}

\* kshm_get_valid_size tells an empty ring from one that holds a packet, and
\* is enough for kshm_request_read to find the oldest one.
HeadReadable ==
    IF q[index] = <<>> THEN ValidSize = 0
    ELSE ValidSize >= RoundUp(Head(q[index]).len)

\* With no reserve, kshm_request_write grants every packet whose rounded
\* length kshm_get_free_size promises.
FreeSizeHonoured ==
    reserved[index] = 0 =>
        \A l \in Lens : RoundUp(l) <= FreeSize =>
            /\ ~NoRoom(rd[index], wt[index], 0, RoundUp(l))
            /\ Grant(rd[index], wt[index], RoundUp(l)) # NULL

\* Taken out of the ring and not counted yet; put into it and not counted yet.
Uncounted == IF r.pc \in {"times", "bump"} THEN 1 ELSE 0
Unannounced == IF w.pc = "count" THEN 1 ELSE 0

\* The reader has taken the packet the write thread has yet to count
\* (kshm.c:482-483): wt_times is one behind rd_times.
Overtaken == q[index] = <<>> /\ Uncounted = 0 /\ Unannounced = 1

\* kshm_get_avail_packets counts the header and payload pairs in the ring, up
\* to the packet each thread is about to count.  It does not when the reader
\* has overtaken the count of a packet, nor when a reset cleared the counters
\* while a kshm_update_read was on its way to increment one of them.
PacketsCounted ==
    (~stale /\ w.pc # "flip" /\ ~Overtaken) =>
        AvailPackets = (Len(q[index]) + Uncounted - Unannounced) \div 2

\* The bytes read last, as many as are reserved in the pointer set the reader
\* works with: the one it left when a reset waits to be seen.
ReservedBytes ==
    LET i == IF flag THEN 1 - index ELSE index
        s == LastOf(kept[i], reserved[i])
    IN  {s[n] : n \in DOMAIN s}

\* A place the write thread is granted, by kshm_request_write or by the reset it
\* makes of an empty ring, leaves alone the bytes read last that the reader
\* reserved with kshm_update_reserved, also when they lie across the end of
\* the ring.  A reset gives the reserve up: it may grant those very bytes, but
\* then KSHM_RESET_FLAG is up and the reader will be answered KSHM_RESETED.
ReserveKept ==
    [][ (w.pc # "copy" /\ w'.pc = "copy") =>
          flag' \/ ReservedBytes \cap Bytes(w'.at, RoundUp(w'.len)) = {} ]_vars

\* A packet for which kshm_write returned its size is visible to the reader:
\* kshm_request_write only refuses what is larger than the ring ("err, write
\* size > kshm total size").
PublishedIsVisible == q[index] # <<>> => rd[index] # wt[index]

\* A write thread that keeps asking is granted a place: when the ring is
\* empty and the packet is larger than what remains, it is reset ("warning,
\* write size > kshm remain size").
WriterProgress == w.pc = "want" ~> w.pc \in {"idle", "copy", "commit"}

\* The read thread gets at the packets: the ring is empty again and again,
\* or a packet is delivered, or a reset waits to be seen.
ReaderProgress == []<>(q[index] = <<>> \/ flag \/ r.pc = "store")

\* The bytes of a packet, and of each packet of a sequence.
Content(p) == [n \in 1..p.len |-> p.tag]
Contents(s) == [k \in 1..Len(s) |-> Content(s[k])]

\* The ring is a FIFO with a reset.  A packet leaves the FIFO when
\* kshm_update_read finds no reset pending, before the pointer moves.
Unread == IF r.pc = "store" /\ r.idx = index /\ q[index] # <<>>
          THEN Tail(q[index]) ELSE q[index]

Fifo == INSTANCE KshmFifo WITH chan <- Contents(Unread), out <- out

\* Packets come out whole, in order and once, and none is lost but by a reset.
ImplementsFifo == Fifo!Spec

=============================================================================
