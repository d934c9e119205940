--------------------------- MODULE PersistentMem ---------------------------
(***************************************************************************)
(* The persistent-memory driver (persistent-memory.c): an array kept in    *)
(* RAM and logged to one of two halves of a NOR partition.  A write        *)
(* appends a node to the current half; when the half is full it is sealed  *)
(* with a CRC, the whole array is copied to the other half, the old half   *)
(* is erased and the two are swapped.  Power may fail between and inside   *)
(* the flash operations; prepare_block decides at the next boot which half *)
(* holds the data.                                                         *)
(*                                                                         *)
(* One unit of flash stands for four bytes: a node takes its data plus     *)
(* Extra (its header and its CRC), the seal takes the last Mark units.     *)
(* The driver runs under one mutex, so the only actor that interleaves     *)
(* with an operation is the power supply.                                  *)
(***************************************************************************)
EXTENDS Naturals, Sequences

CONSTANTS BufSize,    \* cells of the array (blk.buf_size)
          NorSize,    \* units in one half (blk.nor_size)
          Extra,      \* header and CRC of a node (EXTRA_SIZE)
          Mark,       \* the CRC word that ends a half
          StartMod,   \* the header keeps a node's start modulo this (2^16)
          Requests,   \* what callers write: pairs of a start, which may lie
                      \* past the array's end, and a length
          Torn,       \* the programs a power cut can leave half done:
                      \* a subset of {"node", "sync", "mark"}
          MaxWrites,  \* bound on the writes
          MaxCuts     \* bound on the power cuts

ASSUME SizesAssumption ==
    /\ BufSize \in Nat \ {0} /\ NorSize \in Nat /\ StartMod \in Nat
    /\ Extra \in Nat \ {0} /\ Mark \in Nat \ {0}
    /\ Requests \subseteq Nat \X (Nat \ {0})
    /\ BufSize =< StartMod
    /\ Torn \subseteq {"node", "sync", "mark"}
    /\ MaxWrites \in Nat /\ MaxCuts \in Nat

(* The worst copy of the array leaves the seal free: update_next_block     *)
(* drops no node.  It has a node for every other cell, the last one long   *)
(* enough to end at the last cell.                                         *)
ASSUME CapacityAssumption ==
    BufSize + 1 + ((BufSize + 1) \div 2) * (Extra - 1) + Mark =< NorSize

VARIABLES
    flash,     \* [0 .. 1 -> half]: the two halves of the partition
    cur,       \* which half is norflash_address; the other is the next
    ofs,       \* blk.ofs, the end of the log in the current half
    ofs_next,  \* blk.ofs_next
    buffer,    \* blk.buffer, the array in RAM
    nodes,     \* blk.nodes, the ranges of the array that were ever written
    todo,      \* what the running call has still to do
    synced,    \* nodes sync_to_next_block has already copied
    wr,        \* the write in flight, or NoWrite; kept across a power cut
    acked,     \* the array as of the last call that returned
    power,     \* "off", "on", or "dead" after a failed assert
    writes,    \* writes so far; a write stores its own number
    cuts       \* power cuts so far

vars == <<flash, cur, ofs, ofs_next, buffer, nodes, todo, synced, wr, acked,
          power, writes, cuts>>
ram  == <<cur, ofs, ofs_next, buffer, nodes, synced>>

Cells == 0 .. BufSize - 1
Zero == [a \in Cells |-> 0]
NoWrite == [start |-> 0, data |-> <<>>, cut |-> FALSE]

-----------------------------------------------------------------------------
(* One half of the flash: the good nodes from its start, what follows them *)
(* ("no": blank; "tail": a word that is not blank where the next header    *)
(* would be; "body": a blank header with dirt behind it), and its last     *)
(* word: blank, part of the right CRC, the CRC of the first n nodes, or    *)
(* anything else.                                                          *)

Unmarked == [kind |-> "none", n |-> 0]
BadMark == [kind |-> "bad", n |-> 0]
Blank == [nodes |-> <<>>, junk |-> "no", mark |-> Unmarked]

UsedBy(ns) ==
    LET used[i \in 0 .. Len(ns)] ==
            IF i = 0 THEN 0 ELSE used[i - 1] + Len(ns[i].data) + Extra
    IN  used[Len(ns)]
Used(b) == UsedBy(b.nodes)

Marked(b) == b.mark.kind # "none"
Sealed(b) == b.mark.kind = "full" /\ b.mark.n = Len(b.nodes)
HeadBlank(b) == b.nodes = <<>> /\ b.junk # "tail"

Spoilt(m) == IF m.kind = "none" THEN m ELSE BadMark

(* A program that does not land on blank flash right after the nodes, or   *)
(* that power failed in, leaves bits that are no node.                     *)
Garbled(b, at) ==
    IF at > Used(b) /\ b.junk # "tail"
    THEN [b EXCEPT !.junk = "body", !.mark = Spoilt(@)]
    ELSE LET k == CHOOSE i \in 0 .. Len(b.nodes) :
                     /\ UsedBy(SubSeq(b.nodes, 1, i)) =< at
                     /\ \A j \in i + 1 .. Len(b.nodes) :
                            UsedBy(SubSeq(b.nodes, 1, j)) > at
         IN  [nodes |-> SubSeq(b.nodes, 1, k), junk |-> "tail",
              mark |-> Spoilt(b.mark)]

Programmed(b, at, node) ==
    IF at = Used(b) /\ b.junk = "no"
    THEN [b EXCEPT !.nodes = Append(@, node)] ELSE Garbled(b, at)

(* NOR programming only clears bits: a CRC over a word that already holds  *)
(* another one makes neither.                                              *)
MarkedFull(b) ==
    [b EXCEPT !.mark =
        IF @.kind = "none" \/ (@.kind # "bad" /\ @.n = Len(b.nodes))
        THEN [kind |-> "full", n |-> Len(b.nodes)] ELSE BadMark]

MarkedPart(b) ==
    [b EXCEPT !.mark = IF @.kind = "none"
                       THEN [kind |-> "part", n |-> Len(b.nodes)] ELSE @]

(* An erase runs from the low addresses up; stopped on the way it has      *)
(* damaged a suffix of the nodes, or the header and more, and last of all  *)
(* the mark.                                                               *)
HalfErased(b) ==
    IF b = Blank THEN {b}
    ELSE {[nodes |-> SubSeq(b.nodes, 1, k), junk |-> "tail",
           mark |-> Spoilt(b.mark)] : k \in 0 .. Len(b.nodes) - 1}
         \cup {[nodes |-> <<>>, junk |-> "body", mark |-> m] :
                   m \in {Spoilt(b.mark), Unmarked}}

-----------------------------------------------------------------------------
(* The array in RAM and the list of ranges it was written in.              *)

Node(start, data) == [start |-> start % StartMod, data |-> data]

\* Mutant: ranges that only meet end to end are kept apart.
Touch_Strict(p, q) == ~(p.start >= q.start + q.len \/ p.start + p.len =< q.start)

Touch(p, q) == ~(p.start > q.start + q.len \/ p.start + p.len < q.start)

Union2(p, q) ==
    LET lo == IF p.start < q.start THEN p.start ELSE q.start
        hi == IF p.start + p.len > q.start + q.len
              THEN p.start + p.len ELSE q.start + q.len
    IN  [start |-> lo, len |-> hi - lo]

(* One pass over the list: every range that touches the new one is taken   *)
(* out and swallowed by it.                                                *)
MergeNode(list, info) ==
    LET Visit(s, p) == IF Touch(p, s.info)
                       THEN [s EXCEPT !.info = Union2(p, s.info)]
                       ELSE [s EXCEPT !.list = Append(@, p)]
        pass[i \in 0 .. Len(list)] ==
            IF i = 0 THEN [info |-> info, list |-> <<>>]
            ELSE Visit(pass[i - 1], list[i])
        end == pass[Len(list)]
    IN  Append(end.list, end.info)

(* update_buffer on m = [buffer, nodes]: out of range it does nothing.     *)
UpdateBuffer(m, start, data) ==
    IF start + Len(data) > BufSize THEN m
    ELSE [buffer |-> [a \in Cells |->
                         IF a \in start .. start + Len(data) - 1
                         THEN data[a - start + 1] ELSE m.buffer[a]],
          nodes |-> MergeNode(m.nodes, [start |-> start, len |-> Len(data)])]

Replay(ns) ==
    LET m[i \in 0 .. Len(ns)] ==
            IF i = 0 THEN [buffer |-> Zero, nodes |-> <<>>]
            ELSE UpdateBuffer(m[i - 1], ns[i].start, ns[i].data)
    IN  m[Len(ns)]

Scan(b) == Replay(b.nodes)

(* The scan ends in NODE_CORRUPTED: on dirt, or when the log ends right    *)
(* before the mark and the mark itself is read as a header.                *)
Corrupted(b) == \/ b.junk = "tail"
                \/ Used(b) = NorSize - Mark /\ Marked(b)

free_size == IF ofs + Extra + Mark < NorSize
             THEN NorSize - Extra - ofs - Mark ELSE 0

-----------------------------------------------------------------------------
(* What a call does, in order.                                             *)
\* Mutants: the array is copied before the write reaches it; the old half is
\* erased before the copy; the old half is not erased.
FullWrite_LateBuffer == <<"mark", "sync", "erase", "switch", "buffer", "done">>
FullWrite_EraseFirst == <<"mark", "buffer", "erase", "sync", "switch", "done">>
FullWrite_NoErase == <<"mark", "buffer", "sync", "switch", "done">>

FullWrite == <<"mark", "buffer", "sync", "erase", "switch", "done">>
PlainWrite == <<"node", "buffer", "done">>
Compact == <<"erase_next", "sync", "erase", "switch", "done">>

\* Mutant: the half that was kept is the one that is erased.
KeepCurrent_Wrong == <<"erase", "done">>

KeepCurrent == <<"erase_next", "done">>
EraseBoth == <<"erase", "erase_next", "done">>

Ready == power = "on" /\ todo = <<>>
Doing(op) == power = "on" /\ todo # <<>> /\ Head(todo) = op
Next1 == todo' = Tail(todo)

Init == /\ flash = [h \in 0 .. 1 |-> Blank]
        /\ cur = 0 /\ ofs = 0 /\ ofs_next = 0
        /\ buffer = Zero /\ nodes = <<>>
        /\ todo = <<>> /\ synced = 0
        /\ wr = NoWrite /\ acked = Zero
        /\ power = "off" /\ writes = 0 /\ cuts = 0

-----------------------------------------------------------------------------
(* Booting: flash_wear_leveling_init and the decision of prepare_block.    *)
(* The half it settles on is scanned into the array, whether it became the *)
(* current one by its address or by switch_block.                          *)
Other(h) == 1 - h

Use(h, ops) == LET m == Scan(flash[h]) IN
    /\ cur' = h /\ ofs' = Used(flash[h]) /\ ofs_next' = 0
    /\ buffer' = m.buffer /\ nodes' = m.nodes
    /\ todo' = ops

Booting == /\ power = "off"
           /\ UNCHANGED <<flash, synced, wr, acked, writes, cuts>>

Dirty == \A h \in 0 .. 1 : flash[h] # Blank
NoSeal == \A h \in 0 .. 1 : ~Sealed(flash[h])

BootBlank == /\ Booting
             /\ flash[0] = Blank /\ flash[1] = Blank
             /\ power' = "on" /\ Use(0, <<"done">>)

\* Mutant: only the lower half is looked at.
BootOne_Lower(h) == /\ Booting
                    /\ h = 0 /\ flash[0] # Blank /\ flash[1] = Blank
                    /\ power' = "on"
                    /\ Use(h, IF Corrupted(flash[h]) THEN Compact
                              ELSE <<"done">>)

(* One half is blank: use the other, compacting it if its log is damaged.  *)
BootOne(h) == /\ Booting
              /\ flash[h] # Blank /\ flash[Other(h)] = Blank
              /\ power' = "on"
              /\ Use(h, IF Corrupted(flash[h]) THEN Compact ELSE <<"done">>)

(* A sealed half was being copied: copy it again.  An assert rules out two *)
(* sealed halves.                                                          *)
BootSealed(h) == /\ Booting /\ Dirty
                 /\ Sealed(flash[h])
                 /\ power' = IF Sealed(flash[Other(h)]) THEN "dead" ELSE "on"
                 /\ Use(h, Compact)

\* Mutant: the half whose erase was cut off is kept.
BootUnmarked_Erased(h) ==
    /\ Booting /\ Dirty /\ NoSeal
    /\ Marked(flash[h]) /\ ~Marked(flash[Other(h)])
    /\ power' = "on" /\ Use(h, KeepCurrent)

(* No seal, but one half has a mark: its erase was cut off, the copy in    *)
(* the unmarked one is complete.                                           *)
BootUnmarked(h) == /\ Booting /\ Dirty /\ NoSeal
                   /\ ~Marked(flash[h]) /\ Marked(flash[Other(h)])
                   /\ power' = "on" /\ Use(h, KeepCurrent)

SameMarks == Marked(flash[0]) = Marked(flash[1])

(* The erase got past the mark: the half with a header has the data, and   *)
(* an assert wants its log clean.                                          *)
BootHeaded(h) == /\ Booting /\ Dirty /\ NoSeal /\ SameMarks
                 /\ ~HeadBlank(flash[h]) /\ HeadBlank(flash[Other(h)])
                 /\ power' = IF Corrupted(flash[h]) THEN "dead" ELSE "on"
                 /\ Use(h, KeepCurrent)

(* "both norflash and norflash_next are broken": start over.               *)
BootBroken == /\ Booting /\ Dirty /\ NoSeal /\ SameMarks
              /\ HeadBlank(flash[0]) = HeadBlank(flash[1])
              /\ power' = "on"
              /\ cur' = 0 /\ ofs' = 0 /\ ofs_next' = 0
              /\ buffer' = Zero /\ nodes' = <<>>
              /\ todo' = EraseBoth

Boot == \/ BootBlank \/ BootBroken
        \/ \E h \in 0 .. 1 : \/ BootOne(h) \/ BootSealed(h)
                             \/ BootUnmarked(h) \/ BootHeaded(h)

-----------------------------------------------------------------------------
(* Calls and their steps, one per flash operation.                         *)

(* write(2) on the device; a write never fails once the driver is up.      *)
Write(start, len) ==
    /\ Ready /\ writes < MaxWrites
    /\ writes' = writes + 1
    /\ wr' = [start |-> start, data |-> [i \in 1 .. len |-> writes + 1],
              cut |-> FALSE]
    /\ todo' = IF len > free_size THEN FullWrite ELSE PlainWrite
    /\ UNCHANGED <<flash, ram, acked, power, cuts>>

UpdateBlock ==
    /\ Doing("node") /\ Next1
    /\ IF ofs + Extra - Mark + Len(wr.data) > NorSize
       THEN UNCHANGED <<flash, ofs>>
       ELSE /\ flash' = [flash EXCEPT ![cur] =
                            Programmed(@, ofs, Node(wr.start, wr.data))]
            /\ ofs' = ofs + Extra + Len(wr.data)
    /\ UNCHANGED <<cur, ofs_next, buffer, nodes, synced, wr, acked, power,
                   writes, cuts>>

SaveCrc ==
    /\ Doing("mark") /\ Next1
    /\ flash' = [flash EXCEPT ![cur] = MarkedFull(@)]
    /\ UNCHANGED <<ram, wr, acked, power, writes, cuts>>

WriteBuffer ==
    /\ Doing("buffer") /\ Next1
    /\ LET m == UpdateBuffer([buffer |-> buffer, nodes |-> nodes],
                             wr.start, wr.data)
       IN  buffer' = m.buffer /\ nodes' = m.nodes
    /\ UNCHANGED <<flash, cur, ofs, ofs_next, synced, wr, acked, power,
                   writes, cuts>>

(* One node of sync_to_next_block; update_next_block gives up on a node    *)
(* that would run past the end.                                            *)
SyncedNode == LET n == nodes[synced + 1]
              IN  Node(n.start, [i \in 1 .. n.len |-> buffer[n.start + i - 1]])

SyncNode ==
    /\ Doing("sync") /\ synced < Len(nodes)
    /\ synced' = synced + 1
    /\ IF ofs_next + Extra - Mark + Len(SyncedNode.data) > NorSize
       THEN UNCHANGED <<flash, ofs_next>>
       ELSE /\ flash' = [flash EXCEPT ![Other(cur)] =
                            Programmed(@, ofs_next, SyncedNode)]
            /\ ofs_next' = ofs_next + Extra + Len(SyncedNode.data)
    /\ UNCHANGED <<cur, ofs, buffer, nodes, todo, wr, acked, power, writes,
                   cuts>>

\* Mutant: the loop waits for one node more than the list has.
SyncDone_OffByOne ==
    /\ Doing("sync") /\ synced = Len(nodes) + 1 /\ Next1
    /\ synced' = 0
    /\ UNCHANGED <<flash, cur, ofs, ofs_next, buffer, nodes, wr, acked, power,
                   writes, cuts>>

SyncDone ==
    /\ Doing("sync") /\ synced = Len(nodes) /\ Next1
    /\ synced' = 0
    /\ UNCHANGED <<flash, cur, ofs, ofs_next, buffer, nodes, wr, acked, power,
                   writes, cuts>>

\* Mutant: the offset is not reset.
EraseBlock_KeepOfs ==
    /\ Doing("erase") /\ Next1
    /\ flash' = [flash EXCEPT ![cur] = Blank]
    /\ UNCHANGED <<ram, wr, acked, power, writes, cuts>>

EraseBlock ==
    /\ Doing("erase") /\ Next1
    /\ flash' = [flash EXCEPT ![cur] = Blank]
    /\ ofs' = 0
    /\ UNCHANGED <<cur, ofs_next, buffer, nodes, synced, wr, acked, power,
                   writes, cuts>>

EraseNextBlock ==
    /\ Doing("erase_next") /\ Next1
    /\ flash' = [flash EXCEPT ![Other(cur)] = Blank]
    /\ ofs_next' = 0
    /\ UNCHANGED <<cur, ofs, buffer, nodes, synced, wr, acked, power, writes,
                   cuts>>

SwitchBlock ==
    /\ Doing("switch") /\ Next1
    /\ cur' = Other(cur)
    /\ ofs' = ofs_next /\ ofs_next' = ofs
    /\ UNCHANGED <<flash, buffer, nodes, synced, wr, acked, power, writes,
                   cuts>>

(* The call returns, or the boot ends: from now on readers see the array,  *)
(* and a write that was in flight is decided.                              *)
Finish ==
    /\ Doing("done") /\ Next1
    /\ acked' = buffer /\ wr' = NoWrite
    /\ UNCHANGED <<flash, ram, power, writes, cuts>>

-----------------------------------------------------------------------------
(* The power fails: before the operation at the head of todo, or inside it.*)
CutDuring(op) ==
    CASE op = "node" /\ op \in Torn ->
           {[flash EXCEPT ![cur] = Garbled(@, ofs)]}
      [] op = "sync" /\ op \in Torn /\ synced < Len(nodes) ->
           {[flash EXCEPT ![Other(cur)] = Garbled(@, ofs_next)]}
      [] op = "mark" /\ op \in Torn ->
           {[flash EXCEPT ![cur] = MarkedPart(@)]}
      [] op = "erase" ->
           {[flash EXCEPT ![cur] = b] : b \in HalfErased(flash[cur])}
      [] op = "erase_next" ->
           {[flash EXCEPT ![Other(cur)] = b] :
               b \in HalfErased(flash[Other(cur)])}
      [] OTHER -> {}

PowerCut ==
    /\ power = "on" /\ cuts < MaxCuts
    /\ cuts' = cuts + 1
    /\ power' = "off"
    /\ flash' \in {flash} \cup
                  (IF todo = <<>> THEN {} ELSE CutDuring(Head(todo)))
    /\ wr' = IF wr = NoWrite THEN wr ELSE [wr EXCEPT !.cut = TRUE]
    /\ cur' = 0 /\ ofs' = 0 /\ ofs_next' = 0 /\ synced' = 0
    /\ buffer' = Zero /\ nodes' = <<>> /\ todo' = <<>>
    /\ UNCHANGED <<acked, writes>>

Step == \/ UpdateBlock \/ SaveCrc \/ WriteBuffer \/ SyncNode \/ SyncDone
        \/ EraseBlock \/ EraseNextBlock \/ SwitchBlock \/ Finish

Next == \/ Boot \/ Step \/ PowerCut
        \/ \E rq \in Requests : Write(rq[1], rq[2])

Spec == Init /\ [][Next]_vars

(* The driver's code runs on to its end; callers and the power supply are  *)
(* free.                                                                   *)
FairSpec == Spec /\ WF_vars(Boot) /\ WF_vars(Step)

-----------------------------------------------------------------------------
(* Properties.                                                             *)

Ops == {"mark", "node", "buffer", "sync", "erase", "erase_next", "switch",
        "done"}
Arrays == [Cells -> 0 .. MaxWrites]
Datas == UNION {[1 .. n -> 0 .. MaxWrites] : n \in Nat}
Halves == [nodes : Seq([start : Nat, data : Seq(0 .. MaxWrites)]),
           junk : {"no", "tail", "body"},
           mark : [kind : {"none", "part", "full", "bad"}, n : Nat]]

(* Every variable keeps its type.                                          *)
TypeOK ==
    /\ flash \in [0 .. 1 -> Halves]
    /\ cur \in 0 .. 1 /\ ofs \in 0 .. NorSize /\ ofs_next \in 0 .. NorSize
    /\ buffer \in Arrays /\ acked \in Arrays
    /\ nodes \in Seq([start : Cells, len : 1 .. BufSize])
    /\ todo \in Seq(Ops) /\ synced \in 0 .. Len(nodes)
    /\ wr \in [start : Nat, data : Seq(0 .. MaxWrites), cut : BOOLEAN]
    /\ power \in {"off", "on", "dead"}
    /\ writes \in 0 .. MaxWrites /\ cuts \in 0 .. MaxCuts

(* Two power cuts, wherever they fall and whatever they tear, do not make  *)
(* an assert of prepare_block fail: no boot after them finds two sealed    *)
(* halves, nor a damaged log where the erase of the other half is only to  *)
(* be completed.  A third cut may (see Alive).                             *)
NoAssert == power = "dead" => cuts > 2

(* No assert fails at all.  Three cuts break it; it is proved for the cuts *)
(* CutsAllowed allows.                                                     *)
Alive == power # "dead"

(* Between calls the next half is blank, both offsets are right and the    *)
(* current log has no damage: the next write lands on blank flash, and a   *)
(* compaction needs no erase before it.                                    *)
ReadyIsClean ==
    Ready => /\ flash[Other(cur)] = Blank /\ ofs_next = 0
             /\ flash[cur].junk = "no"
             /\ ofs = Used(flash[cur]) /\ ofs =< NorSize - Mark

(* Between calls a scan of the current half would rebuild exactly the      *)
(* array and the range list the driver has in RAM.                         *)
LogMatchesArray ==
    Ready => Scan(flash[cur]) = [buffer |-> buffer, nodes |-> nodes]

(* The ranges that merge_node keeps never touch, and every cell that does  *)
(* not hold its initial value lies in one: sync_to_next_block copies each  *)
(* written cell exactly once.                                              *)
NodesCover ==
    /\ \A i, j \in DOMAIN nodes : i # j =>
           \/ nodes[i].start + nodes[i].len < nodes[j].start
           \/ nodes[j].start + nodes[j].len < nodes[i].start
    /\ \A a \in Cells : buffer[a] # 0 =>
           \E i \in DOMAIN nodes :
               a \in nodes[i].start .. nodes[i].start + nodes[i].len - 1

(* The array that readers see, and the write in flight.                    *)
Store == INSTANCE AtomicStore
         WITH Cells <- Cells, Fresh <- 0, Idle <- NoWrite,
              store <- acked, pending <- wr

(* A cell may be lost, but it never goes back: what a boot finds in it is  *)
(* its last value, the one a write in flight was to store, or nothing;     *)
(* never the value of an earlier write, from the half that was to be       *)
(* erased or from a prefix of its log.  So after two power cuts; a third,  *)
(* in the branch that starts over, breaks it.                              *)
OnlyNewer ==
    \A a \in Cells :
        acked'[a] \in {acked[a], Store!Applied(acked, wr)[a], 0}
NeverOlder == [][cuts > 2 \/ OnlyNewer]_acked

(* Every write is applied as a whole, or lost as a whole if the power      *)
(* failed while it ran; nothing else changes what readers see.             *)
ImplementsStore == Store!ASpec

(* A boot always ends with the driver ready to serve, if no assert fails.  *)
BootEnds == power = "off" ~> Ready \/ ~Alive

(* A write that was accepted is decided, if no assert fails.               *)
WriteEnds == wr # NoWrite ~> wr = NoWrite \/ ~Alive
=============================================================================
