------------------------ MODULE PersistentMemProofs ------------------------
(* The driver of the persistent memory for every size of the array and of   *)
(* the flash, every set of writes inside the array, and any number of       *)
(* writes and power cuts.                                                   *)
EXTENDS PersistentMem, SequenceTheorems, FiniteSetTheorems,
        WellFoundedInduction, TLAPS

\* The callers stay inside the array, as write(2) on the device makes them
\* unless they seek past its end.
Inside == \A rq \in Requests : rq[1] + rq[2] =< BufSize

\* A power cut tears no node; there is only one; a call is running, and no boot.
Whole == Torn \subseteq {"mark"}
OneCut == MaxCuts =< 1
InFlight == wr # NoWrite /\ ~wr.cut
Settled == todo = <<>> \/ InFlight

\* The power cuts that the driver stands.  It repairs what a torn node leaves in
\* its log at the next boot, and has no way to go on from a repair that power
\* failed in; a torn node of a copy it takes for the end of the log, unless the
\* seal of the other half holds.
CutAllowed == Whole \/ OneCut \/ (Settled /\ "sync" \notin Torn)
CutsAllowed == [][PowerCut => CutAllowed]_vars

-----------------------------------------------------------------------------
(* The array and the list of its ranges, under any power cuts.             *)

Values == 0 .. MaxWrites
Ranges == {p \in [start : Cells, len : 1 .. BufSize] : p.start + p.len =< BufSize}
Records == [start : Nat, data : {d \in Seq(Values) : d # <<>>}]

Apart(p, q) == p.start + p.len < q.start \/ q.start + q.len < p.start
Cell(p) == p.start .. p.start + p.len - 1
ListOK(l) == l \in Seq(Ranges) /\ \A i, j \in DOMAIN l : i # j => Apart(l[i], l[j])
Covered(l) == {a \in Cells : \E i \in DOMAIN l : a \in Cell(l[i])}

\* What the RAM may hold: ranges that do not touch, and no value but in them.
MemOK(m) ==
    /\ m = [buffer |-> m.buffer, nodes |-> m.nodes]
    /\ m.buffer \in Arrays /\ ListOK(m.nodes)
    /\ \A a \in Cells : m.buffer[a] # 0 => a \in Covered(m.nodes)

Logs == [nodes : Seq(Records), junk : {"no", "tail", "body"},
         mark : [kind : {"none", "part", "full", "bad"}, n : Nat]]

Ram == [buffer |-> buffer, nodes |-> nodes]

\* What a call may still have to do.
Full_Buffer == <<"buffer", "sync", "erase", "switch", "done">>
Full_Sync == <<"sync", "erase", "switch", "done">>
Full_Erase == <<"erase", "switch", "done">>
Full_Switch == <<"switch", "done">>
Plain_Buffer == <<"buffer", "done">>
Ending == <<"done">>
Writing == {FullWrite, Full_Buffer, PlainWrite, Plain_Buffer}
Todos == Writing \cup {Full_Sync, Full_Erase, Full_Switch, Compact, KeepCurrent,
                       EraseBoth, Ending, <<>>}

\* The shape of every state, whatever the callers and the power do.
Shape ==
    /\ flash \in [0 .. 1 -> Logs]
    /\ cur \in 0 .. 1 /\ ofs \in Nat /\ ofs_next \in Nat /\ synced \in 0 .. Len(nodes)
    /\ MemOK(Ram) /\ acked \in Arrays
    /\ todo \in Todos
    /\ wr \in [start : Nat, data : Seq(Values), cut : BOOLEAN]
    /\ todo \in Writing => wr.data # <<>>
    /\ power \in {"off", "on", "dead"}
    /\ synced # 0 => todo = Full_Sync
    /\ power = "off" => todo = <<>>
    /\ writes \in 0 .. MaxWrites /\ cuts \in 0 .. MaxCuts

\* The first n nodes of the copy of a memory.
CopiedNode(m, p) == Node(p.start, [k \in 1 .. p.len |-> m.buffer[p.start + k - 1]])
CopyOf(m, n) == [i \in 1 .. n |-> CopiedNode(m, m.nodes[i])]

-----------------------------------------------------------------------------
(* What a power cut may leave, and what the steps of a call keep.          *)

InsideNode(n) == n.start + Len(n.data) =< BufSize

\* A log a boot can read: it leaves the mark free, its nodes are in the array,
\* and it was not sealed empty.
Good(b) == /\ Used(b) + Mark =< NorSize
           /\ \A i \in DOMAIN b.nodes : InsideNode(b.nodes[i])
           /\ Marked(b) => b.nodes # <<>>

\* What readers may find: in each cell what it held, what the write in flight
\* stores, or nothing; and with one cut only, all of one of the first two.
MayRead(buf) ==
    /\ buf \in Arrays
    /\ \A a \in Cells : buf[a] \in {acked[a], Store!Applied(acked, wr)[a], 0}
    /\ OneCut => buf \in {acked, Store!Applied(acked, wr)}

Serves(b) == Good(b) /\ MayRead(Scan(b).buffer)

\* The three ways power can fail: with one half in use; with a sealed half
\* being copied, or what its copy left being erased; with the copy complete,
\* or taken to be, and the other half not yet erased.
Lone(h) == /\ flash[Other(h)] = Blank /\ Serves(flash[h])
           /\ flash[h].junk = "no" \/ (flash[h].junk = "tail" /\ ~Whole)
Sealing(h) == /\ ~Marked(flash[Other(h)]) /\ Serves(flash[h])
              /\ flash[h].junk = "no" /\ Sealed(flash[h])
Stale(b) == \/ Marked(b) /\ ~Sealed(b)
            \/ HeadBlank(b) /\ ~Marked(b)
Keeping(h) == /\ Stale(flash[Other(h)]) /\ Serves(flash[h])
              /\ flash[h].junk = "no" /\ ~Marked(flash[h])
              /\ flash[h].nodes # <<>>

Off == /\ \E h \in 0 .. 1 : Lone(h) \/ Sealing(h) \/ Keeping(h)
       /\ cuts = 0 => \A h \in 0 .. 1 : flash[h] = Blank
       /\ wr = NoWrite \/ wr.cut
       /\ nodes = <<>>

\* The call has its array, and only has to make it last.
Decided == /\ MayRead(buffer)
           /\ InFlight => buffer = Store!Applied(acked, wr)

\* The call has not touched the array.
Asked == InFlight /\ InsideNode(wr) /\ buffer = acked

\* The half b can be appended to.
Open(b) == Good(b) /\ b.junk = "no"

\* The half in use is the only one.
InUse == /\ Open(flash[cur]) /\ flash[Other(cur)] = Blank
         /\ ofs = Used(flash[cur]) /\ ofs_next = 0 /\ synced = 0
         /\ cuts = 0 => ~Marked(flash[cur])

\* The half in use is to be copied.
Source == /\ Serves(flash[cur])
          /\ (flash[cur].junk = "no" /\ Marked(flash[cur]) /\ nodes # <<>>)
             \/ (~Whole /\ ~InFlight /\ cuts > 0)
          /\ cuts = 0 => Sealed(flash[cur])

\* The copy has got to its node n, and no further.
Copy(n) == CopyOf(Ram, n)
Target == flash[Other(cur)]
CopyIs(n) == /\ Target = [nodes |-> Copy(n), junk |-> "no", mark |-> Unmarked]
             /\ ofs_next = Used(Target)

\* What holds at each stage of a call.
AtReady == todo = <<>> /\ InUse /\ Scan(flash[cur]) = Ram /\ wr = NoWrite /\ buffer = acked
AtEnding == todo = Ending /\ InUse /\ Scan(flash[cur]) = Ram /\ Decided
AtPlainWrite == /\ todo = PlainWrite
                /\ InUse /\ Scan(flash[cur]) = Ram /\ Asked /\ Len(wr.data) =< free_size
AtPlainBuffer == /\ todo = Plain_Buffer
                 /\ InUse /\ Asked
                 /\ Scan(flash[cur]) = UpdateBuffer(Ram, wr.start, wr.data)
AtFullWrite == /\ todo = FullWrite
               /\ InUse /\ Scan(flash[cur]) = Ram /\ Asked /\ flash[cur].nodes # <<>>
AtFullBuffer == /\ todo = Full_Buffer
                /\ Open(flash[cur]) /\ Marked(flash[cur]) /\ (cuts = 0 => Sealed(flash[cur]))
                /\ Scan(flash[cur]) = Ram /\ Asked
                /\ Target = Blank /\ ofs_next = 0 /\ synced = 0
AtSync == todo = Full_Sync /\ Source /\ CopyIs(synced) /\ Decided
AtErase == todo = Full_Erase /\ Source /\ CopyIs(Len(nodes)) /\ Decided /\ synced = 0
AtSwitch == /\ todo = Full_Switch
            /\ flash[cur] = Blank /\ ofs = 0 /\ CopyIs(Len(nodes)) /\ Decided /\ synced = 0
AtCompact == /\ todo = Compact
             /\ Source /\ Scan(flash[cur]) = Ram /\ Decided /\ synced = 0
             /\ Target = Blank \/ (Sealed(flash[cur]) /\ ~Marked(Target))
             /\ cuts > 0
AtKeep == /\ todo = KeepCurrent
          /\ Keeping(cur) /\ Scan(flash[cur]) = Ram /\ ofs = Used(flash[cur])
          /\ Decided /\ synced = 0 /\ cuts > 0

Stages == \/ AtReady \/ AtEnding \/ AtPlainWrite \/ AtPlainBuffer \/ AtFullWrite \/ AtFullBuffer
          \/ AtSync \/ AtErase \/ AtSwitch \/ AtCompact \/ AtKeep

IInv == /\ Shape
        /\ ofs \in 0 .. NorSize /\ ofs_next \in 0 .. NorSize
        /\ power = "off" => Off
        /\ power = "on" => Stages
        /\ power # "dead"
-----------------------------------------------------------------------------
(* Counting up to a number, and what a fold returns.                       *)

\* What holds at 0 and goes on to the next number holds up to n.
LEMMA CountUp ==
  ASSUME NEW n \in Nat, NEW T, 0 \in T,
         \A i \in 0 .. n : i \in T /\ i < n => i + 1 \in T
  PROVE  \A i \in 0 .. n : i \in T
  <1> DEFINE M == {i \in 0 .. n : i \notin T}
  <1> SUFFICES ASSUME M # {} PROVE FALSE
    OBVIOUS
  <1>1. M \in SUBSET Nat
    OBVIOUS
  <1>2. PICK m \in M : \A x \in M : <<x, m>> \notin OpToRel(<, Nat)
    BY <1>1, WFMin, NatLessThanWellFounded
  <1>3. \A x \in M : ~ (x < m)
    BY <1>1, <1>2 DEF OpToRel
  <1>4. m - 1 \in 0 .. n /\ m - 1 \notin M
    BY <1>3
  <1> QED BY <1>4

\* f goes from base by the n steps of g, inside S.
IsFold(f, n, S, base, g) ==
  f \in [0 .. n -> S] /\ f[0] = base /\ \A i \in 1 .. n : f[i] = g[<<i, f[i - 1]>>]

\* There is such a function.
LEMMA FoldExists ==
  ASSUME NEW n \in Nat, NEW S, NEW base \in S, NEW g \in [(1 .. n) \X S -> S]
  PROVE  \E f : IsFold(f, n, S, base, g)
  <1> DEFINE D == 0 .. n
             T == {m \in D : \E f \in [D -> S] :
                      f[0] = base /\ \A i \in 1 .. m : f[i] = g[<<i, f[i - 1]>>]}
  <1>1. 0 \in T
    <2> DEFINE f == [i \in D |-> base]
    <2>1. f \in [D -> S] /\ f[0] = base /\ \A i \in 1 .. 0 : f[i] = g[<<i, f[i - 1]>>]
      OBVIOUS
    <2> HIDE DEF f
    <2> QED BY <2>1
  <1>2. ASSUME NEW m \in D, m \in T, m < n PROVE m + 1 \in T
    <2>1. PICK f \in [D -> S] :
             f[0] = base /\ \A i \in 1 .. m : f[i] = g[<<i, f[i - 1]>>]
      BY <1>2
    <2> DEFINE x == g[<<m + 1, f[m]>>]
               h == [i \in D |-> IF i = m + 1 THEN x ELSE f[i]]
    <2>2. x \in S
      <3>1. f[m] \in S /\ m + 1 \in 1 .. n
        BY <1>2
      <3> QED BY <3>1
    <2>3. h \in [D -> S] /\ h[0] = base
      BY <1>2, <2>1, <2>2
    <2>4. ASSUME NEW i \in 1 .. m + 1 PROVE h[i] = g[<<i, h[i - 1]>>]
      <3>1. i \in D /\ i - 1 \in D /\ i - 1 # m + 1
        BY <1>2
      <3>2. CASE i = m + 1
        <4>1. h[i] = x /\ h[i - 1] = f[m]
          BY <3>1, <3>2
        <4> QED BY <4>1, <3>2
      <3>3. CASE i \in 1 .. m
        BY <2>1, <3>1, <3>3
      <3> QED BY <3>2, <3>3, <1>2
    <2>5. m + 1 \in D
      BY <1>2
    <2> HIDE DEF h
    <2> QED BY <2>3, <2>4, <2>5
  <1>3. n \in T
    <2> HIDE DEF T
    <2> QED BY <1>1, <1>2, CountUp
  <1> QED BY <1>3 DEF IsFold

-----------------------------------------------------------------------------
(* The space a log takes.                                                  *)

\* The sizes are numbers.
LEMMA Sizes ==
  /\ BufSize \in Nat /\ NorSize \in Nat /\ StartMod \in Nat /\ Extra \in Nat /\ Mark \in Nat
  /\ MaxWrites \in Nat /\ MaxCuts \in Nat
  /\ BufSize > 0 /\ Extra > 0 /\ Mark > 0 /\ BufSize =< StartMod
  BY SizesAssumption

\* Each node takes its data, its header and its CRC.
LEMMA UsedFold ==
  ASSUME NEW ns \in Seq(Records)
  PROVE  \E u \in [0 .. Len(ns) -> Nat] :
            /\ UsedBy(ns) = u[Len(ns)] /\ u[0] = 0
            /\ \A i \in 1 .. Len(ns) : u[i] = u[i - 1] + Len(ns[i].data) + Extra
  <1> DEFINE n == Len(ns)
             g == [x \in (1 .. n) \X Nat |-> x[2] + Len(ns[x[1]].data) + Extra]
             B(f, i) == IF i = 0 THEN 0 ELSE f[i - 1] + Len(ns[i].data) + Extra
             F == CHOOSE f : f = [i \in 0 .. n |-> B(f, i)]
  <1>1. n \in Nat /\ \A i \in 1 .. n : Len(ns[i].data) \in Nat
    <2>1. \A i \in 1 .. n : ns[i] \in Records
      OBVIOUS
    <2> QED BY <2>1, LenProperties DEF Records
  <1>2. g \in [(1 .. n) \X Nat -> Nat]
    BY <1>1, Sizes
  <1>3. PICK f : IsFold(f, n, Nat, 0, g)
    <2> HIDE DEF g, n
    <2> QED BY <1>1, <1>2, FoldExists
  <1>f. f \in [0 .. n -> Nat] /\ f[0] = 0 /\ \A i \in 1 .. n : f[i] = g[<<i, f[i - 1]>>]
    BY <1>3 DEF IsFold
  <1>4. f = [i \in 0 .. n |-> B(f, i)]
    <2>1. ASSUME NEW i \in 1 .. n
          PROVE  g[<<i, f[i - 1]>>] = f[i - 1] + Len(ns[i].data) + Extra
      <3>1. i - 1 \in 0 .. n /\ f[i - 1] \in Nat
        BY <1>1, <1>f
      <3>2. <<i, f[i - 1]>> \in (1 .. n) \X Nat
        BY <3>1
      <3> QED BY <3>2
    <2>2. ASSUME NEW i \in 0 .. n PROVE f[i] = B(f, i)
      <3> HIDE DEF g
      <3>1. CASE i = 0
        BY <1>f, <3>1
      <3>2. CASE i \in 1 .. n
        BY <1>1, <1>f, <2>1, <3>2
      <3> QED BY <1>1, <3>1, <3>2
    <2> HIDE DEF B, n
    <2> QED BY <1>f, <2>2
  <1>5. F = [i \in 0 .. n |-> B(F, i)] /\ UsedBy(ns) = F[n]
    <2>1. UsedBy(ns) = F[n]
      BY DEF UsedBy
    <2> HIDE DEF B, n
    <2> QED BY <1>4, <2>1
  <1>6. \A i \in 0 .. n : F[i] = f[i]
    <2> DEFINE T == {i \in 0 .. n : F[i] = f[i]}
    <2> HIDE DEF F, n
    <2>1. 0 \in T
      BY <1>1, <1>4, <1>5
    <2>2. ASSUME NEW i \in 0 .. n, i \in T, i < n PROVE i + 1 \in T
      <3>1. i + 1 \in 0 .. n /\ i + 1 # 0 /\ (i + 1) - 1 = i
        BY <1>1, <2>2
      <3>2. F[i + 1] = B(F, i + 1) /\ f[i + 1] = B(f, i + 1)
        <4> HIDE DEF B
        <4> QED BY <1>4, <1>5, <3>1
      <3> QED BY <2>2, <3>1, <3>2
    <2> HIDE DEF T
    <2>3. \A i \in 0 .. n : i \in T
      BY <1>1, <2>1, <2>2, CountUp
    <2> QED BY <2>3 DEF T
  <1>7. \A i \in 0 .. n : f[i] = B(f, i)
    <2> HIDE DEF B, n
    <2> QED BY <1>4
  <1>8. UsedBy(ns) = f[n] /\ f[0] = 0
    <2> HIDE DEF F
    <2> QED BY <1>1, <1>5, <1>6, <1>7
  <1>9. \A i \in 1 .. n : f[i] = f[i - 1] + Len(ns[i].data) + Extra
    BY <1>1, <1>7
  <1> QED BY <1>f, <1>8, <1>9

\* An empty log takes nothing, a longer one what its last node adds.
LEMMA UsedAppend ==
  /\ UsedBy(<<>>) = 0
  /\ \A ns \in Seq(Records) : UsedBy(ns) \in Nat
  /\ \A ns \in Seq(Records), n \in Records :
        UsedBy(Append(ns, n)) = UsedBy(ns) + Len(n.data) + Extra
  <1>1. UsedBy(<<>>) = 0
    <2>1. <<>> \in Seq(Records) /\ Len(<<>>) = 0
      OBVIOUS
    <2> QED BY <2>1, UsedFold
  <1>2. \A ns \in Seq(Records) : UsedBy(ns) \in Nat
    <2> TAKE ns \in Seq(Records)
    <2>1. Len(ns) \in 0 .. Len(ns)
      BY LenProperties
    <2> QED BY <2>1, UsedFold
  <1>3. ASSUME NEW ns \in Seq(Records), NEW n \in Records
        PROVE  UsedBy(Append(ns, n)) = UsedBy(ns) + Len(n.data) + Extra
    <2> DEFINE k == Len(ns)
               ms == Append(ns, n)
    <2>1. /\ ms \in Seq(Records) /\ Len(ms) = k + 1 /\ k \in Nat
          /\ \A i \in 1 .. k : ms[i] = ns[i]
          /\ ms[k + 1] = n
      BY AppendProperties, LenProperties
    <2>2. PICK u \in [0 .. k -> Nat] :
            /\ UsedBy(ns) = u[k] /\ u[0] = 0
            /\ \A i \in 1 .. k : u[i] = u[i - 1] + Len(ns[i].data) + Extra
      BY UsedFold
    <2>3. PICK v \in [0 .. k + 1 -> Nat] :
            /\ UsedBy(ms) = v[k + 1] /\ v[0] = 0
            /\ \A i \in 1 .. k + 1 : v[i] = v[i - 1] + Len(ms[i].data) + Extra
      <3> HIDE DEF ms
      <3> QED BY <2>1, UsedFold
    <2> DEFINE T == {i \in 0 .. k : u[i] = v[i]}
    <2>4. k \in T
      <3> HIDE DEF ms, k
      <3>1. 0 \in T
        BY <2>1, <2>2, <2>3
      <3>2. ASSUME NEW i \in 0 .. k, i \in T, i < k PROVE i + 1 \in T
        <4>1. /\ i + 1 \in 0 .. k /\ (i + 1) - 1 = i
              /\ i + 1 \in 1 .. k /\ i + 1 \in 1 .. k + 1
          BY <2>1, <3>2
        <4>2. u[i + 1] = u[i] + Len(ns[i + 1].data) + Extra
          BY <2>2, <4>1
        <4>3. v[i + 1] = v[i] + Len(ms[i + 1].data) + Extra
          BY <2>3, <4>1
        <4> QED BY <2>1, <3>2, <4>1, <4>2, <4>3
      <3>3. k \in Nat
        BY <2>1
      <3>4. \A i \in 0 .. k : i \in T
        <4> HIDE DEF T
        <4> QED BY <3>1, <3>2, <3>3, CountUp
      <3> QED BY <3>3, <3>4
    <2>5. k + 1 \in 1 .. k + 1 /\ (k + 1) - 1 = k
      BY <2>1
    <2> HIDE DEF ms, k
    <2>6. v[k + 1] = v[k] + Len(ms[k + 1].data) + Extra
      BY <2>3, <2>5
    <2> QED BY <2>1, <2>2, <2>3, <2>4, <2>6 DEF ms
  <1> QED BY <1>1, <1>2, <1>3
-----------------------------------------------------------------------------
(* What merge_node makes of the list.                                      *)

\* Two ranges that touch have a range for their union, and what is apart from
\* both is apart from it.
LEMMA UnionOfTwo ==
  ASSUME NEW p \in Ranges, NEW q \in Ranges, Touch(p, q)
  PROVE  /\ Union2(p, q) \in Ranges
         /\ \A a \in Cell(p) \cup Cell(q) : a \in Cell(Union2(p, q))
         /\ \A r \in Ranges : Apart(r, p) /\ Apart(r, q) => Apart(r, Union2(p, q))
  <1> DEFINE lo == IF p.start < q.start THEN p.start ELSE q.start
             hi == IF p.start + p.len > q.start + q.len
                   THEN p.start + p.len ELSE q.start + q.len
             u == Union2(p, q)
  <1>1. /\ p.start \in Nat /\ p.len \in Nat /\ p.len > 0 /\ p.start + p.len =< BufSize
        /\ q.start \in Nat /\ q.len \in Nat /\ q.len > 0 /\ q.start + q.len =< BufSize
    BY Sizes DEF Ranges, Cells
  <1>2. p.start =< q.start + q.len /\ q.start =< p.start + p.len
    BY <1>1 DEF Touch
  <1>3. /\ lo \in Nat /\ hi \in Nat /\ lo < hi /\ hi =< BufSize
        /\ lo =< p.start /\ lo =< q.start /\ p.start + p.len =< hi /\ q.start + q.len =< hi
    BY <1>1, <1>2
  <1>4. u = [start |-> lo, len |-> hi - lo]
    BY DEF Union2
  <1>5. u \in Ranges
    <2> HIDE DEF lo, hi
    <2>1. lo \in Cells /\ hi - lo \in 1 .. BufSize /\ lo + (hi - lo) =< BufSize
      BY <1>3, Sizes DEF Cells
    <2> QED BY <1>4, <2>1 DEF Ranges
  <1>6. \A a \in Cell(p) \cup Cell(q) : a \in Cell(u)
    <2>1. u.start = lo /\ u.len = hi - lo /\ lo + (hi - lo) = hi
      <3> HIDE DEF lo, hi, u
      <3> QED BY <1>3, <1>4
    <2>2. Cell(u) = lo .. hi - 1
      <3> HIDE DEF lo, hi, u
      <3> QED BY <1>3, <2>1 DEF Cell
    <2>3. \A a \in Cell(p) \cup Cell(q) : a \in lo .. hi - 1
      <3> HIDE DEF lo, hi, u
      <3> QED BY <1>1, <1>3 DEF Cell
    <2> HIDE DEF lo, hi, u
    <2> QED BY <2>2, <2>3
  <1>7. ASSUME NEW r \in Ranges, Apart(r, p), Apart(r, q) PROVE Apart(r, u)
    <2>1. r.start \in Nat /\ r.len \in Nat /\ r.len > 0
      BY Sizes DEF Ranges, Cells
    <2>2. u.start = lo /\ u.start + u.len = hi
      <3> HIDE DEF lo, hi, u
      <3> QED BY <1>3, <1>4
    <2>3. r.start + r.len < lo \/ hi < r.start
      BY <1>1, <1>2, <1>7, <2>1 DEF Apart
    <2> HIDE DEF lo, hi, u
    <2> QED BY <2>2, <2>3 DEF Apart
  <1> QED BY <1>5, <1>6, <1>7

\* Ranges that do not touch are apart, in either order.
LEMMA TouchOrApart ==
  ASSUME NEW p \in Ranges, NEW q \in Ranges
  PROVE  /\ Touch(p, q) <=> ~Apart(p, q)
         /\ Apart(p, q) <=> Apart(q, p)
  <1>1. /\ p.start \in Nat /\ p.len \in Nat /\ q.start \in Nat /\ q.len \in Nat
    BY Sizes DEF Ranges, Cells
  <1> QED BY <1>1 DEF Touch, Apart

\* One step of the pass: the range joins the new one, or is kept.
Visited(s, p) == IF Touch(p, s.info) THEN [s EXCEPT !.info = Union2(p, s.info)]
                 ELSE [s EXCEPT !.list = Append(@, p)]
Passes == [info : Ranges, list : Seq(Ranges)]

\* A pass stays one of a range and a list; a range that touches joins the first,
\* another goes on the list.
LEMMA VisitedType ==
  ASSUME NEW s \in Passes, NEW p \in Ranges
  PROVE  /\ Visited(s, p) \in Passes
         /\ Touch(p, s.info) => /\ Visited(s, p).info = Union2(p, s.info)
                                /\ Visited(s, p).list = s.list
         /\ ~Touch(p, s.info) => /\ Visited(s, p).info = s.info
                                 /\ Visited(s, p).list = Append(s.list, p)
  <1>1. s = [info |-> s.info, list |-> s.list] /\ s.info \in Ranges /\ s.list \in Seq(Ranges)
    BY DEF Passes
  <1>2. CASE Touch(p, s.info)
    <2>1. Union2(p, s.info) \in Ranges
      BY <1>1, <1>2, UnionOfTwo
    <2>2. Visited(s, p) = [info |-> Union2(p, s.info), list |-> s.list]
      BY <1>1, <1>2 DEF Visited
    <2> QED BY <1>1, <1>2, <2>1, <2>2 DEF Passes
  <1>3. CASE ~Touch(p, s.info)
    <2>1. Append(s.list, p) \in Seq(Ranges)
      BY <1>1
    <2>2. Visited(s, p) = [info |-> s.info, list |-> Append(s.list, p)]
      BY <1>1, <1>3 DEF Visited
    <2> QED BY <1>1, <1>3, <2>1, <2>2 DEF Passes
  <1> QED BY <1>2, <1>3

\* The states of the pass.
LEMMA MergeFold ==
  ASSUME NEW list \in Seq(Ranges), NEW info \in Ranges
  PROVE  \E s \in [0 .. Len(list) -> Passes] :
            /\ MergeNode(list, info) = Append(s[Len(list)].list, s[Len(list)].info)
            /\ s[0] = [info |-> info, list |-> <<>>]
            /\ \A i \in 1 .. Len(list) : s[i] = Visited(s[i - 1], list[i])
  <1> DEFINE n == Len(list)
             base == [info |-> info, list |-> <<>>]
             g == [x \in (1 .. n) \X Passes |-> Visited(x[2], list[x[1]])]
             B(f, i) == IF i = 0 THEN base ELSE Visited(f[i - 1], list[i])
             F == CHOOSE f : f = [i \in 0 .. n |-> B(f, i)]
  <1>1. n \in Nat /\ (\A i \in 1 .. n : list[i] \in Ranges) /\ base \in Passes
    BY DEF Passes
  <1>2. g \in [(1 .. n) \X Passes -> Passes]
    <2>1. \A x \in (1 .. n) \X Passes : Visited(x[2], list[x[1]]) \in Passes
      <3> HIDE DEF n
      <3> QED BY <1>1, VisitedType
    <2> HIDE DEF n
    <2> QED BY <2>1
  <1>3. PICK f : IsFold(f, n, Passes, base, g)
    <2> HIDE DEF g, n, base
    <2> QED BY <1>1, <1>2, FoldExists
  <1>f. f \in [0 .. n -> Passes] /\ f[0] = base /\ \A i \in 1 .. n : f[i] = g[<<i, f[i - 1]>>]
    BY <1>3 DEF IsFold
  <1>4. \A i \in 1 .. n : f[i] = Visited(f[i - 1], list[i])
    <2> TAKE i \in 1 .. n
    <2>1. i - 1 \in 0 .. n /\ f[i - 1] \in Passes
      BY <1>1, <1>f
    <2>2. <<i, f[i - 1]>> \in (1 .. n) \X Passes
      BY <2>1
    <2> QED BY <1>f, <2>2
  <1>5. f = [i \in 0 .. n |-> B(f, i)]
    <2>1. \A i \in 0 .. n : f[i] = B(f, i)
      <3> HIDE DEF base
      <3> QED BY <1>1, <1>f, <1>4
    <2> HIDE DEF B, n
    <2> QED BY <1>f, <2>1
  <1>6. F = [i \in 0 .. n |-> B(F, i)] /\ MergeNode(list, info) = Append(F[n].list, F[n].info)
    <2>1. MergeNode(list, info) = Append(F[n].list, F[n].info)
      BY DEF MergeNode, Visited
    <2> HIDE DEF B, n
    <2> QED BY <1>5, <2>1
  <1>7. \A i \in 0 .. n : F[i] = f[i]
    <2> DEFINE T == {i \in 0 .. n : F[i] = f[i]}
    <2> HIDE DEF F, n
    <2>1. 0 \in T
      BY <1>1, <1>5, <1>6
    <2>2. ASSUME NEW i \in 0 .. n, i \in T, i < n PROVE i + 1 \in T
      <3>1. i + 1 \in 0 .. n /\ i + 1 # 0 /\ (i + 1) - 1 = i
        BY <1>1, <2>2
      <3>2. F[i + 1] = B(F, i + 1) /\ f[i + 1] = B(f, i + 1)
        <4> HIDE DEF B
        <4> QED BY <1>5, <1>6, <3>1
      <3> QED BY <2>2, <3>1, <3>2
    <2> HIDE DEF T
    <2>3. \A i \in 0 .. n : i \in T
      BY <1>1, <2>1, <2>2, CountUp
    <2> QED BY <2>3 DEF T
  <1>8. MergeNode(list, info) = Append(f[n].list, f[n].info)
    <2>1. n \in 0 .. n
      BY <1>1
    <2> HIDE DEF F, n
    <2> QED BY <1>6, <1>7, <2>1
  <1> QED BY <1>f, <1>4, <1>8

\* After i ranges: what is kept is apart from the new one and from each other,
\* no cell is lost, and if the new one touched none nothing has changed.
Passed(list, info, i, s) ==
  /\ s \in Passes /\ ListOK(s.list)
  /\ \A k \in 1 .. Len(s.list) : /\ Apart(s.list[k], s.info)
                                 /\ \E j \in 1 .. i : s.list[k] = list[j]
  /\ \A a \in Cell(info) : a \in Cell(s.info)
  /\ \A j \in 1 .. i : \A a \in Cell(list[j]) :
        a \in Cell(s.info) \/ \E k \in 1 .. Len(s.list) : a \in Cell(s.list[k])
  /\ (\A j \in 1 .. i : Apart(list[j], info)) =>
        s.info = info /\ s.list = SubSeq(list, 1, i)

\* A list grows by a range that is apart from all of it.
LEMMA ListGrows ==
  ASSUME NEW l, ListOK(l), NEW p \in Ranges, \A k \in 1 .. Len(l) : Apart(l[k], p)
  PROVE  ListOK(Append(l, p))
  <1> DEFINE m == Append(l, p)
             n == Len(l)
  <1>1. /\ l \in Seq(Ranges) /\ n \in Nat /\ DOMAIN l = 1 .. n
        /\ m \in Seq(Ranges) /\ DOMAIN m = 1 .. n + 1
        /\ (\A k \in 1 .. n : m[k] = l[k]) /\ m[n + 1] = p
    BY AppendProperties, LenProperties DEF ListOK
  <1>2. \A k \in 1 .. n : l[k] \in Ranges
    BY <1>1
  <1>3. ASSUME NEW i \in 1 .. n + 1, NEW j \in 1 .. n + 1, i # j PROVE Apart(m[i], m[j])
    <2> HIDE DEF m, n
    <2>1. CASE i \in 1 .. n /\ j \in 1 .. n
      BY <1>1, <1>3, <2>1 DEF ListOK
    <2>2. CASE i \in 1 .. n /\ j = n + 1
      BY <1>1, <2>2 DEF n
    <2>3. CASE i = n + 1 /\ j \in 1 .. n
      <3>1. l[j] \in Ranges /\ Apart(l[j], p)
        BY <1>2, <2>3 DEF n
      <3>2. Apart(p, l[j])
        BY <3>1, TouchOrApart
      <3> QED BY <1>1, <2>3, <3>2
    <2> QED BY <1>1, <1>3, <2>1, <2>2, <2>3
  <1> HIDE DEF m, n
  <1>4. ListOK(m)
    BY <1>1, <1>3 DEF ListOK
  <1> QED BY <1>4 DEF m

\* One more range is passed.
LEMMA PassOn ==
  ASSUME NEW list, ListOK(list), NEW info \in Ranges, NEW i \in 1 .. Len(list),
         NEW s, Passed(list, info, i - 1, s)
  PROVE  Passed(list, info, i, Visited(s, list[i]))
  <1> DEFINE p == list[i]
             t == Visited(s, p)
             L == Len(s.list)
  <1>1. /\ list \in Seq(Ranges) /\ DOMAIN list = 1 .. Len(list) /\ p \in Ranges
        /\ \A j \in 1 .. Len(list) : list[j] \in Ranges
        /\ i \in Nat /\ Len(list) \in Nat /\ i - 1 \in Nat
    BY DEF ListOK
  <1>2. /\ s \in Passes /\ ListOK(s.list) /\ s.list \in Seq(Ranges) /\ L \in Nat
        /\ \A k \in 1 .. L : s.list[k] \in Ranges
        /\ s.info \in Ranges
    BY DEF Passed, ListOK, Passes
  <1>3. /\ \A k \in 1 .. L : /\ Apart(s.list[k], s.info)
                             /\ \E j \in 1 .. i - 1 : s.list[k] = list[j]
        /\ \A a \in Cell(info) : a \in Cell(s.info)
        /\ \A j \in 1 .. i - 1 : \A a \in Cell(list[j]) :
              a \in Cell(s.info) \/ \E k \in 1 .. L : a \in Cell(s.list[k])
        /\ (\A j \in 1 .. i - 1 : Apart(list[j], info)) =>
              s.info = info /\ s.list = SubSeq(list, 1, i - 1)
    BY DEF Passed
  <1>4. \A j \in 1 .. i : j \in 1 .. i - 1 \/ j = i
    BY <1>1
  <1>5. \A k \in 1 .. L : Apart(s.list[k], p)
    <2> TAKE k \in 1 .. L
    <2>1. PICK j \in 1 .. i - 1 : s.list[k] = list[j]
      BY <1>3
    <2>2. j \in 1 .. Len(list) /\ j # i
      BY <1>1
    <2> QED BY <1>1, <2>1, <2>2 DEF ListOK
  <1>6. CASE Touch(p, s.info)
    <2>1. t \in Passes /\ t.info = Union2(p, s.info) /\ t.list = s.list
      BY <1>1, <1>2, <1>6, VisitedType
    <2>2. /\ t.info \in Ranges
          /\ \A a \in Cell(p) \cup Cell(s.info) : a \in Cell(t.info)
          /\ \A r \in Ranges : Apart(r, p) /\ Apart(r, s.info) => Apart(r, t.info)
      <3> HIDE DEF p, t
      <3> QED BY <1>1, <1>2, <1>6, <2>1, UnionOfTwo
    <2>3. \A k \in 1 .. L : Apart(s.list[k], t.info)
      <3> HIDE DEF p, t, L
      <3> QED BY <1>2, <1>3, <1>5, <2>2
    <2>4. \A k \in 1 .. L : \E j \in 1 .. i : s.list[k] = list[j]
      BY <1>1, <1>3
    <2>5. \A a \in Cell(info) : a \in Cell(t.info)
      <3> HIDE DEF t
      <3> QED BY <1>3, <2>2
    <2>6. \A j \in 1 .. i : \A a \in Cell(list[j]) :
            a \in Cell(t.info) \/ \E k \in 1 .. L : a \in Cell(s.list[k])
      <3> HIDE DEF t, L
      <3> QED BY <1>3, <1>4, <2>2
    <2>7. ~ \A j \in 1 .. i : Apart(list[j], info)
      <3> SUFFICES ASSUME \A j \in 1 .. i : Apart(list[j], info) PROVE FALSE
        OBVIOUS
      <3>1. i \in 1 .. i /\ \A j \in 1 .. i - 1 : j \in 1 .. i
        BY <1>1
      <3>2. s.info = info /\ Apart(p, info)
        BY <1>3, <3>1
      <3> QED BY <1>1, <1>2, <1>6, <3>2, TouchOrApart
    <2> HIDE DEF t, p
    <2>8. Passed(list, info, i, t)
      BY <1>2, <2>1, <2>3, <2>4, <2>5, <2>6, <2>7 DEF Passed
    <2> QED BY <2>8 DEF t, p
  <1>7. CASE ~Touch(p, s.info)
    <2>1. t \in Passes /\ t.info = s.info /\ t.list = Append(s.list, p)
      BY <1>1, <1>2, <1>7, VisitedType
    <2>2. Apart(p, s.info)
      BY <1>1, <1>2, <1>7, TouchOrApart
    <2>3. /\ Len(t.list) = L + 1 /\ t.list[L + 1] = p
          /\ \A k \in 1 .. L : t.list[k] = s.list[k]
      <3> HIDE DEF p, t
      <3> QED BY <1>1, <1>2, <2>1, AppendProperties
    <2>4. ListOK(t.list)
      <3> HIDE DEF p, t
      <3> QED BY <1>1, <1>2, <1>5, <2>1, ListGrows
    <2>k. \A k \in 1 .. L + 1 : k \in 1 .. L \/ k = L + 1
      BY <1>2
    <2>5. \A k \in 1 .. L + 1 : /\ Apart(t.list[k], t.info)
                               /\ \E j \in 1 .. i : t.list[k] = list[j]
      <3>1. i \in 1 .. i /\ \A j \in 1 .. i - 1 : j \in 1 .. i
        BY <1>1
      <3> HIDE DEF L, t
      <3> QED BY <1>3, <2>1, <2>2, <2>3, <2>k, <3>1 
    <2>6. \A a \in Cell(info) : a \in Cell(t.info)
      <3> HIDE DEF t
      <3> QED BY <1>3, <2>1
    <2>7. ASSUME NEW j \in 1 .. i, NEW a \in Cell(list[j])
          PROVE  a \in Cell(t.info) \/ \E k \in 1 .. L + 1 : a \in Cell(t.list[k])
      <3>1. CASE j = i
        <4>1. a \in Cell(t.list[L + 1]) /\ L + 1 \in 1 .. L + 1
          <5> HIDE DEF t, L
          <5> QED BY <1>2, <2>3, <2>7, <3>1
        <4> QED BY <4>1
      <3>2. CASE j \in 1 .. i - 1
        <4>1. \A k \in 1 .. L : k \in 1 .. L + 1
          BY <1>2
        <4> HIDE DEF t, L
        <4> QED BY <1>3, <2>1, <2>3, <2>7, <3>2, <4>1
      <3> QED BY <1>4, <3>1, <3>2
    <2>8. (\A j \in 1 .. i : Apart(list[j], info)) =>
             t.info = info /\ t.list = SubSeq(list, 1, i)
      <3> SUFFICES ASSUME \A j \in 1 .. i : Apart(list[j], info)
                   PROVE  t.info = info /\ t.list = SubSeq(list, 1, i)
        OBVIOUS
      <3>1. s.info = info /\ s.list = SubSeq(list, 1, i - 1)
        BY <1>1, <1>3
      <3>2. Append(SubSeq(list, 1, i - 1), list[i]) = SubSeq(list, 1, i)
        <4> HIDE DEF t
        <4> QED BY <1>1
      <3> HIDE DEF t
      <3> QED BY <2>1, <3>1, <3>2
    <2> HIDE DEF t, p, L
    <2>9. Passed(list, info, i, t)
      BY <2>1, <2>3, <2>4, <2>5, <2>6, <2>7, <2>8 DEF Passed
    <2> QED BY <2>9 DEF t, p
  <1> QED BY <1>6, <1>7

\* The list that merge_node leaves has ranges that do not touch, the new cells
\* and all it had; and if the new range touches none, it is only appended.
LEMMA MergeKeeps ==
  ASSUME NEW list, ListOK(list), NEW info \in Ranges
  PROVE  /\ ListOK(MergeNode(list, info)) /\ MergeNode(list, info) # <<>>
         /\ \A a \in Cell(info) \cup Covered(list) :
               a \in Cells => a \in Covered(MergeNode(list, info))
         /\ (\A j \in 1 .. Len(list) : Apart(list[j], info)) =>
               MergeNode(list, info) = Append(list, info)
  <1> DEFINE n == Len(list)
             r == MergeNode(list, info)
  <1>1. list \in Seq(Ranges) /\ n \in Nat /\ DOMAIN list = 1 .. n
    BY DEF ListOK
  <1>2. PICK s \in [0 .. n -> Passes] :
            /\ r = Append(s[n].list, s[n].info)
            /\ s[0] = [info |-> info, list |-> <<>>]
            /\ \A i \in 1 .. n : s[i] = Visited(s[i - 1], list[i])
    BY <1>1, MergeFold
  <1>3. Passed(list, info, 0, s[0])
    <2>1. <<>> \in Seq(Ranges) /\ Len(<<>>) = 0 /\ DOMAIN <<>> = 1 .. 0
      OBVIOUS
    <2>2. s[0] \in Passes /\ s[0].info = info /\ s[0].list = <<>>
      BY <1>1, <1>2
    <2>3. ListOK(s[0].list)
      BY <2>1, <2>2 DEF ListOK
    <2>4. SubSeq(list, 1, 0) = <<>>
      BY <1>1
    <2>5. /\ \A k \in 1 .. 0 : /\ Apart(s[0].list[k], s[0].info)
                              /\ \E j \in 1 .. 0 : s[0].list[k] = list[j]
          /\ \A j \in 1 .. 0 : \A a \in Cell(list[j]) :
                a \in Cell(s[0].info) \/ \E k \in 1 .. 0 : a \in Cell(s[0].list[k])
      OBVIOUS
    <2> QED BY <2>1, <2>2, <2>3, <2>4, <2>5 DEF Passed
  <1> DEFINE T == {i \in 0 .. n : Passed(list, info, i, s[i])}
  <1>4. n \in T
    <2>1. 0 \in T
      BY <1>1, <1>3
    <2>2. ASSUME NEW i \in 0 .. n, i \in T, i < n PROVE i + 1 \in T
      <3>1. i + 1 \in 1 .. n /\ (i + 1) - 1 = i /\ i + 1 \in 0 .. n
        BY <1>1, <2>2
      <3> DEFINE j == i + 1
      <3>2. j \in 1 .. Len(list) /\ j - 1 = i /\ Passed(list, info, j - 1, s[j - 1])
        BY <2>2, <3>1
      <3> HIDE DEF j, n
      <3>3. Passed(list, info, j, Visited(s[j - 1], list[j]))
        BY <3>2, PassOn
      <3>4. s[j] = Visited(s[j - 1], list[j])
        BY <1>2, <3>2 DEF n
      <3> QED BY <3>1, <3>3, <3>4 DEF j
    <2>3. \A i \in 0 .. n : i \in T
      <3> HIDE DEF T, n
      <3> QED BY <1>1, <2>1, <2>2, CountUp
    <2> QED BY <1>1, <2>3
  <1> DEFINE l == s[n].list
             q == s[n].info
  <1>5. /\ ListOK(l) /\ q \in Ranges /\ \A k \in 1 .. Len(l) : Apart(l[k], q)
        /\ \A a \in Cell(info) : a \in Cell(q)
        /\ \A j \in 1 .. n : \A a \in Cell(list[j]) :
              a \in Cell(q) \/ \E k \in 1 .. Len(l) : a \in Cell(l[k])
        /\ (\A j \in 1 .. n : Apart(list[j], info)) =>
              q = info /\ l = SubSeq(list, 1, n)
    BY <1>4 DEF Passed, Passes
  <1> HIDE DEF l, q, r
  <1>6. r = Append(l, q)
    BY <1>2 DEF l, q
  <1>7. l \in Seq(Ranges) /\ Len(l) \in Nat
    BY <1>5 DEF ListOK
  <1>8. /\ ListOK(r) /\ r # <<>> /\ DOMAIN r = 1 .. Len(l) + 1 /\ r[Len(l) + 1] = q
        /\ \A k \in 1 .. Len(l) : r[k] = l[k]
    <2>1. ListOK(r)
      BY <1>5, <1>6, ListGrows
    <2>2. r \in Seq(Ranges) /\ Len(r) = Len(l) + 1
      BY <1>5, <1>6, <1>7
    <2> QED BY <1>5, <1>6, <1>7, <2>1, <2>2, AppendProperties
  <1>9. ASSUME NEW a \in Cells, a \in Cell(info) \cup Covered(list) PROVE a \in Covered(r)
    <2>1. a \in Cell(q) \/ \E k \in 1 .. Len(l) : a \in Cell(l[k])
      <3> HIDE DEF n
      <3> QED BY <1>1, <1>5, <1>9 DEF Covered
    <2>2. Len(l) + 1 \in DOMAIN r /\ \A k \in 1 .. Len(l) : k \in DOMAIN r
      BY <1>7, <1>8
    <2> QED BY <1>8, <2>1, <2>2 DEF Covered
  <1>10. (\A j \in 1 .. n : Apart(list[j], info)) => r = Append(list, info)
    <2>1. SubSeq(list, 1, n) = list
      BY <1>1, SubSeqFull
    <2> QED BY <1>5, <1>6, <2>1
  <1> QED BY <1>8, <1>9, <1>10 DEF r
-----------------------------------------------------------------------------
(* What a scan rebuilds.                                                   *)

Memories == {m \in [buffer : Arrays, nodes : Seq(Ranges)] : MemOK(m)}
Empty == [buffer |-> Zero, nodes |-> <<>>]

\* The memories are what MemOK says.
LEMMA MemoryOK == \A m : MemOK(m) <=> m \in Memories
  BY DEF Memories, MemOK, ListOK

\* The array and the list a boot starts from.
LEMMA EmptyOK == MemOK(Empty)
  <1>1. <<>> \in Seq(Ranges) /\ DOMAIN <<>> = 1 .. 0
    OBVIOUS
  <1>2. ListOK(<<>>)
    BY <1>1 DEF ListOK
  <1>3. Zero \in Arrays /\ \A a \in Cells : Zero[a] = 0
    BY Sizes DEF Zero, Arrays
  <1> QED BY <1>2, <1>3 DEF MemOK, Empty

\* A write inside the array sets its cells and leaves a list of ranges that do
\* not touch and hold every value; one past its end changes nothing.
LEMMA UpdateFacts ==
  ASSUME NEW m, MemOK(m), NEW start \in Nat, NEW data \in Seq(Values), data # <<>>,
         start + Len(data) =< BufSize
  PROVE  /\ MemOK(UpdateBuffer(m, start, data))
         /\ UpdateBuffer(m, start, data).nodes # <<>>
         /\ [start |-> start, len |-> Len(data)] \in Ranges
         /\ UpdateBuffer(m, start, data).nodes
              = MergeNode(m.nodes, [start |-> start, len |-> Len(data)])
         /\ UpdateBuffer(m, start, data).buffer
              = [a \in Cells |-> IF a \in start .. start + Len(data) - 1
                                 THEN data[a - start + 1] ELSE m.buffer[a]]
  <1> DEFINE u == UpdateBuffer(m, start, data)
             info == [start |-> start, len |-> Len(data)]
             b == [a \in Cells |-> IF a \in start .. start + Len(data) - 1
                                   THEN data[a - start + 1] ELSE m.buffer[a]]
  <1>1. Len(data) \in Nat /\ Len(data) > 0 /\ \A i \in 1 .. Len(data) : data[i] \in Values
    BY EmptySeq, LenProperties
  <1>2. u = [buffer |-> b, nodes |-> MergeNode(m.nodes, info)]
    <2>1. ~ (start + Len(data) > BufSize)
      BY <1>1, Sizes
    <2> QED BY <2>1 DEF UpdateBuffer
  <1>3. info \in Ranges
    <2>1. start \in Cells /\ Len(data) \in 1 .. BufSize
      BY <1>1, Sizes DEF Cells
    <2> QED BY <2>1 DEF Ranges
  <1> DEFINE r == MergeNode(m.nodes, info)
  <1>4. /\ ListOK(r) /\ r # <<>>
        /\ \A a \in Cell(info) \cup Covered(m.nodes) : a \in Cells => a \in Covered(r)
    <2>1. ListOK(m.nodes)
      BY DEF MemOK
    <2> HIDE DEF info
    <2> QED BY <1>3, <2>1, MergeKeeps
  <1>5. b \in Arrays
    <2>1. \A a \in Cells : b[a] \in Values
      <3>1. m.buffer \in [Cells -> Values]
        BY DEF MemOK, Arrays, Values
      <3>2. \A a \in Cells : a \in start .. start + Len(data) - 1 => a - start + 1 \in 1 .. Len(data)
        BY <1>1 DEF Cells
      <3> QED BY <1>1, <3>1, <3>2
    <2> HIDE DEF b
    <2>2. b = [a \in Cells |-> b[a]]
      BY DEF b
    <2> QED BY <2>1, <2>2 DEF Arrays, Values
  <1>6. ASSUME NEW a \in Cells, b[a] # 0 PROVE a \in Covered(r)
    <2>1. CASE a \in start .. start + Len(data) - 1
      <3>1. a \in Cell(info)
        BY <2>1 DEF Cell
      <3> HIDE DEF r, info
      <3> QED BY <1>4, <3>1
    <2>2. CASE a \notin start .. start + Len(data) - 1
      <3>1. m.buffer[a] # 0
        BY <1>6, <2>2
      <3>2. a \in Covered(m.nodes)
        BY <3>1 DEF MemOK
      <3> HIDE DEF r
      <3> QED BY <1>4, <3>2
    <2> QED BY <2>1, <2>2
  <1> HIDE DEF r, b
  <1>7. u.buffer = b /\ u.nodes = r /\ u = [buffer |-> u.buffer, nodes |-> u.nodes]
    <2> HIDE DEF u
    <2> QED BY <1>2 DEF r
  <1> HIDE DEF u
  <1>8. MemOK(u)
    BY <1>4, <1>5, <1>6, <1>7 DEF MemOK
  <1> QED BY <1>3, <1>4, <1>7, <1>8 DEF u, b, r

\* The same for a node of the log, or a write in flight.
Writable(n) == n.start \in Nat /\ n.data \in Seq(Values) /\ n.data # <<>>
Update(m, n) == UpdateBuffer(m, n.start, n.data)
RangeOf(n) == [start |-> n.start, len |-> Len(n.data)]

\* A node of a log can be replayed.
LEMMA RecordsWritable == \A n \in Records : Writable(n)
  BY DEF Records, Writable

\* A write or node inside the array sets the cells of its range, and merges that
\* range into the list.
LEMMA UpdateInside ==
  ASSUME NEW m, MemOK(m), NEW n, Writable(n), InsideNode(n)
  PROVE  /\ MemOK(Update(m, n)) /\ Update(m, n).nodes # <<>> /\ RangeOf(n) \in Ranges
         /\ Update(m, n).nodes = MergeNode(m.nodes, RangeOf(n))
         /\ Update(m, n).buffer = [a \in Cells |-> IF a \in Cell(RangeOf(n))
                                   THEN n.data[a - n.start + 1] ELSE m.buffer[a]]
  <1> DEFINE st == n.start
             d == n.data
  <1>1. st \in Nat /\ d \in Seq(Values) /\ d # <<>> /\ st + Len(d) =< BufSize
    BY DEF Writable, InsideNode
  <1> HIDE DEF st, d
  <1>2. /\ MemOK(UpdateBuffer(m, st, d)) /\ UpdateBuffer(m, st, d).nodes # <<>>
        /\ [start |-> st, len |-> Len(d)] \in Ranges
        /\ UpdateBuffer(m, st, d).nodes = MergeNode(m.nodes, [start |-> st, len |-> Len(d)])
        /\ UpdateBuffer(m, st, d).buffer
             = [a \in Cells |-> IF a \in st .. st + Len(d) - 1
                                 THEN d[a - st + 1] ELSE m.buffer[a]]
    BY <1>1, UpdateFacts, SMTT(60)
  <1>3. Cell(RangeOf(n)) = st .. st + Len(d) - 1
    BY DEF Cell, RangeOf, st, d
  <1> QED BY <1>2, <1>3 DEF Update, RangeOf, st, d

\* Any write, inside the array or past its end, leaves ranges that do not touch.
LEMMA UpdateOK ==
  ASSUME NEW m, MemOK(m), NEW n, Writable(n)
  PROVE  MemOK(Update(m, n))
  <1>1. CASE InsideNode(n)
    BY <1>1, UpdateInside
  <1>2. CASE ~InsideNode(n)
    <2>1. Len(n.data) \in Nat /\ n.start \in Nat
      BY DEF Writable
    <2>2. n.start + Len(n.data) > BufSize
      BY <1>2, <2>1, Sizes DEF InsideNode
    <2> QED BY <2>2 DEF Update, UpdateBuffer
  <1> QED BY <1>1, <1>2

\* The states of a scan.
LEMMA ReplayFold ==
  ASSUME NEW ns \in Seq(Records)
  PROVE  \E s \in [0 .. Len(ns) -> Memories] :
            /\ Replay(ns) = s[Len(ns)] /\ s[0] = Empty
            /\ \A i \in 1 .. Len(ns) : s[i] = UpdateBuffer(s[i - 1], ns[i].start, ns[i].data)
  <1> DEFINE n == Len(ns)
             g == [x \in (1 .. n) \X Memories |->
                      UpdateBuffer(x[2], ns[x[1]].start, ns[x[1]].data)]
             B(f, i) == IF i = 0 THEN Empty ELSE UpdateBuffer(f[i - 1], ns[i].start, ns[i].data)
             F == CHOOSE f : f = [i \in 0 .. n |-> B(f, i)]
  <1>1. /\ n \in Nat /\ Empty \in Memories
        /\ \A i \in 1 .. n : ns[i].start \in Nat /\ ns[i].data \in Seq(Values) /\ ns[i].data # <<>>
    <2>1. \A i \in 1 .. n : ns[i] \in Records
      OBVIOUS
    <2> QED BY <2>1, EmptyOK, MemoryOK DEF Records
  <1>2. g \in [(1 .. n) \X Memories -> Memories]
    <2>1. ASSUME NEW i \in 1 .. n, NEW m \in Memories
          PROVE  UpdateBuffer(m, ns[i].start, ns[i].data) \in Memories
      <3> HIDE DEF n
      <3>1. Writable(ns[i]) /\ MemOK(m)
        BY <1>1, MemoryOK DEF Writable
      <3> QED BY <3>1, UpdateOK, MemoryOK DEF Update
    <2> HIDE DEF n
    <2> QED BY <2>1
  <1>3. PICK f : IsFold(f, n, Memories, Empty, g)
    <2> HIDE DEF g, n
    <2> QED BY <1>1, <1>2, FoldExists
  <1>f. f \in [0 .. n -> Memories] /\ f[0] = Empty /\ \A i \in 1 .. n : f[i] = g[<<i, f[i - 1]>>]
    BY <1>3 DEF IsFold
  <1>4. \A i \in 1 .. n : f[i] = UpdateBuffer(f[i - 1], ns[i].start, ns[i].data)
    <2> TAKE i \in 1 .. n
    <2>1. i - 1 \in 0 .. n /\ f[i - 1] \in Memories
      BY <1>1, <1>f
    <2>2. <<i, f[i - 1]>> \in (1 .. n) \X Memories
      BY <2>1
    <2> QED BY <1>f, <2>2
  <1>5. f = [i \in 0 .. n |-> B(f, i)]
    <2>1. \A i \in 0 .. n : f[i] = B(f, i)
      BY <1>1, <1>f, <1>4
    <2> HIDE DEF B, n
    <2> QED BY <1>f, <2>1
  <1>6. F = [i \in 0 .. n |-> B(F, i)] /\ Replay(ns) = F[n]
    <2>1. Replay(ns) = F[n]
      BY DEF Replay, Empty
    <2> HIDE DEF B, n
    <2> QED BY <1>5, <2>1
  <1>7. \A i \in 0 .. n : F[i] = f[i]
    <2> DEFINE T == {i \in 0 .. n : F[i] = f[i]}
    <2> HIDE DEF F, n
    <2>1. 0 \in T
      BY <1>1, <1>5, <1>6
    <2>2. ASSUME NEW i \in 0 .. n, i \in T, i < n PROVE i + 1 \in T
      <3>1. i + 1 \in 0 .. n /\ i + 1 # 0 /\ (i + 1) - 1 = i
        BY <1>1, <2>2
      <3>2. F[i + 1] = B(F, i + 1) /\ f[i + 1] = B(f, i + 1)
        <4> HIDE DEF B
        <4> QED BY <1>5, <1>6, <3>1
      <3> QED BY <2>2, <3>1, <3>2
    <2> HIDE DEF T
    <2>3. \A i \in 0 .. n : i \in T
      BY <1>1, <2>1, <2>2, CountUp
    <2> QED BY <2>3 DEF T
  <1>8. Replay(ns) = f[n]
    <2>1. n \in 0 .. n
      BY <1>1
    <2> HIDE DEF F, n
    <2> QED BY <1>6, <1>7, <2>1
  <1> QED BY <1>f, <1>4, <1>8

\* A scan of an empty log leaves the array as it was made; one more node is one
\* more write to the array.
LEMMA ReplayAppend ==
  /\ Replay(<<>>) = Empty
  /\ \A ns \in Seq(Records) : MemOK(Replay(ns))
  /\ \A ns \in Seq(Records), n \in Records :
        Replay(Append(ns, n)) = UpdateBuffer(Replay(ns), n.start, n.data)
  <1>1. Replay(<<>>) = Empty
    <2>1. <<>> \in Seq(Records) /\ Len(<<>>) = 0
      OBVIOUS
    <2> QED BY <2>1, ReplayFold
  <1>2. \A ns \in Seq(Records) : MemOK(Replay(ns))
    <2> TAKE ns \in Seq(Records)
    <2>1. Len(ns) \in 0 .. Len(ns)
      BY LenProperties
    <2> QED BY <2>1, ReplayFold, MemoryOK
  <1>3. ASSUME NEW ns \in Seq(Records), NEW n \in Records
        PROVE  Replay(Append(ns, n)) = UpdateBuffer(Replay(ns), n.start, n.data)
    <2> DEFINE k == Len(ns)
               ms == Append(ns, n)
    <2>1. /\ ms \in Seq(Records) /\ Len(ms) = k + 1 /\ k \in Nat
          /\ \A i \in 1 .. k : ms[i] = ns[i]
          /\ ms[k + 1] = n
      BY AppendProperties, LenProperties
    <2>2. PICK u \in [0 .. k -> Memories] :
            /\ Replay(ns) = u[k] /\ u[0] = Empty
            /\ \A i \in 1 .. k : u[i] = UpdateBuffer(u[i - 1], ns[i].start, ns[i].data)
      BY ReplayFold
    <2>3. PICK v \in [0 .. k + 1 -> Memories] :
            /\ Replay(ms) = v[k + 1] /\ v[0] = Empty
            /\ \A i \in 1 .. k + 1 : v[i] = UpdateBuffer(v[i - 1], ms[i].start, ms[i].data)
      <3> HIDE DEF ms
      <3> QED BY <2>1, ReplayFold
    <2> DEFINE T == {i \in 0 .. k : u[i] = v[i]}
    <2>4. k \in T
      <3> HIDE DEF ms, k
      <3>1. 0 \in T
        BY <2>1, <2>2, <2>3
      <3>2. ASSUME NEW i \in 0 .. k, i \in T, i < k PROVE i + 1 \in T
        <4>1. /\ i + 1 \in 0 .. k /\ (i + 1) - 1 = i
              /\ i + 1 \in 1 .. k /\ i + 1 \in 1 .. k + 1
          BY <2>1, <3>2
        <4>2. u[i + 1] = UpdateBuffer(u[i], ns[i + 1].start, ns[i + 1].data)
          BY <2>2, <4>1
        <4>3. v[i + 1] = UpdateBuffer(v[i], ms[i + 1].start, ms[i + 1].data)
          BY <2>3, <4>1
        <4> QED BY <2>1, <3>2, <4>1, <4>2, <4>3
      <3>3. k \in Nat
        BY <2>1
      <3>4. \A i \in 0 .. k : i \in T
        <4> HIDE DEF T
        <4> QED BY <3>1, <3>2, <3>3, CountUp
      <3> QED BY <3>3, <3>4
    <2>5. k + 1 \in 1 .. k + 1 /\ (k + 1) - 1 = k
      BY <2>1
    <2> HIDE DEF ms, k
    <2>6. v[k + 1] = UpdateBuffer(v[k], ms[k + 1].start, ms[k + 1].data)
      BY <2>3, <2>5
    <2> QED BY <2>1, <2>2, <2>3, <2>4, <2>6 DEF ms
  <1> QED BY <1>1, <1>2, <1>3

\* A log with a node in the array leaves a range.
LEMMA ReplayNotEmpty ==
  ASSUME NEW ns \in Seq(Records), ns # <<>>, \A i \in DOMAIN ns : InsideNode(ns[i])
  PROVE  Replay(ns).nodes # <<>>
  <1>1. PICK ms \in Seq(Records), n \in Records : ns = Append(ms, n)
    BY SequenceEmptyOrAppend
  <1>2. n.start \in Nat /\ n.data \in Seq(Values) /\ n.data # <<>> /\ MemOK(Replay(ms))
    BY ReplayAppend DEF Records
  <1>3. InsideNode(n)
    <2>1. Len(ms) + 1 \in DOMAIN ns /\ ns[Len(ms) + 1] = n
      BY <1>1, AppendProperties, LenProperties
    <2> QED BY <2>1
  <1>4. Replay(ns) = UpdateBuffer(Replay(ms), n.start, n.data)
    BY <1>1, ReplayAppend
  <1>5. Update(Replay(ms), n).nodes # <<>>
    BY <1>2, <1>3, RecordsWritable, UpdateInside
  <1> QED BY <1>4, <1>5 DEF Update
-----------------------------------------------------------------------------
(* What a copy of the array is.                                            *)

\* A range of the array makes a node the log can hold.
LEMMA CopiedNodeFacts ==
  ASSUME NEW m, MemOK(m), NEW p \in Ranges
  PROVE  /\ CopiedNode(m, p) \in Records /\ InsideNode(CopiedNode(m, p))
         /\ CopiedNode(m, p).start = p.start /\ Len(CopiedNode(m, p).data) = p.len
         /\ \A k \in 1 .. p.len : CopiedNode(m, p).data[k] = m.buffer[p.start + k - 1]
  <1> DEFINE d == [k \in 1 .. p.len |-> m.buffer[p.start + k - 1]]
  <1>1. /\ p.start \in Nat /\ p.len \in Nat /\ p.len > 0 /\ p.start + p.len =< BufSize
        /\ p.start < BufSize
    BY Sizes DEF Ranges, Cells
  <1>2. p.start % StartMod = p.start
    BY <1>1, Sizes
  <1>3. \A k \in 1 .. p.len : m.buffer[p.start + k - 1] \in Values
    <2>1. m.buffer \in [Cells -> Values]
      BY DEF MemOK, Arrays, Values
    <2>2. \A k \in 1 .. p.len : p.start + k - 1 \in Cells
      BY <1>1, Sizes DEF Cells
    <2> QED BY <2>1, <2>2
  <1>4. d \in Seq(Values) /\ Len(d) = p.len /\ d # <<>>
    <2>1. d \in [1 .. p.len -> Values]
      BY <1>3
    <2>2. d \in Seq(Values) /\ Len(d) = p.len
      <3> HIDE DEF d
      <3> QED BY <1>1, <2>1
    <2> HIDE DEF d
    <2> QED BY <1>1, <2>2
  <1>5. CopiedNode(m, p) = [start |-> p.start, data |-> d]
    BY <1>2 DEF CopiedNode, Node
  <1>6. \A k \in 1 .. p.len : d[k] = m.buffer[p.start + k - 1]
    OBVIOUS
  <1> HIDE DEF d
  <1> QED BY <1>1, <1>4, <1>5, <1>6 DEF Records, InsideNode

\* The copy grows by one node.
LEMMA CopyGrows ==
  ASSUME NEW m, MemOK(m), NEW n \in 0 .. Len(m.nodes)
  PROVE  /\ CopyOf(m, n) \in Seq(Records) /\ Len(CopyOf(m, n)) = n
         /\ \A i \in DOMAIN CopyOf(m, n) : InsideNode(CopyOf(m, n)[i])
         /\ CopyOf(m, 0) = <<>>
         /\ n < Len(m.nodes) =>
              CopyOf(m, n + 1) = Append(CopyOf(m, n), CopiedNode(m, m.nodes[n + 1]))
  <1>1. Len(m.nodes) \in Nat /\ n \in Nat /\ \A i \in 1 .. Len(m.nodes) : m.nodes[i] \in Ranges
    BY DEF MemOK, ListOK
  <1>2. ASSUME NEW k \in 0 .. Len(m.nodes)
        PROVE  /\ CopyOf(m, k) \in [1 .. k -> Records] /\ CopyOf(m, k) \in Seq(Records)
               /\ Len(CopyOf(m, k)) = k /\ DOMAIN CopyOf(m, k) = 1 .. k
               /\ \A i \in 1 .. k : CopyOf(m, k)[i] = CopiedNode(m, m.nodes[i])
    <2>1. k \in Nat /\ \A i \in 1 .. k : CopiedNode(m, m.nodes[i]) \in Records
      BY <1>1, CopiedNodeFacts
    <2>2. CopyOf(m, k) \in [1 .. k -> Records]
      BY <2>1 DEF CopyOf
    <2>3. \A i \in 1 .. k : CopyOf(m, k)[i] = CopiedNode(m, m.nodes[i])
      BY DEF CopyOf
    <2> QED BY <2>1, <2>2, <2>3
  <1>3. \A i \in DOMAIN CopyOf(m, n) : InsideNode(CopyOf(m, n)[i])
    BY <1>1, <1>2, CopiedNodeFacts
  <1>4. CopyOf(m, 0) = <<>>
    <2>1. 0 \in 0 .. Len(m.nodes)
      BY <1>1
    <2>2. CopyOf(m, 0) \in Seq(Records) /\ Len(CopyOf(m, 0)) = 0
      BY <1>2, <2>1
    <2> QED BY <2>2
  <1>5. ASSUME n < Len(m.nodes)
        PROVE  CopyOf(m, n + 1) = Append(CopyOf(m, n), CopiedNode(m, m.nodes[n + 1]))
    <2> DEFINE c == CopyOf(m, n)
               d == CopyOf(m, n + 1)
               x == CopiedNode(m, m.nodes[n + 1])
               e == Append(c, x)
    <2>1. n + 1 \in 0 .. Len(m.nodes) /\ n + 1 \in 1 .. Len(m.nodes)
      BY <1>1, <1>5
    <2>2. c \in Seq(Records) /\ Len(c) = n /\ \A i \in 1 .. n : c[i] = CopiedNode(m, m.nodes[i])
      BY <1>2
    <2>3. d \in Seq(Records) /\ Len(d) = n + 1 /\ \A i \in 1 .. n + 1 : d[i] = CopiedNode(m, m.nodes[i])
      BY <1>2, <2>1
    <2>4. x \in Records
      BY <1>1, <2>1, CopiedNodeFacts
    <2> HIDE DEF c, d, x
    <2>5. /\ e \in Seq(Records) /\ Len(e) = n + 1 /\ e[n + 1] = x
          /\ \A i \in 1 .. n : e[i] = c[i]
      BY <2>2, <2>4, AppendProperties
    <2> HIDE DEF e
    <2>6. \A i \in 1 .. n + 1 : d[i] = e[i]
      <3> TAKE i \in 1 .. n + 1
      <3>1. CASE i \in 1 .. n
        BY <2>2, <2>3, <2>5, <3>1
      <3>2. CASE i = n + 1
        BY <2>3, <2>5, <3>2 DEF x
      <3> QED BY <1>1, <3>1, <3>2
    <2>7. d = e
      BY <2>3, <2>5, <2>6, SeqEqual
    <2> QED BY <2>7 DEF c, d, e, x
  <1> QED BY <1>2, <1>3, <1>4, <1>5

\* Scanning the first n nodes of the copy rebuilds the first n ranges.
CopyUpTo(m, n) ==
  [buffer |-> [a \in Cells |-> IF \E i \in 1 .. n : a \in Cell(m.nodes[i])
                               THEN m.buffer[a] ELSE 0],
   nodes |-> SubSeq(m.nodes, 1, n)]

\* One more node of the copy rebuilds one more range of the array.
LEMMA CopyStep ==
  ASSUME NEW m, MemOK(m), NEW n \in 0 .. Len(m.nodes), n < Len(m.nodes),
         Replay(CopyOf(m, n)) = CopyUpTo(m, n)
  PROVE  Replay(CopyOf(m, n + 1)) = CopyUpTo(m, n + 1)
  <1> DEFINE p == m.nodes[n + 1]
             c == CopiedNode(m, p)
             u == CopyUpTo(m, n)
             v == Update(u, c)
             w == CopyUpTo(m, n + 1)
  <1>1. /\ Len(m.nodes) \in Nat /\ n \in Nat /\ n + 1 \in 1 .. Len(m.nodes)
        /\ m.nodes \in Seq(Ranges) /\ DOMAIN m.nodes = 1 .. Len(m.nodes)
        /\ (\A i \in 1 .. Len(m.nodes) : m.nodes[i] \in Ranges) /\ p \in Ranges
        /\ \A i \in 1 .. n : i \in 1 .. Len(m.nodes) /\ i # n + 1
    BY DEF MemOK, ListOK
  <1>2. /\ c \in Records /\ c.start = p.start /\ Len(c.data) = p.len
        /\ Writable(c) /\ InsideNode(c)
        /\ \A k \in 1 .. p.len : c.data[k] = m.buffer[p.start + k - 1]
    <2> HIDE DEF p
    <2> QED BY <1>1, CopiedNodeFacts, RecordsWritable
  <1>3. p.start \in Nat /\ p.len \in Nat /\ p.start + p.len =< BufSize
        /\ p = [start |-> p.start, len |-> p.len]
    BY <1>1, Sizes, SMTT(60) DEF Ranges, Cells
  <1>4. Replay(CopyOf(m, n + 1)) = v /\ MemOK(u)
    <2>1. CopyOf(m, n) \in Seq(Records) /\ CopyOf(m, n + 1) = Append(CopyOf(m, n), c)
      BY CopyGrows
    <2> HIDE DEF c, u
    <2> QED BY <1>2, <2>1, ReplayAppend DEF u, Update
  <1>5. u.nodes = SubSeq(m.nodes, 1, n) /\ \A a \in Cells :
          u.buffer[a] = IF \E i \in 1 .. n : a \in Cell(m.nodes[i]) THEN m.buffer[a] ELSE 0
    BY DEF CopyUpTo
  <1>6. v.nodes = Append(u.nodes, p)
    <2>1. v.nodes = MergeNode(u.nodes, p)
      <3> HIDE DEF u, c, p
      <3>1. RangeOf(c) = p
        BY <1>2, <1>3 DEF RangeOf
      <3>2. Writable(c) /\ InsideNode(c) /\ MemOK(u)
        BY <1>2, <1>4
      <3>3. Update(u, c).nodes = MergeNode(u.nodes, RangeOf(c))
        BY <3>2, UpdateInside
      <3> QED BY <3>1, <3>3
    <2>2. \A j \in 1 .. Len(u.nodes) : Apart(u.nodes[j], p)
      <3>1. Len(SubSeq(m.nodes, 1, n)) = n /\ \A j \in 1 .. n : SubSeq(m.nodes, 1, n)[j] = m.nodes[j]
        BY <1>1
      <3>2. \A j \in 1 .. n : Apart(m.nodes[j], p)
        BY <1>1 DEF MemOK, ListOK
      <3>3. u.nodes = SubSeq(m.nodes, 1, n)
        BY <1>5
      <3> HIDE DEF u, p
      <3>4. Len(u.nodes) = n /\ \A j \in 1 .. n : u.nodes[j] = m.nodes[j]
        BY <3>1, <3>3
      <3> QED BY <3>2, <3>4
    <2>3. ListOK(u.nodes)
      BY <1>4 DEF MemOK
    <2> HIDE DEF u, v, p
    <2> QED BY <1>1, <2>1, <2>2, <2>3, MergeKeeps
  <1>7. v.nodes = w.nodes
    <2>1. Append(SubSeq(m.nodes, 1, n), p) = SubSeq(m.nodes, 1, n + 1)
      BY <1>1
    <2>2. w.nodes = SubSeq(m.nodes, 1, n + 1)
      BY DEF CopyUpTo
    <2> HIDE DEF u, v, w, p
    <2> QED BY <1>5, <1>6, <2>1, <2>2
  <1>8. v.buffer = [a \in Cells |-> IF a \in Cell(p) THEN m.buffer[a] ELSE u.buffer[a]]
    <2>1. v.buffer = [a \in Cells |-> IF a \in Cell(p)
                                      THEN c.data[a - p.start + 1] ELSE u.buffer[a]]
      <3> HIDE DEF u, c, p
      <3>1. RangeOf(c) = p
        BY <1>2, <1>3 DEF RangeOf
      <3>2. Writable(c) /\ InsideNode(c) /\ MemOK(u)
        BY <1>2, <1>4
      <3>3. Update(u, c).buffer = [a \in Cells |-> IF a \in Cell(RangeOf(c))
                                   THEN c.data[a - c.start + 1] ELSE u.buffer[a]]
        BY <3>2, UpdateInside
      <3> QED BY <1>2, <3>1, <3>3
    <2>2. ASSUME NEW a \in Cells, a \in Cell(p) PROVE c.data[a - p.start + 1] = m.buffer[a]
      <3> HIDE DEF p, c
      <3>1. a \in Nat /\ a - p.start + 1 \in 1 .. p.len /\ p.start + (a - p.start + 1) - 1 = a
        <4>1. a \in p.start .. p.start + p.len - 1
          BY <2>2 DEF Cell
        <4> QED BY <1>3, <4>1, SMTT(60)
      <3> QED BY <1>2, <3>1
    <2> HIDE DEF u, v, c, p
    <2> QED BY <2>1, <2>2
  <1>9. w.buffer = [a \in Cells |-> IF a \in Cell(p) THEN m.buffer[a] ELSE u.buffer[a]]
    <2>1. w.buffer = [a \in Cells |-> IF \E i \in 1 .. n + 1 : a \in Cell(m.nodes[i])
                                      THEN m.buffer[a] ELSE 0]
      BY DEF CopyUpTo
    <2>2. \A i : i \in 1 .. n + 1 <=> i \in 1 .. n \/ i = n + 1
      BY <1>1
    <2>3. \A a \in Cells : (\E i \in 1 .. n + 1 : a \in Cell(m.nodes[i]))
             <=> (a \in Cell(p) \/ \E i \in 1 .. n : a \in Cell(m.nodes[i]))
      BY <2>2
    <2> HIDE DEF u, v, w, c, p
    <2> QED BY <1>5, <2>1, <2>3
  <1>10. v = [buffer |-> v.buffer, nodes |-> v.nodes] /\ w = [buffer |-> w.buffer, nodes |-> w.nodes]
    <2>1. MemOK(v)
      <3> HIDE DEF u, c
      <3> QED BY <1>2, <1>4, UpdateOK
    <2>2. w = [buffer |-> w.buffer, nodes |-> w.nodes]
      BY DEF CopyUpTo
    <2> HIDE DEF v, w
    <2> QED BY <2>1, <2>2 DEF MemOK
  <1> HIDE DEF u, v, w, c, p
  <1>11. v = w
    BY <1>7, <1>8, <1>9, <1>10
  <1> QED BY <1>4, <1>11 DEF v, w

\* The whole copy rebuilds the memory, and any part of it no value it has not.
LEMMA CopyRebuilds ==
  ASSUME NEW m, MemOK(m), NEW n \in 0 .. Len(m.nodes)
  PROVE  /\ Replay(CopyOf(m, n)) = CopyUpTo(m, n)
         /\ \A a \in Cells : Replay(CopyOf(m, n)).buffer[a] \in {m.buffer[a], 0}
         /\ Replay(CopyOf(m, Len(m.nodes))) = m
  <1> DEFINE k == Len(m.nodes)
             T == {i \in 0 .. k : Replay(CopyOf(m, i)) = CopyUpTo(m, i)}
  <1>1. k \in Nat /\ m.nodes \in Seq(Ranges) /\ DOMAIN m.nodes = 1 .. k
    BY DEF MemOK, ListOK
  <1>2. 0 \in T
    <2>1. CopyOf(m, 0) = <<>>
      BY CopyGrows
    <2>2. CopyUpTo(m, 0) = Empty
      <3>1. SubSeq(m.nodes, 1, 0) = <<>>
        BY <1>1
      <3>2. [a \in Cells |-> IF \E i \in 1 .. 0 : a \in Cell(m.nodes[i]) THEN m.buffer[a] ELSE 0] = Zero
        BY DEF Zero
      <3> QED BY <3>1, <3>2 DEF CopyUpTo, Empty
    <2> QED BY <1>1, <2>1, <2>2, ReplayAppend
  <1>3. ASSUME NEW i \in 0 .. k, i \in T, i < k PROVE i + 1 \in T
    <2>1. i + 1 \in 0 .. k
      BY <1>1, <1>3
    <2> QED BY <1>3, <2>1, CopyStep
  <1>4. \A i \in 0 .. k : i \in T
    <2> HIDE DEF T, k
    <2> QED BY <1>1, <1>2, <1>3, CountUp
  <1>5. Replay(CopyOf(m, n)) = CopyUpTo(m, n)
    BY <1>4
  <1>6. \A a \in Cells : Replay(CopyOf(m, n)).buffer[a] \in {m.buffer[a], 0}
    BY <1>5 DEF CopyUpTo
  <1>7. CopyUpTo(m, k) = m
    <2>1. SubSeq(m.nodes, 1, k) = m.nodes
      BY <1>1, SubSeqFull
    <2>2. \A a \in Cells : m.buffer[a] # 0 => \E i \in 1 .. k : a \in Cell(m.nodes[i])
      BY <1>1 DEF MemOK, Covered
    <2>3. m.buffer \in [Cells -> Values] /\ m = [buffer |-> m.buffer, nodes |-> m.nodes]
      BY DEF MemOK, Arrays, Values
    <2>4. [a \in Cells |-> IF \E i \in 1 .. k : a \in Cell(m.nodes[i]) THEN m.buffer[a] ELSE 0] = m.buffer
      <3> HIDE DEF k
      <3> QED BY <2>2, <2>3
    <2> HIDE DEF k
    <2> QED BY <2>1, <2>3, <2>4 DEF CopyUpTo
  <1>8. Replay(CopyOf(m, k)) = m
    <2>1. k \in 0 .. k
      BY <1>1
    <2> HIDE DEF k
    <2> QED BY <1>4, <1>7, <2>1
  <1> QED BY <1>5, <1>6, <1>8
-----------------------------------------------------------------------------
(* The copy fits.                                                          *)

\* Two numbers, and one of them and the other's successor.
LEMMA OneMore ==
  ASSUME NEW j \in Nat, NEW e \in Nat
  PROVE  (j + 1) * e = j * e + e /\ j * e \in Nat
  OBVIOUS

\* Fewer nodes take less.
LEMMA FewerLess ==
  ASSUME NEW i \in Nat, NEW j \in Nat, NEW e \in Nat, i =< j
  PROVE  i * e =< j * e /\ j * e \in Nat
  OBVIOUS

\* Ranges that are apart have no cell in common, the one behind each included.
LEMMA NoCommon ==
  ASSUME NEW p \in Ranges, NEW q \in Ranges, Apart(p, q)
  PROVE  (p.start .. p.start + p.len) \cap (q.start .. q.start + q.len) = {}
  <1>1. p.start \in Nat /\ p.len \in Nat /\ q.start \in Nat /\ q.len \in Nat
    BY Sizes DEF Ranges, Cells
  <1> QED BY <1>1 DEF Apart

\* Disjoint sets add up.
LEMMA AddUp ==
  ASSUME NEW A, NEW B, IsFiniteSet(A), IsFiniteSet(B), A \cap B = {}
  PROVE  Cardinality(A \cup B) = Cardinality(A) + Cardinality(B)
  <1>1. Cardinality(A \cap B) = 0
    BY FS_EmptySet
  <1>2. Cardinality(A \cup B) = Cardinality(A) + Cardinality(B) - Cardinality(A \cap B)
    BY FS_Union
  <1>3. Cardinality(A) \in Nat /\ Cardinality(B) \in Nat
    BY FS_CardinalityType
  <1> QED BY <1>1, <1>2, <1>3

\* The copy leaves room for the mark: each of its ranges has the cell behind it
\* for itself, so that they are few and short enough.
LEMMA CopyFits ==
  ASSUME NEW m, MemOK(m), NEW n \in 0 .. Len(m.nodes)
  PROVE  UsedBy(CopyOf(m, n)) + Mark =< NorSize
  <1> DEFINE k == Len(m.nodes)
             e == Extra - 1
             Wide(i) == m.nodes[i].start .. m.nodes[i].start + m.nodes[i].len
             X(j) == {a \in 0 .. BufSize : \E i \in 1 .. j : a \in Wide(i)}
             U(j) == UsedBy(CopyOf(m, j))
             T == {j \in 0 .. k : Cardinality(X(j)) + j * e = U(j) /\ 2 * j =< Cardinality(X(j))}
  <1>1. /\ k \in Nat /\ e \in Nat /\ BufSize \in Nat
        /\ \A i \in 1 .. k : m.nodes[i] \in Ranges
        /\ \A i, j \in 1 .. k : i # j => Apart(m.nodes[i], m.nodes[j])
    BY Sizes DEF MemOK, ListOK
  <1>2. \A i \in 1 .. k : /\ m.nodes[i].start \in Nat /\ m.nodes[i].len \in Nat
                          /\ m.nodes[i].len > 0 /\ m.nodes[i].start + m.nodes[i].len =< BufSize
    <2>1. \A p \in Ranges : p.start \in Nat /\ p.len \in Nat /\ p.len > 0 /\ p.start + p.len =< BufSize
      BY Sizes DEF Ranges, Cells
    <2> HIDE DEF k
    <2> QED BY <1>1, <2>1
  <1>3. \A j \in 0 .. k : /\ IsFiniteSet(X(j)) /\ Cardinality(X(j)) \in Nat
                          /\ Cardinality(X(j)) =< BufSize + 1
    <2> TAKE j \in 0 .. k
    <2>1. IsFiniteSet(0 .. BufSize) /\ Cardinality(0 .. BufSize) = BufSize + 1
      BY <1>1, FS_Interval
    <2>2. X(j) \in SUBSET (0 .. BufSize)
      OBVIOUS
    <2> HIDE DEF X
    <2> QED BY <2>1, <2>2, FS_Subset, FS_CardinalityType
  <1>4. 0 \in T
    <2>1. X(0) = {}
      OBVIOUS
    <2>2. U(0) = 0
      BY CopyGrows, UsedAppend
    <2>3. Cardinality(X(0)) = 0
      BY <2>1, FS_EmptySet
    <2> HIDE DEF X, U
    <2> QED BY <1>1, <2>2, <2>3
  <1>5. ASSUME NEW j \in 0 .. k, j \in T, j < k PROVE j + 1 \in T
    <2> DEFINE p == m.nodes[j + 1]
    <2>1. j \in Nat /\ j + 1 \in 1 .. k /\ j + 1 \in 0 .. k /\ \A i \in 1 .. j : i \in 1 .. k /\ i # j + 1
      BY <1>1, <1>5
    <2>2. p \in Ranges /\ p.start \in Nat /\ p.len \in Nat /\ p.len > 0 /\ p.start + p.len =< BufSize
      BY <1>1, <1>2, <2>1
    <2>3. U(j + 1) = U(j) + p.len + Extra /\ U(j) \in Nat
      <3> DEFINE c == CopiedNode(m, p)
      <3>1. c \in Records /\ Len(c.data) = p.len
        BY <2>2, CopiedNodeFacts
      <3>2. CopyOf(m, j) \in Seq(Records) /\ CopyOf(m, j + 1) = Append(CopyOf(m, j), c)
        BY <1>5, CopyGrows
      <3> HIDE DEF c
      <3> QED BY <3>1, <3>2, UsedAppend
    <2>4. X(j + 1) = X(j) \cup Wide(j + 1)
      <3>1. \A i : i \in 1 .. j + 1 <=> i \in 1 .. j \/ i = j + 1
        BY <2>1
      <3>2. Wide(j + 1) \subseteq 0 .. BufSize
        BY <1>1, <2>2, SMTT(60)
      <3> HIDE DEF Wide
      <3> QED BY <3>1, <3>2
    <2>5. X(j) \cap Wide(j + 1) = {}
      <3>1. ASSUME NEW i \in 1 .. j PROVE Wide(i) \cap Wide(j + 1) = {}
        <4>1. i \in 1 .. k /\ Apart(m.nodes[i], p) /\ m.nodes[i] \in Ranges
          BY <1>1, <2>1
        <4> QED BY <4>1, <2>2, NoCommon
      <3> HIDE DEF Wide
      <3> QED BY <3>1
    <2>6. IsFiniteSet(Wide(j + 1)) /\ Cardinality(Wide(j + 1)) = p.len + 1
      <3> DEFINE lo == p.start
                 wd == p.len
      <3>1. lo \in Nat /\ wd \in Nat
        BY <2>2
      <3> HIDE DEF lo, wd
      <3>2. lo \in Int /\ lo + wd \in Int /\ ~ (lo > lo + wd) /\ (lo + wd) - lo + 1 = wd + 1
        BY <3>1
      <3>3. IsFiniteSet(lo .. lo + wd) /\ Cardinality(lo .. lo + wd) = wd + 1
        BY <3>2, FS_Interval
      <3> QED BY <3>3 DEF lo, wd
    <2> DEFINE x == Cardinality(X(j))
               y == Cardinality(X(j + 1))
               l == p.len
    <2>7. y = x + (l + 1)
      <3> HIDE DEF X, Wide
      <3> QED BY <1>3, <2>4, <2>5, <2>6, AddUp
    <2>8. x + j * e = U(j) /\ 2 * j =< x /\ x \in Nat
      BY <1>3, <1>5
    <2>9. (j + 1) * e = j * e + e /\ j * e \in Nat
      BY <1>1, <2>1, OneMore
    <2>l. l \in Nat /\ l > 0
      BY <2>2
    <2> DEFINE je == j * e
               Je == (j + 1) * e
    <2>10. y + (j + 1) * e = U(j + 1)
      <3>1. Extra = e + 1
        BY Sizes DEF e
      <3> DEFINE u == U(j)
                 v == U(j + 1)
      <3>2. x + je = u /\ Je = je + e /\ je \in Nat /\ v = u + l + Extra
        BY <2>3, <2>8, <2>9
      <3> HIDE DEF x, y, l, je, Je, u, v, e
      <3>3. y + Je = v
        BY <1>1, <2>7, <2>8, <2>l, <3>1, <3>2
      <3> QED BY <3>3 DEF Je, v
    <2>11. 2 * (j + 1) =< y
      <3> HIDE DEF x, y, l
      <3> QED BY <2>1, <2>7, <2>8, <2>l
    <2> HIDE DEF X, U, e
    <2> QED BY <2>1, <2>10, <2>11
  <1>6. n \in T
    <2>1. \A j \in 0 .. k : j \in T
      <3> HIDE DEF T, k
      <3> QED BY <1>1, <1>4, <1>5, CountUp
    <2> QED BY <2>1
  <1> DEFINE x == Cardinality(X(n))
             K == (BufSize + 1) \div 2
  <1>7. n \in Nat /\ x \in Nat /\ x =< BufSize + 1 /\ x + n * e = U(n) /\ 2 * n =< x
    <2> HIDE DEF X, U, e
    <2> QED BY <1>1, <1>3, <1>6
  <1> HIDE DEF X, U, e
  <1>8. n =< K /\ K \in Nat
    <2> HIDE DEF x
    <2> QED BY <1>1, <1>7
  <1>9. n * e =< K * e /\ K * e \in Nat /\ n * e \in Nat
    <2> HIDE DEF K
    <2> QED BY <1>1, <1>7, <1>8, FewerLess, OneMore
  <1>10. BufSize + 1 + K * e + Mark =< NorSize
    BY CapacityAssumption DEF e
  <1> HIDE DEF x, K
  <1>11. U(n) + Mark =< NorSize
    BY <1>1, <1>7, <1>9, <1>10, Sizes
  <1> QED BY <1>11 DEF U
-----------------------------------------------------------------------------
(* What the flash operations make of a half.                               *)

\* A log uses a number of units.
LEMMA UsedNat == \A b \in Logs : Used(b) \in Nat
  BY UsedAppend DEF Used, Logs

\* A blank half is an empty log without a mark.
LEMMA BlankOK ==
  /\ Blank \in Logs /\ Used(Blank) = 0 /\ ~Marked(Blank) /\ ~Sealed(Blank) /\ HeadBlank(Blank)
  /\ Blank.nodes = <<>> /\ Blank.junk = "no" /\ Blank.mark = Unmarked
  BY UsedAppend DEF Blank, Unmarked, Logs, Used, Marked, Sealed, HeadBlank

\* A prefix of a log is one.
LEMMA PrefixOK ==
  ASSUME NEW ns \in Seq(Records), NEW k \in 0 .. Len(ns)
  PROVE  /\ SubSeq(ns, 1, k) \in Seq(Records) /\ Len(SubSeq(ns, 1, k)) = k
         /\ \A i \in 1 .. k : SubSeq(ns, 1, k)[i] = ns[i]
  <1>1. k \in Int /\ 1 \in Int /\ \A i \in 1 .. k : ns[i] \in Records
    OBVIOUS
  <1>2. /\ SubSeq(ns, 1, k) \in Seq(Records)
        /\ Len(SubSeq(ns, 1, k)) = IF 1 =< k THEN k - 1 + 1 ELSE 0
        /\ \A i \in 1 .. k - 1 + 1 : SubSeq(ns, 1, k)[i] = ns[1 + i - 1]
    BY <1>1, SubSeqProperties
  <1>3. k - 1 + 1 = k /\ \A i \in 1 .. k : 1 + i - 1 = i
    BY <1>1
  <1> QED BY <1>2, <1>3

\* The node a program damages: the last that starts at or before the address.
Damaged(b, at, i) == /\ UsedBy(SubSeq(b.nodes, 1, i)) =< at
                     /\ \A j \in i + 1 .. Len(b.nodes) :
                            UsedBy(SubSeq(b.nodes, 1, j)) > at

\* There is one.
LEMMA DamagedExists ==
  ASSUME NEW b \in Logs, NEW at \in Nat
  PROVE  \E i \in 0 .. Len(b.nodes) : Damaged(b, at, i)
  <1> DEFINE n == Len(b.nodes)
             u(i) == UsedBy(SubSeq(b.nodes, 1, i))
             T == {i \in 0 .. n : \E j \in i .. n : u(j) =< at}
  <1>1. b.nodes \in Seq(Records) /\ n \in Nat
    BY DEF Logs
  <1>2. \A i \in 0 .. n : u(i) \in Nat
    BY <1>1, PrefixOK, UsedAppend
  <1>3. u(0) = 0
    <2>1. SubSeq(b.nodes, 1, 0) = <<>>
      BY <1>1, SubSeqEmpty
    <2> QED BY <2>1, UsedAppend
  <1> SUFFICES ASSUME \A i \in 0 .. n : ~Damaged(b, at, i) PROVE FALSE
    OBVIOUS
  <1> HIDE DEF n, u
  <1>4. \A i \in 0 .. n : u(i) =< at => \E j \in i + 1 .. n : u(j) =< at
    <2> TAKE i \in 0 .. n
    <2>1. ~(u(i) =< at /\ \A j \in i + 1 .. n : u(j) > at)
      BY DEF Damaged, u, n
    <2>2. \A j \in i + 1 .. n : j \in 0 .. n
      BY <1>1
    <2> QED BY <1>2, <2>1, <2>2
  <1>5. 0 \in T
    BY <1>1, <1>3
  <1>6. ASSUME NEW i \in 0 .. n, i \in T, i < n PROVE i + 1 \in T
    <2>1. PICK j \in i .. n : u(j) =< at
      BY <1>6
    <2>2. CASE j = i
      BY <1>1, <1>4, <1>6, <2>1, <2>2
    <2>3. CASE j # i
      BY <1>1, <1>6, <2>1, <2>3
    <2> QED BY <2>2, <2>3
  <1>7. n \in T
    <2>1. \A i \in 0 .. n : i \in T
      <3> HIDE DEF T
      <3> QED BY <1>1, <1>5, <1>6, CountUp
    <2>2. n \in 0 .. n
      BY <1>1
    <2> HIDE DEF T
    <2> QED BY <2>1, <2>2
  <1>8. u(n) =< at
    BY <1>1, <1>7
  <1> QED BY <1>1, <1>4, <1>8

\* A spoilt program leaves a prefix of the log.
LEMMA GarbledOK ==
  ASSUME NEW b \in Logs, NEW at \in Nat
  PROVE  Garbled(b, at) \in Logs
  <1>1. /\ b = [nodes |-> b.nodes, junk |-> b.junk, mark |-> b.mark]
        /\ b.nodes \in Seq(Records) /\ Spoilt(b.mark) \in [kind : {"none", "part", "full", "bad"}, n : Nat]
    BY DEF Logs, Spoilt, BadMark
  <1>2. CASE at > Used(b) /\ b.junk # "tail"
    <2>1. Garbled(b, at) = [nodes |-> b.nodes, junk |-> "body", mark |-> Spoilt(b.mark)]
      BY <1>1, <1>2 DEF Garbled
    <2> QED BY <1>1, <2>1 DEF Logs
  <1>3. CASE ~(at > Used(b) /\ b.junk # "tail")
    <2> DEFINE k == CHOOSE i \in 0 .. Len(b.nodes) : Damaged(b, at, i)
    <2>1. Garbled(b, at) = [nodes |-> SubSeq(b.nodes, 1, k), junk |-> "tail", mark |-> Spoilt(b.mark)]
      BY <1>3 DEF Garbled, Damaged
    <2>2. k \in 0 .. Len(b.nodes)
      BY DamagedExists
    <2> HIDE DEF k
    <2>3. SubSeq(b.nodes, 1, k) \in Seq(Records)
      BY <1>1, <2>2, PrefixOK
    <2> QED BY <1>1, <2>1, <2>3 DEF Logs
  <1> QED BY <1>2, <1>3

\* A program that power failed in right behind the log keeps its nodes.
LEMMA GarbledBehind ==
  ASSUME NEW b \in Logs
  PROVE  Garbled(b, Used(b)) = [nodes |-> b.nodes, junk |-> "tail", mark |-> Spoilt(b.mark)]
  <1> DEFINE n == Len(b.nodes)
             k == CHOOSE i \in 0 .. n : Damaged(b, Used(b), i)
  <1>1. b.nodes \in Seq(Records) /\ n \in Nat /\ Used(b) \in Nat
    BY UsedNat DEF Logs
  <1>2. Garbled(b, Used(b)) = [nodes |-> SubSeq(b.nodes, 1, k), junk |-> "tail", mark |-> Spoilt(b.mark)]
    BY <1>1 DEF Garbled, Damaged
  <1>3. k \in 0 .. n /\ Damaged(b, Used(b), k)
    BY <1>1, DamagedExists
  <1>4. SubSeq(b.nodes, 1, n) = b.nodes
    BY <1>1, SubSeqFull
  <1> HIDE DEF k
  <1>5. k = n
    <2> SUFFICES ASSUME k # n PROVE FALSE
      OBVIOUS
    <2>1. n \in k + 1 .. n
      BY <1>1, <1>3
    <2>2. UsedBy(SubSeq(b.nodes, 1, n)) > Used(b)
      BY <1>3, <2>1 DEF Damaged
    <2>3. UsedBy(SubSeq(b.nodes, 1, n)) = Used(b)
      BY <1>4 DEF Used
    <2> HIDE DEF n
    <2> QED BY <1>1, <2>2, <2>3
  <1> QED BY <1>2, <1>4, <1>5

\* A program right behind a clean log adds its node.
LEMMA ProgrammedBehind ==
  ASSUME NEW b \in Logs, NEW n \in Records, b.junk = "no"
  PROVE  /\ Programmed(b, Used(b), n)
              = [nodes |-> Append(b.nodes, n), junk |-> "no", mark |-> b.mark]
         /\ Programmed(b, Used(b), n) \in Logs
         /\ Used(Programmed(b, Used(b), n)) = Used(b) + Len(n.data) + Extra
  <1>1. b = [nodes |-> b.nodes, junk |-> b.junk, mark |-> b.mark] /\ b.nodes \in Seq(Records)
    BY DEF Logs
  <1>2. Programmed(b, Used(b), n) = [nodes |-> Append(b.nodes, n), junk |-> "no", mark |-> b.mark]
    BY <1>1 DEF Programmed
  <1>3. Append(b.nodes, n) \in Seq(Records)
    BY <1>1, AppendProperties
  <1>4. Programmed(b, Used(b), n) \in Logs
    BY <1>2, <1>3 DEF Logs
  <1> QED BY <1>1, <1>2, <1>4, UsedAppend DEF Used

\* Whatever is programmed, wherever, a half stays a log.
LEMMA ProgrammedOK ==
  ASSUME NEW b \in Logs, NEW at \in Nat, NEW n \in Records
  PROVE  Programmed(b, at, n) \in Logs
  BY GarbledOK, ProgrammedBehind DEF Programmed

\* The mark changes nothing else.
LEMMA MarkedOK ==
  ASSUME NEW b \in Logs
  PROVE  /\ MarkedFull(b) \in Logs /\ MarkedPart(b) \in Logs
         /\ MarkedFull(b).nodes = b.nodes /\ MarkedFull(b).junk = b.junk /\ Marked(MarkedFull(b))
         /\ MarkedPart(b).nodes = b.nodes /\ MarkedPart(b).junk = b.junk /\ Marked(MarkedPart(b))
         /\ ~Marked(b) => Sealed(MarkedFull(b))
  <1>1. /\ b = [nodes |-> b.nodes, junk |-> b.junk, mark |-> b.mark]
        /\ b.nodes \in Seq(Records) /\ Len(b.nodes) \in Nat
        /\ b.mark \in [kind : {"none", "part", "full", "bad"}, n : Nat]
    BY DEF Logs
  <1>2. PICK m \in [kind : {"none", "part", "full", "bad"}, n : Nat] :
           /\ MarkedFull(b) = [nodes |-> b.nodes, junk |-> b.junk, mark |-> m]
           /\ b.mark.kind = "none" => m = [kind |-> "full", n |-> Len(b.nodes)]
           /\ m.kind # "none"
    <2> DEFINE m == IF b.mark.kind = "none" \/ (b.mark.kind # "bad" /\ b.mark.n = Len(b.nodes))
                    THEN [kind |-> "full", n |-> Len(b.nodes)] ELSE BadMark
    <2>1. m \in [kind : {"none", "part", "full", "bad"}, n : Nat] /\ m.kind # "none"
      BY <1>1 DEF BadMark
    <2>2. b.mark.kind = "none" => m = [kind |-> "full", n |-> Len(b.nodes)]
      OBVIOUS
    <2>3. MarkedFull(b) = [nodes |-> b.nodes, junk |-> b.junk, mark |-> m]
      BY <1>1 DEF MarkedFull
    <2> HIDE DEF m
    <2> QED BY <2>1, <2>2, <2>3
  <1>3. PICK p \in [kind : {"none", "part", "full", "bad"}, n : Nat] :
           MarkedPart(b) = [nodes |-> b.nodes, junk |-> b.junk, mark |-> p] /\ p.kind # "none"
    <2> DEFINE p == IF b.mark.kind = "none" THEN [kind |-> "part", n |-> Len(b.nodes)] ELSE b.mark
    <2>1. p \in [kind : {"none", "part", "full", "bad"}, n : Nat] /\ p.kind # "none"
      BY <1>1
    <2>2. MarkedPart(b) = [nodes |-> b.nodes, junk |-> b.junk, mark |-> p]
      BY <1>1 DEF MarkedPart
    <2> HIDE DEF p
    <2> QED BY <2>1, <2>2
  <1>4. MarkedFull(b) \in Logs /\ MarkedPart(b) \in Logs
    BY <1>1, <1>2, <1>3 DEF Logs
  <1>5. Marked(MarkedFull(b)) /\ Marked(MarkedPart(b))
    BY <1>2, <1>3 DEF Marked
  <1>6. ~Marked(b) => Sealed(MarkedFull(b))
    BY <1>2 DEF Marked, Sealed
  <1> QED BY <1>2, <1>3, <1>4, <1>5, <1>6

\* A half that was half erased is blank, or one whose mark does not hold.
LEMMA HalfErasedOK ==
  ASSUME NEW b \in Logs, NEW e \in HalfErased(b)
  PROVE  /\ e \in Logs
         /\ Sealed(b) => Stale(e)
         /\ ~Marked(b) => ~Marked(e)
         /\ Stale(b) => Stale(e)
  <1>1. /\ b = [nodes |-> b.nodes, junk |-> b.junk, mark |-> b.mark]
        /\ b.nodes \in Seq(Records) /\ Len(b.nodes) \in Nat
        /\ b.mark \in [kind : {"none", "part", "full", "bad"}, n : Nat]
    BY DEF Logs
  <1>2. CASE b = Blank
    <2>1. e = Blank
      BY <1>2 DEF HalfErased
    <2> QED BY <2>1, <1>2, BlankOK DEF Stale
  <1>3. CASE b # Blank
    <2>1. /\ Spoilt(b.mark) \in [kind : {"none", "bad"}, n : Nat]
          /\ Unmarked \in [kind : {"none", "bad"}, n : Nat] /\ Unmarked.kind = "none"
          /\ Spoilt(b.mark).kind = "none" <=> b.mark.kind = "none"
      BY <1>1 DEF Spoilt, BadMark, Unmarked
    <2>2. CASE \E k \in 0 .. Len(b.nodes) - 1 :
                  e = [nodes |-> SubSeq(b.nodes, 1, k), junk |-> "tail", mark |-> Spoilt(b.mark)]
      <3>1. PICK k \in 0 .. Len(b.nodes) - 1 :
                  e = [nodes |-> SubSeq(b.nodes, 1, k), junk |-> "tail", mark |-> Spoilt(b.mark)]
        BY <2>2
      <3>2. k \in 0 .. Len(b.nodes)
        BY <1>1
      <3>3. SubSeq(b.nodes, 1, k) \in Seq(Records)
        BY <1>1, <3>2, PrefixOK
      <3>4. e \in Logs
        BY <2>1, <3>1, <3>3 DEF Logs
      <3>5. Len(b.nodes) # 0 /\ b.nodes # <<>>
        BY <1>1
      <3>6. e.mark = Spoilt(b.mark)
        BY <3>1
      <3> HIDE <3>1
      <3>7. Stale(b) => Marked(b)
        BY <3>5 DEF Stale, HeadBlank
      <3>8. Sealed(b) => Marked(b)
        BY DEF Sealed, Marked
      <3>9. Marked(e) <=> Marked(b)
        BY <2>1, <3>6 DEF Marked
      <3>10. ~Sealed(e)
        BY <2>1, <3>6 DEF Sealed
      <3> QED BY <3>4, <3>7, <3>8, <3>9, <3>10 DEF Stale
    <2>3. CASE e \in {[nodes |-> <<>>, junk |-> "body", mark |-> m] : m \in {Spoilt(b.mark), Unmarked}}
      <3>1. PICK m \in {Spoilt(b.mark), Unmarked} : e = [nodes |-> <<>>, junk |-> "body", mark |-> m]
        BY <2>3
      <3>2. <<>> \in Seq(Records)
        OBVIOUS
      <3>3. e \in Logs
        BY <2>1, <3>1, <3>2 DEF Logs
      <3>4. HeadBlank(e)
        BY <3>1 DEF HeadBlank
      <3>5. ~Sealed(e)
        BY <2>1, <3>1 DEF Sealed
      <3>6. ~Marked(b) => ~Marked(e)
        BY <2>1, <3>1 DEF Marked
      <3> QED BY <3>3, <3>4, <3>5, <3>6 DEF Stale
    <2> QED BY <1>3, <2>2, <2>3 DEF HalfErased
  <1> QED BY <1>2, <1>3
-----------------------------------------------------------------------------
(* The lists of what a call has to do.                                     *)

\* Length, first and second step tell them from each other.
LEMMA TodosDiffer ==
  /\ Len(FullWrite) = 6
  /\ Len(Full_Buffer) = 5 /\ Head(Full_Buffer) = "buffer"
  /\ Len(Full_Sync) = 4
  /\ Len(Full_Erase) = 3 /\ Head(Full_Erase) = "erase" /\ Full_Erase[2] = "switch"
  /\ Len(Full_Switch) = 2 /\ Head(Full_Switch) = "switch"
  /\ Len(PlainWrite) = 3 /\ Head(PlainWrite) = "node"
  /\ Len(Plain_Buffer) = 2 /\ Head(Plain_Buffer) = "buffer"
  /\ Len(Compact) = 5 /\ Head(Compact) = "erase_next"
  /\ Len(KeepCurrent) = 2 /\ Head(KeepCurrent) = "erase_next"
  /\ Len(EraseBoth) = 3 /\ Head(EraseBoth) = "erase" /\ EraseBoth[2] = "erase_next"
  /\ Len(Ending) = 1
  /\ Len(<<>>) = 0
  BY DEF FullWrite, Full_Buffer, Full_Sync, Full_Erase, Full_Switch, PlainWrite, Plain_Buffer,
         Compact, KeepCurrent, EraseBoth, Ending

\* What comes first in each, and what is left after it.
LEMMA TodoTails ==
  /\ FullWrite # <<>> /\ Head(FullWrite) = "mark" /\ Tail(FullWrite) = Full_Buffer
  /\ Full_Buffer # <<>> /\ Head(Full_Buffer) = "buffer" /\ Tail(Full_Buffer) = Full_Sync
  /\ Full_Sync # <<>> /\ Head(Full_Sync) = "sync" /\ Tail(Full_Sync) = Full_Erase
  /\ Full_Erase # <<>> /\ Head(Full_Erase) = "erase" /\ Tail(Full_Erase) = Full_Switch
  /\ Full_Switch # <<>> /\ Head(Full_Switch) = "switch" /\ Tail(Full_Switch) = Ending
  /\ PlainWrite # <<>> /\ Head(PlainWrite) = "node" /\ Tail(PlainWrite) = Plain_Buffer
  /\ Plain_Buffer # <<>> /\ Head(Plain_Buffer) = "buffer" /\ Tail(Plain_Buffer) = Ending
  /\ Compact # <<>> /\ Head(Compact) = "erase_next" /\ Tail(Compact) = Full_Sync
  /\ KeepCurrent # <<>> /\ Head(KeepCurrent) = "erase_next" /\ Tail(KeepCurrent) = Ending
  /\ EraseBoth # <<>> /\ Head(EraseBoth) = "erase" /\ Tail(EraseBoth) = KeepCurrent
  /\ Ending # <<>> /\ Head(Ending) = "done" /\ Tail(Ending) = <<>>
  <1>1. /\ FullWrite # <<>> /\ Head(FullWrite) = "mark"
        /\ Full_Buffer # <<>> /\ Full_Sync # <<>> /\ Head(Full_Sync) = "sync"
        /\ Full_Erase # <<>> /\ Full_Switch # <<>> /\ PlainWrite # <<>> /\ Plain_Buffer # <<>>
        /\ Compact # <<>> /\ KeepCurrent # <<>> /\ EraseBoth # <<>> /\ Ending # <<>>
        /\ Head(Ending) = "done"
    BY DEF FullWrite, Full_Buffer, Full_Sync, Full_Erase, Full_Switch, PlainWrite, Plain_Buffer,
           Compact, KeepCurrent, EraseBoth, Ending
  <1>2. Tail(FullWrite) = Full_Buffer
    BY DEF FullWrite, Full_Buffer
  <1>3. Tail(Full_Buffer) = Full_Sync
    BY DEF Full_Buffer, Full_Sync
  <1>4. Tail(Full_Sync) = Full_Erase
    BY DEF Full_Sync, Full_Erase
  <1>5. Tail(Full_Erase) = Full_Switch
    BY DEF Full_Erase, Full_Switch
  <1>6. Tail(Full_Switch) = Ending
    BY DEF Full_Switch, Ending
  <1>7. Tail(PlainWrite) = Plain_Buffer
    BY DEF PlainWrite, Plain_Buffer
  <1>8. Tail(Plain_Buffer) = Ending
    BY DEF Plain_Buffer, Ending
  <1>9. Tail(Compact) = Full_Sync
    BY DEF Compact, Full_Sync
  <1>10. Tail(KeepCurrent) = Ending
    BY DEF KeepCurrent, Ending
  <1>11. Tail(EraseBoth) = KeepCurrent
    BY DEF KeepCurrent, EraseBoth
  <1>12. Tail(Ending) = <<>>
    BY DEF Ending
  <1> QED BY <1>1, <1>2, <1>3, <1>4, <1>5, <1>6, <1>7, <1>8, <1>9, <1>10, <1>11, <1>12, TodosDiffer

\* What each step leaves to do.
LEMMA TodoSteps ==
  ASSUME NEW t \in Todos, t # <<>>
  PROVE  /\ Head(t) = "node" => t = PlainWrite /\ Tail(t) = Plain_Buffer
         /\ Head(t) = "mark" => t = FullWrite /\ Tail(t) = Full_Buffer
         /\ Head(t) = "buffer" => \/ t = Full_Buffer /\ Tail(t) = Full_Sync
                                  \/ t = Plain_Buffer /\ Tail(t) = Ending
         /\ Head(t) = "sync" => t = Full_Sync /\ Tail(t) = Full_Erase
         /\ Head(t) = "erase" => \/ t = Full_Erase /\ Tail(t) = Full_Switch
                                 \/ t = EraseBoth /\ Tail(t) = KeepCurrent
         /\ Head(t) = "erase_next" => \/ t = Compact /\ Tail(t) = Full_Sync
                                      \/ t = KeepCurrent /\ Tail(t) = Ending
         /\ Head(t) = "switch" => t = Full_Switch /\ Tail(t) = Ending
         /\ Head(t) = "done" => t = Ending /\ Tail(t) = <<>>
         /\ Tail(t) \in Todos
         /\ Tail(t) \in Writing => t \in Writing
  <1>1. \/ t = FullWrite \/ t = Full_Buffer \/ t = PlainWrite \/ t = Plain_Buffer
        \/ t = Full_Sync \/ t = Full_Erase \/ t = Full_Switch \/ t = Compact \/ t = KeepCurrent
        \/ t = EraseBoth \/ t = Ending
    BY DEF Todos, Writing
  <1>2. Tail(t) \in Todos
    BY <1>1, TodoTails DEF Todos, Writing
  <1>3. Tail(t) \in Writing => t \in Writing
    BY <1>1, TodoTails, TodosDiffer, ZenonT(60) DEF Writing
  <1> QED BY <1>1, <1>2, <1>3, TodoTails

\* The steps after the array has its value, and those of a boot.
LEMMA NotWriting ==
  /\ Ending \in Todos /\ Compact \in Todos /\ KeepCurrent \in Todos /\ EraseBoth \in Todos
  /\ <<>> \in Todos
  /\ FullWrite \in Writing /\ PlainWrite \in Writing /\ Writing \subseteq Todos
  /\ Ending \notin Writing /\ Compact \notin Writing /\ KeepCurrent \notin Writing
  /\ EraseBoth \notin Writing /\ <<>> \notin Writing /\ Full_Sync \notin Writing
  <1>1. Ending \notin Writing
    BY TodosDiffer DEF Writing
  <1>2. Compact \notin Writing
    BY TodosDiffer DEF Writing
  <1>3. KeepCurrent \notin Writing
    BY TodosDiffer DEF Writing
  <1>4. EraseBoth \notin Writing
    BY TodosDiffer DEF Writing
  <1>5. <<>> \notin Writing
    BY TodosDiffer DEF Writing
  <1>6. Full_Sync \notin Writing
    BY TodosDiffer DEF Writing
  <1> QED BY <1>1, <1>2, <1>3, <1>4, <1>5, <1>6 DEF Todos, Writing

-----------------------------------------------------------------------------
(* The shape of every state.                                               *)

\* What a write or a copy programs is a node.
LEMMA NodeOK ==
  ASSUME NEW start \in Nat, NEW data \in Seq(Values), data # <<>>
  PROVE  /\ Node(start, data) \in Records
         /\ Node(start, data).data = data
         /\ start < BufSize => Node(start, data).start = start
  <1>1. start % StartMod \in Nat
    BY Sizes
  <1>2. start < BufSize => start % StartMod = start
    BY Sizes
  <1> QED BY <1>1, <1>2 DEF Node, Records

\* What sync_to_next_block programs is the copy of the next range.
LEMMA SyncedNodeIs ==
  ASSUME Shape, synced < Len(nodes)
  PROVE  /\ SyncedNode = CopiedNode(Ram, nodes[synced + 1]) /\ SyncedNode \in Records
         /\ nodes[synced + 1] \in Ranges
  <1>1. /\ nodes \in Seq(Ranges) /\ synced \in 0 .. Len(nodes) /\ MemOK(Ram)
        /\ Ram.nodes = nodes /\ Ram.buffer = buffer
    BY DEF Shape, MemOK, ListOK, Ram
  <1>2. nodes[synced + 1] \in Ranges
    <2>1. synced + 1 \in 1 .. Len(nodes)
      BY <1>1
    <2> QED BY <1>1, <2>1
  <1>3. SyncedNode = CopiedNode(Ram, nodes[synced + 1])
    BY <1>1 DEF SyncedNode, CopiedNode
  <1> QED BY <1>1, <1>2, <1>3, CopiedNodeFacts

\* The initial state has the shape.
LEMMA InitShape ==
  ASSUME Init
  PROVE  Shape
  <1>1. flash \in [0 .. 1 -> Logs]
    BY BlankOK DEF Init
  <1>2. Ram = Empty /\ nodes = <<>> /\ acked = Zero
    BY DEF Init, Ram, Empty
  <1>3. MemOK(Ram) /\ acked \in Arrays
    <2>1. Empty.buffer = Zero
      BY DEF Empty
    <2> QED BY <1>2, <2>1, EmptyOK DEF MemOK
  <1>4. todo \in Todos /\ todo \notin Writing
    BY NotWriting DEF Init
  <1>5. wr \in [start : Nat, data : Seq(Values), cut : BOOLEAN]
    <2>1. <<>> \in Seq(Values)
      OBVIOUS
    <2> QED BY <2>1 DEF Init, NoWrite
  <1>6. synced \in 0 .. Len(nodes)
    BY <1>2 DEF Init
  <1> QED BY <1>1, <1>3, <1>4, <1>5, <1>6, Sizes DEF Init, Shape

\* A boot scans one half, or starts over.
LEMMA BootShape ==
  ASSUME Shape, Boot
  PROVE  Shape'
  <1>1. /\ flash' = flash /\ acked' = acked /\ wr' = wr /\ writes' = writes /\ cuts' = cuts
        /\ synced' = 0
    BY TodoTails DEF Shape, Boot, BootBlank, BootBroken, BootOne, BootSealed, BootUnmarked, BootHeaded, Booting
  <1>2. power' \in {"on", "dead"}
    BY DEF Boot, BootBlank, BootBroken, BootOne, BootSealed, BootUnmarked, BootHeaded
  <1>3. ASSUME NEW h \in 0 .. 1, NEW t \in {Ending, Compact, KeepCurrent}, Use(h, t)
        PROVE  Shape'
    <2>1. flash[h] \in Logs /\ flash[h].nodes \in Seq(Records)
      BY DEF Shape, Logs
    <2>2. MemOK(Scan(flash[h]))
      BY <2>1, ReplayAppend DEF Scan
    <2>3. Ram' = Scan(flash[h])
      BY <1>3, <2>2 DEF Use, Ram, MemOK
    <2>4. MemOK(Ram')
      BY <2>2, <2>3
    <2>5. todo' \in Todos /\ todo' \notin Writing
      BY <1>3, NotWriting DEF Use
    <2>6. cur' \in 0 .. 1 /\ ofs' \in Nat /\ ofs_next' \in Nat
      BY <1>3, <2>1, UsedNat DEF Use
    <2>7. synced' \in 0 .. Len(nodes')
      <3>1. nodes' \in Seq(Ranges)
        BY <2>4 DEF MemOK, ListOK, Ram
      <3> QED BY <1>1, <3>1
    <2> QED BY <1>1, <1>2, <2>4, <2>5, <2>6, <2>7 DEF Shape
  <1>4. CASE BootBroken
    <2>1. Ram' = Empty
      BY <1>4 DEF BootBroken, Ram, Empty
    <2>2. todo' \in Todos /\ todo' \notin Writing
      BY <1>4, NotWriting DEF BootBroken
    <2>3. cur' \in 0 .. 1 /\ ofs' \in Nat /\ ofs_next' \in Nat /\ nodes' = <<>>
      BY <1>4 DEF BootBroken
    <2>4. MemOK(Ram')
      BY <2>1, EmptyOK
    <2>5. synced' \in 0 .. Len(nodes')
      BY <1>1, <2>3
    <2> QED BY <1>1, <1>2, <2>2, <2>3, <2>4, <2>5 DEF Shape
  <1>5. CASE BootBlank
    <2>1. Use(0, Ending)
      BY <1>5 DEF BootBlank, Ending
    <2> QED BY <1>3, <2>1
  <1>6. ASSUME NEW h \in 0 .. 1, BootOne(h) \/ BootSealed(h) \/ BootUnmarked(h) \/ BootHeaded(h)
        PROVE  \E t \in {Ending, Compact, KeepCurrent} : Use(h, t)
    <2>1. CASE BootOne(h)
      <3>1. Use(h, IF Corrupted(flash[h]) THEN Compact ELSE Ending)
        BY <2>1 DEF BootOne, Ending
      <3> QED BY <3>1
    <2>2. CASE BootSealed(h)
      BY <2>2 DEF BootSealed
    <2>3. CASE BootUnmarked(h)
      BY <2>3 DEF BootUnmarked
    <2>4. CASE BootHeaded(h)
      BY <2>4 DEF BootHeaded
    <2> QED BY <1>6, <2>1, <2>2, <2>3, <2>4
  <1> QED BY <1>3, <1>4, <1>5, <1>6 DEF Boot

\* A write is of new values, not longer than the requests.
LEMMA WriteShape ==
  ASSUME Shape, NEW rq \in Requests, Write(rq[1], rq[2])
  PROVE  /\ Shape'
         /\ wr'.data # <<>> /\ Len(wr'.data) = rq[2] /\ wr'.start = rq[1] /\ ~wr'.cut
         /\ wr' # NoWrite
  <1> DEFINE d == [i \in 1 .. rq[2] |-> writes + 1]
  <1>1. rq[1] \in Nat /\ rq[2] \in Nat \ {0} /\ writes + 1 \in Values
    BY SizesAssumption DEF Write, Shape, Values
  <1>2. d \in Seq(Values) /\ Len(d) = rq[2] /\ d # <<>>
    <2>1. d \in [1 .. rq[2] -> Values]
      BY <1>1
    <2>2. d \in Seq(Values) /\ Len(d) = rq[2]
      <3> HIDE DEF d
      <3> QED BY <1>1, <2>1
    <2> HIDE DEF d
    <2> QED BY <1>1, <2>2
  <1>3. wr' = [start |-> rq[1], data |-> d, cut |-> FALSE]
    BY DEF Write
  <1> HIDE DEF d
  <1>4. wr' \in [start : Nat, data : Seq(Values), cut : BOOLEAN]
    BY <1>1, <1>2, <1>3
  <1>5. /\ flash' = flash /\ cur' = cur /\ ofs' = ofs /\ ofs_next' = ofs_next /\ buffer' = buffer
        /\ nodes' = nodes /\ synced' = synced /\ acked' = acked /\ power' = power /\ cuts' = cuts
    BY DEF Write, ram
  <1>6. todo' \in Todos
    BY NotWriting DEF Write
  <1>7. writes' \in 0 .. MaxWrites
    BY Sizes DEF Write, Shape
  <1>8. Ram' = Ram
    BY <1>5 DEF Ram
  <1>9. Shape'
    <2>1. synced = 0 /\ power' # "off"
      BY TodoTails DEF Shape, Write, Ready
    <2> QED BY <2>1, <1>2, <1>3, <1>4, <1>5, <1>6, <1>7, <1>8 DEF Shape
  <1>10. wr' # NoWrite
    BY <1>2, <1>3 DEF NoWrite
  <1> QED BY <1>2, <1>3, <1>9, <1>10

\* Each step of a call keeps the shape.
LEMMA StepShape ==
  ASSUME Shape, power = "on", Step
  PROVE  Shape'
  <1>1. /\ todo \in Todos /\ todo # <<>> /\ power' = "on" /\ writes' = writes /\ cuts' = cuts
        /\ Doing(Head(todo))
    BY DEF Shape, Step, UpdateBlock, SaveCrc, WriteBuffer, SyncNode, SyncDone, EraseBlock,
           EraseNextBlock, SwitchBlock, Finish, Doing
  <1>2. todo' \in Todos /\ (todo' \in Writing => todo \in Writing)
    <2>1. todo' \in {todo, Tail(todo)}
      BY DEF Step, UpdateBlock, SaveCrc, WriteBuffer, SyncNode, SyncDone, EraseBlock,
             EraseNextBlock, SwitchBlock, Finish, Next1
    <2> QED BY <1>1, <2>1, TodoSteps
  <1>3. /\ flash \in [0 .. 1 -> Logs] /\ cur \in 0 .. 1 /\ Other(cur) \in 0 .. 1
        /\ ofs \in Nat /\ ofs_next \in Nat
        /\ MemOK(Ram) /\ synced \in 0 .. Len(nodes)
        /\ wr.start \in Nat /\ wr.data \in Seq(Values)
        /\ todo \in Writing => wr.data # <<>>
    BY DEF Shape, Other
  <1>s. synced' # 0 => todo' = Full_Sync
    <2>1. CASE SyncNode
      BY <1>1, <2>1, TodoSteps DEF SyncNode, Doing
    <2>2. CASE SyncDone
      BY <2>2 DEF SyncDone
    <2>3. CASE ~SyncNode /\ ~SyncDone
      <3>1. Head(todo) # "sync" /\ synced' = synced
        BY <2>3 DEF Step, UpdateBlock, SaveCrc, WriteBuffer, EraseBlock, EraseNextBlock, SwitchBlock,
                    Finish, Doing, ram
      <3> QED BY <3>1, TodoTails DEF Shape
    <2> QED BY <2>1, <2>2, <2>3
  <1>4. CASE UpdateBlock
    <2>1. /\ Ram' = Ram /\ nodes' = nodes /\ wr' = wr /\ cur' = cur /\ acked' = acked /\ synced' = synced
          /\ ofs_next' = ofs_next
      BY <1>4 DEF UpdateBlock, Ram
    <2>2. todo \in Writing
      BY <1>1, <1>4, TodoSteps, NotWriting DEF UpdateBlock, Doing
    <2>3. Node(wr.start, wr.data) \in Records /\ Len(wr.data) \in Nat
      BY <1>3, <2>2, NodeOK
    <2>4. Programmed(flash[cur], ofs, Node(wr.start, wr.data)) \in Logs
      BY <1>3, <2>3, ProgrammedOK
    <2>5. flash' \in [0 .. 1 -> Logs] /\ ofs' \in Nat
      <3>1. CASE flash' = flash /\ ofs' = ofs
        BY <1>3, <3>1
      <3>2. CASE /\ flash' = [flash EXCEPT ![cur] = Programmed(@, ofs, Node(wr.start, wr.data))]
                 /\ ofs' = ofs + Extra + Len(wr.data)
        <4> DEFINE l == Len(wr.data)
        <4>1. l \in Nat /\ ofs' = ofs + Extra + l
          BY <2>3, <3>2
        <4>2. ofs' \in Nat
          <5> HIDE DEF l
          <5> QED BY <1>3, <4>1, Sizes
        <4> QED BY <1>3, <2>4, <3>2, <4>2
      <3> QED BY <1>4, <3>1, <3>2 DEF UpdateBlock
    <2> QED BY <1>1, <1>2, <1>3, <1>s, <2>1, <2>5 DEF Shape
  <1>5. CASE SaveCrc
    <2>1. MarkedFull(flash[cur]) \in Logs
      BY <1>3, MarkedOK
    <2>2. flash' \in [0 .. 1 -> Logs]
      BY <1>3, <1>5, <2>1 DEF SaveCrc
    <2>3. /\ Ram' = Ram /\ nodes' = nodes /\ wr' = wr /\ cur' = cur /\ acked' = acked /\ synced' = synced
          /\ ofs_next' = ofs_next /\ ofs' = ofs
      BY <1>5 DEF SaveCrc, Ram, ram
    <2> QED BY <1>1, <1>2, <1>3, <1>s, <2>2, <2>3 DEF Shape
  <1>6. CASE WriteBuffer
    <2>1. /\ flash' = flash /\ wr' = wr /\ cur' = cur /\ acked' = acked /\ synced' = synced
          /\ ofs_next' = ofs_next /\ ofs' = ofs
      BY <1>6 DEF WriteBuffer
    <2>2. todo \in Writing
      BY <1>1, <1>6, TodoSteps DEF WriteBuffer, Doing, Writing
    <2>3. Writable(wr)
      BY <1>3, <2>2 DEF Writable
    <2>4. MemOK(Update(Ram, wr))
      BY <1>3, <2>3, UpdateOK
    <2>5. Ram' = Update(Ram, wr)
      BY <1>6, <2>4 DEF WriteBuffer, Ram, Update, MemOK
    <2>6. MemOK(Ram')
      BY <2>4, <2>5
    <2>7. synced' \in 0 .. Len(nodes')
      <3>1. synced = 0
        BY <2>2, NotWriting DEF Shape
      <3>2. nodes' \in Seq(Ranges)
        BY <2>6 DEF MemOK, ListOK, Ram
      <3> QED BY <2>1, <3>1, <3>2
    <2> QED BY <1>1, <1>2, <1>3, <1>s, <2>1, <2>6, <2>7 DEF Shape
  <1>7. CASE SyncNode
    <2>1. /\ Ram' = Ram /\ nodes' = nodes /\ wr' = wr /\ cur' = cur /\ acked' = acked
          /\ ofs' = ofs /\ todo' = todo /\ synced' = synced + 1 /\ synced < Len(nodes)
      BY <1>7 DEF SyncNode, Ram
    <2>2. SyncedNode \in Records
      BY <2>1, SyncedNodeIs
    <2>3. Programmed(flash[Other(cur)], ofs_next, SyncedNode) \in Logs
      BY <1>3, <2>2, ProgrammedOK
    <2>4. Len(SyncedNode.data) \in Nat
      BY <2>2 DEF Records
    <2>5. flash' \in [0 .. 1 -> Logs] /\ ofs_next' \in Nat
      <3>1. CASE flash' = flash /\ ofs_next' = ofs_next
        BY <1>3, <3>1
      <3>2. CASE /\ flash' = [flash EXCEPT ![Other(cur)] = Programmed(@, ofs_next, SyncedNode)]
                 /\ ofs_next' = ofs_next + Extra + Len(SyncedNode.data)
        <4>1. flash' \in [0 .. 1 -> Logs]
          BY <1>3, <2>3, <3>2
        <4>2. ofs_next' \in Nat
          <5> DEFINE l == Len(SyncedNode.data)
          <5>1. l \in Nat /\ ofs_next' = ofs_next + Extra + l
            BY <2>4, <3>2
          <5> HIDE DEF l
          <5> QED BY <1>3, <5>1, Sizes
        <4> QED BY <4>1, <4>2
      <3> QED BY <1>7, <3>1, <3>2 DEF SyncNode
    <2>6. synced' \in 0 .. Len(nodes')
      <3>1. nodes \in Seq(Ranges)
        BY <1>3 DEF MemOK, ListOK, Ram
      <3> QED BY <1>3, <2>1, <3>1
    <2>7. todo = Full_Sync /\ todo' \notin Writing
      <3>1. todo = Full_Sync
        BY <1>1, <1>7, TodoSteps DEF SyncNode, Doing
      <3> QED BY <2>1, <3>1, NotWriting
    <2> QED BY <1>1, <1>2, <1>3, <1>s, <2>1, <2>5, <2>6, <2>7 DEF Shape
  <1>8. CASE SyncDone
    <2>1. /\ Ram' = Ram /\ nodes' = nodes /\ wr' = wr /\ cur' = cur /\ acked' = acked /\ flash' = flash
          /\ ofs' = ofs /\ ofs_next' = ofs_next /\ synced' = 0
      BY <1>8 DEF SyncDone, Ram
    <2>2. synced' \in 0 .. Len(nodes')
      BY <1>3, <2>1
    <2> QED BY <1>1, <1>2, <1>3, <1>s, <2>1, <2>2 DEF Shape
  <1>9. CASE EraseBlock
    <2>1. /\ Ram' = Ram /\ nodes' = nodes /\ wr' = wr /\ cur' = cur /\ acked' = acked /\ synced' = synced
          /\ ofs' = 0 /\ ofs_next' = ofs_next
      BY <1>9 DEF EraseBlock, Ram
    <2>2. flash' \in [0 .. 1 -> Logs]
      BY <1>3, <1>9, BlankOK DEF EraseBlock
    <2> QED BY <1>1, <1>2, <1>3, <1>s, <2>1, <2>2 DEF Shape
  <1>10. CASE EraseNextBlock
    <2>1. /\ Ram' = Ram /\ nodes' = nodes /\ wr' = wr /\ cur' = cur /\ acked' = acked /\ synced' = synced
          /\ ofs' = ofs /\ ofs_next' = 0
      BY <1>10 DEF EraseNextBlock, Ram
    <2>2. flash' \in [0 .. 1 -> Logs]
      BY <1>3, <1>10, BlankOK DEF EraseNextBlock
    <2> QED BY <1>1, <1>2, <1>3, <1>s, <2>1, <2>2 DEF Shape
  <1>11. CASE SwitchBlock
    <2>1. /\ Ram' = Ram /\ nodes' = nodes /\ wr' = wr /\ cur' = Other(cur) /\ acked' = acked
          /\ synced' = synced /\ flash' = flash /\ ofs' = ofs_next /\ ofs_next' = ofs
      BY <1>11 DEF SwitchBlock, Ram
    <2> QED BY <1>1, <1>2, <1>3, <1>s, <2>1 DEF Shape
  <1>12. CASE Finish
    <2>1. /\ Ram' = Ram /\ nodes' = nodes /\ wr' = NoWrite /\ cur' = cur /\ acked' = buffer
          /\ synced' = synced /\ flash' = flash /\ ofs' = ofs /\ ofs_next' = ofs_next
      BY <1>12 DEF Finish, Ram, ram
    <2>2. wr' \in [start : Nat, data : Seq(Values), cut : BOOLEAN]
      <3>1. <<>> \in Seq(Values)
        OBVIOUS
      <3> QED BY <2>1, <3>1 DEF NoWrite
    <2>3. todo' = <<>>
      BY <1>1, <1>12, TodoSteps DEF Finish, Doing, Next1
    <2>4. acked' \in Arrays
      BY <1>3, <2>1 DEF MemOK, Ram
    <2> QED BY <1>1, <1>2, <1>3, <1>s, <2>1, <2>2, <2>3, <2>4, NotWriting DEF Shape
  <1> QED BY <1>4, <1>5, <1>6, <1>7, <1>8, <1>9, <1>10, <1>11, <1>12 DEF Step

\* A power cut leaves the flash as it is, or with one half damaged, and an empty
\* RAM.
LEMMA CutShape ==
  ASSUME Shape, PowerCut
  PROVE  Shape'
  <1>1. /\ flash \in [0 .. 1 -> Logs] /\ cur \in 0 .. 1 /\ Other(cur) \in 0 .. 1
        /\ ofs \in Nat /\ ofs_next \in Nat
    BY DEF Shape, Other
  <1>2. ASSUME NEW op, NEW f \in CutDuring(op) PROVE f \in [0 .. 1 -> Logs]
    <2>1. ASSUME NEW h \in 0 .. 1, NEW b \in Logs, f = [flash EXCEPT ![h] = b]
          PROVE  f \in [0 .. 1 -> Logs]
      BY <1>1, <2>1
    <2>2. CASE op = "node"
      <3>1. f = [flash EXCEPT ![cur] = Garbled(flash[cur], ofs)]
        BY <1>2, <2>2 DEF CutDuring
      <3> QED BY <1>1, <2>1, <3>1, GarbledOK
    <2>3. CASE op = "sync"
      <3>1. f = [flash EXCEPT ![Other(cur)] = Garbled(flash[Other(cur)], ofs_next)]
        BY <1>2, <2>3 DEF CutDuring
      <3> QED BY <1>1, <2>1, <3>1, GarbledOK
    <2>4. CASE op = "mark"
      <3>1. f = [flash EXCEPT ![cur] = MarkedPart(flash[cur])]
        BY <1>2, <2>4 DEF CutDuring
      <3> QED BY <1>1, <2>1, <3>1, MarkedOK
    <2>5. CASE op = "erase"
      <3>1. PICK b \in HalfErased(flash[cur]) : f = [flash EXCEPT ![cur] = b]
        BY <1>2, <2>5 DEF CutDuring
      <3> QED BY <1>1, <2>1, <3>1, HalfErasedOK
    <2>6. CASE op = "erase_next"
      <3>1. PICK b \in HalfErased(flash[Other(cur)]) : f = [flash EXCEPT ![Other(cur)] = b]
        BY <1>2, <2>6 DEF CutDuring
      <3> QED BY <1>1, <2>1, <3>1, HalfErasedOK
    <2>7. CASE op \notin {"node", "sync", "mark", "erase", "erase_next"}
      BY <1>2, <2>7 DEF CutDuring
    <2> QED BY <2>2, <2>3, <2>4, <2>5, <2>6, <2>7
  <1>3. flash' \in [0 .. 1 -> Logs]
    BY <1>1, <1>2 DEF PowerCut
  <1>4. /\ Ram' = Empty /\ nodes' = <<>> /\ acked' = acked /\ cur' = 0 /\ ofs' = 0 /\ ofs_next' = 0
        /\ synced' = 0 /\ todo' = <<>> /\ power' = "off" /\ writes' = writes
    BY DEF PowerCut, Ram, Empty
  <1>5. wr' \in [start : Nat, data : Seq(Values), cut : BOOLEAN]
    BY DEF PowerCut, Shape
  <1>6. cuts' \in 0 .. MaxCuts
    BY Sizes, SMTT(60) DEF PowerCut, Shape
  <1>7. synced' \in 0 .. Len(nodes')
    BY <1>4
  <1>8. MemOK(Ram')
    BY <1>4, EmptyOK
  <1> QED BY <1>1, <1>3, <1>4, <1>5, <1>6, <1>7, <1>8, NotWriting DEF Shape

\* Every state has the shape, whatever the callers write, past the end of the
\* array too, and wherever the power fails.
THEOREM Shaped == Spec => []Shape
  <1>1. Init => Shape
    BY InitShape
  <1>2. Shape /\ [Next]_vars => Shape'
    <2> SUFFICES ASSUME Shape, [Next]_vars PROVE Shape'
      OBVIOUS
    <2>1. CASE Boot
      BY <2>1, BootShape
    <2>2. CASE Step
      <3>1. power = "on"
        BY <2>2 DEF Step, UpdateBlock, SaveCrc, WriteBuffer, SyncNode, SyncDone, EraseBlock,
                    EraseNextBlock, SwitchBlock, Finish, Doing
      <3> QED BY <2>2, <3>1, StepShape
    <2>3. CASE PowerCut
      BY <2>3, CutShape
    <2>4. CASE \E rq \in Requests : Write(rq[1], rq[2])
      BY <2>4, WriteShape
    <2>5. CASE UNCHANGED vars
      <3>1. Ram' = Ram
        BY <2>5 DEF vars, Ram
      <3> QED BY <2>5, <3>1 DEF vars, Shape
    <2> QED BY <2>1, <2>2, <2>3, <2>4, <2>5 DEF Next
  <1> QED BY <1>1, <1>2, PTL DEF Spec

\* The ranges never touch, and every cell that was written lies in one: for every
\* array and flash, every set of writes and every way the power can fail.
THEOREM NodesCoverAlways == Spec => []NodesCover
  <1>1. Shape => NodesCover
    <2> SUFFICES ASSUME Shape PROVE NodesCover
      OBVIOUS
    <2>1. MemOK(Ram) /\ Ram.nodes = nodes /\ Ram.buffer = buffer
      BY DEF Shape, Ram
    <2>2. \A i, j \in DOMAIN nodes : i # j =>
             \/ nodes[i].start + nodes[i].len < nodes[j].start
             \/ nodes[j].start + nodes[j].len < nodes[i].start
      BY <2>1 DEF MemOK, ListOK, Apart
    <2>3. \A a \in Cells : buffer[a] # 0 => \E i \in DOMAIN nodes : a \in Cell(nodes[i])
      BY <2>1 DEF MemOK, Covered
    <2>4. \A a \in Cells : buffer[a] # 0 =>
             \E i \in DOMAIN nodes : a \in nodes[i].start .. nodes[i].start + nodes[i].len - 1
      BY <2>3 DEF Cell
    <2> QED BY <2>2, <2>4 DEF NodesCover
  <1> QED BY <1>1, Shaped, PTL
-----------------------------------------------------------------------------
(* The writes, as the store sees them.                                     *)

\* A write sets its cells as Applied says, in the array or past its end; no write
\* sets none.
LEMMA AppliedIs ==
  /\ \A m, n : MemOK(m) /\ Writable(n) /\ InsideNode(n) =>
        Update(m, n).buffer = Store!Applied(m.buffer, n)
  /\ \A s \in Arrays : Store!Applied(s, NoWrite) = s
  /\ \A s, w : Store!Applied(s, [w EXCEPT !.cut = TRUE]) = Store!Applied(s, w)
  <1>1. ASSUME NEW m, NEW n, MemOK(m), Writable(n), InsideNode(n)
        PROVE  Update(m, n).buffer = Store!Applied(m.buffer, n)
    <2>1. n.start \in Nat /\ Len(n.data) \in Nat /\ n.start + Len(n.data) =< BufSize
      BY <1>1 DEF Writable, InsideNode
    <2>2. Store!Fits(n)
      BY <2>1, Sizes DEF Store!Fits, Cells
    <2>3. Update(m, n).buffer = [a \in Cells |-> IF a \in Cell(RangeOf(n))
                                   THEN n.data[a - n.start + 1] ELSE m.buffer[a]]
      BY <1>1, UpdateInside
    <2> QED BY <2>2, <2>3 DEF Store!Applied, Cell, RangeOf
  <1>2. ASSUME NEW s \in Arrays PROVE Store!Applied(s, NoWrite) = s
    <2>1. NoWrite.start = 0 /\ NoWrite.data = <<>> /\ Len(<<>>) = 0
      BY DEF NoWrite
    <2>2. Store!Fits(NoWrite) /\ \A a \in Cells : a \notin 0 .. 0 + 0 - 1
      BY <2>1 DEF Store!Fits
    <2>3. s = [a \in Cells |-> s[a]]
      BY DEF Arrays
    <2> QED BY <2>1, <2>2, <2>3 DEF Store!Applied
  <1>3. ASSUME NEW s, NEW w
        PROVE  Store!Applied(s, [w EXCEPT !.cut = TRUE]) = Store!Applied(s, w)
    <2>1. [w EXCEPT !.cut = TRUE].start = w.start /\ [w EXCEPT !.cut = TRUE].data = w.data
      OBVIOUS
    <2> QED BY <2>1 DEF Store!Applied, Store!Fits
  <1> QED BY <1>1, <1>2, <1>3

\* What a reader held, and all of a write inside the array, may be read.
LEMMA ReadOK ==
  ASSUME Shape
  PROVE  /\ MayRead(acked)
         /\ \A m : MemOK(m) /\ m.buffer = acked /\ Writable(wr) /\ InsideNode(wr) =>
               /\ Update(m, wr).buffer = Store!Applied(acked, wr)
               /\ MayRead(Update(m, wr).buffer)
  <1>1. MayRead(acked)
    BY DEF MayRead, Shape
  <1>2. ASSUME NEW m, MemOK(m), m.buffer = acked, Writable(wr), InsideNode(wr)
        PROVE  /\ Update(m, wr).buffer = Store!Applied(acked, wr)
               /\ MayRead(Update(m, wr).buffer)
    <2>1. Update(m, wr).buffer = Store!Applied(acked, wr)
      BY <1>2, AppliedIs
    <2>2. MemOK(Update(m, wr))
      BY <1>2, UpdateOK
    <2>3. Update(m, wr).buffer \in Arrays
      BY <2>2 DEF MemOK
    <2> QED BY <2>1, <2>3 DEF MayRead
  <1> QED BY <1>1, <1>2

\* An empty half takes any write inside the array.
LEMMA RoomForOne == BufSize + Extra + Mark =< NorSize
  <1> DEFINE K == (BufSize + 1) \div 2
             e == Extra - 1
  <1>1. K \in Nat /\ 1 =< K /\ e \in Nat
    BY Sizes
  <1>2. 1 * e =< K * e /\ K * e \in Nat
    <2> HIDE DEF K, e
    <2> QED BY <1>1, FewerLess
  <1>3. BufSize + 1 + K * e + Mark =< NorSize
    BY CapacityAssumption
  <1>4. Extra = e + 1
    BY Sizes
  <1> DEFINE Ke == K * e
  <1> HIDE DEF K, e
  <1>5. Ke \in Nat /\ e =< Ke /\ BufSize + 1 + Ke + Mark =< NorSize
    BY <1>1, <1>2, <1>3
  <1> HIDE DEF Ke
  <1> QED BY <1>1, <1>4, <1>5, Sizes

\* The copy of an array can be read and appended to, and the whole of it is the
\* array.
LEMMA CopyServes ==
  ASSUME Shape, NEW n \in 0 .. Len(nodes), CopyIs(n), MayRead(buffer), n = Len(nodes) \/ ~OneCut
  PROVE  Serves(Target) /\ Target.junk = "no" /\ ~Marked(Target)
  <1>1. /\ MemOK(Ram) /\ Ram.nodes = nodes /\ Ram.buffer = buffer /\ n \in 0 .. Len(Ram.nodes)
        /\ Target.nodes = CopyOf(Ram, n) /\ Target.junk = "no" /\ ~Marked(Target)
    BY DEF Shape, Ram, CopyIs, Copy, Marked, Unmarked
  <1>2. Good(Target)
    <2>1. Used(Target) + Mark =< NorSize
      BY <1>1, CopyFits DEF Used
    <2>2. \A i \in DOMAIN Target.nodes : InsideNode(Target.nodes[i])
      BY <1>1, CopyGrows
    <2> QED BY <1>1, <2>1, <2>2 DEF Good
  <1> DEFINE u == Replay(CopyOf(Ram, n))
  <1>3. Scan(Target) = u
    BY <1>1 DEF Scan
  <1>4. \A a \in Cells : u.buffer[a] \in {buffer[a], 0}
    BY <1>1, CopyRebuilds
  <1>5. n = Len(nodes) => u = Ram
    BY <1>1, CopyRebuilds
  <1>6. u.buffer \in Arrays
    <2>1. CopyOf(Ram, n) \in Seq(Records)
      BY <1>1, CopyGrows
    <2> QED BY <2>1, ReplayAppend DEF MemOK
  <1> HIDE DEF u
  <1>7. MayRead(u.buffer)
    <2>1. \A a \in Cells : u.buffer[a] \in {acked[a], Store!Applied(acked, wr)[a], 0}
      BY <1>4 DEF MayRead
    <2>2. OneCut => u.buffer \in {acked, Store!Applied(acked, wr)}
      BY <1>1, <1>5 DEF MayRead
    <2> QED BY <1>6, <2>1, <2>2 DEF MayRead
  <1> QED BY <1>1, <1>2, <1>3, <1>7 DEF Serves
-----------------------------------------------------------------------------
(* Booting.                                                                *)

\* Both halves are blank at first.
LEMMA InitIInv ==
  ASSUME Init
  PROVE  IInv
  <1>1. Shape
    BY InitShape
  <1>2. \A h \in 0 .. 1 : flash[h] = Blank /\ flash[Other(h)] = Blank
    BY DEF Init, Other
  <1>3. Scan(Blank) = Empty /\ Empty.buffer = Zero
    BY BlankOK, ReplayAppend DEF Scan, Empty
  <1>4. MayRead(Zero)
    BY <1>1, ReadOK DEF Init
  <1>5. Good(Blank)
    <2>1. Used(Blank) + Mark =< NorSize
      BY BlankOK, RoomForOne, Sizes
    <2> QED BY <2>1, BlankOK DEF Good
  <1>6. Lone(0)
    BY <1>2, <1>3, <1>4, <1>5, BlankOK DEF Lone, Serves
  <1>7. Off
    BY <1>2, <1>6 DEF Off, Init
  <1> QED BY <1>1, <1>7, Sizes DEF IInv, Init

\* Where a half is that a boot may use.
LEMMA OffHalves ==
  ASSUME Shape, Off
  PROVE  /\ \A h \in 0 .. 1 : Lone(h) => flash[Other(h)] = Blank
         /\ \A h \in 0 .. 1 : Sealing(h) \/ Keeping(h) => flash[h] # Blank
         /\ \A h \in 0 .. 1 : Keeping(h) => ~Sealed(flash[h]) /\ ~Sealed(flash[Other(h)])
         /\ \A h \in 0 .. 1 : Sealing(h) => ~Sealed(flash[Other(h)])
         /\ \A h, g \in 0 .. 1 : g = h \/ g = Other(h)
         /\ \A h \in 0 .. 1 : Other(Other(h)) = h /\ Other(h) # h /\ Other(h) \in 0 .. 1
  <1>1. \A h \in 0 .. 1 : Sealing(h) \/ Keeping(h) => flash[h] # Blank
    BY BlankOK DEF Sealing, Keeping
  <1>2. \A b : Sealed(b) => Marked(b)
    BY DEF Sealed, Marked
  <1>3. \A h \in 0 .. 1 : Keeping(h) => ~Sealed(flash[h]) /\ ~Sealed(flash[Other(h)])
    BY <1>2 DEF Keeping, Stale
  <1>4. \A h \in 0 .. 1 : Sealing(h) => ~Sealed(flash[Other(h)])
    BY <1>2 DEF Sealing
  <1> QED BY <1>1, <1>3, <1>4 DEF Lone, Other

\* The state after a boot that uses half h.
LEMMA BootUses ==
  ASSUME Shape, Off, power = "off", Booting, NEW h \in 0 .. 1, NEW t, Use(h, t), Serves(flash[h])
  PROVE  /\ Ram' = Scan(flash'[h]) /\ cur' = h /\ flash' = flash
         /\ ofs' = Used(flash[h]) /\ ofs' \in 0 .. NorSize
         /\ ofs_next' = 0 /\ ofs_next' \in 0 .. NorSize /\ synced' = 0
         /\ Decided' /\ ~InFlight' /\ todo' = t /\ cuts' = cuts
         /\ Serves(flash[h])'
         /\ flash[h].nodes # <<>> => nodes' # <<>>
  <1>1. /\ flash' = flash /\ synced' = synced /\ wr' = wr /\ acked' = acked /\ cuts' = cuts
        /\ cur' = h /\ ofs' = Used(flash[h]) /\ ofs_next' = 0 /\ todo' = t
        /\ buffer' = Scan(flash[h]).buffer /\ nodes' = Scan(flash[h]).nodes
    BY DEF Booting, Use
  <1>2. flash[h] \in Logs /\ flash[h].nodes \in Seq(Records) /\ synced = 0
    BY TodoTails DEF Shape, Logs
  <1>3. MemOK(Scan(flash[h]))
    BY <1>2, ReplayAppend DEF Scan
  <1>4. Ram' = Scan(flash'[h])
    BY <1>1, <1>3 DEF Ram, MemOK
  <1>5. ofs' \in 0 .. NorSize /\ ofs_next' \in 0 .. NorSize
    <2>1. Used(flash[h]) \in Nat /\ Used(flash[h]) + Mark =< NorSize
      BY <1>2, UsedNat DEF Serves, Good
    <2> QED BY <1>1, <2>1, Sizes
  <1>6. \A b : MayRead(b) => MayRead(b)'
    BY <1>1 DEF MayRead
  <1>7. Serves(flash[h])'
    BY <1>1, <1>6 DEF Serves
  <1>8. MayRead(buffer)'
    BY <1>1, <1>6 DEF Serves
  <1>9. ~InFlight'
    BY <1>1 DEF InFlight, Off
  <1>10. flash[h].nodes # <<>> => nodes' # <<>>
    BY <1>1, <1>2, ReplayNotEmpty DEF Serves, Good, Scan
  <1> QED BY <1>1, <1>2, <1>4, <1>5, <1>7, <1>8, <1>9, <1>10 DEF Decided

\* A boot that finds nothing to repair.
LEMMA BootToEnding ==
  ASSUME Shape, Off, power = "off", Booting, NEW h \in 0 .. 1, Use(h, Ending), Serves(flash[h]),
         flash[h].junk = "no", flash[Other(h)] = Blank, cuts = 0 => flash[h] = Blank
  PROVE  AtEnding'
  <1>1. /\ Ram' = Scan(flash'[h]) /\ cur' = h /\ flash' = flash
        /\ ofs' = Used(flash[h]) /\ ofs_next' = 0 /\ synced' = 0
        /\ Decided' /\ todo' = Ending /\ cuts' = cuts
    BY BootUses
  <1>2. Open(flash[h])
    BY DEF Open, Serves
  <1>3. cuts' = 0 => ~Marked(flash[h])
    BY <1>1, BlankOK
  <1>4. InUse'
    BY <1>1, <1>2, <1>3 DEF InUse
  <1> QED BY <1>1, <1>4 DEF AtEnding

\* A boot that compacts.
LEMMA BootToCompact ==
  ASSUME Shape, Off, power = "off", Booting, NEW h \in 0 .. 1, Use(h, Compact), Serves(flash[h]),
         (flash[h].junk = "no" /\ Marked(flash[h])) \/ ~Whole,
         flash[Other(h)] = Blank \/ (Sealed(flash[h]) /\ ~Marked(flash[Other(h)])),
         flash[h] # Blank
  PROVE  AtCompact'
  <1>1. /\ Ram' = Scan(flash'[h]) /\ cur' = h /\ flash' = flash /\ synced' = 0
        /\ Decided' /\ ~InFlight' /\ todo' = Compact /\ cuts' = cuts
        /\ Serves(flash[h])'
        /\ flash[h].nodes # <<>> => nodes' # <<>>
    BY BootUses
  <1>2. cuts \in Nat /\ cuts # 0
    BY DEF Off, Shape
  <1>3. Source'
    <2>1. Marked(flash[h]) => nodes' # <<>>
      BY <1>1 DEF Serves, Good
    <2>3. Serves(flash[cur])'
      BY <1>1
    <2> QED BY <1>1, <1>2, <2>1, <2>3 DEF Source
  <1>4. Target' = Blank \/ (Sealed(flash[cur]) /\ ~Marked(Target))'
    BY <1>1 DEF Target
  <1> QED BY <1>1, <1>2, <1>3, <1>4 DEF AtCompact

\* A boot that only completes the erase of the other half.
LEMMA BootToKeep ==
  ASSUME Shape, Off, power = "off", Booting, NEW h \in 0 .. 1, Use(h, KeepCurrent), Keeping(h)
  PROVE  AtKeep'
  <1>1. Serves(flash[h]) /\ flash[h] # Blank
    BY BlankOK DEF Keeping
  <1>2. /\ Ram' = Scan(flash'[h]) /\ cur' = h /\ flash' = flash /\ synced' = 0
        /\ ofs' = Used(flash[h]) /\ Decided' /\ todo' = KeepCurrent /\ cuts' = cuts
        /\ Serves(flash[h])'
    BY <1>1, BootUses
  <1>3. cuts \in Nat /\ cuts # 0
    BY <1>1 DEF Off, Shape
  <1>4. Keeping(cur)'
    BY <1>2 DEF Keeping
  <1> QED BY <1>2, <1>3, <1>4 DEF AtKeep

\* A boot finds one of the three, and serves its log.
LEMMA BootIInv ==
  ASSUME IInv, Boot
  PROVE  IInv'
  <1>1. Shape /\ Off /\ power = "off" /\ Booting
    BY DEF IInv, Boot, BootBlank, BootBroken, BootOne, BootSealed, BootUnmarked, BootHeaded, Booting
  <1>2. Shape'
    BY <1>1, BootShape
  <1>3. SUFFICES /\ power' = "on" /\ Stages'
                 /\ ofs' \in 0 .. NorSize /\ ofs_next' \in 0 .. NorSize
    BY <1>2 DEF IInv
  <1>4. PICK g \in 0 .. 1 : Lone(g) \/ Sealing(g) \/ Keeping(g)
    BY <1>1 DEF Off
  <1>5. \A h \in 0 .. 1 : h = g \/ h = Other(g)
    BY <1>1, OffHalves
  <1>6. Other(Other(g)) = g /\ Other(g) # g /\ Other(g) \in 0 .. 1
    BY <1>1, OffHalves
  <1>7. Serves(flash[g])
    BY <1>4 DEF Lone, Sealing, Keeping
  <1>8. \A t : Use(g, t) => ofs' \in 0 .. NorSize /\ ofs_next' \in 0 .. NorSize
    BY <1>1, <1>7, BootUses
  <1>9. Dirty => \A h \in 0 .. 1 : flash[h] # Blank
    BY DEF Dirty
  <1>10. NoSeal => \A h \in 0 .. 1 : ~Sealed(flash[h])
    BY DEF NoSeal
  <1>11. SameMarks => (Marked(flash[g]) <=> Marked(flash[Other(g)]))
    BY <1>6 DEF SameMarks, Other
  <1>12. CASE BootBlank
    <2>1. /\ power' = "on" /\ Use(0, Ending) /\ flash[0] = Blank /\ flash[1] = Blank
      BY <1>12 DEF BootBlank, Ending
    <2>2. flash[g] = Blank /\ flash[0] = Blank /\ flash[Other(0)] = Blank
      BY <2>1 DEF Other
    <2>3. Serves(flash[0])
      BY <1>7, <2>2
    <2>4. AtEnding'
      BY <1>1, <2>1, <2>2, <2>3, BlankOK, BootToEnding
    <2>5. ofs' \in 0 .. NorSize /\ ofs_next' \in 0 .. NorSize
      BY <1>1, <2>1, <2>3, BootUses
    <2> QED BY <2>1, <2>4, <2>5 DEF Stages
  <1>13. ASSUME NEW h \in 0 .. 1, BootOne(h) PROVE power' = "on" /\ Stages' /\ Use(g, todo')
    <2>1. /\ power' = "on" /\ flash[h] # Blank /\ flash[Other(h)] = Blank
          /\ Use(h, IF Corrupted(flash[h]) THEN Compact ELSE Ending)
      BY <1>13 DEF BootOne, Ending
    <2>2. h = g
      <3>1. CASE Lone(g)
        BY <1>1, <1>5, <2>1, <3>1, OffHalves
      <3>2. CASE Sealing(g) \/ Keeping(g)
        BY <1>1, <1>5, <1>6, <2>1, <3>2, OffHalves
      <3> QED BY <1>4, <3>1, <3>2
    <2>3. flash[g].junk = "no" \/ (flash[g].junk = "tail" /\ ~Whole)
      BY <1>4 DEF Lone, Sealing, Keeping
    <2>4. CASE Corrupted(flash[g])
      <3>1. (flash[g].junk = "no" /\ Marked(flash[g])) \/ ~Whole
        BY <2>3, <2>4 DEF Corrupted
      <3>2. Use(g, Compact)
        BY <2>1, <2>2, <2>4
      <3>3. AtCompact'
        BY <1>1, <1>7, <2>1, <2>2, <3>1, <3>2, BootToCompact
      <3> QED BY <2>1, <3>2, <3>3 DEF Stages, Use
    <2>5. CASE ~Corrupted(flash[g])
      <3>1. flash[g].junk = "no"
        BY <2>3, <2>5 DEF Corrupted
      <3>2. Use(g, Ending)
        BY <2>1, <2>2, <2>5
      <3>3. AtEnding'
        BY <1>1, <1>7, <2>1, <2>2, <3>1, <3>2, BootToEnding DEF Off
      <3> QED BY <2>1, <3>2, <3>3 DEF Stages, Use
    <2> QED BY <2>4, <2>5
  <1>14. ASSUME NEW h \in 0 .. 1, BootSealed(h) PROVE power' = "on" /\ Stages' /\ Use(g, todo')
    <2>1. Dirty /\ Sealed(flash[h]) /\ Use(h, Compact)
          /\ power' = IF Sealed(flash[Other(h)]) THEN "dead" ELSE "on"
      BY <1>14 DEF BootSealed
    <2>2. Sealing(g)
      BY <1>1, <1>4, <1>5, <1>6, <1>9, <2>1, OffHalves
    <2>3. h = g
      BY <1>1, <1>5, <2>1, <2>2, OffHalves
    <2>4. power' = "on"
      BY <1>1, <2>1, <2>2, <2>3, OffHalves
    <2>5. flash[g].junk = "no" /\ Marked(flash[g]) /\ flash[g] # Blank /\ ~Marked(flash[Other(g)])
      BY <2>2, BlankOK DEF Sealing, Sealed, Marked
    <2>6. AtCompact'
      BY <1>1, <1>7, <2>1, <2>3, <2>5, BootToCompact
    <2> QED BY <2>1, <2>3, <2>4, <2>6 DEF Stages, Use
  <1>15. ASSUME Dirty, NoSeal PROVE Keeping(g) /\ Stale(flash[Other(g)]) /\ ~HeadBlank(flash[g])
    <2>1. ~Lone(g) /\ ~Sealing(g)
      BY <1>6, <1>9, <1>10, <1>15 DEF Lone, Sealing
    <2> QED BY <1>4, <2>1 DEF Keeping, HeadBlank
  <1>16. ASSUME NEW h \in 0 .. 1, BootUnmarked(h) PROVE power' = "on" /\ Stages' /\ Use(g, todo')
    <2>1. /\ Dirty /\ NoSeal /\ power' = "on" /\ Use(h, KeepCurrent)
          /\ ~Marked(flash[h]) /\ Marked(flash[Other(h)])
      BY <1>16 DEF BootUnmarked
    <2>2. Keeping(g)
      BY <1>15, <2>1
    <2>3. h = g
      BY <1>5, <1>6, <2>1, <2>2 DEF Keeping
    <2>4. AtKeep'
      BY <1>1, <2>1, <2>2, <2>3, BootToKeep
    <2> QED BY <2>1, <2>3, <2>4 DEF Stages, Use
  <1>17. SameMarks /\ Dirty /\ NoSeal => HeadBlank(flash[Other(g)]) /\ ~Marked(flash[g])
    BY <1>11, <1>15 DEF Keeping, Stale
  <1>18. ASSUME NEW h \in 0 .. 1, BootHeaded(h) PROVE power' = "on" /\ Stages' /\ Use(g, todo')
    <2>1. /\ Dirty /\ NoSeal /\ SameMarks /\ Use(h, KeepCurrent)
          /\ power' = IF Corrupted(flash[h]) THEN "dead" ELSE "on"
          /\ ~HeadBlank(flash[h])
      BY <1>18 DEF BootHeaded
    <2>2. Keeping(g)
      BY <1>15, <2>1
    <2>3. h = g
      BY <1>5, <1>17, <2>1
    <2>4. ~Corrupted(flash[g])
      BY <2>2 DEF Keeping, Corrupted
    <2>5. AtKeep'
      BY <1>1, <2>1, <2>2, <2>3, BootToKeep
    <2> QED BY <2>1, <2>3, <2>4, <2>5 DEF Stages, Use
  <1>19. CASE BootBroken
    <2>1. Dirty /\ NoSeal /\ SameMarks /\ (HeadBlank(flash[0]) = HeadBlank(flash[1]))
      BY <1>19 DEF BootBroken
    <2>2. HeadBlank(flash[Other(g)]) /\ ~HeadBlank(flash[g])
      BY <1>15, <1>17, <2>1
    <2>3. HeadBlank(flash[0]) <=> HeadBlank(flash[1])
      BY <2>1
    <2> QED BY <2>2, <2>3 DEF Other
  <1> QED BY <1>8, <1>12, <1>13, <1>14, <1>16, <1>18, <1>19 DEF Boot
-----------------------------------------------------------------------------
(* The calls.                                                              *)

\* Which stage a step belongs to.
LEMMA StageOf ==
  ASSUME Stages, NEW op, Doing(op)
  PROVE  /\ op = "node" => AtPlainWrite /\ todo = PlainWrite
         /\ op = "mark" => AtFullWrite /\ todo = FullWrite
         /\ op = "buffer" => \/ AtFullBuffer /\ todo = Full_Buffer
                             \/ AtPlainBuffer /\ todo = Plain_Buffer
         /\ op = "sync" => AtSync /\ todo = Full_Sync
         /\ op = "erase" => AtErase /\ todo = Full_Erase
         /\ op = "erase_next" => \/ AtCompact /\ todo = Compact
                                 \/ AtKeep /\ todo = KeepCurrent
         /\ op = "switch" => AtSwitch /\ todo = Full_Switch
         /\ op = "done" => AtEnding /\ todo = Ending
  <1>1. Head(todo) = op /\ todo # <<>>
    BY DEF Doing
  <1>2. /\ AtReady => todo = <<>>
        /\ AtEnding => todo = Ending
        /\ AtPlainWrite => todo = PlainWrite
        /\ AtPlainBuffer => todo = Plain_Buffer
        /\ AtFullWrite => todo = FullWrite
        /\ AtFullBuffer => todo = Full_Buffer
        /\ AtSync => todo = Full_Sync
        /\ AtErase => todo = Full_Erase
        /\ AtSwitch => todo = Full_Switch
        /\ AtCompact => todo = Compact
        /\ AtKeep => todo = KeepCurrent
    BY DEF AtReady, AtEnding, AtPlainWrite, AtPlainBuffer, AtFullWrite, AtFullBuffer, AtSync,
           AtErase, AtSwitch, AtCompact, AtKeep
  <1> QED BY <1>1, <1>2, TodoTails DEF Stages

\* Between calls no other stage is possible.
LEMMA ReadyStage ==
  ASSUME Stages, todo = <<>>
  PROVE  AtReady
  BY TodoTails DEF Stages, AtEnding, AtPlainWrite, AtPlainBuffer, AtFullWrite, AtFullBuffer, AtSync,
                   AtErase, AtSwitch, AtCompact, AtKeep

\* A write that the current half has no room for finds nodes in it.
LEMMA WriteIInv ==
  ASSUME IInv, Inside, NEW rq \in Requests, Write(rq[1], rq[2])
  PROVE  IInv'
  <1>1. /\ Shape /\ power = "on" /\ todo = <<>> /\ Stages /\ ofs \in 0 .. NorSize
    BY DEF IInv, Write, Ready
  <1>2. AtReady
    BY <1>1, ReadyStage
  <1>3. /\ Shape' /\ Len(wr'.data) = rq[2] /\ wr'.start = rq[1] /\ ~wr'.cut /\ wr' # NoWrite
    BY <1>1, WriteShape
  <1>4. /\ flash' = flash /\ cur' = cur /\ ofs' = ofs /\ ofs_next' = ofs_next /\ buffer' = buffer
        /\ nodes' = nodes /\ synced' = synced /\ acked' = acked /\ power' = "on" /\ cuts' = cuts
        /\ todo' = IF rq[2] > free_size THEN FullWrite ELSE PlainWrite
    BY <1>1 DEF Write, ram
  <1>5. rq[1] \in Nat /\ rq[2] \in Nat /\ rq[2] > 0 /\ rq[1] + rq[2] =< BufSize
    BY SizesAssumption DEF Inside
  <1>6. InsideNode(wr)'
    BY <1>3, <1>5 DEF InsideNode
  <1>7. InUse' /\ Scan(flash[cur])' = Ram' /\ free_size' = free_size
    BY <1>2, <1>4 DEF AtReady, InUse, Target, Ram, free_size
  <1>8. Asked'
    BY <1>2, <1>3, <1>4, <1>6 DEF Asked, InFlight, AtReady
  <1>9. CASE rq[2] > free_size
    <2>1. ASSUME flash[cur].nodes = <<>> PROVE FALSE
      <3>1. ofs = 0
        BY <1>2, <2>1, UsedAppend DEF AtReady, InUse, Used
      <3>2. BufSize + Extra + Mark =< NorSize
        BY RoomForOne
      <3>3. free_size = NorSize - Extra - 0 - Mark
        BY <3>1, <3>2, Sizes DEF free_size
      <3> QED BY <1>5, <1>9, <3>2, <3>3, Sizes
    <2>2. AtFullWrite'
      BY <1>4, <1>7, <1>8, <1>9, <2>1 DEF AtFullWrite
    <2> QED BY <1>1, <1>3, <1>4, <2>2 DEF IInv, Stages
  <1>10. CASE ~(rq[2] > free_size)
    <2>1. free_size \in Nat
      BY <1>1, Sizes DEF free_size
    <2>2. Len(wr'.data) =< free_size'
      BY <1>3, <1>5, <1>7, <1>10, <2>1
    <2>3. AtPlainWrite'
      BY <1>4, <1>7, <1>8, <1>10, <2>2 DEF AtPlainWrite
    <2> QED BY <1>1, <1>3, <1>4, <2>3 DEF IInv, Stages
  <1> QED BY <1>9, <1>10

\* The two halves.
LEMMA Halved ==
  ASSUME Shape
  PROVE  /\ cur \in 0 .. 1 /\ Other(cur) \in 0 .. 1 /\ Other(cur) # cur /\ Other(Other(cur)) = cur
         /\ flash \in [0 .. 1 -> Logs] /\ flash[cur] \in Logs /\ Target \in Logs
         /\ \A f, b : f = [flash EXCEPT ![cur] = b] => f[cur] = b /\ f[Other(cur)] = Target
         /\ \A f, b : f = [flash EXCEPT ![Other(cur)] = b] =>
               f[cur] = flash[cur] /\ f[Other(cur)] = b
  <1>1. /\ cur \in 0 .. 1 /\ Other(cur) \in 0 .. 1 /\ Other(cur) # cur /\ Other(Other(cur)) = cur
        /\ flash \in [0 .. 1 -> Logs]
    BY DEF Shape, Other
  <1> QED BY <1>1 DEF Target

\* A node is programmed where the log ends, and leaves room for the mark.
LEMMA PlainStep ==
  ASSUME IInv, UpdateBlock
  PROVE  AtPlainBuffer' /\ ofs' \in 0 .. NorSize /\ ofs_next' \in 0 .. NorSize
  <1>1. Shape /\ power = "on" /\ Stages /\ Doing("node") /\ ofs_next \in 0 .. NorSize
    BY DEF IInv, UpdateBlock, Doing
  <1>2. AtPlainWrite /\ todo' = Plain_Buffer
    BY <1>1, StageOf, TodoTails DEF UpdateBlock, Next1
  <1>3. wr.start \in Nat /\ wr.data \in Seq(Values) /\ wr.data # <<>>
    BY <1>1, <1>2 DEF AtPlainWrite, Shape, Writing
  <1> DEFINE l == Len(wr.data)
             n == Node(wr.start, wr.data)
             b == flash[cur]
  <1>4. l \in Nat /\ l > 0 /\ wr.start + l =< BufSize
    BY <1>2, <1>3 DEF AtPlainWrite, Asked, InsideNode
  <1>5. /\ b \in Logs /\ ofs = Used(b) /\ ofs \in Nat /\ b.junk = "no" /\ Good(b) /\ Target = Blank
        /\ ofs_next = 0 /\ synced = 0
        /\ cuts = 0 => ~Marked(b)
    BY <1>1, <1>2, Halved, UsedNat DEF AtPlainWrite, InUse, Open, Target
  <1>6. ofs + Extra + l + Mark =< NorSize
    <2>1. l =< free_size
      BY <1>2 DEF AtPlainWrite
    <2> HIDE DEF l
    <2> QED BY <1>4, <1>5, <2>1, Sizes DEF free_size
  <1>7. ~(ofs + Extra - Mark + l > NorSize)
    <2> HIDE DEF l
    <2> QED BY <1>4, <1>5, <1>6, Sizes
  <1>8. flash' = [flash EXCEPT ![cur] = Programmed(b, ofs, n)] /\ ofs' = ofs + Extra + l
    BY <1>7 DEF UpdateBlock
  <1>9. n \in Records /\ n.data = wr.data /\ n.start = wr.start
    <2>1. wr.start < BufSize
      <3> HIDE DEF l
      <3> QED BY <1>3, <1>4, Sizes
    <2> QED BY <1>3, <2>1, NodeOK
  <1> DEFINE c == Programmed(b, ofs, n)
  <1> HIDE DEF l, n, b
  <1>10. /\ c = [nodes |-> Append(b.nodes, n), junk |-> "no", mark |-> b.mark]
         /\ c \in Logs /\ Used(c) = ofs + Len(n.data) + Extra
    BY <1>5, <1>9, ProgrammedBehind
  <1> HIDE DEF c
  <1>11. flash'[cur] = c /\ flash'[Other(cur)] = Blank
    BY <1>1, <1>5, <1>8, Halved DEF c, b
  <1>12. /\ cur' = cur /\ ofs_next' = ofs_next /\ Ram' = Ram /\ buffer' = buffer /\ synced' = synced
         /\ wr' = wr /\ acked' = acked /\ cuts' = cuts
    BY DEF UpdateBlock, Ram
  <1>13. Used(c) = ofs' /\ Used(c) + Mark =< NorSize /\ ofs' \in 0 .. NorSize
    <2>1. Len(n.data) = l
      BY <1>9 DEF l
    <2> QED BY <1>4, <1>5, <1>6, <1>8, <1>10, <2>1, Sizes
  <1>14. Good(c) /\ c.nodes # <<>>
    <2>1. b.nodes \in Seq(Records) /\ Len(b.nodes) \in Nat
      BY <1>5 DEF Logs
    <2>2. /\ c.nodes # <<>>
          /\ \A i \in DOMAIN c.nodes : \/ i \in DOMAIN b.nodes /\ c.nodes[i] = b.nodes[i]
                                       \/ c.nodes[i] = n
      BY <1>9, <1>10, <2>1, AppendProperties
    <2>3. InsideNode(n)
      BY <1>2, <1>9 DEF AtPlainWrite, Asked, InsideNode
    <2> QED BY <1>5, <1>13, <2>2, <2>3 DEF Good
  <1>15. Scan(c) = UpdateBuffer(Scan(b), wr.start, wr.data)
    <2>1. b.nodes \in Seq(Records) /\ c.nodes = Append(b.nodes, n)
      BY <1>5, <1>10 DEF Logs
    <2> QED BY <1>9, <2>1, ReplayAppend DEF Scan
  <1>16. InUse'
    <2>1. cuts' = 0 => ~Marked(c)
      BY <1>5, <1>10, <1>12 DEF Marked
    <2>2. Open(c)
      BY <1>10, <1>14 DEF Open
    <2> QED BY <1>5, <1>11, <1>12, <1>13, <2>1, <2>2 DEF InUse
  <1>17. Asked'
    BY <1>2, <1>12 DEF AtPlainWrite, Asked, InFlight
  <1>18. Scan(flash[cur])' = UpdateBuffer(Ram, wr.start, wr.data)'
    BY <1>2, <1>11, <1>12, <1>15 DEF AtPlainWrite, b
  <1>19. AtPlainBuffer'
    BY <1>2, <1>16, <1>17, <1>18 DEF AtPlainBuffer
  <1> QED BY <1>1, <1>12, <1>13, <1>19

\* The CRC over the half seals it.
LEMMA SealStep ==
  ASSUME IInv, SaveCrc
  PROVE  AtFullBuffer'
  <1>1. Shape /\ power = "on" /\ Stages /\ Doing("mark")
    BY DEF IInv, SaveCrc, Doing
  <1>2. AtFullWrite /\ todo' = Full_Buffer
    BY <1>1, StageOf, TodoTails DEF SaveCrc, Next1
  <1> DEFINE b == flash[cur]
             c == MarkedFull(b)
  <1>3. b \in Logs
    BY <1>1, Halved
  <1>4. c.nodes = b.nodes /\ c.junk = b.junk /\ Marked(c) /\ (~Marked(b) => Sealed(c))
    BY <1>3, MarkedOK
  <1>5. flash'[cur] = c /\ flash'[Other(cur)] = Target
    BY <1>1, Halved DEF SaveCrc
  <1>6. /\ cur' = cur /\ ofs_next' = ofs_next /\ Ram' = Ram /\ buffer' = buffer /\ synced' = synced
        /\ wr' = wr /\ acked' = acked /\ cuts' = cuts
    BY DEF SaveCrc, Ram, ram
  <1> HIDE DEF c
  <1>7. Open(c)
    BY <1>2, <1>4 DEF AtFullWrite, InUse, Open, Good, Used
  <1>8. Scan(c) = Ram
    BY <1>2, <1>4 DEF AtFullWrite, Scan
  <1>9. cuts = 0 => Sealed(c)
    BY <1>2, <1>4 DEF AtFullWrite, InUse
  <1>10. Asked'
    BY <1>2, <1>6 DEF AtFullWrite, Asked, InFlight
  <1>11. Target' = Blank /\ ofs_next' = 0 /\ synced' = 0
    BY <1>2, <1>5, <1>6 DEF AtFullWrite, InUse, Target
  <1> QED BY <1>2, <1>4, <1>5, <1>6, <1>7, <1>8, <1>9, <1>10, <1>11 DEF AtFullBuffer

\* The write reaches the array: all its cells at once.
LEMMA BufferStep ==
  ASSUME IInv, WriteBuffer
  PROVE  AtSync' \/ AtEnding'
  <1>1. Shape /\ power = "on" /\ Stages /\ Doing("buffer")
    BY DEF IInv, WriteBuffer, Doing
  <1>2. (AtFullBuffer /\ todo' = Full_Sync) \/ (AtPlainBuffer /\ todo' = Ending)
    BY <1>1, StageOf, TodoTails DEF WriteBuffer, Next1
  <1>3. todo \in Writing /\ Asked
    BY <1>2 DEF AtFullBuffer, AtPlainBuffer, Writing
  <1>4. Writable(wr) /\ InsideNode(wr) /\ MemOK(Ram) /\ Ram.buffer = acked
    BY <1>1, <1>3 DEF Shape, Writable, Asked, Ram
  <1>5. /\ MemOK(Update(Ram, wr)) /\ Update(Ram, wr).nodes # <<>>
        /\ Update(Ram, wr).buffer = Store!Applied(acked, wr) /\ MayRead(Update(Ram, wr).buffer)
    BY <1>1, <1>4, UpdateInside, ReadOK
  <1>6. /\ flash' = flash /\ cur' = cur /\ ofs' = ofs /\ ofs_next' = ofs_next /\ synced' = synced
        /\ wr' = wr /\ acked' = acked /\ cuts' = cuts
        /\ buffer' = Update(Ram, wr).buffer /\ nodes' = Update(Ram, wr).nodes
    BY DEF WriteBuffer, Ram, Update
  <1>7. Ram' = Update(Ram, wr)
    BY <1>5, <1>6 DEF Ram, MemOK
  <1>8. \A x : MayRead(x) => MayRead(x)'
    BY <1>6 DEF MayRead
  <1>9. Decided'
    BY <1>5, <1>6, <1>8 DEF Decided
  <1>10. CASE AtFullBuffer /\ todo' = Full_Sync
    <2>1. Serves(flash[cur])
      <3>1. Scan(flash[cur]).buffer = acked /\ MayRead(acked)
        BY <1>1, <1>4, <1>10, ReadOK DEF AtFullBuffer
      <3> QED BY <1>10, <3>1 DEF AtFullBuffer, Open, Serves
    <2>2. Serves(flash[cur])'
      BY <1>6, <1>8, <2>1 DEF Serves
    <2>3. Source'
      BY <1>5, <1>6, <1>10, <2>2 DEF Source, AtFullBuffer, Open
    <2>4. CopyOf(Update(Ram, wr), 0) = <<>>
      <3>1. 0 \in 0 .. Len(Update(Ram, wr).nodes)
        BY <1>5 DEF MemOK, ListOK
      <3> QED BY <1>5, <3>1, CopyGrows
    <2>5. Target' = Blank /\ ofs_next' = 0 /\ synced' = 0
      BY <1>6, <1>10 DEF AtFullBuffer, Target
    <2>6. CopyIs(0)'
      BY <1>7, <2>4, <2>5, BlankOK DEF CopyIs, Copy, Blank
    <2>7. CopyIs(synced)'
      BY <2>5, <2>6 DEF CopyIs, Copy
    <2> QED BY <1>9, <1>10, <2>3, <2>7 DEF AtSync
  <1>11. CASE AtPlainBuffer /\ todo' = Ending
    <2>1. InUse'
      BY <1>6, <1>11 DEF AtPlainBuffer, InUse
    <2>2. Scan(flash[cur])' = Ram'
      BY <1>6, <1>7, <1>11 DEF AtPlainBuffer, Update
    <2> QED BY <1>9, <1>11, <2>1, <2>2 DEF AtEnding
  <1> QED BY <1>2, <1>10, <1>11

\* The copy gets on by one node, and none is left out for want of room.
LEMMA SyncStep ==
  ASSUME IInv, SyncNode
  PROVE  AtSync' /\ ofs' \in 0 .. NorSize /\ ofs_next' \in 0 .. NorSize
  <1>1. Shape /\ power = "on" /\ Stages /\ Doing("sync") /\ ofs \in 0 .. NorSize
    BY DEF IInv, SyncNode, Doing
  <1>2. AtSync
    BY <1>1, StageOf
  <1>3. /\ todo' = todo /\ cur' = cur /\ ofs' = ofs /\ Ram' = Ram /\ buffer' = buffer /\ nodes' = nodes
        /\ synced' = synced + 1 /\ synced < Len(nodes) /\ wr' = wr /\ acked' = acked /\ cuts' = cuts
    BY DEF SyncNode, Ram
  <1> DEFINE n == SyncedNode
             t == Target
             k == synced
             l == Len(n.data)
  <1>4. /\ k \in Nat /\ k \in 0 .. Len(nodes) /\ k + 1 \in 0 .. Len(nodes) /\ MemOK(Ram)
        /\ Ram.nodes = nodes /\ k < Len(nodes)
    <2>1. nodes \in Seq(Ranges) /\ synced \in 0 .. Len(nodes) /\ MemOK(Ram) /\ Ram.nodes = nodes
      BY <1>1 DEF Shape, MemOK, ListOK, Ram
    <2>2. Len(nodes) \in Nat
      BY <2>1
    <2> QED BY <1>3, <2>1, <2>2
  <1>5. n \in Records /\ n = CopiedNode(Ram, Ram.nodes[k + 1]) /\ l \in Nat
    <2>1. n \in Records /\ n = CopiedNode(Ram, Ram.nodes[k + 1])
      BY <1>1, <1>3, <1>4, SyncedNodeIs
    <2> HIDE DEF n
    <2> QED BY <2>1 DEF Records
  <1>6. /\ t = [nodes |-> CopyOf(Ram, k), junk |-> "no", mark |-> Unmarked]
        /\ ofs_next = Used(t) /\ t \in Logs
    BY <1>1, <1>2, Halved DEF AtSync, CopyIs, Copy
  <1> DEFINE c == Programmed(t, ofs_next, n)
  <1> HIDE DEF n, t, k, l
  <1>7. /\ c = [nodes |-> Append(t.nodes, n), junk |-> "no", mark |-> t.mark]
        /\ c \in Logs /\ Used(c) = Used(t) + l + Extra
    BY <1>5, <1>6, ProgrammedBehind DEF l
  <1>8. CopyOf(Ram, k + 1) = Append(CopyOf(Ram, k), n)
    BY <1>4, <1>5, CopyGrows
  <1> HIDE DEF c
  <1>9. c = [nodes |-> CopyOf(Ram, k + 1), junk |-> "no", mark |-> Unmarked]
    BY <1>6, <1>7, <1>8
  <1>10. /\ Used(c) + Mark =< NorSize /\ Used(t) \in Nat
         /\ Used(c) \in 0 .. NorSize /\ ~(ofs_next + Extra - Mark + l > NorSize)
    <2>1. UsedBy(CopyOf(Ram, k + 1)) + Mark =< NorSize
      BY <1>4, CopyFits
    <2>2. Used(c) = UsedBy(CopyOf(Ram, k + 1))
      BY <1>9 DEF Used
    <2>3. Used(t) \in Nat
      BY <1>6, UsedNat
    <2> DEFINE uc == Used(c)
               ut == Used(t)
    <2>4. uc = ut + l + Extra /\ ut \in Nat /\ uc + Mark =< NorSize /\ ofs_next = ut
      BY <1>6, <1>7, <2>1, <2>2, <2>3
    <2> HIDE DEF uc, ut
    <2>5. uc \in 0 .. NorSize /\ ~(ofs_next + Extra - Mark + l > NorSize)
      BY <1>5, <2>4, Sizes
    <2> QED BY <2>3, <2>4, <2>5 DEF uc, ut
  <1>11. /\ flash' = [flash EXCEPT ![Other(cur)] = c] /\ ofs_next' = ofs_next + Extra + l
    <2>1. flash[Other(cur)] = t
      BY DEF t, Target
    <2> QED BY <1>10, <2>1 DEF SyncNode, c, n, l
  <1>12. flash'[cur] = flash[cur] /\ Target' = c
    BY <1>1, <1>3, <1>11, Halved DEF Target
  <1>13. ofs_next' = Used(c)
    BY <1>5, <1>6, <1>7, <1>10, <1>11, Sizes
  <1>14. CopyIs(synced)'
    BY <1>3, <1>9, <1>12, <1>13 DEF CopyIs, Copy, k
  <1>15. \A x : MayRead(x) => MayRead(x)'
    BY <1>3 DEF MayRead
  <1>16. Source'
    <2>1. Serves(flash[cur])'
      BY <1>2, <1>3, <1>12, <1>15 DEF AtSync, Source, Serves
    <2> QED BY <1>2, <1>3, <1>12, <2>1 DEF AtSync, Source, InFlight
  <1>17. Decided'
    BY <1>2, <1>3, <1>15 DEF AtSync, Decided, InFlight
  <1>18. AtSync'
    BY <1>2, <1>3, <1>14, <1>16, <1>17 DEF AtSync
  <1> QED BY <1>1, <1>3, <1>10, <1>13, <1>18

\* The copy is complete when the loop ends.
LEMMA SyncedStep ==
  ASSUME IInv, SyncDone
  PROVE  AtErase'
  <1>1. Shape /\ power = "on" /\ Stages /\ Doing("sync")
    BY DEF IInv, SyncDone, Doing
  <1>2. AtSync /\ todo' = Full_Erase
    BY <1>1, StageOf, TodoTails DEF SyncDone, Next1
  <1>3. /\ flash' = flash /\ cur' = cur /\ ofs_next' = ofs_next /\ Ram' = Ram /\ buffer' = buffer
        /\ nodes' = nodes /\ synced = Len(nodes) /\ synced' = 0 /\ wr' = wr /\ acked' = acked
        /\ cuts' = cuts
    BY DEF SyncDone, Ram
  <1>4. CopyIs(Len(nodes))'
    BY <1>2, <1>3 DEF AtSync, CopyIs, Copy, Target
  <1>5. Source' /\ Decided'
    BY <1>2, <1>3 DEF AtSync, Source, Decided, Serves, MayRead, InFlight
  <1> QED BY <1>2, <1>3, <1>4, <1>5 DEF AtErase

\* The half that was copied is erased, and only that one.
LEMMA EraseStep ==
  ASSUME IInv, EraseBlock
  PROVE  AtSwitch'
  <1>1. Shape /\ power = "on" /\ Stages /\ Doing("erase")
    BY DEF IInv, EraseBlock, Doing
  <1>2. AtErase /\ todo' = Full_Switch
    BY <1>1, StageOf, TodoTails DEF EraseBlock, Next1
  <1>3. /\ cur' = cur /\ ofs' = 0 /\ ofs_next' = ofs_next /\ Ram' = Ram /\ buffer' = buffer
        /\ nodes' = nodes /\ synced' = synced /\ wr' = wr /\ acked' = acked /\ cuts' = cuts
    BY DEF EraseBlock, Ram
  <1>4. flash'[cur] = Blank /\ flash'[Other(cur)] = Target
    BY <1>1, Halved DEF EraseBlock
  <1>5. CopyIs(Len(nodes))'
    BY <1>2, <1>3, <1>4 DEF AtErase, CopyIs, Copy, Target
  <1>6. Decided'
    BY <1>2, <1>3 DEF AtErase, Decided, MayRead, InFlight
  <1> QED BY <1>2, <1>3, <1>4, <1>5, <1>6 DEF AtErase, AtSwitch

\* The half that does not hold the data is erased.
LEMMA EraseNextStep ==
  ASSUME IInv, EraseNextBlock
  PROVE  AtSync' \/ AtEnding'
  <1>1. Shape /\ power = "on" /\ Stages /\ Doing("erase_next")
    BY DEF IInv, EraseNextBlock, Doing
  <1>2. (AtCompact /\ todo' = Full_Sync) \/ (AtKeep /\ todo' = Ending)
    BY <1>1, StageOf, TodoTails DEF EraseNextBlock, Next1
  <1>3. /\ cur' = cur /\ ofs' = ofs /\ ofs_next' = 0 /\ Ram' = Ram /\ buffer' = buffer
        /\ nodes' = nodes /\ synced' = synced /\ wr' = wr /\ acked' = acked /\ cuts' = cuts
    BY DEF EraseNextBlock, Ram
  <1>4. flash'[cur] = flash[cur] /\ Target' = Blank /\ flash'[Other(cur)] = Blank
    BY <1>1, <1>3, Halved DEF EraseNextBlock, Target
  <1>5. \A x : MayRead(x) => MayRead(x)'
    BY <1>3 DEF MayRead
  <1>6. Decided'
    <2>1. Decided
      BY <1>2 DEF AtCompact, AtKeep
    <2> QED BY <1>3, <1>5, <2>1 DEF Decided, InFlight
  <1>7. CASE AtCompact /\ todo' = Full_Sync
    <2>1. synced' = 0
      BY <1>3, <1>7 DEF AtCompact
    <2>2. CopyOf(Ram, 0) = <<>>
      <3>1. MemOK(Ram) /\ Len(Ram.nodes) \in Nat
        BY <1>1 DEF Shape, MemOK, ListOK
      <3> QED BY <3>1, CopyGrows
    <2>3. CopyIs(0)'
      BY <1>3, <1>4, <2>2, BlankOK DEF CopyIs, Copy, Blank
    <2>4. CopyIs(synced)'
      BY <2>1, <2>3 DEF CopyIs, Copy
    <2>5. Serves(flash[cur])'
      BY <1>3, <1>4, <1>5, <1>7 DEF AtCompact, Source, Serves
    <2>6. Source'
      BY <1>3, <1>4, <1>7, <2>5 DEF AtCompact, Source, InFlight
    <2> QED BY <1>6, <1>7, <2>4, <2>6 DEF AtSync
  <1>8. CASE AtKeep /\ todo' = Ending
    <2>1. InUse'
      BY <1>3, <1>4, <1>8 DEF AtKeep, InUse, Keeping, Open, Serves
    <2>2. Scan(flash[cur])' = Ram'
      BY <1>3, <1>4, <1>8 DEF AtKeep
    <2> QED BY <1>6, <1>8, <2>1, <2>2 DEF AtEnding
  <1> QED BY <1>2, <1>7, <1>8

\* The copy becomes the half in use.
LEMMA SwitchStep ==
  ASSUME IInv, SwitchBlock
  PROVE  AtEnding'
  <1>1. Shape /\ power = "on" /\ Stages /\ Doing("switch")
    BY DEF IInv, SwitchBlock, Doing
  <1>2. AtSwitch /\ todo' = Ending
    BY <1>1, StageOf, TodoTails DEF SwitchBlock, Next1
  <1>3. /\ cur' = Other(cur) /\ ofs' = ofs_next /\ ofs_next' = ofs /\ flash' = flash /\ Ram' = Ram
        /\ buffer' = buffer /\ nodes' = nodes /\ synced' = synced /\ wr' = wr /\ acked' = acked
        /\ cuts' = cuts
    BY DEF SwitchBlock, Ram
  <1>4. flash'[cur'] = Target /\ flash'[Other(cur')] = Blank
    BY <1>1, <1>2, <1>3, Halved DEF AtSwitch, Target
  <1>5. Len(nodes) \in 0 .. Len(nodes) /\ MemOK(Ram) /\ Ram.nodes = nodes
    BY <1>1 DEF Shape, MemOK, ListOK, Ram
  <1>6. Serves(Target) /\ Target.junk = "no" /\ ~Marked(Target)
    BY <1>1, <1>2, <1>5, CopyServes DEF AtSwitch, Decided
  <1>7. Scan(Target) = Ram
    BY <1>2, <1>5, CopyRebuilds DEF AtSwitch, CopyIs, Copy, Scan
  <1>8. InUse'
    BY <1>2, <1>3, <1>4, <1>6 DEF AtSwitch, InUse, Open, Serves, CopyIs
  <1>9. Decided'
    BY <1>2, <1>3 DEF AtSwitch, Decided, MayRead, InFlight
  <1> QED BY <1>2, <1>3, <1>4, <1>7, <1>8, <1>9 DEF AtEnding

\* The call returns.
LEMMA FinishStep ==
  ASSUME IInv, Finish
  PROVE  AtReady'
  <1>1. Shape /\ power = "on" /\ Stages /\ Doing("done")
    BY DEF IInv, Finish, Doing
  <1>2. AtEnding /\ todo' = <<>>
    BY <1>1, StageOf, TodoTails DEF Finish, Next1
  <1>3. /\ flash' = flash /\ cur' = cur /\ ofs' = ofs /\ ofs_next' = ofs_next /\ Ram' = Ram
        /\ buffer' = buffer /\ synced' = synced /\ cuts' = cuts /\ acked' = buffer /\ wr' = NoWrite
    BY DEF Finish, Ram, ram
  <1>4. InUse'
    BY <1>2, <1>3 DEF AtEnding, InUse
  <1> QED BY <1>2, <1>3, <1>4 DEF AtEnding, AtReady

\* Every step of a call keeps the invariant.
LEMMA StepIInv ==
  ASSUME IInv, Step
  PROVE  IInv'
  <1>1. /\ Shape /\ power = "on" /\ Stages /\ ofs \in 0 .. NorSize /\ ofs_next \in 0 .. NorSize
        /\ power' = "on"
    BY DEF IInv, Step, UpdateBlock, SaveCrc, WriteBuffer, SyncNode, SyncDone, EraseBlock,
           EraseNextBlock, SwitchBlock, Finish, Doing
  <1>2. Shape'
    BY <1>1, StepShape
  <1>3. CASE UpdateBlock
    BY <1>1, <1>2, <1>3, PlainStep DEF IInv, Stages
  <1>4. CASE SaveCrc
    BY <1>1, <1>2, <1>4, SealStep DEF IInv, Stages, SaveCrc, ram
  <1>5. CASE WriteBuffer
    BY <1>1, <1>2, <1>5, BufferStep DEF IInv, Stages, WriteBuffer
  <1>6. CASE SyncNode
    BY <1>1, <1>2, <1>6, SyncStep DEF IInv, Stages
  <1>7. CASE SyncDone
    BY <1>1, <1>2, <1>7, SyncedStep DEF IInv, Stages, SyncDone
  <1>8. CASE EraseBlock
    BY <1>1, <1>2, <1>8, EraseStep, Sizes DEF IInv, Stages, EraseBlock
  <1>9. CASE EraseNextBlock
    BY <1>1, <1>2, <1>9, EraseNextStep, Sizes DEF IInv, Stages, EraseNextBlock
  <1>10. CASE SwitchBlock
    BY <1>1, <1>2, <1>10, SwitchStep DEF IInv, Stages, SwitchBlock
  <1>11. CASE Finish
    BY <1>1, <1>2, <1>11, FinishStep DEF IInv, Stages, Finish, ram
  <1> QED BY <1>3, <1>4, <1>5, <1>6, <1>7, <1>8, <1>9, <1>10, <1>11 DEF Step
-----------------------------------------------------------------------------
(* The power cuts.                                                         *)

\* What a power cut finds is what a reader may find later.
LEMMA CutReads ==
  ASSUME Shape, PowerCut
  PROVE  /\ acked' = acked /\ Store!Applied(acked', wr') = Store!Applied(acked, wr)
         /\ wr' = NoWrite \/ wr'.cut
         /\ nodes' = <<>> /\ cuts' \in Nat /\ cuts' > 0
         /\ OneCut => cuts = 0
  <1>1. acked' = acked /\ Store!Applied(acked', wr') = Store!Applied(acked, wr)
    BY AppliedIs DEF PowerCut
  <1>3. wr' = NoWrite \/ wr'.cut
    BY DEF PowerCut, Shape
  <1>4. /\ cuts \in Nat /\ cuts' = cuts + 1 /\ cuts < MaxCuts /\ nodes' = <<>>
    BY DEF PowerCut, Shape
  <1>5. cuts' \in Nat /\ cuts' > 0 /\ (OneCut => cuts = 0)
    BY <1>4, Sizes DEF OneCut
  <1> QED BY <1>1, <1>3, <1>4, <1>5

\* A call that power may fail in has a marked half to copy; only the boot after a
\* torn node copies one without.
LEMMA CutSource ==
  ASSUME Shape, PowerCut, CutAllowed, todo # <<>>, Source
  PROVE  flash[cur].junk = "no" /\ Marked(flash[cur]) /\ nodes # <<>>
  <1>1. OneCut => cuts = 0
    BY CutReads
  <1>2. ~(~Whole /\ ~InFlight /\ cuts > 0)
    <2>1. cuts > 0 => cuts # 0
      BY DEF Shape
    <2> QED BY <1>1, <2>1 DEF CutAllowed, Settled
  <1> QED BY <1>2 DEF Source

\* One half is in use, and its log ends in no more than a torn node.
LEMMA CutLone ==
  ASSUME Shape, PowerCut, NEW h \in 0 .. 1, flash'[Other(h)] = Blank, Serves(flash'[h]),
         flash'[h].junk = "no" \/ (flash'[h].junk = "tail" /\ ~Whole)
  PROVE  Off'
  <1>2. Lone(h)'
    BY CutReads DEF Lone, Serves, MayRead
  <1> QED BY <1>2, CutReads DEF Off

\* A sealed half is being copied, or what its copy left is being erased.
LEMMA CutSealing ==
  ASSUME Shape, PowerCut, NEW h \in 0 .. 1, ~Marked(flash'[Other(h)]), Serves(flash'[h]),
         flash'[h].junk = "no", Sealed(flash'[h])
  PROVE  Off'
  <1>2. Sealing(h)'
    BY CutReads DEF Sealing, Serves, MayRead
  <1> QED BY <1>2, CutReads DEF Off

\* The copy is what a boot will keep.
LEMMA CutKeeping ==
  ASSUME Shape, PowerCut, NEW h \in 0 .. 1, Stale(flash'[Other(h)]), Serves(flash'[h]),
         flash'[h].junk = "no", ~Marked(flash'[h]), flash'[h].nodes # <<>>
  PROVE  Off'
  <1>2. Keeping(h)'
    BY CutReads DEF Keeping, Serves, MayRead
  <1> QED BY <1>2, CutReads DEF Off

\* Where the power fails, by what is first to do.
LEMMA CutFlash ==
  ASSUME Shape, PowerCut
  PROVE  \/ flash' = flash
         \/ /\ Doing("node") /\ "node" \in Torn
            /\ flash' = [flash EXCEPT ![cur] = Garbled(flash[cur], ofs)]
         \/ /\ Doing("sync") /\ "sync" \in Torn
            /\ flash' = [flash EXCEPT ![Other(cur)] = Garbled(Target, ofs_next)]
         \/ /\ Doing("mark") /\ flash' = [flash EXCEPT ![cur] = MarkedPart(flash[cur])]
         \/ /\ Doing("erase")
            /\ \E b \in HalfErased(flash[cur]) : flash' = [flash EXCEPT ![cur] = b]
         \/ /\ Doing("erase_next")
            /\ \E b \in HalfErased(Target) : flash' = [flash EXCEPT ![Other(cur)] = b]
  <1>1. SUFFICES ASSUME flash' # flash
        PROVE  \/ /\ Doing("node") /\ "node" \in Torn
                  /\ flash' = [flash EXCEPT ![cur] = Garbled(flash[cur], ofs)]
               \/ /\ Doing("sync") /\ "sync" \in Torn
                  /\ flash' = [flash EXCEPT ![Other(cur)] = Garbled(Target, ofs_next)]
               \/ /\ Doing("mark") /\ flash' = [flash EXCEPT ![cur] = MarkedPart(flash[cur])]
               \/ /\ Doing("erase")
                  /\ \E b \in HalfErased(flash[cur]) : flash' = [flash EXCEPT ![cur] = b]
               \/ /\ Doing("erase_next")
                  /\ \E b \in HalfErased(Target) : flash' = [flash EXCEPT ![Other(cur)] = b]
    OBVIOUS
  <1> DEFINE op == Head(todo)
  <1>2. todo # <<>> /\ flash' \in CutDuring(op) /\ Doing(op)
    BY <1>1 DEF PowerCut, Doing
  <1> HIDE DEF op
  <1>3. CASE op = "node"
    BY <1>2, <1>3 DEF CutDuring
  <1>4. CASE op = "sync"
    BY <1>2, <1>4 DEF CutDuring, Target
  <1>5. CASE op = "mark"
    BY <1>2, <1>5 DEF CutDuring
  <1>6. CASE op = "erase"
    BY <1>2, <1>6 DEF CutDuring
  <1>7. CASE op = "erase_next"
    BY <1>2, <1>7 DEF CutDuring, Target
  <1>8. CASE op \notin {"node", "sync", "mark", "erase", "erase_next"}
    BY <1>2, <1>8 DEF CutDuring
  <1> QED BY <1>3, <1>4, <1>5, <1>6, <1>7, <1>8

\* Before a write has reached the array, and after a call is done with the flash,
\* the half in use can be read.
LEMMA InUseServes ==
  ASSUME Shape, AtReady \/ AtEnding \/ AtPlainWrite \/ AtPlainBuffer \/ AtFullWrite \/ AtFullBuffer
  PROVE  Serves(flash[cur]) /\ flash[cur].junk = "no" /\ Target = Blank
  <1>1. Good(flash[cur]) /\ flash[cur].junk = "no" /\ Target = Blank
    BY DEF AtReady, AtEnding, AtPlainWrite, AtPlainBuffer, AtFullWrite, AtFullBuffer, InUse, Open, Target
  <1>2. MayRead(acked) /\ MemOK(Ram) /\ Ram.buffer = buffer
    BY ReadOK DEF Shape, Ram
  <1>3. CASE AtReady \/ AtPlainWrite \/ AtFullWrite \/ AtFullBuffer
    <2>1. Scan(flash[cur]).buffer = acked
      BY <1>2, <1>3 DEF AtReady, AtPlainWrite, AtFullWrite, AtFullBuffer, Asked
    <2> QED BY <1>1, <1>2, <2>1 DEF Serves
  <1>4. CASE AtEnding
    <2>1. Scan(flash[cur]).buffer = buffer /\ MayRead(buffer)
      BY <1>2, <1>4 DEF AtEnding, Decided
    <2> QED BY <1>1, <2>1 DEF Serves
  <1>5. CASE AtPlainBuffer
    <2>1. Writable(wr) /\ InsideNode(wr) /\ Ram.buffer = acked
      BY <1>2, <1>5 DEF AtPlainBuffer, Asked, Writable, Shape, Writing
    <2>2. MayRead(Update(Ram, wr).buffer)
      BY <1>2, <2>1, ReadOK
    <2> QED BY <1>1, <1>5, <2>2 DEF Serves, AtPlainBuffer, Update
  <1> QED BY <1>3, <1>4, <1>5

\* A cut while the half in use is the only one.
LEMMA CutInUse ==
  ASSUME IInv, CutAllowed, PowerCut,
         AtReady \/ AtEnding \/ AtPlainWrite \/ AtPlainBuffer \/ AtFullWrite \/ AtFullBuffer
  PROVE  Off'
  <1>1. Shape /\ Stages
    BY DEF IInv, PowerCut
  <1>2. Serves(flash[cur]) /\ flash[cur].junk = "no" /\ Target = Blank
    BY <1>1, InUseServes
  <1>3. cur \in 0 .. 1 /\ flash[cur] \in Logs /\ flash[Other(cur)] = Blank
    BY <1>1, <1>2, Halved DEF Target
  <1>4. CASE flash' = flash
    BY <1>1, <1>2, <1>3, <1>4, CutLone
  <1>5. CASE Doing("node") /\ "node" \in Torn
             /\ flash' = [flash EXCEPT ![cur] = Garbled(flash[cur], ofs)]
    <2>1. ofs = Used(flash[cur])
      BY <1>1, <1>5, StageOf DEF AtPlainWrite, InUse
    <2> DEFINE b == flash[cur]
               c == Garbled(b, ofs)
    <2>2. c = [nodes |-> b.nodes, junk |-> "tail", mark |-> Spoilt(b.mark)]
      BY <1>3, <2>1, GarbledBehind
    <2>3. flash'[cur] = c /\ flash'[Other(cur)] = Blank
      BY <1>1, <1>2, <1>5, Halved
    <2> HIDE DEF c, b
    <2>4. Marked(c) => Marked(b)
      BY <2>2 DEF Marked, Spoilt
    <2>5. Serves(c)
      BY <1>2, <2>2, <2>4 DEF Serves, Good, Used, Scan, b
    <2>7. ~Whole
      BY <1>5 DEF Whole
    <2>8. c.junk = "tail"
      BY <2>2
    <2> QED BY <1>1, <1>3, <2>3, <2>5, <2>7, <2>8, CutLone
  <1>6. CASE Doing("mark") /\ flash' = [flash EXCEPT ![cur] = MarkedPart(flash[cur])]
    <2>1. flash[cur].nodes # <<>>
      BY <1>1, <1>6, StageOf DEF AtFullWrite
    <2> DEFINE b == flash[cur]
               c == MarkedPart(b)
    <2>2. c.nodes = b.nodes /\ c.junk = "no"
      BY <1>2, <1>3, MarkedOK
    <2>3. flash'[cur] = c /\ flash'[Other(cur)] = Blank
      BY <1>1, <1>2, <1>6, Halved
    <2> HIDE DEF c
    <2>4. Serves(c)
      BY <1>2, <2>1, <2>2 DEF Serves, Good, Used, Scan
    <2> QED BY <1>1, <1>3, <2>2, <2>3, <2>4, CutLone
  <1>7. \A op \in {"sync", "erase", "erase_next"} : ~Doing(op)
    BY TodoTails DEF Doing, AtReady, AtEnding, AtPlainWrite, AtPlainBuffer, AtFullWrite, AtFullBuffer
  <1> QED BY <1>1, <1>4, <1>5, <1>6, <1>7, CutFlash

\* A cut while the sealed half is copied: a boot starts from it again, or, where its
\* seal does not hold, from as much of the copy as there is.
LEMMA CutSync ==
  ASSUME IInv, CutAllowed, PowerCut, AtSync
  PROVE  Off'
  <1>1. Shape /\ Stages
    BY DEF IInv, PowerCut
  <1>2. /\ cur \in 0 .. 1 /\ Other(cur) \in 0 .. 1 /\ Other(Other(cur)) = cur /\ Target \in Logs
        /\ Target = flash[Other(cur)]
    BY <1>1, Halved DEF Target
  <1>3. /\ Serves(flash[cur]) /\ flash[cur].junk = "no" /\ Marked(flash[cur])
        /\ cuts = 0 => Sealed(flash[cur])
    BY <1>1, CutSource, TodoTails DEF AtSync, Source
  <1>4. /\ CopyIs(synced) /\ MayRead(buffer) /\ synced \in 0 .. Len(nodes) /\ ~Marked(Target)
        /\ Target.junk = "no"
    BY <1>1 DEF AtSync, Decided, Shape, CopyIs, Marked, Unmarked
  <1>5. CASE flash' = flash
    <2>1. CASE Sealed(flash[cur])
      BY <1>1, <1>2, <1>3, <1>4, <1>5, <2>1, CutSealing
    <2>2. CASE synced = 0
      <3>1. CopyOf(Ram, 0) = <<>>
        <4>1. MemOK(Ram) /\ Len(Ram.nodes) \in Nat
          BY <1>1 DEF Shape, MemOK, ListOK
        <4> QED BY <4>1, CopyGrows
      <3>2. flash'[Other(cur)] = Blank
        BY <1>2, <1>4, <1>5, <2>2, <3>1 DEF CopyIs, Copy, Blank
      <3> QED BY <1>1, <1>2, <1>3, <1>5, <3>2, CutLone
    <2>3. CASE ~Sealed(flash[cur]) /\ synced # 0
      <3>1. ~OneCut
        BY <1>1, <1>3, <2>3, CutReads
      <3>2. Serves(Target)
        BY <1>1, <1>4, <3>1, CopyServes
      <3>3. Target.nodes # <<>>
        <4>1. MemOK(Ram) /\ synced \in 0 .. Len(Ram.nodes)
          BY <1>1, <1>4 DEF Shape, Ram
        <4>2. Len(Target.nodes) = synced
          BY <1>4, <4>1, CopyGrows DEF CopyIs, Copy
        <4> QED BY <2>3, <4>2
      <3>4. Stale(flash[cur])
        BY <1>3, <2>3 DEF Stale
      <3> QED BY <1>1, <1>2, <1>4, <1>5, <3>2, <3>3, <3>4, CutKeeping
    <2> QED BY <2>1, <2>2, <2>3
  <1>6. CASE "sync" \in Torn /\ flash' = [flash EXCEPT ![Other(cur)] = Garbled(Target, ofs_next)]
    <2>1. OneCut
      BY <1>6 DEF CutAllowed, Whole
    <2>2. Sealed(flash[cur])
      BY <1>1, <1>3, <2>1, CutReads
    <2> DEFINE c == Garbled(Target, ofs_next)
    <2>3. c.mark = Spoilt(Target.mark)
      BY <1>2, <1>4, GarbledBehind DEF CopyIs
    <2>4. flash'[cur] = flash[cur] /\ flash'[Other(cur)] = c
      BY <1>1, <1>6, Halved
    <2> HIDE DEF c
    <2>5. ~Marked(c)
      BY <1>4, <2>3 DEF Marked, Spoilt
    <2> QED BY <1>1, <1>2, <1>3, <2>2, <2>4, <2>5, CutSealing
  <1>7. \A op \in {"node", "mark", "erase", "erase_next"} : ~Doing(op)
    BY TodoTails DEF Doing, AtSync
  <1> QED BY <1>1, <1>5, <1>6, <1>7, CutFlash

\* A cut while the half that was copied is erased: the seal decides.
LEMMA CutErase ==
  ASSUME IInv, CutAllowed, PowerCut, AtErase
  PROVE  Off'
  <1>1. Shape /\ Stages
    BY DEF IInv, PowerCut
  <1>2. /\ cur \in 0 .. 1 /\ Other(cur) \in 0 .. 1 /\ Other(Other(cur)) = cur
        /\ flash[cur] \in Logs /\ Target = flash[Other(cur)]
    BY <1>1, Halved DEF Target
  <1>3. Serves(flash[cur]) /\ flash[cur].junk = "no" /\ Marked(flash[cur]) /\ nodes # <<>>
    BY <1>1, CutSource, TodoTails DEF AtErase, Source
  <1>4. Len(nodes) \in 0 .. Len(nodes) /\ MemOK(Ram) /\ Ram.nodes = nodes /\ Len(nodes) # 0
    BY <1>1, <1>3 DEF Shape, MemOK, ListOK, Ram
  <1>5. Serves(Target) /\ Target.junk = "no" /\ ~Marked(Target)
    BY <1>1, <1>4, CopyServes DEF AtErase, Decided
  <1>6. Target.nodes # <<>>
    <2>1. Len(Target.nodes) = Len(nodes)
      BY <1>4, CopyGrows DEF AtErase, CopyIs, Copy
    <2> QED BY <1>4, <2>1
  <1>7. CASE flash' = flash
    <2>1. CASE Sealed(flash[cur])
      BY <1>1, <1>2, <1>3, <1>5, <1>7, <2>1, CutSealing
    <2>2. CASE ~Sealed(flash[cur])
      <3>1. Stale(flash[cur])
        BY <1>3, <2>2 DEF Stale
      <3> QED BY <1>1, <1>2, <1>5, <1>6, <1>7, <3>1, CutKeeping
    <2> QED BY <2>1, <2>2
  <1>8. CASE \E b \in HalfErased(flash[cur]) : flash' = [flash EXCEPT ![cur] = b]
    <2>1. PICK b \in HalfErased(flash[cur]) : flash' = [flash EXCEPT ![cur] = b]
      BY <1>8
    <2>2. flash'[cur] = b /\ flash'[Other(cur)] = Target
      BY <1>1, <2>1, Halved
    <2>3. Sealed(flash[cur]) \/ Stale(flash[cur])
      BY <1>3 DEF Stale
    <2>4. Stale(b)
      BY <1>2, <2>3, HalfErasedOK
    <2> QED BY <1>1, <1>2, <1>5, <1>6, <2>2, <2>4, CutKeeping
  <1>9. \A op \in {"node", "sync", "mark", "erase_next"} : ~Doing(op)
    BY TodoTails DEF Doing, AtErase
  <1> QED BY <1>1, <1>7, <1>8, <1>9, CutFlash

\* A cut between the erase and the switch.
LEMMA CutSwitch ==
  ASSUME IInv, PowerCut, AtSwitch
  PROVE  Off'
  <1>1. Shape
    BY DEF IInv
  <1>2. Other(cur) \in 0 .. 1 /\ flash[Other(Other(cur))] = Blank /\ Target = flash[Other(cur)]
    BY <1>1, Halved DEF Target, AtSwitch
  <1>3. Len(nodes) \in 0 .. Len(nodes)
    BY <1>1 DEF Shape, MemOK, ListOK, Ram
  <1>4. Serves(Target) /\ Target.junk = "no"
    BY <1>1, <1>3, CopyServes DEF AtSwitch, Decided
  <1>5. \A op \in {"node", "sync", "mark", "erase", "erase_next"} : ~Doing(op)
    BY TodoTails DEF Doing, AtSwitch
  <1>6. flash' = flash
    BY <1>1, <1>5, CutFlash
  <1> QED BY <1>1, <1>2, <1>4, <1>6, CutLone

\* A cut while a boot clears the other half.
LEMMA CutRepair ==
  ASSUME IInv, CutAllowed, PowerCut, AtCompact \/ AtKeep
  PROVE  Off'
  <1>1. Shape
    BY DEF IInv
  <1>2. /\ cur \in 0 .. 1 /\ Other(cur) \in 0 .. 1 /\ Other(Other(cur)) = cur
        /\ Target \in Logs /\ Target = flash[Other(cur)]
    BY <1>1, Halved DEF Target
  <1>3. Serves(flash[cur]) /\ flash[cur].junk = "no"
    BY <1>1, CutSource, TodoTails DEF AtCompact, AtKeep, Source, Keeping
  <1>4. PICK b \in {Target} \cup HalfErased(Target) :
           flash'[cur] = flash[cur] /\ flash'[Other(cur)] = b
    <2>1. \A op \in {"node", "sync", "mark", "erase"} : ~Doing(op)
      BY TodoTails DEF Doing, AtCompact, AtKeep
    <2>2. CASE flash' = flash
      BY <1>2, <2>2
    <2>3. CASE \E b \in HalfErased(Target) : flash' = [flash EXCEPT ![Other(cur)] = b]
      BY <1>1, <2>3, Halved
    <2> QED BY <1>1, <2>1, <2>2, <2>3, CutFlash
  <1>5. CASE AtCompact
    <2>1. CASE Target = Blank
      <3>1. b = Blank
        BY <1>4, <2>1 DEF HalfErased
      <3> QED BY <1>1, <1>2, <1>3, <1>4, <3>1, CutLone
    <2>2. CASE Sealed(flash[cur]) /\ ~Marked(Target)
      <3>1. ~Marked(b)
        BY <1>2, <1>4, <2>2, HalfErasedOK
      <3> QED BY <1>1, <1>2, <1>3, <1>4, <2>2, <3>1, CutSealing
    <2> QED BY <1>5, <2>1, <2>2 DEF AtCompact
  <1>6. CASE AtKeep
    <2>1. Stale(Target) /\ ~Marked(flash[cur]) /\ flash[cur].nodes # <<>>
      BY <1>2, <1>6 DEF AtKeep, Keeping
    <2>2. Stale(b)
      BY <1>2, <1>4, <2>1, HalfErasedOK
    <2> QED BY <1>1, <1>2, <1>3, <1>4, <2>1, <2>2, CutKeeping
  <1> QED BY <1>5, <1>6

\* Whenever the power fails, a boot finds what it needs.
LEMMA CutIInv ==
  ASSUME IInv, CutAllowed, PowerCut
  PROVE  IInv'
  <1>1. Shape /\ Stages
    BY DEF IInv, PowerCut
  <1>2. Shape'
    BY <1>1, CutShape
  <1>3. Off'
    BY <1>1, CutInUse, CutSync, CutErase, CutSwitch, CutRepair DEF Stages
  <1> QED BY <1>2, <1>3, Sizes DEF IInv, PowerCut

-----------------------------------------------------------------------------
(* What is proved of the driver.                                           *)

\* The invariant holds as long as the callers stay inside the array and the power
\* fails only where the driver stands it.
THEOREM Invariant ==
  ASSUME Inside
  PROVE  Spec /\ CutsAllowed => []IInv
  <1>1. Init => IInv
    BY InitIInv
  <1>2. IInv /\ [Next]_vars /\ [PowerCut => CutAllowed]_vars => IInv'
    <2> SUFFICES ASSUME IInv, [Next]_vars, [PowerCut => CutAllowed]_vars PROVE IInv'
      OBVIOUS
    <2>1. CASE Boot
      BY <2>1, BootIInv
    <2>2. CASE Step
      BY <2>2, StepIInv
    <2>3. CASE PowerCut
      <3>1. power' # power
        BY <2>3 DEF PowerCut
      <3>2. CutAllowed
        BY <2>3, <3>1 DEF vars
      <3> QED BY <2>3, <3>2, CutIInv
    <2>4. CASE \E rq \in Requests : Write(rq[1], rq[2])
      BY <2>4, WriteIInv
    <2>5. CASE UNCHANGED vars
      <3>1. /\ flash' = flash /\ cur' = cur /\ ofs' = ofs /\ ofs_next' = ofs_next /\ buffer' = buffer
            /\ nodes' = nodes /\ todo' = todo /\ synced' = synced /\ wr' = wr /\ acked' = acked
            /\ power' = power /\ writes' = writes /\ cuts' = cuts
        BY <2>5 DEF vars
      <3>2. Ram' = Ram
        BY <3>1 DEF Ram
      <3>3. Shape'
        BY <3>1, <3>2 DEF IInv, Shape
      <3>4. MayRead(buffer)' = MayRead(buffer) /\ (\A h : Serves(flash[h])' = Serves(flash[h]))
        BY <3>1 DEF Serves, MayRead
      <3>5. Off' = Off
        BY <3>1, <3>4 DEF Off, Lone, Sealing, Keeping
      <3>6. InFlight' = InFlight /\ Decided' = Decided /\ Asked' = Asked /\ InUse' = InUse
        BY <3>1, <3>4 DEF InFlight, Decided, Asked, InUse
      <3>7. Source' = Source /\ Target' = Target /\ free_size' = free_size
        BY <3>1, <3>4, <3>6 DEF Source, Target, free_size
      <3>8. CopyIs(synced)' = CopyIs(synced) /\ CopyIs(Len(nodes))' = CopyIs(Len(nodes))
        BY <3>1, <3>2, <3>7 DEF CopyIs, Copy
      <3>9. Stages' = Stages
        <4>1. AtReady' = AtReady /\ AtEnding' = AtEnding /\ AtPlainWrite' = AtPlainWrite
              /\ AtPlainBuffer' = AtPlainBuffer /\ AtFullWrite' = AtFullWrite
          BY <3>1, <3>2, <3>6, <3>7 DEF AtReady, AtEnding, AtPlainWrite, AtPlainBuffer, AtFullWrite
        <4>2. AtFullBuffer' = AtFullBuffer /\ AtSync' = AtSync /\ AtErase' = AtErase
              /\ AtSwitch' = AtSwitch
          BY <3>1, <3>2, <3>6, <3>7, <3>8 DEF AtFullBuffer, AtSync, AtErase, AtSwitch
        <4>3. AtCompact' = AtCompact /\ AtKeep' = AtKeep
          BY <3>1, <3>2, <3>4, <3>6, <3>7 DEF AtCompact, AtKeep, Keeping
        <4> QED BY <4>1, <4>2, <4>3 DEF Stages
      <3> QED BY <3>1, <3>3, <3>5, <3>9 DEF IInv
    <2> QED BY <2>1, <2>2, <2>3, <2>4, <2>5 DEF Next
  <1> QED BY <1>1, <1>2, PTL DEF Spec, CutsAllowed

\* Between calls the next half is blank, both offsets are right and the current
\* log has no damage.
THEOREM ReadyIsCleanAlways ==
  ASSUME Inside
  PROVE  Spec /\ CutsAllowed => []ReadyIsClean
  <1>1. IInv => ReadyIsClean
    <2> SUFFICES ASSUME IInv, Ready PROVE ReadyIsClean
      BY DEF ReadyIsClean
    <2>1. Shape /\ AtReady
      BY ReadyStage DEF IInv, Ready
    <2>2. Used(flash[cur]) \in Nat
      BY <2>1, Halved, UsedNat
    <2>3. Used(flash[cur]) =< NorSize - Mark
      BY <2>1, <2>2, Sizes DEF AtReady, InUse, Open, Good
    <2> QED BY <2>1, <2>3 DEF ReadyIsClean, AtReady, InUse, Open
  <1> QED BY <1>1, Invariant, PTL

\* Between calls a scan of the current half would rebuild exactly the array and
\* the range list in RAM.
THEOREM LogMatchesArrayAlways ==
  ASSUME Inside
  PROVE  Spec /\ CutsAllowed => []LogMatchesArray
  <1>1. IInv => LogMatchesArray
    BY ReadyStage DEF IInv, Ready, LogMatchesArray, AtReady, Ram
  <1> QED BY <1>1, Invariant, PTL

\* However many cuts of the allowed kind there are, no assert of prepare_block
\* fails.
THEOREM NoAssertAlways ==
  ASSUME Inside
  PROVE  Spec /\ CutsAllowed => []Alive /\ []NoAssert
  <1>1. IInv => Alive /\ NoAssert
    BY DEF IInv, Alive, NoAssert
  <1> QED BY <1>1, Invariant, PTL

\* A sequence over a set is one over a larger set.
LEMMA SeqWider ==
  ASSUME NEW S, NEW T, \A x \in S : x \in T, NEW s \in Seq(S)
  PROVE  s \in Seq(T)
  <1>1. Len(s) \in Nat /\ s \in [1 .. Len(s) -> S]
    BY LenProperties
  <1>2. s \in [1 .. Len(s) -> T]
    BY <1>1
  <1> QED BY <1>1, <1>2

\* Every variable keeps its type.
THEOREM TypeCorrect ==
  ASSUME Inside
  PROVE  Spec /\ CutsAllowed => []TypeOK
  <1>1. IInv => TypeOK
    <2> SUFFICES ASSUME IInv PROVE TypeOK
      OBVIOUS
    <2>1. Shape /\ ofs \in 0 .. NorSize /\ ofs_next \in 0 .. NorSize
      BY DEF IInv
    <2>2. \A b \in Logs : b \in Halves
      <3>1. \A n \in Records : n \in [start : Nat, data : Seq(0 .. MaxWrites)]
        BY DEF Records, Values
      <3>2. \A s \in Seq(Records) : s \in Seq([start : Nat, data : Seq(0 .. MaxWrites)])
        BY <3>1, SeqWider
      <3> QED BY <3>2 DEF Logs, Halves
    <2>3. flash \in [0 .. 1 -> Halves]
      BY <2>1, <2>2 DEF Shape
    <2>4. buffer \in Arrays /\ nodes \in Seq(Ranges)
      BY <2>1 DEF Shape, MemOK, ListOK, Ram
    <2>5. nodes \in Seq([start : Cells, len : 1 .. BufSize])
      <3>1. \A p \in Ranges : p \in [start : Cells, len : 1 .. BufSize]
        BY DEF Ranges
      <3> QED BY <2>4, <3>1, SeqWider
    <2>6. todo \in Seq(Ops)
      <3>1. FullWrite \in Seq(Ops)
        BY DEF FullWrite, Ops
      <3>2. Full_Buffer \in Seq(Ops)
        BY DEF Full_Buffer, Ops
      <3>3. PlainWrite \in Seq(Ops)
        BY DEF PlainWrite, Ops
      <3>4. Plain_Buffer \in Seq(Ops)
        BY DEF Plain_Buffer, Ops
      <3>5. Full_Sync \in Seq(Ops)
        BY DEF Full_Sync, Ops
      <3>6. Full_Erase \in Seq(Ops)
        BY DEF Full_Erase, Ops
      <3>7. Full_Switch \in Seq(Ops)
        BY DEF Full_Switch, Ops
      <3>8. Compact \in Seq(Ops)
        BY DEF Compact, Ops
      <3>9. KeepCurrent \in Seq(Ops)
        BY DEF KeepCurrent, Ops
      <3>10. EraseBoth \in Seq(Ops)
        BY DEF EraseBoth, Ops
      <3>11. Ending \in Seq(Ops)
        BY DEF Ending, Ops
      <3>12. <<>> \in Seq(Ops)
        OBVIOUS
      <3> QED BY <2>1, <3>1, <3>2, <3>3, <3>4, <3>5, <3>6, <3>7, <3>8, <3>9, <3>10, <3>11, <3>12
              DEF Shape, Todos, Writing
    <2> QED BY <2>1, <2>3, <2>4, <2>5, <2>6 DEF Shape, TypeOK, Values
  <1> QED BY <1>1, Invariant, PTL

\* A cell may be lost, but it never goes back to an older value, however many
\* cuts of the allowed kind there are.
THEOREM NeverOlderAlways ==
  ASSUME Inside
  PROVE  Spec /\ CutsAllowed => [][OnlyNewer]_acked /\ NeverOlder
  <1>1. IInv /\ [Next]_vars => [OnlyNewer]_acked
    <2> SUFFICES ASSUME IInv, [Next]_vars, acked' # acked
                 PROVE  \A a \in Cells : acked'[a] \in {acked[a], Store!Applied(acked, wr)[a], 0}
      BY DEF OnlyNewer
    <2>1. Finish
      BY DEF Next, vars, Boot, BootBlank, BootBroken, BootOne, BootSealed, BootUnmarked, BootHeaded,
             Booting, Step, UpdateBlock, SaveCrc, WriteBuffer, SyncNode, SyncDone, EraseBlock,
             EraseNextBlock, SwitchBlock, PowerCut, Write
    <2>2. Decided /\ acked' = buffer
      BY <2>1, StageOf DEF IInv, Finish, Doing, AtEnding
    <2> QED BY <2>2 DEF Decided, MayRead
  <1>2. [OnlyNewer]_acked => [cuts > 2 \/ OnlyNewer]_acked
    OBVIOUS
  <1> QED BY <1>1, <1>2, Invariant, PTL DEF Spec, NeverOlder

\* Each step is a step of the store, or none of it.
LEMMA StoreStep ==
  ASSUME OneCut, IInv, [Next]_vars
  PROVE  [Store!ANext]_(Store!avars)
  <1>1. CASE Finish
    <2>1. Decided /\ acked' = buffer /\ wr' = NoWrite /\ Shape
      BY <1>1, StageOf DEF IInv, Finish, Doing, AtEnding
    <2>2. acked \in Arrays /\ buffer \in {acked, Store!Applied(acked, wr)}
      BY <2>1 DEF Decided, MayRead, Shape
    <2>3. CASE wr = NoWrite
      <3>1. acked' = acked /\ wr' = wr
        BY <2>1, <2>2, <2>3, AppliedIs
      <3> QED BY <3>1 DEF Store!avars
    <2>4. CASE wr # NoWrite /\ acked' = Store!Applied(acked, wr)
      BY <2>1, <2>4 DEF Store!ANext, Store!Apply
    <2>5. CASE wr # NoWrite /\ acked' # Store!Applied(acked, wr)
      <3>1. acked' = acked
        BY <2>1, <2>2, <2>5
      <3>2. wr.cut
        BY <2>1, <2>5 DEF Decided, InFlight
      <3> QED BY <2>1, <2>5, <3>1, <3>2 DEF Store!ANext, Store!Lose
    <2> QED BY <2>3, <2>4, <2>5
  <1>2. CASE \E rq \in Requests : Write(rq[1], rq[2])
    <2>1. PICK rq \in Requests : Write(rq[1], rq[2])
      BY <1>2
    <2>2. AtReady /\ Shape
      BY <2>1, ReadyStage DEF IInv, Write, Ready
    <2>3. wr' # NoWrite /\ ~wr'.cut
      BY <2>1, <2>2, WriteShape
    <2>4. acked' = acked
      BY <2>1 DEF Write
    <2> QED BY <2>2, <2>3, <2>4 DEF AtReady, Store!ANext, Store!Request
  <1>3. CASE PowerCut
    BY <1>3 DEF PowerCut, Store!ANext, Store!Hit, Store!avars
  <1>4. CASE ~Finish /\ ~PowerCut /\ ~(\E rq \in Requests : Write(rq[1], rq[2]))
    <2>1. acked' = acked /\ wr' = wr
      BY <1>4 DEF Next, vars, Boot, BootBlank, BootBroken, BootOne, BootSealed, BootUnmarked, BootHeaded,
             Booting, Step, UpdateBlock, SaveCrc, WriteBuffer, SyncNode, SyncDone, EraseBlock,
             EraseNextBlock, SwitchBlock
    <2> QED BY <2>1 DEF Store!avars
  <1> QED BY <1>1, <1>2, <1>3, <1>4

\* With one power cut the driver implements the store: every write that was not hit
\* is applied, and the one that was is applied or lost as a whole.
THEOREM StoreImplemented ==
  ASSUME Inside, OneCut
  PROVE  Spec => ImplementsStore
  <1>1. Init => Store!AInit
    BY DEF Init, Zero, Store!AInit
  <1>2. IInv /\ [Next]_vars => [Store!ANext]_(Store!avars)
    BY StoreStep
  <1>3. [PowerCut => CutAllowed]_vars
    BY DEF CutAllowed
  <1>4. Spec => []IInv
    BY <1>3, Invariant, PTL DEF CutsAllowed
  <1> QED BY <1>1, <1>2, <1>4, PTL DEF Spec, ImplementsStore, Store!ASpec
=============================================================================
